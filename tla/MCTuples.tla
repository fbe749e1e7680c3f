------------------------------ MODULE MCTuples ------------------------------
(* A table with a primary key of two columns, a unique column, and a       *)
(* TOASTed column that may be NULL.                                        *)
EXTENDS Tuples

MCColumns == {"region", "id", "name", "doc"}
MCPK      == {"region", "id"}
MCIndex   == {"name"}
MCToast   == {"doc"}
=============================================================================
