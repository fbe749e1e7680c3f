--------------------------- MODULE MCColumnCache ---------------------------
(* Instances of ColumnCache for TLC.                                       *)
EXTENDS ColumnCache

ThreeColumns == 1 .. 3
LastColumn == {3}
=============================================================================
