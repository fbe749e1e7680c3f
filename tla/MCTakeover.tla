----------------------------- MODULE MCTakeover -----------------------------
(* The instance of Takeover for TLC: MCWriter's faulty histories. *)
EXTENDS MCWriter, Takeover

(* The histories meet the conditions under which the theorems hold.        *)
ASSUME HistoriesInScope == TruncatesOnce /\ DriftsLast /\ DriftsAlone
=============================================================================
