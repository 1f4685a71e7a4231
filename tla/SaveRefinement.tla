--------------------------- MODULE SaveRefinement ---------------------------
(* The registry and its rows (SaveManager) implement the ledger (SaveLedger): *)
(* the newest version of a save is its running actor's, or else its row's.   *)
EXTENDS SaveManager

latest == [k \in Key |-> Latest(k)]

\* The process may die, or be stopped, with unsaved progress, or the last write
\* of an actor may fail.
MayLose == Faults \cap {"write", "crash", "timeout"} # {}

Ledger == INSTANCE SaveLedger WITH row <- disk

\* Every step of the registry is a step of the ledger or changes nothing there:
\* no interleaving of handlers, actors and Shutdown loses, rewinds or invents
\* progress, except that a save may fall back to its row where MayLose says so.
LedgerSpec == Ledger!Spec

=============================================================================
