----------------------------- MODULE SaveLedger -----------------------------
(***************************************************************************)
(* What internal/game promises about each save, without its actors, locks   *)
(* and sessions: there is one newest version, it only grows, a database row *)
(* follows it, and the newest version falls back to the row only where a    *)
(* loss is admitted.                                                       *)
(***************************************************************************)
EXTENDS Integers

CONSTANTS
    Key,          \* saves
    MaxVersion,   \* bound on the mutations of one save
    MayLose       \* whether the process may die, or a last write fail

NoRow == -1

VARIABLES
    latest,       \* newest version of each save, NoRow before it exists
    row           \* version in the database

vars == <<latest, row>>

Init ==
    /\ latest = [k \in Key |-> NoRow]
    /\ row = [k \in Key |-> NoRow]

\* The first connection of a key: the row is created with the fresh save.
Create(k) ==
    /\ latest[k] = NoRow
    /\ latest' = [latest EXCEPT ![k] = 0]
    /\ row' = [row EXCEPT ![k] = 0]

\* An intent or a catch-up.
Mutate(k) ==
    /\ latest[k] \in 0 .. MaxVersion - 1
    /\ latest' = [latest EXCEPT ![k] = @ + 1]
    /\ UNCHANGED row

\* A write of the newest version.
Save(k) ==
    /\ latest[k] # NoRow
    /\ row' = [row EXCEPT ![k] = latest[k]]
    /\ UNCHANGED latest

\* The saves of K fall back to their rows.
Lose(K) ==
    /\ MayLose
    /\ latest' = [k \in Key |-> IF k \in K THEN row[k] ELSE latest[k]]
    /\ UNCHANGED row

Next ==
    \/ \E k \in Key : Create(k) \/ Mutate(k) \/ Save(k)
    \/ \E K \in SUBSET Key : Lose(K)

Spec == Init /\ [][Next]_vars

=============================================================================
