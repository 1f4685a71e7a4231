------------------------------ MODULE MCStartup ------------------------------
(* An instance of Startup for TLC.                                          *)
EXTENDS Startup, TLC

CONSTANTS k1, k2, p1, p2

Alike == Permutations({k1, k2}) \cup Permutations({p1, p2})

\* The releases that the migrations and payload versions tell of.
MCMigrations == <<1, 2, 2>>
MCStateVersion == <<1, 2, 3>>

Defaults ==
    [maxSessionsPerKey |-> Unset, maxConnections |-> Unset, idleTimeout |-> Unset,
     autosaveInterval |-> Unset, sessionPolicy |-> Unset, defaultSlot |-> Unset]

\* Environments that set one variable, to a value at an edge.
MCEnvironment ==
    {Defaults}
    \cup {[Defaults EXCEPT !.maxSessionsPerKey = n] : n \in {0, 1, Junk}}
    \cup {[Defaults EXCEPT !.maxConnections = n] : n \in {-1, Junk}}
    \cup {[Defaults EXCEPT !.idleTimeout = n] : n \in {-1, Junk}}
    \cup {[Defaults EXCEPT !.autosaveInterval = n] : n \in {0, Junk}}
    \cup {[Defaults EXCEPT !.sessionPolicy = p] : p \in {"refuse", "other"}}
    \cup {[Defaults EXCEPT !.defaultSlot = s] :
             s \in {<<"A", "!", "b", "_">>, <<" ", "!">>}}

=============================================================================
