--------------------------- MODULE MCSaveManager ---------------------------
(* Instances of SaveManager for TLC.                                        *)
EXTENDS SaveRefinement, TLC

CONSTANTS s1, s2, s3, k1

\* Three connections of one save.
OneSave == [s \in Session |-> k1]

\* Connections of one save are interchangeable.
AllAlike == Permutations(Session)

=============================================================================
