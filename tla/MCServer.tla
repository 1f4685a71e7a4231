------------------------------ MODULE MCServer ------------------------------
(* Instances of Server for TLC.                                             *)
EXTENDS Server, SaveRefinement, TLC

CONSTANTS s1, s2, s3, s4, k1, k2, f1

\* s1 and s2 play one save, s3 another one of the same key, and s4 has no key.
SaveOf == [s \in Session |-> IF s = s3 THEN k2 ELSE k1]
Keys == [s \in Session |-> IF s = s4 THEN NoKey ELSE f1]

SameSave == Permutations({s1, s2})

=============================================================================
