--------------------------- MODULE MCSessionGate ---------------------------
(* Six sessions of two keys, one of them without a key, for caps of 3 and 2. *)
EXTENDS SessionGate, TLC

CONSTANTS s1, s2, s3, s4, s5, s6, f1, f2

Keys ==
    (s1 :> f1) @@ (s2 :> f1) @@ (s3 :> f1) @@ (s4 :> f2) @@ (s5 :> f2)
        @@ (s6 :> NoKey)

SameKey == Permutations({s1, s2, s3}) \cup Permutations({s4, s5})

=============================================================================
