------------------------------ MODULE MCMoney ------------------------------
(* Every pair of small amounts, visited one after the other, against         *)
(* reference definitions in exact arithmetic.                               *)
EXTENDS Money

CONSTANT Rate,      \* a growth rate or a bonus, in percent
         MaxA, MaxB \* bounds of the pairs

VARIABLES a, b

Init == a = 0 /\ b = 0

\* Row by row.
Next ==
    \/ b < MaxB /\ b' = b + 1 /\ a' = a
    \/ b = MaxB /\ a < MaxA /\ a' = a + 1 /\ b' = 0

Spec == Init /\ [][Next]_<<a, b>>

AtMost(x) == IF x > MaxInt THEN MaxInt ELSE x

\* satAdd and satMul clamp the exact result: a wallet never turns negative and
\* never loses what it held (state.go:170-188).
Saturates == SatAdd(a, b) = AtMost(a + b) /\ SatMul(a, b) = AtMost(a * b)

\* A bonus never lowers a payout, and one too large for an int64 is clamped
\* (derive.go:131): the payout is never less than a hundredth part short.
BonusNeverHurts ==
    LET exact == (a * (100 + b)) \div 100 IN
    /\ WithBonus(a, b) \in a .. MaxInt
    /\ WithBonus(a, b) \in {exact, MaxInt}

\* The next thing never costs less than the one before, not even where the
\* growth would overflow, when the first costs at most a hundredth of MaxInt;
\* and a discount leaves a price of at least one coin.
PricesNeverFall ==
    a \in 1 .. MaxInt \div 100 =>
        /\ Grown(a, Rate, b + 1) \in Grown(a, Rate, b) .. MaxInt \div 100
        /\ \A d \in {0, 10, 40, 99, 100} :
              PlotPrice(a, Rate, b, d) \in 1 .. Grown(a, Rate, b)

\* The square root is exact whatever estimate the hardware gives
\* (derive.go:318).
IsqrtExact ==
    LET r == IsqrtFrom(b, a) IN r * r <= a /\ a < (r + 1) * (r + 1)

=============================================================================
