------------------------------- MODULE Money -------------------------------
(***************************************************************************)
(* The coin arithmetic of internal/sim: int64 amounts that saturate, prices *)
(* that grow with what is owned, bonuses, and the integer square root the   *)
(* prestige formula uses.  MaxInt stands for math.MaxInt64, so that a small *)
(* instance reaches the limits.                                            *)
(***************************************************************************)
EXTENDS Integers, FiniteSetsExt

CONSTANT MaxInt

ASSUME MoneyAssumption == MaxInt \in Nat \ {0}

\* What an int64 holds after an unchecked operation with exact result x.
Wrap(x) == ((x + MaxInt + 1) % (2 * (MaxInt + 1))) - (MaxInt + 1)

\* Division of int64, which rounds towards zero.
Quo(x, y) == IF x < 0 THEN -((-x) \div y) ELSE x \div y

\* satAdd and satMul, for amounts that are not negative.
SatAdd(a, b) == IF a > MaxInt - b THEN MaxInt ELSE a + b

\* Fault: the product is not clamped.
SatMulUnchecked(a, b) == Wrap(a * b)

SatMul(a, b) ==
    IF a = 0 \/ b = 0 THEN 0
    ELSE IF a > MaxInt \div b THEN MaxInt ELSE a * b

\* Fault: a price that would overflow becomes the largest integer.
GrownToMax(base, pct, n) ==
    LET cost[i \in 0 .. n] ==
            IF i = 0 THEN base
            ELSE LET c == cost[i - 1] IN
                 IF c > MaxInt \div pct THEN MaxInt ELSE (c * pct) \div 100
    IN cost[n]

\* The loops that raise a price by pct - 100 percent for each of n things
\* already owned.  They stop at MaxInt \div 100 when the next step would
\* overflow, and from there on the price stays.
Grown(base, pct, n) ==
    LET cost[i \in 0 .. n] ==
            IF i = 0 THEN base
            ELSE LET c == cost[i - 1] IN
                 IF c > MaxInt \div pct THEN MaxInt \div 100
                                        ELSE (c * pct) \div 100
    IN cost[n]

\* NextPlotCost, given the sum of the discounts.
PlotPrice(base, pct, n, discount) ==
    LET d == IF discount >= 100 THEN 99 ELSE discount
        cost == Quo(Wrap(Grown(base, pct, n) * (100 - d)), 100)
    IN IF cost < 1 THEN 1 ELSE cost

\* Fault: the bonus is applied without a check.
WithBonusUnchecked(base, bonus) == Quo(Wrap(base * (100 + bonus)), 100)

\* sellMultiplied, given the sum of the bonuses.
WithBonus(base, bonus) ==
    IF bonus = 0 THEN base
    ELSE IF base > MaxInt \div (100 + bonus) THEN MaxInt
    ELSE Quo(Wrap(base * (100 + bonus)), 100)

\* The golden multiplier, in tenths, is applied without a check.
Golden(payout, mult) ==
    Quo(Wrap(payout * (IF mult < 10 THEN 10 ELSE mult)), 10)

\* Fault: an estimate that is too low is not corrected.
IsqrtFromAbove(r, n) ==
    IF n <= 0 THEN 0 ELSE Max({0} \cup {q \in 1 .. r : q <= n \div q})

\* isqrt corrects the estimate r of the floating-point square root: down while
\* r > n \div r, then up while r + 1 <= n \div (r + 1).
IsqrtFrom(r, n) ==
    LET down == Max({0} \cup {q \in 1 .. r : q <= n \div q})
    IN IF n <= 0 THEN 0 ELSE Min({q \in down .. n : q + 1 > n \div (q + 1)})

Isqrt(n) == IsqrtFrom(0, n)

=============================================================================
