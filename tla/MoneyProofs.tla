----------------------------- MODULE MoneyProofs -----------------------------
(***************************************************************************)
(* The clamps of Money hold for every width of the integers, not only for    *)
(* the one that the run of MCMoney counts through.                          *)
(***************************************************************************)
EXTENDS MCMoney, Lemmas

Amounts == 0 .. MaxInt

\* satAdd and satMul return the exact result, or the largest integer when it is
\* larger (state.go:170-188).
THEOREM AmountsSaturate ==
    ASSUME a \in Amounts, b \in Amounts
    PROVE  Saturates
<1> USE MoneyAssumption DEF Amounts
<1>1. SatAdd(a, b) = AtMost(a + b)
    BY DEF SatAdd, AtMost
<1>2. SatMul(a, b) = AtMost(a * b)
    <2>1. CASE a = 0 \/ b = 0
        <3>1. a * b = 0
            BY <2>1
        <3> QED
            BY <3>1, <2>1 DEF SatMul, AtMost
    <2>2. CASE a # 0 /\ b # 0
        <3>1. a > MaxInt \div b <=> a * b > MaxInt
            BY <2>2, ClampTest
        <3> QED
            BY <3>1, <2>2 DEF SatMul, AtMost
    <2> QED
        BY <2>1, <2>2
<1> QED
    BY <1>1, <1>2 DEF Saturates

\* A bonus never lowers a payout, and the payout is exact or the largest integer
\* (derive.go:128-134).
THEOREM BonusesNeverHurt ==
    ASSUME a \in Amounts, b \in Amounts
    PROVE  BonusNeverHurts
<1> USE MoneyAssumption DEF Amounts
<1> DEFINE product == a * (100 + b)
<1>1. product \in Nat /\ a * 100 <= product
    BY Z3
<1>2. a <= product \div 100 /\ product \div 100 \in Nat
    BY <1>1, Z3
<1>3. CASE b = 0
    <2>1. product = a * 100
        BY <1>3
    <2>2. product \div 100 = a
        BY <2>1, Z3
    <2> QED
        BY <2>2, <1>3 DEF BonusNeverHurts, WithBonus
<1>4. CASE b # 0
    <2>1. a > MaxInt \div (100 + b) <=> product > MaxInt
        BY ClampTest
    <2>2. product <= MaxInt => product \div 100 <= MaxInt
        BY <1>1, Z3
    <2> HIDE DEF product
    <2>3. WithBonus(a, b) = IF product > MaxInt THEN MaxInt ELSE product \div 100
        <3>1. product <= MaxInt => Quo(Wrap(product), 100) = product \div 100
            BY <1>1, UncheckedExact
        <3> QED
            BY <3>1, <2>1, <1>4 DEF WithBonus, product
    <2>4. WithBonus(a, b) \in a .. MaxInt
        BY <2>3, <2>2, <1>1, <1>2
    <2>5. WithBonus(a, b) \in {product \div 100, MaxInt}
        BY <2>3
    <2> QED
        BY <2>4, <2>5 DEF BonusNeverHurts, product
<1> QED
    BY <1>3, <1>4

\* isqrt returns the integer square root of every amount, whatever estimate the
\* hardware gives (derive.go:318).
THEOREM SquareRootsAreExact ==
    ASSUME a \in Nat, b \in Nat
    PROVE  IsqrtExact
BY SquareRoot DEF IsqrtExact

\* The price of the next plot is at least one coin and at most what it grew to.
LEMMA DiscountLeavesPrice ==
    ASSUME NEW price \in 1 .. MaxInt \div 100, NEW d \in Nat
    PROVE  LET left == Quo(Wrap(price * (100 - (IF d >= 100 THEN 99 ELSE d))), 100)
           IN (IF left < 1 THEN 1 ELSE left) \in 1 .. price
<1> USE MoneyAssumption
<1> DEFINE share == 100 - (IF d >= 100 THEN 99 ELSE d)
           product == price * share
<1>1. price \in Nat /\ share \in 1 .. 100
    BY Quotient
<1>2. product \in Nat /\ product <= price * 100
    BY <1>1, Z3
<1>3. price * 100 <= MaxInt
    <2>1. MaxInt \div 100 \in Nat /\ (MaxInt \div 100) * 100 <= MaxInt
        BY Quotient
    <2> QED
        BY <2>1
<1> HIDE DEF product
<1>4. Quo(Wrap(product), 100) = product \div 100
    BY <1>1, <1>2, <1>3, UncheckedExact
<1>5. product \div 100 \in Nat /\ product \div 100 <= price
    BY <1>1, <1>2, Z3
<1> QED
    BY <1>1, <1>4, <1>5 DEF product

\* Prices never fall as more is bought, and a discount leaves at least a coin,
\* for a first price of at most a hundredth of MaxInt and every growth rate that
\* a content may have (derive.go:203-215, content.go).
THEOREM PricesKeepRising ==
    ASSUME a \in Amounts, b \in Nat, Rate \in Nat, Rate >= 100
    PROVE  PricesNeverFall
<1> DEFINE m == MaxInt \div 100
<1> SUFFICES ASSUME a \in 1 .. m
             PROVE  /\ Grown(a, Rate, b + 1) \in Grown(a, Rate, b) .. m
                    /\ \A d \in {0, 10, 40, 99, 100} :
                          PlotPrice(a, Rate, b, d) \in 1 .. Grown(a, Rate, b)
    BY DEF PricesNeverFall
<1>1. m \in Nat /\ a \in 0 .. m /\ a \in Nat
    BY MoneyAssumption, Quotient
<1>2. Grown(a, Rate, b) \in a .. m
    BY <1>1, GrownBounds
<1>3. Grown(a, Rate, b) \in 0 .. m /\ Grown(a, Rate, b) \in 1 .. m
    BY <1>1, <1>2
<1>4. Grown(a, Rate, b + 1) \in Grown(a, Rate, b) .. m
    <2>1. Grown(a, Rate, b + 1) = Growth(Rate)[<<b + 1, Grown(a, Rate, b)>>]
        BY <1>1, GrownNext
    <2>2. b + 1 \in Nat
        OBVIOUS
    <2> QED
        BY <2>1, <2>2, <1>3, GrowthRises
<1>5. ASSUME NEW d \in {0, 10, 40, 99, 100}
      PROVE  PlotPrice(a, Rate, b, d) \in 1 .. Grown(a, Rate, b)
    <2>1. d \in Nat
        OBVIOUS
    <2> QED
        BY <2>1, <1>3, DiscountLeavesPrice DEF PlotPrice
<1> QED
    BY <1>4, <1>5

=============================================================================
