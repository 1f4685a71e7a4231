------------------------------- MODULE Lemmas -------------------------------
(***************************************************************************)
(* What the proofs about Money, the farm and the start of the program share: *)
(* induction over the naturals, the loops that the code runs over an index,  *)
(* the largest and the smallest of a set, and the bounds of the operators of *)
(* Money.                                                                  *)
(*                                                                         *)
(* A loop is a recursive function of the index.  It is shown to exist from   *)
(* a step that is a function of the index and the value before, on a set     *)
(* that the step does not leave.                                            *)
(***************************************************************************)
EXTENDS Money, WellFoundedInduction, TLAPS

-----------------------------------------------------------------------------
(* Induction and loops.                                                     *)

LessThan == {pair \in Nat \X Nat : pair[1] < pair[2]}

\* A set of naturals has a least element.
LEMMA LeastNat ==
    ASSUME NEW T \in SUBSET Nat, T # {}
    PROVE  \E x \in T : \A y \in T : x <= y
<1>1. IsWellFoundedOn(LessThan, Nat)
    BY NatLessThanWellFounded DEF OpToRel, LessThan
<1>2. PICK x \in T : \A y \in T : ~(<<y, x>> \in LessThan)
    BY <1>1, WFMin
<1>3. ASSUME NEW y \in T PROVE x <= y
    <2>1. ~(<<y, x>> \in LessThan) /\ <<y, x>> \in Nat \X Nat
        BY <1>2
    <2> QED
        BY <2>1 DEF LessThan
<1> QED
    BY <1>3

\* Induction, for a set of naturals.
LEMMA Induction ==
    ASSUME NEW S, 0 \in S, \A n \in Nat : n \in S => n + 1 \in S
    PROVE  Nat \subseteq S
<1> SUFFICES ASSUME NEW m \in Nat, m \notin S PROVE FALSE
    OBVIOUS
<1> DEFINE T == Nat \ S
<1>1. T \in SUBSET Nat /\ T # {}
    OBVIOUS
<1> HIDE DEF T
<1>2. PICK x \in T : \A y \in T : x <= y
    BY <1>1, LeastNat
<1>3. x # 0 /\ x - 1 \in Nat
    BY <1>2 DEF T
<1>4. x - 1 \in S
    BY <1>2, <1>3 DEF T
<1> QED
    BY <1>2, <1>3, <1>4 DEF T

-----------------------------------------------------------------------------
(* Loops.                                                                  *)

\* No step of a loop of n leaves S; step[<<i, x>>] is the i-th, from x.
Keeps(step, S, n) == \A i \in 1 .. n : \A x \in S : step[<<i, x>>] \in S

\* The values of the loop: before it, and after each step.
IsRun(loop, base, step, S, n) ==
    /\ loop \in [0 .. n -> S]
    /\ loop[0] = base
    /\ \A i \in 1 .. n : loop[i] = step[<<i, loop[i - 1]>>]

\* A loop has a run.
LEMMA LoopExists ==
    ASSUME NEW S, NEW base \in S, NEW step, NEW n \in Nat, Keeps(step, S, n)
    PROVE  \E loop : IsRun(loop, base, step, S, n)
<1> DEFINE D == {k \in Nat : k <= n => \E g : IsRun(g, base, step, S, k)}
<1>1. 0 \in D
    <2> DEFINE g == [i \in 0 .. 0 |-> base]
    <2>1. g \in [0 .. 0 -> S] /\ g[0] = base
        OBVIOUS
    <2> HIDE DEF g
    <2>2. IsRun(g, base, step, S, 0)
        BY <2>1 DEF IsRun
    <2> QED
        BY <2>2
<1>2. ASSUME NEW k \in Nat, k \in D PROVE k + 1 \in D
    <2> SUFFICES ASSUME k + 1 <= n
                 PROVE  \E g : IsRun(g, base, step, S, k + 1)
        OBVIOUS
    <2>1. PICK g : IsRun(g, base, step, S, k)
        BY <1>2
    <2>2. /\ g \in [0 .. k -> S] /\ g[0] = base
          /\ \A i \in 1 .. k : g[i] = step[<<i, g[i - 1]>>]
        BY <2>1 DEF IsRun
    <2> DEFINE h == [i \in 0 .. k + 1 |->
                        IF i = k + 1 THEN step[<<k + 1, g[k]>>] ELSE g[i]]
    <2>3. h \in [0 .. k + 1 -> S] /\ h[0] = base
        BY <2>2 DEF Keeps
    <2>4. ASSUME NEW i \in 1 .. k + 1
          PROVE  h[i] = step[<<i, h[i - 1]>>]
        <3>1. CASE i = k + 1
            <4>1. h[k + 1] = step[<<k + 1, g[k]>>] /\ h[k] = g[k]
                OBVIOUS
            <4>2. i - 1 = k
                BY <3>1
            <4> HIDE DEF h
            <4> QED
                BY <4>1, <4>2, <3>1
        <3>2. CASE i # k + 1
            <4>1. i \in 1 .. k /\ h[i] = g[i] /\ h[i - 1] = g[i - 1]
                BY <3>2
            <4> QED
                BY <4>1, <2>2
        <3> QED
            BY <3>1, <3>2
    <2> HIDE DEF h
    <2>5. IsRun(h, base, step, S, k + 1)
        BY <2>3, <2>4 DEF IsRun
    <2> QED
        BY <2>5
<1> HIDE DEF D
<1>3. Nat \subseteq D
    BY <1>1, <1>2, Induction
<1> QED
    BY <1>3 DEF D

\* A loop stays where its steps stay.
LEMMA LoopStays ==
    ASSUME NEW S, NEW n \in Nat, NEW loop, loop[0] \in S,
           \A i \in 1 .. n : loop[i - 1] \in S => loop[i] \in S
    PROVE  \A i \in 0 .. n : loop[i] \in S
<1> DEFINE D == {k \in Nat : k <= n => loop[k] \in S}
<1>1. 0 \in D
    OBVIOUS
<1>2. ASSUME NEW k \in Nat, k \in D PROVE k + 1 \in D
    <2> SUFFICES ASSUME k + 1 <= n PROVE loop[k + 1] \in S
        OBVIOUS
    <2>1. k + 1 \in 1 .. n /\ (k + 1) - 1 = k /\ loop[k] \in S
        BY <1>2
    <2> QED
        BY <2>1
<1> HIDE DEF D
<1>3. Nat \subseteq D
    BY <1>1, <1>2, Induction
<1> QED
    BY <1>3 DEF D

\* Two runs of a loop agree.
LEMMA RunsAgree ==
    ASSUME NEW S, NEW base, NEW step, NEW n \in Nat, NEW m \in Nat, n <= m,
           NEW f, NEW g, IsRun(f, base, step, S, n), IsRun(g, base, step, S, m)
    PROVE  f[n] = g[n]
<1> DEFINE D == {k \in Nat : k <= n => f[k] = g[k]}
<1>1. 0 \in D
    BY DEF IsRun
<1>2. ASSUME NEW k \in Nat, k \in D PROVE k + 1 \in D
    <2> SUFFICES ASSUME k + 1 <= n PROVE f[k + 1] = g[k + 1]
        OBVIOUS
    <2>1. f[k] = g[k] /\ (k + 1) - 1 = k /\ k + 1 \in 1 .. n /\ k + 1 \in 1 .. m
        BY <1>2
    <2>2. f[k + 1] = step[<<k + 1, f[(k + 1) - 1]>>]
        BY <2>1 DEF IsRun
    <2>3. g[k + 1] = step[<<k + 1, g[(k + 1) - 1]>>]
        BY <2>1 DEF IsRun
    <2> QED
        BY <2>1, <2>2, <2>3
<1> HIDE DEF D
<1>3. Nat \subseteq D
    BY <1>1, <1>2, Induction
<1> QED
    BY <1>3 DEF D

-----------------------------------------------------------------------------
(* The largest, the smallest, and amounts of coins.                         *)

\* A set of naturals with an upper bound has a greatest element.
LEMMA GreatestNat ==
    ASSUME NEW n \in Nat, NEW T \in SUBSET (0 .. n), T # {}
    PROVE  \E x \in T : \A y \in T : y <= x
<1> DEFINE Bounds == {k \in Nat : \A y \in T : y <= k}
<1>1. Bounds \in SUBSET Nat /\ Bounds # {}
    <2>1. n \in Bounds
        OBVIOUS
    <2> QED
        BY <2>1
<1>2. PICK k \in Bounds : \A j \in Bounds : k <= j
    <2> HIDE DEF Bounds
    <2> QED
        BY <1>1, LeastNat
<1>3. k \in T
    <2> SUFFICES ASSUME k \notin T PROVE FALSE
        OBVIOUS
    <2>1. \A y \in T : y <= k /\ y # k /\ y \in Nat
        BY <1>2
    <2>2. k - 1 \in Bounds
        <3>1. \A y \in T : y <= k - 1
            BY <2>1, <1>2
        <3>2. PICK y \in T : TRUE
            OBVIOUS
        <3>3. y \in Nat /\ y < k
            BY <2>1, <1>2, <3>2
        <3>4. k - 1 \in Nat
            BY <3>3, <1>2
        <3> QED
            BY <3>1, <3>4
    <2> QED
        BY <2>2, <1>2
<1> QED
    BY <1>2, <1>3

\* The operators of the library choose them.
LEMMA MaxIs ==
    ASSUME NEW T, NEW x \in T, T \in SUBSET Int, \A y \in T : y <= x
    PROVE  Max(T) = x
<1>1. \A z \in T : (\A y \in T : z >= y) => z = x
    OBVIOUS
<1> QED
    BY <1>1 DEF Max

\* The smaller of two numbers.
LEMMA MinIs ==
    ASSUME NEW T, NEW x \in T, T \in SUBSET Int, \A y \in T : x <= y
    PROVE  Min(T) = x
<1>1. \A z \in T : (\A y \in T : z <= y) => z = x
    OBVIOUS
<1> QED
    BY <1>1 DEF Min

\* Max and Min of two.
LEMMA MaxOfTwo ==
    ASSUME NEW x \in Int, NEW y \in Int
    PROVE  Max({x, y}) = IF x >= y THEN x ELSE y
<1>1. {x, y} \in SUBSET Int /\ x \in {x, y} /\ y \in {x, y}
    OBVIOUS
<1>2. CASE x >= y
    <2>1. \A z \in {x, y} : z <= x
        BY <1>2
    <2> QED
        BY <2>1, <1>1, <1>2, MaxIs
<1>3. CASE ~(x >= y)
    <2>1. \A z \in {x, y} : z <= y
        BY <1>3
    <2> QED
        BY <2>1, <1>1, <1>3, MaxIs
<1> QED
    BY <1>2, <1>3

\* It is one of them and above neither.
LEMMA MinOfTwo ==
    ASSUME NEW x \in Int, NEW y \in Int
    PROVE  Min({x, y}) = IF x <= y THEN x ELSE y
<1>1. {x, y} \in SUBSET Int /\ x \in {x, y} /\ y \in {x, y}
    OBVIOUS
<1>2. CASE x <= y
    <2>1. \A z \in {x, y} : x <= z
        BY <1>2
    <2> QED
        BY <2>1, <1>1, <1>2, MinIs
<1>3. CASE ~(x <= y)
    <2>1. \A z \in {x, y} : y <= z
        BY <1>3
    <2> QED
        BY <2>1, <1>1, <1>3, MinIs
<1> QED
    BY <1>2, <1>3

-----------------------------------------------------------------------------
(* Division, the square root, and prices.                                   *)

\* The quotient that the clamps compare with.
LEMMA Quotient ==
    ASSUME NEW n \in Nat, NEW d \in Nat, d > 0
    PROVE  /\ n \div d \in Nat
           /\ (n \div d) * d <= n
           /\ n < (n \div d + 1) * d
BY Z3

\* Multiplication by an amount does not change an order.
LEMMA Monotone ==
    ASSUME NEW x \in Nat, NEW y \in Nat, NEW d \in Nat, x <= y
    PROVE  x * d <= y * d /\ x * d \in Nat
BY Z3

\* An unchecked product and its share are integers,
LEMMA UncheckedType ==
    ASSUME NEW x \in Int, NEW d \in Nat \ {0}
    PROVE  Quo(Wrap(x), d) \in Int
<1> DEFINE w == Wrap(x)
<1>1. w \in Int
    BY MoneyAssumption, Z3 DEF Wrap
<1> HIDE DEF w
<1>2. (-w) \div d \in Int /\ w \div d \in Int
    BY <1>1, Z3
<1> QED
    BY <1>2 DEF Quo, w

\* and what an int64 holds is exact.
LEMMA UncheckedExact ==
    ASSUME NEW x \in 0 .. MaxInt, NEW d \in Nat \ {0}
    PROVE  Quo(Wrap(x), d) = x \div d
<1>1. Wrap(x) = x
    <2>1. x + MaxInt + 1 \in 0 .. 2 * (MaxInt + 1) - 1
        BY MoneyAssumption
    <2>2. (x + MaxInt + 1) % (2 * (MaxInt + 1)) = x + MaxInt + 1
        BY <2>1, MoneyAssumption, Z3
    <2> QED
        BY <2>2, MoneyAssumption DEF Wrap
<1> QED
    BY <1>1, MoneyAssumption DEF Quo

\* The test of the clamps: a > n / d just when a * d > n.
LEMMA ClampTest ==
    ASSUME NEW n \in Nat, NEW d \in Nat, d > 0, NEW x \in Nat
    PROVE  x > n \div d <=> x * d > n
<1> DEFINE q == n \div d
<1>1. q \in Nat /\ q * d <= n /\ n < (q + 1) * d
    BY Quotient
<1> HIDE DEF q
<1>2. CASE x > q
    <2>1. q + 1 <= x
        BY <1>1, <1>2
    <2>2. (q + 1) * d <= x * d
        BY <2>1, <1>1, Monotone
    <2>3. x * d \in Nat /\ (q + 1) * d \in Nat
        BY <1>1, Monotone
    <2>4. x * d > n
        BY <2>2, <2>3, <1>1
    <2> QED
        BY <2>4, <1>2 DEF q
<1>3. CASE x <= q
    <2>1. x * d <= q * d
        BY <1>3, <1>1, Monotone
    <2>2. x * d \in Nat /\ q * d \in Nat
        BY <1>1, Monotone
    <2>3. ~(x * d > n)
        BY <2>1, <2>2, <1>1
    <2> QED
        BY <2>3, <1>3, <1>1 DEF q
<1> QED
    BY <1>1, <1>2, <1>3

\* isqrt ends at the square root, whatever the estimate (derive.go:318).
LEMMA SquareRoot ==
    ASSUME NEW r \in Nat, NEW n \in Nat
    PROVE  /\ IsqrtFrom(r, n) \in Nat
           /\ IsqrtFrom(r, n) * IsqrtFrom(r, n) <= n
           /\ n < (IsqrtFrom(r, n) + 1) * (IsqrtFrom(r, n) + 1)
<1> DEFINE Below == {0} \cup {q \in 1 .. r : q <= n \div q}
           down == Max(Below)
           Ends == {q \in down .. n : q + 1 > n \div (q + 1)}
<1>1. CASE n = 0
    <2>1. IsqrtFrom(r, n) = 0
        BY <1>1 DEF IsqrtFrom
    <2> QED
        BY <2>1, <1>1
<1>2. CASE n # 0
    <2>1. \A q \in Nat : q # 0 => (q <= n \div q <=> q * q <= n)
        BY ClampTest, Quotient
    <2>2. PICK x \in Below : \A y \in Below : y <= x
        <3>1. Below \in SUBSET (0 .. r) /\ Below # {}
            OBVIOUS
        <3> HIDE DEF Below
        <3> QED
            BY <3>1, GreatestNat
    <2>3. down = x
        <3>1. Below \in SUBSET Int
            OBVIOUS
        <3> HIDE DEF Below
        <3> QED
            BY <3>1, <2>2, MaxIs
    <2>4. down \in Nat /\ down * down <= n
        BY <2>1, <2>2, <2>3
    <2>5. down <= n
        <3>1. down = 0 \/ down <= down * down
            BY <2>4, Z3
        <3> QED
            BY <3>1, <2>4
    <2> HIDE DEF down
    <2>6. PICK up \in Ends : \A y \in Ends : up <= y
        <3>1. n + 1 > n \div (n + 1)
            <4>1. (n + 1) * (n + 1) > n
                BY Z3
            <4> QED
                BY <4>1, ClampTest
        <3>2. Ends \in SUBSET Nat /\ n \in Ends
            BY <3>1, <2>4, <2>5
        <3> HIDE DEF Ends
        <3> QED
            BY <3>2, LeastNat
    <2>7. IsqrtFrom(r, n) = up
        <3>1. Ends \in SUBSET Int
            BY <2>4
        <3>2. IsqrtFrom(r, n) = Min(Ends)
            BY <1>2 DEF IsqrtFrom, down
        <3> HIDE DEF Ends
        <3> QED
            BY <3>1, <3>2, <2>6, MinIs
    <2>8. up \in Nat /\ down <= up /\ up <= n
        BY <2>6, <2>4
    <2>9. n < (up + 1) * (up + 1)
        BY <2>6, <2>8, ClampTest
    <2>10. CASE up = down
        BY <2>10, <2>4, <2>7, <2>8, <2>9
    <2>11. CASE up # down
        <3>1. up - 1 \in down .. n /\ up - 1 \notin Ends
            BY <2>6, <2>8, <2>11, <2>4
        <3>2. up <= n \div up /\ up # 0
            <4>1. (up - 1) + 1 = up
                BY <2>8
            <4>2. ~(up > n \div up) /\ up # 0
                BY <3>1, <4>1, <2>8, <2>11, <2>4
            <4> QED
                BY <4>2, <2>8, Quotient
        <3>3. up * up <= n
            BY <3>2, <2>1, <2>8
        <3> QED
            BY <3>3, <2>7, <2>8, <2>9
    <2> QED
        BY <2>10, <2>11
<1> QED
    BY <1>1, <1>2

\* The price of one more.
Growth(pct) ==
    [q \in Nat \X Nat |->
        IF q[2] > MaxInt \div pct THEN MaxInt \div 100 ELSE (q[2] * pct) \div 100]

\* Grown is the last value of its loop.
LEMMA GrownLoop ==
    ASSUME NEW base \in Nat, NEW pct \in Nat \ {0}, NEW n \in Nat
    PROVE  \E cost : /\ IsRun(cost, base, Growth(pct), Nat, n)
                     /\ Grown(base, pct, n) = cost[n]
<1>1. \A i \in 1 .. n, x \in Nat :
          /\ Growth(pct)[<<i, x>>] = IF x > MaxInt \div pct THEN MaxInt \div 100
                                                           ELSE (x * pct) \div 100
          /\ Growth(pct)[<<i, x>>] \in Nat
    <2>1. \A x \in Nat : MaxInt \div 100 \in Nat /\ (x * pct) \div 100 \in Nat
        BY MoneyAssumption, Monotone, Quotient
    <2> QED
        BY <2>1 DEF Growth
<1>2. PICK g : IsRun(g, base, Growth(pct), Nat, n)
    <2>1. Keeps(Growth(pct), Nat, n)
        BY <1>1 DEF Keeps
    <2> QED
        BY <2>1, LoopExists
<1> DEFINE W(f) == [i \in 0 .. n |->
                       IF i = 0 THEN base
                       ELSE LET c == f[i - 1] IN
                            IF c > MaxInt \div pct THEN MaxInt \div 100
                                                   ELSE (c * pct) \div 100]
           cost == CHOOSE f : f = W(f)
<1>3. g = W(g)
    <2>1. /\ g \in [0 .. n -> Nat] /\ g[0] = base
          /\ \A i \in 1 .. n : g[i] = Growth(pct)[<<i, g[i - 1]>>]
        BY <1>2 DEF IsRun
    <2>2. ASSUME NEW i \in 0 .. n PROVE g[i] = W(g)[i]
        <3>1. CASE i = 0
            BY <3>1, <2>1
        <3>2. CASE i # 0
            <4>1. i \in 1 .. n /\ g[i - 1] \in Nat
                BY <3>2, <2>1
            <4> QED
                BY <4>1, <3>2, <2>1, <1>1
        <3> QED
            BY <3>1, <3>2
    <2>3. g = [i \in 0 .. n |-> g[i]] /\ W(g) = [i \in 0 .. n |-> W(g)[i]]
        BY <2>1
    <2> HIDE DEF W
    <2> QED
        BY <2>2, <2>3
<1>4. cost = W(cost)
    BY <1>3
<1>5. Grown(base, pct, n) = cost[n]
    BY DEF Grown
<1> HIDE DEF cost
<1>6. /\ cost[0] = base
      /\ \A i \in 1 .. n : cost[i] = IF cost[i - 1] > MaxInt \div pct
                                     THEN MaxInt \div 100
                                     ELSE (cost[i - 1] * pct) \div 100
    <2>1. ASSUME NEW i \in 0 .. n PROVE cost[i] = W(cost)[i]
        BY <1>4
    <2> QED
        BY <2>1
<1>7. \A i \in 1 .. n : cost[i - 1] \in Nat => cost[i] \in Nat
    <2> SUFFICES ASSUME NEW i \in 1 .. n, cost[i - 1] \in Nat PROVE cost[i] \in Nat
        OBVIOUS
    <2>1. cost[i] = Growth(pct)[<<i, cost[i - 1]>>]
        BY <1>1, <1>6
    <2> QED
        BY <1>1, <2>1
<1>8. \A i \in 0 .. n : cost[i] \in Nat
    BY <1>6, <1>7, LoopStays
<1>9. cost \in [0 .. n -> Nat]
    <2>1. cost = [i \in 0 .. n |-> cost[i]]
        BY <1>4
    <2> QED
        BY <2>1, <1>8
<1>10. ASSUME NEW i \in 1 .. n
       PROVE  cost[i] = Growth(pct)[<<i, cost[i - 1]>>]
    <2>1. cost[i - 1] \in Nat
        BY <1>8
    <2> QED
        BY <2>1, <1>1, <1>6
<1> QED
    BY <1>5, <1>6, <1>9, <1>10 DEF IsRun

\* A price is a natural number, and grows by one step for each thing owned.
LEMMA GrownType ==
    ASSUME NEW base \in Nat, NEW pct \in Nat \ {0}, NEW n \in Nat
    PROVE  Grown(base, pct, n) \in Nat
<1>1. PICK cost : /\ IsRun(cost, base, Growth(pct), Nat, n)
                  /\ Grown(base, pct, n) = cost[n]
    BY GrownLoop
<1> QED
    BY <1>1 DEF IsRun

\* One more level is one more turn of the loop.
LEMMA GrownNext ==
    ASSUME NEW base \in Nat, NEW pct \in Nat \ {0}, NEW n \in Nat
    PROVE  Grown(base, pct, n + 1) = Growth(pct)[<<n + 1, Grown(base, pct, n)>>]
<1>1. PICK f : /\ IsRun(f, base, Growth(pct), Nat, n)
               /\ Grown(base, pct, n) = f[n]
    BY GrownLoop
<1>2. PICK g : /\ IsRun(g, base, Growth(pct), Nat, n + 1)
               /\ Grown(base, pct, n + 1) = g[n + 1]
    BY GrownLoop
<1>3. f[n] = g[n]
    <2>1. n <= n + 1 /\ n + 1 \in Nat
        OBVIOUS
    <2> QED
        BY <1>1, <1>2, <2>1, RunsAgree
<1>4. g[n + 1] = Growth(pct)[<<n + 1, g[(n + 1) - 1]>>]
    BY <1>2 DEF IsRun
<1>5. (n + 1) - 1 = n
    OBVIOUS
<1> QED
    BY <1>1, <1>2, <1>3, <1>4, <1>5

\* A step never lowers a price within the hundredth part of MaxInt, nor takes it
\* out.
LEMMA GrowthRises ==
    ASSUME NEW pct \in Nat, pct >= 100, NEW i \in Nat,
           NEW c \in 0 .. MaxInt \div 100
    PROVE  Growth(pct)[<<i, c>>] \in c .. MaxInt \div 100
<1> DEFINE m == MaxInt \div 100
<1> USE MoneyAssumption
<1>1. m \in Nat /\ m * 100 <= MaxInt /\ MaxInt < (m + 1) * 100
    BY Quotient
<1>2. c \in Nat
    BY <1>1
<1>3. Growth(pct)[<<i, c>>] = IF c > MaxInt \div pct THEN m ELSE (c * pct) \div 100
    BY <1>2 DEF Growth
<1>4. CASE c > MaxInt \div pct
    BY <1>4, <1>3, <1>1
<1>5. CASE ~(c > MaxInt \div pct)
    <2>1. c * pct <= MaxInt /\ c * pct \in Nat /\ c * 100 <= c * pct
        <3>1. c * pct \in Nat /\ ~(c * pct > MaxInt)
            BY <1>5, <1>2, ClampTest, Monotone
        <3>2. c * 100 <= c * pct
            BY <1>2, Z3
        <3> QED
            BY <3>1, <3>2
    <2>2. (c * pct) \div 100 \in c .. m
        BY <2>1, <1>1, <1>2, Z3
    <2> QED
        BY <2>2, <1>3, <1>5
<1> QED
    BY <1>4, <1>5

\* Below the cap, a cost that never shrinks stays between its base and the cap.
LEMMA GrownBounds ==
    ASSUME NEW base \in 0 .. MaxInt \div 100, NEW pct \in Nat, pct >= 100,
           NEW n \in Nat
    PROVE  Grown(base, pct, n) \in base .. MaxInt \div 100
<1> DEFINE S == base .. MaxInt \div 100
<1>1. base \in Nat /\ MaxInt \div 100 \in Nat
    BY MoneyAssumption, Quotient
<1>2. PICK cost : /\ IsRun(cost, base, Growth(pct), Nat, n)
                  /\ Grown(base, pct, n) = cost[n]
    BY <1>1, GrownLoop
<1>3. cost[0] \in S
    BY <1>1, <1>2 DEF IsRun
<1>4. ASSUME NEW i \in 1 .. n, cost[i - 1] \in S PROVE cost[i] \in S
    <2>1. cost[i] = Growth(pct)[<<i, cost[i - 1]>>]
        BY <1>2 DEF IsRun
    <2>2. Growth(pct)[<<i, cost[i - 1]>>] \in cost[i - 1] .. MaxInt \div 100
        BY <1>4, <1>1, GrowthRises
    <2> QED
        BY <2>1, <2>2, <1>4, <1>1
<1> HIDE DEF S
<1>5. \A i \in 0 .. n : cost[i] \in S
    BY <1>3, <1>4, LoopStays
<1> QED
    BY <1>2, <1>5 DEF S

=============================================================================
