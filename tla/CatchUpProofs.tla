---------------------------- MODULE CatchUpProofs ----------------------------
(***************************************************************************)
(* It does not matter whether a farm catches up at once or in parts, as long *)
(* as nothing comes by chance: the proof of CatchUpInParts under Calm.       *)
(*                                                                         *)
(* An Advance is first given in closed form.  An automated plot is harvested *)
(* as often as its growing time goes into the time since it was planted      *)
(* (Cycles), and each time it brings its payout and costs its seed; the loop *)
(* over its cycles is shown to leave just that (AutoPlotReaps), though it    *)
(* runs the first ones one by one, each with its rolls and with a look at    *)
(* the wallet and at the crop's unlock, and pays the rest in one sum.  The   *)
(* loop over the plots then leaves the sums of what they bring (AllTurns),   *)
(* and the Advance the save with these sums, its time and its achievements   *)
(* (AdvanceIs).                                                              *)
(*                                                                         *)
(* The closed form adds up: the quotient of the whole time is that of the    *)
(* first part and that of what the plot has left of it (PlotInParts).  What  *)
(* is met at the end of the first part is still met at the end of the        *)
(* second, so that also the achievements are the same (PartsMeet).           *)
(***************************************************************************)
EXTENDS FarmProofs

-----------------------------------------------------------------------------
(* A save with other coins, counts and plots.                               *)

\* The save with these coins, earnings, harvests and plots.
Having(st, c, r, e, h, ps) ==
    [st EXCEPT !.Coins = c, !.RunEarnings = r, !.LifetimeEarnings = e,
               !.LifetimeHarvests = h, !.Plots = ps]

\* It is a save, like the other in all else.
LEMMA HavingIs ==
    ASSUME NEW st \in Save, NEW c \in Amount, NEW r \in Amount, NEW e \in Amount,
           NEW h \in Amount, NEW ps \in Seq(PlotType)
    PROVE  LET x == Having(st, c, r, e, h, ps) IN
           /\ x \in Save
           /\ x.Coins = c /\ x.RunEarnings = r /\ x.LifetimeEarnings = e
           /\ x.LifetimeHarvests = h /\ x.Plots = ps
           /\ x.UpdatedAt = st.UpdatedAt /\ x.Zones = st.Zones
           /\ x.Rebirths = st.Rebirths /\ x.Upgrades = st.Upgrades
           /\ x.Multipliers = st.Multipliers /\ x.EventID = st.EventID
           /\ x.GiftPending = st.GiftPending /\ x.FlavorEnabled = st.FlavorEnabled
           /\ x.MoonEpoch = st.MoonEpoch /\ x.Achievements = st.Achievements
BY DEF Having, Save

\* With its own it is the same save.
LEMMA HavingSame ==
    ASSUME NEW st \in Save
    PROVE  Having(st, st.Coins, st.RunEarnings, st.LifetimeEarnings,
                  st.LifetimeHarvests, st.Plots) = st
BY DEF Having, Save

\* They are replaced.
LEMMA HavingTwice ==
    ASSUME NEW st \in Save, NEW c, NEW r, NEW e, NEW h, NEW ps,
           NEW c2, NEW r2, NEW e2, NEW h2, NEW ps2
    PROVE  Having(Having(st, c, r, e, h, ps), c2, r2, e2, h2, ps2)
              = Having(st, c2, r2, e2, h2, ps2)
BY DEF Having, Save

\* Coins that are credited, when they fit.
LEMMA HavingCredit ==
    ASSUME NEW st \in Save, NEW a \in Nat, st.Coins + a <= MaxInt,
           st.RunEarnings + a <= MaxInt, st.LifetimeEarnings + a <= MaxInt
    PROVE  Credit(st, a) = Having(st, st.Coins + a, st.RunEarnings + a,
              st.LifetimeEarnings + a, st.LifetimeHarvests, st.Plots)
<1>1. /\ SatAdd(st.Coins, a) = st.Coins + a /\ SatAdd(st.RunEarnings, a) = st.RunEarnings + a
      /\ SatAdd(st.LifetimeEarnings, a) = st.LifetimeEarnings + a
    BY SaveTyped, MoneyAssumption DEF SatAdd, Amount
<1>2. CASE a = 0
    <2>1. /\ st.Coins + a = st.Coins /\ st.RunEarnings + a = st.RunEarnings
          /\ st.LifetimeEarnings + a = st.LifetimeEarnings /\ Credit(st, a) = st
        BY <1>2, SaveTyped DEF Amount, Credit
    <2> QED
        BY <2>1, HavingSame
<1>3. CASE a > 0
    <2>1. Credit(st, a) = [st EXCEPT !.Coins = st.Coins + a, !.RunEarnings = st.RunEarnings + a,
                                     !.LifetimeEarnings = st.LifetimeEarnings + a]
        BY <1>1, <1>3 DEF Credit
    <2> QED
        BY <2>1 DEF Having, Save
<1> QED
    BY <1>2, <1>3

\* Harvests that are counted, when they fit.
LEMMA HavingHarvests ==
    ASSUME NEW st \in Save, NEW n \in Nat, st.LifetimeHarvests + n <= MaxInt
    PROVE  Harvests(st, n) = Having(st, st.Coins, st.RunEarnings,
              st.LifetimeEarnings, st.LifetimeHarvests + n, st.Plots)
<1>1. SatAdd(st.LifetimeHarvests, n) = st.LifetimeHarvests + n
    BY SaveTyped, MoneyAssumption DEF SatAdd, Amount
<1>2. Harvests(st, n) = [st EXCEPT !.LifetimeHarvests = st.LifetimeHarvests + n]
    BY <1>1 DEF Harvests
<1> QED
    BY <1>2 DEF Having, Save

\* A price that is paid; the batch, which pays what it can, pays it whole.
LEMMA HavingPaid ==
    ASSUME NEW st \in Save, NEW cost \in Nat, cost <= st.Coins
    PROVE  /\ Bought(st, cost) = Having(st, st.Coins - cost, st.RunEarnings,
                 st.LifetimeEarnings, st.LifetimeHarvests, st.Plots)
           /\ Afforded(st, cost) = Bought(st, cost)
<1>1. Min({cost, st.Coins}) = cost
    BY SaveTyped DEF Min, Amount
<1>2. Bought(st, cost) = [st EXCEPT !.Coins = st.Coins - cost]
    BY DEF Bought
<1>3. Afforded(st, cost) = [st EXCEPT !.Coins = st.Coins - cost]
    BY <1>1 DEF Afforded
<1> QED
    BY <1>2, <1>3 DEF Having, Save

\* Its plots, with this one in the place of p.
Replaced(ps, p, plot) == [ps EXCEPT ![p] = plot]

\* A plot that is sown again, or cleared.
LEMMA HavingSown ==
    ASSUME NEW st \in Save, NEW p, NEW m
    PROVE  /\ Sown(st, p, m) = Having(st, st.Coins, st.RunEarnings, st.LifetimeEarnings,
                 st.LifetimeHarvests, Replaced(st.Plots, p, Resown(st.Plots[p], m)))
           /\ Cleared(st, p) = Having(st, st.Coins, st.RunEarnings, st.LifetimeEarnings,
                 st.LifetimeHarvests, Replaced(st.Plots, p, Bare(st.Plots[p])))
<1>1. Sown(st, p, m) = [st EXCEPT !.Plots = Replaced(st.Plots, p, Resown(st.Plots[p], m))]
    BY DEF Sown, Resown, Replaced
<1>2. Cleared(st, p) = [st EXCEPT !.Plots = Replaced(st.Plots, p, Bare(st.Plots[p]))]
    BY DEF Cleared, Bare, Replaced
<1> QED
    BY <1>1, <1>2 DEF Having, Save

\* A sum, for proofs to which it is only that.
IsSum(x, y, sum) == sum = x + y

\* What is credited, counted and paid for, and what it leaves of each account.
Accounts(c, r, e, h, a, m, b, c2, r2, e2, h2, c3) ==
    /\ c \in Amount /\ r \in Amount /\ e \in Amount /\ h \in Amount
    /\ a \in Nat /\ m \in Nat /\ b \in Nat
    /\ c2 \in Amount /\ r2 \in Amount /\ e2 \in Amount /\ h2 \in Amount
    /\ c3 \in Amount
    /\ IsSum(c, a, c2) /\ IsSum(r, a, r2) /\ IsSum(e, a, e2)
    /\ IsSum(h, m, h2) /\ IsSum(c3, b, c2)

\* A harvest, and what may follow: its seed is paid for and sown, or the plot is
\* cleared.
LEMMA HavingHarvested ==
    ASSUME NEW st \in Save, NEW c, NEW r, NEW e, NEW h, NEW ps \in Seq(PlotType),
           NEW a, NEW m, NEW b, NEW c2, NEW r2, NEW e2, NEW h2, NEW c3,
           Accounts(c, r, e, h, a, m, b, c2, r2, e2, h2, c3)
    PROVE  LET paid == Harvests(Credit(Having(st, c, r, e, h, ps), a), m) IN
           /\ paid = Having(st, c2, r2, e2, h2, ps)
           /\ paid \in Save /\ Afforded(paid, b) = Bought(paid, b)
           /\ \A p, t : Sown(Bought(paid, b), p, t)
                            = Having(st, c3, r2, e2, h2, Replaced(ps, p, Resown(ps[p], t)))
           /\ \A p : Cleared(paid, p)
                         = Having(st, c2, r2, e2, h2, Replaced(ps, p, Bare(ps[p])))
<1>0. /\ c \in Amount /\ r \in Amount /\ e \in Amount /\ h \in Amount
      /\ a \in Nat /\ m \in Nat /\ b \in Nat
      /\ c2 \in Amount /\ r2 \in Amount /\ e2 \in Amount /\ h2 \in Amount
      /\ c3 \in Amount
    BY DEF Accounts
<1> DEFINE z == Having(st, c, r, e, h, ps)
           w == Having(st, c2, r2, e2, h, ps)
           x == Having(st, c2, r2, e2, h2, ps)
           v == Having(st, c3, r2, e2, h2, ps)
<1>1. /\ c2 <= MaxInt /\ r2 <= MaxInt /\ e2 <= MaxInt /\ h2 <= MaxInt /\ b <= c2
      /\ c2 = c + a /\ r2 = r + a /\ e2 = e + a /\ h2 = h + m /\ c3 = c2 - b
    BY MoneyAssumption DEF Amount, IsSum, Accounts
<1>2. /\ z \in Save /\ z.Coins = c /\ z.RunEarnings = r /\ z.LifetimeEarnings = e
      /\ z.LifetimeHarvests = h /\ z.Plots = ps
    BY <1>0, HavingIs
<1>3. Credit(z, a) = Having(z, c2, r2, e2, h, ps)
    <2> HIDE DEF z
    <2> QED
        BY <1>0, <1>1, <1>2, HavingCredit
<1>4. Credit(z, a) = w
    BY <1>3, HavingTwice
<1>5. /\ w \in Save /\ w.Coins = c2 /\ w.RunEarnings = r2 /\ w.LifetimeEarnings = e2
      /\ w.LifetimeHarvests = h /\ w.Plots = ps
    BY <1>0, HavingIs
<1>6. Harvests(w, m) = x
    <2>1. Harvests(w, m) = Having(w, c2, r2, e2, h2, ps)
        <3> HIDE DEF w
        <3> QED
            BY <1>0, <1>1, <1>5, HavingHarvests
    <2> QED
        BY <2>1, HavingTwice
<1>7. /\ x \in Save /\ x.Coins = c2 /\ x.RunEarnings = r2
      /\ x.LifetimeEarnings = e2 /\ x.LifetimeHarvests = h2 /\ x.Plots = ps
    BY <1>0, HavingIs
<1>8. Bought(x, b) = v /\ Afforded(x, b) = Bought(x, b)
    <2>1. /\ Bought(x, b) = Having(x, c3, r2, e2, h2, ps)
          /\ Afforded(x, b) = Bought(x, b)
        <3> HIDE DEF x
        <3> QED
            BY <1>0, <1>1, <1>7, HavingPaid
    <2> QED
        BY <2>1, HavingTwice
<1>9. /\ v \in Save /\ v.Coins = c3 /\ v.RunEarnings = r2
      /\ v.LifetimeEarnings = e2 /\ v.LifetimeHarvests = h2 /\ v.Plots = ps
    BY <1>0, HavingIs
<1>10. ASSUME NEW p, NEW t
       PROVE  Sown(v, p, t) = Having(st, c3, r2, e2, h2, Replaced(ps, p, Resown(ps[p], t)))
    <2>1. Sown(v, p, t) = Having(v, c3, r2, e2, h2, Replaced(ps, p, Resown(ps[p], t)))
        <3> HIDE DEF v
        <3> QED
            BY <1>9, HavingSown
    <2> QED
        BY <2>1, HavingTwice
<1>11. ASSUME NEW p
       PROVE  Cleared(x, p) = Having(st, c2, r2, e2, h2, Replaced(ps, p, Bare(ps[p])))
    <2>1. Cleared(x, p) = Having(x, c2, r2, e2, h2, Replaced(ps, p, Bare(ps[p])))
        <3> HIDE DEF x
        <3> QED
            BY <1>7, HavingSown
    <2> QED
        BY <2>1, HavingTwice
<1>12. Harvests(Credit(z, a), m) = x
    BY <1>4, <1>6
<1>13. /\ x \in Save /\ Afforded(x, b) = Bought(x, b)
       /\ \A p, t : Sown(Bought(x, b), p, t)
             = Having(st, c3, r2, e2, h2, Replaced(ps, p, Resown(ps[p], t)))
    BY <1>7, <1>8, <1>10
<1>14. x = Having(st, c2, r2, e2, h2, ps)
    OBVIOUS
<1> HIDE DEF x, v, w
<1> QED
    BY <1>11, <1>12, <1>13, <1>14

-----------------------------------------------------------------------------
(* Crops whose rates do not change while the save catches up.               *)

\* The moon does not change what this crop sells for.
Moonproof(crop) ==
    \/ Content.Moon.FullMoonSellBonusPct = 0
    \/ crop.ID # Content.Moon.MoonberryCropID

\* A crop that brings the same whenever it is harvested.
SureCrops ==
    {crop \in GoodCrop :
        crop.FailChancePct = 0 /\ crop.Archetype # "risky" /\ Moonproof(crop)}

\* A crop that does not fail, by its archetype.
LEMMA SureCrop ==
    ASSUME NEW id \in Ids(Content.Crops), ById(Content.Crops, id).Archetype # "risky",
           Moonproof(ById(Content.Crops, id))
    PROVE  ById(Content.Crops, id) \in SureCrops
<1>1. PICK i \in DOMAIN Content.Crops :
          ById(Content.Crops, id) = Content.Crops[i]
    BY ByIdIs
<1>2. ValidCrops(Content)
    BY EngineAssumption DEF Validate
<1>3. Content.Crops[i].FailChancePct = 0
    BY <1>1, <1>2 DEF ValidCrops
<1> QED
    BY <1>1, <1>3, CropById DEF SureCrops

\* Two saves of one run between purchases, as far as the rates of crops go.
Alike(st, x) ==
    x.Upgrades = st.Upgrades /\ x.Multipliers = st.Multipliers /\ x.EventID = st.EventID

\* What a crop sells for without a moon.
LEMMA SureSell ==
    ASSUME NEW st \in Save, NEW crop \in SureCrops
    PROVE  /\ ExpectedPayout(st, crop) =
                 WithBonus(crop.SellValue,
                           Owned(Content.Upgrades, st.Upgrades, "sell_bonus_pct")
                         + Owned(Content.Multipliers, st.Multipliers, "sell_bonus_pct")
                         + EventEffect(st, "sell_bonus_pct"))
           /\ ExpectedPayout(st, crop) = SellMultiplied(st, crop.SellValue, crop.ID)
           /\ ExpectedPayout(st, crop) \in Nat
<1> DEFINE bonus == Owned(Content.Upgrades, st.Upgrades, "sell_bonus_pct")
                  + Owned(Content.Multipliers, st.Multipliers, "sell_bonus_pct")
                  + EventEffect(st, "sell_bonus_pct")
           base == crop.SellValue
           moon == IF IsFullMoon(st, crop.ID) THEN Content.Moon.FullMoonSellBonusPct ELSE 0
<1>1. base \in Nat /\ crop.Archetype # "risky" /\ crop \in GoodCrop
    BY GoodCropTyped DEF SureCrops
<1>2. bonus \in Nat
    <2>1. /\ Owned(Content.Upgrades, st.Upgrades, "sell_bonus_pct") \in Nat
          /\ Owned(Content.Multipliers, st.Multipliers, "sell_bonus_pct") \in Nat
        BY OwnedType, SaveLevels
    <2> QED
        BY <2>1, EventEffectType
<1>3. moon = 0
    BY DEF IsFullMoon, SureCrops, Moonproof
<1>4. SellMultiplied(st, base, crop.ID) = WithBonus(base, bonus + moon)
    BY DEF SellMultiplied
<1>5. ExpectedPayout(st, crop) = SellMultiplied(st, base, crop.ID)
    BY <1>1 DEF ExpectedPayout
<1> HIDE DEF bonus, base, moon
<1>6. bonus + moon = bonus
    BY <1>2, <1>3
<1>7. WithBonus(base, bonus) \in Nat
    <2> DEFINE product == base * (100 + bonus)
    <2>1. product \in Nat
        BY <1>1, <1>2, Monotone
    <2>2. product \div 100 \in Nat
        BY <2>1, Quotient
    <2>3. base > MaxInt \div (100 + bonus) <=> product > MaxInt
        BY <1>1, <1>2, MoneyAssumption, ClampTest
    <2>4. product <= MaxInt => Quo(Wrap(product), 100) = product \div 100
        BY <2>1, MoneyAssumption, UncheckedExact
    <2> HIDE DEF product
    <2>5. CASE product > MaxInt
        <3>1. base > MaxInt \div (100 + bonus)
            BY <2>3, <2>5
        <3> QED
            BY <3>1, <1>1, MoneyAssumption DEF WithBonus
    <2>6. CASE product <= MaxInt
        <3>1. ~(base > MaxInt \div (100 + bonus))
            BY <2>1, <2>3, <2>6, MoneyAssumption
        <3>2. Quo(Wrap(base * (100 + bonus)), 100) \in Nat
            BY <2>2, <2>4, <2>6 DEF product
        <3> QED
            BY <3>1, <3>2, <1>1 DEF WithBonus
    <2> QED
        BY <2>1, <2>5, <2>6, MoneyAssumption
<1> QED
    BY <1>4, <1>5, <1>6, <1>7 DEF bonus, base

\* Rates are those of the upgrades, the multipliers and the event.
LEMMA RatesAgree ==
    ASSUME NEW st \in Save, NEW x \in Save, Alike(st, x), NEW crop \in SureCrops
    PROVE  /\ ExpectedPayout(x, crop) = ExpectedPayout(st, crop)
           /\ SeedCost(x, crop) = SeedCost(st, crop)
           /\ GrowSeconds(x, crop) = GrowSeconds(st, crop)
<1>1. \A effect : EventEffect(x, effect) = EventEffect(st, effect)
    BY DEF EventEffect, Alike
<1>2. ExpectedPayout(x, crop) = ExpectedPayout(st, crop)
    BY <1>1, SureSell DEF Alike
<1>3. SeedCost(x, crop) = SeedCost(st, crop)
    BY <1>1 DEF SeedCost
<1>4. GrowSeconds(x, crop) = GrowSeconds(st, crop)
    BY <1>1 DEF GrowSeconds, Alike
<1> QED
    BY <1>2, <1>3, <1>4

\* No harvest is golden, and nothing is found with one.
NoLuck(st) ==
    /\ Content.GoldenHarvest.ChancePct = 0
    /\ Content.Flavor.Enabled /\ st.FlavorEnabled => Content.Flavor.DiscoveryChancePct = 0

\* Then a harvest brings what is expected.
LEMMA SureHarvest ==
    ASSUME NEW st \in Save, NEW crop \in SureCrops, NoLuck(st)
    PROVE  Harvested(st, crop) = {Harvests(Credit(st, ExpectedPayout(st, crop)), 1)}
<1> DEFINE plain == {SellMultiplied(st, IF failed THEN Salvage(st, crop)
                                               ELSE crop.SellValue, crop.ID) :
                     failed \in Roll(crop.FailChancePct, 100)}
        chance == IF Content.Flavor.Enabled /\ st.FlavorEnabled
                  THEN Content.Flavor.DiscoveryChancePct ELSE 0
        golden == Content.GoldenHarvest
        coins == {IF lucky THEN Golden(payout, golden.Multiplier) ELSE payout :
                     payout \in plain, lucky \in Roll(golden.ChancePct, 100)}
        found == UNION {IF hit THEN RollRange(Content.Flavor.DiscoveryMin,
                                          Content.Flavor.DiscoveryMax)
                           ELSE {0} : hit \in Roll(chance, 100)}
        gross == ExpectedPayout(st, crop)
<1>1. \A hit : hit \in Roll(0, 100) <=> hit = FALSE
    <2>1. ~(0 > 0) /\ 0 < 100
        OBVIOUS
    <2>2. \A hit : hit \in Roll(0, 100)
                <=> hit \in BOOLEAN /\ IF hit THEN 0 > 0 ELSE 0 < 100
        BY DEF Roll
    <2>3. FALSE \in Roll(0, 100) /\ TRUE \notin Roll(0, 100)
        BY <2>1, <2>2
    <2>4. \A hit \in Roll(0, 100) : hit \in BOOLEAN
        BY DEF Roll
    <2> QED
        BY <2>3, <2>4, Zenon
<1>2. crop.FailChancePct = 0 /\ golden.ChancePct = 0 /\ chance = 0
    BY DEF SureCrops, NoLuck
<1>3. plain = {gross}
    BY <1>1, <1>2, SureSell
<1>4. coins = {gross}
    <2> HIDE DEF plain, gross
    <2>1. \A payout : payout \in plain <=> payout = gross
        BY <1>3
    <2>2. \A lucky : lucky \in Roll(golden.ChancePct, 100) <=> lucky = FALSE
        BY <1>1, <1>2
    <2>3. \A c : c \in coins <=> \E payout \in plain, lucky \in Roll(golden.ChancePct, 100) :
                    c = IF lucky THEN Golden(payout, golden.Multiplier) ELSE payout
        OBVIOUS
    <2> HIDE DEF coins, golden
    <2>4. \A c : c \in coins <=> c = gross
        BY <2>1, <2>2, <2>3
    <2> QED
        BY <2>4
<1>5. found = {0}
    BY <1>1, <1>2
<1>6. HarvestPayout(st, crop) = coins \X found
    BY DEF HarvestPayout
<1> HIDE DEF coins, found, gross
<1>7. HarvestPayout(st, crop) = {<<gross, 0>>}
    BY <1>4, <1>5, <1>6
<1>8. \A x : Credit(x, 0) = x
    BY DEF Credit
<1>9. Harvested(st, crop) = {Harvests(Credit(Credit(st, gross), 0), 1)}
    BY <1>7 DEF Harvested
<1> QED
    BY <1>8, <1>9 DEF gross

-----------------------------------------------------------------------------
(* What a number of harvests leaves of one plot.                            *)

\* A plot that is harvested n times, for so many coins each, sown again for so
\* many, when it has grown for so long; and no count overflows.
Job(st, p, n, gross, seed, grow) ==
    /\ st \in Save /\ p \in DOMAIN st.Plots
    /\ n \in Nat /\ gross \in Nat /\ seed \in 0 .. gross /\ grow \in Nat \ {0}
    /\ st.Coins + n * gross <= MaxInt /\ st.RunEarnings + n * gross <= MaxInt
    /\ st.LifetimeEarnings + n * gross <= MaxInt
    /\ st.LifetimeHarvests + n <= MaxInt

\* The plot after k harvests.
PlotAfter(plot, k, grow) ==
    IF k = 0 THEN plot
    ELSE IF plot.AutoSow THEN Resown(plot, plot.PlantedAt + k * grow)
    ELSE Bare(plot)

\* The save after them.
Reaped(st, p, k, gross, seed, grow) ==
    Having(st, st.Coins + k * (gross - seed), st.RunEarnings + k * gross,
           st.LifetimeEarnings + k * gross, st.LifetimeHarvests + k,
           Replaced(st.Plots, p, PlotAfter(st.Plots[p], k, grow)))

\* Plots that are replaced.
LEMMA ReplacedIs ==
    ASSUME NEW ps \in Seq(PlotType), NEW p \in DOMAIN ps, NEW plot \in PlotType
    PROVE  /\ Replaced(ps, p, plot) \in Seq(PlotType)
           /\ Len(Replaced(ps, p, plot)) = Len(ps)
           /\ DOMAIN Replaced(ps, p, plot) = DOMAIN ps
           /\ Replaced(ps, p, plot)[p] = plot
           /\ \A r \in DOMAIN ps \ {p} : Replaced(ps, p, plot)[r] = ps[r]
           /\ \A q : Replaced(Replaced(ps, p, plot), p, q) = Replaced(ps, p, q)
           /\ Replaced(ps, p, ps[p]) = ps
<1> DEFINE r == Replaced(ps, p, plot)
<1>1. r = [ps EXCEPT ![p] = plot]
    BY DEF Replaced
<1>2. r \in Seq(PlotType) /\ Len(r) = Len(ps) /\ DOMAIN r = DOMAIN ps
    BY <1>1, ExceptSeq
<1>3. r[p] = plot /\ \A k \in DOMAIN ps \ {p} : r[k] = ps[k]
    BY <1>1
<1>4. \A q : Replaced(r, p, q) = Replaced(ps, p, q)
    BY <1>1 DEF Replaced
<1>5. Replaced(ps, p, ps[p]) = ps
    BY DEF Replaced
<1> QED
    BY <1>2, <1>3, <1>4, <1>5

\* A plot after harvests.
LEMMA PlotAfterIs ==
    ASSUME NEW plot \in PlotType, NEW k \in Nat, NEW grow \in Nat
    PROVE  /\ PlotAfter(plot, k, grow) \in PlotType
           /\ PlotAfter(plot, k, grow).AutoHarvest = plot.AutoHarvest
           /\ PlotAfter(plot, k, grow).AutoSow = plot.AutoSow
           /\ PlotAfter(plot, 0, grow) = plot
           /\ plot.AutoSow =>
                 /\ PlotAfter(plot, k, grow).Crop = plot.Crop
                 /\ PlotAfter(plot, k, grow).PlantedAt = plot.PlantedAt + k * grow
                 /\ \A m \in Int : Resown(PlotAfter(plot, k, grow), m) = Resown(plot, m)
<1>1. plot.PlantedAt \in Int /\ k * grow \in Nat /\ (k = 0 => k * grow = 0)
    <2>1. \A i, j \in Nat : i * j \in Nat /\ 0 * j = 0
        BY Z3
    <2> QED
        BY <2>1 DEF PlotType
<1> DEFINE m == plot.PlantedAt + k * grow
<1>2. m \in Int /\ (k = 0 => m = plot.PlantedAt)
    BY <1>1
<1> HIDE DEF m
<1>3. /\ Resown(plot, m) \in PlotType /\ Resown(plot, m).Crop = plot.Crop
      /\ Resown(plot, m).PlantedAt = m
      /\ Resown(plot, m).AutoHarvest = plot.AutoHarvest
      /\ Resown(plot, m).AutoSow = plot.AutoSow
      /\ Bare(plot) \in PlotType
    BY <1>2, PlotsAfter
<1>4. Bare(plot).AutoHarvest = plot.AutoHarvest /\ Bare(plot).AutoSow = plot.AutoSow
    BY DEF Bare, PlotType
<1>5. \A a, b : Resown(Resown(plot, a), b) = Resown(plot, b)
    BY DEF Resown, PlotType
<1>6. PlotAfter(plot, k, grow) = IF k = 0 THEN plot
                                 ELSE IF plot.AutoSow THEN Resown(plot, m) ELSE Bare(plot)
    BY DEF PlotAfter, m
<1>7. PlotAfter(plot, 0, grow) = plot
    BY DEF PlotAfter
<1>8. plot.AutoSow =>
         /\ PlotAfter(plot, k, grow).Crop = plot.Crop
         /\ PlotAfter(plot, k, grow).PlantedAt = m
         /\ \A a \in Int : Resown(PlotAfter(plot, k, grow), a) = Resown(plot, a)
    BY <1>2, <1>3, <1>5, <1>6
<1> QED
    BY <1>3, <1>4, <1>5, <1>6, <1>7, <1>8 DEF m

\* Products of a count.
LEMMA Products ==
    ASSUME NEW k \in Nat, NEW m \in Nat, NEW n \in Nat, k + m <= n, NEW c \in Nat
    PROVE  /\ k * c \in Nat /\ m * c \in Nat /\ (k + m) * c = k * c + m * c
           /\ k * c + m * c <= n * c /\ n * c \in Nat
           /\ 0 * c = 0 /\ 1 * c = c
<1>1. /\ k * c \in Nat /\ m * c \in Nat /\ n * c \in Nat
      /\ (k + m) * c = k * c + m * c /\ 0 * c = 0 /\ 1 * c = c
    BY Z3
<1>2. (k + m) * c <= n * c
    BY Monotone
<1> QED
    BY <1>1, <1>2

\* The save after some of the harvests of a job.
LEMMA ReapedIs ==
    ASSUME NEW st, NEW p, NEW n, NEW gross, NEW seed, NEW grow,
           Job(st, p, n, gross, seed, grow), NEW k \in Nat, k <= n,
           NEW x, x = Reaped(st, p, k, gross, seed, grow)
    PROVE  /\ x \in Save
           /\ x.Coins = st.Coins + k * (gross - seed)
           /\ x.RunEarnings = st.RunEarnings + k * gross
           /\ x.LifetimeEarnings = st.LifetimeEarnings + k * gross
           /\ x.LifetimeHarvests = st.LifetimeHarvests + k
           /\ x.Plots = Replaced(st.Plots, p, PlotAfter(st.Plots[p], k, grow))
           /\ x.Plots[p] = PlotAfter(st.Plots[p], k, grow)
           /\ k * (gross - seed) <= k * gross /\ k * (gross - seed) \in Nat
           /\ Alike(st, x)
           /\ x.Zones = st.Zones /\ x.Rebirths = st.Rebirths
           /\ x.FlavorEnabled = st.FlavorEnabled
           /\ k = 0 => x = st
<1> DEFINE a == k * gross
           d == k * (gross - seed)
           q == PlotAfter(st.Plots[p], k, grow)
           ps == Replaced(st.Plots, p, q)
<1>1. /\ st \in Save /\ p \in DOMAIN st.Plots /\ n \in Nat /\ gross \in Nat /\ grow \in Nat
      /\ seed \in Nat /\ seed <= gross /\ gross - seed \in Nat
      /\ st.Coins + n * gross <= MaxInt /\ st.RunEarnings + n * gross <= MaxInt
      /\ st.LifetimeEarnings + n * gross <= MaxInt
      /\ st.LifetimeHarvests + n <= MaxInt
    BY DEF Job
<1>2. a \in Nat /\ d \in Nat /\ n * gross \in Nat /\ a <= n * gross
    BY <1>1, Monotone
<1>3. d <= a
    <2>1. \A i, j, l \in Nat : j <= l => i * j <= i * l
        BY Z3
    <2> QED
        BY <1>1, <2>1
<1>4. st.Plots[p] \in PlotType /\ q \in PlotType
    BY <1>1, PlotTyped, PlotAfterIs
<1>5. ps \in Seq(PlotType) /\ ps[p] = q
    BY <1>1, <1>4, ReplacedIs, SaveTyped
<1>6. k = 0 => a = 0 /\ d = 0 /\ ps = st.Plots
    <2>1. \A i \in Nat : 0 * i = 0
        BY Z3
    <2>2. k = 0 => q = st.Plots[p]
        BY DEF PlotAfter
    <2>3. Replaced(st.Plots, p, st.Plots[p]) = st.Plots
        BY <1>1, <1>4, ReplacedIs, SaveTyped
    <2> QED
        BY <1>1, <2>1, <2>2, <2>3
<1>7. x = Having(st, st.Coins + d, st.RunEarnings + a, st.LifetimeEarnings + a,
                 st.LifetimeHarvests + k, ps)
    BY DEF Reaped
<1> DEFINE nn == n * gross
<1> HIDE DEF a, d, q, ps, nn
<1>8. /\ st.Coins \in Amount /\ st.RunEarnings \in Amount
      /\ st.LifetimeEarnings \in Amount /\ st.LifetimeHarvests \in Amount
    BY <1>1, SaveTyped
<1>9. /\ st.Coins + nn <= MaxInt /\ st.RunEarnings + nn <= MaxInt
      /\ st.LifetimeEarnings + nn <= MaxInt /\ nn \in Nat /\ a <= nn
    BY <1>1, <1>2 DEF nn
<1>10. /\ st.Coins + d \in Amount /\ st.RunEarnings + a \in Amount
       /\ st.LifetimeEarnings + a \in Amount /\ st.LifetimeHarvests + k \in Amount
    BY <1>1, <1>2, <1>3, <1>8, <1>9, MoneyAssumption DEF Amount
<1>11. /\ x \in Save
       /\ x.Coins = st.Coins + d /\ x.RunEarnings = st.RunEarnings + a
       /\ x.LifetimeEarnings = st.LifetimeEarnings + a
       /\ x.LifetimeHarvests = st.LifetimeHarvests + k /\ x.Plots = ps
       /\ x.Zones = st.Zones /\ x.Rebirths = st.Rebirths /\ x.Upgrades = st.Upgrades
       /\ x.Multipliers = st.Multipliers /\ x.EventID = st.EventID
       /\ x.FlavorEnabled = st.FlavorEnabled
    <2> DEFINE c == st.Coins + d
               r == st.RunEarnings + a
               e == st.LifetimeEarnings + a
               h == st.LifetimeHarvests + k
    <2>1. /\ st \in Save /\ c \in Amount /\ r \in Amount /\ e \in Amount /\ h \in Amount
          /\ ps \in Seq(PlotType) /\ x = Having(st, c, r, e, h, ps)
        BY <1>1, <1>5, <1>7, <1>10
    <2> HIDE DEF c, r, e, h
    <2>2. LET y == Having(st, c, r, e, h, ps) IN
          /\ y \in Save
          /\ y.Coins = c /\ y.RunEarnings = r /\ y.LifetimeEarnings = e
          /\ y.LifetimeHarvests = h /\ y.Plots = ps
          /\ y.Zones = st.Zones /\ y.Rebirths = st.Rebirths /\ y.Upgrades = st.Upgrades
          /\ y.Multipliers = st.Multipliers /\ y.EventID = st.EventID
          /\ y.FlavorEnabled = st.FlavorEnabled
        <3>1. /\ st \in Save /\ c \in Amount /\ r \in Amount /\ e \in Amount /\ h \in Amount
              /\ ps \in Seq(PlotType)
            BY <2>1
        <3> QED
            BY <3>1, HavingIs
    <2>3. /\ x \in Save
          /\ x.Coins = c /\ x.RunEarnings = r /\ x.LifetimeEarnings = e
          /\ x.LifetimeHarvests = h /\ x.Plots = ps
          /\ x.Zones = st.Zones /\ x.Rebirths = st.Rebirths /\ x.Upgrades = st.Upgrades
          /\ x.Multipliers = st.Multipliers /\ x.EventID = st.EventID
          /\ x.FlavorEnabled = st.FlavorEnabled
        BY <2>1, <2>2
    <2> QED
        BY <2>3 DEF c, r, e, h
<1>12. k = 0 => x = st
    <2> SUFFICES ASSUME k = 0 PROVE x = st
        OBVIOUS
    <2>1. /\ st.Coins + d = st.Coins /\ st.RunEarnings + a = st.RunEarnings
          /\ st.LifetimeEarnings + a = st.LifetimeEarnings
          /\ st.LifetimeHarvests + k = st.LifetimeHarvests
        BY <1>6, <1>8 DEF Amount
    <2> QED
        BY <1>1, <1>6, <1>7, <2>1, HavingSame
<1> QED
    BY <1>2, <1>3, <1>5, <1>11, <1>12 DEF a, d, ps, q, Alike

\* m more harvests in a row, paid and sown for at once.
LEMMA ReapMore ==
    ASSUME NEW st, NEW p, NEW n, NEW gross, NEW seed, NEW grow,
           Job(st, p, n, gross, seed, grow), st.Plots[p].AutoSow,
           NEW k \in Nat, NEW m \in Nat \ {0}, k + m <= n,
           NEW y, y = Reaped(st, p, k, gross, seed, grow)
    PROVE  LET paid == Harvests(Credit(y, m * gross), m) IN
           /\ m * seed <= paid.Coins /\ m * gross <= paid.Coins
           /\ paid.Plots[p].AutoSow
           /\ SeedCost(paid, ById(Content.Crops, st.Plots[p].Crop))
                 = SeedCost(st, ById(Content.Crops, st.Plots[p].Crop))
           /\ st.LifetimeEarnings <= paid.LifetimeEarnings
           /\ paid.Zones = st.Zones /\ paid.Rebirths = st.Rebirths /\ paid \in Save
           /\ Sown(Bought(paid, m * seed), p, st.Plots[p].PlantedAt + (k + m) * grow)
                 = Reaped(st, p, k + m, gross, seed, grow)
           /\ Afforded(paid, m * seed) = Bought(paid, m * seed)
<1> DEFINE a == m * gross
           b == m * seed
           net == gross - seed
           ka == k * gross
           kd == k * net
           plot == st.Plots[p]
           ps == Replaced(st.Plots, p, PlotAfter(plot, k, grow))
           last == Resown(plot, plot.PlantedAt + (k + m) * grow)
           crop == ById(Content.Crops, plot.Crop)
<1>1. /\ st \in Save /\ p \in DOMAIN st.Plots /\ n \in Nat /\ gross \in Nat
      /\ grow \in Nat /\ seed \in Nat /\ seed <= gross /\ net \in Nat
      /\ st.Coins + n * gross <= MaxInt /\ st.RunEarnings + n * gross <= MaxInt
      /\ st.LifetimeEarnings + n * gross <= MaxInt
      /\ st.LifetimeHarvests + n <= MaxInt
      /\ k <= n /\ m \in Nat
    BY DEF Job
<1>2. /\ y \in Save /\ y.Coins = st.Coins + kd /\ y.RunEarnings = st.RunEarnings + ka
      /\ y.LifetimeEarnings = st.LifetimeEarnings + ka
      /\ y.LifetimeHarvests = st.LifetimeHarvests + k /\ y.Plots = ps
      /\ y.Plots[p] = PlotAfter(plot, k, grow)
      /\ kd <= ka /\ kd \in Nat /\ Alike(st, y) /\ y.Zones = st.Zones
      /\ y.Rebirths = st.Rebirths
    BY <1>1, ReapedIs
<1>3. /\ ka \in Nat /\ a \in Nat /\ (k + m) * gross = ka + a /\ ka + a <= n * gross
      /\ n * gross \in Nat
    BY <1>1, Products
<1>4. b \in Nat /\ b <= a /\ a - b = m * net /\ (k + m) * net = kd + m * net
    <2>1. \A i, g, s \in Nat : s <= g => /\ i * s \in Nat /\ i * s <= i * g
                                        /\ i * g - i * s = i * (g - s)
        BY Z3
    <2>2. (k + m) * net = kd + m * net
        BY <1>1, Products
    <2> QED
        BY <1>1, <2>1, <2>2
<1>5. y = Having(st, st.Coins + kd, st.RunEarnings + ka, st.LifetimeEarnings + ka,
                 st.LifetimeHarvests + k, ps)
    BY DEF Reaped
<1>6. Reaped(st, p, k + m, gross, seed, grow)
         = Having(st, st.Coins + (k + m) * net, st.RunEarnings + (k + m) * gross,
                  st.LifetimeEarnings + (k + m) * gross, st.LifetimeHarvests + (k + m),
                  Replaced(st.Plots, p, PlotAfter(plot, k + m, grow)))
    BY DEF Reaped
<1>7. plot \in PlotType /\ PlotAfter(plot, k + m, grow) = last
    <2>1. k + m # 0
        OBVIOUS
    <2> QED
        BY <1>1, <2>1, PlotTyped DEF PlotAfter
<1>8. /\ ps \in Seq(PlotType) /\ ps[p] = PlotAfter(plot, k, grow) /\ ps[p].AutoSow
      /\ Resown(ps[p], plot.PlantedAt + (k + m) * grow) = last
      /\ \A q : Replaced(ps, p, q) = Replaced(st.Plots, p, q)
    <2>1. PlotAfter(plot, k, grow) \in PlotType /\ PlotAfter(plot, k, grow).AutoSow
        BY <1>1, <1>7, PlotAfterIs
    <2>2. /\ ps \in Seq(PlotType) /\ ps[p] = PlotAfter(plot, k, grow)
          /\ \A q : Replaced(ps, p, q) = Replaced(st.Plots, p, q)
        BY <1>1, <2>1, ReplacedIs, SaveTyped
    <2>3. plot.PlantedAt + (k + m) * grow \in Int
        <3>1. (k + m) * grow \in Nat
            BY <1>1, Monotone
        <3> QED
            BY <1>7, <3>1 DEF PlotType
    <2>4. \A i \in Int : Resown(PlotAfter(plot, k, grow), i) = Resown(plot, i)
        <3>1. plot \in PlotType /\ plot.AutoSow /\ k \in Nat /\ grow \in Nat
            BY <1>1, <1>7
        <3> HIDE DEF plot
        <3> QED
            BY <3>1, PlotAfterIs
    <2> QED
        BY <2>1, <2>2, <2>3, <2>4
<1> DEFINE nn == n * gross
<1>9. /\ st.Coins + nn <= MaxInt /\ st.RunEarnings + nn <= MaxInt
      /\ st.LifetimeEarnings + nn <= MaxInt /\ nn \in Nat /\ ka + a <= nn
    BY <1>1, <1>3
<1>10. /\ st.Coins \in Amount /\ st.RunEarnings \in Amount
       /\ st.LifetimeEarnings \in Amount /\ st.LifetimeHarvests \in Amount
    BY <1>1, SaveTyped
<1> DEFINE c == st.Coins + kd
           r == st.RunEarnings + ka
           e == st.LifetimeEarnings + ka
           h == st.LifetimeHarvests + k
           c2 == c + a
           r2 == r + a
           e2 == e + a
           h2 == h + m
           c3 == c2 - b
           seeds == m * net
<1> HIDE DEF a, b, net, ka, kd, nn, plot, ps, last, seeds
<1>11. a - b = seeds /\ seeds \in Nat
    BY <1>3, <1>4 DEF seeds
<1>12. /\ c \in Amount /\ r \in Amount /\ e \in Amount /\ h \in Amount
       /\ c2 \in Amount /\ r2 \in Amount /\ e2 \in Amount /\ h2 \in Amount
       /\ c3 \in Amount /\ a <= c2 /\ b <= c2 /\ st.LifetimeEarnings <= e2
    BY <1>1, <1>2, <1>3, <1>4, <1>9, <1>10, MoneyAssumption DEF Amount
<1>13. /\ st.Coins + (kd + seeds) = c3 /\ st.RunEarnings + (ka + a) = r2
       /\ st.LifetimeEarnings + (ka + a) = e2 /\ st.LifetimeHarvests + (k + m) = h2
    <2>1. /\ st.Coins \in Int /\ st.RunEarnings \in Int /\ st.LifetimeEarnings \in Int
          /\ st.LifetimeHarvests \in Int
          /\ kd \in Int /\ ka \in Int /\ a \in Int /\ b \in Int /\ a - b = seeds
        BY <1>2, <1>3, <1>4, <1>10, <1>11 DEF Amount
    <2> QED
        BY <2>1
<1>14. Accounts(c, r, e, h, a, m, b, c2, r2, e2, h2, c3)
    <2>1. /\ IsSum(c, a, c2) /\ IsSum(r, a, r2) /\ IsSum(e, a, e2)
          /\ IsSum(h, m, h2) /\ IsSum(c3, b, c2)
        BY <1>4, <1>12 DEF IsSum, Amount
    <2> HIDE DEF c, r, e, h, c2, r2, e2, h2, c3
    <2> QED
        BY <1>3, <1>4, <1>12, <2>1 DEF Accounts
<1> HIDE DEF c, r, e, h, c2, r2, e2, h2, c3
<1>15. y = Having(st, c, r, e, h, ps)
    BY <1>5 DEF c, r, e, h
<1> DEFINE t == plot.PlantedAt + (k + m) * grow
           x == Harvests(Credit(y, a), m)
<1>16. /\ x = Having(st, c2, r2, e2, h2, ps)
       /\ x \in Save /\ Afforded(x, b) = Bought(x, b)
       /\ Sown(Bought(x, b), p, t) = Having(st, c3, r2, e2, h2, Replaced(ps, p, Resown(ps[p], t)))
    <2> DEFINE z == Harvests(Credit(Having(st, c, r, e, h, ps), a), m)
    <2>1. st \in Save /\ ps \in Seq(PlotType)
        BY <1>1, <1>8
    <2> HIDE DEF t
    <2>2. /\ z = Having(st, c2, r2, e2, h2, ps)
          /\ z \in Save /\ Afforded(z, b) = Bought(z, b)
          /\ Sown(Bought(z, b), p, t) = Having(st, c3, r2, e2, h2, Replaced(ps, p, Resown(ps[p], t)))
        BY <2>1, <1>14, HavingHarvested
    <2>3. x = z
        BY <1>15
    <2> HIDE DEF z, x
    <2> QED
        BY <2>2, <2>3
<1>17. /\ x.Coins = c2 /\ x.LifetimeEarnings = e2 /\ x.Plots = ps
       /\ x.Zones = st.Zones /\ x.Rebirths = st.Rebirths /\ x.EventID = st.EventID
    <2> HIDE DEF x
    <2>1. /\ st \in Save /\ c2 \in Amount /\ r2 \in Amount /\ e2 \in Amount
          /\ h2 \in Amount /\ ps \in Seq(PlotType)
        BY <1>1, <1>8, <1>12
    <2>2. LET z == Having(st, c2, r2, e2, h2, ps) IN
          /\ z.Coins = c2 /\ z.LifetimeEarnings = e2 /\ z.Plots = ps
          /\ z.Zones = st.Zones /\ z.Rebirths = st.Rebirths /\ z.EventID = st.EventID
        BY <2>1, HavingIs
    <2> QED
        BY <2>2, <1>16
<1>18. Sown(Bought(x, b), p, t) = Reaped(st, p, k + m, gross, seed, grow)
    <2>1. Replaced(ps, p, Resown(ps[p], t)) = Replaced(st.Plots, p, last)
        BY <1>8
    <2>2. Reaped(st, p, k + m, gross, seed, grow)
             = Having(st, c3, r2, e2, h2, Replaced(st.Plots, p, last))
        BY <1>3, <1>4, <1>6, <1>7, <1>13 DEF seeds
    <2> HIDE DEF x, t
    <2> QED
        BY <1>16, <2>1, <2>2
<1>19. SeedCost(x, crop) = SeedCost(st, crop)
    <2> HIDE DEF x, crop
    <2> QED
        BY <1>17 DEF SeedCost, EventEffect
<1>20. /\ b <= x.Coins /\ a <= x.Coins /\ x.Plots[p].AutoSow
       /\ st.LifetimeEarnings <= x.LifetimeEarnings
    <2> HIDE DEF x
    <2> QED
        BY <1>8, <1>12, <1>17
<1> HIDE DEF x, crop
<1>21. /\ b <= x.Coins /\ a <= x.Coins /\ x.Plots[p].AutoSow
       /\ SeedCost(x, crop) = SeedCost(st, crop)
       /\ st.LifetimeEarnings <= x.LifetimeEarnings
       /\ x.Zones = st.Zones /\ x.Rebirths = st.Rebirths /\ x \in Save
       /\ Sown(Bought(x, b), p, t) = Reaped(st, p, k + m, gross, seed, grow)
       /\ Afforded(x, b) = Bought(x, b)
    BY <1>16, <1>17, <1>18, <1>19, <1>20
<1> QED
    BY <1>21 DEF x, a, b, crop, plot

\* A harvest after which the plot is cleared.
LEMMA ReapLast ==
    ASSUME NEW st, NEW p, NEW n, NEW gross, NEW grow,
           Job(st, p, n, gross, 0, grow), ~st.Plots[p].AutoSow, n >= 1
    PROVE  LET paid == Harvests(Credit(st, gross), 1) IN
           /\ ~paid.Plots[p].AutoSow
           /\ Cleared(paid, p) = Reaped(st, p, 1, gross, 0, grow)
<1> DEFINE c == st.Coins
           r == st.RunEarnings
           e == st.LifetimeEarnings
           h == st.LifetimeHarvests
           c2 == c + gross
           r2 == r + gross
           e2 == e + gross
           h2 == h + 1
           ps == st.Plots
           one == 1
           none == 0
           x == Harvests(Credit(st, gross), 1)
<1>1. /\ st \in Save /\ p \in DOMAIN ps /\ n \in Nat /\ gross \in Nat /\ 0 \in Nat
      /\ c + n * gross <= MaxInt /\ r + n * gross <= MaxInt
      /\ e + n * gross <= MaxInt /\ h + n <= MaxInt
    BY DEF Job
<1>2. c \in Amount /\ r \in Amount /\ e \in Amount /\ h \in Amount /\ ps \in Seq(PlotType)
    BY <1>1, SaveTyped
<1>3. 1 * gross = gross /\ gross <= n * gross /\ n * gross \in Nat /\ gross - 0 = gross
    <2>1. 0 + 1 <= n /\ 1 \in Nat
        BY <1>1
    <2> QED
        BY <1>1, <2>1, Products
<1>4. Reaped(st, p, 1, gross, 0, grow) = Having(st, c2, r2, e2, h2, Replaced(ps, p, Bare(ps[p])))
    <2>1. PlotAfter(ps[p], 1, grow) = Bare(ps[p])
        BY DEF PlotAfter
    <2> QED
        BY <1>3, <2>1 DEF Reaped
<1> DEFINE nn == n * gross
<1> HIDE DEF nn, c, r, e, h
<1>5. /\ c2 \in Amount /\ r2 \in Amount /\ e2 \in Amount /\ h2 \in Amount
    <2>1. /\ c + nn <= MaxInt /\ r + nn <= MaxInt /\ e + nn <= MaxInt /\ h + n <= MaxInt
          /\ nn \in Nat /\ gross <= nn
        BY <1>1, <1>3 DEF nn, c, r, e, h
    <2> QED
        BY <1>1, <1>2, <2>1, MoneyAssumption DEF Amount
<1>6. Accounts(c, r, e, h, gross, one, none, c2, r2, e2, h2, c2)
    <2>1. /\ IsSum(c, gross, c2) /\ IsSum(r, gross, r2) /\ IsSum(e, gross, e2)
          /\ IsSum(h, one, h2) /\ IsSum(c2, none, c2) /\ one \in Nat /\ none \in Nat
        BY <1>5 DEF IsSum, Amount
    <2> HIDE DEF c2, r2, e2, h2, one, none
    <2> QED
        BY <1>1, <1>2, <1>5, <2>1 DEF Accounts
<1> HIDE DEF c2, r2, e2, h2, ps
<1>7. st = Having(st, c, r, e, h, ps)
    BY <1>1, HavingSame DEF c, r, e, h, ps
<1>8. /\ x = Having(st, c2, r2, e2, h2, ps)
      /\ Cleared(x, p) = Having(st, c2, r2, e2, h2, Replaced(ps, p, Bare(ps[p])))
    <2> DEFINE y == Having(st, c, r, e, h, ps)
               z == Harvests(Credit(y, gross), one)
    <2>0. x = Harvests(Credit(st, gross), one)
        OBVIOUS
    <2> HIDE DEF one, none, x
    <2>1. st \in Save /\ ps \in Seq(PlotType)
        BY <1>1, <1>2
    <2>2. /\ z = Having(st, c2, r2, e2, h2, ps)
          /\ Cleared(z, p) = Having(st, c2, r2, e2, h2, Replaced(ps, p, Bare(ps[p])))
        BY <2>1, <1>6, HavingHarvested
    <2>3. x = z
        BY <1>7, <2>0
    <2> HIDE DEF z
    <2> QED
        BY <2>2, <2>3
<1>9. x.Plots = ps
    <2>1. /\ st \in Save /\ c2 \in Amount /\ r2 \in Amount /\ e2 \in Amount
          /\ h2 \in Amount /\ ps \in Seq(PlotType)
        BY <1>1, <1>2, <1>5
    <2>2. Having(st, c2, r2, e2, h2, ps).Plots = ps
        BY <2>1, HavingIs
    <2> HIDE DEF x
    <2> QED
        BY <1>8, <2>2
<1> QED
    BY <1>4, <1>8, <1>9 DEF ps

-----------------------------------------------------------------------------
(* An automated plot, and how often its crop is due.                        *)

\* The crop of a plot.
CropOf(st, p) == ById(Content.Crops, st.Plots[p].Crop)

\* Is it harvested without a player?
Automated(st, p) == st.Plots[p].AutoHarvest /\ st.Plots[p].Crop # Nothing

\* How long its crop grows.
Grow(st, p) == GrowSeconds(st, CropOf(st, p))

\* What a harvest of it brings.
Gross(st, p) == ExpectedPayout(st, CropOf(st, p))

\* What its next seed costs, when it is sown again.
Seed(st, p) == IF st.Plots[p].AutoSow THEN SeedCost(st, CropOf(st, p)) ELSE 0

\* How often it is harvested up to a time.
Cycles(st, p, to) ==
    LET since == to - st.Plots[p].PlantedAt
    IN  IF ~Automated(st, p) \/ since < Grow(st, p) THEN 0
        ELSE IF st.Plots[p].AutoSow THEN since \div Grow(st, p) ELSE 1

\* A sown crop must pay for itself, and for the first seed of a batch with what
\* the cycles before the batch have earned.
Pays(st, p) ==
    st.Plots[p].AutoSow =>
        /\ Gross(st, p) > Seed(st, p)
        /\ Seed(st, p) <= AutoCycleCap * (Gross(st, p) - Seed(st, p))

\* An automated plot that brings what is expected.
Task(st, p, to) ==
    /\ st \in Save /\ p \in DOMAIN st.Plots /\ to \in Int /\ AutoCycleCap >= 1
    /\ Automated(st, p) /\ NoLuck(st) /\ Pays(st, p)
    /\ CropOf(st, p) \in SureCrops /\ Unlocked(st, CropOf(st, p).Unlock)
    /\ Job(st, p, Cycles(st, p, to), Gross(st, p), Seed(st, p), Grow(st, p))

\* The save after k of its cycles.
After(st, p, k) == Reaped(st, p, k, Gross(st, p), Seed(st, p), Grow(st, p))

\* When the harvest after k of them is due.
Due(st, p, k) == st.Plots[p].PlantedAt + (k + 1) * Grow(st, p)

\* The loop after k single cycles.
At(st, p, k) == Cursor(After(st, p, k), Due(st, p, k), k, TRUE)

\* The cycles are those that are due.
LEMMA CyclesAreDue ==
    ASSUME NEW st, NEW p, NEW to, st.Plots[p].PlantedAt \in Int, to \in Int,
           Grow(st, p) \in Nat \ {0}, Automated(st, p), NEW k \in Nat
    PROVE  /\ Cycles(st, p, to) \in Nat
           /\ Due(st, p, k) \in Int
           /\ st.Plots[p].AutoSow => (Due(st, p, k) > to <=> Cycles(st, p, to) <= k)
           /\ ~st.Plots[p].AutoSow =>
                 Cycles(st, p, to) = IF Due(st, p, 0) > to THEN 0 ELSE 1
<1> DEFINE n == Cycles(st, p, to)
           g == Grow(st, p)
           start == st.Plots[p].PlantedAt
           since == to - start
<1>1. n = IF since < g THEN 0 ELSE IF st.Plots[p].AutoSow THEN since \div g ELSE 1
    BY DEF Cycles
<1>2. start \in Int /\ g \in Nat \ {0} /\ since \in Int
    OBVIOUS
<1>3. Due(st, p, k) = start + (k + 1) * g /\ Due(st, p, 0) = start + (0 + 1) * g
    BY DEF Due
<1> HIDE DEF n, g, start
<1>4. (k + 1) * g \in Nat /\ (0 + 1) * g = g /\ (k + 1) * g >= g
    <2>1. \A i, j \in Nat : (i + 1) * j \in Nat /\ (0 + 1) * j = j /\ (i + 1) * j >= j
        BY Z3
    <2> QED
        BY <1>2, <2>1
<1>5. CASE since < g
    <2>1. n = 0 /\ (k + 1) * g > since
        BY <1>1, <1>2, <1>4, <1>5
    <2> DEFINE x == (k + 1) * g
    <2> HIDE DEF x
    <2>2. start + x > to /\ start + g > to /\ start + x \in Int
        BY <1>2, <1>4, <1>5, <2>1 DEF x
    <2> QED
        BY <1>3, <1>4, <2>1, <2>2 DEF x, n, g
<1>6. CASE ~(since < g)
    <2>1. since \in Nat
        BY <1>2, <1>6
    <2> DEFINE q == since \div g
               x == (k + 1) * g
    <2>2. q \in Nat /\ q * g <= since /\ since < (q + 1) * g
        BY <1>2, <2>1, Quotient
    <2>3. (k + 1) * g > since <=> q <= k
        <3>1. CASE q <= k
            <4>1. (q + 1) * g <= (k + 1) * g /\ (q + 1) * g \in Nat
                BY <1>2, <2>2, <3>1, Monotone
            <4> DEFINE y == (q + 1) * g
            <4> HIDE DEF x, y, q
            <4>2. x > since
                BY <1>4, <2>1, <2>2, <4>1 DEF x, y
            <4> QED
                BY <3>1, <4>2 DEF x
        <3>2. CASE ~(q <= k)
            <4>1. k + 1 \in Nat /\ k + 1 <= q
                BY <2>2, <3>2
            <4>2. (k + 1) * g <= q * g /\ q * g \in Nat
                BY <1>2, <2>2, <4>1, Monotone
            <4> DEFINE y == q * g
            <4> HIDE DEF x, y, q
            <4>3. ~(x > since)
                BY <1>4, <2>1, <2>2, <4>2 DEF x, y
            <4> QED
                BY <3>2, <4>3 DEF x
        <3> QED
            BY <3>1, <3>2
    <2> HIDE DEF q, x
    <2>4. (start + x > to <=> q <= k) /\ ~(start + g > to) /\ start + x \in Int
        BY <1>2, <1>4, <1>6, <2>3 DEF x
    <2>5. n = IF st.Plots[p].AutoSow THEN q ELSE 1
        BY <1>1, <1>6 DEF q
    <2> QED
        BY <1>3, <1>4, <2>2, <2>4, <2>5 DEF x, n, g
<1> QED
    BY <1>5, <1>6

\* A product that fits does not saturate.
LEMMA SatMulFits ==
    ASSUME NEW a \in Nat, NEW m \in Nat \ {0}, m * a <= MaxInt
    PROVE  SatMul(a, m) = m * a
<1>1. m * a = a * m /\ (a = 0 => m * a = 0)
    <2>1. \A i, j \in Nat : i * j = j * i /\ i * 0 = 0
        BY Z3
    <2> QED
        BY <2>1
<1>2. ~(a > MaxInt \div m)
    BY <1>1, ClampTest, MoneyAssumption
<1> QED
    BY <1>1, <1>2 DEF SatMul

-----------------------------------------------------------------------------
(* Its loop: single cycles and the batch leave the same.                    *)

\* What a task is about.
LEMMA TaskIs ==
    ASSUME NEW st, NEW p, NEW to, Task(st, p, to)
    PROVE  /\ st \in Save /\ p \in DOMAIN st.Plots /\ to \in Int
           /\ CropOf(st, p) \in SureCrops /\ CropOf(st, p) \in GoodCrop
           /\ Unlocked(st, CropOf(st, p).Unlock)
           /\ NoLuck(st) /\ Automated(st, p)
           /\ Cycles(st, p, to) \in Nat /\ Grow(st, p) \in Nat \ {0}
           /\ Gross(st, p) \in Nat /\ Seed(st, p) \in Nat /\ Seed(st, p) <= Gross(st, p)
           /\ st.Plots[p].PlantedAt \in Int /\ st.Plots[p] \in PlotType
           /\ st.Plots[p].AutoSow => /\ Seed(st, p) = SeedCost(st, CropOf(st, p))
                                     /\ Seed(st, p) < Gross(st, p)
           /\ ~st.Plots[p].AutoSow => Seed(st, p) = 0
           /\ AutoCycleCap \in Nat \ {0}
<1>1. /\ st \in Save /\ p \in DOMAIN st.Plots /\ to \in Int
      /\ CropOf(st, p) \in SureCrops /\ Unlocked(st, CropOf(st, p).Unlock)
      /\ NoLuck(st) /\ Automated(st, p) /\ AutoCycleCap >= 1 /\ Pays(st, p)
    BY DEF Task
<1>2. Job(st, p, Cycles(st, p, to), Gross(st, p), Seed(st, p), Grow(st, p))
    BY DEF Task
<1>3. /\ Cycles(st, p, to) \in Nat /\ Grow(st, p) \in Nat \ {0}
      /\ Gross(st, p) \in Nat /\ Seed(st, p) \in 0 .. Gross(st, p)
    BY <1>2 DEF Job
<1>4. CropOf(st, p) \in GoodCrop
    BY <1>1 DEF SureCrops
<1>5. st.Plots[p] \in PlotType /\ st.Plots[p].PlantedAt \in Int
    BY <1>1, PlotTyped DEF PlotType
<1>6. AutoCycleCap \in Nat \ {0}
    BY <1>1, EngineAssumption
<1>7. /\ st.Plots[p].AutoSow => Seed(st, p) = SeedCost(st, CropOf(st, p))
      /\ ~st.Plots[p].AutoSow => Seed(st, p) = 0
    BY DEF Seed
<1>8. st.Plots[p].AutoSow => Seed(st, p) < Gross(st, p)
    <2>1. st.Plots[p].AutoSow => Gross(st, p) > Seed(st, p)
        BY <1>1 DEF Pays
    <2> QED
        BY <1>3, <2>1
<1> QED
    BY <1>1, <1>3, <1>4, <1>5, <1>6, <1>7, <1>8

\* The save after some of its harvests.
LEMMA AfterIs ==
    ASSUME NEW st, NEW p, NEW to, Task(st, p, to), NEW k \in Nat, k <= Cycles(st, p, to)
    PROVE  /\ After(st, p, k) \in Save /\ NoLuck(After(st, p, k))
           /\ ExpectedPayout(After(st, p, k), CropOf(st, p)) = Gross(st, p)
           /\ SeedCost(After(st, p, k), CropOf(st, p)) = SeedCost(st, CropOf(st, p))
           /\ After(st, p, k).Coins = st.Coins + k * (Gross(st, p) - Seed(st, p))
           /\ After(st, p, k).Plots[p].AutoSow = st.Plots[p].AutoSow
           /\ After(st, p, 0) = st
<1> DEFINE x == Reaped(st, p, k, Gross(st, p), Seed(st, p), Grow(st, p))
           y == Reaped(st, p, 0, Gross(st, p), Seed(st, p), Grow(st, p))
<1>1. /\ st \in Save /\ p \in DOMAIN st.Plots /\ CropOf(st, p) \in SureCrops /\ NoLuck(st)
      /\ Cycles(st, p, to) \in Nat /\ Grow(st, p) \in Nat \ {0}
      /\ st.Plots[p] \in PlotType
    BY TaskIs
<1>2. Job(st, p, Cycles(st, p, to), Gross(st, p), Seed(st, p), Grow(st, p))
    BY DEF Task
<1>3. x = After(st, p, k) /\ y = After(st, p, 0)
    BY DEF After
<1> HIDE DEF x, y
<1>4. /\ x \in Save /\ x.Coins = st.Coins + k * (Gross(st, p) - Seed(st, p))
      /\ x.Plots[p] = PlotAfter(st.Plots[p], k, Grow(st, p))
      /\ Alike(st, x) /\ x.FlavorEnabled = st.FlavorEnabled
    <2>1. x = Reaped(st, p, k, Gross(st, p), Seed(st, p), Grow(st, p))
        BY DEF x
    <2> QED
        BY <1>2, <2>1, ReapedIs
<1>5. y = st
    <2>1. y = Reaped(st, p, 0, Gross(st, p), Seed(st, p), Grow(st, p)) /\ 0 \in Nat
        BY DEF y
    <2>2. 0 <= Cycles(st, p, to)
        BY <1>1
    <2> QED
        BY <1>2, <2>1, <2>2, ReapedIs
<1>6. /\ ExpectedPayout(x, CropOf(st, p)) = ExpectedPayout(st, CropOf(st, p))
      /\ SeedCost(x, CropOf(st, p)) = SeedCost(st, CropOf(st, p))
    BY <1>1, <1>4, RatesAgree
<1>7. NoLuck(x)
    BY <1>1, <1>4 DEF NoLuck
<1>8. x.Plots[p].AutoSow = st.Plots[p].AutoSow
    <2> DEFINE plot == st.Plots[p]
               grow == Grow(st, p)
    <2>1. plot \in PlotType /\ grow \in Nat /\ k \in Nat
        BY <1>1
    <2> HIDE DEF plot, grow
    <2>2. PlotAfter(plot, k, grow).AutoSow = plot.AutoSow
        BY <2>1, PlotAfterIs
    <2> QED
        BY <1>4, <2>2 DEF plot, grow
<1> QED
    BY <1>3, <1>4, <1>5, <1>6, <1>7, <1>8 DEF Gross

\* One cycle of a plot that is sown again.
LEMMA OneCycleReaps ==
    ASSUME NEW st, NEW p, NEW to, Task(st, p, to), st.Plots[p].AutoSow,
           NEW i \in Nat, i < Cycles(st, p, to)
    PROVE  OneCycle(At(st, p, i), p, CropOf(st, p), Grow(st, p)) = {At(st, p, i + 1)}
<1> DEFINE n == Cycles(st, p, to)
           gross == Gross(st, p)
           seed == Seed(st, p)
           grow == Grow(st, p)
           crop == CropOf(st, p)
           y == After(st, p, i)
           one == 1
           paid == Harvests(Credit(y, one * gross), one)
<1>1. /\ st \in Save /\ p \in DOMAIN st.Plots /\ crop \in SureCrops /\ crop \in GoodCrop
      /\ Unlocked(st, crop.Unlock) /\ n \in Nat /\ grow \in Nat \ {0} /\ gross \in Nat
      /\ seed \in Nat /\ seed < gross /\ st.Plots[p].PlantedAt \in Int
      /\ seed = SeedCost(st, crop)
    BY TaskIs
<1>2. Job(st, p, n, gross, seed, grow)
    BY DEF Task
<1>3. /\ y \in Save /\ NoLuck(y) /\ ExpectedPayout(y, crop) = gross
    <2>1. i <= Cycles(st, p, to)
        BY <1>1
    <2> QED
        BY <2>1, AfterIs
<1>4. y = Reaped(st, p, i, gross, seed, grow)
    BY DEF After
<1>5. /\ At(st, p, i).st = y /\ At(st, p, i).m = Due(st, p, i) /\ At(st, p, i).cycles = i
    BY DEF At, Cursor
<1>6. one * gross = gross /\ one * seed = seed /\ one \in Nat \ {0}
    BY <1>1
<1>7. Harvested(y, crop) = {Harvests(Credit(y, gross), 1)}
    BY <1>1, <1>3, SureHarvest
<1>8. Harvested(y, crop) = {paid}
    BY <1>6, <1>7
<1> HIDE DEF n, gross, seed, grow, y, one
<1>9. /\ one * gross <= paid.Coins /\ paid.Plots[p].AutoSow
      /\ SeedCost(paid, ById(Content.Crops, st.Plots[p].Crop))
           = SeedCost(st, ById(Content.Crops, st.Plots[p].Crop))
      /\ st.LifetimeEarnings <= paid.LifetimeEarnings
      /\ paid.Zones = st.Zones /\ paid.Rebirths = st.Rebirths /\ paid \in Save
      /\ Sown(Bought(paid, one * seed), p, st.Plots[p].PlantedAt + (i + one) * grow)
                    = Reaped(st, p, i + one, gross, seed, grow)
    <2>1. i + one <= n
        BY <1>1 DEF one, n
    <2> HIDE DEF crop
    <2> QED
        BY <1>2, <1>4, <1>6, <2>1, ReapMore
<1>10. crop = ById(Content.Crops, st.Plots[p].Crop)
    BY DEF CropOf
<1> HIDE DEF crop, paid
<1>11. Unlocked(paid, crop.Unlock)
    <2>1. crop.Unlock \in UnlockType /\ ValidUnlock(crop.Unlock, Ids(Content.Zones))
        BY <1>1 DEF GoodCrop, CropType
    <2>2. st.Zones \subseteq paid.Zones /\ st.Rebirths <= paid.Rebirths
        BY <1>1, <1>9, SaveTyped DEF Amount
    <2> QED
        BY <1>1, <1>9, <2>1, <2>2, UnlockedStays
<1>12. SeedCost(paid, crop) = seed /\ paid.Coins >= seed
    <2>1. paid.Coins \in Int
        BY <1>9, SaveTyped DEF Amount
    <2> QED
        BY <1>1, <1>6, <1>9, <1>10, <2>1
<1>13. Due(st, p, i) = st.Plots[p].PlantedAt + (i + one) * grow
       /\ Due(st, p, i) + grow = Due(st, p, i + 1)
    <2>1. \A j, g \in Nat : (j + 1) * g + g = (j + 1 + 1) * g /\ (j + 1) * g \in Nat
        BY Z3
    <2>2. (i + 1) * grow + grow = (i + 1 + 1) * grow /\ (i + 1) * grow \in Nat
        BY <1>1, <2>1
    <2>3. /\ Due(st, p, i) = st.Plots[p].PlantedAt + (i + 1) * grow
          /\ Due(st, p, i + 1) = st.Plots[p].PlantedAt + (i + 1 + 1) * grow
        BY DEF Due, grow
    <2> DEFINE a == (i + 1) * grow
               b == (i + 1 + 1) * grow
    <2> HIDE DEF a, b
    <2>4. a + grow = b /\ a \in Nat /\ Due(st, p, i) = st.Plots[p].PlantedAt + a
          /\ Due(st, p, i + 1) = st.Plots[p].PlantedAt + b
        BY <2>2, <2>3 DEF a, b
    <2>5. Due(st, p, i) + grow = Due(st, p, i + 1)
        BY <1>1, <2>4
    <2> QED
        BY <2>3, <2>5 DEF one
<1>14. Sown(Bought(paid, seed), p, Due(st, p, i)) = After(st, p, i + 1)
    BY <1>6, <1>9, <1>13 DEF After, one, gross, seed, grow
<1>15. OneCycle(At(st, p, i), p, crop, grow)
          = {Cursor(Sown(Bought(paid, seed), p, Due(st, p, i)), Due(st, p, i) + grow, i + 1, TRUE)}
    BY <1>5, <1>8, <1>9, <1>11, <1>12 DEF OneCycle
<1> QED
    BY <1>13, <1>14, <1>15 DEF At, crop, grow

\* A quotient of what is left.
LEMMA QuotientLess ==
    ASSUME NEW a \in Nat, NEW b \in Nat, NEW g \in Nat \ {0}, b * g <= a
    PROVE  (a - b * g) \div g = a \div g - b
<1>1. \A i, j, d \in Nat : d > 0 /\ j * d <= i => (i - j * d) \div d = i \div d - j
    BY Z3
<1> QED
    BY <1>1

\* Beyond the cap, all that are left at once.
LEMMA BatchReaps ==
    ASSUME NEW st, NEW p, NEW to, Task(st, p, to), st.Plots[p].AutoSow,
           AutoCycleCap < Cycles(st, p, to)
    PROVE  BatchCycles(At(st, p, AutoCycleCap), p, CropOf(st, p), Grow(st, p), to)
              = {Cursor(After(st, p, Cycles(st, p, to)), Due(st, p, Cycles(st, p, to)),
                        AutoCycleCap, TRUE)}
<1> DEFINE n == Cycles(st, p, to)
           gross == Gross(st, p)
           seed == Seed(st, p)
           grow == Grow(st, p)
           crop == CropOf(st, p)
           cap == AutoCycleCap
           start == st.Plots[p].PlantedAt
           y == After(st, p, cap)
           m == n - cap
           paid == Harvests(Credit(y, m * gross), m)
<1>1. /\ st \in Save /\ p \in DOMAIN st.Plots /\ n \in Nat /\ grow \in Nat \ {0}
      /\ gross \in Nat /\ seed \in Nat /\ seed < gross /\ start \in Int /\ to \in Int
      /\ seed = SeedCost(st, crop) /\ cap \in Nat \ {0} /\ cap < n
      /\ Automated(st, p)
    BY TaskIs
<1>2. Job(st, p, n, gross, seed, grow)
    BY DEF Task
<1>3. /\ y \in Save /\ ExpectedPayout(y, crop) = gross
      /\ SeedCost(y, crop) = seed /\ y.Coins = st.Coins + cap * (gross - seed)
      /\ y.Plots[p].AutoSow
    <2>1. AutoCycleCap \in Nat /\ AutoCycleCap <= Cycles(st, p, to)
        BY <1>1
    <2> QED
        BY <1>1, <2>1, AfterIs
<1>4. y = Reaped(st, p, cap, gross, seed, grow)
    BY DEF After
<1>5. y.Coins >= seed
    <2>1. seed <= cap * (gross - seed)
        BY DEF Task, Pays
    <2>2. st.Coins \in Nat
        BY <1>1, SaveTyped DEF Amount
    <2>3. cap * (gross - seed) \in Nat
        <3>1. gross - seed \in Nat /\ cap <= cap
            BY <1>1
        <3> QED
            BY <1>1, <3>1, Monotone
    <2> QED
        BY <1>1, <1>3, <2>1, <2>2, <2>3
<1>6. (to - Due(st, p, cap)) \div grow = n - (cap + 1) /\ Due(st, p, cap) = start + (cap + 1) * grow
    <2> DEFINE since == to - start
    <2>1. n = IF since < grow THEN 0 ELSE since \div grow
        BY <1>1 DEF Cycles
    <2>2. since >= grow /\ n = since \div grow /\ since \in Nat
        BY <1>1, <2>1
    <2>3. n * grow <= since
        BY <1>1, <2>2, Quotient
    <2>4. cap + 1 <= n /\ cap + 1 \in Nat
        BY <1>1
    <2>5. (cap + 1) * grow <= n * grow /\ (cap + 1) * grow \in Nat /\ n * grow \in Nat
        BY <1>1, <2>4, Monotone
    <2> DEFINE b == cap + 1
    <2> HIDE DEF b
    <2>6. b * grow <= since /\ b \in Nat /\ b * grow \in Nat
        <3> DEFINE u == b * grow
                   v == n * grow
        <3> HIDE DEF u, v
        <3> QED
            BY <1>1, <2>2, <2>3, <2>4, <2>5 DEF b, u, v
    <2> HIDE DEF since, n, grow
    <2>7. (since - b * grow) \div grow = since \div grow - b
        BY <1>1, <2>2, <2>6, QuotientLess
    <2>8. Due(st, p, cap) = start + b * grow
        BY DEF Due, b, grow
    <2>9. to - Due(st, p, cap) = since - b * grow
        <3> DEFINE u == b * grow
        <3> HIDE DEF u
        <3>1. u \in Nat /\ Due(st, p, cap) = start + u
            BY <2>6, <2>8 DEF u
        <3> QED
            BY <1>1, <3>1 DEF u, since
    <2> QED
        BY <2>2, <2>7, <2>8, <2>9 DEF b
<1>7. (to - Due(st, p, cap)) \div grow + 1 = m /\ m \in Nat \ {0} /\ cap + m = n
    BY <1>1, <1>6
<1> HIDE DEF n, gross, seed, grow, y, m
<1>8. /\ m * gross <= paid.Coins /\ m * seed <= paid.Coins
      /\ paid \in Save
      /\ Sown(Bought(paid, m * seed), p, start + (cap + m) * grow)
                    = Reaped(st, p, cap + m, gross, seed, grow)
      /\ Afforded(paid, m * seed) = Bought(paid, m * seed)
    <2>1. cap \in Nat /\ cap + m <= n
        BY <1>1, <1>7
    <2> HIDE DEF crop, cap
    <2> QED
        BY <1>2, <1>4, <1>7, <2>1, ReapMore
<1>9. SatMul(gross, m) = m * gross /\ SatMul(seed, m) = m * seed
    <2>1. paid.Coins \in Int /\ paid.Coins <= MaxInt
        BY <1>8, SaveTyped, MoneyAssumption DEF Amount
    <2>2. m * gross \in Int /\ m * seed \in Int
        BY <1>1, <1>7, Monotone
    <2> DEFINE u == m * gross
               v == m * seed
    <2> HIDE DEF u, v, paid
    <2>3. u <= MaxInt /\ v <= MaxInt
        BY <1>8, <2>1, <2>2, MoneyAssumption DEF u, v
    <2> QED
        BY <1>1, <1>7, <2>3, SatMulFits DEF u, v
<1>10. /\ Due(st, p, cap) + (m - 1) * grow = start + (cap + m) * grow
       /\ Due(st, p, cap) + m * grow = Due(st, p, n)
    <2>1. \A i, j, g \in Nat : /\ (i + 1) * g + j * g = (i + j + 1) * g
                               /\ j > 0 => (i + 1) * g + (j - 1) * g = (i + j) * g
                               /\ i * g \in Nat
        BY Z3
    <2>2. /\ (cap + 1) * grow + m * grow = (cap + m + 1) * grow
          /\ (cap + 1) * grow + (m - 1) * grow = (cap + m) * grow
          /\ (cap + 1) * grow \in Nat /\ m * grow \in Nat /\ (m - 1) * grow \in Nat
        <3>1. cap + 1 \in Nat /\ m - 1 \in Nat /\ cap \in Nat /\ m \in Nat /\ grow \in Nat
            BY <1>1, <1>7
        <3> QED
            BY <1>7, <2>1, <3>1
    <2>3. Due(st, p, n) = start + (cap + m + 1) * grow
        BY <1>7 DEF Due, grow
    <2> DEFINE a == (cap + 1) * grow
               b == m * grow
               d == (m - 1) * grow
               e == (cap + m) * grow
               f == (cap + m + 1) * grow
    <2> HIDE DEF a, b, d, e, f
    <2>4. /\ a + b = f /\ a + d = e /\ a \in Nat /\ b \in Nat /\ d \in Nat
          /\ Due(st, p, cap) = start + a /\ Due(st, p, n) = start + f
        BY <1>6, <2>2, <2>3 DEF a, b, d, e, f
    <2>5. Due(st, p, cap) + d = start + e /\ Due(st, p, cap) + b = Due(st, p, n)
        BY <1>1, <2>4
    <2> QED
        BY <2>5 DEF b, d, e
<1>11. /\ At(st, p, cap).st = y /\ At(st, p, cap).m = Due(st, p, cap)
       /\ At(st, p, cap).cycles = cap
    BY DEF At, Cursor, y
<1>12. (to - Due(st, p, cap)) \div grow = m - 1
    BY <1>1, <1>6, <1>7 DEF m
<1>13. BatchCycles(At(st, p, cap), p, crop, grow, to)
         = {Cursor(Sown(Bought(paid, m * seed), p, Due(st, p, cap) + (m - 1) * grow),
                   Due(st, p, cap) + m * grow, cap, TRUE)}
    <2> DEFINE x == At(st, p, cap)
               due == Due(st, p, cap)
               r == (to - due) \div grow
               after == Harvests(Credit(y, SatMul(ExpectedPayout(y, crop), r + 1)), r + 1)
    <2> HIDE DEF crop, cap, x, due, r
    <2>1. x.st = y /\ x.m = due /\ x.cycles = cap
        BY <1>11 DEF x, due
    <2>2. BatchCycles(x, p, crop, grow, to) =
            IF y.Plots[p].AutoSow /\ y.Coins >= SeedCost(y, crop)
                  /\ ExpectedPayout(y, crop) > SeedCost(y, crop)
            THEN {Cursor(Sown(Afforded(after, SatMul(SeedCost(y, crop), r + 1)), p, due + r * grow),
                         due + (r + 1) * grow, cap, TRUE)}
            ELSE {Cursor(y, due, cap, FALSE)}
        BY <2>1 DEF BatchCycles, r
    <2>3. r = m - 1 /\ r + 1 = m
        BY <1>7, <1>12 DEF r, due
    <2>4. gross > seed
        BY <1>1
    <2>5. after = paid
        BY <1>3, <1>9, <2>3
    <2> HIDE DEF paid, after
    <2>6. BatchCycles(x, p, crop, grow, to) =
            {Cursor(Sown(Afforded(paid, SatMul(seed, m)), p, due + (m - 1) * grow),
                    due + m * grow, cap, TRUE)}
        BY <1>3, <1>5, <2>2, <2>3, <2>4, <2>5
    <2>7. Afforded(paid, SatMul(seed, m)) = Bought(paid, m * seed)
        BY <1>8, <1>9
    <2> QED
        BY <2>6, <2>7 DEF x, due
<1>14. Sown(Bought(paid, m * seed), p, Due(st, p, cap) + (m - 1) * grow) = After(st, p, n)
    <2>1. Reaped(st, p, cap + m, gross, seed, grow) = After(st, p, n)
        BY <1>7 DEF After, gross, seed, grow
    <2> HIDE DEF paid
    <2> QED
        BY <1>8, <1>10, <2>1
<1> QED
    BY <1>10, <1>13, <1>14 DEF n, grow

\* The one cycle of a plot that is not sown again.
LEMMA LastReaps ==
    ASSUME NEW st, NEW p, NEW to, Task(st, p, to), ~st.Plots[p].AutoSow,
           Cycles(st, p, to) >= 1
    PROVE  OneCycle(At(st, p, 0), p, CropOf(st, p), Grow(st, p))
              = {Cursor(After(st, p, 1), Due(st, p, 0), 0, FALSE)}
<1> DEFINE n == Cycles(st, p, to)
           gross == Gross(st, p)
           grow == Grow(st, p)
           crop == CropOf(st, p)
           paid == Harvests(Credit(st, gross), 1)
<1>1. /\ st \in Save /\ p \in DOMAIN st.Plots /\ crop \in SureCrops /\ NoLuck(st)
      /\ n \in Nat /\ Seed(st, p) = 0
    BY TaskIs
<1>2. Job(st, p, n, gross, 0, grow)
    BY <1>1 DEF Task
<1>3. After(st, p, 0) = st
    <2>1. 0 \in Nat /\ 0 <= Cycles(st, p, to)
        BY <1>1
    <2> QED
        BY <2>1, AfterIs
<1>4. At(st, p, 0).st = st /\ At(st, p, 0).m = Due(st, p, 0) /\ At(st, p, 0).cycles = 0
    BY <1>3 DEF At, Cursor
<1>5. Harvested(st, crop) = {paid}
    BY <1>1, SureHarvest DEF Gross
<1>6. After(st, p, 1) = Reaped(st, p, 1, gross, 0, grow)
    BY <1>1 DEF After
<1> HIDE DEF n, gross, grow
<1>7. ~paid.Plots[p].AutoSow /\ Cleared(paid, p) = Reaped(st, p, 1, gross, 0, grow)
    <2>1. n >= 1
        BY DEF n
    <2> QED
        BY <1>2, <2>1, ReapLast
<1> HIDE DEF paid, crop
<1>8. OneCycle(At(st, p, 0), p, crop, grow)
         = {Cursor(Cleared(paid, p), Due(st, p, 0), 0, FALSE)}
    <2> DEFINE x == At(st, p, 0)
               due == Due(st, p, 0)
    <2> HIDE DEF x, due
    <2>1. x.st = st /\ x.m = due /\ x.cycles = 0
        BY <1>4 DEF x, due
    <2>2. OneCycle(x, p, crop, grow) =
            {IF z.Plots[p].AutoSow /\ z.Coins >= SeedCost(z, crop) /\ Unlocked(z, crop.Unlock)
             THEN Cursor(Sown(Bought(z, SeedCost(z, crop)), p, due), due + grow, 0 + 1, TRUE)
             ELSE Cursor(Cleared(z, p), due, 0, FALSE) : z \in Harvested(st, crop)}
        BY <2>1 DEF OneCycle
    <2>3. OneCycle(x, p, crop, grow) = {Cursor(Cleared(paid, p), due, 0, FALSE)}
        BY <1>5, <1>7, <2>2
    <2> QED
        BY <2>3 DEF x, due
<1> QED
    BY <1>6, <1>7, <1>8 DEF crop, grow

\* Where the loop is after i iterations: at its next single cycle, or done.
Tracks(st, p, to, x, i) ==
    \/ /\ i <= AutoCycleCap /\ i <= Cycles(st, p, to)
       /\ st.Plots[p].AutoSow \/ i = 0
       /\ x = At(st, p, i)
    \/ x.st = After(st, p, Cycles(st, p, to)) /\ (~x.on \/ x.m > to)

\* An iteration goes on in one way.
LEMMA IterationTracks ==
    ASSUME NEW st, NEW p, NEW to, Task(st, p, to), NEW i \in Nat,
           NEW x \in Cursors(st), Tracks(st, p, to, x, i)
    PROVE  \E y : /\ Iteration(x, p, CropOf(st, p), Grow(st, p), to) = {y}
                  /\ Tracks(st, p, to, y, i + 1)
<1> DEFINE n == Cycles(st, p, to)
           grow == Grow(st, p)
           crop == CropOf(st, p)
           cap == AutoCycleCap
<1>1. /\ n \in Nat /\ grow \in Nat \ {0} /\ to \in Int /\ cap \in Nat \ {0}
      /\ st.Plots[p].PlantedAt \in Int /\ Automated(st, p)
    BY TaskIs
<1>2. \A k \in Nat : /\ Due(st, p, k) \in Int
                     /\ st.Plots[p].AutoSow => (Due(st, p, k) > to <=> n <= k)
                     /\ ~st.Plots[p].AutoSow => n = IF Due(st, p, 0) > to THEN 0 ELSE 1
    BY <1>1, CyclesAreDue
<1>3. CASE x.st = After(st, p, n) /\ (~x.on \/ x.m > to)
    <2> DEFINE y == [x EXCEPT !.on = FALSE]
    <2>1. Iteration(x, p, crop, grow, to) = {y}
        BY <1>3 DEF Iteration
    <2>2. y.st = x.st /\ ~y.on
        BY DEF Cursors
    <2> HIDE DEF y
    <2>3. Tracks(st, p, to, y, i + 1)
        BY <1>3, <2>2 DEF Tracks
    <2> QED
        BY <2>1, <2>3
<1>4. CASE ~(x.st = After(st, p, n) /\ (~x.on \/ x.m > to))
    <2>1. /\ i <= cap /\ i <= n /\ (st.Plots[p].AutoSow \/ i = 0) /\ x = At(st, p, i)
        BY <1>4 DEF Tracks
    <2>2. /\ x.st = After(st, p, i) /\ x.m = Due(st, p, i) /\ x.cycles = i /\ x.on
        BY <2>1 DEF At, Cursor
    <2>3. i < n /\ ~(x.m > to)
        <3>1. CASE st.Plots[p].AutoSow
            <4>1. Due(st, p, i) > to <=> n <= i
                BY <1>2, <3>1
            <4>2. CASE n <= i
                <5>1. i = n
                    BY <1>1, <2>1, <4>2
                <5> QED
                    BY <1>4, <2>2, <4>1, <4>2, <5>1
            <4> QED
                BY <1>1, <2>2, <4>1, <4>2
        <3>2. CASE ~st.Plots[p].AutoSow
            <4>1. i = 0
                BY <2>1, <3>2
            <4>2. n = IF Due(st, p, 0) > to THEN 0 ELSE 1
                BY <1>2, <3>2
            <4>3. CASE Due(st, p, 0) > to
                <5>1. n = i
                    BY <4>1, <4>2, <4>3
                <5> QED
                    BY <1>4, <2>2, <4>1, <4>3, <5>1
            <4> QED
                BY <2>2, <4>1, <4>2, <4>3
        <3> QED
            BY <3>1, <3>2
    <2>4. CASE i >= cap
        <3>1. i = cap /\ cap < n /\ st.Plots[p].AutoSow
            BY <1>1, <2>1, <2>3, <2>4
        <3> DEFINE y == Cursor(After(st, p, n), Due(st, p, n), cap, TRUE)
        <3>2. BatchCycles(x, p, crop, grow, to) = {y}
            BY <2>1, <3>1, BatchReaps
        <3>3. Iteration(x, p, crop, grow, to) = {y}
            BY <2>2, <2>3, <2>4, <3>2 DEF Iteration
        <3>4. y.st = After(st, p, n) /\ y.m = Due(st, p, n)
            BY DEF Cursor
        <3>5. Due(st, p, n) > to
            BY <1>1, <1>2, <3>1
        <3> HIDE DEF y
        <3>6. Tracks(st, p, to, y, i + 1)
            BY <3>4, <3>5 DEF Tracks
        <3> QED
            BY <3>3, <3>6
    <2>5. CASE ~(i >= cap) /\ st.Plots[p].AutoSow
        <3> DEFINE y == At(st, p, i + 1)
        <3>1. OneCycle(x, p, crop, grow) = {y}
            BY <2>1, <2>3, <2>5, OneCycleReaps
        <3>2. Iteration(x, p, crop, grow, to) = {y}
            BY <2>2, <2>3, <2>5, <3>1 DEF Iteration
        <3>3. i + 1 <= cap /\ i + 1 <= n
            BY <1>1, <2>3, <2>5
        <3> HIDE DEF y
        <3>4. Tracks(st, p, to, y, i + 1)
            BY <2>5, <3>3 DEF Tracks, y
        <3> QED
            BY <3>2, <3>4
    <2>6. CASE ~(i >= cap) /\ ~st.Plots[p].AutoSow
        <3> DEFINE y == Cursor(After(st, p, 1), Due(st, p, 0), 0, FALSE)
        <3>1. i = 0 /\ n = 1
            BY <1>2, <2>1, <2>3, <2>6
        <3>2. OneCycle(x, p, crop, grow) = {y}
            <4>1. x = At(st, p, 0) /\ Cycles(st, p, to) >= 1
                BY <2>1, <3>1
            <4>2. OneCycle(At(st, p, 0), p, crop, grow) = {y}
                BY <2>6, <4>1, LastReaps
            <4> QED
                BY <4>1, <4>2
        <3>3. Iteration(x, p, crop, grow, to) = {y}
            BY <2>2, <2>3, <2>6, <3>2 DEF Iteration
        <3>4. y.st = After(st, p, n) /\ ~y.on
            BY <3>1 DEF Cursor
        <3> HIDE DEF y
        <3>5. Tracks(st, p, to, y, i + 1)
            BY <3>4 DEF Tracks
        <3> QED
            BY <3>3, <3>5
    <2> QED
        BY <2>4, <2>5, <2>6
<1> QED
    BY <1>3, <1>4

\* The loop over an automated plot leaves the save after all the cycles that
\* are due, whether they were run one by one, as while a player looks on, or
\* those beyond the cap in one batch, as after a long absence
\* (advance.go:92-150): when no harvest is left to chance, the batch neither
\* pays more nor forgets a seed, a harvest or a second.
THEOREM AutoPlotReaps ==
    ASSUME NEW st, NEW p, NEW to, Task(st, p, to)
    PROVE  AutoPlot(st, p, CropOf(st, p), Grow(st, p), to)
              = {After(st, p, Cycles(st, p, to))}
<1> DEFINE n == AutoCycleCap + 2
           grow == Grow(st, p)
           crop == CropOf(st, p)
<1>1. /\ st \in Save /\ p \in DOMAIN st.Plots /\ crop \in GoodCrop
      /\ grow \in Nat \ {0} /\ to \in Int /\ AutoCycleCap \in Nat
      /\ Cycles(st, p, to) \in Nat /\ st.Plots[p].PlantedAt \in Int
    BY TaskIs
<1>2. PICK after : IsAutoRun(after, st, p, crop, grow, to)
    BY <1>1, AutoPlotIs
<1> DEFINE D == {i \in Nat : i <= n => \E x : after[i] = {x} /\ Tracks(st, p, to, x, i)}
<1>3. 0 \in D
    <2> DEFINE x == Cursor(st, st.Plots[p].PlantedAt + grow, 0, TRUE)
    <2>1. after[0] = {x}
        BY <1>2 DEF IsAutoRun
    <2>2. x = At(st, p, 0)
        <3>1. After(st, p, 0) = st
            BY <1>1, AfterIs
        <3>2. Due(st, p, 0) = st.Plots[p].PlantedAt + grow
            BY <1>1 DEF Due
        <3> QED
            BY <3>1, <3>2 DEF At
    <2> HIDE DEF x
    <2>3. Tracks(st, p, to, x, 0)
        BY <1>1, <2>2 DEF Tracks
    <2> QED
        BY <2>1, <2>3
<1>4. ASSUME NEW i \in Nat, i \in D PROVE i + 1 \in D
    <2> SUFFICES ASSUME i + 1 <= n
                 PROVE  \E x : after[i + 1] = {x} /\ Tracks(st, p, to, x, i + 1)
        OBVIOUS
    <2>1. PICK x : after[i] = {x} /\ Tracks(st, p, to, x, i)
        BY <1>1, <1>4
    <2>2. /\ i + 1 \in 1 .. n /\ i \in 0 .. n /\ (i + 1) - 1 = i
        BY <1>1
    <2>3. /\ after[i + 1] = UNION {Iteration(y, p, crop, grow, to) : y \in after[i]}
          /\ x \in Cursors(st)
        <3>1. after[i + 1] = UNION {Iteration(y, p, crop, grow, to) : y \in after[(i + 1) - 1]}
            BY <1>2, <2>2 DEF IsAutoRun
        <3>2. after[i] \subseteq Cursors(st)
            BY <1>2, <2>2 DEF IsAutoRun
        <3> QED
            BY <2>1, <2>2, <3>1, <3>2
    <2>4. after[i + 1] = Iteration(x, p, crop, grow, to)
        BY <2>1, <2>3
    <2> QED
        BY <2>1, <2>3, <2>4, IterationTracks
<1>5. n \in D
    <2> HIDE DEF D
    <2>1. Nat \subseteq D
        BY <1>3, <1>4, Induction
    <2> QED
        BY <1>1, <2>1
<1>6. PICK x : after[n] = {x} /\ Tracks(st, p, to, x, n)
    BY <1>1, <1>5
<1>7. x.st = After(st, p, Cycles(st, p, to))
    BY <1>1, <1>6 DEF Tracks
<1>8. AutoPlot(st, p, crop, grow, to) = {y.st : y \in after[n]}
    BY <1>2 DEF IsAutoRun
<1> HIDE DEF crop, grow
<1>9. AutoPlot(st, p, crop, grow, to) = {x.st}
    BY <1>6, <1>8
<1> QED
    BY <1>7, <1>9 DEF crop, grow

-----------------------------------------------------------------------------
(* Each plot of a field, in its turn.                                       *)

\* A save whose automated plots bring what is expected.
Sound(st) ==
    /\ st \in Save /\ Fits(st) /\ NoLuck(st)
    /\ ~Content.Critters.Kinds /\ AutoCycleCap >= 1
    /\ \A p \in DOMAIN st.Plots :
          Automated(st, p) => CropOf(st, p) \in SureCrops /\ Pays(st, p)

\* What a plot brings up to a time.
Yield(st, p, to) == IF Automated(st, p) THEN Cycles(st, p, to) * Gross(st, p) ELSE 0

\* What is left of that when the seeds are paid for.
Net(st, p, to) ==
    IF Automated(st, p) THEN Cycles(st, p, to) * (Gross(st, p) - Seed(st, p)) ELSE 0

\* The plot then.
PlotThen(st, p, to) ==
    IF Automated(st, p) THEN PlotAfter(st.Plots[p], Cycles(st, p, to), Grow(st, p))
    ELSE st.Plots[p]

\* No count of it overflows.
RoomFor(x, a, m) ==
    /\ x.Coins + a <= MaxInt /\ x.RunEarnings + a <= MaxInt
    /\ x.LifetimeEarnings + a <= MaxInt /\ x.LifetimeHarvests + m <= MaxInt

\* The rates of an automated plot are those of its crop.
LEMMA RatesOfPlot ==
    ASSUME NEW st, Sound(st), NEW x \in Save, Alike(st, x), NEW p \in DOMAIN st.Plots,
           Automated(st, p), x.Plots[p].Crop = st.Plots[p].Crop,
           x.Plots[p].AutoSow = st.Plots[p].AutoSow
    PROVE  /\ CropOf(x, p) = CropOf(st, p) /\ CropOf(st, p) \in SureCrops
           /\ Gross(x, p) = Gross(st, p) /\ Seed(x, p) = Seed(st, p)
           /\ Grow(x, p) = Grow(st, p) /\ Pays(x, p)
<1>1. st \in Save /\ CropOf(st, p) \in SureCrops /\ Pays(st, p)
    BY DEF Sound
<1>2. CropOf(x, p) = CropOf(st, p)
    BY DEF CropOf
<1>3. /\ ExpectedPayout(x, CropOf(st, p)) = ExpectedPayout(st, CropOf(st, p))
      /\ SeedCost(x, CropOf(st, p)) = SeedCost(st, CropOf(st, p))
      /\ GrowSeconds(x, CropOf(st, p)) = GrowSeconds(st, CropOf(st, p))
    BY <1>1, RatesAgree
<1>4. Gross(x, p) = Gross(st, p) /\ Seed(x, p) = Seed(st, p) /\ Grow(x, p) = Grow(st, p)
    BY <1>2, <1>3 DEF Gross, Seed, Grow
<1>5. Pays(x, p)
    BY <1>1, <1>4 DEF Pays
<1> QED
    BY <1>1, <1>2, <1>4, <1>5

\* What they are worth.
LEMMA RatesTyped ==
    ASSUME NEW st, Sound(st), NEW p \in DOMAIN st.Plots, Automated(st, p), NEW to \in Int
    PROVE  /\ st \in Save /\ CropOf(st, p) \in GoodCrop
           /\ Gross(st, p) \in Nat /\ Seed(st, p) \in 0 .. Gross(st, p)
           /\ Grow(st, p) \in Nat \ {0} /\ Cycles(st, p, to) \in Nat
           /\ st.Plots[p] \in PlotType /\ st.Plots[p].PlantedAt \in Int
           /\ ~st.Plots[p].AutoSow => Seed(st, p) = 0
           /\ Unlocked(st, CropOf(st, p).Unlock)
<1>1. /\ st \in Save /\ CropOf(st, p) \in SureCrops /\ Pays(st, p) /\ Fits(st)
    BY DEF Sound
<1>2. CropOf(st, p) \in GoodCrop
    BY <1>1 DEF SureCrops
<1>3. Gross(st, p) \in Nat
    BY <1>1, SureSell DEF Gross
<1>4. Grow(st, p) \in Nat \ {0}
    BY <1>1, <1>2, GrowType DEF Grow
<1>5. st.Plots[p] \in PlotType /\ st.Plots[p].PlantedAt \in Int
    BY <1>1, PlotTyped DEF PlotType
<1>6. Seed(st, p) \in 0 .. Gross(st, p) /\ (~st.Plots[p].AutoSow => Seed(st, p) = 0)
    <2>1. CASE st.Plots[p].AutoSow
        <3>1. Seed(st, p) \in Nat /\ Gross(st, p) > Seed(st, p)
            BY <1>1, <1>2, <2>1, SeedCostType DEF Seed, Pays
        <3> QED
            BY <1>3, <2>1, <3>1
    <2>2. CASE ~st.Plots[p].AutoSow
        BY <1>3, <2>2 DEF Seed
    <2> QED
        BY <2>1, <2>2
<1>7. Cycles(st, p, to) \in Nat
    BY <1>4, <1>5, CyclesAreDue
<1>8. Unlocked(st, CropOf(st, p).Unlock)
    BY <1>1 DEF Fits, PlotFits, CropOf, Automated
<1> QED
    BY <1>1, <1>2, <1>3, <1>4, <1>5, <1>6, <1>7, <1>8

\* What a plot brings is no debt, and its replacement is a plot.
LEMMA YieldTyped ==
    ASSUME NEW st, Sound(st), NEW p \in DOMAIN st.Plots, NEW to \in Int
    PROVE  /\ Yield(st, p, to) \in Nat /\ Net(st, p, to) \in Nat
           /\ Net(st, p, to) <= Yield(st, p, to)
           /\ Cycles(st, p, to) \in Nat /\ PlotThen(st, p, to) \in PlotType
<1>1. CASE Automated(st, p)
    <2> DEFINE n == Cycles(st, p, to)
               g == Gross(st, p)
               s == Seed(st, p)
    <2>1. /\ g \in Nat /\ s \in 0 .. g /\ n \in Nat /\ Grow(st, p) \in Nat
          /\ st.Plots[p] \in PlotType
        BY <1>1, RatesTyped
    <2>2. \A i, j, k \in Nat : k <= j => /\ i * j \in Nat /\ i * (j - k) \in Nat
                                        /\ i * (j - k) <= i * j
        BY Z3
    <2>3. n * g \in Nat /\ n * (g - s) \in Nat /\ n * (g - s) <= n * g
        BY <2>1, <2>2
    <2>4. PlotAfter(st.Plots[p], n, Grow(st, p)) \in PlotType
        BY <2>1, PlotAfterIs
    <2> QED
        BY <1>1, <2>1, <2>3, <2>4 DEF Yield, Net, PlotThen
<1>2. CASE ~Automated(st, p)
    <2>1. st \in Save
        BY DEF Sound
    <2> QED
        BY <1>2, <2>1, PlotTyped DEF Yield, Net, PlotThen, Cycles
<1> QED
    BY <1>1, <1>2

\* A plot whose turn it is has brought, by the time, what it brings; its rates
\* are still those of the beginning.
LEMMA PlotCaught ==
    ASSUME NEW st, Sound(st), NEW x \in Save, Alike(st, x), NoLuck(x),
           NEW p \in DOMAIN st.Plots, DOMAIN x.Plots = DOMAIN st.Plots,
           x.Plots[p] = st.Plots[p], NEW to \in Int, NEW online,
           st.Zones \subseteq x.Zones, st.Rebirths <= x.Rebirths,
           st.LifetimeEarnings <= x.LifetimeEarnings,
           RoomFor(x, Yield(st, p, to), Cycles(st, p, to))
    PROVE  AdvancePlot(x, p, online, to) =
             {Having(x, x.Coins + Net(st, p, to), x.RunEarnings + Yield(st, p, to),
                     x.LifetimeEarnings + Yield(st, p, to),
                     x.LifetimeHarvests + Cycles(st, p, to),
                     Replaced(x.Plots, p, PlotThen(st, p, to)))}
<1>1. st \in Save /\ ~Content.Critters.Kinds /\ AutoCycleCap >= 1
    BY DEF Sound
<1>2. CASE ~Automated(st, p)
    <2>1. AdvancePlot(x, p, online, to) = {x}
        BY <1>1, <1>2 DEF AdvancePlot, MaybeCritterVisit, Automated
    <2>2. /\ Net(st, p, to) = 0 /\ Yield(st, p, to) = 0 /\ Cycles(st, p, to) = 0
          /\ PlotThen(st, p, to) = x.Plots[p]
        BY <1>2 DEF Net, Yield, Cycles, PlotThen
    <2>3. Replaced(x.Plots, p, x.Plots[p]) = x.Plots
        BY <1>1, PlotTyped, SaveTyped, ReplacedIs
    <2>4. /\ x.Coins + 0 = x.Coins /\ x.RunEarnings + 0 = x.RunEarnings
          /\ x.LifetimeEarnings + 0 = x.LifetimeEarnings
          /\ x.LifetimeHarvests + 0 = x.LifetimeHarvests
        BY SaveTyped DEF Amount
    <2>5. Having(x, x.Coins, x.RunEarnings, x.LifetimeEarnings, x.LifetimeHarvests,
                 x.Plots) = x
        BY HavingSame
    <2> QED
        BY <2>1, <2>2, <2>3, <2>4, <2>5
<1>3. CASE Automated(st, p)
    <2> DEFINE crop == CropOf(st, p)
               n == Cycles(st, p, to)
               gross == Gross(st, p)
               seed == Seed(st, p)
               grow == Grow(st, p)
    <2>1. /\ CropOf(x, p) = crop /\ crop \in SureCrops /\ Gross(x, p) = gross
          /\ Seed(x, p) = seed /\ Grow(x, p) = grow /\ Pays(x, p)
        BY <1>3, RatesOfPlot
    <2>2. Automated(x, p) /\ Cycles(x, p, to) = n
        BY <1>3, <2>1 DEF Automated, Cycles
    <2>3. /\ crop \in GoodCrop /\ gross \in Nat /\ seed \in 0 .. gross
          /\ grow \in Nat \ {0} /\ n \in Nat /\ Unlocked(st, crop.Unlock)
        BY <1>3, RatesTyped
    <2>4. Yield(st, p, to) = n * gross /\ Net(st, p, to) = n * (gross - seed)
          /\ PlotThen(st, p, to) = PlotAfter(st.Plots[p], n, grow)
        BY <1>3 DEF Yield, Net, PlotThen
    <2>5. Unlocked(x, crop.Unlock)
        <3>1. crop.Unlock \in UnlockType /\ ValidUnlock(crop.Unlock, Ids(Content.Zones))
            BY <2>3 DEF GoodCrop, CropType
        <3> HIDE DEF crop
        <3> QED
            BY <1>1, <2>3, <3>1, UnlockedStays
    <2>6. Job(x, p, n, gross, seed, grow)
        <3>1. p \in DOMAIN x.Plots
            OBVIOUS
        <3>2. /\ x.Coins + n * gross <= MaxInt /\ x.RunEarnings + n * gross <= MaxInt
              /\ x.LifetimeEarnings + n * gross <= MaxInt /\ x.LifetimeHarvests + n <= MaxInt
            BY <2>4 DEF RoomFor
        <3> HIDE DEF n, gross, seed, grow
        <3> QED
            BY <2>3, <3>1, <3>2 DEF Job
    <2>7. Task(x, p, to)
        <3>1. p \in DOMAIN x.Plots
            OBVIOUS
        <3> QED
            BY <1>1, <2>1, <2>2, <2>5, <2>6, <3>1 DEF Task
    <2>8. AutoPlot(x, p, CropOf(x, p), Grow(x, p), to) = {After(x, p, Cycles(x, p, to))}
        BY <2>7, AutoPlotReaps
    <2>9. AdvancePlot(x, p, online, to) = AutoPlot(x, p, CropOf(x, p), Grow(x, p), to)
        BY <2>2 DEF AdvancePlot, Automated, CropOf, Grow
    <2>10. After(x, p, n) = Reaped(x, p, n, gross, seed, grow)
        BY <2>1 DEF After
    <2> QED
        BY <2>2, <2>4, <2>8, <2>9, <2>10 DEF Reaped
<1> QED
    BY <1>2, <1>3

-----------------------------------------------------------------------------
(* Running totals, and the plots when some have had their turn.             *)

\* A running total of n terms.
IsTotal(f, n, w) ==
    /\ f[0] = 0 /\ f[n] = SumTo(n, w)
    /\ \A i \in 1 .. n : IsSum(f[i - 1], w[i], f[i])
    /\ \A i \in 0 .. n : f[i] \in Nat /\ f[i] <= SumTo(n, w)

\* Terms have one.
LEMMA TotalExists ==
    ASSUME NEW n \in Nat, NEW w \in [1 .. n -> Nat]
    PROVE  SumTo(n, w) \in Nat /\ \E f : IsTotal(f, n, w)
<1>1. PICK f : /\ f[0] = 0 /\ \A i \in 1 .. n : f[i] = f[i - 1] + w[i]
               /\ \A i \in 0 .. n : f[i] \in Nat
               /\ SumTo(n, w) = f[n]
    BY SumLoop
<1> DEFINE D == {j \in Nat : j <= n => f[n - j] <= f[n]}
<1>2. 0 \in D
    BY <1>1
<1>3. ASSUME NEW j \in Nat, j \in D PROVE j + 1 \in D
    <2> SUFFICES ASSUME j + 1 <= n PROVE f[n - (j + 1)] <= f[n]
        OBVIOUS
    <2>1. n - j \in 1 .. n /\ (n - j) - 1 = n - (j + 1)
        OBVIOUS
    <2>2. f[n - j] = f[n - (j + 1)] + w[n - j] /\ w[n - j] \in Nat
        BY <1>1, <2>1
    <2>3. f[n - j] \in Nat /\ f[n - (j + 1)] \in Nat /\ f[n] \in Nat
        BY <1>1, <2>1
    <2>4. f[n - j] <= f[n]
        BY <1>3
    <2> QED
        BY <2>2, <2>3, <2>4
<1> HIDE DEF D
<1>4. Nat \subseteq D
    BY <1>2, <1>3, Induction
<1>5. \A i \in 0 .. n : f[i] <= f[n]
    <2> SUFFICES ASSUME NEW i \in 0 .. n PROVE f[i] <= f[n]
        OBVIOUS
    <2>1. n - i \in Nat /\ n - i <= n /\ n - (n - i) = i
        OBVIOUS
    <2>2. n - i \in D
        BY <1>4, <2>1
    <2> QED
        BY <2>1, <2>2 DEF D
<1>6. IsTotal(f, n, w)
    BY <1>1, <1>5 DEF IsTotal, IsSum
<1> QED
    BY <1>1, <1>6

\* The total of lesser terms is less.
LEMMA TotalsCompare ==
    ASSUME NEW n \in Nat, NEW w \in [1 .. n -> Nat], NEW v \in [1 .. n -> Nat],
           \A i \in 1 .. n : w[i] <= v[i], NEW f, NEW g, IsTotal(f, n, w), IsTotal(g, n, v)
    PROVE  \A k \in 0 .. n : f[k] <= g[k]
<1>1. f[0] = 0 /\ \A i \in 1 .. n : f[i] = f[i - 1] + w[i]
    BY DEF IsTotal, IsSum
<1>2. g[0] = 0 /\ \A i \in 1 .. n : g[i] = g[i - 1] + v[i]
    BY DEF IsTotal, IsSum
<1>3. \A i \in 0 .. n : f[i] \in Nat
    BY DEF IsTotal
<1>4. \A i \in 0 .. n : g[i] \in Nat
    BY DEF IsTotal
<1> DEFINE D == {k \in Nat : k <= n => f[k] <= g[k]}
<1>5. 0 \in D
    BY <1>1, <1>2
<1>6. ASSUME NEW k \in Nat, k \in D PROVE k + 1 \in D
    <2> SUFFICES ASSUME k + 1 <= n PROVE f[k + 1] <= g[k + 1]
        OBVIOUS
    <2>1. k + 1 \in 1 .. n /\ (k + 1) - 1 = k /\ k \in 0 .. n
        OBVIOUS
    <2>2. f[k + 1] = f[k] + w[k + 1] /\ g[k + 1] = g[k] + v[k + 1]
        BY <1>1, <1>2, <2>1
    <2>3. f[k] \in Nat /\ g[k] \in Nat /\ w[k + 1] \in Nat /\ v[k + 1] \in Nat
             /\ w[k + 1] <= v[k + 1]
        BY <1>3, <1>4, <2>1
    <2>4. f[k] <= g[k]
        BY <1>6, <2>1
    <2> QED
        BY <2>2, <2>3, <2>4
<1> HIDE DEF D
<1>7. Nat \subseteq D
    BY <1>5, <1>6, Induction
<1> QED
    BY <1>7 DEF D

\* The plots when the turn of the first k has come.
PlotsThen(st, k, to) ==
    [r \in DOMAIN st.Plots |-> IF r <= k THEN PlotThen(st, r, to) ELSE st.Plots[r]]

\* They are plots, with the next one still as it was.
LEMMA PlotsThenIs ==
    ASSUME NEW st, Sound(st), NEW k \in Nat, NEW to \in Int
    PROVE  /\ PlotsThen(st, k, to) \in Seq(PlotType)
           /\ DOMAIN PlotsThen(st, k, to) = DOMAIN st.Plots
           /\ Len(PlotsThen(st, k, to)) = Len(st.Plots)
           /\ PlotsThen(st, 0, to) = st.Plots
           /\ k + 1 \in DOMAIN st.Plots =>
                 /\ PlotsThen(st, k, to)[k + 1] = st.Plots[k + 1]
                 /\ Replaced(PlotsThen(st, k, to), k + 1, PlotThen(st, k + 1, to))
                       = PlotsThen(st, k + 1, to)
<1> DEFINE n == Len(st.Plots)
           ps(j) == PlotsThen(st, j, to)
<1>1. st \in Save /\ st.Plots \in Seq(PlotType) /\ n \in Nat /\ DOMAIN st.Plots = 1 .. n
    BY SaveTyped DEF Sound
<1>2. \A r \in 1 .. n : PlotThen(st, r, to) \in PlotType /\ st.Plots[r] \in PlotType
    BY <1>1, YieldTyped, PlotTyped
<1>3. \A j \in Nat : /\ DOMAIN ps(j) = 1 .. n
                     /\ \A r \in 1 .. n : ps(j)[r] = IF r <= j THEN PlotThen(st, r, to)
                                                               ELSE st.Plots[r]
    BY <1>1 DEF PlotsThen
<1>4. ps(k) \in Seq(PlotType) /\ Len(ps(k)) = n
    <2>1. ps(k) = [r \in 1 .. n |-> ps(k)[r]]
        BY <1>1 DEF PlotsThen
    <2>2. \A r \in 1 .. n : ps(k)[r] \in PlotType
        BY <1>2, <1>3
    <2> HIDE DEF ps
    <2>3. ps(k) \in [1 .. n -> PlotType]
        BY <2>1, <2>2
    <2> HIDE DEF n
    <2> QED
        BY <1>1, <2>3
<1>5. ps(0) = st.Plots
    <2>1. ps(0) = [r \in 1 .. n |-> st.Plots[r]]
        BY <1>1 DEF PlotsThen
    <2>2. st.Plots = [r \in 1 .. n |-> st.Plots[r]]
        BY <1>1
    <2> QED
        BY <2>1, <2>2
<1>6. ASSUME k + 1 \in 1 .. n
      PROVE  /\ ps(k)[k + 1] = st.Plots[k + 1]
             /\ Replaced(ps(k), k + 1, PlotThen(st, k + 1, to)) = ps(k + 1)
    <2> DEFINE q == Replaced(ps(k), k + 1, PlotThen(st, k + 1, to))
    <2>1. /\ DOMAIN q = 1 .. n /\ q = [r \in 1 .. n |-> q[r]]
          /\ \A r \in 1 .. n : q[r] = IF r = k + 1 THEN PlotThen(st, k + 1, to) ELSE ps(k)[r]
        BY <1>3 DEF Replaced
    <2>2. \A r \in 1 .. n : q[r] = ps(k + 1)[r]
        <3> SUFFICES ASSUME NEW r \in 1 .. n PROVE q[r] = ps(k + 1)[r]
            OBVIOUS
        <3>1. /\ ps(k)[r] = IF r <= k THEN PlotThen(st, r, to) ELSE st.Plots[r]
              /\ ps(k + 1)[r] = IF r <= k + 1 THEN PlotThen(st, r, to) ELSE st.Plots[r]
            BY <1>3
        <3>2. q[r] = IF r = k + 1 THEN PlotThen(st, k + 1, to) ELSE ps(k)[r]
            BY <2>1
        <3>3. r \in Nat /\ (r <= k + 1 <=> r <= k \/ r = k + 1) /\ ~(k + 1 <= k)
            BY <1>1
        <3> HIDE DEF ps, q
        <3>4. CASE r = k + 1
            BY <3>1, <3>2, <3>3, <3>4
        <3>5. CASE r # k + 1
            BY <3>1, <3>2, <3>3, <3>5
        <3> QED
            BY <3>4, <3>5
    <2>3. ps(k + 1) = [r \in 1 .. n |-> ps(k + 1)[r]]
        BY <1>1 DEF PlotsThen
    <2>4. ps(k)[k + 1] = st.Plots[k + 1]
        BY <1>3, <1>6
    <2> HIDE DEF ps, q
    <2> QED
        BY <2>1, <2>2, <2>3, <2>4 DEF q
<1> QED
    BY <1>1, <1>3, <1>4, <1>5, <1>6

-----------------------------------------------------------------------------
(* The turns of all plots.                                                  *)

\* What each plot brings, its seeds paid for.
Nets(st, to) == [p \in 1 .. Len(st.Plots) |-> Net(st, p, to)]

\* What each harvests for.
Yields(st, to) == [p \in 1 .. Len(st.Plots) |-> Yield(st, p, to)]

\* How often each is harvested.
Counts(st, to) == [p \in 1 .. Len(st.Plots) |-> Cycles(st, p, to)]

\* No count of what all of them bring overflows.
Roomy(st, to) ==
    RoomFor(st, SumTo(Len(st.Plots), Yields(st, to)), SumTo(Len(st.Plots), Counts(st, to)))

\* The save when all of them have.
Caught(st, to) ==
    LET n == Len(st.Plots)
        earned == SumTo(n, Yields(st, to))
    IN  Having(st, st.Coins + SumTo(n, Nets(st, to)), st.RunEarnings + earned,
               st.LifetimeEarnings + earned,
               st.LifetimeHarvests + SumTo(n, Counts(st, to)), PlotsThen(st, n, to))

\* The running totals of what they bring.
Totals(st, to, c, y, h) ==
    LET n == Len(st.Plots) IN
    /\ IsTotal(c, n, Nets(st, to)) /\ IsTotal(y, n, Yields(st, to))
    /\ IsTotal(h, n, Counts(st, to))
    /\ \A k \in 0 .. n : c[k] <= y[k]

\* The save when the turn of the first k has come.
Turn(st, to, c, y, h, k) ==
    Having(st, st.Coins + c[k], st.RunEarnings + y[k], st.LifetimeEarnings + y[k],
           st.LifetimeHarvests + h[k], PlotsThen(st, k, to))

\* What they bring is counted.
LEMMA TermsTyped ==
    ASSUME NEW st, Sound(st), NEW to \in Int
    PROVE  /\ st \in Save /\ Len(st.Plots) \in Nat /\ DOMAIN st.Plots = 1 .. Len(st.Plots)
           /\ Nets(st, to) \in [1 .. Len(st.Plots) -> Nat]
           /\ Yields(st, to) \in [1 .. Len(st.Plots) -> Nat]
           /\ Counts(st, to) \in [1 .. Len(st.Plots) -> Nat]
           /\ \A p \in 1 .. Len(st.Plots) : Nets(st, to)[p] <= Yields(st, to)[p]
<1>1. st \in Save
    BY DEF Sound
<1>2. st.Plots \in Seq(PlotType)
    BY <1>1, SaveTyped
<1>3. Len(st.Plots) \in Nat /\ DOMAIN st.Plots = 1 .. Len(st.Plots)
    BY <1>2
<1> DEFINE n == Len(st.Plots)
<1> HIDE DEF n
<1>4. \A p \in 1 .. n : /\ Yield(st, p, to) \in Nat /\ Net(st, p, to) \in Nat
                        /\ Net(st, p, to) <= Yield(st, p, to) /\ Cycles(st, p, to) \in Nat
    BY <1>3, YieldTyped DEF n
<1>5. Nets(st, to) = [p \in 1 .. n |-> Net(st, p, to)]
    BY DEF Nets, n
<1>6. Yields(st, to) = [p \in 1 .. n |-> Yield(st, p, to)]
    BY DEF Yields, n
<1>7. Counts(st, to) = [p \in 1 .. n |-> Cycles(st, p, to)]
    BY DEF Counts, n
<1>8. /\ Nets(st, to) \in [1 .. n -> Nat] /\ Yields(st, to) \in [1 .. n -> Nat]
      /\ Counts(st, to) \in [1 .. n -> Nat]
    BY <1>4, <1>5, <1>6, <1>7
<1>9. \A p \in 1 .. n : Nets(st, to)[p] <= Yields(st, to)[p]
    BY <1>4, <1>5, <1>6
<1> QED
    BY <1>1, <1>3, <1>8, <1>9 DEF n

\* There are such totals.
LEMMA TotalsExist ==
    ASSUME NEW st, Sound(st), NEW to \in Int
    PROVE  \E c, y, h : Totals(st, to, c, y, h)
<1> DEFINE n == Len(st.Plots)
<1>1. /\ n \in Nat
      /\ Nets(st, to) \in [1 .. n -> Nat] /\ Yields(st, to) \in [1 .. n -> Nat]
      /\ Counts(st, to) \in [1 .. n -> Nat]
      /\ \A p \in 1 .. n : Nets(st, to)[p] <= Yields(st, to)[p]
    BY TermsTyped
<1> HIDE DEF n
<1>2. PICK c : IsTotal(c, n, Nets(st, to))
    BY <1>1, TotalExists
<1>3. PICK y : IsTotal(y, n, Yields(st, to))
    BY <1>1, TotalExists
<1>4. PICK h : IsTotal(h, n, Counts(st, to))
    BY <1>1, TotalExists
<1>5. \A k \in 0 .. n : c[k] <= y[k]
    BY <1>1, <1>2, <1>3, TotalsCompare
<1>6. Totals(st, to, c, y, h)
    BY <1>2, <1>3, <1>4, <1>5 DEF Totals, n
<1> QED
    BY <1>6

\* What is part of a sum that fits.
LEMMA PartFits ==
    ASSUME NEW a \in Amount, NEW b \in Nat, NEW m \in Nat, b <= m, a + m <= MaxInt
    PROVE  a + b \in Amount /\ a <= a + b
BY MoneyAssumption DEF Amount

\* A part, and another one after it.
LEMMA PartsFit ==
    ASSUME NEW a \in Int, NEW b \in Nat, NEW d \in Nat, NEW e \in Nat, NEW m \in Nat,
           b <= d, d + e <= m, a + m <= MaxInt
    PROVE  (a + b) + e <= MaxInt
BY MoneyAssumption

\* Three terms.
LEMMA SumsAssociate ==
    ASSUME NEW a \in Int, NEW b \in Nat, NEW d \in Nat
    PROVE  (a + b) + d = a + (b + d)
OBVIOUS

\* A turn is a save, with no more than there is room for.
LEMMA TurnIs ==
    ASSUME NEW st, Sound(st), NEW to \in Int, Roomy(st, to),
           NEW c, NEW y, NEW h, Totals(st, to, c, y, h), NEW k \in 0 .. Len(st.Plots)
    PROVE  LET x == Turn(st, to, c, y, h, k) IN
           /\ x \in Save /\ Alike(st, x) /\ NoLuck(x)
           /\ x.Coins = st.Coins + c[k] /\ x.RunEarnings = st.RunEarnings + y[k]
           /\ x.LifetimeEarnings = st.LifetimeEarnings + y[k]
           /\ x.LifetimeHarvests = st.LifetimeHarvests + h[k]
           /\ x.Plots = PlotsThen(st, k, to)
           /\ x.Zones = st.Zones /\ x.Rebirths = st.Rebirths
           /\ st.LifetimeEarnings <= x.LifetimeEarnings
<1> DEFINE n == Len(st.Plots)
           most == SumTo(n, Yields(st, to))
           times == SumTo(n, Counts(st, to))
           x == Turn(st, to, c, y, h, k)
           ps == PlotsThen(st, k, to)
           nc == st.Coins + c[k]
           nr == st.RunEarnings + y[k]
           ne == st.LifetimeEarnings + y[k]
           nh == st.LifetimeHarvests + h[k]
<1>1. st \in Save /\ NoLuck(st) /\ n \in Nat /\ k \in Nat /\ k \in 0 .. n
    BY TermsTyped DEF Sound
<1>2. most \in Nat /\ times \in Nat
    BY TermsTyped, SumType
<1>3. /\ c[k] \in Nat /\ y[k] \in Nat /\ h[k] \in Nat
      /\ c[k] <= y[k] /\ y[k] <= most /\ h[k] <= times
    <2> HIDE DEF most, times
    <2>1. IsTotal(c, n, Nets(st, to)) /\ IsTotal(y, n, Yields(st, to))
             /\ IsTotal(h, n, Counts(st, to)) /\ c[k] <= y[k]
        BY <1>1 DEF Totals
    <2> HIDE DEF n
    <2> QED
        BY <1>1, <2>1 DEF IsTotal, most, times
<1>4. /\ st.Coins \in Amount /\ st.RunEarnings \in Amount
      /\ st.LifetimeEarnings \in Amount /\ st.LifetimeHarvests \in Amount
    BY <1>1, SaveTyped
<1>5. /\ st.Coins + most <= MaxInt /\ st.RunEarnings + most <= MaxInt
      /\ st.LifetimeEarnings + most <= MaxInt /\ st.LifetimeHarvests + times <= MaxInt
    BY DEF Roomy, RoomFor
<1>6. ps \in Seq(PlotType)
    BY <1>1, PlotsThenIs
<1> HIDE DEF most, times
<1>7. nc \in Amount /\ nr \in Amount /\ ne \in Amount /\ nh \in Amount
         /\ st.LifetimeEarnings <= ne
    <2>1. c[k] <= most
        <3> DEFINE ck == c[k]
                   yk == y[k]
        <3> HIDE DEF ck, yk
        <3>1. ck \in Nat /\ yk \in Nat /\ ck <= yk /\ yk <= most
            BY <1>3 DEF ck, yk
        <3> QED
            BY <1>2, <3>1 DEF ck
    <2>2. nc \in Amount
        BY <1>2, <1>3, <1>4, <1>5, <2>1, PartFits
    <2>3. nr \in Amount
        BY <1>2, <1>3, <1>4, <1>5, PartFits
    <2>4. ne \in Amount /\ st.LifetimeEarnings <= ne
        BY <1>2, <1>3, <1>4, <1>5, PartFits
    <2>5. nh \in Amount
        BY <1>2, <1>3, <1>4, <1>5, PartFits
    <2> QED
        BY <2>2, <2>3, <2>4, <2>5
<1>8. x = Having(st, nc, nr, ne, nh, ps)
    BY DEF Turn
<1> HIDE DEF nc, nr, ne, nh, ps, x
<1>9. LET z == Having(st, nc, nr, ne, nh, ps) IN
      /\ z \in Save
      /\ z.Coins = nc /\ z.RunEarnings = nr /\ z.LifetimeEarnings = ne
      /\ z.LifetimeHarvests = nh /\ z.Plots = ps
      /\ z.Zones = st.Zones /\ z.Rebirths = st.Rebirths /\ z.Upgrades = st.Upgrades
      /\ z.Multipliers = st.Multipliers /\ z.EventID = st.EventID
      /\ z.FlavorEnabled = st.FlavorEnabled
    BY <1>1, <1>6, <1>7, HavingIs
<1>10. /\ x \in Save
      /\ x.Coins = nc /\ x.RunEarnings = nr /\ x.LifetimeEarnings = ne
      /\ x.LifetimeHarvests = nh /\ x.Plots = ps
      /\ x.Zones = st.Zones /\ x.Rebirths = st.Rebirths /\ x.Upgrades = st.Upgrades
      /\ x.Multipliers = st.Multipliers /\ x.EventID = st.EventID
      /\ x.FlavorEnabled = st.FlavorEnabled
    BY <1>8, <1>9
<1>11. Alike(st, x) /\ NoLuck(x)
    BY <1>1, <1>10 DEF Alike, NoLuck
<1>12. st.LifetimeEarnings <= x.LifetimeEarnings
    BY <1>7, <1>10
<1> QED
    BY <1>10, <1>11, <1>12 DEF nc, nr, ne, nh, ps, x

\* From one turn to the next.
LEMMA NextTurn ==
    ASSUME NEW st, Sound(st), NEW to \in Int, Roomy(st, to), NEW online,
           NEW c, NEW y, NEW h, Totals(st, to, c, y, h),
           NEW k \in Nat, k + 1 <= Len(st.Plots)
    PROVE  AdvancePlot(Turn(st, to, c, y, h, k), k + 1, online, to)
              = {Turn(st, to, c, y, h, k + 1)}
<1> DEFINE n == Len(st.Plots)
           x == Turn(st, to, c, y, h, k)
           p == k + 1
           most == SumTo(n, Yields(st, to))
           times == SumTo(n, Counts(st, to))
           ps == PlotsThen(st, k, to)
<1>1. /\ st \in Save /\ n \in Nat /\ k \in 0 .. n /\ p \in 1 .. n /\ p - 1 = k
      /\ DOMAIN st.Plots = 1 .. n /\ p \in 0 .. n
    BY TermsTyped
<1>2. /\ x \in Save /\ Alike(st, x) /\ NoLuck(x)
      /\ x.Coins = st.Coins + c[k] /\ x.RunEarnings = st.RunEarnings + y[k]
      /\ x.LifetimeEarnings = st.LifetimeEarnings + y[k]
      /\ x.LifetimeHarvests = st.LifetimeHarvests + h[k]
      /\ x.Plots = ps
      /\ x.Zones = st.Zones /\ x.Rebirths = st.Rebirths
      /\ st.LifetimeEarnings <= x.LifetimeEarnings
    BY <1>1, TurnIs
<1>3. /\ DOMAIN x.Plots = DOMAIN st.Plots /\ x.Plots[p] = st.Plots[p]
      /\ Replaced(x.Plots, p, PlotThen(st, p, to)) = PlotsThen(st, p, to)
    <2>1. p \in DOMAIN st.Plots
        BY <1>1
    <2> HIDE DEF x
    <2> QED
        BY <1>2, <2>1, PlotsThenIs
<1>4. /\ c[p] = c[k] + Net(st, p, to) /\ y[p] = y[k] + Yield(st, p, to)
      /\ h[p] = h[k] + Cycles(st, p, to)
      /\ c[k] \in Nat /\ y[k] \in Nat /\ h[k] \in Nat
      /\ c[k] <= y[k] /\ y[p] <= most /\ h[p] <= times
    <2>1. IsTotal(c, n, Nets(st, to)) /\ IsTotal(y, n, Yields(st, to))
             /\ IsTotal(h, n, Counts(st, to)) /\ c[k] <= y[k]
        BY <1>1 DEF Totals
    <2>2. /\ Nets(st, to)[p] = Net(st, p, to) /\ Yields(st, to)[p] = Yield(st, p, to)
          /\ Counts(st, to)[p] = Cycles(st, p, to)
        BY <1>1 DEF Nets, Yields, Counts
    <2> HIDE DEF n, p, most, times
    <2>3. c[p] = c[k] + Nets(st, to)[p] /\ c[k] \in Nat
        BY <1>1, <2>1 DEF IsTotal, IsSum
    <2>4. y[p] = y[k] + Yields(st, to)[p] /\ y[k] \in Nat /\ y[p] <= most
        BY <1>1, <2>1 DEF IsTotal, IsSum, most
    <2>5. h[p] = h[k] + Counts(st, to)[p] /\ h[k] \in Nat /\ h[p] <= times
        BY <1>1, <2>1 DEF IsTotal, IsSum, times
    <2> QED
        BY <2>1, <2>2, <2>3, <2>4, <2>5
<1>5. /\ Yield(st, p, to) \in Nat /\ Net(st, p, to) \in Nat /\ Cycles(st, p, to) \in Nat
      /\ most \in Nat /\ times \in Nat
    BY <1>1, YieldTyped, TermsTyped, SumType
<1>6. /\ st.Coins \in Int /\ st.RunEarnings \in Int
      /\ st.LifetimeEarnings \in Int /\ st.LifetimeHarvests \in Int
    BY <1>1, SaveTyped DEF Amount
<1>7. /\ st.Coins + most <= MaxInt /\ st.RunEarnings + most <= MaxInt
      /\ st.LifetimeEarnings + most <= MaxInt /\ st.LifetimeHarvests + times <= MaxInt
    BY DEF Roomy, RoomFor
<1> DEFINE yield == Yield(st, p, to)
           net == Net(st, p, to)
           count == Cycles(st, p, to)
<1> HIDE DEF n, p, most, times, x, yield, net, count
<1> DEFINE ck == c[k]
           yk == y[k]
           hk == h[k]
           cp == c[p]
           yp == y[p]
           hp == h[p]
<1>20. /\ ck \in Nat /\ yk \in Nat /\ hk \in Nat
       /\ yield \in Nat /\ net \in Nat /\ count \in Nat
       /\ cp = ck + net /\ yp = yk + yield /\ hp = hk + count
       /\ ck <= yk /\ yk <= yk /\ hk <= hk /\ yk + yield <= most /\ hk + count <= times
    BY <1>4, <1>5 DEF yield, net, count
<1>21. /\ x.Coins = st.Coins + ck /\ x.RunEarnings = st.RunEarnings + yk
       /\ x.LifetimeEarnings = st.LifetimeEarnings + yk
       /\ x.LifetimeHarvests = st.LifetimeHarvests + hk
    BY <1>2
<1> HIDE DEF ck, yk, hk, cp, yp, hp
<1>8. RoomFor(x, yield, count)
    <2>1. (st.Coins + ck) + yield <= MaxInt
        BY <1>5, <1>6, <1>7, <1>20, PartsFit
    <2>2. (st.RunEarnings + yk) + yield <= MaxInt
        BY <1>5, <1>6, <1>7, <1>20, PartsFit
    <2>3. (st.LifetimeEarnings + yk) + yield <= MaxInt
        BY <1>5, <1>6, <1>7, <1>20, PartsFit
    <2>4. (st.LifetimeHarvests + hk) + count <= MaxInt
        BY <1>5, <1>6, <1>7, <1>20, PartsFit
    <2> QED
        BY <1>21, <2>1, <2>2, <2>3, <2>4 DEF RoomFor
<1>9. AdvancePlot(x, p, online, to) =
             {Having(x, x.Coins + net, x.RunEarnings + yield, x.LifetimeEarnings + yield,
                     x.LifetimeHarvests + count, Replaced(x.Plots, p, PlotThen(st, p, to)))}
    <2>1. st.Zones \subseteq x.Zones /\ st.Rebirths <= x.Rebirths /\ p \in DOMAIN st.Plots
        BY <1>1, <1>2, SaveTyped
    <2>2. RoomFor(x, Yield(st, p, to), Cycles(st, p, to))
        BY <1>8 DEF yield, count
    <2> QED
        BY <1>2, <1>3, <2>1, <2>2, PlotCaught DEF yield, net, count
<1>10. /\ x.Coins + net = st.Coins + c[p] /\ x.RunEarnings + yield = st.RunEarnings + y[p]
       /\ x.LifetimeEarnings + yield = st.LifetimeEarnings + y[p]
       /\ x.LifetimeHarvests + count = st.LifetimeHarvests + h[p]
    <2>4. /\ ck \in Nat /\ yk \in Nat /\ hk \in Nat
          /\ yield \in Nat /\ net \in Nat /\ count \in Nat
        BY <1>20
    <2>5. (st.Coins + ck) + net = st.Coins + (ck + net)
        BY <1>6, <2>4, SumsAssociate
    <2>6. (st.RunEarnings + yk) + yield = st.RunEarnings + (yk + yield)
        BY <1>6, <2>4, SumsAssociate
    <2>7. (st.LifetimeEarnings + yk) + yield = st.LifetimeEarnings + (yk + yield)
        BY <1>6, <2>4, SumsAssociate
    <2>8. (st.LifetimeHarvests + hk) + count = st.LifetimeHarvests + (hk + count)
        BY <1>6, <2>4, SumsAssociate
    <2>3. ck + net = c[p] /\ yk + yield = y[p] /\ hk + count = h[p]
        BY <1>20 DEF cp, yp, hp
    <2> QED
        BY <1>21, <2>3, <2>5, <2>6, <2>7, <2>8
<1>11. AdvancePlot(x, p, online, to) =
             {Having(x, st.Coins + c[p], st.RunEarnings + y[p], st.LifetimeEarnings + y[p],
                     st.LifetimeHarvests + h[p], PlotsThen(st, p, to))}
    BY <1>3, <1>9, <1>10
<1>12. Having(x, st.Coins + c[p], st.RunEarnings + y[p], st.LifetimeEarnings + y[p],
              st.LifetimeHarvests + h[p], PlotsThen(st, p, to))
          = Turn(st, to, c, y, h, p)
    BY <1>1, HavingTwice DEF Turn, x
<1> QED
    BY <1>11, <1>12 DEF x, p

\* The loop over the plots leaves the save that all of them leave.
LEMMA AllTurns ==
    ASSUME NEW st, Sound(st), NEW to \in Int, Roomy(st, to), NEW online,
           InForceAt(st, to)
    PROVE  GrownFrom({st}, st, online, to) = {Caught(st, to)}
<1> DEFINE n == Len(st.Plots)
<1>1. st \in Save /\ n \in Nat
    BY TermsTyped
<1>2. PICK c, y, h : Totals(st, to, c, y, h)
    BY TotalsExist
<1>3. {st} \in SUBSET Stage(st, to)
    <2>1. But(Rolled, st, st)
        BY <1>1 DEF But
    <2>2. Tended(st, st)
        BY <1>1, TendedReflexive
    <2> QED
        BY <1>1, <2>1, <2>2 DEF Stage
<1>4. PICK grown : IsGrownRun(grown, {st}, st, online, to)
    BY <1>1, <1>3, GrownIs
<1> DEFINE D == {k \in Nat : k <= n => grown[k] = {Turn(st, to, c, y, h, k)}}
<1>5. 0 \in D
    <2>1. /\ c[0] = 0 /\ y[0] = 0 /\ h[0] = 0
        BY <1>2 DEF Totals, IsTotal
    <2>2. /\ st.Coins + 0 = st.Coins /\ st.RunEarnings + 0 = st.RunEarnings
          /\ st.LifetimeEarnings + 0 = st.LifetimeEarnings
          /\ st.LifetimeHarvests + 0 = st.LifetimeHarvests
        BY <1>1, SaveTyped DEF Amount
    <2>3. PlotsThen(st, 0, to) = st.Plots
        BY PlotsThenIs
    <2>4. Turn(st, to, c, y, h, 0) = st
        BY <1>1, <2>1, <2>2, <2>3, HavingSame DEF Turn
    <2>5. grown[0] = {st}
        BY <1>4 DEF IsGrownRun
    <2> QED
        BY <2>4, <2>5
<1>6. ASSUME NEW k \in Nat, k \in D PROVE k + 1 \in D
    <2> SUFFICES ASSUME k + 1 <= n PROVE grown[k + 1] = {Turn(st, to, c, y, h, k + 1)}
        OBVIOUS
    <2>1. grown[k] = {Turn(st, to, c, y, h, k)}
        BY <1>1, <1>6
    <2>2. k + 1 \in 1 .. n /\ (k + 1) - 1 = k
        BY <1>1
    <2>3. grown[k + 1] = UNION {AdvancePlot(z, k + 1, online, to) : z \in grown[k]}
        <3>1. grown[k + 1] = UNION {AdvancePlot(z, k + 1, online, to) : z \in grown[(k + 1) - 1]}
            BY <1>4, <2>2 DEF IsGrownRun
        <3> QED
            BY <2>2, <3>1
    <2>4. grown[k + 1] = AdvancePlot(Turn(st, to, c, y, h, k), k + 1, online, to)
        BY <2>1, <2>3
    <2>5. AdvancePlot(Turn(st, to, c, y, h, k), k + 1, online, to)
             = {Turn(st, to, c, y, h, k + 1)}
        BY <1>2, NextTurn
    <2> QED
        BY <2>4, <2>5
<1>7. grown[n] = {Turn(st, to, c, y, h, n)}
    <2> HIDE DEF D
    <2>1. Nat \subseteq D
        BY <1>5, <1>6, Induction
    <2> QED
        BY <1>1, <2>1 DEF D
<1>8. GrownFrom({st}, st, online, to) = grown[n]
    BY <1>4 DEF IsGrownRun
<1>9. Turn(st, to, c, y, h, n) = Caught(st, to)
    <2>1. /\ c[n] = SumTo(n, Nets(st, to)) /\ y[n] = SumTo(n, Yields(st, to))
          /\ h[n] = SumTo(n, Counts(st, to))
        BY <1>2 DEF Totals, IsTotal
    <2> QED
        BY <2>1 DEF Turn, Caught
<1> QED
    BY <1>7, <1>8, <1>9

-----------------------------------------------------------------------------
(* A whole Advance in which nothing comes by chance.                        *)

\* Nothing comes by itself: no event can start, or the one in force outlasts all
\* times; and no parcel can arrive within them, or one is waiting.
Idle(st) ==
    LET most == (MaxTime + 2) * 10000
        bonus == Owned(Content.Upgrades, st.Upgrades, "gift_rate_pct")
    IN  /\ Content.Events = <<>> \/ EventActive(st, End + 2)
        /\ \/ st.GiftPending
           \/ /\ most < Content.Gifts.OfflineIntervalSec
              /\ most < (Content.Gifts.OnlineIntervalSec * 100) \div (100 + bonus)

\* The save that an Advance leaves.
Finished(st, to) == CheckAchievements([Caught(st, to) EXCEPT !.UpdatedAt = to], to)

\* A chance that is less than one in the sides.
LEMMA NoRoll ==
    ASSUME NEW sides \in Nat \ {0}
    PROVE  \A hit : hit \in Roll(0, sides) <=> hit = FALSE
<1>1. ~(0 > 0) /\ 0 < sides
    OBVIOUS
<1>2. \A hit : hit \in Roll(0, sides)
            <=> hit \in BOOLEAN /\ IF hit THEN 0 > 0 ELSE 0 < sides
    BY DEF Roll
<1>3. FALSE \in Roll(0, sides) /\ TRUE \notin Roll(0, sides)
    BY <1>1, <1>2
<1>4. \A hit \in Roll(0, sides) : hit \in BOOLEAN
    BY DEF Roll
<1> QED
    BY <1>3, <1>4, Zenon

\* No event ends or starts.
LEMMA NoEvent ==
    ASSUME NEW st \in Save, Idle(st), NEW to \in Int, to <= End + 2, NEW elapsed
    PROVE  /\ InForceAt(st, to) /\ Expire(st, to) = st
           /\ RollOnlineEvent(st, elapsed, to) = {st}
<1>1. CASE Content.Events = <<>>
    <2>1. Ids(Content.Events) = {}
        BY <1>1 DEF Ids
    <2>2. st.EventID = Nothing
        BY <2>1, SaveTyped
    <2> QED
        BY <1>1, <2>2 DEF InForceAt, Expire, RollOnlineEvent
<1>2. CASE EventActive(st, End + 2)
    <2>1. End + 2 < st.EventEndsAt /\ st.EventEndsAt \in Int /\ End \in Int
        BY <1>2, SaveTyped, EngineAssumption, FarmAssumption DEF EventActive, End
    <2>2. to < st.EventEndsAt /\ ~(to >= st.EventEndsAt)
        BY <2>1
    <2>3. EventActive(st, to)
        BY <1>2, <2>2 DEF EventActive
    <2> QED
        BY <2>2, <2>3 DEF InForceAt, Expire, RollOnlineEvent
<1> QED
    BY <1>1, <1>2 DEF Idle

\* A quotient by more than it has.
LEMMA QuotientNone ==
    ASSUME NEW a \in Nat, NEW d \in Int, a < d
    PROVE  a \div d = 0
BY Z3

\* No parcel arrives.
LEMMA NoParcel ==
    ASSUME NEW st \in Save, Idle(st), NEW elapsed \in Nat, elapsed <= MaxTime + 2, NEW online
    PROVE  RollGiftArrival(st, elapsed, online) = {st}
<1>1. CASE st.GiftPending
    BY <1>1 DEF RollGiftArrival
<1>2. CASE ~st.GiftPending
    <2> DEFINE bonus == Owned(Content.Upgrades, st.Upgrades, "gift_rate_pct")
               fast == (Content.Gifts.OnlineIntervalSec * 100) \div (100 + bonus)
               slow == Content.Gifts.OfflineIntervalSec
               interval == IF online THEN fast ELSE slow
               most == (MaxTime + 2) * 10000
    <2>1. most < slow /\ most < fast
        BY <1>2 DEF Idle
    <2>2. bonus \in Nat
        BY OwnedType, SaveLevels
    <2>3. slow \in Int /\ fast \in Int
        <3>1. Content.Gifts.OnlineIntervalSec \in Int /\ slow \in Int
            BY PartsTyped
        <3> HIDE DEF bonus
        <3>2. 100 + bonus \in Nat \ {0} /\ Content.Gifts.OnlineIntervalSec * 100 \in Int
            BY <2>2, <3>1
        <3> QED
            BY <3>1, <3>2
    <2>4. elapsed * 10000 \in Nat /\ elapsed * 10000 <= most /\ most \in Nat
        BY FarmAssumption
    <2> HIDE DEF fast, slow, most
    <2>5. interval \in Int /\ elapsed * 10000 < interval /\ ~(interval < 1)
        BY <2>1, <2>3, <2>4
    <2> HIDE DEF interval
    <2>6. (elapsed * 10000) \div interval = 0
        BY <2>4, <2>5, QuotientNone
    <2> DEFINE sides == 10000
               after(hit) == [st EXCEPT !.GiftPending = hit]
    <2>7. RollGiftArrival(st, elapsed, online) =
             {after(arrives) : arrives \in Roll((elapsed * 10000) \div interval, sides)}
        BY <1>2, <2>5 DEF RollGiftArrival, interval, fast, slow
    <2>8. sides \in Nat \ {0}
        OBVIOUS
    <2> HIDE DEF sides, after
    <2>9. \A hit : hit \in Roll(0, sides) <=> hit = FALSE
        BY <2>8, NoRoll
    <2>11. RollGiftArrival(st, elapsed, online) = {after(arrives) : arrives \in Roll(0, sides)}
        BY <2>6, <2>7
    <2>12. RollGiftArrival(st, elapsed, online) = {after(FALSE)}
        <3>1. \A x : x \in RollGiftArrival(st, elapsed, online) <=>
                        \E arrives \in Roll(0, sides) : x = after(arrives)
            BY <2>11
        <3>2. FALSE \in Roll(0, sides)
            BY <2>9
        <3>3. ASSUME NEW x \in RollGiftArrival(st, elapsed, online) PROVE x = after(FALSE)
            <4>1. PICK arrives \in Roll(0, sides) : x = after(arrives)
                BY <3>1
            <4>2. arrives = FALSE
                BY <2>9, <4>1
            <4> QED
                BY <4>1, <4>2
        <3>4. after(FALSE) \in RollGiftArrival(st, elapsed, online)
            BY <3>1, <3>2
        <3> QED
            BY <3>3, <3>4
    <2>10. [st EXCEPT !.GiftPending = FALSE] = st
        BY <1>2 DEF Save
    <2> QED
        BY <2>10, <2>12 DEF after
<1> QED
    BY <1>1, <1>2

\* An Advance in which nothing comes by chance leaves one save.
LEMMA AdvanceIs ==
    ASSUME NEW st, Sound(st), Idle(st), NEW to \in Int, Roomy(st, to),
           DayLength <= st.UpdatedAt, st.UpdatedAt < to, to <= End + 2
    PROVE  Advance(st, to) = {Finished(st, to)}
<1> DEFINE elapsed == to - st.UpdatedAt
           online == elapsed <= OnlineTick
           eventful == IF online THEN RollOnlineEvent(Expire(st, to), elapsed, to)
                       ELSE {Expire(st, to)}
           gifted == UNION {RollGiftArrival(z, elapsed, online) : z \in eventful}
           last == GrownFrom(gifted, st, online, to)
<1>1. st \in Save /\ st.UpdatedAt \in Int /\ End = DayLength + MaxTime
      /\ DayLength \in Nat /\ MaxTime \in Nat
    BY EngineAssumption, FarmAssumption, SaveTyped DEF Sound, End
<1>2. elapsed \in Nat /\ elapsed <= MaxTime + 2 /\ ~(elapsed <= 0)
    BY <1>1
<1>3. Advance(st, to) =
         IF elapsed <= 0 THEN {st}
         ELSE {CheckAchievements([y EXCEPT !.UpdatedAt = to], to) : y \in last}
    BY DEF Advance, GrownFrom
<1> HIDE DEF elapsed
<1>4. /\ InForceAt(st, to) /\ Expire(st, to) = st
      /\ RollOnlineEvent(st, elapsed, to) = {st}
    BY <1>1, NoEvent
<1>5. eventful = {st}
    BY <1>4
<1>6. gifted = {st}
    <2>1. RollGiftArrival(st, elapsed, online) = {st}
        <3> HIDE DEF online
        <3> QED
            BY <1>1, <1>2, NoParcel
    <2> HIDE DEF eventful, online
    <2> QED
        BY <1>5, <2>1
<1>7. last = {Caught(st, to)}
    <2> HIDE DEF gifted, online
    <2>1. GrownFrom({st}, st, online, to) = {Caught(st, to)}
        BY <1>4, AllTurns
    <2> QED
        BY <1>6, <2>1
<1> HIDE DEF last
<1> DEFINE check(y) == CheckAchievements([y EXCEPT !.UpdatedAt = to], to)
<1>8. Advance(st, to) = {check(y) : y \in last}
    BY <1>2, <1>3
<1>9. check(Caught(st, to)) = Finished(st, to)
    BY DEF Finished
<1> HIDE DEF check
<1> QED
    BY <1>7, <1>8, <1>9

-----------------------------------------------------------------------------
(* What a plot brings in two parts.                                         *)

\* More time is as many times a duration, or more.
LEMMA QuotientGrows ==
    ASSUME NEW a \in Nat, NEW b \in Nat, NEW g \in Nat \ {0}, a <= b
    PROVE  a \div g <= b \div g
<1>1. \A i, j, d \in Nat : d > 0 /\ i <= j => i \div d <= j \div d
    BY Z3
<1> QED
    BY <1>1

\* A crop is due as often, or more often, by a later time.
LEMMA CyclesGrow ==
    ASSUME NEW st, Sound(st), NEW p \in DOMAIN st.Plots, NEW to \in Int, NEW later \in Int,
           to <= later
    PROVE  /\ Cycles(st, p, to) <= Cycles(st, p, later)
           /\ Yield(st, p, to) <= Yield(st, p, later)
           /\ Net(st, p, to) <= Net(st, p, later)
<1>1. CASE ~Automated(st, p)
    BY <1>1 DEF Cycles, Yield, Net
<1>2. CASE Automated(st, p)
    <2> DEFINE n == Cycles(st, p, to)
               m == Cycles(st, p, later)
               g == Grow(st, p)
               gross == Gross(st, p)
               seed == Seed(st, p)
               a == to - st.Plots[p].PlantedAt
               b == later - st.Plots[p].PlantedAt
               sow == st.Plots[p].AutoSow
    <2>1. /\ gross \in Nat /\ seed \in 0 .. gross /\ g \in Nat \ {0} /\ n \in Nat
          /\ st.Plots[p].PlantedAt \in Int
        BY <1>2, RatesTyped
    <2>2. m \in Nat
        BY <1>2, RatesTyped
    <2>3. /\ n = IF a < g THEN 0 ELSE IF sow THEN a \div g ELSE 1
          /\ m = IF b < g THEN 0 ELSE IF sow THEN b \div g ELSE 1
        BY <1>2 DEF Cycles
    <2>4. a \in Int /\ b \in Int /\ a <= b
        BY <2>1
    <2> HIDE DEF n, m, g, a, b, gross, seed
    <2>5. n <= m
        <3>1. CASE a < g
            BY <2>2, <2>3, <3>1
        <3>2. CASE ~(a < g)
            <4>1. ~(b < g) /\ a \in Nat /\ b \in Nat
                BY <2>1, <2>4, <3>2
            <4>2. a \div g <= b \div g
                BY <2>1, <2>4, <4>1, QuotientGrows
            <4> QED
                BY <2>3, <3>2, <4>1, <4>2
        <3> QED
            BY <3>1, <3>2
    <2>6. n * gross <= m * gross
        BY <2>1, <2>2, <2>5, Monotone
    <2>7. n * (gross - seed) <= m * (gross - seed)
        <3>1. gross - seed \in Nat
            BY <2>1
        <3> QED
            BY <2>1, <2>2, <2>5, <3>1, Monotone
    <2> QED
        BY <1>2, <2>5, <2>6, <2>7 DEF Yield, Net, n, m, gross, seed
<1> QED
    BY <1>1, <1>2

\* So there is room for what is due by an earlier time.
LEMMA RoomyEarlier ==
    ASSUME NEW st, Sound(st), NEW to \in Int, NEW later \in Int, to <= later,
           Roomy(st, later)
    PROVE  Roomy(st, to)
<1> DEFINE n == Len(st.Plots)
           a == SumTo(n, Yields(st, to))
           b == SumTo(n, Yields(st, later))
           c == SumTo(n, Counts(st, to))
           d == SumTo(n, Counts(st, later))
<1>1. /\ st \in Save /\ n \in Nat /\ DOMAIN st.Plots = 1 .. n
      /\ Yields(st, to) \in [1 .. n -> Nat] /\ Counts(st, to) \in [1 .. n -> Nat]
    BY TermsTyped
<1>2. Yields(st, later) \in [1 .. n -> Nat] /\ Counts(st, later) \in [1 .. n -> Nat]
    BY TermsTyped
<1>3. \A p \in 1 .. n : /\ Yields(st, to)[p] <= Yields(st, later)[p]
                        /\ Counts(st, to)[p] <= Counts(st, later)[p]
    <2> SUFFICES ASSUME NEW p \in 1 .. n
                 PROVE  /\ Yields(st, to)[p] <= Yields(st, later)[p]
                        /\ Counts(st, to)[p] <= Counts(st, later)[p]
        OBVIOUS
    <2>1. /\ Cycles(st, p, to) <= Cycles(st, p, later)
          /\ Yield(st, p, to) <= Yield(st, p, later)
        BY <1>1, CyclesGrow
    <2> QED
        BY <2>1 DEF Yields, Counts
<1> HIDE DEF n
<1>4. a <= b /\ c <= d
    BY <1>1, <1>2, <1>3, SumGrows
<1>5. a \in Nat /\ b \in Nat /\ c \in Nat /\ d \in Nat
    BY <1>1, <1>2, SumType
<1>6. /\ st.Coins \in Int /\ st.RunEarnings \in Int
      /\ st.LifetimeEarnings \in Int /\ st.LifetimeHarvests \in Int
    BY <1>1, SaveTyped DEF Amount
<1>7. /\ st.Coins + b <= MaxInt /\ st.RunEarnings + b <= MaxInt
      /\ st.LifetimeEarnings + b <= MaxInt /\ st.LifetimeHarvests + d <= MaxInt
    BY DEF Roomy, RoomFor, n
<1> HIDE DEF a, b, c, d
<1>8. /\ st.Coins + a <= MaxInt /\ st.RunEarnings + a <= MaxInt
      /\ st.LifetimeEarnings + a <= MaxInt /\ st.LifetimeHarvests + c <= MaxInt
    BY <1>4, <1>5, <1>6, <1>7, MoneyAssumption
<1> QED
    BY <1>8 DEF Roomy, RoomFor, a, c, n

\* A plot that is advanced at once is advanced as in two parts.
LEMMA PlotInParts ==
    ASSUME NEW st, Sound(st), NEW p \in DOMAIN st.Plots, NEW mid \in Int, NEW to \in Int,
           mid <= to, NEW y \in Save, Alike(st, y), p \in DOMAIN y.Plots,
           y.Plots[p] = PlotThen(st, p, mid)
    PROVE  /\ Automated(y, p) => /\ CropOf(y, p) \in SureCrops /\ Pays(y, p)
           /\ Cycles(y, p, to) \in Nat /\ Net(y, p, to) \in Nat /\ Yield(y, p, to) \in Nat
           /\ Cycles(st, p, to) = Cycles(st, p, mid) + Cycles(y, p, to)
           /\ Net(st, p, to) = Net(st, p, mid) + Net(y, p, to)
           /\ Yield(st, p, to) = Yield(st, p, mid) + Yield(y, p, to)
           /\ PlotThen(y, p, to) = PlotThen(st, p, to)
<1>1. CASE ~Automated(st, p)
    <2>1. y.Plots[p] = st.Plots[p]
        BY <1>1 DEF PlotThen
    <2>2. ~Automated(y, p)
        BY <1>1, <2>1 DEF Automated
    <2>3. /\ Cycles(st, p, to) = 0 /\ Cycles(st, p, mid) = 0 /\ Cycles(y, p, to) = 0
          /\ Net(st, p, to) = 0 /\ Net(st, p, mid) = 0 /\ Net(y, p, to) = 0
          /\ Yield(st, p, to) = 0 /\ Yield(st, p, mid) = 0 /\ Yield(y, p, to) = 0
          /\ PlotThen(y, p, to) = y.Plots[p] /\ PlotThen(st, p, to) = st.Plots[p]
        BY <1>1, <2>2 DEF Cycles, Net, Yield, PlotThen
    <2> QED
        BY <2>1, <2>2, <2>3
<1>2. CASE Automated(st, p)
    <2> DEFINE plot == st.Plots[p]
               k == Cycles(st, p, mid)
               n == Cycles(st, p, to)
               m == Cycles(y, p, to)
               g == Grow(st, p)
               gross == Gross(st, p)
               seed == Seed(st, p)
               start == plot.PlantedAt
    <2>1. /\ gross \in Nat /\ seed \in 0 .. gross /\ g \in Nat \ {0} /\ n \in Nat
          /\ plot \in PlotType /\ start \in Int
        BY <1>2, RatesTyped
    <2>2. k \in Nat
        BY <1>2, RatesTyped
    <2>3. /\ n = IF to - start < g THEN 0 ELSE IF plot.AutoSow THEN (to - start) \div g ELSE 1
          /\ k = IF mid - start < g THEN 0 ELSE IF plot.AutoSow THEN (mid - start) \div g ELSE 1
        BY <1>2 DEF Cycles
    <2>4. y.Plots[p] = PlotAfter(plot, k, g)
        BY <1>2 DEF PlotThen
    <2>5. /\ PlotAfter(plot, k, g).AutoHarvest = plot.AutoHarvest
          /\ PlotAfter(plot, k, g).AutoSow = plot.AutoSow
          /\ PlotAfter(plot, 0, g) = plot
          /\ plot.AutoSow =>
                /\ PlotAfter(plot, k, g).Crop = plot.Crop
                /\ PlotAfter(plot, k, g).PlantedAt = start + k * g
                /\ \A i \in Int : Resown(PlotAfter(plot, k, g), i) = Resown(plot, i)
        <3> HIDE DEF plot, k, g
        <3>1. plot \in PlotType /\ k \in Nat /\ g \in Nat
            BY <2>1, <2>2
        <3> QED
            BY <3>1, PlotAfterIs DEF start
    \* It is sown again, or its turn has not come: it goes on with the rest.
    <2>6. ASSUME plot.AutoSow \/ k = 0
          PROVE  /\ Automated(y, p) /\ CropOf(y, p) = CropOf(st, p)
                 /\ CropOf(y, p) \in SureCrops /\ Pays(y, p)
                 /\ Gross(y, p) = gross /\ Seed(y, p) = seed /\ Grow(y, p) = g
                 /\ m \in Nat /\ n = k + m
                 /\ PlotAfter(y.Plots[p], m, g) = PlotAfter(plot, n, g)
        <3>1. y.Plots[p].Crop = plot.Crop /\ y.Plots[p].AutoSow = plot.AutoSow
                 /\ y.Plots[p].AutoHarvest = plot.AutoHarvest
            BY <2>4, <2>5, <2>6
        <3>2. /\ CropOf(y, p) = CropOf(st, p) /\ CropOf(st, p) \in SureCrops
              /\ Gross(y, p) = gross /\ Seed(y, p) = seed /\ Grow(y, p) = g /\ Pays(y, p)
            BY <1>2, <3>1, RatesOfPlot
        <3>3. Automated(y, p)
            BY <1>2, <3>1 DEF Automated
        <3>4. m = IF to - y.Plots[p].PlantedAt < g THEN 0
                  ELSE IF plot.AutoSow THEN (to - y.Plots[p].PlantedAt) \div g ELSE 1
            BY <3>1, <3>2, <3>3 DEF Cycles
        <3>5. CASE k = 0
            <4>1. y.Plots[p] = plot
                BY <2>4, <2>5, <3>5
            <4>2. m = n
                BY <2>3, <3>4, <4>1
            <4> QED
                BY <2>1, <3>2, <3>3, <3>5, <4>1, <4>2
        <3>6. CASE k # 0 /\ plot.AutoSow
            <4> DEFINE since == mid - start
                       all == to - start
            <4>1. k = since \div g /\ since \in Nat /\ all \in Nat /\ since <= all
                <5>1. ~(since < g)
                    BY <2>3, <3>6
                <5> QED
                    BY <2>1, <2>3, <3>6, <5>1
            <4>2. k * g <= since /\ k * g \in Nat
                <5>1. (since \div g) * g <= since /\ since \div g \in Nat
                    BY <2>1, <4>1, Quotient
                <5>2. k * g \in Nat
                    BY <2>1, <2>2, Monotone
                <5> QED
                    BY <4>1, <5>1, <5>2
            <4> DEFINE kg == k * g
            <4>3. y.Plots[p].PlantedAt = start + kg
                BY <2>4, <2>5, <3>6
            <4> HIDE DEF kg, since, all, start, k, n, m, g
            <4>4. kg \in Nat /\ kg <= since /\ kg <= all /\ all - kg \in Nat
                BY <4>1, <4>2 DEF kg
            <4>5. to - y.Plots[p].PlantedAt = all - kg /\ all \in Int
                BY <2>1, <4>1, <4>3, <4>4 DEF all
            <4>6. n = all \div g
                <5>1. ~(all < g)
                    <6>1. ~(since < g)
                        BY <2>3, <3>6 DEF since
                    <6> QED
                        BY <2>1, <4>1, <6>1
                <5> QED
                    BY <2>3, <3>6, <5>1 DEF all
            <4>7. (all - kg) \div g = all \div g - k
                BY <2>1, <2>2, <4>1, <4>4, QuotientLess DEF kg
            <4>8. m = n - k /\ n - k \in Nat
                <5>1. CASE all - kg < g
                    <6>1. m = 0
                        BY <3>4, <4>5, <5>1
                    <6>2. (all - kg) \div g = 0
                        BY <2>1, <4>4, <5>1, QuotientNone
                    <6> QED
                        BY <2>1, <2>2, <4>6, <4>7, <6>1, <6>2
                <5>2. CASE ~(all - kg < g)
                    <6>1. m = (all - kg) \div g
                        BY <3>4, <3>6, <4>5, <5>2
                    <6>2. (all - kg) \div g \in Nat
                        BY <2>1, <4>4, Quotient
                    <6> QED
                        BY <4>6, <4>7, <6>1, <6>2
                <5> QED
                    BY <5>1, <5>2
            <4>9. n = k + m /\ m \in Nat
                BY <2>1, <2>2, <4>8
            <4>10. PlotAfter(y.Plots[p], m, g) = PlotAfter(plot, n, g)
                <5>1. CASE m = 0
                    <6>1. n = k
                        BY <2>2, <4>9, <5>1
                    <6> QED
                        BY <2>4, <5>1, <6>1 DEF PlotAfter
                <5>2. CASE m # 0
                    <6>1. n # 0
                        BY <2>2, <4>9, <5>2
                    <6>2. PlotAfter(plot, n, g) = Resown(plot, start + n * g)
                        BY <3>6, <6>1 DEF PlotAfter, start
                    <6>3. PlotAfter(y.Plots[p], m, g) = Resown(y.Plots[p], (start + kg) + m * g)
                        BY <3>1, <3>6, <4>3, <5>2 DEF PlotAfter
                    <6>4. n * g = kg + m * g /\ m * g \in Nat
                        <7>1. k + m <= n /\ g \in Nat
                            BY <2>1, <2>2, <4>9
                        <7>2. (k + m) * g = k * g + m * g /\ m * g \in Nat
                            BY <2>1, <2>2, <4>9, <7>1, Products
                        <7> QED
                            BY <4>9, <7>2 DEF kg
                    <6> DEFINE mg == m * g
                               ng == n * g
                    <6> HIDE DEF mg, ng
                    <6>5. (start + kg) + mg = start + ng /\ start + ng \in Int
                        <7>1. ng = kg + mg /\ mg \in Nat
                            BY <6>4 DEF mg, ng
                        <7>2. (start + kg) + mg = start + (kg + mg)
                            BY <2>1, <4>4, <7>1, SumsAssociate
                        <7>3. start + (kg + mg) \in Int
                            BY <2>1, <4>4, <7>1
                        <7> QED
                            BY <7>1, <7>2, <7>3
                    <6>6. Resown(y.Plots[p], start + ng) = Resown(plot, start + ng)
                        BY <2>4, <2>5, <3>6, <6>5
                    <6> QED
                        BY <6>2, <6>3, <6>5, <6>6 DEF mg, ng
                <5> QED
                    BY <5>1, <5>2
            <4> QED
                BY <3>2, <3>3, <4>9, <4>10
        <3> QED
            BY <2>6, <3>5, <3>6
    <2>7. CASE plot.AutoSow \/ k = 0
        <3> HIDE DEF plot, k, n, m, g, gross, seed
        <3>1. /\ Automated(y, p) /\ CropOf(y, p) \in SureCrops /\ Pays(y, p)
              /\ Gross(y, p) = gross /\ Seed(y, p) = seed /\ Grow(y, p) = g
              /\ m \in Nat /\ n = k + m
              /\ PlotAfter(y.Plots[p], m, g) = PlotAfter(plot, n, g)
            BY <2>6, <2>7
        <3>2. \A c \in Nat : n * c = k * c + m * c /\ m * c \in Nat
            <4> SUFFICES ASSUME NEW c \in Nat PROVE n * c = k * c + m * c /\ m * c \in Nat
                OBVIOUS
            <4>1. k + m <= n
                BY <2>1, <2>2, <3>1
            <4>2. (k + m) * c = k * c + m * c /\ m * c \in Nat
                BY <2>1, <2>2, <3>1, <4>1, Products
            <4> QED
                BY <3>1, <4>2
        <3>3. gross - seed \in Nat
            BY <2>1
        <3>4. /\ n * gross = k * gross + m * gross /\ m * gross \in Nat
              /\ n * (gross - seed) = k * (gross - seed) + m * (gross - seed)
              /\ m * (gross - seed) \in Nat
            BY <2>1, <3>2, <3>3
        <3>5. /\ Yield(st, p, to) = n * gross /\ Yield(st, p, mid) = k * gross
              /\ Net(st, p, to) = n * (gross - seed) /\ Net(st, p, mid) = k * (gross - seed)
              /\ PlotThen(st, p, to) = PlotAfter(plot, n, g)
            BY <1>2 DEF Yield, Net, PlotThen, n, k, gross, seed, g, plot
        <3>6. /\ Yield(y, p, to) = m * gross /\ Net(y, p, to) = m * (gross - seed)
              /\ PlotThen(y, p, to) = PlotAfter(y.Plots[p], m, g)
            BY <3>1 DEF Yield, Net, PlotThen, m
        <3> QED
            BY <3>1, <3>4, <3>5, <3>6 DEF n, k, m
    <2>8. CASE ~(plot.AutoSow \/ k = 0)
        <3>1. y.Plots[p] = Bare(plot)
            BY <2>4, <2>8 DEF PlotAfter
        <3>2. y.Plots[p].Crop = Nothing
            BY <2>1, <3>1 DEF Bare, PlotType
        <3>3. ~Automated(y, p)
            BY <3>2 DEF Automated
        <3>4. k = 1 /\ n = 1
            <4>1. ~(mid - start < g) /\ k = 1
                BY <2>3, <2>8
            <4>2. ~(to - start < g)
                BY <2>1, <4>1
            <4> QED
                BY <2>3, <2>8, <4>1, <4>2
        <3>5. m = 0 /\ Yield(y, p, to) = 0 /\ Net(y, p, to) = 0
              /\ PlotThen(y, p, to) = y.Plots[p]
            BY <3>3 DEF Cycles, Yield, Net, PlotThen
        <3>6. /\ Yield(st, p, to) = Yield(st, p, mid) /\ Net(st, p, to) = Net(st, p, mid)
              /\ PlotThen(st, p, to) = PlotThen(st, p, mid)
            BY <3>4 DEF Yield, Net, PlotThen
        <3>7. Yield(st, p, mid) \in Nat /\ Net(st, p, mid) \in Nat
            BY YieldTyped
        <3> QED
            BY <3>3, <3>4, <3>5, <3>6, <3>7
    <2> QED
        BY <2>7, <2>8
<1> QED
    BY <1>1, <1>2

-----------------------------------------------------------------------------
(* The save between the parts.                                              *)

\* The save at this time and with these achievements.
Marked(x, t, a) == [x EXCEPT !.UpdatedAt = t, !.Achievements = a]

\* What is achieved by a time, and when.
Dates(x, t) ==
    [id \in DOMAIN x.Achievements |->
        IF x.Achievements[id] = NotEarned /\ id \in Met(x) THEN t ELSE x.Achievements[id]]

\* It is a save, like the other in all else.
LEMMA MarkedIs ==
    ASSUME NEW x \in Save, NEW t \in Int, NEW a \in [Ids(Content.Achievements) -> Int]
    PROVE  LET y == Marked(x, t, a) IN
           /\ y \in Save /\ y.UpdatedAt = t /\ y.Achievements = a
           /\ y.Coins = x.Coins /\ y.RunEarnings = x.RunEarnings
           /\ y.LifetimeEarnings = x.LifetimeEarnings
           /\ y.LifetimeHarvests = x.LifetimeHarvests /\ y.Plots = x.Plots
           /\ y.Zones = x.Zones /\ y.Rebirths = x.Rebirths
           /\ y.EventEndsAt = x.EventEndsAt /\ y.GiftPending = x.GiftPending
           /\ y.FlavorEnabled = x.FlavorEnabled
           /\ Alike(x, y)
BY DEF Marked, Save, Alike

\* Marks are replaced.
LEMMA MarkedTwice ==
    ASSUME NEW x \in Save, NEW t, NEW a, NEW t2, NEW a2
    PROVE  Marked(Marked(x, t, a), t2, a2) = Marked(x, t2, a2)
BY DEF Marked, Save

\* They stay when coins come and plots change.
LEMMA HavingMarked ==
    ASSUME NEW st \in Save, NEW c, NEW r, NEW e, NEW h, NEW ps, NEW t, NEW a,
           NEW c2, NEW r2, NEW e2, NEW h2, NEW ps2
    PROVE  Having(Marked(Having(st, c, r, e, h, ps), t, a), c2, r2, e2, h2, ps2)
              = Marked(Having(st, c2, r2, e2, h2, ps2), t, a)
BY DEF Marked, Having, Save

\* The rest of a save that has other coins and plots.
LEMMA HavingRest ==
    ASSUME NEW st \in Save, NEW c, NEW r, NEW e, NEW h, NEW ps
    PROVE  LET x == Having(st, c, r, e, h, ps) IN
           /\ x.Achievements = st.Achievements /\ x.GiftPending = st.GiftPending
           /\ x.EventEndsAt = st.EventEndsAt /\ x.FlavorEnabled = st.FlavorEnabled
BY DEF Having, Save

\* Dates are numbers.
LEMMA DatesTyped ==
    ASSUME NEW x \in Save, NEW t \in Int
    PROVE  /\ Dates(x, t) \in [Ids(Content.Achievements) -> Int]
           /\ DOMAIN x.Achievements = Ids(Content.Achievements)
           /\ \A id \in Ids(Content.Achievements) :
                 /\ x.Achievements[id] \in Int
                 /\ Dates(x, t)[id] = IF x.Achievements[id] = NotEarned /\ id \in Met(x)
                                      THEN t ELSE x.Achievements[id]
BY SaveLevels DEF Dates

\* What is met depends on these counts.
LEMMA MetAgrees ==
    ASSUME NEW x \in Save, NEW y \in Save, y.Coins = x.Coins,
           y.LifetimeEarnings = x.LifetimeEarnings,
           y.LifetimeHarvests = x.LifetimeHarvests, Len(y.Plots) = Len(x.Plots),
           y.Rebirths = x.Rebirths
    PROVE  Met(y) = Met(x)
BY DEF Met

\* The achievements of a save that has been brought to a time.
LEMMA CheckIs ==
    ASSUME NEW x \in Save, NEW t \in Int
    PROVE  CheckAchievements([x EXCEPT !.UpdatedAt = t], t) = Marked(x, t, Dates(x, t))
<1> DEFINE y == [x EXCEPT !.UpdatedAt = t]
<1>1. /\ y \in Save /\ y.Achievements = x.Achievements /\ y.Coins = x.Coins
      /\ y.LifetimeEarnings = x.LifetimeEarnings
      /\ y.LifetimeHarvests = x.LifetimeHarvests /\ y.Plots = x.Plots
      /\ y.Rebirths = x.Rebirths
    BY DEF Save
<1>2. \A a : [y EXCEPT !.Achievements = a] = Marked(x, t, a)
    BY DEF Marked, Save
<1> HIDE DEF y
<1>3. Met(y) = Met(x)
    BY <1>1, MetAgrees
<1>4. CheckAchievements(y, t) = [y EXCEPT !.Achievements = Dates(x, t)]
    BY <1>1, <1>3 DEF CheckAchievements, Dates
<1> QED
    BY <1>2, <1>4 DEF y

\* The save that all plots leave.
LEMMA CaughtIs ==
    ASSUME NEW st, Sound(st), NEW to \in Int, Roomy(st, to)
    PROVE  LET x == Caught(st, to)
               n == Len(st.Plots)
           IN
           /\ x \in Save /\ Alike(st, x) /\ NoLuck(x) /\ n \in Nat
           /\ x.Coins = st.Coins + SumTo(n, Nets(st, to))
           /\ x.RunEarnings = st.RunEarnings + SumTo(n, Yields(st, to))
           /\ x.LifetimeEarnings = st.LifetimeEarnings + SumTo(n, Yields(st, to))
           /\ x.LifetimeHarvests = st.LifetimeHarvests + SumTo(n, Counts(st, to))
           /\ x.Plots = PlotsThen(st, n, to) /\ Len(x.Plots) = n
           /\ DOMAIN x.Plots = DOMAIN st.Plots
           /\ \A p \in DOMAIN st.Plots : x.Plots[p] = PlotThen(st, p, to)
           /\ x.Rebirths = st.Rebirths
           /\ x.Achievements = st.Achievements /\ x.GiftPending = st.GiftPending
           /\ x.EventEndsAt = st.EventEndsAt /\ x.FlavorEnabled = st.FlavorEnabled
<1> DEFINE n == Len(st.Plots)
           x == Caught(st, to)
<1>1. st \in Save /\ n \in Nat /\ DOMAIN st.Plots = 1 .. n
    BY TermsTyped
<1>2. PICK c, y, h : Totals(st, to, c, y, h)
    BY TotalsExist
<1> DEFINE z == Turn(st, to, c, y, h, n)
<1>3. /\ c[n] = SumTo(n, Nets(st, to)) /\ y[n] = SumTo(n, Yields(st, to))
      /\ h[n] = SumTo(n, Counts(st, to))
    BY <1>2 DEF Totals, IsTotal
<1>4. x = z
    BY <1>3 DEF Turn, Caught
<1>5. n \in 0 .. Len(st.Plots)
    BY <1>1
<1>6. /\ z \in Save /\ Alike(st, z) /\ NoLuck(z)
      /\ z.Coins = st.Coins + c[n] /\ z.RunEarnings = st.RunEarnings + y[n]
      /\ z.LifetimeEarnings = st.LifetimeEarnings + y[n]
      /\ z.LifetimeHarvests = st.LifetimeHarvests + h[n]
      /\ z.Plots = PlotsThen(st, n, to)
      /\ z.Rebirths = st.Rebirths
    <2> HIDE DEF n
    <2> QED
        BY <1>2, <1>5, TurnIs
<1>7. /\ x.Achievements = st.Achievements /\ x.GiftPending = st.GiftPending
      /\ x.EventEndsAt = st.EventEndsAt /\ x.FlavorEnabled = st.FlavorEnabled
    BY <1>1, HavingRest DEF Caught
<1> HIDE DEF z, x
<1>8. /\ Len(PlotsThen(st, n, to)) = n /\ DOMAIN PlotsThen(st, n, to) = DOMAIN st.Plots
    BY <1>1, PlotsThenIs
<1>9. \A p \in DOMAIN st.Plots : PlotsThen(st, n, to)[p] = PlotThen(st, p, to)
    BY <1>1 DEF PlotsThen
<1> HIDE DEF n
<1>10. /\ x \in Save /\ Alike(st, x) /\ NoLuck(x) /\ n \in Nat
       /\ x.Coins = st.Coins + SumTo(n, Nets(st, to))
       /\ x.RunEarnings = st.RunEarnings + SumTo(n, Yields(st, to))
       /\ x.LifetimeEarnings = st.LifetimeEarnings + SumTo(n, Yields(st, to))
       /\ x.LifetimeHarvests = st.LifetimeHarvests + SumTo(n, Counts(st, to))
       /\ x.Plots = PlotsThen(st, n, to) /\ Len(x.Plots) = n
       /\ DOMAIN x.Plots = DOMAIN st.Plots
       /\ \A p \in DOMAIN st.Plots : x.Plots[p] = PlotThen(st, p, to)
       /\ x.Rebirths = st.Rebirths
    BY <1>1, <1>3, <1>4, <1>6, <1>8, <1>9
<1> QED
    BY <1>7, <1>10 DEF x, n

-----------------------------------------------------------------------------
(* What is met, and what is left for the second part.                       *)

\* What is met stays met while counts only grow.
LEMMA MetGrows ==
    ASSUME NEW x \in Save, NEW y \in Save, x.Coins <= y.Coins,
           x.LifetimeEarnings <= y.LifetimeEarnings,
           x.LifetimeHarvests <= y.LifetimeHarvests, Len(x.Plots) = Len(y.Plots),
           x.Rebirths = y.Rebirths
    PROVE  Met(x) \subseteq Met(y)
<1> SUFFICES ASSUME NEW id \in Met(x) PROVE id \in Met(y)
    OBVIOUS
<1> DEFINE c == ById(Content.Achievements, id).Condition
<1>1. id \in Ids(Content.Achievements)
    BY DEF Met
<1>2. PICK i \in DOMAIN Content.Achievements :
          ById(Content.Achievements, id) = Content.Achievements[i]
    BY <1>1, ByIdIs
<1>3. c.Kind \in {"harvests", "earnings", "plots", "rebirths", "balance"}
    BY <1>2, EngineAssumption DEF Validate, ValidAchievements
<1>4. c.Value \in Int
    <2>1. Content.Achievements \in Seq(AchievementType)
        BY EngineAssumption DEF ContentType
    <2>2. Content.Achievements[i] \in AchievementType
        BY <2>1
    <2> QED
        BY <1>2, <2>2 DEF AchievementType
<1>5. /\ x.Coins \in Int /\ y.Coins \in Int /\ x.Rebirths \in Int
      /\ x.LifetimeEarnings \in Int /\ y.LifetimeEarnings \in Int
      /\ x.LifetimeHarvests \in Int /\ y.LifetimeHarvests \in Int
      /\ Len(x.Plots) \in Int
    BY SaveTyped DEF Amount
<1>6. CASE c.Kind = "harvests"
    <2>1. x.LifetimeHarvests >= c.Value
        BY <1>6 DEF Met
    <2>2. y.LifetimeHarvests >= c.Value
        BY <1>4, <1>5, <2>1
    <2> QED
        BY <1>1, <1>6, <2>2 DEF Met
<1>7. CASE c.Kind = "earnings"
    <2>1. x.LifetimeEarnings >= c.Value
        BY <1>7 DEF Met
    <2>2. y.LifetimeEarnings >= c.Value
        BY <1>4, <1>5, <2>1
    <2> QED
        BY <1>1, <1>7, <2>2 DEF Met
<1>8. CASE c.Kind = "plots"
    BY <1>1, <1>8 DEF Met
<1>9. CASE c.Kind = "rebirths"
    BY <1>1, <1>9 DEF Met
<1>10. CASE c.Kind = "balance"
    <2>1. x.Coins >= c.Value
        BY <1>10 DEF Met
    <2>2. y.Coins >= c.Value
        BY <1>4, <1>5, <2>1
    <2> QED
        BY <1>1, <1>10, <2>2 DEF Met
<1> QED
    BY <1>3, <1>6, <1>7, <1>8, <1>9, <1>10

\* A save that has caught up to a time can go on from there.
LEMMA RestIs ==
    ASSUME NEW st, Sound(st), Idle(st), NEW mid \in Int, Roomy(st, mid),
           Fits(Finished(st, mid))
    PROVE  LET x == Caught(st, mid)
               y == Finished(st, mid)
           IN
           /\ y = Marked(x, mid, Dates(x, mid)) /\ y \in Save
           /\ y.UpdatedAt = mid /\ y.Achievements = Dates(x, mid)
           /\ Alike(st, y)
           /\ y.Coins = x.Coins /\ y.RunEarnings = x.RunEarnings
           /\ y.LifetimeEarnings = x.LifetimeEarnings
           /\ y.LifetimeHarvests = x.LifetimeHarvests /\ y.Plots = x.Plots
           /\ y.Rebirths = x.Rebirths
           /\ Sound(y) /\ Idle(y)
<1> DEFINE x == Caught(st, mid)
           y == Finished(st, mid)
           a == Dates(x, mid)
<1>1. /\ x \in Save /\ Alike(st, x) /\ NoLuck(x) /\ x.GiftPending = st.GiftPending
      /\ x.EventEndsAt = st.EventEndsAt /\ x.FlavorEnabled = st.FlavorEnabled
      /\ DOMAIN x.Plots = DOMAIN st.Plots
      /\ \A p \in DOMAIN st.Plots : x.Plots[p] = PlotThen(st, p, mid)
    BY CaughtIs
<1>2. y = Marked(x, mid, a)
    BY <1>1, CheckIs DEF Finished
<1>3. a \in [Ids(Content.Achievements) -> Int]
    BY <1>1, DatesTyped
<1>4. Fits(y)
    OBVIOUS
<1> HIDE DEF x, a, y
<1>5. /\ y \in Save /\ y.UpdatedAt = mid /\ y.Achievements = a
      /\ y.Coins = x.Coins /\ y.RunEarnings = x.RunEarnings
      /\ y.LifetimeEarnings = x.LifetimeEarnings
      /\ y.LifetimeHarvests = x.LifetimeHarvests /\ y.Plots = x.Plots
      /\ y.Zones = x.Zones /\ y.Rebirths = x.Rebirths
      /\ y.EventEndsAt = x.EventEndsAt /\ y.GiftPending = x.GiftPending
      /\ y.FlavorEnabled = x.FlavorEnabled
      /\ Alike(x, y)
    BY <1>1, <1>2, <1>3, MarkedIs
<1>6. Alike(st, y)
    BY <1>1, <1>5 DEF Alike
<1>7. NoLuck(y)
    BY <1>1, <1>5 DEF NoLuck
<1>8. ASSUME NEW p \in DOMAIN y.Plots, Automated(y, p)
      PROVE  CropOf(y, p) \in SureCrops /\ Pays(y, p)
    <2>1. p \in DOMAIN st.Plots /\ y.Plots[p] = PlotThen(st, p, mid) /\ mid <= mid
        BY <1>1, <1>5
    <2> QED
        BY <1>5, <1>6, <1>8, <2>1, PlotInParts
<1>9. Sound(y)
    <2>1. ~Content.Critters.Kinds /\ AutoCycleCap >= 1
        BY DEF Sound
    <2> QED
        BY <1>4, <1>5, <1>7, <1>8, <2>1 DEF Sound
<1>10. Idle(y)
    <2>1. y.Upgrades = st.Upgrades /\ y.EventID = st.EventID
        BY <1>6 DEF Alike
    <2>2. y.EventEndsAt = st.EventEndsAt /\ y.GiftPending = st.GiftPending
        BY <1>1, <1>5
    <2>3. EventActive(st, End + 2) => EventActive(y, End + 2)
        BY <2>1, <2>2 DEF EventActive
    <2> QED
        BY <2>1, <2>2, <2>3 DEF Idle
<1> QED
    BY <1>2, <1>5, <1>6, <1>9, <1>10 DEF x, y, a

\* What its plots bring, before and after, is what they bring.
LEMMA SumsInParts ==
    ASSUME NEW st, Sound(st), NEW y, Sound(y), NEW mid \in Int, NEW to \in Int, mid <= to,
           Alike(st, y), y.Plots = PlotsThen(st, Len(st.Plots), mid)
    PROVE  LET n == Len(st.Plots) IN
           /\ Len(y.Plots) = n /\ n \in Nat
           /\ SumTo(n, Nets(st, to)) = SumTo(n, Nets(st, mid)) + SumTo(n, Nets(y, to))
           /\ SumTo(n, Yields(st, to)) = SumTo(n, Yields(st, mid)) + SumTo(n, Yields(y, to))
           /\ SumTo(n, Counts(st, to)) = SumTo(n, Counts(st, mid)) + SumTo(n, Counts(y, to))
           /\ PlotsThen(y, n, to) = PlotsThen(st, n, to)
<1> DEFINE n == Len(st.Plots)
<1>1. /\ n \in Nat /\ DOMAIN st.Plots = 1 .. n
      /\ Nets(st, to) \in [1 .. n -> Nat] /\ Yields(st, to) \in [1 .. n -> Nat]
      /\ Counts(st, to) \in [1 .. n -> Nat]
    BY TermsTyped
<1>2. /\ Nets(st, mid) \in [1 .. n -> Nat] /\ Yields(st, mid) \in [1 .. n -> Nat]
      /\ Counts(st, mid) \in [1 .. n -> Nat]
    BY TermsTyped
<1>3. /\ Len(PlotsThen(st, n, mid)) = n /\ DOMAIN PlotsThen(st, n, mid) = DOMAIN st.Plots
    BY <1>1, PlotsThenIs
<1>4. Len(y.Plots) = n /\ DOMAIN y.Plots = 1 .. n
    BY <1>1, <1>3
<1>5. /\ Nets(y, to) \in [1 .. n -> Nat] /\ Yields(y, to) \in [1 .. n -> Nat]
      /\ Counts(y, to) \in [1 .. n -> Nat]
    <2> HIDE DEF n
    <2> QED
        BY <1>4, TermsTyped
<1>6. \A p \in 1 .. n : y.Plots[p] = PlotThen(st, p, mid)
    <2> SUFFICES ASSUME NEW p \in 1 .. n PROVE y.Plots[p] = PlotThen(st, p, mid)
        OBVIOUS
    <2>1. p \in DOMAIN st.Plots /\ p <= n
        BY <1>1
    <2> QED
        BY <2>1 DEF PlotsThen
<1>7. y \in Save
    BY DEF Sound
<1> HIDE DEF n
<1>8. \A p \in 1 .. n :
          /\ Cycles(st, p, to) = Cycles(st, p, mid) + Cycles(y, p, to)
          /\ Net(st, p, to) = Net(st, p, mid) + Net(y, p, to)
          /\ Yield(st, p, to) = Yield(st, p, mid) + Yield(y, p, to)
          /\ PlotThen(y, p, to) = PlotThen(st, p, to)
    <2> SUFFICES ASSUME NEW p \in 1 .. n
                 PROVE  /\ Cycles(st, p, to) = Cycles(st, p, mid) + Cycles(y, p, to)
                        /\ Net(st, p, to) = Net(st, p, mid) + Net(y, p, to)
                        /\ Yield(st, p, to) = Yield(st, p, mid) + Yield(y, p, to)
                        /\ PlotThen(y, p, to) = PlotThen(st, p, to)
        OBVIOUS
    <2>1. p \in DOMAIN st.Plots /\ p \in DOMAIN y.Plots
        BY <1>1, <1>4
    <2>2. y.Plots[p] = PlotThen(st, p, mid)
        BY <1>6
    <2> QED
        BY <1>7, <2>1, <2>2, PlotInParts
<1>9. \A x, t : Len(x.Plots) = n =>
          /\ Nets(x, t) = [p \in 1 .. n |-> Net(x, p, t)]
          /\ Yields(x, t) = [p \in 1 .. n |-> Yield(x, p, t)]
          /\ Counts(x, t) = [p \in 1 .. n |-> Cycles(x, p, t)]
    BY DEF Nets, Yields, Counts
<1>10. \A p \in 1 .. n :
          /\ Nets(st, to)[p] = Nets(st, mid)[p] + Nets(y, to)[p]
          /\ Yields(st, to)[p] = Yields(st, mid)[p] + Yields(y, to)[p]
          /\ Counts(st, to)[p] = Counts(st, mid)[p] + Counts(y, to)[p]
    <2>1. Len(st.Plots) = n
        BY DEF n
    <2>2. /\ \A p \in 1 .. n : Nets(st, to)[p] = Net(st, p, to)
          /\ \A p \in 1 .. n : Nets(st, mid)[p] = Net(st, p, mid)
          /\ \A p \in 1 .. n : Nets(y, to)[p] = Net(y, p, to)
        BY <1>4, <1>9, <2>1
    <2>3. /\ \A p \in 1 .. n : Yields(st, to)[p] = Yield(st, p, to)
          /\ \A p \in 1 .. n : Yields(st, mid)[p] = Yield(st, p, mid)
          /\ \A p \in 1 .. n : Yields(y, to)[p] = Yield(y, p, to)
        BY <1>4, <1>9, <2>1
    <2>4. /\ \A p \in 1 .. n : Counts(st, to)[p] = Cycles(st, p, to)
          /\ \A p \in 1 .. n : Counts(st, mid)[p] = Cycles(st, p, mid)
          /\ \A p \in 1 .. n : Counts(y, to)[p] = Cycles(y, p, to)
        BY <1>4, <1>9, <2>1
    <2> QED
        BY <1>8, <2>2, <2>3, <2>4
<1> DEFINE nn == Nets(st, to)
           nm == Nets(st, mid)
           ny == Nets(y, to)
           yn == Yields(st, to)
           ym == Yields(st, mid)
           yy == Yields(y, to)
           cn == Counts(st, to)
           cm == Counts(st, mid)
           cy == Counts(y, to)
<1> HIDE DEF nn, nm, ny, yn, ym, yy, cn, cm, cy
<1>11. SumTo(n, Nets(st, to)) = SumTo(n, Nets(st, mid)) + SumTo(n, Nets(y, to))
    <2>1. /\ nn \in [1 .. n -> Nat] /\ nm \in [1 .. n -> Nat] /\ ny \in [1 .. n -> Nat]
          /\ \A p \in 1 .. n : nn[p] = nm[p] + ny[p]
        BY <1>1, <1>2, <1>5, <1>10 DEF nn, nm, ny
    <2>2. SumTo(n, nn) = SumTo(n, nm) + SumTo(n, ny)
        BY <1>1, <2>1, SumAdds
    <2> QED
        BY <2>2 DEF nn, nm, ny
<1>12. SumTo(n, Yields(st, to)) = SumTo(n, Yields(st, mid)) + SumTo(n, Yields(y, to))
    <2>1. /\ yn \in [1 .. n -> Nat] /\ ym \in [1 .. n -> Nat] /\ yy \in [1 .. n -> Nat]
          /\ \A p \in 1 .. n : yn[p] = ym[p] + yy[p]
        BY <1>1, <1>2, <1>5, <1>10 DEF yn, ym, yy
    <2>2. SumTo(n, yn) = SumTo(n, ym) + SumTo(n, yy)
        BY <1>1, <2>1, SumAdds
    <2> QED
        BY <2>2 DEF yn, ym, yy
<1>13. SumTo(n, Counts(st, to)) = SumTo(n, Counts(st, mid)) + SumTo(n, Counts(y, to))
    <2>1. /\ cn \in [1 .. n -> Nat] /\ cm \in [1 .. n -> Nat] /\ cy \in [1 .. n -> Nat]
          /\ \A p \in 1 .. n : cn[p] = cm[p] + cy[p]
        BY <1>1, <1>2, <1>5, <1>10 DEF cn, cm, cy
    <2>2. SumTo(n, cn) = SumTo(n, cm) + SumTo(n, cy)
        BY <1>1, <2>1, SumAdds
    <2> QED
        BY <2>2 DEF cn, cm, cy
<1>14. PlotsThen(y, n, to) = PlotsThen(st, n, to)
    <2>1. PlotsThen(y, n, to) = [r \in 1 .. n |-> PlotThen(y, r, to)]
        BY <1>1, <1>4 DEF PlotsThen
    <2>2. PlotsThen(st, n, to) = [r \in 1 .. n |-> PlotThen(st, r, to)]
        BY <1>1, <1>4 DEF PlotsThen
    <2> QED
        BY <1>8, <2>1, <2>2
<1> QED
    BY <1>1, <1>4, <1>11, <1>12, <1>13, <1>14 DEF n

-----------------------------------------------------------------------------
(* The save at the end of the second part.                                  *)

\* The second part starts with room for what is left, and ends with the coins
\* and the plots of the whole.
LEMMA RestCaught ==
    ASSUME NEW st, Sound(st), Idle(st), NEW mid \in Int, NEW to \in Int, mid <= to,
           Roomy(st, to), Fits(Finished(st, mid))
    PROVE  LET x == Caught(st, mid)
               y == Finished(st, mid)
           IN
           /\ Roomy(y, to) /\ Caught(y, to) = Marked(Caught(st, to), mid, Dates(x, mid))
           /\ Met(x) \subseteq Met(Caught(st, to))
<1> DEFINE n == Len(st.Plots)
           x == Caught(st, mid)
           y == Finished(st, mid)
           w == Caught(st, to)
           a == Dates(x, mid)
<1>1. Roomy(st, mid)
    BY RoomyEarlier
<1>2. /\ x \in Save /\ n \in Nat
      /\ x.Coins = st.Coins + SumTo(n, Nets(st, mid))
      /\ x.RunEarnings = st.RunEarnings + SumTo(n, Yields(st, mid))
      /\ x.LifetimeEarnings = st.LifetimeEarnings + SumTo(n, Yields(st, mid))
      /\ x.LifetimeHarvests = st.LifetimeHarvests + SumTo(n, Counts(st, mid))
      /\ x.Plots = PlotsThen(st, n, mid) /\ Len(x.Plots) = n
      /\ x.Rebirths = st.Rebirths
    BY <1>1, CaughtIs
<1>3. /\ w \in Save
      /\ w.Coins = st.Coins + SumTo(n, Nets(st, to))
      /\ w.LifetimeEarnings = st.LifetimeEarnings + SumTo(n, Yields(st, to))
      /\ w.LifetimeHarvests = st.LifetimeHarvests + SumTo(n, Counts(st, to))
      /\ Len(w.Plots) = n /\ w.Rebirths = st.Rebirths
    BY CaughtIs
<1>4. /\ y = Marked(x, mid, a) /\ y \in Save
      /\ Alike(st, y)
      /\ y.Coins = x.Coins /\ y.RunEarnings = x.RunEarnings
      /\ y.LifetimeEarnings = x.LifetimeEarnings
      /\ y.LifetimeHarvests = x.LifetimeHarvests /\ y.Plots = x.Plots
      /\ Sound(y)
    BY <1>1, RestIs
<1> DEFINE cn == SumTo(n, Nets(st, to))
           cm == SumTo(n, Nets(st, mid))
           cy == SumTo(n, Nets(y, to))
           en == SumTo(n, Yields(st, to))
           em == SumTo(n, Yields(st, mid))
           ey == SumTo(n, Yields(y, to))
           hn == SumTo(n, Counts(st, to))
           hm == SumTo(n, Counts(st, mid))
           hy == SumTo(n, Counts(y, to))
<1>5. /\ Len(y.Plots) = n /\ cn = cm + cy /\ en = em + ey /\ hn = hm + hy
      /\ PlotsThen(y, n, to) = PlotsThen(st, n, to)
    <2>1. y.Plots = PlotsThen(st, Len(st.Plots), mid)
        BY <1>2, <1>4
    <2> HIDE DEF y
    <2> QED
        BY <1>4, <2>1, SumsInParts
<1>6. /\ cm \in Nat /\ em \in Nat /\ hm \in Nat
    BY TermsTyped, SumType
<1>7. /\ cy \in Nat /\ ey \in Nat /\ hy \in Nat /\ cm <= em
    <2>1. Sound(y) /\ Len(y.Plots) = n
        BY <1>4, <1>5
    <2>2. /\ n \in Nat /\ Nets(y, to) \in [1 .. n -> Nat] /\ Yields(y, to) \in [1 .. n -> Nat]
          /\ Counts(y, to) \in [1 .. n -> Nat]
        <3> HIDE DEF y, n
        <3> QED
            BY <2>1, TermsTyped
    <2>3. /\ Nets(st, mid) \in [1 .. n -> Nat] /\ Yields(st, mid) \in [1 .. n -> Nat]
          /\ \A p \in 1 .. n : Nets(st, mid)[p] <= Yields(st, mid)[p]
        BY TermsTyped
    <2> HIDE DEF y, n
    <2> QED
        BY <2>2, <2>3, SumType, SumGrows
<1>8. /\ st.Coins \in Int /\ st.RunEarnings \in Int
      /\ st.LifetimeEarnings \in Int /\ st.LifetimeHarvests \in Int
    BY SaveTyped DEF Amount, Sound
<1>9. /\ st.Coins + en <= MaxInt /\ st.RunEarnings + en <= MaxInt
      /\ st.LifetimeEarnings + en <= MaxInt /\ st.LifetimeHarvests + hn <= MaxInt
    BY DEF Roomy, RoomFor
<1>20. Caught(y, to) = Having(y, y.Coins + cy, y.RunEarnings + ey, y.LifetimeEarnings + ey,
                              y.LifetimeHarvests + hy, PlotsThen(y, n, to))
    BY <1>5 DEF Caught
<1>21. w = Having(st, st.Coins + cn, st.RunEarnings + en, st.LifetimeEarnings + en,
                  st.LifetimeHarvests + hn, PlotsThen(st, n, to))
    BY DEF Caught
<1>22. x = Having(st, st.Coins + cm, st.RunEarnings + em, st.LifetimeEarnings + em,
                  st.LifetimeHarvests + hm, PlotsThen(st, n, mid))
    BY DEF Caught
<1>23. Roomy(y, to) <=> RoomFor(y, ey, hy)
    BY <1>5 DEF Roomy
<1>24. st \in Save
    BY DEF Sound
<1> HIDE DEF cn, cm, cy, en, em, ey, hn, hm, hy, x, y, w, a
<1>10. Roomy(y, to)
    <2>1. en \in Nat /\ hn \in Nat /\ em + ey <= en /\ hm + hy <= hn /\ em <= em /\ hm <= hm
        BY <1>5, <1>6, <1>7
    <2>2. cm + ey <= en
        BY <1>5, <1>6, <1>7
    <2>3. (st.Coins + cm) + ey <= MaxInt
        BY <1>6, <1>7, <1>8, <1>9, <2>1, PartsFit
    <2>4. (st.RunEarnings + em) + ey <= MaxInt
        BY <1>6, <1>7, <1>8, <1>9, <2>1, PartsFit
    <2>5. (st.LifetimeEarnings + em) + ey <= MaxInt
        BY <1>6, <1>7, <1>8, <1>9, <2>1, PartsFit
    <2>6. (st.LifetimeHarvests + hm) + hy <= MaxInt
        BY <1>6, <1>7, <1>8, <1>9, <2>1, PartsFit
    <2>7. /\ y.Coins = st.Coins + cm /\ y.RunEarnings = st.RunEarnings + em
          /\ y.LifetimeEarnings = st.LifetimeEarnings + em
          /\ y.LifetimeHarvests = st.LifetimeHarvests + hm
        BY <1>2, <1>4 DEF cm, em, hm
    <2>8. RoomFor(y, ey, hy)
        BY <2>3, <2>4, <2>5, <2>6, <2>7 DEF RoomFor
    <2> QED
        BY <1>23, <2>8
<1>11. /\ y.Coins + cy = st.Coins + cn /\ y.RunEarnings + ey = st.RunEarnings + en
       /\ y.LifetimeEarnings + ey = st.LifetimeEarnings + en
       /\ y.LifetimeHarvests + hy = st.LifetimeHarvests + hn
    <2>1. (st.Coins + cm) + cy = st.Coins + (cm + cy)
        BY <1>6, <1>7, <1>8, SumsAssociate
    <2>2. (st.RunEarnings + em) + ey = st.RunEarnings + (em + ey)
        BY <1>6, <1>7, <1>8, SumsAssociate
    <2>3. (st.LifetimeEarnings + em) + ey = st.LifetimeEarnings + (em + ey)
        BY <1>6, <1>7, <1>8, SumsAssociate
    <2>4. (st.LifetimeHarvests + hm) + hy = st.LifetimeHarvests + (hm + hy)
        BY <1>6, <1>7, <1>8, SumsAssociate
    <2>7. /\ y.Coins = st.Coins + cm /\ y.RunEarnings = st.RunEarnings + em
          /\ y.LifetimeEarnings = st.LifetimeEarnings + em
          /\ y.LifetimeHarvests = st.LifetimeHarvests + hm
        BY <1>2, <1>4 DEF cm, em, hm
    <2>8. cm + cy = cn /\ em + ey = en /\ hm + hy = hn
        BY <1>5
    <2> QED
        BY <2>1, <2>2, <2>3, <2>4, <2>7, <2>8
<1>12. Caught(y, to) = Marked(w, mid, a)
    <2>1. Caught(y, to) = Having(y, st.Coins + cn, st.RunEarnings + en,
                                 st.LifetimeEarnings + en, st.LifetimeHarvests + hn,
                                 PlotsThen(st, n, to))
        BY <1>5, <1>11, <1>20
    <2>2. y = Marked(Having(st, st.Coins + cm, st.RunEarnings + em, st.LifetimeEarnings + em,
                            st.LifetimeHarvests + hm, PlotsThen(st, n, mid)), mid, a)
        BY <1>4, <1>22
    <2> QED
        BY <1>21, <1>24, <2>1, <2>2, HavingMarked
<1>13. Met(x) \subseteq Met(w)
    <2>1. x.Coins = st.Coins + cm /\ w.Coins = st.Coins + cn
        BY <1>2, <1>3 DEF cm, cn
    <2>2. x.LifetimeEarnings = st.LifetimeEarnings + em
             /\ w.LifetimeEarnings = st.LifetimeEarnings + en
        BY <1>2, <1>3 DEF em, en
    <2>3. x.LifetimeHarvests = st.LifetimeHarvests + hm
             /\ w.LifetimeHarvests = st.LifetimeHarvests + hn
        BY <1>2, <1>3 DEF hm, hn
    <2>4. cm <= cn /\ em <= en /\ hm <= hn /\ cn \in Int /\ en \in Int /\ hn \in Int
        BY <1>5, <1>6, <1>7
    <2>5. /\ x.Coins <= w.Coins /\ x.LifetimeEarnings <= w.LifetimeEarnings
          /\ x.LifetimeHarvests <= w.LifetimeHarvests
        BY <1>6, <1>8, <2>1, <2>2, <2>3, <2>4
    <2>6. Len(x.Plots) = Len(w.Plots) /\ x.Rebirths = w.Rebirths
        BY <1>2, <1>3
    <2> QED
        BY <1>2, <1>3, <2>5, <2>6, MetGrows
<1> QED
    BY <1>10, <1>12, <1>13 DEF x, y, w, a

\* One save, but for the dates of its achievements.
LEMMA StandingIs ==
    ASSUME NEW x \in Save, NEW t \in Int, NEW a \in [Ids(Content.Achievements) -> Int]
    PROVE  Standing({Marked(x, t, a)})
              = {Marked(x, t, {id \in Ids(Content.Achievements) : a[id] # NotEarned})}
<1> DEFINE y == Marked(x, t, a)
           bare(z) == [z EXCEPT !.Achievements = {id \in DOMAIN @ : @[id] # NotEarned}]
<1>1. y.Achievements = a
    BY MarkedIs
<1>2. \A b : [y EXCEPT !.Achievements = b] = Marked(x, t, b)
    BY DEF Marked, Save
<1>3. Standing({y}) = {bare(y)}
    BY DEF Standing
<1> HIDE DEF y
<1>4. bare(y) = [y EXCEPT !.Achievements =
                    {id \in Ids(Content.Achievements) : a[id] # NotEarned}]
    BY <1>1
<1> QED
    BY <1>2, <1>3, <1>4 DEF y

\* In the end what has been achieved is the same, at once or in parts.
LEMMA PartsMeet ==
    ASSUME NEW st, Sound(st), Idle(st), NEW mid \in Nat, NEW to \in Nat, mid <= to,
           Roomy(st, to), Fits(Finished(st, mid))
    PROVE  Standing({Finished(Finished(st, mid), to)}) = Standing({Finished(st, to)})
<1> DEFINE x == Caught(st, mid)
           y == Finished(st, mid)
           w == Caught(st, to)
           a == Dates(x, mid)
           z == Caught(y, to)
           d == Dates(z, to)
           e == Dates(w, to)
           all == Ids(Content.Achievements)
<1>1. /\ Roomy(st, mid) /\ mid \in Int /\ to \in Int
    BY RoomyEarlier
<1>2. x \in Save /\ x.Achievements = st.Achievements
    BY <1>1, CaughtIs
<1>3. w \in Save /\ w.Achievements = st.Achievements
    BY <1>1, CaughtIs
<1>4. z = Marked(w, mid, a) /\ Met(x) \subseteq Met(w)
    BY <1>1, RestCaught
<1>5. /\ a \in [all -> Int]
      /\ \A id \in all : a[id] = IF x.Achievements[id] = NotEarned /\ id \in Met(x)
                                 THEN mid ELSE x.Achievements[id]
    BY <1>1, <1>2, DatesTyped
<1>6. /\ e \in [all -> Int]
      /\ \A id \in all : e[id] = IF w.Achievements[id] = NotEarned /\ id \in Met(w)
                                 THEN to ELSE w.Achievements[id]
    BY <1>1, <1>3, DatesTyped
<1>7. Finished(y, to) = CheckAchievements([z EXCEPT !.UpdatedAt = to], to)
          /\ Finished(st, to) = CheckAchievements([w EXCEPT !.UpdatedAt = to], to)
    BY DEF Finished
<1> HIDE DEF x, y, w, a, z, d, e, all
<1>8. /\ z \in Save /\ z.Achievements = a /\ z.Coins = w.Coins
      /\ z.LifetimeEarnings = w.LifetimeEarnings
      /\ z.LifetimeHarvests = w.LifetimeHarvests /\ z.Plots = w.Plots
      /\ z.Rebirths = w.Rebirths
    BY <1>1, <1>3, <1>4, <1>5, MarkedIs DEF all
<1>9. Met(z) = Met(w)
    BY <1>3, <1>8, MetAgrees
<1>10. /\ d \in [all -> Int]
       /\ \A id \in all : d[id] = IF a[id] = NotEarned /\ id \in Met(w)
                                  THEN to ELSE a[id]
    BY <1>1, <1>8, <1>9, DatesTyped DEF d, all
<1>11. Finished(y, to) = Marked(w, to, d)
    <2>1. Finished(y, to) = Marked(z, to, d)
        BY <1>1, <1>7, <1>8, CheckIs DEF d
    <2> QED
        BY <1>3, <1>4, <2>1, MarkedTwice
<1>12. Finished(st, to) = Marked(w, to, e)
    BY <1>1, <1>3, <1>7, CheckIs DEF e
<1>13. \A id \in all : d[id] # NotEarned <=> e[id] # NotEarned
    <2> SUFFICES ASSUME NEW id \in all PROVE d[id] # NotEarned <=> e[id] # NotEarned
        OBVIOUS
    <2>1. mid # NotEarned /\ to # NotEarned
        BY DEF NotEarned
    <2>2. x.Achievements[id] = w.Achievements[id]
        BY <1>2, <1>3
    <2>3. id \in Met(x) => id \in Met(w)
        BY <1>4
    <2> QED
        BY <1>5, <1>6, <1>10, <2>1, <2>2, <2>3
<1>14. {id \in all : d[id] # NotEarned} = {id \in all : e[id] # NotEarned}
    BY <1>13
<1>15. Standing({Marked(w, to, d)}) = Standing({Marked(w, to, e)})
    <2> DEFINE earned(b) == {id \in all : b[id] # NotEarned}
    <2>1. \A b \in [all -> Int] : Standing({Marked(w, to, b)}) = {Marked(w, to, earned(b))}
        BY <1>1, <1>3, StandingIs DEF all
    <2>2. earned(d) = earned(e)
        BY <1>14
    <2> HIDE DEF earned
    <2> QED
        BY <1>6, <1>10, <2>1, <2>2
<1> QED
    BY <1>11, <1>12, <1>15 DEF y

-----------------------------------------------------------------------------
(* At once or in parts.                                                     *)

\* Time that is spent in two parts.
LEMMA AdvanceInParts ==
    ASSUME NEW st, Good(st), Sound(st), Idle(st), Roomy(st, End + 2),
           DayLength <= st.UpdatedAt, NEW mid \in Int, NEW to \in Int,
           st.UpdatedAt <= mid, mid <= to, to <= End + 2
    PROVE  Standing(UNION {Advance(x, to) : x \in Advance(st, mid)})
              = Standing(Advance(st, to))
<1>1. /\ st \in Save /\ st.UpdatedAt \in Int /\ End + 2 \in Int
      /\ DayLength \in Nat \ {0} /\ mid \in Nat /\ to \in Nat
    <2>1. st \in Save /\ DayLength \in Nat \ {0} /\ MaxTime \in Nat
        BY EngineAssumption, FarmAssumption DEF Sound
    <2>2. st.UpdatedAt \in Int
        BY <2>1, SaveTyped
    <2> QED
        BY <2>1, <2>2 DEF End
<1>2. \A x, t : t - x.UpdatedAt <= 0 => Advance(x, t) = {x}
    BY DEF Advance
<1>3. CASE mid = st.UpdatedAt
    <2>1. mid - st.UpdatedAt <= 0
        BY <1>1, <1>3
    <2>2. Advance(st, mid) = {st}
        BY <1>2, <2>1
    <2>3. UNION {Advance(x, to) : x \in Advance(st, mid)} = Advance(st, to)
        BY <2>2
    <2> QED
        BY <2>3
<1>4. CASE mid # st.UpdatedAt
    <2> DEFINE y == Finished(st, mid)
    <2>1. /\ st.UpdatedAt < mid /\ st.UpdatedAt < to /\ mid <= End + 2
          /\ DayLength <= mid
        BY <1>1, <1>4
    <2>2. Roomy(st, mid) /\ Roomy(st, to)
        BY <1>1, <2>1, RoomyEarlier
    <2>3. Advance(st, mid) = {y}
        BY <2>1, <2>2, AdvanceIs
    <2>4. Advance(st, to) = {Finished(st, to)}
        BY <2>1, <2>2, AdvanceIs
    <2>5. Fits(y)
        <3>1. y \in Advance(st, mid)
            BY <2>3
        <3> HIDE DEF y
        <3>2. Good(y)
            BY <3>1, AdvanceKeeps
        <3> QED
            BY <3>2 DEF Good
    <2>6. y.UpdatedAt = mid /\ Sound(y) /\ Idle(y)
        BY <2>2, <2>5, RestIs
    <2>7. UNION {Advance(x, to) : x \in Advance(st, mid)} = Advance(y, to)
        BY <2>3
    <2>8. CASE mid = to
        <3>1. to - y.UpdatedAt <= 0
            BY <1>1, <2>6, <2>8
        <3>2. Advance(y, to) = {y}
            BY <1>2, <3>1
        <3> QED
            BY <2>4, <2>7, <2>8, <3>2
    <2>9. CASE mid # to
        <3>1. Roomy(y, to)
            BY <2>2, <2>5, RestCaught
        <3>2. y.UpdatedAt < to /\ DayLength <= y.UpdatedAt
            BY <1>1, <2>1, <2>6, <2>9
        <3>3. Advance(y, to) = {Finished(y, to)}
            <4> HIDE DEF y
            <4> QED
                BY <2>6, <3>1, <3>2, AdvanceIs
        <3>4. Standing({Finished(y, to)}) = Standing({Finished(st, to)})
            BY <1>1, <2>2, <2>5, PartsMeet
        <3> QED
            BY <2>4, <2>7, <3>3, <3>4
    <2> QED
        BY <2>8, <2>9
<1> QED
    BY <1>3, <1>4

\* A farm to which nothing comes by chance before the end of time: no luck with
\* a harvest, no visitor, parcel or event.  What is automated sells for the same
\* at every moon and pays for its seeds, also for the first of a batch, and no
\* count reaches its limit.
Calm ==
    /\ NoLuck(farm) /\ ~Content.Critters.Kinds /\ Idle(farm) /\ AutoCycleCap >= 1
    /\ \A p \in PlotIndex :
          Automated(farm, p) => Moonproof(CropOf(farm, p)) /\ Pays(farm, p)
    /\ Roomy(farm, End + 2)

\* Whatever the content, the plots and the time away: in a calm farm the coins,
\* the plots, the counts and the achievements are the same whether the time is
\* spent at once, as by a player who comes back, or in parts, as by one who
\* stays (advance.go:42-159).  The single cycles of a short time and the batch
\* of a long one, which is paid in one sum, must agree for this.
THEOREM CatchUpIsTheSame == Spec => [](Calm => CatchUpInParts)
<1>1. ASSUME TimeInv, Calm PROVE CatchUpInParts
    <2> SUFFICES ASSUME \A p \in PlotIndex :
                           farm.Plots[p].AutoHarvest /\ farm.Plots[p].Crop # Nothing =>
                              ById(Content.Crops, farm.Plots[p].Crop).Archetype # "risky",
                        NEW to \in farm.UpdatedAt .. End + 2,
                        NEW mid \in farm.UpdatedAt .. to
                 PROVE  Standing(UNION {Advance(st, to) : st \in Advance(farm, mid)})
                           = Standing(Advance(farm, to))
        BY DEF CatchUpInParts
    <2>1. Good(farm) /\ farm \in Save /\ Fits(farm)
        BY <1>1 DEF TimeInv, FarmInv, Good
    <2>2. farm.UpdatedAt \in Int /\ DayLength <= farm.UpdatedAt /\ End + 2 \in Int
        BY <1>1, <2>1, SaveTyped, EngineAssumption, FarmAssumption DEF TimeInv, End
    <2>3. ASSUME NEW p \in DOMAIN farm.Plots, Automated(farm, p)
          PROVE  CropOf(farm, p) \in SureCrops /\ Pays(farm, p)
        <3>1. Moonproof(CropOf(farm, p)) /\ Pays(farm, p)
                 /\ CropOf(farm, p).Archetype # "risky"
            BY <1>1, <2>3 DEF Calm, PlotIndex, Automated, CropOf
        <3>2. farm.Plots[p].Crop \in Ids(Content.Crops)
            <4>1. farm.Plots[p] \in PlotType
                BY <2>1, PlotTyped
            <4> QED
                BY <2>3, <4>1 DEF PlotType, Automated
        <3> QED
            BY <3>1, <3>2, SureCrop DEF CropOf
    <2>4. Sound(farm) /\ Idle(farm) /\ Roomy(farm, End + 2)
        BY <1>1, <2>1, <2>3 DEF Calm, Sound
    <2>5. to \in Int /\ mid \in Int /\ farm.UpdatedAt <= mid /\ mid <= to /\ to <= End + 2
        BY <2>2
    <2> QED
        BY <2>1, <2>2, <2>4, <2>5, AdvanceInParts
<1>2. Spec => []TimeInv
    BY SavesAreOfThePast
<1>3. TimeInv => (Calm => CatchUpInParts)
    BY <1>1
<1> QED
    BY <1>2, <1>3, PTL

=============================================================================
