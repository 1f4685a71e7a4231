----------------------------- MODULE FarmProofs -----------------------------
(***************************************************************************)
(* Proofs about the engine and the farm, for any content that Validate      *)
(* accepts (EngineAssumption).                                              *)
(*                                                                          *)
(* The inductive invariant is FarmInv: the save is well-typed, the wallet   *)
(* is backed by what was earned, what grows has been unlocked, the plots    *)
(* are accounted for, and the event in force had not ended when the save    *)
(* was last caught up (by UpdatedAt, which the clock of a server may well   *)
(* have left behind).  The steps are taken apart the way the engine takes   *)
(* them: StepKeeps says what a handler may do to a save; Tended is the      *)
(* part of it that the plots' own operations share, down to one cycle of    *)
(* an automated plot; Stage is where the loop over the plots stands within  *)
(* an Advance.  FarmSteps then says it of every action, and the theorems    *)
(* read what they state off FarmInv or off FarmStep.                        *)
(*                                                                          *)
(* TimeInv adds where the save is in time: no later than the clock, and no  *)
(* plot planted later than the save.  Then what is ripe bounds how often    *)
(* something can be harvested (TimeBearsOnce).                              *)
(*                                                                          *)
(* Five hypotheses are more than the assumptions, each at the theorem it is *)
(* for.  Four say what Validate does not ask of a content and the game's    *)
(* has: GiftsPay, StarterCrop, GrowthFits and SlowCrops.  The fifth,        *)
(* MaxLag = 0, is a server whose clock never lags behind another one's.     *)
(***************************************************************************)
EXTENDS Farm, Lemmas, FiniteSetTheorems, SequenceTheorems

-----------------------------------------------------------------------------
(* What a valid content gives.                                              *)

\* The lists of a content file that was accepted.
LEMMA ContentTyped ==
    /\ Content.Crops \in Seq(CropType)
    /\ Content.Upgrades \in Seq(LevelsType)
    /\ Content.Multipliers \in Seq(LevelsType)
    /\ Content.SeedUpgrades \in Seq(SeedUpgradeType)
    /\ Content.Zones \in Seq(ZoneType)
    /\ Content.Events \in Seq(EventType)
    /\ Content.Achievements \in Seq(AchievementType)
BY EngineAssumption DEF ContentType

\* Its records.
LEMMA PartsTyped ==
    /\ Content.Start \in [Coins : Int, Plots : Int]
    /\ Content.Land \in [BasePlotCost : Int, GrowthPct : Int, MaxPlots : Int]
    /\ Content.Prestige \in [Divisor : Int, MinEarnings : Int]
    /\ Content.EventsConfig \in [MinIntervalSec : Int, MaxIntervalSec : Int,
                                 MinDurationSec : Int, MaxDurationSec : Int]
    /\ Content.PlotAutomation \in
          [AutoHarvestBaseCost : Int, AutoHarvestGrowthPct : Int,
           AutoSowCost : Int, AutoSowMinEarnings : Int]
    /\ Content.Gifts \in
          [OnlineIntervalSec : Int, OfflineIntervalSec : Int,
           StarseedChancePct : Int, CoinRewardFloor : Int, CoinRewardCeiling : Int]
    /\ Content.GoldenHarvest \in [ChancePct : Int, Multiplier : Int]
    /\ Content.Moon \in [CycleDays : Int, FullMoonSellBonusPct : Int,
                         MoonberryCropID : STRING]
    /\ Content.Critters \in [Kinds : BOOLEAN, VisitChancePct : Int,
                             ShooRewardMin : Int, ShooRewardMax : Int]
    /\ Content.Flavor \in [Enabled : BOOLEAN, DiscoveryChancePct : Int,
                           DiscoveryMin : Int, DiscoveryMax : Int]
BY EngineAssumption DEF ContentType

\* What its validation says of a run: it starts with coins and plots that fit.
LEMMA RunTyped ==
    /\ Content.Start.Coins \in 0 .. MaxInt
    /\ Content.Start.Plots \in Nat /\ Content.Start.Plots >= 1
    /\ Content.Land.BasePlotCost \in Nat
    /\ Content.Land.GrowthPct \in Nat \ {0}
    /\ Content.Land.MaxPlots \in Nat
    /\ Content.Start.Plots <= Content.Land.MaxPlots
    /\ Content.Prestige.Divisor \in Nat \ {0}
<1>1. ValidRun(Content)
    BY EngineAssumption DEF Validate
<1> QED
    BY <1>1, PartsTyped, EngineAssumption, MoneyAssumption DEF ValidRun

\* The prices of automation are no debts.
LEMMA AutomationTyped ==
    /\ Content.PlotAutomation.AutoHarvestBaseCost \in Nat
    /\ Content.PlotAutomation.AutoHarvestGrowthPct \in Nat \ {0}
    /\ Content.PlotAutomation.AutoSowCost \in Nat
<1>1. ValidExtras(Content)
    BY EngineAssumption DEF Validate
<1> QED
    BY <1>1, PartsTyped DEF ValidExtras

\* A lookup of an id that is there returns the item with this id.
LEMMA ByIdIs ==
    ASSUME NEW items, NEW id \in Ids(items)
    PROVE  \E i \in DOMAIN items :
              ById(items, id) = items[i] /\ items[i].ID = id
BY DEF Ids, ById

\* What is known of a crop.
GoodCrop ==
    {crop \in CropType :
        /\ crop.ID \in Ids(Content.Crops) /\ crop.ID # Nothing
        /\ crop.SeedCost >= 0 /\ crop.SellValue >= 0 /\ crop.GrowSeconds >= 1
        /\ crop.FailChancePct \in 0 .. 99
        /\ ValidUnlock(crop.Unlock, Ids(Content.Zones))}

\* A listed crop grows in time, costs no debt and fails less than always.
LEMMA CropTyped ==
    ASSUME NEW i \in DOMAIN Content.Crops
    PROVE  Content.Crops[i] \in GoodCrop
<1>1. Content.Crops[i] \in CropType
    BY ContentTyped
<1>2. Content.Crops[i].ID \in Ids(Content.Crops)
    BY DEF Ids
<1>3. ValidCrops(Content)
    BY EngineAssumption DEF Validate
<1> QED
    BY <1>1, <1>2, <1>3 DEF CropType, ValidCrops, Distinct, GoodCrop

\* So does the crop of an id.
LEMMA CropById ==
    ASSUME NEW id \in Ids(Content.Crops)
    PROVE  ById(Content.Crops, id) \in GoodCrop /\ ById(Content.Crops, id).ID = id
<1>1. PICK i \in DOMAIN Content.Crops :
          ById(Content.Crops, id) = Content.Crops[i] /\ Content.Crops[i].ID = id
    BY ByIdIs
<1> QED
    BY <1>1, CropTyped

\* The fields of such a crop.
LEMMA GoodCropTyped ==
    ASSUME NEW crop \in GoodCrop
    PROVE  /\ crop.ID \in Ids(Content.Crops) /\ crop.ID # Nothing
           /\ crop.SeedCost \in Nat /\ crop.SellValue \in Nat
           /\ crop.GrowSeconds \in Nat \ {0}
           /\ crop.FailChancePct \in 0 .. 99
           /\ crop.Unlock \in UnlockType
           /\ ValidUnlock(crop.Unlock, Ids(Content.Zones))
BY DEF GoodCrop, CropType

\* The event of an id takes nothing away.
LEMMA EventById ==
    ASSUME NEW id \in Ids(Content.Events)
    PROVE  LET ev == ById(Content.Events, id) IN
           /\ ev \in EventType
           /\ ev.ID = id /\ id # Nothing
           /\ ev.EffectValue \in Nat
<1>1. PICK i \in DOMAIN Content.Events :
          ById(Content.Events, id) = Content.Events[i] /\ Content.Events[i].ID = id
    BY ByIdIs
<1>2. Content.Events[i] \in EventType
    BY ContentTyped
<1>3. ValidEvents(Content)
    BY EngineAssumption DEF Validate
<1> QED
    BY <1>1, <1>2, <1>3 DEF EventType, ValidEvents, Distinct

\* The zone of an id has a price and some plots.
LEMMA ZoneById ==
    ASSUME NEW id \in Ids(Content.Zones)
    PROVE  LET zone == ById(Content.Zones, id) IN
           /\ zone \in ZoneType
           /\ zone.ID = id
           /\ zone.Cost \in Nat
           /\ zone.ExtraPlots \in Nat
<1>1. PICK i \in DOMAIN Content.Zones :
          ById(Content.Zones, id) = Content.Zones[i] /\ Content.Zones[i].ID = id
    BY ByIdIs
<1>2. Content.Zones[i] \in ZoneType
    BY ContentTyped
<1>3. ValidZones(Content)
    BY EngineAssumption DEF Validate
<1> QED
    BY <1>1, <1>2, <1>3 DEF ZoneType, ValidZones

\* Upgrades and multipliers.
LEMMA LevelsTyped ==
    ASSUME NEW items \in {Content.Upgrades, Content.Multipliers},
           NEW i \in DOMAIN items
    PROVE  /\ items \in Seq(LevelsType)
           /\ items[i] \in LevelsType
           /\ items[i].ID \in Ids(items)
           /\ items[i].EffectValue \in Nat
           /\ items[i].Cost \in Nat
           /\ items[i].CostGrowthPct \in Nat \ {0}
           /\ items[i].MaxLevel \in Nat
<1>1. items \in Seq(LevelsType)
    BY ContentTyped
<1>2. items[i] \in LevelsType
    BY <1>1
<1>3. items[i].ID \in Ids(items)
    BY DEF Ids
<1>4. ValidUpgrades(Content)
    BY EngineAssumption DEF Validate
<1>5. items[i].EffectValue >= 1 /\ items[i].Cost >= 1
         /\ items[i].CostGrowthPct >= 100 /\ items[i].MaxLevel >= 1
    BY <1>4 DEF ValidUpgrades, ValidLevels
<1> QED
    BY <1>1, <1>2, <1>3, <1>5 DEF LevelsType

\* The seed upgrade of an id belongs to a crop.
LEMMA SeedUpgradeById ==
    ASSUME NEW id \in Ids(Content.SeedUpgrades)
    PROVE  LET su == ById(Content.SeedUpgrades, id) IN
           /\ su.CropID \in Ids(Content.Crops)
           /\ su.Cost \in Nat
           /\ su.CostGrowthPct \in Nat \ {0}
           /\ su.MaxLevel \in Nat
<1>1. PICK i \in DOMAIN Content.SeedUpgrades :
          /\ ById(Content.SeedUpgrades, id) = Content.SeedUpgrades[i]
          /\ Content.SeedUpgrades[i].ID = id
    BY ByIdIs
<1>2. Content.SeedUpgrades[i] \in SeedUpgradeType
    BY ContentTyped
<1>3. ValidSeedUpgrades(Content)
    BY EngineAssumption DEF Validate
<1> QED
    BY <1>1, <1>2, <1>3 DEF SeedUpgradeType, ValidSeedUpgrades

-----------------------------------------------------------------------------
(* The type of a save.                                                      *)

\* A plot, and a save, of this content.
PlotType ==
    [Crop : Ids(Content.Crops) \cup {Nothing}, PlantedAt : Int,
     AutoHarvest : BOOLEAN, AutoSow : BOOLEAN, Critter : BOOLEAN]

\* The name of a farm: none yet, or one.
Names == {Nothing, "a name"}

Save ==
    [UpdatedAt : Int,
     Coins : Amount,
     Plots : Seq(PlotType),
     PurchasedPlots : Nat,
     Zones : SUBSET Ids(Content.Zones),
     RunEarnings : Amount,
     Multipliers : [Ids(Content.Multipliers) -> Nat],
     SeedUpgrades : [Ids(Content.Crops) -> Nat],
     GiftPending : BOOLEAN,
     EventID : Ids(Content.Events) \cup {Nothing},
     EventEndsAt : Int,
     PrestigeCurrency : Amount,
     Upgrades : [Ids(Content.Upgrades) -> Nat],
     Achievements : [Ids(Content.Achievements) -> Int],
     Rebirths : Nat,
     LifetimeEarnings : Amount,
     LifetimeHarvests : Amount,
     FlavorEnabled : BOOLEAN,
     FarmName : Names,
     MoonEpoch : Int]

\* A saturating sum is an amount again, and no loss.
LEMMA SatAddType ==
    ASSUME NEW x \in Amount, NEW y \in Nat
    PROVE  SatAdd(x, y) \in Amount /\ x <= SatAdd(x, y)
BY MoneyAssumption DEF SatAdd, Amount

-----------------------------------------------------------------------------
(* Sums.                                                                    *)

\* The step of SumTo.
Adds(w) == [q \in Nat \X Nat |-> q[2] + w[q[1]]]

\* A sum of terms is the last value of the loop that adds them up.
LEMMA SumLoop ==
    ASSUME NEW n \in Nat, NEW w \in [1 .. n -> Nat]
    PROVE  \E sum : /\ sum[0] = 0
                    /\ \A i \in 1 .. n : sum[i] = sum[i - 1] + w[i]
                    /\ \A i \in 0 .. n : sum[i] \in Nat
                    /\ SumTo(n, w) = sum[n]
<1>1. PICK g : IsRun(g, 0, Adds(w), Nat, n)
    <2>1. Keeps(Adds(w), Nat, n)
        BY DEF Keeps, Adds
    <2> QED
        BY <2>1, LoopExists
<1>2. /\ g \in [0 .. n -> Nat] /\ g[0] = 0
      /\ \A i \in 1 .. n : g[i] = g[i - 1] + w[i]
    <2>1. /\ g \in [0 .. n -> Nat] /\ g[0] = 0
          /\ \A i \in 1 .. n : g[i] = Adds(w)[<<i, g[i - 1]>>]
        BY <1>1 DEF IsRun
    <2>2. \A i \in 1 .. n : g[i - 1] \in Nat
        BY <2>1
    <2>3. \A i \in 1 .. n, x \in Nat : Adds(w)[<<i, x>>] = x + w[i]
        BY DEF Adds
    <2> QED
        BY <2>1, <2>2, <2>3
<1> DEFINE W(f) == [i \in 0 .. n |-> IF i = 0 THEN 0 ELSE f[i - 1] + w[i]]
           sum == CHOOSE f : f = W(f)
<1>3. g = W(g)
    <2>1. ASSUME NEW i \in 0 .. n PROVE g[i] = W(g)[i]
        BY <1>2
    <2>2. g = [i \in 0 .. n |-> g[i]] /\ W(g) = [i \in 0 .. n |-> W(g)[i]]
        BY <1>2
    <2> HIDE DEF W
    <2> QED
        BY <2>1, <2>2
<1>4. sum = W(sum)
    BY <1>3
<1>5. SumTo(n, w) = sum[n]
    BY DEF SumTo
<1> HIDE DEF sum
<1>6. sum[0] = 0 /\ \A i \in 1 .. n : sum[i] = sum[i - 1] + w[i]
    <2>1. ASSUME NEW i \in 0 .. n PROVE sum[i] = W(sum)[i]
        BY <1>4
    <2> QED
        BY <2>1
<1>7. \A i \in 0 .. n : sum[i] \in Nat
    <2>1. \A i \in 1 .. n : sum[i - 1] \in Nat => sum[i] \in Nat
        BY <1>6
    <2>2. sum[0] \in Nat
        BY <1>6
    <2> QED
        BY <2>1, <2>2, LoopStays
<1> QED
    BY <1>5, <1>6, <1>7

\* So it is no debt.
LEMMA SumType ==
    ASSUME NEW n \in Nat, NEW w \in [1 .. n -> Nat]
    PROVE  SumTo(n, w) \in Nat
BY SumLoop

\* A sum grows with its terms.
LEMMA SumGrows ==
    ASSUME NEW n \in Nat, NEW w \in [1 .. n -> Nat], NEW v \in [1 .. n -> Nat],
           \A i \in 1 .. n : w[i] <= v[i]
    PROVE  SumTo(n, w) <= SumTo(n, v)
<1>1. PICK f : /\ f[0] = 0 /\ \A i \in 1 .. n : f[i] = f[i - 1] + w[i]
               /\ \A i \in 0 .. n : f[i] \in Nat
               /\ SumTo(n, w) = f[n]
    BY SumLoop
<1>2. PICK g : /\ g[0] = 0 /\ \A i \in 1 .. n : g[i] = g[i - 1] + v[i]
               /\ \A i \in 0 .. n : g[i] \in Nat
               /\ SumTo(n, v) = g[n]
    BY SumLoop
<1> DEFINE D == {k \in Nat : k <= n => f[k] <= g[k]}
<1>3. 0 \in D
    BY <1>1, <1>2
<1>4. ASSUME NEW k \in Nat, k \in D PROVE k + 1 \in D
    <2> SUFFICES ASSUME k + 1 <= n PROVE f[k + 1] <= g[k + 1]
        OBVIOUS
    <2>1. k + 1 \in 1 .. n /\ (k + 1) - 1 = k /\ k \in 0 .. n /\ f[k] <= g[k]
        BY <1>4
    <2>2. f[k + 1] = f[k] + w[k + 1] /\ g[k + 1] = g[k] + v[k + 1]
        BY <2>1, <1>1, <1>2
    <2>3. /\ f[k] \in Nat /\ g[k] \in Nat
          /\ w[k + 1] \in Nat /\ v[k + 1] \in Nat /\ w[k + 1] <= v[k + 1]
        BY <2>1, <1>1, <1>2
    <2> QED
        BY <2>1, <2>2, <2>3
<1> HIDE DEF D
<1>5. Nat \subseteq D
    BY <1>3, <1>4, Induction
<1> QED
    BY <1>1, <1>2, <1>5 DEF D

\* What one term adds, the sum adds.
LEMMA SumChanges ==
    ASSUME NEW n \in Nat, NEW w \in [1 .. n -> Nat], NEW v \in [1 .. n -> Nat],
           NEW j \in 1 .. n, \A i \in (1 .. n) \ {j} : w[i] = v[i]
    PROVE  SumTo(n, v) + w[j] = SumTo(n, w) + v[j]
<1>1. PICK f : /\ f[0] = 0 /\ \A i \in 1 .. n : f[i] = f[i - 1] + w[i]
               /\ \A i \in 0 .. n : f[i] \in Nat
               /\ SumTo(n, w) = f[n]
    BY SumLoop
<1>2. PICK g : /\ g[0] = 0 /\ \A i \in 1 .. n : g[i] = g[i - 1] + v[i]
               /\ \A i \in 0 .. n : g[i] \in Nat
               /\ SumTo(n, v) = g[n]
    BY SumLoop
<1> DEFINE D == {k \in Nat : k <= n =>
                    IF k < j THEN f[k] = g[k] ELSE g[k] + w[j] = f[k] + v[j]}
<1>3. 0 \in D
    BY <1>1, <1>2
<1>4. ASSUME NEW k \in Nat, k \in D PROVE k + 1 \in D
    <2> SUFFICES ASSUME k + 1 <= n
                 PROVE  IF k + 1 < j THEN f[k + 1] = g[k + 1]
                        ELSE g[k + 1] + w[j] = f[k + 1] + v[j]
        OBVIOUS
    <2>1. /\ k + 1 \in 1 .. n /\ (k + 1) - 1 = k /\ k \in 0 .. n
          /\ IF k < j THEN f[k] = g[k] ELSE g[k] + w[j] = f[k] + v[j]
        BY <1>4
    <2>2. f[k + 1] = f[k] + w[k + 1] /\ g[k + 1] = g[k] + v[k + 1]
        BY <2>1, <1>1, <1>2
    <2>3. /\ f[k] \in Nat /\ g[k] \in Nat /\ w[j] \in Nat /\ v[j] \in Nat
          /\ w[k + 1] \in Nat /\ v[k + 1] \in Nat
        BY <2>1, <1>1, <1>2
    <2>4. k + 1 # j => w[k + 1] = v[k + 1]
        BY <2>1
    <2> HIDE DEF D
    <2>5. CASE k + 1 < j
        BY <2>1, <2>2, <2>3, <2>4, <2>5
    <2>6. CASE k + 1 = j
        BY <2>1, <2>2, <2>3, <2>6
    <2>7. CASE k + 1 > j
        <3>1. g[k] + w[j] = f[k] + v[j] /\ w[k + 1] = v[k + 1]
            BY <2>1, <2>4, <2>7
        <3>2. (g[k] + w[k + 1]) + w[j] = (f[k] + w[k + 1]) + v[j]
            <4> DEFINE x == g[k]
                       z == f[k]
                       d == w[k + 1]
                       y == w[j]
                       u == v[j]
            <4>1. /\ x \in Nat /\ y \in Nat /\ z \in Nat /\ u \in Nat /\ d \in Nat
                  /\ x + y = z + u
                BY <3>1, <2>3
            <4> HIDE DEF x, y, z, u, d
            <4>2. (x + d) + y = (z + d) + u
                BY <4>1
            <4> QED
                BY <4>2 DEF x, y, z, u, d
        <3>3. g[k + 1] + w[j] = f[k + 1] + v[j]
            BY <3>1, <3>2, <2>2
        <3> QED
            BY <3>3, <2>7
    <2> QED
        BY <2>1, <2>5, <2>6, <2>7
<1> HIDE DEF D
<1>5. Nat \subseteq D
    BY <1>3, <1>4, Induction
<1> QED
    BY <1>1, <1>2, <1>5 DEF D

\* Terms that are all 0 add up to 0.
LEMMA SumOfNothing ==
    ASSUME NEW n \in Nat, NEW w \in [1 .. n -> Nat], \A i \in 1 .. n : w[i] = 0
    PROVE  SumTo(n, w) = 0
<1>1. PICK f : /\ f[0] = 0 /\ \A i \in 1 .. n : f[i] = f[i - 1] + w[i]
               /\ SumTo(n, w) = f[n]
    BY SumLoop
<1> DEFINE S == {0}
<1>2. \A i \in 1 .. n : f[i - 1] \in S => f[i] \in S
    BY <1>1
<1>3. f[0] \in S
    BY <1>1
<1> HIDE DEF S
<1>4. \A i \in 0 .. n : f[i] \in S
    BY <1>2, <1>3, LoopStays
<1> QED
    BY <1>1, <1>4 DEF S

-----------------------------------------------------------------------------
(* Derived values.                                                          *)

\* What levels of items add up to.
LEMMA OwnedType ==
    ASSUME NEW items \in {Content.Upgrades, Content.Multipliers},
           NEW levels \in [Ids(items) -> Nat], NEW effect
    PROVE  Owned(items, levels, effect) \in Nat
<1> DEFINE w == [i \in 1 .. Len(items) |->
                    IF items[i].Effect = effect
                    THEN items[i].EffectValue * levels[items[i].ID] ELSE 0]
<1>1. Len(items) \in Nat /\ DOMAIN items = 1 .. Len(items)
    BY ContentTyped
<1>2. ASSUME NEW i \in 1 .. Len(items)
      PROVE  items[i].EffectValue * levels[items[i].ID] \in Nat
    <2>1. items[i].EffectValue \in Nat /\ levels[items[i].ID] \in Nat
        BY <1>1, LevelsTyped
    <2> QED
        BY <2>1, Monotone, Z3
<1>3. w \in [1 .. Len(items) -> Nat]
    BY <1>2
<1> HIDE DEF w
<1>4. SumTo(Len(items), w) \in Nat
    BY <1>1, <1>3, SumType
<1> QED
    BY <1>4 DEF Owned, w

\* And it grows with them.
LEMMA OwnedGrows ==
    ASSUME NEW items \in {Content.Upgrades, Content.Multipliers},
           NEW levels \in [Ids(items) -> Nat], NEW more \in [Ids(items) -> Nat],
           \A id \in Ids(items) : levels[id] <= more[id], NEW effect
    PROVE  Owned(items, levels, effect) <= Owned(items, more, effect)
<1> DEFINE w(own) == [i \in 1 .. Len(items) |->
                    IF items[i].Effect = effect
                    THEN items[i].EffectValue * own[items[i].ID] ELSE 0]
<1>1. Len(items) \in Nat /\ DOMAIN items = 1 .. Len(items)
    BY ContentTyped
<1>2. ASSUME NEW i \in 1 .. Len(items)
      PROVE  /\ items[i].EffectValue * levels[items[i].ID] \in Nat
             /\ items[i].EffectValue * more[items[i].ID] \in Nat
             /\ items[i].EffectValue * levels[items[i].ID]
                   <= items[i].EffectValue * more[items[i].ID]
    <2>1. /\ items[i].EffectValue \in Nat /\ levels[items[i].ID] \in Nat
          /\ more[items[i].ID] \in Nat
          /\ levels[items[i].ID] <= more[items[i].ID]
        BY <1>1, LevelsTyped
    <2>2. \A x, y, z \in Nat : y <= z => x * y \in Nat /\ x * z \in Nat /\ x * y <= x * z
        BY Z3
    <2> QED
        BY <2>1, <2>2
<1>3. w(levels) \in [1 .. Len(items) -> Nat] /\ w(more) \in [1 .. Len(items) -> Nat]
    BY <1>2
<1>4. \A i \in 1 .. Len(items) : w(levels)[i] <= w(more)[i]
    BY <1>2
<1> HIDE DEF w
<1>5. SumTo(Len(items), w(levels)) <= SumTo(Len(items), w(more))
    BY <1>1, <1>3, <1>4, SumGrows
<1> QED
    BY <1>5 DEF Owned, w

\* The fields of a save.
LEMMA SaveTyped ==
    ASSUME NEW st \in Save
    PROVE  /\ st.Coins \in Amount /\ st.RunEarnings \in Amount
           /\ st.LifetimeEarnings \in Amount /\ st.LifetimeHarvests \in Amount
           /\ st.PrestigeCurrency \in Amount
           /\ st.Plots \in Seq(PlotType) /\ st.Rebirths \in Nat
           /\ st.PurchasedPlots \in Nat
           /\ st.EventID \in Ids(Content.Events) \cup {Nothing}
           /\ st.UpdatedAt \in Int /\ st.EventEndsAt \in Int /\ st.MoonEpoch \in Int
           /\ st.Zones \subseteq Ids(Content.Zones)
BY DEF Save

\* Its levels.
LEMMA SaveLevels ==
    ASSUME NEW st \in Save
    PROVE  /\ st.Upgrades \in [Ids(Content.Upgrades) -> Nat]
           /\ st.Multipliers \in [Ids(Content.Multipliers) -> Nat]
           /\ st.SeedUpgrades \in [Ids(Content.Crops) -> Nat]
           /\ st.Achievements \in [Ids(Content.Achievements) -> Int]
BY DEF Save

\* An event in force only helps.
LEMMA EventEffectType ==
    ASSUME NEW st \in Save, NEW effect
    PROVE  EventEffect(st, effect) \in Nat
<1>1. CASE st.EventID = Nothing
    BY <1>1 DEF EventEffect
<1>2. CASE st.EventID # Nothing
    <2>1. st.EventID \in Ids(Content.Events)
        BY <1>2, SaveTyped
    <2> QED
        BY <2>1, <1>2, EventById DEF EventEffect, ValueFor
<1> QED
    BY <1>1, <1>2

\* A chance in percent.
LEMMA PercentType ==
    ASSUME NEW n \in Nat
    PROVE  Percent(n) \in 0 .. 99
BY DEF Percent

\* A seed has a price.
LEMMA SeedCostType ==
    ASSUME NEW st \in Save, NEW crop \in GoodCrop
    PROVE  SeedCost(st, crop) \in Nat
<1> DEFINE sale == EventEffect(st, "seed_discount_pct")
           share == Quo(Wrap(crop.SeedCost * (100 - Percent(sale))), 100)
           cost == IF sale = 0 THEN crop.SeedCost ELSE share
<1>1. sale \in Nat
    BY EventEffectType
<1>2. SeedCost(st, crop) = Max({0, cost})
    BY <1>1 DEF SeedCost
<1> HIDE DEF sale
<1>3. 100 - Percent(sale) \in Nat /\ crop.SeedCost \in Nat
    BY <1>1, PercentType, GoodCropTyped
<1>4. crop.SeedCost * (100 - Percent(sale)) \in Nat
    BY <1>3, Monotone
<1>5. share \in Int
    BY <1>4, UncheckedType
<1> HIDE DEF share
<1>6. cost \in Int
    BY <1>3, <1>5
<1> HIDE DEF cost
<1>7. Max({0, cost}) = IF 0 >= cost THEN 0 ELSE cost
    BY <1>6, MaxOfTwo
<1> QED
    BY <1>2, <1>6, <1>7

\* A crop takes at least a second to grow, whatever quickens it.
LEMMA GrowType ==
    ASSUME NEW st \in Save, NEW crop \in GoodCrop
    PROVE  GrowSeconds(st, crop) \in Nat \ {0}
<1> DEFINE reduction == Owned(Content.Upgrades, st.Upgrades, "grow_speed_pct")
                   + Owned(Content.Multipliers, st.Multipliers, "grow_speed_pct")
                   + EventEffect(st, "grow_speed_pct")
           rest == 100 - Percent(reduction)
           n == Quo(Wrap(crop.GrowSeconds * rest), 100)
<1>1. reduction \in Nat
    <2>1. /\ Owned(Content.Upgrades, st.Upgrades, "grow_speed_pct") \in Nat
          /\ Owned(Content.Multipliers, st.Multipliers, "grow_speed_pct") \in Nat
        BY OwnedType, SaveLevels
    <2> QED
        BY <2>1, EventEffectType
<1> HIDE DEF reduction
<1>2. rest \in Nat
    BY <1>1, PercentType
<1> HIDE DEF rest
<1>3. crop.GrowSeconds * rest \in Nat
    BY <1>2, GoodCropTyped, Monotone
<1>4. n \in Int
    BY <1>3, UncheckedType
<1>5. GrowSeconds(st, crop) = IF n < 1 THEN 1 ELSE n
    BY DEF GrowSeconds, reduction, rest
<1> HIDE DEF n
<1> QED
    BY <1>4, <1>5

\* What a failed crop still brings.
LEMMA SalvageType ==
    ASSUME NEW st \in Save, NEW crop \in GoodCrop
    PROVE  Salvage(st, crop) \in Int
<1> DEFINE level == st.SeedUpgrades[crop.ID]
           num == SalvageNumerator(level)
<1>1. level \in Nat
    BY SaveLevels, GoodCropTyped
<1> HIDE DEF level
<1>2. num \in {1, 2, 4, 6}
    BY <1>1 DEF SalvageNumerator
<1> HIDE DEF num
<1>3. crop.SellValue * num \in Nat
    BY <1>2, GoodCropTyped, Monotone
<1>4. Quo(Wrap(crop.SellValue * num), 8) \in Int
    BY <1>3, UncheckedType
<1> QED
    BY <1>4 DEF Salvage, num, level

\* What a crop sells for.
LEMMA SellType ==
    ASSUME NEW st \in Save, NEW base \in Int, NEW id
    PROVE  SellMultiplied(st, base, id) \in Int
<1> DEFINE moon == IF IsFullMoon(st, id) THEN Content.Moon.FullMoonSellBonusPct ELSE 0
           bonus == Owned(Content.Upgrades, st.Upgrades, "sell_bonus_pct")
                  + Owned(Content.Multipliers, st.Multipliers, "sell_bonus_pct")
                  + EventEffect(st, "sell_bonus_pct") + moon
<1>1. moon \in Int
    BY PartsTyped
<1> HIDE DEF moon
<1>2. bonus \in Int
    <2>1. /\ Owned(Content.Upgrades, st.Upgrades, "sell_bonus_pct") \in Nat
          /\ Owned(Content.Multipliers, st.Multipliers, "sell_bonus_pct") \in Nat
        BY OwnedType, SaveLevels
    <2> QED
        BY <1>1, <2>1, EventEffectType
<1>3. SellMultiplied(st, base, id) = WithBonus(base, bonus)
    BY DEF SellMultiplied, moon
<1> HIDE DEF bonus
<1>4. base * (100 + bonus) \in Int
    BY <1>2, Z3
<1>5. Quo(Wrap(base * (100 + bonus)), 100) \in Int
    BY <1>4, UncheckedType
<1> QED
    BY <1>3, <1>5, MoneyAssumption DEF WithBonus

\* What a crop brings on average.
LEMMA ExpectedType ==
    ASSUME NEW st \in Save, NEW crop \in GoodCrop
    PROVE  ExpectedPayout(st, crop) \in Int
<1> DEFINE fail == crop.FailChancePct
           salvage == Salvage(st, crop)
           mean == Quo(Wrap(fail * salvage + (100 - fail) * crop.SellValue), 100)
<1>1. /\ fail \in Nat /\ 100 - fail \in Nat
      /\ crop.SellValue \in Nat /\ salvage \in Int
    BY GoodCropTyped, SalvageType
<1> HIDE DEF salvage, fail
<1>2. fail * salvage \in Int /\ (100 - fail) * crop.SellValue \in Int
    BY <1>1, Z3
<1>3. fail * salvage + (100 - fail) * crop.SellValue \in Int
    BY <1>2
<1>4. mean \in Int
    BY <1>3, UncheckedType
<1> HIDE DEF mean
<1>5. \A base \in Int : SellMultiplied(st, base, crop.ID) \in Int
    BY SellType
<1> QED
    BY <1>1, <1>4, <1>5 DEF ExpectedPayout, mean, salvage, fail

\* What a golden crop brings.
LEMMA GoldenType ==
    ASSUME NEW payout \in Int, NEW mult \in Int
    PROVE  Golden(payout, mult) \in Int
<1> DEFINE m == IF mult < 10 THEN 10 ELSE mult
           w == Wrap(payout * m)
<1>1. m \in Int
    OBVIOUS
<1> HIDE DEF m
<1>2. payout * m \in Int
    BY <1>1, Z3
<1>3. w \in Int
    BY <1>2, MoneyAssumption, Z3 DEF Wrap
<1> HIDE DEF w
<1>4. Quo(w, 10) \in Int
    BY <1>3 DEF Quo
<1> QED
    BY <1>4 DEF Golden, w, m

\* A roll between two bounds.
LEMMA RollRangeType ==
    ASSUME NEW lo \in Int, NEW hi \in Int
    PROVE  RollRange(lo, hi) \subseteq Int
BY DEF RollRange

\* What a harvest brings, and what is found with it.
LEMMA HarvestPayoutType ==
    ASSUME NEW st \in Save, NEW crop \in GoodCrop, NEW h \in HarvestPayout(st, crop)
    PROVE  h[1] \in Int /\ h[2] \in Int
<1> DEFINE plain == {SellMultiplied(st, IF failed THEN Salvage(st, crop)
                                               ELSE crop.SellValue, crop.ID) :
                     failed \in Roll(crop.FailChancePct, 100)}
        chance == IF Content.Flavor.Enabled /\ st.FlavorEnabled
                  THEN Content.Flavor.DiscoveryChancePct ELSE 0
        golden == Content.GoldenHarvest
        coins == {IF lucky THEN Golden(payout, golden.Multiplier) ELSE payout :
                     payout \in plain, lucky \in Roll(golden.ChancePct, 100)}
        found == UNION {IF hit THEN RollRange(Content.Flavor.DiscoveryMin,
                                          Content.Flavor.DiscoveryMax)
                           ELSE {0} : hit \in Roll(chance, 100)}
<1>1. h \in coins \X found
    BY DEF HarvestPayout
<1>2. plain \subseteq Int
    <2>1. \A base \in Int : SellMultiplied(st, base, crop.ID) \in Int
        BY SellType
    <2> QED
        BY <2>1, GoodCropTyped, SalvageType
<1> HIDE DEF plain
<1>3. coins \subseteq Int
    <2>1. golden.Multiplier \in Int
        BY PartsTyped
    <2>2. \A payout \in Int : Golden(payout, golden.Multiplier) \in Int
        BY <2>1, GoldenType
    <2> QED
        BY <2>2, <1>2
<1>4. found \subseteq Int
    <2>1. Content.Flavor.DiscoveryMin \in Int /\ Content.Flavor.DiscoveryMax \in Int
        BY PartsTyped
    <2> QED
        BY <2>1, RollRangeType
<1> HIDE DEF coins, found
<1> QED
    BY <1>1, <1>3, <1>4

-----------------------------------------------------------------------------
(* What a step changes of a save, and what it keeps.                        *)

\* x is st but for these fields.
But(fields, st, x) == \A f \in DOMAIN st \ fields : x[f] = st[f]

\* The parts of WalletBacked, PlotsFitFarm, LandAccounted and EventInForce that
\* are no types, of any save.
Backed(st) ==
    /\ st.Coins <= SatAdd(StartCoins(st), st.RunEarnings)
    /\ st.RunEarnings <= st.LifetimeEarnings

\* What grows on a plot has been unlocked; a critter sits on an empty one.
PlotFits(st, plot) ==
    /\ plot.Crop # Nothing => Unlocked(st, ById(Content.Crops, plot.Crop).Unlock)
    /\ plot.Critter => plot.Crop = Nothing

Fits(st) == \A p \in DOMAIN st.Plots : PlotFits(st, st.Plots[p])

\* The plots are the ones that were given, bought and part of a zone.
LandFits(st) ==
    /\ Len(st.Plots) = Content.Start.Plots + st.PurchasedPlots + ZonePlots(st.Zones)
    /\ Content.Start.Plots + st.PurchasedPlots <= Content.Land.MaxPlots

\* An event has not ended yet.
InForceAt(st, now) == st.EventID # Nothing => now < st.EventEndsAt

\* A run starts with an amount of coins.
LEMMA StartCoinsType ==
    ASSUME NEW st \in Save
    PROVE  StartCoins(st) \in Amount
<1>1. Owned(Content.Upgrades, st.Upgrades, "start_coins") \in Nat
    BY OwnedType, SaveLevels
<1> QED
    BY <1>1, RunTyped, SatAddType DEF StartCoins, Amount

\* What has been unlocked stays so while nothing is taken away.
LEMMA UnlockedStays ==
    ASSUME NEW st \in Save, NEW x \in Save, NEW u \in UnlockType,
           ValidUnlock(u, Ids(Content.Zones)), Unlocked(st, u),
           st.Zones \subseteq x.Zones, st.Rebirths <= x.Rebirths,
           st.LifetimeEarnings <= x.LifetimeEarnings
    PROVE  Unlocked(x, u)
<1>1. /\ st.Rebirths \in Int /\ x.Rebirths \in Int
      /\ st.LifetimeEarnings \in Int /\ x.LifetimeEarnings \in Int
      /\ u.Value \in Int
    BY SaveTyped DEF Amount, UnlockType
<1>2. CASE u.Kind \in {Nothing, "start"}
    BY <1>2 DEF Unlocked, Nothing
<1>3. CASE u.Kind = "earnings"
    BY <1>1, <1>3 DEF Unlocked, Nothing
<1>4. CASE u.Kind = "prestige"
    BY <1>1, <1>4 DEF Unlocked, Nothing
<1>5. CASE u.Kind = "zone"
    BY <1>5 DEF Unlocked, Nothing
<1> QED
    BY <1>2, <1>3, <1>4, <1>5 DEF ValidUnlock

\* So plots go on fitting the farm, as long as each crop was there before.
LEMMA FitsStays ==
    ASSUME NEW st \in Save, NEW x \in Save, Fits(st),
           st.Zones \subseteq x.Zones, st.Rebirths <= x.Rebirths,
           st.LifetimeEarnings <= x.LifetimeEarnings,
           \A r \in DOMAIN x.Plots :
              x.Plots[r].Crop = Nothing
              \/ /\ r \in DOMAIN st.Plots
                 /\ x.Plots[r].Crop = st.Plots[r].Crop
                 /\ x.Plots[r].Critter => st.Plots[r].Critter
    PROVE  Fits(x)
<1> SUFFICES ASSUME NEW r \in DOMAIN x.Plots, x.Plots[r].Crop # Nothing
             PROVE  PlotFits(x, x.Plots[r])
    BY DEF Fits, PlotFits
<1> DEFINE id == x.Plots[r].Crop
<1>1. /\ r \in DOMAIN st.Plots /\ id = st.Plots[r].Crop
      /\ x.Plots[r].Critter => st.Plots[r].Critter
    OBVIOUS
<1>2. Unlocked(st, ById(Content.Crops, id).Unlock) /\ ~x.Plots[r].Critter
    BY <1>1 DEF Fits, PlotFits
<1>3. id \in Ids(Content.Crops)
    <2>1. x.Plots[r] \in PlotType
        BY SaveTyped
    <2> QED
        BY <2>1 DEF PlotType
<1> HIDE DEF id
<1>4. Unlocked(x, ById(Content.Crops, id).Unlock)
    BY <1>2, <1>3, CropById, GoodCropTyped, UnlockedStays
<1> QED
    BY <1>2, <1>4 DEF PlotFits, id

\* A plot that is written leaves the other plots, and fields, as they were.
LEMMA PlotSet ==
    ASSUME NEW st \in Save, NEW p \in DOMAIN st.Plots, NEW q \in PlotType,
           NEW x, x = [st EXCEPT !.Plots[p] = q]
    PROVE  /\ x \in Save /\ But({"Plots"}, st, x)
           /\ Len(x.Plots) = Len(st.Plots) /\ DOMAIN x.Plots = DOMAIN st.Plots
           /\ \A r \in DOMAIN st.Plots :
                 x.Plots[r] = IF r = p THEN q ELSE st.Plots[r]
<1> DEFINE plots == [st.Plots EXCEPT ![p] = q]
<1>1. /\ plots \in Seq(PlotType) /\ Len(plots) = Len(st.Plots)
      /\ DOMAIN plots = DOMAIN st.Plots
      /\ \A r \in DOMAIN st.Plots : plots[r] = IF r = p THEN q ELSE st.Plots[r]
    BY ExceptSeq, SaveTyped
<1> HIDE DEF plots
<1>2. x = [st EXCEPT !.Plots = plots]
    BY DEF plots
<1>3. x.Plots = plots /\ But({"Plots"}, st, x)
    BY <1>2 DEF But, Save
<1>4. x \in Save
    BY <1>1, <1>2 DEF Save
<1> QED
    BY <1>1, <1>3, <1>4

\* A plot of a save.
LEMMA PlotTyped ==
    ASSUME NEW st \in Save, NEW p \in DOMAIN st.Plots
    PROVE  st.Plots[p] \in PlotType
BY SaveTyped

-----------------------------------------------------------------------------
(* Money that comes and goes.                                               *)

\* The fields that a credit changes.
Earned == {"Coins", "RunEarnings", "LifetimeEarnings"}

\* Saturating sums keep the order of their terms: the wallet stays below what was
\* earned when both get the same.
LEMMA SatAddKeepsOrder ==
    ASSUME NEW a \in Nat, NEW x \in Amount, NEW y \in Amount, NEW z \in Amount
    PROVE  /\ x <= y => SatAdd(x, a) <= SatAdd(y, a)
           /\ x <= SatAdd(z, y) => SatAdd(x, a) <= SatAdd(z, SatAdd(y, a))
           /\ x <= y => SatAdd(z, x) <= SatAdd(z, y) /\ SatAdd(x, z) <= SatAdd(y, z)
BY MoneyAssumption DEF SatAdd, Amount

\* The start of a run depends on the Starseed upgrades alone.
LEMMA StartCoinsStay ==
    ASSUME NEW st, NEW x, x.Upgrades = st.Upgrades
    PROVE  StartCoins(x) = StartCoins(st)
BY DEF StartCoins

\* A credit is earned as it is paid in, so it leaves the wallet backed.
LEMMA CreditIs ==
    ASSUME NEW st \in Save, NEW amount \in Int, NEW x, x = Credit(st, amount)
    PROVE  /\ x \in Save /\ But(Earned, st, x)
           /\ st.LifetimeEarnings <= x.LifetimeEarnings
           /\ Backed(st) => Backed(x)
           /\ amount >= 1 => x.LifetimeEarnings >= SatAdd(st.LifetimeEarnings, 1)
<1>1. CASE amount <= 0
    BY <1>1, SaveTyped DEF Credit, But, Amount
<1>2. CASE amount >= 1
    <2> DEFINE c == SatAdd(st.Coins, amount)
               r == SatAdd(st.RunEarnings, amount)
               e == SatAdd(st.LifetimeEarnings, amount)
    <2>1. /\ amount \in Nat /\ st.Coins \in Amount /\ st.RunEarnings \in Amount
          /\ st.LifetimeEarnings \in Amount
        BY <1>2, SaveTyped
    <2>2. c \in Amount /\ r \in Amount /\ e \in Amount /\ st.LifetimeEarnings <= e
        BY <2>1, SatAddType
    <2>3. x = [st EXCEPT !.Coins = c, !.RunEarnings = r, !.LifetimeEarnings = e]
        BY <1>2 DEF Credit
    <2>4. e >= SatAdd(st.LifetimeEarnings, 1)
        BY <1>2, <2>1, MoneyAssumption DEF SatAdd, Amount
    <2>5. /\ x.Coins = c /\ x.RunEarnings = r /\ x.LifetimeEarnings = e
          /\ x.Upgrades = st.Upgrades /\ But(Earned, st, x)
        <3> HIDE DEF c, r, e
        <3> QED
            BY <2>3 DEF Save, But, Earned
    <2>6. x \in Save
        <3> HIDE DEF c, r, e
        <3> QED
            BY <2>2, <2>3 DEF Save
    <2>7. Backed(st) => Backed(x)
        <3>1. StartCoins(x) = StartCoins(st) /\ StartCoins(st) \in Amount
            BY <2>5, StartCoinsStay, StartCoinsType
        <3> HIDE DEF c, r, e
        <3> QED
            BY <2>1, <2>5, <3>1, SatAddKeepsOrder DEF Backed, c, r, e
    <2> QED
        BY <2>2, <2>4, <2>5, <2>6, <2>7
<1> QED
    BY <1>1, <1>2

\* Paying what the wallet has.
LEMMA PaidIs ==
    ASSUME NEW st \in Save, NEW cost \in Nat, cost <= st.Coins,
           NEW x, x = [st EXCEPT !.Coins = @ - cost]
    PROVE  /\ x \in Save /\ But({"Coins"}, st, x) /\ x.Coins = st.Coins - cost
           /\ Backed(st) => Backed(x)
<1> DEFINE c == st.Coins - cost
<1>1. c \in Amount /\ c <= st.Coins /\ st.Coins \in Amount
    BY SaveTyped, MoneyAssumption DEF Amount
<1>2. x = [st EXCEPT !.Coins = c]
    OBVIOUS
<1> HIDE DEF c
<1>3. x \in Save /\ But({"Coins"}, st, x) /\ x.Coins = c
    BY <1>1, <1>2 DEF Save, But
<1>4. x.RunEarnings = st.RunEarnings /\ x.LifetimeEarnings = st.LifetimeEarnings
         /\ x.Upgrades = st.Upgrades
    BY <1>2 DEF Save
<1>5. Backed(st) => Backed(x)
    <2>1. StartCoins(x) = StartCoins(st) /\ StartCoins(st) \in Amount
        BY <1>4, StartCoinsStay, StartCoinsType
    <2>2. SatAdd(StartCoins(st), st.RunEarnings) \in Int
        BY <2>1, SaveTyped, SatAddType DEF Amount
    <2> QED
        BY <1>1, <1>3, <1>4, <2>1, <2>2 DEF Backed, Amount
<1> QED
    BY <1>3, <1>5 DEF c

\* A count of harvests touches no money.
LEMMA HarvestsIs ==
    ASSUME NEW st \in Save, NEW n \in Nat, NEW x, x = Harvests(st, n)
    PROVE  /\ x \in Save /\ But({"LifetimeHarvests"}, st, x)
           /\ st.LifetimeHarvests <= x.LifetimeHarvests
           /\ Backed(st) => Backed(x)
<1> DEFINE h == SatAdd(st.LifetimeHarvests, n)
<1>1. h \in Amount /\ st.LifetimeHarvests <= h
    BY SaveTyped, SatAddType
<1>2. x = [st EXCEPT !.LifetimeHarvests = h]
    BY DEF Harvests
<1> HIDE DEF h
<1>3. x \in Save /\ But({"LifetimeHarvests"}, st, x) /\ x.LifetimeHarvests = h
    BY <1>1, <1>2 DEF Save, But
<1>4. /\ x.RunEarnings = st.RunEarnings /\ x.LifetimeEarnings = st.LifetimeEarnings
      /\ x.Upgrades = st.Upgrades /\ x.Coins = st.Coins
    BY <1>2 DEF Save
<1> QED
    BY <1>1, <1>3, <1>4, StartCoinsStay DEF Backed

-----------------------------------------------------------------------------
(* What tending the plots of a farm does to a save.                         *)

\* The fields that tending plots changes.
Tending == {"Coins", "Plots", "RunEarnings", "LifetimeEarnings", "LifetimeHarvests"}

\* x is st after some tending: nothing else has changed, no plot was lost, and what
\* held of the wallet and of the plots still does.
Tended(st, x) ==
    /\ x \in Save /\ But(Tending, st, x)
    /\ Len(x.Plots) = Len(st.Plots)
    /\ st.LifetimeEarnings <= x.LifetimeEarnings
    /\ st.LifetimeHarvests <= x.LifetimeHarvests
    /\ Backed(st) => Backed(x)
    /\ Fits(st) => Fits(x)

\* Tending changes nothing else.
LEMMA TendedKeeps ==
    ASSUME NEW st \in Save, NEW x, Tended(st, x)
    PROVE  /\ x.UpdatedAt = st.UpdatedAt /\ x.PurchasedPlots = st.PurchasedPlots
           /\ x.Zones = st.Zones /\ x.Multipliers = st.Multipliers
           /\ x.SeedUpgrades = st.SeedUpgrades /\ x.GiftPending = st.GiftPending
           /\ x.EventID = st.EventID /\ x.EventEndsAt = st.EventEndsAt
           /\ x.PrestigeCurrency = st.PrestigeCurrency /\ x.Upgrades = st.Upgrades
           /\ x.Achievements = st.Achievements /\ x.Rebirths = st.Rebirths
           /\ x \in Save /\ DOMAIN x.Plots = DOMAIN st.Plots
<1>1. DOMAIN x.Plots = 1 .. Len(x.Plots) /\ DOMAIN st.Plots = 1 .. Len(st.Plots)
    BY SaveTyped DEF Tended
<1> QED
    BY <1>1 DEF Tended, Tending, But, Save

\* Tending twice is tending.
LEMMA TendedTwice ==
    ASSUME NEW st \in Save, NEW y, Tended(st, y), NEW x, Tended(y, x)
    PROVE  Tended(st, x)
<1>1. But(Tending, st, x)
    BY DEF Tended, But, Tending, Save
<1>2. /\ st.LifetimeEarnings \in Int /\ y.LifetimeEarnings \in Int
      /\ x.LifetimeEarnings \in Int /\ st.LifetimeHarvests \in Int
      /\ y.LifetimeHarvests \in Int /\ x.LifetimeHarvests \in Int
    BY SaveTyped DEF Tended, Amount
<1> QED
    BY <1>1, <1>2 DEF Tended

\* Whatever only changes what is earned.
LEMMA MoneyTends ==
    ASSUME NEW st \in Save, NEW x \in Save,
           But(Tending \ {"Plots"}, st, x),
           st.LifetimeEarnings <= x.LifetimeEarnings,
           st.LifetimeHarvests <= x.LifetimeHarvests,
           Backed(st) => Backed(x)
    PROVE  Tended(st, x)
<1>1. But(Tending, st, x)
    BY DEF But
<1>2. x.Plots = st.Plots /\ x.Zones = st.Zones /\ x.Rebirths = st.Rebirths
    BY DEF But, Tending, Save
<1>3. x.Rebirths \in Int
    BY SaveTyped
<1>4. Fits(st) => Fits(x)
    BY <1>2, <1>3, FitsStays
<1> QED
    BY <1>1, <1>2, <1>4 DEF Tended

\* Doing nothing is tending.
LEMMA TendedReflexive ==
    ASSUME NEW st \in Save
    PROVE  Tended(st, st)
BY SaveTyped DEF Tended, But, Amount

\* A credit is tending.
LEMMA CreditTends ==
    ASSUME NEW st \in Save, NEW amount \in Int
    PROVE  Tended(st, Credit(st, amount))
<1> DEFINE x == Credit(st, amount)
<1>1. /\ x \in Save /\ But(Earned, st, x)
      /\ st.LifetimeEarnings <= x.LifetimeEarnings
      /\ Backed(st) => Backed(x)
    BY CreditIs
<1> HIDE DEF x
<1>2. But(Tending \ {"Plots"}, st, x) /\ x.LifetimeHarvests = st.LifetimeHarvests
    BY <1>1 DEF But, Earned, Tending, Save
<1>3. st.LifetimeEarnings <= x.LifetimeEarnings
         /\ st.LifetimeHarvests <= x.LifetimeHarvests
    BY <1>1, <1>2, SaveTyped DEF Amount
<1>4. Tended(st, x)
    BY <1>1, <1>2, <1>3, MoneyTends
<1> QED
    BY <1>4 DEF x

\* A payment of what the wallet holds is tending.
LEMMA PaymentTends ==
    ASSUME NEW st \in Save, NEW cost \in Nat, cost <= st.Coins
    PROVE  Tended(st, [st EXCEPT !.Coins = @ - cost])
<1> DEFINE x == [st EXCEPT !.Coins = @ - cost]
<1>1. x \in Save /\ But({"Coins"}, st, x) /\ (Backed(st) => Backed(x))
    BY PaidIs
<1> HIDE DEF x
<1>2. /\ But(Tending \ {"Plots"}, st, x) /\ x.LifetimeHarvests = st.LifetimeHarvests
      /\ x.LifetimeEarnings = st.LifetimeEarnings
    BY <1>1 DEF But, Tending, Save
<1>3. st.LifetimeEarnings <= x.LifetimeEarnings
         /\ st.LifetimeHarvests <= x.LifetimeHarvests
    BY <1>1, <1>2, SaveTyped DEF Amount
<1>4. Tended(st, x)
    BY <1>1, <1>2, <1>3, MoneyTends
<1> QED
    BY <1>4 DEF x

\* A count of harvests is tending.
LEMMA HarvestsTends ==
    ASSUME NEW st \in Save, NEW n \in Nat
    PROVE  Tended(st, Harvests(st, n))
<1> DEFINE x == Harvests(st, n)
<1>1. /\ x \in Save /\ But({"LifetimeHarvests"}, st, x)
      /\ st.LifetimeHarvests <= x.LifetimeHarvests
      /\ Backed(st) => Backed(x)
    BY HarvestsIs
<1> HIDE DEF x
<1>2. But(Tending \ {"Plots"}, st, x) /\ x.LifetimeEarnings = st.LifetimeEarnings
    BY <1>1 DEF But, Tending, Save
<1>3. st.LifetimeEarnings <= x.LifetimeEarnings
         /\ st.LifetimeHarvests <= x.LifetimeHarvests
    BY <1>1, <1>2, SaveTyped DEF Amount
<1>4. Tended(st, x)
    BY <1>1, <1>2, <1>3, MoneyTends
<1> QED
    BY <1>4 DEF x

\* A plot that is emptied, or keeps its crop and gets no visitor.
LEMMA PlotTends ==
    ASSUME NEW st \in Save, NEW p \in DOMAIN st.Plots, NEW q \in PlotType,
           \/ q.Crop = Nothing
           \/ /\ q.Crop = st.Plots[p].Crop
              /\ q.Critter => st.Plots[p].Critter
    PROVE  Tended(st, [st EXCEPT !.Plots[p] = q])
<1> DEFINE x == [st EXCEPT !.Plots[p] = q]
<1>1. /\ x \in Save /\ But({"Plots"}, st, x)
      /\ Len(x.Plots) = Len(st.Plots) /\ DOMAIN x.Plots = DOMAIN st.Plots
      /\ \A r \in DOMAIN st.Plots : x.Plots[r] = IF r = p THEN q ELSE st.Plots[r]
    BY PlotSet
<1> HIDE DEF x
<1>2. /\ But(Tending, st, x)
      /\ x.Coins = st.Coins /\ x.RunEarnings = st.RunEarnings
      /\ x.LifetimeEarnings = st.LifetimeEarnings /\ x.Upgrades = st.Upgrades
      /\ x.LifetimeHarvests = st.LifetimeHarvests /\ x.Zones = st.Zones
      /\ x.Rebirths = st.Rebirths
    BY <1>1 DEF But, Tending, Save
<1>3. Backed(st) => Backed(x)
    BY <1>2, StartCoinsStay DEF Backed
<1>4. /\ st.LifetimeEarnings \in Int /\ st.LifetimeHarvests \in Int
      /\ st.Rebirths \in Int
    BY SaveTyped DEF Amount
<1>5. \A r \in DOMAIN x.Plots :
              x.Plots[r].Crop = Nothing
              \/ /\ r \in DOMAIN st.Plots
                 /\ x.Plots[r].Crop = st.Plots[r].Crop
                 /\ x.Plots[r].Critter => st.Plots[r].Critter
    BY <1>1
<1>6. Fits(st) => Fits(x)
    BY <1>1, <1>2, <1>4, <1>5, FitsStays
<1>7. Tended(st, x)
    BY <1>1, <1>2, <1>3, <1>4, <1>6 DEF Tended
<1> QED
    BY <1>7 DEF x

\* Sowing a plot again is tending.
LEMMA SownTends ==
    ASSUME NEW st \in Save, NEW p \in DOMAIN st.Plots, NEW m \in Int
    PROVE  Tended(st, Sown(st, p, m))
<1> DEFINE q == [st.Plots[p] EXCEPT !.PlantedAt = m]
<1>1. q \in PlotType /\ q.Crop = st.Plots[p].Crop /\ q.Critter = st.Plots[p].Critter
    BY PlotTyped DEF PlotType
<1>2. Sown(st, p, m) = [st EXCEPT !.Plots[p] = q]
    BY DEF Sown
<1> HIDE DEF q
<1> QED
    BY <1>1, <1>2, PlotTends

\* Clearing a plot is tending.
LEMMA ClearedTends ==
    ASSUME NEW st \in Save, NEW p \in DOMAIN st.Plots
    PROVE  Tended(st, Cleared(st, p))
<1> DEFINE q == [st.Plots[p] EXCEPT !.Crop = Nothing, !.PlantedAt = 0]
<1>1. q \in PlotType /\ q.Crop = Nothing
    <2> DEFINE r == [st.Plots[p] EXCEPT !.Crop = Nothing]
    <2>1. r \in PlotType /\ r.Crop = Nothing
        BY PlotTyped DEF PlotType
    <2>2. q = [r EXCEPT !.PlantedAt = 0]
        OBVIOUS
    <2> HIDE DEF r, q
    <2> QED
        BY <2>1, <2>2 DEF PlotType
<1>2. Cleared(st, p) = [st EXCEPT !.Plots[p] = q]
    BY DEF Cleared
<1> HIDE DEF q
<1> QED
    BY <1>1, <1>2, PlotTends

\* A harvest is tending.
LEMMA HarvestedTends ==
    ASSUME NEW st \in Save, NEW crop \in GoodCrop, NEW x \in Harvested(st, crop)
    PROVE  Tended(st, x)
<1>1. PICK h \in HarvestPayout(st, crop) :
          x = Harvests(Credit(Credit(st, h[1]), h[2]), 1)
    BY DEF Harvested
<1> DEFINE a == Credit(st, h[1])
           b == Credit(a, h[2])
<1>2. h[1] \in Int /\ h[2] \in Int
    BY HarvestPayoutType
<1>3. Tended(st, a)
    BY <1>2, CreditTends
<1>4. a \in Save
    BY <1>3 DEF Tended
<1> HIDE DEF a
<1>5. Tended(a, b)
    BY <1>2, <1>4, CreditTends
<1>6. b \in Save
    BY <1>5 DEF Tended
<1>7. x = Harvests(b, 1)
    BY <1>1 DEF a
<1> HIDE DEF b
<1>8. Tended(b, x)
    BY <1>6, <1>7, HarvestsTends
<1> QED
    BY <1>3, <1>4, <1>5, <1>6, <1>8, TendedTwice

-----------------------------------------------------------------------------
(* The loop over the cycles of an automated plot.                           *)

\* The saves that tending leads to, and the cursors of the loop at one of them.
Tendings(st) == {x \in Save : Tended(st, x)}

Cursors(st) == [st : Tendings(st), m : Int, cycles : Nat, on : BOOLEAN]

\* A cursor of the loop stands at a save that tending has led to.
LEMMA CursorTyped ==
    ASSUME NEW st \in Save, NEW y, NEW x, x \in Save, Tended(st, x), Tended(x, y),
           NEW m \in Int, NEW cycles \in Nat, NEW on \in BOOLEAN
    PROVE  Cursor(y, m, cycles, on) \in Cursors(st)
<1>1. Tended(st, y) /\ y \in Save
    BY TendedTwice DEF Tended
<1> QED
    BY <1>1 DEF Cursor, Cursors, Tendings

\* One cycle leads from such a cursor to another.
LEMMA OneCycleStays ==
    ASSUME NEW st \in Save, NEW p \in DOMAIN st.Plots, NEW x \in Cursors(st),
           NEW crop \in GoodCrop, NEW grow \in Nat
    PROVE  OneCycle(x, p, crop, grow) \subseteq Cursors(st)
<1> SUFFICES ASSUME NEW y \in OneCycle(x, p, crop, grow) PROVE y \in Cursors(st)
    OBVIOUS
<1>1. /\ x.st \in Save /\ Tended(st, x.st)
      /\ x.m \in Int /\ x.cycles \in Nat /\ x.m + grow \in Int /\ x.cycles + 1 \in Nat
    BY DEF Cursors, Tendings
<1>2. PICK h \in Harvested(x.st, crop) :
          y = LET seed == SeedCost(h, crop) IN
              IF h.Plots[p].AutoSow /\ h.Coins >= seed /\ Unlocked(h, crop.Unlock)
              THEN Cursor(Sown(Bought(h, seed), p, x.m), x.m + grow, x.cycles + 1, TRUE)
              ELSE Cursor(Cleared(h, p), x.m, x.cycles, FALSE)
    BY DEF OneCycle
<1>3. Tended(x.st, h) /\ h \in Save
    BY <1>1, HarvestedTends DEF Tended
<1>4. Tended(st, h) /\ DOMAIN h.Plots = DOMAIN st.Plots
    BY <1>1, <1>3, TendedTwice, TendedKeeps
<1> DEFINE seed == SeedCost(h, crop)
           b == Bought(h, seed)
           sown == Sown(b, p, x.m)
           cleared == Cleared(h, p)
<1>5. y = IF h.Plots[p].AutoSow /\ h.Coins >= seed /\ Unlocked(h, crop.Unlock)
          THEN Cursor(sown, x.m + grow, x.cycles + 1, TRUE)
          ELSE Cursor(cleared, x.m, x.cycles, FALSE)
    BY <1>2
<1>6. seed \in Nat /\ h.Coins \in Int
    BY <1>3, SeedCostType, SaveTyped DEF Amount
<1> HIDE DEF seed
<1>7. CASE h.Plots[p].AutoSow /\ h.Coins >= seed /\ Unlocked(h, crop.Unlock)
    <2>1. Tended(h, b) /\ b \in Save
        BY <1>3, <1>6, <1>7, PaymentTends DEF Bought, Tended
    <2>2. p \in DOMAIN b.Plots
        BY <1>3, <1>4, <2>1, TendedKeeps
    <2> HIDE DEF b
    <2>3. Tended(b, sown)
        BY <1>1, <2>1, <2>2, SownTends
    <2> HIDE DEF sown
    <2>4. Tended(st, b)
        BY <1>4, <2>1, TendedTwice
    <2>5. Cursor(sown, x.m + grow, x.cycles + 1, TRUE) \in Cursors(st)
        BY <1>1, <2>1, <2>3, <2>4, CursorTyped
    <2> QED
        BY <1>5, <1>7, <2>5
<1>8. CASE ~(h.Plots[p].AutoSow /\ h.Coins >= seed /\ Unlocked(h, crop.Unlock))
    <2>1. Tended(h, cleared)
        BY <1>3, <1>4, ClearedTends
    <2> HIDE DEF cleared
    <2>2. Cursor(cleared, x.m, x.cycles, FALSE) \in Cursors(st)
        BY <1>1, <1>3, <1>4, <2>1, CursorTyped
    <2> QED
        BY <1>5, <1>8, <2>2
<1> QED
    BY <1>7, <1>8

\* A saturating product is no debt.
LEMMA SatMulType ==
    ASSUME NEW a \in Nat, NEW b \in Nat
    PROVE  SatMul(a, b) \in Nat
<1>1. a * b \in Nat
    BY Monotone
<1> QED
    BY <1>1, MoneyAssumption DEF SatMul

\* A seed is bought only when the wallet holds its price.
LEMMA AffordedTends ==
    ASSUME NEW st \in Save, NEW cost \in Nat
    PROVE  Tended(st, Afforded(st, cost))
<1> DEFINE paid == Min({cost, st.Coins})
<1>1. st.Coins \in Nat
    BY SaveTyped, MoneyAssumption DEF Amount
<1>2. paid \in Nat /\ paid <= st.Coins
    BY <1>1, MinOfTwo
<1>3. Afforded(st, cost) = [st EXCEPT !.Coins = @ - paid]
    BY DEF Afforded
<1> HIDE DEF paid
<1> QED
    BY <1>2, <1>3, PaymentTends

\* A batch of cycles leads from such a cursor to another.
LEMMA BatchCyclesStay ==
    ASSUME NEW st \in Save, NEW p \in DOMAIN st.Plots, NEW x \in Cursors(st),
           NEW crop \in GoodCrop, NEW grow \in Nat \ {0}, NEW to \in Int, x.m <= to
    PROVE  BatchCycles(x, p, crop, grow, to) \subseteq Cursors(st)
<1> DEFINE s == x.st
           seed == SeedCost(s, crop)
           gross == ExpectedPayout(s, crop)
           remaining == (to - x.m) \div grow
           n == remaining + 1
           credited == Credit(s, SatMul(gross, n))
           paid == Harvests(credited, n)
           bought == Afforded(paid, SatMul(seed, n))
           sown == Sown(bought, p, x.m + remaining * grow)
           next == Cursor(sown, x.m + n * grow, x.cycles, TRUE)
           same == Cursor(s, x.m, x.cycles, FALSE)
           go == s.Plots[p].AutoSow /\ s.Coins >= seed /\ gross > seed
<1>1. s \in Save /\ Tended(st, s) /\ x.m \in Int /\ x.cycles \in Nat
    BY DEF Cursors, Tendings
<1>2. BatchCycles(x, p, crop, grow, to) = IF go THEN {next} ELSE {same}
    BY DEF BatchCycles
<1> HIDE DEF s
<1>3. seed \in Nat /\ gross \in Int
    BY <1>1, SeedCostType, ExpectedType
<1>4. remaining \in Nat
    <2>1. to - x.m \in Nat
        BY <1>1
    <2> QED
        BY <2>1, Quotient
<1>5. /\ n \in Nat /\ x.m + remaining * grow \in Int /\ x.m + n * grow \in Int
    <2> HIDE DEF remaining
    <2>1. n \in Nat
        BY <1>4
    <2>2. remaining * grow \in Nat /\ n * grow \in Nat
        BY <1>4, <2>1, Monotone
    <2> QED
        BY <1>1, <2>1, <2>2
<1>6. CASE go
    <2> HIDE DEF remaining, n
    <2>1. gross \in Nat
        BY <1>3, <1>6
    <2> HIDE DEF gross, seed
    <2>2. SatMul(gross, n) \in Nat /\ SatMul(seed, n) \in Nat
        BY <1>3, <1>5, <2>1, SatMulType
    <2>3. Tended(s, credited) /\ credited \in Save
        BY <1>1, <2>2, CreditTends DEF Tended
    <2> HIDE DEF credited
    <2>4. Tended(credited, paid) /\ paid \in Save
        BY <1>5, <2>3, HarvestsTends DEF Tended
    <2> HIDE DEF paid
    <2>5. Tended(paid, bought) /\ bought \in Save
        BY <2>2, <2>4, AffordedTends DEF Tended
    <2>6. Tended(st, bought)
        BY <1>1, <2>3, <2>4, <2>5, TendedTwice
    <2>7. p \in DOMAIN bought.Plots
        BY <2>6, TendedKeeps
    <2> HIDE DEF bought
    <2>8. Tended(bought, sown)
        BY <1>5, <2>5, <2>7, SownTends
    <2> HIDE DEF sown
    <2>9. next \in Cursors(st)
        BY <1>1, <1>5, <2>5, <2>6, <2>8, CursorTyped
    <2> HIDE DEF next
    <2> QED
        BY <1>2, <1>6, <2>9
<1>7. CASE ~go
    <2>1. same \in Cursors(st)
        BY <1>1, TendedReflexive, CursorTyped
    <2> HIDE DEF same, go
    <2> QED
        BY <1>2, <1>7, <2>1
<1> QED
    BY <1>6, <1>7

\* So does an iteration of the loop, which takes one or the other.
LEMMA IterationStays ==
    ASSUME NEW st \in Save, NEW p \in DOMAIN st.Plots, NEW x \in Cursors(st),
           NEW crop \in GoodCrop, NEW grow \in Nat \ {0}, NEW to \in Int
    PROVE  Iteration(x, p, crop, grow, to) \subseteq Cursors(st)
<1>1. CASE ~x.on \/ x.m > to
    <2>1. [x EXCEPT !.on = FALSE] \in Cursors(st)
        BY DEF Cursors
    <2> QED
        BY <1>1, <2>1 DEF Iteration
<1>2. CASE ~(~x.on \/ x.m > to)
    <2>1. x.m <= to
        BY <1>2 DEF Cursors
    <2>2. BatchCycles(x, p, crop, grow, to) \subseteq Cursors(st)
        BY <2>1, BatchCyclesStay
    <2>3. OneCycle(x, p, crop, grow) \subseteq Cursors(st)
        BY OneCycleStays
    <2> QED
        BY <1>2, <2>2, <2>3 DEF Iteration
<1> QED
    BY <1>1, <1>2

\* The sets of cursors that the loop goes through, and where it ends.
IsAutoRun(after, st, p, crop, grow, to) ==
    /\ after[0] = {Cursor(st, st.Plots[p].PlantedAt + grow, 0, TRUE)}
    /\ \A i \in 1 .. AutoCycleCap + 2 :
          after[i] = UNION {Iteration(y, p, crop, grow, to) : y \in after[i - 1]}
    /\ \A i \in 0 .. AutoCycleCap + 2 : after[i] \subseteq Cursors(st)
    /\ AutoPlot(st, p, crop, grow, to) = {y.st : y \in after[AutoCycleCap + 2]}

\* The loop goes through its iterations, and never leaves these cursors.
LEMMA AutoPlotIs ==
    ASSUME NEW st \in Save, NEW p \in DOMAIN st.Plots,
           NEW crop \in GoodCrop, NEW grow \in Nat \ {0}, NEW to \in Int
    PROVE  \E after : IsAutoRun(after, st, p, crop, grow, to)
<1> DEFINE n == AutoCycleCap + 2
           T == Cursors(st)
           S == SUBSET T
           base == {Cursor(st, st.Plots[p].PlantedAt + grow, 0, TRUE)}
           step == [q \in Nat \X S |-> UNION {Iteration(y, p, crop, grow, to) : y \in q[2]}]
           W(f) == [i \in 0 .. n |->
                       IF i = 0 THEN base
                       ELSE UNION {Iteration(y, p, crop, grow, to) : y \in f[i - 1]}]
           after == CHOOSE f : f = W(f)
<1>1. n \in Nat
    BY EngineAssumption
<1>2. base \in S
    <2>1. st.Plots[p].PlantedAt \in Int
        BY PlotTyped DEF PlotType
    <2> DEFINE ripe == st.Plots[p].PlantedAt + grow
    <2>2. ripe \in Int /\ 0 \in Nat /\ Tended(st, st)
        BY <2>1, TendedReflexive
    <2> HIDE DEF ripe
    <2>3. Cursor(st, ripe, 0, TRUE) \in T
        BY <2>2, CursorTyped
    <2> QED
        BY <2>3 DEF ripe
<1>3. AutoPlot(st, p, crop, grow, to) = {y.st : y \in after[n]}
    BY DEF AutoPlot
<1>4. \A y \in T : Iteration(y, p, crop, grow, to) \subseteq T
    BY IterationStays
<1> HIDE DEF base, T
<1>5. Keeps(step, S, n)
    BY <1>4 DEF Keeps
<1>6. PICK g : IsRun(g, base, step, S, n)
    BY <1>1, <1>2, <1>5, LoopExists
<1>7. /\ g \in [0 .. n -> S] /\ g[0] = base
      /\ \A i \in 1 .. n : g[i] = UNION {Iteration(y, p, crop, grow, to) : y \in g[i - 1]}
    <2>1. /\ g \in [0 .. n -> S] /\ g[0] = base
          /\ \A i \in 1 .. n : g[i] = step[<<i, g[i - 1]>>]
        BY <1>6 DEF IsRun
    <2> HIDE DEF n
    <2>2. \A i \in 1 .. n : i - 1 \in 0 .. n /\ i \in Nat
        BY <1>1
    <2>3. \A i \in 1 .. n : g[i - 1] \in S
        BY <2>1, <2>2
    <2> QED
        BY <2>1, <2>2, <2>3
<1> HIDE DEF n
<1>8. g = W(g)
    <2>1. ASSUME NEW i \in 0 .. n PROVE g[i] = W(g)[i]
        BY <1>1, <1>7
    <2>2. g = [i \in 0 .. n |-> g[i]] /\ W(g) = [i \in 0 .. n |-> W(g)[i]]
        BY <1>7
    <2> HIDE DEF W
    <2> QED
        BY <2>1, <2>2
<1>9. after = W(after)
    BY <1>8
<1> HIDE DEF after, step
<1>10. after[0] = base
    BY <1>1, <1>9
<1>11. \A i \in 1 .. n : after[i] = UNION {Iteration(y, p, crop, grow, to) : y \in after[i - 1]}
    <2>1. ASSUME NEW i \in 1 .. n
          PROVE  after[i] = UNION {Iteration(y, p, crop, grow, to) : y \in after[i - 1]}
        BY <1>1, <1>9
    <2> QED
        BY <2>1
<1>12. \A i \in 1 .. n : after[i - 1] \in S => after[i] \in S
    BY <1>4, <1>11
<1> HIDE DEF S, W
<1>13. \A i \in 0 .. n : after[i] \in S
    BY <1>1, <1>2, <1>10, <1>12, LoopStays
<1> QED
    BY <1>3, <1>10, <1>11, <1>13 DEF S, T, n, base, IsAutoRun

\* And so the loop, however often it turns, is tending.
LEMMA AutoPlotTends ==
    ASSUME NEW st \in Save, NEW p \in DOMAIN st.Plots,
           NEW crop \in GoodCrop, NEW grow \in Nat \ {0}, NEW to \in Int,
           NEW x \in AutoPlot(st, p, crop, grow, to)
    PROVE  Tended(st, x)
<1>1. PICK after : IsAutoRun(after, st, p, crop, grow, to)
    BY AutoPlotIs
<1>2. AutoCycleCap + 2 \in 0 .. AutoCycleCap + 2
    BY EngineAssumption
<1> QED
    BY <1>1, <1>2 DEF IsAutoRun, Cursors, Tendings

\* A plot that is advanced has been tended.
LEMMA AdvancePlotTends ==
    ASSUME NEW st \in Save, NEW p \in DOMAIN st.Plots, NEW online, NEW to \in Int,
           NEW x \in AdvancePlot(st, p, online, to)
    PROVE  Tended(st, x)
<1> DEFINE plot == st.Plots[p]
           crop == ById(Content.Crops, plot.Crop)
<1>1. plot \in PlotType
    BY PlotTyped
<1>2. CASE plot.Crop = Nothing
    <2>1. ASSUME NEW visit \in BOOLEAN
          PROVE  Tended(st, [st EXCEPT !.Plots[p] = [@ EXCEPT !.Critter = visit]])
        <3> DEFINE q == [plot EXCEPT !.Critter = visit]
        <3>1. q \in PlotType /\ q.Crop = Nothing
            BY <1>1, <1>2 DEF PlotType
        <3>2. [st EXCEPT !.Plots[p] = [@ EXCEPT !.Critter = visit]]
                 = [st EXCEPT !.Plots[p] = q]
            OBVIOUS
        <3> HIDE DEF q
        <3> QED
            BY <3>1, <3>2, PlotTends
    <2>2. x = st \/ \E visit \in BOOLEAN :
                       x = [st EXCEPT !.Plots[p] = [@ EXCEPT !.Critter = visit]]
        BY <1>2 DEF AdvancePlot, MaybeCritterVisit, Roll
    <2> QED
        BY <2>1, <2>2, TendedReflexive
<1>3. CASE plot.Crop # Nothing
    <2>1. crop \in GoodCrop
        BY <1>1, <1>3, CropById DEF PlotType
    <2>2. x = st \/ x \in AutoPlot(st, p, crop, GrowSeconds(st, crop), to)
        BY <1>3 DEF AdvancePlot
    <2> HIDE DEF crop
    <2>3. GrowSeconds(st, crop) \in Nat \ {0}
        BY <2>1, GrowType
    <2> QED
        BY <2>1, <2>2, <2>3, TendedReflexive, AutoPlotTends
<1> QED
    BY <1>2, <1>3

-----------------------------------------------------------------------------
(* Advance.                                                                 *)

\* What the rolls of an Advance, its end and its achievements change.
Rolled == {"EventID", "EventEndsAt", "GiftPending", "UpdatedAt", "Achievements"}

\* The rolls leave the wallet, the plots and the levels as they are.
LEMMA RolledKeeps ==
    ASSUME NEW st \in Save, NEW x \in Save, But(Rolled, st, x)
    PROVE  /\ Backed(st) => Backed(x)
           /\ Fits(st) => Fits(x)
           /\ x.Zones = st.Zones /\ x.Multipliers = st.Multipliers
           /\ x.SeedUpgrades = st.SeedUpgrades /\ x.Plots = st.Plots
           /\ x.PurchasedPlots = st.PurchasedPlots
           /\ x.PrestigeCurrency = st.PrestigeCurrency /\ x.Upgrades = st.Upgrades
           /\ x.Rebirths = st.Rebirths
           /\ x.LifetimeEarnings = st.LifetimeEarnings
           /\ x.LifetimeHarvests = st.LifetimeHarvests
<1>1. /\ x.Zones = st.Zones /\ x.Multipliers = st.Multipliers
      /\ x.SeedUpgrades = st.SeedUpgrades /\ x.Plots = st.Plots
      /\ x.PurchasedPlots = st.PurchasedPlots
      /\ x.PrestigeCurrency = st.PrestigeCurrency /\ x.Upgrades = st.Upgrades
      /\ x.Rebirths = st.Rebirths
      /\ x.LifetimeEarnings = st.LifetimeEarnings
      /\ x.LifetimeHarvests = st.LifetimeHarvests
      /\ x.Coins = st.Coins /\ x.RunEarnings = st.RunEarnings
    BY DEF But, Rolled, Save
<1>2. Backed(st) => Backed(x)
    BY <1>1, StartCoinsStay DEF Backed
<1>3. st.Rebirths \in Int /\ st.LifetimeEarnings \in Int
    BY SaveTyped DEF Amount
<1>4. Fits(st) => Fits(x)
    BY <1>1, <1>3, FitsStays
<1> QED
    BY <1>1, <1>2, <1>4

\* The event of a save.
WithEvent(st, id, ends) == [st EXCEPT !.EventID = id, !.EventEndsAt = ends]

\* An event that is set is one of the rolls.
LEMMA EventSet ==
    ASSUME NEW st \in Save, NEW id \in Ids(Content.Events) \cup {Nothing},
           NEW ends \in Int
    PROVE  LET x == WithEvent(st, id, ends) IN
           /\ x \in Save /\ But(Rolled, st, x) /\ x.Achievements = st.Achievements
           /\ x.GiftPending = st.GiftPending
           /\ x.EventID = id /\ x.EventEndsAt = ends
BY DEF WithEvent, Save, But, Rolled

\* An event that is over is taken away.
LEMMA ExpireIs ==
    ASSUME NEW st \in Save, NEW to \in Int, NEW x, x = Expire(st, to)
    PROVE  /\ x \in Save /\ But(Rolled, st, x) /\ x.Achievements = st.Achievements
           /\ x.GiftPending = st.GiftPending
           /\ InForceAt(x, to)
<1>1. CASE st.EventID # Nothing /\ to >= st.EventEndsAt
    <2>1. x = WithEvent(st, Nothing, 0)
        BY <1>1 DEF Expire, WithEvent
    <2>2. Nothing \in Ids(Content.Events) \cup {Nothing} /\ 0 \in Int
        OBVIOUS
    <2>3. /\ x \in Save /\ But(Rolled, st, x) /\ x.Achievements = st.Achievements
          /\ x.GiftPending = st.GiftPending
          /\ x.EventID = Nothing
        BY <2>1, <2>2, EventSet
    <2> QED
        BY <2>3 DEF InForceAt
<1>2. CASE ~(st.EventID # Nothing /\ to >= st.EventEndsAt)
    <2>1. x = st
        BY <1>2 DEF Expire
    <2> QED
        BY <1>2, <2>1, SaveTyped DEF InForceAt, But
<1> QED
    BY <1>1, <1>2

\* An event that begins has not ended yet.
LEMMA RollOnlineEventIs ==
    ASSUME NEW st \in Save, NEW elapsed, NEW to \in Int, InForceAt(st, to),
           NEW x \in RollOnlineEvent(st, elapsed, to)
    PROVE  /\ x \in Save /\ But(Rolled, st, x) /\ x.Achievements = st.Achievements
           /\ x.GiftPending = st.GiftPending
           /\ InForceAt(x, to)
<1> DEFINE ec == Content.EventsConfig
           star == IF "stargazer" \in Ids(Content.Upgrades)
                   THEN 10 * st.Upgrades["stargazer"] ELSE 0
           longer == Owned(Content.Upgrades, st.Upgrades, "event_duration_pct")
           stretch == 100 + longer + star
           lo == (ec.MinDurationSec * stretch) \div 100
           hi == (ec.MaxDurationSec * stretch) \div 100
<1>1. x = st \/ \E id \in Ids(Content.Events), dur \in RollRange(lo, hi) :
                   x = StartEvent(st, id, to, dur)
    BY DEF RollOnlineEvent
<1>2. ValidEvents(Content)
    BY EngineAssumption DEF Validate
<1>3. ec.MinDurationSec \in Nat /\ ec.MinDurationSec >= 1 /\ ec.MaxDurationSec \in Nat
    BY <1>2, PartsTyped DEF ValidEvents
<1>4. stretch \in Nat /\ stretch >= 100
    <2>1. longer \in Nat
        BY OwnedType, SaveLevels
    <2>2. star \in Nat
        BY SaveLevels
    <2> HIDE DEF longer, star
    <2> QED
        BY <2>1, <2>2
<1> HIDE DEF stretch
<1>5. lo \in Nat /\ lo >= 1 /\ hi \in Nat
    <2> DEFINE a == ec.MinDurationSec * stretch
               b == ec.MaxDurationSec * stretch
    <2>1. a \in Nat /\ b \in Nat /\ 1 * stretch <= a
        BY <1>3, <1>4, Monotone
    <2>2. a >= 100
        BY <1>4, <2>1
    <2> HIDE DEF a, b
    <2>3. a \div 100 \in Nat /\ a \div 100 >= 1 /\ b \div 100 \in Nat
        BY <2>1, <2>2
    <2> QED
        BY <2>3 DEF a, b
<1> HIDE DEF lo, hi
<1>6. \A dur \in RollRange(lo, hi) : dur \in Nat /\ dur >= 1
    BY <1>5 DEF RollRange
<1>7. CASE x = st
    BY <1>7 DEF But
<1>8. ASSUME NEW id \in Ids(Content.Events), NEW dur \in RollRange(lo, hi),
             x = StartEvent(st, id, to, dur)
      PROVE  /\ x \in Save /\ But(Rolled, st, x) /\ x.Achievements = st.Achievements
             /\ x.GiftPending = st.GiftPending
             /\ InForceAt(x, to)
    <2> DEFINE ends == to + dur
    <2>1. ends \in Int /\ to < ends /\ id \in Ids(Content.Events) \cup {Nothing}
        BY <1>6
    <2>2. x = WithEvent(st, id, ends)
        BY <1>8 DEF StartEvent, WithEvent
    <2> HIDE DEF ends
    <2>3. /\ x \in Save /\ But(Rolled, st, x) /\ x.Achievements = st.Achievements
          /\ x.GiftPending = st.GiftPending
          /\ x.EventEndsAt = ends
        BY <2>1, <2>2, EventSet
    <2> QED
        BY <2>1, <2>3 DEF InForceAt
<1> QED
    BY <1>1, <1>7, <1>8

\* A gift arrives and does not leave.
LEMMA RollGiftArrivalIs ==
    ASSUME NEW st \in Save, NEW elapsed, NEW online, NEW to \in Int, InForceAt(st, to),
           NEW x \in RollGiftArrival(st, elapsed, online)
    PROVE  /\ x \in Save /\ But(Rolled, st, x) /\ x.Achievements = st.Achievements
           /\ (st.GiftPending => x.GiftPending)
           /\ InForceAt(x, to)
<1>1. x = st \/ /\ ~st.GiftPending
                /\ \E arrives \in BOOLEAN : x = [st EXCEPT !.GiftPending = arrives]
    BY DEF RollGiftArrival, Roll, Save
<1>2. ASSUME NEW arrives \in BOOLEAN, ~st.GiftPending,
             x = [st EXCEPT !.GiftPending = arrives]
      PROVE  /\ x \in Save /\ But(Rolled, st, x) /\ x.Achievements = st.Achievements
             /\ x.EventID = st.EventID /\ x.EventEndsAt = st.EventEndsAt
    BY <1>2 DEF Save, But, Rolled
<1> QED
    BY <1>1, <1>2 DEF InForceAt, But

\* Achievements.
LEMMA CheckAchievementsIs ==
    ASSUME NEW st \in Save, NEW now \in Int, NEW x, x = CheckAchievements(st, now)
    PROVE  /\ x \in Save /\ But(Rolled, st, x)
           /\ x.GiftPending = st.GiftPending /\ x.EventID = st.EventID
           /\ x.EventEndsAt = st.EventEndsAt /\ x.UpdatedAt = st.UpdatedAt
           /\ \A id \in DOMAIN st.Achievements :
                 st.Achievements[id] # NotEarned =>
                    x.Achievements[id] = st.Achievements[id]
<1> DEFINE dates == [id \in DOMAIN st.Achievements |->
                        IF st.Achievements[id] = NotEarned /\ id \in Met(st)
                        THEN now ELSE st.Achievements[id]]
<1>1. /\ dates \in [Ids(Content.Achievements) -> Int]
      /\ \A id \in DOMAIN st.Achievements :
            st.Achievements[id] # NotEarned => dates[id] = st.Achievements[id]
    BY SaveLevels
<1>2. x = [st EXCEPT !.Achievements = dates]
    BY DEF CheckAchievements
<1> HIDE DEF dates
<1>3. /\ x \in Save /\ But(Rolled, st, x) /\ x.Achievements = dates
      /\ x.GiftPending = st.GiftPending /\ x.EventID = st.EventID
      /\ x.EventEndsAt = st.EventEndsAt /\ x.UpdatedAt = st.UpdatedAt
    BY <1>1, <1>2 DEF Save, But, Rolled
<1> QED
    BY <1>1, <1>3

\* What holds of a save between two steps.
Good(st) ==
    /\ st \in Save
    /\ Backed(st) /\ Fits(st) /\ LandFits(st)
    /\ InForceAt(st, st.UpdatedAt)

\* What no step takes away: the state part of PermanentSurvives.
Lasting(st, x) ==
    /\ x.LifetimeEarnings >= st.LifetimeEarnings
    /\ x.LifetimeHarvests >= st.LifetimeHarvests
    /\ x.Rebirths >= st.Rebirths
    /\ \A id \in DOMAIN st.Upgrades : x.Upgrades[id] >= st.Upgrades[id]
    /\ \A id \in DOMAIN st.Achievements :
          st.Achievements[id] # NotEarned => x.Achievements[id] = st.Achievements[id]

\* What a catch-up leaves as it is.
Settled(st, x) ==
    /\ x.Upgrades = st.Upgrades /\ x.Multipliers = st.Multipliers
    /\ x.Rebirths = st.Rebirths /\ x.PrestigeCurrency = st.PrestigeCurrency
    /\ st.GiftPending => x.GiftPending

\* A save has lost nothing to itself.
LEMMA LastingReflexive ==
    ASSUME NEW st \in Save
    PROVE  Lasting(st, st) /\ Settled(st, st)
BY SaveTyped, SaveLevels DEF Lasting, Settled, Amount

\* What lasts for two steps lasts.
LEMMA LastingTwice ==
    ASSUME NEW st \in Save, NEW y \in Save, NEW x \in Save,
           Lasting(st, y), Lasting(y, x)
    PROVE  Lasting(st, x)
<1>1. /\ x.LifetimeEarnings >= st.LifetimeEarnings
      /\ x.LifetimeHarvests >= st.LifetimeHarvests
      /\ x.Rebirths >= st.Rebirths
    BY SaveTyped DEF Lasting, Amount
<1>2. ASSUME NEW id \in DOMAIN st.Upgrades PROVE x.Upgrades[id] >= st.Upgrades[id]
    <2>1. /\ id \in DOMAIN y.Upgrades
          /\ x.Upgrades[id] \in Int /\ y.Upgrades[id] \in Int /\ st.Upgrades[id] \in Int
        BY SaveLevels
    <2> QED
        BY <2>1 DEF Lasting
<1>3. DOMAIN st.Achievements = DOMAIN y.Achievements
    BY SaveLevels
<1> QED
    BY <1>1, <1>2, <1>3 DEF Lasting

\* The saves an Advance to a time goes through while it tends the plots.
Stage(st, to) ==
    {x \in Save : \E y \in Save :
        /\ But(Rolled, st, y) /\ InForceAt(y, to)
        /\ st.GiftPending => y.GiftPending
        /\ y.Achievements = st.Achievements
        /\ Tended(y, x)}

\* Rolling twice is rolling.
LEMMA RolledTwice ==
    ASSUME NEW st \in Save, NEW y \in Save, NEW x \in Save,
           But(Rolled, st, y), But(Rolled, y, x)
    PROVE  But(Rolled, st, x)
BY DEF But, Rolled, Save

\* The event and the gift of an Advance lead to a stage of it.
LEMMA GiftedInStage ==
    ASSUME NEW st \in Save, NEW to \in Int, NEW elapsed, NEW online, NEW x,
           \E z \in IF online THEN RollOnlineEvent(Expire(st, to), elapsed, to)
                               ELSE {Expire(st, to)} :
              x \in RollGiftArrival(z, elapsed, online)
    PROVE  x \in Stage(st, to)
<1> DEFINE e == Expire(st, to)
<1>1. PICK z \in IF online THEN RollOnlineEvent(e, elapsed, to) ELSE {e} :
          x \in RollGiftArrival(z, elapsed, online)
    OBVIOUS
<1>2. /\ e \in Save /\ But(Rolled, st, e) /\ e.Achievements = st.Achievements
      /\ e.GiftPending = st.GiftPending /\ InForceAt(e, to)
    BY ExpireIs
<1> HIDE DEF e
<1>3. /\ z \in Save /\ But(Rolled, e, z) /\ z.Achievements = e.Achievements
      /\ z.GiftPending = e.GiftPending /\ InForceAt(z, to)
    <2>1. CASE online
        BY <1>1, <1>2, <2>1, RollOnlineEventIs
    <2>2. CASE ~online
        BY <1>1, <1>2, <2>2 DEF But
    <2> QED
        BY <2>1, <2>2
<1>4. /\ x \in Save /\ But(Rolled, z, x) /\ x.Achievements = z.Achievements
      /\ (z.GiftPending => x.GiftPending) /\ InForceAt(x, to)
    BY <1>1, <1>3, RollGiftArrivalIs
<1>5. But(Rolled, st, x)
    BY <1>2, <1>3, <1>4, RolledTwice
<1>6. Tended(x, x)
    BY <1>4, TendedReflexive
<1> QED
    BY <1>2, <1>3, <1>4, <1>5, <1>6 DEF Stage

\* A stage has the plots of the save it began with.
LEMMA StagePlots ==
    ASSUME NEW st \in Save, NEW to \in Int, NEW x \in Stage(st, to)
    PROVE  DOMAIN x.Plots = DOMAIN st.Plots
BY RolledKeeps, TendedKeeps DEF Stage

\* A plot that is advanced leads from a stage to another.
LEMMA StageGoesOn ==
    ASSUME NEW st \in Save, NEW to \in Int, NEW y \in Stage(st, to),
           NEW p \in DOMAIN st.Plots, NEW online, NEW x \in AdvancePlot(y, p, online, to)
    PROVE  x \in Stage(st, to)
<1>1. PICK z \in Save :
        /\ But(Rolled, st, z) /\ InForceAt(z, to)
        /\ st.GiftPending => z.GiftPending
        /\ z.Achievements = st.Achievements
        /\ Tended(z, y)
    BY DEF Stage
<1>2. y \in Save /\ p \in DOMAIN y.Plots
    BY StagePlots DEF Stage
<1>3. Tended(y, x)
    BY <1>2, AdvancePlotTends
<1>4. Tended(z, x) /\ x \in Save
    BY <1>1, <1>3, TendedTwice DEF Tended
<1> QED
    BY <1>1, <1>4 DEF Stage

\* The loop over the plots, which ends in the stage.
GrownFrom(gifted, st, online, to) ==
    LET grown[p \in 0 .. Len(st.Plots)] ==
            IF p = 0 THEN gifted
            ELSE UNION {AdvancePlot(x, p, online, to) : x \in grown[p - 1]}
    IN grown[Len(st.Plots)]

\* The sets of saves that the loop over the plots goes through, and its end.
IsGrownRun(grown, gifted, st, online, to) ==
    /\ grown[0] = gifted
    /\ \A i \in 1 .. Len(st.Plots) :
          grown[i] = UNION {AdvancePlot(y, i, online, to) : y \in grown[i - 1]}
    /\ \A i \in 0 .. Len(st.Plots) : grown[i] \subseteq Stage(st, to)
    /\ GrownFrom(gifted, st, online, to) = grown[Len(st.Plots)]

\* The loop goes through the plots one after the other, and through stages only.
LEMMA GrownIs ==
    ASSUME NEW st \in Save, NEW to \in Int, NEW online,
           NEW gifted \in SUBSET Stage(st, to)
    PROVE  \E grown : IsGrownRun(grown, gifted, st, online, to)
<1> DEFINE n == Len(st.Plots)
           T == Stage(st, to)
           S == SUBSET T
           step == [q \in Nat \X S |-> UNION {AdvancePlot(y, q[1], online, to) : y \in q[2]}]
           W(f) == [p \in 0 .. n |->
                       IF p = 0 THEN gifted
                       ELSE UNION {AdvancePlot(y, p, online, to) : y \in f[p - 1]}]
           grown == CHOOSE f : f = W(f)
<1>1. n \in Nat /\ DOMAIN st.Plots = 1 .. n
    BY SaveTyped
<1>2. gifted \in S
    OBVIOUS
<1>3. GrownFrom(gifted, st, online, to) = grown[n]
    BY DEF GrownFrom
<1>4. \A p \in 1 .. n : \A y \in T : AdvancePlot(y, p, online, to) \subseteq T
    BY <1>1, StageGoesOn
<1> HIDE DEF T, n
<1>5. Keeps(step, S, n)
    BY <1>1, <1>4 DEF Keeps
<1>6. PICK g : IsRun(g, gifted, step, S, n)
    BY <1>1, <1>2, <1>5, LoopExists
<1>7. /\ g \in [0 .. n -> S] /\ g[0] = gifted
      /\ \A i \in 1 .. n : g[i] = UNION {AdvancePlot(y, i, online, to) : y \in g[i - 1]}
    <2>1. /\ g \in [0 .. n -> S] /\ g[0] = gifted
          /\ \A i \in 1 .. n : g[i] = step[<<i, g[i - 1]>>]
        BY <1>6 DEF IsRun
    <2>2. \A i \in 1 .. n : i - 1 \in 0 .. n /\ i \in Nat
        BY <1>1
    <2>3. \A i \in 1 .. n : g[i - 1] \in S
        BY <2>1, <2>2
    <2>4. \A i \in Nat, f \in S :
              step[<<i, f>>] = UNION {AdvancePlot(y, i, online, to) : y \in f}
        OBVIOUS
    <2> HIDE DEF step, S
    <2> QED
        BY <2>1, <2>2, <2>3, <2>4
<1>8. g = W(g)
    <2>1. ASSUME NEW i \in 0 .. n PROVE g[i] = W(g)[i]
        BY <1>1, <1>7
    <2>2. g = [i \in 0 .. n |-> g[i]] /\ W(g) = [i \in 0 .. n |-> W(g)[i]]
        BY <1>7
    <2> HIDE DEF W
    <2> QED
        BY <2>1, <2>2
<1>9. grown = W(grown)
    BY <1>8
<1> HIDE DEF grown, step
<1>10. grown[0] = gifted
    BY <1>1, <1>9
<1>11. \A i \in 1 .. n : grown[i] = UNION {AdvancePlot(y, i, online, to) : y \in grown[i - 1]}
    <2>1. ASSUME NEW i \in 1 .. n
          PROVE  grown[i] = UNION {AdvancePlot(y, i, online, to) : y \in grown[i - 1]}
        <3>1. i \in 0 .. n /\ i # 0
            BY <1>1
        <3>2. W(grown)[i] = UNION {AdvancePlot(y, i, online, to) : y \in grown[i - 1]}
            BY <3>1
        <3> QED
            BY <1>9, <3>2
    <2> QED
        BY <2>1
<1>12. \A i \in 1 .. n : grown[i - 1] \in S => grown[i] \in S
    BY <1>4, <1>11
<1> HIDE DEF S, W
<1>13. \A i \in 0 .. n : grown[i] \in S
    BY <1>1, <1>2, <1>10, <1>12, LoopStays
<1> QED
    BY <1>3, <1>10, <1>11, <1>13 DEF S, T, n, IsGrownRun

\* So do all of them.
LEMMA GrownInStage ==
    ASSUME NEW st \in Save, NEW to \in Int, NEW online,
           NEW gifted \in SUBSET Stage(st, to)
    PROVE  GrownFrom(gifted, st, online, to) \subseteq Stage(st, to)
<1>1. PICK grown : IsGrownRun(grown, gifted, st, online, to)
    BY GrownIs
<1>2. Len(st.Plots) \in 0 .. Len(st.Plots)
    BY SaveTyped
<1> QED
    BY <1>1, <1>2 DEF IsGrownRun

\* What holds of a save holds at each stage, and its event is in force.
LEMMA StageIs ==
    ASSUME NEW st \in Save, NEW to \in Int, NEW x \in Stage(st, to)
    PROVE  /\ x \in Save /\ InForceAt(x, to)
           /\ Backed(st) => Backed(x)
           /\ Fits(st) => Fits(x)
           /\ LandFits(st) => LandFits(x)
           /\ Lasting(st, x) /\ Settled(st, x)
           /\ x.Achievements = st.Achievements
<1>1. PICK y \in Save :
        /\ But(Rolled, st, y) /\ InForceAt(y, to)
        /\ st.GiftPending => y.GiftPending
        /\ y.Achievements = st.Achievements
        /\ Tended(y, x)
    BY DEF Stage
<1>2. /\ Backed(st) => Backed(y)
      /\ Fits(st) => Fits(y)
      /\ y.Zones = st.Zones /\ y.Multipliers = st.Multipliers
      /\ y.Plots = st.Plots /\ y.PurchasedPlots = st.PurchasedPlots
      /\ y.PrestigeCurrency = st.PrestigeCurrency /\ y.Upgrades = st.Upgrades
      /\ y.Rebirths = st.Rebirths
      /\ y.LifetimeEarnings = st.LifetimeEarnings
      /\ y.LifetimeHarvests = st.LifetimeHarvests
    BY <1>1, RolledKeeps
<1>3. /\ x \in Save
      /\ x.PurchasedPlots = y.PurchasedPlots
      /\ x.Zones = y.Zones /\ x.Multipliers = y.Multipliers
      /\ x.GiftPending = y.GiftPending
      /\ x.EventID = y.EventID /\ x.EventEndsAt = y.EventEndsAt
      /\ x.PrestigeCurrency = y.PrestigeCurrency /\ x.Upgrades = y.Upgrades
      /\ x.Achievements = y.Achievements /\ x.Rebirths = y.Rebirths
    BY <1>1, TendedKeeps
<1>4. /\ Len(x.Plots) = Len(y.Plots)
      /\ y.LifetimeEarnings <= x.LifetimeEarnings
      /\ y.LifetimeHarvests <= x.LifetimeHarvests
      /\ Backed(y) => Backed(x)
      /\ Fits(y) => Fits(x)
    BY <1>1 DEF Tended
<1>5. LandFits(st) => LandFits(x)
    BY <1>2, <1>3, <1>4 DEF LandFits
<1>6. InForceAt(x, to)
    BY <1>1, <1>3 DEF InForceAt
<1>7. Settled(st, x)
    BY <1>1, <1>2, <1>3 DEF Settled
<1>8. Lasting(st, x)
    <2>1. \A id \in DOMAIN st.Upgrades : st.Upgrades[id] \in Int
        BY SaveLevels
    <2>2. x.Rebirths \in Int /\ x.LifetimeEarnings \in Int /\ x.LifetimeHarvests \in Int
             /\ y.LifetimeEarnings \in Int /\ y.LifetimeHarvests \in Int
        BY <1>3, SaveTyped DEF Amount
    <2> QED
        BY <1>1, <1>2, <1>3, <1>4, <2>1, <2>2 DEF Lasting
<1> QED
    BY <1>1, <1>2, <1>3, <1>4, <1>5, <1>6, <1>7, <1>8

\* Achievements are the last of a step.
LEMMA AchievementsKeep ==
    ASSUME NEW st, Good(st), NEW now \in Int, NEW x, x = CheckAchievements(st, now)
    PROVE  Good(x) /\ Lasting(st, x) /\ Settled(st, x) /\ x.Plots = st.Plots
              /\ x.EventID = st.EventID
<1>1. st \in Save
    BY DEF Good
<1>2. /\ x \in Save /\ But(Rolled, st, x)
      /\ x.GiftPending = st.GiftPending /\ x.EventID = st.EventID
      /\ x.EventEndsAt = st.EventEndsAt /\ x.UpdatedAt = st.UpdatedAt
      /\ \A id \in DOMAIN st.Achievements :
            st.Achievements[id] # NotEarned =>
               x.Achievements[id] = st.Achievements[id]
    BY <1>1, CheckAchievementsIs
<1>3. /\ Backed(st) => Backed(x)
      /\ Fits(st) => Fits(x)
      /\ x.Zones = st.Zones /\ x.Multipliers = st.Multipliers
      /\ x.Plots = st.Plots /\ x.PurchasedPlots = st.PurchasedPlots
      /\ x.PrestigeCurrency = st.PrestigeCurrency /\ x.Upgrades = st.Upgrades
      /\ x.Rebirths = st.Rebirths
      /\ x.LifetimeEarnings = st.LifetimeEarnings
      /\ x.LifetimeHarvests = st.LifetimeHarvests
    BY <1>1, <1>2, RolledKeeps
<1>4. Good(x)
    BY <1>2, <1>3 DEF Good, LandFits, InForceAt
<1>5. Lasting(st, x)
    <2>1. \A id \in DOMAIN st.Upgrades : st.Upgrades[id] \in Int
        BY <1>1, SaveLevels
    <2>2. x.Rebirths \in Int /\ x.LifetimeEarnings \in Int /\ x.LifetimeHarvests \in Int
        BY <1>2, SaveTyped DEF Amount
    <2> QED
        BY <1>2, <1>3, <2>1, <2>2 DEF Lasting
<1> QED
    BY <1>2, <1>3, <1>4, <1>5 DEF Settled

\* A catch-up keeps what holds of a save, takes nothing away, and changes
\* nothing unless time has passed.
LEMMA AdvanceKeeps ==
    ASSUME NEW st, Good(st), NEW to \in Int, NEW x \in Advance(st, to)
    PROVE  /\ Good(x) /\ Lasting(st, x) /\ Settled(st, x)
           /\ x = st \/ to > st.UpdatedAt
<1> DEFINE elapsed == to - st.UpdatedAt
           online == elapsed <= OnlineTick
           eventful == IF online THEN RollOnlineEvent(Expire(st, to), elapsed, to)
                       ELSE {Expire(st, to)}
           gifted == UNION {RollGiftArrival(z, elapsed, online) : z \in eventful}
           last == GrownFrom(gifted, st, online, to)
<1>1. st \in Save /\ st.UpdatedAt \in Int
    BY SaveTyped DEF Good
<1>2. Advance(st, to) =
         IF elapsed <= 0 THEN {st}
         ELSE {CheckAchievements([y EXCEPT !.UpdatedAt = to], to) : y \in last}
    BY DEF Advance, GrownFrom
<1>3. gifted \in SUBSET Stage(st, to)
    <2>1. ASSUME NEW y \in gifted PROVE y \in Stage(st, to)
        <3>1. PICK z \in eventful : y \in RollGiftArrival(z, elapsed, online)
            OBVIOUS
        <3> HIDE DEF elapsed, online
        <3> QED
            BY <1>1, <3>1, GiftedInStage
    <2> QED
        BY <2>1
<1>4. last \subseteq Stage(st, to)
    <2> HIDE DEF gifted, online
    <2> QED
        BY <1>1, <1>3, GrownInStage
<1> HIDE DEF last, elapsed
<1>5. CASE elapsed <= 0
    <2>1. x = st
        BY <1>2, <1>5
    <2> QED
        BY <1>1, <2>1, LastingReflexive
<1>6. CASE ~(elapsed <= 0)
    <2>1. PICK y \in last : x = CheckAchievements([y EXCEPT !.UpdatedAt = to], to)
        BY <1>2, <1>6
    <2> DEFINE z == [y EXCEPT !.UpdatedAt = to]
    <2>2. y \in Stage(st, to)
        BY <1>4
    <2>3. /\ y \in Save /\ InForceAt(y, to)
          /\ Backed(y) /\ Fits(y) /\ LandFits(y)
          /\ Lasting(st, y) /\ Settled(st, y)
        BY <1>1, <2>2, StageIs DEF Good
    <2>4. /\ z \in Save /\ But(Rolled, y, z) /\ z.UpdatedAt = to
          /\ z.EventID = y.EventID /\ z.EventEndsAt = y.EventEndsAt
          /\ z.GiftPending = y.GiftPending /\ z.Achievements = y.Achievements
        BY <2>3 DEF Save, But, Rolled
    <2>5. x = CheckAchievements(z, to)
        BY <2>1
    <2> HIDE DEF z
    <2>6. /\ Backed(z) /\ Fits(z)
          /\ z.Zones = y.Zones /\ z.Multipliers = y.Multipliers
          /\ z.Plots = y.Plots /\ z.PurchasedPlots = y.PurchasedPlots
          /\ z.PrestigeCurrency = y.PrestigeCurrency /\ z.Upgrades = y.Upgrades
          /\ z.Rebirths = y.Rebirths
          /\ z.LifetimeEarnings = y.LifetimeEarnings
          /\ z.LifetimeHarvests = y.LifetimeHarvests
        BY <2>3, <2>4, RolledKeeps
    <2>7. Good(z)
        BY <2>3, <2>4, <2>6 DEF Good, LandFits, InForceAt
    <2>8. Lasting(st, z)
        BY <2>3, <2>4, <2>6 DEF Lasting
    <2>9. Settled(st, z)
        BY <2>3, <2>4, <2>6 DEF Settled
    <2>10. Good(x) /\ Lasting(z, x) /\ Settled(z, x)
        BY <2>5, <2>7, AchievementsKeep
    <2>11. Lasting(st, x)
        BY <1>1, <2>4, <2>8, <2>10, LastingTwice DEF Good
    <2>12. Settled(st, x)
        BY <2>9, <2>10 DEF Settled
    <2>13. to > st.UpdatedAt
        BY <1>1, <1>6 DEF elapsed
    <2> QED
        BY <2>10, <2>11, <2>12, <2>13
<1> QED
    BY <1>5, <1>6

-----------------------------------------------------------------------------
(* The player's actions.                                                    *)

\* The floor and the ceiling of a parcel's coins are no part of what Validate
\* asks; the game's content pays at least a coin.
GiftsPay == Content.Gifts.CoinRewardCeiling >= 1

\* A parcel that is opened is paid: the state part of GiftsArePaid.
GiftPaid(st, x) ==
    GiftsPay /\ st.GiftPending /\ ~x.GiftPending =>
        /\ x.Rebirths = st.Rebirths
        /\ \/ x.LifetimeEarnings >= SatAdd(st.LifetimeEarnings, 1)
           \/ x.PrestigeCurrency >= SatAdd(st.PrestigeCurrency, 1)

\* What makes crops grow faster in a run is kept, or there are no crops.
GrowsOn(st, x) ==
    \/ \A id \in Ids(Content.Multipliers) : st.Multipliers[id] <= x.Multipliers[id]
    \/ AllPlotsEmpty(x)

\* Tending the plots is all that harvests, shooing, planting and automation do.
LEMMA TendedIsGood ==
    ASSUME NEW st, Good(st), NEW x, Tended(st, x)
    PROVE  Good(x) /\ Lasting(st, x) /\ Settled(st, x)
<1>1. st \in Save
    BY DEF Good
<1>2. /\ x.UpdatedAt = st.UpdatedAt /\ x.PurchasedPlots = st.PurchasedPlots
      /\ x.Zones = st.Zones /\ x.Multipliers = st.Multipliers
      /\ x.GiftPending = st.GiftPending
      /\ x.EventID = st.EventID /\ x.EventEndsAt = st.EventEndsAt
      /\ x.PrestigeCurrency = st.PrestigeCurrency /\ x.Upgrades = st.Upgrades
      /\ x.Achievements = st.Achievements /\ x.Rebirths = st.Rebirths
      /\ x \in Save
    BY <1>1, TendedKeeps
<1>3. Good(x)
    BY <1>2 DEF Good, Tended, LandFits, InForceAt
<1>4. Lasting(st, x)
    <2>1. \A id \in DOMAIN st.Upgrades : st.Upgrades[id] \in Int
        BY <1>1, SaveLevels
    <2>2. /\ st.Rebirths \in Int
          /\ x.LifetimeEarnings \in Int /\ st.LifetimeEarnings \in Int
          /\ x.LifetimeHarvests \in Int /\ st.LifetimeHarvests \in Int
        BY <1>1, <1>2, SaveTyped DEF Amount
    <2> QED
        BY <1>2, <2>1, <2>2 DEF Lasting, Tended
<1> QED
    BY <1>2, <1>3, <1>4 DEF Settled

\* A catch-up pays no gift out and changes nothing that growth depends on.
LEMMA SettledIsPaid ==
    ASSUME NEW st \in Save, NEW x, Settled(st, x)
    PROVE  GiftPaid(st, x) /\ GrowsOn(st, x)
<1>1. \A id \in Ids(Content.Multipliers) : st.Multipliers[id] \in Int
    BY SaveLevels
<1> QED
    BY <1>1 DEF Settled, GiftPaid, GrowsOn

\* A plot that is written with what fits the farm.
LEMMA FittingPlotTends ==
    ASSUME NEW st \in Save, NEW p \in DOMAIN st.Plots, NEW q \in PlotType,
           PlotFits(st, q)
    PROVE  Tended(st, [st EXCEPT !.Plots[p] = q])
<1> DEFINE x == [st EXCEPT !.Plots[p] = q]
<1>1. /\ x \in Save /\ But({"Plots"}, st, x)
      /\ Len(x.Plots) = Len(st.Plots) /\ DOMAIN x.Plots = DOMAIN st.Plots
      /\ \A r \in DOMAIN st.Plots : x.Plots[r] = IF r = p THEN q ELSE st.Plots[r]
    BY PlotSet
<1> HIDE DEF x
<1>2. /\ But(Tending, st, x)
      /\ x.Coins = st.Coins /\ x.RunEarnings = st.RunEarnings
      /\ x.LifetimeEarnings = st.LifetimeEarnings /\ x.Upgrades = st.Upgrades
      /\ x.LifetimeHarvests = st.LifetimeHarvests /\ x.Zones = st.Zones
      /\ x.Rebirths = st.Rebirths
    BY <1>1 DEF But, Tending, Save
<1>3. Backed(st) => Backed(x)
    BY <1>2, StartCoinsStay DEF Backed
<1>4. st.LifetimeEarnings \in Int /\ st.LifetimeHarvests \in Int
    BY SaveTyped DEF Amount
<1>5. \A u : Unlocked(st, u) = Unlocked(x, u)
    BY <1>2 DEF Unlocked
<1>6. Fits(st) => Fits(x)
    <2> SUFFICES ASSUME Fits(st), NEW r \in DOMAIN x.Plots
                 PROVE  PlotFits(x, x.Plots[r])
        BY DEF Fits
    <2>1. PlotFits(st, x.Plots[r])
        BY <1>1 DEF Fits
    <2> QED
        BY <1>5, <2>1 DEF PlotFits
<1>7. Tended(st, x)
    BY <1>1, <1>2, <1>3, <1>4, <1>6 DEF Tended
<1> QED
    BY <1>7 DEF x

\* Planting is tending: the crop is unlocked and the plot empty.
LEMMA PlantTends ==
    ASSUME NEW st \in Save, NEW p, NEW id \in Ids(Content.Crops), NEW now \in Int,
           NEW x \in Plant(st, p, id, now)
    PROVE  Tended(st, x)
<1> DEFINE crop == ById(Content.Crops, id)
           cost == IF MercyPlantEligible(st, id) THEN 0 ELSE SeedCost(st, crop)
           b == Bought(st, cost)
<1>1. /\ p \in DOMAIN st.Plots /\ Unlocked(st, crop.Unlock) /\ st.Coins >= cost
      /\ x = Planted(b, p, id, now)
    BY DEF Plant, When
<1>2. crop \in GoodCrop
    BY CropById
<1>3. cost \in Nat
    BY <1>2, SeedCostType
<1> HIDE DEF cost
<1>4. Tended(st, b) /\ b \in Save
    BY <1>1, <1>3, SaveTyped, PaymentTends DEF Bought, Tended, Amount
<1>5. b.LifetimeEarnings = st.LifetimeEarnings
    BY DEF Bought, Save
<1>6. b.Zones = st.Zones /\ b.Rebirths = st.Rebirths /\ DOMAIN b.Plots = DOMAIN st.Plots
    BY <1>4, TendedKeeps
<1> HIDE DEF b
<1> DEFINE q == [b.Plots[p] EXCEPT !.Crop = id, !.PlantedAt = now, !.Critter = FALSE]
<1>7. q \in PlotType /\ q.Crop = id /\ q.Critter = FALSE
    <2>1. b.Plots[p] \in PlotType
        BY <1>1, <1>4, <1>6, PlotTyped
    <2> DEFINE r == [b.Plots[p] EXCEPT !.Crop = id]
    <2>2. r \in PlotType /\ r.Crop = id
        BY <2>1 DEF PlotType
    <2>3. q = [r EXCEPT !.PlantedAt = now, !.Critter = FALSE]
        OBVIOUS
    <2> HIDE DEF r, q
    <2> QED
        BY <2>2, <2>3 DEF PlotType
<1>8. x = [b EXCEPT !.Plots[p] = q]
    BY <1>1 DEF Planted
<1> HIDE DEF q
<1>9. PlotFits(b, q)
    <2>1. Unlocked(b, crop.Unlock)
        BY <1>1, <1>5, <1>6 DEF Unlocked
    <2> QED
        BY <1>7, <2>1 DEF PlotFits
<1>10. Tended(b, x)
    BY <1>1, <1>4, <1>6, <1>7, <1>8, <1>9, FittingPlotTends
<1> QED
    BY <1>4, <1>10, TendedTwice

\* Harvesting by hand is tending.
LEMMA HarvestTends ==
    ASSUME NEW st \in Save, NEW p, NEW now \in Int, NEW x \in Harvest(st, p, now)
    PROVE  Tended(st, x)
<1> DEFINE crop == ById(Content.Crops, st.Plots[p].Crop)
<1>1. p \in DOMAIN st.Plots /\ st.Plots[p].Crop # Nothing
    BY DEF Harvest, When, PlotReady
<1>2. PICK h \in Harvested(st, crop) :
          x = [h EXCEPT !.Plots[p] = [@ EXCEPT !.Crop = Nothing, !.PlantedAt = 0,
                                               !.Critter = FALSE]]
    BY DEF Harvest, When
<1>3. crop \in GoodCrop
    BY <1>1, PlotTyped, CropById DEF PlotType
<1> HIDE DEF crop
<1>4. Tended(st, h) /\ h \in Save
    BY <1>2, <1>3, HarvestedTends DEF Tended
<1>5. p \in DOMAIN h.Plots
    BY <1>1, <1>4, TendedKeeps
<1> DEFINE q == [h.Plots[p] EXCEPT !.Crop = Nothing, !.PlantedAt = 0, !.Critter = FALSE]
<1>6. q \in PlotType /\ q.Crop = Nothing
    <2>1. h.Plots[p] \in PlotType
        BY <1>4, <1>5, PlotTyped
    <2> DEFINE r == [h.Plots[p] EXCEPT !.Crop = Nothing]
    <2>2. r \in PlotType /\ r.Crop = Nothing
        BY <2>1 DEF PlotType
    <2> DEFINE w == [r EXCEPT !.PlantedAt = 0]
    <2>3. w \in PlotType /\ w.Crop = Nothing
        <3> HIDE DEF r
        <3> QED
            BY <2>2 DEF PlotType
    <2>4. q = [w EXCEPT !.Critter = FALSE]
        OBVIOUS
    <2> HIDE DEF w, q
    <2> QED
        BY <2>3, <2>4 DEF PlotType
<1>7. x = [h EXCEPT !.Plots[p] = q]
    BY <1>2
<1> HIDE DEF q
<1>8. Tended(h, x)
    BY <1>4, <1>5, <1>6, <1>7, PlotTends
<1> QED
    BY <1>4, <1>8, TendedTwice

\* So is shooing a critter away, for its reward.
LEMMA ShooCritterTends ==
    ASSUME NEW st \in Save, NEW p, NEW x \in ShooCritter(st, p)
    PROVE  Tended(st, x)
<1> DEFINE q == [st.Plots[p] EXCEPT !.Critter = FALSE]
           y == [st EXCEPT !.Plots[p] = q]
<1>1. p \in DOMAIN st.Plots
    BY DEF ShooCritter, When
<1>2. PICK reward \in RollRange(Content.Critters.ShooRewardMin,
                                Content.Critters.ShooRewardMax) :
          x = Credit(y, reward)
    BY DEF ShooCritter, When
<1>3. reward \in Int
    BY PartsTyped, RollRangeType
<1>4. q \in PlotType /\ q.Crop = st.Plots[p].Crop /\ q.Critter = FALSE
    BY <1>1, PlotTyped DEF PlotType
<1> HIDE DEF q
<1>5. Tended(st, y) /\ y \in Save
    BY <1>1, <1>4, PlotTends DEF Tended
<1> HIDE DEF y
<1>6. Tended(y, x)
    BY <1>2, <1>3, <1>5, CreditTends
<1> QED
    BY <1>5, <1>6, TendedTwice

\* A plot has a price.
LEMMA PlotPriceType ==
    ASSUME NEW base \in Nat, NEW pct \in Nat \ {0}, NEW n \in Nat, NEW discount \in Nat
    PROVE  PlotPrice(base, pct, n, discount) \in Nat
<1> DEFINE d == IF discount >= 100 THEN 99 ELSE discount
           c == Grown(base, pct, n)
           w == Wrap(c * (100 - d))
<1>1. c \in Nat /\ 100 - d \in Nat
    BY GrownType
<1> HIDE DEF c, d
<1>2. c * (100 - d) \in Nat
    BY <1>1, Monotone
<1>3. w \in Int
    BY <1>2, MoneyAssumption, Z3 DEF Wrap
<1>4. PlotPrice(base, pct, n, discount) = IF Quo(w, 100) < 1 THEN 1 ELSE Quo(w, 100)
    BY DEF PlotPrice, c, d
<1> HIDE DEF w
<1>5. Quo(w, 100) \in Int
    BY <1>3 DEF Quo
<1> QED
    BY <1>4, <1>5

\* So has its automation.
LEMMA PlotAutoHarvestCostType ==
    ASSUME NEW st \in Save
    PROVE  PlotAutoHarvestCost(st) \in Nat
<1> DEFINE A == {i \in DOMAIN st.Plots : st.Plots[i].AutoHarvest}
           n == Cardinality(A)
<1>1. Len(st.Plots) \in Nat /\ DOMAIN st.Plots = 1 .. Len(st.Plots)
    BY SaveTyped
<1>2. IsFiniteSet(1 .. Len(st.Plots)) /\ A \subseteq 1 .. Len(st.Plots)
    BY <1>1, FS_Interval
<1>3. n \in Nat
    BY <1>2, FS_Subset, FS_CardinalityType
<1> HIDE DEF n
<1> QED
    BY <1>3, AutomationTyped, GrownType DEF PlotAutoHarvestCost, n

\* To automate a plot is tending.
LEMMA UpgradePlotAutoTends ==
    ASSUME NEW st \in Save, NEW p, NEW kind, NEW x \in UpgradePlotAuto(st, p, kind)
    PROVE  Tended(st, x)
<1> DEFINE cost == IF kind = "harvest" THEN PlotAutoHarvestCost(st)
                   ELSE Content.PlotAutomation.AutoSowCost
           b == Bought(st, cost)
           q == IF kind = "harvest" THEN [b.Plots[p] EXCEPT !.AutoHarvest = TRUE]
                ELSE [b.Plots[p] EXCEPT !.AutoSow = TRUE]
<1>1. /\ p \in DOMAIN st.Plots /\ st.Coins >= cost
      /\ x = [b EXCEPT !.Plots[p] = q]
    BY DEF UpgradePlotAuto, When
<1>2. cost \in Nat
    BY AutomationTyped, PlotAutoHarvestCostType
<1> HIDE DEF cost
<1>3. Tended(st, b) /\ b \in Save
    BY <1>1, <1>2, SaveTyped, PaymentTends DEF Bought, Tended, Amount
<1>4. p \in DOMAIN b.Plots
    BY <1>1, <1>3, TendedKeeps
<1> HIDE DEF b
<1>5. q \in PlotType /\ q.Crop = b.Plots[p].Crop /\ q.Critter = b.Plots[p].Critter
    BY <1>3, <1>4, PlotTyped DEF PlotType
<1> HIDE DEF q
<1>6. Tended(b, x)
    BY <1>1, <1>3, <1>4, <1>5, PlotTends
<1> QED
    BY <1>3, <1>6, TendedTwice

\* What an action may do to a save.
StepKeeps(st, x) ==
    Good(x) /\ Lasting(st, x) /\ GiftPaid(st, x) /\ GrowsOn(st, x)

\* Tending keeps what a step has to keep.
LEMMA TendedStep ==
    ASSUME NEW st, Good(st), NEW x, Tended(st, x)
    PROVE  StepKeeps(st, x)
BY TendedIsGood, SettledIsPaid DEF StepKeeps, Good

\* Actions follow a catch-up.
LEMMA StepAfterSettling ==
    ASSUME NEW st, Good(st), NEW b, Good(b), Lasting(st, b), Settled(st, b),
           NEW x, StepKeeps(b, x)
    PROVE  StepKeeps(st, x)
<1>1. /\ b.PrestigeCurrency = st.PrestigeCurrency
      /\ b.Rebirths = st.Rebirths /\ b.Multipliers = st.Multipliers
    BY DEF Settled
<1>2. st \in Save /\ b \in Save /\ x \in Save
    BY DEF Good, StepKeeps
<1>3. Lasting(st, x)
    BY <1>1, <1>2, LastingTwice DEF StepKeeps
<1>4. GiftPaid(st, x)
    <2> SUFFICES ASSUME GiftsPay, st.GiftPending, ~x.GiftPending
                 PROVE  /\ x.Rebirths = st.Rebirths
                        /\ \/ x.LifetimeEarnings >= SatAdd(st.LifetimeEarnings, 1)
                           \/ x.PrestigeCurrency >= SatAdd(st.PrestigeCurrency, 1)
        BY DEF GiftPaid
    <2>1. /\ x.Rebirths = b.Rebirths
          /\ \/ x.LifetimeEarnings >= SatAdd(b.LifetimeEarnings, 1)
             \/ x.PrestigeCurrency >= SatAdd(b.PrestigeCurrency, 1)
        BY <1>1 DEF StepKeeps, GiftPaid, Settled
    <2>2. /\ x.LifetimeEarnings \in Amount /\ b.LifetimeEarnings \in Amount
          /\ st.LifetimeEarnings \in Amount
          /\ st.LifetimeEarnings <= b.LifetimeEarnings
        BY <1>1, <1>2, SaveTyped DEF Lasting, Amount
    <2>3. SatAdd(st.LifetimeEarnings, 1) <= SatAdd(b.LifetimeEarnings, 1)
        BY <2>2, SatAddKeepsOrder
    <2>4. SatAdd(st.LifetimeEarnings, 1) \in Amount /\ SatAdd(b.LifetimeEarnings, 1) \in Amount
        BY <2>2, SatAddType
    <2>5. /\ SatAdd(st.LifetimeEarnings, 1) \in Int /\ SatAdd(b.LifetimeEarnings, 1) \in Int
          /\ x.LifetimeEarnings \in Int
        BY <2>2, <2>4 DEF Amount
    <2> QED
        BY <1>1, <2>1, <2>3, <2>5 DEF Settled
<1> QED
    BY <1>1, <1>3, <1>4 DEF StepKeeps, GrowsOn

\* And purchases a payment.
LEMMA StepAfterTending ==
    ASSUME NEW st, Good(st), NEW b, Tended(st, b), NEW x, StepKeeps(b, x)
    PROVE  StepKeeps(st, x)
BY TendedIsGood, StepAfterSettling

\* Achievements follow an action.
LEMMA StepThenAchievements ==
    ASSUME NEW st, Good(st), NEW b, StepKeeps(st, b), NEW now \in Int
    PROVE  StepKeeps(st, CheckAchievements(b, now))
<1> DEFINE x == CheckAchievements(b, now)
<1>1. Good(b) /\ Lasting(st, b) /\ GiftPaid(st, b) /\ GrowsOn(st, b)
    BY DEF StepKeeps
<1>2. Good(x) /\ Lasting(b, x) /\ Settled(b, x) /\ x.Plots = b.Plots
    BY <1>1, AchievementsKeep
<1> HIDE DEF x
<1>3. st \in Save /\ b \in Save /\ x \in Save
    BY <1>1, <1>2 DEF Good
<1>4. Lasting(st, x)
    BY <1>1, <1>2, <1>3, LastingTwice
<1>5. GiftPaid(st, x)
    <2> SUFFICES ASSUME GiftsPay, st.GiftPending, ~x.GiftPending
                 PROVE  /\ x.Rebirths = st.Rebirths
                        /\ \/ x.LifetimeEarnings >= SatAdd(st.LifetimeEarnings, 1)
                           \/ x.PrestigeCurrency >= SatAdd(st.PrestigeCurrency, 1)
        BY DEF GiftPaid
    <2>1. /\ x.Rebirths = st.Rebirths /\ x.PrestigeCurrency = b.PrestigeCurrency
          /\ \/ b.LifetimeEarnings >= SatAdd(st.LifetimeEarnings, 1)
             \/ b.PrestigeCurrency >= SatAdd(st.PrestigeCurrency, 1)
        BY <1>1, <1>2 DEF GiftPaid, Settled
    <2>2. st.LifetimeEarnings \in Amount
        BY <1>3, SaveTyped
    <2>3. SatAdd(st.LifetimeEarnings, 1) \in Amount
        BY <2>2, SatAddType
    <2>4. /\ SatAdd(st.LifetimeEarnings, 1) \in Int
          /\ x.LifetimeEarnings \in Int /\ b.LifetimeEarnings \in Int
          /\ x.LifetimeEarnings >= b.LifetimeEarnings
        BY <1>2, <1>3, <2>3, SaveTyped DEF Amount, Lasting
    <2> QED
        BY <2>1, <2>4
<1>6. GrowsOn(st, x)
    BY <1>1, <1>2 DEF GrowsOn, Settled, AllPlotsEmpty
<1>7. StepKeeps(st, x)
    BY <1>2, <1>4, <1>5, <1>6 DEF StepKeeps
<1> QED
    BY <1>7 DEF x

\* More land, and nothing on it.
LEMMA LandStep ==
    ASSUME NEW st, Good(st), NEW x \in Save,
           But({"PurchasedPlots", "Plots", "Zones"}, st, x),
           st.Zones \subseteq x.Zones, LandFits(x),
           \A r \in DOMAIN x.Plots :
              \/ x.Plots[r].Crop = Nothing
              \/ r \in DOMAIN st.Plots /\ x.Plots[r] = st.Plots[r]
    PROVE  StepKeeps(st, x)
<1>1. /\ x.Multipliers = st.Multipliers /\ x.Upgrades = st.Upgrades
      /\ x.GiftPending = st.GiftPending /\ x.UpdatedAt = st.UpdatedAt
      /\ x.EventID = st.EventID /\ x.EventEndsAt = st.EventEndsAt
      /\ x.PrestigeCurrency = st.PrestigeCurrency /\ x.Coins = st.Coins
      /\ x.RunEarnings = st.RunEarnings /\ x.LifetimeEarnings = st.LifetimeEarnings
      /\ x.LifetimeHarvests = st.LifetimeHarvests
      /\ x.Achievements = st.Achievements /\ x.Rebirths = st.Rebirths
    BY DEF But, Good, Save
<1>2. Backed(x)
    BY <1>1, StartCoinsStay DEF Good, Backed
<1>3. /\ st.LifetimeEarnings \in Int /\ st.LifetimeHarvests \in Int
      /\ st.Rebirths \in Int /\ st \in Save
    BY SaveTyped DEF Amount, Good
<1>4. Fits(x)
    BY <1>1, <1>3, FitsStays DEF Good
<1>5. Good(x)
    BY <1>1, <1>2, <1>4 DEF Good, InForceAt
<1>6. Lasting(st, x)
    BY <1>1, <1>3, SaveLevels DEF Lasting
<1>7. Settled(st, x)
    BY <1>1 DEF Settled
<1> QED
    BY <1>3, <1>5, <1>6, <1>7, SettledIsPaid DEF StepKeeps

\* What is bought for a run, and what a player sets.
Extras == {"Multipliers", "SeedUpgrades", "FarmName", "FlavorEnabled"}

\* So does an extra, when it lowers no multiplier.
LEMMA ExtrasStep ==
    ASSUME NEW st, Good(st), NEW x \in Save, But(Extras, st, x),
           \A id \in Ids(Content.Multipliers) : st.Multipliers[id] <= x.Multipliers[id]
    PROVE  StepKeeps(st, x)
<1>1. /\ x.Upgrades = st.Upgrades /\ x.Plots = st.Plots /\ x.Zones = st.Zones
      /\ x.PurchasedPlots = st.PurchasedPlots
      /\ x.GiftPending = st.GiftPending /\ x.UpdatedAt = st.UpdatedAt
      /\ x.EventID = st.EventID /\ x.EventEndsAt = st.EventEndsAt
      /\ x.Coins = st.Coins
      /\ x.RunEarnings = st.RunEarnings /\ x.LifetimeEarnings = st.LifetimeEarnings
      /\ x.LifetimeHarvests = st.LifetimeHarvests
      /\ x.Achievements = st.Achievements /\ x.Rebirths = st.Rebirths
    BY DEF But, Good, Save, Extras
<1>2. Backed(x)
    BY <1>1, StartCoinsStay DEF Good, Backed
<1>3. /\ st.LifetimeEarnings \in Int /\ st.LifetimeHarvests \in Int
      /\ st.Rebirths \in Int /\ st \in Save
    BY SaveTyped DEF Amount, Good
<1>4. Fits(x)
    BY <1>1, <1>3, FitsStays DEF Good
<1>5. Good(x)
    BY <1>1, <1>2, <1>4 DEF Good, InForceAt, LandFits
<1>6. Lasting(st, x)
    BY <1>1, <1>3, SaveLevels DEF Lasting
<1> QED
    BY <1>1, <1>5, <1>6 DEF StepKeeps, GiftPaid, GrowsOn

\* A plot has a price only while the farm has room for it.
LEMMA NextPlotCostIs ==
    ASSUME NEW st \in Save, NextPlotCost(st) >= 0
    PROVE  /\ NextPlotCost(st) \in Nat
           /\ Content.Start.Plots + st.PurchasedPlots < Content.Land.MaxPlots
<1>1. Owned(Content.Upgrades, st.Upgrades, "plot_discount_pct") \in Nat
    BY OwnedType, SaveLevels
<1>2. st.PurchasedPlots \in Nat
    BY SaveTyped
<1>3. PlotPrice(Content.Land.BasePlotCost, Content.Land.GrowthPct, st.PurchasedPlots,
                Owned(Content.Upgrades, st.Upgrades, "plot_discount_pct")) \in Nat
    BY <1>1, <1>2, RunTyped, PlotPriceType
<1>4. /\ Content.Start.Plots \in Int /\ Content.Land.MaxPlots \in Int
    BY RunTyped
<1> QED
    BY <1>2, <1>3, <1>4 DEF NextPlotCost

\* The terms of ZonePlots.
ZoneTerms(zones) ==
    [i \in 1 .. Len(Content.Zones) |->
        IF Content.Zones[i].ID \in zones THEN Content.Zones[i].ExtraPlots ELSE 0]

\* The plots of the zones that are owned, zone by zone.
LEMMA ZoneTermsTyped ==
    ASSUME NEW zones
    PROVE  /\ ZoneTerms(zones) \in [1 .. Len(Content.Zones) -> Nat]
           /\ Len(Content.Zones) \in Nat /\ DOMAIN Content.Zones = 1 .. Len(Content.Zones)
           /\ ZonePlots(zones) = SumTo(Len(Content.Zones), ZoneTerms(zones))
<1>1. Len(Content.Zones) \in Nat /\ DOMAIN Content.Zones = 1 .. Len(Content.Zones)
    BY ContentTyped
<1>2. \A i \in 1 .. Len(Content.Zones) : Content.Zones[i].ExtraPlots \in Nat
    <2>1. ValidZones(Content)
        BY EngineAssumption DEF Validate
    <2>2. \A i \in 1 .. Len(Content.Zones) : Content.Zones[i] \in ZoneType
        BY <1>1, ContentTyped
    <2> QED
        BY <1>1, <2>1, <2>2 DEF ValidZones, ZoneType
<1>3. ZoneTerms(zones) \in [1 .. Len(Content.Zones) -> Nat]
    BY <1>2 DEF ZoneTerms
<1> QED
    BY <1>1, <1>3 DEF ZonePlots, ZoneTerms

\* They are so many plots.
LEMMA ZonePlotsType ==
    ASSUME NEW zones
    PROVE  ZonePlots(zones) \in Nat
BY ZoneTermsTyped, SumType

\* No zone has none.
LEMMA NoZonesNoPlots == ZonePlots({}) = 0
<1>1. \A i \in 1 .. Len(Content.Zones) : ZoneTerms({})[i] = 0
    BY DEF ZoneTerms
<1> QED
    BY <1>1, ZoneTermsTyped, SumOfNothing

\* No two zones have the same id, so one zone brings the plots of one.
LEMMA ZoneAddsPlots ==
    ASSUME NEW zones, NEW id \in Ids(Content.Zones), id \notin zones
    PROVE  ZonePlots(zones \cup {id})
              = ZonePlots(zones) + ById(Content.Zones, id).ExtraPlots
<1> DEFINE n == Len(Content.Zones)
           w == ZoneTerms(zones)
           v == ZoneTerms(zones \cup {id})
           name == [i \in 1 .. n |-> Content.Zones[i].ID]
<1>1. /\ w \in [1 .. n -> Nat] /\ v \in [1 .. n -> Nat]
      /\ n \in Nat /\ DOMAIN Content.Zones = 1 .. n
      /\ ZonePlots(zones) = SumTo(n, w)
      /\ ZonePlots(zones \cup {id}) = SumTo(n, v)
    BY ZoneTermsTyped
<1>2. PICK j \in 1 .. n :
          ById(Content.Zones, id) = Content.Zones[j] /\ Content.Zones[j].ID = id
    BY <1>1, ByIdIs
<1>3. ASSUME NEW i \in 1 .. n, Content.Zones[i].ID = id PROVE i = j
    <2>1. ValidZones(Content)
        BY EngineAssumption DEF Validate
    <2>2. Cardinality(Ids(Content.Zones)) = n
        BY <2>1 DEF ValidZones, Distinct
    <2>3. name \in Surjection(1 .. n, Ids(Content.Zones))
        BY <1>1 DEF Surjection, Ids
    <2>4. IsFiniteSet(1 .. n) /\ Cardinality(1 .. n) = n
        <3> HIDE DEF n
        <3>1. /\ IsFiniteSet(1 .. n)
              /\ Cardinality(1 .. n) = IF 1 > n THEN 0 ELSE n - 1 + 1
            BY <1>1, FS_Interval
        <3> QED
            BY <1>1, <3>1
    <2>5. name \in Injection(1 .. n, Ids(Content.Zones))
        BY <2>2, <2>3, <2>4, FS_SurjSameCardinalityImpliesInj
    <2>6. name[i] = name[j]
        BY <1>2, <1>3
    <2> HIDE DEF name
    <2> QED
        BY <2>5, <2>6 DEF Injection, IsInjective
<1>4. w[j] = 0 /\ v[j] = Content.Zones[j].ExtraPlots
    BY <1>2 DEF ZoneTerms
<1>5. \A i \in (1 .. n) \ {j} : w[i] = v[i]
    BY <1>3 DEF ZoneTerms
<1> HIDE DEF n, w, v
<1>6. SumTo(n, v) + w[j] = SumTo(n, w) + v[j]
    BY <1>1, <1>5, SumChanges
<1>7. SumTo(n, v) \in Nat
    BY <1>1, SumType
<1> QED
    BY <1>1, <1>2, <1>4, <1>6, <1>7

\* A new plot.
LEMMA EmptyPlotTyped == EmptyPlot \in PlotType /\ EmptyPlot.Crop = Nothing
BY DEF EmptyPlot, PlotType

\* A plot that is bought is counted.
LEMMA BuyPlotStep ==
    ASSUME NEW st, Good(st), NEW x \in BuyPlot(st)
    PROVE  StepKeeps(st, x)
<1> DEFINE cost == NextPlotCost(st)
           b == Bought(st, cost)
           plots == Append(b.Plots, EmptyPlot)
           n == b.PurchasedPlots + 1
<1>1. st \in Save
    BY DEF Good
<1>2. /\ cost >= 0 /\ st.Coins >= cost
      /\ x = [b EXCEPT !.PurchasedPlots = n, !.Plots = plots]
    BY DEF BuyPlot, When
<1>3. cost \in Nat /\ Content.Start.Plots + st.PurchasedPlots < Content.Land.MaxPlots
    BY <1>1, <1>2, NextPlotCostIs
<1> HIDE DEF cost
<1>4. Tended(st, b) /\ b \in Save
    BY <1>1, <1>2, <1>3, SaveTyped, PaymentTends DEF Bought, Tended, Amount
<1>5. b.PurchasedPlots = st.PurchasedPlots /\ Good(b)
    BY <1>1, <1>4, TendedKeeps, TendedIsGood
<1> HIDE DEF b
<1>6. b.Plots \in Seq(PlotType) /\ b.PurchasedPlots \in Nat
    BY <1>4, SaveTyped
<1>7. /\ plots \in Seq(PlotType) /\ Len(plots) = Len(b.Plots) + 1
      /\ DOMAIN plots = 1 .. Len(b.Plots) + 1
      /\ DOMAIN b.Plots = 1 .. Len(b.Plots) /\ Len(b.Plots) \in Nat
      /\ \A r \in 1 .. Len(b.Plots) : plots[r] = b.Plots[r]
      /\ plots[Len(b.Plots) + 1] = EmptyPlot
    BY <1>6, EmptyPlotTyped
<1> HIDE DEF plots
<1>8. n \in Nat /\ n = b.PurchasedPlots + 1
    BY <1>6
<1> HIDE DEF n
<1>9. /\ x \in Save /\ x.Plots = plots /\ x.PurchasedPlots = n /\ x.Zones = b.Zones
      /\ But({"PurchasedPlots", "Plots", "Zones"}, b, x)
    BY <1>2, <1>4, <1>7, <1>8 DEF Save, But
<1>10. \A r \in DOMAIN x.Plots :
              \/ x.Plots[r].Crop = Nothing
              \/ r \in DOMAIN b.Plots /\ x.Plots[r] = b.Plots[r]
    <2>1. ASSUME NEW r \in DOMAIN x.Plots, r # Len(b.Plots) + 1
          PROVE  r \in 1 .. Len(b.Plots)
        BY <1>7, <1>9, <2>1
    <2> QED
        BY <1>7, <1>9, <2>1, EmptyPlotTyped
<1>11. LandFits(x)
    <2>1. ZonePlots(b.Zones) \in Nat
        BY ZonePlotsType
    <2>2. /\ Content.Start.Plots \in Nat /\ Content.Land.MaxPlots \in Nat
        BY RunTyped
    <2>3. Len(b.Plots) = Content.Start.Plots + b.PurchasedPlots + ZonePlots(b.Zones)
        BY <1>5 DEF Good, LandFits
    <2>4. Len(plots) = Content.Start.Plots + n + ZonePlots(b.Zones)
        BY <1>6, <1>7, <1>8, <2>1, <2>2, <2>3
    <2>5. Content.Start.Plots + n <= Content.Land.MaxPlots
        BY <1>3, <1>5, <1>6, <1>8, <2>2
    <2> QED
        BY <1>9, <2>4, <2>5 DEF LandFits
<1>12. StepKeeps(b, x)
    BY <1>5, <1>9, <1>10, <1>11, LandStep
<1> QED
    BY <1>4, <1>12, StepAfterTending

\* A zone that is bought brings its plots.
LEMMA BuyZoneStep ==
    ASSUME NEW st, Good(st), NEW id \in Ids(Content.Zones), NEW x \in BuyZone(st, id)
    PROVE  StepKeeps(st, x)
<1> DEFINE zone == ById(Content.Zones, id)
           k == zone.ExtraPlots
           b == Bought(st, zone.Cost)
           plots == b.Plots \o [i \in 1 .. k |-> EmptyPlot]
           zones == b.Zones \cup {id}
<1>1. st \in Save
    BY DEF Good
<1>2. /\ id \notin st.Zones /\ st.Coins >= zone.Cost
      /\ x = [b EXCEPT !.Zones = zones, !.Plots = plots]
    BY DEF BuyZone, When
<1>3. zone.Cost \in Nat /\ k \in Nat
    BY ZoneById
<1>4. Tended(st, b) /\ b \in Save
    BY <1>1, <1>2, <1>3, SaveTyped, PaymentTends DEF Bought, Tended, Amount
<1>5. b.Zones = st.Zones /\ Good(b)
    BY <1>1, <1>4, TendedKeeps, TendedIsGood
<1> HIDE DEF b
<1>6. /\ b.Plots \in Seq(PlotType) /\ b.PurchasedPlots \in Nat
      /\ b.Zones \subseteq Ids(Content.Zones)
    BY <1>4, SaveTyped
<1>7. ZonePlots(zones) = ZonePlots(b.Zones) + k
    BY <1>2, <1>5, ZoneAddsPlots
<1> HIDE DEF k
<1>8. /\ plots \in Seq(PlotType) /\ Len(plots) = Len(b.Plots) + k
      /\ DOMAIN plots = 1 .. Len(b.Plots) + k
      /\ DOMAIN b.Plots = 1 .. Len(b.Plots) /\ Len(b.Plots) \in Nat
      /\ \A r \in 1 .. Len(b.Plots) + k :
            plots[r] = IF r <= Len(b.Plots) THEN b.Plots[r] ELSE EmptyPlot
    <2> DEFINE new == [i \in 1 .. k |-> EmptyPlot]
    <2>1. /\ new \in Seq(PlotType) /\ Len(new) = k
          /\ \A i \in 1 .. k : new[i] = EmptyPlot
        BY <1>3, EmptyPlotTyped
    <2> HIDE DEF new
    <2>2. plots = b.Plots \o new
        BY DEF new
    <2> HIDE DEF plots
    <2>6. /\ plots \in Seq(PlotType) /\ Len(plots) = Len(b.Plots) + k
          /\ \A r \in 1 .. Len(b.Plots) + k :
                plots[r] = IF r <= Len(b.Plots) THEN b.Plots[r] ELSE new[r - Len(b.Plots)]
        BY <1>6, <2>1, <2>2, ConcatProperties
    <2>3. \A r \in 1 .. Len(b.Plots) + k :
              r > Len(b.Plots) => r - Len(b.Plots) \in 1 .. k
        BY <1>3, <1>6
    <2>4. DOMAIN plots = 1 .. Len(b.Plots) + k
        BY <2>6
    <2>5. DOMAIN b.Plots = 1 .. Len(b.Plots) /\ Len(b.Plots) \in Nat
        BY <1>6
    <2> QED
        BY <2>1, <2>3, <2>4, <2>5, <2>6
<1> HIDE DEF plots
<1>9. zones \subseteq Ids(Content.Zones) /\ b.Zones \subseteq zones
    BY <1>6
<1> HIDE DEF zones
<1>10. /\ x \in Save /\ x.Plots = plots /\ x.PurchasedPlots = b.PurchasedPlots
       /\ x.Zones = zones
       /\ But({"PurchasedPlots", "Plots", "Zones"}, b, x)
    BY <1>2, <1>4, <1>8, <1>9 DEF Save, But
<1>11. \A r \in DOMAIN x.Plots :
              \/ x.Plots[r].Crop = Nothing
              \/ r \in DOMAIN b.Plots /\ x.Plots[r] = b.Plots[r]
    BY <1>8, <1>10, EmptyPlotTyped
<1>12. LandFits(x)
    <2>1. ZonePlots(b.Zones) \in Nat /\ Content.Start.Plots \in Nat
        BY ZonePlotsType, RunTyped
    <2>2. /\ Len(b.Plots) = Content.Start.Plots + b.PurchasedPlots + ZonePlots(b.Zones)
          /\ Content.Start.Plots + b.PurchasedPlots <= Content.Land.MaxPlots
        BY <1>5 DEF Good, LandFits
    <2>3. Len(plots) = Content.Start.Plots + b.PurchasedPlots + ZonePlots(zones)
        BY <1>3, <1>6, <1>7, <1>8, <2>1, <2>2
    <2> QED
        BY <1>10, <2>2, <2>3 DEF LandFits
<1>13. StepKeeps(b, x)
    BY <1>5, <1>9, <1>10, <1>11, <1>12, LandStep
<1> QED
    BY <1>4, <1>13, StepAfterTending

\* The prices of an id.
LEMMA LevelsById ==
    ASSUME NEW items \in {Content.Upgrades, Content.Multipliers}, NEW id \in Ids(items)
    PROVE  /\ ById(items, id).Cost \in Nat
           /\ ById(items, id).CostGrowthPct \in Nat \ {0}
           /\ ById(items, id).MaxLevel \in Nat
<1>1. PICK i \in DOMAIN items : ById(items, id) = items[i] /\ items[i].ID = id
    BY ByIdIs
<1> QED
    BY <1>1, LevelsTyped

\* A level that can be bought has a price.
LEMMA LevelCostIs ==
    ASSUME NEW item, item.Cost \in Nat, item.CostGrowthPct \in Nat \ {0},
           item.MaxLevel \in Nat, NEW level \in Nat, LevelCost(item, level) >= 0
    PROVE  LevelCost(item, level) \in Nat
<1>1. Grown(item.Cost, item.CostGrowthPct, level) \in Nat
    BY GrownType
<1> QED
    BY <1>1 DEF LevelCost

\* A multiplier that is bought grows by a level.
LEMMA BuyMultiplierStep ==
    ASSUME NEW st, Good(st), NEW id \in Ids(Content.Multipliers),
           NEW x \in BuyMultiplier(st, id)
    PROVE  StepKeeps(st, x)
<1> DEFINE cost == LevelCost(ById(Content.Multipliers, id), st.Multipliers[id])
           b == Bought(st, cost)
           levels == [b.Multipliers EXCEPT ![id] = @ + 1]
<1>1. st \in Save
    BY DEF Good
<1>2. /\ cost >= 0 /\ st.Coins >= cost
      /\ x = [b EXCEPT !.Multipliers = levels]
    BY DEF BuyMultiplier, When
<1>3. cost \in Nat
    <2>1. st.Multipliers[id] \in Nat
        BY <1>1, SaveLevels
    <2> QED
        BY <1>2, <2>1, LevelsById, LevelCostIs
<1> HIDE DEF cost
<1>4. Tended(st, b) /\ b \in Save
    BY <1>1, <1>2, <1>3, SaveTyped, PaymentTends DEF Bought, Tended, Amount
<1>5. Good(b)
    BY <1>4, TendedIsGood
<1> HIDE DEF b
<1>6. /\ levels \in [Ids(Content.Multipliers) -> Nat]
      /\ \A i \in Ids(Content.Multipliers) : b.Multipliers[i] <= levels[i]
    BY <1>4, SaveLevels
<1> HIDE DEF levels
<1>7. x \in Save /\ But(Extras, b, x) /\ x.Multipliers = levels
    BY <1>2, <1>4, <1>6 DEF Save, But, Extras
<1>8. StepKeeps(b, x)
    BY <1>5, <1>6, <1>7, ExtrasStep
<1> QED
    BY <1>4, <1>8, StepAfterTending

\* So does a seed upgrade.
LEMMA BuySeedUpgradeStep ==
    ASSUME NEW st, Good(st), NEW id \in Ids(Content.SeedUpgrades),
           NEW x \in BuySeedUpgrade(st, id)
    PROVE  StepKeeps(st, x)
<1> DEFINE su == ById(Content.SeedUpgrades, id)
           crop == su.CropID
           cost == LevelCost(su, st.SeedUpgrades[crop])
           b == Bought(st, cost)
           levels == [b.SeedUpgrades EXCEPT ![crop] = @ + 1]
<1>1. st \in Save
    BY DEF Good
<1>2. /\ cost >= 0 /\ st.Coins >= cost
      /\ x = [b EXCEPT !.SeedUpgrades = levels]
    BY DEF BuySeedUpgrade, When
<1>3. cost \in Nat /\ crop \in Ids(Content.Crops)
    <2>1. /\ crop \in Ids(Content.Crops)
          /\ su.Cost \in Nat /\ su.CostGrowthPct \in Nat \ {0} /\ su.MaxLevel \in Nat
        BY SeedUpgradeById
    <2>2. st.SeedUpgrades[crop] \in Nat
        BY <1>1, <2>1, SaveLevels
    <2> QED
        BY <1>2, <2>1, <2>2, LevelCostIs
<1> HIDE DEF cost, crop
<1>4. Tended(st, b) /\ b \in Save
    BY <1>1, <1>2, <1>3, SaveTyped, PaymentTends DEF Bought, Tended, Amount
<1>5. Good(b)
    BY <1>4, TendedIsGood
<1> HIDE DEF b
<1>6. levels \in [Ids(Content.Crops) -> Nat]
    BY <1>3, <1>4, SaveLevels
<1> HIDE DEF levels
<1>7. x \in Save /\ But(Extras, b, x) /\ x.Multipliers = b.Multipliers
    BY <1>2, <1>4, <1>6 DEF Save, But, Extras
<1>8. \A i \in Ids(Content.Multipliers) : b.Multipliers[i] <= x.Multipliers[i]
    BY <1>4, <1>7, SaveLevels
<1>9. StepKeeps(b, x)
    BY <1>5, <1>7, <1>8, ExtrasStep
<1> QED
    BY <1>4, <1>9, StepAfterTending

\* A name costs nothing.
LEMMA SetFarmNameStep ==
    ASSUME NEW st, Good(st), NEW name \in Names,
           NEW x \in SetFarmName(st, name)
    PROVE  StepKeeps(st, x)
<1>1. st \in Save
    BY DEF Good
<1>2. x = [st EXCEPT !.FarmName = name]
    BY DEF SetFarmName, When
<1>3. x \in Save /\ But(Extras, st, x) /\ x.Multipliers = st.Multipliers
    BY <1>1, <1>2 DEF Save, But, Extras
<1>4. \A i \in Ids(Content.Multipliers) : st.Multipliers[i] <= x.Multipliers[i]
    BY <1>1, <1>3, SaveLevels
<1> QED
    BY <1>3, <1>4, ExtrasStep

\* Nor does the flavor text.
LEMMA SetFlavorStep ==
    ASSUME NEW st, Good(st), NEW enabled \in BOOLEAN, NEW x \in SetFlavor(st, enabled)
    PROVE  StepKeeps(st, x)
<1>1. st \in Save
    BY DEF Good
<1>2. x = [st EXCEPT !.FlavorEnabled = enabled]
    BY DEF SetFlavor
<1>3. x \in Save /\ But(Extras, st, x) /\ x.Multipliers = st.Multipliers
    BY <1>1, <1>2 DEF Save, But, Extras
<1>4. \A i \in Ids(Content.Multipliers) : st.Multipliers[i] <= x.Multipliers[i]
    BY <1>1, <1>3, SaveLevels
<1> QED
    BY <1>3, <1>4, ExtrasStep

\* A permanent upgrade is paid in Starseeds.
LEMMA BuyUpgradeStep ==
    ASSUME NEW st, Good(st), NEW id \in Ids(Content.Upgrades),
           NEW x \in BuyUpgrade(st, id)
    PROVE  StepKeeps(st, x)
<1> DEFINE cost == LevelCost(ById(Content.Upgrades, id), st.Upgrades[id])
           left == st.PrestigeCurrency - cost
           levels == [st.Upgrades EXCEPT ![id] = @ + 1]
<1>1. st \in Save
    BY DEF Good
<1>2. /\ cost >= 0 /\ st.PrestigeCurrency >= cost
      /\ x = [st EXCEPT !.PrestigeCurrency = left, !.Upgrades = levels]
    BY DEF BuyUpgrade, When
<1>3. cost \in Nat
    <2>1. st.Upgrades[id] \in Nat
        BY <1>1, SaveLevels
    <2> QED
        BY <1>2, <2>1, LevelsById, LevelCostIs
<1> HIDE DEF cost
<1>4. left \in Amount
    BY <1>1, <1>2, <1>3, SaveTyped, MoneyAssumption DEF Amount
<1>5. /\ st.Upgrades \in [Ids(Content.Upgrades) -> Nat]
      /\ levels \in [Ids(Content.Upgrades) -> Nat]
      /\ \A i \in Ids(Content.Upgrades) : st.Upgrades[i] <= levels[i]
    BY <1>1, SaveLevels
<1> HIDE DEF left, levels
<1>6. /\ x \in Save /\ x.Upgrades = levels
      /\ x.Multipliers = st.Multipliers /\ x.Plots = st.Plots /\ x.Zones = st.Zones
      /\ x.PurchasedPlots = st.PurchasedPlots
      /\ x.GiftPending = st.GiftPending /\ x.UpdatedAt = st.UpdatedAt
      /\ x.EventID = st.EventID /\ x.EventEndsAt = st.EventEndsAt
      /\ x.Coins = st.Coins
      /\ x.RunEarnings = st.RunEarnings /\ x.LifetimeEarnings = st.LifetimeEarnings
      /\ x.LifetimeHarvests = st.LifetimeHarvests
      /\ x.Achievements = st.Achievements /\ x.Rebirths = st.Rebirths
    BY <1>1, <1>2, <1>4, <1>5 DEF Save
<1>7. /\ st.LifetimeEarnings \in Int /\ st.LifetimeHarvests \in Int
      /\ st.Rebirths \in Int
    BY <1>1, SaveTyped DEF Amount
<1>8. Backed(x)
    <2> DEFINE o == Owned(Content.Upgrades, st.Upgrades, "start_coins")
               p == Owned(Content.Upgrades, levels, "start_coins")
    <2>1. o \in Nat /\ p \in Nat /\ o <= p
        BY <1>5, OwnedType, OwnedGrows
    <2>2. StartCoins(st) = SatAdd(Content.Start.Coins, o)
             /\ StartCoins(x) = SatAdd(Content.Start.Coins, p)
        BY <1>6 DEF StartCoins
    <2> HIDE DEF o, p
    <2>3. StartCoins(st) <= StartCoins(x)
        BY <2>1, <2>2, RunTyped, MoneyAssumption DEF SatAdd
    <2>4. StartCoins(st) \in Amount /\ StartCoins(x) \in Amount
        BY <1>1, <1>6, StartCoinsType
    <2>5. st.RunEarnings \in Amount /\ st.Coins \in Amount
        BY <1>1, SaveTyped
    <2>6. SatAdd(StartCoins(st), st.RunEarnings) <= SatAdd(StartCoins(x), st.RunEarnings)
        BY <2>3, <2>4, <2>5, SatAddKeepsOrder DEF Amount
    <2>7. SatAdd(StartCoins(st), st.RunEarnings) \in Amount
             /\ SatAdd(StartCoins(x), st.RunEarnings) \in Amount
        <3>1. st.RunEarnings \in Nat
            BY <2>5, MoneyAssumption DEF Amount
        <3> QED
            BY <2>4, <3>1, SatAddType
    <2> QED
        BY <1>6, <2>5, <2>6, <2>7 DEF Good, Backed, Amount
<1>9. Fits(x)
    BY <1>1, <1>6, <1>7, FitsStays DEF Good
<1>10. Good(x)
    BY <1>6, <1>8, <1>9 DEF Good, LandFits, InForceAt
<1>11. Lasting(st, x)
    BY <1>5, <1>6, <1>7 DEF Lasting
<1>12. GrowsOn(st, x)
    BY <1>1, <1>6, SaveLevels DEF GrowsOn
<1> QED
    BY <1>6, <1>10, <1>11, <1>12 DEF StepKeeps, GiftPaid

\* A square root is no debt.
LEMMA IsqrtType ==
    ASSUME NEW n \in Nat
    PROVE  Isqrt(n) \in Nat
BY SquareRoot DEF Isqrt

\* A gift of coins is worth one at least, when the content lets gifts pay.
LEMMA GiftCoinRewardsAre ==
    ASSUME NEW st \in Save, NEW coins \in GiftCoinRewards(st)
    PROVE  coins \in Int /\ (GiftsPay => coins >= 1)
<1> DEFINE gifts == Content.Gifts
           Within(n) == Min({Max({n, gifts.CoinRewardFloor}), gifts.CoinRewardCeiling})
           raw == Isqrt(st.RunEarnings \div 10) + 10 + 50 * st.Rebirths
           base == Within(raw)
<1>1. gifts.CoinRewardFloor \in Int /\ gifts.CoinRewardCeiling \in Int
    BY PartsTyped
<1>2. ASSUME NEW n \in Int
      PROVE  Within(n) \in Int /\ (GiftsPay /\ n >= 1 => Within(n) >= 1)
    <2> DEFINE m == Max({n, gifts.CoinRewardFloor})
    <2>1. m \in Int /\ m >= n
        BY <1>1, MaxOfTwo
    <2> HIDE DEF m
    <2>2. Min({m, gifts.CoinRewardCeiling})
             = IF m <= gifts.CoinRewardCeiling THEN m ELSE gifts.CoinRewardCeiling
        BY <1>1, <2>1, MinOfTwo
    <2> QED
        BY <1>1, <2>1, <2>2 DEF GiftsPay, m
<1>3. raw \in Int /\ raw >= 1
    <2>1. st.RunEarnings \in Nat /\ st.Rebirths \in Nat
        BY SaveTyped, MoneyAssumption DEF Amount
    <2>2. Isqrt(st.RunEarnings \div 10) \in Nat
        BY <2>1, Quotient, IsqrtType
    <2> QED
        BY <2>1, <2>2
<1>4. PICK jitter \in RollRange(-(base \div 5), base \div 5) :
          coins = Within(base + jitter)
    BY DEF GiftCoinRewards
<1> HIDE DEF raw
<1>5. base \in Int /\ (GiftsPay => base >= 1)
    BY <1>2, <1>3
<1> HIDE DEF base
<1> DEFINE s == base \div 5
<1>6. s \in Int /\ (GiftsPay => s >= 0 /\ base - s >= 1)
    BY <1>5
<1>7. jitter \in RollRange(-s, s)
    BY <1>4
<1> HIDE DEF s
<1>8. jitter \in Int /\ (GiftsPay => jitter >= -s)
    BY <1>6, <1>7 DEF RollRange
<1>9. base + jitter \in Int /\ (GiftsPay => base + jitter >= 1)
    BY <1>5, <1>6, <1>8
<1> HIDE DEF Within
<1> QED
    BY <1>2, <1>4, <1>9

\* A gift that is redeemed is gone, and something was paid for it.
LEMMA RedeemGiftStep ==
    ASSUME NEW st, Good(st), NEW x \in RedeemGift(st)
    PROVE  StepKeeps(st, x)
<1> DEFINE opened == [st EXCEPT !.GiftPending = FALSE]
           seeds == Isqrt(st.RunEarnings \div Content.Prestige.Divisor) + 1 + st.Rebirths
           more == SatAdd(st.PrestigeCurrency, seeds)
<1>1. st \in Save
    BY DEF Good
<1>2. \/ x = [opened EXCEPT !.PrestigeCurrency = SatAdd(@, seeds)]
      \/ \E coins \in GiftCoinRewards(st) : x = Credit(opened, coins)
    BY DEF RedeemGift, When
<1>3. seeds \in Nat /\ seeds >= 1
    <2>1. st.RunEarnings \in Nat /\ st.Rebirths \in Nat
        BY <1>1, SaveTyped, MoneyAssumption DEF Amount
    <2> DEFINE n == st.RunEarnings \div Content.Prestige.Divisor
    <2>2. n \in Nat
        BY <2>1, RunTyped, Quotient
    <2> HIDE DEF n
    <2>3. Isqrt(n) \in Nat
        BY <2>2, IsqrtType
    <2> QED
        BY <2>1, <2>3 DEF n
<1> HIDE DEF seeds
<1>4. st.PrestigeCurrency \in Amount /\ st.LifetimeEarnings \in Amount
         /\ st.LifetimeHarvests \in Int /\ st.Rebirths \in Int
    BY <1>1, SaveTyped DEF Amount
<1>5. more \in Amount /\ more >= SatAdd(st.PrestigeCurrency, 1)
    <2>1. more \in Amount
        BY <1>3, <1>4, SatAddType
    <2> QED
        BY <1>3, <1>4, <2>1, MoneyAssumption DEF SatAdd, Amount
<1>6. CASE x = [opened EXCEPT !.PrestigeCurrency = SatAdd(@, seeds)]
    <2>1. x = [st EXCEPT !.GiftPending = FALSE, !.PrestigeCurrency = more]
        BY <1>1, <1>6 DEF Save
    <2> HIDE DEF more
    <2>2. /\ x \in Save /\ x.Upgrades = st.Upgrades /\ x.PrestigeCurrency = more
          /\ x.Multipliers = st.Multipliers /\ x.Plots = st.Plots /\ x.Zones = st.Zones
          /\ x.PurchasedPlots = st.PurchasedPlots /\ x.UpdatedAt = st.UpdatedAt
          /\ x.EventID = st.EventID /\ x.EventEndsAt = st.EventEndsAt
          /\ x.Coins = st.Coins
          /\ x.RunEarnings = st.RunEarnings /\ x.LifetimeEarnings = st.LifetimeEarnings
          /\ x.LifetimeHarvests = st.LifetimeHarvests
          /\ x.Achievements = st.Achievements /\ x.Rebirths = st.Rebirths
        BY <1>1, <1>5, <2>1 DEF Save
    <2>3. Backed(x)
        BY <2>2, StartCoinsStay DEF Good, Backed
    <2>4. Fits(x)
        BY <1>1, <1>4, <2>2, FitsStays DEF Good, Amount
    <2>5. Good(x)
        BY <2>2, <2>3, <2>4 DEF Good, LandFits, InForceAt
    <2>6. Lasting(st, x)
        BY <1>1, <1>4, <2>2, SaveLevels DEF Lasting, Amount
    <2>7. GrowsOn(st, x)
        BY <1>1, <2>2, SaveLevels DEF GrowsOn
    <2> QED
        BY <1>5, <2>2, <2>5, <2>6, <2>7 DEF StepKeeps, GiftPaid
<1>7. ASSUME NEW coins \in GiftCoinRewards(st), x = Credit(opened, coins)
      PROVE  StepKeeps(st, x)
    <2>1. coins \in Int /\ (GiftsPay => coins >= 1)
        BY <1>1, GiftCoinRewardsAre
    <2>2. /\ opened \in Save /\ But(Rolled, st, opened)
          /\ opened.EventID = st.EventID /\ opened.EventEndsAt = st.EventEndsAt
          /\ opened.UpdatedAt = st.UpdatedAt /\ opened.Achievements = st.Achievements
        BY <1>1 DEF Save, But, Rolled
    <2> HIDE DEF opened
    <2>3. /\ Backed(st) => Backed(opened)
          /\ Fits(st) => Fits(opened)
          /\ opened.Zones = st.Zones /\ opened.Multipliers = st.Multipliers
          /\ opened.Plots = st.Plots /\ opened.PurchasedPlots = st.PurchasedPlots
          /\ opened.Upgrades = st.Upgrades /\ opened.Rebirths = st.Rebirths
          /\ opened.LifetimeEarnings = st.LifetimeEarnings
          /\ opened.LifetimeHarvests = st.LifetimeHarvests
        BY <1>1, <2>2, RolledKeeps
    <2>4. Good(opened)
        BY <2>2, <2>3 DEF Good, LandFits, InForceAt
    <2>5. /\ Tended(opened, x)
          /\ GiftsPay => x.LifetimeEarnings >= SatAdd(opened.LifetimeEarnings, 1)
        BY <1>7, <2>1, <2>2, CreditTends, CreditIs
    <2>6. Good(x) /\ Lasting(opened, x) /\ Settled(opened, x)
        BY <2>4, <2>5, TendedIsGood
    <2>7. Lasting(st, x)
        BY <2>2, <2>3, <2>6 DEF Lasting
    <2>8. GrowsOn(st, x)
        BY <1>1, <2>3, <2>6, SaveLevels DEF GrowsOn, Settled
    <2> QED
        BY <2>3, <2>5, <2>6, <2>7, <2>8 DEF StepKeeps, GiftPaid, Settled
<1> QED
    BY <1>2, <1>6, <1>7

\* A new farm has its plots, and nothing on them.
LEMMA NewSaveTyped ==
    ASSUME NEW now \in Int
    PROVE  LET fresh == NewSave(now) IN
           /\ fresh.Plots \in Seq(PlotType)
           /\ Len(fresh.Plots) = Content.Start.Plots
           /\ \A p \in DOMAIN fresh.Plots : fresh.Plots[p] = EmptyPlot
           /\ fresh.Multipliers \in [Ids(Content.Multipliers) -> Nat]
           /\ fresh.SeedUpgrades \in [Ids(Content.Crops) -> Nat]
<1>1. Content.Start.Plots \in Nat
    BY RunTyped
<1>2. NewSave(now).Plots = [i \in 1 .. Content.Start.Plots |-> EmptyPlot]
         /\ NewSave(now).Multipliers = NoLevels(Ids(Content.Multipliers))
         /\ NewSave(now).SeedUpgrades = NoLevels(Ids(Content.Crops))
    BY DEF NewSave
<1>3. NoLevels(Ids(Content.Multipliers)) \in [Ids(Content.Multipliers) -> Nat]
         /\ NoLevels(Ids(Content.Crops)) \in [Ids(Content.Crops) -> Nat]
    BY DEF NoLevels
<1> DEFINE plots == [i \in 1 .. Content.Start.Plots |-> EmptyPlot]
<1>4. /\ plots \in Seq(PlotType) /\ Len(plots) = Content.Start.Plots
      /\ \A p \in DOMAIN plots : plots[p] = EmptyPlot
    BY <1>1, EmptyPlotTyped
<1> HIDE DEF plots
<1>5. NewSave(now).Plots = plots
    BY <1>2 DEF plots
<1> QED
    BY <1>2, <1>3, <1>4, <1>5

\* A rebirth starts a run over and keeps what is permanent.
LEMMA RebirthStep ==
    ASSUME NEW st, Good(st), NEW now \in Int, NEW x \in Rebirth(st, now)
    PROVE  StepKeeps(st, x)
<1> DEFINE fresh == NewSave(now)
           plots == fresh.Plots
           mult == fresh.Multipliers
           seed == fresh.SeedUpgrades
           stars == SatAdd(st.PrestigeCurrency, PrestigeGain(st))
           coins == StartCoins(st)
           again == st.Rebirths + 1
<1>1. st \in Save
    BY DEF Good
<1>2. /\ st.PrestigeCurrency \in Amount /\ st.LifetimeEarnings \in Amount
      /\ st.LifetimeHarvests \in Int /\ st.Rebirths \in Nat
    BY <1>1, SaveTyped DEF Amount
<1>3. stars \in Amount /\ coins \in Amount /\ again \in Nat /\ again >= st.Rebirths
    <2>1. st.RunEarnings \in Nat
        BY <1>1, SaveTyped, MoneyAssumption DEF Amount
    <2>2. PrestigeGain(st) \in Nat
        BY <2>1, RunTyped, Quotient, IsqrtType DEF PrestigeGain
    <2> QED
        BY <1>1, <1>2, <2>2, SatAddType, StartCoinsType
<1>4. /\ plots \in Seq(PlotType) /\ Len(plots) = Content.Start.Plots
      /\ \A p \in DOMAIN plots : plots[p] = EmptyPlot
      /\ mult \in [Ids(Content.Multipliers) -> Nat]
      /\ seed \in [Ids(Content.Crops) -> Nat]
    BY NewSaveTyped
<1>5. x = [st EXCEPT !.PrestigeCurrency = stars, !.Rebirths = again,
                     !.Coins = coins, !.Plots = plots, !.PurchasedPlots = 0,
                     !.Zones = {}, !.Multipliers = mult, !.SeedUpgrades = seed,
                     !.RunEarnings = 0, !.EventID = Nothing, !.EventEndsAt = 0,
                     !.UpdatedAt = now]
    BY DEF Rebirth, When, Reborn
<1> HIDE DEF plots, mult, seed, stars, again
<1>6. /\ x.Coins = coins /\ x.Plots = plots /\ x.PurchasedPlots = 0 /\ x.Zones = {}
      /\ x.RunEarnings = 0 /\ x.EventID = Nothing /\ x.Rebirths = again
      /\ x.LifetimeEarnings = st.LifetimeEarnings /\ x.Upgrades = st.Upgrades
      /\ x.LifetimeHarvests = st.LifetimeHarvests
      /\ x.Achievements = st.Achievements /\ x.GiftPending = st.GiftPending
    <2> HIDE DEF coins
    <2> QED
        BY <1>1, <1>5 DEF Save
<1>7. /\ x.EventEndsAt = 0 /\ x.UpdatedAt = now /\ x.PrestigeCurrency = stars
      /\ x.Multipliers = mult /\ x.SeedUpgrades = seed
      /\ x.FlavorEnabled = st.FlavorEnabled /\ x.FarmName = st.FarmName
      /\ x.MoonEpoch = st.MoonEpoch
    <2> HIDE DEF coins
    <2> QED
        BY <1>1, <1>5 DEF Save
<1>8. x \in Save
    <2>1. DOMAIN x = DOMAIN st
        BY <1>5
    <2>2. st.GiftPending \in BOOLEAN /\ st.FlavorEnabled \in BOOLEAN
             /\ st.FarmName \in Names /\ st.MoonEpoch \in Int
             /\ st.Achievements \in [Ids(Content.Achievements) -> Int]
             /\ st.Upgrades \in [Ids(Content.Upgrades) -> Nat]
             /\ st.LifetimeHarvests \in Amount
        BY <1>1 DEF Save
    <2>3. 0 \in Amount
        BY MoneyAssumption DEF Amount
    <2> HIDE DEF coins
    <2>4. x = [UpdatedAt |-> now, Coins |-> coins, Plots |-> plots,
               PurchasedPlots |-> 0, Zones |-> {}, RunEarnings |-> 0,
               Multipliers |-> mult, SeedUpgrades |-> seed,
               GiftPending |-> st.GiftPending, EventID |-> Nothing, EventEndsAt |-> 0,
               PrestigeCurrency |-> stars, Upgrades |-> st.Upgrades,
               Achievements |-> st.Achievements, Rebirths |-> again,
               LifetimeEarnings |-> st.LifetimeEarnings,
               LifetimeHarvests |-> st.LifetimeHarvests,
               FlavorEnabled |-> st.FlavorEnabled, FarmName |-> st.FarmName,
               MoonEpoch |-> st.MoonEpoch]
        BY <1>1, <1>5 DEF Save
    <2> QED
        BY <1>2, <1>3, <1>4, <2>2, <2>3, <2>4 DEF Save
<1>9. Backed(x)
    <2>1. StartCoins(x) = coins
        BY <1>6, StartCoinsStay
    <2> HIDE DEF coins
    <2>2. SatAdd(coins, 0) = coins
        BY <1>3, MoneyAssumption DEF SatAdd, Amount
    <2> QED
        BY <1>2, <1>3, <1>6, <2>1, <2>2 DEF Backed, Amount
<1>10. \A p \in DOMAIN x.Plots : x.Plots[p].Crop = Nothing /\ ~x.Plots[p].Critter
    BY <1>4, <1>6 DEF EmptyPlot
<1>11. Fits(x)
    BY <1>10 DEF Fits, PlotFits
<1>12. LandFits(x)
    <2>1. Content.Start.Plots \in Int
        BY RunTyped
    <2> QED
        BY <1>4, <1>6, <2>1, NoZonesNoPlots, RunTyped DEF LandFits
<1>13. Good(x)
    BY <1>6, <1>8, <1>9, <1>11, <1>12 DEF Good, InForceAt
<1>14. Lasting(st, x)
    BY <1>1, <1>2, <1>3, <1>6, SaveLevels DEF Lasting, Amount
<1>15. GrowsOn(st, x)
    BY <1>10 DEF GrowsOn, AllPlotsEmpty
<1> QED
    BY <1>6, <1>13, <1>14, <1>15 DEF StepKeeps, GiftPaid

-----------------------------------------------------------------------------
(* The farm.                                                                *)

\* A save that catches up, then what an action makes of it, marked for the next
\* write unless nothing has changed.
LEMMA OutcomeKeeps ==
    ASSUME NEW st, Good(st), NEW now \in Int, NEW outcomes,
           \A o \in outcomes :
              /\ o[1] \in Advance(st, now)
              /\ \A y \in o[2] : Good(o[1]) => StepKeeps(o[1], y),
           NEW o \in outcomes, NEW x
    PROVE  /\ o[2] = {} /\ x = o[1] =>
                 StepKeeps(st, x) /\ (x = st \/ now > st.UpdatedAt)
           /\ \A done \in o[2] : x = CheckAchievements(done, now) => StepKeeps(st, x)
<1>1. /\ Good(o[1]) /\ Lasting(st, o[1]) /\ Settled(st, o[1])
      /\ o[1] = st \/ now > st.UpdatedAt
    BY AdvanceKeeps
<1>2. StepKeeps(st, o[1])
    BY <1>1, SettledIsPaid DEF StepKeeps, Good
<1>3. ASSUME NEW done \in o[2] PROVE StepKeeps(st, CheckAchievements(done, now))
    <2>1. StepKeeps(o[1], done)
        BY <1>1
    <2>2. StepKeeps(st, done)
        BY <1>1, <2>1, StepAfterSettling
    <2> QED
        BY <2>2, StepThenAchievements
<1> QED
    BY <1>1, <1>2, <1>3

\* The inductive invariant of the farm.
FarmInv ==
    /\ Good(farm)
    /\ dirty \in BOOLEAN
    /\ clock \in Int

\* What a step of the farm does.
FarmStep ==
    /\ StepKeeps(farm, farm')
    /\ farm' # farm => dirty'
    /\ dirty' \in BOOLEAN
    /\ clock' \in Int /\ clock' >= clock

\* An intent: a catch-up, then the action, then the achievements.
LEMMA IntentKeeps ==
    ASSUME FarmInv, NEW play, NEW now \in Int, NEW STATE outcomes,
           \A o \in outcomes :
              /\ o[1] \in Advance(farm, now)
              /\ \A y \in o[2] : Good(o[1]) => StepKeeps(o[1], y),
           Intent(play, now, outcomes)
    PROVE  FarmStep
<1>1. clock' = clock /\ clock \in Int
    BY DEF Intent, FarmInv
<1>2. PICK o \in outcomes :
          \/ /\ o[2] = {}
             /\ farm' = o[1]
             /\ dirty' = (dirty \/ now > farm.UpdatedAt)
          \/ \E done \in o[2] :
                /\ farm' = CheckAchievements(done, now)
                /\ dirty' = TRUE
    BY DEF Intent
<1>3. Good(farm) /\ dirty \in BOOLEAN
    BY DEF FarmInv
<1>4. /\ o[2] = {} /\ farm' = o[1] =>
             StepKeeps(farm, farm') /\ (farm' = farm \/ now > farm.UpdatedAt)
      /\ \A done \in o[2] :
             farm' = CheckAchievements(done, now) => StepKeeps(farm, farm')
    BY <1>3, OutcomeKeeps
<1>5. CASE o[2] = {} /\ farm' = o[1] /\ dirty' = (dirty \/ now > farm.UpdatedAt)
    <2>1. StepKeeps(farm, farm') /\ (farm' = farm \/ now > farm.UpdatedAt)
        BY <1>4, <1>5
    <2>2. (farm' # farm => dirty') /\ dirty' \in BOOLEAN
        BY <2>1, <1>5
    <2> QED
        BY <1>1, <2>1, <2>2 DEF FarmStep
<1>6. CASE \E done \in o[2] : farm' = CheckAchievements(done, now) /\ dirty' = TRUE
    <2>1. StepKeeps(farm, farm')
        BY <1>4, <1>6
    <2>2. (farm' # farm => dirty') /\ dirty' \in BOOLEAN
        BY <1>6
    <2> QED
        BY <1>1, <2>1, <2>2 DEF FarmStep
<1> QED
    BY <1>2, <1>5, <1>6

\* A new save is a save.
LEMMA NewSaveIsSave ==
    ASSUME NEW now \in Int
    PROVE  /\ NewSave(now) \in Save
           /\ NewSave(now).Coins = Content.Start.Coins
           /\ NewSave(now).PurchasedPlots = 0 /\ NewSave(now).Zones = {}
           /\ NewSave(now).RunEarnings = 0 /\ NewSave(now).LifetimeEarnings = 0
           /\ NewSave(now).EventID = Nothing
<1> DEFINE x == NewSave(now)
           plots == x.Plots
           mult == x.Multipliers
           seed == x.SeedUpgrades
           up == NoLevels(Ids(Content.Upgrades))
           badges == [id \in Ids(Content.Achievements) |-> NotEarned]
           epoch == now \div DayLength
<1>1. /\ plots \in Seq(PlotType)
      /\ mult \in [Ids(Content.Multipliers) -> Nat]
      /\ seed \in [Ids(Content.Crops) -> Nat]
    BY NewSaveTyped
<1>2. up \in [Ids(Content.Upgrades) -> Nat]
    BY DEF NoLevels
<1>3. badges \in [Ids(Content.Achievements) -> Int]
    BY DEF NotEarned
<1>4. epoch \in Int
    BY EngineAssumption
<1>5. Content.Start.Coins \in Amount /\ 0 \in Amount
    BY RunTyped, MoneyAssumption DEF Amount
<1>6. Nothing \in Names
    BY DEF Names
<1>7. x = [UpdatedAt |-> now, Coins |-> Content.Start.Coins, Plots |-> plots,
           PurchasedPlots |-> 0, Zones |-> {}, RunEarnings |-> 0,
           Multipliers |-> mult, SeedUpgrades |-> seed, GiftPending |-> FALSE,
           EventID |-> Nothing, EventEndsAt |-> 0, PrestigeCurrency |-> 0,
           Upgrades |-> up, Achievements |-> badges, Rebirths |-> 0,
           LifetimeEarnings |-> 0, LifetimeHarvests |-> 0, FlavorEnabled |-> TRUE,
           FarmName |-> Nothing, MoonEpoch |-> epoch]
    BY DEF NewSave
<1> HIDE DEF plots, mult, seed, up, badges, epoch, x
<1>8. x \in Save
    BY <1>1, <1>2, <1>3, <1>4, <1>5, <1>6, <1>7 DEF Save
<1>9. /\ x.Coins = Content.Start.Coins
      /\ x.PurchasedPlots = 0 /\ x.Zones = {}
      /\ x.RunEarnings = 0 /\ x.LifetimeEarnings = 0
      /\ x.EventID = Nothing
    BY <1>7
<1> QED
    BY <1>8, <1>9 DEF x

\* A new save is a good one.
LEMMA NewSaveIsGood ==
    ASSUME NEW now \in Int
    PROVE  Good(NewSave(now))
<1> DEFINE x == NewSave(now)
           bonus == Owned(Content.Upgrades, x.Upgrades, "start_coins")
<1>1. /\ x \in Save
      /\ x.Coins = Content.Start.Coins
      /\ x.PurchasedPlots = 0 /\ x.Zones = {}
      /\ x.RunEarnings = 0 /\ x.LifetimeEarnings = 0
      /\ x.EventID = Nothing
    BY NewSaveIsSave
<1>2. /\ Len(x.Plots) = Content.Start.Plots
      /\ \A p \in DOMAIN x.Plots : x.Plots[p] = EmptyPlot
    BY NewSaveTyped
<1>3. bonus \in Nat
    BY <1>1, OwnedType, SaveLevels
<1>4. StartCoins(x) = SatAdd(Content.Start.Coins, bonus)
    BY DEF StartCoins
<1> HIDE DEF x, bonus
<1>5. Backed(x)
    <2> DEFINE start == Content.Start.Coins
    <2>1. start \in 0 .. MaxInt
        BY RunTyped
    <2>2. x.Coins <= SatAdd(SatAdd(start, bonus), 0)
        BY <1>1, <1>3, <2>1, MoneyAssumption DEF SatAdd
    <2> QED
        BY <1>1, <1>4, <2>2 DEF Backed
<1>6. Fits(x)
    BY <1>2, EmptyPlotTyped DEF Fits, PlotFits, EmptyPlot
<1>7. LandFits(x)
    BY <1>1, <1>2, RunTyped, NoZonesNoPlots DEF LandFits
<1> QED
    BY <1>1, <1>5, <1>6, <1>7 DEF Good, InForceAt, x

\* The farm begins with one.
LEMMA FarmBegins ==
    ASSUME Init
    PROVE  FarmInv
<1>1. DayLength \in Int
    BY EngineAssumption
<1> QED
    BY <1>1, NewSaveIsGood DEF Init, FarmInv

\* A farm that is left alone.
LEMMA FarmRests ==
    ASSUME FarmInv, farm' = farm, dirty' \in BOOLEAN, clock' \in Int, clock' >= clock
    PROVE  FarmStep
<1>1. Good(farm) /\ farm \in Save
    BY DEF FarmInv, Good
<1> QED
    BY <1>1, LastingReflexive, SettledIsPaid DEF FarmStep, StepKeeps

\* Every player's action, after the catch-up that precedes it.
LEMMA PlayKeeps ==
    ASSUME FarmInv,
           \/ PlantIntent \/ HarvestIntent \/ UpgradePlotAutoIntent \/ ShooCritterIntent
           \/ BuyPlotIntent \/ BuyZoneIntent \/ BuyMultiplierIntent
           \/ BuySeedUpgradeIntent \/ BuyUpgradeIntent \/ RedeemGiftIntent
           \/ SetFarmNameIntent \/ SetFlavorIntent \/ RebirthIntent
    PROVE  FarmStep
<1>0. ASSUME NEW now \in Times PROVE now \in Int
    BY <1>0 DEF Times
<1>1. CASE PlantIntent
    <2>1. PICK now \in Times, p \in PlotIndex, id \in Ids(Content.Crops) :
              Intent("plant", now, {<<st, Plant(st, p, id, now)>> : st \in CaughtUp(now)})
        BY <1>1 DEF PlantIntent
    <2> DEFINE outcomes == {<<st, Plant(st, p, id, now)>> : st \in CaughtUp(now)}
    <2>2. \A st : Good(st) => \A x \in Plant(st, p, id, now) : StepKeeps(st, x)
        BY <1>0, PlantTends, TendedStep DEF Good
    <2>3. \A o \in outcomes :
             /\ o[1] \in Advance(farm, now)
             /\ \A y \in o[2] : Good(o[1]) => StepKeeps(o[1], y)
        BY <2>2 DEF CaughtUp
    <2> HIDE DEF outcomes
    <2> QED
        BY <1>0, <2>1, <2>3, IntentKeeps DEF outcomes
<1>2. CASE HarvestIntent
    <2>1. PICK now \in Times, p \in PlotIndex :
              Intent("harvest", now, {<<st, Harvest(st, p, now)>> : st \in CaughtUp(now)})
        BY <1>2 DEF HarvestIntent
    <2> DEFINE outcomes == {<<st, Harvest(st, p, now)>> : st \in CaughtUp(now)}
    <2>2. \A st : Good(st) => \A x \in Harvest(st, p, now) : StepKeeps(st, x)
        BY <1>0, HarvestTends, TendedStep DEF Good
    <2>3. \A o \in outcomes :
             /\ o[1] \in Advance(farm, now)
             /\ \A y \in o[2] : Good(o[1]) => StepKeeps(o[1], y)
        BY <2>2 DEF CaughtUp
    <2> HIDE DEF outcomes
    <2> QED
        BY <1>0, <2>1, <2>3, IntentKeeps DEF outcomes
<1>3. CASE UpgradePlotAutoIntent
    <2>1. PICK now \in Times, p \in PlotIndex, kind \in {"harvest", "sow"} :
              Intent("automation", now, {<<st, UpgradePlotAuto(st, p, kind)>> : st \in CaughtUp(now)})
        BY <1>3 DEF UpgradePlotAutoIntent
    <2> DEFINE outcomes == {<<st, UpgradePlotAuto(st, p, kind)>> : st \in CaughtUp(now)}
    <2>2. \A st : Good(st) => \A x \in UpgradePlotAuto(st, p, kind) : StepKeeps(st, x)
        BY UpgradePlotAutoTends, TendedStep DEF Good
    <2>3. \A o \in outcomes :
             /\ o[1] \in Advance(farm, now)
             /\ \A y \in o[2] : Good(o[1]) => StepKeeps(o[1], y)
        BY <2>2 DEF CaughtUp
    <2> HIDE DEF outcomes
    <2> QED
        BY <1>0, <2>1, <2>3, IntentKeeps DEF outcomes
<1>4. CASE ShooCritterIntent
    <2>1. PICK now \in Times, p \in PlotIndex :
              Intent("shoo", now, {<<st, ShooCritter(st, p)>> : st \in CaughtUp(now)})
        BY <1>4 DEF ShooCritterIntent
    <2> DEFINE outcomes == {<<st, ShooCritter(st, p)>> : st \in CaughtUp(now)}
    <2>2. \A st : Good(st) => \A x \in ShooCritter(st, p) : StepKeeps(st, x)
        BY ShooCritterTends, TendedStep DEF Good
    <2>3. \A o \in outcomes :
             /\ o[1] \in Advance(farm, now)
             /\ \A y \in o[2] : Good(o[1]) => StepKeeps(o[1], y)
        BY <2>2 DEF CaughtUp
    <2> HIDE DEF outcomes
    <2> QED
        BY <1>0, <2>1, <2>3, IntentKeeps DEF outcomes
<1>5. CASE BuyPlotIntent
    <2>1. PICK now \in Times :
              Intent("plot", now, {<<st, BuyPlot(st)>> : st \in CaughtUp(now)})
        BY <1>5 DEF BuyPlotIntent
    <2> DEFINE outcomes == {<<st, BuyPlot(st)>> : st \in CaughtUp(now)}
    <2>2. \A st : Good(st) => \A x \in BuyPlot(st) : StepKeeps(st, x)
        BY BuyPlotStep
    <2>3. \A o \in outcomes :
             /\ o[1] \in Advance(farm, now)
             /\ \A y \in o[2] : Good(o[1]) => StepKeeps(o[1], y)
        BY <2>2 DEF CaughtUp
    <2> HIDE DEF outcomes
    <2> QED
        BY <1>0, <2>1, <2>3, IntentKeeps DEF outcomes
<1>6. CASE BuyZoneIntent
    <2>1. PICK now \in Times, id \in Ids(Content.Zones) :
              Intent("zone", now, {<<st, BuyZone(st, id)>> : st \in CaughtUp(now)})
        BY <1>6 DEF BuyZoneIntent
    <2> DEFINE outcomes == {<<st, BuyZone(st, id)>> : st \in CaughtUp(now)}
    <2>2. \A st : Good(st) => \A x \in BuyZone(st, id) : StepKeeps(st, x)
        BY BuyZoneStep
    <2>3. \A o \in outcomes :
             /\ o[1] \in Advance(farm, now)
             /\ \A y \in o[2] : Good(o[1]) => StepKeeps(o[1], y)
        BY <2>2 DEF CaughtUp
    <2> HIDE DEF outcomes
    <2> QED
        BY <1>0, <2>1, <2>3, IntentKeeps DEF outcomes
<1>7. CASE BuyMultiplierIntent
    <2>1. PICK now \in Times, id \in Ids(Content.Multipliers) :
              Intent("multiplier", now, {<<st, BuyMultiplier(st, id)>> : st \in CaughtUp(now)})
        BY <1>7 DEF BuyMultiplierIntent
    <2> DEFINE outcomes == {<<st, BuyMultiplier(st, id)>> : st \in CaughtUp(now)}
    <2>2. \A st : Good(st) => \A x \in BuyMultiplier(st, id) : StepKeeps(st, x)
        BY BuyMultiplierStep
    <2>3. \A o \in outcomes :
             /\ o[1] \in Advance(farm, now)
             /\ \A y \in o[2] : Good(o[1]) => StepKeeps(o[1], y)
        BY <2>2 DEF CaughtUp
    <2> HIDE DEF outcomes
    <2> QED
        BY <1>0, <2>1, <2>3, IntentKeeps DEF outcomes
<1>8. CASE BuySeedUpgradeIntent
    <2>1. PICK now \in Times, id \in Ids(Content.SeedUpgrades) :
              Intent("strain", now, {<<st, BuySeedUpgrade(st, id)>> : st \in CaughtUp(now)})
        BY <1>8 DEF BuySeedUpgradeIntent
    <2> DEFINE outcomes == {<<st, BuySeedUpgrade(st, id)>> : st \in CaughtUp(now)}
    <2>2. \A st : Good(st) => \A x \in BuySeedUpgrade(st, id) : StepKeeps(st, x)
        BY BuySeedUpgradeStep
    <2>3. \A o \in outcomes :
             /\ o[1] \in Advance(farm, now)
             /\ \A y \in o[2] : Good(o[1]) => StepKeeps(o[1], y)
        BY <2>2 DEF CaughtUp
    <2> HIDE DEF outcomes
    <2> QED
        BY <1>0, <2>1, <2>3, IntentKeeps DEF outcomes
<1>9. CASE BuyUpgradeIntent
    <2>1. PICK now \in Times, id \in Ids(Content.Upgrades) :
              Intent("upgrade", now, {<<st, BuyUpgrade(st, id)>> : st \in CaughtUp(now)})
        BY <1>9 DEF BuyUpgradeIntent
    <2> DEFINE outcomes == {<<st, BuyUpgrade(st, id)>> : st \in CaughtUp(now)}
    <2>2. \A st : Good(st) => \A x \in BuyUpgrade(st, id) : StepKeeps(st, x)
        BY BuyUpgradeStep
    <2>3. \A o \in outcomes :
             /\ o[1] \in Advance(farm, now)
             /\ \A y \in o[2] : Good(o[1]) => StepKeeps(o[1], y)
        BY <2>2 DEF CaughtUp
    <2> HIDE DEF outcomes
    <2> QED
        BY <1>0, <2>1, <2>3, IntentKeeps DEF outcomes
<1>10. CASE RedeemGiftIntent
    <2>1. PICK now \in Times :
              Intent("gift", now, {<<st, RedeemGift(st)>> : st \in CaughtUp(now)})
        BY <1>10 DEF RedeemGiftIntent
    <2> DEFINE outcomes == {<<st, RedeemGift(st)>> : st \in CaughtUp(now)}
    <2>2. \A st : Good(st) => \A x \in RedeemGift(st) : StepKeeps(st, x)
        BY RedeemGiftStep
    <2>3. \A o \in outcomes :
             /\ o[1] \in Advance(farm, now)
             /\ \A y \in o[2] : Good(o[1]) => StepKeeps(o[1], y)
        BY <2>2 DEF CaughtUp
    <2> HIDE DEF outcomes
    <2> QED
        BY <1>0, <2>1, <2>3, IntentKeeps DEF outcomes
<1>11. CASE SetFarmNameIntent
    <2>1. PICK now \in Times, name \in Names :
              Intent("name", now, {<<st, SetFarmName(st, name)>> : st \in CaughtUp(now)})
        BY <1>11 DEF SetFarmNameIntent, Names
    <2> DEFINE outcomes == {<<st, SetFarmName(st, name)>> : st \in CaughtUp(now)}
    <2>2. \A st : Good(st) => \A x \in SetFarmName(st, name) : StepKeeps(st, x)
        BY SetFarmNameStep
    <2>3. \A o \in outcomes :
             /\ o[1] \in Advance(farm, now)
             /\ \A y \in o[2] : Good(o[1]) => StepKeeps(o[1], y)
        BY <2>2 DEF CaughtUp
    <2> HIDE DEF outcomes
    <2> QED
        BY <1>0, <2>1, <2>3, IntentKeeps DEF outcomes
<1>12. CASE SetFlavorIntent
    <2>1. PICK now \in Times, enabled \in BOOLEAN :
              Intent("flavor", now, {<<st, SetFlavor(st, enabled)>> : st \in CaughtUp(now)})
        BY <1>12 DEF SetFlavorIntent
    <2> DEFINE outcomes == {<<st, SetFlavor(st, enabled)>> : st \in CaughtUp(now)}
    <2>2. \A st : Good(st) => \A x \in SetFlavor(st, enabled) : StepKeeps(st, x)
        BY SetFlavorStep
    <2>3. \A o \in outcomes :
             /\ o[1] \in Advance(farm, now)
             /\ \A y \in o[2] : Good(o[1]) => StepKeeps(o[1], y)
        BY <2>2 DEF CaughtUp
    <2> HIDE DEF outcomes
    <2> QED
        BY <1>0, <2>1, <2>3, IntentKeeps DEF outcomes
<1>13. CASE RebirthIntent
    <2>1. PICK now \in Times :
              Intent("rebirth", now, {<<st, Rebirth(st, now)>> : st \in CaughtUp(now)})
        BY <1>13 DEF RebirthIntent
    <2> DEFINE outcomes == {<<st, Rebirth(st, now)>> : st \in CaughtUp(now)}
    <2>2. \A st : Good(st) => \A x \in Rebirth(st, now) : StepKeeps(st, x)
        BY <1>0, RebirthStep
    <2>3. \A o \in outcomes :
             /\ o[1] \in Advance(farm, now)
             /\ \A y \in o[2] : Good(o[1]) => StepKeeps(o[1], y)
        BY <2>2 DEF CaughtUp
    <2> HIDE DEF outcomes
    <2> QED
        BY <1>0, <2>1, <2>3, IntentKeeps DEF outcomes
<1> QED
    BY <1>1, <1>2, <1>3, <1>4, <1>5, <1>6, <1>7, <1>8, <1>9, <1>10, <1>11, <1>12, <1>13

\* A step of the farm.
LEMMA FarmSteps ==
    ASSUME FarmInv, [Next]_vars
    PROVE  FarmStep
<1>1. clock \in Int /\ dirty \in BOOLEAN /\ Good(farm)
    BY DEF FarmInv
<1>2. CASE Tick
    BY <1>1, <1>2, FarmRests DEF Tick
<1>3. CASE Persist
    <2>1. farm' = farm /\ dirty' = FALSE /\ clock' = clock
        BY <1>3 DEF Persist
    <2>2. dirty' \in BOOLEAN
        BY <2>1
    <2>3. clock' \in Int /\ clock' >= clock
        BY <1>1, <2>1
    <2> QED
        BY <2>1, <2>2, <2>3, FarmRests
<1>4. CASE UNCHANGED vars
    BY <1>1, <1>4, FarmRests DEF vars
<1>5. CASE SessionAdvance
    <2>1. PICK now \in Times :
              /\ farm' \in Advance(farm, now)
              /\ dirty' = (dirty \/ now > farm.UpdatedAt)
              /\ clock' = clock
        BY <1>5 DEF SessionAdvance
    <2>2. now \in Int
        BY DEF Times
    <2>3. /\ Good(farm') /\ Lasting(farm, farm') /\ Settled(farm, farm')
          /\ farm' = farm \/ now > farm.UpdatedAt
        BY <1>1, <2>1, <2>2, AdvanceKeeps
    <2>4. StepKeeps(farm, farm')
        BY <1>1, <2>3, SettledIsPaid DEF StepKeeps, Good
    <2>5. (farm' # farm => dirty') /\ dirty' \in BOOLEAN
        BY <1>1, <2>1, <2>3
    <2> QED
        BY <1>1, <2>1, <2>4, <2>5 DEF FarmStep
<1> QED
    BY <1>2, <1>3, <1>4, <1>5, PlayKeeps DEF Next

-----------------------------------------------------------------------------
(* What the engine promises, of every farm.                                 *)

\* Between any two steps the save is one the engine can be in, what it holds is
\* accounted for, and no event is in force that has ended.
THEOREM FarmInvariant == Spec => []FarmInv
<1>1. Init => FarmInv
    BY FarmBegins
<1>2. FarmInv /\ [Next]_vars => FarmInv'
    <2> SUFFICES ASSUME FarmInv, [Next]_vars PROVE FarmInv'
        OBVIOUS
    <2>1. FarmStep
        BY FarmSteps
    <2> QED
        BY <2>1 DEF FarmStep, StepKeeps, FarmInv
<1> QED
    BY <1>1, <1>2, PTL DEF Spec

\* No way of earning and spending makes the wallet negative, or worth more than
\* the run has earned.
THEOREM WalletIsBacked == Spec => []WalletBacked
<1>1. FarmInv => WalletBacked
    <2> SUFFICES ASSUME FarmInv PROVE WalletBacked
        OBVIOUS
    <2>1. farm \in Save /\ Backed(farm)
        BY DEF FarmInv, Good
    <2>2. /\ farm.Coins \in Amount /\ farm.RunEarnings \in Amount
          /\ farm.LifetimeEarnings \in Amount /\ farm.PrestigeCurrency \in Amount
          /\ StartCoins(farm) \in Amount
        BY <2>1, SaveTyped, StartCoinsType
    <2>3. SatAdd(StartCoins(farm), farm.RunEarnings) \in Int
        BY <2>2, MoneyAssumption DEF SatAdd, Amount
    <2> QED
        BY <2>1, <2>2, <2>3, MoneyAssumption DEF Backed, WalletBacked, Amount
<1> QED
    BY <1>1, FarmInvariant, PTL

\* After any run of purchases, zones and rebirths the farm has the plots they
\* make, and on them only what it may grow.
THEOREM FieldsAreAccounted == Spec => []FieldsAccounted
<1>1. FarmInv => FieldsAccounted
    BY DEF FarmInv, Good, Fits, PlotFits, LandFits, FieldsAccounted, LandAccounted,
           PlotsFitFarm, PlotIndex
<1> QED
    BY <1>1, FarmInvariant, PTL

\* The event that a save names is one that has not ended when it was simulated.
THEOREM EventsEnd == Spec => []EventInForce
<1>1. FarmInv => EventInForce
    BY DEF FarmInv, Good, InForceAt, EventInForce, EventActive
<1> QED
    BY <1>1, FarmInvariant, PTL

\* No step changes the save without marking it for the next write.
THEOREM ChangesAreMarked == Spec => ChangesAreDirty
<1>1. FarmInv /\ [Next]_vars => [farm' # farm => dirty']_vars
    BY FarmSteps DEF FarmStep
<1> QED
    BY <1>1, FarmInvariant, PTL DEF Spec, ChangesAreDirty

\* No step, a rebirth included, takes away what is permanent.
THEOREM PermanentIsKept == Spec => PermanentSurvives
<1>1. FarmInv /\ [Next]_vars =>
         [/\ farm'.LifetimeEarnings >= farm.LifetimeEarnings
          /\ farm'.LifetimeHarvests >= farm.LifetimeHarvests
          /\ farm'.Rebirths >= farm.Rebirths
          /\ \A id \in DOMAIN farm.Upgrades : farm'.Upgrades[id] >= farm.Upgrades[id]
          /\ \A id \in DOMAIN farm.Achievements :
                farm.Achievements[id] # NotEarned =>
                   farm'.Achievements[id] = farm.Achievements[id]]_vars
    BY FarmSteps DEF FarmStep, StepKeeps, Lasting
<1> QED
    BY <1>1, FarmInvariant, PTL DEF Spec, PermanentSurvives

\* With a content whose parcels pay at least a coin, which Validate does not look
\* at, no step empties a parcel without crediting it.
THEOREM ParcelsArePaid ==
    ASSUME GiftsPay
    PROVE  Spec => GiftsArePaid
<1>1. FarmInv /\ [Next]_vars =>
         [farm.GiftPending /\ ~farm'.GiftPending =>
             /\ farm'.Rebirths = farm.Rebirths
             /\ \/ farm'.LifetimeEarnings >= SatAdd(farm.LifetimeEarnings, 1)
                \/ farm'.PrestigeCurrency >= SatAdd(farm.PrestigeCurrency, 1)]_vars
    BY FarmSteps, GiftsPay DEF FarmStep, StepKeeps, GiftPaid
<1> QED
    BY <1>1, FarmInvariant, PTL DEF Spec, GiftsArePaid

\* The ids of what is distinct belong to one item each.
LEMMA DistinctIds ==
    ASSUME NEW S, NEW items \in Seq(S), Distinct(items),
           NEW i \in DOMAIN items, NEW j \in DOMAIN items, items[i].ID = items[j].ID
    PROVE  i = j
<1> DEFINE D == 1 .. Len(items)
           T == Ids(items)
           f == [k \in D |-> items[k].ID]
<1>1. Len(items) \in Nat /\ DOMAIN items = D
    OBVIOUS
<1>2. IsFiniteSet(D) /\ Cardinality(D) = Len(items)
    <2>1. IsFiniteSet(D) /\ Cardinality(D) = IF 1 > Len(items) THEN 0
                                                ELSE Len(items) - 1 + 1
        BY <1>1, FS_Interval
    <2> HIDE DEF D
    <2> QED
        BY <1>1, <2>1
<1>3. f \in Surjection(D, T)
    BY <1>1 DEF Surjection, Ids
<1>4. Cardinality(T) = Cardinality(D)
    BY <1>2 DEF Distinct
<1>5. f[i] = f[j] /\ i \in D /\ j \in D
    BY <1>1
<1> HIDE DEF D, T, f
<1>6. f \in Injection(D, T)
    BY <1>2, <1>3, <1>4, FS_SurjSameCardinalityImpliesInj
<1> QED
    BY <1>5, <1>6 DEF Injection, IsInjective

\* Where something can be planted there is a cheapest of it.
LEMMA CheapestExists ==
    ASSUME NEW st, NEW i \in DOMAIN Content.Crops, Unlocked(st, Content.Crops[i].Unlock)
    PROVE  \E k \in DOMAIN Content.Crops :
              /\ Unlocked(st, Content.Crops[k].Unlock)
              /\ IsCheapestUnlocked(st, Content.Crops[k].ID)
<1> DEFINE Open == {k \in DOMAIN Content.Crops : Unlocked(st, Content.Crops[k].Unlock)}
           Costs == {Content.Crops[k].SeedCost : k \in Open}
<1>1. DOMAIN Content.Crops \subseteq Nat /\ i \in Open
    BY ContentTyped
<1>2. \A k \in DOMAIN Content.Crops : Content.Crops[k].SeedCost \in Nat
    BY CropTyped, GoodCropTyped
<1>3. Costs \in SUBSET Nat /\ Costs # {}
    BY <1>1, <1>2
<1>4. PICK c \in Costs : \A d \in Costs : c <= d
    BY <1>3, LeastNat
<1> DEFINE Best == {k \in Open : Content.Crops[k].SeedCost = c}
<1>5. Best \in SUBSET Nat /\ Best # {}
    BY <1>1, <1>4
<1>6. PICK k \in Best : \A j \in Best : k <= j
    BY <1>5, LeastNat
<1>7. k \in Open /\ Content.Crops[k].SeedCost = c
    BY <1>6
<1>8. ASSUME NEW j \in DOMAIN Content.Crops \ {k}, j \in Open
      PROVE  \/ c < Content.Crops[j].SeedCost
             \/ c = Content.Crops[j].SeedCost /\ k < j
    <2>1. c <= Content.Crops[j].SeedCost
        BY <1>4, <1>8
    <2>2. Content.Crops[j].SeedCost = c => k <= j
        BY <1>6, <1>8
    <2>3. j \in Nat /\ k \in Nat /\ j # k /\ c \in Nat /\ Content.Crops[j].SeedCost \in Nat
        BY <1>1, <1>2, <1>3, <1>4, <1>7
    <2> QED
        BY <2>1, <2>2, <2>3
<1>9. IsCheapestUnlocked(st, Content.Crops[k].ID)
    BY <1>7, <1>8 DEF IsCheapestUnlocked
<1> QED
    BY <1>7, <1>9

\* Some crop is open from the beginning: Validate asks for crops, and does not
\* ask this of them; the game's turnip is.
StarterCrop ==
    \E i \in DOMAIN Content.Crops : Content.Crops[i].Unlock.Kind \in {Nothing, "start"}

\* With a content that opens a crop from the beginning, a player whose plots are
\* all empty finds a crop in the picker that can be planted with what is left.
THEOREM NobodyIsStuck ==
    ASSUME StarterCrop
    PROVE  Spec => []NeverStuck
<1>1. FarmInv => NeverStuck
    <2> SUFFICES ASSUME FarmInv, AllPlotsEmpty(farm)
                 PROVE  \E p \in PlotIndex, id \in VisibleCrops(farm) :
                            Plant(farm, p, id, clock) # {}
        BY DEF NeverStuck
    <2>1. farm \in Save /\ LandFits(farm)
        BY DEF FarmInv, Good
    <2>2. 1 \in PlotIndex /\ farm.Plots[1].Crop = Nothing
        <3>1. Len(farm.Plots) >= 1 /\ farm.Plots \in Seq(PlotType)
            <4>1. ZonePlots(farm.Zones) \in Nat
                BY <2>1, SaveTyped, ZonePlotsType
            <4> QED
                BY <2>1, <4>1, RunTyped, SaveTyped DEF LandFits
        <3>2. 1 \in DOMAIN farm.Plots
            BY <3>1
        <3> QED
            BY <3>2 DEF PlotIndex, AllPlotsEmpty
    <2>3. PICK i \in DOMAIN Content.Crops :
              Unlocked(farm, Content.Crops[i].Unlock)
        <3>1. PICK i \in DOMAIN Content.Crops :
                  Content.Crops[i].Unlock.Kind \in {Nothing, "start"}
            BY StarterCrop DEF StarterCrop
        <3>2. Unlocked(farm, Content.Crops[i].Unlock)
            BY <3>1 DEF Unlocked, Nothing
        <3> QED
            BY <3>2
    <2>4. PICK k \in DOMAIN Content.Crops :
              /\ Unlocked(farm, Content.Crops[k].Unlock)
              /\ IsCheapestUnlocked(farm, Content.Crops[k].ID)
        BY <2>3, CheapestExists
    <2> DEFINE id == Content.Crops[k].ID
               crop == ById(Content.Crops, id)
    <2>5. id \in Ids(Content.Crops) /\ crop = Content.Crops[k]
        <3>1. id \in Ids(Content.Crops)
            BY DEF Ids
        <3>2. PICK j \in DOMAIN Content.Crops :
                  crop = Content.Crops[j] /\ Content.Crops[j].ID = id
            BY <3>1, ByIdIs
        <3>3. Distinct(Content.Crops)
            BY EngineAssumption DEF Validate, ValidCrops
        <3>4. j = k
            BY <3>2, <3>3, ContentTyped, DistinctIds
        <3> QED
            BY <3>1, <3>2, <3>4
    <2> HIDE DEF crop
    <2>6. crop \in GoodCrop /\ Unlocked(farm, crop.Unlock)
        BY <2>4, <2>5, CropTyped
    <2>7. id \in VisibleCrops(farm)
        <3>1. crop.Unlock.Kind = "prestige" => farm.Rebirths >= crop.Unlock.Value
            BY <2>6 DEF Unlocked, Nothing
        <3>2. farm.Rebirths \in Int /\ crop.Unlock.Value \in Int
            BY <2>1, <2>6, SaveTyped, GoodCropTyped DEF UnlockType
        <3> QED
            BY <2>5, <3>1, <3>2 DEF VisibleCrops, crop
    <2>8. farm.Coins >= IF MercyPlantEligible(farm, id) THEN 0 ELSE SeedCost(farm, crop)
        <3>1. farm.Coins \in Nat /\ SeedCost(farm, crop) \in Int
            BY <2>1, <2>6, SaveTyped, SeedCostType DEF Amount
        <3>2. ~MercyPlantEligible(farm, id) => ~(farm.Coins < SeedCost(farm, crop))
            BY <2>4 DEF MercyPlantEligible, crop
        <3> QED
            BY <3>1, <3>2
    <2>9. Plant(farm, 1, id, clock) # {}
        BY <2>2, <2>6, <2>8 DEF Plant, When, PlotIndex, crop
    <2> QED
        BY <2>2, <2>7, <2>9
<1> QED
    BY <1>1, FarmInvariant, PTL

-----------------------------------------------------------------------------
(* Crops in the ground.                                                     *)

\* No growing time is so long that it overflows when a share of it is taken.
GrowthFits ==
    \A i \in DOMAIN Content.Crops : Content.Crops[i].GrowSeconds * 100 <= MaxInt

\* What is left of such a time.
LEMMA ShareOfGrowth ==
    ASSUME NEW base \in Nat, base * 100 <= MaxInt, NEW rest \in 0 .. 100
    PROVE  Quo(Wrap(base * rest), 100) = (base * rest) \div 100
<1>1. base * rest \in Nat /\ base * rest <= base * 100
    BY Z3
<1> DEFINE product == base * rest
<1> HIDE DEF product
<1>2. product \in 0 .. MaxInt
    BY <1>1, MoneyAssumption DEF product
<1>3. Quo(Wrap(product), 100) = product \div 100
    BY <1>2, UncheckedExact
<1> QED
    BY <1>3 DEF product

\* What has been bought makes a crop grow in no more time than before, unless an
\* event that had its part in it is over.
LEMMA GrowthQuickens ==
    ASSUME NEW st \in Save, NEW x \in Save, NEW crop \in GoodCrop,
           crop.GrowSeconds * 100 <= MaxInt,
           \A id \in Ids(Content.Upgrades) : st.Upgrades[id] <= x.Upgrades[id],
           \A id \in Ids(Content.Multipliers) : st.Multipliers[id] <= x.Multipliers[id],
           EventEffect(st, "grow_speed_pct") <= EventEffect(x, "grow_speed_pct")
    PROVE  GrowSeconds(x, crop) <= GrowSeconds(st, crop)
<1> DEFINE reduction(s) == Owned(Content.Upgrades, s.Upgrades, "grow_speed_pct")
                   + Owned(Content.Multipliers, s.Multipliers, "grow_speed_pct")
                   + EventEffect(s, "grow_speed_pct")
           rest(s) == 100 - Percent(reduction(s))
           n(s) == (crop.GrowSeconds * rest(s)) \div 100
<1>1. reduction(st) \in Nat /\ reduction(x) \in Nat /\ reduction(st) <= reduction(x)
    <2>1. /\ Owned(Content.Upgrades, st.Upgrades, "grow_speed_pct") \in Nat
          /\ Owned(Content.Multipliers, st.Multipliers, "grow_speed_pct") \in Nat
          /\ Owned(Content.Upgrades, x.Upgrades, "grow_speed_pct") \in Nat
          /\ Owned(Content.Multipliers, x.Multipliers, "grow_speed_pct") \in Nat
        BY OwnedType, SaveLevels
    <2>2. /\ Owned(Content.Upgrades, st.Upgrades, "grow_speed_pct")
                <= Owned(Content.Upgrades, x.Upgrades, "grow_speed_pct")
          /\ Owned(Content.Multipliers, st.Multipliers, "grow_speed_pct")
                <= Owned(Content.Multipliers, x.Multipliers, "grow_speed_pct")
        BY OwnedGrows, SaveLevels
    <2> QED
        BY <2>1, <2>2, EventEffectType
<1> HIDE DEF reduction
<1>2. rest(st) \in 0 .. 100 /\ rest(x) \in 0 .. 100 /\ rest(x) <= rest(st)
    BY <1>1 DEF Percent
<1> HIDE DEF rest
<1>3. crop.GrowSeconds \in Nat
    BY GoodCropTyped
<1>4. /\ crop.GrowSeconds * rest(st) \in Nat /\ crop.GrowSeconds * rest(x) \in Nat
      /\ crop.GrowSeconds * rest(x) <= crop.GrowSeconds * rest(st)
    <2>1. \A a, b, c \in Nat : b <= c => a * b \in Nat /\ a * c \in Nat /\ a * b <= a * c
        BY Z3
    <2> QED
        BY <1>2, <1>3, <2>1
<1>5. n(st) \in Nat /\ n(x) \in Nat /\ n(x) <= n(st)
    <2>1. \A a, b \in Nat : a <= b => a \div 100 \in Nat /\ b \div 100 \in Nat
                                        /\ a \div 100 <= b \div 100
        BY Z3
    <2> QED
        BY <1>4, <2>1
<1>6. /\ Quo(Wrap(crop.GrowSeconds * rest(st)), 100) = n(st)
      /\ Quo(Wrap(crop.GrowSeconds * rest(x)), 100) = n(x)
    BY <1>2, <1>3, ShareOfGrowth
<1>7. /\ GrowSeconds(st, crop) = IF n(st) < 1 THEN 1 ELSE n(st)
      /\ GrowSeconds(x, crop) = IF n(x) < 1 THEN 1 ELSE n(x)
    BY <1>6 DEF GrowSeconds, reduction, rest
<1> HIDE DEF n
<1> QED
    BY <1>5, <1>7

\* A bar that fills for longer, or faster, is filled more.
LEMMA BarFills ==
    ASSUME NEW e \in Nat, NEW later \in Nat, e <= later,
           NEW grow \in Nat \ {0}, NEW less \in Nat \ {0}, less <= grow,
           e < grow, later < less
    PROVE  /\ (e * 100) \div grow \in Nat /\ (later * 100) \div less \in Nat
           /\ (e * 100) \div grow <= (later * 100) \div less
<1> DEFINE q == (e * 100) \div grow
           r == (later * 100) \div less
<1>1. q \in Nat /\ q * grow <= e * 100
    BY Quotient
<1>2. r \in Nat /\ later * 100 < (r + 1) * less
    BY Quotient
<1> HIDE DEF q, r
<1>3. q * less <= q * grow
    BY <1>1, Z3
<1>4. q * less < (r + 1) * less
    BY <1>1, <1>2, <1>3, Z3
<1>5. q < r + 1
    BY <1>1, <1>2, <1>4, Z3
<1> QED
    BY <1>1, <1>2, <1>5 DEF q, r

\* So it is with bars that are empty or full.
LEMMA BarRises ==
    ASSUME NEW e \in Int, NEW later \in Int, e <= later,
           NEW grow \in Nat \ {0}, NEW less \in Nat \ {0}, less <= grow,
           NEW before \in Int, NEW after \in Int,
           e > 0 /\ e < grow => before \in 0 .. 100,
           later > 0 /\ later < less => after \in Nat,
           e > 0 /\ e < grow /\ later < less => before <= after
    PROVE  (IF later <= 0 THEN 0 ELSE IF later >= less THEN 100 ELSE after)
              >= IF e <= 0 THEN 0 ELSE IF e >= grow THEN 100 ELSE before
OBVIOUS

\* What is in the ground on a plot that a step leaves as it is.
LEMMA ProgressKept ==
    ASSUME FarmInv, FarmStep, GrowthFits,
           NEW p \in PlotIndex, p \in DOMAIN farm'.Plots,
           farm'.Plots[p].Crop = farm.Plots[p].Crop,
           farm'.Plots[p].PlantedAt = farm.Plots[p].PlantedAt,
           \/ farm'.EventID = farm.EventID
           \/ farm.EventID = Nothing
           \/ ById(Content.Events, farm.EventID).Effect # "grow_speed_pct"
    PROVE  /\ PlotProgressPct(farm', p, clock') >= PlotProgressPct(farm, p, clock)
           /\ PlotReady(farm, p, clock) => PlotReady(farm', p, clock')
<1> DEFINE id == farm.Plots[p].Crop
           crop == ById(Content.Crops, id)
           since == farm.Plots[p].PlantedAt
           grow == GrowSeconds(farm, crop)
           less == GrowSeconds(farm', crop)
           e == clock - since
           later == clock' - since
<1>1. farm \in Save /\ farm' \in Save /\ p \in DOMAIN farm.Plots
    BY DEF FarmInv, FarmStep, StepKeeps, Good, PlotIndex
<1>2. clock \in Int /\ clock' \in Int /\ clock' >= clock
    BY DEF FarmInv, FarmStep
<1>3. farm.Plots[p] \in PlotType
    BY <1>1, PlotTyped
<1>4. CASE id = Nothing
    BY <1>4 DEF PlotProgressPct, PlotReady
<1>5. CASE id # Nothing
    <2>1. crop \in GoodCrop /\ since \in Int
        BY <1>3, <1>5, CropById DEF PlotType
    <2>2. less <= grow /\ less \in Nat \ {0} /\ grow \in Nat \ {0}
        <3>1. ~AllPlotsEmpty(farm')
            BY <1>5 DEF AllPlotsEmpty
        <3>2. \A m \in Ids(Content.Multipliers) :
                 farm.Multipliers[m] <= farm'.Multipliers[m]
            BY <3>1 DEF FarmStep, StepKeeps, GrowsOn
        <3>3. \A u \in Ids(Content.Upgrades) : farm.Upgrades[u] <= farm'.Upgrades[u]
            <4>1. farm.Upgrades \in [Ids(Content.Upgrades) -> Nat]
                     /\ farm'.Upgrades \in [Ids(Content.Upgrades) -> Nat]
                BY <1>1, SaveLevels
            <4>2. \A u \in DOMAIN farm.Upgrades : farm'.Upgrades[u] >= farm.Upgrades[u]
                BY DEF FarmStep, StepKeeps, Lasting
            <4> QED
                BY <4>1, <4>2
        <3>4. EventEffect(farm, "grow_speed_pct") <= EventEffect(farm', "grow_speed_pct")
            <4>1. EventEffect(farm, "grow_speed_pct") \in Nat
                     /\ EventEffect(farm', "grow_speed_pct") \in Nat
                BY <1>1, EventEffectType
            <4>2. \/ EventEffect(farm, "grow_speed_pct") = 0
                  \/ EventEffect(farm, "grow_speed_pct") = EventEffect(farm', "grow_speed_pct")
                BY DEF EventEffect, ValueFor
            <4> QED
                BY <4>1, <4>2
        <3>5. crop.GrowSeconds * 100 <= MaxInt
            <4>1. id \in Ids(Content.Crops)
                BY <1>3, <1>5 DEF PlotType
            <4>2. PICK i \in DOMAIN Content.Crops : crop = Content.Crops[i]
                BY <4>1, ByIdIs
            <4> QED
                BY <4>2 DEF GrowthFits
        <3> QED
            BY <1>1, <2>1, <3>2, <3>3, <3>4, <3>5, GrowthQuickens, GrowType
    <2>3. /\ PlotReady(farm, p, clock) <=> clock >= since + grow
          /\ PlotReady(farm', p, clock') <=> clock' >= since + less
        BY <1>1, <1>5 DEF PlotReady
    <2>4. /\ PlotProgressPct(farm, p, clock) =
                IF e <= 0 THEN 0 ELSE IF e >= grow THEN 100 ELSE (e * 100) \div grow
          /\ PlotProgressPct(farm', p, clock') =
                IF later <= 0 THEN 0
                ELSE IF later >= less THEN 100 ELSE (later * 100) \div less
        BY <1>1, <1>5 DEF PlotProgressPct
    <2>5. e \in Int /\ later \in Int /\ e <= later
        BY <1>2, <2>1
    <2>6. PlotReady(farm, p, clock) => PlotReady(farm', p, clock')
        <3> HIDE DEF crop, grow, less, since
        <3> QED
            BY <1>2, <2>1, <2>2, <2>3
    <2> HIDE DEF crop, grow, less, since, e, later
    <2>7. e > 0 /\ e < grow => (e * 100) \div grow \in 0 .. 100
        <3> SUFFICES ASSUME e > 0, e < grow PROVE (e * 100) \div grow \in 0 .. 100
            OBVIOUS
        <3> DEFINE q == (e * 100) \div grow
        <3>1. e * 100 \in Nat /\ e * 100 <= 100 * grow
            BY <2>2, <2>5
        <3>2. q \in Nat /\ q * grow <= e * 100
            BY <2>2, <3>1, Quotient
        <3> HIDE DEF q
        <3>3. q * grow <= 100 * grow
            BY <2>2, <2>5, <3>1, <3>2
        <3>4. \A a, b \in Nat : b > 0 /\ a * b <= 100 * b => a \in 0 .. 100
            BY Z3
        <3>5. q \in 0 .. 100
            BY <2>2, <3>2, <3>3, <3>4
        <3> QED
            BY <3>5 DEF q
    <2>8. later > 0 /\ later < less => (later * 100) \div less \in Nat
        <3>1. later > 0 => later * 100 \in Nat
            BY <2>5
        <3> QED
            BY <2>2, <3>1, Quotient
    <2>9. e > 0 /\ e < grow /\ later < less =>
             (e * 100) \div grow <= (later * 100) \div less
        <3> SUFFICES ASSUME e > 0, e < grow, later < less
                     PROVE  (e * 100) \div grow <= (later * 100) \div less
            OBVIOUS
        <3>1. e \in Nat /\ later \in Nat
            BY <2>5
        <3> QED
            BY <2>2, <2>5, <3>1, BarFills
    <2>10. PlotProgressPct(farm', p, clock') >= PlotProgressPct(farm, p, clock)
        <3> DEFINE before == (e * 100) \div grow
                   after == (later * 100) \div less
        <3>1. /\ e > 0 /\ e < grow => before \in 0 .. 100
              /\ later > 0 /\ later < less => after \in Nat
              /\ e > 0 /\ e < grow /\ later < less => before <= after
            BY <2>7, <2>8, <2>9
        <3>2. /\ PlotProgressPct(farm, p, clock) =
                    IF e <= 0 THEN 0 ELSE IF e >= grow THEN 100 ELSE before
              /\ PlotProgressPct(farm', p, clock') =
                    IF later <= 0 THEN 0 ELSE IF later >= less THEN 100 ELSE after
            BY <2>4
        <3>3. before \in Int /\ after \in Int
            <4>1. \A m \in Int, d \in Nat \ {0} : (m * 100) \div d \in Int
                BY Z3
            <4> QED
                BY <2>2, <2>5, <4>1
        <3> HIDE DEF before, after
        <3> DEFINE bar == IF e <= 0 THEN 0 ELSE IF e >= grow THEN 100 ELSE before
                   bar2 == IF later <= 0 THEN 0 ELSE IF later >= less THEN 100 ELSE after
        <3>4. bar2 >= bar
            BY <2>2, <2>5, <3>1, <3>3, BarRises
        <3>5. /\ PlotProgressPct(farm, p, clock) = bar
              /\ PlotProgressPct(farm', p, clock') = bar2
            BY ONLY <3>2
        <3> HIDE DEF bar, bar2
        <3> QED
            BY ONLY <3>4, <3>5
    <2> QED
        BY <2>6, <2>10
<1> QED
    BY <1>4, <1>5

\* A crop that stays in the ground never shrinks on its bar, whatever is bought,
\* simulated or reborn, but when an event that sped it up is over.  A growing time
\* beyond a hundredth of MaxInt would overflow, and jump when it is quickened.
THEOREM ProgressIsKept ==
    ASSUME GrowthFits
    PROVE  Spec => ProgressNeverFalls
<1>1. FarmInv /\ [Next]_vars =>
         [\A p \in PlotIndex \cap DOMAIN farm'.Plots :
             \/ farm'.Plots[p].Crop # farm.Plots[p].Crop
             \/ farm'.Plots[p].PlantedAt # farm.Plots[p].PlantedAt
             \/ /\ farm'.EventID # farm.EventID
                /\ farm.EventID # Nothing
                /\ ById(Content.Events, farm.EventID).Effect = "grow_speed_pct"
             \/ /\ PlotProgressPct(farm', p, clock') >= PlotProgressPct(farm, p, clock)
                /\ PlotReady(farm, p, clock) => PlotReady(farm', p, clock')]_vars
    BY FarmSteps, ProgressKept
<1> QED
    BY <1>1, FarmInvariant, PTL DEF Spec, ProgressNeverFalls

-----------------------------------------------------------------------------
(* What tending does to the plots and to the count of harvests.             *)

\* A plot sown again, and one left empty.
Resown(plot, m) == [plot EXCEPT !.PlantedAt = m]

Bare(plot) == [plot EXCEPT !.Crop = Nothing, !.PlantedAt = 0]

\* Their automation stays.
LEMMA PlotsAfter ==
    ASSUME NEW plot \in PlotType, NEW m \in Int
    PROVE  /\ Resown(plot, m) \in PlotType /\ Resown(plot, m).Crop = plot.Crop
           /\ Resown(plot, m).PlantedAt = m
           /\ Resown(plot, m).AutoHarvest = plot.AutoHarvest
           /\ Resown(plot, m).AutoSow = plot.AutoSow
           /\ Resown(plot, m).Critter = plot.Critter
           /\ Bare(plot) \in PlotType /\ Bare(plot).Crop = Nothing
<1> DEFINE r == [plot EXCEPT !.Crop = Nothing]
<1>1. r \in PlotType /\ r.Crop = Nothing
    BY DEF PlotType
<1>2. Bare(plot) = [r EXCEPT !.PlantedAt = 0]
    BY DEF Bare
<1> HIDE DEF r
<1>3. Bare(plot) \in PlotType /\ Bare(plot).Crop = Nothing
    BY <1>1, <1>2 DEF PlotType
<1> QED
    BY <1>3 DEF Resown, PlotType

\* A credit leaves them alone.
LEMMA CreditPlots ==
    ASSUME NEW st \in Save, NEW amount \in Int
    PROVE  /\ Credit(st, amount) \in Save
           /\ Credit(st, amount).Plots = st.Plots
           /\ Credit(st, amount).LifetimeHarvests = st.LifetimeHarvests
           /\ Credit(st, amount).UpdatedAt = st.UpdatedAt
<1> DEFINE x == Credit(st, amount)
<1>1. x \in Save /\ But(Earned, st, x)
    BY CreditIs
<1> HIDE DEF x
<1>2. /\ x.Plots = st.Plots /\ x.LifetimeHarvests = st.LifetimeHarvests
      /\ x.UpdatedAt = st.UpdatedAt
    BY <1>1 DEF But, Earned, Save
<1> QED
    BY <1>1, <1>2 DEF x

\* A harvest counts one, and leaves its plot to what follows.
LEMMA HarvestedPlots ==
    ASSUME NEW st \in Save, NEW crop \in GoodCrop, NEW x \in Harvested(st, crop)
    PROVE  /\ x \in Save /\ x.Plots = st.Plots
           /\ x.LifetimeHarvests = SatAdd(st.LifetimeHarvests, 1)
           /\ x.UpdatedAt = st.UpdatedAt
<1>1. PICK h \in HarvestPayout(st, crop) :
          x = Harvests(Credit(Credit(st, h[1]), h[2]), 1)
    BY DEF Harvested
<1> DEFINE a == Credit(st, h[1])
           b == Credit(a, h[2])
<1>2. h[1] \in Int /\ h[2] \in Int
    BY HarvestPayoutType
<1>3. /\ a \in Save /\ a.Plots = st.Plots /\ a.LifetimeHarvests = st.LifetimeHarvests
      /\ a.UpdatedAt = st.UpdatedAt
    BY <1>2, CreditPlots
<1> HIDE DEF a
<1>4. /\ b \in Save /\ b.Plots = a.Plots /\ b.LifetimeHarvests = a.LifetimeHarvests
      /\ b.UpdatedAt = a.UpdatedAt
    BY <1>2, <1>3, CreditPlots
<1> HIDE DEF b
<1>5. x = Harvests(b, 1)
    BY <1>1 DEF a, b
<1>6. x \in Save
    BY <1>4, <1>5, HarvestsIs
<1>7. /\ x.Plots = b.Plots /\ x.LifetimeHarvests = SatAdd(b.LifetimeHarvests, 1)
      /\ x.UpdatedAt = b.UpdatedAt
    BY <1>4, <1>5 DEF Harvests, Save
<1> QED
    BY <1>3, <1>4, <1>6, <1>7

\* Paying leaves them alone.
LEMMA PaidPlots ==
    ASSUME NEW st \in Save, NEW cost \in Nat, cost <= st.Coins
    PROVE  /\ Bought(st, cost) \in Save
           /\ Bought(st, cost).Plots = st.Plots
           /\ Bought(st, cost).LifetimeHarvests = st.LifetimeHarvests
           /\ Bought(st, cost).UpdatedAt = st.UpdatedAt
<1> DEFINE x == [st EXCEPT !.Coins = @ - cost]
<1>1. x \in Save /\ But({"Coins"}, st, x)
    BY PaidIs
<1> HIDE DEF x
<1>2. /\ x.Plots = st.Plots /\ x.LifetimeHarvests = st.LifetimeHarvests
      /\ x.UpdatedAt = st.UpdatedAt
    BY <1>1 DEF But, Save
<1> QED
    BY <1>1, <1>2 DEF x, Bought

\* A plot is sown again.
LEMMA SownPlots ==
    ASSUME NEW st \in Save, NEW p \in DOMAIN st.Plots, NEW m \in Int
    PROVE  LET x == Sown(st, p, m) IN
           /\ x \in Save /\ x.LifetimeHarvests = st.LifetimeHarvests
           /\ Len(x.Plots) = Len(st.Plots) /\ DOMAIN x.Plots = DOMAIN st.Plots
           /\ \A r \in DOMAIN st.Plots \ {p} : x.Plots[r] = st.Plots[r]
           /\ x.Plots[p] = Resown(st.Plots[p], m)
<1> DEFINE q == Resown(st.Plots[p], m)
           x == Sown(st, p, m)
<1>1. q \in PlotType
    BY PlotTyped, PlotsAfter
<1>2. x = [st EXCEPT !.Plots[p] = q]
    BY DEF Sown, Resown
<1> HIDE DEF q, x
<1>3. /\ x \in Save /\ But({"Plots"}, st, x)
      /\ Len(x.Plots) = Len(st.Plots) /\ DOMAIN x.Plots = DOMAIN st.Plots
      /\ \A r \in DOMAIN st.Plots : x.Plots[r] = IF r = p THEN q ELSE st.Plots[r]
    BY <1>1, <1>2, PlotSet
<1>4. x.LifetimeHarvests = st.LifetimeHarvests
    BY <1>3 DEF But, Save
<1> QED
    BY <1>3, <1>4 DEF q, x

\* A plot is emptied.
LEMMA ClearedPlots ==
    ASSUME NEW st \in Save, NEW p \in DOMAIN st.Plots
    PROVE  LET x == Cleared(st, p) IN
           /\ x \in Save /\ x.LifetimeHarvests = st.LifetimeHarvests
           /\ Len(x.Plots) = Len(st.Plots) /\ DOMAIN x.Plots = DOMAIN st.Plots
           /\ \A r \in DOMAIN st.Plots \ {p} : x.Plots[r] = st.Plots[r]
           /\ x.Plots[p] = Bare(st.Plots[p])
<1> DEFINE q == Bare(st.Plots[p])
           x == Cleared(st, p)
<1>1. q \in PlotType
    BY PlotTyped, PlotsAfter
<1>2. x = [st EXCEPT !.Plots[p] = q]
    BY DEF Cleared, Bare
<1> HIDE DEF q, x
<1>3. /\ x \in Save /\ But({"Plots"}, st, x)
      /\ Len(x.Plots) = Len(st.Plots) /\ DOMAIN x.Plots = DOMAIN st.Plots
      /\ \A r \in DOMAIN st.Plots : x.Plots[r] = IF r = p THEN q ELSE st.Plots[r]
    BY <1>1, <1>2, PlotSet
<1>4. x.LifetimeHarvests = st.LifetimeHarvests
    BY <1>3 DEF But, Save
<1> QED
    BY <1>3, <1>4 DEF q, x

-----------------------------------------------------------------------------
(* Time is not replayed: what plots have grown, and what was harvested.     *)

\* No session's time is behind, or no crop ripens within what a session may lag,
\* even were its growth quickened as far as it can be: 99 percent.
SlowCrops ==
    \/ MaxLag = 0
    \/ /\ GrowthFits
       /\ \A i \in DOMAIN Content.Crops :
             Content.Crops[i].GrowSeconds >= 100 * (MaxLag + 1)

\* A crop then takes longer to grow than sessions lag.
LEMMA OutgrowsLag ==
    ASSUME SlowCrops, NEW st \in Save, NEW id \in Ids(Content.Crops)
    PROVE  GrowSeconds(st, ById(Content.Crops, id)) >= MaxLag + 1
<1> DEFINE crop == ById(Content.Crops, id)
           reduction == Owned(Content.Upgrades, st.Upgrades, "grow_speed_pct")
                   + Owned(Content.Multipliers, st.Multipliers, "grow_speed_pct")
                   + EventEffect(st, "grow_speed_pct")
           rest == 100 - Percent(reduction)
           base == crop.GrowSeconds
           n == (base * rest) \div 100
<1>1. crop \in GoodCrop
    BY CropById
<1>2. CASE MaxLag = 0
    <2> HIDE DEF crop
    <2>1. GrowSeconds(st, crop) \in Nat \ {0}
        BY <1>1, GrowType
    <2>2. \A g \in Nat \ {0} : g >= 0 + 1
        OBVIOUS
    <2>3. GrowSeconds(st, crop) >= 0 + 1
        BY <2>1, <2>2
    <2> QED
        BY <1>2, <2>3 DEF crop
<1>3. CASE MaxLag # 0
    <2>1. base \in Nat /\ base >= 100 * (MaxLag + 1) /\ base * 100 <= MaxInt
        <3>1. PICK i \in DOMAIN Content.Crops : crop = Content.Crops[i]
            BY ByIdIs
        <3> QED
            BY <1>1, <1>3, <3>1, GoodCropTyped DEF SlowCrops, GrowthFits
    <2>2. reduction \in Nat
        <3>1. /\ Owned(Content.Upgrades, st.Upgrades, "grow_speed_pct") \in Nat
              /\ Owned(Content.Multipliers, st.Multipliers, "grow_speed_pct") \in Nat
            BY OwnedType, SaveLevels
        <3> QED
            BY <3>1, EventEffectType
    <2> HIDE DEF reduction
    <2>3. rest \in 1 .. 100
        BY <2>2, PercentType
    <2>4. GrowSeconds(st, crop) = IF n < 1 THEN 1 ELSE n
        <3> HIDE DEF rest, base
        <3>1. base \in Nat /\ base * 100 <= MaxInt /\ rest \in 0 .. 100
            BY <2>1, <2>3
        <3>2. Quo(Wrap(base * rest), 100) = n
            BY <3>1, ShareOfGrowth
        <3> QED
            BY <3>2 DEF GrowSeconds, reduction, rest, base
    <2> HIDE DEF rest, base
    <2>5. base * rest >= base /\ base * rest \in Nat
        BY <2>1, <2>3, Z3
    <2>6. MaxLag \in Nat
        BY FarmAssumption
    <2> DEFINE product == base * rest
    <2>7. product \in Nat /\ product >= 100 * (MaxLag + 1)
        BY <2>1, <2>5, <2>6
    <2> HIDE DEF product
    <2>8. product \div 100 \in Nat /\ product \div 100 >= MaxLag + 1
        BY <2>6, <2>7
    <2>9. n \in Nat /\ n >= MaxLag + 1
        BY <2>8 DEF product
    <2> HIDE DEF n
    <2> QED
        BY <2>4, <2>6, <2>9
<1> QED
    BY <1>2, <1>3

\* The seconds that the crop of a plot has grown and that no session may lag.
Ripening(plot, now, lag) ==
    IF plot.Crop = Nothing \/ now - plot.PlantedAt <= lag THEN 0
    ELSE now - plot.PlantedAt - lag

\* They pass as the clock does.
LEMMA RipeningType ==
    ASSUME NEW plot \in PlotType, NEW now \in Int, NEW d \in Nat, NEW lag \in Nat
    PROVE  /\ Ripening(plot, now, lag) \in Nat
           /\ Ripening(plot, now + d, lag) \in Nat
           /\ Ripening(plot, now + d, lag) <= Ripening(plot, now, lag) + d
<1>1. plot.PlantedAt \in Int
    BY DEF PlotType
<1> QED
    BY <1>1 DEF Ripening

\* A plot that bears n times uses up as many of them, and more.
LEMMA HarvestsUseTime ==
    ASSUME NEW a \in PlotType, NEW b \in PlotType, a.Crop # Nothing,
           NEW n \in Nat \ {0}, NEW grow \in Nat, NEW lag \in Nat, grow >= lag + 1, NEW now \in Int,
           a.PlantedAt + n * grow <= now,
           \/ b.Crop = Nothing
           \/ b.PlantedAt = a.PlantedAt + n * grow
    PROVE  n + Ripening(b, now, lag) <= Ripening(a, now, lag)
<1>1. a.PlantedAt \in Int /\ b.PlantedAt \in Int
    BY DEF PlotType
<1>2. n * grow \in Nat /\ n * grow >= n + lag
    <2>1. \A m \in Nat \ {0}, l, g \in Nat : g >= l + 1 => m * g >= m + l /\ m * g \in Nat
        <3>1. \A m, l, g \in Nat : g >= l + 1 =>
                 /\ m * g \in Nat /\ m * g >= m * (l + 1)
            BY Z3
        <3>2. \A m, l \in Nat : m >= 1 => m * (l + 1) = m * l + m /\ m * l \in Nat /\ m * l >= l
            BY Z3
        <3>3. ASSUME NEW m \in Nat \ {0}, NEW l \in Nat, NEW g \in Nat, g >= l + 1
              PROVE  m * g >= m + l /\ m * g \in Nat
            <4>1. /\ m * g \in Nat /\ m * g >= m * (l + 1)
                  /\ m * (l + 1) = m * l + m /\ m * l \in Nat /\ m * l >= l
                BY <3>1, <3>2, <3>3
            <4> DEFINE x == m * g
                       y == m * (l + 1)
                       z == m * l
            <4>2. x \in Nat /\ x >= y /\ y = z + m /\ z \in Nat /\ z >= l
                BY <4>1
            <4> HIDE DEF x, y, z
            <4>3. x >= m + l /\ x \in Nat
                BY <4>2
            <4> QED
                BY <4>3 DEF x
        <3> QED
            BY <3>3
    <2> QED
        BY <1>1, <2>1
<1> DEFINE t == n * grow
<1>3. t \in Nat /\ t >= n + lag /\ a.PlantedAt + t <= now
         /\ (b.Crop = Nothing \/ b.PlantedAt = a.PlantedAt + t)
    BY <1>2
<1> HIDE DEF t
<1> QED
    BY <1>1, <1>3 DEF Ripening

\* The cursors of the loop over plot p that have not harvested more than the plot
\* has grown.
Spending(st, p, grow, to, now, lag) ==
    {y \in Cursors(st) :
        /\ \A r \in DOMAIN st.Plots \ {p} : y.st.Plots[r] = st.Plots[r]
        /\ y.on => /\ y.st.Plots[p].Crop # Nothing
                   /\ y.m = y.st.Plots[p].PlantedAt + grow
        /\ \/ y.st.Plots[p].Crop = Nothing
           \/ y.st.Plots[p].PlantedAt <= to
           \/ y.st.Plots[p].PlantedAt = st.Plots[p].PlantedAt
        /\ y.st.LifetimeHarvests + Ripening(y.st.Plots[p], now, lag)
              <= st.LifetimeHarvests + Ripening(st.Plots[p], now, lag)}

\* A cursor of the loop.
LEMMA CursorIs ==
    ASSUME NEW st \in Save, NEW p \in DOMAIN st.Plots, NEW y \in Cursors(st)
    PROVE  /\ y.st \in Save /\ Tended(st, y.st) /\ y.m \in Int /\ y.cycles \in Nat
           /\ y.on \in BOOLEAN /\ y = Cursor(y.st, y.m, y.cycles, y.on)
           /\ DOMAIN y.st.Plots = DOMAIN st.Plots /\ Len(y.st.Plots) = Len(st.Plots)
           /\ y.st.Plots[p] \in PlotType /\ y.st.LifetimeHarvests \in Amount
<1>1. /\ y.st \in Save /\ Tended(st, y.st) /\ y.m \in Int /\ y.cycles \in Nat
      /\ y.on \in BOOLEAN /\ y = Cursor(y.st, y.m, y.cycles, y.on)
    BY DEF Cursors, Tendings, Cursor
<1>2. DOMAIN y.st.Plots = DOMAIN st.Plots /\ Len(y.st.Plots) = Len(st.Plots)
    BY <1>1, TendedKeeps DEF Tended
<1> QED
    BY <1>1, <1>2, PlotTyped, SaveTyped

\* The step that both kinds of iteration make: n harvests in one.
LEMMA SpendingStep ==
    ASSUME NEW st \in Save, NEW p \in DOMAIN st.Plots,
           NEW grow \in Nat, NEW lag \in Nat, grow >= lag + 1,
           NEW to \in Int, NEW now \in Int, to <= now,
           NEW y \in Spending(st, p, grow, to, now, lag), y.on,
           NEW n \in Nat \ {0}, y.st.Plots[p].PlantedAt + n * grow <= to,
           NEW z \in Cursors(st),
           \A r \in DOMAIN st.Plots \ {p} : z.st.Plots[r] = y.st.Plots[r],
           z.st.LifetimeHarvests <= y.st.LifetimeHarvests + n,
           \/ z.st.Plots[p].Crop = Nothing /\ ~z.on
           \/ /\ z.st.Plots[p].Crop = y.st.Plots[p].Crop
              /\ z.st.Plots[p].PlantedAt = y.st.Plots[p].PlantedAt + n * grow
              /\ z.m = z.st.Plots[p].PlantedAt + grow
    PROVE  z \in Spending(st, p, grow, to, now, lag)
<1> DEFINE a == y.st.Plots[p]
           b == z.st.Plots[p]
<1>1. /\ y \in Cursors(st) /\ a.Crop # Nothing
      /\ \A r \in DOMAIN st.Plots \ {p} : y.st.Plots[r] = st.Plots[r]
      /\ y.st.LifetimeHarvests + Ripening(a, now, lag)
              <= st.LifetimeHarvests + Ripening(st.Plots[p], now, lag)
    BY DEF Spending
<1>2. /\ a \in PlotType /\ b \in PlotType /\ st.Plots[p] \in PlotType
      /\ y.st.LifetimeHarvests \in Nat /\ z.st.LifetimeHarvests \in Nat
      /\ st.LifetimeHarvests \in Nat
    BY <1>1, CursorIs, PlotTyped, SaveTyped, MoneyAssumption DEF Amount
<1>3. n * grow \in Nat /\ a.PlantedAt \in Int
    BY <1>2, Z3 DEF PlotType
<1>4. n + Ripening(b, now, lag) <= Ripening(a, now, lag)
    <2>1. a.PlantedAt + n * grow <= now
        BY <1>3
    <2> QED
        BY <1>1, <1>2, <2>1, HarvestsUseTime
<1>5. /\ Ripening(a, now, lag) \in Nat /\ Ripening(b, now, lag) \in Nat
      /\ Ripening(st.Plots[p], now, lag) \in Nat
    BY <1>2, RipeningType
<1>6. z.st.LifetimeHarvests + Ripening(b, now, lag)
         <= st.LifetimeHarvests + Ripening(st.Plots[p], now, lag)
    <2> DEFINE ra == Ripening(a, now, lag)
               rb == Ripening(b, now, lag)
               rs == Ripening(st.Plots[p], now, lag)
               hy == y.st.LifetimeHarvests
               hz == z.st.LifetimeHarvests
               hs == st.LifetimeHarvests
    <2>1. /\ ra \in Nat /\ rb \in Nat /\ rs \in Nat
          /\ hy \in Nat /\ hz \in Nat /\ hs \in Nat
          /\ n + rb <= ra /\ hy + ra <= hs + rs /\ hz <= hy + n
        BY <1>1, <1>2, <1>4, <1>5
    <2> HIDE DEF ra, rb, rs, hy, hz, hs
    <2>2. hz + rb <= hs + rs
        BY <2>1
    <2> QED
        BY <2>2 DEF rb, rs, hz, hs
<1>7. \A r \in DOMAIN st.Plots \ {p} : z.st.Plots[r] = st.Plots[r]
    BY <1>1
<1>8. z.on => b.Crop # Nothing /\ z.m = b.PlantedAt + grow
    BY <1>1
<1>9. b.Crop = Nothing \/ b.PlantedAt <= to
    BY <1>1
<1> QED
    BY <1>6, <1>7, <1>8, <1>9 DEF Spending

\* One harvest, and a replanting at the time it was ripe.
LEMMA OneCycleSpends ==
    ASSUME NEW st \in Save, NEW p \in DOMAIN st.Plots, NEW crop \in GoodCrop,
           NEW grow \in Nat, NEW lag \in Nat, grow >= lag + 1,
           NEW to \in Int, NEW now \in Int, to <= now,
           NEW y \in Spending(st, p, grow, to, now, lag), y.on, y.m <= to
    PROVE  OneCycle(y, p, crop, grow) \subseteq Spending(st, p, grow, to, now, lag)
<1> SUFFICES ASSUME NEW z \in OneCycle(y, p, crop, grow)
             PROVE  z \in Spending(st, p, grow, to, now, lag)
    OBVIOUS
<1> DEFINE a == y.st.Plots[p]
<1>1. /\ y \in Cursors(st) /\ a.Crop # Nothing /\ y.m = a.PlantedAt + grow
    BY DEF Spending
<1>2. /\ y.st \in Save /\ y.m \in Int /\ y.cycles \in Nat
      /\ DOMAIN y.st.Plots = DOMAIN st.Plots /\ a \in PlotType
      /\ y.st.LifetimeHarvests \in Amount
    BY <1>1, CursorIs
<1>3. z \in Cursors(st)
    BY <1>1, OneCycleStays
<1>4. PICK h \in Harvested(y.st, crop) :
          z = LET seed == SeedCost(h, crop) IN
              IF h.Plots[p].AutoSow /\ h.Coins >= seed /\ Unlocked(h, crop.Unlock)
              THEN Cursor(Sown(Bought(h, seed), p, y.m), y.m + grow, y.cycles + 1, TRUE)
              ELSE Cursor(Cleared(h, p), y.m, y.cycles, FALSE)
    BY DEF OneCycle
<1>5. /\ h \in Save /\ h.Plots = y.st.Plots
      /\ h.LifetimeHarvests = SatAdd(y.st.LifetimeHarvests, 1)
    BY <1>2, HarvestedPlots
<1>6. h.LifetimeHarvests <= y.st.LifetimeHarvests + 1
    BY <1>2, <1>5, MoneyAssumption DEF SatAdd, Amount
<1>7. a.PlantedAt + 1 * grow = y.m /\ a.PlantedAt \in Int /\ 1 \in Nat \ {0}
    BY <1>1, <1>2 DEF PlotType
<1> DEFINE seed == SeedCost(h, crop)
           b == Bought(h, seed)
           sown == Sown(b, p, y.m)
           cleared == Cleared(h, p)
<1>8. seed \in Nat /\ h.Coins \in Int
    BY <1>5, SeedCostType, SaveTyped DEF Amount
<1>9. z = IF h.Plots[p].AutoSow /\ h.Coins >= seed /\ Unlocked(h, crop.Unlock)
          THEN Cursor(sown, y.m + grow, y.cycles + 1, TRUE)
          ELSE Cursor(cleared, y.m, y.cycles, FALSE)
    BY <1>4
<1> HIDE DEF seed
<1>10. CASE h.Plots[p].AutoSow /\ h.Coins >= seed /\ Unlocked(h, crop.Unlock)
    <2>1. b \in Save /\ b.Plots = h.Plots /\ b.LifetimeHarvests = h.LifetimeHarvests
        BY <1>5, <1>8, <1>10, PaidPlots
    <2> HIDE DEF b
    <2>2. /\ sown.LifetimeHarvests = b.LifetimeHarvests
          /\ \A r \in DOMAIN b.Plots \ {p} : sown.Plots[r] = b.Plots[r]
          /\ sown.Plots[p] = Resown(b.Plots[p], y.m)
        BY <1>2, <1>5, <2>1, SownPlots
    <2> HIDE DEF sown
    <2>3. z.st = sown /\ z.m = y.m + grow
        BY <1>9, <1>10 DEF Cursor
    <2>4. sown.Plots[p].Crop = a.Crop /\ sown.Plots[p].PlantedAt = y.m
        <3>1. sown.Plots[p] = Resown(a, y.m)
            BY <1>5, <2>1, <2>2
        <3>2. a \in PlotType /\ y.m \in Int
            BY <1>2
        <3> HIDE DEF a
        <3>3. Resown(a, y.m).Crop = a.Crop /\ Resown(a, y.m).PlantedAt = y.m
            BY <3>2, PlotsAfter
        <3> QED
            BY <3>1, <3>3
    <2>5. \A r \in DOMAIN st.Plots \ {p} : z.st.Plots[r] = y.st.Plots[r]
        BY <1>2, <1>5, <2>1, <2>2, <2>3
    <2>6. z.st.LifetimeHarvests <= y.st.LifetimeHarvests + 1
        BY <1>6, <2>1, <2>2, <2>3
    <2> QED
        BY <1>3, <1>7, <2>3, <2>4, <2>5, <2>6, SpendingStep
<1>11. CASE ~(h.Plots[p].AutoSow /\ h.Coins >= seed /\ Unlocked(h, crop.Unlock))
    <2>1. /\ cleared.LifetimeHarvests = h.LifetimeHarvests
          /\ \A r \in DOMAIN h.Plots \ {p} : cleared.Plots[r] = h.Plots[r]
          /\ cleared.Plots[p] = Bare(h.Plots[p])
        BY <1>2, <1>5, ClearedPlots
    <2> HIDE DEF cleared
    <2>2. z.st = cleared /\ ~z.on
        BY <1>9, <1>11 DEF Cursor
    <2>3. cleared.Plots[p].Crop = Nothing
        <3>1. cleared.Plots[p] = Bare(a)
            BY <1>5, <2>1
        <3> HIDE DEF a
        <3> QED
            BY <1>2, <3>1, PlotsAfter
    <2>4. \A r \in DOMAIN st.Plots \ {p} : z.st.Plots[r] = y.st.Plots[r]
        BY <1>2, <1>5, <2>1, <2>2
    <2>5. z.st.LifetimeHarvests <= y.st.LifetimeHarvests + 1
        BY <1>6, <2>1, <2>2
    <2> QED
        BY <1>3, <1>7, <2>2, <2>3, <2>4, <2>5, SpendingStep
<1> QED
    BY <1>10, <1>11

\* A batch harvests as often as the plot was ripe.
LEMMA BatchSpends ==
    ASSUME NEW st \in Save, NEW p \in DOMAIN st.Plots, NEW crop \in GoodCrop,
           NEW grow \in Nat \ {0}, NEW lag \in Nat, grow >= lag + 1,
           NEW to \in Int, NEW now \in Int, to <= now,
           NEW y \in Spending(st, p, grow, to, now, lag), y.on, y.m <= to
    PROVE  BatchCycles(y, p, crop, grow, to) \subseteq Spending(st, p, grow, to, now, lag)
<1> SUFFICES ASSUME NEW z \in BatchCycles(y, p, crop, grow, to)
             PROVE  z \in Spending(st, p, grow, to, now, lag)
    OBVIOUS
<1> DEFINE s == y.st
           a == s.Plots[p]
           seed == SeedCost(s, crop)
           gross == ExpectedPayout(s, crop)
           remaining == (to - y.m) \div grow
           n == remaining + 1
           credited == Credit(s, SatMul(gross, n))
           paid == Harvests(credited, n)
           bought == Afforded(paid, SatMul(seed, n))
           at == y.m + remaining * grow
           sown == Sown(bought, p, at)
           go == s.Plots[p].AutoSow /\ s.Coins >= seed /\ gross > seed
<1>1. /\ y \in Cursors(st) /\ a.Crop # Nothing /\ y.m = a.PlantedAt + grow
    BY DEF Spending
<1>2. /\ s \in Save /\ y.m \in Int /\ y.cycles \in Nat
      /\ DOMAIN s.Plots = DOMAIN st.Plots /\ a \in PlotType
      /\ s.LifetimeHarvests \in Amount
    BY <1>1, CursorIs
<1>3. z \in Cursors(st)
    BY <1>1, BatchCyclesStay
<1>4. z = IF go THEN Cursor(sown, y.m + n * grow, y.cycles, TRUE)
          ELSE Cursor(s, y.m, y.cycles, FALSE)
    BY DEF BatchCycles
<1>5. seed \in Nat /\ gross \in Int
    BY <1>2, SeedCostType, ExpectedType
<1>6. /\ remaining \in Nat /\ n \in Nat \ {0} /\ at \in Int
      /\ at <= to /\ y.m + n * grow = at + grow
      /\ at = a.PlantedAt + n * grow
    <2>1. to - y.m \in Nat
        BY <1>2
    <2>2. remaining \in Nat /\ remaining * grow <= to - y.m
        BY <2>1, Quotient
    <2> HIDE DEF remaining
    <2>3. \A k, g \in Nat : k * g \in Nat /\ (k + 1) * g = k * g + g
        BY Z3
    <2>4. remaining * grow \in Nat /\ n * grow = remaining * grow + grow
        BY <2>2, <2>3
    <2> DEFINE t == remaining * grow
               u == n * grow
    <2>5. t \in Nat /\ u = t + grow /\ t <= to - y.m /\ at = y.m + t
        BY <2>2, <2>4
    <2>6. a.PlantedAt \in Int
        BY <1>2 DEF PlotType
    <2> HIDE DEF t, u, at, a
    <2>7. at \in Int /\ at <= to /\ y.m + u = at + grow /\ at = a.PlantedAt + u
        BY <1>1, <1>2, <2>5, <2>6
    <2> QED
        BY <2>2, <2>7 DEF u
<1> HIDE DEF remaining, n, at
<1>7. CASE go
    <2>1. SatMul(gross, n) \in Nat /\ SatMul(seed, n) \in Nat
        <3>1. gross \in Nat /\ n \in Nat
            BY <1>5, <1>6, <1>7
        <3> QED
            BY <1>5, <3>1, SatMulType
    <2>2. /\ credited \in Save /\ credited.Plots = s.Plots
          /\ credited.LifetimeHarvests = s.LifetimeHarvests
        <3> DEFINE amount == SatMul(gross, n)
        <3>1. amount \in Int /\ s \in Save
            BY <1>2, <2>1
        <3>2. credited = Credit(s, amount)
            OBVIOUS
        <3> HIDE DEF amount, s, credited
        <3> QED
            BY <3>1, <3>2, CreditPlots
    <2> HIDE DEF credited
    <2>3. /\ paid \in Save /\ paid.Plots = s.Plots
          /\ paid.LifetimeHarvests = SatAdd(s.LifetimeHarvests, n)
        <3>1. paid \in Save
            BY <1>6, <2>2, HarvestsIs
        <3> QED
            BY <2>2, <3>1 DEF Harvests, Save
    <2>4. paid.LifetimeHarvests <= s.LifetimeHarvests + n
        BY <1>2, <1>6, <2>3, MoneyAssumption DEF SatAdd, Amount
    <2> HIDE DEF paid
    <2>5. /\ bought \in Save /\ bought.Plots = paid.Plots
          /\ bought.LifetimeHarvests = paid.LifetimeHarvests
        <3> DEFINE cost == Min({SatMul(seed, n), paid.Coins})
        <3>1. paid.Coins \in Nat
            BY <2>3, SaveTyped, MoneyAssumption DEF Amount
        <3>2. cost \in Nat /\ cost <= paid.Coins
            BY <2>1, <3>1, MinOfTwo
        <3>3. bought = Bought(paid, cost)
            BY DEF Afforded, Bought
        <3> HIDE DEF cost, bought
        <3> QED
            BY <2>3, <3>2, <3>3, PaidPlots
    <2> HIDE DEF bought
    <2>6. /\ sown.LifetimeHarvests = bought.LifetimeHarvests
          /\ \A r \in DOMAIN bought.Plots \ {p} : sown.Plots[r] = bought.Plots[r]
          /\ sown.Plots[p] = Resown(bought.Plots[p], at)
        BY <1>2, <1>6, <2>3, <2>5, SownPlots
    <2> HIDE DEF sown
    <2>7. z.st = sown /\ z.m = y.m + n * grow
        BY <1>4, <1>7 DEF Cursor
    <2>8. sown.Plots[p].Crop = a.Crop /\ sown.Plots[p].PlantedAt = at
        <3>1. sown.Plots[p] = Resown(a, at)
            BY <2>3, <2>5, <2>6
        <3>2. a \in PlotType /\ at \in Int
            BY <1>2, <1>6
        <3> HIDE DEF a
        <3>3. Resown(a, at).Crop = a.Crop /\ Resown(a, at).PlantedAt = at
            BY <3>2, PlotsAfter
        <3> QED
            BY <3>1, <3>3
    <2>9. \A r \in DOMAIN st.Plots \ {p} : z.st.Plots[r] = y.st.Plots[r]
        BY <1>2, <2>3, <2>5, <2>6, <2>7
    <2>10. z.st.LifetimeHarvests <= y.st.LifetimeHarvests + n
        BY <2>4, <2>5, <2>6, <2>7
    <2>11. /\ z.st.Plots[p].Crop = y.st.Plots[p].Crop
           /\ z.st.Plots[p].PlantedAt = y.st.Plots[p].PlantedAt + n * grow
           /\ z.m = z.st.Plots[p].PlantedAt + grow
           /\ y.st.Plots[p].PlantedAt + n * grow <= to
        BY <1>6, <2>7, <2>8
    <2> QED
        BY <1>3, <1>6, <2>9, <2>10, <2>11, SpendingStep
<1>8. CASE ~go
    <2>1. z = Cursor(s, y.m, y.cycles, FALSE)
        BY <1>4, <1>8
    <2>2. z.st = y.st /\ ~z.on
        BY <2>1 DEF Cursor
    <2> QED
        BY <1>3, <2>2 DEF Spending
<1> QED
    BY <1>7, <1>8

\* So no loop over an automated plot harvests more than the plot has grown.
LEMMA AutoPlotSpends ==
    ASSUME NEW st \in Save, NEW p \in DOMAIN st.Plots, st.Plots[p].Crop # Nothing,
           NEW crop \in GoodCrop, NEW grow \in Nat \ {0}, NEW lag \in Nat, grow >= lag + 1,
           NEW to \in Int, NEW now \in Int, to <= now,
           NEW x \in AutoPlot(st, p, crop, grow, to)
    PROVE  /\ x \in Save /\ Len(x.Plots) = Len(st.Plots)
           /\ \A r \in DOMAIN st.Plots \ {p} : x.Plots[r] = st.Plots[r]
           /\ \/ x.Plots[p].Crop = Nothing
              \/ x.Plots[p].PlantedAt <= to
              \/ x.Plots[p].PlantedAt = st.Plots[p].PlantedAt
           /\ x.LifetimeHarvests + Ripening(x.Plots[p], now, lag)
                 <= st.LifetimeHarvests + Ripening(st.Plots[p], now, lag)
<1> DEFINE n == AutoCycleCap + 2
           T == Spending(st, p, grow, to, now, lag)
           S == SUBSET T
<1>1. PICK after : IsAutoRun(after, st, p, crop, grow, to)
    BY AutoPlotIs
<1>2. n \in Nat
    BY EngineAssumption
<1>3. after[0] \in S
    <2> DEFINE y == Cursor(st, st.Plots[p].PlantedAt + grow, 0, TRUE)
    <2>1. after[0] = {y} /\ 0 \in 0 .. n
        BY <1>1, <1>2 DEF IsAutoRun
    <2>2. y \in Cursors(st)
        BY <1>1, <2>1 DEF IsAutoRun
    <2>3. /\ y.st = st /\ y.m = st.Plots[p].PlantedAt + grow
        BY DEF Cursor
    <2>4. /\ st.LifetimeHarvests \in Int /\ Ripening(st.Plots[p], now, lag) \in Nat
        <3>1. st.LifetimeHarvests \in Int
            BY SaveTyped DEF Amount
        <3>2. st.Plots[p] \in PlotType /\ 0 \in Nat
            BY PlotTyped
        <3> QED
            BY <3>1, <3>2, RipeningType
    <2> HIDE DEF y
    <2>5. y \in T
        BY <2>2, <2>3, <2>4 DEF Spending
    <2> QED
        BY <2>1, <2>5
<1>4. \A y \in T : Iteration(y, p, crop, grow, to) \subseteq T
    <2> SUFFICES ASSUME NEW y \in T PROVE Iteration(y, p, crop, grow, to) \subseteq T
        OBVIOUS
    <2>1. y \in Cursors(st) /\ y.m \in Int
        BY CursorIs DEF Spending
    <2>2. CASE ~y.on \/ y.m > to
        <3>1. [y EXCEPT !.on = FALSE] \in T
            BY <2>1 DEF Cursors, Spending
        <3> QED
            BY <2>2, <3>1 DEF Iteration
    <2>3. CASE ~(~y.on \/ y.m > to)
        <3>1. y.on /\ y.m <= to
            BY <2>1, <2>3
        <3>2. BatchCycles(y, p, crop, grow, to) \subseteq T
            BY <3>1, BatchSpends
        <3>3. OneCycle(y, p, crop, grow) \subseteq T
            BY <3>1, OneCycleSpends
        <3> QED
            BY <2>3, <3>2, <3>3 DEF Iteration
    <2> QED
        BY <2>2, <2>3
<1> HIDE DEF T
<1>5. \A i \in 1 .. n : after[i - 1] \in S => after[i] \in S
    BY <1>1, <1>4 DEF IsAutoRun
<1> HIDE DEF S, n
<1>6. after[n] \in S
    BY <1>2, <1>3, <1>5, LoopStays
<1>7. PICK y \in after[n] : x = y.st
    BY <1>1 DEF IsAutoRun, n
<1>8. y \in Spending(st, p, grow, to, now, lag)
    BY <1>6 DEF S, T
<1>9. /\ y.st \in Save /\ Len(y.st.Plots) = Len(st.Plots)
    BY <1>8, CursorIs DEF Spending
<1> QED
    BY <1>7, <1>8, <1>9 DEF Spending

\* Sums add up term by term.
LEMMA SumAdds ==
    ASSUME NEW n \in Nat, NEW w \in [1 .. n -> Nat], NEW v \in [1 .. n -> Nat],
           NEW u \in [1 .. n -> Nat], \A i \in 1 .. n : u[i] = w[i] + v[i]
    PROVE  SumTo(n, u) = SumTo(n, w) + SumTo(n, v)
<1>1. PICK f : /\ f[0] = 0 /\ \A i \in 1 .. n : f[i] = f[i - 1] + w[i]
               /\ \A i \in 0 .. n : f[i] \in Nat
               /\ SumTo(n, w) = f[n]
    BY SumLoop
<1>2. PICK g : /\ g[0] = 0 /\ \A i \in 1 .. n : g[i] = g[i - 1] + v[i]
               /\ \A i \in 0 .. n : g[i] \in Nat
               /\ SumTo(n, v) = g[n]
    BY SumLoop
<1>3. PICK h : /\ h[0] = 0 /\ \A i \in 1 .. n : h[i] = h[i - 1] + u[i]
               /\ \A i \in 0 .. n : h[i] \in Nat
               /\ SumTo(n, u) = h[n]
    BY SumLoop
<1> DEFINE D == {k \in Nat : k <= n => h[k] = f[k] + g[k]}
<1>4. 0 \in D
    BY <1>1, <1>2, <1>3
<1>5. ASSUME NEW k \in Nat, k \in D PROVE k + 1 \in D
    <2> SUFFICES ASSUME k + 1 <= n PROVE h[k + 1] = f[k + 1] + g[k + 1]
        OBVIOUS
    <2>1. k + 1 \in 1 .. n /\ (k + 1) - 1 = k /\ k \in 0 .. n /\ h[k] = f[k] + g[k]
        BY <1>5
    <2>2. /\ f[k + 1] = f[k] + w[k + 1] /\ g[k + 1] = g[k] + v[k + 1]
          /\ h[k + 1] = h[k] + u[k + 1] /\ u[k + 1] = w[k + 1] + v[k + 1]
        BY <2>1, <1>1, <1>2, <1>3
    <2> DEFINE a == f[k]
               b == g[k]
               c == w[k + 1]
               d == v[k + 1]
    <2>3. a \in Nat /\ b \in Nat /\ c \in Nat /\ d \in Nat
        BY <2>1, <1>1, <1>2
    <2>4. f[k + 1] = a + c /\ g[k + 1] = b + d /\ h[k + 1] = (a + b) + (c + d)
        BY <2>1, <2>2
    <2> HIDE DEF a, b, c, d
    <2>5. (a + b) + (c + d) = (a + c) + (b + d)
        BY <2>3
    <2> QED
        BY <2>4, <2>5
<1> HIDE DEF D
<1>6. Nat \subseteq D
    BY <1>4, <1>5, Induction
<1> QED
    BY <1>1, <1>2, <1>3, <1>6 DEF D

\* Ones add up to their number.
LEMMA SumOfOnes ==
    ASSUME NEW n \in Nat, NEW w \in [1 .. n -> Nat], \A i \in 1 .. n : w[i] = 1
    PROVE  SumTo(n, w) = n
<1>1. PICK f : /\ f[0] = 0 /\ \A i \in 1 .. n : f[i] = f[i - 1] + w[i]
               /\ \A i \in 0 .. n : f[i] \in Nat
               /\ SumTo(n, w) = f[n]
    BY SumLoop
<1> DEFINE D == {k \in Nat : k <= n => f[k] = k}
<1>2. 0 \in D
    BY <1>1
<1>3. ASSUME NEW k \in Nat, k \in D PROVE k + 1 \in D
    <2> SUFFICES ASSUME k + 1 <= n PROVE f[k + 1] = k + 1
        OBVIOUS
    <2>1. k + 1 \in 1 .. n /\ (k + 1) - 1 = k /\ f[k] = k
        BY <1>3
    <2> QED
        BY <2>1, <1>1
<1> HIDE DEF D
<1>4. Nat \subseteq D
    BY <1>2, <1>3, Induction
<1> QED
    BY <1>1, <1>4 DEF D

-----------------------------------------------------------------------------
(* Time and harvests.                                                       *)

\* No crop grows in as little as this many seconds.
Outgrown(lag) ==
    \A st \in Save, id \in Ids(Content.Crops) :
        GrowSeconds(st, ById(Content.Crops, id)) >= lag + 1

\* Every crop grows for a second at least.
LEMMA AllOutgrow ==
    /\ Outgrown(0)
    /\ SlowCrops => Outgrown(MaxLag)
<1>1. ASSUME NEW st \in Save, NEW id \in Ids(Content.Crops)
      PROVE  GrowSeconds(st, ById(Content.Crops, id)) >= 0 + 1
    <2> DEFINE g == GrowSeconds(st, ById(Content.Crops, id))
    <2>1. g \in Nat \ {0}
        BY CropById, GrowType
    <2> HIDE DEF g
    <2>2. g >= 0 + 1
        BY <2>1
    <2> QED
        BY <2>2 DEF g
<1> QED
    BY <1>1, OutgrowsLag DEF Outgrown

\* No more plots than land and zones can give.
Most == Content.Land.MaxPlots + ZonePlots(Ids(Content.Zones))

\* A farm whose land is accounted for has no more plots than that.
LEMMA MostPlots ==
    ASSUME NEW st \in Save, LandFits(st)
    PROVE  Most \in Nat /\ Len(st.Plots) \in 0 .. Most /\ DOMAIN st.Plots \subseteq 1 .. Most
<1>1. /\ Content.Land.MaxPlots \in Nat /\ Content.Start.Plots \in Nat
      /\ ZonePlots(st.Zones) \in Nat /\ ZonePlots(Ids(Content.Zones)) \in Nat
      /\ st.PurchasedPlots \in Nat
      /\ Len(st.Plots) \in Nat /\ DOMAIN st.Plots = 1 .. Len(st.Plots)
    BY RunTyped, ZonePlotsType, SaveTyped
<1>2. ZonePlots(st.Zones) <= ZonePlots(Ids(Content.Zones))
    <2> DEFINE n == Len(Content.Zones)
               w == ZoneTerms(st.Zones)
               v == ZoneTerms(Ids(Content.Zones))
    <2>1. /\ w \in [1 .. n -> Nat] /\ v \in [1 .. n -> Nat] /\ n \in Nat
          /\ ZonePlots(st.Zones) = SumTo(n, w) /\ ZonePlots(Ids(Content.Zones)) = SumTo(n, v)
        BY ZoneTermsTyped
    <2>2. \A i \in 1 .. n : w[i] <= v[i]
        <3> SUFFICES ASSUME NEW i \in 1 .. n PROVE w[i] <= v[i]
            OBVIOUS
        <3>1. w[i] \in Nat /\ v[i] \in Nat
            BY <2>1
        <3>2. w[i] = 0 \/ w[i] = v[i]
            BY SaveTyped DEF ZoneTerms
        <3> QED
            BY <3>1, <3>2
    <2> HIDE DEF w, v
    <2> QED
        BY <2>1, <2>2, SumGrows
<1> DEFINE n == Len(st.Plots)
           all == ZonePlots(Ids(Content.Zones))
           mine == ZonePlots(st.Zones)
           top == Content.Land.MaxPlots
           own == Content.Start.Plots + st.PurchasedPlots
<1>3. /\ n \in Nat /\ all \in Nat /\ mine \in Nat /\ top \in Nat /\ own \in Nat
      /\ n = own + mine /\ own <= top /\ mine <= all /\ Most = top + all
      /\ DOMAIN st.Plots = 1 .. n
    BY <1>1, <1>2 DEF LandFits, Most
<1> HIDE DEF n, all, mine, top, own
<1>4. Most \in Nat /\ n \in 0 .. Most
    BY <1>3
<1>5. DOMAIN st.Plots \subseteq 1 .. Most
    BY <1>3, <1>4
<1> QED
    BY <1>4, <1>5 DEF n

\* What the crops of all plots have grown.
RipeningOf(st, now, lag) ==
    [p \in 1 .. Most |->
        IF p \in DOMAIN st.Plots THEN Ripening(st.Plots[p], now, lag) ELSE 0]

Ripe(st, now, lag) == SumTo(Most, RipeningOf(st, now, lag))

\* What has grown is a count of seconds.
LEMMA RipeType ==
    ASSUME NEW st \in Save, LandFits(st), NEW now \in Int, NEW lag \in Nat
    PROVE  /\ Most \in Nat
           /\ RipeningOf(st, now, lag) \in [1 .. Most -> Nat]
           /\ Ripe(st, now, lag) \in Nat
<1>1. Most \in Nat
    BY MostPlots
<1>2. \A p \in DOMAIN st.Plots : Ripening(st.Plots[p], now, lag) \in Nat
    <2> SUFFICES ASSUME NEW p \in DOMAIN st.Plots PROVE Ripening(st.Plots[p], now, lag) \in Nat
        OBVIOUS
    <2>1. st.Plots[p] \in PlotType /\ 0 \in Nat
        BY PlotTyped
    <2> QED
        BY <2>1, RipeningType
<1>3. RipeningOf(st, now, lag) \in [1 .. Most -> Nat]
    BY <1>2 DEF RipeningOf
<1> QED
    BY <1>1, <1>3, SumType DEF Ripe

\* They ripen as the clock does.
LEMMA RipensInTime ==
    ASSUME NEW st \in Save, LandFits(st), NEW now \in Int, NEW lag \in Nat
    PROVE  Ripe(st, now + 1, lag) <= Ripe(st, now, lag) + Most
<1> DEFINE w == RipeningOf(st, now, lag)
           v == RipeningOf(st, now + 1, lag)
           one == [p \in 1 .. Most |-> 1]
           u == [p \in 1 .. Most |-> w[p] + 1]
<1>1. now + 1 \in Int
    OBVIOUS
<1>2. /\ Most \in Nat /\ w \in [1 .. Most -> Nat] /\ v \in [1 .. Most -> Nat]
    BY <1>1, RipeType
<1>3. \A p \in 1 .. Most : v[p] <= w[p] + 1
    <2> SUFFICES ASSUME NEW p \in 1 .. Most PROVE v[p] <= w[p] + 1
        OBVIOUS
    <2>1. CASE p \in DOMAIN st.Plots
        <3>1. st.Plots[p] \in PlotType /\ 1 \in Nat
            BY <2>1, PlotTyped
        <3>2. Ripening(st.Plots[p], now + 1, lag) <= Ripening(st.Plots[p], now, lag) + 1
            BY <3>1, RipeningType
        <3> QED
            BY <2>1, <3>2 DEF RipeningOf
    <2>2. CASE p \notin DOMAIN st.Plots
        BY <2>2 DEF RipeningOf
    <2> QED
        BY <2>1, <2>2
<1> HIDE DEF w, v
<1>4. one \in [1 .. Most -> Nat] /\ u \in [1 .. Most -> Nat]
    BY <1>2
<1>5. SumTo(Most, one) = Most
    BY <1>2, <1>4, SumOfOnes
<1>6. SumTo(Most, u) = SumTo(Most, w) + SumTo(Most, one)
    BY <1>2, <1>4, SumAdds
<1>7. SumTo(Most, v) <= SumTo(Most, u)
    <2>1. \A p \in 1 .. Most : v[p] <= u[p]
        BY <1>3
    <2> HIDE DEF u
    <2> QED
        BY <1>2, <1>4, <2>1, SumGrows
<1> QED
    BY <1>5, <1>6, <1>7 DEF Ripe, w, v

\* Plots of which none has grown more.
LEMMA RipeGrows ==
    ASSUME NEW st \in Save, LandFits(st), NEW x \in Save, LandFits(x),
           NEW now \in Int, NEW lag \in Nat,
           \A p \in DOMAIN x.Plots :
              \/ Ripening(x.Plots[p], now, lag) = 0
              \/ /\ p \in DOMAIN st.Plots
                 /\ Ripening(x.Plots[p], now, lag) <= Ripening(st.Plots[p], now, lag)
    PROVE  Ripe(x, now, lag) <= Ripe(st, now, lag)
<1> DEFINE w == RipeningOf(x, now, lag)
           v == RipeningOf(st, now, lag)
<1>1. Most \in Nat /\ w \in [1 .. Most -> Nat] /\ v \in [1 .. Most -> Nat]
    BY RipeType
<1>2. \A p \in 1 .. Most : w[p] <= v[p]
    <2> SUFFICES ASSUME NEW p \in 1 .. Most PROVE w[p] <= v[p]
        OBVIOUS
    <2>1. w[p] \in Nat /\ v[p] \in Nat
        BY <1>1
    <2>2. w[p] = 0 \/ w[p] <= v[p]
        BY DEF RipeningOf
    <2> HIDE DEF w, v
    <2> QED
        BY <2>1, <2>2
<1> HIDE DEF w, v
<1> QED
    BY <1>1, <1>2, SumGrows DEF Ripe, w, v

\* A plot that was harvested.
LEMMA RipeSpends ==
    ASSUME NEW st \in Save, LandFits(st), NEW x \in Save, LandFits(x),
           NEW now \in Int, NEW lag \in Nat, NEW p \in DOMAIN st.Plots,
           DOMAIN x.Plots = DOMAIN st.Plots,
           \A r \in DOMAIN st.Plots \ {p} : x.Plots[r] = st.Plots[r],
           x.LifetimeHarvests + Ripening(x.Plots[p], now, lag)
              <= st.LifetimeHarvests + Ripening(st.Plots[p], now, lag)
    PROVE  x.LifetimeHarvests + Ripe(x, now, lag) <= st.LifetimeHarvests + Ripe(st, now, lag)
<1> DEFINE w == RipeningOf(st, now, lag)
           v == RipeningOf(x, now, lag)
<1>1. Most \in Nat /\ w \in [1 .. Most -> Nat] /\ v \in [1 .. Most -> Nat]
    BY RipeType
<1>2. p \in 1 .. Most
    BY MostPlots
<1>3. /\ w[p] = Ripening(st.Plots[p], now, lag) /\ v[p] = Ripening(x.Plots[p], now, lag)
      /\ \A r \in (1 .. Most) \ {p} : w[r] = v[r]
    BY <1>2 DEF RipeningOf
<1>4. x.LifetimeHarvests \in Int /\ st.LifetimeHarvests \in Int
    BY SaveTyped DEF Amount
<1> HIDE DEF w, v
<1>5. SumTo(Most, v) + w[p] = SumTo(Most, w) + v[p]
    BY <1>1, <1>2, <1>3, SumChanges
<1> DEFINE a == w[p]
           b == v[p]
           s == SumTo(Most, w)
           t == SumTo(Most, v)
           hs == st.LifetimeHarvests
           hx == x.LifetimeHarvests
<1>6. /\ a \in Nat /\ b \in Nat /\ s \in Nat /\ t \in Nat /\ hs \in Int /\ hx \in Int
      /\ t + a = s + b /\ hx + b <= hs + a
    BY <1>1, <1>2, <1>3, <1>4, <1>5, SumType
<1> HIDE DEF a, b, s, t, hs, hx
<1>7. hx + t <= hs + s
    BY <1>6
<1> QED
    BY <1>7 DEF a, b, s, t, hs, hx, Ripe, w, v

-----------------------------------------------------------------------------
(* What takes time.                                                         *)

\* What grows was sown by the time that the save has come to.
Rooted(st) ==
    \A p \in DOMAIN st.Plots :
        st.Plots[p].Crop # Nothing => st.Plots[p].PlantedAt <= st.UpdatedAt

\* x is st after something that was done at a time now: nothing was harvested that
\* had not ripened by the clock, and only a rebirth sets the time of the save back.
TimeKept(st, x, now, clk, lag) ==
    /\ x.UpdatedAt \in {st.UpdatedAt, now}
    /\ x.UpdatedAt >= st.UpdatedAt \/ x.Rebirths > st.Rebirths
    /\ Rooted(st) => Rooted(x)
    /\ x.LifetimeHarvests + Ripe(x, clk, lag) <= st.LifetimeHarvests + Ripe(st, clk, lag)

\* An action at a time that no session's time is behind.
Timely(now, clk, lag) ==
    /\ now \in Int /\ clk \in Int /\ lag \in Nat
    /\ now <= clk /\ clk - now <= lag /\ Outgrown(lag)

\* Nothing takes no time.
LEMMA QuietKeeps ==
    ASSUME NEW st, Good(st), NEW x, Good(x), NEW now, NEW clk, NEW lag,
           Timely(now, clk, lag),
           x.UpdatedAt = st.UpdatedAt, now <= st.UpdatedAt,
           x.LifetimeHarvests = st.LifetimeHarvests,
           \A p \in DOMAIN x.Plots :
              \/ x.Plots[p].Crop = Nothing
              \/ x.Plots[p].PlantedAt = now
              \/ /\ p \in DOMAIN st.Plots /\ st.Plots[p].Crop # Nothing
                 /\ x.Plots[p].PlantedAt = st.Plots[p].PlantedAt
    PROVE  TimeKept(st, x, now, clk, lag)
<1>1. /\ st \in Save /\ LandFits(st) /\ x \in Save /\ LandFits(x)
      /\ now \in Int /\ clk \in Int /\ lag \in Nat
      /\ st.UpdatedAt \in Int /\ st.LifetimeHarvests \in Int
    BY SaveTyped DEF Good, Timely, Amount
<1>2. Ripe(x, clk, lag) <= Ripe(st, clk, lag)
    <2> SUFFICES ASSUME NEW p \in DOMAIN x.Plots
                 PROVE  \/ Ripening(x.Plots[p], clk, lag) = 0
                        \/ /\ p \in DOMAIN st.Plots
                           /\ Ripening(x.Plots[p], clk, lag) <= Ripening(st.Plots[p], clk, lag)
        BY <1>1, RipeGrows
    <2>1. CASE x.Plots[p].Crop = Nothing
        BY <2>1 DEF Ripening
    <2>2. CASE x.Plots[p].PlantedAt = now
        BY <2>2 DEF Ripening, Timely
    <2>3. CASE /\ x.Plots[p].Crop # Nothing
               /\ p \in DOMAIN st.Plots /\ st.Plots[p].Crop # Nothing
               /\ x.Plots[p].PlantedAt = st.Plots[p].PlantedAt
        <3>1. Ripening(x.Plots[p], clk, lag) = Ripening(st.Plots[p], clk, lag)
            BY <2>3 DEF Ripening
        <3>2. st.Plots[p] \in PlotType /\ 0 \in Nat
            BY <1>1, <2>3, PlotTyped
        <3>3. Ripening(st.Plots[p], clk, lag) \in Nat
            BY <1>1, <3>2, RipeningType
        <3> QED
            BY <2>3, <3>1, <3>3
    <2> QED
        BY <2>1, <2>2, <2>3
<1>3. Rooted(st) => Rooted(x)
    BY DEF Rooted
<1>4. /\ Ripe(x, clk, lag) \in Nat /\ Ripe(st, clk, lag) \in Nat
    BY <1>1, RipeType
<1> QED
    BY <1>1, <1>2, <1>3, <1>4 DEF TimeKept

\* One plot is harvested.
LEMMA SpendingKeeps ==
    ASSUME NEW st, Good(st), NEW x, Good(x), NEW now, NEW clk, NEW lag,
           Timely(now, clk, lag),
           x.UpdatedAt = st.UpdatedAt, now <= st.UpdatedAt,
           NEW p \in DOMAIN st.Plots, DOMAIN x.Plots = DOMAIN st.Plots,
           \A r \in DOMAIN st.Plots \ {p} : x.Plots[r] = st.Plots[r],
           \/ x.Plots[p].Crop = Nothing
           \/ x.Plots[p].PlantedAt <= now
           \/ st.Plots[p].Crop # Nothing /\ x.Plots[p].PlantedAt = st.Plots[p].PlantedAt,
           x.LifetimeHarvests + Ripening(x.Plots[p], clk, lag)
              <= st.LifetimeHarvests + Ripening(st.Plots[p], clk, lag)
    PROVE  TimeKept(st, x, now, clk, lag)
<1>1. /\ st \in Save /\ LandFits(st) /\ x \in Save /\ LandFits(x)
      /\ now \in Int /\ clk \in Int /\ lag \in Nat /\ st.UpdatedAt \in Int
    BY SaveTyped DEF Good, Timely
<1>2. x.LifetimeHarvests + Ripe(x, clk, lag) <= st.LifetimeHarvests + Ripe(st, clk, lag)
    BY <1>1, RipeSpends
<1>3. Rooted(st) => Rooted(x)
    <2> SUFFICES ASSUME Rooted(st), NEW r \in DOMAIN x.Plots, x.Plots[r].Crop # Nothing
                 PROVE  x.Plots[r].PlantedAt <= x.UpdatedAt
        BY DEF Rooted
    <2>1. x.Plots[r].PlantedAt \in Int
        BY <1>1, PlotTyped DEF PlotType
    <2>2. CASE r # p
        BY <2>2 DEF Rooted
    <2>3. CASE r = p
        BY <1>1, <2>1, <2>3 DEF Rooted
    <2> QED
        BY <2>2, <2>3
<1> QED
    BY <1>1, <1>2, <1>3 DEF TimeKept

\* One thing after another.
LEMMA TimeKeptTwice ==
    ASSUME NEW st, Good(st), NEW y, Good(y), NEW x, Good(x), NEW now, NEW clk, NEW lag,
           Timely(now, clk, lag), st.Rebirths <= y.Rebirths, y.Rebirths <= x.Rebirths,
           TimeKept(st, y, now, clk, lag), TimeKept(y, x, now, clk, lag)
    PROVE  TimeKept(st, x, now, clk, lag)
<1>1. /\ st \in Save /\ LandFits(st) /\ y \in Save /\ LandFits(y) /\ x \in Save /\ LandFits(x)
      /\ now \in Int /\ clk \in Int /\ lag \in Nat
    BY DEF Good, Timely
<1>2. /\ st.UpdatedAt \in Int /\ y.UpdatedAt \in Int /\ x.UpdatedAt \in Int
      /\ st.Rebirths \in Int /\ y.Rebirths \in Int /\ x.Rebirths \in Int
      /\ st.LifetimeHarvests \in Int /\ y.LifetimeHarvests \in Int
      /\ x.LifetimeHarvests \in Int
    BY <1>1, SaveTyped DEF Amount
<1>3. /\ Ripe(st, clk, lag) \in Nat /\ Ripe(y, clk, lag) \in Nat /\ Ripe(x, clk, lag) \in Nat
    BY <1>1, RipeType
<1> QED
    BY <1>2, <1>3 DEF TimeKept

\* x is st after plots were advanced to a time.
Spent(st, x, to, clk, lag) ==
    /\ DOMAIN x.Plots = DOMAIN st.Plots
    /\ \A p \in DOMAIN st.Plots :
          \/ x.Plots[p].Crop = Nothing
          \/ x.Plots[p].PlantedAt <= to
          \/ st.Plots[p].Crop # Nothing /\ x.Plots[p].PlantedAt = st.Plots[p].PlantedAt
    /\ x.LifetimeHarvests + Ripe(x, clk, lag) <= st.LifetimeHarvests + Ripe(st, clk, lag)

\* Tending leaves the land as it was.
LEMMA TendedFitsLand ==
    ASSUME NEW st \in Save, LandFits(st), NEW x, Tended(st, x)
    PROVE  x \in Save /\ LandFits(x)
BY TendedKeeps DEF LandFits, Tended

\* A plot that is advanced harvests no more than it has grown.
LEMMA AdvancePlotSpends ==
    ASSUME NEW st \in Save, LandFits(st), NEW to, NEW clk, NEW lag, Timely(to, clk, lag),
           NEW p \in DOMAIN st.Plots, NEW online, NEW x \in AdvancePlot(st, p, online, to)
    PROVE  Spent(st, x, to, clk, lag)
<1> DEFINE plot == st.Plots[p]
           crop == ById(Content.Crops, plot.Crop)
           grow == GrowSeconds(st, crop)
<1>1. /\ to \in Int /\ clk \in Int /\ lag \in Nat /\ to <= clk
      /\ plot \in PlotType
    BY PlotTyped DEF Timely
<1>2. x \in Save /\ LandFits(x)
    BY <1>1, AdvancePlotTends, TendedFitsLand
<1>3. CASE x = st
    <2>1. \A r \in DOMAIN st.Plots :
             st.Plots[r].Crop = Nothing \/ st.Plots[r].Crop # Nothing
        OBVIOUS
    <2>2. st.LifetimeHarvests \in Int /\ Ripe(st, clk, lag) \in Nat
        BY <1>1, SaveTyped, RipeType DEF Amount
    <2> QED
        BY <1>3, <2>1, <2>2 DEF Spent
<1>4. CASE plot.Crop = Nothing /\ x # st
    <2>1. PICK visit \in BOOLEAN : x = [st EXCEPT !.Plots[p] = [@ EXCEPT !.Critter = visit]]
        BY <1>4 DEF AdvancePlot, MaybeCritterVisit, Roll
    <2> DEFINE q == [plot EXCEPT !.Critter = visit]
    <2>2. q \in PlotType /\ q.Crop = Nothing
        BY <1>1, <1>4 DEF PlotType
    <2>3. x = [st EXCEPT !.Plots[p] = q]
        BY <2>1
    <2> HIDE DEF q
    <2>4. /\ x \in Save /\ But({"Plots"}, st, x) /\ DOMAIN x.Plots = DOMAIN st.Plots
          /\ \A r \in DOMAIN st.Plots : x.Plots[r] = IF r = p THEN q ELSE st.Plots[r]
        BY <2>2, <2>3, PlotSet
    <2>5. x.LifetimeHarvests = st.LifetimeHarvests /\ x.LifetimeHarvests \in Int
        BY <2>4, SaveTyped DEF But, Save, Amount
    <2>6. Ripening(x.Plots[p], clk, lag) = 0 /\ Ripening(st.Plots[p], clk, lag) = 0
        BY <1>4, <2>2, <2>4 DEF Ripening
    <2>7. x.LifetimeHarvests + Ripe(x, clk, lag) <= st.LifetimeHarvests + Ripe(st, clk, lag)
        <3>1. x.LifetimeHarvests + Ripening(x.Plots[p], clk, lag)
                 <= st.LifetimeHarvests + Ripening(st.Plots[p], clk, lag)
            BY <2>5, <2>6
        <3>2. \A r \in DOMAIN st.Plots \ {p} : x.Plots[r] = st.Plots[r]
            BY <2>4
        <3> QED
            BY <1>1, <1>2, <2>4, <3>1, <3>2, RipeSpends
    <2>8. \A r \in DOMAIN st.Plots :
             \/ x.Plots[r].Crop = Nothing
             \/ st.Plots[r].Crop # Nothing /\ x.Plots[r].PlantedAt = st.Plots[r].PlantedAt
        BY <2>2, <2>4
    <2> QED
        BY <2>4, <2>7, <2>8 DEF Spent
<1>5. CASE plot.Crop # Nothing /\ x # st
    <2>1. plot.Crop \in Ids(Content.Crops)
        BY <1>1, <1>5 DEF PlotType
    <2>2. crop \in GoodCrop
        BY <2>1, CropById
    <2>3. x \in AutoPlot(st, p, crop, grow, to)
        BY <1>5 DEF AdvancePlot
    <2>4. grow \in Nat \ {0} /\ grow >= lag + 1
        BY <2>1, <2>2, GrowType DEF Timely, Outgrown
    <2> HIDE DEF crop, grow
    <2>5. /\ Len(x.Plots) = Len(st.Plots)
          /\ \A r \in DOMAIN st.Plots \ {p} : x.Plots[r] = st.Plots[r]
          /\ \/ x.Plots[p].Crop = Nothing
             \/ x.Plots[p].PlantedAt <= to
             \/ x.Plots[p].PlantedAt = st.Plots[p].PlantedAt
          /\ x.LifetimeHarvests + Ripening(x.Plots[p], clk, lag)
                <= st.LifetimeHarvests + Ripening(st.Plots[p], clk, lag)
        BY <1>1, <1>5, <2>2, <2>3, <2>4, AutoPlotSpends
    <2>6. DOMAIN x.Plots = DOMAIN st.Plots
        BY <1>2, <2>5, SaveTyped
    <2>7. x.LifetimeHarvests + Ripe(x, clk, lag) <= st.LifetimeHarvests + Ripe(st, clk, lag)
        BY <1>1, <1>2, <2>5, <2>6, RipeSpends
    <2>8. \A r \in DOMAIN st.Plots :
             \/ x.Plots[r].Crop = Nothing
             \/ x.Plots[r].PlantedAt <= to
             \/ st.Plots[r].Crop # Nothing /\ x.Plots[r].PlantedAt = st.Plots[r].PlantedAt
        BY <1>5, <2>5
    <2> QED
        BY <2>6, <2>7, <2>8 DEF Spent
<1> QED
    BY <1>3, <1>4, <1>5

\* Nor does another after it.
LEMMA SpentTwice ==
    ASSUME NEW st \in Save, LandFits(st), NEW y \in Save, LandFits(y),
           NEW x \in Save, LandFits(x), NEW to \in Int, NEW clk \in Int, NEW lag \in Nat,
           Spent(st, y, to, clk, lag), Spent(y, x, to, clk, lag)
    PROVE  Spent(st, x, to, clk, lag)
<1>1. /\ st.LifetimeHarvests \in Int /\ y.LifetimeHarvests \in Int
      /\ x.LifetimeHarvests \in Int
      /\ Ripe(st, clk, lag) \in Nat /\ Ripe(y, clk, lag) \in Nat /\ Ripe(x, clk, lag) \in Nat
    BY SaveTyped, RipeType DEF Amount
<1>2. x.LifetimeHarvests + Ripe(x, clk, lag) <= st.LifetimeHarvests + Ripe(st, clk, lag)
    BY <1>1 DEF Spent
<1>3. DOMAIN x.Plots = DOMAIN st.Plots
    BY DEF Spent
<1>4. ASSUME NEW p \in DOMAIN st.Plots
      PROVE  \/ x.Plots[p].Crop = Nothing
             \/ x.Plots[p].PlantedAt <= to
             \/ st.Plots[p].Crop # Nothing /\ x.Plots[p].PlantedAt = st.Plots[p].PlantedAt
    BY DEF Spent
<1> QED
    BY <1>2, <1>3, <1>4 DEF Spent

\* What the rolls before the plots leave.
LEMMA GiftedIs ==
    ASSUME NEW st \in Save, NEW to \in Int, NEW elapsed, NEW online, NEW x,
           \E z \in IF online THEN RollOnlineEvent(Expire(st, to), elapsed, to)
                               ELSE {Expire(st, to)} :
              x \in RollGiftArrival(z, elapsed, online)
    PROVE  x \in Save /\ But(Rolled, st, x)
<1> DEFINE e == Expire(st, to)
<1>1. PICK z \in IF online THEN RollOnlineEvent(e, elapsed, to) ELSE {e} :
          x \in RollGiftArrival(z, elapsed, online)
    OBVIOUS
<1>2. e \in Save /\ But(Rolled, st, e) /\ InForceAt(e, to)
    BY ExpireIs
<1> HIDE DEF e
<1>3. z \in Save /\ But(Rolled, e, z) /\ InForceAt(z, to)
    <2>1. CASE online
        BY <1>1, <1>2, <2>1, RollOnlineEventIs
    <2>2. CASE ~online
        BY <1>1, <1>2, <2>2 DEF But
    <2> QED
        BY <2>1, <2>2
<1>4. x \in Save /\ But(Rolled, z, x)
    BY <1>1, <1>3, RollGiftArrivalIs
<1> QED
    BY <1>2, <1>3, <1>4, RolledTwice

\* No Advance harvests more than has grown.
LEMMA GrownSpends ==
    ASSUME NEW st \in Save, LandFits(st), NEW to, NEW clk, NEW lag, Timely(to, clk, lag),
           NEW online, NEW gifted \in SUBSET Stage(st, to),
           \A y \in gifted : But(Rolled, st, y),
           NEW x \in GrownFrom(gifted, st, online, to)
    PROVE  Spent(st, x, to, clk, lag)
<1> DEFINE n == Len(st.Plots)
           T == {y \in Stage(st, to) : Spent(st, y, to, clk, lag)}
           S == SUBSET T
<1>1. to \in Int /\ clk \in Int /\ lag \in Nat
    BY DEF Timely
<1>2. PICK grown : IsGrownRun(grown, gifted, st, online, to)
    BY <1>1, GrownIs
<1>3. n \in Nat /\ DOMAIN st.Plots = 1 .. n
    BY SaveTyped
<1>4. grown[0] \in S
    <2> SUFFICES ASSUME NEW y \in gifted PROVE y \in T
        BY <1>2 DEF IsGrownRun
    <2>1. /\ y \in Save /\ LandFits(y)
        BY <1>1, StageIs
    <2>2. y.Plots = st.Plots /\ y.LifetimeHarvests = st.LifetimeHarvests
        BY <2>1, RolledKeeps
    <2>3. Ripe(y, clk, lag) = Ripe(st, clk, lag)
        BY <2>2 DEF Ripe, RipeningOf
    <2>4. st.LifetimeHarvests \in Int /\ Ripe(st, clk, lag) \in Nat
        BY <1>1, SaveTyped, RipeType DEF Amount
    <2>5. Spent(st, y, to, clk, lag)
        BY <2>2, <2>3, <2>4 DEF Spent
    <2> QED
        BY <2>5
<1>5. ASSUME NEW i \in 1 .. n, grown[i - 1] \in S PROVE grown[i] \in S
    <2>1. grown[i] = UNION {AdvancePlot(y, i, online, to) : y \in grown[i - 1]}
        BY <1>2 DEF IsGrownRun
    <2>2. ASSUME NEW y \in T, NEW z \in AdvancePlot(y, i, online, to) PROVE z \in T
        <3>1. /\ y \in Save /\ LandFits(y) /\ DOMAIN y.Plots = DOMAIN st.Plots
              /\ Spent(st, y, to, clk, lag) /\ y \in Stage(st, to)
            BY <1>1, StageIs, StagePlots
        <3>2. i \in DOMAIN y.Plots /\ i \in DOMAIN st.Plots
            BY <1>3, <3>1
        <3>3. z \in Stage(st, to)
            BY <1>1, <3>1, <3>2, StageGoesOn
        <3>4. z \in Save /\ LandFits(z)
            BY <1>1, <3>3, StageIs
        <3>5. Spent(y, z, to, clk, lag)
            BY <3>1, <3>2, AdvancePlotSpends
        <3>6. Spent(st, z, to, clk, lag)
            BY <1>1, <3>1, <3>4, <3>5, SpentTwice
        <3> QED
            BY <3>3, <3>6
    <2> HIDE DEF T
    <2> QED
        BY <1>5, <2>1, <2>2
<1>6. \A i \in 1 .. n : grown[i - 1] \in S => grown[i] \in S
    BY <1>5
<1> HIDE DEF S, T, n
<1>8. \A i \in 0 .. n : grown[i] \in S
    BY <1>3, <1>4, <1>6, LoopStays
<1>9. n \in 0 .. n
    BY <1>3
<1>7. GrownFrom(gifted, st, online, to) = grown[n]
    BY <1>2 DEF IsGrownRun, n
<1> QED
    BY <1>7, <1>8, <1>9 DEF S, T

\* Advance.
LEMMA AdvanceTakesTime ==
    ASSUME NEW st, Good(st), NEW to, NEW clk, NEW lag, Timely(to, clk, lag),
           NEW x \in Advance(st, to)
    PROVE  TimeKept(st, x, to, clk, lag) /\ to <= x.UpdatedAt
<1> DEFINE elapsed == to - st.UpdatedAt
           online == elapsed <= OnlineTick
           eventful == IF online THEN RollOnlineEvent(Expire(st, to), elapsed, to)
                       ELSE {Expire(st, to)}
           gifted == UNION {RollGiftArrival(z, elapsed, online) : z \in eventful}
           last == GrownFrom(gifted, st, online, to)
<1>1. /\ st \in Save /\ LandFits(st) /\ st.UpdatedAt \in Int /\ st.LifetimeHarvests \in Int
      /\ to \in Int /\ clk \in Int /\ lag \in Nat
    BY SaveTyped DEF Good, Timely, Amount
<1>2. Advance(st, to) =
         IF elapsed <= 0 THEN {st}
         ELSE {CheckAchievements([y EXCEPT !.UpdatedAt = to], to) : y \in last}
    BY DEF Advance, GrownFrom
<1>3. Good(x)
    BY <1>1, AdvanceKeeps
<1>4. /\ gifted \in SUBSET Stage(st, to)
      /\ \A y \in gifted : But(Rolled, st, y)
    <2>1. ASSUME NEW y \in gifted PROVE y \in Stage(st, to) /\ But(Rolled, st, y)
        <3>1. PICK z \in eventful : y \in RollGiftArrival(z, elapsed, online)
            OBVIOUS
        <3> HIDE DEF elapsed, online
        <3> QED
            BY <1>1, <3>1, GiftedInStage, GiftedIs
    <2> QED
        BY <2>1
<1>5. \A y \in last : y \in Stage(st, to) /\ Spent(st, y, to, clk, lag)
    <2> HIDE DEF gifted, online
    <2> QED
        BY <1>1, <1>4, GrownInStage, GrownSpends
<1> HIDE DEF last
<1>6. CASE elapsed <= 0
    <2>1. x = st
        BY <1>2, <1>6
    <2>2. Ripe(st, clk, lag) \in Nat
        BY <1>1, RipeType
    <2> QED
        BY <1>1, <1>6, <2>1, <2>2 DEF TimeKept
<1>7. CASE ~(elapsed <= 0)
    <2>1. PICK y \in last : x = CheckAchievements([y EXCEPT !.UpdatedAt = to], to)
        BY <1>2, <1>7
    <2> DEFINE z == [y EXCEPT !.UpdatedAt = to]
    <2>2. y \in Stage(st, to) /\ Spent(st, y, to, clk, lag)
        BY <1>5
    <2>3. y \in Save
        BY <1>1, <2>2, StageIs
    <2>4. /\ z \in Save /\ z.UpdatedAt = to /\ z.Plots = y.Plots
          /\ z.LifetimeHarvests = y.LifetimeHarvests
        BY <1>1, <2>3 DEF Save
    <2>5. x = CheckAchievements(z, to)
        BY <2>1
    <2> HIDE DEF z
    <2>6. x \in Save /\ But(Rolled, z, x) /\ x.UpdatedAt = z.UpdatedAt
        <3>1. z \in Save /\ to \in Int
            BY <1>1, <2>4
        <3> QED
            BY <2>5, <3>1, CheckAchievementsIs
    <2>7. x.Plots = y.Plots /\ x.LifetimeHarvests = y.LifetimeHarvests /\ x.UpdatedAt = to
        BY <2>4, <2>6, RolledKeeps
    <2>8. Ripe(x, clk, lag) = Ripe(y, clk, lag)
        BY <2>7 DEF Ripe, RipeningOf
    <2>9. to > st.UpdatedAt
        BY <1>1, <1>7
    <2>10. Rooted(st) => Rooted(x)
        <3> SUFFICES ASSUME Rooted(st), NEW p \in DOMAIN x.Plots, x.Plots[p].Crop # Nothing
                     PROVE  x.Plots[p].PlantedAt <= to
            BY <2>7 DEF Rooted
        <3>1. p \in DOMAIN st.Plots /\ st.Plots[p] \in PlotType
            BY <1>1, <2>2, <2>7, PlotTyped DEF Spent
        <3>2. \/ x.Plots[p].PlantedAt <= to
              \/ st.Plots[p].Crop # Nothing /\ x.Plots[p].PlantedAt = st.Plots[p].PlantedAt
            BY <2>2, <2>7, <3>1 DEF Spent
        <3>3. st.Plots[p].PlantedAt \in Int
            BY <3>1 DEF PlotType
        <3> QED
            BY <1>1, <2>9, <3>1, <3>2, <3>3 DEF Rooted
    <2>11. x.LifetimeHarvests + Ripe(x, clk, lag) <= st.LifetimeHarvests + Ripe(st, clk, lag)
        BY <2>2, <2>7, <2>8 DEF Spent
    <2> QED
        BY <1>1, <2>7, <2>9, <2>10, <2>11 DEF TimeKept
<1> QED
    BY <1>6, <1>7

\* x is st after something that harvested nothing: every crop in its ground was
\* there, or was sown now.
Quiet(st, x, now) ==
    /\ x.UpdatedAt = st.UpdatedAt
    /\ x.LifetimeHarvests = st.LifetimeHarvests
    /\ \A p \in DOMAIN x.Plots :
          \/ x.Plots[p].Crop = Nothing
          \/ x.Plots[p].PlantedAt = now
          \/ /\ p \in DOMAIN st.Plots /\ st.Plots[p].Crop # Nothing
             /\ x.Plots[p].PlantedAt = st.Plots[p].PlantedAt

\* x is st after a step that takes the time it needs, whoever's clock is asked.
Lawful(st, x, now) ==
    /\ StepKeeps(st, x)
    /\ \A clk, lag : Timely(now, clk, lag) => TimeKept(st, x, now, clk, lag)

\* What harvests nothing takes no time.
LEMMA QuietIsLawful ==
    ASSUME NEW st, Good(st), NEW now, now <= st.UpdatedAt,
           NEW x, StepKeeps(st, x), Quiet(st, x, now)
    PROVE  Lawful(st, x, now)
<1> SUFFICES ASSUME NEW clk, NEW lag, Timely(now, clk, lag)
             PROVE  TimeKept(st, x, now, clk, lag)
    BY DEF Lawful
<1>1. Good(x)
    BY DEF StepKeeps
<1> QED
    BY <1>1, QuietKeeps DEF Quiet

\* A crop is sown now.
LEMMA PlantIsLawful ==
    ASSUME NEW st, Good(st), NEW now \in Int, now <= st.UpdatedAt, NEW p,
           NEW id \in Ids(Content.Crops), NEW x \in Plant(st, p, id, now)
    PROVE  Lawful(st, x, now)
<1> DEFINE cost == IF MercyPlantEligible(st, id) THEN 0
                   ELSE SeedCost(st, ById(Content.Crops, id))
           b == Bought(st, cost)
           q == [b.Plots[p] EXCEPT !.Crop = id, !.PlantedAt = now, !.Critter = FALSE]
<1>1. st \in Save /\ StepKeeps(st, x)
    BY PlantTends, TendedStep DEF Good
<1>2. p \in DOMAIN st.Plots /\ st.Coins >= cost /\ x = Planted(b, p, id, now)
    BY DEF Plant, When
<1>3. cost \in Nat
    BY <1>1, CropById, SeedCostType
<1> HIDE DEF cost
<1>4. /\ b \in Save /\ b.Plots = st.Plots /\ b.LifetimeHarvests = st.LifetimeHarvests
      /\ b.UpdatedAt = st.UpdatedAt
    BY <1>1, <1>2, <1>3, PaidPlots, SaveTyped DEF Amount
<1> HIDE DEF b
<1>5. q \in PlotType /\ q.PlantedAt = now
    <2>1. b.Plots[p] \in PlotType
        BY <1>2, <1>4, PlotTyped
    <2> DEFINE r == [b.Plots[p] EXCEPT !.Crop = id]
    <2>2. r \in PlotType /\ r.Crop = id
        BY <2>1 DEF PlotType
    <2>3. q = [r EXCEPT !.PlantedAt = now, !.Critter = FALSE]
        OBVIOUS
    <2> HIDE DEF r, q
    <2> QED
        BY <2>2, <2>3 DEF PlotType
<1>6. x = [b EXCEPT !.Plots[p] = q]
    BY <1>2 DEF Planted
<1> HIDE DEF q
<1>7. /\ x \in Save /\ But({"Plots"}, b, x) /\ DOMAIN x.Plots = DOMAIN b.Plots
      /\ \A r \in DOMAIN b.Plots : x.Plots[r] = IF r = p THEN q ELSE b.Plots[r]
    BY <1>2, <1>4, <1>5, <1>6, PlotSet
<1>8. x.UpdatedAt = b.UpdatedAt /\ x.LifetimeHarvests = b.LifetimeHarvests
    BY <1>4, <1>7 DEF But, Save
<1>9. Quiet(st, x, now)
    BY <1>4, <1>5, <1>7, <1>8 DEF Quiet
<1> QED
    BY <1>1, <1>9, QuietIsLawful

\* A crop is harvested that has grown since.
LEMMA HarvestIsLawful ==
    ASSUME NEW st, Good(st), NEW now \in Int, now <= st.UpdatedAt, NEW p,
           NEW x \in Harvest(st, p, now)
    PROVE  Lawful(st, x, now)
<1> DEFINE plot == st.Plots[p]
           crop == ById(Content.Crops, plot.Crop)
           grow == GrowSeconds(st, crop)
<1>1. st \in Save /\ StepKeeps(st, x)
    BY HarvestTends, TendedStep DEF Good
<1>2. p \in DOMAIN st.Plots /\ plot.Crop # Nothing /\ now >= plot.PlantedAt + grow
    BY DEF Harvest, When, PlotReady
<1>3. PICK h \in Harvested(st, crop) :
          x = [h EXCEPT !.Plots[p] = [@ EXCEPT !.Crop = Nothing, !.PlantedAt = 0,
                                               !.Critter = FALSE]]
    BY DEF Harvest, When
<1>4. plot \in PlotType /\ plot.Crop \in Ids(Content.Crops) /\ plot.PlantedAt \in Int
    BY <1>1, <1>2, PlotTyped DEF PlotType
<1>5. crop \in GoodCrop /\ grow \in Nat
    BY <1>1, <1>4, CropById, GrowType
<1>6. \A lag : Outgrown(lag) => grow >= lag + 1
    BY <1>1, <1>4 DEF Outgrown
<1> HIDE DEF crop, grow
<1>7. /\ h \in Save /\ h.Plots = st.Plots /\ h.UpdatedAt = st.UpdatedAt
      /\ h.LifetimeHarvests = SatAdd(st.LifetimeHarvests, 1)
    BY <1>1, <1>3, <1>5, HarvestedPlots
<1>8. st.LifetimeHarvests \in Int /\ h.LifetimeHarvests \in Int
         /\ h.LifetimeHarvests <= st.LifetimeHarvests + 1
    BY <1>1, <1>7, SaveTyped, MoneyAssumption DEF SatAdd, Amount
<1> DEFINE q == [h.Plots[p] EXCEPT !.Crop = Nothing, !.PlantedAt = 0, !.Critter = FALSE]
<1>9. q \in PlotType /\ q.Crop = Nothing
    <2>1. Bare(plot) \in PlotType /\ Bare(plot).Crop = Nothing /\ h.Plots[p] = plot
        BY <1>4, <1>7, PlotsAfter
    <2>2. q = [Bare(plot) EXCEPT !.Critter = FALSE]
        BY <2>1 DEF Bare
    <2> HIDE DEF q, plot
    <2> QED
        BY <2>1, <2>2 DEF PlotType
<1>10. x = [h EXCEPT !.Plots[p] = q]
    BY <1>3
<1> HIDE DEF q
<1>11. /\ x \in Save /\ But({"Plots"}, h, x) /\ DOMAIN x.Plots = DOMAIN h.Plots
       /\ \A r \in DOMAIN h.Plots : x.Plots[r] = IF r = p THEN q ELSE h.Plots[r]
    BY <1>2, <1>7, <1>9, <1>10, PlotSet
<1>12. x.UpdatedAt = h.UpdatedAt /\ x.LifetimeHarvests = h.LifetimeHarvests
    BY <1>7, <1>11 DEF But, Save
<1>13. ASSUME NEW clk, NEW lag, Timely(now, clk, lag) PROVE TimeKept(st, x, now, clk, lag)
    <2>1. clk \in Int /\ lag \in Nat /\ now <= clk /\ grow >= lag + 1
        BY <1>6, <1>13 DEF Timely
    <2>2. Ripening(x.Plots[p], clk, lag) = 0
        BY <1>2, <1>7, <1>9, <1>11 DEF Ripening
    <2>3. Ripening(plot, clk, lag) \in Int /\ Ripening(plot, clk, lag) >= 1
        BY <1>2, <1>4, <1>5, <2>1 DEF Ripening
    <2>4. x.LifetimeHarvests + Ripening(x.Plots[p], clk, lag)
             <= st.LifetimeHarvests + Ripening(st.Plots[p], clk, lag)
        BY <1>8, <1>12, <2>2, <2>3
    <2>5. /\ DOMAIN x.Plots = DOMAIN st.Plots /\ x.UpdatedAt = st.UpdatedAt
          /\ \A r \in DOMAIN st.Plots \ {p} : x.Plots[r] = st.Plots[r]
          /\ x.Plots[p].Crop = Nothing
        BY <1>2, <1>7, <1>9, <1>11, <1>12
    <2>6. Good(x)
        BY <1>1 DEF StepKeeps
    <2> QED
        BY <1>2, <1>13, <2>4, <2>5, <2>6, SpendingKeeps
<1> QED
    BY <1>1, <1>13 DEF Lawful

\* Land comes empty.
LEMMA BuyPlotIsLawful ==
    ASSUME NEW st, Good(st), NEW now, now <= st.UpdatedAt, NEW x \in BuyPlot(st)
    PROVE  Lawful(st, x, now)
<1> DEFINE cost == NextPlotCost(st)
           b == Bought(st, cost)
           plots == Append(b.Plots, EmptyPlot)
<1>1. st \in Save /\ StepKeeps(st, x)
    BY BuyPlotStep DEF Good
<1>2. /\ cost >= 0 /\ st.Coins >= cost
      /\ x = [b EXCEPT !.PurchasedPlots = @ + 1, !.Plots = plots]
    BY DEF BuyPlot, When
<1>3. cost \in Nat
    BY <1>1, <1>2, NextPlotCostIs
<1> HIDE DEF cost
<1>4. /\ b \in Save /\ b.Plots = st.Plots /\ b.LifetimeHarvests = st.LifetimeHarvests
      /\ b.UpdatedAt = st.UpdatedAt
    BY <1>1, <1>2, <1>3, PaidPlots, SaveTyped DEF Amount
<1> HIDE DEF b
<1>5. \A r \in DOMAIN plots : plots[r] = EmptyPlot \/ (r \in DOMAIN st.Plots /\ plots[r] = st.Plots[r])
    <2>1. b.Plots \in Seq(PlotType) /\ EmptyPlot \in PlotType
        BY <1>4, SaveTyped, EmptyPlotTyped
    <2>2. \A r \in DOMAIN plots : plots[r] = EmptyPlot \/ (r \in DOMAIN b.Plots /\ plots[r] = b.Plots[r])
        BY <2>1
    <2> QED
        BY <1>4, <2>2
<1> HIDE DEF plots
<1>6. /\ x.Plots = plots /\ x.UpdatedAt = b.UpdatedAt
      /\ x.LifetimeHarvests = b.LifetimeHarvests
    BY <1>2, <1>4 DEF Save
<1>7. Quiet(st, x, now)
    BY <1>4, <1>5, <1>6, EmptyPlotTyped DEF Quiet
<1> QED
    BY <1>1, <1>7, QuietIsLawful

\* That of a zone too.
LEMMA BuyZoneIsLawful ==
    ASSUME NEW st, Good(st), NEW now, now <= st.UpdatedAt,
           NEW id \in Ids(Content.Zones), NEW x \in BuyZone(st, id)
    PROVE  Lawful(st, x, now)
<1> DEFINE zone == ById(Content.Zones, id)
           k == zone.ExtraPlots
           b == Bought(st, zone.Cost)
           new == [i \in 1 .. k |-> EmptyPlot]
           plots == b.Plots \o new
<1>1. st \in Save /\ StepKeeps(st, x)
    BY BuyZoneStep DEF Good
<1>2. /\ st.Coins >= zone.Cost
      /\ x = [b EXCEPT !.Zones = @ \cup {id}, !.Plots = plots]
    BY DEF BuyZone, When
<1>3. zone.Cost \in Nat /\ k \in Nat
    BY ZoneById
<1>4. /\ b \in Save /\ b.Plots = st.Plots /\ b.LifetimeHarvests = st.LifetimeHarvests
      /\ b.UpdatedAt = st.UpdatedAt
    <2> HIDE DEF zone
    <2> QED
        BY <1>1, <1>2, <1>3, PaidPlots, SaveTyped DEF Amount
<1> HIDE DEF b, zone
<1>5. \A r \in DOMAIN plots : plots[r] = EmptyPlot \/ (r \in DOMAIN st.Plots /\ plots[r] = st.Plots[r])
    <2> HIDE DEF k
    <2>1. new \in Seq(PlotType) /\ Len(new) = k /\ \A i \in 1 .. k : new[i] = EmptyPlot
        BY <1>3, EmptyPlotTyped
    <2>2. b.Plots \in Seq(PlotType) /\ Len(b.Plots) \in Nat /\ DOMAIN b.Plots = 1 .. Len(b.Plots)
        BY <1>4, SaveTyped
    <2> HIDE DEF new
    <2>3. /\ plots \in Seq(PlotType) /\ Len(plots) = Len(b.Plots) + k
          /\ \A r \in 1 .. Len(b.Plots) + k :
                plots[r] = IF r <= Len(b.Plots) THEN b.Plots[r] ELSE new[r - Len(b.Plots)]
        BY <2>1, <2>2, ConcatProperties
    <2> HIDE DEF plots
    <2>4. DOMAIN plots = 1 .. Len(b.Plots) + k
        BY <2>3
    <2>5. ASSUME NEW r \in DOMAIN plots
          PROVE  plots[r] = EmptyPlot \/ (r \in DOMAIN b.Plots /\ plots[r] = b.Plots[r])
        <3>1. r \in 1 .. Len(b.Plots) + k
            BY <2>4
        <3>2. CASE r <= Len(b.Plots)
            BY <2>2, <2>3, <3>1, <3>2
        <3>3. CASE ~(r <= Len(b.Plots))
            <4>1. r - Len(b.Plots) \in 1 .. k
                BY <1>3, <2>2, <3>1, <3>3
            <4> QED
                BY <2>1, <2>3, <3>1, <3>3, <4>1
        <3> QED
            BY <3>2, <3>3
    <2> QED
        BY <1>4, <2>5
<1> HIDE DEF plots
<1>6. /\ x.Plots = plots /\ x.UpdatedAt = b.UpdatedAt
      /\ x.LifetimeHarvests = b.LifetimeHarvests
    BY <1>2, <1>4 DEF Save
<1>7. Quiet(st, x, now)
    BY <1>4, <1>5, <1>6, EmptyPlotTyped DEF Quiet
<1> QED
    BY <1>1, <1>7, QuietIsLawful

\* What leaves the plots and the harvests alone is quiet.
LEMMA IdleIsLawful ==
    ASSUME NEW st, Good(st), NEW now, now <= st.UpdatedAt, NEW x, StepKeeps(st, x),
           x.Plots = st.Plots, x.UpdatedAt = st.UpdatedAt,
           x.LifetimeHarvests = st.LifetimeHarvests
    PROVE  Lawful(st, x, now)
<1>1. Quiet(st, x, now)
    BY DEF Quiet
<1> QED
    BY <1>1, QuietIsLawful

\* A multiplier is bought.
LEMMA BuyMultiplierIsLawful ==
    ASSUME NEW st, Good(st), NEW now, now <= st.UpdatedAt,
           NEW id \in Ids(Content.Multipliers), NEW x \in BuyMultiplier(st, id)
    PROVE  Lawful(st, x, now)
<1>1. st \in Save /\ StepKeeps(st, x)
    BY BuyMultiplierStep DEF Good
<1>2. /\ x.Plots = st.Plots /\ x.UpdatedAt = st.UpdatedAt
      /\ x.LifetimeHarvests = st.LifetimeHarvests
    BY <1>1 DEF BuyMultiplier, When, Bought, Save
<1> QED
    BY <1>1, <1>2, IdleIsLawful

\* A strain is bought.
LEMMA BuySeedUpgradeIsLawful ==
    ASSUME NEW st, Good(st), NEW now, now <= st.UpdatedAt,
           NEW id \in Ids(Content.SeedUpgrades), NEW x \in BuySeedUpgrade(st, id)
    PROVE  Lawful(st, x, now)
<1>1. st \in Save /\ StepKeeps(st, x)
    BY BuySeedUpgradeStep DEF Good
<1>2. /\ x.Plots = st.Plots /\ x.UpdatedAt = st.UpdatedAt
      /\ x.LifetimeHarvests = st.LifetimeHarvests
    BY <1>1 DEF BuySeedUpgrade, When, Bought, Save
<1> QED
    BY <1>1, <1>2, IdleIsLawful

\* An upgrade is bought.
LEMMA BuyUpgradeIsLawful ==
    ASSUME NEW st, Good(st), NEW now, now <= st.UpdatedAt,
           NEW id \in Ids(Content.Upgrades), NEW x \in BuyUpgrade(st, id)
    PROVE  Lawful(st, x, now)
<1>1. st \in Save /\ StepKeeps(st, x)
    BY BuyUpgradeStep DEF Good
<1>2. /\ x.Plots = st.Plots /\ x.UpdatedAt = st.UpdatedAt
      /\ x.LifetimeHarvests = st.LifetimeHarvests
    BY <1>1 DEF BuyUpgrade, When, Save
<1> QED
    BY <1>1, <1>2, IdleIsLawful

\* The farm is named.
LEMMA SetFarmNameIsLawful ==
    ASSUME NEW st, Good(st), NEW now, now <= st.UpdatedAt,
           NEW name \in Names, NEW x \in SetFarmName(st, name)
    PROVE  Lawful(st, x, now)
<1>1. st \in Save /\ StepKeeps(st, x)
    BY SetFarmNameStep DEF Good
<1>2. /\ x.Plots = st.Plots /\ x.UpdatedAt = st.UpdatedAt
      /\ x.LifetimeHarvests = st.LifetimeHarvests
    BY <1>1 DEF SetFarmName, When, Save
<1> QED
    BY <1>1, <1>2, IdleIsLawful

\* The flavor is switched.
LEMMA SetFlavorIsLawful ==
    ASSUME NEW st, Good(st), NEW now, now <= st.UpdatedAt,
           NEW enabled \in BOOLEAN, NEW x \in SetFlavor(st, enabled)
    PROVE  Lawful(st, x, now)
<1>1. st \in Save /\ StepKeeps(st, x)
    BY SetFlavorStep DEF Good
<1>2. /\ x.Plots = st.Plots /\ x.UpdatedAt = st.UpdatedAt
      /\ x.LifetimeHarvests = st.LifetimeHarvests
    BY <1>1 DEF SetFlavor, Save
<1> QED
    BY <1>1, <1>2, IdleIsLawful

\* A parcel is opened.
LEMMA RedeemGiftIsLawful ==
    ASSUME NEW st, Good(st), NEW now, now <= st.UpdatedAt, NEW x \in RedeemGift(st)
    PROVE  Lawful(st, x, now)
<1> DEFINE opened == [st EXCEPT !.GiftPending = FALSE]
<1>1. st \in Save /\ StepKeeps(st, x)
    BY RedeemGiftStep DEF Good
<1>2. \/ \E stars : x = [opened EXCEPT !.PrestigeCurrency = stars]
      \/ \E coins \in GiftCoinRewards(st) : x = Credit(opened, coins)
    BY DEF RedeemGift, When
<1>3. /\ opened \in Save /\ opened.Plots = st.Plots /\ opened.UpdatedAt = st.UpdatedAt
      /\ opened.LifetimeHarvests = st.LifetimeHarvests
    BY <1>1 DEF Save
<1> HIDE DEF opened
<1>4. CASE \E stars : x = [opened EXCEPT !.PrestigeCurrency = stars]
    <2>1. /\ x.Plots = st.Plots /\ x.UpdatedAt = st.UpdatedAt
          /\ x.LifetimeHarvests = st.LifetimeHarvests
        BY <1>3, <1>4 DEF Save
    <2> QED
        BY <1>1, <2>1, IdleIsLawful
<1>5. CASE \E coins \in GiftCoinRewards(st) : x = Credit(opened, coins)
    <2>1. PICK coins \in GiftCoinRewards(st) : x = Credit(opened, coins)
        BY <1>5
    <2>2. coins \in Int
        BY <1>1, GiftCoinRewardsAre
    <2>3. /\ x.Plots = st.Plots /\ x.UpdatedAt = st.UpdatedAt
          /\ x.LifetimeHarvests = st.LifetimeHarvests
        BY <1>3, <2>1, <2>2, CreditPlots
    <2> QED
        BY <1>1, <2>3, IdleIsLawful
<1> QED
    BY <1>2, <1>4, <1>5

\* A plot keeps what grows on it.
LEMMA PlotSetIsLawful ==
    ASSUME NEW st, Good(st), NEW now, now <= st.UpdatedAt, NEW b \in Save,
           b.Plots = st.Plots, b.UpdatedAt = st.UpdatedAt,
           b.LifetimeHarvests = st.LifetimeHarvests,
           NEW p \in DOMAIN st.Plots, NEW q \in PlotType,
           q.Crop = st.Plots[p].Crop, q.PlantedAt = st.Plots[p].PlantedAt,
           NEW y, y = [b EXCEPT !.Plots[p] = q],
           NEW x, StepKeeps(st, x), x.Plots = y.Plots, x.UpdatedAt = y.UpdatedAt,
           x.LifetimeHarvests = y.LifetimeHarvests
    PROVE  Lawful(st, x, now)
<1>1. /\ y \in Save /\ But({"Plots"}, b, y) /\ DOMAIN y.Plots = DOMAIN b.Plots
      /\ \A r \in DOMAIN b.Plots : y.Plots[r] = IF r = p THEN q ELSE b.Plots[r]
    BY PlotSet
<1>2. y.UpdatedAt = b.UpdatedAt /\ y.LifetimeHarvests = b.LifetimeHarvests
    BY <1>1 DEF But, Save
<1>3. Quiet(st, x, now)
    BY <1>1, <1>2 DEF Quiet
<1> QED
    BY <1>3, QuietIsLawful

\* A critter is shooed.
LEMMA ShooCritterIsLawful ==
    ASSUME NEW st, Good(st), NEW now, now <= st.UpdatedAt, NEW p,
           NEW x \in ShooCritter(st, p)
    PROVE  Lawful(st, x, now)
<1> DEFINE q == [st.Plots[p] EXCEPT !.Critter = FALSE]
           y == [st EXCEPT !.Plots[p] = q]
<1>1. st \in Save /\ StepKeeps(st, x)
    BY ShooCritterTends, TendedStep DEF Good
<1>2. p \in DOMAIN st.Plots
    BY DEF ShooCritter, When
<1>3. PICK reward \in RollRange(Content.Critters.ShooRewardMin,
                                Content.Critters.ShooRewardMax) : x = Credit(y, reward)
    BY DEF ShooCritter, When
<1>4. reward \in Int
    BY PartsTyped, RollRangeType
<1>5. /\ q \in PlotType /\ q.Crop = st.Plots[p].Crop
      /\ q.PlantedAt = st.Plots[p].PlantedAt
    BY <1>1, <1>2, PlotTyped DEF PlotType
<1> HIDE DEF q
<1>6. y \in Save
    BY <1>1, <1>2, <1>5, PlotSet
<1>7. y = [st EXCEPT !.Plots[p] = q]
    OBVIOUS
<1> HIDE DEF y
<1>8. /\ x.Plots = y.Plots /\ x.UpdatedAt = y.UpdatedAt
      /\ x.LifetimeHarvests = y.LifetimeHarvests
    BY <1>3, <1>4, <1>6, CreditPlots
<1> QED
    BY <1>1, <1>2, <1>5, <1>7, <1>8, PlotSetIsLawful

\* A plot is automated.
LEMMA UpgradePlotAutoIsLawful ==
    ASSUME NEW st, Good(st), NEW now, now <= st.UpdatedAt, NEW p, NEW kind,
           NEW x \in UpgradePlotAuto(st, p, kind)
    PROVE  Lawful(st, x, now)
<1> DEFINE cost == IF kind = "harvest" THEN PlotAutoHarvestCost(st)
                   ELSE Content.PlotAutomation.AutoSowCost
           b == Bought(st, cost)
           q == IF kind = "harvest" THEN [b.Plots[p] EXCEPT !.AutoHarvest = TRUE]
                ELSE [b.Plots[p] EXCEPT !.AutoSow = TRUE]
<1>1. st \in Save /\ StepKeeps(st, x)
    BY UpgradePlotAutoTends, TendedStep DEF Good
<1>2. p \in DOMAIN st.Plots /\ st.Coins >= cost /\ x = [b EXCEPT !.Plots[p] = q]
    BY DEF UpgradePlotAuto, When
<1>3. cost \in Nat
    BY <1>1, AutomationTyped, PlotAutoHarvestCostType
<1> HIDE DEF cost
<1>4. /\ b \in Save /\ b.Plots = st.Plots /\ b.LifetimeHarvests = st.LifetimeHarvests
      /\ b.UpdatedAt = st.UpdatedAt
    BY <1>1, <1>2, <1>3, PaidPlots, SaveTyped DEF Amount
<1> HIDE DEF b
<1>5. /\ q \in PlotType /\ q.Crop = st.Plots[p].Crop
      /\ q.PlantedAt = st.Plots[p].PlantedAt
    <2>1. b.Plots[p] \in PlotType /\ b.Plots[p] = st.Plots[p]
        BY <1>2, <1>4, PlotTyped
    <2> QED
        BY <2>1 DEF PlotType
<1> HIDE DEF q
<1> QED
    BY <1>1, <1>2, <1>4, <1>5, PlotSetIsLawful

\* A new run begins with empty plots, and at the time that its session sends.
LEMMA RebirthIsLawful ==
    ASSUME NEW st, Good(st), NEW now \in Int, NEW x \in Rebirth(st, now)
    PROVE  Lawful(st, x, now)
<1>1. st \in Save /\ StepKeeps(st, x)
    BY RebirthStep DEF Good
<1>2. x = Reborn(st, now)
    BY DEF Rebirth, When
<1>3. /\ x.Plots = NewSave(now).Plots /\ x.UpdatedAt = now
      /\ x.LifetimeHarvests = st.LifetimeHarvests /\ x.Rebirths = st.Rebirths + 1
    BY <1>1, <1>2 DEF Reborn, Save
<1>4. \A p \in DOMAIN x.Plots : x.Plots[p].Crop = Nothing
    BY <1>3, NewSaveTyped, EmptyPlotTyped
<1>5. ASSUME NEW clk, NEW lag, Timely(now, clk, lag) PROVE TimeKept(st, x, now, clk, lag)
    <2>1. /\ x \in Save /\ LandFits(x) /\ LandFits(st) /\ clk \in Int /\ lag \in Nat
        BY <1>1, <1>5 DEF StepKeeps, Good, Timely
    <2>2. Ripe(x, clk, lag) <= Ripe(st, clk, lag)
        <3>1. \A p \in DOMAIN x.Plots : Ripening(x.Plots[p], clk, lag) = 0
            BY <1>4 DEF Ripening
        <3> QED
            BY <1>1, <2>1, <3>1, RipeGrows
    <2>3. /\ Ripe(x, clk, lag) \in Nat /\ Ripe(st, clk, lag) \in Nat
          /\ st.LifetimeHarvests \in Int /\ st.Rebirths \in Int
        BY <1>1, <2>1, RipeType, SaveTyped DEF Amount
    <2>4. x.LifetimeHarvests + Ripe(x, clk, lag) <= st.LifetimeHarvests + Ripe(st, clk, lag)
        BY <1>3, <2>2, <2>3
    <2>5. x.Rebirths > st.Rebirths
        BY <1>3, <2>3
    <2> QED
        BY <1>3, <1>4, <2>4, <2>5 DEF TimeKept, Rooted
<1> QED
    BY <1>1, <1>5 DEF Lawful

\* One lawful step after another, when the first was a catch-up.
LEMMA AdvanceIsLawful ==
    ASSUME NEW st, Good(st), NEW now \in Int, NEW x \in Advance(st, now)
    PROVE  Lawful(st, x, now) /\ now <= x.UpdatedAt
<1>1. Good(x) /\ Lasting(st, x) /\ Settled(st, x)
    BY AdvanceKeeps
<1>2. StepKeeps(st, x)
    BY <1>1, SettledIsPaid DEF StepKeeps, Good
<1>3. Timely(now, now, 0)
    BY AllOutgrow DEF Timely
<1> QED
    BY <1>2, <1>3, AdvanceTakesTime DEF Lawful

\* A step after a catch-up is lawful when the catch-up and the step are.
LEMMA LawfulAfterAdvance ==
    ASSUME NEW st, Good(st), NEW now \in Int, NEW b \in Advance(st, now),
           NEW x, Lawful(b, x, now)
    PROVE  Lawful(st, x, now)
<1>1. /\ Good(b) /\ Lasting(st, b) /\ Settled(st, b) /\ Lawful(st, b, now)
    BY AdvanceKeeps, AdvanceIsLawful
<1>2. StepKeeps(st, x)
    BY <1>1, StepAfterSettling DEF Lawful
<1>3. Good(x) /\ st.Rebirths <= b.Rebirths /\ b.Rebirths <= x.Rebirths
    <2>1. Good(x) /\ st \in Save /\ b \in Save /\ x \in Save
        BY <1>1, <1>2 DEF StepKeeps, Good
    <2>2. st.Rebirths \in Int /\ b.Rebirths \in Int /\ x.Rebirths \in Int
        BY <2>1, SaveTyped
    <2>3. b.Rebirths >= st.Rebirths /\ x.Rebirths >= b.Rebirths
        BY <1>1 DEF Lawful, StepKeeps, Lasting
    <2> QED
        BY <2>1, <2>2, <2>3
<1>4. ASSUME NEW clk, NEW lag, Timely(now, clk, lag) PROVE TimeKept(st, x, now, clk, lag)
    <2>1. TimeKept(st, b, now, clk, lag) /\ TimeKept(b, x, now, clk, lag)
        BY <1>1, <1>4 DEF Lawful
    <2> QED
        BY <1>1, <1>3, <1>4, <2>1, TimeKeptTwice
<1> QED
    BY <1>2, <1>4 DEF Lawful

\* Achievements take no time.
LEMMA LawfulAchievements ==
    ASSUME NEW st, Good(st), NEW now \in Int, NEW b, Lawful(st, b, now)
    PROVE  Lawful(st, CheckAchievements(b, now), now)
<1> DEFINE x == CheckAchievements(b, now)
<1>1. StepKeeps(st, b) /\ Good(b) /\ b \in Save
    BY DEF Lawful, StepKeeps, Good
<1>2. StepKeeps(st, x)
    BY <1>1, StepThenAchievements
<1>3. x \in Save /\ But(Rolled, b, x) /\ x.UpdatedAt = b.UpdatedAt
    BY <1>1, CheckAchievementsIs
<1> HIDE DEF x
<1>4. /\ x.Plots = b.Plots /\ x.LifetimeHarvests = b.LifetimeHarvests
      /\ x.Rebirths = b.Rebirths
    BY <1>1, <1>3, RolledKeeps
<1>5. ASSUME NEW clk, NEW lag, Timely(now, clk, lag) PROVE TimeKept(st, x, now, clk, lag)
    <2>1. TimeKept(st, b, now, clk, lag)
        BY <1>5 DEF Lawful
    <2>2. Ripe(x, clk, lag) = Ripe(b, clk, lag)
        BY <1>4 DEF Ripe, RipeningOf
    <2> QED
        BY <1>3, <1>4, <2>1, <2>2 DEF TimeKept, Rooted
<1>6. Lawful(st, x, now)
    BY <1>2, <1>5 DEF Lawful
<1> QED
    BY <1>6 DEF x

\* An intent takes the time it needs.
LEMMA IntentIsLawful ==
    ASSUME FarmInv, NEW play, NEW now \in Int, NEW STATE outcomes,
           \A o \in outcomes :
              /\ o[1] \in Advance(farm, now)
              /\ \A y \in o[2] :
                   Good(o[1]) /\ now <= o[1].UpdatedAt => Lawful(o[1], y, now),
           Intent(play, now, outcomes)
    PROVE  Lawful(farm, farm', now) /\ clock' = clock
<1>1. Good(farm)
    BY DEF FarmInv
<1>2. PICK o \in outcomes :
          \/ farm' = o[1]
          \/ \E done \in o[2] : farm' = CheckAchievements(done, now)
    BY DEF Intent
<1>3. Good(o[1]) /\ Lawful(farm, o[1], now) /\ now <= o[1].UpdatedAt
    BY <1>1, AdvanceIsLawful, AdvanceKeeps
<1>4. CASE farm' = o[1]
    BY <1>3, <1>4 DEF Intent
<1>5. CASE \E done \in o[2] : farm' = CheckAchievements(done, now)
    <2>1. PICK done \in o[2] : farm' = CheckAchievements(done, now)
        BY <1>5
    <2>2. Lawful(o[1], done, now)
        BY <1>3
    <2>3. Lawful(farm, done, now)
        BY <1>1, <2>2, LawfulAfterAdvance
    <2>4. Lawful(farm, CheckAchievements(done, now), now)
        BY <1>1, <2>3, LawfulAchievements
    <2> QED
        BY <2>1, <2>4 DEF Intent
<1> QED
    BY <1>2, <1>4, <1>5

\* Every player's action, after the catch-up that precedes it.
LEMMA PlayIsLawful ==
    ASSUME FarmInv,
           \/ PlantIntent \/ HarvestIntent \/ UpgradePlotAutoIntent \/ ShooCritterIntent
           \/ BuyPlotIntent \/ BuyZoneIntent \/ BuyMultiplierIntent
           \/ BuySeedUpgradeIntent \/ BuyUpgradeIntent \/ RedeemGiftIntent
           \/ SetFarmNameIntent \/ SetFlavorIntent \/ RebirthIntent
    PROVE  \E now \in Times : Lawful(farm, farm', now) /\ clock' = clock
<1>0. ASSUME NEW now \in Times PROVE now \in Int
    BY <1>0 DEF Times
<1>1. CASE PlantIntent
    <2>1. PICK now \in Times, p \in PlotIndex, id \in Ids(Content.Crops) :
              Intent("plant", now, {<<st, Plant(st, p, id, now)>> : st \in CaughtUp(now)})
        BY <1>1 DEF PlantIntent
    <2> DEFINE outcomes == {<<st, Plant(st, p, id, now)>> : st \in CaughtUp(now)}
    <2>2. \A st : Good(st) /\ now <= st.UpdatedAt => \A x \in Plant(st, p, id, now) : Lawful(st, x, now)
        BY <1>0, PlantIsLawful
    <2>3. \A o \in outcomes :
             /\ o[1] \in Advance(farm, now)
             /\ \A y \in o[2] :
                   Good(o[1]) /\ now <= o[1].UpdatedAt => Lawful(o[1], y, now)
        BY <2>2 DEF CaughtUp
    <2> HIDE DEF outcomes
    <2> QED
        BY <1>0, <2>1, <2>3, IntentIsLawful DEF outcomes
<1>2. CASE HarvestIntent
    <2>1. PICK now \in Times, p \in PlotIndex :
              Intent("harvest", now, {<<st, Harvest(st, p, now)>> : st \in CaughtUp(now)})
        BY <1>2 DEF HarvestIntent
    <2> DEFINE outcomes == {<<st, Harvest(st, p, now)>> : st \in CaughtUp(now)}
    <2>2. \A st : Good(st) /\ now <= st.UpdatedAt => \A x \in Harvest(st, p, now) : Lawful(st, x, now)
        BY <1>0, HarvestIsLawful
    <2>3. \A o \in outcomes :
             /\ o[1] \in Advance(farm, now)
             /\ \A y \in o[2] :
                   Good(o[1]) /\ now <= o[1].UpdatedAt => Lawful(o[1], y, now)
        BY <2>2 DEF CaughtUp
    <2> HIDE DEF outcomes
    <2> QED
        BY <1>0, <2>1, <2>3, IntentIsLawful DEF outcomes
<1>3. CASE UpgradePlotAutoIntent
    <2>1. PICK now \in Times, p \in PlotIndex, kind \in {"harvest", "sow"} :
              Intent("automation", now, {<<st, UpgradePlotAuto(st, p, kind)>> : st \in CaughtUp(now)})
        BY <1>3 DEF UpgradePlotAutoIntent
    <2> DEFINE outcomes == {<<st, UpgradePlotAuto(st, p, kind)>> : st \in CaughtUp(now)}
    <2>2. \A st : Good(st) /\ now <= st.UpdatedAt => \A x \in UpgradePlotAuto(st, p, kind) : Lawful(st, x, now)
        BY <1>0, UpgradePlotAutoIsLawful
    <2>3. \A o \in outcomes :
             /\ o[1] \in Advance(farm, now)
             /\ \A y \in o[2] :
                   Good(o[1]) /\ now <= o[1].UpdatedAt => Lawful(o[1], y, now)
        BY <2>2 DEF CaughtUp
    <2> HIDE DEF outcomes
    <2> QED
        BY <1>0, <2>1, <2>3, IntentIsLawful DEF outcomes
<1>4. CASE ShooCritterIntent
    <2>1. PICK now \in Times, p \in PlotIndex :
              Intent("shoo", now, {<<st, ShooCritter(st, p)>> : st \in CaughtUp(now)})
        BY <1>4 DEF ShooCritterIntent
    <2> DEFINE outcomes == {<<st, ShooCritter(st, p)>> : st \in CaughtUp(now)}
    <2>2. \A st : Good(st) /\ now <= st.UpdatedAt => \A x \in ShooCritter(st, p) : Lawful(st, x, now)
        BY <1>0, ShooCritterIsLawful
    <2>3. \A o \in outcomes :
             /\ o[1] \in Advance(farm, now)
             /\ \A y \in o[2] :
                   Good(o[1]) /\ now <= o[1].UpdatedAt => Lawful(o[1], y, now)
        BY <2>2 DEF CaughtUp
    <2> HIDE DEF outcomes
    <2> QED
        BY <1>0, <2>1, <2>3, IntentIsLawful DEF outcomes
<1>5. CASE BuyPlotIntent
    <2>1. PICK now \in Times :
              Intent("plot", now, {<<st, BuyPlot(st)>> : st \in CaughtUp(now)})
        BY <1>5 DEF BuyPlotIntent
    <2> DEFINE outcomes == {<<st, BuyPlot(st)>> : st \in CaughtUp(now)}
    <2>2. \A st : Good(st) /\ now <= st.UpdatedAt => \A x \in BuyPlot(st) : Lawful(st, x, now)
        BY <1>0, BuyPlotIsLawful
    <2>3. \A o \in outcomes :
             /\ o[1] \in Advance(farm, now)
             /\ \A y \in o[2] :
                   Good(o[1]) /\ now <= o[1].UpdatedAt => Lawful(o[1], y, now)
        BY <2>2 DEF CaughtUp
    <2> HIDE DEF outcomes
    <2> QED
        BY <1>0, <2>1, <2>3, IntentIsLawful DEF outcomes
<1>6. CASE BuyZoneIntent
    <2>1. PICK now \in Times, id \in Ids(Content.Zones) :
              Intent("zone", now, {<<st, BuyZone(st, id)>> : st \in CaughtUp(now)})
        BY <1>6 DEF BuyZoneIntent
    <2> DEFINE outcomes == {<<st, BuyZone(st, id)>> : st \in CaughtUp(now)}
    <2>2. \A st : Good(st) /\ now <= st.UpdatedAt => \A x \in BuyZone(st, id) : Lawful(st, x, now)
        BY <1>0, BuyZoneIsLawful
    <2>3. \A o \in outcomes :
             /\ o[1] \in Advance(farm, now)
             /\ \A y \in o[2] :
                   Good(o[1]) /\ now <= o[1].UpdatedAt => Lawful(o[1], y, now)
        BY <2>2 DEF CaughtUp
    <2> HIDE DEF outcomes
    <2> QED
        BY <1>0, <2>1, <2>3, IntentIsLawful DEF outcomes
<1>7. CASE BuyMultiplierIntent
    <2>1. PICK now \in Times, id \in Ids(Content.Multipliers) :
              Intent("multiplier", now, {<<st, BuyMultiplier(st, id)>> : st \in CaughtUp(now)})
        BY <1>7 DEF BuyMultiplierIntent
    <2> DEFINE outcomes == {<<st, BuyMultiplier(st, id)>> : st \in CaughtUp(now)}
    <2>2. \A st : Good(st) /\ now <= st.UpdatedAt => \A x \in BuyMultiplier(st, id) : Lawful(st, x, now)
        BY <1>0, BuyMultiplierIsLawful
    <2>3. \A o \in outcomes :
             /\ o[1] \in Advance(farm, now)
             /\ \A y \in o[2] :
                   Good(o[1]) /\ now <= o[1].UpdatedAt => Lawful(o[1], y, now)
        BY <2>2 DEF CaughtUp
    <2> HIDE DEF outcomes
    <2> QED
        BY <1>0, <2>1, <2>3, IntentIsLawful DEF outcomes
<1>8. CASE BuySeedUpgradeIntent
    <2>1. PICK now \in Times, id \in Ids(Content.SeedUpgrades) :
              Intent("strain", now, {<<st, BuySeedUpgrade(st, id)>> : st \in CaughtUp(now)})
        BY <1>8 DEF BuySeedUpgradeIntent
    <2> DEFINE outcomes == {<<st, BuySeedUpgrade(st, id)>> : st \in CaughtUp(now)}
    <2>2. \A st : Good(st) /\ now <= st.UpdatedAt => \A x \in BuySeedUpgrade(st, id) : Lawful(st, x, now)
        BY <1>0, BuySeedUpgradeIsLawful
    <2>3. \A o \in outcomes :
             /\ o[1] \in Advance(farm, now)
             /\ \A y \in o[2] :
                   Good(o[1]) /\ now <= o[1].UpdatedAt => Lawful(o[1], y, now)
        BY <2>2 DEF CaughtUp
    <2> HIDE DEF outcomes
    <2> QED
        BY <1>0, <2>1, <2>3, IntentIsLawful DEF outcomes
<1>9. CASE BuyUpgradeIntent
    <2>1. PICK now \in Times, id \in Ids(Content.Upgrades) :
              Intent("upgrade", now, {<<st, BuyUpgrade(st, id)>> : st \in CaughtUp(now)})
        BY <1>9 DEF BuyUpgradeIntent
    <2> DEFINE outcomes == {<<st, BuyUpgrade(st, id)>> : st \in CaughtUp(now)}
    <2>2. \A st : Good(st) /\ now <= st.UpdatedAt => \A x \in BuyUpgrade(st, id) : Lawful(st, x, now)
        BY <1>0, BuyUpgradeIsLawful
    <2>3. \A o \in outcomes :
             /\ o[1] \in Advance(farm, now)
             /\ \A y \in o[2] :
                   Good(o[1]) /\ now <= o[1].UpdatedAt => Lawful(o[1], y, now)
        BY <2>2 DEF CaughtUp
    <2> HIDE DEF outcomes
    <2> QED
        BY <1>0, <2>1, <2>3, IntentIsLawful DEF outcomes
<1>10. CASE RedeemGiftIntent
    <2>1. PICK now \in Times :
              Intent("gift", now, {<<st, RedeemGift(st)>> : st \in CaughtUp(now)})
        BY <1>10 DEF RedeemGiftIntent
    <2> DEFINE outcomes == {<<st, RedeemGift(st)>> : st \in CaughtUp(now)}
    <2>2. \A st : Good(st) /\ now <= st.UpdatedAt => \A x \in RedeemGift(st) : Lawful(st, x, now)
        BY <1>0, RedeemGiftIsLawful
    <2>3. \A o \in outcomes :
             /\ o[1] \in Advance(farm, now)
             /\ \A y \in o[2] :
                   Good(o[1]) /\ now <= o[1].UpdatedAt => Lawful(o[1], y, now)
        BY <2>2 DEF CaughtUp
    <2> HIDE DEF outcomes
    <2> QED
        BY <1>0, <2>1, <2>3, IntentIsLawful DEF outcomes
<1>11. CASE SetFarmNameIntent
    <2>1. PICK now \in Times, name \in Names :
              Intent("name", now, {<<st, SetFarmName(st, name)>> : st \in CaughtUp(now)})
        BY <1>11 DEF SetFarmNameIntent, Names
    <2> DEFINE outcomes == {<<st, SetFarmName(st, name)>> : st \in CaughtUp(now)}
    <2>2. \A st : Good(st) /\ now <= st.UpdatedAt => \A x \in SetFarmName(st, name) : Lawful(st, x, now)
        BY <1>0, SetFarmNameIsLawful
    <2>3. \A o \in outcomes :
             /\ o[1] \in Advance(farm, now)
             /\ \A y \in o[2] :
                   Good(o[1]) /\ now <= o[1].UpdatedAt => Lawful(o[1], y, now)
        BY <2>2 DEF CaughtUp
    <2> HIDE DEF outcomes
    <2> QED
        BY <1>0, <2>1, <2>3, IntentIsLawful DEF outcomes
<1>12. CASE SetFlavorIntent
    <2>1. PICK now \in Times, enabled \in BOOLEAN :
              Intent("flavor", now, {<<st, SetFlavor(st, enabled)>> : st \in CaughtUp(now)})
        BY <1>12 DEF SetFlavorIntent
    <2> DEFINE outcomes == {<<st, SetFlavor(st, enabled)>> : st \in CaughtUp(now)}
    <2>2. \A st : Good(st) /\ now <= st.UpdatedAt => \A x \in SetFlavor(st, enabled) : Lawful(st, x, now)
        BY <1>0, SetFlavorIsLawful
    <2>3. \A o \in outcomes :
             /\ o[1] \in Advance(farm, now)
             /\ \A y \in o[2] :
                   Good(o[1]) /\ now <= o[1].UpdatedAt => Lawful(o[1], y, now)
        BY <2>2 DEF CaughtUp
    <2> HIDE DEF outcomes
    <2> QED
        BY <1>0, <2>1, <2>3, IntentIsLawful DEF outcomes
<1>13. CASE RebirthIntent
    <2>1. PICK now \in Times :
              Intent("rebirth", now, {<<st, Rebirth(st, now)>> : st \in CaughtUp(now)})
        BY <1>13 DEF RebirthIntent
    <2> DEFINE outcomes == {<<st, Rebirth(st, now)>> : st \in CaughtUp(now)}
    <2>2. \A st : Good(st) /\ now <= st.UpdatedAt => \A x \in Rebirth(st, now) : Lawful(st, x, now)
        BY <1>0, RebirthIsLawful
    <2>3. \A o \in outcomes :
             /\ o[1] \in Advance(farm, now)
             /\ \A y \in o[2] :
                   Good(o[1]) /\ now <= o[1].UpdatedAt => Lawful(o[1], y, now)
        BY <2>2 DEF CaughtUp
    <2> HIDE DEF outcomes
    <2> QED
        BY <1>0, <2>1, <2>3, IntentIsLawful DEF outcomes
<1> QED
    BY <1>1, <1>2, <1>3, <1>4, <1>5, <1>6, <1>7, <1>8, <1>9, <1>10, <1>11, <1>12, <1>13

\* So does every step of the farm.
LEMMA FarmIsLawful ==
    ASSUME FarmInv, [Next]_vars
    PROVE  \/ farm' = farm /\ clock' \in {clock, clock + 1}
           \/ \E now \in Times : Lawful(farm, farm', now) /\ clock' = clock
<1>1. CASE Tick \/ Persist \/ UNCHANGED vars
    BY <1>1 DEF Tick, Persist, vars
<1>2. CASE SessionAdvance
    <2>1. PICK now \in Times : farm' \in Advance(farm, now) /\ clock' = clock
        BY <1>2 DEF SessionAdvance
    <2>2. now \in Int /\ Good(farm)
        BY DEF Times, FarmInv
    <2> QED
        BY <2>1, <2>2, AdvanceIsLawful
<1> QED
    BY <1>1, <1>2, PlayIsLawful DEF Next

-----------------------------------------------------------------------------
(* The time of a save.                                                      *)

\* The save has been simulated to a time that the clock has shown, and nothing
\* was sown after it.
TimeInv ==
    /\ FarmInv
    /\ farm.UpdatedAt \in DayLength .. clock
    /\ Rooted(farm)

\* A session's time is lawful, whatever the crops.
LEMMA TimelyNow ==
    ASSUME NEW now \in Int
    PROVE  Timely(now, now, 0)
BY AllOutgrow DEF Timely

\* The first save is of the present.
LEMMA TimeBegins == Init => TimeInv
<1> SUFFICES ASSUME Init PROVE TimeInv
    OBVIOUS
<1>1. DayLength \in Int /\ FarmInv
    BY EngineAssumption, FarmBegins
<1>2. farm.UpdatedAt = DayLength /\ clock = DayLength
    BY DEF Init, NewSave
<1>3. \A p \in DOMAIN farm.Plots : farm.Plots[p].Crop = Nothing
    BY <1>1, NewSaveTyped, EmptyPlotTyped DEF Init
<1> QED
    BY <1>1, <1>2, <1>3 DEF TimeInv, Rooted

\* Every step keeps a save of the past.
LEMMA TimeGoesOn ==
    ASSUME TimeInv, [Next]_vars
    PROVE  TimeInv'
<1>1. /\ clock \in Int /\ farm.UpdatedAt \in DayLength .. clock /\ Rooted(farm)
      /\ DayLength \in Int /\ FarmInv
    BY EngineAssumption DEF TimeInv, FarmInv
<1>2. FarmInv'
    BY <1>1, FarmSteps DEF FarmStep, StepKeeps, FarmInv
<1>3. CASE farm' = farm /\ clock' \in {clock, clock + 1}
    BY <1>1, <1>2, <1>3 DEF Rooted, TimeInv
<1>4. ASSUME NEW now \in Times, Lawful(farm, farm', now), clock' = clock
      PROVE  TimeInv'
    <2>1. now \in DayLength .. clock
        BY DEF Times
    <2>2. TimeKept(farm, farm', now, now, 0)
        BY <1>1, <1>4, <2>1, TimelyNow DEF Lawful
    <2>3. farm'.UpdatedAt \in DayLength .. clock' /\ Rooted(farm')
        BY <1>1, <1>4, <2>1, <2>2 DEF TimeKept
    <2> QED
        BY <1>2, <2>3 DEF TimeInv
<1> QED
    BY <1>1, <1>3, <1>4, FarmIsLawful

\* No sequence of sessions, however their clocks lag, brings a save to a time that
\* has not come, or a crop that was sown after it.
THEOREM SavesAreOfThePast == Spec => []TimeInv
<1>1. TimeInv /\ [Next]_vars => TimeInv'
    BY TimeGoesOn
<1> QED
    BY <1>1, TimeBegins, PTL DEF Spec

\* Sessions of one save that disagree about the time set it back in one way only:
\* by a rebirth, which takes the time of the session that asks for it.
THEOREM RewoundByRebirthOnly ==
    Spec => [][farm'.UpdatedAt >= farm.UpdatedAt \/ farm'.Rebirths > farm.Rebirths]_vars
<1>1. TimeInv /\ [Next]_vars =>
         [farm'.UpdatedAt >= farm.UpdatedAt \/ farm'.Rebirths > farm.Rebirths]_vars
    <2> SUFFICES ASSUME TimeInv, [Next]_vars
                 PROVE  farm'.UpdatedAt >= farm.UpdatedAt \/ farm'.Rebirths > farm.Rebirths
        OBVIOUS
    <2>1. FarmInv /\ farm.UpdatedAt \in Int
        BY DEF TimeInv
    <2>2. CASE farm' = farm
        BY <2>1, <2>2
    <2>3. ASSUME NEW now \in Times, Lawful(farm, farm', now)
          PROVE  farm'.UpdatedAt >= farm.UpdatedAt \/ farm'.Rebirths > farm.Rebirths
        <3>1. now \in Int
            BY DEF Times
        <3> QED
            BY <2>3, <3>1, TimelyNow DEF Lawful, TimeKept
    <2> QED
        BY <2>1, <2>2, <2>3, FarmIsLawful
<1> QED
    BY <1>1, SavesAreOfThePast, PTL DEF Spec

\* A save that is played with one clock is never set back.
THEOREM OneClockNeverRewinds ==
    ASSUME MaxLag = 0
    PROVE  Spec => TimeNeverRewinds
<1>1. TimeInv /\ [Next]_vars => [farm'.UpdatedAt >= farm.UpdatedAt]_vars
    <2> SUFFICES ASSUME TimeInv, [Next]_vars PROVE farm'.UpdatedAt >= farm.UpdatedAt
        OBVIOUS
    <2>1. /\ FarmInv /\ clock \in Int /\ DayLength \in Int
          /\ farm.UpdatedAt \in DayLength .. clock
        BY EngineAssumption DEF TimeInv, FarmInv
    <2>2. CASE farm' = farm
        BY <2>1, <2>2
    <2>3. ASSUME NEW now \in Times, Lawful(farm, farm', now)
          PROVE  farm'.UpdatedAt >= farm.UpdatedAt
        <3>1. now \in Int /\ now = clock
            BY <2>1, MaxLag = 0 DEF Times
        <3>2. farm'.UpdatedAt \in {farm.UpdatedAt, now}
            BY <2>3, <3>1, TimelyNow DEF Lawful, TimeKept
        <3> QED
            BY <2>1, <3>1, <3>2
    <2> QED
        BY <2>1, <2>2, <2>3, FarmIsLawful
<1> QED
    BY <1>1, SavesAreOfThePast, PTL DEF Spec, TimeNeverRewinds

\* No plot has borne more often than once in a second of the clock.
HarvestsInTime == farm.LifetimeHarvests <= Most * (clock - DayLength)

\* The inductive form: what grows counts as well.
HarvestInv ==
    TimeInv /\ farm.LifetimeHarvests + Ripe(farm, clock, MaxLag) <= Most * (clock - DayLength)

\* Where every crop outgrows what sessions lag, or none lags, no schedule of
\* ticks, catch-ups and plays harvests the same seconds twice.
THEOREM TimeBearsOnce ==
    ASSUME SlowCrops
    PROVE  Spec => []HarvestsInTime
<1>0. MaxLag \in Nat /\ DayLength \in Nat
    BY FarmAssumption, EngineAssumption
<1>1. ASSUME Init PROVE farm.LifetimeHarvests + Ripe(farm, clock, MaxLag) <= Most * (clock - DayLength)
    <2>1. farm = NewSave(DayLength) /\ clock = DayLength
        BY <1>1 DEF Init
    <2>2. farm \in Save /\ LandFits(farm)
        BY <1>0, <2>1, NewSaveIsGood DEF Good
    <2>3. \A p \in DOMAIN farm.Plots : farm.Plots[p].Crop = Nothing
        BY <1>0, <2>1, NewSaveTyped, EmptyPlotTyped
    <2>4. farm.LifetimeHarvests = 0
        BY <2>1 DEF NewSave
    <2> DEFINE w == RipeningOf(farm, clock, MaxLag)
    <2>5. Most \in Nat /\ w \in [1 .. Most -> Nat]
        BY <1>0, <2>1, <2>2, RipeType
    <2>6. \A p \in 1 .. Most : w[p] = 0
        BY <2>3 DEF RipeningOf, Ripening
    <2> HIDE DEF w
    <2>7. SumTo(Most, w) = 0
        BY <2>5, <2>6, SumOfNothing
    <2>8. clock - DayLength = 0 /\ Most * 0 = 0
        BY <1>0, <2>1, <2>5
    <2> QED
        BY <2>4, <2>7, <2>8 DEF Ripe, w
<1>2. ASSUME HarvestInv, [Next]_vars, TimeInv'
      PROVE  farm'.LifetimeHarvests + Ripe(farm', clock', MaxLag) <= Most * (clock' - DayLength)
    <2>1. /\ FarmInv /\ clock \in Int /\ farm \in Save /\ LandFits(farm)
          /\ farm' \in Save /\ LandFits(farm') /\ clock - DayLength \in Nat
          /\ farm.LifetimeHarvests + Ripe(farm, clock, MaxLag) <= Most * (clock - DayLength)
        BY <1>0, <1>2 DEF HarvestInv, TimeInv, FarmInv, Good
    <2>2. /\ Most \in Nat /\ Ripe(farm, clock, MaxLag) \in Nat
          /\ farm.LifetimeHarvests \in Int
        BY <1>0, <2>1, RipeType, SaveTyped DEF Amount
    <2>3. CASE farm' = farm /\ clock' = clock
        BY <2>1, <2>3
    <2>4. CASE farm' = farm /\ clock' = clock + 1
        <3>1. Ripe(farm, clock + 1, MaxLag) <= Ripe(farm, clock, MaxLag) + Most
            BY <1>0, <2>1, RipensInTime
        <3>2. Ripe(farm, clock + 1, MaxLag) \in Nat
            <4>1. clock + 1 \in Int
                BY <2>1
            <4> QED
                BY <1>0, <2>1, <4>1, RipeType
        <3> DEFINE d == clock - DayLength
                   u == Most * d
                   v == Most * (d + 1)
                   r == Ripe(farm, clock, MaxLag)
                   s == Ripe(farm, clock + 1, MaxLag)
                   h == farm.LifetimeHarvests
        <3>3. \A m, k \in Nat : m * k \in Nat /\ m * (k + 1) = m * k + m
            BY Z3
        <3>4. clock' - DayLength = d + 1
            BY <1>0, <2>1, <2>4
        <3>5. /\ u \in Nat /\ v = u + Most /\ h + r <= u /\ s <= r + Most
              /\ r \in Nat /\ s \in Nat /\ h \in Int
            BY <2>1, <2>2, <3>1, <3>2, <3>3
        <3> HIDE DEF d, u, v, r, s, h
        <3>6. h + s <= v
            BY <2>2, <3>5
        <3>7. farm'.LifetimeHarvests = h /\ Ripe(farm', clock', MaxLag) = s
            BY <2>4 DEF h, s
        <3> QED
            BY <3>4, <3>6, <3>7 DEF v
    <2>5. ASSUME NEW now \in Times, Lawful(farm, farm', now), clock' = clock
          PROVE  farm'.LifetimeHarvests + Ripe(farm', clock', MaxLag) <= Most * (clock' - DayLength)
        <3>1. Timely(now, clock, MaxLag)
            BY <1>0, <2>1, SlowCrops, AllOutgrow DEF Timely, Times
        <3>2. farm'.LifetimeHarvests + Ripe(farm', clock, MaxLag)
                 <= farm.LifetimeHarvests + Ripe(farm, clock, MaxLag)
            BY <2>5, <3>1 DEF Lawful, TimeKept
        <3>3. Ripe(farm', clock, MaxLag) \in Nat /\ farm'.LifetimeHarvests \in Int
            BY <1>0, <2>1, RipeType, SaveTyped DEF Amount
        <3> DEFINE u == Most * (clock - DayLength)
        <3>4. u \in Int
            <4>1. \A m, k \in Nat : m * k \in Int
                BY Z3
            <4> QED
                BY <2>1, <2>2, <4>1
        <3>5. farm'.LifetimeHarvests + Ripe(farm', clock, MaxLag) <= u
            <4>1. farm.LifetimeHarvests + Ripe(farm, clock, MaxLag) <= u
                BY <2>1
            <4> HIDE DEF u
            <4> QED
                BY <2>2, <3>2, <3>3, <3>4, <4>1
        <3> QED
            BY <2>5, <3>5
    <2> QED
        BY <1>2, <2>1, <2>3, <2>4, <2>5, FarmIsLawful
<1>3. HarvestInv => HarvestsInTime
    <2> SUFFICES ASSUME HarvestInv PROVE HarvestsInTime
        OBVIOUS
    <2>1. /\ clock \in Int /\ farm \in Save /\ LandFits(farm) /\ clock - DayLength \in Nat
          /\ farm.LifetimeHarvests + Ripe(farm, clock, MaxLag) <= Most * (clock - DayLength)
        BY <1>0 DEF HarvestInv, TimeInv, FarmInv, Good
    <2>2. /\ Most \in Nat /\ Ripe(farm, clock, MaxLag) \in Nat
          /\ farm.LifetimeHarvests \in Int
        BY <1>0, <2>1, RipeType, SaveTyped DEF Amount
    <2> DEFINE u == Most * (clock - DayLength)
    <2>3. u \in Int
        <3>1. \A m, k \in Nat : m * k \in Int
            BY Z3
        <3> QED
            BY <2>1, <2>2, <3>1
    <2>4. farm.LifetimeHarvests + Ripe(farm, clock, MaxLag) <= u
        BY <2>1
    <2> HIDE DEF u
    <2>5. farm.LifetimeHarvests <= u
        BY <2>2, <2>3, <2>4
    <2> QED
        BY <2>5 DEF HarvestsInTime, u
<1>4. TimeInv /\ [Next]_vars => TimeInv'
    <2> SUFFICES ASSUME TimeInv, [Next]_vars PROVE TimeInv'
        OBVIOUS
    <2> QED
        BY TimeGoesOn
<1>5. Init => HarvestInv
    BY <1>1, TimeBegins DEF HarvestInv
<1>6. HarvestInv /\ [Next]_vars => HarvestInv'
    BY <1>2, <1>4 DEF HarvestInv
<1> QED
    BY <1>3, <1>5, <1>6, PTL DEF Spec

=============================================================================
