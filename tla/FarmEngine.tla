----------------------------- MODULE FarmEngine -----------------------------
(***************************************************************************)
(* The game engine of internal/sim.  A save is a record with the fields of  *)
(* sim.State; every function of the engine is an operator from a save to    *)
(* the set of saves it may leave, one for each outcome of its rolls, or to  *)
(* the empty set when it refuses.                                          *)
(*                                                                         *)
(* What a player is told of an Advance (its Events) is left out.  Prices and *)
(* payouts are int64, and growing times where they are multiplied; sums of   *)
(* levels, the intervals of gifts and events and the durations of these are  *)
(* exact, as contents have them far from the limits.                       *)
(***************************************************************************)
EXTENDS Money, ContentRules

CONSTANTS
    Content,       \* *content.Content
    AutoCycleCap,  \* autoCycleCap
    OnlineTick,    \* onlineTickThreshold
    DayLength      \* the seconds of a day

\* The coins of a new farm are an int64, as every other number of a content.
ASSUME EngineAssumption ==
    /\ Content \in ContentType
    /\ Validate(Content)
    /\ Content.Start.Coins <= MaxInt
    /\ AutoCycleCap \in Nat
    /\ OnlineTick \in Nat
    /\ DayLength \in Nat \ {0}

EmptyPlot ==
    [Crop |-> Nothing, PlantedAt |-> 0, AutoHarvest |-> FALSE,
     AutoSow |-> FALSE, Critter |-> FALSE]

NoLevels(ids) == [id \in ids |-> 0]

NotEarned == -1

\* New.
NewSave(now) ==
    [UpdatedAt |-> now,
     Coins |-> Content.Start.Coins,
     Plots |-> [i \in 1 .. Content.Start.Plots |-> EmptyPlot],
     PurchasedPlots |-> 0,
     Zones |-> {},
     RunEarnings |-> 0,
     Multipliers |-> NoLevels(Ids(Content.Multipliers)),
     SeedUpgrades |-> NoLevels(Ids(Content.Crops)),
     GiftPending |-> FALSE,
     EventID |-> Nothing,
     EventEndsAt |-> 0,
     PrestigeCurrency |-> 0,
     Upgrades |-> NoLevels(Ids(Content.Upgrades)),
     Achievements |-> [id \in Ids(Content.Achievements) |-> NotEarned],
     Rebirths |-> 0,
     LifetimeEarnings |-> 0,
     LifetimeHarvests |-> 0,
     FlavorEnabled |-> TRUE,
     FarmName |-> Nothing,
     MoonEpoch |-> now \div DayLength]

-----------------------------------------------------------------------------
(* Rolls.                                                                  *)

\* The outcomes of roll < chance for a roll of so many sides.
Roll(chance, sides) ==
    {hit \in BOOLEAN : IF hit THEN chance > 0 ELSE chance < sides}

\* rollRange.
RollRange(lo, hi) == IF hi <= lo THEN {lo} ELSE lo .. hi

-----------------------------------------------------------------------------
(* Derived values (derive.go).                                             *)

\* The sum of w[1], ..., w[n].
SumTo(n, w) ==
    LET sum[i \in 0 .. n] == IF i = 0 THEN 0 ELSE sum[i - 1] + w[i]
    IN sum[n]

\* The sum of the levels owned of what has this effect, times their value.
Owned(items, levels, effect) ==
    SumTo(Len(items),
          [i \in 1 .. Len(items) |->
              IF items[i].Effect = effect
              THEN items[i].EffectValue * levels[items[i].ID] ELSE 0])

\* Fault: the value of the event in force, whatever it is about.
EventEffectOfAny(st, effect) ==
    IF st.EventID = Nothing THEN 0 ELSE ById(Content.Events, st.EventID).EffectValue

ValueFor(ev, effect) == IF ev.Effect = effect THEN ev.EffectValue ELSE 0

\* The value of the event in force, if it has this effect.
EventEffect(st, effect) ==
    IF st.EventID = Nothing THEN 0
    ELSE ValueFor(ById(Content.Events, st.EventID), effect)

Percent(n) == IF n >= 100 THEN 99 ELSE n

\* The price of a seed, under a sale of so many percent if there is one.
SeedCost(st, crop) ==
    LET price == [sale \in Nat |->
            IF sale = 0 THEN crop.SeedCost
            ELSE Quo(Wrap(crop.SeedCost * (100 - Percent(sale))), 100)]
    IN Max({0, price[EventEffect(st, "seed_discount_pct")]})

GrowSeconds(st, crop) ==
    LET reduction == Owned(Content.Upgrades, st.Upgrades, "grow_speed_pct")
                   + Owned(Content.Multipliers, st.Multipliers, "grow_speed_pct")
                   + EventEffect(st, "grow_speed_pct")
        grow == Quo(Wrap(crop.GrowSeconds * (100 - Percent(reduction))), 100)
    IN IF grow < 1 THEN 1 ELSE grow

\* The day of a moon cycle of 28 days, whatever the content says; Go's % keeps
\* the sign.
MoonPhase(st) ==
    LET day == st.UpdatedAt \div DayLength IN
    IF st.MoonEpoch = 0 THEN 0
    ELSE IF day >= st.MoonEpoch THEN (day - st.MoonEpoch) % 28
    ELSE -((st.MoonEpoch - day) % 28)

IsFullMoon(st, id) ==
    /\ id = Content.Moon.MoonberryCropID
    /\ Content.Moon.CycleDays >= 1
    /\ MoonPhase(st) = Content.Moon.CycleDays \div 2

SellMultiplied(st, base, id) ==
    WithBonus(base, Owned(Content.Upgrades, st.Upgrades, "sell_bonus_pct")
                  + Owned(Content.Multipliers, st.Multipliers, "sell_bonus_pct")
                  + EventEffect(st, "sell_bonus_pct")
                  + (IF IsFullMoon(st, id)
                     THEN Content.Moon.FullMoonSellBonusPct ELSE 0))

\* SalvageNumerator, in eighths.
SalvageNumerator(level) == <<1, 2, 4, 6>>[1 + (IF level > 3 THEN 3 ELSE level)]

Salvage(st, crop) ==
    Quo(Wrap(crop.SellValue * SalvageNumerator(st.SeedUpgrades[crop.ID])), 8)

EventActive(st, now) == st.EventID # Nothing /\ now < st.EventEndsAt

Unlocked(st, u) ==
    CASE u.Kind \in {Nothing, "start"} -> TRUE
      [] u.Kind = "earnings" -> st.LifetimeEarnings >= u.Value
      [] u.Kind = "prestige" -> st.Rebirths >= u.Value
      [] u.Kind = "zone" -> u.Zone \in st.Zones

\* VisibleCrops, the crops of pickers and catalogs.
VisibleCrops(st) ==
    {id \in Ids(Content.Crops) :
        LET u == ById(Content.Crops, id).Unlock IN
        u.Kind = "prestige" /\ u.Value > 1 => st.Rebirths >= u.Value - 1}

StartCoins(st) ==
    SatAdd(Content.Start.Coins, Owned(Content.Upgrades, st.Upgrades, "start_coins"))

\* What the next of an item costs, or -1 at its maximum.
NextPlotCost(st) ==
    IF Content.Start.Plots + st.PurchasedPlots >= Content.Land.MaxPlots THEN -1
    ELSE PlotPrice(Content.Land.BasePlotCost, Content.Land.GrowthPct,
                   st.PurchasedPlots,
                   Owned(Content.Upgrades, st.Upgrades, "plot_discount_pct"))

LevelCost(item, level) ==
    IF level >= item.MaxLevel THEN -1
    ELSE Grown(item.Cost, item.CostGrowthPct, level)

PlotAutoHarvestCost(st) ==
    LET cost == Grown(Content.PlotAutomation.AutoHarvestBaseCost,
                      Content.PlotAutomation.AutoHarvestGrowthPct,
                      Cardinality({i \in DOMAIN st.Plots : st.Plots[i].AutoHarvest}))
    IN IF cost < 1 THEN 1 ELSE cost

\* CheapestUnlockedCrop: the first of the lowest seed cost.
IsCheapestUnlocked(st, id) ==
    \E i \in DOMAIN Content.Crops :
        LET crop == Content.Crops[i] IN
        /\ crop.ID = id
        /\ Unlocked(st, crop.Unlock)
        /\ \A j \in DOMAIN Content.Crops \ {i} :
              Unlocked(st, Content.Crops[j].Unlock) =>
                 \/ crop.SeedCost < Content.Crops[j].SeedCost
                 \/ crop.SeedCost = Content.Crops[j].SeedCost /\ i < j

AllPlotsEmpty(st) == \A i \in DOMAIN st.Plots : st.Plots[i].Crop = Nothing

\* Fault: only an empty wallet is shown mercy.
MercyForPenniless(st, id) ==
    AllPlotsEmpty(st) /\ IsCheapestUnlocked(st, id) /\ st.Coins = 0

MercyPlantEligible(st, id) ==
    /\ AllPlotsEmpty(st)
    /\ IsCheapestUnlocked(st, id)
    /\ st.Coins < SeedCost(st, ById(Content.Crops, id))

PrestigeGain(st) == Isqrt(st.RunEarnings \div Content.Prestige.Divisor)

CanRebirth(st) ==
    st.RunEarnings >= Content.Prestige.MinEarnings /\ PrestigeGain(st) >= 1

-----------------------------------------------------------------------------
(* Advance.                                                                *)

\* What is paid for.
Bought(st, cost) == [st EXCEPT !.Coins = @ - cost]

\* What is paid for as far as the wallet goes.
Afforded(st, cost) == [st EXCEPT !.Coins = @ - Min({cost, @})]

\* The crop is sown again at the time m.
Sown(st, p, m) == [st EXCEPT !.Plots[p] = [@ EXCEPT !.PlantedAt = m]]

\* The plot is left empty.
Cleared(st, p) ==
    [st EXCEPT !.Plots[p] = [@ EXCEPT !.Crop = Nothing, !.PlantedAt = 0]]

\* Fault: a payout that has overflowed is credited.
CreditAnything(st, amount) ==
    [st EXCEPT !.Coins = SatAdd(@, amount),
               !.RunEarnings = SatAdd(@, amount),
               !.LifetimeEarnings = SatAdd(@, amount)]

\* credit.
Credit(st, amount) ==
    IF amount <= 0 THEN st
    ELSE [st EXCEPT !.Coins = SatAdd(@, amount),
                    !.RunEarnings = SatAdd(@, amount),
                    !.LifetimeEarnings = SatAdd(@, amount)]

\* harvestPayout: the pairs of a payout and a discovery that may be rolled.
HarvestPayout(st, crop) ==
    LET plain == {SellMultiplied(st, IF failed THEN Salvage(st, crop)
                                               ELSE crop.SellValue, crop.ID) :
                     failed \in Roll(crop.FailChancePct, 100)}
        chance == IF Content.Flavor.Enabled /\ st.FlavorEnabled
                  THEN Content.Flavor.DiscoveryChancePct ELSE 0
        golden == Content.GoldenHarvest
    IN  {IF lucky THEN Golden(payout, golden.Multiplier) ELSE payout :
            payout \in plain, lucky \in Roll(golden.ChancePct, 100)}
        \X UNION {IF found THEN RollRange(Content.Flavor.DiscoveryMin,
                                          Content.Flavor.DiscoveryMax)
                           ELSE {0} : found \in Roll(chance, 100)}

Harvests(st, n) == [st EXCEPT !.LifetimeHarvests = SatAdd(@, n)]

\* A harvest of crop credited.
Harvested(st, crop) ==
    {Harvests(Credit(Credit(st, h[1]), h[2]), 1) : h \in HarvestPayout(st, crop)}

ExpectedPayout(st, crop) ==
    LET fail == crop.FailChancePct IN
    SellMultiplied(st, IF crop.Archetype # "risky" THEN crop.SellValue
                       ELSE Quo(Wrap(fail * Salvage(st, crop)
                                        + (100 - fail) * crop.SellValue), 100),
                       crop.ID)

\* The loop over the cycles of one automated plot.  Its cursor is the save, the
\* time m the crop is mature, the cycles done, and whether it goes on.
Cursor(st, m, cycles, on) == [st |-> st, m |-> m, cycles |-> cycles, on |-> on]

\* Fault: the batch forgets the crop that is ripe when it begins.
BatchLagsBehind(x, p, crop, grow, to) ==
    LET st == x.st
        seed == SeedCost(st, crop)
        gross == ExpectedPayout(st, crop)
        remaining == (to - x.m) \div grow
        paid == Harvests(Credit(st, SatMul(gross, remaining)), remaining)
        sown == Afforded(paid, SatMul(seed, remaining))
    IN  IF st.Plots[p].AutoSow /\ st.Coins >= seed /\ gross > seed
        THEN {Cursor(Sown(sown, p, x.m + remaining * grow),
                     x.m + (remaining + 1) * grow, x.cycles, TRUE)}
        ELSE {Cursor(st, x.m, x.cycles, FALSE)}

\* Beyond the cap, n harvests at once when they pay.
BatchCycles(x, p, crop, grow, to) ==
    LET st == x.st
        seed == SeedCost(st, crop)
        gross == ExpectedPayout(st, crop)
        remaining == (to - x.m) \div grow
        n == remaining + 1
        paid == Harvests(Credit(st, SatMul(gross, n)), n)
        sown == Afforded(paid, SatMul(seed, n))
    IN  IF st.Plots[p].AutoSow /\ st.Coins >= seed /\ gross > seed
        THEN {Cursor(Sown(sown, p, x.m + remaining * grow),
                     x.m + n * grow, x.cycles, TRUE)}
        ELSE {Cursor(st, x.m, x.cycles, FALSE)}

\* One harvest, and a replanting if the plot, the wallet and the crop allow.
OneCycle(x, p, crop, grow) ==
    {LET seed == SeedCost(st, crop) IN
     IF st.Plots[p].AutoSow /\ st.Coins >= seed /\ Unlocked(st, crop.Unlock)
     THEN Cursor(Sown(Bought(st, seed), p, x.m), x.m + grow, x.cycles + 1, TRUE)
     ELSE Cursor(Cleared(st, p), x.m, x.cycles, FALSE) :
        st \in Harvested(x.st, crop)}

\* One iteration; the loop has ended after AutoCycleCap of them, a batch and
\* the last test.
Iteration(x, p, crop, grow, to) ==
    IF ~x.on \/ x.m > to THEN {[x EXCEPT !.on = FALSE]}
    ELSE IF x.cycles >= AutoCycleCap THEN BatchCycles(x, p, crop, grow, to)
    ELSE OneCycle(x, p, crop, grow)

AutoPlot(st, p, crop, grow, to) ==
    LET after[i \in 0 .. AutoCycleCap + 2] ==
            IF i = 0 THEN {Cursor(st, st.Plots[p].PlantedAt + grow, 0, TRUE)}
            ELSE UNION {Iteration(x, p, crop, grow, to) : x \in after[i - 1]}
    IN {x.st : x \in after[AutoCycleCap + 2]}

\* maybeCritterVisit.
MaybeCritterVisit(st, p) ==
    IF st.Plots[p].Critter \/ ~Content.Critters.Kinds THEN {st}
    ELSE {[st EXCEPT !.Plots[p] = [@ EXCEPT !.Critter = visit]] :
             visit \in Roll(Content.Critters.VisitChancePct, 100)}

AdvancePlot(st, p, online, to) ==
    LET plot == st.Plots[p]
        crop == ById(Content.Crops, plot.Crop)
    IN
    IF plot.Crop = Nothing
    THEN IF online THEN MaybeCritterVisit(st, p) ELSE {st}
    ELSE IF plot.AutoHarvest
    THEN AutoPlot(st, p, crop, GrowSeconds(st, crop), to)
    ELSE {st}

\* rollGiftArrival, with the chance in basis points.
RollGiftArrival(st, elapsed, online) ==
    LET bonus == Owned(Content.Upgrades, st.Upgrades, "gift_rate_pct")
        interval ==
            IF online
            THEN (Content.Gifts.OnlineIntervalSec * 100) \div (100 + bonus)
            ELSE Content.Gifts.OfflineIntervalSec
    IN  IF st.GiftPending \/ interval < 1 THEN {st}
        ELSE {[st EXCEPT !.GiftPending = arrives] :
                 arrives \in Roll((elapsed * 10000) \div interval, 10000)}

StartEvent(st, id, to, dur) ==
    [st EXCEPT !.EventID = id, !.EventEndsAt = to + dur]

\* rollOnlineEvent: whether one starts, which one, and for how long.
RollOnlineEvent(st, elapsed, to) ==
    LET ec == Content.EventsConfig
        rate == 100 + Owned(Content.Upgrades, st.Upgrades, "event_rate_pct")
        low == Max({1, (ec.MinIntervalSec * 100) \div rate})
        high == Max({low, (ec.MaxIntervalSec * 100) \div rate})
        stretch == 100 + Owned(Content.Upgrades, st.Upgrades, "event_duration_pct")
                 + (IF "stargazer" \in Ids(Content.Upgrades)
                    THEN 10 * st.Upgrades["stargazer"] ELSE 0)
        durations == RollRange((ec.MinDurationSec * stretch) \div 100,
                               (ec.MaxDurationSec * stretch) \div 100)
        starts == UNION {Roll(Max({1, (elapsed * 10000) \div interval}), 10000) :
                            interval \in low .. high}
    IN  IF Content.Events = <<>> \/ EventActive(st, to) THEN {st}
        ELSE {IF start THEN StartEvent(st, id, to, dur) ELSE st :
                 start \in starts, id \in Ids(Content.Events), dur \in durations}

\* The achievements whose condition the save meets.
Met(st) ==
    LET met(c) ==
            CASE c.Kind = "harvests" -> st.LifetimeHarvests >= c.Value
              [] c.Kind = "earnings" -> st.LifetimeEarnings >= c.Value
              [] c.Kind = "plots" -> Len(st.Plots) >= c.Value
              [] c.Kind = "rebirths" -> st.Rebirths >= c.Value
              [] c.Kind = "balance" -> st.Coins >= c.Value
    IN {id \in Ids(Content.Achievements) :
           met(ById(Content.Achievements, id).Condition)}

\* Fault: an achievement that was earned is earned again.
CheckAchievementsAgain(st, now) ==
    [st EXCEPT !.Achievements = [id \in DOMAIN @ |->
        IF id \in Met(st) THEN now ELSE @[id]]]

\* CheckAchievements.
CheckAchievements(st, now) ==
    [st EXCEPT !.Achievements = [id \in DOMAIN @ |->
        IF @[id] = NotEarned /\ id \in Met(st) THEN now ELSE @[id]]]

\* Fault: an event lasts one second longer.
ExpireLate(st, to) ==
    IF st.EventID # Nothing /\ to > st.EventEndsAt
    THEN [st EXCEPT !.EventID = Nothing, !.EventEndsAt = 0]
    ELSE st

Expire(st, to) ==
    IF st.EventID # Nothing /\ to >= st.EventEndsAt
    THEN [st EXCEPT !.EventID = Nothing, !.EventEndsAt = 0]
    ELSE st

\* Advance: from UpdatedAt to the given time, one plot after the other.
Advance(st, to) ==
    LET elapsed == to - st.UpdatedAt
        online == elapsed <= OnlineTick
        expired == Expire(st, to)
        eventful == IF online THEN RollOnlineEvent(expired, elapsed, to)
                              ELSE {expired}
        gifted == UNION {RollGiftArrival(x, elapsed, online) : x \in eventful}
        grown[p \in 0 .. Len(st.Plots)] ==
            IF p = 0 THEN gifted
            ELSE UNION {AdvancePlot(x, p, online, to) : x \in grown[p - 1]}
    IN  IF elapsed <= 0 THEN {st}
        ELSE {CheckAchievements([x EXCEPT !.UpdatedAt = to], to) :
                 x \in grown[Len(st.Plots)]}

-----------------------------------------------------------------------------
(* The player's actions (actions.go).  Each is refused, without an effect,   *)
(* when its condition fails.                                               *)

When(condition, results) == IF condition THEN results ELSE {}

\* The crop goes into the ground and a visitor leaves.
Planted(st, p, id, now) ==
    [st EXCEPT !.Plots[p] = [@ EXCEPT !.Crop = id, !.PlantedAt = now,
                                      !.Critter = FALSE]]

Plant(st, p, id, now) ==
    LET crop == ById(Content.Crops, id)
        cost == IF MercyPlantEligible(st, id) THEN 0 ELSE SeedCost(st, crop)
    IN When(p \in DOMAIN st.Plots /\ st.Plots[p].Crop = Nothing
                /\ Unlocked(st, crop.Unlock) /\ st.Coins >= cost,
            {Planted(Bought(st, cost), p, id, now)})

PlotReady(st, p, now) ==
    /\ p \in DOMAIN st.Plots
    /\ st.Plots[p].Crop # Nothing
    /\ now >= st.Plots[p].PlantedAt
                 + GrowSeconds(st, ById(Content.Crops, st.Plots[p].Crop))

\* How far a crop has grown, of 100.
PlotProgressPct(st, p, now) ==
    LET elapsed == now - st.Plots[p].PlantedAt
        grow == GrowSeconds(st, ById(Content.Crops, st.Plots[p].Crop))
    IN  IF p \notin DOMAIN st.Plots \/ st.Plots[p].Crop = Nothing \/ elapsed <= 0
        THEN 0
        ELSE IF elapsed >= grow THEN 100 ELSE (elapsed * 100) \div grow

Harvest(st, p, now) ==
    When(PlotReady(st, p, now),
         {[x EXCEPT !.Plots[p] = [@ EXCEPT !.Crop = Nothing, !.PlantedAt = 0,
                                           !.Critter = FALSE]] :
             x \in Harvested(st, ById(Content.Crops, st.Plots[p].Crop))})

BuyPlot(st) ==
    LET cost == NextPlotCost(st) IN
    When(cost >= 0 /\ st.Coins >= cost,
         {[Bought(st, cost) EXCEPT !.PurchasedPlots = @ + 1,
                                   !.Plots = Append(@, EmptyPlot)]})

BuyZone(st, id) ==
    LET zone == ById(Content.Zones, id) IN
    When(id \notin st.Zones /\ Unlocked(st, zone.Unlock) /\ st.Coins >= zone.Cost,
         {[Bought(st, zone.Cost) EXCEPT
              !.Zones = @ \cup {id},
              !.Plots = @ \o [i \in 1 .. zone.ExtraPlots |-> EmptyPlot]]})

BuyMultiplier(st, id) ==
    LET cost == LevelCost(ById(Content.Multipliers, id), st.Multipliers[id]) IN
    When(cost >= 0 /\ st.Coins >= cost,
         {[Bought(st, cost) EXCEPT !.Multipliers[id] = @ + 1]})

BuySeedUpgrade(st, id) ==
    LET su == ById(Content.SeedUpgrades, id)
        cost == LevelCost(su, st.SeedUpgrades[su.CropID])
    IN When(Unlocked(st, ById(Content.Crops, su.CropID).Unlock)
                /\ cost >= 0 /\ st.Coins >= cost,
            {[Bought(st, cost) EXCEPT !.SeedUpgrades[su.CropID] = @ + 1]})

UpgradePlotAuto(st, p, kind) ==
    LET auto == Content.PlotAutomation
        cost == IF kind = "harvest" THEN PlotAutoHarvestCost(st)
                                    ELSE auto.AutoSowCost
        open == IF kind = "harvest" THEN ~st.Plots[p].AutoHarvest
                ELSE /\ ~st.Plots[p].AutoSow
                     /\ st.Plots[p].AutoHarvest
                     /\ st.LifetimeEarnings >= auto.AutoSowMinEarnings
    IN When(p \in DOMAIN st.Plots /\ open /\ st.Coins >= cost,
            {IF kind = "harvest"
             THEN [Bought(st, cost) EXCEPT !.Plots[p] = [@ EXCEPT !.AutoHarvest = TRUE]]
             ELSE [Bought(st, cost) EXCEPT !.Plots[p] = [@ EXCEPT !.AutoSow = TRUE]]})

BuyUpgrade(st, id) ==
    LET cost == LevelCost(ById(Content.Upgrades, id), st.Upgrades[id]) IN
    When(cost >= 0 /\ st.PrestigeCurrency >= cost,
         {[st EXCEPT !.PrestigeCurrency = @ - cost, !.Upgrades[id] = @ + 1]})

\* giftCoinReward: the jittered reward stays within floor and ceiling.
GiftCoinRewards(st) ==
    LET gifts == Content.Gifts
        Within(n) == Min({Max({n, gifts.CoinRewardFloor}), gifts.CoinRewardCeiling})
        base == Within(Isqrt(st.RunEarnings \div 10) + 10 + 50 * st.Rebirths)
    IN {Within(base + jitter) :
           jitter \in RollRange(-(base \div 5), base \div 5)}

RedeemGift(st) ==
    LET opened == [st EXCEPT !.GiftPending = FALSE]
        seeds == Isqrt(st.RunEarnings \div Content.Prestige.Divisor) + 1
                    + st.Rebirths
        chance == IF st.Rebirths >= 1 THEN Content.Gifts.StarseedChancePct ELSE 0
    IN When(st.GiftPending,
            UNION {IF cosmic
                   THEN {[opened EXCEPT !.PrestigeCurrency = SatAdd(@, seeds)]}
                   ELSE {Credit(opened, coins) : coins \in GiftCoinRewards(st)} :
                      cosmic \in Roll(chance, 100)})

ShooCritter(st, p) ==
    When(p \in DOMAIN st.Plots /\ st.Plots[p].Critter,
         {Credit([st EXCEPT !.Plots[p] = [@ EXCEPT !.Critter = FALSE]], reward) :
             reward \in RollRange(Content.Critters.ShooRewardMin,
                                  Content.Critters.ShooRewardMax)})

\* A name is valid or it is Nothing: empty or too long.
SetFarmName(st, name) == When(name # Nothing, {[st EXCEPT !.FarmName = name]})

SetFlavor(st, enabled) == {[st EXCEPT !.FlavorEnabled = enabled]}

\* A rebirth gains Starseeds and begins a new run at the given time.
Reborn(st, now) ==
    LET fresh == NewSave(now) IN
    [st EXCEPT !.PrestigeCurrency = SatAdd(@, PrestigeGain(st)),
               !.Rebirths = @ + 1,
               !.Coins = StartCoins(st),
               !.Plots = fresh.Plots,
               !.PurchasedPlots = 0,
               !.Zones = {},
               !.Multipliers = fresh.Multipliers,
               !.SeedUpgrades = fresh.SeedUpgrades,
               !.RunEarnings = 0,
               !.EventID = Nothing,
               !.EventEndsAt = 0,
               !.UpdatedAt = now]

\* Fault: the first plots keep what grows on them.
RebirthKeepsCrops(st, now) ==
    When(CanRebirth(st),
         {[Reborn(st, now) EXCEPT !.Plots = SubSeq(st.Plots, 1, Len(@))]})

\* Fault: a parcel that waits is dropped with the run.
RebirthDropsParcel(st, now) ==
    When(CanRebirth(st), {[Reborn(st, now) EXCEPT !.GiftPending = FALSE]})

Rebirth(st, now) == When(CanRebirth(st), {Reborn(st, now)})

=============================================================================
