---------------------------- MODULE ContentRules ----------------------------
(***************************************************************************)
(* Content files and what internal/content asks of them before a server     *)
(* runs with them.  A content is a record: Crops, Upgrades, Multipliers, ... *)
(* are sequences of records with the fields of the Go types; names and       *)
(* descriptions are left out, and an id that is missing is Nothing.          *)
(*                                                                         *)
(* The numbers of a content are small enough that effect_value * max_level   *)
(* does not wrap, as it may in the code.                                    *)
(***************************************************************************)
EXTENDS Integers, FiniteSets, Sequences

Nothing == ""      \* the empty id

-----------------------------------------------------------------------------
(* The Go types.                                                           *)

UnlockType == [Kind : STRING, Value : Int, Zone : STRING]

CropType ==
    [ID : STRING, Archetype : STRING, SeedCost : Int, GrowSeconds : Int,
     SellValue : Int, FailChancePct : Int, Unlock : UnlockType]

\* An Upgrade or a Multiplier.
LevelsType ==
    [ID : STRING, Cost : Int, CostGrowthPct : Int, MaxLevel : Int,
     Effect : STRING, EffectValue : Int]

SeedUpgradeType ==
    [ID : STRING, CropID : STRING, Cost : Int, CostGrowthPct : Int, MaxLevel : Int]

ZoneType == [ID : STRING, Cost : Int, ExtraPlots : Int, Unlock : UnlockType]

EventType == [ID : STRING, Effect : STRING, EffectValue : Int]

AchievementType ==
    [ID : STRING, Condition : [Kind : STRING, Value : Int]]

\* Critters.Kinds stands for whether there are any.
ContentType ==
    [Crops : Seq(CropType),
     Upgrades : Seq(LevelsType),
     Multipliers : Seq(LevelsType),
     SeedUpgrades : Seq(SeedUpgradeType),
     Zones : Seq(ZoneType),
     Events : Seq(EventType),
     Achievements : Seq(AchievementType),
     Start : [Coins : Int, Plots : Int],
     Land : [BasePlotCost : Int, GrowthPct : Int, MaxPlots : Int],
     Prestige : [Divisor : Int, MinEarnings : Int],
     EventsConfig : [MinIntervalSec : Int, MaxIntervalSec : Int,
                     MinDurationSec : Int, MaxDurationSec : Int],
     PlotAutomation : [AutoHarvestBaseCost : Int, AutoHarvestGrowthPct : Int,
                       AutoSowCost : Int, AutoSowMinEarnings : Int],
     Gifts : [OnlineIntervalSec : Int, OfflineIntervalSec : Int,
              StarseedChancePct : Int, CoinRewardFloor : Int,
              CoinRewardCeiling : Int],
     GoldenHarvest : [ChancePct : Int, Multiplier : Int],
     Moon : [CycleDays : Int, FullMoonSellBonusPct : Int, MoonberryCropID : STRING],
     Critters : [Kinds : BOOLEAN, VisitChancePct : Int, ShooRewardMin : Int,
                 ShooRewardMax : Int],
     Flavor : [Enabled : BOOLEAN, DiscoveryChancePct : Int, DiscoveryMin : Int,
               DiscoveryMax : Int]]

-----------------------------------------------------------------------------
(* What validate asks.                                                     *)

Ids(items) == {items[i].ID : i \in DOMAIN items}

\* The maps of buildIndexes and the lookups in them.
ById(items, id) == items[CHOOSE i \in DOMAIN items : items[i].ID = id]

\* requireID, and no id twice.
Distinct(items) ==
    Nothing \notin Ids(items) /\ Cardinality(Ids(items)) = Len(items)

\* validateUnlock.
ValidUnlock(u, zones) ==
    \/ u.Kind \in {Nothing, "start"}
    \/ u.Kind \in {"earnings", "prestige"} /\ u.Value >= 1
    \/ u.Kind = "zone" /\ u.Zone \in zones

ValidRun(c) ==
    /\ c.Start.Coins >= 0 /\ c.Start.Plots >= 1
    /\ c.Land.BasePlotCost >= 1 /\ c.Land.GrowthPct >= 100
    /\ c.Land.MaxPlots >= c.Start.Plots
    /\ c.Prestige.Divisor >= 1 /\ c.Prestige.MinEarnings >= 1

ValidZones(c) ==
    /\ Distinct(c.Zones)
    /\ \A i \in DOMAIN c.Zones :
          LET zone == c.Zones[i] IN
          /\ zone.Unlock.Kind = "zone" => zone.Unlock.Zone # zone.ID
          /\ zone.Cost >= 0 /\ zone.ExtraPlots >= 1
          /\ ValidUnlock(zone.Unlock, Ids(c.Zones))

ValidCrops(c) ==
    /\ c.Crops # <<>> /\ Distinct(c.Crops)
    /\ {c.Crops[i].Archetype : i \in DOMAIN c.Crops} = {"fast", "slow", "risky"}
    /\ \A i \in DOMAIN c.Crops :
          LET crop == c.Crops[i] IN
          /\ crop.SeedCost >= 0 /\ crop.SellValue >= 0 /\ crop.GrowSeconds >= 1
          /\ IF crop.Archetype = "risky" THEN crop.FailChancePct \in 1 .. 99
                                         ELSE crop.FailChancePct = 0
          /\ ValidUnlock(crop.Unlock, Ids(c.Zones))

\* Items bought level by level, and the effects of them that may not reach 100.
ValidLevels(items, effects, reductions) ==
    /\ Distinct(items)
    /\ \A i \in DOMAIN items :
          LET item == items[i] IN
          /\ item.Effect \in effects
          /\ item.Cost >= 1 /\ item.CostGrowthPct >= 100
          /\ item.MaxLevel >= 1 /\ item.EffectValue >= 1
          /\ item.Effect \in reductions => item.EffectValue * item.MaxLevel < 100

ValidUpgrades(c) ==
    /\ ValidLevels(c.Upgrades,
                   {"grow_speed_pct", "sell_bonus_pct", "start_coins",
                    "plot_discount_pct", "gift_rate_pct", "event_rate_pct",
                    "event_duration_pct"},
                   {"grow_speed_pct", "plot_discount_pct"})
    /\ ValidLevels(c.Multipliers, {"grow_speed_pct", "sell_bonus_pct"},
                   {"grow_speed_pct"})

ValidSeedUpgrades(c) ==
    /\ Distinct(c.SeedUpgrades)
    /\ \A i \in DOMAIN c.SeedUpgrades :
          LET su == c.SeedUpgrades[i] IN
          /\ su.CropID \in Ids(c.Crops)
          /\ ById(c.Crops, su.CropID).Archetype = "risky"
          /\ su.MaxLevel = 3 /\ su.Cost >= 1 /\ su.CostGrowthPct >= 100

ValidEvents(c) ==
    /\ Distinct(c.Events)
    /\ \A i \in DOMAIN c.Events :
          /\ c.Events[i].Effect \in {"seed_discount_pct", "sell_bonus_pct", "grow_speed_pct"}
          /\ c.Events[i].EffectValue >= 1
    /\ 1 <= c.EventsConfig.MinIntervalSec
    /\ c.EventsConfig.MinIntervalSec <= c.EventsConfig.MaxIntervalSec
    /\ 1 <= c.EventsConfig.MinDurationSec
    /\ c.EventsConfig.MinDurationSec <= c.EventsConfig.MaxDurationSec

ValidExtras(c) ==
    /\ c.PlotAutomation.AutoHarvestBaseCost >= 1
    /\ c.PlotAutomation.AutoHarvestGrowthPct >= 100
    /\ c.PlotAutomation.AutoSowCost >= 1
    /\ c.PlotAutomation.AutoSowMinEarnings >= 1
    /\ c.Gifts.OnlineIntervalSec >= 1 /\ c.Gifts.OfflineIntervalSec >= 1
    /\ c.Gifts.StarseedChancePct \in 0 .. 100
    /\ c.GoldenHarvest.ChancePct \in 0 .. 100 /\ c.GoldenHarvest.Multiplier >= 10

ValidFlavor(c) ==
    c.Flavor.Enabled =>
        /\ c.Flavor.DiscoveryChancePct \in 0 .. 100
        /\ 0 <= c.Flavor.DiscoveryMin
        /\ c.Flavor.DiscoveryMin <= c.Flavor.DiscoveryMax

ValidAchievements(c) ==
    /\ Distinct(c.Achievements)
    /\ \A i \in DOMAIN c.Achievements :
          LET condition == c.Achievements[i].Condition IN
          /\ condition.Kind \in {"harvests", "earnings", "plots", "rebirths", "balance"}
          /\ condition.Value >= 1

\* Content.validate, which Load asks before it returns a content; what it does
\* not look at is the moon, the critters and the limits of a parcel's coins.
Validate(c) ==
    /\ ValidRun(c) /\ ValidZones(c) /\ ValidCrops(c)
    /\ ValidUpgrades(c) /\ ValidSeedUpgrades(c) /\ ValidEvents(c)
    /\ ValidExtras(c) /\ ValidAchievements(c) /\ ValidFlavor(c)

=============================================================================
