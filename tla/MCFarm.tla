------------------------------- MODULE MCFarm -------------------------------
(* Small contents for Farm, each with the parts that one question is about.  *)
EXTENDS Farm

Rule(kind, value, zone) == [Kind |-> kind, Value |-> value, Zone |-> zone]
Start == Rule("start", 0, Nothing)
Earnings(n) == Rule("earnings", n, Nothing)
Prestige(n) == Rule("prestige", n, Nothing)
InZone(id) == Rule("zone", 0, id)

CropDef(id, archetype, cost, grow, sell, fail, unlock) ==
    [ID |-> id, Archetype |-> archetype, SeedCost |-> cost, GrowSeconds |-> grow,
     SellValue |-> sell, FailChancePct |-> fail, Unlock |-> unlock]

LevelDef(id, effect, value, cost, max) ==
    [ID |-> id, Effect |-> effect, EffectValue |-> value, Cost |-> cost,
     CostGrowthPct |-> 200, MaxLevel |-> max]

\* The crops that every content must have beside the one that is played with,
\* out of reach.
Others ==
    <<CropDef("pumpkin", "slow", 5, 9, 30, 0, Prestige(9)),
      CropDef("moonberry", "risky", 5, 9, 30, 25, Prestige(9))>>

\* A farm with two plots, one crop and nothing else; the chances of events,
\* gifts and visits are out of reach.
Plain ==
    [Crops |-> <<CropDef("turnip", "fast", 2, 1, 4, 0, Start)>> \o Others,
     Start |-> [Coins |-> 3, Plots |-> 1],
     Land |-> [BasePlotCost |-> 3, GrowthPct |-> 200, MaxPlots |-> 2],
     Prestige |-> [Divisor |-> 1, MinEarnings |-> 8],
     Upgrades |-> <<>>,
     Multipliers |-> <<>>,
     SeedUpgrades |-> <<>>,
     Zones |-> <<>>,
     Events |-> <<>>,
     EventsConfig |-> [MinIntervalSec |-> 20000, MaxIntervalSec |-> 20000,
                       MinDurationSec |-> 1, MaxDurationSec |-> 1],
     PlotAutomation |-> [AutoHarvestBaseCost |-> 3, AutoHarvestGrowthPct |-> 150,
                         AutoSowCost |-> 4, AutoSowMinEarnings |-> 5],
     Gifts |-> [OnlineIntervalSec |-> 1000000, OfflineIntervalSec |-> 1000000,
                StarseedChancePct |-> 20, CoinRewardFloor |-> 2,
                CoinRewardCeiling |-> 5],
     GoldenHarvest |-> [ChancePct |-> 0, Multiplier |-> 100],
     Moon |-> [CycleDays |-> 28, FullMoonSellBonusPct |-> 15,
               MoonberryCropID |-> "moonberry"],
     Critters |-> [Kinds |-> FALSE, VisitChancePct |-> 0, ShooRewardMin |-> 1,
                   ShooRewardMax |-> 1],
     Achievements |-> <<>>,
     Flavor |-> [Enabled |-> FALSE, DiscoveryChancePct |-> 0,
                 DiscoveryMin |-> 0, DiscoveryMax |-> 0]]

\* Land, a zone with a crop of its own, Hardier Strains, run-scoped and
\* permanent levels, achievements, and rebirths.
Economy ==
    [Plain EXCEPT
        !.Crops = <<CropDef("turnip", "fast", 2, 1, 4, 0, Start),
                    CropDef("orchid", "risky", 3, 2, 16, 25, InZone("greenhouse"))>>
                    \o Others,
        !.Zones = <<[ID |-> "greenhouse", Cost |-> 4, ExtraPlots |-> 1,
                     Unlock |-> Earnings(4)]>>,
        !.SeedUpgrades = <<[ID |-> "orchid_strain", CropID |-> "orchid",
                            Cost |-> 3, CostGrowthPct |-> 200, MaxLevel |-> 3]>>,
        !.Multipliers = <<LevelDef("merchant_scale", "sell_bonus_pct", 50, 3, 1)>>,
        !.Upgrades = <<LevelDef("inheritance", "start_coins", 2, 1, 1)>>,
        !.Achievements = <<[ID |-> "gentry",
                            Condition |-> [Kind |-> "plots", Value |-> 3]],
                           [ID |-> "born_again",
                            Condition |-> [Kind |-> "rebirths", Value |-> 1]]>>]

\* A crop that takes two seconds and whose golden harvest overflows 11 bits, two
\* events, parcels, visits, discoveries, a moon that is full on the second day,
\* whose bonus saturates, and rebirths that must not lose the parcels.
Visits ==
    [Plain EXCEPT
        !.Crops = <<CropDef("turnip", "fast", 2, 2, 4, 0, Start)>> \o Others,
        !.Prestige.MinEarnings = 4,
        !.Moon = [CycleDays |-> 2, FullMoonSellBonusPct |-> 200,
                  MoonberryCropID |-> "turnip"],
        !.Upgrades = <<LevelDef("stargazer", "event_duration_pct", 100, 2, 1)>>,
        !.GoldenHarvest = [ChancePct |-> 4, Multiplier |-> 400],
        !.Flavor = [Enabled |-> TRUE, DiscoveryChancePct |-> 5,
                    DiscoveryMin |-> 0, DiscoveryMax |-> 1],
        !.Events = <<[ID |-> "seed_sale", Effect |-> "seed_discount_pct",
                      EffectValue |-> 50],
                     [ID |-> "warm_rain", Effect |-> "grow_speed_pct",
                      EffectValue |-> 50]>>,
        !.EventsConfig = [MinIntervalSec |-> 2, MaxIntervalSec |-> 2,
                          MinDurationSec |-> 1, MaxDurationSec |-> 1],
        !.Gifts = [OnlineIntervalSec |-> 3, OfflineIntervalSec |-> 2,
                   StarseedChancePct |-> 20, CoinRewardFloor |-> 2,
                   CoinRewardCeiling |-> 2],
        !.Critters = [Kinds |-> TRUE, VisitChancePct |-> 50, ShooRewardMin |-> 1,
                      ShooRewardMax |-> 1]]

\* A crop whose harvest pays for two seeds, automation within reach, and land.
Automatic ==
    [Plain EXCEPT
        !.Crops = <<CropDef("turnip", "fast", 1, 1, 3, 0, Start)>> \o Others,
        !.Multipliers = <<LevelDef("irrigation", "sell_bonus_pct", 50, 3, 1)>>]

\* One event and rebirths, for sessions whose time lags.  The crop takes two
\* seconds: one that takes as long as a session may lag is planted at the
\* lagging time and harvested at once, again and again.
Late ==
    [Plain EXCEPT
        !.Crops = <<CropDef("turnip", "fast", 2, 2, 8, 0, Start)>> \o Others,
        !.Events = <<[ID |-> "seed_sale", Effect |-> "seed_discount_pct",
                      EffectValue |-> 50]>>,
        !.EventsConfig = [MinIntervalSec |-> 2, MaxIntervalSec |-> 2,
                          MinDurationSec |-> 1, MaxDurationSec |-> 2]]

=============================================================================
