-------------------------------- MODULE Farm --------------------------------
(***************************************************************************)
(* One save while its actor runs: the closures that internal/game hands to  *)
(* the actor (session.go), each one an atomic step over the engine.         *)
(*                                                                         *)
(* Which sessions send them, and when the actor stops, is SaveManager's.    *)
(* A session sends the time its last tick saw (Game.now), which may be      *)
(* behind the clock, and behind the time another session of the same save   *)
(* has already simulated to: the players of a save may lag by MaxLag.       *)
(***************************************************************************)
EXTENDS FarmEngine

CONSTANTS
    Plays,       \* the actions that players take
    MaxTime,     \* bound on the seconds a farm is played
    MaxLag       \* bound on how far a session's time is behind the clock

ASSUME FarmAssumption ==
    /\ MaxTime \in Nat
    /\ MaxLag \in Nat

VARIABLES
    farm,        \* actor.state
    dirty,       \* actor.dirty
    clock        \* the wall clock

vars == <<farm, dirty, clock>>

\* A save is made when its player comes first, after the day from which the days
\* of Unix time are counted.
Init ==
    /\ farm = NewSave(DayLength)
    /\ dirty = FALSE
    /\ clock = DayLength

End == DayLength + MaxTime

\* The times a session may send.
Times == {now \in DayLength .. clock : clock - now <= MaxLag}

Tick ==
    /\ clock < End
    /\ clock' = clock + 1
    /\ UNCHANGED <<farm, dirty>>

\* Session.Advance, and the catch-up of Attach.
SessionAdvance ==
    \E now \in Times :
        /\ farm' \in Advance(farm, now)
        /\ dirty' = (dirty \/ now > farm.UpdatedAt)
        /\ UNCHANGED clock

\* Fault: the save is marked for the next write only when the action succeeds.
IntentMarksSuccess(play, now, outcomes) ==
    /\ play \in Plays
    /\ \E o \in outcomes :
          \/ o[2] = {} /\ farm' = o[1] /\ UNCHANGED dirty
          \/ \E done \in o[2] :
                farm' = CheckAchievements(done, now) /\ dirty' = TRUE
    /\ UNCHANGED clock

\* Session.intent: the save catches up, then the action is applied or refused.
\* An outcome is a way to catch up, and what the action makes of it.
Intent(play, now, outcomes) ==
    /\ play \in Plays
    /\ \E o \in outcomes :
          \/ /\ o[2] = {}
             /\ farm' = o[1]
             /\ dirty' = (dirty \/ now > farm.UpdatedAt)
          \/ \E done \in o[2] :
                /\ farm' = CheckAchievements(done, now)
                /\ dirty' = TRUE
    /\ UNCHANGED clock

CaughtUp(now) == Advance(farm, now)

PlotIndex == DOMAIN farm.Plots

PlantIntent ==
    \E now \in Times, p \in PlotIndex, id \in Ids(Content.Crops) :
        Intent("plant", now,
               {<<st, Plant(st, p, id, now)>> : st \in CaughtUp(now)})

HarvestIntent ==
    \E now \in Times, p \in PlotIndex :
        Intent("harvest", now,
               {<<st, Harvest(st, p, now)>> : st \in CaughtUp(now)})

BuyPlotIntent ==
    \E now \in Times :
        Intent("plot", now, {<<st, BuyPlot(st)>> : st \in CaughtUp(now)})

BuyZoneIntent ==
    \E now \in Times, id \in Ids(Content.Zones) :
        Intent("zone", now, {<<st, BuyZone(st, id)>> : st \in CaughtUp(now)})

BuyMultiplierIntent ==
    \E now \in Times, id \in Ids(Content.Multipliers) :
        Intent("multiplier", now,
               {<<st, BuyMultiplier(st, id)>> : st \in CaughtUp(now)})

BuySeedUpgradeIntent ==
    \E now \in Times, id \in Ids(Content.SeedUpgrades) :
        Intent("strain", now,
               {<<st, BuySeedUpgrade(st, id)>> : st \in CaughtUp(now)})

UpgradePlotAutoIntent ==
    \E now \in Times, p \in PlotIndex, kind \in {"harvest", "sow"} :
        Intent("automation", now,
               {<<st, UpgradePlotAuto(st, p, kind)>> : st \in CaughtUp(now)})

BuyUpgradeIntent ==
    \E now \in Times, id \in Ids(Content.Upgrades) :
        Intent("upgrade", now,
               {<<st, BuyUpgrade(st, id)>> : st \in CaughtUp(now)})

RedeemGiftIntent ==
    \E now \in Times :
        Intent("gift", now, {<<st, RedeemGift(st)>> : st \in CaughtUp(now)})

ShooCritterIntent ==
    \E now \in Times, p \in PlotIndex :
        Intent("shoo", now, {<<st, ShooCritter(st, p)>> : st \in CaughtUp(now)})

SetFarmNameIntent ==
    \E now \in Times, name \in {Nothing, "a name"} :
        Intent("name", now,
               {<<st, SetFarmName(st, name)>> : st \in CaughtUp(now)})

SetFlavorIntent ==
    \E now \in Times, enabled \in BOOLEAN :
        Intent("flavor", now,
               {<<st, SetFlavor(st, enabled)>> : st \in CaughtUp(now)})

RebirthIntent ==
    \E now \in Times :
        Intent("rebirth", now,
               {<<st, Rebirth(st, now)>> : st \in CaughtUp(now)})

\* actor.persist writes the save.
Persist ==
    /\ dirty
    /\ dirty' = FALSE
    /\ UNCHANGED <<farm, clock>>

Next ==
    \/ Tick \/ SessionAdvance \/ Persist
    \/ PlantIntent \/ HarvestIntent
    \/ BuyPlotIntent \/ BuyZoneIntent \/ BuyMultiplierIntent
    \/ BuySeedUpgradeIntent \/ UpgradePlotAutoIntent \/ BuyUpgradeIntent
    \/ RedeemGiftIntent \/ ShooCritterIntent
    \/ SetFarmNameIntent \/ SetFlavorIntent \/ RebirthIntent

Spec == Init /\ [][Next]_vars

-----------------------------------------------------------------------------
(* What the engine promises.                                               *)

Amount == 0 .. MaxInt

\* Coins come from harvests, gifts, critters and a run's start, and from
\* nowhere else: no batch, discount, saturation or golden overflow makes the
\* wallet negative or worth more than the run has earned (state.go:170-171).
WalletBacked ==
    /\ farm.Coins \in 0 .. SatAdd(StartCoins(farm), farm.RunEarnings)
    /\ farm.RunEarnings \in 0 .. farm.LifetimeEarnings
    /\ farm.LifetimeEarnings \in Amount /\ farm.PrestigeCurrency \in Amount

\* The plots that came with these zones.
ZonePlots(zones) ==
    SumTo(Len(Content.Zones),
          [i \in 1 .. Len(Content.Zones) |->
              IF Content.Zones[i].ID \in zones THEN Content.Zones[i].ExtraPlots
                                               ELSE 0])

\* The plots are those the run began with, bought and got with its zones, also
\* after a rebirth, and land stays within its cap.
LandAccounted ==
    /\ Len(farm.Plots)
          = Content.Start.Plots + farm.PurchasedPlots + ZonePlots(farm.Zones)
    /\ Content.Start.Plots + farm.PurchasedPlots <= Content.Land.MaxPlots

\* What a plot holds fits the farm: what grows is unlocked, although replanting
\* in batches does not look and a rebirth takes zones away again (advance.go:95,
\* advance.go:138), and critters visit empty plots only (state.go:26).
PlotsFitFarm ==
    \A p \in PlotIndex :
        /\ farm.Plots[p].Crop # Nothing =>
              Unlocked(farm, ById(Content.Crops, farm.Plots[p].Crop).Unlock)
        /\ farm.Plots[p].Critter => farm.Plots[p].Crop = Nothing

\* The farm after any run of purchases, zones and rebirths is the one they make.
FieldsAccounted == LandAccounted /\ PlotsFitFarm

\* An event ends when the save is simulated past its end, whatever tick, gap or
\* rebirth comes in between: its discount never outlives it.
EventInForce ==
    farm.EventID # Nothing => EventActive(farm, farm.UpdatedAt)

\* A player whose plots are all empty can plant something that the picker shows,
\* however broke (README.md:21).
NeverStuck ==
    AllPlotsEmpty(farm) =>
        \E p \in PlotIndex, id \in VisibleCrops(farm) :
            Plant(farm, p, id, clock) # {}

\* A step that changes the save marks it for the next write, also when the
\* action itself was refused.
ChangesAreDirty == [][farm' # farm => dirty']_vars

\* What a rebirth must keep is never taken away or set back, and what was
\* earned keeps its date.
PermanentSurvives ==
    [][/\ farm'.LifetimeEarnings >= farm.LifetimeEarnings
       /\ farm'.LifetimeHarvests >= farm.LifetimeHarvests
       /\ farm'.Rebirths >= farm.Rebirths
       /\ \A id \in DOMAIN farm.Upgrades : farm'.Upgrades[id] >= farm.Upgrades[id]
       /\ \A id \in DOMAIN farm.Achievements :
             farm.Achievements[id] # NotEarned =>
                farm'.Achievements[id] = farm.Achievements[id]]_vars

\* A parcel waits, through rebirths too, until it is opened and paid
\* (state.go:50).
GiftsArePaid ==
    [][farm.GiftPending /\ ~farm'.GiftPending =>
          /\ farm'.Rebirths = farm.Rebirths
          /\ \/ farm'.LifetimeEarnings >= SatAdd(farm.LifetimeEarnings, 1)
             \/ farm'.PrestigeCurrency >= SatAdd(farm.PrestigeCurrency, 1)]_vars

\* What a catch-up leaves, but for the dates of achievements.
Standing(saves) ==
    {[st EXCEPT !.Achievements = {id \in DOMAIN @ : @[id] # NotEarned}] :
        st \in saves}

\* It does not matter whether a save catches up at once or in two parts, where
\* the crops that are automated do not fail and no moon shines on them: a batch
\* pays what is expected, and the moon is that of the beginning.
CatchUpInParts ==
    (\A p \in PlotIndex :
        farm.Plots[p].AutoHarvest /\ farm.Plots[p].Crop # Nothing =>
            ById(Content.Crops, farm.Plots[p].Crop).Archetype # "risky") =>
        \A to \in farm.UpdatedAt .. End + 2 : \A mid \in farm.UpdatedAt .. to :
            Standing(UNION {Advance(st, to) : st \in Advance(farm, mid)})
                = Standing(Advance(farm, to))

\* While a crop stays in the ground it grows, and stays ripe, as its bar shows
\* it: only the end of an event that made crops grow faster sets it back.
ProgressNeverFalls ==
    [][\A p \in PlotIndex \cap DOMAIN farm'.Plots :
          \/ farm'.Plots[p].Crop # farm.Plots[p].Crop
          \/ farm'.Plots[p].PlantedAt # farm.Plots[p].PlantedAt
          \/ /\ farm'.EventID # farm.EventID
             /\ farm.EventID # Nothing
             /\ ById(Content.Events, farm.EventID).Effect = "grow_speed_pct"
          \/ /\ PlotProgressPct(farm', p, clock') >= PlotProgressPct(farm, p, clock)
             /\ PlotReady(farm, p, clock) => PlotReady(farm', p, clock')]_vars

\* The save's time is never set back (state.go:36-37).
TimeNeverRewinds == [][farm'.UpdatedAt >= farm.UpdatedAt]_vars

\* Time is never replayed (state.go:36-37): an Advance harvests what was ripe,
\* and then no more often than crops ripen in the time it simulates.
TimeNotReplayed ==
    [][farm'.LifetimeHarvests - farm.LifetimeHarvests <=
          Len(farm.Plots) * (1 + farm'.UpdatedAt - farm.UpdatedAt)]_vars

=============================================================================
