# Verification of ssh-idlefarmer

TLA+ models of the idle farming game served over SSH, TLC configurations that
check them on small instances, and TLAPS proofs of what matters most for every
instance. Paths below are relative to the repository.

    tlc -workers 2 -config MCSaveManagerFaults.cfg MCSaveManager.tla
    tlapm SaveManagerProofs.tla

`PROJECT.json` lists the runs with their modules and configurations, the source
lines behind every definition (`map`), the hazards, the theorems, and for each
checked property a fault that breaks it (`mutants`).

## 1. The system

One process serves all players. A connection is a goroutine that passes a chain
of middlewares, attaches to a save, and runs a terminal program until the player
leaves or is told to. A save is owned by one goroutine, its *actor*; every
session of the save talks to it by closures. Rows in SQLite are the only thing
that survives the process.

| component | state | operations | how it interacts | what makes it correct |
|---|---|---|---|---|
| Save manager (`internal/game/manager.go`) | `mu`, the registry `actors`, `closing` | `Attach`, `detach`, `Shutdown`, `stopActorLocked` | called by handlers and by main; waits for actors and the database with `mu` held | one actor per save; nobody's save is taken away unannounced; no actor without a session; Shutdown flushes all and ends |
| Actor (`actor.go`) | the save, `dirty`, its session, the channels `reqs`, `stop`, `done` | the loop: a request, the autosave ticker, the final flush | runs closures of sessions and of the manager one at a time; writes to the store | `dirty` tells the truth; progress becomes durable; nothing is lost but where it is admitted |
| Session handle (`session.go`) | actor, kick channel | `Advance`, the intents, `Detach`, `deliverKick` | used by the UI; may outlive its actor, or its ownership of it | a stale handle does no harm |
| Store (`internal/store/store.go`) | tables `accounts` and `saves` | `TouchAccount`, `LoadOrCreateSave`, `PersistSave`, `ListSlots` | called with `mu` held, or by an actor | a row never goes back |
| Migrations (`store/migrations.go`), payload versions (`sim/state.go`) | `user_version`, payload version | `migrate`, `DecodeState`, `upgradeState` | at start, at load | a crash leaves a database that the next start completes; an older release does no harm; an upgrade keeps what was bought |
| Session caps (`internal/server/limits.go`, `pty.go`) | counters, global and per key | `acquire`, `release` around the handler | every connection goes through | counters exact on every path; caps hold; no refusal without cause |
| Server (`server.go`, `shutdown.go`, `cmd/.../main.go`) | handlers, where main is | attach, play, deferred detach; signal, shutdown hook, drain | glues the above | a slot is held as long as a save; ghosts of a player leave; "shutdown complete" is true; main ends |
| Simulation (`internal/sim`) | `State`: coins, plots, events, gifts, upgrades, achievements | `Advance`, thirteen player actions, derived prices and bonuses | called inside the actor's closures with the session's time | books balance; time is simulated once; catch-up does not depend on when one looks; amounts do not overflow |
| Content (`internal/content`) | crops, zones, prices, chances | load, validate | constant while the process runs | what the engine may assume |
| Game UI (`internal/tui/game.go`) | clock of the last tick, last input, overlay, screen, cursor, snapshot | `Update` with ticks, kick notice, keys, resizes; `View` | calls the session, listens to its kick channel | one tick chain; indexes inside the snapshot; idlers leave; a session that lost its save ends |
| Configuration (`internal/config`), identity (`internal/identity`) | set once; none | `Load`; `ResolveSlot` | at start; for each connection | what is accepted is what the rest assumes; a name always leads to a slot the store takes |
| Views, layout, formatting, logging | none | pure functions and I/O | | |

Behaviours that are hard here: takeovers, detaches, autosaves and a Shutdown
interleave over one registry; handles onto stopped actors stay in use; writes
fail, or fail after they were applied; the process dies at any moment; a Shutdown
times out and goes on in the background; two sessions with different clocks act
on one save; catch-ups over days are simulated in a batch; products of prices,
bonuses and golden harvests may exceed an int64; the screen shows a snapshot of
a save that another session may shrink; the caps stand before the registry, and
main shuts down the one while the other still lets players in; a release is rolled
back or skipped over a database that lives on.

## 2. Modules

| module | models | state | actions |
|---|---|---|---|
| `SaveManager` | manager, actors, session handles, rows | registry, mutex, one record of variables per actor and per connection, the flush goroutine | below |
| `SaveLedger` | what the registry promises of each save | newest version, row | create, mutate, save, lose |
| `SaveRefinement` | the mapping of the one onto the other | | |
| `SaveManagerProofs` | proofs about them, the refinement included | | |
| `MCSaveManager`, `MCSaveManagerAuthor` | instances; an auxiliary variable with the last author of a save | | |
| `SessionGate`, `MCSessionGate` | the middlewares and both caps | stage of each handler, counters | arrive, acquire, refuse, no PTY, play, release |
| `Server`, `ServerProofs`, `MCServer` | `SaveManager` and `SessionGate` in one behaviour, with main, and the proofs about the caps and the whole; `Connection` declares the sessions that both speak of | both, and where main is | enter, return from the save; signal, hook, drain, deadline |
| `Config` | `internal/config`, `internal/identity` | (pure operators) | |
| `Startup`, `StartupProofs`, `MCStartup` | starts of releases over one database: configuration, `migrate`, payload versions | the database, an open transaction, the release, its configuration, open saves | start, read version, begin, apply, bump, commit, serve; create, open, play, persist, close; down |
| `Money`, `MoneyProofs`, `MCMoney` | int64 amounts: saturation, prices, bonuses, square root | (pure operators) | |
| `ContentRules` | `Content.validate`, lookups by id | (pure operators) | |
| `FarmEngine` | `internal/sim`: `Advance`, the actions, what they derive | a save is a record with the fields of `sim.State`; an operator maps it to the set of its outcomes | |
| `Farm`, `FarmProofs`, `CatchUpProofs`, `MCFarm` | a save under its actor: one closure is one step; contents for TLC | the save, `dirty`, the clock | tick, `Session.Advance`, one per intent, persist |
| `Lemmas` | lemmas that the proofs share: loops over 0 to n, written as recursive functions, and the operators of `Money` | | |
| `GameUI`, `GameUIProofs` | the program of one connection | timers as differences, overlay, screen, cursor, snapshot, the save behind the handle | second, rival, kick, close, drop; resize, tick, kick notice, one per kind of key |

### SaveManager

A session id stands for one connection, from the moment its handler reaches
`Attach` until `Detach` returns. An `Attach` creates at most one actor, so an
actor has the id of the session that created it, and a handle onto a stopped
actor is different from the actor started later for the same save. A save's
content is abstracted to its version, the number of changes in it: versions are
all that durability and ownership speak of.

A closure handed over by `actor.do` runs between two iterations of the actor's
loop and is one step, enabled while the loop runs. `Attach` is split where it
waits: `AttachOpen` or `AttachLoad` takes `mu` and finds or starts the actor,
`AttachRun` is its closure and the return; between the two an autosave, a stop
request or another session's intent may run. `detach` is `DetachLock`,
`DetachRun` or `DetachGone`, and `DetachStopped` after the final flush.
`Shutdown` is `ShutdownBegin`, then for each actor `ShutdownKick`,
`ShutdownLock` and `ShutdownStopped`, with `ShutdownTimeout` at any time. A write
that reports an error may have been applied or not. `Crash` and `Exit` keep the
rows only; `Exit` may come any time after Shutdown returned, whether or not its
goroutine still runs.

`SaveLedger` states the promise without any of that: the newest version only
grows, the row follows it, and the newest version falls back to the row only if
`MayLose`. `SaveRefinement` maps "newest" to the running actor's version, or
else the row's.

### SessionGate

`acquire` and `release` are atomic under their mutex; the release is deferred, so
it is reached from the PTY refusal and from the end of the game alike. The rate
limiter is a library: it may refuse anything. What is behind the chain is the
stage "inside".

### Server

`Server` extends `SaveManager` and `SessionGate`; a session id is a connection in
both, and `KeyOf` and `FingerprintOf` tell of its save and its key. A handler goes
through the chain, calls `Attach` once it is "inside" (`Enter`), and returns
through the caps (`ReturnFromSave`) only when `Attach` failed or the deferred
`Detach` is done. main gets a signal, runs the hook, which is
`Manager.Shutdown`, and then drains. Sessions come in each of these states: the
listener is open until the hook has returned, and a client may open a session on
a connection it already has even later. The drain (`srv.Shutdown` of the SSH library) waits for connections, not
for handlers, so it may end while a handler still runs. `Crash` and `Exit` of
`SaveManager` are no steps here: one life of the process is modelled, and
`save_faults` has the ones after it.

### Config and Startup

A user name is a sequence of characters of four classes: what a slot may have,
capitals, blanks, and the rest; each class has a member or more. `Load` is
`Accepts` and `Loaded`, for the variables that decide how the server behaves.

A release is given by the number of its migrations and the payload version it
writes; the instance has the three that the comments of `migrations.go` and
`state.go` tell of. A migration's statements, the bump of `user_version` and the
commit are steps of their own on a transaction; `Down`, the end of the process,
may come between any two. A save is what upgrades touch: payload version, flavor,
the tools of the farm and of its plots. What players of older releases did to
saves (`Play`) is external, since that code is no longer there.

### FarmEngine and Farm

Each engine function is an operator from a save to the set of saves it may
leave, empty when it refuses; a roll of the save's random stream is a choice
over its possible outcomes, since properties should not rest on the stream. A
content is a record like the one the TOML files give; the contents of `MCFarm`
each hold the parts one question is about, because the product of all would be
out of reach. `Validate` of `ContentRules` is `Content.validate`, check by check,
and the assumption that each of them passes, so every content has crops of all
three archetypes; those that a run does not play with are locked behind nine
rebirths. The moon's day is that of `UpdatedAt` at the beginning of an Advance, as
in the code. `MaxInt` stands for the largest int64. The products that the code does
not check (a seed price under a sale, a growing time under its reductions, a
salvage, an expected payout, a golden harvest) wrap around it before they are divided. What no content brings near the limit is exact: sums of
levels, and the intervals and durations of gifts and events. Sessions send the time of their last tick, which may lag behind the clock by
`MaxLag` (two sessions of one save after a takeover); the passing runs have sessions
without lag, `rewind_violation` one of a second.

### GameUI

`Update` runs one message at a time, so each message is one step, followed by
the rendering (`viewFarm` clamps the cursor as a side effect). Time is kept as
differences: since the last tick, from the last input to that tick, from it to
the end of the goodbye. A tick carries the time at which its timer fired, and may be
handled later (`TickFired(age)`), so the clock of the program is as old as that.
`silence` is the real time since the last key, and `said` how long the goodbye has
been on the screen; neither is in the code, and both serve the properties. The save behind the handle belongs to the
environment: `Rival` buys land or is reborn in it, `DeliverKick` and `CloseSave`
do to this session what SaveManager may do. `CloseSave` needs a notice because
an actor is only stopped without a session, or at the session's own detach.

### Faults

Operators commented with "Fault:" are not used by the specifications. Each is a
plausible mistake in the definition that follows it, and a run in which it
replaces that definition violates the property listed with it in
`PROJECT.json`: this shows that the property can tell the code from such a
mistake.

## 3. Runs

| run | instance | shows |
|---|---|---|
| `save_faults` | three connections, one save, takeover, all faults, three versions | ownership, truthfulness of `dirty`, no actor left behind, Shutdown's report, no loss but the admitted ones, refinement |
| `gate` | six sessions, two keys and one without, caps 3 and 2 | the counters are exact on every way out of the chain |
| `server` | three connections of two saves of one key and one without a key, caps 3 and 2, refuse policy, failing opens | a slot is held as long as a place at a save; "shutdown complete" is true; only a shutdown interrupts a player; with no other fault nothing is ever lost (`MayLose` is false) |
| `server_live` | two connections of one save, takeover, opens may fail, a deadline, fairness | a session that lost its save leaves and gives its slot back, so the slots of a key do not stay taken by sessions of one save; every `Attach`, `Detach` and shutdown ends; progress becomes durable |
| `startup` | three releases in any order, environments at the edges of each check, two saves, two plots | versions tell the truth after any death; no downgrade; upgrades keep automation and choices; what `Load` accepts is what the other models assume |
| `money` | amounts to `MaxInt` = 1023, second operands (also levels, bonuses, estimates) to 40 | saturation, bonuses, exact square root, monotone prices beyond the point where growth would overflow |
| `farm` | land, a zone with its crop, strains, levels, automation with a batch after one cycle, achievements, rebirth | plots and fields add up; what grows is unlocked; never stuck; permanent things survive; catching up at once or in parts is the same |
| `farm_visits` | `MaxInt` of 1023, events, parcels, critters, discoveries, a moon, golden harvests | events end; gifts are paid; wallets and totals stay amounts although a golden product wraps; no change is unmarked; only the end of a growth event sets a crop back |
| `ui` | timeout 3 s, ticks at most 2 s apart, a farm of one or two plots, fairness | one tick chain, no index past the farm, idling; a goodbye stays for its seconds; told or idle sessions end by themselves |

The remaining runs are those of section 4.

### Bounds

Three connections are the least in which an old session's late detach, a new
session and a third attach meet; a save interacts with another only through `mu`,
the caps and Shutdown's iteration, which the second save of `server` exercises, and
the theorems hold for any number. In `server` both caps are reached: the one per
key by two of its connections, the global one by those and the third. Three versions allow a row that is behind by
more than one write. Versions, the clock (`MaxTime`), and the silence after which
nothing new happens (`IdleTimeout + MaxGap`) are the only counters that are cut.
`MaxTime` of three seconds, in days of two, is longer than the grow times, event intervals
and durations of the contents that use them, so that events begin and end and
parcels arrive, also over a gap that counts as offline (more than `OnlineTick`).
The clock starts at the end of the first day, as a moon anchored at day 0 counts
as none. `CatchUpInParts` looks two seconds further than the clock. The caps of
`gate` are both reached, each of them first. `startup` has slots of two
characters and names of up to four, so names are cut, and emptied, at the edge;
its environments set one variable each, because the checks of `Load` are
independent. In `farm_visits` a crop of 4 coins is
worth 12 at full moon, and the product of such a harvest with a golden multiplier
of 400 does not fit into 1023 and wraps to a negative amount. Writes that always fail are
left out of `server_live`, where nothing could become durable; `save_faults` has
them. In `server_live` both sessions can hold the two slots of
their key at once, which `SlotComesFree` is about. `MaxGap` says how old the time of
the last tick may be when a message is handled: the timer is one second, and a
stall of another is allowed, before or after the timer fires.

`ui` turns the deadlock check off because the program ends, `gate` because all
sessions may be gone, `server` and `server_live` because the process ends, and
`money` because the enumeration ends. A deadlock of the registry before its end
would be a violation of `NobodyWaitsForEver`.

### Fairness

`Server` assumes what Go and the UI provide. `sync.Mutex` in starvation mode
hands itself to the longest waiter, so who keeps asking for `mu` gets it: strong
fairness of the steps that lock it, of each handler and of Shutdown. The `select`
of the actor chooses at random among ready arms, so a ticker, a stop or a request
that stays ready is served: weak fairness. The steps of a goroutine that holds
`mu`, or that waits for nobody, are weakly fair. A session that was kicked or whose
actor stopped quits: weak fairness of `Quit`, which `ToldMeansEnds` of `GameUI`
justifies. A handler goes on through the chain, in and out (`HandlerGoesOn`). main goes on when what it waits for is done or its deadline of 30
seconds is past (`MainGoesOn`): a client may keep its connection, and the library
waits for it. Nothing is assumed of players, of the operator, or of the store.
`GameUI` assumes that time passes and that its event
loop serves the tick timer and the kick channel.

## 4. Where the code and what is said of it disagree

Each is a run that must find a violation.

- `kicked_violation`: a session that was taken over can still act on the save
  until its goodbye ends, though `session.go` says such intents are refused.
- `rewind_violation`: `Rebirth` sets `UpdatedAt` to the time of its session even
  if the save is ahead of it, and the time in between is simulated again.
- `replay_violation`: automation bought for a crop that has long been ripe
  replays the time since it ripened.

More show in the models without a run of their own.

- `FinalFlush` ends the actor also when its write fails, with nothing left to
  retry it, while `actor.go` says of failures that the next tick retries, and
  README.md:105 that redeploys never lose progress; `NoOtherLoss` names that step
  as one of the two in which progress is lost. The notice "Your progress is saved"
  is delivered before that write.
- A `Tick` that finds the actor stopped quits at once (`over = "closed"`), so after
  a Shutdown the goodbye may be cut short before its three seconds, or never be
  shown: the one exception in `GoodbyeStays`.
- README.md:86 says of a takeover that the new session wins. The caps stand before
  it: with one session per key, or with all slots of a key held, the new session is
  refused and takes nothing over. What is true is that a key with more slots than
  saves gets one back by itself (`SlotComesFree`), because sessions that lost their
  save leave (`GhostsLeave`), and that the caps and the rate limiter refuse nobody
  without cause (`RefusalsAreJustified`).
- main logs a hook that timed out and goes on; the drain, with the expired context,
  may still return without an error, and "shutdown complete" is logged after a
  flush that was not. `CompleteMeansSaved` is therefore about a flush that
  succeeded. `Manager.Shutdown` waits for `mu` without looking at its deadline.
- content.go:3-4 says that content is validated strictly, so that a server fails
  fast instead of running with a broken economy. `validate` lets pass: no crop
  that is unlocked at the start, zones that unlock each other, and anything in the
  moon (a bonus of -100 divides by zero at derive.go:131), in the critters, in
  the limits of a parcel's coins, and any number however large: a seed price above a
  hundredth of an int64 wraps under a sale, and a negative one becomes free
  (derive.go:68), as a negative growing time becomes a second.
- derive.go:159 says that the moon's phase is a day from 0 to cycle - 1; the cycle
  is always 28 there, and a save whose time went back before its anchor (see
  `rewind_violation`) has a negative one.
- game.go says that the name overlay takes any printable rune, but q closes it;
  views.go:37 asks to press q in a window that is too small, where q closes an
  overlay, or leaves the help screen, first.

## 5. Proofs

`SaveManagerProofs` proves the safety properties of the registry for any sets of
connections and saves, either policy, any faults and any bound on versions. None
of them is inductive. `IInv` adds what makes them so: who holds `mu` in which
state (`LockInv`); that a handle is onto a started actor of its own save
(`HandleInv`); that a registered actor runs unless the holder of `mu` is stopping
it (`RegistryInv`), which is why an `Attach` never meets a stopping actor; that an
actor's session is a live handle onto it (`OwnerInv`) and an unkicked session is
its actor's (`HolderInv`); that an actor without a session is in the hands of an
attach, a detach or a Shutdown (`OccupiedInv`); and that Shutdown has visited, or
has still to visit, every registered actor (`ShutdownInv`). Each part has a lemma
with a step for each action that can disturb it.

Its second half classifies what a step does to the newest version and the row of
each save (`LedgerEffect`); the refinement, the admitted losses and the monotone
rows follow from it.

`ServerProofs` begins with the caps, and proves for any finite set of sessions and
any caps that the counters are the cardinalities of the handlers they count; the
caps follow since `acquire` tests the counters it increments.

It goes on to prove, for any sessions, keys, saves and caps, that a step of the
server is a step of `SaveManager`, or leaves its variables alone, and likewise of
`SessionGate`: the server implements both, so all that was proved of either holds
in the composition, the ledger included. What neither has alone rests on two more
conjuncts. A session with a place at a save is "inside" (`InsideInv`), so the
counters of the gate bound the players (`PlayersWithinCaps`); and an actor that
ended wrote what it held unless its write failed (`EndedInv`), which with the
registry's own invariant makes "shutdown complete" true (`CompleteMeansSaved`).

`StartupProofs` proves for any releases, as long as a payload version came no
earlier than the migration with its column, for any environments, saves and plots,
that versions tell the truth, that nothing is downgraded and that upgrades keep
what was bought. `StartupInv` adds the three things a transaction may hold
(`TxInv`), that rows older than the column are of version 1 (`RowInv`), and that
an open save is of the version of the release that runs (`OpenInv`). That a process
which serves is configured as the other modules assume (`StartsConfigured`) holds
for names of any length: `SlotLoop` follows the loop of `SanitizeSlot` over the
characters of a name, and `SlotSurvives` says that a slot which goes through it
once more, as the default slot does when it is used, does not come out empty.

`FarmProofs` proves the safety properties of the farm for any content that
`validate` accepts, any plays, any clock and every outcome of every roll. `FarmInv`
is one conjunction of five parts, none of which is inductive alone.

- The save is in `Save`: its fields have their types, amounts stay within
  0 .. `MaxInt`, levels and counts are no debts. Every derived value has a lemma
  that types it (`SeedCostType`, `GrowType`, `SellType`, ...).
- `Backed`: the wallet is below what the run began with and earned, and the run's
  earnings below the lifetime's, with the saturating sums of the code. It holds
  through a catch-up since a credit raises both sides by the same amount
  (`CreditIs`), through a purchase since only what the wallet holds is paid
  (`PaidIs`), and through a rebirth since both begin anew.
- `Fits`: what grows on a plot is unlocked, and critters sit on empty plots.
  Crops stay unlocked since zones, rebirths and lifetime earnings, which unlock
  them, are only added to (`UnlockedStays`); a rebirth, which gives the zones
  back, empties the plots.
- `LandFits`: the plots are those of the start, bought and of zones. Buying a zone
  twice would break the sum over the zones; `ZoneAddsPlots` is about one that was
  not owned.
- `InForceAt`: the event has not ended at `UpdatedAt`.

The steps are taken apart as the engine takes them. `StepKeeps` says what a handler
may do to a save. `Tended` is the part of it that sowing, harvesting and paying
have in common; one cycle of an automated plot keeps it (`OneCycleStays`), so does
a batch (`BatchCyclesStay`), hence the loop however often it turns
(`AutoPlotTends`), then the loop over the plots (`GrownInStage`), `Advance`
(`AdvanceKeeps`), each action, and the closure that runs them on the actor
(`IntentKeeps`). `FarmSteps` says it of every action of `Farm`, and the theorems
read what they state off `FarmInv` or off the step. `ProgressIsKept`, for growing times whose
product with a percentage does not wrap (`GrowthFits`), needs more than the invariant: that the growing time depends only on levels, which never fall, and
on the event (`GrowthQuickens`), and that the quotient of the bar is monotone when
the time elapsed grows and the time needed shrinks (`BarFills`).

Four theorems are about time, which the sessions of a save may disagree on by up to
`MaxLag`. `TimeInv` adds to `FarmInv` that the save is not ahead of the clock, and
that nothing grows that was sown later than the save's time (`Rooted`); it holds
whatever the lag (`SavesAreOfThePast`). A rebirth is then the only step that sets a
save back (`RewoundByRebirthOnly`, which is what `rewind_violation` shows to happen),
and with one clock none does (`OneClockNeverRewinds`). What happens to the time that
is simulated again is answered by `TimeBearsOnce`: `HarvestInv` weighs each growing
plot by the seconds it has been in the ground beyond the lag (`Ripe`), and the
harvests so far, with that weight, are never more than the plots the content
admits times the seconds that passed. So no schedule of sessions makes a plot yield
more often than once a second of real time, provided that every crop outgrows the
lag (`SlowCrops`), however its growth is quickened. The replay that
`replay_violation` shows stays within this bound: the seconds a ripe crop has waited
are harvested late, but not twice.

Four hypotheses are not asked for by `validate`, and are met by the game's content:
`GiftsPay` (data/balance.toml:176), without which a parcel of coins may be worth
nothing, `StarterCrop` (data/crops.toml:16), without which nothing can be planted,
`GrowthFits`, that a hundred times a growing time is an int64, and `SlowCrops`, which
adds to it, if there is a lag, that it is small beside the growing times. The
contents of the runs meet the first three. Of a content
whose moon takes everything (a bonus of -100 or less, where the code divides by zero
or by less) the theorems say nothing about the program: `WithBonus` has a number
there. `FarmInv`, `TimeInv` and
`HarvestInv` were checked by TLC on the runs of the farm before they were proved.

`CatchUpProofs` proves `CatchUpInParts` for any content, plots, cap and times, in
every reachable state that is `Calm`: where nothing comes by chance before the end
of time (no golden harvests, discoveries or critters; an event that cannot start,
or one that outlasts everything; a parcel that waits, or cannot come), what is
automated sells the same at every moon and pays for its seeds, the cycles before a
batch earn the batch's first seed, and no count saturates. Calm states with a plot
that is due for a batch are reached on `MCFarm.cfg`, where TLC checks the property in
all other states as well.

The argument replaces both loops of `Advance` by sums. A cycle of an automated plot
brings `Gross` and costs `Seed`; `AutoPlotReaps` says that its loop leaves the save
after `Cycles` of them, the quotient of the time since planting by the growing
time, though up to `autoCycleCap` cycles run one by one and the rest is paid at
once. The induction follows the loop's cursor (`IterationTracks`): in the single
cycles it is the number of harvests so far, and at the cap the batch's quotient is
what is left of the whole (`QuotientLess`), its clamp on the seeds never taking effect as
the single cycles have earned the first one (`Pays`). Each plot finds the rates of
the beginning, since what they depend on does not change within an Advance
(`RatesAgree`), so the loop over the plots leaves running totals (`AllTurns`), and
the Advance one save in closed form (`AdvanceIs`). In closed form two parts are
compared with the whole: quotients add up over a plot that is sown again, and a plot
that was cleared has nothing left to do (`PlotInParts`); the save between the parts is
calm again (`RestIs`); what is met at its time is met at the end (`MetGrows`), so the
same achievements stand, if with other dates (`PartsMeet`).

`MoneyProofs` proves, for amounts up to any `MaxInt`, that sums and products
saturate exactly, that a bonus never lowers a payout, that the square root is exact
from whatever estimate its loops start, and that prices never fall. The lemmas of
`Lemmas` on money are about the integer quotient that the code compares with before it
multiplies, and about `Grown`, the loop over the levels bought (`GrownNext`,
`GrownBounds`).

The loops of the code are recursive functions over 0 to n in the model, and the
library's induction theorems cannot be used on them, as they take an operator.
`Lemmas` gets by with sets: the least element of a set of numbers, which is an
instance of well-founded induction over a set (`LeastNat`, `Induction`), gives that
the function a recursion defines exists and is the run of the loop (`LoopExists`,
`RunsAgree`), and that what holds first and is kept by each turn holds last
(`LoopStays`). `GrownLoop`, `SumLoop` and `SlotLoop` apply it to prices, to sums
over levels and zones and to names.

`GameUIProofs` proves for every timeout, farm size and gap that there is one tick
chain, that no index leaves the snapshot, that idling is measured right, and that a
goodbye stays (`GoodbyesStay`). The strengthening is `ClockInv`: the code's idle time
plus the age of its clock is the silence, up to the one gap by which a key's stamp
may be old, and what is left of a goodbye and how long it has been on the screen
add up to its length less that gap, or more.

The theorems rest on the named assumptions on the constants
(`ConstantsAssumption`, `GateAssumption`, `ServerAssumption`, `StartupAssumption`,
`EnvironmentAssumption`, `NoneAssumption`, `MoneyAssumption`, `EngineAssumption`,
`FarmAssumption`, `UIAssumption`), which TLC evaluates in the runs.
`EngineAssumption` is that the content is one of numbers and names that `Validate`
lets pass, and that its starting coins are an int64.

Only model-checked:

- liveness (`GhostsLeave`, `SlotComesFree`, `NobodyWaitsForEver`, `ProgressBecomesDurable`,
  `ToldMeansEnds`, `GoodbyeEnds`), since the prover has neither fairness nor ENABLED;
- `CatchUpInParts` in the states that are not `Calm`: where chance decides, it
  equates the sets of all outcomes of one Advance and of two, which would have to be
  compared roll by roll; and where a batch does not pay, each Advance stops at the
  cap, and the two sides agree only as long as it is not reached;
- what the `violation` runs show, which is false.

## 6. Not modelled

- Rendering: views, layout and formatting turn a snapshot into text. What rendering
  does to the state, the clamped cursor of the farm, is in `GameUI`. So are the
  lists of the market, the picker, the progress and the help screens left out:
  each checks its index against the list it has just built, and calls the session
  with the id found there.
- What an Advance tells the player (`sim.Events`) and the notices made of it,
  away summaries, names of moon phases and critters, the values of the random
  stream: no state depends on them.
- Host keys, listening, the rate limiter's arithmetic, SQLite settings, logging,
  the texts a client is sent, and the terminal writer for Windows: I/O, or
  rewriting of bytes.
- Reading TOML and JSON. That `encoding/json` writes and reads back the fields of
  a save is taken as given; what happens to fields of other versions is `Startup`.
- `ListSlots`, which the program never calls; what SQLite may lose at a power
  failure with `synchronous=NORMAL`.
- Two server processes over one database: the code is written for one, and nothing
  in it keeps a second away.
- A content that changes over a restart: a crop that is withdrawn while it grows
  leaves a plot that can be neither harvested nor planted (see the hazards).
- What a save holds and who writes it are in separate models: `SaveManager` has
  versions, `Farm` has one save under one actor, `Startup` the fields that upgrades
  touch. That a closure runs alone on the actor is what joins them.

## 7. Plan

Done, in this order: the registry with its ledger and proofs; the caps; money;
the engine; the UI; the server as the composition of caps, registry and main;
starts, migrations and payload versions with the configuration; the rules of
content; crops over events and the moon; proofs of the composition, of starts and
of money; proofs of the engine and the farm.

What could follow:

1. `Farm` over a change of content, once the repository says what is meant to
   become of withdrawn crops.
2. The lists of `GameUI`, should they begin to keep an index across snapshots.
3. `CatchUpInParts` by proof under golden harvests, discoveries, parcels and events,
   where only the rolls of the two sides have to be compared.
