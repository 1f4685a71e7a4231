------------------------------- MODULE GameUI -------------------------------
(***************************************************************************)
(* The program of one connection (internal/tui/game.go): Update is called   *)
(* by the event loop with one message at a time, a tick, the kick notice, a *)
(* key or a resize, and the view is rendered after each.  The save lies     *)
(* behind the session handle and may be changed by another session of the   *)
(* same save; the screen shows a snapshot of it.                            *)
(*                                                                         *)
(* Times are differences in seconds: since g.now (wait), from g.lastInput   *)
(* to g.now (idle), from g.now to g.quitAt (left).  The lists of the market, *)
(* the picker, the progress and the help screens, notices and texts are     *)
(* left out.                                                                *)
(***************************************************************************)
EXTENDS Integers

CONSTANTS
    IdleTimeout,   \* config.IdleTimeout in seconds, 0 for none
    MaxGap,        \* g.now is at most so long ago when a message is handled
    StartPlots,    \* plots of a new run
    MaxPlots       \* content.MaxPlots

ASSUME UIAssumption ==
    /\ IdleTimeout \in Nat
    /\ MaxGap \in Nat \ {0}
    /\ StartPlots \in Nat \ {0}
    /\ MaxPlots \in Nat
    /\ StartPlots <= MaxPlots

VARIABLES
    ticks,       \* ticks that are scheduled
    fresh,       \* the first tick, which refresh delivers at once, is pending
    wait, idle, left,
    silence,     \* the time since the player last did something, capped
    said,        \* the time since the last goodbye came up, capped
    overlay, scr, cursor, upgradeIdx,
    small,       \* the window is too small for the view
    shown,       \* plots of the snapshot
    plots,       \* plots of the save
    open,        \* the actor of the save runs
    notice,      \* the channel Session.Kicked
    over         \* how the program ended

timeVars == <<ticks, fresh, wait, idle, left, silence, said>>
viewVars == <<overlay, scr, cursor, upgradeIdx, small, shown>>
saveVars == <<plots, open, notice>>
vars == <<timeVars, viewVars, saveVars, over>>

GoodbyeDelay == 3
NoQuit == GoodbyeDelay + 1      \* g.quitAt = 0

Overlay == {"none", "onboarding", "away", "picker", "upgrade",
            "rebirthConfirm", "name", "kicked"}
Screen == {"farm", "market", "land", "rebirth", "progress", "stats", "help"}

\* The idle time that is past every limit: counting stops there.
LongSilence == IdleTimeout + MaxGap
Later(t, d) == IF t + d > LongSilence THEN LongSilence ELSE t + d

UITypeOK ==
    /\ ticks \in Nat
    /\ fresh \in BOOLEAN
    /\ wait \in 0 .. MaxGap
    /\ idle \in 0 .. LongSilence
    /\ left \in (0 - MaxGap) .. NoQuit
    /\ silence \in 0 .. LongSilence
    /\ said \in 0 .. GoodbyeDelay
    /\ overlay \in Overlay
    /\ scr \in Screen
    /\ cursor \in 0 .. MaxPlots - 1
    /\ upgradeIdx \in 0 .. MaxPlots - 1
    /\ small \in BOOLEAN
    /\ shown \in 1 .. MaxPlots
    /\ plots \in 1 .. MaxPlots
    /\ open \in BOOLEAN
    /\ notice \in {"none", "sent", "read"}
    /\ over \in {"no", "key", "drop", "time", "closed", "panic"}

\* Fault: a second tick is scheduled next to the one refresh delivers.
FirstTicksTwice == 2

\* Game.Init starts the tick chain.
FirstTicks == 1

\* NewGame and Game.Init.  Until the first tick a new save is shown.
Init ==
    /\ ticks = FirstTicks
    /\ fresh = TRUE
    /\ wait = 0
    /\ idle = 0
    /\ left = NoQuit
    /\ silence = 0
    /\ said = 0
    /\ overlay \in {"none", "onboarding", "away"}
    /\ scr = "farm"
    /\ cursor = 0
    /\ upgradeIdx = 0
    /\ small \in BOOLEAN
    /\ shown = StartPlots
    /\ plots \in StartPlots .. MaxPlots
    /\ open = TRUE
    /\ notice = "none"
    /\ over = "no"

-----------------------------------------------------------------------------
(* What the other side does.                                               *)

Second ==
    /\ over = "no"
    /\ wait < MaxGap
    /\ wait' = wait + 1
    /\ silence' = Later(silence, 1)
    /\ said' = IF overlay = "kicked" /\ said < GoodbyeDelay THEN said + 1 ELSE said
    /\ UNCHANGED <<ticks, fresh, idle, left, viewVars, saveVars, over>>

\* Another session of the save, before it is told that it lost it or after
\* this one has, buys land or is reborn.
Rival ==
    /\ over = "no"
    /\ open
    /\ plots' \in {StartPlots} \cup ({plots + 1} \cap 1 .. MaxPlots)
    /\ UNCHANGED <<timeVars, viewVars, open, notice, over>>

\* Session.deliverKick: once, with a reason.
DeliverKick ==
    /\ over = "no"
    /\ notice = "none"
    /\ notice' = "sent"
    /\ UNCHANGED <<timeVars, viewVars, plots, open, over>>

\* The actor stops, under a session that was told it is over.
CloseSave ==
    /\ over = "no"
    /\ open
    /\ notice # "none"
    /\ open' = FALSE
    /\ UNCHANGED <<timeVars, viewVars, plots, notice, over>>

\* The connection is lost: the program is killed.
Drop ==
    /\ over = "no"
    /\ over' = "drop"
    /\ UNCHANGED <<timeVars, viewVars, saveVars>>

-----------------------------------------------------------------------------
(* Update.                                                                 *)

\* What rendering the farm does to the cursor (viewFarm).
OnAPlot(c) ==
    IF overlay' = "none" /\ scr' = "farm" /\ ~small' /\ c >= shown'
    THEN shown' - 1 ELSE c

Rendered(c) == cursor' = OnAPlot(c)

Resize ==
    /\ over = "no"
    /\ small' \in BOOLEAN
    /\ UNCHANGED <<overlay, scr, upgradeIdx, shown, timeVars, saveVars, over>>
    /\ Rendered(cursor)

\* Fault: the notice stops the tick chain.
KickedStopsTicks ==
    /\ over = "no"
    /\ notice = "sent"
    /\ notice' = "read"
    /\ overlay' = "kicked"
    /\ left' = GoodbyeDelay
    /\ said' = 0
    /\ ticks' = ticks - 1
    /\ UNCHANGED <<fresh, wait, idle, silence, scr, upgradeIdx, small, shown,
                   plots, open, over>>
    /\ Rendered(cursor)

\* Fault: a goodbye that is on the screen keeps its end.
KickedKeepsEnd ==
    /\ over = "no"
    /\ notice = "sent"
    /\ notice' = "read"
    /\ overlay' = "kicked"
    /\ left' = IF left = NoQuit THEN GoodbyeDelay ELSE left
    /\ said' = 0
    /\ UNCHANGED <<ticks, fresh, wait, idle, silence, scr, upgradeIdx, small,
                   shown, plots, open, over>>
    /\ Rendered(cursor)

\* kickedMsg.  (An empty one follows the close of the channel, which Detach
\* does when the program has ended.)
Kicked ==
    /\ over = "no"
    /\ notice = "sent"
    /\ notice' = "read"
    /\ overlay' = "kicked"
    /\ left' = GoodbyeDelay
    /\ said' = 0
    /\ UNCHANGED <<ticks, fresh, wait, idle, silence, scr, upgradeIdx, small,
                   shown, plots, open, over>>
    /\ Rendered(cursor)

\* Fault: an idle session is bidden goodbye at every tick.
DriftedOffAgain(i) == IdleTimeout > 0 /\ i >= IdleTimeout

\* Fault: the timeout does not apply while an overlay is open.
DriftedOffUncovered(i) ==
    IdleTimeout > 0 /\ overlay = "none" /\ i >= IdleTimeout

DriftedOff(i) == IdleTimeout > 0 /\ overlay # "kicked" /\ i >= IdleTimeout

\* tickMsg, of the time at which the timer fired, so long before it is handled;
\* it fires after g.now, which is the time of the tick before.  Session.Advance
\* brings the snapshot, or fails when the actor has stopped; each tick that does
\* not end the program schedules the next one.
TickFired(age) ==
    LET now == IF left = NoQuit THEN NoQuit ELSE left - (wait - age)
        idleNow == Later(idle, wait - age) IN
    /\ over = "no"
    /\ ticks > 0
    /\ fresh \/ age < wait
    /\ fresh' = FALSE
    /\ wait' = age
    /\ idle' = idleNow
    /\ IF left # NoQuit /\ now <= 0
       THEN /\ over' = "time"
            /\ ticks' = ticks - 1
            /\ left' = now
            /\ UNCHANGED <<said, overlay, shown>>
       ELSE IF DriftedOff(idleNow)
       THEN /\ overlay' = "kicked"
            /\ left' = GoodbyeDelay
            /\ said' = 0
            /\ UNCHANGED <<ticks, shown, over>>
       ELSE IF ~open
       THEN /\ over' = "closed"
            /\ ticks' = ticks - 1
            /\ left' = now
            /\ UNCHANGED <<said, overlay, shown>>
       ELSE /\ shown' = plots
            /\ left' = now
            /\ UNCHANGED <<ticks, said, overlay, over>>
    /\ UNCHANGED <<silence, scr, upgradeIdx, small, saveVars>>
    /\ Rendered(cursor)

Tick == \E age \in 0 .. wait : TickFired(age)

-----------------------------------------------------------------------------
(* Keys.  Each counts as activity, whatever it does.                        *)

\* Fault: a key is not remembered.
PressedUnnoticed(ov) ==
    /\ over = "no"
    /\ overlay \in ov
    /\ silence' = 0
    /\ UNCHANGED <<ticks, fresh, wait, left, idle, said, small, open, notice>>

\* A key arrives while one of the overlays ov is shown.
Pressed(ov) ==
    /\ over = "no"
    /\ overlay \in ov
    /\ idle' = 0
    /\ silence' = 0
    /\ UNCHANGED <<ticks, fresh, wait, left, said, small, open, notice>>

\* The key ends the program: ctrl+c anywhere, any key at the goodbye, q on a
\* screen other than help.
KeyQuit ==
    /\ Pressed(Overlay)
    /\ over' = "key"
    /\ UNCHANGED <<viewVars, plots>>

\* The key opens or closes an overlay or changes the screen, and does nothing
\* to the save.
Opened(ov) == overlay' = ov /\ UNCHANGED <<scr, upgradeIdx, shown, plots, over>>

\* The onboarding and the away summary close at any key, the others at esc and q.
KeyClose ==
    /\ Pressed(Overlay \ {"none", "kicked"})
    /\ Opened("none")
    /\ Rendered(cursor)

\* 1-6, ?, tab, shift+tab, and q or esc on the help screen.
KeyScreen ==
    /\ Pressed({"none"})
    /\ scr' \in Screen
    /\ UNCHANGED <<overlay, upgradeIdx, shown, plots, over>>
    /\ Rendered(cursor)

\* A key that has no effect, or on what is left out.
KeyOther ==
    /\ Pressed(Overlay \ {"onboarding", "away", "kicked"})
    /\ Opened(overlay)
    /\ Rendered(cursor)

\* The arrows on the farm, whose grid has up to six columns.
KeyMove ==
    /\ Pressed({"none"})
    /\ scr = "farm"
    /\ Opened("none")
    /\ \E columns \in 1 .. 6 :
          \E c \in ({cursor - 1, cursor - columns} \cap Nat)
                   \cup ({cursor + 1, cursor + columns} \cap 0 .. shown - 1) :
             Rendered(c)

\* What the snapshot holds at an index: indexing past its end is a panic.
PlotAt(i) ==
    IF i < shown THEN {"empty", "growing", "ready", "critter"} ELSE {"panic"}

\* A call of the session: it may change the number of plots of the save, and
\* brings a snapshot back whether or not it succeeds, unless the actor has
\* stopped.
Call(n) ==
    IF open THEN plots' = n /\ shown' = n ELSE UNCHANGED <<plots, shown>>

\* Fault: enter looks at the plot under the cursor without asking if it exists.
KeyEnterUnchecked ==
    /\ Pressed({"none"})
    /\ scr = "farm"
    /\ \E plot \in PlotAt(cursor) :
          /\ over' = IF plot = "panic" THEN "panic" ELSE over
          /\ overlay' = IF plot \in {"empty", "critter"} THEN "picker"
                        ELSE overlay
          /\ IF plot = "ready" THEN Call(plots) ELSE UNCHANGED <<plots, shown>>
    /\ UNCHANGED <<scr, upgradeIdx>>
    /\ Rendered(cursor)

\* enter on the farm: plant, harvest, or say how long it takes.
KeyEnter ==
    /\ Pressed({"none"})
    /\ scr = "farm"
    /\ cursor < shown
    /\ \E plot \in PlotAt(cursor) :
          /\ over' = IF plot = "panic" THEN "panic" ELSE over
          /\ overlay' = IF plot \in {"empty", "critter"} THEN "picker"
                        ELSE overlay
          /\ IF plot = "ready" THEN Call(plots) ELSE UNCHANGED <<plots, shown>>
    /\ UNCHANGED <<scr, upgradeIdx>>
    /\ Rendered(cursor)

\* x on the farm.
KeyShoo ==
    /\ Pressed({"none"})
    /\ scr = "farm"
    /\ cursor < shown
    /\ \E plot \in PlotAt(cursor) :
          /\ over' = IF plot = "panic" THEN "panic" ELSE over
          /\ IF plot = "critter" THEN Call(plots) ELSE UNCHANGED <<plots, shown>>
    /\ UNCHANGED <<overlay, scr, upgradeIdx>>
    /\ Rendered(cursor)

\* u on the farm.
KeyUpgrades ==
    /\ Pressed({"none"})
    /\ scr = "farm"
    /\ overlay' = "upgrade"
    /\ upgradeIdx' = cursor
    /\ UNCHANGED <<scr, shown, plots, over>>
    /\ Rendered(cursor)

\* The plot list of the upgrade overlay.
KeyUpgradeMove ==
    /\ Pressed({"upgrade"})
    /\ upgradeIdx' \in ({upgradeIdx - 1} \cap Nat)
                       \cup ({upgradeIdx + 1} \cap 0 .. shown - 1)
    /\ UNCHANGED <<overlay, scr, shown, plots, over>>
    /\ Rendered(cursor)

\* The player acts on the save; its plots stay as many.
Acts(ov, sc) ==
    /\ Pressed({ov})
    /\ scr \in sc
    /\ Call(plots)
    /\ UNCHANGED <<overlay, scr, upgradeIdx, over>>
    /\ Rendered(cursor)

KeyGift == Acts("none", Screen)            \* g
KeyHarvestAll == Acts("none", {"farm"})    \* a
KeyAutomate == Acts("upgrade", Screen)     \* 1 and 2
KeyMarket == Acts("none", {"market"})      \* enter
KeyProgress == Acts("none", {"progress"})  \* enter
KeyFlavor == Acts("none", {"stats"})       \* t

\* enter in the picker: the overlay closes when the crop was planted.
KeyPlant ==
    /\ Pressed({"picker"})
    /\ Call(plots)
    /\ overlay' \in {"picker"} \cup IF open /\ cursor < plots THEN {"none"} ELSE {}
    /\ UNCHANGED <<scr, upgradeIdx, over>>
    /\ Rendered(cursor)

\* enter in the name overlay, with a name that is accepted.
KeyName ==
    /\ Pressed({"name"})
    /\ open
    /\ Call(plots)
    /\ overlay' = "none"
    /\ UNCHANGED <<scr, upgradeIdx, over>>
    /\ Rendered(cursor)

\* b on the land screen.
KeyBuyPlot ==
    /\ Pressed({"none"})
    /\ scr = "land"
    /\ \E n \in {plots} \cup ({plots + 1} \cap 1 .. MaxPlots) : Call(n)
    /\ UNCHANGED <<overlay, scr, upgradeIdx, over>>
    /\ Rendered(cursor)

\* R on the rebirth screen, n on the stats screen.
KeyAsk ==
    /\ Pressed({"none"})
    /\ \/ scr = "rebirth" /\ Opened("rebirthConfirm")
       \/ scr = "stats" /\ Opened("name")
    /\ Rendered(cursor)

\* y in the confirmation of a rebirth, which may be refused.
KeyRebirth ==
    /\ Pressed({"rebirthConfirm"})
    /\ overlay' = "none"
    /\ UNCHANGED <<scr, upgradeIdx, over>>
    /\ \/ open /\ Call(StartPlots) /\ Rendered(0)
       \/ Call(plots) /\ Rendered(cursor)

Key ==
    \/ KeyQuit \/ KeyClose \/ KeyScreen \/ KeyOther
    \/ KeyMove \/ KeyEnter \/ KeyShoo \/ KeyUpgrades \/ KeyUpgradeMove
    \/ KeyGift \/ KeyHarvestAll \/ KeyAutomate \/ KeyMarket \/ KeyProgress
    \/ KeyFlavor \/ KeyPlant \/ KeyName \/ KeyBuyPlot \/ KeyAsk \/ KeyRebirth

Next ==
    \/ Second \/ Rival \/ DeliverKick \/ CloseSave \/ Drop
    \/ Resize \/ Kicked \/ Tick \/ Key

Spec == Init /\ [][Next]_vars

\* Time passes, and the event loop serves the timers and the channel.
FairSpec == Spec /\ WF_vars(Second) /\ WF_vars(Tick) /\ WF_vars(Kicked)

-----------------------------------------------------------------------------
\* The program runs on exactly one chain of ticks (game.go:140-142): whatever
\* messages it handles, as long as it runs one tick is scheduled, and no more.
OneTickChain == over = "no" => ticks = 1

\* No message makes the program index past the plots of its snapshot, also when
\* another session has shrunk the farm under the cursor.
NeverPanics == over # "panic"

\* A farm that is rendered has its cursor on one of its plots.
CursorOnFarm ==
    over = "no" /\ overlay = "none" /\ scr = "farm" /\ ~small => cursor < shown

\* Nobody holds a connection for long without pressing a key: past the timeout
\* and the gap between two ticks the goodbye is on the screen.
IdleIsEnforced ==
    over = "no" /\ IdleTimeout > 0 /\ overlay # "kicked" =>
        silence < IdleTimeout + MaxGap

\* The goodbye for idling is deserved, up to the age of the clock that the last
\* key was stamped with.
IdleIsDeserved ==
    [][overlay # "kicked" /\ overlay' = "kicked" /\ notice' = notice =>
          silence >= IdleTimeout - MaxGap]_vars

\* A goodbye stays for its three seconds, less the age of the clock that its end
\* was reckoned by: it is not cut short by the timer of an earlier one, unless
\* the player leaves, or the actor has stopped so that the next tick ends the
\* program whatever is on the screen (game.go:177-189).
GoodbyeStays ==
    [][overlay = "kicked" /\ over' \notin {"no", "key", "drop"} /\ open =>
          said >= GoodbyeDelay - MaxGap]_vars

\* A session that was told it is over ends by itself, whoever sits at it; this
\* is what SaveManager assumes of Quit.
ToldMeansEnds == notice # "none" ~> over # "no"

\* So does one that idles.
GoodbyeEnds == overlay = "kicked" ~> over # "no"

=============================================================================
