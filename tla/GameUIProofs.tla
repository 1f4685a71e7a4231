---------------------------- MODULE GameUIProofs ----------------------------
(* What holds of the program of a connection for every timeout and farm size. *)
EXTENDS GameUI, TLAPS

\* Before the end the time since the last key is known up to the age that g.now
\* had when the key was stamped; the goodbye is not past its end, and has been up
\* for what is missing to its end, up to the age that g.now had when it came up.
ClockInv ==
    over = "no" =>
        /\ silence <= idle + wait
        /\ idle + wait <= silence + MaxGap
        /\ IdleTimeout > 0 /\ overlay # "kicked" => idle < IdleTimeout
        /\ left > 0
        /\ overlay = "kicked" =>
              left # NoQuit /\ GoodbyeDelay - MaxGap <= said + left - wait

UIInv ==
    /\ UITypeOK
    /\ OneTickChain
    /\ NeverPanics
    /\ CursorOnFarm
    /\ ClockInv

-----------------------------------------------------------------------------
\* The invariant holds when the program starts.
LEMMA InitUI == Init => UIInv
  BY UIAssumption, SMT
     DEF UIAssumption, Init, UIInv, UITypeOK, OneTickChain, NeverPanics,
         CursorOnFarm, ClockInv, FirstTicks, LongSilence, Overlay, Screen,
         NoQuit, GoodbyeDelay

\* Nothing that the other side does breaks it.
LEMMA OutsideKeeps ==
    ASSUME UIInv, Second \/ Rival \/ DeliverKick \/ CloseSave \/ Drop
    PROVE  UIInv'
  <1> USE UIAssumption
      DEF UIAssumption, UIInv, UITypeOK, OneTickChain, NeverPanics,
          CursorOnFarm, ClockInv, LongSilence, Overlay, Screen, NoQuit,
          GoodbyeDelay, timeVars, viewVars, saveVars
  <1>1. CASE Second
    BY <1>1, SMT DEF Second, Later
  <1>2. CASE Rival
    BY <1>2, SMT DEF Rival
  <1>3. CASE DeliverKick
    BY <1>3, SMT DEF DeliverKick
  <1>4. CASE CloseSave
    <2>1. UNCHANGED <<timeVars, viewVars, plots, notice, over>> /\ open' = FALSE
      BY <1>4 DEF CloseSave
    <2>2. ClockInv'
      BY <2>1, SMT
    <2>3. OneTickChain' /\ NeverPanics' /\ CursorOnFarm'
      BY <2>1
    <2>4. UITypeOK'
      <3>1. /\ UNCHANGED <<ticks, fresh, wait, idle, left, silence, said>>
            /\ UNCHANGED <<overlay, scr, cursor, upgradeIdx, small, shown>>
            /\ UNCHANGED <<plots, notice, over>>
        BY <2>1
      <3>2. open' \in BOOLEAN
        BY <2>1
      <3> QED BY <3>1, <3>2, SMT
    <2> QED BY <2>2, <2>3, <2>4
  <1>5. CASE Drop
    BY <1>5, SMT DEF Drop
  <1> QED BY <1>1, <1>2, <1>3, <1>4, <1>5

\* The index of the last of n plots.
LEMMA LastPlot ==
    ASSUME NEW m \in Nat, NEW n \in 1 .. m
    PROVE  n - 1 \in 0 .. m - 1 /\ n - 1 < n
  BY SMT

\* An index that is not past the end of n plots.
LEMMA WithinPlots ==
    ASSUME NEW m \in Nat, NEW n \in 1 .. m, NEW i \in 0 .. m - 1, ~(i >= n)
    PROVE  i < n
  BY SMT

\* Rendering keeps the cursor a plot index, and puts it on a plot of the farm.
LEMMA RenderedCursor ==
    ASSUME shown' \in 1 .. MaxPlots, NEW c \in 0 .. MaxPlots - 1, Rendered(c)
    PROVE  /\ cursor' \in 0 .. MaxPlots - 1
           /\ overlay' = "none" /\ scr' = "farm" /\ ~small'
                 => cursor' < shown'
  <1>1. MaxPlots \in Nat
    BY UIAssumption DEF UIAssumption
  <1>2. CASE overlay' = "none" /\ scr' = "farm" /\ ~small' /\ c >= shown'
    <2>1. cursor' = shown' - 1
      BY <1>2 DEF Rendered, OnAPlot
    <2> QED BY <1>1, <2>1, LastPlot
  <1>3. CASE ~(overlay' = "none" /\ scr' = "farm" /\ ~small')
    BY <1>3 DEF Rendered, OnAPlot
  <1>4. CASE ~(c >= shown')
    <2>1. cursor' = c
      BY <1>4 DEF Rendered, OnAPlot
    <2> QED BY <1>1, <1>4, <2>1, WithinPlots
  <1> QED BY <1>2, <1>3, <1>4

\* Nor does a message that is not a key.
LEMMA MessageKeeps ==
    ASSUME UIInv, Resize \/ Kicked \/ Tick
    PROVE  UIInv'
  <1> USE UIAssumption
      DEF UIAssumption, UIInv, UITypeOK, OneTickChain, NeverPanics,
          CursorOnFarm, ClockInv, LongSilence, Overlay, Screen, NoQuit,
          GoodbyeDelay, timeVars, saveVars
  <1>1. CASE Resize
    BY <1>1, RenderedCursor, SMT DEF Resize
  <1>2. CASE Kicked
    BY <1>2, RenderedCursor, SMT DEF Kicked
  <1>3. CASE Tick
    <2>1. PICK age \in 0 .. wait : TickFired(age)
      BY <1>3 DEF Tick
    <2>2. /\ shown' \in 1 .. MaxPlots
          /\ Rendered(cursor)
      BY <2>1, SMT DEF TickFired
    <2>3. Later(idle, wait - age) \in 0 .. LongSilence
      BY <2>1, SMT DEF Later
    <2>4. UITypeOK'
      <3>1. cursor' \in 0 .. MaxPlots - 1
        BY <2>2, RenderedCursor
      <3>2. /\ ticks' \in Nat
            /\ left' \in (0 - MaxGap) .. NoQuit
            /\ said' \in 0 .. GoodbyeDelay
            /\ wait' \in 0 .. MaxGap
            /\ over' \in {"no", "key", "drop", "time", "closed", "panic"}
            /\ overlay' \in Overlay
        BY <2>1, SMT DEF TickFired
      <3>3. /\ idle' \in 0 .. LongSilence
            /\ fresh' = FALSE
            /\ UNCHANGED <<silence, scr, upgradeIdx, small, plots, open, notice>>
        BY <2>1, <2>3 DEF TickFired
      <3> QED BY <2>2, <3>1, <3>2, <3>3
    <2>5. CursorOnFarm'
      BY <2>2, RenderedCursor
    <2>6. OneTickChain' /\ NeverPanics'
      BY <2>1, SMT DEF TickFired
    <2>7. ClockInv'
      BY <2>1, SMT DEF TickFired, Later, DriftedOff
    <2> QED BY <2>4, <2>5, <2>6, <2>7
  <1> QED BY <1>1, <1>2, <1>3

\* Nor does a key.
LEMMA KeyKeeps ==
    ASSUME UIInv, Key
    PROVE  UIInv'
  <1> USE UIAssumption, RenderedCursor
      DEF UIAssumption, UIInv, UITypeOK, OneTickChain, NeverPanics,
          CursorOnFarm, ClockInv, LongSilence, Overlay, Screen, viewVars,
          Pressed, Opened, Call
  <1>1. CASE KeyQuit
    BY <1>1, SMT DEF KeyQuit
  <1>2. CASE KeyClose \/ KeyScreen \/ KeyOther
    BY <1>2, SMT DEF KeyClose, KeyScreen, KeyOther
  <1>3. CASE KeyMove
    <2>1. PICK c \in 0 .. MaxPlots - 1 : Rendered(c)
      BY <1>3, SMT DEF KeyMove
    <2> QED BY <1>3, <2>1, SMT DEF KeyMove
  <1>4. CASE KeyEnter
    BY <1>4, SMT DEF KeyEnter, PlotAt
  <1>5. CASE KeyShoo
    BY <1>5, SMT DEF KeyShoo, PlotAt
  <1>6. CASE KeyUpgrades \/ KeyUpgradeMove
    BY <1>6, SMT DEF KeyUpgrades, KeyUpgradeMove
  <1>7. CASE \/ KeyGift \/ KeyHarvestAll \/ KeyAutomate
             \/ KeyMarket \/ KeyProgress \/ KeyFlavor
    <2>1. PICK ov \in Overlay, sc \in SUBSET Screen : Acts(ov, sc)
      BY <1>7 DEF KeyGift, KeyHarvestAll, KeyAutomate, KeyMarket, KeyProgress,
                  KeyFlavor
    <2> QED BY <2>1, SMT DEF Acts
  <1>8. CASE KeyPlant \/ KeyName \/ KeyAsk
    BY <1>8, SMT DEF KeyPlant, KeyName, KeyAsk
  <1>9. CASE KeyBuyPlot
    BY <1>9, SMT DEF KeyBuyPlot
  <1>10. CASE KeyRebirth
    BY <1>10, SMT DEF KeyRebirth
  <1> QED BY <1>1, <1>2, <1>3, <1>4, <1>5, <1>6, <1>7, <1>8, <1>9,
             <1>10 DEF Key

\* UIInv is inductive.
THEOREM UIInvariant == Spec => []UIInv
  <1>1. ASSUME UIInv, [Next]_vars
        PROVE  UIInv'
    <2>1. CASE Next
      BY <1>1, <2>1, OutsideKeeps, MessageKeeps, KeyKeeps DEF Next
    <2>2. CASE UNCHANGED vars
      BY <1>1, <2>2, SMT
         DEF UIInv, UITypeOK, OneTickChain, NeverPanics, CursorOnFarm, ClockInv,
             vars, timeVars, viewVars, saveVars, LongSilence
    <2> QED BY <1>1, <2>1, <2>2
  <1> QED BY <1>1, InitUI, PTL DEF Spec

-----------------------------------------------------------------------------
\* One chain of ticks, whatever Update handles (game.go:140-142).
THEOREM OneChain == Spec => []OneTickChain
  BY UIInvariant, PTL DEF UIInv

\* No message indexes past the plots of the snapshot.
THEOREM IndexesAreSafe == Spec => []NeverPanics
  BY UIInvariant, PTL DEF UIInv

\* An idle connection is bidden goodbye within a tick of its timeout.
THEOREM IdlersLeave == Spec => []IdleIsEnforced
  <1>1. UIInv => IdleIsEnforced
    BY UIAssumption, SMT
       DEF UIAssumption, UIInv, UITypeOK, ClockInv, IdleIsEnforced, LongSilence
  <1> QED BY <1>1, UIInvariant, PTL

\* And no connection whose player is there.
THEOREM PlayersStay == Spec => IdleIsDeserved
  <1>1. ASSUME UIInv, [Next]_vars
        PROVE  [overlay # "kicked" /\ overlay' = "kicked" /\ notice' = notice =>
                   silence >= IdleTimeout - MaxGap]_vars
    <2>1. CASE Tick
      BY <1>1, <2>1, UIAssumption, SMT
         DEF UIAssumption, UIInv, UITypeOK, ClockInv, LongSilence, Tick,
             TickFired, Later, DriftedOff
    <2>2. CASE Kicked
      BY <2>2 DEF Kicked
    <2>3. CASE Second \/ Rival \/ DeliverKick \/ CloseSave \/ Drop \/ Resize
      BY <2>3
         DEF Second, Rival, DeliverKick, CloseSave, Drop, Resize, viewVars
    <2>4. CASE Key
      BY <2>4, SMT
         DEF Key, KeyQuit, KeyClose, KeyScreen, KeyOther, KeyMove, KeyEnter,
             KeyShoo, KeyUpgrades, KeyUpgradeMove, KeyGift, KeyHarvestAll,
             KeyAutomate, KeyMarket, KeyProgress, KeyFlavor, Acts, KeyPlant,
             KeyName, KeyBuyPlot, KeyAsk, KeyRebirth, Pressed, Opened, viewVars
    <2>5. CASE UNCHANGED vars
      BY <2>5
    <2> QED BY <1>1, <2>1, <2>2, <2>3, <2>4, <2>5 DEF Next
  <1> QED BY <1>1, UIInvariant, PTL DEF Spec, IdleIsDeserved

\* A goodbye stays for its time, whatever notices come together, unless the player
\* leaves or the actor has stopped (game.go:177-189).
THEOREM GoodbyesStay == Spec => GoodbyeStays
  <1>1. ASSUME UIInv, [Next]_vars
        PROVE  [overlay = "kicked" /\ over' \notin {"no", "key", "drop"} /\ open =>
                   said >= GoodbyeDelay - MaxGap]_vars
    <2>1. CASE Tick
      BY <1>1, <2>1, UIAssumption, SMT
         DEF UIAssumption, UIInv, UITypeOK, ClockInv, LongSilence, Tick,
             TickFired, NoQuit, GoodbyeDelay
    <2>2. CASE Kicked \/ Second \/ Rival \/ DeliverKick \/ CloseSave \/ Drop \/ Resize
      BY <2>2
         DEF Kicked, Second, Rival, DeliverKick, CloseSave, Drop, Resize
    <2>3. CASE Key
      BY <2>3, SMT
         DEF Key, KeyQuit, KeyClose, KeyScreen, KeyOther, KeyMove, KeyEnter,
             KeyShoo, KeyUpgrades, KeyUpgradeMove, KeyGift, KeyHarvestAll,
             KeyAutomate, KeyMarket, KeyProgress, KeyFlavor, Acts, KeyPlant,
             KeyName, KeyBuyPlot, KeyAsk, KeyRebirth, Pressed, Opened, Overlay,
             PlotAt
    <2>4. CASE UNCHANGED vars
      BY <2>4
    <2> QED BY <1>1, <2>1, <2>2, <2>3, <2>4 DEF Next
  <1> QED BY <1>1, UIInvariant, PTL DEF Spec, GoodbyeStays

=============================================================================
