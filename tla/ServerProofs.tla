----------------------------- MODULE ServerProofs -----------------------------
(***************************************************************************)
(* Proofs about the chain of middlewares and the whole server.              *)
(*                                                                         *)
(* For any number of sessions, keys and any caps: the counters of           *)
(* SessionLimits are exact, and the caps hold.  A step of the server is a    *)
(* step of the registry and a step of the chain, so what was proved of each  *)
(* holds behind and around the other; and a connection that has a place at a *)
(* save is a handler that holds a slot.                                     *)
(***************************************************************************)
EXTENDS Server, SaveManagerProofs, FiniteSetTheorems

-----------------------------------------------------------------------------
(* The session caps.                                                       *)

\* Only a session with a key gets past the caps.
HoldersHaveKeys == \A s \in Holders : FingerprintOf[s] \in Fingerprint

\* The counters are within the caps: what acquire checks.
CountersCapped ==
    /\ global <= MaxGlobal
    /\ \A f \in Fingerprint : perKey[f] <= MaxPerKey

GateInv ==
    /\ GateTypeOK
    /\ HoldersHaveKeys
    /\ CountersExact
    /\ CountersCapped

\* The slots are held by finitely many handlers.
LEMMA HoldersFinite ==
    /\ IsFiniteSet(Holders)
    /\ \A f \in Fingerprint : IsFiniteSet(HoldersOf(f))
    /\ Cardinality(Holders) \in Nat
    /\ \A f \in Fingerprint : Cardinality(HoldersOf(f)) \in Nat
<1>1. Holders \subseteq Session /\ \A f \in Fingerprint : HoldersOf(f) \subseteq Session
  BY DEF Holders, HoldersOf
<1>2. IsFiniteSet(Holders) /\ \A f \in Fingerprint : IsFiniteSet(HoldersOf(f))
  BY <1>1, FS_Subset, GateAssumption
<1> QED
  BY <1>2, FS_CardinalityType

\* A step that moves no handler into or out of Holding keeps the invariant.
LEMMA StayStep ==
    ASSUME GateInv, NEW s \in Session, NEW st \in {"new", "caps", "gone"} \cup Holding,
           st \in Holding <=> stage[s] \in Holding,
           Goto(s, st), UNCHANGED <<global, perKey>>
    PROVE  GateInv'
<1> USE DEF GateInv
<1>1. GateTypeOK'
  BY DEF GateTypeOK, Goto
<1>2. Holders' = Holders
  BY DEF GateTypeOK, Goto, Holders
<1>3. \A f \in Fingerprint : HoldersOf(f)' = HoldersOf(f)
  BY <1>2 DEF HoldersOf
<1> QED
  BY <1>1, <1>2, <1>3 DEF HoldersHaveKeys, CountersExact, CountersCapped

\* A handler that takes a slot is counted, and was let in only below the caps.
LEMMA AcquireStep ==
    ASSUME GateInv, NEW s \in Session, Acquire(s)
    PROVE  GateInv'
<1> DEFINE k == FingerprintOf[s]
<1> USE DEF GateInv
<1>1. k \in Fingerprint /\ s \notin Holders
  BY GateAssumption DEF Acquire, Holders, Holding
<1>2. GateTypeOK'
  BY <1>1, GateAssumption DEF GateTypeOK, Acquire, Goto, Holding
<1>3. Holders' = Holders \cup {s}
  BY DEF GateTypeOK, Acquire, Goto, Holders, Holding
<1>4. HoldersHaveKeys'
  BY <1>1, <1>3 DEF HoldersHaveKeys
<1>5. HoldersOf(k)' = HoldersOf(k) \cup {s} /\ s \notin HoldersOf(k)
  BY <1>1, <1>3 DEF HoldersOf
<1>6. \A f \in Fingerprint \ {k} : HoldersOf(f)' = HoldersOf(f)
  BY <1>3 DEF HoldersOf
<1>7. Cardinality(Holders') = Cardinality(Holders) + 1
  BY <1>1, <1>3, HoldersFinite, FS_AddElement
<1>8. Cardinality(HoldersOf(k)') = Cardinality(HoldersOf(k)) + 1
  BY <1>1, <1>5, HoldersFinite, FS_AddElement
<1>9. CountersExact'
  BY <1>1, <1>6, <1>7, <1>8 DEF CountersExact, Acquire, GateTypeOK
<1>10. CountersCapped'
  BY <1>1, GateAssumption DEF CountersCapped, Acquire, GateTypeOK
<1> QED
  BY <1>2, <1>4, <1>9, <1>10

\* The guard of release is never needed: the entry of a holder's key is above
\* zero because it counts that holder.
LEMMA ReleaseStep ==
    ASSUME GateInv, NEW s \in Session, Release(s)
    PROVE  GateInv'
<1> DEFINE k == FingerprintOf[s]
<1> USE DEF GateInv
<1>1. s \in Holders /\ k \in Fingerprint /\ s \in HoldersOf(k)
  BY DEF Release, Holders, Holding, HoldersOf, HoldersHaveKeys
<1>2. Holders' = Holders \ {s}
  BY DEF GateTypeOK, Release, Goto, Holders, Holding
<1>3. HoldersHaveKeys'
  BY <1>2 DEF HoldersHaveKeys
<1>4. HoldersOf(k)' = HoldersOf(k) \ {s}
  BY <1>2 DEF HoldersOf
<1>5. \A f \in Fingerprint \ {k} : HoldersOf(f)' = HoldersOf(f)
  BY <1>2 DEF HoldersOf
<1>6. Cardinality(Holders') = Cardinality(Holders) - 1
  BY <1>1, <1>2, HoldersFinite, FS_RemoveElement
<1>7. Cardinality(HoldersOf(k)') = Cardinality(HoldersOf(k)) - 1
  BY <1>1, <1>4, HoldersFinite, FS_RemoveElement
<1>8. Cardinality(Holders) > 0 /\ Cardinality(HoldersOf(k)) > 0
  BY <1>1, HoldersFinite, FS_EmptySet
<1>9. global > 0 /\ perKey[k] > 0
  BY <1>1, <1>8 DEF CountersExact
<1>10. perKey' = [perKey EXCEPT ![k] = @ - 1] /\ global' = global - 1
  BY <1>9 DEF Release
<1>11. GateTypeOK'
  BY <1>1, <1>9, <1>10 DEF GateTypeOK, Release, Goto, Holding
<1>12. CountersExact'
  BY <1>1, <1>5, <1>6, <1>7, <1>10 DEF CountersExact, GateTypeOK
<1>13. CountersCapped'
  BY <1>1, <1>10, GateAssumption DEF CountersCapped, GateTypeOK
<1> QED
  BY <1>3, <1>11, <1>12, <1>13

\* Every step of the gate keeps it.
LEMMA GateInvInductive == GateInv /\ [GateNext]_gateVars => GateInv'
<1> SUFFICES ASSUME GateInv, [GateNext]_gateVars PROVE GateInv'
  OBVIOUS
<1>1. ASSUME NEW s \in Session, RateLimit(s) PROVE GateInv'
  BY <1>1, StayStep DEF RateLimit, Holding
<1>2. ASSUME NEW s \in Session, RefuseKeyless(s) \/ RefuseFull(s) PROVE GateInv'
  BY <1>2, StayStep DEF RefuseKeyless, RefuseFull, Holding
<1>3. ASSUME NEW s \in Session, RequirePTY(s) PROVE GateInv'
  BY <1>3, StayStep DEF RequirePTY, Holding
<1>4. ASSUME NEW s \in Session, Return(s) PROVE GateInv'
  BY <1>4, StayStep DEF Return, Holding
<1>5. CASE UNCHANGED gateVars
  BY <1>5 DEF gateVars, GateInv, GateTypeOK, HoldersHaveKeys, CountersExact,
              CountersCapped, Holders, HoldersOf
<1> QED
  BY <1>1, <1>2, <1>3, <1>4, <1>5, AcquireStep, ReleaseStep DEF GateNext

\* It holds at first.
LEMMA GateInvInit == GateInit => GateInv
<1> SUFFICES ASSUME GateInit PROVE GateInv
  OBVIOUS
<1>1. GateTypeOK
  BY DEF GateInit, GateTypeOK
<1>2. Holders = {} /\ \A f \in Fingerprint : HoldersOf(f) = {}
  BY DEF GateInit, Holders, HoldersOf, Holding
<1> QED
  BY <1>1, <1>2, FS_EmptySet, GateAssumption
     DEF GateInit, GateInv, HoldersHaveKeys, CountersExact, CountersCapped

\* Whatever sessions come, are refused, lack a terminal or end, the counters
\* are the handlers that hold a slot.
THEOREM CountersAreExact == GateSpec => []CountersExact
<1>1. GateInv => CountersExact
  BY DEF GateInv
<1> QED
  BY <1>1, GateInvInit, GateInvInductive, PTL DEF GateSpec

\* Never more handlers than the global cap, nor more of one key than the cap
\* per key.
THEOREM CapsAlwaysHold == GateSpec => []CapsHold
<1>1. GateInv => CapsHold
  BY HoldersFinite, GateAssumption
     DEF GateInv, CapsHold, CountersExact, CountersCapped
<1> QED
  BY <1>1, GateInvInit, GateInvInductive, PTL DEF GateSpec

\* The caps turn a session away only when one of them is used up.
THEOREM RefusalsAreJustified == GateSpec => RefusedOnlyWhenFull
<1>1. GateInv /\ [GateNext]_gateVars =>
        [\A s \in Session :
           stage[s] = "caps" /\ stage'[s] = "gone" /\ FingerprintOf[s] # NoKey =>
             \/ Cardinality(Holders) = MaxGlobal
             \/ Cardinality(HoldersOf(FingerprintOf[s])) = MaxPerKey]_gateVars
  <2> SUFFICES ASSUME GateInv, GateNext,
                      NEW s \in Session, stage[s] = "caps", stage'[s] = "gone",
                      FingerprintOf[s] # NoKey
               PROVE  \/ Cardinality(Holders) = MaxGlobal
                      \/ Cardinality(HoldersOf(FingerprintOf[s])) = MaxPerKey
    OBVIOUS
  <2>1. RefuseFull(s)
    BY DEF GateNext, RateLimit, RefuseKeyless, RefuseFull, Acquire, RequirePTY,
           Return, Release, Goto, GateInv, GateTypeOK
  <2>2. FingerprintOf[s] \in Fingerprint
    BY GateAssumption
  <2> QED
    BY <2>1, <2>2, GateAssumption
       DEF RefuseFull, GateInv, GateTypeOK, CountersExact, CountersCapped
<1> QED
  BY <1>1, GateInvInit, GateInvInductive, PTL DEF GateSpec, RefusedOnlyWhenFull

-----------------------------------------------------------------------------
(* The server.                                                             *)

\* A connection has a place at a save only between the chain and its return.
InsideInv == \A s \in Playing : stage[s] = "inside"

\* What an actor held when it ended is in its row, if its last write succeeded.
EndedInv ==
    \A a \in Session : loop[a] = "done" /\ ~dirty[a] => state[a] <= disk[KeyOf[a]]

ServerInv == RInv /\ GateInv /\ InsideInv /\ EndedInv

USE ConstantsAssumption
    DEF storeVars, managerVars, actorVars, sessionVars, shutdownVars,
        Running, Version, NoRow

-----------------------------------------------------------------------------
(* The server implements its parts.                                        *)

\* A step of the server is a step of the registry, or none of it.
LEMMA RegistrySteps == [ServerNext]_serverVars => [Next]_vars
<1>1. ASSUME NEW s \in Session, Chain(s) \/ ReturnFromSave(s)
      PROVE  UNCHANGED vars
  BY <1>1 DEF Chain, ReturnFromSave
<1>2. ASSUME NEW s \in Session, Enter(s) \/ AttachSave(s) PROVE Next
  BY <1>2 DEF Enter, AttachSave, Next, Otherwise
<1>3. CASE Background
  BY <1>3 DEF Background, Next, Otherwise
<1>4. CASE RunShutdownHooks
  BY <1>4 DEF RunShutdownHooks, Next, Otherwise
<1>5. CASE Signal \/ HooksReturned \/ Drained \/ DrainTimeout
  BY <1>5 DEF Signal, HooksReturned, Drained, DrainTimeout
<1>6. CASE UNCHANGED serverVars
  BY <1>6 DEF serverVars
<1> QED
  BY <1>1, <1>2, <1>3, <1>4, <1>5, <1>6 DEF ServerNext

\* And a step of the gate, or none of it.
LEMMA ChainSteps == [ServerNext]_serverVars => [GateNext]_gateVars
<1>1. ASSUME NEW s \in Session, Chain(s) \/ ReturnFromSave(s) PROVE GateNext
  BY <1>1 DEF Chain, ReturnFromSave, GateNext
<1>2. ASSUME NEW s \in Session, Enter(s) \/ AttachSave(s)
      PROVE  UNCHANGED gateVars
  BY <1>2 DEF Enter, AttachSave, mainVars
<1>3. CASE Background \/ RunShutdownHooks
  BY <1>3 DEF Background, RunShutdownHooks, mainVars
<1>4. CASE Signal \/ HooksReturned \/ Drained \/ DrainTimeout
  BY <1>4 DEF Signal, HooksReturned, Drained, DrainTimeout
<1>5. CASE UNCHANGED serverVars
  BY <1>5 DEF serverVars
<1> QED
  BY <1>1, <1>2, <1>3, <1>4, <1>5 DEF ServerNext

\* Behind the chain and under main, the registry is the one of SaveManager.
THEOREM ServerRunsRegistry == ServerSpec => Spec
<1>1. ServerInit => Init
  BY DEF ServerInit
<1> QED
  BY <1>1, RegistrySteps, PTL DEF ServerSpec, Spec

\* Around the game, the chain is the one of SessionGate.
THEOREM ServerRunsGate == ServerSpec => GateSpec
<1>1. ServerInit => GateInit
  BY DEF ServerInit
<1> QED
  BY <1>1, ChainSteps, PTL DEF ServerSpec, GateSpec

\* The whole server implements the ledger of saves.
THEOREM ServerKeepsLedger == ServerSpec => LedgerSpec
  BY ServerRunsRegistry, Refinement, PTL

-----------------------------------------------------------------------------
(* The invariant of the whole.                                             *)

\* A connection gets a place at a save by Enter only, and keeps its stage until
\* it has given the place up.
LEMMA InsideStep ==
    ASSUME ServerInv, [ServerNext]_serverVars
    PROVE  InsideInv'
<1> SUFFICES ASSUME NEW s \in Session, pc'[s] \notin {"new", "closed"}
             PROVE  stage'[s] = "inside"
  BY DEF InsideInv, Playing
<1> USE DEF ServerInv, RInv, IInv
<1>1. ASSUME NEW t \in Session, Chain(t) \/ ReturnFromSave(t) PROVE stage'[s] = "inside"
  <2>1. stage[s] = "inside" /\ pc[s] \notin {"new", "closed"}
    BY <1>1 DEF InsideInv, Playing, Chain, ReturnFromSave, vars
  <2>2. t # s
    BY <1>1, <2>1 DEF Chain, ReturnFromSave, RateLimit, RefuseKeyless,
        RefuseFull, Acquire, RequirePTY, Release
  <2> QED
    BY <1>1, <2>1, <2>2 DEF GateInv, GateTypeOK, Chain, ReturnFromSave,
        RateLimit, RefuseKeyless, RefuseFull, Acquire, RequirePTY, Return,
        Release, Goto
<1>2. ASSUME NEW t \in Session, Enter(t) PROVE stage'[s] = "inside"
  BY <1>2 DEF Enter, Connect, InsideInv, Playing, TypeOK, mainVars, gateVars
<1>3. ASSUME NEW t \in Session, AttachSave(t) PROVE stage'[s] = "inside"
  <2>1. pc[s] \notin {"new", "closed"}
    BY <1>3 DEF AttachSave, TypeOK, AttachClosing, AttachFails, AttachOpen,
        AttachLoad, StartActor, AttachRun, TakeSave, Intent, Leave, Quit,
        DetachLock, DetachRun, DetachAs, DetachGone, DetachStopped
  <2> QED
    BY <1>3, <2>1 DEF AttachSave, InsideInv, Playing, mainVars, gateVars
<1>4. CASE Background \/ RunShutdownHooks
  <2>1. pc' = pc
    BY <1>4 DEF Background, RunShutdownHooks, Autosave, FinalFlush,
        ShutdownKick, ShutdownLock, ShutdownStopped, ShutdownFlushed,
        ShutdownTimeout, ShutdownBegin
  <2> QED
    BY <1>4, <2>1 DEF Background, RunShutdownHooks, InsideInv, Playing,
        mainVars, gateVars
<1>5. CASE Signal \/ HooksReturned \/ Drained \/ DrainTimeout \/ UNCHANGED serverVars
  BY <1>5 DEF Signal, HooksReturned, Drained, DrainTimeout, serverVars, vars,
      gateVars, InsideInv, Playing
<1> QED
  BY <1>1, <1>2, <1>3, <1>4, <1>5 DEF ServerNext

\* A row only grows, and an actor that has ended is not touched again.
LEMMA EndedStep ==
    ASSUME ServerInv, [ServerNext]_serverVars
    PROVE  EndedInv'
<1> SUFFICES ASSUME NEW a \in Session, loop'[a] = "done", ~dirty'[a]
             PROVE  state'[a] <= disk'[KeyOf[a]]
  BY DEF EndedInv
<1> USE DEF ServerInv, RInv
<1>1. [Next]_vars /\ RInv'
  BY RegistrySteps, StepRInv
<1>2. disk[KeyOf[a]] <= disk'[KeyOf[a]]
  <2>1. \A k \in Key :
           Kept(k) \/ Created(k) \/ Mutated(k) \/ Saved(k) \/ Reloaded(k)
              => disk'[k] >= disk[k]
    BY LatestBounds DEF Kept, Created, Mutated, Saved, Reloaded
  <2> QED
    BY <1>1, <2>1, StepEffect DEF LedgerEffect, OthersKept
<1>3. CASE FinalFlush(a)
  BY <1>1, <1>3 DEF FinalFlush, Persist, PersistSave, Updated, IInv, TypeOK,
      CleanMeansSaved
<1>4. CASE ~FinalFlush(a)
  <2>1. UNCHANGED <<loop[a], dirty[a], state[a]>>
    <3>1. ASSUME NEW s \in Session, AttachSave(s)
          PROVE  UNCHANGED <<loop[a], dirty[a], state[a]>>
      <4> USE DEF IInv, TypeOK
      <4>1. CASE AttachLoad(s)
        BY <4>1 DEF AttachLoad, StartActor
      <4>2. CASE AttachRun(s)
        BY <4>2 DEF AttachRun, TakeSave, CatchUp, HandleInv, Attached
      <4>3. CASE Intent(s)
        BY <4>3 DEF Intent, HandleInv, Attached
      <4>4. CASE DetachRun(s)
        <5>1. a # actor[s] /\ loop'[a] = loop[a] /\ state'[a] = state[a]
          BY <4>4 DEF DetachRun, DetachAs
        <5>2. actor[s] \in Session
          BY <4>4 DEF DetachRun, DetachAs, HandleInv, Attached
        <5>3. dirty' \in {dirty, [dirty EXCEPT ![actor[s]] = FALSE]}
          BY <4>4 DEF DetachRun, DetachAs, Persist
        <5>4. dirty'[a] = dirty[a]
          BY <5>1, <5>2, <5>3
        <5> QED
          BY <5>1, <5>4
      <4> QED
        BY <3>1, <4>1, <4>2, <4>3, <4>4 DEF AttachSave, AttachClosing,
            AttachFails, AttachOpen, Leave, Quit, DetachLock, DetachGone,
            DetachStopped
    <3>2. CASE Background
      BY <1>4, <3>2 DEF Background, IInv, TypeOK, Autosave, FinalFlush, Persist,
          ShutdownKick, ShutdownLock, ShutdownStopped, ShutdownFlushed,
          ShutdownTimeout
    <3>3. CASE RunShutdownHooks
      BY <3>3 DEF RunShutdownHooks, ShutdownBegin
    <3>4. ASSUME NEW s \in Session, Chain(s) \/ ReturnFromSave(s) \/ Enter(s)
          PROVE  UNCHANGED <<loop[a], dirty[a], state[a]>>
      BY <3>4 DEF Chain, ReturnFromSave, Enter, Connect, vars
    <3> QED
      BY <3>1, <3>2, <3>3, <3>4 DEF ServerNext, Signal, HooksReturned, Drained,
          DrainTimeout, serverVars, vars
  <2> QED
    BY <1>1, <1>2, <2>1 DEF EndedInv, IInv, TypeOK
<1> QED
  BY <1>3, <1>4

\* The invariant of the server.
LEMMA ServerInvariant == ServerSpec => []ServerInv
<1>1. ServerInit => ServerInv
  <2> SUFFICES ASSUME ServerInit PROVE ServerInv
    OBVIOUS
  <2>1. RInv /\ GateInv
    BY InitRInv, GateInvInit DEF ServerInit
  <2>2. InsideInv /\ EndedInv
    BY DEF ServerInit, Init, InsideInv, EndedInv, Playing
  <2> QED
    BY <2>1, <2>2 DEF ServerInv
<1>2. ServerInv /\ [ServerNext]_serverVars => ServerInv'
  BY RegistrySteps, ChainSteps, StepRInv, GateInvInductive, InsideStep, EndedStep
     DEF ServerInv
<1> QED
  BY <1>1, <1>2, PTL DEF ServerSpec

\* The caps bound the connections that have a place at a save.
THEOREM PlayersAreCapped == ServerSpec => []PlayersWithinCaps
<1>1. ServerInv => PlayersWithinCaps
  <2> SUFFICES ASSUME ServerInv PROVE PlayersWithinCaps
    OBVIOUS
  <2> DEFINE P(f) == {s \in Playing : FingerprintOf[s] = f}
  <2>1. Playing \subseteq Holders /\ \A f \in Fingerprint : P(f) \subseteq HoldersOf(f)
    BY DEF ServerInv, InsideInv, Playing, Holders, HoldersOf, Holding
  <2>2. /\ Cardinality(Playing) \in Nat
        /\ Cardinality(Playing) <= Cardinality(Holders)
    <3>1. IsFiniteSet(Playing)
      BY <2>1, HoldersFinite, FS_Subset
    <3> QED
      BY <2>1, <3>1, HoldersFinite, FS_Subset, FS_CardinalityType
  <2>3. \A f \in Fingerprint : /\ Cardinality(P(f)) \in Nat
                               /\ Cardinality(P(f)) <= Cardinality(HoldersOf(f))
    <3> SUFFICES ASSUME NEW f \in Fingerprint
                 PROVE  /\ Cardinality(P(f)) \in Nat
                        /\ Cardinality(P(f)) <= Cardinality(HoldersOf(f))
      OBVIOUS
    <3>1. IsFiniteSet(HoldersOf(f)) /\ P(f) \subseteq HoldersOf(f)
      BY <2>1, HoldersFinite
    <3>2. IsFiniteSet(P(f)) /\ Cardinality(P(f)) <= Cardinality(HoldersOf(f))
      BY <3>1, FS_Subset
    <3> QED
      BY <3>2, FS_CardinalityType
  <2>4. CapsHold
    BY HoldersFinite, GateAssumption
       DEF ServerInv, GateInv, CapsHold, CountersExact, CountersCapped
  <2>5. Cardinality(Playing) <= MaxGlobal
    BY <2>2, <2>4, HoldersFinite, GateAssumption DEF CapsHold
  <2>6. ASSUME NEW f \in Fingerprint PROVE Cardinality(P(f)) <= MaxPerKey
    <3>1. /\ Cardinality(HoldersOf(f)) \in Nat
          /\ Cardinality(HoldersOf(f)) <= MaxPerKey
      BY <2>4, HoldersFinite DEF CapsHold
    <3> HIDE DEF P
    <3> QED
      BY <2>3, <3>1, GateAssumption
  <2> QED
    BY <2>5, <2>6 DEF PlayersWithinCaps
<1> QED
  BY <1>1, ServerInvariant, PTL

\* After "shutdown complete" on a flush that succeeded no actor is left, and what
\* each held is in its row or its last write failed.
THEOREM CompleteIsSaved == ServerSpec => []CompleteMeansSaved
<1>1. IInv /\ result = "flushed" =>
        /\ \A k \in Key : actors[k] = None
        /\ \A a \in Session : ~Running(a)
  <2> SUFFICES ASSUME IInv, result = "flushed"
               PROVE  /\ \A k \in Key : actors[k] = None
                      /\ \A a \in Session : ~Running(a)
    OBVIOUS
  <2>1. \A k \in Key : actors[k] = None
    BY DEF IInv, ShutdownInv
  <2> QED
    BY <2>1 DEF IInv, SingleWriter, TypeOK
<1>2. ServerInv => CompleteMeansSaved
  BY <1>1 DEF ServerInv, RInv, CompleteMeansSaved, EndedInv, IInv, TypeOK
<1> QED
  BY <1>2, ServerInvariant, PTL

=============================================================================
