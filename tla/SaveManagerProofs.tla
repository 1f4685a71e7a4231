------------------------- MODULE SaveManagerProofs -------------------------
(***************************************************************************)
(* Proofs about SaveManager, for any connections, saves, policy and faults. *)
(*                                                                         *)
(* The invariant that carries them all is IInv.  It says who may hold mu,   *)
(* that a registered actor runs unless the holder of mu is stopping it,     *)
(* that an actor's session is a live handle onto it, and what a Shutdown    *)
(* has still to visit.                                                     *)
(*                                                                         *)
(* That SaveManager implements SaveLedger, and that progress is lost only    *)
(* where the code admits it, follows from LedgerStep: what a step of the     *)
(* registry does to the newest version of a save and to its row.             *)
(***************************************************************************)
EXTENDS SaveRefinement, TLAPS

Attached == {"attaching", "active", "leaving", "detaching", "stopping"}

\* mu is held by the handlers in InLock and by the flusher while it stops an
\* actor, and by nobody else.
LockInv ==
    /\ \A s \in Session : pc[s] \in InLock <=> mu = s
    /\ flusher = "stopping" <=> mu = Main

\* A handle is onto an actor of the connection's own save.
HandleInv ==
    \A s \in Session : pc[s] \in Attached =>
        /\ actor[s] \in Session
        /\ KeyOf[actor[s]] = KeyOf[s]
        /\ loop[actor[s]] # "unborn"

\* An actor that was never started is untouched, and so is the one that a
\* connection which has not attached yet may start.
UnbornInv ==
    \A a \in Session :
        /\ pc[a] \in {"new", "connecting"} => loop[a] = "unborn"
        /\ loop[a] = "unborn" => ~dirty[a] /\ ~stop[a]

\* The holder of mu is stopping a.
BeingStopped(a) ==
    \/ mu = Main /\ cur = a
    \/ \E s \in Session : pc[s] = "stopping" /\ actor[s] = a

\* Every registered actor runs, except the one that is being stopped.
RegistryInv ==
    \A k \in Key : actors[k] # None =>
        /\ KeyOf[actors[k]] = k
        /\ \/ Running(actors[k]) /\ ~stop[actors[k]]
           \/ BeingStopped(actors[k])

\* An Attach under way uses the registered actor, and none is under way once
\* the manager is closing.
AttachInv ==
    \A s \in Session : pc[s] = "attaching" =>
        actors[KeyOf[s]] = actor[s] /\ ~closing

\* An actor's session is a handle onto it that has yet to detach.
OwnerInv ==
    \A a \in Session : session[a] # None =>
        /\ Running(a)
        /\ ~stop[a]
        /\ actor[session[a]] = a
        /\ pc[session[a]] \in {"active", "leaving", "detaching"}

\* A session that was not kicked keeps its save until it has detached.
HolderInv ==
    \A s \in Session :
        pc[s] \in {"active", "leaving", "detaching"} /\ s \notin kicked =>
            actor[s] \in Session /\ session[actor[s]] = s

\* A registered actor has a session, unless its first Attach or its last
\* Detach is under way, or the manager is closing.
OccupiedInv ==
    ~closing =>
        \A k \in Key : actors[k] # None =>
            \/ session[actors[k]] # None
            \/ \E s \in Session :
                  pc[s] \in {"attaching", "stopping"} /\ actor[s] = actors[k]

\* What Shutdown has done and has still to do.
ShutdownInv ==
    /\ closing <=> flusher # "off"
    /\ flusher \in {"lock", "stopping"} =>
          cur \in Session /\ session[cur] = None
    /\ closing => \A k \in Key : actors[k] # None =>
          \/ actors[k] \in todo
          \/ flusher \in {"lock", "stopping"} /\ cur = actors[k]
    /\ flusher = "end" => todo = {}
    /\ result = "flushed" => flusher = "end"

IInv ==
    /\ TypeOK
    /\ LockInv
    /\ HandleInv
    /\ UnbornInv
    /\ SingleWriter
    /\ RegistryInv
    /\ AttachInv
    /\ OwnerInv
    /\ HolderInv
    /\ OccupiedInv
    /\ ShutdownInv
    /\ CleanMeansSaved

USE ConstantsAssumption
    DEF storeVars, managerVars, actorVars, sessionVars, shutdownVars,
        Running, Version, NoRow, Stage, InLock, Attached, BeingStopped

-----------------------------------------------------------------------------
(* Each part of IInv is kept by every step.                                *)

\* What actor.persist writes is well-typed.
LEMMA PersistType ==
    ASSUME TypeOK, NEW a \in Session, Persist(a)
    PROVE  /\ disk' \in [Key -> Version \cup {NoRow}]
           /\ dirty' \in [Session -> BOOLEAN]
<1>1. Updated(KeyOf[a], state[a]) \in [Key -> Version \cup {NoRow}]
  BY DEF TypeOK, Updated
<1>2. CASE ~dirty[a]
  BY <1>2 DEF TypeOK, Persist
<1>3. CASE dirty[a]
  <2>1. disk' \in [Key -> Version \cup {NoRow}]
    BY <1>1, <1>3 DEF TypeOK, Persist, PersistSave
  <2>2. dirty' = [dirty EXCEPT ![a] = FALSE] \/ dirty' = dirty
    BY <1>3 DEF Persist
  <2> QED
    BY <2>1, <2>2 DEF TypeOK
<1> QED
  BY <1>2, <1>3

\* What a catch-up leaves is well-typed.
LEMMA CatchUpType ==
    ASSUME TypeOK, NEW a \in Session, CatchUp(a)
    PROVE  /\ state' \in [Session -> Version]
           /\ dirty' \in [Session -> BOOLEAN]
<1>1. PICK elapsed \in {0, 1} :
         /\ state[a] + elapsed <= MaxVersion
         /\ state' = [state EXCEPT ![a] = @ + elapsed]
         /\ dirty' = IF elapsed > 0 THEN [dirty EXCEPT ![a] = TRUE] ELSE dirty
  BY DEF CatchUp
<1>2. state[a] + elapsed \in Version
  BY <1>1 DEF TypeOK
<1> QED
  BY <1>1, <1>2 DEF TypeOK

\* Every step keeps the types; the actor a handle names is a session.
LEMMA TypeStep ==
    ASSUME TypeOK, HandleInv, [Next]_vars
    PROVE  TypeOK'
<1> USE DEF TypeOK, HandleInv
<1>1. ASSUME NEW s \in Session, AttachFails(s) PROVE TypeOK'
  BY <1>1 DEF AttachFails
<1>2. ASSUME NEW s \in Session, AttachOpen(s) PROVE TypeOK'
  BY <1>2 DEF AttachOpen
<1>3. ASSUME NEW s \in Session, AttachLoad(s) PROVE TypeOK'
  BY <1>3 DEF AttachLoad, StartActor, StoredVersion
<1>4. ASSUME NEW s \in Session, AttachRun(s) PROVE TypeOK'
  BY <1>4, CatchUpType DEF AttachRun, KickHolder, TakeSave
<1>5. ASSUME NEW s \in Session, DetachLock(s) PROVE TypeOK'
  BY <1>5 DEF DetachLock
<1>6. ASSUME NEW s \in Session, DetachRun(s) PROVE TypeOK'
  BY <1>6, PersistType DEF DetachRun, DetachAs, Owns
<1>7. ASSUME NEW s \in Session, DetachGone(s) PROVE TypeOK'
  BY <1>7 DEF DetachGone
<1>8. ASSUME NEW s \in Session, DetachStopped(s) PROVE TypeOK'
  BY <1>8 DEF DetachStopped, Deregistered
<1>9. ASSUME NEW s \in Session, Intent(s) PROVE TypeOK'
  BY <1>9 DEF Intent
<1>10. ASSUME NEW a \in Session, Autosave(a) PROVE TypeOK'
  BY <1>10, PersistType DEF Autosave
<1>11. ASSUME NEW a \in Session, FinalFlush(a) PROVE TypeOK'
  BY <1>11, PersistType DEF FinalFlush
<1>12. ASSUME NEW a \in Session, ShutdownKick(a) PROVE TypeOK'
  BY <1>12 DEF ShutdownKick, KickHolder
<1>13. ASSUME ShutdownBegin PROVE TypeOK'
  BY <1>13 DEF ShutdownBegin
<1>14. ASSUME ShutdownLock PROVE TypeOK'
  BY <1>14 DEF ShutdownLock
<1>15. ASSUME ShutdownStopped PROVE TypeOK'
  BY <1>15 DEF ShutdownStopped, Deregistered
<1>16. ASSUME Restarted PROVE TypeOK'
  BY <1>16 DEF Restarted
<1>17. ASSUME NEW s \in Session,
             Connect(s) \/ AttachClosing(s) \/ Leave(s) \/ Quit(s)
      PROVE  TypeOK'
  BY <1>17
  DEF Connect, AttachClosing, Leave, Quit
<1>18. ASSUME ShutdownFlushed \/ ShutdownTimeout \/ UNCHANGED vars
      PROVE  TypeOK'
  BY <1>18 DEF ShutdownFlushed, ShutdownTimeout, vars
<1> QED
  BY <1>1, <1>2, <1>3, <1>4, <1>5, <1>6, <1>7, <1>8, <1>9, <1>10, <1>11,
     <1>12, <1>13, <1>14, <1>15, <1>16, <1>17, <1>18
  DEF Next, Otherwise, Exit, Crash

\* Every step keeps mu with the handlers that are inside its critical sections.
LEMMA LockStep ==
    ASSUME TypeOK, LockInv, [Next]_vars
    PROVE  LockInv'
<1> USE DEF TypeOK, LockInv
<1>1. ASSUME NEW s \in Session, Connect(s) PROVE LockInv'
  BY <1>1 DEF Connect
<1>2. ASSUME NEW s \in Session, AttachClosing(s) PROVE LockInv'
  BY <1>2 DEF AttachClosing
<1>3. ASSUME NEW s \in Session, AttachFails(s) PROVE LockInv'
  BY <1>3 DEF AttachFails
<1>4. ASSUME NEW s \in Session, AttachOpen(s) PROVE LockInv'
  BY <1>4 DEF AttachOpen
<1>5. ASSUME NEW s \in Session, AttachLoad(s) PROVE LockInv'
  BY <1>5 DEF AttachLoad, StartActor, StoredVersion
<1>6. ASSUME NEW s \in Session, AttachRun(s) PROVE LockInv'
  BY <1>6 DEF AttachRun, KickHolder, TakeSave, CatchUp
<1>7. ASSUME NEW s \in Session, Leave(s) PROVE LockInv'
  BY <1>7 DEF Leave
<1>8. ASSUME NEW s \in Session, Quit(s) PROVE LockInv'
  BY <1>8 DEF Quit
<1>9. ASSUME NEW s \in Session, DetachLock(s) PROVE LockInv'
  BY <1>9 DEF DetachLock
<1>10. ASSUME NEW s \in Session, DetachRun(s) PROVE LockInv'
  BY <1>10 DEF DetachRun, DetachAs, Owns, Persist, PersistSave, Updated
<1>11. ASSUME NEW s \in Session, DetachGone(s) PROVE LockInv'
  BY <1>11 DEF DetachGone
<1>12. ASSUME NEW s \in Session, DetachStopped(s) PROVE LockInv'
  BY <1>12 DEF DetachStopped, Deregistered
<1>13. ASSUME NEW a \in Session, ShutdownKick(a) PROVE LockInv'
  BY <1>13 DEF ShutdownKick, KickHolder
<1>14. ASSUME ShutdownBegin PROVE LockInv'
  BY <1>14 DEF ShutdownBegin
<1>15. ASSUME ShutdownLock PROVE LockInv'
  BY <1>15 DEF ShutdownLock
<1>16. ASSUME ShutdownStopped PROVE LockInv'
  BY <1>16 DEF ShutdownStopped, Deregistered
<1>17. ASSUME ShutdownFlushed PROVE LockInv'
  BY <1>17 DEF ShutdownFlushed
<1>18. ASSUME Restarted PROVE LockInv'
  BY <1>18 DEF Restarted
<1>19. ASSUME NEW s \in Session,
             Intent(s) \/ Autosave(s) \/ FinalFlush(s)
      PROVE  LockInv'
  BY <1>19
  DEF Intent, Autosave, Persist, PersistSave, Updated, FinalFlush
<1>20. ASSUME ShutdownTimeout \/ UNCHANGED vars
      PROVE  LockInv'
  BY <1>20 DEF ShutdownTimeout, vars
<1> QED
  BY <1>1, <1>2, <1>3, <1>4, <1>5, <1>6, <1>7, <1>8, <1>9, <1>10, <1>11,
     <1>12, <1>13, <1>14, <1>15, <1>16, <1>17, <1>18, <1>19, <1>20
  DEF Next, Otherwise, Exit, Crash

\* Every step keeps handles on actors of their own save.
LEMMA HandleStep ==
    ASSUME TypeOK, HandleInv, RegistryInv, [Next]_vars
    PROVE  HandleInv'
<1> USE DEF TypeOK, HandleInv, RegistryInv
<1>1. ASSUME NEW s \in Session, Connect(s) PROVE HandleInv'
  BY <1>1 DEF Connect
<1>2. ASSUME NEW s \in Session, AttachClosing(s) PROVE HandleInv'
  BY <1>2 DEF AttachClosing
<1>3. ASSUME NEW s \in Session, AttachFails(s) PROVE HandleInv'
  BY <1>3 DEF AttachFails
<1>4. ASSUME NEW s \in Session, AttachOpen(s) PROVE HandleInv'
  BY <1>4 DEF AttachOpen
<1>5. ASSUME NEW s \in Session, AttachLoad(s) PROVE HandleInv'
  BY <1>5 DEF AttachLoad, StartActor, StoredVersion
<1>6. ASSUME NEW s \in Session, AttachRun(s) PROVE HandleInv'
  BY <1>6 DEF AttachRun, KickHolder, TakeSave, CatchUp
<1>7. ASSUME NEW s \in Session, Leave(s) PROVE HandleInv'
  BY <1>7 DEF Leave
<1>8. ASSUME NEW s \in Session, Quit(s) PROVE HandleInv'
  BY <1>8 DEF Quit
<1>9. ASSUME NEW s \in Session, DetachLock(s) PROVE HandleInv'
  BY <1>9 DEF DetachLock
<1>10. ASSUME NEW s \in Session, DetachRun(s) PROVE HandleInv'
  BY <1>10 DEF DetachRun, DetachAs, Owns, Persist, PersistSave, Updated
<1>11. ASSUME NEW s \in Session, DetachGone(s) PROVE HandleInv'
  BY <1>11 DEF DetachGone
<1>12. ASSUME NEW s \in Session, DetachStopped(s) PROVE HandleInv'
  BY <1>12 DEF DetachStopped, Deregistered
<1>13. ASSUME NEW a \in Session, FinalFlush(a) PROVE HandleInv'
  BY <1>13 DEF FinalFlush, Persist, PersistSave, Updated
<1>14. ASSUME Restarted PROVE HandleInv'
  BY <1>14 DEF Restarted
<1>15. ASSUME NEW s \in Session,
             Intent(s) \/ Autosave(s) \/ ShutdownKick(s)
      PROVE  HandleInv'
  BY <1>15
  DEF Intent, Autosave, Persist, PersistSave, Updated, ShutdownKick, KickHolder
<1>16. ASSUME ShutdownBegin \/ ShutdownLock \/ ShutdownStopped \/
            ShutdownFlushed \/ ShutdownTimeout \/ UNCHANGED vars
      PROVE  HandleInv'
  BY <1>16 DEF ShutdownBegin, ShutdownLock, ShutdownStopped, Deregistered,
      ShutdownFlushed, ShutdownTimeout, vars
<1> QED
  BY <1>1, <1>2, <1>3, <1>4, <1>5, <1>6, <1>7, <1>8, <1>9, <1>10, <1>11,
     <1>12, <1>13, <1>14, <1>15, <1>16
  DEF Next, Otherwise, Exit, Crash

\* Every step leaves the actors that were never started alone.
LEMMA UnbornStep ==
    ASSUME TypeOK, HandleInv, UnbornInv, [Next]_vars
    PROVE  UnbornInv'
<1> USE DEF TypeOK, HandleInv, UnbornInv
<1>1. ASSUME NEW s \in Session, Connect(s) PROVE UnbornInv'
  BY <1>1 DEF Connect
<1>2. ASSUME NEW s \in Session, AttachClosing(s) PROVE UnbornInv'
  BY <1>2 DEF AttachClosing
<1>3. ASSUME NEW s \in Session, AttachFails(s) PROVE UnbornInv'
  BY <1>3 DEF AttachFails
<1>4. ASSUME NEW s \in Session, AttachOpen(s) PROVE UnbornInv'
  BY <1>4 DEF AttachOpen
<1>5. ASSUME NEW s \in Session, AttachLoad(s) PROVE UnbornInv'
  BY <1>5 DEF AttachLoad, StartActor, StoredVersion
<1>6. ASSUME NEW s \in Session, AttachRun(s) PROVE UnbornInv'
  BY <1>6 DEF AttachRun, KickHolder, TakeSave, CatchUp
<1>7. ASSUME NEW s \in Session, Leave(s) PROVE UnbornInv'
  BY <1>7 DEF Leave
<1>8. ASSUME NEW s \in Session, Quit(s) PROVE UnbornInv'
  BY <1>8 DEF Quit
<1>9. ASSUME NEW s \in Session, DetachLock(s) PROVE UnbornInv'
  BY <1>9 DEF DetachLock
<1>10. ASSUME NEW s \in Session, DetachRun(s) PROVE UnbornInv'
  BY <1>10 DEF DetachRun, DetachAs, Owns, Persist, PersistSave, Updated
<1>11. ASSUME NEW s \in Session, DetachGone(s) PROVE UnbornInv'
  BY <1>11 DEF DetachGone
<1>12. ASSUME NEW s \in Session, DetachStopped(s) PROVE UnbornInv'
  BY <1>12 DEF DetachStopped, Deregistered
<1>13. ASSUME NEW s \in Session, Intent(s) PROVE UnbornInv'
  BY <1>13 DEF Intent
<1>14. ASSUME NEW a \in Session, Autosave(a) PROVE UnbornInv'
  BY <1>14 DEF Autosave, Persist, PersistSave, Updated
<1>15. ASSUME NEW a \in Session, FinalFlush(a) PROVE UnbornInv'
  BY <1>15 DEF FinalFlush, Persist, PersistSave, Updated
<1>16. ASSUME ShutdownLock PROVE UnbornInv'
  BY <1>16 DEF ShutdownLock
<1>17. ASSUME Restarted PROVE UnbornInv'
  BY <1>17 DEF Restarted
<1>18. ASSUME NEW s \in Session,
             ShutdownKick(s)
      PROVE  UnbornInv'
  BY <1>18
  DEF ShutdownKick, KickHolder
<1>19. ASSUME ShutdownBegin \/ ShutdownStopped \/ ShutdownFlushed \/
            ShutdownTimeout \/ UNCHANGED vars
      PROVE  UnbornInv'
  BY <1>19 DEF ShutdownBegin, ShutdownStopped, Deregistered, ShutdownFlushed,
      ShutdownTimeout, vars
<1> QED
  BY <1>1, <1>2, <1>3, <1>4, <1>5, <1>6, <1>7, <1>8, <1>9, <1>10, <1>11,
     <1>12, <1>13, <1>14, <1>15, <1>16, <1>17, <1>18, <1>19
  DEF Next, Otherwise, Exit, Crash

\* A running actor stays registered: only stopped actors are forgotten.
LEMMA SingleWriterStep ==
    ASSUME TypeOK, AttachInv, SingleWriter, [Next]_vars
    PROVE  SingleWriter'
<1> USE DEF TypeOK, AttachInv, SingleWriter
<1>1. ASSUME NEW s \in Session, AttachLoad(s) PROVE SingleWriter'
  BY <1>1 DEF AttachLoad, StartActor, StoredVersion
<1>2. ASSUME NEW s \in Session, AttachRun(s) PROVE SingleWriter'
  BY <1>2 DEF AttachRun, KickHolder, TakeSave, CatchUp
<1>3. ASSUME NEW s \in Session, DetachStopped(s) PROVE SingleWriter'
  BY <1>3 DEF DetachStopped, Deregistered
<1>4. ASSUME NEW a \in Session, FinalFlush(a) PROVE SingleWriter'
  BY <1>4 DEF FinalFlush, Persist, PersistSave, Updated
<1>5. ASSUME ShutdownStopped PROVE SingleWriter'
  BY <1>5 DEF ShutdownStopped, Deregistered
<1>6. ASSUME Restarted PROVE SingleWriter'
  BY <1>6 DEF Restarted
<1>7. ASSUME NEW s \in Session,
             Connect(s) \/ AttachClosing(s) \/ AttachFails(s) \/
             AttachOpen(s) \/ Leave(s) \/ Quit(s) \/ DetachLock(s) \/
             DetachRun(s) \/ DetachGone(s) \/ Intent(s) \/ Autosave(s) \/
             ShutdownKick(s)
      PROVE  SingleWriter'
  BY <1>7
  DEF Connect, AttachClosing, AttachFails, AttachOpen, Leave, Quit,
      DetachLock, DetachRun, DetachAs, Owns, Persist, PersistSave, Updated, DetachGone,
      Intent, Autosave, ShutdownKick, KickHolder
<1>8. ASSUME ShutdownBegin \/ ShutdownLock \/ ShutdownFlushed \/
            ShutdownTimeout \/ UNCHANGED vars
      PROVE  SingleWriter'
  BY <1>8 DEF ShutdownBegin, ShutdownLock, ShutdownFlushed, ShutdownTimeout, vars
<1> QED
  BY <1>1, <1>2, <1>3, <1>4, <1>5, <1>6, <1>7, <1>8
  DEF Next, Otherwise, Exit, Crash

\* A registered actor runs on until the holder of mu stops it.
LEMMA RegistryStep ==
    ASSUME TypeOK, LockInv, UnbornInv, RegistryInv, [Next]_vars
    PROVE  RegistryInv'
<1> USE DEF TypeOK, LockInv, UnbornInv, RegistryInv
<1>1. ASSUME NEW s \in Session, Connect(s) PROVE RegistryInv'
  BY <1>1 DEF Connect
<1>2. ASSUME NEW s \in Session, AttachClosing(s) PROVE RegistryInv'
  BY <1>2 DEF AttachClosing
<1>3. ASSUME NEW s \in Session, AttachFails(s) PROVE RegistryInv'
  BY <1>3 DEF AttachFails
<1>4. ASSUME NEW s \in Session, AttachOpen(s) PROVE RegistryInv'
  BY <1>4 DEF AttachOpen
<1>5. ASSUME NEW s \in Session, AttachLoad(s) PROVE RegistryInv'
  BY <1>5 DEF AttachLoad, StartActor, StoredVersion
<1>6. ASSUME NEW s \in Session, AttachRun(s) PROVE RegistryInv'
  BY <1>6 DEF AttachRun, KickHolder, TakeSave, CatchUp
<1>7. ASSUME NEW s \in Session, Leave(s) PROVE RegistryInv'
  BY <1>7 DEF Leave
<1>8. ASSUME NEW s \in Session, Quit(s) PROVE RegistryInv'
  BY <1>8 DEF Quit
<1>9. ASSUME NEW s \in Session, DetachLock(s) PROVE RegistryInv'
  BY <1>9 DEF DetachLock
<1>10. ASSUME NEW s \in Session, DetachRun(s) PROVE RegistryInv'
  BY <1>10 DEF DetachRun, DetachAs, Owns, Persist, PersistSave, Updated
<1>11. ASSUME NEW s \in Session, DetachGone(s) PROVE RegistryInv'
  BY <1>11 DEF DetachGone
<1>12. ASSUME NEW s \in Session, DetachStopped(s) PROVE RegistryInv'
  BY <1>12 DEF DetachStopped, Deregistered
<1>13. ASSUME NEW a \in Session, FinalFlush(a) PROVE RegistryInv'
  BY <1>13 DEF FinalFlush, Persist, PersistSave, Updated
<1>14. ASSUME NEW a \in Session, ShutdownKick(a) PROVE RegistryInv'
  BY <1>14 DEF ShutdownKick, KickHolder
<1>15. ASSUME ShutdownLock PROVE RegistryInv'
  BY <1>15 DEF ShutdownLock
<1>16. ASSUME ShutdownStopped PROVE RegistryInv'
  BY <1>16 DEF ShutdownStopped, Deregistered
<1>17. ASSUME Restarted PROVE RegistryInv'
  BY <1>17 DEF Restarted
<1>18. ASSUME NEW s \in Session,
             Intent(s) \/ Autosave(s)
      PROVE  RegistryInv'
  BY <1>18
  DEF Intent, Autosave, Persist, PersistSave, Updated
<1>19. ASSUME ShutdownBegin \/ ShutdownFlushed \/ ShutdownTimeout \/
            UNCHANGED vars
      PROVE  RegistryInv'
  BY <1>19 DEF ShutdownBegin, ShutdownFlushed, ShutdownTimeout, vars
<1> QED
  BY <1>1, <1>2, <1>3, <1>4, <1>5, <1>6, <1>7, <1>8, <1>9, <1>10, <1>11,
     <1>12, <1>13, <1>14, <1>15, <1>16, <1>17, <1>18, <1>19
  DEF Next, Otherwise, Exit, Crash

\* Nobody changes the registry or closing under an Attach.
LEMMA AttachStep ==
    ASSUME TypeOK, LockInv, AttachInv, [Next]_vars
    PROVE  AttachInv'
<1> USE DEF TypeOK, LockInv, AttachInv
<1>1. ASSUME NEW s \in Session, Connect(s) PROVE AttachInv'
  BY <1>1 DEF Connect
<1>2. ASSUME NEW s \in Session, AttachClosing(s) PROVE AttachInv'
  BY <1>2 DEF AttachClosing
<1>3. ASSUME NEW s \in Session, AttachFails(s) PROVE AttachInv'
  BY <1>3 DEF AttachFails
<1>4. ASSUME NEW s \in Session, AttachOpen(s) PROVE AttachInv'
  BY <1>4 DEF AttachOpen
<1>5. ASSUME NEW s \in Session, AttachLoad(s) PROVE AttachInv'
  BY <1>5 DEF AttachLoad, StartActor, StoredVersion
<1>6. ASSUME NEW s \in Session, AttachRun(s) PROVE AttachInv'
  BY <1>6 DEF AttachRun, KickHolder, TakeSave, CatchUp
<1>7. ASSUME NEW s \in Session, Leave(s) PROVE AttachInv'
  BY <1>7 DEF Leave
<1>8. ASSUME NEW s \in Session, Quit(s) PROVE AttachInv'
  BY <1>8 DEF Quit
<1>9. ASSUME NEW s \in Session, DetachLock(s) PROVE AttachInv'
  BY <1>9 DEF DetachLock
<1>10. ASSUME NEW s \in Session, DetachRun(s) PROVE AttachInv'
  BY <1>10 DEF DetachRun, DetachAs, Owns, Persist, PersistSave, Updated
<1>11. ASSUME NEW s \in Session, DetachGone(s) PROVE AttachInv'
  BY <1>11 DEF DetachGone
<1>12. ASSUME NEW s \in Session, DetachStopped(s) PROVE AttachInv'
  BY <1>12 DEF DetachStopped, Deregistered
<1>13. ASSUME ShutdownBegin PROVE AttachInv'
  BY <1>13 DEF ShutdownBegin
<1>14. ASSUME ShutdownStopped PROVE AttachInv'
  BY <1>14 DEF ShutdownStopped, Deregistered
<1>15. ASSUME Restarted PROVE AttachInv'
  BY <1>15 DEF Restarted
<1>16. ASSUME NEW s \in Session,
             Intent(s) \/ Autosave(s) \/ FinalFlush(s) \/ ShutdownKick(s)
      PROVE  AttachInv'
  BY <1>16
  DEF Intent, Autosave, Persist, PersistSave, Updated, FinalFlush,
      ShutdownKick, KickHolder
<1>17. ASSUME ShutdownLock \/ ShutdownFlushed \/ ShutdownTimeout \/
            UNCHANGED vars
      PROVE  AttachInv'
  BY <1>17 DEF ShutdownLock, ShutdownFlushed, ShutdownTimeout, vars
<1> QED
  BY <1>1, <1>2, <1>3, <1>4, <1>5, <1>6, <1>7, <1>8, <1>9, <1>10, <1>11,
     <1>12, <1>13, <1>14, <1>15, <1>16, <1>17
  DEF Next, Otherwise, Exit, Crash

\* An actor's session cannot end, nor its actor, while it is the session.
LEMMA OwnerStep ==
    ASSUME TypeOK, LockInv, RegistryInv, AttachInv, OwnerInv, ShutdownInv, [Next]_vars
    PROVE  OwnerInv'
<1> USE DEF TypeOK, LockInv, RegistryInv, AttachInv, OwnerInv, ShutdownInv
<1>1. ASSUME NEW s \in Session, Connect(s) PROVE OwnerInv'
  BY <1>1 DEF Connect
<1>2. ASSUME NEW s \in Session, AttachClosing(s) PROVE OwnerInv'
  BY <1>2 DEF AttachClosing
<1>3. ASSUME NEW s \in Session, AttachFails(s) PROVE OwnerInv'
  BY <1>3 DEF AttachFails
<1>4. ASSUME NEW s \in Session, AttachOpen(s) PROVE OwnerInv'
  BY <1>4 DEF AttachOpen
<1>5. ASSUME NEW s \in Session, AttachLoad(s) PROVE OwnerInv'
  BY <1>5 DEF AttachLoad, StartActor, StoredVersion
<1>6. ASSUME NEW s \in Session, AttachRun(s) PROVE OwnerInv'
  BY <1>6 DEF AttachRun, KickHolder, TakeSave, CatchUp
<1>7. ASSUME NEW s \in Session, Leave(s) PROVE OwnerInv'
  BY <1>7 DEF Leave
<1>8. ASSUME NEW s \in Session, Quit(s) PROVE OwnerInv'
  BY <1>8 DEF Quit
<1>9. ASSUME NEW s \in Session, DetachLock(s) PROVE OwnerInv'
  BY <1>9 DEF DetachLock
<1>10. ASSUME NEW s \in Session, DetachRun(s) PROVE OwnerInv'
  BY <1>10 DEF DetachRun, DetachAs, Owns, Persist, PersistSave, Updated
<1>11. ASSUME NEW s \in Session, DetachGone(s) PROVE OwnerInv'
  BY <1>11 DEF DetachGone
<1>12. ASSUME NEW s \in Session, DetachStopped(s) PROVE OwnerInv'
  BY <1>12 DEF DetachStopped, Deregistered
<1>13. ASSUME NEW a \in Session, FinalFlush(a) PROVE OwnerInv'
  BY <1>13 DEF FinalFlush, Persist, PersistSave, Updated
<1>14. ASSUME NEW a \in Session, ShutdownKick(a) PROVE OwnerInv'
  BY <1>14 DEF ShutdownKick, KickHolder
<1>15. ASSUME ShutdownLock PROVE OwnerInv'
  BY <1>15 DEF ShutdownLock
<1>16. ASSUME Restarted PROVE OwnerInv'
  BY <1>16 DEF Restarted
<1>17. ASSUME NEW s \in Session,
             Intent(s) \/ Autosave(s)
      PROVE  OwnerInv'
  BY <1>17
  DEF Intent, Autosave, Persist, PersistSave, Updated
<1>18. ASSUME ShutdownBegin \/ ShutdownStopped \/ ShutdownFlushed \/
            ShutdownTimeout \/ UNCHANGED vars
      PROVE  OwnerInv'
  BY <1>18 DEF ShutdownBegin, ShutdownStopped, Deregistered, ShutdownFlushed,
      ShutdownTimeout, vars
<1> QED
  BY <1>1, <1>2, <1>3, <1>4, <1>5, <1>6, <1>7, <1>8, <1>9, <1>10, <1>11,
     <1>12, <1>13, <1>14, <1>15, <1>16, <1>17, <1>18
  DEF Next, Otherwise, Exit, Crash

\* Only a kick notice takes the save from a session that has not detached.
LEMMA HolderStep ==
    ASSUME TypeOK, HandleInv, HolderInv, [Next]_vars
    PROVE  HolderInv'
<1> USE DEF TypeOK, HandleInv, HolderInv
<1>1. ASSUME NEW s \in Session, Connect(s) PROVE HolderInv'
  BY <1>1 DEF Connect
<1>2. ASSUME NEW s \in Session, AttachClosing(s) PROVE HolderInv'
  BY <1>2 DEF AttachClosing
<1>3. ASSUME NEW s \in Session, AttachFails(s) PROVE HolderInv'
  BY <1>3 DEF AttachFails
<1>4. ASSUME NEW s \in Session, AttachOpen(s) PROVE HolderInv'
  BY <1>4 DEF AttachOpen
<1>5. ASSUME NEW s \in Session, AttachLoad(s) PROVE HolderInv'
  BY <1>5 DEF AttachLoad, StartActor, StoredVersion
<1>6. ASSUME NEW s \in Session, AttachRun(s) PROVE HolderInv'
  BY <1>6 DEF AttachRun, KickHolder, TakeSave, CatchUp
<1>7. ASSUME NEW s \in Session, Leave(s) PROVE HolderInv'
  BY <1>7 DEF Leave
<1>8. ASSUME NEW s \in Session, Quit(s) PROVE HolderInv'
  BY <1>8 DEF Quit
<1>9. ASSUME NEW s \in Session, DetachLock(s) PROVE HolderInv'
  BY <1>9 DEF DetachLock
<1>10. ASSUME NEW s \in Session, DetachRun(s) PROVE HolderInv'
  BY <1>10 DEF DetachRun, DetachAs, Owns, Persist, PersistSave, Updated
<1>11. ASSUME NEW s \in Session, DetachGone(s) PROVE HolderInv'
  BY <1>11 DEF DetachGone
<1>12. ASSUME NEW s \in Session, DetachStopped(s) PROVE HolderInv'
  BY <1>12 DEF DetachStopped, Deregistered
<1>13. ASSUME NEW a \in Session, ShutdownKick(a) PROVE HolderInv'
  BY <1>13 DEF ShutdownKick, KickHolder
<1>14. ASSUME Restarted PROVE HolderInv'
  BY <1>14 DEF Restarted
<1>15. ASSUME NEW s \in Session,
             Intent(s) \/ Autosave(s) \/ FinalFlush(s)
      PROVE  HolderInv'
  BY <1>15
  DEF Intent, Autosave, Persist, PersistSave, Updated, FinalFlush
<1>16. ASSUME ShutdownBegin \/ ShutdownLock \/ ShutdownStopped \/
            ShutdownFlushed \/ ShutdownTimeout \/ UNCHANGED vars
      PROVE  HolderInv'
  BY <1>16 DEF ShutdownBegin, ShutdownLock, ShutdownStopped, Deregistered,
      ShutdownFlushed, ShutdownTimeout, vars
<1> QED
  BY <1>1, <1>2, <1>3, <1>4, <1>5, <1>6, <1>7, <1>8, <1>9, <1>10, <1>11,
     <1>12, <1>13, <1>14, <1>15, <1>16
  DEF Next, Otherwise, Exit, Crash

\* Every actor without a session is on its way out.
LEMMA OccupiedStep ==
    ASSUME TypeOK, RegistryInv, AttachInv, OccupiedInv, ShutdownInv, [Next]_vars
    PROVE  OccupiedInv'
<1> USE DEF TypeOK, RegistryInv, AttachInv, OccupiedInv, ShutdownInv
<1>1. ASSUME NEW s \in Session, Connect(s) PROVE OccupiedInv'
  BY <1>1 DEF Connect
<1>2. ASSUME NEW s \in Session, AttachClosing(s) PROVE OccupiedInv'
  BY <1>2 DEF AttachClosing
<1>3. ASSUME NEW s \in Session, AttachFails(s) PROVE OccupiedInv'
  BY <1>3 DEF AttachFails
<1>4. ASSUME NEW s \in Session, AttachOpen(s) PROVE OccupiedInv'
  BY <1>4 DEF AttachOpen
<1>5. ASSUME NEW s \in Session, AttachLoad(s) PROVE OccupiedInv'
  BY <1>5 DEF AttachLoad, StartActor, StoredVersion
<1>6. ASSUME NEW s \in Session, AttachRun(s) PROVE OccupiedInv'
  BY <1>6 DEF AttachRun, KickHolder, TakeSave, CatchUp
<1>7. ASSUME NEW s \in Session, Leave(s) PROVE OccupiedInv'
  BY <1>7 DEF Leave
<1>8. ASSUME NEW s \in Session, Quit(s) PROVE OccupiedInv'
  BY <1>8 DEF Quit
<1>9. ASSUME NEW s \in Session, DetachLock(s) PROVE OccupiedInv'
  BY <1>9 DEF DetachLock
<1>10. ASSUME NEW s \in Session, DetachRun(s) PROVE OccupiedInv'
  BY <1>10 DEF DetachRun, DetachAs, Owns, Persist, PersistSave, Updated
<1>11. ASSUME NEW s \in Session, DetachGone(s) PROVE OccupiedInv'
  BY <1>11 DEF DetachGone
<1>12. ASSUME NEW s \in Session, DetachStopped(s) PROVE OccupiedInv'
  BY <1>12 DEF DetachStopped, Deregistered
<1>13. ASSUME NEW a \in Session, ShutdownKick(a) PROVE OccupiedInv'
  BY <1>13 DEF ShutdownKick, KickHolder
<1>14. ASSUME ShutdownBegin PROVE OccupiedInv'
  BY <1>14 DEF ShutdownBegin
<1>15. ASSUME ShutdownStopped PROVE OccupiedInv'
  BY <1>15 DEF ShutdownStopped, Deregistered
<1>16. ASSUME Restarted PROVE OccupiedInv'
  BY <1>16 DEF Restarted
<1>17. ASSUME NEW s \in Session,
             Intent(s) \/ Autosave(s) \/ FinalFlush(s)
      PROVE  OccupiedInv'
  BY <1>17
  DEF Intent, Autosave, Persist, PersistSave, Updated, FinalFlush
<1>18. ASSUME ShutdownLock \/ ShutdownFlushed \/ ShutdownTimeout \/
            UNCHANGED vars
      PROVE  OccupiedInv'
  BY <1>18 DEF ShutdownLock, ShutdownFlushed, ShutdownTimeout, vars
<1> QED
  BY <1>1, <1>2, <1>3, <1>4, <1>5, <1>6, <1>7, <1>8, <1>9, <1>10, <1>11,
     <1>12, <1>13, <1>14, <1>15, <1>16, <1>17, <1>18
  DEF Next, Otherwise, Exit, Crash

\* The flusher visits every actor that was registered when it began.
LEMMA ShutdownStep ==
    ASSUME TypeOK, RegistryInv, AttachInv, OwnerInv, ShutdownInv, [Next]_vars
    PROVE  ShutdownInv'
<1> USE DEF TypeOK, RegistryInv, AttachInv, OwnerInv, ShutdownInv
<1>1. ASSUME NEW s \in Session, AttachLoad(s) PROVE ShutdownInv'
  BY <1>1 DEF AttachLoad, StartActor, StoredVersion
<1>2. ASSUME NEW s \in Session, AttachRun(s) PROVE ShutdownInv'
  BY <1>2 DEF AttachRun, KickHolder, TakeSave, CatchUp
<1>3. ASSUME NEW s \in Session, DetachRun(s) PROVE ShutdownInv'
  BY <1>3 DEF DetachRun, DetachAs, Owns, Persist, PersistSave, Updated
<1>4. ASSUME NEW s \in Session, DetachStopped(s) PROVE ShutdownInv'
  BY <1>4 DEF DetachStopped, Deregistered
<1>5. ASSUME NEW a \in Session, ShutdownKick(a) PROVE ShutdownInv'
  BY <1>5 DEF ShutdownKick, KickHolder
<1>6. ASSUME ShutdownBegin PROVE ShutdownInv'
  BY <1>6 DEF ShutdownBegin
<1>7. ASSUME ShutdownLock PROVE ShutdownInv'
  BY <1>7 DEF ShutdownLock
<1>8. ASSUME ShutdownStopped PROVE ShutdownInv'
  BY <1>8 DEF ShutdownStopped, Deregistered
<1>9. ASSUME ShutdownFlushed PROVE ShutdownInv'
  BY <1>9 DEF ShutdownFlushed
<1>10. ASSUME ShutdownTimeout PROVE ShutdownInv'
  BY <1>10 DEF ShutdownTimeout
<1>11. ASSUME Restarted PROVE ShutdownInv'
  BY <1>11 DEF Restarted
<1>12. ASSUME NEW s \in Session,
             Connect(s) \/ AttachClosing(s) \/ AttachFails(s) \/
             AttachOpen(s) \/ Leave(s) \/ Quit(s) \/ DetachLock(s) \/
             DetachGone(s) \/ Intent(s) \/ Autosave(s) \/ FinalFlush(s)
      PROVE  ShutdownInv'
  BY <1>12
  DEF Connect, AttachClosing, AttachFails, AttachOpen, Leave, Quit,
      DetachLock, DetachGone, Intent, Autosave, Persist, PersistSave,
      Updated, FinalFlush
<1>13. ASSUME UNCHANGED vars
      PROVE  ShutdownInv'
  BY <1>13 DEF vars
<1> QED
  BY <1>1, <1>2, <1>3, <1>4, <1>5, <1>6, <1>7, <1>8, <1>9, <1>10, <1>11,
     <1>12, <1>13
  DEF Next, Otherwise, Exit, Crash

\* No step separates a clean actor from its row.
LEMMA CleanStep ==
    ASSUME TypeOK, HandleInv, SingleWriter, CleanMeansSaved, [Next]_vars
    PROVE  CleanMeansSaved'
<1> USE DEF TypeOK, HandleInv, SingleWriter, CleanMeansSaved
<1>1. ASSUME NEW s \in Session, AttachFails(s) PROVE CleanMeansSaved'
  BY <1>1 DEF AttachFails
<1>2. ASSUME NEW s \in Session, AttachLoad(s) PROVE CleanMeansSaved'
  BY <1>2 DEF AttachLoad, StartActor, StoredVersion
<1>3. ASSUME NEW s \in Session, AttachRun(s) PROVE CleanMeansSaved'
  BY <1>3 DEF AttachRun, KickHolder, TakeSave, CatchUp
<1>4. ASSUME NEW s \in Session, DetachRun(s) PROVE CleanMeansSaved'
  BY <1>4 DEF DetachRun, DetachAs, Owns, Persist, PersistSave, Updated
<1>5. ASSUME NEW s \in Session, Intent(s) PROVE CleanMeansSaved'
  BY <1>5 DEF Intent
<1>6. ASSUME NEW a \in Session, Autosave(a) PROVE CleanMeansSaved'
  BY <1>6 DEF Autosave, Persist, PersistSave, Updated
<1>7. ASSUME NEW a \in Session, FinalFlush(a) PROVE CleanMeansSaved'
  BY <1>7 DEF FinalFlush, Persist, PersistSave, Updated
<1>8. ASSUME Restarted PROVE CleanMeansSaved'
  BY <1>8 DEF Restarted
<1>9. ASSUME NEW s \in Session,
             Connect(s) \/ AttachClosing(s) \/ AttachOpen(s) \/ Leave(s) \/
             Quit(s) \/ DetachLock(s) \/ DetachGone(s) \/ DetachStopped(s) \/
             ShutdownKick(s)
      PROVE  CleanMeansSaved'
  BY <1>9
  DEF Connect, AttachClosing, AttachOpen, Leave, Quit, DetachLock,
      DetachGone, DetachStopped, Deregistered, ShutdownKick, KickHolder
<1>10. ASSUME ShutdownBegin \/ ShutdownLock \/ ShutdownStopped \/
            ShutdownFlushed \/ ShutdownTimeout \/ UNCHANGED vars
      PROVE  CleanMeansSaved'
  BY <1>10 DEF ShutdownBegin, ShutdownLock, ShutdownStopped, Deregistered,
      ShutdownFlushed, ShutdownTimeout, vars
<1> QED
  BY <1>1, <1>2, <1>3, <1>4, <1>5, <1>6, <1>7, <1>8, <1>9, <1>10
  DEF Next, Otherwise, Exit, Crash

-----------------------------------------------------------------------------
(* The inductive invariant, and what follows from it.                      *)

\* A new manager satisfies IInv.
LEMMA InitIInv == Init => IInv
<1> SUFFICES ASSUME Init PROVE IInv
  OBVIOUS
<1>1. TypeOK
  <2>1. 0 \in Version
    OBVIOUS
  <2>2. /\ disk \in [Key -> Version \cup {NoRow}]
        /\ state \in [Session -> Version]
    BY <2>1 DEF Init
  <2>3. /\ actors \in [Key -> Session \cup {None}]
        /\ session \in [Session -> Session \cup {None}]
        /\ actor \in [Session -> Session \cup {None}]
    BY DEF Init
  <2> QED
    BY <2>2, <2>3 DEF Init, TypeOK
<1>2. LockInv /\ HandleInv /\ UnbornInv /\ AttachInv
  BY DEF Init, LockInv, HandleInv, UnbornInv, AttachInv
<1>3. SingleWriter /\ CleanMeansSaved /\ RegistryInv /\ OwnerInv
  BY DEF Init, SingleWriter, CleanMeansSaved, RegistryInv, OwnerInv
<1>4. HolderInv /\ OccupiedInv /\ ShutdownInv
  BY DEF Init, HolderInv, OccupiedInv, ShutdownInv
<1> QED
  BY <1>1, <1>2, <1>3, <1>4 DEF IInv

\* Every step keeps IInv.
LEMMA StepIInv == IInv /\ [Next]_vars => IInv'
  BY TypeStep, LockStep, HandleStep, UnbornStep, SingleWriterStep,
     RegistryStep, AttachStep, OwnerStep, HolderStep, OccupiedStep,
     ShutdownStep, CleanStep
  DEF IInv

\* IInv is an invariant of the registry.
THEOREM Invariant == Spec => []IInv
  BY InitIInv, StepIInv, PTL DEF Spec

\* The state of the registry is always well-typed.
THEOREM TypeCorrect == Spec => []TypeOK
<1>1. IInv => TypeOK
  BY DEF IInv
<1> QED
  BY Invariant, <1>1, PTL

\* At most one actor runs for a save, and it is the registered one
\* (actor.go:5-7).
THEOREM OneWriter == Spec => []SingleWriter
<1>1. IInv => SingleWriter
  BY DEF IInv
<1> QED
  BY Invariant, <1>1, PTL

\* A running actor that is not dirty has its state in the database
\* (actor.go:84).
THEOREM CleanIsSaved == Spec => []CleanMeansSaved
<1>1. IInv => CleanMeansSaved
  BY DEF IInv
<1> QED
  BY Invariant, <1>1, PTL

\* A session that was not kicked has its save to itself (manager.go:167).
THEOREM UnkickedKeepsSave == Spec => []UnkickedSessionHoldsSave
<1>1. IInv => UnkickedSessionHoldsSave
  BY DEF IInv, TypeOK, UnkickedSessionHoldsSave, HolderInv, OwnerInv,
         SingleWriter, HandleInv
<1> QED
  BY Invariant, <1>1, PTL

\* Whenever mu is free, a registered actor has a session that will detach.
THEOREM NoneLeftBehind == Spec => []NoActorLeftBehind
<1>1. IInv => NoActorLeftBehind
  <2> SUFFICES ASSUME IInv, NEW k \in Key, actors[k] # None, mu = None,
                      ~closing
               PROVE  LET a == actors[k] IN
                      /\ Running(a)
                      /\ session[a] # None
                      /\ actor[session[a]] = a
                      /\ pc[session[a]] \in {"active", "leaving"}
    BY DEF NoActorLeftBehind
  <2> DEFINE a == actors[k]
  <2>1. \A s \in Session : pc[s] \notin InLock
    BY DEF IInv, TypeOK, LockInv
  <2>2. a \in Session /\ session[a] # None
    BY <2>1 DEF IInv, TypeOK, OccupiedInv
  <2>3. session[a] \in Session
    BY <2>2 DEF IInv, TypeOK
  <2> QED
    BY <2>1, <2>2, <2>3 DEF IInv, OwnerInv
<1> QED
  BY Invariant, <1>1, PTL

\* The registered actor an Attach found still runs.
LEMMA AttachingRuns == IInv => AttachMeetsRunningActor
<1> SUFFICES ASSUME IInv, NEW s \in Session, pc[s] = "attaching"
             PROVE  Running(actor[s]) /\ ~stop[actor[s]]
  BY DEF AttachMeetsRunningActor
<1>1. mu = s /\ actors[KeyOf[s]] = actor[s] /\ actor[s] \in Session
  BY DEF IInv, LockInv, AttachInv, HandleInv
<1>2. ~BeingStopped(actor[s])
  BY <1>1 DEF IInv, TypeOK, LockInv
<1>3. KeyOf[s] \in Key
  OBVIOUS
<1> QED
  BY <1>1, <1>2, <1>3 DEF IInv, RegistryInv

\* An Attach never meets a stopped actor (manager.go:144).
THEOREM AttachMeetsRunning == Spec => []AttachMeetsRunningActor
  BY Invariant, AttachingRuns, PTL

\* After a Shutdown that reports success no save is open (manager.go:193-194).
THEOREM FlushedIsClosed == Spec => []FlushedMeansClosed
<1>1. IInv => FlushedMeansClosed
  BY DEF IInv, TypeOK, FlushedMeansClosed, ShutdownInv, SingleWriter
<1> QED
  BY Invariant, <1>1, PTL

\* Under the refuse policy only a Shutdown interrupts a player: no Attach kicks.
THEOREM RefuseIsQuiet ==
    ASSUME Policy = "refuse"
    PROVE  Spec => RefuseNeverInterrupts
<1>1. ASSUME IInv, NEW s \in Session, AttachRun(s) PROVE kicked' = kicked
  BY <1>1 DEF AttachRun, KickHolder, TakeSave, IInv, TypeOK
<1>2. ASSUME IInv, NEW a \in Session, ShutdownKick(a) PROVE closing
  BY <1>2 DEF ShutdownKick, KickHolder, IInv, TypeOK, ShutdownInv
<1>3. IInv /\ [Next]_vars => (kicked' # kicked => closing)
  <2> SUFFICES ASSUME IInv, [Next]_vars, kicked' # kicked PROVE closing
    OBVIOUS
  <2>1. \/ \E s \in Session : AttachRun(s)
        \/ \E a \in Session : ShutdownKick(a)
    BY DEF Next, Otherwise, vars, Exit, Crash, Restarted, Connect,
        AttachClosing, AttachFails, AttachOpen, AttachLoad, StartActor, StoredVersion, Leave, Quit,
        DetachLock, DetachRun, DetachAs, Owns, DetachGone, DetachStopped, Intent, Autosave,
        FinalFlush, ShutdownBegin, ShutdownLock, ShutdownStopped,
        ShutdownFlushed, ShutdownTimeout
  <2> QED
    BY <1>1, <1>2, <2>1
<1> QED
  BY <1>3, Invariant, PTL DEF Spec, RefuseNeverInterrupts

-----------------------------------------------------------------------------
(* The ledger.                                                             *)

\* Shutdown reports a timeout only if timeouts happen.
TimeoutInv == result = "timeout" => "timeout" \in Faults

RInv == IInv /\ TimeoutInv

\* What a step may do to the save k ...
Kept(k) == Latest(k)' = Latest(k) /\ disk'[k] = disk[k]
Created(k) == Latest(k) = NoRow /\ Latest(k)' = 0 /\ disk'[k] = 0
Mutated(k) ==
    /\ Latest(k) \in 0 .. MaxVersion - 1
    /\ Latest(k)' = Latest(k) + 1
    /\ disk'[k] = disk[k]
Saved(k) ==
    /\ Latest(k) # NoRow
    /\ Latest(k)' = Latest(k)
    /\ disk'[k] = Latest(k)
Reloaded(k) == Latest(k)' = disk[k] /\ disk'[k] = disk[k]

\* ... and to the others.
OthersKept(k) == \A j \in Key \ {k} : Kept(j)

\* The final flush of an actor of k failed.
FlushFailed(k) ==
    \E a \in Session :
        KeyOf[a] = k /\ Running(a) /\ ~Running(a)' /\ dirty'[a]

LedgerEffect ==
    \/ \A k \in Key : Kept(k)
    \/ \E k \in Key :
          /\ OthersKept(k)
          /\ \/ Created(k)
             \/ Mutated(k)
             \/ Saved(k)
             \/ Reloaded(k) /\ FlushFailed(k) /\ "write" \in Faults
    \/ /\ Restarted
       /\ \A k \in Key : Reloaded(k)
       /\ MayLose \/ \A k \in Key : Kept(k)

USE
    DEF storeVars, managerVars, actorVars, sessionVars, shutdownVars,
        Running, Version, NoRow, Stage, InLock, Attached

-----------------------------------------------------------------------------
\* A row is never ahead of the newest version of its save.
LEMMA LatestBounds ==
    ASSUME IInv
    PROVE  \A k \in Key :
              /\ Latest(k) \in Version \cup {NoRow}
              /\ disk[k] \in Version \cup {NoRow}
              /\ disk[k] <= Latest(k)
  BY DEF IInv, TypeOK, RegistryInv, CleanMeansSaved, Latest

\* A running actor has the newest version of its save.
LEMMA RunningHasLatest ==
    ASSUME IInv, NEW a \in Session, Running(a)
    PROVE  /\ actors[KeyOf[a]] = a
           /\ Latest(KeyOf[a]) = state[a]
           /\ state[a] \in Version
           /\ disk[KeyOf[a]] \in Version
           /\ ~dirty[a] => disk[KeyOf[a]] = state[a]
           /\ KeyOf[a] \in Key
           /\ \A k \in Key : actors[k] = a => k = KeyOf[a]
  BY DEF IInv, TypeOK, SingleWriter, RegistryInv, CleanMeansSaved, Latest

\* A write of an actor's state, successful, failed or failed after all.
LEMMA PersistEffect ==
    ASSUME IInv, NEW a \in Session, Running(a), Persist(a)
    PROVE  /\ \A j \in Key \ {KeyOf[a]} : disk'[j] = disk[j]
           /\ \/ disk'[KeyOf[a]] = state[a]
              \/ disk'[KeyOf[a]] = disk[KeyOf[a]] /\ dirty'[a] /\ "write" \in Faults
<1>1. CASE ~dirty[a]
  BY <1>1, RunningHasLatest DEF Persist
<1>2. CASE dirty[a]
  <2>1. \/ disk' = Updated(KeyOf[a], state[a])
        \/ disk' = disk /\ dirty'[a] /\ "write" \in Faults
    BY <1>2, RunningHasLatest DEF Persist, PersistSave
  <2> QED
    BY <2>1, RunningHasLatest DEF IInv, TypeOK, Updated
<1> QED
  BY <1>1, <1>2

\* Persisting a running actor saves its newest version, or fails to.
LEMMA PersistKeeps ==
    ASSUME IInv, NEW a \in Session, Running(a), Persist(a),
           UNCHANGED <<actors, loop, state>>
    PROVE  LedgerEffect
<1> DEFINE k == KeyOf[a]
<1>1. OthersKept(k)
  BY PersistEffect, RunningHasLatest DEF OthersKept, Kept, Latest
<1>2. Latest(k)' = Latest(k) /\ Latest(k) = state[a] /\ state[a] # NoRow
  BY RunningHasLatest DEF Latest
<1>3. CASE disk'[k] = state[a]
  BY <1>1, <1>2, <1>3, RunningHasLatest DEF LedgerEffect, Saved
<1>4. CASE disk'[k] = disk[k]
  <2>1. Kept(k)
    BY <1>2, <1>4 DEF Kept
  <2> QED
    BY <1>1, <2>1 DEF OthersKept, LedgerEffect
<1> QED
  BY <1>3, <1>4, PersistEffect

\* A step that leaves the rows, the registry, the loops and the states alone
\* changes nothing in the ledger.
LEMMA QuietEffect ==
    ASSUME UNCHANGED <<disk, actors, loop, state>>
    PROVE  LedgerEffect
  BY DEF LedgerEffect, Kept, Latest

\* Forgetting an actor that has stopped changes nothing in the ledger.
LEMMA ForgetEffect ==
    ASSUME TypeOK, NEW a \in Session, loop[a] = "done",
           actors' = Deregistered(a), UNCHANGED <<disk, loop, state>>
    PROVE  LedgerEffect
  BY DEF TypeOK, Deregistered, LedgerEffect, Kept, Latest

\* An attach that fails after it has stored a new save has created it.
LEMMA AttachFailsEffect ==
    ASSUME IInv, NEW s \in Session, AttachFails(s)
    PROVE  LedgerEffect
<1> DEFINE k == KeyOf[s]
<1>1. CASE disk' = disk
  BY <1>1, QuietEffect DEF AttachFails
<1>2. CASE disk' # disk
  <2>1. actors[k] = None /\ disk[k] = NoRow /\ disk' = [disk EXCEPT ![k] = 0]
    BY <1>2 DEF AttachFails
  <2>2. Created(k) /\ OthersKept(k)
    BY <2>1 DEF AttachFails, IInv, TypeOK, Created, OthersKept, Kept, Latest
  <2> QED
    BY <2>2 DEF LedgerEffect
<1> QED
  BY <1>1, <1>2

\* An attach that loads a save has created it, or has what is stored.
LEMMA AttachLoadEffect ==
    ASSUME IInv, NEW s \in Session, AttachLoad(s)
    PROVE  LedgerEffect
<1> DEFINE k == KeyOf[s]
<1>1. Latest(k) = disk[k] /\ Latest(k)' = disk'[k]
  BY DEF AttachLoad, StartActor, StoredVersion, IInv, TypeOK, Latest
<1>2. OthersKept(k)
  <2> SUFFICES ASSUME NEW j \in Key \ {k} PROVE Kept(j)
    BY DEF OthersKept
  <2>1. actors[j] # s
    BY DEF IInv, RegistryInv
  <2> QED
    BY <2>1 DEF AttachLoad, StartActor, StoredVersion, IInv, TypeOK, Kept, Latest
<1>3. CASE disk[k] = NoRow
  BY <1>1, <1>2, <1>3 DEF AttachLoad, StartActor, StoredVersion, IInv, TypeOK, Created, LedgerEffect
<1>4. CASE disk[k] # NoRow
  <2>1. Kept(k)
    BY <1>1, <1>4 DEF AttachLoad, StartActor, StoredVersion, IInv, TypeOK, Kept
  <2> QED
    BY <1>2, <2>1 DEF OthersKept, LedgerEffect
<1> QED
  BY <1>3, <1>4

\* A running actor's state grows by one: the newest version does.
LEMMA GrowEffect ==
    ASSUME IInv, NEW a \in Session, Running(a), state[a] < MaxVersion,
           state' = [state EXCEPT ![a] = @ + 1],
           UNCHANGED <<disk, actors, loop>>
    PROVE  LedgerEffect
<1> DEFINE k == KeyOf[a]
<1>1. Mutated(k)
  BY RunningHasLatest DEF IInv, TypeOK, Mutated, Latest
<1>2. OthersKept(k)
  BY RunningHasLatest DEF IInv, TypeOK, OthersKept, Kept, Latest
<1> QED
  BY <1>1, <1>2, RunningHasLatest DEF LedgerEffect

\* An attach to a running actor catches its save up, or waits.
LEMMA AttachRunEffect ==
    ASSUME IInv, NEW s \in Session, AttachRun(s)
    PROVE  LedgerEffect
<1> DEFINE a == actor[s]
<1>1. a \in Session /\ Running(a)
  BY AttachingRuns DEF IInv, HandleInv, AttachRun, KickHolder, TakeSave, AttachMeetsRunningActor
<1>2. CASE CatchUp(a) /\ UNCHANGED actors
  <2>1. PICK elapsed \in {0, 1} :
           /\ state[a] + elapsed <= MaxVersion
           /\ state' = [state EXCEPT ![a] = @ + elapsed]
    BY <1>2 DEF CatchUp
  <2>2. CASE elapsed = 0
    BY <1>1, <1>2, <2>1, <2>2, QuietEffect DEF AttachRun, KickHolder, TakeSave, IInv, TypeOK
  <2>3. CASE elapsed = 1
    <3>1. state[a] < MaxVersion /\ state' = [state EXCEPT ![a] = @ + 1]
      BY <1>1, <2>1, <2>3 DEF IInv, TypeOK
    <3> QED
      BY <1>1, <1>2, <3>1, GrowEffect DEF AttachRun, KickHolder, TakeSave
  <2> QED
    BY <2>2, <2>3
<1>3. CASE UNCHANGED <<actors, state>>
  BY <1>3, QuietEffect DEF AttachRun, KickHolder, TakeSave
<1> QED
  BY <1>1, <1>2, <1>3 DEF AttachRun, KickHolder, TakeSave

\* The save of a detach may fail; the newest version is with the actor all the same.
LEMMA DetachRunEffect ==
    ASSUME IInv, NEW s \in Session, DetachRun(s)
    PROVE  LedgerEffect
<1>1. actor[s] \in Session
  BY DEF IInv, HandleInv, DetachRun, DetachAs, Owns
<1> QED
  BY <1>1, PersistKeeps DEF DetachRun, DetachAs, Owns

\* The last save of an actor stores the newest version, or loses it to a failed write.
LEMMA FinalFlushEffect ==
    ASSUME IInv, NEW a \in Session, FinalFlush(a)
    PROVE  LedgerEffect
<1> DEFINE k == KeyOf[a]
<1>1. Running(a) /\ ~Running(a)' /\ Latest(k)' = disk'[k]
  BY RunningHasLatest DEF FinalFlush, IInv, TypeOK, Latest
<1>2. OthersKept(k)
  <2> SUFFICES ASSUME NEW j \in Key \ {k} PROVE Kept(j)
    BY DEF OthersKept
  <2>1. actors[j] # a /\ disk'[j] = disk[j]
    BY <1>1, PersistEffect, RunningHasLatest DEF FinalFlush
  <2> QED
    BY <2>1 DEF FinalFlush, IInv, TypeOK, Kept, Latest
<1>3. CASE disk'[k] = state[a]
  BY <1>1, <1>2, <1>3, RunningHasLatest DEF LedgerEffect, Saved
<1>4. CASE disk'[k] = disk[k] /\ dirty'[a] /\ "write" \in Faults
  BY <1>1, <1>2, <1>4, RunningHasLatest
  DEF LedgerEffect, Reloaded, FlushFailed
<1> QED
  BY <1>1, <1>3, <1>4, PersistEffect DEF FinalFlush

\* A restart loses only what a crash, or a shutdown cut short, may lose.
LEMMA RestartEffect ==
    ASSUME RInv, Exit \/ Crash
    PROVE  LedgerEffect
<1>1. Restarted
  BY DEF Exit, Crash
<1>2. \A k \in Key : Reloaded(k)
  BY <1>1 DEF Restarted, Reloaded, Latest
<1>3. MayLose \/ \A k \in Key : Kept(k)
  <2>1. CASE Crash \/ result = "timeout"
    BY <2>1 DEF RInv, TimeoutInv, Crash, MayLose
  <2>2. CASE result = "flushed"
    <3>1. \A k \in Key : actors[k] = None
      BY <2>2 DEF RInv, IInv, TypeOK, ShutdownInv
    <3> QED
      BY <1>1, <1>2, <3>1 DEF Restarted, Reloaded, Kept, Latest
  <2> QED
    BY <2>1, <2>2 DEF RInv, IInv, TypeOK, Exit
<1> QED
  BY <1>1, <1>2, <1>3 DEF LedgerEffect

\* What any step does to the saves.
LEMMA StepEffect ==
    ASSUME RInv, [Next]_vars
    PROVE  LedgerEffect
<1> USE DEF RInv
<1>1. ASSUME NEW s \in Session,
             Connect(s) \/ AttachClosing(s) \/ AttachOpen(s) \/ Leave(s) \/
             Quit(s) \/ DetachLock(s) \/ DetachGone(s) \/ ShutdownKick(s)
      PROVE  LedgerEffect
  BY <1>1, QuietEffect DEF Connect, AttachClosing, AttachOpen, Leave, Quit,
      DetachLock, DetachGone, ShutdownKick, KickHolder
<1>2. ASSUME ShutdownBegin \/ ShutdownLock \/ ShutdownFlushed \/
             ShutdownTimeout \/ UNCHANGED vars
      PROVE  LedgerEffect
  BY <1>2, QuietEffect DEF ShutdownBegin, ShutdownLock, ShutdownFlushed,
      ShutdownTimeout, vars
<1>3. ASSUME NEW s \in Session, DetachStopped(s) PROVE LedgerEffect
  BY <1>3, ForgetEffect DEF DetachStopped, IInv, HandleInv
<1>4. ASSUME ShutdownStopped PROVE LedgerEffect
  BY <1>4, ForgetEffect DEF ShutdownStopped, IInv, ShutdownInv
<1>5. ASSUME NEW s \in Session, Intent(s) PROVE LedgerEffect
  BY <1>5, GrowEffect DEF Intent, IInv, HandleInv
<1>6. ASSUME NEW a \in Session, Autosave(a) PROVE LedgerEffect
  BY <1>6, PersistKeeps DEF Autosave
<1> QED
  BY <1>1, <1>2, <1>3, <1>4, <1>5, <1>6, AttachFailsEffect, AttachLoadEffect,
     AttachRunEffect, DetachRunEffect, FinalFlushEffect, RestartEffect
  DEF Next, Otherwise

\* It holds at first,
LEMMA InitRInv == Init => RInv
  BY InitIInv DEF RInv, TimeoutInv, Init

\* every step keeps it,
LEMMA StepRInv == RInv /\ [Next]_vars => RInv'
<1> SUFFICES ASSUME RInv, [Next]_vars PROVE RInv'
  OBVIOUS
<1>1. TimeoutInv'
  <2>1. CASE result' = result
    BY <2>1 DEF RInv, TimeoutInv
  <2>2. CASE result' # result
    <3>1. ShutdownFlushed \/ ShutdownTimeout \/ Restarted
      BY <2>2 DEF Next, Otherwise, vars, Exit, Crash, Connect, AttachClosing,
          AttachFails, AttachOpen, AttachLoad, StartActor, StoredVersion, AttachRun, KickHolder, TakeSave, Leave, Quit,
          DetachLock, DetachRun, DetachAs, Owns, DetachGone, DetachStopped, Intent, Autosave,
          FinalFlush, ShutdownKick, KickHolder, ShutdownBegin, ShutdownLock,
          ShutdownStopped
    <3> QED
      BY <3>1 DEF RInv, TimeoutInv, ShutdownFlushed, ShutdownTimeout, Restarted
  <2> QED
    BY <2>1, <2>2
<1> QED
  BY <1>1, StepIInv DEF RInv

\* and so it always holds.
LEMMA RInvariant == Spec => []RInv
  BY InitRInv, StepRInv, PTL DEF Spec

-----------------------------------------------------------------------------
\* Progress is lost only when the process dies or a final flush fails
\* (actor.go:74-76): not by any interleaving of attaches, detaches, shutdowns.
THEOREM OnlyAdmittedLosses == Spec => NoOtherLoss
<1> DEFINE A == \A k \in Key : Latest(k)' < Latest(k) =>
                   \/ Restarted
                   \/ \E a \in Session :
                        KeyOf[a] = k /\ Running(a) /\ ~Running(a)' /\ dirty'[a]
<1>1. RInv /\ [Next]_vars => A
  <2> SUFFICES ASSUME RInv, LedgerEffect PROVE A
    BY StepEffect
  <2>1. \A k \in Key : Kept(k) \/ Created(k) \/ Mutated(k) \/ Saved(k)
                       => ~(Latest(k)' < Latest(k))
    BY LatestBounds DEF RInv, Kept, Created, Mutated, Saved
  <2> QED
    BY <2>1 DEF LedgerEffect, OthersKept, FlushFailed
<1>2. Spec => [][A]_vars
  BY <1>1, RInvariant, PTL DEF Spec
<1> QED
  BY <1>2 DEF NoOtherLoss

\* A row never goes back to an older version.
THEOREM RowsOnlyGrow == Spec => RowNeverGoesBack
<1> DEFINE A == \A k \in Key : disk'[k] >= disk[k]
<1>1. RInv /\ [Next]_vars => A
  <2> SUFFICES ASSUME RInv, LedgerEffect PROVE A
    BY StepEffect
  <2>1. \A k \in Key :
           Kept(k) \/ Created(k) \/ Mutated(k) \/ Saved(k) \/ Reloaded(k)
              => disk'[k] >= disk[k]
    BY LatestBounds DEF RInv, Kept, Created, Mutated, Saved, Reloaded
  <2> QED
    BY <2>1 DEF LedgerEffect, OthersKept
<1>2. Spec => [][A]_vars
  BY <1>1, RInvariant, PTL DEF Spec
<1> QED
  BY <1>2 DEF RowNeverGoesBack

\* The registry and its rows implement the ledger.
THEOREM Refinement == Spec => LedgerSpec
<1>1. Init => Ledger!Init
  BY DEF Init, Ledger!Init, latest, Latest, Ledger!NoRow
<1>2. RInv /\ [Next]_vars => [Ledger!Next]_Ledger!vars
  <2> SUFFICES ASSUME RInv, RInv', LedgerEffect
               PROVE  [Ledger!Next]_Ledger!vars
    BY StepEffect, StepRInv
  <2> USE DEF Ledger!NoRow, latest
  <2>1. /\ disk = [k \in Key |-> disk[k]]
        /\ disk' = [k \in Key |-> disk'[k]]
    BY DEF RInv, IInv, TypeOK
  <2>2. CASE \A k \in Key : Kept(k)
    BY <2>1, <2>2 DEF Kept, Ledger!vars
  <2>3. ASSUME NEW k \in Key, OthersKept(k), Created(k) PROVE Ledger!Create(k)
    BY <2>1, <2>3 DEF OthersKept, Kept, Created, Ledger!Create
  <2>4. ASSUME NEW k \in Key, OthersKept(k), Mutated(k) PROVE Ledger!Mutate(k)
    BY <2>1, <2>4 DEF OthersKept, Kept, Mutated, Ledger!Mutate
  <2>5. ASSUME NEW k \in Key, OthersKept(k), Saved(k) PROVE Ledger!Save(k)
    BY <2>1, <2>5 DEF OthersKept, Kept, Saved, Ledger!Save
  <2>6. ASSUME NEW k \in Key, OthersKept(k), Reloaded(k), "write" \in Faults
        PROVE  Ledger!Lose({k})
    BY <2>1, <2>6 DEF OthersKept, Kept, Reloaded, MayLose, Ledger!Lose
  <2>7. CASE MayLose /\ \A k \in Key : Reloaded(k)
    <3>1. Ledger!Lose(Key)
      BY <2>1, <2>7 DEF Reloaded, Ledger!Lose
    <3> QED
      BY <3>1 DEF Ledger!Next
  <2> QED
    BY <2>2, <2>3, <2>4, <2>5, <2>6, <2>7 DEF LedgerEffect, Ledger!Next
<1> QED
  BY <1>1, <1>2, RInvariant, PTL DEF Spec, LedgerSpec, Ledger!Spec

=============================================================================
