---------------------------- MODULE SaveManager ----------------------------
(***************************************************************************)
(* The save registry of internal/game: Manager (manager.go), the actor that *)
(* owns one open save (actor.go) and the session handles onto it            *)
(* (session.go), over the rows of internal/store (store.go).                *)
(*                                                                         *)
(* A session id stands for one SSH connection, from the moment its handler  *)
(* reaches Attach to the return of Detach; ids are never reused.  An Attach *)
(* creates at most one actor, so an actor is named by the session whose     *)
(* Attach created it, and a handle onto an actor that has stopped stays     *)
(* distinct from the actor a later Attach starts for the same save.         *)
(*                                                                         *)
(* What a save holds is abstracted to its version: how many mutations       *)
(* (intents that succeeded, catch-ups that moved its clock) it contains.    *)
(*                                                                         *)
(* A closure that actor.do hands over runs between two iterations of the    *)
(* actor loop, so it is one step, taken only while the loop runs.           *)
(***************************************************************************)
EXTENDS Connection, Integers

CONSTANTS
    Key,         \* saves: (fingerprint, slot) pairs
    KeyOf,       \* the save each connection asks for
    None,        \* nil
    Main,        \* the shutdown goroutine, as a holder of the lock
    Policy,      \* "takeover" or "refuse" (config.SessionPolicy)
    Faults,      \* what may go wrong: a subset of FaultKind
    MaxVersion   \* bound on the mutations of one save

FaultKind == {"write", "open", "crash", "timeout"}

ASSUME ConstantsAssumption ==
    /\ KeyOf \in [Session -> Key]
    /\ None \notin Session \cup {Main}
    /\ Main \notin Session
    /\ Policy \in {"takeover", "refuse"}
    /\ Faults \subseteq FaultKind
    /\ MaxVersion \in Nat

NoRow == -1

VARIABLES
    disk,        \* version in the saves row of a key, NoRow before it exists
    mu,          \* holder of Manager.mu
    actors,      \* Manager.actors
    closing,     \* Manager.closing
    loop,        \* the goroutine of an actor
    state,       \* version of actor.state
    dirty,       \* actor.dirty
    session,     \* actor.session
    stop,        \* actor.stop is closed
    pc,          \* where the handler of a connection is
    actor,       \* Session.actor
    kicked,      \* sessions that a kick notice was delivered to
    flusher,     \* where the flush goroutine of Shutdown is
    todo,        \* actors it still has to visit
    cur,         \* the actor it is visiting
    result       \* what Shutdown returned

storeVars == <<disk>>
managerVars == <<mu, actors, closing>>
actorVars == <<loop, state, dirty, session, stop>>
sessionVars == <<pc, actor, kicked>>
shutdownVars == <<flusher, todo, cur, result>>
vars == <<disk, mu, actors, closing, loop, state, dirty, session, stop,
          pc, actor, kicked, flusher, todo, cur, result>>

Version == 0 .. MaxVersion

\* The connection's handler.  It holds mu in the states of InLock.
Stage == {"new", "connecting", "attaching", "active", "leaving",
          "detaching", "stopping", "closed"}
InLock == {"attaching", "detaching", "stopping"}

TypeOK ==
    /\ disk \in [Key -> Version \cup {NoRow}]
    /\ mu \in Session \cup {None, Main}
    /\ actors \in [Key -> Session \cup {None}]
    /\ closing \in BOOLEAN
    /\ loop \in [Session -> {"unborn", "running", "done"}]
    /\ state \in [Session -> Version]
    /\ dirty \in [Session -> BOOLEAN]
    /\ session \in [Session -> Session \cup {None}]
    /\ stop \in [Session -> BOOLEAN]
    /\ pc \in [Session -> Stage]
    /\ actor \in [Session -> Session \cup {None}]
    /\ kicked \subseteq Session
    /\ flusher \in {"off", "kick", "lock", "stopping", "end"}
    /\ todo \subseteq Session
    /\ cur \in Session \cup {None}
    /\ result \in {"none", "flushed", "timeout"}

\* NewManager over a database that has no saves yet.
Init ==
    /\ disk = [k \in Key |-> NoRow]
    /\ mu = None
    /\ actors = [k \in Key |-> None]
    /\ closing = FALSE
    /\ loop = [a \in Session |-> "unborn"]
    /\ state = [a \in Session |-> 0]
    /\ dirty = [a \in Session |-> FALSE]
    /\ session = [a \in Session |-> None]
    /\ stop = [a \in Session |-> FALSE]
    /\ pc = [s \in Session |-> "new"]
    /\ actor = [s \in Session |-> None]
    /\ kicked = {}
    /\ flusher = "off"
    /\ todo = {}
    /\ cur = None
    /\ result = "none"

-----------------------------------------------------------------------------
(* The store and the actor loop.                                           *)

\* Store.PersistSave: an UPDATE that never creates the row.  A call that
\* reports an error may still have been applied (the deadline can expire
\* after the commit).
Updated(k, v) == IF disk[k] = NoRow THEN disk ELSE [disk EXCEPT ![k] = v]

PersistSave(k, v, ok) ==
    IF ok THEN disk[k] # NoRow /\ disk' = Updated(k, v)
          ELSE ("write" \in Faults \/ disk[k] = NoRow)
               /\ disk' \in {disk, Updated(k, v)}

\* Fault: a write that fails clears the flag too.
PersistForgetsFailure(a) ==
    /\ dirty[a] => \E ok \in BOOLEAN : PersistSave(KeyOf[a], state[a], ok)
    /\ ~dirty[a] => UNCHANGED disk
    /\ dirty' = [dirty EXCEPT ![a] = FALSE]

\* actor.persist: nothing to do when clean; a failed write leaves it dirty.
Persist(a) ==
    IF ~dirty[a]
    THEN UNCHANGED <<disk, dirty>>
    ELSE \/ /\ PersistSave(KeyOf[a], state[a], TRUE)
            /\ dirty' = [dirty EXCEPT ![a] = FALSE]
         \/ /\ PersistSave(KeyOf[a], state[a], FALSE)
            /\ UNCHANGED dirty

\* Fault: the catch-up of an Attach is not marked for the next write.
CatchUpUnmarked(a) ==
    \E elapsed \in {0, 1} :
        /\ state[a] + elapsed <= MaxVersion
        /\ state' = [state EXCEPT ![a] = @ + elapsed]
        /\ UNCHANGED dirty

\* sim.Advance on the actor's state: dirty only if time has passed.
CatchUp(a) ==
    \E elapsed \in {0, 1} :
        /\ state[a] + elapsed <= MaxVersion
        /\ state' = [state EXCEPT ![a] = @ + elapsed]
        /\ dirty' = IF elapsed > 0 THEN [dirty EXCEPT ![a] = TRUE] ELSE dirty

\* Fault: a save that is being played is not written.
AutosaveIdle(a) ==
    /\ loop[a] = "running"
    /\ dirty[a]
    /\ session[a] = None
    /\ Persist(a)
    /\ UNCHANGED <<managerVars, loop, state, session, stop, sessionVars,
                   shutdownVars>>

\* The ticker arm of actor.run.
Autosave(a) ==
    /\ loop[a] = "running"
    /\ dirty[a]
    /\ Persist(a)
    /\ UNCHANGED <<managerVars, loop, state, session, stop, sessionVars,
                   shutdownVars>>

\* Fault: the actor ends without its last flush.
FinalFlushSkipped(a) ==
    /\ loop[a] = "running"
    /\ stop[a]
    /\ loop' = [loop EXCEPT ![a] = "done"]
    /\ UNCHANGED <<disk, dirty, managerVars, state, session, stop, sessionVars,
                   shutdownVars>>

\* The stop arm of actor.run: final flush, then done is closed.
FinalFlush(a) ==
    /\ loop[a] = "running"
    /\ stop[a]
    /\ Persist(a)
    /\ loop' = [loop EXCEPT ![a] = "done"]
    /\ UNCHANGED <<managerVars, state, session, stop, sessionVars,
                   shutdownVars>>

-----------------------------------------------------------------------------
(* Attach.  It holds mu from its first line to its return.                  *)

\* The connection has passed the middlewares before attachSave.
Connect(s) ==
    /\ pc[s] = "new"
    /\ pc' = [pc EXCEPT ![s] = "connecting"]
    /\ UNCHANGED <<storeVars, managerVars, actorVars, actor, kicked,
                   shutdownVars>>

\* ErrShuttingDown.
AttachClosing(s) ==
    /\ pc[s] = "connecting"
    /\ mu = None
    /\ closing
    /\ pc' = [pc EXCEPT ![s] = "closed"]
    /\ UNCHANGED <<storeVars, managerVars, actorVars, actor, kicked,
                   shutdownVars>>

\* TouchAccount, LoadOrCreateSave or DecodeState fails.  When the failure is
\* in the read that follows the INSERT the new row stays.
AttachFails(s) ==
    LET k == KeyOf[s] IN
    /\ "open" \in Faults
    /\ pc[s] = "connecting"
    /\ mu = None
    /\ ~closing
    /\ pc' = [pc EXCEPT ![s] = "closed"]
    /\ disk' \in {disk} \cup
          IF actors[k] = None /\ disk[k] = NoRow
          THEN {[disk EXCEPT ![k] = 0]} ELSE {}
    /\ UNCHANGED <<managerVars, actorVars, actor, kicked, shutdownVars>>

\* The save is open: its actor is reused.
AttachOpen(s) ==
    LET k == KeyOf[s] IN
    /\ pc[s] = "connecting"
    /\ mu = None
    /\ ~closing
    /\ actors[k] # None
    /\ mu' = s
    /\ actor' = [actor EXCEPT ![s] = actors[k]]
    /\ pc' = [pc EXCEPT ![s] = "attaching"]
    /\ UNCHANGED <<storeVars, actors, closing, actorVars, kicked,
                   shutdownVars>>

\* A loaded or fresh save of version v becomes the actor of s.
StartActor(s, v) ==
    LET k == KeyOf[s] IN
    /\ pc[s] = "connecting"
    /\ mu = None
    /\ actors[k] = None
    /\ mu' = s
    /\ disk' = [disk EXCEPT ![k] = v]
    /\ state' = [state EXCEPT ![s] = v]
    /\ loop' = [loop EXCEPT ![s] = "running"]
    /\ actors' = [actors EXCEPT ![k] = s]
    /\ actor' = [actor EXCEPT ![s] = s]
    /\ pc' = [pc EXCEPT ![s] = "attaching"]
    /\ UNCHANGED <<closing, dirty, session, stop, kicked, shutdownVars>>

StoredVersion(k) == IF disk[k] = NoRow THEN 0 ELSE disk[k]

\* Fault: a save can be opened while the manager is closing.
AttachLoadWhileClosing(s) == StartActor(s, StoredVersion(KeyOf[s]))

\* The save is not open: its row is loaded, or created, and an actor started.
AttachLoad(s) == ~closing /\ StartActor(s, StoredVersion(KeyOf[s]))

\* The session that holds an actor's save, if any, is told it is over.
KickHolder(a) == kicked' = kicked \cup ({session[a]} \ {None})

\* The session s gets the save that actor a has open.
TakeSave(s, a) ==
    /\ session' = [session EXCEPT ![a] = s]
    /\ CatchUp(a)
    /\ pc' = [pc EXCEPT ![s] = "active"]

\* Fault: the refuse policy is ignored.
AttachRunTakesOver(s) ==
    /\ pc[s] = "attaching"
    /\ mu' = None
    /\ KickHolder(actor[s])
    /\ TakeSave(s, actor[s])
    /\ UNCHANGED <<storeVars, actors, closing, loop, stop, actor, shutdownVars>>

\* The closure Attach runs on the actor, and its return.  The first case is
\* the one its comment says cannot happen.
AttachRun(s) ==
    LET a == actor[s] IN
    /\ pc[s] = "attaching"
    /\ mu' = None
    /\ IF loop[a] = "done"
       THEN /\ actors' = [actors EXCEPT ![KeyOf[s]] = None]
            /\ pc' = [pc EXCEPT ![s] = "closed"]
            /\ UNCHANGED <<state, dirty, session, kicked>>
       ELSE IF session[a] # None /\ Policy = "refuse"
       THEN /\ pc' = [pc EXCEPT ![s] = "closed"]
            /\ UNCHANGED <<actors, state, dirty, session, kicked>>
       ELSE /\ KickHolder(a)
            /\ TakeSave(s, a)
            /\ UNCHANGED actors
    /\ UNCHANGED <<storeVars, closing, loop, stop, actor, shutdownVars>>

-----------------------------------------------------------------------------
(* A session that plays and leaves.                                        *)

\* Session.Advance or an intent that mutates the save.  The closure does not
\* ask whether s is still the actor's session.
Intent(s) ==
    LET a == actor[s] IN
    /\ pc[s] = "active"
    /\ loop[a] = "running"
    /\ state[a] < MaxVersion
    /\ state' = [state EXCEPT ![a] = @ + 1]
    /\ dirty' = [dirty EXCEPT ![a] = TRUE]
    /\ UNCHANGED <<storeVars, managerVars, loop, session, stop, sessionVars,
                   shutdownVars>>

\* The player quits, or the connection drops.
Leave(s) ==
    /\ pc[s] = "active"
    /\ pc' = [pc EXCEPT ![s] = "leaving"]
    /\ UNCHANGED <<storeVars, managerVars, actorVars, actor, kicked,
                   shutdownVars>>

\* Fault: the UI does not listen for the kick notice.
QuitDeaf(s) ==
    /\ pc[s] = "active"
    /\ loop[actor[s]] = "done"
    /\ pc' = [pc EXCEPT ![s] = "leaving"]
    /\ UNCHANGED <<storeVars, managerVars, actorVars, actor, kicked,
                   shutdownVars>>

\* The UI quits by itself: after the kick notice, or at the first tick whose
\* Advance reports ErrSessionClosed.
Quit(s) ==
    /\ pc[s] = "active"
    /\ s \in kicked \/ loop[actor[s]] = "done"
    /\ pc' = [pc EXCEPT ![s] = "leaving"]
    /\ UNCHANGED <<storeVars, managerVars, actorVars, actor, kicked,
                   shutdownVars>>

DetachLock(s) ==
    /\ pc[s] = "leaving"
    /\ mu = None
    /\ mu' = s
    /\ pc' = [pc EXCEPT ![s] = "detaching"]
    /\ UNCHANGED <<storeVars, actors, closing, actorVars, actor, kicked,
                   shutdownVars>>

\* The closure of detach: the row is written, and the session is dropped if it
\* is the one that the actor runs for (idle).
DetachAs(s, idle) ==
    LET a == actor[s] IN
    /\ pc[s] = "detaching"
    /\ loop[a] = "running"
    /\ session' = IF idle THEN [session EXCEPT ![a] = None] ELSE session
    /\ Persist(a)
    /\ stop' = IF idle THEN [stop EXCEPT ![a] = TRUE] ELSE stop
    /\ pc' = [pc EXCEPT ![s] = IF idle THEN "stopping" ELSE "closed"]
    /\ UNCHANGED <<actors, closing, loop, state, actor, kicked, shutdownVars>>

Owns(s) == session[actor[s]] = s

\* Fault: any session may stop its actor.
DetachRunAny(s) == DetachAs(s, TRUE) /\ UNCHANGED mu

\* Only the owner goes on to stop the actor, and keeps mu until it has.
DetachRun(s) ==
    /\ DetachAs(s, Owns(s))
    /\ mu' = IF Owns(s) THEN mu ELSE None

\* The actor had stopped already: do returns false and nothing is released.
DetachGone(s) ==
    /\ pc[s] = "detaching"
    /\ loop[actor[s]] = "done"
    /\ mu' = None
    /\ pc' = [pc EXCEPT ![s] = "closed"]
    /\ UNCHANGED <<storeVars, actors, closing, actorVars, actor, kicked,
                   shutdownVars>>

\* Fault: the registry keeps the stopped actor.
DeregisteredKept(a) == actors

\* The tail of stopActorLocked: the registry forgets a, if a is what it holds.
Deregistered(a) ==
    IF actors[KeyOf[a]] = a THEN [actors EXCEPT ![KeyOf[a]] = None] ELSE actors

\* Fault: the actor is not waited for.
DetachStoppedEarly(s) ==
    /\ pc[s] = "stopping"
    /\ actors' = Deregistered(actor[s])
    /\ mu' = None
    /\ pc' = [pc EXCEPT ![s] = "closed"]
    /\ UNCHANGED <<storeVars, closing, actorVars, actor, kicked, shutdownVars>>

\* Fault: mu is not released.
DetachStoppedLocked(s) ==
    /\ pc[s] = "stopping"
    /\ loop[actor[s]] = "done"
    /\ actors' = Deregistered(actor[s])
    /\ pc' = [pc EXCEPT ![s] = "closed"]
    /\ UNCHANGED <<storeVars, mu, closing, actorVars, actor, kicked,
                   shutdownVars>>

DetachStopped(s) ==
    LET a == actor[s] IN
    /\ pc[s] = "stopping"
    /\ loop[a] = "done"
    /\ actors' = Deregistered(a)
    /\ mu' = None
    /\ pc' = [pc EXCEPT ![s] = "closed"]
    /\ UNCHANGED <<storeVars, closing, actorVars, actor, kicked, shutdownVars>>

-----------------------------------------------------------------------------
(* Shutdown, its flush goroutine, and the end of the process.               *)

ShutdownBegin ==
    /\ flusher = "off"
    /\ mu = None
    /\ closing' = TRUE
    /\ todo' = {actors[k] : k \in Key} \ {None}
    /\ flusher' = "kick"
    /\ UNCHANGED <<storeVars, mu, actors, actorVars, sessionVars, cur, result>>

\* The closure for one actor (skipped when the actor has stopped).  The range
\* over a Go map visits the actors in any order.
ShutdownKick(a) ==
    /\ flusher = "kick"
    /\ a \in todo
    /\ todo' = todo \ {a}
    /\ cur' = a
    /\ flusher' = "lock"
    /\ IF loop[a] = "running"
       THEN /\ KickHolder(a)
            /\ session' = [session EXCEPT ![a] = None]
       ELSE UNCHANGED <<kicked, session>>
    /\ UNCHANGED <<storeVars, managerVars, loop, state, dirty, stop, pc, actor,
                   result>>

\* m.mu.Lock and the head of stopActorLocked.
ShutdownLock ==
    /\ flusher = "lock"
    /\ mu = None
    /\ mu' = Main
    /\ stop' = [stop EXCEPT ![cur] = @ \/ loop[cur] = "running"]
    /\ flusher' = "stopping"
    /\ UNCHANGED <<storeVars, actors, closing, loop, state, dirty, session,
                   sessionVars, todo, cur, result>>

ShutdownStopped ==
    /\ flusher = "stopping"
    /\ loop[cur] = "done"
    /\ actors' = Deregistered(cur)
    /\ mu' = None
    /\ flusher' = "kick"
    /\ UNCHANGED <<storeVars, closing, actorVars, sessionVars, todo, cur,
                   result>>

ShutdownFlushed ==
    /\ flusher = "kick"
    /\ todo = {}
    /\ flusher' = "end"
    /\ result' = IF result = "none" THEN "flushed" ELSE result
    /\ UNCHANGED <<storeVars, managerVars, actorVars, sessionVars, todo, cur>>

\* ctx.Done: Shutdown returns while its goroutine goes on.
ShutdownTimeout ==
    /\ "timeout" \in Faults
    /\ flusher \notin {"off", "end"}
    /\ result = "none"
    /\ result' = "timeout"
    /\ UNCHANGED <<storeVars, managerVars, actorVars, sessionVars, flusher,
                   todo, cur>>

\* The process ends and is started again: only the rows survive, and every
\* connection it served is gone.
Restarted ==
    /\ mu' = None
    /\ actors' = [k \in Key |-> None]
    /\ closing' = FALSE
    /\ loop' = [a \in Session |->
                   IF loop[a] = "unborn" THEN "unborn" ELSE "done"]
    /\ dirty' = [a \in Session |-> FALSE]
    /\ session' = [a \in Session |-> None]
    /\ pc' = [s \in Session |-> IF pc[s] = "new" THEN "new" ELSE "closed"]
    /\ flusher' = "off"
    /\ todo' = {}
    /\ cur' = None
    /\ result' = "none"
    /\ UNCHANGED <<disk, state, stop, actor, kicked>>

\* main returns, or calls os.Exit, some time after Shutdown has returned.
Exit == result # "none" /\ Restarted

\* The process is killed.
Crash == "crash" \in Faults /\ Restarted

-----------------------------------------------------------------------------
\* Every step but the intents of players.
Otherwise ==
    \/ \E s \in Session :
          \/ Connect(s) \/ AttachClosing(s) \/ AttachFails(s)
          \/ AttachOpen(s) \/ AttachLoad(s) \/ AttachRun(s)
          \/ Leave(s) \/ Quit(s)
          \/ DetachLock(s) \/ DetachRun(s) \/ DetachGone(s) \/ DetachStopped(s)
    \/ \E a \in Session : Autosave(a) \/ FinalFlush(a) \/ ShutdownKick(a)
    \/ ShutdownBegin \/ ShutdownLock \/ ShutdownStopped \/ ShutdownFlushed
    \/ ShutdownTimeout
    \/ Exit \/ Crash

Next == Otherwise \/ \E s \in Session : Intent(s)

Spec == Init /\ [][Next]_vars

-----------------------------------------------------------------------------
(* What the registry promises.                                             *)

Running(a) == loop[a] = "running"

\* The newest version of a save: its running actor's, or else its row's.
Latest(k) ==
    IF actors[k] # None /\ loop[actors[k]] = "running"
    THEN state[actors[k]] ELSE disk[k]

\* One writer per save (actor.go:5-7): an actor whose loop runs is the one
\* registered for its save, so no two run for the same save, whatever attaches,
\* detaches, shutdowns and restarts interleave.
SingleWriter == \A a \in Session : Running(a) => actors[KeyOf[a]] = a

\* The dirty flag tells the truth: a running actor's row exists, is never ahead
\* of the actor, and equals it when the flag is off, so that persist may skip
\* the write (actor.go:84).
CleanMeansSaved ==
    \A a \in Session : Running(a) =>
        /\ disk[KeyOf[a]] # NoRow
        /\ disk[KeyOf[a]] <= state[a]
        /\ ~dirty[a] => disk[KeyOf[a]] = state[a]

\* A session that has not been told it is over really has its save: its actor
\* runs, is the registered one, and holds this session.  A stale handle's Detach
\* never takes it away (manager.go:167), nor does a Shutdown that has not
\* kicked it.
UnkickedSessionHoldsSave ==
    \A s \in Session : pc[s] = "active" /\ s \notin kicked =>
        /\ Running(actor[s])
        /\ actors[KeyOf[s]] = actor[s]
        /\ session[actor[s]] = s

\* No actor is left behind: while mu is free and the manager is not closing,
\* each registered actor runs for a session that will still detach from it.
NoActorLeftBehind ==
    \A k \in Key : actors[k] # None /\ mu = None /\ ~closing =>
        LET a == actors[k] IN
        /\ Running(a)
        /\ session[a] # None
        /\ actor[session[a]] = a
        /\ pc[session[a]] \in {"active", "leaving"}

\* The case Attach's comment says cannot happen (manager.go:144) does not: the
\* actor it is about to use runs and nobody has asked it to stop.
AttachMeetsRunningActor ==
    \A s \in Session : pc[s] = "attaching" =>
        Running(actor[s]) /\ ~stop[actor[s]]

\* When Shutdown reports success there is no open save left: nothing can change
\* between that report and the end of the process.
FlushedMeansClosed ==
    result = "flushed" =>
        /\ \A k \in Key : actors[k] = None
        /\ \A a \in Session : ~Running(a)

\* Progress is lost in two ways only: the process dies, or the final flush of
\* an actor fails.  Every other step keeps the newest version of every save.
NoOtherLoss ==
    [][\A k \in Key : Latest(k)' < Latest(k) =>
          \/ Restarted
          \/ \E a \in Session :
                KeyOf[a] = k /\ Running(a) /\ ~Running(a)' /\ dirty'[a]]_vars

\* A row never goes back to an older version, not even through an actor that
\* lives on after another one was started for its save.
RowNeverGoesBack == [][\A k \in Key : disk'[k] >= disk[k]]_vars

\* Under the refuse policy a player is interrupted by a shutdown only.
RefuseNeverInterrupts ==
    [][kicked' # kicked => closing]_vars

\* Every Attach returns: nobody waits for ever on mu or on an actor.
AttachReturns ==
    \A s \in Session : pc[s] = "connecting" ~> pc[s] \in {"active", "closed"}

\* Every Detach returns, whatever the state of the actor it finds.
DetachReturns ==
    \A s \in Session : pc[s] = "leaving" ~> pc[s] = "closed"

\* Shutdown, once begun, gets to its end while sessions go on detaching, unless
\* the process ends before.
ShutdownEnds == closing ~> flusher \in {"end", "off"}

\* What a session did reaches the database, by an autosave, by a disconnect or by
\* a shutdown, unless the process dies first: as long as writes succeed, nothing
\* stays unsaved for ever.
ProgressBecomesDurable ==
    \A k \in Key : \A v \in Version :
        Latest(k) = v ~> disk[k] >= v \/ Latest(k) < v

=============================================================================
