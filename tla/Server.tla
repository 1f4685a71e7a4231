------------------------------- MODULE Server -------------------------------
(***************************************************************************)
(* The server as a whole: the middlewares and their caps (SessionGate), the *)
(* registry of saves behind them (SaveManager), and main, which stops first *)
(* the one and then the listener.                                          *)
(*                                                                         *)
(* attachSave is what happens to a handler that is "inside": it attaches,   *)
(* plays, and detaches when the game returns; only then does the handler    *)
(* return through the caps.                                                *)
(***************************************************************************)
EXTENDS SaveManager, SessionGate

ASSUME ServerAssumption ==
    \* A save belongs to one key, and a session without a key has none.
    \A s, t \in Session : KeyOf[s] = KeyOf[t] =>
        FingerprintOf[s] = FingerprintOf[t] \/ NoKey \in {FingerprintOf[s], FingerprintOf[t]}

VARIABLE main        \* where main is

mainVars == <<gateVars, main>>
serverVars == <<vars, gateVars, main>>

ServerTypeOK ==
    /\ TypeOK /\ GateTypeOK
    /\ main \in {"serving", "hooks", "draining", "complete", "failed"}

ServerInit == Init /\ GateInit /\ main = "serving"

-----------------------------------------------------------------------------
(* A connection.                                                            *)

\* The steps of the chain around the game.  Sessions come at any time: on new
\* connections until srv.Shutdown closes the listener, then on old ones.
Chain(s) ==
    /\ \/ RateLimit(s) \/ RefuseKeyless(s) \/ RefuseFull(s) \/ Acquire(s)
       \/ RequirePTY(s) \/ Release(s)
    /\ UNCHANGED <<vars, main>>

\* The chain lets the session through to attachSave.
Enter(s) == stage[s] = "inside" /\ Connect(s) /\ UNCHANGED mainVars

\* Fault: the handler returns without waiting for Detach.
ReturnEarly(s) ==
    /\ pc[s] \in {"leaving", "closed"}
    /\ Return(s)
    /\ UNCHANGED <<vars, main>>

\* attachSave returns, after its deferred Detach if it had attached.
ReturnFromSave(s) ==
    /\ pc[s] = "closed"
    /\ Return(s)
    /\ UNCHANGED <<vars, main>>

\* What attachSave does in between.
AttachSave(s) ==
    /\ \/ AttachClosing(s) \/ AttachFails(s) \/ AttachOpen(s) \/ AttachLoad(s)
       \/ AttachRun(s)
       \/ Intent(s) \/ Leave(s) \/ Quit(s)
       \/ DetachLock(s) \/ DetachRun(s) \/ DetachGone(s) \/ DetachStopped(s)
    /\ UNCHANGED mainVars

\* The actors, and the flush goroutine of Manager.Shutdown.
Background ==
    /\ \/ \E a \in Session : Autosave(a) \/ FinalFlush(a) \/ ShutdownKick(a)
       \/ ShutdownLock \/ ShutdownStopped \/ ShutdownFlushed \/ ShutdownTimeout
    /\ UNCHANGED mainVars

-----------------------------------------------------------------------------
(* main.                                                                   *)

\* SIGTERM, SIGINT, or a listener that failed.
Signal ==
    /\ main = "serving"
    /\ main' = "hooks"
    /\ UNCHANGED <<vars, gateVars>>

\* RunShutdownHooks calls the one hook there is.
RunShutdownHooks ==
    /\ main = "hooks"
    /\ ShutdownBegin
    /\ UNCHANGED mainVars

\* The hook has returned; an error is logged and main goes on to srv.Shutdown,
\* which closes the listener.
HooksReturned ==
    /\ main = "hooks"
    /\ result # "none"
    /\ main' = "draining"
    /\ UNCHANGED <<vars, gateVars>>

\* srv.Shutdown returns nil.  It waits for connections, not for handlers: a
\* client may have closed its connection at any moment, and the handler of a
\* closed connection runs on.
Drained ==
    /\ main = "draining"
    /\ main' = "complete"
    /\ UNCHANGED <<vars, gateVars>>

\* The context of the shutdown, which the hooks share, expires.
DrainTimeout ==
    /\ "timeout" \in Faults
    /\ main = "draining"
    /\ main' = "failed"
    /\ UNCHANGED <<vars, gateVars>>

ServerNext ==
    \/ \E s \in Session :
          Chain(s) \/ Enter(s) \/ AttachSave(s) \/ ReturnFromSave(s)
    \/ Background
    \/ Signal \/ RunShutdownHooks \/ HooksReturned \/ Drained \/ DrainTimeout

\* What the holder of mu waits for: an answer of its actor, and its end.
LockProgress ==
    \/ \E s \in Session :
          AttachRun(s) \/ DetachRun(s) \/ DetachGone(s) \/ DetachStopped(s)
    \/ \E a \in Session : FinalFlush(a)
    \/ ShutdownStopped

\* A handler that waits for mu.
HandlerLocks(s) ==
    /\ AttachClosing(s) \/ AttachOpen(s) \/ AttachLoad(s) \/ DetachLock(s)
    /\ UNCHANGED mainVars

\* A handler that waits for nobody.
HandlerGoesOn(s) ==
    \/ Enter(s)
    \/ Quit(s) /\ (UNCHANGED mainVars)
    \/ ReturnFromSave(s)
    \/ (RequirePTY(s) \/ Release(s)) /\ (UNCHANGED <<vars, main>>)

MainLocks == RunShutdownHooks \/ (ShutdownLock /\ UNCHANGED mainVars)

FlusherGoesOn ==
    /\ ShutdownFlushed \/ \E a \in Session : ShutdownKick(a)
    /\ UNCHANGED mainVars

\* main goes on when what it waits for is done, or at its deadline.
MainGoesOn ==
    \/ ShutdownTimeout /\ (UNCHANGED mainVars)
    \/ HooksReturned \/ Drained \/ DrainTimeout

\* sync.Mutex hands itself to the longest waiter once one has waited a
\* millisecond, so who keeps asking for mu gets it (SF).  An actor's select
\* picks among ready arms at random, so a request, a tick or a stop that stays
\* ready is served (WF).  The tick chain of the UI quits a session that is
\* over, and a handler goes on.  Shutdown has to lock mu before it looks at its
\* deadline; a client may keep its connection, so only the deadline ends the
\* wait for it.  Nothing makes a player connect, act or leave, the operator stop
\* the server, or the store fail.
ServerFairness ==
    /\ WF_serverVars(LockProgress /\ UNCHANGED mainVars)
    /\ \A s \in Session :
          SF_serverVars(HandlerLocks(s)) /\ WF_serverVars(HandlerGoesOn(s))
    /\ \A a \in Session : WF_serverVars(Autosave(a) /\ UNCHANGED mainVars)
    /\ SF_serverVars(MainLocks)
    /\ WF_serverVars(FlusherGoesOn)
    /\ WF_serverVars(MainGoesOn)

ServerSpec == ServerInit /\ [][ServerNext]_serverVars
FairServerSpec == ServerSpec /\ ServerFairness

-----------------------------------------------------------------------------
(* What the server promises.                                               *)

\* A session that was taken over, or told that the server closes, leaves, and
\* gives its slot back (limits.go:49).
GhostsLeave == \A s \in Session : s \in kicked ~> stage[s] = "gone"

\* The saves that the sessions of a key are of.
Saves(f) == {KeyOf[s] : s \in {t \in Session : FingerprintOf[t] = f}}

\* The caps come before the takeover (server.go:65): a player whose slots are all
\* taken is refused and takes nothing over.  With more slots than saves that does
\* not last, since two sessions of one save cannot both stay: a player who
\* reconnects is not locked out by sessions of his own.
SlotComesFree ==
    \A f \in {g \in Fingerprint :
                 Policy = "takeover" /\ Cardinality(Saves(g)) < MaxPerKey} :
        perKey[f] = MaxPerKey ~> perKey[f] < MaxPerKey

\* The caps bound what they are there for: the connections that have, or are about
\* to get, a place at a save.  A slot is not given back before Detach is done.
Playing == {s \in Session : pc[s] \notin {"new", "closed"}}

PlayersWithinCaps ==
    /\ Cardinality(Playing) <= MaxGlobal
    /\ \A f \in Fingerprint :
          Cardinality({s \in Playing : FingerprintOf[s] = f}) <= MaxPerKey

\* Nobody waits for ever, for mu, for an actor or for the flush: every Attach and
\* every Detach returns (manager.go:86, 160), the flush goroutine gets to its
\* end, and main ends after a signal, by itself or at its deadline.
NobodyWaitsForEver ==
    /\ AttachReturns
    /\ DetachReturns
    /\ ShutdownEnds
    /\ main = "hooks" ~> main \in {"complete", "failed"}

\* "shutdown complete" (main.go:87) after a flush that succeeded: every actor has
\* ended, whatever handlers of dropped connections still do, and what it held is
\* in its row unless its last write failed.
CompleteMeansSaved ==
    main = "complete" /\ result = "flushed" =>
        /\ \A k \in Key : actors[k] = None
        /\ \A a \in Session : loop[a] # "unborn" =>
              ~Running(a) /\ (dirty[a] \/ state[a] <= disk[KeyOf[a]])

=============================================================================
