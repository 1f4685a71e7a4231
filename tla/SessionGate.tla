---------------------------- MODULE SessionGate ----------------------------
(***************************************************************************)
(* The chain of middlewares in front of the game (internal/server): the     *)
(* rate limiter, the session caps (limits.go) and the PTY requirement       *)
(* (pty.go).  Each SSH session runs its handler in a goroutine of its own;  *)
(* acquire and release are atomic under SessionLimits.mu.                   *)
(*                                                                         *)
(* What lies behind the chain, attachSave and the game, is the stage        *)
(* "inside": SaveManager and GameUI model them.                            *)
(***************************************************************************)
EXTENDS Connection, Integers, FiniteSets

CONSTANTS
    Fingerprint,     \* fingerprints of public keys
    FingerprintOf,   \* the key each session authenticated with, or NoKey
    NoKey,           \* a session without a public key
    MaxGlobal,       \* config.MaxConnections
    MaxPerKey        \* config.MaxSessionsPerKey

ASSUME GateAssumption ==
    /\ IsFiniteSet(Session)
    /\ NoKey \notin Fingerprint
    /\ FingerprintOf \in [Session -> Fingerprint \cup {NoKey}]
    /\ MaxGlobal \in Nat \ {0}
    /\ MaxPerKey \in Nat \ {0}

VARIABLES
    stage,           \* where the handler of a session is
    global,          \* SessionLimits.global
    perKey           \* SessionLimits.perKey; a missing entry is 0

gateVars == <<stage, global, perKey>>

\* The stages in which a handler has acquired and not yet released.
Holding == {"pty", "inside", "releasing"}

GateTypeOK ==
    /\ stage \in [Session -> {"new", "caps", "gone"} \cup Holding]
    /\ global \in Nat
    /\ perKey \in [Fingerprint -> Nat]

\* NewSessionLimits.
GateInit ==
    /\ stage = [s \in Session |-> "new"]
    /\ global = 0
    /\ perKey = [f \in Fingerprint |-> 0]

Goto(s, st) == stage' = [stage EXCEPT ![s] = st]

-----------------------------------------------------------------------------
\* The rate limiter of wish lets the session through, or drops it.
RateLimit(s) ==
    /\ stage[s] = "new"
    /\ \E st \in {"caps", "gone"} : Goto(s, st)
    /\ UNCHANGED <<global, perKey>>

\* The caps middleware refuses a session without a key.
RefuseKeyless(s) ==
    /\ stage[s] = "caps"
    /\ FingerprintOf[s] = NoKey
    /\ Goto(s, "gone")
    /\ UNCHANGED <<global, perKey>>

\* SessionLimits.acquire returns false.
RefuseFull(s) ==
    LET f == FingerprintOf[s] IN
    /\ stage[s] = "caps"
    /\ f # NoKey
    /\ global >= MaxGlobal \/ perKey[f] >= MaxPerKey
    /\ Goto(s, "gone")
    /\ UNCHANGED <<global, perKey>>

\* SessionLimits.acquire returns true.
Acquire(s) ==
    LET f == FingerprintOf[s] IN
    /\ stage[s] = "caps"
    /\ f # NoKey
    /\ global < MaxGlobal
    /\ perKey[f] < MaxPerKey
    /\ global' = global + 1
    /\ perKey' = [perKey EXCEPT ![f] = @ + 1]
    /\ Goto(s, "pty")

\* Fault: a session without a terminal returns without releasing.
RequirePTYLeaks(s) ==
    /\ stage[s] = "pty"
    /\ \E st \in {"inside", "gone"} : Goto(s, st)
    /\ UNCHANGED <<global, perKey>>

\* RequirePTY returns at once for a session that has no terminal.
RequirePTY(s) ==
    /\ stage[s] = "pty"
    /\ \E st \in {"inside", "releasing"} : Goto(s, st)
    /\ UNCHANGED <<global, perKey>>

\* What is behind the chain returns.
Return(s) ==
    /\ stage[s] = "inside"
    /\ Goto(s, "releasing")
    /\ UNCHANGED <<global, perKey>>

\* Fault: the entry of the key is forgotten.
ReleaseForgetsKey(s) ==
    /\ stage[s] = "releasing"
    /\ global' = global - 1
    /\ Goto(s, "gone")
    /\ UNCHANGED perKey

\* The deferred SessionLimits.release, which guards the entry of the key
\* against going below zero.
Release(s) ==
    LET f == FingerprintOf[s] IN
    /\ stage[s] = "releasing"
    /\ global' = global - 1
    /\ perKey' = IF perKey[f] > 0 THEN [perKey EXCEPT ![f] = @ - 1] ELSE perKey
    /\ Goto(s, "gone")

GateNext ==
    \E s \in Session :
        \/ RateLimit(s) \/ RefuseKeyless(s) \/ RefuseFull(s) \/ Acquire(s)
        \/ RequirePTY(s) \/ Return(s) \/ Release(s)

GateSpec == GateInit /\ [][GateNext]_gateVars

-----------------------------------------------------------------------------
Holders == {s \in Session : stage[s] \in Holding}
HoldersOf(f) == {s \in Holders : FingerprintOf[s] = f}

\* The counters are the handlers they count, on every path out of the chain:
\* nothing leaks a slot, and nothing gives one back twice (limits.go:49).
CountersExact ==
    /\ global = Cardinality(Holders)
    /\ \A f \in Fingerprint : perKey[f] = Cardinality(HoldersOf(f))

\* The caps hold for the handlers, not only for the counters.
CapsHold ==
    /\ Cardinality(Holders) <= MaxGlobal
    /\ \A f \in Fingerprint : Cardinality(HoldersOf(f)) <= MaxPerKey

\* A session is turned away by the caps only when one is exhausted by others.
RefusedOnlyWhenFull ==
    [][\A s \in Session :
          stage[s] = "caps" /\ stage'[s] = "gone" /\ FingerprintOf[s] # NoKey =>
              \/ Cardinality(Holders) = MaxGlobal
              \/ Cardinality(HoldersOf(FingerprintOf[s])) = MaxPerKey]_gateVars

=============================================================================
