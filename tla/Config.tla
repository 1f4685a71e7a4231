------------------------------- MODULE Config -------------------------------
(***************************************************************************)
(* What a server is told before it starts (internal/config), and the slot   *)
(* that a user name stands for (internal/identity).                         *)
(*                                                                         *)
(* A user name is a sequence of characters, of which there are letters of   *)
(* either case, other characters a slot may have, blanks, and the rest.      *)
(***************************************************************************)
EXTENDS Integers, Sequences

CONSTANTS
    maxSlotLen,    \* the longest slot
    Unset,         \* an environment variable that is not set, or empty
    Junk           \* one that does not parse

ASSUME ConfigAssumption ==
    /\ maxSlotLen \in Nat \ {0}
    /\ Unset # Junk

SlotChar == {"a", "b", "_"}
Char == SlotChar \cup {"A", " ", "!"}

ToLower(c) == IF c = "A" THEN "a" ELSE c

\* Fault: the loop stops one character late.
SanitizeSlotLate(raw) ==
    LET slot[i \in 0 .. Len(raw)] ==
            IF i = 0 THEN <<>>
            ELSE IF ToLower(raw[i]) \in SlotChar /\ Len(slot[i - 1]) <= maxSlotLen
            THEN Append(slot[i - 1], ToLower(raw[i])) ELSE slot[i - 1]
    IN slot[Len(raw)]

\* Lower case, what a slot may not have is dropped, and the rest is cut.
SanitizeSlot(raw) ==
    LET slot[i \in 0 .. Len(raw)] ==
            IF i = 0 THEN <<>>
            ELSE IF ToLower(raw[i]) \in SlotChar /\ Len(slot[i - 1]) < maxSlotLen
            THEN Append(slot[i - 1], ToLower(raw[i])) ELSE slot[i - 1]
    IN slot[Len(raw)]

\* The slot of a connection.
ResolveSlot(username, defaultSlot) ==
    LET slot == SanitizeSlot(username)
    IN  IF slot = <<>> THEN SanitizeSlot(defaultSlot) ELSE slot

\* store.slotPattern.
SlotPattern(slot) ==
    /\ Len(slot) \in 1 .. maxSlotLen
    /\ \A i \in DOMAIN slot : slot[i] \in SlotChar

\* envOr, envIntOr and their like.
EnvOr(value, fallback) == IF value = Unset THEN fallback ELSE value

\* What Load makes of an environment, whether or not it accepts it.
Loaded(env) ==
    [maxSessionsPerKey |-> EnvOr(env.maxSessionsPerKey, 2),
     maxConnections    |-> EnvOr(env.maxConnections, 100),
     idleTimeout       |-> EnvOr(env.idleTimeout, 1800),
     autosaveInterval  |-> EnvOr(env.autosaveInterval, 30),
     sessionPolicy     |-> EnvOr(env.sessionPolicy, "takeover"),
     defaultSlot       |-> SanitizeSlot(EnvOr(env.defaultSlot, <<"a">>))]

Parses(env) ==
    Junk \notin {env.maxSessionsPerKey, env.maxConnections, env.idleTimeout,
                 env.autosaveInterval}

\* Load returns no error.
Accepts(env) ==
    /\ Parses(env)
    /\ LET cfg == Loaded(env) IN
          /\ cfg.maxSessionsPerKey >= 1
          /\ cfg.maxConnections >= 1
          /\ cfg.idleTimeout >= 0
          /\ cfg.defaultSlot # <<>>
          /\ cfg.autosaveInterval >= 1
          /\ cfg.sessionPolicy \in {"takeover", "refuse"}

=============================================================================
