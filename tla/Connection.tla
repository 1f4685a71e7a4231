----------------------------- MODULE Connection -----------------------------
(* What the parts of the server share: the SSH connections it accepts.  A     *)
(* connection has one session, its handler runs in a goroutine of its own,   *)
(* and ids are never reused.                                                *)

CONSTANT Session     \* connection ids

=============================================================================
