-------------------------- MODULE ResponseLifecycle --------------------------
(***************************************************************************)
(* What a response stream promises, without saying how it is produced:     *)
(* the life cycle of docs/response-protocol.md.  A response is idle, then   *)
(* open while events are appended to it, then ended or failed by a single   *)
(* terminal event that is the last one; a response whose producer raises    *)
(* an exception is broken off without one.                                  *)
(***************************************************************************)
EXTENDS Naturals

VARIABLES phase, count    \* count: how many events have been sent

vars == <<phase, count>>

Init == phase = "idle" /\ count = 0

Start == phase = "idle" /\ phase' = "open" /\ count' = 1

\* Some more events, none of them terminal.
Append == /\ phase = "open" /\ phase' = "open"
          /\ count' \in Nat /\ count' > count

\* Some more events of which the last is terminal.
Finish == /\ phase = "open" /\ phase' \in {"ended", "failed"}
          /\ count' \in Nat /\ count' > count

\* The producer raises: before message_start, or between two events.
BreakOff == /\ phase \in {"idle", "open"} /\ phase' = "broken"
            /\ count' \in Nat /\ count' >= count

Next == Start \/ Append \/ Finish \/ BreakOff

Spec == Init /\ [][Next]_vars
==============================================================================
