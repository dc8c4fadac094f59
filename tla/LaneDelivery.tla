---------------------------- MODULE LaneDelivery ----------------------------
(***************************************************************************)
(* What the timer promises about lane transitions, with no mention of      *)
(* tasks, locks, message ids or the ring buffer that keep the promise.     *)
(*                                                                         *)
(* Transitions are numbered 1, 2, 3, ... in the order they were captured.  *)
(* The broker receives them in that order: what it has seen is always a    *)
(* prefix of what was captured, however often a part of it is sent again.  *)
(* The timer forgets a transition (moves nextXmitHist past it) only when   *)
(* the broker has it.  TimerPublish is shown to implement this module.     *)
(***************************************************************************)
EXTENDS Integers

VARIABLES
  captured,     \* how many transitions the capture task has published
  delivered,    \* the numbers of the transitions the broker has received
  retired       \* how many transitions the timer will not send again

vars == <<captured, delivered, retired>>

Init ==
  /\ captured = 0
  /\ delivered = {}
  /\ retired = 0

Capture ==
  /\ captured' = captured + 1
  /\ UNCHANGED <<delivered, retired>>

(* A message carries transitions up to some k; the ones before it are      *)
(* already with the broker, so nothing the broker knows has a gap.         *)
Deliver ==
  /\ \E k \in 1..captured : delivered' = delivered \cup 1..k
  /\ UNCHANGED <<captured, retired>>

Retire ==
  /\ \E k \in (retired + 1)..captured :
       /\ 1..k \subseteq delivered
       /\ retired' = k
  /\ UNCHANGED <<captured, delivered>>

Next == Capture \/ Deliver \/ Retire

Spec == Init /\ [][Next]_vars

=============================================================================
