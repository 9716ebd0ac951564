------------------------------- MODULE Clock --------------------------------
(* The wall clock that the services and Redis share, in ticks. *)
EXTENDS Naturals

CONSTANT Horizon  \* bound: when time stops

ASSUME ClockAssumption == Horizon \in Nat

VARIABLE clock

Tick ==
  /\ clock < Horizon
  /\ clock' = clock + 1
=============================================================================
