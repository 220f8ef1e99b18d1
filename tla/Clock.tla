--------------------------------- MODULE Clock ---------------------------------
(* time.Now() of the server process, which never goes back: the one clock  *)
(* that internal/auth reads for the rate limits and for the key cache.     *)
EXTENDS Integers

CONSTANT MaxTime  \* bound: last instant of a behaviour

ASSUME ClockAssumption == MaxTime \in Nat

VARIABLE clock

Advance ==
  /\ clock < MaxTime
  /\ clock' = clock + 1
================================================================================
