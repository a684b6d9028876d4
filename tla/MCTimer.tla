------------------------------ MODULE MCTimer ------------------------------
(***************************************************************************)
(* A periodic hard timer, a hard timer that the user sets to 1 or 2 ticks, *)
(* and periodic soft timers (s2 is for an instance with two of them), with *)
(* TickMax small enough for ticks to wrap around.                          *)
(***************************************************************************)
EXTENDS Timer

CONSTANTS h1, h2, s1, s2

MCEffect == {None} \cup [call : {"start", "stop"}, timer : Timers \cap {h2, s1}]

MCTimes == [t \in Timers |-> IF t = h2 THEN {1, 2} ELSE {1}]
=============================================================================
