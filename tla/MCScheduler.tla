---------------------------- MODULE MCScheduler -----------------------------
(***************************************************************************)
(* Three threads and idle on four priorities, two per byte of the ready    *)
(* table: hi alone in its group, mid1 and mid2 sharing a priority and      *)
(* their group with idle.                                                  *)
(***************************************************************************)
EXTENDS Scheduler

CONSTANTS hi, mid1, mid2

MCPriority == [t \in Thread |-> CASE t = hi   -> 0
                                  [] t = Idle -> 3
                                  [] OTHER    -> 2]

MCReady == [p \in Priority |-> CASE p = 2 -> <<mid2>>
                                 [] p = 3 -> <<Idle>>
                                 [] OTHER -> <<>>]
=============================================================================
