---------------------------- MODULE MCSemaphore -----------------------------
(***************************************************************************)
(* Three threads, two of one priority, and idle; one token at the start    *)
(* and one more from the interrupt.                                        *)
(***************************************************************************)
EXTENDS Semaphore

CONSTANTS hi, mid1, mid2

MCPriority == [t \in Thread |-> CASE t = hi   -> 0
                                  [] t = Idle -> 2
                                  [] OTHER    -> 1]

MCReady == [p \in Priority |-> CASE p = 1 -> <<mid1, mid2>>
                                 [] p = 2 -> <<Idle>>
                                 [] OTHER -> <<>>]

MCApi == [t \in Thread |-> CASE t = Idle -> {}
                             [] t = hi   -> {"take", "sleep"}
                             [] OTHER    -> {"take", "reset", "detach"}]
=============================================================================
