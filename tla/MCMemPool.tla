----------------------------- MODULE MCMemPool ------------------------------
(***************************************************************************)
(* Three threads, two of one priority, and idle.                           *)
(***************************************************************************)
EXTENDS MemPool

CONSTANTS hi, mid1, mid2, b1, b2

MCPriority == [t \in Thread |-> CASE t = hi   -> 0
                                  [] t = Idle -> 2
                                  [] OTHER    -> 1]

MCReady == [p \in Priority |-> CASE p = 1 -> <<mid1, mid2>>
                                 [] p = 2 -> <<Idle>>
                                 [] OTHER -> <<>>]

MCApi == [t \in Thread |-> CASE t = hi   -> {"alloc", "device", "sleep"}
                             [] t = mid1 -> {"alloc"}
                             [] t = mid2 -> {"alloc", "detach"}
                             [] OTHER    -> {}]

MCBlocks == <<b1, b2>>
=============================================================================
