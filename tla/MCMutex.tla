------------------------------ MODULE MCMutex ------------------------------
(***************************************************************************)
(* Three threads of three priorities and idle; two mutexes that mid takes  *)
(* in any order, one shared with hi, the other with low.                   *)
(***************************************************************************)
EXTENDS Mutex

CONSTANTS hi, mid, low, m1, m2

MCPriority == [t \in Thread |-> CASE t = hi   -> 0
                                  [] t = mid  -> 1
                                  [] t = low  -> 2
                                  [] t = Idle -> 3]

MCTakes == [t \in Thread |-> [m \in Mutexes |->
                CASE t = hi  -> IF m = m1 THEN 1 ELSE 0
                  [] t = mid -> 1
                  [] t = low -> IF m = m2 THEN 2 ELSE 0
                  [] OTHER   -> 0]]

MCReady == [p \in Priority |-> CASE p = 1 -> <<mid>>
                                 [] p = 2 -> <<low>>
                                 [] p = 3 -> <<Idle>>
                                 [] OTHER -> <<>>]

MCApi == [t \in Thread |-> CASE t = Idle -> {}
                             [] t = low  -> {"take", "trytake", "detach"}
                             [] OTHER    -> {"take", "sleep"}]
=============================================================================
