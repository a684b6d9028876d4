------------------------------ MODULE MCEvent ------------------------------
(***************************************************************************)
(* Three threads, two of one priority, and idle; two flags: hi waits for   *)
(* both and takes them, mid1 takes any, mid2 looks for one.                *)
(***************************************************************************)
EXTENDS Event

CONSTANTS hi, mid1, mid2, a, b

MCPriority == [t \in Thread |-> CASE t = hi   -> 0
                                  [] t = Idle -> 2
                                  [] OTHER    -> 1]

MCRequest == [t \in Thread |->
    CASE t = hi   -> [set |-> {a, b}, op |-> "and", clear |-> TRUE]
      [] t = mid1 -> [set |-> {a, b}, op |-> "or", clear |-> TRUE]
      [] OTHER    -> [set |-> {b}, op |-> "or", clear |-> FALSE]]

MCReady == [p \in Priority |-> CASE p = 1 -> <<mid1, mid2>>
                                 [] p = 2 -> <<Idle>>
                                 [] OTHER -> <<>>]

MCApi == [t \in Thread |-> CASE t = Idle -> {}
                             [] t = hi   -> {"recv", "send", "sleep"}
                             [] t = mid2 -> {"recv", "send", "reset", "detach"}
                             [] OTHER    -> {"recv", "send"}]
=============================================================================
