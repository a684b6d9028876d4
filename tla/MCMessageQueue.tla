--------------------------- MODULE MCMessageQueue ---------------------------
(***************************************************************************)
(* hi receives or sleeps; below it, at one priority, mid1 sends, and mid2  *)
(* receives, also with a time limit, resets and detaches; and idle.        *)
(***************************************************************************)
EXTENDS MessageQueue

CONSTANTS hi, mid1, mid2

MCPriority == [t \in Thread |-> CASE t = hi   -> 0
                                  [] t = Idle -> 2
                                  [] OTHER    -> 1]

MCReady == [p \in Priority |-> CASE p = 1 -> <<mid1, mid2>>
                                 [] p = 2 -> <<Idle>>
                                 [] OTHER -> <<>>]

MCApi == [t \in Thread |-> CASE t = hi   -> {"recv", "sleep"}
                             [] t = mid1 -> {"send", "urgent"}
                             [] t = mid2 -> {"recv", "timed", "reset", "detach"}
                             [] OTHER    -> {}]
=============================================================================
