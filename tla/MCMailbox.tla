----------------------------- MODULE MCMailbox -----------------------------
(***************************************************************************)
(* hi receives or sleeps; below it, at one priority, mid1 sends, also with *)
(* a time limit, and mid2 receives, resets and detaches; and idle.         *)
(***************************************************************************)
EXTENDS Mailbox

CONSTANTS hi, mid1, mid2

MCPriority == [t \in Thread |-> CASE t = hi   -> 0
                                  [] t = Idle -> 2
                                  [] OTHER    -> 1]

MCReady == [p \in Priority |-> CASE p = 1 -> <<mid1, mid2>>
                                 [] p = 2 -> <<Idle>>
                                 [] OTHER -> <<>>]

MCApi == [t \in Thread |-> CASE t = hi   -> {"recv", "sleep"}
                             [] t = mid1 -> {"send", "timed"}
                             [] t = mid2 -> {"recv", "reset", "detach"}
                             [] OTHER    -> {}]
=============================================================================
