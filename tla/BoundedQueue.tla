----------------------------- MODULE BoundedQueue ------------------------------
(***************************************************************************)
(* What a mailbox and a message queue promise: a queue of bounded length.  *)
(* A message is added at the end, an urgent one at the front; a receiver   *)
(* gets the first one; a reset throws them all away.  Nothing is lost,     *)
(* copied or reordered otherwise.                                          *)
(***************************************************************************)
EXTENDS Sequences, Naturals

CONSTANTS Receiver, Message,
          Capacity,   \* a positive number
          Nothing     \* not a message

VARIABLES queue,    \* the messages in the queue
          got       \* the last message of each receiver, or Nothing

Init ==
    /\ queue = <<>>
    /\ got = [r \in Receiver |-> Nothing]

Add(m) ==
    /\ Len(queue) < Capacity
    /\ queue' = Append(queue, m)
    /\ UNCHANGED got

AddUrgent(m) ==
    /\ Len(queue) < Capacity
    /\ queue' = <<m>> \o queue
    /\ UNCHANGED got

Remove(r) ==
    /\ queue # <<>>
    /\ got' = [got EXCEPT ![r] = Head(queue)]
    /\ queue' = Tail(queue)

Reset ==
    /\ queue' = <<>>
    /\ UNCHANGED got

Next ==
    \/ \E m \in Message : Add(m) \/ AddUrgent(m)
    \/ \E r \in Receiver : Remove(r)
    \/ Reset

Spec == Init /\ [][Next]_<<queue, got>>
=============================================================================
