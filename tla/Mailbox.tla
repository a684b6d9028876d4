------------------------------- MODULE Mailbox ---------------------------------
(***************************************************************************)
(* The mailbox of src/ipc.c: a ring of mails, a suspend list of receivers  *)
(* and one of senders.  A waiting call that is woken tests the mailbox     *)
(* again, since another thread may have come first, and waits for the rest *)
(* of its time if it has to.  The mails of a thread are told apart from    *)
(* those of the others by its name.                                        *)
(***************************************************************************)
EXTENDS Threads

CONSTANTS Receivers,   \* parent.suspend_thread
          Senders,     \* suspend_sender_thread
          Size,        \* mb->size
          Flag,        \* "fifo" or "prio"
          IsrActive,   \* a device interrupt sends, too
          Isr,         \* the sender of its mails
          Nothing

ASSUME MailboxAssumption ==
    /\ WaitQueue = {Receivers, Senders}
    /\ Receivers # Senders
    /\ Size \in Nat \ {0}
    /\ Flag \in {"fifo", "prio"}
    /\ IsrActive \in BOOLEAN
    /\ Isr \notin Thread

Mail == Thread \cup {Isr}

ASSUME NothingIsNoMail == Nothing \notin Mail

VARIABLES entry, in_offset, out_offset, msg_pool,   \* the mailbox
          alive,     \* it is not detached
          call,      \* the call a thread waits in: none, send, recv
          limited,   \* the threads whose call has a time limit
          got        \* what the last rt_mb_recv of a thread put in *value

ring == <<entry, in_offset, out_offset, msg_pool>>
calls == <<call, limited>>
vars == <<k, pc, ring, alive, calls, got>>

PC == {"user", "sleep", "slept", "sched", "woken", "released", "check", "resume",
       "check_senders", "resume_senders", "fault"}

Offset == 0 .. Size - 1

List(op) == IF op = "send" THEN Senders ELSE Receivers

Blocked(op) == IF op = "send" THEN entry = Size ELSE entry = 0

Init ==
    /\ ThreadsInit
    /\ entry = 0 /\ in_offset = 0 /\ out_offset = 0
    /\ msg_pool = [i \in Offset |-> Nothing]
    /\ alive = TRUE
    /\ call = [t \in Thread |-> "none"]
    /\ limited = {}
    /\ got = [t \in Thread |-> Nothing]

(* The test of the while loops of rt_mb_send_wait and rt_mb_recv, when the *)
(* call starts and whenever it was woken without an error.                 *)
Loops(t, op) ==
    \/ Calls(t, op) /\ alive
    \/ Running(t, "woken") /\ call[t] = op /\ ~Failed(t)

Leaves(t) ==
    /\ call' = [call EXCEPT ![t] = "none"]
    /\ limited' = limited \ {t}

\* BUG: the offset wraps one mail late
BugFollowing(offset) == IF offset + 1 > Size THEN 0 ELSE offset + 1

Following(offset) == IF offset + 1 >= Size THEN 0 ELSE offset + 1

Put(m) ==
    /\ msg_pool' = [msg_pool EXCEPT ![in_offset] = m]
    /\ in_offset' = Following(in_offset)
    /\ entry' = entry + 1
    /\ UNCHANGED out_offset

\* BUG: a waiter is woken only when the mailbox was empty, or full
BugWakesOnEdge(t, q) ==
    IF k.list[q] # <<>> /\ entry = (IF q = Receivers THEN 0 ELSE Size)
    THEN k' = rt_ipc_list_resume(k, q) /\ Goto(t, "released")
    ELSE UNCHANGED k /\ Goto(t, "user")

(* A waiter on the other side is woken, whatever the fill level was. *)
Wakes(t, q) ==
    IF k.list[q] # <<>>
    THEN k' = rt_ipc_list_resume(k, q) /\ Goto(t, "released")
    ELSE UNCHANGED k /\ Goto(t, "user")

(* rt_mb_send and rt_mb_send_wait, when there is room; without room        *)
(* rt_mb_send fails and changes nothing.                                   *)
Sends(t) ==
    /\ Loops(t, "send") /\ ~Blocked("send")
    /\ Put(t)
    /\ Wakes(t, Receivers)
    /\ Leaves(t)
    /\ UNCHANGED <<alive, got>>

Receives(t) ==
    /\ Loops(t, "recv") /\ ~Blocked("recv")
    /\ got' = [got EXCEPT ![t] = msg_pool[out_offset]]
    /\ out_offset' = Following(out_offset)
    /\ entry' = entry - 1
    /\ Wakes(t, Senders)
    /\ Leaves(t)
    /\ UNCHANGED <<in_offset, msg_pool, alive>>

(* A call with a time limit that loops waits for what is left of it. *)
Waiting(t, op, timed) ==
    /\ Loops(t, op) /\ Blocked(op)
    /\ timed => "timed" \in Api[t]
    /\ pc[t] = "woken" => timed = (t \in limited)
    /\ Block(t, List(op), Flag, timed)
    /\ call' = [call EXCEPT ![t] = op]
    /\ limited' = IF timed THEN limited \cup {t} ELSE limited
    /\ Goto(t, "sched")
    /\ UNCHANGED <<ring, alive, got>>

Schedules(t) ==
    /\ Reschedule(t, "sched", "woken") \/ Reschedule(t, "released", "user")
    /\ UNCHANGED <<ring, alive, calls, got>>

(* ... or fails if nothing is left. *)
GivesUp(t, op) ==
    /\ Running(t, "woken") /\ Loops(t, op) /\ Blocked(op)
    /\ t \in limited
    /\ k' = [k EXCEPT !.err[t] = IF op = "recv" THEN "timeout" ELSE "ok"]
    /\ Goto(t, "user")
    /\ Leaves(t)
    /\ UNCHANGED <<ring, alive, got>>

Fails(t) ==
    /\ Running(t, "woken") /\ Failed(t)
    /\ Goto(t, "user")
    /\ Leaves(t)
    /\ UNCHANGED <<k, ring, alive, got>>

\* BUG: the reset forgets out_offset
BugResetKeepsOut(t) ==
    /\ Calls(t, "reset") /\ alive
    /\ k' = rt_ipc_list_resume_all(rt_ipc_list_resume_all(k, Receivers), Senders)
    /\ entry' = 0 /\ in_offset' = 0
    /\ Goto(t, "released")
    /\ UNCHANGED <<out_offset, msg_pool, alive, calls, got>>

(* rt_mb_control(RT_IPC_CMD_RESET) *)
rt_mb_control(t) ==
    /\ Calls(t, "reset") /\ alive
    /\ k' = rt_ipc_list_resume_all(rt_ipc_list_resume_all(k, Receivers), Senders)
    /\ entry' = 0 /\ in_offset' = 0 /\ out_offset' = 0
    /\ Goto(t, "released")
    /\ UNCHANGED <<msg_pool, alive, calls, got>>

(* rt_mb_detach and rt_mb_delete: the receivers, then the senders. *)
DetachStarts(t) ==
    /\ Calls(t, "detach") /\ alive
    /\ alive' = FALSE
    /\ Goto(t, "check")
    /\ UNCHANGED <<k, ring, calls, got>>

DetachResumes(t) ==
    /\ \/ ChecksList(t, "check", Receivers, "resume", "check_senders")
       \/ ResumesNext(t, "resume", Receivers, "check")
       \/ ChecksList(t, "check_senders", Senders, "resume_senders", "user")
       \/ ResumesNext(t, "resume_senders", Senders, "check_senders")
    /\ UNCHANGED <<ring, alive, calls, got>>

-----------------------------------------------------------------------------
(* Interrupts. *)

Sleep(t) == Sleeps(t) /\ UNCHANGED <<ring, alive, calls, got>>

Slice == SliceExpires /\ UNCHANGED <<ring, alive, calls, got>>

Timeout(u) == TimerFires(u) /\ UNCHANGED <<ring, alive, calls, got>>

(* A device interrupt calls rt_mb_send. *)
IsrSends ==
    /\ IsrActive /\ alive /\ ~Blocked("send")
    /\ Put(Isr)
    /\ k' = IF k.list[Receivers] # <<>>
            THEN rt_schedule(rt_ipc_list_resume(k, Receivers))
            ELSE k
    /\ UNCHANGED <<pc, alive, calls, got>>

-----------------------------------------------------------------------------
ThreadStep(t) ==
    \/ Sends(t)
    \/ Receives(t)
    \/ \E op \in {"send", "recv"}, timed \in BOOLEAN : Waiting(t, op, timed)
    \/ Schedules(t)
    \/ \E op \in {"send", "recv"} : GivesUp(t, op)
    \/ Fails(t)
    \/ rt_mb_control(t)
    \/ DetachStarts(t)
    \/ DetachResumes(t)

Next ==
    \/ \E t \in Thread : ThreadStep(t)
    \/ \E t \in Thread : Sleep(t)
    \/ Slice
    \/ \E u \in Thread : Timeout(u)
    \/ IsrSends

Spec == Init /\ [][Next]_vars
-----------------------------------------------------------------------------
TypeOK ==
    /\ k \in KernelState
    /\ pc \in [Thread -> PC]
    /\ entry \in 0 .. Size
    /\ in_offset \in Offset /\ out_offset \in Offset
    /\ msg_pool \in [Offset -> Mail \cup {Nothing}]
    /\ alive \in BOOLEAN
    /\ call \in [Thread -> {"none", "send", "recv"}]
    /\ limited \subseteq Thread
    /\ got \in [Thread -> Mail \cup {Nothing}]

WokenIn(op) == { t \in Thread : call[t] = op /\ Woken(t, List(op)) }

(* No wakeup is lost: while receivers wait there is a woken receiver on    *)
(* its way for every mail in the box, and while senders wait one for every *)
(* free place, whoever overtakes them.                                     *)
NoLostWakeup ==
    /\ k.list[Receivers] # <<>> => entry <= Cardinality(WokenIn("recv"))
    /\ k.list[Senders] # <<>> => Size - entry <= Cardinality(WokenIn("send"))

(* The mails between out_offset and in_offset, oldest first.               *)
Contents == [i \in 1 .. entry |-> msg_pool[(out_offset + i - 1) % Size]]

(* The ring is a bounded first-in first-out queue: what is received was    *)
(* sent, once, in order, with threads and interrupts sending and receiving *)
(* at any time and waiting ones overtaken.                                 *)
Abstract == INSTANCE BoundedQueue WITH
    Receiver <- Thread, Message <- Mail, Capacity <- Size, queue <- Contents

ImplementsQueue == Abstract!Spec
=============================================================================
