------------------------------- MODULE Event --------------------------------
(***************************************************************************)
(* The event object of src/ipc.c: a set of flags that threads and          *)
(* interrupts send, and threads that wait for all (AND) or any (OR) of     *)
(* their flags, taking them away (CLEAR) or not.                           *)
(***************************************************************************)
EXTENDS IpcObject

CONSTANTS EventFlag,   \* the bits of the event set
          Request,     \* Request[t]: what t asks for, in every rt_event_recv
          MaxSends     \* bound: calls of rt_event_send with effect

ASSUME EventAssumption ==
    /\ Request \in [Thread -> [set : (SUBSET EventFlag) \ {{}},
                               op : {"and", "or"}, clear : BOOLEAN]]
    /\ MaxSends \in Nat

VARIABLES set,         \* event->set
          event_set,   \* thread->event_set
          sends,       \* sends so far
          sent, taken  \* history, per flag: times sent, and taken with CLEAR

event == <<set, event_set, alive>>
history == <<sends, sent, taken>>
eventVars == <<k, pc, event, history>>

EventInit ==
    /\ ThreadsInit
    /\ set = {}
    /\ event_set = [t \in Thread |-> Request[t].set]
    /\ alive = TRUE
    /\ sends = 0
    /\ sent = [e \in EventFlag |-> 0]
    /\ taken = [e \in EventFlag |-> 0]

Satisfied(op, want, have) ==
    IF op = "and" THEN want \subseteq have ELSE want \cap have # {}

Counted(count, es) == [e \in EventFlag |-> count[e] + (IF e \in es THEN 1 ELSE 0)]

(* rt_event_recv when the flags are there.  CLEAR takes all flags asked    *)
(* for, also those an OR did not find set.                                 *)
RecvNow(t) ==
    LET r == Request[t] IN
    /\ Calls(t, "recv") /\ alive
    /\ Satisfied(r.op, r.set, set)
    /\ k' = [k EXCEPT !.err[t] = "ok"]
    /\ set' = IF r.clear THEN set \ r.set ELSE set
    /\ taken' = IF r.clear THEN Counted(taken, set \cap r.set) ELSE taken
    /\ UNCHANGED <<pc, event_set, alive, sends, sent>>

(* ... when they are not, with timeout = 0 *)
RecvFails(t) ==
    LET r == Request[t] IN
    /\ Calls(t, "recv") /\ alive
    /\ ~Satisfied(r.op, r.set, set)
    /\ k' = [k EXCEPT !.err[t] = "timeout"]
    /\ UNCHANGED <<pc, event, history>>

\* BUG: the set of an earlier wait is kept
BugRecvKeepsOldSet(t, timed) ==
    LET r == Request[t] IN
    /\ Calls(t, "recv") /\ alive
    /\ ~Satisfied(r.op, r.set, set)
    /\ Block(t, Object, Flag, timed)
    /\ Goto(t, "sched")
    /\ UNCHANGED <<event, history>>

RecvWaits(t, timed) ==
    LET r == Request[t] IN
    /\ Calls(t, "recv") /\ alive
    /\ ~Satisfied(r.op, r.set, set)
    /\ Block(t, Object, Flag, timed)
    /\ event_set' = [event_set EXCEPT ![t] = r.set]
    /\ Goto(t, "sched")
    /\ UNCHANGED <<set, alive, history>>

RecvSchedules(t) == Reschedule(t, "sched", "woken") /\ UNCHANGED <<event, history>>

RecvReturns(t) ==
    /\ Running(t, "woken")
    /\ Goto(t, "user")
    /\ UNCHANGED <<k, event, history>>

\* BUG: RT_EVENT_FLAG_CLEAR is ignored for a waiter
BugServeNoClear(s, t) ==
    LET r   == Request[t]
        got == s.es[t] \cap s.set
    IN  IF ~Satisfied(r.op, s.es[t], s.set)
        THEN s
        ELSE [k     |-> rt_thread_resume(s.k, t),
              set   |-> s.set,
              es    |-> [s.es EXCEPT ![t] = got],
              taken |-> IF r.clear THEN Counted(s.taken, got) ELSE s.taken]

\* BUG: the scan stops at the first waiter it wakes
BugServeFirstOnly(s, t) ==
    LET r   == Request[t]
        got == s.es[t] \cap s.set
    IN  IF ~Satisfied(r.op, s.es[t], s.set) \/ s.k # k
        THEN s
        ELSE [k     |-> rt_thread_resume(s.k, t),
              set   |-> IF r.clear THEN s.set \ got ELSE s.set,
              es    |-> [s.es EXCEPT ![t] = got],
              taken |-> IF r.clear THEN Counted(s.taken, got) ELSE s.taken]

(* One turn of the loop of rt_event_send: the waiting thread t, if it is   *)
(* satisfied by the flags that those before it left.                       *)
Serve(s, t) ==
    LET r   == Request[t]
        got == s.es[t] \cap s.set
    IN  IF ~Satisfied(r.op, s.es[t], s.set)
        THEN s
        ELSE [k     |-> rt_thread_resume(s.k, t),
              set   |-> IF r.clear THEN s.set \ got ELSE s.set,
              es    |-> [s.es EXCEPT ![t] = got],
              taken |-> IF r.clear THEN Counted(s.taken, got) ELSE s.taken]

(* The loop, over those that wait when it starts. *)
Sent(es) ==
    LET waiters == k.list[Object]
        turns[n \in 0 .. Len(waiters)] ==
            IF n = 0
            THEN [k |-> k, set |-> set \cup es, es |-> event_set, taken |-> taken]
            ELSE Serve(turns[n - 1], waiters[n])
    IN  turns[Len(waiters)]

Sends(es) ==
    /\ alive /\ es # {} /\ sends < MaxSends
    /\ set' = Sent(es).set
    /\ event_set' = Sent(es).es
    /\ taken' = Sent(es).taken
    /\ sent' = Counted(sent, es)
    /\ sends' = sends + 1
    /\ UNCHANGED alive

rt_event_send(t, es) ==
    /\ Calls(t, "send")
    /\ Sends(es)
    /\ k' = Sent(es).k
    /\ Goto(t, IF Sent(es).k # k THEN "released" ELSE "user")

SendSchedules(t) ==
    /\ Reschedule(t, "released", "user")
    /\ UNCHANGED <<event, history>>

(* rt_event_control(RT_IPC_CMD_RESET) *)
rt_event_control(t) ==
    /\ Calls(t, "reset") /\ alive
    /\ k' = rt_ipc_list_resume_all(k, Object)
    /\ set' = {}
    /\ Goto(t, "released")
    /\ UNCHANGED <<event_set, alive, history>>

(* rt_event_detach and rt_event_delete *)
EventDetachStarts(t) ==
    /\ Calls(t, "detach") /\ alive
    /\ alive' = FALSE
    /\ Goto(t, "check")
    /\ UNCHANGED <<k, set, event_set, history>>

EventDetachResumes(t) ==
    /\ \/ ChecksList(t, "check", Object, "resume", "user")
       \/ ResumesNext(t, "resume", Object, "check")
    /\ UNCHANGED <<event, history>>

EventSleep(t) == Sleeps(t) /\ UNCHANGED <<event, history>>

EventSlice == SliceExpires /\ UNCHANGED <<event, history>>

EventTimeout(u) == TimerFires(u) /\ UNCHANGED <<event, history>>

(* A device interrupt sends: its rt_schedule comes before the handler ends.*)
IsrSend(es) ==
    /\ Sends(es)
    /\ k' = IF Sent(es).k # k THEN rt_schedule(Sent(es).k) ELSE k
    /\ UNCHANGED pc

-----------------------------------------------------------------------------
EventThreadStep(t) ==
    \/ RecvNow(t)
    \/ RecvFails(t)
    \/ \E timed \in BOOLEAN : RecvWaits(t, timed)
    \/ RecvSchedules(t)
    \/ RecvReturns(t)
    \/ \E es \in SUBSET EventFlag : rt_event_send(t, es)
    \/ SendSchedules(t)
    \/ rt_event_control(t)
    \/ EventDetachStarts(t)
    \/ EventDetachResumes(t)

EventNext ==
    \/ \E t \in Thread : EventThreadStep(t)
    \/ \E t \in Thread : EventSleep(t)
    \/ EventSlice
    \/ \E u \in Thread : EventTimeout(u)
    \/ \E es \in SUBSET EventFlag : IsrSend(es)

EventSpec == EventInit /\ [][EventNext]_eventVars
-----------------------------------------------------------------------------
EventTypeOK ==
    /\ k \in KernelState
    /\ pc \in [Thread -> PC]
    /\ set \subseteq EventFlag
    /\ event_set \in [Thread -> SUBSET EventFlag]
    /\ alive \in BOOLEAN
    /\ sends \in 0 .. MaxSends
    /\ sent \in [EventFlag -> Nat]
    /\ taken \in [EventFlag -> Nat]

(* No wakeup is missed: a thread that waits is not satisfied by the flags  *)
(* that are set, however sends, resets and other waiters' CLEAR interleave.*)
WaitersUnsatisfied ==
    \A t \in Thread : Waits(t, Object) => ~Satisfied(Request[t].op, event_set[t], set)

(* One send of a flag satisfies at most one receiver with CLEAR, also when *)
(* several of them wait, and a flag that is set was not taken yet.         *)
TakenOnce ==
    \A e \in EventFlag : taken[e] + (IF e \in set THEN 1 ELSE 0) <= sent[e]

(* A thread that waits still waits for its whole request, and one that was *)
(* woken finds what it asked for in event_set, all of it for AND, a part   *)
(* for OR (the types hold, too).                                           *)
GrantedAsAsked ==
    /\ EventTypeOK
    /\ \A t \in Thread :
          /\ Waits(t, Object) =>
                pc[t] \in {"sched", "woken"} /\ event_set[t] = Request[t].set
          /\ Woken(t, Object) =>
                /\ event_set[t] # {}
                /\ event_set[t] \subseteq Request[t].set
                /\ Request[t].op = "and" => event_set[t] = Request[t].set
=============================================================================
