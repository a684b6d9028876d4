------------------------------ MODULE Threads -------------------------------
(***************************************************************************)
(* The CPU as the IPC objects see it: the threads and the scheduler (k),   *)
(* where each thread is in the call it makes (pc), the switch at the end   *)
(* of a blocking call, and the two interrupts every object must live with: *)
(* the end of a time slice and the timer of a waiting thread.              *)
(*                                                                         *)
(* The modules that EXTEND this one conjoin what each step does to their   *)
(* objects.  An interrupt handler runs in one piece, between two steps of  *)
(* threads: a step ends wherever the code enables interrupts.              *)
(***************************************************************************)
EXTENDS Kernel

CONSTANTS InitThread,     \* the first thread that runs
          InitPriority,   \* priorities given to rt_thread_init
          InitReady,      \* the ready lists when the scheduler starts
          Api             \* Api[t]: the calls the program of t makes; with
                          \* "timed", where that is used, also with a time limit

ASSUME ThreadsAssumption ==
    /\ InitThread \in Thread
    /\ InitPriority \in [Thread -> Priority]
    /\ InitReady \in [Priority -> Seq(Thread)]
    /\ KernelOK(KernelStart(InitThread, InitPriority, InitReady))
    /\ CurrentIsHighest(KernelStart(InitThread, InitPriority, InitReady))
    /\ DOMAIN Api = Thread /\ Api[Idle] = {}
    /\ Idle = InitThread \/ Contains(InitReady[InitPriority[Idle]], Idle)

VARIABLES k, pc

ThreadsInit ==
    /\ k = KernelStart(InitThread, InitPriority, InitReady)
    /\ pc = [t \in Thread |-> "user"]

Running(t, at) == k.cur = t /\ pc[t] = at

Calls(t, api) == Running(t, "user") /\ api \in Api[t]

Goto(t, at) == pc' = [pc EXCEPT ![t] = at]

Waits(t, q) == Contains(k.list[q], t)

(* rt_schedule, called by t, that goes on at next when it runs again. *)
Reschedule(t, at, next) ==
    /\ Running(t, at)
    /\ k' = rt_schedule(k)
    /\ Goto(t, next)

(* What a blocking call does with interrupts disabled: thread->error is    *)
(* reset, the thread joins q, and the timer starts unless it waits for     *)
(* ever.                                                                   *)
Block(t, q, flag, timed) ==
    LET k1 == rt_ipc_list_suspend([k EXCEPT !.err[t] = "ok"], q, t, flag)
    IN  k' = IF timed THEN StartTimer(k1, t) ELSE k1

(* rt_thread_sleep, by which a thread lets less urgent ones run. *)
Sleeps(t) ==
    \/ /\ Calls(t, "sleep")
       /\ k' = StartTimer(rt_thread_suspend(k, t), t)
       /\ Goto(t, "sleep")
    \/ Reschedule(t, "sleep", "slept")
    \/ /\ Running(t, "slept")
       /\ k' = [k EXCEPT !.err[t] = IF @ = "timeout" THEN "ok" ELSE @]
       /\ Goto(t, "user")

(* rt_tick_increase, when the current thread has used up its time slice *)
SliceExpires == k' = rt_schedule(k) /\ UNCHANGED pc

(* rt_timer_check, when the timer of u is due *)
TimerFires(u) ==
    /\ k.tmr[u]
    /\ k' = rt_thread_timeout(k, u)
    /\ UNCHANGED pc

(* rt_ipc_list_resume_all called with interrupts enabled, as the detach    *)
(* and delete functions do: the loop tests the list first and disables     *)
(* interrupts after that.  With the list emptied in between it takes the   *)
(* list head for the node of a thread and writes to it: a fault.           *)
ChecksList(t, at, q, resume, next) ==
    /\ Running(t, at)
    /\ Goto(t, IF k.list[q] # <<>> THEN resume ELSE next)
    /\ UNCHANGED k

ResumesNext(t, at, q, check) ==
    /\ Running(t, at)
    /\ IF k.list[q] # <<>>
       THEN k' = ResumeWithError(k, q) /\ Goto(t, check)
       ELSE Goto(t, "fault") /\ UNCHANGED k

(* The error the call of t finds when it runs again, and clears or keeps.  *)
Failed(t) == k.err[t] # "ok"

(* Woken by the object, not by an error, and not back in its call yet. *)
Woken(t, q) == pc[t] \in {"sched", "woken"} /\ ~Failed(t) /\ ~Waits(t, q)

(* The first thread of q is the most urgent one. *)
SortedByPriority(q) ==
    \A i, j \in 1 .. Len(k.list[q]) :
        i < j => k.prio[k.list[q][i]] <= k.prio[k.list[q][j]]
=============================================================================
