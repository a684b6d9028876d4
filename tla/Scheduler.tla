----------------------------- MODULE Scheduler ------------------------------
(***************************************************************************)
(* Threads that call the scheduling API of src/thread.c and                *)
(* src/scheduler.c on one CPU, with the clock interrupt and a device       *)
(* interrupt that wakes threads.                                           *)
(*                                                                         *)
(* A thread takes a step only while it is rt_current_thread; an interrupt  *)
(* handler runs in one piece between two steps of threads, anywhere        *)
(* interrupts are enabled.  pc[t] is where t is in the call it makes:      *)
(* "user" in application code, otherwise at the first statement of the     *)
(* call that is still to run.                                              *)
(***************************************************************************)
EXTENDS Kernel

CONSTANTS InitThread,     \* the first thread that runs
          InitPriority,   \* priorities given to rt_thread_init
          InitReady,      \* the ready lists when the scheduler starts
          Api,            \* the calls the application makes
          OneWaker,       \* TRUE: only one agent at a time resumes a thread,
                          \* and none resumes a thread that also has a timer
          MaxLock         \* bound on nested rt_enter_critical

VARIABLES k, pc, target   \* target[t]: the thread t's call is about

vars == <<k, pc, target>>

ASSUME SchedulerAssumption ==
    /\ InitThread \in Thread
    /\ InitPriority \in [Thread -> Priority]
    /\ InitReady \in [Priority -> Seq(Thread)]
    /\ KernelOK(KernelStart(InitThread, InitPriority, InitReady))
    /\ CurrentIsHighest(KernelStart(InitThread, InitPriority, InitReady))
    /\ Idle = InitThread \/ Contains(InitReady[InitPriority[Idle]], Idle)
    /\ OneWaker \in BOOLEAN
    /\ MaxLock \in Nat

PC == {"user", "sched", "sleep", "slept", "parked", "suspend",
       "resume", "unlinked"}

Init ==
    /\ k = KernelStart(InitThread, InitPriority, InitReady)
    /\ pc = [t \in Thread |-> "user"]
    /\ target = [t \in Thread |-> t]

Running(t, at) == k.cur = t /\ pc[t] = at

Calls(t, api) == Running(t, "user") /\ t # Idle /\ api \in Api

Goto(t, at) == pc' = [pc EXCEPT ![t] = at]

(* rt_thread_yield, and the rt_schedule at the end of a call *)
rt_thread_yield(t) ==
    /\ Calls(t, "yield")
    /\ Goto(t, "sched")
    /\ UNCHANGED <<k, target>>

(* Interrupts were enabled just before: the thread may no longer be in the *)
(* state its call left it in.                                              *)
DoSchedule(t) ==
    /\ k.cur = t
    /\ pc[t] \in {"sched", "sleep", "suspend"}
    /\ k' = rt_schedule(k)
    /\ Goto(t, CASE pc[t] = "sched"   -> "user"
                 [] pc[t] = "sleep"   -> "slept"
                 [] pc[t] = "suspend" -> "parked")
    /\ UNCHANGED target

\* BUG: the timer is started before the thread is suspended
BugTimerBeforeSuspend(t) ==
    /\ Calls(t, "sleep")
    /\ k.lock = 0
    /\ k' = rt_thread_suspend(StartTimer(k, t), t)
    /\ Goto(t, "sleep")
    /\ UNCHANGED target

(* Blocking calls are made with the scheduler unlocked. *)
rt_thread_sleep(t) ==
    /\ Calls(t, "sleep")
    /\ k.lock = 0
    /\ k' = StartTimer(rt_thread_suspend(k, t), t)
    /\ Goto(t, "sleep")
    /\ UNCHANGED target

SleepReturns(t) ==
    /\ Running(t, "slept")
    /\ k' = [k EXCEPT !.err[t] = IF @ = "timeout" THEN "ok" ELSE @]
    /\ Goto(t, "user")
    /\ UNCHANGED target

(* rt_thread_suspend(rt_thread_self()), followed by rt_schedule as its     *)
(* comment asks.                                                           *)
SuspendSelf(t) ==
    /\ Calls(t, "suspend")
    /\ k.lock = 0
    /\ k' = rt_thread_suspend(k, t)
    /\ Goto(t, "suspend")
    /\ UNCHANGED target

SuspendReturns(t) ==
    /\ Running(t, "parked")
    /\ Goto(t, "user")
    /\ UNCHANGED <<k, target>>

Resuming(u) == { t \in Thread : pc[t] \in {"resume", "unlinked"} /\ target[t] = u }

MayResume(u) ==
    OneWaker => Resuming(u) = {} /\ pc[u] \in {"suspend", "parked"}

\* BUG: the state is not tested
BugResumeUnchecked(t, u) ==
    /\ Calls(t, "resume")
    /\ MayResume(u)
    /\ target' = [target EXCEPT ![t] = u]
    /\ Goto(t, "resume")
    /\ UNCHANGED k

(* rt_thread_resume reads stat before it disables interrupts. *)
ResumeCheck(t, u) ==
    /\ Calls(t, "resume")
    /\ MayResume(u)
    /\ k.stat[u] = "suspend"
    /\ target' = [target EXCEPT ![t] = u]
    /\ Goto(t, "resume")
    /\ UNCHANGED k

ResumeUnlinks(t) ==
    /\ Running(t, "resume")
    /\ k' = ResumeUnlink(k, target[t])
    /\ Goto(t, "unlinked")
    /\ UNCHANGED target

(* Interrupts were enabled in between; the caller goes on to rt_schedule,  *)
(* as every caller in the kernel does.                                     *)
ResumeInserts(t) ==
    /\ Running(t, "unlinked")
    /\ k' = rt_schedule_insert_thread(k, target[t])
    /\ target' = [target EXCEPT ![t] = t]
    /\ Goto(t, "sched")

(* rt_thread_startup of a thread made by rt_thread_init: it becomes        *)
(* SUSPEND with its initial priority, is resumed, and the caller schedules.*)
rt_thread_startup(t, u) ==
    /\ Calls(t, "startup")
    /\ k.stat[u] = "init"
    /\ k' = rt_thread_resume([k EXCEPT !.stat[u] = "suspend"], u)
    /\ Goto(t, "sched")
    /\ UNCHANGED target

(* RT_THREAD_CTRL_CHANGE_PRIORITY of any thread but idle: no rt_schedule   *)
(* follows.                                                                *)
rt_thread_control(t, u, p) ==
    /\ Calls(t, "priority")
    /\ u # Idle
    /\ k.stat[u] # "init"
    /\ k' = ChangePriority(k, u, p)
    /\ UNCHANGED <<pc, target>>

rt_enter_critical(t) ==
    /\ Calls(t, "critical")
    /\ k.lock < MaxLock
    /\ k' = [k EXCEPT !.lock = @ + 1]
    /\ UNCHANGED <<pc, target>>

\* BUG: the lock count is not stopped at zero
BugExitUnderflows(t) ==
    /\ Calls(t, "critical")
    /\ k' = [k EXCEPT !.lock = @ - 1]
    /\ Goto(t, IF k.lock <= 1 THEN "sched" ELSE "user")
    /\ UNCHANGED target

(* Only the outermost exit schedules; one exit too many is repaired. *)
rt_exit_critical(t) ==
    /\ Calls(t, "critical")
    /\ k' = [k EXCEPT !.lock = IF @ > 0 THEN @ - 1 ELSE 0]
    /\ Goto(t, IF k.lock <= 1 THEN "sched" ELSE "user")
    /\ UNCHANGED target

-----------------------------------------------------------------------------
(* Interrupt handlers. *)

(* rt_tick_increase, when the current thread has used up its time slice *)
SliceExpires ==
    /\ k' = rt_schedule(k)
    /\ UNCHANGED <<pc, target>>

(* rt_timer_check, when the timer of u is due *)
TimerFires(u) ==
    /\ k.tmr[u]
    /\ k' = rt_thread_timeout(k, u)
    /\ UNCHANGED <<pc, target>>

(* A device interrupt that resumes a thread and schedules. *)
DeviceWakes(u) ==
    /\ "wake" \in Api
    /\ MayResume(u)
    /\ k.stat[u] = "suspend"
    /\ k' = rt_schedule(rt_thread_resume(k, u))
    /\ UNCHANGED <<pc, target>>

-----------------------------------------------------------------------------
CallReturns(t) ==
    \/ DoSchedule(t)
    \/ SleepReturns(t)
    \/ SuspendReturns(t)
    \/ ResumeUnlinks(t)
    \/ ResumeInserts(t)

ThreadStep(t) ==
    \/ CallReturns(t)
    \/ rt_thread_yield(t)
    \/ rt_thread_sleep(t)
    \/ SuspendSelf(t)
    \/ rt_enter_critical(t)
    \/ rt_exit_critical(t)
    \/ \E u \in Thread :
        \/ ResumeCheck(t, u)
        \/ rt_thread_startup(t, u)
        \/ \E p \in Priority \ {k.prio[Idle]} : rt_thread_control(t, u, p)

Interrupt ==
    \/ SliceExpires
    \/ \E u \in Thread : TimerFires(u) \/ DeviceWakes(u)

Next == Interrupt \/ \E t \in Thread : ThreadStep(t)

Spec == Init /\ [][Next]_vars

(* The CPU executes the current thread until its call returns, a thread    *)
(* that goes on running leaves its critical section, the clock ticks, and  *)
(* every timer comes due.  Each conjunct but the second is the WF of its   *)
(* action with the condition for a step written out.                       *)
Fairness ==
    /\ \A t \in Thread : \/ []<>(k.cur # t \/ pc[t] = "user")
                         \/ []<><<CallReturns(t)>>_vars
    /\ \A t \in Thread : SF_vars(k.lock > 0 /\ rt_exit_critical(t))
    /\ []<>(rt_schedule(k) = k) \/ []<><<SliceExpires>>_vars
    /\ \A t \in Thread : []<>~k.tmr[t] \/ []<><<TimerFires(t)>>_vars

FairSpec == Spec /\ Fairness
-----------------------------------------------------------------------------
TypeOK ==
    /\ k \in KernelState
    /\ pc \in [Thread -> PC]
    /\ target \in [Thread -> Thread]

(* Every thread is linked in at most one list, the ready lists hold        *)
(* exactly the ready threads, the bitmap that finds the next thread is     *)
(* exact, and only suspended threads have a running timer: across every    *)
(* interleaving of calls with the timer and device interrupts that insert, *)
(* remove and re-insert the same tlist nodes.                              *)
KernelConsistent == KernelOK(k)

(* kernel.h:28 "full preemptive priority-based scheduling": application    *)
(* code runs only in a thread no ready thread is more urgent than, unless  *)
(* the thread has locked the scheduler.                                    *)
RunsHighest ==
    pc[k.cur] = "user" /\ k.lock = 0 => CurrentIsHighest(k)

(* Two threads are never RUNNING, the current one is never left in a       *)
(* ready list, and application code runs only in a RUNNING thread: a       *)
(* thread resumed by an interrupt between its rt_thread_suspend and its    *)
(* rt_schedule, or preempted in between, is the case that could break it.  *)
OnlyCurrentRuns ==
    /\ CurrentOK(k)
    /\ pc[k.cur] = "user" => k.stat[k.cur] = "running"

(* thread.c:699 rt_thread_resume "will resume a thread and put it to       *)
(* system ready queue": a READY thread is in the ready list of its         *)
(* priority, whoever else was resuming it.                                 *)
ReadyIsQueued ==
    \A t \in Thread : k.stat[t] = "ready" => Contains(k.list[k.prio[t]], t)

(* Between the check of rt_thread_resume and the insertion the thread      *)
(* stays suspended, without timer, and is nobody else's to resume: what    *)
(* the application must guarantee for the unprotected check to be sound.   *)
ResumeTargetHeld ==
    \A t \in Thread : pc[t] \in {"resume", "unlinked"} =>
        LET u == target[t] IN
        /\ k.stat[u] = "suspend" /\ ~k.tmr[u] /\ u # k.cur
        /\ pc[u] \in {"suspend", "parked"}
        /\ Resuming(u) = {t}

(* The inductive invariant: a thread that is not RUNNING has the CPU only  *)
(* between suspending itself and rt_schedule; idle is always runnable, so  *)
(* rt_schedule finds a thread; no thread here waits on an object.          *)
SchedulerInv ==
    /\ KernelOK(k)
    /\ CurrentOK(k)
    /\ ResumeTargetHeld
    /\ k.stat[k.cur] # "running" =>
          /\ pc[k.cur] \in {"sleep", "suspend"}
          /\ k.stat[k.cur] = "suspend"
          /\ k.lock = 0
    /\ pc[Idle] = "user" /\ k.stat[Idle] \in {"ready", "running"}
    /\ \A u \in Thread : pc[u] \in {"suspend", "parked"} => ~k.tmr[u]
    /\ \A u \in Thread : k.stat[u] = "init" => pc[u] = "user" /\ ~k.tmr[u]
    /\ \A q \in WaitQueue, u \in Thread : ~Contains(k.list[q], u)

(* Its inductive form for RunsHighest: a more urgent thread may be ready    *)
(* only between the statement that made it ready and rt_schedule.          *)
HighestInv ==
    pc[k.cur] \notin {"sched", "sleep", "suspend"} /\ k.lock = 0
        => CurrentIsHighest(k)

(* t is the kind of thread that should get the CPU next. *)
Competes(t) ==
    /\ k.stat[t] = "ready"
    /\ k.prio[t] = Min(k.table)
    /\ k.prio[t] <= k.prio[k.cur]

(* kernel.h:31 threads of one priority share the CPU by time slices: a     *)
(* thread that is ready at the most urgent level gets the CPU unless a     *)
(* more urgent one becomes ready.                                          *)
RoundRobin ==
    \A t \in Thread : Competes(t) ~> (k.cur = t \/ ~Competes(t))

(* rt_thread_sleep: a sleeper is made ready again. *)
SleepEnds ==
    \A t \in Thread : pc[t] = "sleep" ~> k.stat[t] # "suspend"
=============================================================================
