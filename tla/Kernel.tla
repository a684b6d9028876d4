------------------------------- MODULE Kernel -------------------------------
(***************************************************************************)
(* The scheduler's data and the operations on it that every other part of  *)
(* the RT-Thread kernel calls (src/scheduler.c, src/thread.c and the list  *)
(* helpers of src/ipc.c), for one CPU.                                     *)
(*                                                                         *)
(* All of them run with interrupts disabled, so each is one function on a  *)
(* record k that holds the scheduler's globals and the fields of all the   *)
(* thread control blocks:                                                  *)
(*   k.cur    rt_current_thread                                            *)
(*   k.lock   rt_scheduler_lock_nest                                       *)
(*   k.table  rt_thread_ready_table, as the set of priorities whose bit is *)
(*            set                                                          *)
(*   k.group  rt_thread_ready_priority_group, as the set of its set bits   *)
(*   k.list   every list a thread's tlist node can be linked in: the ready *)
(*            lists rt_thread_priority_table[p] and the suspend lists of   *)
(*            the objects                                                  *)
(*   k.stat, k.prio (current_priority), k.err (error), k.tmr (the thread   *)
(*            timer is linked in the timer list): per thread               *)
(***************************************************************************)
EXTENDS Integers, FiniteSets, SequencesExt

CONSTANTS Thread,        \* every thread, the idle thread included
          Idle,          \* tidle: never blocks, alone at the lowest priority
          PriorityMax,   \* RT_THREAD_PRIORITY_MAX
          GroupSize,     \* priorities per byte of the ready table (8)
          WaitQueue      \* the suspend lists of the kernel objects

ASSUME KernelAssumption ==
    /\ Idle \in Thread
    /\ PriorityMax \in Nat \ {0}
    /\ GroupSize \in Nat \ {0}

Priority == 0 .. PriorityMax - 1
Group == { p \div GroupSize : p \in Priority }
Stat == {"init", "ready", "suspend", "running", "close"}
Error == {"ok", "timeout", "error"}

ASSUME QueuesAreNotPriorities == WaitQueue \cap Priority = {}

ListHead == Priority \cup WaitQueue

KernelState ==
    [cur   : Thread,
     lock  : Nat,
     table : SUBSET Priority,
     group : SUBSET Group,
     list  : [ListHead -> Seq(Thread)],
     stat  : [Thread -> Stat],
     prio  : [Thread -> Priority],
     err   : [Thread -> Error],
     tmr   : [Thread -> BOOLEAN]]

(* rt_list_remove of a tlist node: off whatever list it is linked in. *)
rt_list_remove(k, t) ==
    [k EXCEPT !.list = [h \in ListHead |-> RemoveFirst(@[h], t)]]

rt_schedule_insert_thread(k, t) ==
    LET p == k.prio[t]
    IN  IF t = k.cur
        THEN [k EXCEPT !.stat[t] = "running"]
        ELSE [k EXCEPT !.stat[t]  = "ready",
                       !.list[p]  = Append(@, t),
                       !.table    = @ \cup {p},
                       !.group    = @ \cup {p \div GroupSize}]

\* BUG: the bit of the group is cleared with any thread of it
BugRemoveClearsGroup(k, t) ==
    LET p == k.prio[t]
    IN  [rt_list_remove(k, t) EXCEPT !.table = @ \ {p},
                                     !.group = @ \ {p \div GroupSize}]

(* The bit of a priority goes when its list is empty, the bit of a group   *)
(* when its byte of the table is zero.                                     *)
rt_schedule_remove_thread(k, t) ==
    LET p     == k.prio[t]
        k1    == rt_list_remove(k, t)
        table == k.table \ {p}
    IN  IF k1.list[p] # <<>>
        THEN k1
        ELSE [k1 EXCEPT
                !.table = table,
                !.group = IF \E q \in table : q \div GroupSize = p \div GroupSize
                          THEN @
                          ELSE @ \ {p \div GroupSize}]

(* _get_highest_priority_thread: first set bit of the group word, then     *)
(* first set bit of that byte of the table.                                *)
HighestReady(k) ==
    LET g == Min(k.group)
    IN  Min({ p \in k.table : p \div GroupSize = g })

\* BUG: an equal does not take the CPU over
BugScheduleKeepsTies(k) ==
    IF k.lock # 0 \/ k.group = {} \/
       (k.stat[k.cur] = "running" /\ k.prio[k.cur] <= HighestReady(k))
    THEN k
    ELSE LET to == Head(k.list[HighestReady(k)])
             k1 == [k EXCEPT !.cur = to]
             k2 == IF k.stat[k.cur] = "running"
                   THEN rt_schedule_insert_thread(k1, k.cur)
                   ELSE k1
         IN  [rt_schedule_remove_thread(k2, to) EXCEPT !.stat[to] = "running"]

\* BUG: the preempted thread is not queued
BugScheduleDropsFrom(k) ==
    IF k.lock # 0 \/ k.group = {} \/
       (k.stat[k.cur] = "running" /\ k.prio[k.cur] < HighestReady(k))
    THEN k
    ELSE LET to == Head(k.list[HighestReady(k)])
         IN  [rt_schedule_remove_thread([k EXCEPT !.cur = to], to)
                 EXCEPT !.stat[to] = "running"]

(* A running thread keeps the CPU only if it is strictly more urgent than  *)
(* every ready thread; otherwise it goes to the tail of its ready list.    *)
rt_schedule(k) ==
    IF k.lock # 0 \/ k.group = {}
    THEN k
    ELSE LET high    == HighestReady(k)
             from    == k.cur
             running == k.stat[from] = "running"
             to      == IF running /\ k.prio[from] < high
                        THEN from
                        ELSE Head(k.list[high])
             k1      == [k EXCEPT !.cur = to]
             k2      == IF running /\ to # from
                        THEN rt_schedule_insert_thread(k1, from)
                        ELSE k1
         IN  [rt_schedule_remove_thread(k2, to) EXCEPT !.stat[to] = "running"]

-----------------------------------------------------------------------------
(* src/thread.c *)

(* Allowed for a ready or running thread only: otherwise -RT_ERROR.        *)
CanSuspend(k, t) == k.stat[t] \in {"ready", "running"}

(* The body of rt_thread_suspend once interrupts are disabled. *)
Suspend(k, t) ==
    [rt_schedule_remove_thread(k, t) EXCEPT !.stat[t] = "suspend",
                                            !.tmr[t]  = FALSE]

rt_thread_suspend(k, t) == IF CanSuspend(k, t) THEN Suspend(k, t) ELSE k

(* The two halves of rt_thread_resume: between them interrupts are enabled *)
(* unless the caller had disabled them.                                    *)
ResumeUnlink(k, t) == [rt_list_remove(k, t) EXCEPT !.tmr[t] = FALSE]

rt_thread_resume(k, t) ==
    IF k.stat[t] # "suspend"
    THEN k
    ELSE rt_schedule_insert_thread(ResumeUnlink(k, t), t)

(* rt_timer_control(SET_TIME) and rt_timer_start on the thread's timer. *)
StartTimer(k, t) == [k EXCEPT !.tmr[t] = TRUE]

(* The timer interrupt finds the timer of t due: it unlinks the timer and  *)
(* calls the timeout function.                                             *)
TimedOut(k, t) ==
    LET k1 == [k EXCEPT !.tmr[t] = FALSE, !.err[t] = "timeout"]
    IN  rt_schedule_insert_thread(rt_list_remove(k1, t), t)

\* BUG: the timeout does not reschedule
BugTimeoutNoSchedule(k, t) == TimedOut(k, t)

rt_thread_timeout(k, t) == rt_schedule(TimedOut(k, t))

\* BUG: the thread is not moved to its new ready list
BugPriorityInPlace(k, t, p) == [k EXCEPT !.prio[t] = p]

(* rt_thread_control(RT_THREAD_CTRL_CHANGE_PRIORITY): a ready thread moves *)
(* to its new list; a thread on a suspend list keeps its place.            *)
ChangePriority(k, t, p) ==
    IF k.stat[t] = "ready"
    THEN rt_schedule_insert_thread(
             [rt_schedule_remove_thread(k, t) EXCEPT !.prio[t] = p], t)
    ELSE [k EXCEPT !.prio[t] = p]

-----------------------------------------------------------------------------
(* src/ipc.c: the suspend lists. *)

\* BUG: the least urgent waiter comes first
BugPlaceReversed(k, s, p, flag) ==
    IF flag = "fifo"
    THEN Len(s) + 1
    ELSE Min({ i \in 1 .. Len(s) : p > k.prio[s[i]] } \cup {Len(s) + 1})

\* BUG: the flag is ignored: always first come, first served
BugPlaceFifo(k, s, p, flag) == Len(s) + 1

(* The place of a thread of priority p in a suspend list ordered by flag.  *)
Place(k, s, p, flag) ==
    IF flag = "fifo"
    THEN Len(s) + 1
    ELSE Min({ i \in 1 .. Len(s) : p < k.prio[s[i]] } \cup {Len(s) + 1})

rt_ipc_list_suspend(k, q, t, flag) ==
    LET k1 == rt_thread_suspend(k, t)
    IN  [k1 EXCEPT !.list[q] =
            InsertAt(@, Place(k1, @, k1.prio[t], flag), t)]

rt_ipc_list_resume(k, q) == rt_thread_resume(k, Head(k.list[q]))

(* One turn of the loop of rt_ipc_list_resume_all. *)
ResumeWithError(k, q) ==
    rt_ipc_list_resume([k EXCEPT !.err[Head(k.list[q])] = "error"], q)

(* The whole loop, for a caller that has interrupts disabled. *)
rt_ipc_list_resume_all(k, q) ==
    LET turns[n \in 0 .. Len(k.list[q])] ==
            IF n = 0 THEN k ELSE ResumeWithError(turns[n - 1], q)
    IN  turns[Len(k.list[q])]

-----------------------------------------------------------------------------
(* What the rest of the kernel relies on. *)

(* A tlist node is linked at most once. *)
LinkedOnce(k) ==
    /\ \A h \in ListHead : IsInjective(k.list[h])
    /\ \A g, h \in ListHead, t \in Thread :
          Contains(k.list[g], t) /\ Contains(k.list[h], t) => g = h

(* The ready lists hold the ready threads, each at its priority. *)
ReadyListed(k) ==
    \A p \in Priority, t \in Thread :
        Contains(k.list[p], t) <=> k.stat[t] = "ready" /\ k.prio[t] = p

(* The two-level bitmap says which ready lists hold a thread. *)
BitmapExact(k) ==
    /\ k.table = { p \in Priority : k.list[p] # <<>> }
    /\ k.group = { p \div GroupSize : p \in k.table }

(* Only suspended threads wait on objects and have their timer running.    *)
WaitersSuspended(k) ==
    /\ \A q \in WaitQueue, t \in Thread :
          Contains(k.list[q], t) => k.stat[t] = "suspend"
    /\ \A t \in Thread : k.tmr[t] => k.stat[t] = "suspend"

(* RUNNING means having the CPU, and who has it is not in a ready list. *)
CurrentOK(k) ==
    /\ \A t \in Thread : k.stat[t] = "running" => t = k.cur
    /\ k.stat[k.cur] # "ready"

(* No ready thread is more urgent than the one that has the CPU. *)
CurrentIsHighest(k) ==
    \A t \in Thread : k.stat[t] = "ready" => k.prio[k.cur] <= k.prio[t]

(* Just after rt_system_scheduler_start: first, the most urgent of the     *)
(* started threads, runs and the others are in the ready lists.            *)
KernelStart(first, priority, ready) ==
    [cur   |-> first,
     lock  |-> 0,
     table |-> { p \in Priority : ready[p] # <<>> },
     group |-> { p \div GroupSize : p \in { q \in Priority : ready[q] # <<>> } },
     list  |-> [h \in ListHead |-> IF h \in Priority THEN ready[h] ELSE <<>>],
     stat  |-> [t \in Thread |->
                 IF t = first THEN "running"
                 ELSE IF Contains(ready[priority[t]], t)
                      THEN "ready"
                      ELSE "init"],
     prio  |-> priority,
     err   |-> [t \in Thread |-> "ok"],
     tmr   |-> [t \in Thread |-> FALSE]]

KernelOK(k) ==
    /\ LinkedOnce(k)
    /\ ReadyListed(k)
    /\ BitmapExact(k)
    /\ WaitersSuspended(k)
=============================================================================
