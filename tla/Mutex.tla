------------------------------- MODULE Mutex --------------------------------
(***************************************************************************)
(* The mutexes of src/ipc.c, with ownership, recursion and the priority    *)
(* inheritance that rt_mutex_take and rt_mutex_release do with             *)
(* rt_thread_control.                                                      *)
(***************************************************************************)
EXTENDS Threads

CONSTANTS Mutexes,     \* each named as its suspend list
          Flag,        \* "fifo" or "prio"
          NoOwner,     \* RT_NULL
          MaxTakes     \* bound: takes of a mutex that a thread nests

ASSUME MutexAssumption ==
    /\ WaitQueue = Mutexes /\ Mutexes # {}
    /\ Flag \in {"fifo", "prio"}
    /\ NoOwner \notin Thread
    /\ MaxTakes \in [Thread -> [Mutexes -> Nat]]

VARIABLES value, owner, original, hold,  \* fields of each mutex; original is
                                         \* original_priority, PriorityMax if none
          alive,      \* the mutexes that are not detached
          wants,      \* wants[t]: the mutex that t waits for in its call
          held,       \* history: held[t][m] takes returned RT_EOK, not released
          nested      \* history: threads that have owned two mutexes at once

mutex == <<value, owner, original, hold, alive>>
history == <<held, nested>>
vars == <<k, pc, mutex, wants, history>>

PC == {"user", "sleep", "slept", "sched", "woken", "released",
       "check", "resume", "fault"}

(* What wants holds for a thread outside such a call. *)
AnyMutex == CHOOSE m \in Mutexes : TRUE

Init ==
    /\ ThreadsInit
    /\ value = [m \in Mutexes |-> 1]
    /\ owner = [m \in Mutexes |-> NoOwner]
    /\ original = [m \in Mutexes |-> PriorityMax]
    /\ hold = [m \in Mutexes |-> 0]
    /\ alive = Mutexes
    /\ wants = [t \in Thread |-> AnyMutex]
    /\ held = [t \in Thread |-> [m \in Mutexes |-> 0]]
    /\ nested = {}

Owns(t) == { m \in Mutexes : owner[m] = t }

BecomesOwner(t, m) ==
    /\ owner' = [owner EXCEPT ![m] = t]
    /\ nested' = IF Owns(t) \subseteq {m} THEN nested ELSE nested \cup {t}

(* rt_mutex_take by the owner *)
TakeAgain(t, m) ==
    /\ Calls(t, "take")
    /\ owner[m] = t /\ hold[m] < MaxTakes[t][m]
    /\ k' = [k EXCEPT !.err[t] = "ok"]
    /\ hold' = [hold EXCEPT ![m] = @ + 1]
    /\ held' = [held EXCEPT ![t][m] = @ + 1]
    /\ UNCHANGED <<pc, value, owner, original, alive, wants, nested>>

\* BUG: the owner is not tested
BugTakeOwned(t, m) ==
    /\ Calls(t, "take")
    /\ owner[m] # t
    /\ k' = [k EXCEPT !.err[t] = "ok"]
    /\ value' = [value EXCEPT ![m] = 0]
    /\ BecomesOwner(t, m)
    /\ original' = [original EXCEPT ![m] = k.prio[t]]
    /\ hold' = [hold EXCEPT ![m] = @ + 1]
    /\ held' = [held EXCEPT ![t][m] = @ + 1]
    /\ UNCHANGED <<pc, alive, wants>>

TakeFree(t, m) ==
    /\ Calls(t, "take")
    /\ owner[m] # t /\ value[m] > 0
    /\ k' = [k EXCEPT !.err[t] = "ok"]
    /\ value' = [value EXCEPT ![m] = @ - 1]
    /\ BecomesOwner(t, m)
    /\ original' = [original EXCEPT ![m] = k.prio[t]]
    /\ hold' = [hold EXCEPT ![m] = @ + 1]
    /\ held' = [held EXCEPT ![t][m] = @ + 1]
    /\ UNCHANGED <<pc, alive, wants>>

\* BUG: the owner does not inherit the priority of the waiter
BugTakeNoInheritance(t, m, timed) ==
    /\ Calls(t, "take")
    /\ owner[m] # t /\ value[m] = 0
    /\ LET k1 == rt_ipc_list_suspend([k EXCEPT !.err[t] = "ok"], m, t, Flag)
       IN  k' = IF timed THEN StartTimer(k1, t) ELSE k1
    /\ wants' = [wants EXCEPT ![t] = m]
    /\ Goto(t, "sched")
    /\ UNCHANGED <<mutex, history>>

(* The owner inherits the priority of a more urgent thread that waits.     *)
TakeWaits(t, m, timed) ==
    /\ Calls(t, "take")
    /\ owner[m] # t /\ value[m] = 0
    /\ LET k0 == [k EXCEPT !.err[t] = "ok"]
           k1 == IF k.prio[t] < k.prio[owner[m]]
                 THEN ChangePriority(k0, owner[m], k.prio[t])
                 ELSE k0
           k2 == rt_ipc_list_suspend(k1, m, t, Flag)
       IN  k' = IF timed THEN StartTimer(k2, t) ELSE k2
    /\ wants' = [wants EXCEPT ![t] = m]
    /\ Goto(t, "sched")
    /\ UNCHANGED <<mutex, history>>

(* rt_mutex_take(m, 0) *)
TakeFails(t, m) ==
    /\ Calls(t, "trytake")
    /\ owner[m] # t /\ value[m] = 0
    /\ k' = [k EXCEPT !.err[t] = "timeout"]
    /\ UNCHANGED <<pc, mutex, wants, history>>

TakeSchedules(t) ==
    /\ Reschedule(t, "sched", "woken")
    /\ UNCHANGED <<mutex, wants, history>>

TakeReturns(t) ==
    /\ Running(t, "woken")
    /\ held' = IF Failed(t) THEN held ELSE [held EXCEPT ![t][wants[t]] = @ + 1]
    /\ wants' = [wants EXCEPT ![t] = AnyMutex]
    /\ Goto(t, "user")
    /\ UNCHANGED <<k, mutex, nested>>

(* The owner's last release gives it back the priority it had when it took *)
(* the mutex, and hands the mutex to the first thread that waits.          *)
BackToOriginal(m) ==
    LET t == owner[m]
    IN  IF original[m] # k.prio[t] THEN ChangePriority(k, t, original[m]) ELSE k

ReleaseHeld(t, m) ==
    /\ Calls(t, "take")
    /\ owner[m] = t /\ hold[m] > 1
    /\ hold' = [hold EXCEPT ![m] = @ - 1]
    /\ held' = [held EXCEPT ![t][m] = @ - 1]
    /\ UNCHANGED <<k, pc, value, owner, original, alive, wants, nested>>

\* BUG: the original priority is not restored
BugReleaseKeepsPriority(t, m) ==
    /\ Calls(t, "take")
    /\ owner[m] = t /\ hold[m] = 1 /\ k.list[m] = <<>>
    /\ k' = k
    /\ hold' = [hold EXCEPT ![m] = 0]
    /\ value' = [value EXCEPT ![m] = @ + 1]
    /\ owner' = [owner EXCEPT ![m] = NoOwner]
    /\ original' = [original EXCEPT ![m] = PriorityMax]
    /\ held' = [held EXCEPT ![t][m] = @ - 1]
    /\ UNCHANGED <<pc, alive, wants, nested>>

ReleaseFree(t, m) ==
    /\ Calls(t, "take")
    /\ owner[m] = t /\ hold[m] = 1 /\ k.list[m] = <<>>
    /\ k' = BackToOriginal(m)
    /\ hold' = [hold EXCEPT ![m] = 0]
    /\ value' = [value EXCEPT ![m] = @ + 1]
    /\ owner' = [owner EXCEPT ![m] = NoOwner]
    /\ original' = [original EXCEPT ![m] = PriorityMax]
    /\ held' = [held EXCEPT ![t][m] = @ - 1]
    /\ UNCHANGED <<pc, alive, wants, nested>>

\* BUG: the mutex is handed over and freed too
BugReleaseFreesToo(t, m) ==
    /\ Calls(t, "take")
    /\ owner[m] = t /\ hold[m] = 1 /\ k.list[m] # <<>>
    /\ LET u == Head(k.list[m]) IN
       /\ k' = rt_ipc_list_resume(BackToOriginal(m), m)
       /\ BecomesOwner(u, m)
       /\ original' = [original EXCEPT ![m] = k.prio[u]]
    /\ value' = [value EXCEPT ![m] = @ + 1]
    /\ held' = [held EXCEPT ![t][m] = @ - 1]
    /\ Goto(t, "released")
    /\ UNCHANGED <<hold, alive, wants>>

ReleaseHandsOver(t, m) ==
    /\ Calls(t, "take")
    /\ owner[m] = t /\ hold[m] = 1 /\ k.list[m] # <<>>
    /\ LET u == Head(k.list[m]) IN
       /\ k' = rt_ipc_list_resume(BackToOriginal(m), m)
       /\ BecomesOwner(u, m)
       /\ original' = [original EXCEPT ![m] = k.prio[u]]
    /\ held' = [held EXCEPT ![t][m] = @ - 1]
    /\ Goto(t, "released")
    /\ UNCHANGED <<value, hold, alive, wants>>

ReleaseSchedules(t) ==
    /\ Reschedule(t, "released", "user")
    /\ UNCHANGED <<mutex, wants, history>>

(* rt_mutex_release by a thread that is not the owner *)
ReleaseRefused(t, m) ==
    /\ Calls(t, "trytake")
    /\ owner[m] # t
    /\ k' = [k EXCEPT !.err[t] = "error"]
    /\ UNCHANGED <<pc, mutex, wants, history>>

(* rt_mutex_detach and rt_mutex_delete, whoever owns the mutex.            *)
DetachStarts(t, m) ==
    /\ Calls(t, "detach")
    /\ alive' = alive \ {m}
    /\ wants' = [wants EXCEPT ![t] = m]
    /\ Goto(t, "check")
    /\ UNCHANGED <<k, value, owner, original, hold, history>>

DetachResumes(t) ==
    /\ \/ ChecksList(t, "check", wants[t], "resume", "user")
       \/ ResumesNext(t, "resume", wants[t], "check")
    /\ UNCHANGED <<mutex, wants, history>>

Sleep(t) == Sleeps(t) /\ UNCHANGED <<mutex, wants, history>>

Slice == SliceExpires /\ UNCHANGED <<mutex, wants, history>>

Timeout(u) == TimerFires(u) /\ UNCHANGED <<mutex, wants, history>>

-----------------------------------------------------------------------------
ThreadStep(t) ==
    \/ TakeSchedules(t)
    \/ TakeReturns(t)
    \/ ReleaseSchedules(t)
    \/ Sleep(t)
    \/ DetachResumes(t)
    \/ \E m \in { n \in alive : MaxTakes[t][n] > 0 } :
        \/ TakeAgain(t, m)
        \/ TakeFree(t, m)
        \/ \E timed \in BOOLEAN : TakeWaits(t, m, timed)
        \/ TakeFails(t, m)
        \/ ReleaseHeld(t, m)
        \/ ReleaseFree(t, m)
        \/ ReleaseHandsOver(t, m)
        \/ ReleaseRefused(t, m)
        \/ DetachStarts(t, m)

Next ==
    \/ \E t \in Thread : ThreadStep(t)
    \/ Slice
    \/ \E u \in Thread : Timeout(u)

Spec == Init /\ [][Next]_vars
-----------------------------------------------------------------------------
TypeOK ==
    /\ k \in KernelState
    /\ pc \in [Thread -> PC]
    /\ value \in [Mutexes -> {0, 1}]
    /\ owner \in [Mutexes -> Thread \cup {NoOwner}]
    /\ original \in [Mutexes -> Priority \cup {PriorityMax}]
    /\ hold \in [Mutexes -> Nat]
    /\ alive \subseteq Mutexes
    /\ wants \in [Thread -> Mutexes]
    /\ held \in [Thread -> [Mutexes -> Nat]]
    /\ nested \subseteq Thread

(* The first waiter becomes owner while it still sleeps in its take. *)
HandedTo(t, m) ==
    pc[t] \in {"sched", "woken"} /\ wants[t] = m /\ ~Waits(t, m) /\ ~Failed(t)

(* A thread that was told it has the mutex is its owner, with as many      *)
(* releases to make as takes; a mutex handed over belongs to nobody else   *)
(* in between.                                                             *)
MutualExclusion ==
    \A m \in Mutexes, t \in Thread :
        held[t][m] + (IF HandedTo(t, m) THEN 1 ELSE 0)
            = IF owner[m] = t THEN hold[m] ELSE 0

(* A mutex is free exactly if it has no owner and no hold, nobody waits    *)
(* for a free mutex, and nobody waits for its own: after any timeout,      *)
(* hand-over or recursion.                                                 *)
FreeOrOwned ==
    \A m \in Mutexes :
        /\ value[m] = 1 <=> owner[m] = NoOwner
        /\ value[m] = 1 <=> hold[m] = 0
        /\ value[m] = 1 => k.list[m] = <<>>
        /\ owner[m] # NoOwner => ~Waits(owner[m], m)

(* kernel.h:77 "Mutex objects use inherited priority to prevent priority   *)
(* reversion": the owner is at least as urgent as every thread that waits. *)
NoReversion ==
    \A m \in Mutexes, w \in Thread :
        Waits(w, m) => k.prio[owner[m]] <= k.prio[w]

(* It is so for an owner that never had two mutexes, with waiters that     *)
(* have none and a list in the order of priorities.                        *)
NoSimpleReversion ==
    \A m \in Mutexes, w \in Thread :
        Waits(w, m) /\ Owns(w) = {} /\ owner[m] \notin nested
            => k.prio[owner[m]] <= k.prio[w]

(* ipc.c:830 "change the owner thread to original priority": a thread that *)
(* owns no mutex, and never owned two, has the priority it started with,   *)
(* also after a waiter that boosted it gave up.                            *)
PriorityRestored ==
    \A t \in Thread \ nested : Owns(t) = {} => k.prio[t] = InitPriority[t]

(* The scheduler's structures survive priority changes of owners that are  *)
(* running, ready, or waiting themselves.                                  *)
KernelConsistent == KernelOK(k) /\ CurrentOK(k)
=============================================================================
