----------------------------- MODULE Semaphore ------------------------------
(***************************************************************************)
(* The semaphore of src/ipc.c: threads that take it, with and without      *)
(* waiting, and release it, an interrupt that releases it, a reset and a   *)
(* detach while threads wait.  Each thread holds at most one token here.   *)
(***************************************************************************)
EXTENDS IpcObject

CONSTANTS InitValue,
          Produced     \* bound: tokens the interrupt releases

ASSUME SemaphoreAssumption ==
    /\ InitValue \in Nat
    /\ Produced \in Nat

VARIABLES value,       \* sem->value
          holds,       \* the threads whose last take has returned RT_EOK
          produced,    \* tokens released by the interrupt
          total        \* history: tokens in the world

sem == <<value, holds, alive, produced, total>>
semVars == <<k, pc, sem>>

SemInit ==
    /\ ThreadsInit
    /\ value = InitValue
    /\ holds = {}
    /\ alive = TRUE
    /\ produced = 0
    /\ total = InitValue

\* BUG: the value is not tested
BugTakeUnguarded(t) ==
    /\ Calls(t, "take") /\ alive /\ t \notin holds
    /\ value' = value - 1
    /\ holds' = holds \cup {t}
    /\ UNCHANGED <<k, pc, alive, produced, total>>

(* rt_sem_take with a token there, and rt_sem_trytake; without one a call  *)
(* with time = 0 fails and changes nothing.                                *)
TakeNow(t) ==
    /\ Calls(t, "take") /\ alive /\ t \notin holds
    /\ value > 0
    /\ value' = value - 1
    /\ holds' = holds \cup {t}
    /\ UNCHANGED <<k, pc, alive, produced, total>>

\* BUG: an old error is not cleared
BugTakeKeepsError(t, timed) ==
    /\ Calls(t, "take") /\ alive /\ t \notin holds /\ value = 0
    /\ LET k1 == rt_ipc_list_suspend(k, Object, t, Flag)
       IN  k' = IF timed THEN StartTimer(k1, t) ELSE k1
    /\ Goto(t, "sched")
    /\ UNCHANGED sem

TakeWaits(t, timed) ==
    /\ Calls(t, "take") /\ alive /\ t \notin holds
    /\ value = 0
    /\ k.lock = 0
    /\ Block(t, Object, Flag, timed)
    /\ Goto(t, "sched")
    /\ UNCHANGED sem

TakeSchedules(t) == Reschedule(t, "sched", "woken") /\ UNCHANGED sem

(* Woken with an error, it has no token. *)
TakeReturns(t) ==
    /\ Running(t, "woken")
    /\ holds' = IF Failed(t) THEN holds ELSE holds \cup {t}
    /\ Goto(t, "user")
    /\ UNCHANGED <<k, value, alive, produced, total>>

\* BUG: the value is raised although a waiter is woken
BugPutCountsToo ==
    /\ value' = value + 1
    /\ k' = IF Waiters # <<>> THEN rt_ipc_list_resume(k, Object) ELSE k

(* The part of rt_sem_release with interrupts disabled. *)
Put ==
    IF Waiters # <<>>
    THEN k' = rt_ipc_list_resume(k, Object) /\ UNCHANGED value
    ELSE value' = value + 1 /\ UNCHANGED k

rt_sem_release(t) ==
    /\ Calls(t, "take") /\ alive /\ t \in holds
    /\ Put
    /\ holds' = holds \ {t}
    /\ Goto(t, IF Waiters # <<>> THEN "released" ELSE "user")
    /\ UNCHANGED <<alive, produced, total>>

ReleaseSchedules(t) == Reschedule(t, "released", "user") /\ UNCHANGED sem

(* rt_sem_control(RT_IPC_CMD_RESET): interrupts stay disabled throughout.  *)
rt_sem_control(t, v) ==
    /\ Calls(t, "reset") /\ alive
    /\ k' = rt_ipc_list_resume_all(k, Object)
    /\ value' = v
    /\ total' = total - value + v
    /\ Goto(t, "released")
    /\ UNCHANGED <<holds, alive, produced>>

(* rt_sem_detach and rt_sem_delete *)
SemDetachStarts(t) ==
    /\ Calls(t, "detach") /\ alive
    /\ alive' = FALSE
    /\ Goto(t, "check")
    /\ UNCHANGED <<k, value, holds, produced, total>>

SemDetachResumes(t) ==
    /\ \/ ChecksList(t, "check", Object, "resume", "user")
       \/ ResumesNext(t, "resume", Object, "check")
    /\ UNCHANGED sem

-----------------------------------------------------------------------------
(* Interrupts. *)

SemSleep(t) == Sleeps(t) /\ UNCHANGED sem

SemSlice == SliceExpires /\ UNCHANGED sem

SemTimeout(u) == TimerFires(u) /\ UNCHANGED sem

(* A device interrupt releases the semaphore. *)
IsrRelease ==
    /\ alive /\ produced < Produced
    /\ produced' = produced + 1
    /\ total' = total + 1
    /\ IF Waiters # <<>>
       THEN k' = rt_schedule(rt_ipc_list_resume(k, Object)) /\ UNCHANGED value
       ELSE value' = value + 1 /\ UNCHANGED k
    /\ UNCHANGED <<pc, holds, alive>>

-----------------------------------------------------------------------------
SemThreadStep(t) ==
    \/ TakeNow(t)
    \/ \E timed \in BOOLEAN : TakeWaits(t, timed)
    \/ TakeSchedules(t)
    \/ TakeReturns(t)
    \/ rt_sem_release(t)
    \/ ReleaseSchedules(t)
    \/ \E v \in 0 .. InitValue : rt_sem_control(t, v)
    \/ SemDetachStarts(t)
    \/ SemDetachResumes(t)

SemNext ==
    \/ \E t \in Thread : SemThreadStep(t)
    \/ \E t \in Thread : SemSleep(t)
    \/ SemSlice
    \/ \E u \in Thread : SemTimeout(u)
    \/ IsrRelease

SemSpec == SemInit /\ [][SemNext]_semVars
-----------------------------------------------------------------------------
SemTypeOK ==
    /\ k \in KernelState
    /\ pc \in [Thread -> PC]
    /\ value \in Nat
    /\ holds \subseteq Thread
    /\ alive \in BOOLEAN
    /\ produced \in 0 .. Produced
    /\ total \in Nat

(* Given a token by rt_sem_release, but not back in its call yet. *)
Granted == { t \in Thread : Woken(t, Object) }

(* No token is lost or made: every one is in value, with a thread, or on   *)
(* its way to a thread that was woken, whatever timeouts and releases      *)
(* arrive while waiters queue, switch and return.                          *)
TokensConserved == total = value + Cardinality(holds) + Cardinality(Granted)

(* Nobody waits while a token is available: no release was missed between  *)
(* the test of value and the insertion in the list.                        *)
NoTokenIdle == value > 0 => Waiters = <<>>

(* kernel.h:86 RT_IPC_FLAG_PRIO: the waiter of the most urgent priority    *)
(* gets the resource; those on the list are suspended in this call.        *)
UrgentFirst ==
    /\ Flag = "prio" => SortedByPriority(Object)
    /\ \A t \in Thread : Waits(t, Object) => pc[t] \in {"sched", "woken"}
    /\ KernelOK(k)

(* ipc.c:167 "get next suspend thread": there is one. *)
NextIsSuspended == \A t \in Thread : pc[t] # "fault"

(* Every step of the code is a step of the abstract semaphore. *)
Abstract == INSTANCE CountingSemaphore WITH
    Client <- Thread,
    Rank   <- [t \in Thread |-> IF Flag = "prio" THEN InitPriority[t] ELSE 0],
    tokens <- value,
    state  <- [t \in Thread |-> IF Waits(t, Object) THEN "waiting"
                                ELSE IF t \in holds \cup Granted THEN "holding"
                                ELSE "out"]

ImplementsSemaphore == Abstract!Spec
=============================================================================
