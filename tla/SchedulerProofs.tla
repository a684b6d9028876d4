--------------------------- MODULE SchedulerProofs --------------------------
(***************************************************************************)
(* The scheduler keeps its lists, its bitmap and the thread states         *)
(* consistent, for any threads, priorities and application that resumes a  *)
(* thread from one place at a time; and, in the second half, the timers    *)
(* their lists sorted, none forgotten and no hard one late, for any        *)
(* timers, timeout functions and tick width, with interrupts between the   *)
(* steps of rt_soft_timer_check.                                           *)
(***************************************************************************)
EXTENDS Scheduler, Timer, KernelProofs, FiniteSetTheorems

(* What a step does to the part of the invariant that is about pc and      *)
(* target, given what it did to the thread states.                         *)
LEMMA KernelPart ==
    ASSUME k' \in KernelState, KernelOK(k'), CurrentOK(k'), ResumeTargetHeld',
           k'.stat[k'.cur] # "running" =>
              /\ pc'[k'.cur] \in {"sleep", "suspend"}
              /\ k'.stat[k'.cur] = "suspend"
              /\ k'.lock = 0,
           pc'[Idle] = "user", k'.stat[Idle] \in Runnable,
           \A u \in Thread : pc'[u] \in {"suspend", "parked"} => ~k'.tmr[u],
           \A u \in Thread : k'.stat[u] = "init" => pc'[u] = "user" /\ ~k'.tmr[u],
           \A q \in WaitQueue, u \in Thread : ~Contains(k'.list[q], u)
    PROVE  SchedulerInv'
BY DEF SchedulerInv, Runnable

LEMMA InitInv == Init => TypeOK /\ SchedulerInv
<1> SUFFICES ASSUME Init PROVE TypeOK /\ SchedulerInv
  OBVIOUS
<1> USE KernelAssumption, SchedulerAssumption
<1> DEFINE k0 == KernelStart(InitThread, InitPriority, InitReady)
<1>1. /\ k0.cur = InitThread /\ k0.lock = 0
      /\ k0.table = { p \in Priority : InitReady[p] # <<>> }
      /\ k0.group = { p \div GroupSize : p \in { q \in Priority : InitReady[q] # <<>> } }
      /\ k0.list = [h \in ListHead |-> IF h \in Priority THEN InitReady[h] ELSE <<>>]
      /\ k0.prio = InitPriority
      /\ k0.err = [t \in Thread |-> "ok"]
      /\ k0.tmr = [t \in Thread |-> FALSE]
      /\ k0.stat = [t \in Thread |->
                      IF t = InitThread THEN "running"
                      ELSE IF Contains(InitReady[InitPriority[t]], t)
                           THEN "ready" ELSE "init"]
  BY DEF KernelStart
<1>2. k0 \in KernelState
  <2>1. k0.list \in [ListHead -> Seq(Thread)]
    BY <1>1
  <2>2. k0.group \in SUBSET Group
    BY <1>1 DEF Group
  <2>3. k0.stat \in [Thread -> Stat] /\ k0.err \in [Thread -> Error]
    BY <1>1 DEF Stat, Error
  <2> QED BY <1>1, <2>1, <2>2, <2>3 DEF KernelState, KernelStart
<1>3. CurrentOK(k0)
  BY <1>1 DEF CurrentOK
<1>4. \A q \in WaitQueue, u \in Thread : ~Contains(k0.list[q], u)
  BY <1>1, QueuesAreNotPriorities DEF Contains, ListHead
<1>5. k0.stat[Idle] \in {"ready", "running"} /\ k0.stat[k0.cur] = "running"
  BY <1>1
<1>6. k = k0 /\ pc = [t \in Thread |-> "user"] /\ target = [t \in Thread |-> t]
  BY DEF Init
<1>7. KernelOK(k0)
  OBVIOUS
<1> HIDE DEF k0
<1>8. ResumeTargetHeld
  BY <1>6 DEF ResumeTargetHeld
<1>9. TypeOK
  BY <1>2, <1>6 DEF TypeOK, PC
<1> QED BY <1>1, <1>2, <1>3, <1>4, <1>5, <1>6, <1>7, <1>8, <1>9 DEF SchedulerInv

(* An idle thread that is runnable keeps the ready table from being empty  *)
(* while another thread has the CPU.                                       *)
LEMMA TableNotEmpty ==
    ASSUME NEW kk \in KernelState, KernelOK(kk), kk.stat[Idle] \in Runnable,
           kk.stat[kk.cur] # "running", CurrentOK(kk)
    PROVE  kk.table # {}
<1> USE KernelAssumption
<1>1. kk.stat[Idle] = "ready"
  BY DEF Runnable, CurrentOK
<1>2. kk.prio[Idle] \in Priority /\ kk.list[kk.prio[Idle]] \in Seq(Thread)
  BY DEF KernelState, ListHead
<1>3. Contains(kk.list[kk.prio[Idle]], Idle)
  BY <1>1, <1>2 DEF KernelOK, ReadyListed
<1> QED BY <1>2, <1>3, EmptyList DEF KernelOK, BitmapExact

(* rt_schedule at the end of a call or of a handler: applied to a record   *)
(* kk that agrees with the state, it re-establishes the invariant.         *)
LEMMA ScheduleInv ==
    ASSUME TypeOK, SchedulerInv, TypeOK', target' = target,
           NEW kk \in KernelState, KernelOK(kk), CurrentOK(kk),
           k' = rt_schedule(kk),
           kk.stat[Idle] \in Runnable, pc'[Idle] = "user",
           \A u \in Thread : pc'[u] \in {"suspend", "parked"} => ~kk.tmr[u],
           \A u \in Thread : kk.stat[u] = "init" => pc'[u] = "user" /\ ~kk.tmr[u],
           \A q \in WaitQueue, u \in Thread : ~Contains(kk.list[q], u),
           kk.stat[kk.cur] # "running" => kk.lock = 0,
           \A t \in Thread : pc'[t] \in {"resume", "unlinked"} =>
              LET u == target[t] IN
              /\ kk.stat[u] = "suspend" /\ ~kk.tmr[u] /\ u # kk.cur
              /\ pc'[u] \in {"suspend", "parked"}
              /\ Resuming(u)' = {t}
    PROVE  SchedulerInv'
<1>1. /\ k' \in KernelState /\ KernelOK(k') /\ CurrentOK(k') /\ SameQueues(k', kk)
      /\ k'.lock = kk.lock /\ k'.tmr = kk.tmr
      /\ \A u \in Thread :
            /\ kk.stat[u] \notin Runnable => k'.stat[u] = kk.stat[u]
            /\ kk.stat[u] \in Runnable => k'.stat[u] \in Runnable
      /\ k'.cur = kk.cur \/ kk.stat[k'.cur] = "ready"
      /\ kk.stat[kk.cur] = "running" => k'.stat[k'.cur] = "running"
      /\ kk.lock = 0 /\ kk.table # {} => k'.stat[k'.cur] = "running"
  BY ScheduleThread
<1>2. k'.stat[k'.cur] = "running"
  BY <1>1, TableNotEmpty
<1>3. ResumeTargetHeld'
  <2> SUFFICES ASSUME NEW t \in Thread, pc'[t] \in {"resume", "unlinked"}
               PROVE  /\ k'.stat[target[t]] = "suspend" /\ ~k'.tmr[target[t]]
                      /\ target[t] # k'.cur
                      /\ pc'[target[t]] \in {"suspend", "parked"}
                      /\ Resuming(target[t])' = {t}
    BY DEF ResumeTargetHeld
  <2> DEFINE u == target[t]
  <2>1. u \in Thread /\ target'[t] = u
    BY DEF TypeOK
  <2>2. /\ kk.stat[u] = "suspend" /\ ~kk.tmr[u] /\ u # kk.cur
        /\ pc'[u] \in {"suspend", "parked"}
        /\ Resuming(u)' = {t}
    OBVIOUS
  <2> HIDE DEF u
  <2>3. k'.stat[u] = "suspend" /\ ~k'.tmr[u] /\ u # k'.cur
    BY <1>1, <2>1, <2>2 DEF Runnable
  <2> QED BY <2>1, <2>2, <2>3
<1>4. \A q \in WaitQueue, u \in Thread : ~Contains(k'.list[q], u)
  BY <1>1 DEF SameQueues
<1>5. \A u \in Thread : k'.stat[u] = "init" => pc'[u] = "user" /\ ~k'.tmr[u]
  BY <1>1 DEF Runnable
<1>6. k'.stat[Idle] \in Runnable
  BY <1>1, KernelAssumption
<1> QED BY <1>1, <1>2, <1>3, <1>4, <1>5, <1>6, KernelPart

(* A step of the current thread from and to places outside                 *)
(* rt_thread_resume: it is not the target of a resume in progress.         *)
LEMMA ResumesGoOn ==
    ASSUME TypeOK, ResumeTargetHeld, target' = target,
           NEW t \in Thread, t = k.cur, pc[t] \notin {"resume", "unlinked"},
           NEW x \in PC \ {"resume", "unlinked"}, pc' = [pc EXCEPT ![t] = x]
    PROVE  \A v \in Thread : pc'[v] \in {"resume", "unlinked"} =>
              /\ v # t /\ target[v] # t
              /\ k.stat[target[v]] = "suspend" /\ ~k.tmr[target[v]]
              /\ pc'[target[v]] \in {"suspend", "parked"}
              /\ Resuming(target[v])' = {v}
<1> SUFFICES ASSUME NEW v \in Thread, pc'[v] \in {"resume", "unlinked"}
             PROVE  /\ v # t /\ target[v] # t
                    /\ k.stat[target[v]] = "suspend" /\ ~k.tmr[target[v]]
                    /\ pc'[target[v]] \in {"suspend", "parked"}
                    /\ Resuming(target[v])' = {v}
  OBVIOUS
<1>1. pc \in [Thread -> PC] /\ target[v] \in Thread
  BY DEF TypeOK
<1>2. v # t /\ pc[v] \in {"resume", "unlinked"}
  BY <1>1
<1>3. /\ target[v] # t /\ k.stat[target[v]] = "suspend" /\ ~k.tmr[target[v]]
      /\ pc[target[v]] \in {"suspend", "parked"} /\ Resuming(target[v]) = {v}
  BY <1>2 DEF ResumeTargetHeld
<1>4. \A w \in Thread : pc'[w] \in {"resume", "unlinked"}
                             <=> pc[w] \in {"resume", "unlinked"}
  BY <1>1
<1>5. Resuming(target[v])' = Resuming(target[v])
  BY <1>4 DEF Resuming
<1> QED BY <1>1, <1>2, <1>3, <1>5

LEMMA YieldInv ==
    ASSUME TypeOK, SchedulerInv, NEW t \in Thread, rt_thread_yield(t)
    PROVE  TypeOK' /\ SchedulerInv'
<1>1. /\ k.cur = t /\ pc[t] = "user" /\ t # Idle
      /\ pc' = [pc EXCEPT ![t] = "sched"] /\ k' = k /\ target' = target
  BY DEF rt_thread_yield, Calls, Running, Goto
<1>2. TypeOK'
  BY <1>1 DEF TypeOK, PC
<1>3. ResumeTargetHeld'
  <2>1. ResumeTargetHeld /\ "sched" \in PC \ {"resume", "unlinked"}
    BY DEF SchedulerInv, PC
  <2> QED BY <1>1, <2>1, ResumesGoOn DEF ResumeTargetHeld
<1>4. \A u \in Thread : pc'[u] = IF u = t THEN "sched" ELSE pc[u]
  BY <1>1 DEF TypeOK
<1>5. k.cur \in Thread /\ Idle \in Thread
  BY KernelAssumption DEF TypeOK, KernelState
<1> QED BY <1>1, <1>2, <1>3, <1>4, <1>5 DEF SchedulerInv, TypeOK

LEMMA DoScheduleInv ==
    ASSUME TypeOK, SchedulerInv, NEW t \in Thread, DoSchedule(t)
    PROVE  TypeOK' /\ SchedulerInv'
<1> DEFINE x == CASE pc[t] = "sched"   -> "user"
                  [] pc[t] = "sleep"   -> "slept"
                  [] pc[t] = "suspend" -> "parked"
<1>1. /\ k.cur = t /\ pc[t] \in {"sched", "sleep", "suspend"}
      /\ pc' = [pc EXCEPT ![t] = x] /\ k' = rt_schedule(k) /\ target' = target
  BY DEF DoSchedule, Goto
<1>2. /\ x \in PC \ {"resume", "unlinked"}
      /\ x \in {"suspend", "parked"} => pc[t] = "suspend"
      /\ x = "user" => pc[t] = "sched"
  BY <1>1 DEF PC
<1> HIDE DEF x
<1>3. k \in KernelState /\ pc \in [Thread -> PC] /\ target \in [Thread -> Thread]
  BY DEF TypeOK
<1>4. KernelOK(k) /\ CurrentOK(k) /\ ResumeTargetHeld /\ Idle \in Thread
  BY KernelAssumption DEF SchedulerInv
<1>5. TypeOK'
  BY <1>1, <1>2, <1>3, <1>4, ScheduleThread DEF TypeOK
<1>6. \A u \in Thread : pc'[u] = IF u = t THEN x ELSE pc[u]
  BY <1>1, <1>3
<1>7. /\ k.stat[Idle] \in Runnable /\ pc[Idle] = "user" /\ t # Idle
      /\ \A u \in Thread : pc'[u] \in {"suspend", "parked"} => ~k.tmr[u]
      /\ \A q \in WaitQueue, u \in Thread : ~Contains(k.list[q], u)
      /\ k.stat[k.cur] # "running" => k.lock = 0
  BY <1>1, <1>2, <1>6 DEF SchedulerInv, Runnable
<1>8. \A u \in Thread : k.stat[u] = "init" => pc'[u] = "user" /\ ~k.tmr[u]
  BY <1>1, <1>6 DEF SchedulerInv
<1>9. \A v \in Thread : pc'[v] \in {"resume", "unlinked"} =>
         LET u == target[v] IN
         /\ k.stat[u] = "suspend" /\ ~k.tmr[u] /\ u # k.cur
         /\ pc'[u] \in {"suspend", "parked"}
         /\ Resuming(u)' = {v}
  BY <1>1, <1>2, <1>4, ResumesGoOn
<1> QED BY <1>1, <1>3, <1>4, <1>5, <1>6, <1>7, <1>8, <1>9, ScheduleInv

(* SuspendSelf and rt_thread_sleep: the current thread becomes suspended.  *)
LEMMA SuspendInv ==
    ASSUME TypeOK, SchedulerInv, NEW t \in Thread,
           rt_thread_sleep(t) \/ SuspendSelf(t)
    PROVE  TypeOK' /\ SchedulerInv'
<1> DEFINE r == rt_thread_suspend(k, t)
<1> DEFINE x == IF rt_thread_sleep(t) THEN "sleep" ELSE "suspend"
<1>1. /\ k.cur = t /\ pc[t] = "user" /\ t # Idle /\ k.lock = 0
      /\ target' = target /\ pc' = [pc EXCEPT ![t] = x]
      /\ k' = IF x = "sleep" THEN StartTimer(r, t) ELSE r
      /\ x \in {"sleep", "suspend"}
  BY DEF rt_thread_sleep, SuspendSelf, Calls, Running, Goto
<1> HIDE DEF x
<1>2. k \in KernelState /\ pc \in [Thread -> PC] /\ target \in [Thread -> Thread]
  BY DEF TypeOK
<1>3. /\ KernelOK(k) /\ CurrentOK(k) /\ ResumeTargetHeld
      /\ k.stat[t] = "running" /\ Idle \in Thread
      /\ \A q \in WaitQueue, u \in Thread : ~Contains(k.list[q], u)
  BY <1>1, KernelAssumption DEF SchedulerInv
<1>4. /\ r \in KernelState /\ KernelOK(r) /\ CurrentOK(r) /\ SameQueues(r, k)
      /\ r.cur = k.cur /\ r.lock = k.lock
      /\ r.stat = [k.stat EXCEPT ![t] = "suspend"]
      /\ r.tmr = k.tmr
  BY <1>2, <1>3, SuspendThread DEF Runnable
<1> HIDE DEF r
<1>5. ~k.tmr[t]
  BY <1>3 DEF KernelOK, WaitersSuspended
<1>6. /\ k' \in KernelState /\ KernelOK(k') /\ CurrentOK(k') /\ SameQueues(k', k)
      /\ k'.cur = k.cur /\ k'.lock = k.lock /\ k'.stat = r.stat
      /\ \A u \in Thread : u # t => k'.tmr[u] = k.tmr[u]
      /\ x = "suspend" => ~k'.tmr[t]
  <2>1. CASE x # "sleep"
    BY <1>1, <1>4, <1>5, <2>1
  <2>2. CASE x = "sleep"
    <3>0. k' = [r EXCEPT !.tmr[t] = TRUE]
      BY <1>1, <2>2 DEF StartTimer
    <3>1. /\ k' \in KernelState
          /\ k'.list = r.list /\ k'.table = r.table /\ k'.group = r.group
          /\ k'.cur = r.cur /\ k'.lock = r.lock
          /\ k'.stat = r.stat /\ k'.prio = r.prio
          /\ k'.tmr = [r.tmr EXCEPT ![t] = TRUE]
      BY <1>4, <3>0 DEF KernelState
    <3>2. \A u \in Thread : k'.tmr[u] => k'.stat[u] = "suspend"
      <4> SUFFICES ASSUME NEW u \in Thread, k'.tmr[u] PROVE k'.stat[u] = "suspend"
        OBVIOUS
      <4>1. CASE u = t
        BY <1>2, <1>4, <3>1, <4>1 DEF KernelState
      <4>2. CASE u # t
        BY <1>4, <3>1, <4>2 DEF KernelOK, WaitersSuspended, KernelState
      <4> QED BY <4>1, <4>2
    <3>3. KernelOK(k') /\ SameQueues(k', r) /\ CurrentOK(k')
      BY <1>4, <3>1, <3>2, SameLists
    <3>4. \A u \in Thread : u # t => k'.tmr[u] = k.tmr[u]
      BY <1>2, <1>4, <3>1 DEF KernelState
    <3> QED BY <1>4, <2>2, <3>1, <3>3, <3>4 DEF SameQueues
  <2> QED BY <2>1, <2>2
<1>7. \A u \in Thread : /\ pc'[u] = IF u = t THEN x ELSE pc[u]
                        /\ k'.stat[u] = IF u = t THEN "suspend" ELSE k.stat[u]
  BY <1>1, <1>2, <1>4, <1>6 DEF KernelState
<1>8. TypeOK'
  BY <1>1, <1>2, <1>6 DEF TypeOK, PC
<1>9. ResumeTargetHeld'
  <2>1. x \in PC \ {"resume", "unlinked"}
    BY <1>1 DEF PC
  <2>2. \A v \in Thread : pc'[v] \in {"resume", "unlinked"} =>
              /\ v # t /\ target[v] # t
              /\ k.stat[target[v]] = "suspend" /\ ~k.tmr[target[v]]
              /\ pc'[target[v]] \in {"suspend", "parked"}
              /\ Resuming(target[v])' = {v}
    BY <1>1, <1>3, <2>1, ResumesGoOn
  <2> SUFFICES ASSUME NEW v \in Thread, pc'[v] \in {"resume", "unlinked"}
               PROVE  /\ k'.stat[target[v]] = "suspend" /\ ~k'.tmr[target[v]]
                      /\ target[v] # k'.cur
                      /\ pc'[target[v]] \in {"suspend", "parked"}
                      /\ Resuming(target[v])' = {v}
    BY <1>1 DEF ResumeTargetHeld
  <2>3. target'[v] = target[v] /\ target[v] \in Thread /\ target[v] # t
    BY <1>1, <1>2, <2>2
  <2>4. k'.stat[target[v]] = k.stat[target[v]] /\ k'.tmr[target[v]] = k.tmr[target[v]]
    BY <1>6, <1>7, <2>3
  <2> QED BY <1>1, <1>6, <2>2, <2>3, <2>4
<1>10. \A u \in Thread : k'.stat[u] = "init" => pc'[u] = "user" /\ ~k'.tmr[u]
  BY <1>6, <1>7 DEF SchedulerInv
<1>11. \A u \in Thread : pc'[u] \in {"suspend", "parked"} => ~k'.tmr[u]
  <2> SUFFICES ASSUME NEW u \in Thread, pc'[u] \in {"suspend", "parked"}
               PROVE  ~k'.tmr[u]
    OBVIOUS
  <2>1. CASE u = t
    BY <1>1, <1>5, <1>6, <1>7, <2>1
  <2>2. CASE u # t
    BY <1>6, <1>7, <2>2 DEF SchedulerInv
  <2> QED BY <2>1, <2>2
<1>12. pc'[Idle] = "user" /\ k'.stat[Idle] \in Runnable
  BY <1>1, <1>3, <1>7 DEF SchedulerInv, Runnable
<1>13. \A q \in WaitQueue, u \in Thread : ~Contains(k'.list[q], u)
  BY <1>3, <1>6 DEF SameQueues
<1>14. /\ pc'[k'.cur] \in {"sleep", "suspend"}
       /\ k'.stat[k'.cur] = "suspend" /\ k'.lock = 0
  BY <1>1, <1>6, <1>7
<1> QED BY <1>6, <1>8, <1>9, <1>10, <1>11, <1>12, <1>13, <1>14, KernelPart

(* Steps of the current thread that touch neither lists, states nor timers *)
(* nor the lock of a suspended thread.                                     *)
LEMMA LocalInv ==
    ASSUME TypeOK, SchedulerInv, TypeOK', NEW t \in Thread, t = k.cur, t # Idle,
           pc[t] \notin {"resume", "unlinked", "sleep", "suspend"},
           NEW x \in PC \ {"resume", "unlinked"}, pc' = [pc EXCEPT ![t] = x],
           x \in {"suspend", "parked"} => pc[t] = "parked",
           target' = target,
           k'.list = k.list, k'.table = k.table, k'.group = k.group,
           k'.stat = k.stat, k'.prio = k.prio, k'.tmr = k.tmr, k'.cur = k.cur
    PROVE  SchedulerInv'
<1>1. KernelOK(k) /\ CurrentOK(k) /\ ResumeTargetHeld /\ k.stat[t] = "running"
  BY DEF SchedulerInv
<1>2. KernelOK(k') /\ CurrentOK(k')
  <2>1. \A u \in Thread : k'.tmr[u] => k'.stat[u] = "suspend"
    BY <1>1 DEF KernelOK, WaitersSuspended
  <2> QED BY <1>1, <2>1, SameLists
<1>3. ResumeTargetHeld'
  <2>1. \A v \in Thread : pc'[v] \in {"resume", "unlinked"} =>
              /\ v # t /\ target[v] # t
              /\ k.stat[target[v]] = "suspend" /\ ~k.tmr[target[v]]
              /\ pc'[target[v]] \in {"suspend", "parked"}
              /\ Resuming(target[v])' = {v}
    BY <1>1, ResumesGoOn
  <2> QED BY <2>1 DEF ResumeTargetHeld
<1>4. \A u \in Thread : pc'[u] = IF u = t THEN x ELSE pc[u]
  BY DEF TypeOK
<1>5. k' \in KernelState
  BY DEF TypeOK
<1>6. /\ k'.stat[k'.cur] = "running"
      /\ pc'[Idle] = "user" /\ k'.stat[Idle] \in Runnable
      /\ \A u \in Thread : pc'[u] \in {"suspend", "parked"} => ~k'.tmr[u]
      /\ \A u \in Thread : k'.stat[u] = "init" => pc'[u] = "user" /\ ~k'.tmr[u]
      /\ \A q \in WaitQueue, u \in Thread : ~Contains(k'.list[q], u)
  BY <1>1, <1>4, KernelAssumption DEF SchedulerInv, Runnable
<1> QED BY <1>2, <1>3, <1>5, <1>6, KernelPart

LEMMA ReturnInv ==
    ASSUME TypeOK, SchedulerInv, NEW t \in Thread,
           \/ SleepReturns(t) \/ SuspendReturns(t)
           \/ rt_enter_critical(t) \/ rt_exit_critical(t)
    PROVE  TypeOK' /\ SchedulerInv'
<1>1. /\ k \in KernelState /\ pc \in [Thread -> PC] /\ target \in [Thread -> Thread]
      /\ pc[Idle] = "user"
  BY DEF TypeOK, SchedulerInv
<1>2. CASE SleepReturns(t)
  <2>1. /\ k.cur = t /\ pc[t] = "slept" /\ pc' = [pc EXCEPT ![t] = "user"]
        /\ target' = target
        /\ k' = [k EXCEPT !.err[t] = IF k.err[t] = "timeout" THEN "ok" ELSE k.err[t]]
    BY <1>2, <1>1 DEF SleepReturns, Running, Goto, KernelState
  <2>2. [k.err EXCEPT ![t] = IF k.err[t] = "timeout" THEN "ok" ELSE k.err[t]]
            \in [Thread -> Error]
    BY <1>1 DEF KernelState, Error
  <2>3. /\ k' \in KernelState
        /\ k'.list = k.list /\ k'.table = k.table /\ k'.group = k.group
        /\ k'.stat = k.stat /\ k'.prio = k.prio /\ k'.tmr = k.tmr /\ k'.cur = k.cur
    BY <1>1, <2>1, <2>2 DEF KernelState
  <2>4. TypeOK' /\ "user" \in PC \ {"resume", "unlinked"} /\ t # Idle
    BY <1>1, <2>1, <2>3 DEF TypeOK, PC
  <2> QED BY <2>1, <2>3, <2>4, LocalInv
<1>3. CASE SuspendReturns(t)
  <2>1. /\ k.cur = t /\ pc[t] = "parked" /\ pc' = [pc EXCEPT ![t] = "user"]
        /\ target' = target /\ k' = k
    BY <1>3 DEF SuspendReturns, Running, Goto
  <2>2. TypeOK' /\ "user" \in PC \ {"resume", "unlinked"} /\ t # Idle
    BY <1>1, <2>1 DEF TypeOK, PC
  <2> QED BY <2>1, <2>2, LocalInv
<1>4. CASE rt_enter_critical(t)
  <2>1. /\ k.cur = t /\ pc[t] = "user" /\ t # Idle
        /\ pc' = [pc EXCEPT ![t] = "user"] /\ target' = target
        /\ k' = [k EXCEPT !.lock = k.lock + 1]
    BY <1>4, <1>1 DEF rt_enter_critical, Calls, Running, KernelState
  <2>4. k.lock + 1 \in Nat
    BY <1>1 DEF KernelState
  <2>2. /\ k' \in KernelState
        /\ k'.list = k.list /\ k'.table = k.table /\ k'.group = k.group
        /\ k'.stat = k.stat /\ k'.prio = k.prio /\ k'.tmr = k.tmr /\ k'.cur = k.cur
    BY <1>1, <2>1, <2>4 DEF KernelState
  <2>3. TypeOK' /\ "user" \in PC \ {"resume", "unlinked"}
    BY <1>1, <2>1, <2>2 DEF TypeOK, PC
  <2> QED BY <2>1, <2>2, <2>3, LocalInv
<1>5. CASE rt_exit_critical(t)
  <2> DEFINE x == IF k.lock <= 1 THEN "sched" ELSE "user"
  <2>1. /\ k.cur = t /\ pc[t] = "user" /\ t # Idle
        /\ pc' = [pc EXCEPT ![t] = x] /\ target' = target
        /\ k' = [k EXCEPT !.lock = IF k.lock > 0 THEN k.lock - 1 ELSE 0]
    BY <1>5, <1>1 DEF rt_exit_critical, Calls, Running, Goto, KernelState
  <2>2. x \in PC \ {"resume", "unlinked"} /\ x \notin {"suspend", "parked"}
    BY DEF PC
  <2>5. (IF k.lock > 0 THEN k.lock - 1 ELSE 0) \in Nat
    BY <1>1 DEF KernelState
  <2> HIDE DEF x
  <2>3. /\ k' \in KernelState
        /\ k'.list = k.list /\ k'.table = k.table /\ k'.group = k.group
        /\ k'.stat = k.stat /\ k'.prio = k.prio /\ k'.tmr = k.tmr /\ k'.cur = k.cur
    BY <1>1, <2>1, <2>5 DEF KernelState
  <2>4. TypeOK'
    BY <1>1, <2>1, <2>2, <2>3 DEF TypeOK
  <2> QED BY <2>1, <2>2, <2>3, <2>4, LocalInv
<1> QED BY <1>2, <1>3, <1>4, <1>5
(* Unlinking threads leaves the empty suspend lists empty. *)
LEMMA QueuesStayEmpty ==
    ASSUME NEW kk \in KernelState, NEW r \in KernelState, NEW t \in Thread,
           \A q \in WaitQueue, u \in Thread : ~Contains(kk.list[q], u),
           \A q \in WaitQueue : r.list[q] = RemoveFirst(kk.list[q], t)
    PROVE  \A q \in WaitQueue, u \in Thread : ~Contains(r.list[q], u)
<1> SUFFICES ASSUME NEW q \in WaitQueue, NEW u \in Thread
             PROVE  ~Contains(r.list[q], u)
  OBVIOUS
<1>1. kk.list[q] \in Seq(Thread) /\ ~Contains(kk.list[q], t)
  BY DEF KernelState, ListHead
<1>2. RemoveFirst(kk.list[q], t) = kk.list[q]
  BY <1>1, RemoveNothing
<1> QED BY <1>2

(* An interrupt handler makes at most one thread w, which nobody is        *)
(* resuming, ready, and calls rt_schedule.                                 *)
LEMMA InterruptInv ==
    ASSUME TypeOK, SchedulerInv, pc' = pc, target' = target,
           NEW kk \in KernelState, KernelOK(kk), CurrentOK(kk),
           k' = rt_schedule(kk), kk.cur = k.cur, kk.lock = k.lock,
           NEW w \in Thread,
           \A u \in Thread : u # w => kk.stat[u] = k.stat[u],
           \A u \in Thread : kk.tmr[u] => k.tmr[u],
           \/ kk.stat[w] = k.stat[w]
           \/ /\ k.stat[w] = "suspend" /\ Resuming(w) = {}
              /\ kk.stat[w] = IF w = k.cur THEN "running" ELSE "ready",
           \A q \in WaitQueue, u \in Thread : ~Contains(kk.list[q], u)
    PROVE  TypeOK' /\ SchedulerInv'
<1>1. TypeOK'
  BY ScheduleThread DEF TypeOK
<1>2. /\ k.stat[Idle] \in Runnable /\ pc[Idle] = "user" /\ ResumeTargetHeld
      /\ Idle \in Thread /\ target \in [Thread -> Thread]
  BY KernelAssumption DEF SchedulerInv, Runnable, TypeOK
<1>3. \A u \in Thread : kk.stat[u] = k.stat[u] \/ kk.stat[u] \in Runnable
  BY DEF Runnable
<1>4. kk.stat[Idle] \in Runnable
  BY <1>2, <1>3
<1>5. \A u \in Thread : pc'[u] \in {"suspend", "parked"} => ~kk.tmr[u]
  BY DEF SchedulerInv
<1>6. \A u \in Thread : kk.stat[u] = "init" => pc'[u] = "user" /\ ~kk.tmr[u]
  BY <1>3 DEF SchedulerInv, Runnable
<1>7. kk.stat[kk.cur] # "running" => kk.lock = 0
  <2>1. k.cur \in Thread /\ (k.stat[k.cur] # "running" => k.lock = 0)
    BY DEF SchedulerInv, TypeOK, KernelState
  <2>2. CASE k.cur = w
    BY <2>1, <2>2
  <2>3. CASE k.cur # w
    BY <2>1, <2>3
  <2> QED BY <2>2, <2>3
<1>8. \A t \in Thread : pc'[t] \in {"resume", "unlinked"} =>
         LET u == target[t] IN
         /\ kk.stat[u] = "suspend" /\ ~kk.tmr[u] /\ u # kk.cur
         /\ pc'[u] \in {"suspend", "parked"}
         /\ Resuming(u)' = {t}
  <2> SUFFICES ASSUME NEW t \in Thread, pc[t] \in {"resume", "unlinked"}
               PROVE  /\ kk.stat[target[t]] = "suspend" /\ ~kk.tmr[target[t]]
                      /\ target[t] # kk.cur
                      /\ pc'[target[t]] \in {"suspend", "parked"}
                      /\ Resuming(target[t])' = {t}
    OBVIOUS
  <2>1. /\ k.stat[target[t]] = "suspend" /\ ~k.tmr[target[t]] /\ target[t] # k.cur
        /\ pc[target[t]] \in {"suspend", "parked"} /\ Resuming(target[t]) = {t}
    BY <1>2 DEF ResumeTargetHeld
  <2>2. Resuming(target[t])' = Resuming(target[t])
    BY DEF Resuming
  <2>3. target[t] \in Thread
    BY <1>2
  <2>4. kk.stat[target[t]] = k.stat[target[t]]
    <3>1. CASE target[t] = w
      BY <2>1, <3>1
    <3>2. CASE target[t] # w
      BY <2>3, <3>2
    <3> QED BY <3>1, <3>2
  <2> QED BY <2>1, <2>2, <2>3, <2>4
<1>9. pc'[Idle] = "user"
  BY <1>2
<1> QED BY <1>1, <1>4, <1>5, <1>6, <1>7, <1>8, <1>9, ScheduleInv

LEMMA SliceInv ==
    ASSUME TypeOK, SchedulerInv, SliceExpires
    PROVE  TypeOK' /\ SchedulerInv'
<1>1. /\ k \in KernelState /\ KernelOK(k) /\ CurrentOK(k) /\ Idle \in Thread
      /\ \A q \in WaitQueue, u \in Thread : ~Contains(k.list[q], u)
      /\ pc' = pc /\ target' = target /\ k' = rt_schedule(k)
  BY KernelAssumption DEF TypeOK, SchedulerInv, SliceExpires
<1> QED BY <1>1, InterruptInv

LEMMA TimerInv ==
    ASSUME TypeOK, SchedulerInv, NEW w \in Thread, TimerFires(w)
    PROVE  TypeOK' /\ SchedulerInv'
<1>1. /\ k \in KernelState /\ KernelOK(k) /\ CurrentOK(k) /\ k.tmr[w]
      /\ \A q \in WaitQueue, u \in Thread : ~Contains(k.list[q], u)
      /\ pc' = pc /\ target' = target /\ k' = rt_thread_timeout(k, w)
      /\ pc \in [Thread -> PC] /\ target \in [Thread -> Thread]
  BY DEF TypeOK, SchedulerInv, TimerFires
<1>2. k.stat[w] = "suspend" /\ Resuming(w) = {}
  BY <1>1 DEF SchedulerInv, KernelOK, WaitersSuspended, ResumeTargetHeld, Resuming
<1> DEFINE kk == TimedOut(k, w)
<1>3. /\ kk \in KernelState /\ KernelOK(kk) /\ CurrentOK(kk)
      /\ kk.cur = k.cur /\ kk.lock = k.lock
      /\ kk.tmr = [k.tmr EXCEPT ![w] = FALSE]
      /\ kk.stat = [k.stat EXCEPT ![w] = IF w = k.cur THEN "running" ELSE "ready"]
      /\ \A q \in WaitQueue : kk.list[q] = RemoveFirst(k.list[q], w)
  <2>1. k \in KernelState /\ KernelOK(k) /\ CurrentOK(k) /\ k.stat[w] = "suspend"
    BY <1>1, <1>2
  <2> QED BY <2>1, TimeoutThread, ZenonT(90)
<1>6. k' = rt_schedule(kk)
  BY <1>1 DEF rt_thread_timeout
<1> HIDE DEF kk
<1>4. /\ kk.stat[w] = IF w = k.cur THEN "running" ELSE "ready"
      /\ \A u \in Thread : u # w => kk.stat[u] = k.stat[u]
      /\ \A u \in Thread : kk.tmr[u] => k.tmr[u]
  BY <1>1, <1>3 DEF KernelState
<1>5. \A q \in WaitQueue, u \in Thread : ~Contains(kk.list[q], u)
  BY <1>1, <1>3, QueuesStayEmpty
<1> QED BY <1>1, <1>2, <1>3, <1>4, <1>5, <1>6, InterruptInv

LEMMA WakeInv ==
    ASSUME TypeOK, SchedulerInv, OneWaker, NEW w \in Thread, DeviceWakes(w)
    PROVE  TypeOK' /\ SchedulerInv'
<1> DEFINE kk == rt_thread_resume(k, w)
<1>1. /\ k \in KernelState /\ KernelOK(k) /\ CurrentOK(k) /\ k.stat[w] = "suspend"
      /\ Resuming(w) = {}
      /\ \A q \in WaitQueue, u \in Thread : ~Contains(k.list[q], u)
      /\ pc' = pc /\ target' = target /\ k' = rt_schedule(kk)
  BY DEF TypeOK, SchedulerInv, DeviceWakes, MayResume
<1>2. /\ kk \in KernelState /\ KernelOK(kk) /\ CurrentOK(kk)
      /\ kk.cur = k.cur /\ kk.lock = k.lock
      /\ kk.tmr = [k.tmr EXCEPT ![w] = FALSE]
      /\ kk.stat = [k.stat EXCEPT ![w] = IF w = k.cur THEN "running" ELSE "ready"]
      /\ \A q \in WaitQueue : kk.list[q] = RemoveFirst(k.list[q], w)
  BY <1>1, ResumeThread, ZenonT(90)
<1> HIDE DEF kk
<1>3. /\ kk.stat[w] = IF w = k.cur THEN "running" ELSE "ready"
      /\ \A u \in Thread : u # w => kk.stat[u] = k.stat[u]
      /\ \A u \in Thread : kk.tmr[u] => k.tmr[u]
  BY <1>1, <1>2 DEF KernelState
<1>4. \A q \in WaitQueue, u \in Thread : ~Contains(kk.list[q], u)
  BY <1>1, <1>2, QueuesStayEmpty
<1> QED BY <1>1, <1>2, <1>3, <1>4, InterruptInv
(* The three steps of rt_thread_resume. *)
LEMMA ResumeInv ==
    ASSUME TypeOK, SchedulerInv, OneWaker, NEW t \in Thread,
           \/ \E u \in Thread : ResumeCheck(t, u)
           \/ ResumeUnlinks(t)
           \/ ResumeInserts(t)
    PROVE  TypeOK' /\ SchedulerInv'
<1>1. /\ k \in KernelState /\ pc \in [Thread -> PC] /\ target \in [Thread -> Thread]
      /\ KernelOK(k) /\ CurrentOK(k) /\ ResumeTargetHeld
      /\ pc[Idle] = "user" /\ k.stat[Idle] \in Runnable /\ Idle \in Thread
      /\ \A q \in WaitQueue, u \in Thread : ~Contains(k.list[q], u)
      /\ \A u \in Thread : pc[u] \in {"suspend", "parked"} => ~k.tmr[u]
      /\ \A u \in Thread : k.stat[u] = "init" => pc[u] = "user" /\ ~k.tmr[u]
      /\ k.stat[k.cur] # "running" => pc[k.cur] \in {"sleep", "suspend"}
  BY KernelAssumption DEF TypeOK, SchedulerInv, Runnable
<1>2. ASSUME NEW u \in Thread, ResumeCheck(t, u)
      PROVE  TypeOK' /\ SchedulerInv'
  <2>1. /\ k.cur = t /\ pc[t] = "user" /\ t # Idle
        /\ Resuming(u) = {} /\ pc[u] \in {"suspend", "parked"}
        /\ k.stat[u] = "suspend" /\ k' = k
        /\ target' = [target EXCEPT ![t] = u] /\ pc' = [pc EXCEPT ![t] = "resume"]
    BY <1>2 DEF ResumeCheck, Calls, Running, Goto, MayResume
  <2>2. TypeOK'
    BY <1>1, <2>1 DEF TypeOK, PC
  <2>3. \A v \in Thread : /\ pc'[v] = IF v = t THEN "resume" ELSE pc[v]
                          /\ target'[v] = IF v = t THEN u ELSE target[v]
    BY <1>1, <2>1
  <2>4. Resuming(u)' = {t}
    BY <2>1, <2>3 DEF Resuming
  <2>5. ResumeTargetHeld'
    <3> SUFFICES ASSUME NEW v \in Thread, pc'[v] \in {"resume", "unlinked"},
                        NEW w \in Thread, w = target'[v]
                 PROVE  /\ k.stat[w] = "suspend" /\ ~k.tmr[w] /\ w # k.cur
                        /\ pc'[w] \in {"suspend", "parked"}
                        /\ Resuming(w)' = {v}
      BY <2>1, <2>2 DEF ResumeTargetHeld, TypeOK
    <3>1. CASE v = t
      <4>1. w = u /\ u # t /\ ~k.tmr[u] /\ pc'[u] \in {"suspend", "parked"}
        BY <1>1, <2>1, <2>3, <3>1
      <4> QED BY <2>1, <2>4, <3>1, <4>1
    <3>2. CASE v # t
      <4>1. w = target[v] /\ pc[v] \in {"resume", "unlinked"}
        BY <2>3, <3>2
      <4>2. /\ k.stat[w] = "suspend" /\ ~k.tmr[w] /\ w # k.cur
            /\ pc[w] \in {"suspend", "parked"} /\ Resuming(w) = {v}
        BY <1>1, <4>1 DEF ResumeTargetHeld
      <4>3. w # u
        BY <2>1, <4>2
      <4>4. Resuming(w)' = Resuming(w)
        BY <2>1, <2>3, <4>3 DEF Resuming
      <4> QED BY <2>1, <2>3, <4>2, <4>4
    <3> QED BY <3>1, <3>2
  <2>7. /\ pc'[Idle] = "user"
        /\ \A v \in Thread : pc'[v] \in {"suspend", "parked"} => ~k'.tmr[v]
        /\ \A v \in Thread : k'.stat[v] = "init" => pc'[v] = "user" /\ ~k'.tmr[v]
        /\ k'.stat[k'.cur] = "running"
    BY <1>1, <2>1, <2>3
  <2> QED BY <1>1, <2>1, <2>2, <2>5, <2>7, KernelPart
<1>3. CASE ResumeUnlinks(t)
  <2> DEFINE u == target[t]
             r == ResumeUnlink(k, u)
  <2>1. /\ k.cur = t /\ pc[t] = "resume" /\ k' = r /\ target' = target
        /\ pc' = [pc EXCEPT ![t] = "unlinked"]
    BY <1>3 DEF ResumeUnlinks, Running, Goto
  <2>2. k.stat[u] = "suspend" /\ ~k.tmr[u] /\ u # t /\ u \in Thread
    BY <1>1, <2>1 DEF ResumeTargetHeld
  <2>3. /\ r \in KernelState /\ KernelOK(r)
        /\ r.cur = k.cur /\ r.lock = k.lock /\ r.stat = k.stat
        /\ r.tmr = [k.tmr EXCEPT ![u] = FALSE]
        /\ \A q \in WaitQueue : r.list[q] = RemoveFirst(k.list[q], u)
    BY <1>1, <2>2, UnlinkForResume
  <2> HIDE DEF r, u
  <2>4. \A v \in Thread : k'.tmr[v] => k.tmr[v]
    BY <1>1, <2>1, <2>2, <2>3 DEF KernelState
  <2>5. CurrentOK(k')
    BY <1>1, <2>1, <2>3 DEF CurrentOK
  <2>6. \A v \in Thread : /\ pc'[v] = IF v = t THEN "unlinked" ELSE pc[v]
                          /\ target'[v] = target[v]
    BY <1>1, <2>1
  <2>7. ResumeTargetHeld'
    <3> SUFFICES ASSUME NEW v \in Thread, pc'[v] \in {"resume", "unlinked"}
                 PROVE  /\ k'.stat[target[v]] = "suspend" /\ ~k'.tmr[target[v]]
                        /\ target[v] # k'.cur
                        /\ pc'[target[v]] \in {"suspend", "parked"}
                        /\ Resuming(target[v])' = {v}
      BY <2>1 DEF ResumeTargetHeld
    <3>1. pc[v] \in {"resume", "unlinked"} /\ target[v] \in Thread
      BY <1>1, <2>1, <2>6
    <3>2. /\ k.stat[target[v]] = "suspend" /\ ~k.tmr[target[v]]
          /\ target[v] # k.cur /\ pc[target[v]] \in {"suspend", "parked"}
          /\ Resuming(target[v]) = {v}
      BY <1>1, <3>1 DEF ResumeTargetHeld
    <3>3. Resuming(target[v])' = Resuming(target[v])
      BY <2>1, <2>6 DEF Resuming
    <3> QED BY <2>1, <2>3, <2>4, <2>6, <3>1, <3>2, <3>3
  <2>8. TypeOK'
    BY <1>1, <2>1, <2>3 DEF TypeOK, PC
  <2>9. \A q \in WaitQueue, v \in Thread : ~Contains(k'.list[q], v)
    BY <1>1, <2>1, <2>2, <2>3, QueuesStayEmpty
  <2>10. /\ pc'[Idle] = "user" /\ k'.stat[Idle] \in Runnable
         /\ \A v \in Thread : pc'[v] \in {"suspend", "parked"} => ~k'.tmr[v]
         /\ \A v \in Thread : k'.stat[v] = "init" => pc'[v] = "user" /\ ~k'.tmr[v]
         /\ k'.stat[k'.cur] = "running"
    BY <1>1, <2>1, <2>3, <2>4, <2>6
  <2> QED BY <2>1, <2>3, <2>5, <2>7, <2>8, <2>9, <2>10, KernelPart
<1>4. CASE ResumeInserts(t)
  <2> DEFINE u == target[t]
             r == rt_schedule_insert_thread(k, u)
  <2>1. /\ k.cur = t /\ pc[t] = "unlinked" /\ k' = r
        /\ target' = [target EXCEPT ![t] = t]
        /\ pc' = [pc EXCEPT ![t] = "sched"]
    BY <1>4 DEF ResumeInserts, Running, Goto
  <2>2. /\ k.stat[u] = "suspend" /\ ~k.tmr[u] /\ u # t /\ u \in Thread
        /\ pc[u] \in {"suspend", "parked"} /\ Resuming(u) = {t}
    BY <1>1, <2>1 DEF ResumeTargetHeld
  <2>3. Detached(k, u)
    <3>1. \A h \in ListHead : ~Contains(k.list[h], u)
      BY <1>1, <2>2 DEF KernelOK, ReadyListed, ListHead
    <3> QED BY <1>1, <3>1 DEF Detached, KernelOK, ReadyListed, WaitersSuspended
  <2>4. /\ r \in KernelState /\ KernelOK(r) /\ CurrentOK(r) /\ SameQueues(r, k)
        /\ r.cur = k.cur /\ r.lock = k.lock /\ r.tmr = k.tmr
        /\ r.stat = [k.stat EXCEPT ![u] = IF u = k.cur THEN "running" ELSE "ready"]
    BY <1>1, <2>2, <2>3, InsertResumed
  <2> HIDE DEF r, u
  <2>5. /\ \A v \in Thread : k'.stat[v] = IF v = u THEN "ready" ELSE k.stat[v]
    BY <1>1, <2>1, <2>2, <2>4 DEF KernelState
  <2>6. \A v \in Thread : /\ pc'[v] = IF v = t THEN "sched" ELSE pc[v]
                          /\ v # t => target'[v] = target[v]
    BY <1>1, <2>1
  <2>8. TypeOK'
    BY <1>1, <2>1, <2>4 DEF TypeOK, PC
  <2>7. ResumeTargetHeld'
    <3> SUFFICES ASSUME NEW v \in Thread, pc'[v] \in {"resume", "unlinked"},
                        NEW w \in Thread, w = target'[v]
                 PROVE  /\ k'.stat[w] = "suspend" /\ ~k'.tmr[w] /\ w # k'.cur
                        /\ pc'[w] \in {"suspend", "parked"}
                        /\ Resuming(w)' = {v}
      BY <2>8 DEF ResumeTargetHeld, TypeOK
    <3>1. v # t /\ pc[v] \in {"resume", "unlinked"} /\ w = target[v]
      BY <1>1, <2>1, <2>6
    <3>2. /\ k.stat[w] = "suspend" /\ ~k.tmr[w] /\ w # k.cur
          /\ pc[w] \in {"suspend", "parked"} /\ Resuming(w) = {v}
      BY <1>1, <3>1 DEF ResumeTargetHeld
    <3>3. w # u
      BY <2>2, <3>1, <3>2
    <3>4. Resuming(w)' = Resuming(w)
      <4>1. \A x \in Thread : (pc'[x] \in {"resume", "unlinked"} /\ target'[x] = w)
                <=> (pc[x] \in {"resume", "unlinked"} /\ target[x] = w)
        <5> SUFFICES ASSUME NEW x \in Thread
                     PROVE  (pc'[x] \in {"resume", "unlinked"} /\ target'[x] = w)
                              <=> (pc[x] \in {"resume", "unlinked"} /\ target[x] = w)
          OBVIOUS
        <5>1. CASE x = t
          BY <2>1, <2>6, <3>3, <5>1 DEF u
        <5>2. CASE x # t
          BY <2>6, <5>2
        <5> QED BY <5>1, <5>2
      <4> QED BY <4>1 DEF Resuming
    <3> QED BY <2>1, <2>4, <2>5, <2>6, <3>1, <3>2, <3>3, <3>4
  <2>9. /\ pc'[Idle] = "user" /\ k'.stat[Idle] \in Runnable
        /\ \A v \in Thread : pc'[v] \in {"suspend", "parked"} => ~k'.tmr[v]
        /\ \A v \in Thread : k'.stat[v] = "init" => pc'[v] = "user" /\ ~k'.tmr[v]
        /\ k'.stat[k'.cur] = "running"
        /\ \A q \in WaitQueue, v \in Thread : ~Contains(k'.list[q], v)
    BY <1>1, <2>1, <2>2, <2>4, <2>5, <2>6 DEF Runnable, SameQueues
  <2> QED BY <2>1, <2>4, <2>7, <2>8, <2>9, KernelPart
<1> QED BY <1>2, <1>3, <1>4
LEMMA StartupInv ==
    ASSUME TypeOK, SchedulerInv, NEW t \in Thread, NEW u \in Thread,
           rt_thread_startup(t, u)
    PROVE  TypeOK' /\ SchedulerInv'
<1> DEFINE k0 == [k EXCEPT !.stat[u] = "suspend"]
           r == rt_thread_resume(k0, u)
<1>1. /\ k \in KernelState /\ pc \in [Thread -> PC] /\ target \in [Thread -> Thread]
      /\ KernelOK(k) /\ CurrentOK(k) /\ ResumeTargetHeld
      /\ pc[Idle] = "user" /\ k.stat[Idle] \in Runnable /\ Idle \in Thread
      /\ \A q \in WaitQueue, v \in Thread : ~Contains(k.list[q], v)
  BY KernelAssumption DEF TypeOK, SchedulerInv, Runnable
<1>2. /\ k.cur = t /\ pc[t] = "user" /\ t # Idle /\ k.stat[u] = "init"
      /\ k' = r /\ pc' = [pc EXCEPT ![t] = "sched"] /\ target' = target
      /\ k.stat[t] = "running" /\ ~k.tmr[u] /\ pc[u] = "user" /\ u # Idle /\ u # t
  BY <1>1 DEF rt_thread_startup, Calls, Running, Goto, SchedulerInv, Runnable
<1>3. /\ k0 \in KernelState
      /\ k0.list = k.list /\ k0.table = k.table /\ k0.group = k.group
      /\ k0.cur = k.cur /\ k0.lock = k.lock /\ k0.prio = k.prio /\ k0.tmr = k.tmr
      /\ k0.stat = [k.stat EXCEPT ![u] = "suspend"]
  BY <1>1 DEF KernelState, Stat
<1> HIDE DEF k0
<1>4. \A v \in Thread : k0.stat[v] = IF v = u THEN "suspend" ELSE k.stat[v]
  BY <1>1, <1>3 DEF KernelState
<1>5. KernelOK(k0) /\ CurrentOK(k0)
  <2>1. LinkedOnce(k0) /\ BitmapExact(k0)
    BY <1>1, <1>3 DEF KernelOK, LinkedOnce, BitmapExact
  <2>2. ReadyListed(k0)
    <3> SUFFICES ASSUME NEW p \in Priority, NEW v \in Thread
                 PROVE  Contains(k0.list[p], v)
                            <=> k0.stat[v] = "ready" /\ k0.prio[v] = p
      BY DEF ReadyListed
    <3>1. Contains(k.list[p], v) <=> k.stat[v] = "ready" /\ k.prio[v] = p
      BY <1>1 DEF KernelOK, ReadyListed
    <3> QED BY <1>2, <1>3, <1>4, <3>1
  <2>3. WaitersSuspended(k0)
    BY <1>1, <1>3, <1>4 DEF KernelOK, WaitersSuspended
  <2>4. CurrentOK(k0)
    BY <1>1, <1>2, <1>3, <1>4 DEF CurrentOK
  <2> QED BY <2>1, <2>2, <2>3, <2>4 DEF KernelOK
<1>6. k0.stat[u] = "suspend"
  BY <1>4
<1>7. /\ r \in KernelState /\ KernelOK(r) /\ CurrentOK(r)
      /\ r.cur = k.cur /\ r.lock = k.lock
      /\ r.tmr = [k.tmr EXCEPT ![u] = FALSE]
      /\ r.stat = [k0.stat EXCEPT ![u] = IF u = k.cur THEN "running" ELSE "ready"]
      /\ \A q \in WaitQueue : r.list[q] = RemoveFirst(k.list[q], u)
  <2>1. /\ r \in KernelState /\ KernelOK(r) /\ CurrentOK(r)
        /\ r.cur = k0.cur /\ r.lock = k0.lock
        /\ r.tmr = [k0.tmr EXCEPT ![u] = FALSE]
        /\ r.stat = [k0.stat EXCEPT ![u] = IF u = k0.cur THEN "running" ELSE "ready"]
        /\ \A q \in WaitQueue : r.list[q] = RemoveFirst(k0.list[q], u)
    BY <1>3, <1>5, <1>6, ResumeThread, ZenonT(90)
  <2> QED BY <1>3, <2>1
<1> HIDE DEF r
<1>8. /\ \A v \in Thread : k'.stat[v] = IF v = u THEN "ready" ELSE k.stat[v]
      /\ \A v \in Thread : k'.tmr[v] => k.tmr[v]
      /\ \A v \in Thread : pc'[v] = IF v = t THEN "sched" ELSE pc[v]
  <2>1. k.stat \in [Thread -> Stat] /\ k.tmr \in [Thread -> BOOLEAN]
    BY <1>1 DEF KernelState
  <2>2. \A v \in Thread : k'.stat[v] = IF v = u THEN "ready" ELSE k.stat[v]
    BY <1>2, <1>3, <1>7, <2>1
  <2>3. \A v \in Thread : k'.tmr[v] => k.tmr[v]
    BY <1>2, <1>7, <2>1
  <2> QED BY <1>1, <1>2, <2>2, <2>3
<1>9. TypeOK'
  BY <1>1, <1>2, <1>7 DEF TypeOK, PC
<1>10. ResumeTargetHeld'
  <2>1. "sched" \in PC \ {"resume", "unlinked"}
    BY DEF PC
  <2>2. \A v \in Thread : pc'[v] \in {"resume", "unlinked"} =>
              /\ v # t /\ target[v] # t
              /\ k.stat[target[v]] = "suspend" /\ ~k.tmr[target[v]]
              /\ pc'[target[v]] \in {"suspend", "parked"}
              /\ Resuming(target[v])' = {v}
    BY <1>1, <1>2, <2>1, ResumesGoOn
  <2> SUFFICES ASSUME NEW v \in Thread, pc'[v] \in {"resume", "unlinked"}
               PROVE  /\ k'.stat[target[v]] = "suspend" /\ ~k'.tmr[target[v]]
                      /\ target[v] # k'.cur
                      /\ pc'[target[v]] \in {"suspend", "parked"}
                      /\ Resuming(target[v])' = {v}
    BY <1>2 DEF ResumeTargetHeld
  <2>3. target[v] \in Thread /\ target[v] # u
    BY <1>1, <1>2, <2>2
  <2> QED BY <1>2, <1>7, <1>8, <2>2, <2>3
<1>11. /\ pc'[Idle] = "user" /\ k'.stat[Idle] \in Runnable
       /\ \A v \in Thread : pc'[v] \in {"suspend", "parked"} => ~k'.tmr[v]
       /\ \A v \in Thread : k'.stat[v] = "init" => pc'[v] = "user" /\ ~k'.tmr[v]
       /\ k'.stat[k'.cur] = "running"
  BY <1>1, <1>2, <1>7, <1>8 DEF SchedulerInv
<1>12. \A q \in WaitQueue, v \in Thread : ~Contains(k'.list[q], v)
  BY <1>1, <1>2, <1>7, QueuesStayEmpty
<1> QED BY <1>2, <1>7, <1>9, <1>10, <1>11, <1>12, KernelPart

LEMMA ControlInv ==
    ASSUME TypeOK, SchedulerInv, NEW t \in Thread, NEW u \in Thread,
           NEW p \in Priority, rt_thread_control(t, u, p)
    PROVE  TypeOK' /\ SchedulerInv'
<1> DEFINE r == ChangePriority(k, u, p)
<1>1. /\ k \in KernelState /\ KernelOK(k) /\ CurrentOK(k) /\ ResumeTargetHeld
      /\ k' = r /\ pc' = pc /\ target' = target
      /\ \A q \in WaitQueue, v \in Thread : ~Contains(k.list[q], v)
  BY DEF TypeOK, SchedulerInv, rt_thread_control
<1>2. /\ r \in KernelState /\ KernelOK(r) /\ CurrentOK(r)
      /\ r.cur = k.cur /\ r.lock = k.lock /\ r.stat = k.stat /\ r.tmr = k.tmr
      /\ SameQueues(r, k)
  <2>1. CASE k.stat[u] = "ready"
    BY <1>1, <2>1, PriorityOfReady, ZenonT(90)
  <2>2. CASE k.stat[u] # "ready"
    BY <1>1, <2>2, PriorityOfOther, ZenonT(90) DEF SameQueues
  <2> QED BY <2>1, <2>2
<1> HIDE DEF r
<1>3. TypeOK'
  BY <1>1, <1>2 DEF TypeOK
<1>4. ResumeTargetHeld'
  BY <1>1, <1>2 DEF ResumeTargetHeld, Resuming
<1>5. \A q \in WaitQueue, v \in Thread : ~Contains(k'.list[q], v)
  BY <1>1, <1>2 DEF SameQueues
<1>6. /\ k'.stat[k'.cur] # "running" =>
            /\ pc'[k'.cur] \in {"sleep", "suspend"}
            /\ k'.stat[k'.cur] = "suspend" /\ k'.lock = 0
      /\ pc'[Idle] = "user" /\ k'.stat[Idle] \in Runnable
      /\ \A v \in Thread : pc'[v] \in {"suspend", "parked"} => ~k'.tmr[v]
      /\ \A v \in Thread : k'.stat[v] = "init" => pc'[v] = "user" /\ ~k'.tmr[v]
  BY <1>1, <1>2 DEF SchedulerInv, Runnable
<1> QED BY <1>1, <1>2, <1>3, <1>4, <1>5, <1>6, KernelPart

LEMMA StepInv ==
    ASSUME TypeOK, SchedulerInv, OneWaker, [Next]_vars
    PROVE  TypeOK' /\ SchedulerInv'
<1>1. CASE Interrupt
  BY <1>1, SliceInv, TimerInv, WakeInv DEF Interrupt
<1>2. ASSUME NEW t \in Thread, ThreadStep(t)
      PROVE  TypeOK' /\ SchedulerInv'
  <2>1. CASE CallReturns(t)
    BY <2>1, DoScheduleInv, ReturnInv, ResumeInv DEF CallReturns
  <2>2. CASE rt_thread_yield(t)
    BY <2>2, YieldInv
  <2>3. CASE rt_thread_sleep(t) \/ SuspendSelf(t)
    BY <2>3, SuspendInv
  <2>4. CASE rt_enter_critical(t) \/ rt_exit_critical(t)
    BY <2>4, ReturnInv
  <2>5. CASE \E u \in Thread : ResumeCheck(t, u)
    BY <2>5, ResumeInv
  <2>6. CASE \E u \in Thread : rt_thread_startup(t, u)
    BY <2>6, StartupInv
  <2>7. CASE \E u \in Thread : \E p \in Priority \ {k.prio[Idle]} :
                 rt_thread_control(t, u, p)
    BY <2>7, ControlInv
  <2> QED BY <1>2, <2>1, <2>2, <2>3, <2>4, <2>5, <2>6, <2>7 DEF ThreadStep
<1>3. CASE UNCHANGED vars
  BY <1>3 DEF vars, TypeOK, SchedulerInv, ResumeTargetHeld, Resuming
<1> QED BY <1>1, <1>2, <1>3 DEF Next

LEMMA AlwaysInv ==
    ASSUME OneWaker
    PROVE  Spec => [](TypeOK /\ SchedulerInv)
<1>1. Init => TypeOK /\ SchedulerInv
  BY InitInv
<1>2. TypeOK /\ SchedulerInv /\ [Next]_vars => TypeOK' /\ SchedulerInv'
  BY StepInv
<1> QED BY <1>1, <1>2, PTL DEF Spec

(* The variables keep their types: in particular every priority, every     *)
(* bit of the ready table and every list entry stays in range.             *)
THEOREM SchedulerTyped == ASSUME OneWaker PROVE Spec => []TypeOK
BY AlwaysInv, PTL

(* The invariant the theorems below rest on: what a step of any thread or  *)
(* interrupt finds and leaves.                                             *)
THEOREM SchedulerInvariant == ASSUME OneWaker PROVE Spec => []SchedulerInv
BY AlwaysInv, PTL

(* Whatever the interleaving of calls and interrupts, every tlist node is  *)
(* in the one list its thread's state calls for and the bitmap of          *)
(* scheduler.c is exact, provided a suspended thread is resumed from one   *)
(* place at a time.                                                        *)
THEOREM SchedulerConsistent == ASSUME OneWaker PROVE Spec => []KernelConsistent
<1>1. SchedulerInv => KernelConsistent
  BY DEF SchedulerInv, KernelConsistent
<1> QED BY <1>1, SchedulerInvariant, PTL

(* At most one thread is RUNNING, it is the current one, and application   *)
(* code never runs in a thread that is not.                                *)
THEOREM SchedulerOneRunning == ASSUME OneWaker PROVE Spec => []OnlyCurrentRuns
<1>1. SchedulerInv => OnlyCurrentRuns
  BY DEF SchedulerInv, OnlyCurrentRuns
<1> QED BY <1>1, SchedulerInvariant, PTL

(* After rt_schedule, unless the scheduler is locked, no ready thread is   *)
(* more urgent than the current one.                                       *)
LEMMA ScheduleHighest ==
    ASSUME NEW kk \in KernelState, KernelOK(kk), CurrentOK(kk),
           rt_schedule(kk).lock = 0
    PROVE  CurrentIsHighest(rt_schedule(kk))
<1> DEFINE r == rt_schedule(kk)
<1>1. r.lock = kk.lock /\ (kk.lock = 0 /\ kk.table # {} => CurrentIsHighest(r))
  BY ScheduleThread
<1>2. ASSUME kk.table = {} PROVE CurrentIsHighest(r)
  <2>1. kk.group = {}
    BY <1>2 DEF KernelOK, BitmapExact
  <2>2. r = kk
    BY <2>1 DEF rt_schedule
  <2>3. \A t \in Thread : kk.stat[t] # "ready"
    <3> SUFFICES ASSUME NEW t \in Thread, kk.stat[t] = "ready" PROVE FALSE
      OBVIOUS
    <3>1. kk.prio[t] \in Priority /\ kk.list[kk.prio[t]] \in Seq(Thread)
      BY DEF KernelState, ListHead
    <3>2. Contains(kk.list[kk.prio[t]], t)
      BY <3>1 DEF KernelOK, ReadyListed
    <3> QED BY <1>2, <3>1, <3>2, EmptyList DEF KernelOK, BitmapExact
  <2> QED BY <2>2, <2>3 DEF CurrentIsHighest
<1> QED BY <1>1, <1>2

LEMMA StepHighest ==
    ASSUME TypeOK, SchedulerInv, HighestInv, OneWaker, "priority" \notin Api,
           [Next]_vars
    PROVE  HighestInv'
<1>1. /\ k \in KernelState /\ pc \in [Thread -> PC] /\ target \in [Thread -> Thread]
      /\ KernelOK(k) /\ CurrentOK(k) /\ k.cur \in Thread
      /\ \A q \in WaitQueue, v \in Thread : ~Contains(k.list[q], v)
  BY DEF TypeOK, SchedulerInv, KernelState
<1>2. ASSUME NEW kk \in KernelState, KernelOK(kk), CurrentOK(kk),
             k' = rt_schedule(kk)
      PROVE  HighestInv'
  BY <1>2, ScheduleHighest DEF HighestInv
<1>3. CASE SliceExpires
  BY <1>1, <1>2, <1>3 DEF SliceExpires
<1>4. ASSUME NEW w \in Thread, TimerFires(w)
      PROVE  HighestInv'
  <2>1. k.stat[w] = "suspend" /\ k' = rt_schedule(TimedOut(k, w))
    BY <1>1, <1>4 DEF TimerFires, rt_thread_timeout, KernelOK, WaitersSuspended
  <2>2. /\ TimedOut(k, w) \in KernelState
        /\ KernelOK(TimedOut(k, w)) /\ CurrentOK(TimedOut(k, w))
    BY <1>1, <2>1, TimeoutThread
  <2> QED BY <1>2, <2>1, <2>2
<1>5. ASSUME NEW w \in Thread, DeviceWakes(w)
      PROVE  HighestInv'
  <2>1. k.stat[w] = "suspend" /\ k' = rt_schedule(rt_thread_resume(k, w))
    BY <1>5 DEF DeviceWakes
  <2>2. /\ rt_thread_resume(k, w) \in KernelState
        /\ KernelOK(rt_thread_resume(k, w)) /\ CurrentOK(rt_thread_resume(k, w))
    BY <1>1, <2>1, ResumeThread
  <2> QED BY <1>2, <2>1, <2>2
<1>6. ASSUME NEW t \in Thread, ThreadStep(t)
      PROVE  HighestInv'
  <2>1. CASE DoSchedule(t)
    BY <1>1, <1>2, <2>1 DEF DoSchedule
  <2>2. ASSUME k'.cur = k.cur, k'.stat = k.stat, k'.prio = k.prio,
               pc[k.cur] \notin {"sched", "sleep", "suspend"},
               k'.lock = 0 => k.lock = 0
        PROVE  HighestInv'
    BY <2>2 DEF HighestInv, CurrentIsHighest
  <2>3. CASE SleepReturns(t)
    <3>1. k' = [k EXCEPT !.err[t] = IF @ = "timeout" THEN "ok" ELSE @]
      BY <2>3 DEF SleepReturns
    <3>2. k'.cur = k.cur /\ k'.stat = k.stat /\ k'.prio = k.prio /\ k'.lock = k.lock
      BY <1>1, <3>1 DEF KernelState
    <3> QED BY <2>2, <2>3, <3>2 DEF SleepReturns, Running
  <2>4. CASE SuspendReturns(t)
    BY <2>2, <2>4 DEF SuspendReturns, Running
  <2>5. CASE ResumeUnlinks(t)
    <3>1. k.cur = t /\ pc[t] = "resume" /\ k' = ResumeUnlink(k, target[t])
      BY <2>5 DEF ResumeUnlinks, Running
    <3>2. k.stat[target[t]] = "suspend" /\ target[t] \in Thread
      BY <1>1, <3>1 DEF SchedulerInv, ResumeTargetHeld
    <3>3. k'.cur = k.cur /\ k'.stat = k.stat /\ k'.prio = k.prio /\ k'.lock = k.lock
      BY <1>1, <3>1, <3>2, UnlinkForResume
    <3> QED BY <2>2, <3>1, <3>3
  <2>6. CASE rt_enter_critical(t)
    <3>1. k' = [k EXCEPT !.lock = k.lock + 1] /\ k.lock \in Nat
      BY <1>1, <2>6 DEF rt_enter_critical, KernelState
    <3>2. /\ k'.cur = k.cur /\ k'.stat = k.stat /\ k'.prio = k.prio
          /\ k'.lock # 0
      BY <1>1, <3>1 DEF KernelState
    <3> QED BY <3>2 DEF HighestInv
  <2>7. CASE rt_exit_critical(t)
    <3>1. /\ k.cur = t /\ pc[t] = "user" /\ target' = target /\ k.lock \in Nat
          /\ k' = [k EXCEPT !.lock = IF k.lock > 0 THEN k.lock - 1 ELSE 0]
          /\ pc' = [pc EXCEPT ![t] = IF k.lock <= 1 THEN "sched" ELSE "user"]
      BY <1>1, <2>7 DEF rt_exit_critical, Calls, Running, Goto, KernelState
    <3>2. k'.cur = k.cur /\ k'.lock = IF k.lock > 0 THEN k.lock - 1 ELSE 0
      BY <1>1, <3>1 DEF KernelState
    <3>3. CASE k.lock <= 1
      BY <1>1, <3>1, <3>2, <3>3 DEF HighestInv
    <3>4. CASE k.lock > 1
      BY <3>1, <3>2, <3>4 DEF HighestInv
    <3> QED BY <3>1, <3>3, <3>4
  <2>8. ASSUME pc'[k'.cur] \in {"sched", "sleep", "suspend"}
        PROVE  HighestInv'
    BY <2>8 DEF HighestInv
  <2>9. CASE rt_thread_yield(t)
    BY <1>1, <2>8, <2>9 DEF rt_thread_yield, Calls, Running, Goto
  <2>10. CASE rt_thread_sleep(t) \/ SuspendSelf(t)
    <3>1. /\ k.cur = t /\ pc' = [pc EXCEPT ![t] = pc'[t]]
          /\ pc'[t] \in {"sleep", "suspend"}
          /\ \/ k' = StartTimer(rt_thread_suspend(k, t), t)
             \/ k' = rt_thread_suspend(k, t)
          /\ pc[t] = "user"
      BY <1>1, <2>10 DEF rt_thread_sleep, SuspendSelf, Calls, Running, Goto
    <3>2. k.stat[t] \in Runnable
      BY <1>1, <3>1 DEF SchedulerInv, Runnable
    <3>3. rt_thread_suspend(k, t).cur = k.cur /\ rt_thread_suspend(k, t) \in KernelState
      BY <1>1, <3>1, <3>2, SuspendThread
    <3>4. k'.cur = k.cur
      BY <3>1, <3>3 DEF StartTimer, KernelState
    <3> QED BY <2>8, <3>1, <3>4
  <2>11. ASSUME NEW u \in Thread, ResumeCheck(t, u)
         PROVE  HighestInv'
    <3>1. k.cur = t /\ pc[t] = "user" /\ k' = k
      BY <2>11 DEF ResumeCheck, Calls, Running
    <3> QED BY <2>2, <3>1
  <2>12. CASE ResumeInserts(t)
    <3>1. /\ k.cur = t /\ k' = rt_schedule_insert_thread(k, target[t])
          /\ pc' = [pc EXCEPT ![t] = "sched"]
      BY <2>12 DEF ResumeInserts, Running, Goto
    <3>2. k'.cur = k.cur
      BY <1>1, <3>1 DEF rt_schedule_insert_thread, KernelState
    <3> QED BY <1>1, <2>8, <3>1, <3>2
  <2>13. ASSUME NEW u \in Thread, rt_thread_startup(t, u)
         PROVE  HighestInv'
    <3>1. /\ k.cur = t /\ pc' = [pc EXCEPT ![t] = "sched"]
          /\ k' = rt_thread_resume([k EXCEPT !.stat[u] = "suspend"], u)
      BY <2>13 DEF rt_thread_startup, Calls, Running, Goto
    <3>2. k'.cur = k.cur
      BY <1>1, <3>1 DEF rt_thread_resume, ResumeUnlink, rt_list_remove,
                        rt_schedule_insert_thread, KernelState
    <3> QED BY <1>1, <2>8, <3>1, <3>2
  <2>14. ~ \E u \in Thread : \E p \in Priority \ {k.prio[Idle]} :
                 rt_thread_control(t, u, p)
    BY DEF rt_thread_control, Calls
  <2> QED BY <1>6, <2>1, <2>3, <2>4, <2>5, <2>6, <2>7, <2>9, <2>10, <2>11, <2>12,
             <2>13, <2>14 DEF ThreadStep, CallReturns
<1>7. CASE UNCHANGED vars
  BY <1>7 DEF vars, HighestInv
<1> QED BY <1>3, <1>4, <1>5, <1>6, <1>7 DEF Next, Interrupt

(* The scheduler is preemptive: as long as no priority changes while       *)
(* threads run, application code runs only in a thread that no ready       *)
(* thread is more urgent than.                                             *)
THEOREM SchedulerPreemptive ==
    ASSUME OneWaker, "priority" \notin Api
    PROVE  Spec => []RunsHighest
<1>1. Init => HighestInv
  BY SchedulerAssumption DEF Init, HighestInv
<1>2. TypeOK /\ SchedulerInv /\ HighestInv /\ [Next]_vars => HighestInv'
  BY StepHighest
<1>3. HighestInv => RunsHighest
  BY DEF HighestInv, RunsHighest
<1>4. Spec => [](TypeOK /\ SchedulerInv)
  BY AlwaysInv
<1> QED BY <1>1, <1>2, <1>3, <1>4, PTL DEF Spec

-----------------------------------------------------------------------------
(* The timers (Timer).  Ticks wrap, so times are compared by how far they  *)
(* are from one tick that no time still of account is before: Base(tick),  *)
(* MaxLate ticks ago.  First the arithmetic, then the lists, the loop of   *)
(* rt_timer_check, and the steps one by one.                               *)

(* Differences of ticks that wrap, without the remainder. *)
LEMMA Remainder ==
    ASSUME NEW m \in Nat \ {0}, NEW a \in Int, -m <= a, a < 2 * m
    PROVE  a % m = IF a < 0 THEN a + m ELSE IF a < m THEN a ELSE a - m
<1>1. a = m * (a \div m) + (a % m) /\ a % m \in 0 .. m - 1 /\ a \div m \in Int
  BY Z3
<1> QED BY <1>1, Z3

LEMMA MinusIs ==
    ASSUME NEW a \in Ticks, NEW b \in Ticks
    PROVE  /\ Minus(a, b) \in Ticks
           /\ Minus(a, b) = IF a >= b THEN a - b ELSE (a - b) + (TickMax + 1)
<1>1. TickMax + 1 \in Nat \ {0} /\ a - b \in Int /\ -(TickMax + 1) <= a - b /\ a - b < TickMax + 1
  BY TimerAssumption DEF Ticks
<1>2. Minus(a, b) = IF a - b < 0 THEN (a - b) + (TickMax + 1) ELSE a - b
  BY <1>1, Remainder DEF Minus
<1> QED BY <1>2, TimerAssumption DEF Ticks

LEMMA PlusIs ==
    ASSUME NEW a \in Ticks, NEW d \in Ticks
    PROVE  /\ Plus(a, d) \in Ticks
           /\ Plus(a, d) = IF a + d <= TickMax THEN a + d ELSE (a + d) - (TickMax + 1)
<1>1. TickMax + 1 \in Nat \ {0} /\ a + d \in Int /\ 0 <= a + d /\ a + d < 2 * (TickMax + 1)
  BY TimerAssumption DEF Ticks
<1>2. Plus(a, d) = IF a + d < TickMax + 1 THEN a + d ELSE (a + d) - (TickMax + 1)
  BY <1>1, Remainder DEF Plus
<1> QED BY <1>2, TimerAssumption DEF Ticks

LEMMA HalfIs == Half \in Nat /\ 2 * Half <= TickMax /\ TickMax \in Nat
BY TimerAssumption DEF Half

(* Times in less than half a turn from a tick b are ordered by how far     *)
(* they are from b, as rt_timer_start compares them.                       *)
LEMMA Compare ==
    ASSUME NEW b \in Ticks, NEW x \in Ticks, NEW y \in Ticks,
           Minus(x, b) < Half, Minus(y, b) < Half
    PROVE  /\ Minus(y, x) \in Ticks /\ Minus(x, b) \in Ticks /\ Minus(y, b) \in Ticks
           /\ Minus(y, x) < Half <=> Minus(x, b) <= Minus(y, b)
           /\ 0 < Minus(y, x) /\ Minus(y, x) < Half <=> Minus(x, b) < Minus(y, b)
<1>1. /\ Minus(x, b) \in Ticks
      /\ Minus(x, b) = IF x >= b THEN x - b ELSE (x - b) + (TickMax + 1)
  BY MinusIs
<1>2. /\ Minus(y, b) \in Ticks
      /\ Minus(y, b) = IF y >= b THEN y - b ELSE (y - b) + (TickMax + 1)
  BY MinusIs
<1>3. /\ Minus(y, x) \in Ticks
      /\ Minus(y, x) = IF y >= x THEN y - x ELSE (y - x) + (TickMax + 1)
  BY MinusIs
<1> QED BY <1>1, <1>2, <1>3, HalfIs DEF Ticks

(* The tick from which times are counted: none that is still of account is *)
(* before it.                                                              *)
Base(now) == Minus(now, MaxLate)

(* The clock goes on from a tick to the next. *)
LEMMA TickIs ==
    ASSUME NEW now \in Ticks, MaxLate + 2 < Half
    PROVE  /\ MaxLate \in Ticks /\ Plus(now, 1) \in Ticks
           /\ Base(now) \in Ticks
           /\ Base(Plus(now, 1)) \in Ticks /\ Base(Plus(now, 1)) = Plus(Base(now), 1)
<1>1. MaxLate \in Ticks /\ 1 \in Ticks
  BY HalfIs, TimerAssumption DEF Ticks
<1>2. /\ Plus(now, 1) \in Ticks
      /\ Plus(now, 1) = IF now + 1 <= TickMax THEN now + 1 ELSE (now + 1) - (TickMax + 1)
  BY <1>1, PlusIs
<1>3. /\ Base(now) \in Ticks
      /\ Base(now) = IF now >= MaxLate THEN now - MaxLate ELSE (now - MaxLate) + (TickMax + 1)
  BY <1>1, MinusIs DEF Base
<1> DEFINE next == Plus(now, 1)
<1>4. /\ Base(next) \in Ticks
      /\ Base(next) = IF next >= MaxLate THEN next - MaxLate
                      ELSE (next - MaxLate) + (TickMax + 1)
  BY <1>1, <1>2, MinusIs DEF Base
<1>5. Plus(Base(now), 1) = IF Base(now) + 1 <= TickMax THEN Base(now) + 1
                           ELSE (Base(now) + 1) - (TickMax + 1)
  BY <1>1, <1>3, PlusIs
<1> QED BY <1>1, <1>2, <1>3, <1>4, <1>5, HalfIs DEF Ticks

LEMMA NextBase ==
    ASSUME NEW b \in Ticks, NEW x \in Ticks, Minus(x, b) >= 1, TickMax >= 1
    PROVE  Minus(x, Plus(b, 1)) = Minus(x, b) - 1
<1>1. 1 \in Ticks
  BY TimerAssumption DEF Ticks
<1>2. /\ Plus(b, 1) \in Ticks
      /\ Plus(b, 1) = IF b + 1 <= TickMax THEN b + 1 ELSE (b + 1) - (TickMax + 1)
  BY <1>1, PlusIs
<1>3. Minus(x, b) = IF x >= b THEN x - b ELSE (x - b) + (TickMax + 1)
  BY MinusIs
<1>4. Minus(x, Plus(b, 1)) = IF x >= Plus(b, 1) THEN x - Plus(b, 1)
                             ELSE (x - Plus(b, 1)) + (TickMax + 1)
  BY <1>2, MinusIs
<1> QED BY <1>2, <1>3, <1>4, TimerAssumption DEF Ticks

(* A time that is computed at a tick, and one that is due at a tick, seen  *)
(* from the base of that tick.                                             *)
LEMMA FreshTime ==
    ASSUME NEW now \in Ticks, NEW d \in Nat, d >= 1, d + MaxLate + 1 < Half
    PROVE  /\ Plus(now, d) \in Ticks
           /\ Minus(Plus(now, d), Base(now)) = MaxLate + d
<1>1. MaxLate \in Nat /\ d \in Ticks /\ MaxLate \in Ticks
  BY HalfIs, TimerAssumption DEF Ticks
<1>2. /\ Plus(now, d) \in Ticks
      /\ Plus(now, d) = IF now + d <= TickMax THEN now + d ELSE (now + d) - (TickMax + 1)
  BY <1>1, PlusIs
<1>3. /\ Base(now) \in Ticks
      /\ Base(now) = IF now >= MaxLate THEN now - MaxLate ELSE (now - MaxLate) + (TickMax + 1)
  BY <1>1, MinusIs DEF Base
<1>4. Minus(Plus(now, d), Base(now)) =
          IF Plus(now, d) >= Base(now) THEN Plus(now, d) - Base(now)
          ELSE (Plus(now, d) - Base(now)) + (TickMax + 1)
  BY <1>2, <1>3, MinusIs
<1> QED BY <1>1, <1>2, <1>3, <1>4, HalfIs DEF Ticks

(* The same from the base of the tick before. *)
LEMMA FreshAtNext ==
    ASSUME NEW now \in Ticks, NEW d \in Nat, d >= 1, d + MaxLate + 1 < Half
    PROVE  /\ Plus(Plus(now, 1), d) \in Ticks
           /\ Minus(Plus(Plus(now, 1), d), Base(now)) = MaxLate + 1 + d
<1>1. MaxLate \in Nat /\ d \in Ticks /\ MaxLate \in Ticks /\ 1 \in Ticks
  BY HalfIs, TimerAssumption DEF Ticks
<1> DEFINE n1 == Plus(now, 1)
<1>2. n1 \in Ticks /\ n1 = IF now + 1 <= TickMax THEN now + 1 ELSE (now + 1) - (TickMax + 1)
  BY <1>1, PlusIs
<1> HIDE DEF n1
<1>3. /\ Plus(n1, d) \in Ticks
      /\ Plus(n1, d) = IF n1 + d <= TickMax THEN n1 + d ELSE (n1 + d) - (TickMax + 1)
  BY <1>1, <1>2, PlusIs
<1>4. /\ Base(now) \in Ticks
      /\ Base(now) = IF now >= MaxLate THEN now - MaxLate ELSE (now - MaxLate) + (TickMax + 1)
  BY <1>1, MinusIs DEF Base
<1>5. Minus(Plus(n1, d), Base(now)) =
          IF Plus(n1, d) >= Base(now) THEN Plus(n1, d) - Base(now)
          ELSE (Plus(n1, d) - Base(now)) + (TickMax + 1)
  BY <1>3, <1>4, MinusIs
<1>6. /\ Plus(n1, d) \in Ticks
      /\ Minus(Plus(n1, d), Base(now)) = MaxLate + 1 + d
  BY <1>1, <1>2, <1>3, <1>4, <1>5, HalfIs DEF Ticks
<1> QED BY <1>6 DEF n1

LEMMA DueAtNext ==
    ASSUME NEW now \in Ticks, MaxLate + 2 < Half, NEW x \in Ticks, Minus(x, Base(now)) < Half
    PROVE  /\ Minus(Plus(now, 1), x) \in Ticks /\ Minus(x, Base(now)) \in Ticks
           /\ Minus(Plus(now, 1), x) < Half <=> Minus(x, Base(now)) <= MaxLate + 1
           /\ Minus(Plus(now, 1), x) < Half =>
                 Minus(Plus(now, 1), x) = MaxLate + 1 - Minus(x, Base(now))
<1>1. MaxLate \in Nat /\ MaxLate \in Ticks /\ 1 \in Ticks
  BY HalfIs, TimerAssumption DEF Ticks
<1> DEFINE n1 == Plus(now, 1)
<1>2. n1 \in Ticks /\ n1 = IF now + 1 <= TickMax THEN now + 1 ELSE (now + 1) - (TickMax + 1)
  BY <1>1, PlusIs
<1> HIDE DEF n1
<1>3. /\ Base(now) \in Ticks
      /\ Base(now) = IF now >= MaxLate THEN now - MaxLate ELSE (now - MaxLate) + (TickMax + 1)
  BY <1>1, MinusIs DEF Base
<1>4. /\ Minus(x, Base(now)) \in Ticks
      /\ Minus(x, Base(now)) = IF x >= Base(now) THEN x - Base(now)
                               ELSE (x - Base(now)) + (TickMax + 1)
  BY <1>3, MinusIs
<1>5. /\ Minus(n1, x) \in Ticks
      /\ Minus(n1, x) = IF n1 >= x THEN n1 - x ELSE (n1 - x) + (TickMax + 1)
  BY <1>2, MinusIs
<1>6. /\ Minus(n1, x) < Half <=> Minus(x, Base(now)) <= MaxLate + 1
      /\ Minus(n1, x) < Half => Minus(n1, x) = MaxLate + 1 - Minus(x, Base(now))
  BY <1>1, <1>2, <1>3, <1>4, <1>5, HalfIs DEF Ticks
<1> QED BY <1>4, <1>5, <1>6 DEF n1

-----------------------------------------------------------------------------
(* The lists.  Everything in them is in less than half a turn from b.      *)
ListSorted(s, l) ==
    /\ IsInjective(l)
    /\ \A x, y : Before(l, x, y) => Minus(s.timeout[y], s.timeout[x]) < Half

TimersOK(s) ==
    /\ s \in [hard : Seq(Hard), soft : Seq(Soft), active : SUBSET Timers,
              timeout : [Timers -> Ticks], init : InitTicks]
    /\ ListSorted(s, s.hard) /\ ListSorted(s, s.soft)

Near(s, b) == \A t \in Timers : Linked(s, t) => Minus(s.timeout[t], b) < Half

LEMMA ListIs ==
    ASSUME NEW s, TimersOK(s), NEW t \in Timers
    PROVE  /\ ListOf(s, t) \in Seq(Timers) /\ ListSorted(s, ListOf(s, t))
           /\ t \in Soft => ListOf(s, t) = s.soft /\ ListOf(s, t) \in Seq(Soft)
           /\ t \notin Soft => ListOf(s, t) = s.hard /\ ListOf(s, t) \in Seq(Hard) /\ t \in Hard
           /\ \A u : Contains(s.soft, u) => u \in Soft
           /\ \A u : Contains(s.hard, u) => u \in Hard /\ u \notin Soft
           /\ \A u : Contains(ListOf(s, t), u) => u \in Timers /\ Linked(s, u)
<1>1. s.soft \in Seq(Soft) /\ s.hard \in Seq(Hard)
  BY DEF TimersOK
<1>2. \A u : Contains(s.soft, u) => u \in Soft
  <2>1. \A i \in 1 .. Len(s.soft) : s.soft[i] \in Soft
    BY <1>1
  <2> QED BY <2>1 DEF Contains
<1>3. \A u : Contains(s.hard, u) => u \in Hard /\ u \notin Soft
  <2>1. \A i \in 1 .. Len(s.hard) : s.hard[i] \in Hard
    BY <1>1
  <2> QED BY <2>1, TimerAssumption DEF Contains
<1>4. Seq(Soft) \subseteq Seq(Timers) /\ Seq(Hard) \subseteq Seq(Timers)
  BY DEF Timers
<1>5. ListOf(s, t) = IF t \in Soft THEN s.soft ELSE s.hard
  BY DEF ListOf
<1>6. \A u : Contains(ListOf(s, t), u) => u \in Timers /\ Linked(s, u)
  BY <1>2, <1>3, <1>5 DEF Linked, ListOf, Timers
<1>7. ListSorted(s, ListOf(s, t))
  BY <1>5 DEF TimersOK
<1> QED BY <1>1, <1>2, <1>3, <1>4, <1>5, <1>6, <1>7 DEF Timers

(* A list that is put in the place of another. *)
LEMMA ListIn ==
    ASSUME NEW s, TimersOK(s), NEW t \in Timers, NEW l,
           l \in Seq(IF t \in Soft THEN Soft ELSE Hard), ListSorted(s, l)
    PROVE  LET r == SetList(s, t, l) IN
           /\ TimersOK(r)
           /\ r.active = s.active /\ r.timeout = s.timeout /\ r.init = s.init
           /\ \A u \in Timers : ListOf(r, u) = IF u \in Soft <=> t \in Soft
                                               THEN l ELSE ListOf(s, u)
<1> DEFINE r == SetList(s, t, l)
<1>1. CASE t \in Soft
  <2>1. r = [s EXCEPT !.soft = l]
    BY <1>1 DEF SetList
  <2>2. /\ r \in [hard : Seq(Hard), soft : Seq(Soft), active : SUBSET Timers,
                  timeout : [Timers -> Ticks], init : InitTicks]
        /\ r.hard = s.hard /\ r.soft = l /\ r.active = s.active
        /\ r.timeout = s.timeout /\ r.init = s.init
    BY <1>1, <2>1 DEF TimersOK
  <2> HIDE DEF r
  <2>3. TimersOK(r)
    BY <2>2 DEF TimersOK, ListSorted
  <2>4. \A u \in Timers : ListOf(r, u) = IF u \in Soft THEN l ELSE ListOf(s, u)
    BY <2>2 DEF ListOf
  <2> QED BY <1>1, <2>2, <2>3, <2>4 DEF r
<1>2. CASE t \notin Soft
  <2>1. r = [s EXCEPT !.hard = l]
    BY <1>2 DEF SetList
  <2>2. /\ r \in [hard : Seq(Hard), soft : Seq(Soft), active : SUBSET Timers,
                  timeout : [Timers -> Ticks], init : InitTicks]
        /\ r.hard = l /\ r.soft = s.soft /\ r.active = s.active
        /\ r.timeout = s.timeout /\ r.init = s.init
    BY <1>2, <2>1 DEF TimersOK
  <2> HIDE DEF r
  <2>3. TimersOK(r)
    BY <2>2 DEF TimersOK, ListSorted
  <2>4. \A u \in Timers : ListOf(r, u) = IF u \in Soft THEN ListOf(s, u) ELSE l
    BY <2>2 DEF ListOf
  <2> QED BY <1>2, <2>2, <2>3, <2>4 DEF r
<1> QED BY <1>1, <1>2

LEMMA RemoveIs ==
    ASSUME NEW s, TimersOK(s), NEW t \in Timers
    PROVE  LET r == _rt_timer_remove(s, t) IN
           /\ TimersOK(r)
           /\ r.active = s.active /\ r.timeout = s.timeout /\ r.init = s.init
           /\ \A u \in Timers : Linked(r, u) <=> Linked(s, u) /\ u # t
<1> DEFINE l == RemoveFirst(ListOf(s, t), t)
           r == _rt_timer_remove(s, t)
           T == IF t \in Soft THEN Soft ELSE Hard
<1>1. ListOf(s, t) \in Seq(T) /\ ListSorted(s, ListOf(s, t))
  BY ListIs
<1>2. /\ l \in Seq(T) /\ IsInjective(l)
      /\ \A x : Contains(l, x) <=> Contains(ListOf(s, t), x) /\ x # t
  <2> HIDE DEF T
  <2> QED BY <1>1, RemoveFromList DEF ListSorted
<1>3. ASSUME NEW x, NEW y, Before(l, x, y)
      PROVE  Minus(s.timeout[y], s.timeout[x]) < Half
  <2> HIDE DEF T
  <2>1. Before(ListOf(s, t), x, y)
    BY <1>1, <1>3, RemoveKeepsOrder DEF ListSorted
  <2> QED BY <1>1, <2>1 DEF ListSorted
<1>4. ListSorted(s, l)
  BY <1>2, <1>3 DEF ListSorted
<1>5. r = SetList(s, t, l)
  BY DEF _rt_timer_remove
<1> HIDE DEF l, r
<1>6. /\ TimersOK(r)
      /\ r.active = s.active /\ r.timeout = s.timeout /\ r.init = s.init
      /\ \A u \in Timers : ListOf(r, u) = IF u \in Soft <=> t \in Soft
                                          THEN l ELSE ListOf(s, u)
  BY <1>2, <1>4, <1>5, ListIn
<1>7. ASSUME NEW u \in Timers PROVE Linked(r, u) <=> Linked(s, u) /\ u # t
  <2>1. CASE u \in Soft <=> t \in Soft
    <3>1. ListOf(s, u) = ListOf(s, t)
      BY <2>1 DEF ListOf
    <3> QED BY <1>2, <1>6, <2>1, <3>1 DEF Linked
  <2>2. CASE ~(u \in Soft <=> t \in Soft)
    BY <1>6, <2>2 DEF Linked
  <2> QED BY <2>1, <2>2
<1> QED BY <1>6, <1>7 DEF r

LEMMA UnflagIs ==
    ASSUME NEW s, TimersOK(s), NEW t
    PROVE  LET r == Unflag(s, t) IN
           /\ TimersOK(r)
           /\ r.active = s.active \ {t} /\ r.timeout = s.timeout /\ r.init = s.init
           /\ \A u : Linked(r, u) <=> Linked(s, u)
<1> DEFINE r == Unflag(s, t)
<1>1. /\ r \in [hard : Seq(Hard), soft : Seq(Soft), active : SUBSET Timers,
                timeout : [Timers -> Ticks], init : InitTicks]
      /\ r.hard = s.hard /\ r.soft = s.soft /\ r.active = s.active \ {t}
      /\ r.timeout = s.timeout /\ r.init = s.init
  BY DEF TimersOK, Unflag
<1> HIDE DEF r
<1>2. TimersOK(r)
  BY <1>1 DEF TimersOK, ListSorted
<1>3. \A u : Linked(r, u) <=> Linked(s, u)
  BY <1>1 DEF Linked, ListOf
<1> QED BY <1>1, <1>2, <1>3 DEF r

(* The time of a timer changes while it is in no list. *)
LEMMA SetTimeoutIs ==
    ASSUME NEW s, TimersOK(s), NEW t \in Timers, ~Linked(s, t), NEW now \in Ticks
    PROVE  LET r == SetTimeout(s, t, now) IN
           /\ TimersOK(r)
           /\ r.active = s.active /\ r.init = s.init
           /\ r.timeout[t] = Plus(now, s.init[t])
           /\ \A u \in Timers : u # t => r.timeout[u] = s.timeout[u]
           /\ \A u : Linked(r, u) <=> Linked(s, u)
<1> DEFINE r == SetTimeout(s, t, now)
<1>1. Plus(now, s.init[t]) \in Ticks
  <2>1. s.init[t] \in 1 .. Half
    BY DEF TimersOK, InitTicks
  <2>2. s.init[t] \in Ticks
    BY <2>1, HalfIs DEF Ticks
  <2> QED BY <2>2, PlusIs
<1>2. /\ r \in [hard : Seq(Hard), soft : Seq(Soft), active : SUBSET Timers,
                timeout : [Timers -> Ticks], init : InitTicks]
      /\ r.hard = s.hard /\ r.soft = s.soft /\ r.active = s.active /\ r.init = s.init
      /\ r.timeout[t] = Plus(now, s.init[t])
      /\ \A u \in Timers : u # t => r.timeout[u] = s.timeout[u]
  BY <1>1 DEF TimersOK, SetTimeout
<1> HIDE DEF r
<1>3. ASSUME NEW l, l = s.hard \/ l = s.soft
      PROVE  ListSorted(r, l)
  <2>1. ListSorted(s, l)
    BY <1>3 DEF TimersOK
  <2>2. \A x : Contains(l, x) => x \in Timers /\ Linked(s, x)
    BY <1>3, ListIs DEF Linked, ListOf, Timers
  <2>3. ASSUME NEW x, NEW y, Before(l, x, y)
        PROVE  Minus(r.timeout[y], r.timeout[x]) < Half
    <3>1. Contains(l, x) /\ Contains(l, y)
      BY <2>3 DEF Before, Contains
    <3>2. r.timeout[x] = s.timeout[x] /\ r.timeout[y] = s.timeout[y]
      BY <1>2, <2>2, <3>1
    <3> QED BY <2>1, <2>3, <3>2 DEF ListSorted
  <2> QED BY <2>1, <2>3 DEF ListSorted
<1>4. TimersOK(r)
  BY <1>2, <1>3 DEF TimersOK
<1>5. \A u : Linked(r, u) <=> Linked(s, u)
  BY <1>2 DEF Linked, ListOf
<1> QED BY <1>2, <1>4, <1>5 DEF r

(* Where a timer is put: behind all that are due no later, before all that *)
(* are due later.                                                          *)
LEMMA PlaceIs ==
    ASSUME NEW s, TimersOK(s), NEW t \in Timers, NEW b \in Ticks, Near(s, b),
           Minus(s.timeout[t], b) < Half
    PROVE  LET l == ListOf(s, t)
               p == PlaceOf(s, t)
           IN  /\ p \in 1 .. Len(l) + 1
               /\ \A j \in 1 .. Len(l) :
                     /\ j < p => Minus(s.timeout[t], s.timeout[l[j]]) < Half
                     /\ p <= j => Minus(s.timeout[l[j]], s.timeout[t]) < Half
<1> DEFINE l == ListOf(s, t)
           key(x) == Minus(s.timeout[x], b)
           D == { i \in 1 .. Len(l) :
                    LET d == Minus(s.timeout[l[i]], s.timeout[t]) IN 0 < d /\ d < Half }
           L == { i \in 1 .. Len(l) : key(t) < key(l[i]) }
           S == D \cup {Len(l) + 1}
           p == PlaceOf(s, t)
<1>1. l \in Seq(Timers) /\ ListSorted(s, l) /\ Len(l) \in Nat
  BY ListIs
<1>2. s.timeout \in [Timers -> Ticks]
  BY DEF TimersOK
<1>3. ASSUME NEW j \in 1 .. Len(l) PROVE l[j] \in Timers /\ key(l[j]) < Half
  <2>1. l[j] \in Timers /\ Contains(l, l[j])
    BY <1>1 DEF Contains
  <2>2. Linked(s, l[j])
    BY <2>1, ListIs
  <2> QED BY <2>1, <2>2 DEF Near
<1>4. ASSUME NEW j \in 1 .. Len(l)
      PROVE  /\ key(t) \in Ticks /\ key(l[j]) \in Ticks
             /\ Minus(s.timeout[l[j]], s.timeout[t]) < Half <=> key(t) <= key(l[j])
             /\ Minus(s.timeout[t], s.timeout[l[j]]) < Half <=> key(l[j]) <= key(t)
             /\ j \in D <=> key(t) < key(l[j])
  <2> PICK x : x = l[j]
    OBVIOUS
  <2>1. x \in Timers /\ key(x) < Half /\ s.timeout[x] \in Ticks /\ s.timeout[t] \in Ticks
    BY <1>2, <1>3
  <2>2. /\ Minus(s.timeout[x], b) \in Ticks /\ Minus(s.timeout[t], b) \in Ticks
        /\ Minus(s.timeout[x], s.timeout[t]) < Half <=> key(t) <= key(x)
        /\ 0 < Minus(s.timeout[x], s.timeout[t]) /\ Minus(s.timeout[x], s.timeout[t]) < Half
              <=> key(t) < key(x)
    BY <2>1, Compare
  <2>3. Minus(s.timeout[t], s.timeout[x]) < Half <=> key(x) <= key(t)
    BY <2>1, Compare
  <2> QED BY <2>2, <2>3
<1>5. p = Min(S)
  BY DEF PlaceOf
<1>6. S \subseteq Nat /\ S # {}
  BY <1>1
<1> HIDE DEF p, S
<1>7. p \in S /\ \A x \in S : p <= x
  BY <1>5, <1>6, MinOfNats
<1>8. p \in 1 .. Len(l) + 1
  BY <1>1, <1>7 DEF S
<1>9. ASSUME NEW j \in 1 .. Len(l), j < p
      PROVE  Minus(s.timeout[t], s.timeout[l[j]]) < Half
  <2>1. j \notin D
    BY <1>7, <1>8, <1>9 DEF S
  <2> HIDE DEF D
  <2> QED BY <1>4, <2>1 DEF Ticks
<1>10. ASSUME NEW j \in 1 .. Len(l), p <= j
       PROVE  Minus(s.timeout[l[j]], s.timeout[t]) < Half
  <2>1. p \in 1 .. Len(l) /\ p \in D
    BY <1>7, <1>8, <1>10 DEF S
  <2> HIDE DEF D
  <2>2. key(t) < key(l[p])
    BY <1>4, <2>1
  <2>3. CASE p = j
    BY <1>4, <2>2, <2>3 DEF Ticks
  <2>4. CASE p # j
    <3>1. Before(l, l[p], l[j])
      BY <1>8, <1>10, <2>1, <2>4 DEF Before
    <3>2. Minus(s.timeout[l[j]], s.timeout[l[p]]) < Half
      BY <1>1, <3>1 DEF ListSorted
    <3>3. s.timeout[l[p]] \in Ticks /\ s.timeout[l[j]] \in Ticks
      BY <1>2, <1>3, <2>1
    <3>4. key(l[p]) <= key(l[j]) /\ key(l[p]) \in Ticks
      BY <1>3, <2>1, <3>2, <3>3, Compare
    <3> QED BY <1>4, <2>2, <3>4 DEF Ticks
  <2> QED BY <2>3, <2>4
<1> QED BY <1>8, <1>9, <1>10 DEF p

LEMMA InsertIs ==
    ASSUME NEW s, TimersOK(s), NEW t \in Timers, ~Linked(s, t), NEW b \in Ticks,
           Near(s, b), Minus(s.timeout[t], b) < Half
    PROVE  LET r == Insert(s, t) IN
           /\ TimersOK(r)
           /\ r.active = s.active \cup {t} /\ r.timeout = s.timeout /\ r.init = s.init
           /\ \A u \in Timers : Linked(r, u) <=> Linked(s, u) \/ u = t
<1> DEFINE l == ListOf(s, t)
           p == PlaceOf(s, t)
           m == InsertAt(l, p, t)
           T == IF t \in Soft THEN Soft ELSE Hard
           q == SetList(s, t, m)
           r == Insert(s, t)
<1>1. l \in Seq(T) /\ t \in T /\ ListSorted(s, l) /\ ~Contains(l, t)
  BY ListIs DEF Linked
<1>2. /\ p \in 1 .. Len(l) + 1
      /\ \A j \in 1 .. Len(l) :
            /\ j < p => Minus(s.timeout[t], s.timeout[l[j]]) < Half
            /\ p <= j => Minus(s.timeout[l[j]], s.timeout[t]) < Half
  BY PlaceIs
<1> HIDE DEF T, l, p
<1>3. /\ m \in Seq(T) /\ IsInjective(m)
      /\ \A x : Contains(m, x) <=> Contains(l, x) \/ x = t
      /\ \A x, y : Before(m, x, y) =>
            \/ Before(l, x, y)
            \/ y = t /\ \E j \in 1 .. Len(l) : j < p /\ l[j] = x
            \/ x = t /\ \E j \in 1 .. Len(l) : p <= j /\ l[j] = y
  BY <1>1, <1>2, InsertInList DEF ListSorted
<1>4. ListSorted(s, m)
  BY <1>1, <1>2, <1>3 DEF ListSorted
<1> HIDE DEF m
<1>5. /\ TimersOK(q)
      /\ q.active = s.active /\ q.timeout = s.timeout /\ q.init = s.init
      /\ \A u \in Timers : ListOf(q, u) = IF u \in Soft <=> t \in Soft
                                          THEN m ELSE ListOf(s, u)
  BY <1>3, <1>4, ListIn DEF T
<1>6. r = [q EXCEPT !.active = @ \cup {t}]
  BY DEF Insert, m, l, p
<1> HIDE DEF q, r
<1>7. /\ r \in [hard : Seq(Hard), soft : Seq(Soft), active : SUBSET Timers,
                timeout : [Timers -> Ticks], init : InitTicks]
      /\ r.hard = q.hard /\ r.soft = q.soft /\ r.active = s.active \cup {t}
      /\ r.timeout = s.timeout /\ r.init = s.init
  BY <1>5, <1>6 DEF TimersOK
<1>8. TimersOK(r)
  BY <1>5, <1>7 DEF TimersOK, ListSorted
<1>9. ASSUME NEW u \in Timers PROVE Linked(r, u) <=> Linked(s, u) \/ u = t
  <2>1. ListOf(r, u) = ListOf(q, u)
    BY <1>7 DEF ListOf
  <2>2. CASE u \in Soft <=> t \in Soft
    <3>1. ListOf(s, u) = l
      BY <2>2 DEF ListOf, l
    <3> QED BY <1>3, <1>5, <2>1, <2>2, <3>1 DEF Linked
  <2>3. CASE ~(u \in Soft <=> t \in Soft)
    BY <1>5, <2>1, <2>3 DEF Linked
  <2> QED BY <2>2, <2>3
<1> QED BY <1>7, <1>8, <1>9 DEF r

(* A timer has a time, and that is short enough. *)
LEMMA TimeIs ==
    ASSUME NEW s, TimersOK(s), NEW t \in Timers
    PROVE  /\ s.init[t] \in Nat /\ s.init[t] >= 1 /\ s.init[t] + MaxLate + 1 < Half
           /\ MaxLate \in Nat /\ MaxLate + 2 < Half
<1>1. s.init[t] \in Times[t]
  BY DEF TimersOK, InitTicks
<1>2. Times[t] \in SUBSET { d \in 1 .. Half : d + MaxLate + 1 < Half }
  BY TimerAssumption
<1>3. s.init[t] \in 1 .. Half /\ s.init[t] + MaxLate + 1 < Half
  BY <1>1, <1>2
<1> QED BY <1>3, HalfIs, TimerAssumption

LEMMA StartIs ==
    ASSUME NEW s, TimersOK(s), NEW t \in Timers, NEW now \in Ticks, NEW b \in Ticks,
           Near(s, b), Minus(Plus(now, s.init[t]), b) < Half
    PROVE  LET r == StartNow(s, t, now) IN
           /\ TimersOK(r) /\ Near(r, b)
           /\ r.active = s.active \cup {t}
           /\ r.timeout[t] = Plus(now, s.init[t])
           /\ \A u \in Timers : u # t => r.timeout[u] = s.timeout[u]
           /\ \A u \in Timers : Linked(r, u) <=> Linked(s, u) \/ u = t
<1> PICK x : x = _rt_timer_remove(s, t)
  OBVIOUS
<1> PICK y : y = Unflag(x, t)
  OBVIOUS
<1> PICK z : z = SetTimeout(y, t, now)
  OBVIOUS
<1> PICK r : r = Insert(z, t)
  OBVIOUS
<1>1. /\ TimersOK(x)
      /\ x.active = s.active /\ x.timeout = s.timeout /\ x.init = s.init
      /\ \A u \in Timers : Linked(x, u) <=> Linked(s, u) /\ u # t
  BY RemoveIs
<1>2. /\ TimersOK(y)
      /\ y.active = s.active \ {t} /\ y.timeout = s.timeout /\ y.init = s.init
      /\ \A u \in Timers : Linked(y, u) <=> Linked(s, u) /\ u # t
  BY <1>1, UnflagIs
<1>3. /\ TimersOK(z)
      /\ z.active = s.active \ {t} /\ z.init = s.init
      /\ z.timeout[t] = Plus(now, s.init[t])
      /\ \A u \in Timers : u # t => z.timeout[u] = s.timeout[u]
      /\ \A u \in Timers : Linked(z, u) <=> Linked(s, u) /\ u # t
  BY <1>2, SetTimeoutIs
<1>4. Near(z, b)
  BY <1>3 DEF Near
<1>5. /\ TimersOK(r)
      /\ r.active = z.active \cup {t} /\ r.timeout = z.timeout /\ r.init = z.init
      /\ \A u \in Timers : Linked(r, u) <=> Linked(z, u) \/ u = t
  BY <1>3, <1>4, InsertIs
<1>6. r = StartNow(s, t, now)
  BY DEF StartNow
<1>7. r.active = s.active \cup {t}
  BY <1>3, <1>5
<1>8. Near(r, b)
  BY <1>3, <1>4, <1>5 DEF Near
<1> QED BY <1>3, <1>5, <1>6, <1>7, <1>8

LEMMA StopIs ==
    ASSUME NEW s, TimersOK(s), NEW t \in Timers
    PROVE  LET r == StopNow(s, t) IN
           /\ TimersOK(r)
           /\ r.active = s.active \ {t} /\ r.timeout = s.timeout
           /\ \A u \in Timers : Linked(r, u) <=>
                 Linked(s, u) /\ (u = t => t \notin s.active)
<1>1. CASE t \in s.active
  <2> PICK x : x = _rt_timer_remove(s, t)
    OBVIOUS
  <2>1. /\ TimersOK(x)
        /\ x.active = s.active /\ x.timeout = s.timeout
        /\ \A u \in Timers : Linked(x, u) <=> Linked(s, u) /\ u # t
    BY RemoveIs
  <2>2. LET r == Unflag(x, t) IN
        /\ TimersOK(r)
        /\ r.active = x.active \ {t} /\ r.timeout = x.timeout
        /\ \A u : Linked(r, u) <=> Linked(x, u)
    BY <2>1, UnflagIs
  <2>3. StopNow(s, t) = Unflag(x, t)
    BY <1>1 DEF StopNow
  <2> QED BY <1>1, <2>1, <2>2, <2>3
<1>2. CASE t \notin s.active
  BY <1>2 DEF StopNow
<1> QED BY <1>1, <1>2

-----------------------------------------------------------------------------
(* rt_timer_check.  What every turn of its loop keeps: the timers y are    *)
(* sorted; no time is too far from that tick; no soft timer is too late;   *)
(* the calls under way find their timer as they left it; all active timers *)
(* but x are accounted for; hard timers in the list are active; and of     *)
(* them only those in S can be due.                                        *)
Pending(c) == doing[c] \in {"compute", "insert"}

Accounted(y, u) == \/ Linked(y, u)
                   \/ firing = u
                   \/ \E c \in Caller : doing[c] = "unflag" /\ arg[c] = u

(* A hard timer in the list is active, and neither the one that fires, x,  *)
(* nor one that a stop has taken out.                                      *)
Stopping(c) == doing[c] = "unflag" /\ arg[c] \in Hard

HardKept(y, x) ==
    /\ \A u \in Hard : Linked(y, u) => u \in y.active /\ u # x
    /\ \A c \in Caller : Stopping(c) => ~Linked(y, arg[c])

DueHard(y, now) == { u \in Hard : Linked(y, u) /\ Due(y, u, now) }

Checked(y, S, x) ==
    /\ TimersOK(y) /\ Near(y, Base(tick))
    /\ \A u \in Soft : Linked(y, u) => Minus(y.timeout[u], Base(tick)) >= 1
    /\ \A c \in Caller : Pending(c) =>
          /\ ~Linked(y, arg[c]) /\ arg[c] \notin y.active
          /\ y.timeout[arg[c]] = tm.timeout[arg[c]]
    /\ \A u \in y.active : u # x => Accounted(y, u)
    /\ HardKept(y, x)
    /\ DueHard(y, Plus(tick, 1)) \subseteq S

LEMMA CheckedRemove ==
    ASSUME NEW y, NEW S, Checked(y, S, None), NEW t \in Timers, Linked(y, t),
           \A c \in Caller : Pending(c) => arg[c] \in Timers
    PROVE  Checked(_rt_timer_remove(y, t), S \ {t}, t)
<1> PICK r : r = _rt_timer_remove(y, t)
  OBVIOUS
<1>1. TimersOK(y) /\ Near(y, Base(tick))
  BY DEF Checked
<1>2. /\ TimersOK(r)
      /\ r.active = y.active /\ r.timeout = y.timeout
      /\ \A u \in Timers : Linked(r, u) <=> Linked(y, u) /\ u # t
  BY <1>1, RemoveIs
<1>3. Near(r, Base(tick))
  BY <1>1, <1>2 DEF Near
<1>4. \A u \in Soft : Linked(r, u) => Minus(r.timeout[u], Base(tick)) >= 1
  BY <1>2 DEF Checked, Timers
<1>5. \A c \in Caller : Pending(c) =>
          /\ ~Linked(r, arg[c]) /\ arg[c] \notin r.active
          /\ r.timeout[arg[c]] = tm.timeout[arg[c]]
  BY <1>2 DEF Checked
<1>6. ASSUME NEW u \in r.active, u # t
      PROVE  Accounted(r, u)
  <2>1. u \in y.active /\ u \in Timers /\ u # None
    BY <1>1, <1>2, TimerAssumption DEF TimersOK
  <2>2. Accounted(y, u)
    BY <2>1 DEF Checked
  <2> QED BY <1>2, <1>6, <2>1, <2>2 DEF Accounted
<1>7. DueHard(r, Plus(tick, 1)) \subseteq S \ {t}
  BY <1>2 DEF DueHard, Due, Checked, Timers
<1>8. HardKept(r, t)
  BY <1>2 DEF HardKept, Checked, Timers, Stopping
<1> QED BY <1>2, <1>3, <1>4, <1>5, <1>6, <1>7, <1>8 DEF Checked

LEMMA CheckedUnflag ==
    ASSUME NEW y, NEW S, NEW t, Checked(y, S, t)
    PROVE  Checked(Unflag(y, t), S, None)
<1> PICK r : r = Unflag(y, t)
  OBVIOUS
<1>1. /\ TimersOK(r)
      /\ r.active = y.active \ {t} /\ r.timeout = y.timeout
      /\ \A u : Linked(r, u) <=> Linked(y, u)
  BY UnflagIs DEF Checked
<1>2. \A u \in r.active : u # None => Accounted(r, u)
  BY <1>1 DEF Checked, Accounted
<1>3. Near(r, Base(tick)) /\ DueHard(r, Plus(tick, 1)) \subseteq S
  BY <1>1 DEF Checked, Near, DueHard, Due
<1>4. \A u \in Soft : Linked(r, u) => Minus(r.timeout[u], Base(tick)) >= 1
  BY <1>1 DEF Checked
<1>5. \A c \in Caller : Pending(c) =>
          /\ ~Linked(r, arg[c]) /\ arg[c] \notin r.active
          /\ r.timeout[arg[c]] = tm.timeout[arg[c]]
  BY <1>1 DEF Checked
<1>6. HardKept(r, None)
  BY <1>1, TimerAssumption DEF HardKept, Checked, Timers
<1> QED BY <1>1, <1>2, <1>3, <1>4, <1>5, <1>6 DEF Checked

LEMMA CheckedStart ==
    ASSUME NEW y, NEW S, NEW x, Checked(y, S, x), NEW t \in Timers, tick \in Ticks,
           \A c \in Caller : Pending(c) => arg[c] \in Timers /\ arg[c] # t,
           \A c \in Caller : Stopping(c) => arg[c] # t
    PROVE  /\ t # x => Checked(StartNow(y, t, Plus(tick, 1)), S, x)
           /\ t = x => Checked(StartNow(y, t, Plus(tick, 1)), S, None)
<1> PICK r : r = StartNow(y, t, Plus(tick, 1))
  OBVIOUS
<1> DEFINE b == Base(tick)
           now == Plus(tick, 1)
           d == y.init[t]
<1>1. TimersOK(y) /\ Near(y, b)
  BY DEF Checked
<1>2. d \in Nat /\ d >= 1 /\ d + MaxLate + 1 < Half /\ MaxLate \in Nat /\ MaxLate + 2 < Half
  BY <1>1, TimeIs
<1>3. b \in Ticks /\ now \in Ticks
  BY <1>2, TickIs
<1>4. Plus(now, d) \in Ticks /\ Minus(Plus(now, d), b) = MaxLate + 1 + d
  BY <1>2, FreshAtNext
<1>5. Minus(Plus(now, d), b) < Half /\ Minus(Plus(now, d), b) >= 1
  BY <1>2, <1>4, HalfIs
<1>6. ~(Minus(now, Plus(now, d)) < Half)
  BY <1>2, <1>4, <1>5, DueAtNext, HalfIs
<1> HIDE DEF b, now, d
<1>7. /\ TimersOK(r) /\ Near(r, b)
      /\ r.active = y.active \cup {t}
      /\ r.timeout[t] = Plus(now, d)
      /\ \A u \in Timers : u # t => r.timeout[u] = y.timeout[u]
      /\ \A u \in Timers : Linked(r, u) <=> Linked(y, u) \/ u = t
  BY <1>1, <1>3, <1>5, StartIs DEF now, d
<1>8. \A u \in Soft : Linked(r, u) => Minus(r.timeout[u], b) >= 1
  BY <1>5, <1>7 DEF Checked, Timers, b
<1>9. \A c \in Caller : Pending(c) =>
          /\ ~Linked(r, arg[c]) /\ arg[c] \notin r.active
          /\ r.timeout[arg[c]] = tm.timeout[arg[c]]
  BY <1>7 DEF Checked
<1>10. \A u \in r.active : u # x \/ t = x => Accounted(r, u)
  <2> SUFFICES ASSUME NEW u \in r.active, u # x \/ t = x PROVE Accounted(r, u)
    OBVIOUS
  <2>1. u \in Timers
    BY <1>7 DEF TimersOK
  <2>2. CASE u = t
    BY <1>7, <2>2 DEF Accounted
  <2>3. CASE u # t
    <3>1. u \in y.active /\ u # x
      BY <1>7, <2>3
    <3>2. Accounted(y, u)
      BY <3>1 DEF Checked
    <3> QED BY <1>7, <2>1, <3>2 DEF Accounted
  <2> QED BY <2>2, <2>3
<1>11. DueHard(r, now) \subseteq S
  <2> SUFFICES ASSUME NEW u \in Hard, Linked(r, u), Due(r, u, now) PROVE u \in S
    BY DEF DueHard
  <2>1. u \in Timers
    BY DEF Timers
  <2>2. u # t
    BY <1>6, <1>7 DEF Due, now, d
  <2>3. Linked(y, u) /\ Due(y, u, now)
    BY <1>7, <2>1, <2>2 DEF Due
  <2> QED BY <2>3 DEF Checked, DueHard, now
<1>12. HardKept(r, IF t = x THEN None ELSE x)
  <2>1. \A u \in Hard : u \in Timers /\ u # None
    BY TimerAssumption DEF Timers
  <2>2. \A u \in Hard : Linked(y, u) => u \in y.active /\ u # x
    BY DEF Checked, HardKept
  <2>3. \A u \in Hard : Linked(r, u) => u \in r.active /\ u # (IF t = x THEN None ELSE x)
    BY <1>7, <2>1, <2>2
  <2>4. \A c \in Caller : Stopping(c) => ~Linked(r, arg[c])
    BY <1>7, <2>1 DEF Checked, HardKept, Stopping
  <2> QED BY <2>3, <2>4 DEF HardKept
<1>13. t # x => Checked(r, S, x)
  BY <1>7, <1>8, <1>9, <1>10, <1>11, <1>12 DEF Checked, b, now
<1>14. t = x => Checked(r, S, None)
  BY <1>7, <1>8, <1>9, <1>10, <1>11, <1>12 DEF Checked, b, now
<1> QED BY <1>13, <1>14

LEMMA CheckedStop ==
    ASSUME NEW y, NEW S, NEW x, Checked(y, S, x), NEW t \in Timers,
           \A c \in Caller : Pending(c) => arg[c] \in Timers
    PROVE  Checked(StopNow(y, t), S, x)
<1> PICK r : r = StopNow(y, t)
  OBVIOUS
<1>1. /\ TimersOK(r)
      /\ r.active = y.active \ {t} /\ r.timeout = y.timeout
      /\ \A u \in Timers : Linked(r, u) <=>
            Linked(y, u) /\ (u = t => t \notin y.active)
  BY StopIs DEF Checked
<1>2. ASSUME NEW u \in r.active, u # x
      PROVE  Accounted(r, u)
  <2>1. u \in y.active /\ u \in Timers /\ u # t
    BY <1>1 DEF TimersOK
  <2>2. Accounted(y, u)
    BY <1>2, <2>1 DEF Checked
  <2> QED BY <1>1, <2>1, <2>2 DEF Accounted
<1>3. Near(r, Base(tick)) /\ DueHard(r, Plus(tick, 1)) \subseteq S
  BY <1>1 DEF Checked, Near, DueHard, Due, Timers
<1>4. \A u \in Soft : Linked(r, u) => Minus(r.timeout[u], Base(tick)) >= 1
  BY <1>1 DEF Checked, Timers
<1>5. \A c \in Caller : Pending(c) =>
          /\ ~Linked(r, arg[c]) /\ arg[c] \notin r.active
          /\ r.timeout[arg[c]] = tm.timeout[arg[c]]
  BY <1>1 DEF Checked
<1>6. HardKept(r, x)
  BY <1>1 DEF HardKept, Checked, Timers, Stopping
<1> QED BY <1>1, <1>2, <1>3, <1>4, <1>5, <1>6 DEF Checked

(* After i turns of the loop: no hard timer is due, or at most as many as  *)
(* there are timers but i.                                                 *)
Turning(s, i) ==
    LET due == DueHard(s.tm, Plus(tick, 1))
    IN  /\ s \in [tm : {s.tm}, started : SUBSET Timers]
        /\ Checked(s.tm, due, None)
        /\ due = {} \/ Cardinality(due) <= Cardinality(Hard) - i

CallsTyped == \A c \in Caller : Pending(c) => arg[c] \in Timers

EffectOK(effect) ==
    /\ effect \in [Hard -> HardEffect]
    /\ \A t \in Hard : effect[t] # None => NotInCall(effect[t].timer) /\ effect[t].timer # t

(* If the first timer of the list is not due, none is. *)
LEMMA FirstIsFirst ==
    ASSUME NEW y, TimersOK(y), Near(y, Base(tick)), tick \in Ticks,
           y.hard = <<>> \/ ~Due(y, Head(y.hard), Plus(tick, 1))
    PROVE  DueHard(y, Plus(tick, 1)) = {}
<1> SUFFICES ASSUME NEW u \in Hard, Linked(y, u), Due(y, u, Plus(tick, 1)) PROVE FALSE
  BY DEF DueHard
<1> DEFINE l == y.hard
           b == Base(tick)
           h == Head(l)
           now == Plus(tick, 1)
<1>1. u \in Timers /\ ListOf(y, u) = l /\ l \in Seq(Hard) /\ ListSorted(y, l)
  BY ListIs, TimerAssumption DEF Timers, TimersOK, ListOf
<1>2. PICK j \in 1 .. Len(l) : l[j] = u
  BY <1>1 DEF Linked, Contains
<1>3. l # <<>> /\ h = l[1] /\ 1 \in 1 .. Len(l) /\ Len(l) \in Nat
  BY <1>1, <1>2, EmptySeq, HeadTailProperties
<1>4. h \in Hard /\ Contains(l, h)
  BY <1>1, <1>3 DEF Contains
<1>5. h \in Timers /\ Linked(y, h)
  BY <1>4, TimerAssumption DEF Timers, Linked, ListOf
<1>6. y.timeout \in [Timers -> Ticks]
  BY DEF TimersOK
<1> DEFINE tu == y.timeout[u]
           th == y.timeout[h]
<1>7. tu \in Ticks /\ th \in Ticks /\ Minus(tu, b) < Half /\ Minus(th, b) < Half
  BY <1>1, <1>5, <1>6 DEF Near
<1>8. MaxLate \in Nat /\ MaxLate + 2 < Half /\ b \in Ticks
  BY <1>1, TimeIs, TickIs
<1>9. Minus(now, tu) < Half
  BY DEF Due
<1>10. ~(Minus(now, th) < Half)
  BY <1>3 DEF Due
<1> HIDE DEF tu, th, h, l, b
<1>11. Minus(tu, b) <= MaxLate + 1 /\ Minus(tu, b) \in Ticks
  BY <1>7, <1>8, <1>9, DueAtNext DEF b
<1>12. ~(Minus(th, b) <= MaxLate + 1) /\ Minus(th, b) \in Ticks
  BY <1>7, <1>8, <1>10, DueAtNext DEF b
<1>13. CASE j = 1
  BY <1>2, <1>3, <1>9, <1>10, <1>13 DEF th, tu
<1>14. CASE j # 1
  <2>1. Before(l, h, u)
    BY <1>2, <1>3, <1>14 DEF Before
  <2>2. Minus(tu, th) < Half
    BY <1>1, <2>1 DEF ListSorted, tu, th
  <2>3. Minus(th, b) <= Minus(tu, b)
    BY <1>7, <1>8, <2>2, Compare
  <2> QED BY <1>8, <1>11, <1>12, <2>3 DEF Ticks
<1> QED BY <1>13, <1>14

LEMMA NewTimers ==
    ASSUME NEW s, s \in [tm : {s.tm}, started : SUBSET Timers], NEW y
    PROVE  LET r == [s EXCEPT !.tm = y] IN
           /\ r.tm = y /\ r.started = s.started
           /\ r \in [tm : {r.tm}, started : SUBSET Timers]
<1> DEFINE r == [s EXCEPT !.tm = y]
<1>1. r = [tm |-> y, started |-> s.started] /\ s.started \in SUBSET Timers
  OBVIOUS
<1> HIDE DEF r
<1>2. r.tm = y /\ r.started = s.started
  BY <1>1
<1>3. r \in [tm : {r.tm}, started : SUBSET Timers]
  BY <1>1, <1>2
<1> QED BY <1>2, <1>3 DEF r

(* The end of a turn: a periodic timer that is still active starts again.  *)
LEMMA FireEnds ==
    ASSUME tick \in Ticks, CallsTyped, NEW S, NEW t \in Timers,
           \A a \in Caller : Pending(a) \/ Stopping(a) => arg[a] # t,
           NEW c, c \in [tm : {c.tm}, started : SUBSET Timers], Checked(c.tm, S, t)
    PROVE  LET r == IF t \in Periodic /\ t \in c.tm.active
                    THEN [c EXCEPT !.tm = StartNow(c.tm, t, Plus(tick, 1))]
                    ELSE [c EXCEPT !.tm = Unflag(c.tm, t)]
           IN  r \in [tm : {r.tm}, started : SUBSET Timers] /\ Checked(r.tm, S, None)
<1>1. PICK x : x = StartNow(c.tm, t, Plus(tick, 1))
  OBVIOUS
<1>2. PICK y : y = Unflag(c.tm, t)
  OBVIOUS
<1>3. Checked(x, S, None)
  BY <1>1, CheckedStart DEF CallsTyped
<1>4. Checked(y, S, None)
  BY <1>2, CheckedUnflag
<1>5. PICK p : p = [c EXCEPT !.tm = x]
  OBVIOUS
<1>6. PICK q : q = [c EXCEPT !.tm = y]
  OBVIOUS
<1>7. p.tm = x /\ p \in [tm : {p.tm}, started : SUBSET Timers]
  BY <1>5, NewTimers
<1>8. q.tm = y /\ q \in [tm : {q.tm}, started : SUBSET Timers]
  BY <1>6, NewTimers
<1>9. CASE t \in Periodic /\ t \in c.tm.active
  BY <1>1, <1>3, <1>5, <1>7, <1>9
<1>10. CASE ~(t \in Periodic /\ t \in c.tm.active)
  BY <1>2, <1>4, <1>6, <1>8, <1>10
<1> QED BY <1>9, <1>10

LEMMA FireIs ==
    ASSUME tick \in Ticks, CallsTyped, NEW effect, EffectOK(effect),
           NEW i \in Nat, NEW s, Turning(s, i)
    PROVE  Turning(Fire(s, effect, Plus(tick, 1)), i + 1)
<1> DEFINE now == Plus(tick, 1)
           D == DueHard(s.tm, now)
           r == Fire(s, effect, now)
<1>1. /\ s \in [tm : {s.tm}, started : SUBSET Timers]
      /\ Checked(s.tm, D, None)
      /\ D = {} \/ Cardinality(D) <= Cardinality(Hard) - i
  BY DEF Turning
<1>2. TimersOK(s.tm) /\ Near(s.tm, Base(tick))
  BY <1>1 DEF Checked
<1>3. IsFiniteSet(Hard) /\ D \subseteq Hard /\ IsFiniteSet(D) /\ Cardinality(D) \in Nat
      /\ Cardinality(Hard) \in Nat
  <2>1. IsFiniteSet(Hard) /\ D \subseteq Hard
    BY TimerAssumption DEF DueHard
  <2> HIDE DEF D
  <2> QED BY <2>1, FS_Subset, FS_CardinalityType
<1>4. CASE s.tm.hard = <<>> \/ ~Due(s.tm, Head(s.tm.hard), now)
  <2>1. D = {}
    BY <1>2, <1>4, FirstIsFirst
  <2>2. r = s
    BY <1>4 DEF Fire
  <2> QED BY <1>1, <2>1, <2>2 DEF Turning
<1>5. CASE ~(s.tm.hard = <<>> \/ ~Due(s.tm, Head(s.tm.hard), now))
  <2> PICK t : t = Head(s.tm.hard)
    OBVIOUS
  <2>1. /\ t \in Hard /\ t \in Timers /\ Linked(s.tm, t)
        /\ t \in D
    <3>1. s.tm.hard \in Seq(Hard) /\ s.tm.hard # <<>>
      BY <1>2, <1>5 DEF TimersOK
    <3>2. t \in Hard /\ Contains(s.tm.hard, t)
      BY <3>1, EmptyList
    <3>3. t \in Timers /\ Linked(s.tm, t)
      BY <3>2, TimerAssumption DEF Linked, ListOf, Timers
    <3> QED BY <1>5, <3>2, <3>3 DEF DueHard
  <2> PICK y : y = _rt_timer_remove(s.tm, t)
    OBVIOUS
  <2> PICK e : e = effect[t]
    OBVIOUS
  <2> HIDE DEF D
  <2>2. Checked(y, D \ {t}, t)
    BY <1>1, <2>1, CheckedRemove DEF CallsTyped
  <2>3. e = None \/ (/\ e \in [call : {"start", "stop"}, timer : Timers]
                     /\ NotInCall(e.timer) /\ e.timer # t)
    BY <2>1, TimerAssumption DEF EffectOK
  <2>4. PICK c : c = TimeoutCalls([s EXCEPT !.tm = y], e, now)
    OBVIOUS
  <2>5. c \in [tm : {c.tm}, started : SUBSET Timers] /\ Checked(c.tm, D \ {t}, t)
    <3>1. CASE e = None
      <4>1. c = [s EXCEPT !.tm = y]
        BY <2>4, <3>1 DEF TimeoutCalls
      <4> QED BY <1>1, <2>2, <4>1
    <3>2. CASE e # None /\ e.call = "start"
      <4>1. c = [[s EXCEPT !.tm = y] EXCEPT
                    !.tm = StartNow([s EXCEPT !.tm = y].tm, e.timer, now),
                    !.started = @ \cup {e.timer}]
        BY <2>4, <3>2 DEF TimeoutCalls
      <4>2. c.tm = StartNow(y, e.timer, now) /\ c \in [tm : {c.tm}, started : SUBSET Timers]
        <5> PICK p : p = [s EXCEPT !.tm = y]
          OBVIOUS
        <5> PICK q : q = StartNow(y, e.timer, now)
          OBVIOUS
        <5>1. p.tm = y /\ p \in [tm : {p.tm}, started : SUBSET Timers]
          BY <1>1, NewTimers
        <5>2. c = [p EXCEPT !.tm = q, !.started = @ \cup {e.timer}]
          BY <4>1, <5>1
        <5>3. c = [tm |-> q, started |-> p.started \cup {e.timer}]
          BY <5>1, <5>2
        <5>4. p.started \cup {e.timer} \in SUBSET Timers
          BY <2>3, <3>2, <5>1
        <5>5. c.tm = q
          BY <5>3
        <5> QED BY <5>3, <5>4, <5>5
      <4>3. /\ \A a \in Caller : Pending(a) => arg[a] \in Timers /\ arg[a] # e.timer
            /\ \A a \in Caller : Stopping(a) => arg[a] # e.timer
        BY <2>3, <3>2 DEF CallsTyped, NotInCall
      <4>4. Checked(StartNow(y, e.timer, now), D \ {t}, t)
        BY <2>2, <2>3, <3>2, <4>3, CheckedStart
      <4> QED BY <4>2, <4>4
    <3>3. CASE e # None /\ e.call # "start"
      <4>1. c = [[s EXCEPT !.tm = y] EXCEPT !.tm = StopNow([s EXCEPT !.tm = y].tm, e.timer)]
        BY <2>4, <3>3 DEF TimeoutCalls
      <4>2. c.tm = StopNow(y, e.timer) /\ c \in [tm : {c.tm}, started : SUBSET Timers]
        BY <1>1, <4>1
      <4>3. Checked(StopNow(y, e.timer), D \ {t}, t)
        BY <2>2, <2>3, <3>3, CheckedStop DEF CallsTyped
      <4> QED BY <4>2, <4>3
    <3> QED BY <3>1, <3>2, <3>3
  <2>6. r = IF t \in Periodic /\ t \in c.tm.active
            THEN [c EXCEPT !.tm = StartNow(c.tm, t, now)]
            ELSE [c EXCEPT !.tm = Unflag(c.tm, t)]
    BY <1>5, <2>4 DEF Fire
  <2> HIDE DEF r
  <2>7. r \in [tm : {r.tm}, started : SUBSET Timers] /\ Checked(r.tm, D \ {t}, None)
    <3>1. \A a \in Caller : Pending(a) \/ Stopping(a) => arg[a] # t
      BY <1>1, <2>1 DEF Checked, HardKept
    <3> QED BY <2>1, <2>5, <2>6, <3>1, FireEnds
  <2> DEFINE E == DueHard(r.tm, now)
  <2>8. E \subseteq D \ {t}
    BY <2>7 DEF Checked
  <2>9. Checked(r.tm, E, None)
    BY <2>7 DEF Checked
  <2> HIDE DEF E
  <2>10. Cardinality(D \ {t}) = Cardinality(D) - 1 /\ IsFiniteSet(D \ {t})
    BY <1>3, <2>1, FS_RemoveElement
  <2>11. Cardinality(E) <= Cardinality(D \ {t}) /\ Cardinality(E) \in Nat
    BY <2>8, <2>10, FS_Subset, FS_CardinalityType
  <2>12. Cardinality(D) <= Cardinality(Hard) - i
    BY <1>1, <2>1
  <2>13. Cardinality(E) <= Cardinality(Hard) - (i + 1)
    BY <1>3, <2>10, <2>11, <2>12
  <2> QED BY <2>7, <2>9, <2>13 DEF Turning, E, r
<1> QED BY <1>4, <1>5

(* The turns of rt_timer_check, as FireAll numbers them. *)
FireTurns(g, m, effect, now) ==
    g = [i \in 0 .. m |-> IF i = 0 THEN [tm |-> tm, started |-> {}]
                          ELSE Fire(g[i - 1], effect, now)]

LEMMA FireTurnsExist ==
    ASSUME NEW effect, NEW now, NEW m \in Nat
    PROVE  \E g : FireTurns(g, m, effect, now)
<1> USE DEF FireTurns
<1> DEFINE s0 == [tm |-> tm, started |-> {}]
           S == { i \in Nat : \E g : FireTurns(g, i, effect, now) }
<1>1. 0 \in S
  <2> DEFINE g == [i \in 0 .. 0 |-> s0]
  <2>1. FireTurns(g, 0, effect, now)
    OBVIOUS
  <2> QED BY <2>1
<1>2. ASSUME NEW i \in Nat, i \in S PROVE i + 1 \in S
  <2>1. PICK g : FireTurns(g, i, effect, now)
    BY <1>2
  <2> DEFINE h == [j \in 0 .. i + 1 |->
                      IF j <= i THEN g[j] ELSE Fire(g[i], effect, now)]
  <2>2. ASSUME NEW j \in 0 .. i + 1
        PROVE  h[j] = IF j = 0 THEN s0 ELSE Fire(h[j - 1], effect, now)
    <3>1. CASE j = 0
      BY <2>1, <3>1
    <3>2. CASE j # 0 /\ j <= i
      <4>1. j \in 0 .. i /\ j - 1 \in 0 .. i
        BY <3>2
      <4>2. g[j] = Fire(g[j - 1], effect, now)
        BY <2>1, <3>2, <4>1
      <4>3. h[j] = g[j] /\ h[j - 1] = g[j - 1]
        BY <4>1
      <4> QED BY <3>2, <4>2, <4>3
    <3>3. CASE j = i + 1
      <4>1. h[j] = Fire(g[i], effect, now) /\ h[j - 1] = g[i]
        BY <3>3
      <4> QED BY <3>3, <4>1
    <3> QED BY <3>1, <3>2, <3>3
  <2>3. FireTurns(h, i + 1, effect, now)
    BY <2>2
  <2>4. \E x : FireTurns(x, i + 1, effect, now)
    <3> HIDE DEF h, FireTurns
    <3> QED BY <2>3
  <2> QED BY <2>4
<1> HIDE DEF S
<1>3. Nat \subseteq S
  BY <1>1, <1>2, InductiveSet
<1> QED BY <1>3 DEF S

(* The whole of rt_timer_check: at its end no hard timer is due. *)
LEMMA FireAllIs ==
    ASSUME tick \in Ticks, CallsTyped, NEW effect, EffectOK(effect),
           Checked(tm, DueHard(tm, Plus(tick, 1)), None)
    PROVE  LET s == FireAll(effect, Plus(tick, 1)) IN
           Checked(s.tm, {}, None)
<1> DEFINE now == Plus(tick, 1)
           L == Cardinality(Hard)
           s0 == [tm |-> tm, started |-> {}]
           turns == CHOOSE g : FireTurns(g, L, effect, now)
           S == { i \in Nat : i <= L => Turning(turns[i], i) }
<1>0. IsFiniteSet(Hard) /\ L \in Nat
  BY TimerAssumption, FS_CardinalityType
<1>1. turns = [i \in 0 .. L |-> IF i = 0 THEN s0 ELSE Fire(turns[i - 1], effect, now)]
  <2>1. \E g : FireTurns(g, L, effect, now)
    BY <1>0, FireTurnsExist
  <2>2. FireTurns(turns, L, effect, now)
    BY <2>1, Zenon
  <2> QED BY <2>2 DEF FireTurns
<1>2. FireAll(effect, now) = turns[L]
  BY DEF FireAll, FireTurns
<1> HIDE DEF turns, L
<1>3. turns[0] = s0 /\ \A i \in 0 .. L : i # 0 => turns[i] = Fire(turns[i - 1], effect, now)
  <2>1. ASSUME NEW i \in 0 .. L
        PROVE  turns[i] = IF i = 0 THEN s0 ELSE Fire(turns[i - 1], effect, now)
    <3> DEFINE g == [j \in 0 .. L |->
                        IF j = 0 THEN s0 ELSE Fire(turns[j - 1], effect, now)]
    <3>1. g[i] = IF i = 0 THEN s0 ELSE Fire(turns[i - 1], effect, now)
      OBVIOUS
    <3>2. turns = g
      BY <1>1
    <3> HIDE DEF g
    <3> QED BY <3>1, <3>2
  <2> QED BY <1>0, <2>1
<1>4. 0 \in S
  <2>1. s0.tm = tm /\ s0 \in [tm : {s0.tm}, started : SUBSET Timers]
    OBVIOUS
  <2> HIDE DEF s0
  <2>2. IsFiniteSet(Hard) /\ DueHard(tm, now) \subseteq Hard
    BY <1>0 DEF DueHard
  <2>3. Cardinality(DueHard(tm, now)) <= L /\ L - 0 = L
    BY <1>0, <2>2, FS_Subset DEF L
  <2>4. Turning(s0, 0)
    BY <2>1, <2>3 DEF Turning, L
  <2> QED BY <1>3, <2>4
<1>5. ASSUME NEW i \in Nat, i \in S PROVE i + 1 \in S
  <2> SUFFICES ASSUME i + 1 <= L PROVE Turning(turns[i + 1], i + 1)
    BY DEF S
  <2>1. i \in 0 .. L /\ i + 1 \in 0 .. L /\ (i + 1) - 1 = i /\ i + 1 # 0
    BY <1>0
  <2>2. turns[i + 1] = Fire(turns[i], effect, now)
    BY <1>3, <2>1
  <2>3. Turning(turns[i], i)
    BY <1>5, <2>1
  <2> QED BY <2>2, <2>3, FireIs
<1> HIDE DEF S
<1>6. L \in S
  BY <1>0, <1>4, <1>5, InductiveSet
<1>7. Turning(turns[L], L)
  BY <1>0, <1>6 DEF S
<1> PICK s : s = turns[L]
  OBVIOUS
<1> DEFINE D == DueHard(s.tm, now)
<1>8. Checked(s.tm, D, None) /\ (D = {} \/ Cardinality(D) <= L - L)
  BY <1>7 DEF Turning, L
<1>9. D \subseteq Hard
  BY DEF DueHard
<1> HIDE DEF D
<1>10. D = {}
  <2>1. IsFiniteSet(D) /\ Cardinality(D) \in Nat
    BY <1>0, <1>9, FS_Subset, FS_CardinalityType
  <2> QED BY <1>0, <1>8, <2>1, FS_EmptySet
<1> QED BY <1>2, <1>8, <1>10

-----------------------------------------------------------------------------
(* The invariant of the timers.  A timer in the middle of its start is out *)
(* of the list, not active, and in nobody else's start; a hard timer is in *)
(* one call at a time; and every time that is in a list, or computed and   *)
(* about to be, is near.                                                   *)
CallsOK ==
    /\ \A c \in Caller : doing[c] # "none" => arg[c] \in Timers
    /\ \A c \in Caller : Pending(c) => ~Linked(tm, arg[c]) /\ arg[c] \notin tm.active
    /\ \A c, d \in Caller : /\ doing[c] # "none" /\ doing[d] # "none" /\ arg[c] = arg[d]
                            /\ arg[c] \in Hard \/ (Pending(c) /\ Pending(d))
                            => c = d

(* Where the timer thread has a timer in firing.  What it starts again is  *)
(* in nobody's start.                                                      *)
FiringPlace == {"unlink", "callback", "relock", "after", "clear", "unflag", "again"}

FiringOK ==
    /\ tt \in FiringPlace => firing # None
    /\ tt \notin FiringPlace \cup {"lost"} => firing = None
    /\ tt = "next" => node # None
    /\ tt \in {"unflag", "again"} => \A c \in Caller : Pending(c) => arg[c] # firing

NearTime(s, t, b) == Minus(s.timeout[t], b) < Half - 1

TimesNear ==
    /\ \A t \in Timers : Linked(tm, t) => NearTime(tm, t, Base(tick))
    /\ \A c \in Caller : doing[c] = "insert" => NearTime(tm, arg[c], Base(tick))

AllAccounted == \A t \in tm.active : Accounted(tm, t)

TimersInv ==
    /\ TimerTypeOK /\ TimersOK(tm)
    /\ CallsOK /\ FiringOK /\ TimesNear /\ AllAccounted /\ HardKept(tm, None)

LEMMA GoesIs ==
    ASSUME TimerTypeOK, NEW c \in Caller, NEW at, NEW t \in Timers,
           at \in {"none", "compute", "insert", "wake", "remove", "unflag"}, Goes(c, at, t)
    PROVE  /\ doing'[c] = at /\ arg'[c] = IF at = "none" THEN None ELSE t
           /\ \A d \in Caller : d # c => doing'[d] = doing[d] /\ arg'[d] = arg[d]
           /\ doing' \in [Caller -> {"none", "compute", "insert", "wake", "remove", "unflag"}]
           /\ arg' \in [Caller -> Timers \cup {None}]
BY DEF Goes, TimerTypeOK

LEMMA TmTyped ==
    ASSUME NEW s, TimersOK(s)
    PROVE  s \in [hard : Seq(Hard), soft : Seq(Soft), active : SUBSET Timers,
                  timeout : [Timers -> Ticks], init : InitTicks]
BY DEF TimersOK

(* The timer thread goes on, and no timer notices. *)
LEMMA TimersKept ==
    ASSUME TimersInv, tick' = tick, tm' = tm, doing' = doing, arg' = arg, firing' = firing,
           FiringOK', TimerTypeOK'
    PROVE  TimersInv'
<1>1. TimersOK(tm)' /\ CallsOK'
  BY DEF TimersInv, TimersOK, ListSorted, CallsOK, Pending, Linked
<1>2. TimesNear' /\ AllAccounted'
  BY DEF TimersInv, TimesNear, NearTime, AllAccounted, Accounted
<1>3. HardKept(tm, None)'
  BY DEF TimersInv, HardKept, Stopping, Linked, ListOf
<1> QED BY <1>1, <1>2, <1>3 DEF TimersInv

LEMMA StepStartRemoves ==
    ASSUME TimersInv, NEW c \in Caller, NEW t \in Timers, StartRemoves(c, t)
    PROVE  TimersInv'
<1> PICK x : x = _rt_timer_remove(tm, t)
  OBVIOUS
<1> PICK r : r = Unflag(x, t)
  OBVIOUS
<1>0. /\ tm' = r /\ Goes(c, "compute", t) /\ UNCHANGED <<tick, thread>>
      /\ doing[c] = "none" /\ NotInCall(t) /\ tt \notin {"unflag", "again"}
  BY DEF StartRemoves, MayCall, CanRun, SchedulerLocked
<1>1. /\ TimersOK(x) /\ x.active = tm.active /\ x.timeout = tm.timeout
      /\ \A u \in Timers : Linked(x, u) <=> Linked(tm, u) /\ u # t
  BY RemoveIs DEF TimersInv
<1>2. /\ TimersOK(r) /\ r.active = tm.active \ {t} /\ r.timeout = tm.timeout
      /\ \A u \in Timers : Linked(r, u) <=> Linked(tm, u) /\ u # t
  BY <1>1, UnflagIs
<1>3. /\ doing'[c] = "compute" /\ arg'[c] = t
      /\ \A d \in Caller : d # c => doing'[d] = doing[d] /\ arg'[d] = arg[d]
      /\ doing' \in [Caller -> {"none", "compute", "insert", "wake", "remove", "unflag"}]
      /\ arg' \in [Caller -> Timers \cup {None}]
  BY <1>0, GoesIs DEF TimersInv
<1>4. TimerTypeOK' /\ FiringOK'
  BY <1>0, <1>2, <1>3, TmTyped DEF TimersInv, TimerTypeOK, thread, FiringOK
<1>5. CallsOK'
  BY <1>0, <1>2, <1>3 DEF TimersInv, CallsOK, Pending, NotInCall
<1>6. TimesNear'
  BY <1>0, <1>2, <1>3 DEF TimersInv, TimesNear, NearTime
<1>7. AllAccounted'
  <2> SUFFICES ASSUME NEW u \in r.active PROVE Accounted(r, u)'
    BY <1>0 DEF AllAccounted
  <2>1. u \in tm.active /\ u # t /\ u \in Timers
    BY <1>2 DEF TimersInv, TimersOK
  <2>2. Accounted(tm, u)
    BY <2>1 DEF TimersInv, AllAccounted
  <2> QED BY <1>0, <1>2, <1>3, <2>1, <2>2 DEF Accounted, thread
<1>8. HardKept(tm, None)'
  BY <1>0, <1>2, <1>3 DEF TimersInv, CallsOK, HardKept, Stopping, Timers
<1> QED BY <1>0, <1>2, <1>4, <1>5, <1>6, <1>7, <1>8 DEF TimersInv

LEMMA StepStartComputes ==
    ASSUME TimersInv, NEW c \in Caller, StartComputes(c)
    PROVE  TimersInv'
<1> PICK t : t = arg[c]
  OBVIOUS
<1> PICK r : r = SetTimeout(tm, t, tick)
  OBVIOUS
<1>0. /\ tm' = r /\ Goes(c, "insert", t) /\ UNCHANGED <<tick, thread>>
      /\ doing[c] = "compute"
  BY DEF StartComputes
<1>1. t \in Timers /\ ~Linked(tm, t) /\ t \notin tm.active
  BY <1>0 DEF TimersInv, CallsOK, Pending
<1>2. /\ TimersOK(r) /\ r.active = tm.active /\ r.timeout[t] = Plus(tick, tm.init[t])
      /\ \A u \in Timers : u # t => r.timeout[u] = tm.timeout[u]
      /\ \A u : Linked(r, u) <=> Linked(tm, u)
  BY <1>1, SetTimeoutIs DEF TimersInv, TimerTypeOK
<1>3. /\ doing'[c] = "insert" /\ arg'[c] = t
      /\ \A d \in Caller : d # c => doing'[d] = doing[d] /\ arg'[d] = arg[d]
      /\ doing' \in [Caller -> {"none", "compute", "insert", "wake", "remove", "unflag"}]
      /\ arg' \in [Caller -> Timers \cup {None}]
  BY <1>0, <1>1, GoesIs DEF TimersInv
<1>4. TimerTypeOK' /\ FiringOK'
  BY <1>0, <1>2, <1>3, TmTyped DEF TimersInv, TimerTypeOK, thread, FiringOK, Pending
<1>5. CallsOK'
  <2>1. \A d, e \in Caller :
           /\ doing'[d] # "none" /\ doing'[e] # "none" /\ arg'[d] = arg'[e]
           /\ arg'[d] \in Hard \/ (Pending(d) /\ Pending(e))'
           => d = e
    BY <1>0, <1>3 DEF TimersInv, CallsOK, Pending
  <2> QED BY <1>0, <1>1, <1>2, <1>3, <2>1 DEF TimersInv, CallsOK, Pending
<1>6. NearTime(r, t, Base(tick))
  <2>1. /\ tm.init[t] \in Nat /\ tm.init[t] >= 1 /\ tm.init[t] + MaxLate + 1 < Half
        /\ MaxLate \in Nat
    BY <1>1, TimeIs DEF TimersInv
  <2>2. tick \in Ticks
    BY DEF TimersInv, TimerTypeOK
  <2>3. Minus(Plus(tick, tm.init[t]), Base(tick)) = MaxLate + tm.init[t]
    BY <2>1, <2>2, FreshTime
  <2> QED BY <1>2, <2>1, <2>3, HalfIs DEF NearTime
<1>7. TimesNear'
  <2>1. \A u \in Timers : u # t => (NearTime(r, u, Base(tick)) <=> NearTime(tm, u, Base(tick)))
    BY <1>2 DEF NearTime
  <2>2. \A u \in Timers : Linked(r, u) => NearTime(r, u, Base(tick))
    BY <1>1, <1>2, <2>1 DEF TimersInv, TimesNear
  <2>3. ASSUME NEW d \in Caller, d # c, doing[d] = "insert"
        PROVE  NearTime(r, arg[d], Base(tick))
    <3>1. arg[d] \in Timers /\ arg[d] # t
      BY <1>0, <2>3 DEF TimersInv, CallsOK, Pending
    <3> QED BY <2>1, <2>3, <3>1 DEF TimersInv, TimesNear
  <2> HIDE DEF TimersInv
  <2> QED BY <1>0, <1>3, <1>6, <2>2, <2>3 DEF TimesNear, NearTime, Base
<1>8. AllAccounted'
  BY <1>0, <1>2, <1>3 DEF TimersInv, AllAccounted, Accounted, thread
<1>9. HardKept(tm, None)'
  BY <1>0, <1>2, <1>3 DEF TimersInv, HardKept, Stopping
<1> QED BY <1>0, <1>2, <1>4, <1>5, <1>7, <1>8, <1>9 DEF TimersInv

LEMMA StepStartInserts ==
    ASSUME TimersInv, NEW c \in Caller, StartInserts(c)
    PROVE  TimersInv'
<1> PICK t : t = arg[c]
  OBVIOUS
<1> PICK r : r = Insert(tm, t)
  OBVIOUS
<1> PICK at : at = IF t \in Soft THEN "wake" ELSE "none"
  OBVIOUS
<1>0. /\ tm' = r /\ Goes(c, at, t) /\ UNCHANGED <<tick, thread>>
      /\ doing[c] = "insert" /\ at \in {"wake", "none"}
  BY DEF StartInserts
<1>1. t \in Timers /\ ~Linked(tm, t)
  BY <1>0 DEF TimersInv, CallsOK, Pending
<1>2. Base(tick) \in Ticks /\ Near(tm, Base(tick)) /\ Minus(tm.timeout[t], Base(tick)) < Half
  <2>1. tick \in Ticks /\ MaxLate + 2 < Half
    BY <1>1, TimeIs DEF TimersInv, TimerTypeOK
  <2>2. Base(tick) \in Ticks
    BY <2>1, TickIs
  <2>3. tm.timeout \in [Timers -> Ticks]
    BY DEF TimersInv, TimersOK
  <2>4. \A u \in Timers : NearTime(tm, u, Base(tick)) => Minus(tm.timeout[u], Base(tick)) < Half
    <3> TAKE u \in Timers
    <3>1. tm.timeout[u] \in Ticks
      BY <2>3
    <3>2. Minus(tm.timeout[u], Base(tick)) \in Ticks
      BY <2>2, <3>1, MinusIs
    <3> QED BY <3>2, HalfIs DEF NearTime, Ticks
  <2> QED BY <1>0, <1>1, <2>2, <2>4 DEF TimersInv, TimesNear, Near
<1>3. /\ TimersOK(r) /\ r.active = tm.active \cup {t} /\ r.timeout = tm.timeout
      /\ \A u \in Timers : Linked(r, u) <=> Linked(tm, u) \/ u = t
  BY <1>1, <1>2, InsertIs DEF TimersInv
<1>4. /\ doing'[c] = at /\ arg'[c] = IF at = "none" THEN None ELSE t
      /\ \A d \in Caller : d # c => doing'[d] = doing[d] /\ arg'[d] = arg[d]
      /\ doing' \in [Caller -> {"none", "compute", "insert", "wake", "remove", "unflag"}]
      /\ arg' \in [Caller -> Timers \cup {None}]
  BY <1>0, <1>1, GoesIs DEF TimersInv
<1>5. TimerTypeOK' /\ FiringOK'
  BY <1>0, <1>3, <1>4, TmTyped DEF TimersInv, TimerTypeOK, thread, FiringOK, Pending
<1>6. CallsOK'
  <2>1. \A d \in Caller : d # c /\ Pending(d) => arg[d] # t
    BY <1>0 DEF TimersInv, CallsOK, Pending
  <2>2. \A d, e \in Caller :
           /\ doing'[d] # "none" /\ doing'[e] # "none" /\ arg'[d] = arg'[e]
           /\ arg'[d] \in Hard \/ (Pending(d) /\ Pending(e))'
           => d = e
    BY <1>0, <1>4 DEF TimersInv, CallsOK, Pending
  <2> QED BY <1>0, <1>1, <1>3, <1>4, <2>1, <2>2 DEF TimersInv, CallsOK, Pending
<1>7. TimesNear'
  BY <1>0, <1>3, <1>4 DEF TimersInv, TimesNear, NearTime
<1>8. AllAccounted'
  <2> SUFFICES ASSUME NEW u \in r.active PROVE Accounted(r, u)'
    BY <1>0 DEF AllAccounted
  <2>1. u \in Timers
    BY <1>3 DEF TimersOK
  <2>2. CASE u = t
    BY <1>3, <2>1, <2>2 DEF Accounted
  <2>3. CASE u # t
    <3>1. Accounted(tm, u)
      BY <1>3, <2>3 DEF TimersInv, AllAccounted
    <3> QED BY <1>0, <1>3, <1>4, <2>1, <3>1 DEF Accounted, thread
  <2> QED BY <2>2, <2>3
<1>9. HardKept(tm, None)'
  <2>1. \A d \in Caller : d # c /\ Stopping(d) => arg[d] # t /\ arg[d] \in Timers
    BY <1>0 DEF TimersInv, CallsOK, Stopping
  <2>2. \A d \in Caller : Stopping(d)' => d # c /\ Stopping(d) /\ arg'[d] = arg[d]
    BY <1>0, <1>4 DEF Stopping
  <2>3. \A u \in Hard : u \in Timers /\ u # None
    BY TimerAssumption DEF Timers
  <2>4. \A u \in Hard : Linked(r, u) => u \in r.active /\ u # None
    BY <1>3, <2>3 DEF TimersInv, HardKept
  <2>5. \A d \in Caller : Stopping(d)' => ~Linked(r, arg'[d])
    BY <1>3, <2>1, <2>2 DEF TimersInv, HardKept
  <2> QED BY <1>0, <2>4, <2>5 DEF HardKept
<1> QED BY <1>0, <1>3, <1>5, <1>6, <1>7, <1>8, <1>9 DEF TimersInv

LEMMA StepStartWakes ==
    ASSUME TimersInv, NEW c \in Caller, StartWakes(c)
    PROVE  TimersInv'
<1> PICK t : t = arg[c]
  OBVIOUS
<1>0. /\ tm' = tm /\ Goes(c, "none", t) /\ tick' = tick /\ firing' = firing
      /\ doing[c] = "wake" /\ tt' = WakesThread
      /\ UNCHANGED <<node, current_tick, next_timeout>>
      /\ wake_tick' = IF TimerThreadSuspended THEN 0 ELSE wake_tick
  BY DEF StartWakes
<1>1. t \in Timers
  BY <1>0 DEF TimersInv, CallsOK
<1>2. /\ doing'[c] = "none" /\ arg'[c] = None
      /\ \A d \in Caller : d # c => doing'[d] = doing[d] /\ arg'[d] = arg[d]
      /\ doing' \in [Caller -> {"none", "compute", "insert", "wake", "remove", "unflag"}]
      /\ arg' \in [Caller -> Timers \cup {None}]
  BY <1>0, <1>1, GoesIs DEF TimersInv
<1>3. TimerTypeOK' /\ FiringOK'
  <2>1. tt' = tt \/ (tt' = "check" /\ tt \in {"suspended", "sleeping"})
    BY <1>0 DEF WakesThread, TimerThreadSuspended
  <2>2. \A d \in Caller : Pending(d)' => Pending(d) /\ arg'[d] = arg[d]
    BY <1>0, <1>2 DEF Pending
  <2>3. FiringOK'
    BY <1>0, <2>1, <2>2 DEF TimersInv, FiringOK, FiringPlace
  <2>4. wake_tick' \in Ticks
    BY <1>0, TimerAssumption DEF TimersInv, TimerTypeOK, Ticks
  <2> QED BY <1>0, <1>2, <2>1, <2>3, <2>4 DEF TimersInv, TimerTypeOK
<1>4. CallsOK' /\ TimesNear'
  BY <1>0, <1>2 DEF TimersInv, CallsOK, Pending, TimesNear, NearTime
<1>5. AllAccounted'
  BY <1>0, <1>2 DEF TimersInv, AllAccounted, Accounted
<1>6. HardKept(tm, None)'
  BY <1>0, <1>2 DEF TimersInv, HardKept, Stopping
<1> QED BY <1>0, <1>3, <1>4, <1>5, <1>6 DEF TimersInv

LEMMA StepStopChecks ==
    ASSUME TimersInv, NEW c \in Caller, NEW t \in Timers, StopChecks(c, t)
    PROVE  TimersInv'
<1>0. /\ tm' = tm /\ Goes(c, "remove", t) /\ UNCHANGED <<tick, thread>>
      /\ doing[c] = "none" /\ NotInCall(t)
  BY DEF StopChecks, MayCall
<1>1. /\ doing'[c] = "remove" /\ arg'[c] = t
      /\ \A d \in Caller : d # c => doing'[d] = doing[d] /\ arg'[d] = arg[d]
      /\ doing' \in [Caller -> {"none", "compute", "insert", "wake", "remove", "unflag"}]
      /\ arg' \in [Caller -> Timers \cup {None}]
  BY <1>0, GoesIs DEF TimersInv
<1>2. TimerTypeOK' /\ FiringOK'
  BY <1>0, <1>1 DEF TimersInv, TimerTypeOK, thread, FiringOK, Pending
<1>3. CallsOK'
  BY <1>0, <1>1 DEF TimersInv, CallsOK, Pending, NotInCall
<1>4. TimesNear' /\ HardKept(tm, None)'
  BY <1>0, <1>1 DEF TimersInv, TimesNear, NearTime, HardKept, Stopping
<1>5. AllAccounted'
  BY <1>0, <1>1 DEF TimersInv, AllAccounted, Accounted, thread
<1> QED BY <1>0, <1>2, <1>3, <1>4, <1>5 DEF TimersInv

LEMMA StepStopRemoves ==
    ASSUME TimersInv, NEW c \in Caller, StopRemoves(c)
    PROVE  TimersInv'
<1> PICK t : t = arg[c]
  OBVIOUS
<1> PICK r : r = _rt_timer_remove(tm, t)
  OBVIOUS
<1>0. /\ tm' = r /\ Goes(c, "unflag", t) /\ UNCHANGED <<tick, thread>>
      /\ doing[c] = "remove"
  BY DEF StopRemoves
<1>1. t \in Timers
  BY <1>0 DEF TimersInv, CallsOK
<1>2. /\ TimersOK(r) /\ r.active = tm.active /\ r.timeout = tm.timeout
      /\ \A u \in Timers : Linked(r, u) <=> Linked(tm, u) /\ u # t
  BY <1>1, RemoveIs DEF TimersInv
<1>3. /\ doing'[c] = "unflag" /\ arg'[c] = t
      /\ \A d \in Caller : d # c => doing'[d] = doing[d] /\ arg'[d] = arg[d]
      /\ doing' \in [Caller -> {"none", "compute", "insert", "wake", "remove", "unflag"}]
      /\ arg' \in [Caller -> Timers \cup {None}]
  BY <1>0, <1>1, GoesIs DEF TimersInv
<1>4. TimerTypeOK' /\ FiringOK'
  BY <1>0, <1>2, <1>3, TmTyped DEF TimersInv, TimerTypeOK, thread, FiringOK, Pending
<1>5. CallsOK'
  BY <1>0, <1>1, <1>2, <1>3 DEF TimersInv, CallsOK, Pending
<1>6. TimesNear'
  BY <1>0, <1>2, <1>3 DEF TimersInv, TimesNear, NearTime
<1>7. AllAccounted'
  <2> SUFFICES ASSUME NEW u \in r.active PROVE Accounted(r, u)'
    BY <1>0 DEF AllAccounted
  <2>1. u \in tm.active /\ u \in Timers
    BY <1>2 DEF TimersInv, TimersOK
  <2>2. Accounted(tm, u)
    BY <2>1 DEF TimersInv, AllAccounted
  <2> QED BY <1>0, <1>2, <1>3, <2>1, <2>2 DEF Accounted, thread
<1>8. HardKept(tm, None)'
  BY <1>0, <1>2, <1>3 DEF TimersInv, HardKept, Stopping, Timers
<1> QED BY <1>0, <1>2, <1>4, <1>5, <1>6, <1>7, <1>8 DEF TimersInv

LEMMA StepStopUnflags ==
    ASSUME TimersInv, NEW c \in Caller, StopUnflags(c)
    PROVE  TimersInv'
<1> PICK t : t = arg[c]
  OBVIOUS
<1> PICK r : r = Unflag(tm, t)
  OBVIOUS
<1>0. /\ tm' = r /\ Goes(c, "none", t) /\ UNCHANGED <<tick, thread>>
      /\ doing[c] = "unflag"
  BY DEF StopUnflags
<1>1. t \in Timers
  BY <1>0 DEF TimersInv, CallsOK
<1>2. /\ TimersOK(r) /\ r.active = tm.active \ {t} /\ r.timeout = tm.timeout
      /\ \A u : Linked(r, u) <=> Linked(tm, u)
  BY UnflagIs DEF TimersInv
<1>3. /\ doing'[c] = "none" /\ arg'[c] = None
      /\ \A d \in Caller : d # c => doing'[d] = doing[d] /\ arg'[d] = arg[d]
      /\ doing' \in [Caller -> {"none", "compute", "insert", "wake", "remove", "unflag"}]
      /\ arg' \in [Caller -> Timers \cup {None}]
  BY <1>0, <1>1, GoesIs DEF TimersInv
<1>4. TimerTypeOK' /\ FiringOK'
  BY <1>0, <1>2, <1>3, TmTyped DEF TimersInv, TimerTypeOK, thread, FiringOK, Pending
<1>5. CallsOK' /\ TimesNear'
  BY <1>0, <1>2, <1>3 DEF TimersInv, CallsOK, Pending, TimesNear, NearTime
<1>6. AllAccounted'
  <2> SUFFICES ASSUME NEW u \in r.active PROVE Accounted(r, u)'
    BY <1>0 DEF AllAccounted
  <2>1. u \in tm.active /\ u # t
    BY <1>2
  <2>2. Accounted(tm, u)
    BY <2>1 DEF TimersInv, AllAccounted
  <2> QED BY <1>0, <1>2, <1>3, <2>1, <2>2 DEF Accounted, thread
<1>7. HardKept(tm, None)'
  BY <1>0, <1>2, <1>3 DEF TimersInv, HardKept, Stopping
<1> QED BY <1>0, <1>2, <1>4, <1>5, <1>6, <1>7 DEF TimersInv

LEMMA StepControl ==
    ASSUME TimersInv, NEW c \in Caller, NEW t \in Timers, NEW d \in Times[t],
           rt_timer_control(c, t, d)
    PROVE  TimersInv'
<1> PICK r : r = [tm EXCEPT !.init[t] = d]
  OBVIOUS
<1>0. tm' = r /\ UNCHANGED <<tick, calling, thread>>
  BY DEF rt_timer_control
<1>1. d \in 1 .. Half
  BY TimerAssumption
<1>2. /\ r \in [hard : Seq(Hard), soft : Seq(Soft), active : SUBSET Timers,
                timeout : [Timers -> Ticks], init : InitTicks]
      /\ r.hard = tm.hard /\ r.soft = tm.soft /\ r.active = tm.active
      /\ r.timeout = tm.timeout
  <2>1. tm \in [hard : Seq(Hard), soft : Seq(Soft), active : SUBSET Timers,
                timeout : [Timers -> Ticks], init : InitTicks]
    BY DEF TimersInv, TimerTypeOK
  <2>2. [tm.init EXCEPT ![t] = d] \in InitTicks
    BY <1>1, <2>1 DEF InitTicks
  <2>3. r = [tm EXCEPT !.init = [tm.init EXCEPT ![t] = d]]
    BY <2>1
  <2> PICK f : f = [tm.init EXCEPT ![t] = d]
    OBVIOUS
  <2>4. r = [tm EXCEPT !.init = f] /\ f \in InitTicks
    BY <2>2, <2>3
  <2> QED BY <2>1, <2>4
<1>3. TimersOK(r) /\ \A u : Linked(r, u) <=> Linked(tm, u)
  BY <1>2 DEF TimersInv, TimersOK, ListSorted, Linked, ListOf
<1>4. TimerTypeOK' /\ FiringOK'
  BY <1>0, <1>2 DEF TimersInv, TimerTypeOK, thread, calling, FiringOK, Pending
<1>5. CallsOK' /\ TimesNear'
  BY <1>0, <1>2, <1>3 DEF TimersInv, CallsOK, Pending, TimesNear, NearTime, calling
<1>6. AllAccounted'
  BY <1>0, <1>2, <1>3 DEF TimersInv, AllAccounted, Accounted, calling, thread
<1>7. HardKept(tm, None)'
  BY <1>0, <1>2, <1>3 DEF TimersInv, HardKept, Stopping, calling
<1> QED BY <1>0, <1>3, <1>4, <1>5, <1>6, <1>7 DEF TimersInv

(* rt_soft_timer_check. *)
LEMMA NodeAfterIs ==
    ASSUME tm.soft \in Seq(Soft), NEW t \in Soft
    PROVE  NodeAfter(t) \in Soft \cup {None}
<1> DEFINE s == tm.soft
<1>1. CASE ~Contains(s, t) \/ Last(s) = t
  BY <1>1 DEF NodeAfter
<1>2. CASE Contains(s, t) /\ Last(s) # t
  <2>1. PICK i \in 1 .. Len(s) : s[i] = t
    BY <1>2 DEF Contains
  <2>2. i # Len(s)
    BY <1>2, <2>1 DEF Last
  <2>3. i \in 1 .. Len(s) - 1 /\ i + 1 \in 1 .. Len(s) /\ DOMAIN s = 1 .. Len(s)
    BY <2>2
  <2>4. s[i + 1] \in ToSet(s)
    BY <2>3 DEF ToSet
  <2>5. NodeAfter(t) = CHOOSE u \in ToSet(s) :
            \E j \in 1 .. Len(s) - 1 : s[j] = t /\ s[j + 1] = u
    BY <1>2 DEF NodeAfter
  <2>6. \E u \in ToSet(s) : \E j \in 1 .. Len(s) - 1 : s[j] = t /\ s[j + 1] = u
    BY <2>1, <2>3, <2>4
  <2>7. NodeAfter(t) \in ToSet(s)
    BY <2>5, <2>6, Zenon
  <2>8. ToSet(s) \subseteq Soft
    BY DEF ToSet
  <2> QED BY <2>7, <2>8
<1> QED BY <1>1, <1>2

LEMMA StepScanGoesOn ==
    ASSUME TimersInv, ScanGoesOn
    PROVE  TimersInv'
<1>0. /\ firing' = node /\ node # None /\ tt = "next" /\ tt' = "unlink"
      /\ node' = NodeAfter(node)
      /\ UNCHANGED <<tick, tm, calling, current_tick, next_timeout, wake_tick>>
  BY DEF ScanGoesOn, TimerThreadStep, TimersInv, FiringOK
<1>1. node \in Soft /\ firing = None
  BY <1>0 DEF TimersInv, TimerTypeOK, FiringOK, FiringPlace
<1>2. NodeAfter(node) \in Soft \cup {None}
  BY <1>1, NodeAfterIs DEF TimersInv, TimerTypeOK
<1>3. TimerTypeOK' /\ FiringOK'
  BY <1>0, <1>1, <1>2 DEF TimersInv, TimerTypeOK, calling, FiringOK, FiringPlace
<1>4. TimersOK(tm)' /\ CallsOK' /\ TimesNear' /\ HardKept(tm, None)'
  BY <1>0 DEF TimersInv, CallsOK, Pending, TimesNear, NearTime, HardKept, Stopping, calling
<1>5. AllAccounted'
  <2> SUFFICES ASSUME NEW u \in tm.active PROVE Accounted(tm, u)'
    BY <1>0 DEF AllAccounted
  <2>1. u # None /\ Accounted(tm, u)
    BY TimerAssumption DEF TimersInv, TimersOK, AllAccounted
  <2> QED BY <1>0, <1>1, <2>1 DEF Accounted, calling
<1> QED BY <1>3, <1>4, <1>5 DEF TimersInv

LEMMA StepScanUnlinks ==
    ASSUME TimersInv, ScanUnlinks
    PROVE  TimersInv'
<1> PICK t : t = firing
  OBVIOUS
<1> PICK r : r = _rt_timer_remove(tm, t)
  OBVIOUS
<1>0. /\ tm' = r /\ tt = "unlink" /\ tt' = "callback"
      /\ UNCHANGED <<tick, calling, node, current_tick, firing, next_timeout, wake_tick>>
  BY DEF ScanUnlinks, TimerThreadStep
<1>1. t \in Timers
  BY <1>0 DEF TimersInv, TimerTypeOK, FiringOK, FiringPlace, Timers
<1>2. /\ TimersOK(r) /\ r.active = tm.active /\ r.timeout = tm.timeout
      /\ \A u \in Timers : Linked(r, u) <=> Linked(tm, u) /\ u # t
  BY <1>1, RemoveIs DEF TimersInv
<1>3. TimerTypeOK' /\ FiringOK'
  BY <1>0, <1>2, TmTyped DEF TimersInv, TimerTypeOK, calling, FiringOK, FiringPlace
<1>4. CallsOK'
  BY <1>0, <1>2 DEF TimersInv, CallsOK, Pending, calling
<1>5. TimesNear' /\ HardKept(tm, None)'
  BY <1>0, <1>2 DEF TimersInv, TimesNear, NearTime, HardKept, Stopping, calling, Timers
<1>6. AllAccounted'
  <2> SUFFICES ASSUME NEW u \in r.active PROVE Accounted(r, u)'
    BY <1>0 DEF AllAccounted
  <2>1. u \in tm.active /\ u \in Timers
    BY <1>2 DEF TimersInv, TimersOK
  <2>2. Accounted(tm, u)
    BY <2>1 DEF TimersInv, AllAccounted
  <2> QED BY <1>0, <1>2, <2>1, <2>2 DEF Accounted, calling
<1> QED BY <1>0, <1>2, <1>3, <1>4, <1>5, <1>6 DEF TimersInv

(* The flag is cleared: the timer is a soft one. *)
LEMMA StepScanUnflags ==
    ASSUME TimersInv, ScanUnflags \/ RestartUnflags
    PROVE  TimersInv'
<1> PICK t : t = firing
  OBVIOUS
<1> PICK r : r = Unflag(tm, t)
  OBVIOUS
<1>0. /\ tm' = r
      /\ UNCHANGED <<tick, calling, node, current_tick, next_timeout, wake_tick>>
      /\ \/ tt = "clear" /\ tt' = "scan" /\ firing' = None
         \/ tt = "unflag" /\ tt' = "again" /\ firing' = firing
  BY DEF ScanUnflags, RestartUnflags, TimerThreadStep
<1>1. t \in Soft
  BY <1>0 DEF TimersInv, TimerTypeOK, FiringOK, FiringPlace
<1>2. /\ TimersOK(r) /\ r.active = tm.active \ {t} /\ r.timeout = tm.timeout
      /\ \A u : Linked(r, u) <=> Linked(tm, u)
  BY UnflagIs DEF TimersInv
<1>3. TimerTypeOK'
  BY <1>0, <1>2, TmTyped DEF TimersInv, TimerTypeOK, calling
<1>4. FiringOK'
  BY <1>0 DEF TimersInv, calling, FiringOK, FiringPlace, Pending
<1>5. CallsOK' /\ TimesNear'
  BY <1>0, <1>2 DEF TimersInv, CallsOK, Pending, TimesNear, NearTime, calling
<1>6. HardKept(tm, None)'
  <2>1. t \notin Hard
    BY <1>1, TimerAssumption
  <2> QED BY <1>0, <1>2, <2>1 DEF TimersInv, HardKept, Stopping, calling
<1>7. AllAccounted'
  <2> SUFFICES ASSUME NEW u \in r.active PROVE Accounted(r, u)'
    BY <1>0 DEF AllAccounted
  <2>1. u \in tm.active /\ u # t
    BY <1>2
  <2>2. Accounted(tm, u)
    BY <2>1 DEF TimersInv, AllAccounted
  <2> QED BY <1>0, <1>2, <2>1, <2>2 DEF Accounted, calling
<1> QED BY <1>0, <1>2, <1>3, <1>4, <1>5, <1>6, <1>7 DEF TimersInv

LEMMA StepRestartRemoves ==
    ASSUME TimersInv, RestartRemoves
    PROVE  TimersInv'
<1> PICK t : t = firing
  OBVIOUS
<1> PICK x : x = _rt_timer_remove(tm, t)
  OBVIOUS
<1> PICK r : r = Unflag(x, t)
  OBVIOUS
<1>0. /\ tm' = r /\ firing' = None /\ tt = "again" /\ tt' = "restart"
      /\ Goes(TimerThread, "compute", t)
      /\ doing[TimerThread] = "none" /\ TimerThread \in Caller
      /\ UNCHANGED <<tick, node, current_tick, next_timeout, wake_tick>>
  BY DEF RestartRemoves, TimerThreadStep, Caller
<1>1. t \in Soft /\ t \in Timers /\ t \notin Hard
  BY <1>0, TimerAssumption DEF TimersInv, TimerTypeOK, FiringOK, FiringPlace, Timers
<1>2. /\ TimersOK(x) /\ x.active = tm.active /\ x.timeout = tm.timeout
      /\ \A u \in Timers : Linked(x, u) <=> Linked(tm, u) /\ u # t
  BY <1>1, RemoveIs DEF TimersInv
<1>3. /\ TimersOK(r) /\ r.active = tm.active \ {t} /\ r.timeout = tm.timeout
      /\ \A u \in Timers : Linked(r, u) <=> Linked(tm, u) /\ u # t
  BY <1>2, UnflagIs
<1>4. /\ doing'[TimerThread] = "compute" /\ arg'[TimerThread] = t
      /\ \A d \in Caller : d # TimerThread => doing'[d] = doing[d] /\ arg'[d] = arg[d]
      /\ doing' \in [Caller -> {"none", "compute", "insert", "wake", "remove", "unflag"}]
      /\ arg' \in [Caller -> Timers \cup {None}]
  BY <1>0, <1>1, GoesIs DEF TimersInv
<1>5. TimerTypeOK' /\ FiringOK'
  BY <1>0, <1>3, <1>4, TmTyped DEF TimersInv, TimerTypeOK, FiringOK, FiringPlace
<1>6. CallsOK'
  <2>1. \A d \in Caller : Pending(d) => arg[d] # t
    BY <1>0 DEF TimersInv, FiringOK
  <2> QED BY <1>0, <1>1, <1>3, <1>4, <2>1 DEF TimersInv, CallsOK, Pending
<1>7. TimesNear'
  BY <1>0, <1>3, <1>4 DEF TimersInv, TimesNear, NearTime
<1>8. HardKept(tm, None)'
  BY <1>0, <1>1, <1>3, <1>4 DEF TimersInv, HardKept, Stopping, Timers
<1>9. AllAccounted'
  <2> SUFFICES ASSUME NEW u \in r.active PROVE Accounted(r, u)'
    BY <1>0 DEF AllAccounted
  <2>1. u \in tm.active /\ u \in Timers /\ u # t
    BY <1>3 DEF TimersInv, TimersOK
  <2>2. Accounted(tm, u)
    BY <2>1 DEF TimersInv, AllAccounted
  <2> QED BY <1>0, <1>3, <1>4, <2>1, <2>2 DEF Accounted
<1> QED BY <1>0, <1>3, <1>5, <1>6, <1>7, <1>8, <1>9 DEF TimersInv

(* The steps of the timer thread that only look. *)
LooksOn ==
    \/ ReadsNext \/ PeeksNext \/ WaitsForNext \/ Delays \/ CheckStarts \/ CheckLocks
    \/ ScanFindsDue \/ ScanEnds \/ CallbackReturns \/ Relocks \/ AfterCallback
    \/ RestartReturns

LEMMA StepLooksOn ==
    ASSUME TimersInv, LooksOn
    PROVE  TimersInv' /\ tick' = tick
<1>0. TimerTypeOK /\ FiringOK /\ TickMax \in Nat /\ 0 \in Ticks /\ TickMax \in Ticks
  BY TimerAssumption DEF TimersInv, Ticks
<1>1. tm.soft # <<>> => Head(tm.soft) \in Soft /\ tm.timeout[Head(tm.soft)] \in Ticks
  <2>1. tm.soft \in Seq(Soft) /\ tm.timeout \in [Timers -> Ticks]
    BY DEF TimersInv, TimerTypeOK
  <2>2. tm.soft # <<>> => Head(tm.soft) \in Soft
    BY <2>1, EmptyList
  <2> QED BY <2>1, <2>2 DEF Timers
<1>2. Minus(next_timeout, tick) \in Ticks /\ Plus(tick, next_timeout) \in Ticks
  BY <1>0, MinusIs, PlusIs DEF TimerTypeOK
<1>3. /\ tick' = tick /\ tm' = tm /\ doing' = doing /\ arg' = arg /\ firing' = firing
      /\ \/ /\ tt \in {"read", "peek", "wait", "delay", "check", "enter", "scan", "restart"}
            /\ tt' \in {"read", "peek", "wait", "delay", "suspended", "sleeping", "check",
                        "enter", "scan", "next"}
            /\ tt' = "next" => node' # None
         \/ /\ tt \in {"callback", "relock", "after"}
            /\ tt' \in {"relock", "after", "clear", "unflag"}
            /\ tt' = "unflag" => firing \in tm.active
  BY DEF LooksOn, ReadsNext, PeeksNext, WaitsForNext, Delays, CheckStarts, CheckLocks,
         ScanFindsDue, ScanEnds, CallbackReturns, Relocks, AfterCallback,
         RestartReturns, TimerThreadStep, calling
<1>4. {node', firing'} \subseteq Soft \cup {None}
  BY <1>0, <1>1 DEF TimerTypeOK, LooksOn, ReadsNext, PeeksNext, WaitsForNext, Delays,
                    CheckStarts, CheckLocks, ScanFindsDue, ScanEnds, CallbackReturns,
                    Relocks, AfterCallback, RestartReturns
<1>5. {current_tick', next_timeout', wake_tick'} \subseteq Ticks
  <2>1. CASE PeeksNext
    BY <1>0, <1>1, <2>1 DEF TimerTypeOK, PeeksNext
  <2>2. CASE ~PeeksNext
    BY <1>0, <1>2, <2>2 DEF TimerTypeOK, LooksOn, ReadsNext, WaitsForNext, Delays,
                        CheckStarts, CheckLocks, ScanFindsDue, ScanEnds, CallbackReturns,
                        Relocks, AfterCallback, RestartReturns
  <2> QED BY <2>1, <2>2
<1>6. TimerTypeOK'
  BY <1>0, <1>3, <1>4, <1>5 DEF TimerTypeOK
<1>7. FiringOK'
  <2>1. \A c \in Caller : Pending(c) => arg[c] \notin tm.active
    BY DEF TimersInv, CallsOK
  <2> QED BY <1>0, <1>3, <2>1 DEF FiringOK, FiringPlace, Pending
<1> QED BY <1>3, <1>6, <1>7, TimersKept

-----------------------------------------------------------------------------
(* The clock interrupt. *)
LEMMA BeforeTick ==
    ASSUME TimersInv, InTime(Plus(tick, 1))
    PROVE  /\ Checked(tm, DueHard(tm, Plus(tick, 1)), None) /\ CallsTyped
           /\ \A c \in Caller : doing[c] = "insert" =>
                 /\ Minus(tm.timeout[arg[c]], Base(tick)) >= 1
                 /\ NearTime(tm, arg[c], Base(tick))
<1> DEFINE b == Base(tick)
           now == Plus(tick, 1)
<1>1. /\ TimersOK(tm) /\ tick \in Ticks /\ tm.timeout \in [Timers -> Ticks]
      /\ CallsOK /\ TimesNear /\ AllAccounted /\ HardKept(tm, None)
  BY DEF TimersInv, TimerTypeOK, TimersOK
<1>2. ASSUME NEW t \in Timers, NearTime(tm, t, b)
      PROVE  /\ Minus(tm.timeout[t], b) < Half
             /\ (Due(tm, t, now) => Minus(now, tm.timeout[t]) <= MaxLate)
                   => Minus(tm.timeout[t], b) >= 1
  <2>1. MaxLate \in Nat /\ MaxLate + 2 < Half /\ b \in Ticks
    BY <1>1, TimeIs, TickIs
  <2> PICK x : x = tm.timeout[t]
    OBVIOUS
  <2>2. x \in Ticks
    BY <1>1
  <2>3. Minus(x, b) \in Ticks /\ Minus(x, b) < Half
    <3>1. Minus(x, b) \in Ticks
      BY <2>1, <2>2, MinusIs
    <3> QED BY <1>2, <3>1, HalfIs DEF NearTime, Ticks
  <2>4. /\ Minus(now, x) < Half <=> Minus(x, b) <= MaxLate + 1
        /\ Minus(now, x) < Half => Minus(now, x) = MaxLate + 1 - Minus(x, b)
    BY <1>1, <2>1, <2>2, <2>3, DueAtNext
  <2> HIDE DEF b, now
  <2> QED BY <2>1, <2>3, <2>4, TimerAssumption DEF Due, Ticks
<1> HIDE DEF b, now
<1>3. Near(tm, b)
  BY <1>1, <1>2 DEF Near, TimesNear, b
<1>4. ASSUME NEW u \in Soft, Linked(tm, u)
      PROVE  Minus(tm.timeout[u], b) >= 1
  <2>1. u \in Timers /\ NearTime(tm, u, b)
    BY <1>1, <1>4 DEF Timers, TimesNear, b
  <2>2. u \in ToSet(tm.soft)
    BY <1>1, <1>4 DEF Linked, ListOf, Contains, ToSet, TimersOK
  <2>3. Due(tm, u, now) => Minus(now, tm.timeout[u]) <= MaxLate
    BY <2>2 DEF InTime, now
  <2> QED BY <1>2, <2>1, <2>3
<1>5. ASSUME NEW c \in Caller, doing[c] = "insert"
      PROVE  Minus(tm.timeout[arg[c]], b) >= 1 /\ NearTime(tm, arg[c], b)
  <2>1. arg[c] \in Timers /\ NearTime(tm, arg[c], b)
    BY <1>1, <1>5 DEF CallsOK, TimesNear, b
  <2>2. Due(tm, arg[c], now) => Minus(now, tm.timeout[arg[c]]) <= MaxLate
    BY <1>5 DEF InTime, now
  <2> QED BY <1>2, <2>1, <2>2
<1>6. CallsTyped
  BY <1>1 DEF CallsOK, CallsTyped, Pending
<1>7. Checked(tm, DueHard(tm, now), None)
  BY <1>1, <1>3, <1>4 DEF Checked, CallsOK, AllAccounted, b, now
<1> QED BY <1>5, <1>6, <1>7 DEF b, now

LEMMA StepTick ==
    ASSUME TimersInv, NEW effect \in [Hard -> HardEffect], rt_tick_increase(effect)
    PROVE  /\ TimersInv'
           /\ \A t \in ToSet(tm'.hard) : Minus(tick', tm'.timeout[t]) >= Half
<1> DEFINE b == Base(tick)
           now == Plus(tick, 1)
<1> PICK s : s = FireAll(effect, now)
  OBVIOUS
<1> PICK y : y = s.tm
  OBVIOUS
<1>0. /\ InTime(now) /\ EffectOK(effect)
      /\ tick' = now /\ tm' = y
      /\ UNCHANGED <<calling, node, current_tick, firing, next_timeout>>
      /\ \/ tt' = tt
         \/ tt' = "check" /\ TimerThreadSuspended
         \/ tt' = "lost" /\ tt = "unlink"
      /\ wake_tick' \in {0, wake_tick}
  <2>1. EffectOK(effect)
    BY DEF rt_tick_increase, EffectOK
  <2>2. InTime(now) /\ tick' = now /\ tm' = y
        /\ UNCHANGED <<calling, node, current_tick, firing, next_timeout>>
    BY DEF rt_tick_increase
  <2>3. \/ tt' = tt
        \/ tt' = "check" /\ TimerThreadSuspended
        \/ tt' = "lost" /\ tt = "unlink"
    BY DEF rt_tick_increase, TimerThreadSuspended, Tears
  <2>4. wake_tick' = 0 \/ wake_tick' = wake_tick
    BY DEF rt_tick_increase
  <2> QED BY <2>1, <2>2, <2>3, <2>4
<1>1. Checked(y, {}, None)
  <2>1. tick \in Ticks
    BY DEF TimersInv, TimerTypeOK
  <2> QED BY <1>0, <2>1, BeforeTick, FireAllIs
<1>2. TimersOK(y) /\ Near(y, b)
  BY <1>1 DEF Checked
<1>3. now \in Ticks /\ tick \in Ticks
  <2>1. tick \in Ticks /\ TickMax + 1 \in Nat \ {0}
    BY TimerAssumption DEF TimersInv, TimerTypeOK
  <2>2. tick + 1 \in Nat
    BY <2>1 DEF Ticks
  <2>3. (tick + 1) % (TickMax + 1) \in 0 .. (TickMax + 1) - 1
    BY <2>1, <2>2, Z3
  <2> QED BY <2>1, <2>3, TimerAssumption DEF Plus, Ticks
<1>4. ASSUME NEW t \in Timers, Linked(y, t)
      PROVE  Minus(y.timeout[t], b) >= 1 /\ (t \in Hard => ~Due(y, t, now))
  <2>1. CASE t \in Soft
    BY <1>1, <1>4, <2>1, TimerAssumption DEF Checked
  <2>2. CASE t \in Hard
    <3>1. ~Due(y, t, now)
      BY <1>1, <1>4, <2>2 DEF Checked, DueHard
    <3>2. MaxLate \in Nat /\ MaxLate + 2 < Half /\ b \in Ticks
      BY <1>2, <1>3, TimeIs, TickIs
    <3> PICK x : x = y.timeout[t]
      OBVIOUS
    <3>3. x \in Ticks /\ Minus(x, b) < Half
      BY <1>2, <1>4 DEF TimersOK, Near
    <3>4. ~(Minus(now, x) < Half)
      BY <3>1 DEF Due
    <3>5. ~(Minus(x, b) <= MaxLate + 1) /\ Minus(x, b) \in Ticks
      BY <1>3, <3>2, <3>3, <3>4, DueAtNext
    <3> HIDE DEF b, now
    <3> QED BY <3>1, <3>2, <3>5 DEF Ticks
  <2> QED BY <2>1, <2>2 DEF Timers
<1>5. ASSUME NEW t \in Timers, Minus(y.timeout[t], b) < Half, Minus(y.timeout[t], b) >= 1
      PROVE  NearTime(y, t, Base(now))
  <2>1. MaxLate \in Nat /\ MaxLate + 2 < Half /\ b \in Ticks /\ Base(now) = Plus(b, 1)
    BY <1>2, <1>3, TimeIs, TickIs
  <2> PICK x : x = y.timeout[t]
    OBVIOUS
  <2>2. x \in Ticks
    BY <1>2 DEF TimersOK
  <2>3. Minus(x, b) \in Ticks /\ TickMax >= 1
    BY <2>1, <2>2, MinusIs, HalfIs
  <2> HIDE DEF b, now
  <2>4. Minus(x, Plus(b, 1)) = Minus(x, b) - 1
    BY <1>5, <2>1, <2>2, <2>3, NextBase
  <2> QED BY <1>5, <2>1, <2>3, <2>4, HalfIs DEF NearTime, Ticks
<1>6. ASSUME NEW c \in Caller, doing[c] = "insert"
      PROVE  NearTime(y, arg[c], Base(now))
  <2>1. arg[c] \in Timers /\ Pending(c) /\ y.timeout[arg[c]] = tm.timeout[arg[c]]
    BY <1>1, <1>6 DEF TimersInv, CallsOK, Checked, Pending
  <2>2. Minus(y.timeout[arg[c]], b) >= 1 /\ Minus(y.timeout[arg[c]], b) < Half - 1
    BY <1>0, <1>6, <2>1, BeforeTick DEF NearTime
  <2>3. Minus(y.timeout[arg[c]], b) < Half
    <3>1. b \in Ticks /\ y.timeout[arg[c]] \in Ticks
      BY <1>2, <1>3, <2>1, TimeIs, TickIs DEF TimersOK
    <3>2. Minus(y.timeout[arg[c]], b) \in Ticks
      BY <3>1, MinusIs
    <3> HIDE DEF b
    <3> QED BY <2>2, <3>2, HalfIs DEF Ticks
  <2> HIDE DEF b, now
  <2> QED BY <1>5, <2>1, <2>2, <2>3
<1> HIDE DEF b, now
<1>7. TimesNear'
  <2>1. \A t \in Timers : Linked(y, t) => NearTime(y, t, Base(now))
    BY <1>2, <1>4, <1>5 DEF Near
  <2> QED BY <1>0, <1>6, <2>1 DEF TimesNear, NearTime, Base, calling
<1>8. TimerTypeOK' /\ FiringOK'
  <2>1. wake_tick' \in Ticks /\ 0 \in Ticks
    BY <1>0, TimerAssumption DEF TimersInv, TimerTypeOK, Ticks
  <2>2. tt' = tt \/ tt' \in {"check", "lost"}
    BY <1>0
  <2>3. FiringOK'
    BY <1>0 DEF TimersInv, FiringOK, FiringPlace, TimerThreadSuspended, Pending, calling
  <2> QED BY <1>0, <1>2, <1>3, <2>1, <2>2, <2>3, TmTyped DEF TimersInv, TimerTypeOK, calling
<1>9. CallsOK'
  BY <1>0, <1>1 DEF TimersInv, CallsOK, Checked, Pending, calling
<1>10. AllAccounted'
  <2> SUFFICES ASSUME NEW u \in y.active PROVE Accounted(y, u)'
    BY <1>0 DEF AllAccounted
  <2>1. u # None
    BY <1>2, TimerAssumption DEF TimersOK
  <2>2. Accounted(y, u)
    BY <1>1, <2>1 DEF Checked
  <2> QED BY <1>0, <2>2 DEF Accounted, calling
<1>11. TimersInv'
  <2>1. HardKept(tm, None)'
    BY <1>0, <1>1 DEF Checked, HardKept, Stopping, calling
  <2> QED BY <1>0, <1>2, <1>7, <1>8, <1>9, <1>10, <2>1 DEF TimersInv
<1>12. ASSUME NEW t \in ToSet(y.hard)
       PROVE  Minus(now, y.timeout[t]) >= Half
  <2>1. t \in Hard /\ t \in Timers /\ Linked(y, t)
    <3>1. y.hard \in Seq(Hard)
      BY <1>2 DEF TimersOK
    <3>2. PICK i \in 1 .. Len(y.hard) : y.hard[i] = t
      BY <3>1 DEF ToSet
    <3>3. t \in Hard /\ t \notin Soft
      BY <3>1, <3>2, TimerAssumption
    <3> QED BY <3>2, <3>3 DEF Timers, Linked, ListOf, Contains
  <2>2. ~Due(y, t, now)
    BY <1>4, <2>1
  <2>3. Minus(now, y.timeout[t]) \in Ticks
    BY <1>2, <1>3, <2>1, MinusIs DEF TimersOK
  <2> QED BY <2>2, <2>3, HalfIs DEF Due, Ticks
<1> QED BY <1>0, <1>11, <1>12

LEMMA TimerInitInv == TimerInit => TimersInv
<1> SUFFICES ASSUME TimerInit PROVE TimersInv
  OBVIOUS
<1>1. /\ tick \in Ticks /\ 0 \in Ticks
      /\ tm \in [hard : {<<>>}, soft : {<<>>}, active : {{}},
                 timeout : {[t \in Timers |-> 0]}, init : InitTicks]
      /\ doing = [c \in Caller |-> "none"] /\ arg = [c \in Caller |-> None]
      /\ tt = "read" /\ node = None /\ current_tick = 0 /\ firing = None
      /\ next_timeout = 0 /\ wake_tick = 0
  BY TimerAssumption DEF TimerInit, Ticks
<1>2. /\ tm.hard = <<>> /\ tm.soft = <<>> /\ tm.active = {}
      /\ tm.timeout \in [Timers -> Ticks] /\ tm.init \in InitTicks
  BY <1>1
<1>3. /\ <<>> \in Seq(Hard) /\ <<>> \in Seq(Soft) /\ Len(<<>>) = 0
  OBVIOUS
<1>4. tm \in [hard : Seq(Hard), soft : Seq(Soft), active : SUBSET Timers,
              timeout : [Timers -> Ticks], init : InitTicks]
  BY <1>1, <1>3
<1>5. ListSorted(tm, <<>>)
  <2>1. \A x, y : ~Before(<<>>, x, y)
    BY <1>3 DEF Before
  <2>2. IsInjective(<<>>)
    BY <1>3 DEF IsInjective
  <2> QED BY <2>1, <2>2 DEF ListSorted
<1>6. \A t : ~Linked(tm, t)
  BY <1>2, <1>3 DEF Linked, ListOf, Contains
<1>7. TimerTypeOK /\ TimersOK(tm)
  BY <1>1, <1>2, <1>4, <1>5 DEF TimerTypeOK, TimersOK
<1>8. CallsOK /\ FiringOK /\ TimesNear /\ AllAccounted /\ HardKept(tm, None)
  BY <1>1, <1>2, <1>6 DEF CallsOK, Pending, FiringOK, FiringPlace, TimesNear, AllAccounted,
                          HardKept, Stopping
<1> QED BY <1>7, <1>8 DEF TimersInv

(* One step of the system. *)
LEMMA TimerStep ==
    ASSUME TimersInv, [TimerNext]_timerVars
    PROVE  /\ TimersInv'
           /\ tick' # tick =>
                 \A t \in ToSet(tm'.hard) : Minus(tick', tm'.timeout[t]) >= Half
<1>1. ASSUME NEW c \in Caller, NEW t \in Timers,
             \/ StartRemoves(c, t)
             \/ StopChecks(c, t)
             \/ \E d \in Times[t] : rt_timer_control(c, t, d)
      PROVE  TimersInv' /\ tick' = tick
  <2>1. CASE StartRemoves(c, t)
    BY <2>1, StepStartRemoves DEF StartRemoves
  <2>2. CASE StopChecks(c, t)
    BY <2>2, StepStopChecks DEF StopChecks
  <2>3. ASSUME NEW d \in Times[t], rt_timer_control(c, t, d)
        PROVE  TimersInv' /\ tick' = tick
    BY <2>3, StepControl DEF rt_timer_control
  <2> QED BY <1>1, <2>1, <2>2, <2>3
<1>2. ASSUME NEW c \in Caller,
             \/ StartComputes(c) \/ StartInserts(c) \/ StartWakes(c)
             \/ StopRemoves(c) \/ StopUnflags(c)
      PROVE  TimersInv' /\ tick' = tick
  <2>1. CASE StartComputes(c)
    BY <2>1, StepStartComputes DEF StartComputes
  <2>2. CASE StartInserts(c)
    BY <2>2, StepStartInserts DEF StartInserts
  <2>3. CASE StartWakes(c)
    BY <2>3, StepStartWakes DEF StartWakes
  <2>4. CASE StopUnflags(c)
    BY <2>4, StepStopUnflags DEF StopUnflags
  <2>5. CASE StopRemoves(c)
    BY <2>5, StepStopRemoves DEF StopRemoves
  <2> QED BY <1>2, <2>1, <2>2, <2>3, <2>4, <2>5
<1>3. CASE LooksOn
  BY <1>3, StepLooksOn
<1>4. CASE ScanGoesOn \/ ScanUnlinks
  BY <1>4, StepScanGoesOn, StepScanUnlinks DEF ScanGoesOn, ScanUnlinks
<1>5. CASE ScanUnflags \/ RestartUnflags \/ RestartRemoves
  BY <1>5, StepScanUnflags, StepRestartRemoves DEF ScanUnflags, RestartUnflags, RestartRemoves
<1>6. ASSUME NEW effect \in [Hard -> HardEffect], rt_tick_increase(effect)
      PROVE  /\ TimersInv'
             /\ \A t \in ToSet(tm'.hard) : Minus(tick', tm'.timeout[t]) >= Half
  BY <1>6, StepTick
<1>7. CASE Lost \/ UNCHANGED timerVars
  <2>1. /\ tick' = tick /\ tm' = tm /\ doing' = doing /\ arg' = arg /\ firing' = firing
        /\ tt' = tt /\ node' = node /\ current_tick' = current_tick
        /\ next_timeout' = next_timeout /\ wake_tick' = wake_tick
    BY <1>7 DEF Lost, timerVars, calling, thread
  <2>2. FiringOK' /\ TimerTypeOK'
    BY <2>1 DEF TimersInv, FiringOK, Pending, TimerTypeOK
  <2> QED BY <2>1, <2>2, TimersKept
<1> QED BY <1>1, <1>2, <1>3, <1>4, <1>5, <1>6, <1>7 DEF TimerNext, LooksOn

LEMMA TimerInvariant == TimerSpec => []TimersInv
<1>1. TimersInv /\ [TimerNext]_timerVars => TimersInv'
  BY TimerStep
<1> QED BY TimerInitInv, <1>1, PTL DEF TimerSpec

(* The timers keep their types: every thread and the interrupt find lists  *)
(* of timers, times and call states in the values timer.c gives them.      *)
THEOREM TimerTyped == TimerSpec => []TimerTypeOK
<1>1. TimersInv => TimerTypeOK
  BY DEF TimersInv
<1> QED BY TimerInvariant, <1>1, PTL

(* rt_timer_start keeps both lists sorted by the time that is left, however *)
(* ticks wrap and whatever comes between the computation of a time and the  *)
(* insertion of its timer, and no timer is in a list twice: the hard list   *)
(* always, the soft list until an interrupt has changed it in the middle of *)
(* an unlink of rt_soft_timer_check.                                        *)
THEOREM TimerListsSorted == TimerSpec => []ListsSorted
<1>1. TimersInv => ListsSorted
  <2> SUFFICES ASSUME TimersInv,
                      NEW l \in {tm.hard} \cup (IF tt = "lost" THEN {} ELSE {tm.soft})
               PROVE  /\ IsInjective(l)
                      /\ \A i, j \in 1 .. Len(l) :
                            i < j => Minus(tm.timeout[l[j]], tm.timeout[l[i]]) < Half
    BY DEF ListsSorted
  <2>1. ListSorted(tm, l)
    BY DEF TimersInv, TimersOK
  <2>2. ASSUME NEW i \in 1 .. Len(l), NEW j \in 1 .. Len(l), i < j
        PROVE  Before(l, l[i], l[j])
    BY <2>2 DEF Before
  <2> QED BY <2>1, <2>2 DEF ListSorted
<1> QED BY TimerInvariant, <1>1, PTL

(* No active timer is forgotten by the calls, the timer thread and the     *)
(* interrupt that take it out of its list and put it back; and every hard  *)
(* timer in the list can be stopped, when the calls on one timer do not    *)
(* overlap (NotInCall).                                                    *)
THEOREM TimerActiveAccounted == TimerSpec => []ActiveAccounted
<1>1. TimersInv => ActiveAccounted
  <2> SUFFICES ASSUME TimersInv PROVE ActiveAccounted
    OBVIOUS
  <2>1. ASSUME NEW u \in ToSet(tm.hard)
        PROVE  u \in tm.active
    <3>1. tm.hard \in Seq(Hard)
      BY DEF TimersInv, TimersOK
    <3>2. PICK i \in 1 .. Len(tm.hard) : tm.hard[i] = u
      BY <3>1 DEF ToSet
    <3>3. u \in Hard /\ u \notin Soft
      BY <3>1, <3>2, TimerAssumption
    <3>4. Linked(tm, u)
      BY <3>2, <3>3 DEF Linked, ListOf, Contains
    <3> QED BY <3>3, <3>4 DEF TimersInv, HardKept
  <2>2. \A u \in tm.active : Accounted(tm, u)
    BY DEF TimersInv, AllAccounted
  <2> QED BY <2>1, <2>2 DEF Accounted, ActiveAccounted
<1> QED BY TimerInvariant, <1>1, PTL

(* rt_timer_check leaves no hard timer that is due, whatever its timeout   *)
(* functions start and stop.                                               *)
THEOREM TimerHardOnTime == TimerSpec => HardOnTime
<1>1. TimersInv /\ [TimerNext]_timerVars
         => [tick' # tick =>
                \A t \in ToSet(tm'.hard) : Minus(tick', tm'.timeout[t]) >= Half]_timerVars
  BY TimerStep
<1> QED BY TimerInvariant, <1>1, PTL DEF TimerSpec, HardOnTime
=============================================================================
