---------------------------- MODULE MutexProofs -----------------------------
(***************************************************************************)
(* The mutexes of Mutex for any threads, mutexes, priorities and programs: *)
(* exclusion through time-outs, recursion, hand-over and detach, and the   *)
(* inheritance of priorities with its end.  Below, k is the kernel of the  *)
(* whole system and kk any kernel.                                         *)
(***************************************************************************)
EXTENDS Mutex, KernelProofs

(* The threads in their calls: who has the CPU without running is on its   *)
(* way from its suspension to rt_schedule, and idle makes no calls.        *)
ThreadsInv ==
    /\ Sound(k)
    /\ pc[Idle] = "user"
    /\ k.stat[k.cur] # "running" => pc[k.cur] \in {"sched", "sleep"}
    /\ \A t \in Thread :
          k.stat[t] = "suspend" => pc[t] \in {"sched", "woken", "sleep", "slept"}

(* A thread in the list of a mutex waits for that mutex and was not told   *)
(* of an error; one that is suspended in its take is in the list.          *)
WaitInv ==
    /\ \A t \in Thread, m \in Mutexes :
          Waits(t, m) => wants[t] = m /\ ~Failed(t) /\ pc[t] \in {"sched", "woken"}
    /\ \A t \in Thread, m \in Mutexes :
          k.stat[t] = "suspend" /\ pc[t] \in {"sched", "woken"} /\ wants[t] = m
              => Waits(t, m)

(* The original priority of a mutex that has an owner is one. *)
OriginalKnown == \A m \in Mutexes : owner[m] # NoOwner => original[m] \in Priority

OwnersInv == FreeOrOwned /\ MutualExclusion /\ OriginalKnown

MutexInv == TypeOK /\ ThreadsInv /\ WaitInv /\ OwnersInv

LEMMA InvInvariants == MutexInv => KernelConsistent /\ TypeOK
BY DEF MutexInv, ThreadsInv, Sound, KernelConsistent

LEMMA InitMutex == Init => MutexInv
<1> SUFFICES ASSUME Init PROVE MutexInv
  OBVIOUS
<1> USE KernelAssumption, ThreadsAssumption, MutexAssumption
<1> DEFINE k0 == KernelStart(InitThread, InitPriority, InitReady)
<1>1. /\ k0.cur = InitThread /\ k0.lock = 0
      /\ k0.table = { p \in Priority : InitReady[p] # <<>> }
      /\ k0.group = { p \div GroupSize : p \in { q \in Priority : InitReady[q] # <<>> } }
      /\ k0.list = [h \in ListHead |-> IF h \in Priority THEN InitReady[h] ELSE <<>>]
      /\ k0.prio = InitPriority
      /\ k0.err = [t \in Thread |-> "ok"]
      /\ k0.tmr = [t \in Thread |-> FALSE]
      /\ k0.stat = [t \in Thread |->
                      IF t = InitThread THEN "running"
                      ELSE IF Contains(InitReady[InitPriority[t]], t)
                           THEN "ready" ELSE "init"]
  BY DEF KernelStart
<1>2. k0 \in KernelState
  <2>1. k0.list \in [ListHead -> Seq(Thread)]
    BY <1>1
  <2>2. k0.group \in SUBSET Group
    BY <1>1 DEF Group
  <2>3. k0.stat \in [Thread -> Stat] /\ k0.err \in [Thread -> Error]
    BY <1>1 DEF Stat, Error
  <2> QED BY <1>1, <2>1, <2>2, <2>3 DEF KernelState, KernelStart
<1>3. CurrentOK(k0) /\ KernelOK(k0)
  BY <1>1 DEF CurrentOK
<1>4. \A m \in Mutexes : k0.list[m] = <<>>
  BY <1>1, QueuesAreNotPriorities DEF ListHead
<1>5. k0.stat[Idle] \in {"ready", "running"} /\ k0.stat[k0.cur] = "running"
      /\ \A t \in Thread : k0.stat[t] # "suspend"
  BY <1>1
<1>6. k = k0 /\ pc = [t \in Thread |-> "user"]
  BY DEF Init, ThreadsInit
<1> HIDE DEF k0
<1>7. \A t \in Thread, m \in Mutexes : ~Waits(t, m)
  BY <1>4, <1>6 DEF Waits, Contains
<1>8. ThreadsInv
  BY <1>1, <1>2, <1>3, <1>5, <1>6 DEF ThreadsInv, Sound, Runnable
<1>9. WaitInv
  BY <1>5, <1>6, <1>7 DEF WaitInv
<1>10. TypeOK
  <2>1. AnyMutex \in Mutexes
    BY DEF AnyMutex
  <2>2. wants \in [Thread -> Mutexes]
    BY <2>1 DEF Init
  <2>3. pc \in [Thread -> PC]
    BY <1>6 DEF PC
  <2>4. /\ value \in [Mutexes -> {0, 1}] /\ owner \in [Mutexes -> Thread \cup {NoOwner}]
        /\ original \in [Mutexes -> Priority \cup {PriorityMax}]
        /\ hold \in [Mutexes -> Nat] /\ alive \subseteq Mutexes
        /\ held \in [Thread -> [Mutexes -> Nat]] /\ nested \subseteq Thread
    BY DEF Init
  <2> QED BY <1>2, <1>6, <2>2, <2>3, <2>4 DEF TypeOK
<1>11. FreeOrOwned
  BY <1>4, <1>6, <1>7 DEF FreeOrOwned, Init
<1>12. MutualExclusion
  <2>1. \A t \in Thread, m \in Mutexes :
           held[t][m] = 0 /\ owner[m] # t /\ pc[t] = "user"
    BY <1>6 DEF Init
  <2> QED BY <2>1 DEF MutualExclusion, HandedTo
<1>13. OriginalKnown
  BY DEF OriginalKnown, Init
<1> QED BY <1>8, <1>9, <1>10, <1>11, <1>12, <1>13 DEF MutexInv, OwnersInv

-----------------------------------------------------------------------------
(* Whoever makes a call runs, is not idle and waits nowhere. *)
LEMMA CallerRuns ==
    ASSUME MutexInv, NEW t \in Thread, k.cur = t, pc[t] \notin {"sched", "sleep"}
    PROVE  k.stat[t] = "running" /\ \A m \in Mutexes : ~Waits(t, m)
<1>1. k.stat[t] = "running"
  BY DEF MutexInv, ThreadsInv
<1> QED BY <1>1, MutexAssumption
        DEF MutexInv, ThreadsInv, Sound, KernelOK, WaitersSuspended, Waits

LEMMA IdleMakesNoCall ==
    ASSUME NEW api, Calls(Idle, api)
    PROVE  FALSE
BY ThreadsAssumption DEF Calls

(* What every step shows of the next state: the mutexes and the program    *)
(* counters move on as they do, and the kernel goes from k to k'.          *)
LEMMA SameOwners ==
    ASSUME MutexInv, UNCHANGED <<mutex, held>>, Sound(k'),
           \A m \in Mutexes, t \in Thread : Waits(t, m)' => Waits(t, m),
           \A m \in Mutexes, t \in Thread : HandedTo(t, m)' <=> HandedTo(t, m)
    PROVE  OwnersInv'
<1> USE MutexAssumption
<1>1. FreeOrOwned'
  <2>1. ASSUME NEW m \in Mutexes, k.list[m] = <<>> PROVE k'.list[m] = <<>>
    <3>1. k.list[m] \in Seq(Thread) /\ k'.list[m] \in Seq(Thread)
      BY DEF MutexInv, TypeOK, Sound, KernelState, ListHead
    <3> QED BY <2>1, <3>1, EmptyList DEF Waits
  <2> QED BY <2>1 DEF MutexInv, OwnersInv, TypeOK, FreeOrOwned, mutex
<1>2. MutualExclusion'
  BY DEF MutexInv, OwnersInv, MutualExclusion, mutex
<1>3. OriginalKnown'
  BY DEF MutexInv, OwnersInv, OriginalKnown, mutex
<1> QED BY <1>1, <1>2, <1>3 DEF OwnersInv

(* Most steps change no owner and no priority, and take at most one thread *)
(* off each list of waiters.                                               *)
Quiet ==
    /\ UNCHANGED <<owner, original, nested>> /\ k'.prio = k.prio
    /\ \A m \in Mutexes :
          \/ k'.list[m] = k.list[m]
          \/ \E u \in Thread : k'.list[m] = RemoveFirst(k.list[m], u)

(* rt_schedule, from a call or at the end of a slice: a thread that goes   *)
(* from sched to woken is still in its take.                               *)
LEMMA StepSchedule ==
    ASSUME MutexInv, k' = rt_schedule(k), UNCHANGED <<mutex, wants, held, nested>>,
           \/ UNCHANGED pc
           \/ \E t \in Thread :
                 /\ k.cur = t
                 /\ \/ pc[t] = "sched" /\ Goto(t, "woken")
                    \/ pc[t] = "sleep" /\ Goto(t, "slept")
                    \/ pc[t] = "released" /\ Goto(t, "user")
    PROVE  MutexInv' /\ Quiet
<1> USE MutexAssumption, KernelAssumption
<1>1. /\ Sound(k') /\ SameQueues(k', k)
      /\ k'.prio = k.prio /\ k'.err = k.err
      /\ k'.stat[k'.cur] = "running"
      /\ \A u \in Thread : k'.stat[u] = "suspend" <=> k.stat[u] = "suspend"
  BY SoundSchedule DEF MutexInv, ThreadsInv
<1>2. /\ pc' \in [Thread -> PC]
      /\ \A u \in Thread :
            \/ pc'[u] = pc[u]
            \/ pc[u] = "sched" /\ pc'[u] = "woken"
            \/ pc[u] = "sleep" /\ pc'[u] = "slept"
            \/ pc[u] = "released" /\ pc'[u] = "user"
  BY DEF MutexInv, TypeOK, Goto, PC
<1>3. \A u \in Thread, m \in Mutexes : Waits(u, m)' <=> Waits(u, m)
  BY <1>1 DEF SameQueues, Waits
<1>4. \A u \in Thread : Failed(u)' <=> Failed(u)
  BY <1>1 DEF Failed
<1>5. \A u \in Thread : pc'[u] \in {"sched", "woken"} <=> pc[u] \in {"sched", "woken"}
  BY <1>2
<1>6. TypeOK'
  BY <1>1, <1>2 DEF MutexInv, TypeOK, Sound, mutex
<1>7. ThreadsInv'
  BY <1>1, <1>2 DEF MutexInv, ThreadsInv
<1>8. WaitInv'
  BY <1>1, <1>3, <1>4, <1>5 DEF MutexInv, WaitInv
<1>9. OwnersInv'
  BY <1>1, <1>3, <1>4, <1>5, SameOwners DEF HandedTo
<1>q. Quiet
  BY <1>1 DEF Quiet, SameQueues, mutex
<1> QED BY <1>q, <1>6, <1>7, <1>8, <1>9 DEF MutexInv

(* The time-out of a waiting thread, in its take or asleep. *)
LEMMA StepTimeout ==
    ASSUME MutexInv, NEW u \in Thread, Timeout(u)
    PROVE  MutexInv' /\ Quiet
<1> USE MutexAssumption, KernelAssumption
<1>1. k.stat[u] = "suspend" /\ k' = rt_thread_timeout(k, u)
      /\ UNCHANGED <<pc, mutex, wants, held, nested>>
  BY DEF MutexInv, ThreadsInv, Sound, KernelOK, WaitersSuspended, Timeout, TimerFires, history
<1>2. /\ Sound(k')
      /\ k'.prio = k.prio
      /\ \A v \in Thread : k'.err[v] = IF v = u THEN "timeout" ELSE k.err[v]
      /\ k'.stat[k'.cur] = "running"
      /\ \A v \in Thread : k'.stat[v] = "suspend" <=> k.stat[v] = "suspend" /\ v # u
      /\ \A q \in Mutexes : k'.list[q] = RemoveFirst(k.list[q], u)
  <2>1. Sound(k)
    BY DEF MutexInv, ThreadsInv
  <2> QED BY <1>1, <2>1, SoundTimeout
<1>3. \A v \in Thread, m \in Mutexes : Waits(v, m)' <=> Waits(v, m) /\ v # u
  <2>1. \A m \in Mutexes : k.list[m] \in Seq(Thread) /\ IsInjective(k.list[m])
    BY DEF MutexInv, ThreadsInv, Sound, KernelState, KernelOK, LinkedOnce, ListHead
  <2> QED BY <1>2, <2>1, RemoveFromList DEF Waits
<1>4. Failed(u)' /\ \A v \in Thread : v # u => (Failed(v)' <=> Failed(v))
  BY <1>2 DEF Failed, MutexInv, ThreadsInv, Sound, KernelState
<1>5. \A m \in Mutexes, v \in Thread : HandedTo(v, m)' <=> HandedTo(v, m)
  <2>1. \A m \in Mutexes : ~HandedTo(u, m)
    BY <1>1 DEF MutexInv, WaitInv, HandedTo
  <2>2. \A m \in Mutexes : ~HandedTo(u, m)'
    BY <1>4 DEF HandedTo
  <2>3. ASSUME NEW m \in Mutexes, NEW v \in Thread, v # u
        PROVE  HandedTo(v, m)' <=> HandedTo(v, m)
    BY <1>1, <1>3, <1>4, <2>3 DEF HandedTo
  <2> QED BY <2>1, <2>2, <2>3
<1>6. TypeOK'
  BY <1>1, <1>2 DEF MutexInv, TypeOK, Sound, mutex
<1>7. ThreadsInv'
  BY <1>1, <1>2 DEF MutexInv, ThreadsInv
<1>8. WaitInv'
  BY <1>1, <1>2, <1>3, <1>4 DEF MutexInv, WaitInv
<1>9. OwnersInv'
  BY <1>1, <1>2, <1>3, <1>5, SameOwners
<1>q. Quiet
  BY <1>1, <1>2 DEF Quiet, mutex
<1> QED BY <1>q, <1>6, <1>7, <1>8, <1>9 DEF MutexInv

(* A step of the running thread t that writes to its thread->error and     *)
(* stays in no list.                                                       *)
LEMMA ErrorEffect ==
    ASSUME MutexInv, NEW t \in Thread, k.cur = t, pc[t] \notin {"sched", "sleep"},
           NEW e \in Error, k' = [k EXCEPT !.err[t] = e]
    PROVE  /\ Sound(k') /\ k'.cur = t /\ k'.stat = k.stat /\ k'.prio = k.prio
           /\ k'.list = k.list
           /\ \A u \in Thread, m \in Mutexes : Waits(u, m)' <=> Waits(u, m)
           /\ \A u \in Thread \ {t} : Failed(u)' <=> Failed(u)
<1>1. /\ Sound(k') /\ k'.cur = k.cur /\ k'.stat = k.stat /\ k'.prio = k.prio
      /\ k'.list = k.list /\ k'.err = [k.err EXCEPT ![t] = e]
  BY SoundError DEF MutexInv, ThreadsInv, SameCurrent
<1>2. \A u \in Thread, m \in Mutexes : Waits(u, m)' <=> Waits(u, m)
  BY <1>1 DEF Waits
<1>3. k.err \in [Thread -> Error]
  BY DEF MutexInv, ThreadsInv, Sound, KernelState
<1>4. \A u \in Thread \ {t} : Failed(u)' <=> Failed(u)
  BY <1>1, <1>3 DEF Failed
<1> QED BY <1>1, <1>2, <1>4

(* The same, when the caller goes nowhere. *)
LEMMA StepError ==
    ASSUME MutexInv, NEW t \in Thread, Running(t, "user") \/ Running(t, "slept"),
           NEW e \in Error, k' = [k EXCEPT !.err[t] = e],
           UNCHANGED pc \/ Goto(t, "user"), UNCHANGED <<mutex, wants, held, nested>>
    PROVE  MutexInv' /\ Quiet
<1> USE MutexAssumption, KernelAssumption
<1>0. k.cur = t /\ pc[t] \in {"user", "slept"}
  BY DEF Running
<1>1. /\ Sound(k') /\ k'.cur = t /\ k'.stat = k.stat /\ k'.prio = k.prio
      /\ k'.list = k.list
      /\ \A u \in Thread, m \in Mutexes : Waits(u, m)' <=> Waits(u, m)
      /\ \A u \in Thread \ {t} : Failed(u)' <=> Failed(u)
  BY <1>0, ErrorEffect
<1>2. k.stat[t] = "running" /\ \A m \in Mutexes : ~Waits(t, m)
  BY <1>0, CallerRuns
<1>3. /\ pc' \in [Thread -> PC]
      /\ \A u \in Thread \ {t} : pc'[u] = pc[u]
      /\ pc'[t] \in {"user", "slept"}
  BY <1>0, SMTT(20) DEF MutexInv, TypeOK, Goto, PC
<1>4. \A m \in Mutexes, u \in Thread : HandedTo(u, m)' <=> HandedTo(u, m)
  <2>1. \A m \in Mutexes : ~HandedTo(t, m) /\ ~HandedTo(t, m)'
    BY <1>0, <1>3 DEF HandedTo
  <2>2. ASSUME NEW m \in Mutexes, NEW u \in Thread, u # t
        PROVE  HandedTo(u, m)' <=> HandedTo(u, m)
    BY <1>1, <1>3, <2>2 DEF HandedTo
  <2> QED BY <2>1, <2>2
<1>5. TypeOK'
  BY <1>1, <1>3 DEF MutexInv, TypeOK, Sound, mutex
<1>6. ThreadsInv'
  <2>1. pc'[Idle] = "user"
    BY <1>0, <1>3 DEF MutexInv, ThreadsInv, Goto, TypeOK
  <2> QED BY <1>1, <1>2, <1>3, <2>1 DEF MutexInv, ThreadsInv
<1>7. WaitInv'
  BY <1>1, <1>2, <1>3 DEF MutexInv, WaitInv
<1>8. OwnersInv'
  BY <1>1, <1>4, SameOwners
<1>q. Quiet
  BY <1>1 DEF Quiet, mutex
<1> QED BY <1>q, <1>5, <1>6, <1>7, <1>8 DEF MutexInv

(* rt_thread_sleep suspends the caller, in no list, and starts its timer. *)
LEMMA StepFallsAsleep ==
    ASSUME MutexInv, NEW t \in Thread, t # Idle, Running(t, "user"),
           k' = StartTimer(rt_thread_suspend(k, t), t), Goto(t, "sleep"),
           UNCHANGED <<mutex, wants, held, nested>>
    PROVE  MutexInv' /\ Quiet
<1> USE MutexAssumption, KernelAssumption
<1> DEFINE k1 == rt_thread_suspend(k, t)
<1>0. k.cur = t /\ pc[t] = "user" /\ Sound(k)
  BY DEF Running, MutexInv, ThreadsInv
<1>1. k.stat[t] = "running" /\ \A m \in Mutexes : ~Waits(t, m)
  BY <1>0, CallerRuns
<1>2. /\ k1 \in KernelState /\ KernelOK(k1) /\ CurrentOK(k1) /\ SameQueues(k1, k)
      /\ k1.cur = k.cur /\ k1.lock = k.lock /\ k1.prio = k.prio /\ k1.err = k.err
      /\ k1.stat = [k.stat EXCEPT ![t] = "suspend"]
  BY <1>0, <1>1, SuspendThread DEF Sound, Runnable
<1> HIDE DEF k1
<1>3. /\ k1.stat[t] = "suspend"
      /\ \A u \in Thread \ {t} : k1.stat[u] = k.stat[u]
  BY <1>0, <1>2 DEF Sound, KernelState
<1>4. Sound(k1)
  BY <1>0, <1>2, <1>3 DEF Sound
<1>5. k' = StartTimer(k1, t)
  BY DEF k1
<1>6. /\ Sound(k') /\ k'.cur = k.cur /\ k'.prio = k.prio
      /\ k'.stat = k1.stat /\ k'.list = k1.list /\ k'.err = k.err
  <2>1. LET r == StartTimer(k1, t) IN
        /\ Sound(r) /\ SameCurrent(r, k1)
        /\ r.prio = k1.prio /\ r.stat = k1.stat /\ r.list = k1.list /\ r.err = k1.err
    BY <1>3, <1>4, SoundTimer
  <2> QED BY <1>2, <1>5, <2>1 DEF SameCurrent
<1>7. /\ pc' \in [Thread -> PC] /\ pc'[t] = "sleep"
      /\ \A u \in Thread \ {t} : pc'[u] = pc[u]
  BY DEF MutexInv, TypeOK, Goto, PC
<1>8. \A u \in Thread, m \in Mutexes : Waits(u, m)' <=> Waits(u, m)
  BY <1>2, <1>6 DEF SameQueues, Waits
<1>9. \A u \in Thread : Failed(u)' <=> Failed(u)
  BY <1>6 DEF Failed
<1>10. \A m \in Mutexes, u \in Thread : HandedTo(u, m)' <=> HandedTo(u, m)
  <2>1. \A m \in Mutexes : ~HandedTo(t, m) /\ ~HandedTo(t, m)'
    BY <1>0, <1>7 DEF HandedTo
  <2>2. ASSUME NEW m \in Mutexes, NEW u \in Thread, u # t
        PROVE  HandedTo(u, m)' <=> HandedTo(u, m)
    BY <1>7, <1>8, <1>9, <2>2 DEF HandedTo
  <2> QED BY <2>1, <2>2
<1>11. TypeOK'
  BY <1>6, <1>7 DEF MutexInv, TypeOK, Sound, mutex
<1>12. ThreadsInv'
  <2>1. pc'[Idle] = "user" /\ pc'[k'.cur] = "sleep"
    BY <1>0, <1>6, <1>7 DEF MutexInv, ThreadsInv
  <2>2. ASSUME NEW u \in Thread, k'.stat[u] = "suspend"
        PROVE  pc'[u] \in {"sched", "woken", "sleep", "slept"}
    BY <1>3, <1>6, <1>7, <2>2 DEF MutexInv, ThreadsInv
  <2> QED BY <1>6, <2>1, <2>2 DEF ThreadsInv
<1>13. WaitInv'
  <2>1. ASSUME NEW u \in Thread, NEW m \in Mutexes, Waits(u, m)'
        PROVE  (wants[u] = m /\ ~Failed(u) /\ pc[u] \in {"sched", "woken"})'
    BY <1>1, <1>7, <1>8, <1>9, <2>1 DEF MutexInv, WaitInv
  <2>2. ASSUME NEW u \in Thread, NEW m \in Mutexes,
               (k.stat[u] = "suspend" /\ pc[u] \in {"sched", "woken"} /\ wants[u] = m)'
        PROVE  Waits(u, m)'
    BY <1>3, <1>6, <1>7, <1>8, <2>2 DEF MutexInv, WaitInv
  <2> QED BY <2>1, <2>2 DEF WaitInv
<1>14. OwnersInv'
  BY <1>6, <1>8, <1>10, SameOwners
<1>q. Quiet
  BY <1>2, <1>6 DEF Quiet, SameQueues, mutex
<1> QED BY <1>q, <1>11, <1>12, <1>13, <1>14 DEF MutexInv

(* A step of the running thread that leaves the kernel alone. *)
LEMMA PcEffect ==
    ASSUME MutexInv, NEW t \in Thread, k.cur = t, t # Idle, pc[t] \notin {"sched", "sleep"},
           UNCHANGED k, NEW at \in PC, pc' = pc \/ Goto(t, at),
           NEW m \in Mutexes, wants' = wants \/ wants' = [wants EXCEPT ![t] = m]
    PROVE  /\ Sound(k') /\ ThreadsInv' /\ WaitInv'
           /\ pc' \in [Thread -> PC] /\ wants' \in [Thread -> Mutexes]
           /\ \A u \in Thread, n \in Mutexes :
                 /\ Waits(u, n)' <=> Waits(u, n)
                 /\ u # t => (HandedTo(u, n)' <=> HandedTo(u, n))
<1>1. k.stat[t] = "running" /\ \A n \in Mutexes : ~Waits(t, n)
  BY CallerRuns
<1>2. /\ pc' \in [Thread -> PC] /\ wants' \in [Thread -> Mutexes]
      /\ \A u \in Thread \ {t} : pc'[u] = pc[u] /\ wants'[u] = wants[u]
  <2>1. pc \in [Thread -> PC] /\ wants \in [Thread -> Mutexes]
    BY DEF MutexInv, TypeOK
  <2>2. pc' \in [Thread -> PC] /\ \A u \in Thread \ {t} : pc'[u] = pc[u]
    BY <2>1 DEF Goto
  <2>3. wants' \in [Thread -> Mutexes] /\ \A u \in Thread \ {t} : wants'[u] = wants[u]
    BY <2>1
  <2> QED BY <2>2, <2>3
<1>3. \A u \in Thread, n \in Mutexes : (Waits(u, n)' <=> Waits(u, n)) /\ (Failed(u)' <=> Failed(u))
  BY DEF Waits, Failed
<1>4. ThreadsInv'
  BY <1>1, <1>2, KernelAssumption DEF MutexInv, ThreadsInv
<1>5. WaitInv'
  BY <1>1, <1>2, <1>3 DEF MutexInv, WaitInv
<1>6. \A u \in Thread \ {t}, n \in Mutexes : HandedTo(u, n)' <=> HandedTo(u, n)
  BY <1>2, <1>3 DEF HandedTo
<1> QED BY <1>2, <1>3, <1>4, <1>5, <1>6 DEF ThreadsInv

(* rt_mutex_take by the owner *)
LEMMA StepTakeAgain ==
    ASSUME MutexInv, NEW t \in Thread, NEW m \in Mutexes, TakeAgain(t, m)
    PROVE  MutexInv' /\ Quiet
<1> USE MutexAssumption, KernelAssumption
<1>0. /\ k.cur = t /\ pc[t] = "user" /\ owner[m] = t
      /\ k' = [k EXCEPT !.err[t] = "ok"]
      /\ hold' = [hold EXCEPT ![m] = @ + 1]
      /\ held' = [held EXCEPT ![t][m] = @ + 1]
      /\ UNCHANGED <<pc, value, owner, original, alive, wants, nested>>
  BY DEF TakeAgain, Calls, Running
<1>1. /\ Sound(k') /\ k'.cur = t /\ k'.stat = k.stat /\ k'.prio = k.prio
      /\ k'.list = k.list
      /\ \A u \in Thread, n \in Mutexes : Waits(u, n)' <=> Waits(u, n)
      /\ \A u \in Thread \ {t} : Failed(u)' <=> Failed(u)
  BY <1>0, ErrorEffect DEF Error
<1>2. k.stat[t] = "running" /\ \A n \in Mutexes : ~Waits(t, n)
  BY <1>0, CallerRuns
<1>3. TypeOK'
  BY <1>0, <1>1 DEF MutexInv, TypeOK, Sound
<1>4. ThreadsInv' /\ WaitInv'
  BY <1>0, <1>1, <1>2 DEF MutexInv, ThreadsInv, WaitInv
<1>5. FreeOrOwned' /\ OriginalKnown'
  <2>1. ASSUME NEW n \in Mutexes PROVE hold'[n] = IF n = m THEN hold[m] + 1 ELSE hold[n]
    BY <1>0 DEF MutexInv, TypeOK
  <2>2. value[m] = 0 /\ hold[m] \in Nat
    BY <1>0 DEF MutexInv, OwnersInv, FreeOrOwned, TypeOK
  <2>3. OriginalKnown'
    BY <1>0 DEF MutexInv, OwnersInv, OriginalKnown
  <2>4. ASSUME NEW n \in Mutexes
        PROVE  /\ value[n] = 1 <=> owner[n] = NoOwner
               /\ value[n] = 1 <=> hold'[n] = 0
               /\ value[n] = 1 => k'.list[n] = <<>>
               /\ owner[n] # NoOwner => ~Contains(k'.list[n], owner[n])
    <3>1. /\ value[n] = 1 <=> owner[n] = NoOwner
          /\ value[n] = 1 <=> hold[n] = 0
          /\ value[n] = 1 => k.list[n] = <<>>
          /\ owner[n] # NoOwner => ~Contains(k.list[n], owner[n])
      BY DEF MutexInv, OwnersInv, FreeOrOwned, Waits
    <3>2. CASE n = m
      BY <1>1, <2>1, <2>2, <3>1, <3>2
    <3>3. CASE n # m
      BY <1>1, <2>1, <3>1, <3>3
    <3> QED BY <3>2, <3>3
  <2>5. FreeOrOwned'
    BY <1>0, <2>4 DEF FreeOrOwned, Waits
  <2> QED BY <2>3, <2>5
<1>6. MutualExclusion'
  <2> SUFFICES ASSUME NEW n \in Mutexes, NEW u \in Thread
               PROVE  (held[u][n] + (IF HandedTo(u, n) THEN 1 ELSE 0)
                           = IF owner[n] = u THEN hold[n] ELSE 0)'
    BY DEF MutualExclusion
  <2>1. held[u][n] + (IF HandedTo(u, n) THEN 1 ELSE 0) = IF owner[n] = u THEN hold[n] ELSE 0
    BY DEF MutexInv, OwnersInv, MutualExclusion
  <2>2. HandedTo(u, n)' <=> HandedTo(u, n)
    BY <1>0, <1>1 DEF HandedTo
  <2>3. /\ held'[u][n] = IF u = t /\ n = m THEN held[u][n] + 1 ELSE held[u][n]
        /\ hold'[n] = IF n = m THEN hold[n] + 1 ELSE hold[n]
        /\ held[u][n] \in Nat /\ hold[n] \in Nat
    BY <1>0 DEF MutexInv, TypeOK
  <2>4. n = m /\ owner[n] = u <=> u = t /\ n = m
    BY <1>0
  <2> QED BY <1>0, <2>1, <2>2, <2>3, <2>4
<1>q. Quiet
  BY <1>0, <1>1 DEF Quiet
<1> QED BY <1>q, <1>3, <1>4, <1>5, <1>6 DEF MutexInv, OwnersInv

(* rt_mutex_take of a free mutex *)
LEMMA StepTakeFree ==
    ASSUME MutexInv, NEW t \in Thread, NEW m \in Mutexes, TakeFree(t, m)
    PROVE  MutexInv'
<1> USE MutexAssumption, KernelAssumption
<1>0. /\ k.cur = t /\ pc[t] = "user" /\ owner[m] # t /\ value[m] = 1
      /\ k' = [k EXCEPT !.err[t] = "ok"]
      /\ value' = [value EXCEPT ![m] = @ - 1]
      /\ owner' = [owner EXCEPT ![m] = t]
      /\ nested' \subseteq Thread
      /\ original' = [original EXCEPT ![m] = k.prio[t]]
      /\ hold' = [hold EXCEPT ![m] = @ + 1]
      /\ held' = [held EXCEPT ![t][m] = @ + 1]
      /\ UNCHANGED <<pc, alive, wants>>
  <2>1. value[m] \in {0, 1} /\ nested \subseteq Thread
    BY DEF MutexInv, TypeOK
  <2> QED BY <2>1 DEF TakeFree, BecomesOwner, Calls, Running
<1>1. /\ Sound(k') /\ k'.cur = t /\ k'.stat = k.stat /\ k'.prio = k.prio
      /\ k'.list = k.list
      /\ \A u \in Thread, n \in Mutexes : Waits(u, n)' <=> Waits(u, n)
      /\ \A u \in Thread \ {t} : Failed(u)' <=> Failed(u)
  BY <1>0, ErrorEffect DEF Error
<1>2. k.stat[t] = "running" /\ \A n \in Mutexes : ~Waits(t, n)
  BY <1>0, CallerRuns
<1>3. owner[m] = NoOwner /\ hold[m] = 0 /\ k.prio[t] \in Priority /\ k' \in KernelState
  BY <1>0, <1>1 DEF MutexInv, OwnersInv, FreeOrOwned, TypeOK, KernelState, Sound
<1>4. TypeOK'
  <2>1. value' \in [Mutexes -> {0, 1}] /\ owner' \in [Mutexes -> Thread \cup {NoOwner}]
    BY <1>0 DEF MutexInv, TypeOK
  <2>2. original' \in [Mutexes -> Priority \cup {PriorityMax}] /\ hold' \in [Mutexes -> Nat]
        /\ held' \in [Thread -> [Mutexes -> Nat]]
    BY <1>0, <1>3 DEF MutexInv, TypeOK
  <2> QED BY <1>0, <1>3, <2>1, <2>2 DEF MutexInv, TypeOK
<1>5. ThreadsInv' /\ WaitInv'
  BY <1>0, <1>1, <1>2 DEF MutexInv, ThreadsInv, WaitInv
<1>6. \A n \in Mutexes :
        /\ owner'[n] = IF n = m THEN t ELSE owner[n]
        /\ value'[n] = IF n = m THEN 0 ELSE value[n]
        /\ hold'[n] = IF n = m THEN 1 ELSE hold[n]
        /\ original'[n] = IF n = m THEN k.prio[t] ELSE original[n]
  BY <1>0, <1>3 DEF MutexInv, TypeOK
<1>7. FreeOrOwned' /\ OriginalKnown'
  <2>1. ASSUME NEW n \in Mutexes
        PROVE  /\ value[n] = 1 <=> owner[n] = NoOwner
               /\ value[n] = 1 <=> hold[n] = 0
               /\ value[n] = 1 => k.list[n] = <<>>
               /\ owner[n] # NoOwner => ~Contains(k.list[n], owner[n])
    BY DEF MutexInv, OwnersInv, FreeOrOwned, Waits
  <2>2. \A n \in Mutexes : ~Contains(k.list[n], t)
    BY <1>2 DEF Waits
  <2>3. ASSUME NEW n \in Mutexes
        PROVE  /\ value'[n] = 1 <=> owner'[n] = NoOwner
               /\ value'[n] = 1 <=> hold'[n] = 0
               /\ value'[n] = 1 => k'.list[n] = <<>>
               /\ owner'[n] # NoOwner => ~Contains(k'.list[n], owner'[n])
    <3>1. CASE n = m
      BY <1>0, <1>1, <1>3, <1>6, <2>1, <2>2, <3>1
    <3>2. CASE n # m
      BY <1>1, <1>6, <2>1, <3>2
    <3> QED BY <3>1, <3>2
  <2>4. FreeOrOwned'
    BY <2>3 DEF FreeOrOwned, Waits
  <2>5. OriginalKnown'
    BY <1>3, <1>6 DEF MutexInv, OwnersInv, OriginalKnown
  <2> QED BY <2>4, <2>5
<1>8. MutualExclusion'
  <2> SUFFICES ASSUME NEW n \in Mutexes, NEW u \in Thread
               PROVE  (held[u][n] + (IF HandedTo(u, n) THEN 1 ELSE 0)
                           = IF owner[n] = u THEN hold[n] ELSE 0)'
    BY DEF MutualExclusion
  <2>1. held[u][n] + (IF HandedTo(u, n) THEN 1 ELSE 0) = IF owner[n] = u THEN hold[n] ELSE 0
    BY DEF MutexInv, OwnersInv, MutualExclusion
  <2>2. HandedTo(u, n)' <=> HandedTo(u, n)
    BY <1>0, <1>1 DEF HandedTo
  <2>3. ~HandedTo(t, n)
    BY <1>0 DEF HandedTo
  <2>4. /\ held'[u][n] = IF u = t /\ n = m THEN held[u][n] + 1 ELSE held[u][n]
        /\ held[u][n] \in Nat /\ hold[n] \in Nat
    BY <1>0 DEF MutexInv, TypeOK
  <2>5. CASE n = m
    BY <1>3, <1>6, <2>1, <2>2, <2>3, <2>4, <2>5
  <2>6. CASE n # m
    BY <1>6, <2>1, <2>2, <2>4, <2>6
  <2> QED BY <2>5, <2>6
<1> QED BY <1>4, <1>5, <1>7, <1>8 DEF MutexInv, OwnersInv

(* What the invariant says of one mutex. *)
LEMMA OneMutex ==
    ASSUME MutexInv, NEW m \in Mutexes
    PROVE  /\ value[m] \in {0, 1} /\ owner[m] \in Thread \cup {NoOwner}
           /\ hold[m] \in Nat /\ original[m] \in Priority \cup {PriorityMax}
           /\ \A t \in Thread : held[t][m] \in Nat
           /\ value[m] = 1 <=> owner[m] = NoOwner
           /\ value[m] = 1 <=> hold[m] = 0
           /\ value[m] = 1 => k.list[m] = <<>>
           /\ owner[m] # NoOwner => ~Contains(k.list[m], owner[m])
           /\ owner[m] # NoOwner => original[m] \in Priority
           /\ \A t \in Thread : held[t][m] + (IF HandedTo(t, m) THEN 1 ELSE 0)
                                 = IF owner[m] = t THEN hold[m] ELSE 0
<1>1. /\ value[m] \in {0, 1} /\ owner[m] \in Thread \cup {NoOwner}
      /\ hold[m] \in Nat /\ original[m] \in Priority \cup {PriorityMax}
      /\ \A t \in Thread : held[t][m] \in Nat
  BY DEF MutexInv, TypeOK
<1> QED BY <1>1 DEF MutexInv, OwnersInv, FreeOrOwned, OriginalKnown, MutualExclusion, Waits

(* The same, to be shown of the next state. *)
LEMMA EveryMutex ==
    ASSUME \A m \in Mutexes :
              /\ value'[m] = 1 <=> owner'[m] = NoOwner
              /\ value'[m] = 1 <=> hold'[m] = 0
              /\ value'[m] = 1 => k'.list[m] = <<>>
              /\ owner'[m] # NoOwner => ~Contains(k'.list[m], owner'[m])
              /\ owner'[m] # NoOwner => original'[m] \in Priority
              /\ \A t \in Thread : held'[t][m] + (IF HandedTo(t, m)' THEN 1 ELSE 0)
                                    = IF owner'[m] = t THEN hold'[m] ELSE 0
    PROVE  OwnersInv'
<1>1. FreeOrOwned'
  BY DEF FreeOrOwned, Waits
<1>2. MutualExclusion' /\ OriginalKnown'
  BY DEF MutualExclusion, OriginalKnown
<1> QED BY <1>1, <1>2 DEF OwnersInv

(* rt_mutex_take returns *)
LEMMA StepTakeReturns ==
    ASSUME MutexInv, NEW t \in Thread, TakeReturns(t)
    PROVE  MutexInv' /\ Quiet
<1> USE MutexAssumption, KernelAssumption
<1>0. /\ k.cur = t /\ pc[t] = "woken"
      /\ held' = IF Failed(t) THEN held ELSE [held EXCEPT ![t][wants[t]] = @ + 1]
      /\ wants' = [wants EXCEPT ![t] = AnyMutex]
      /\ Goto(t, "user")
      /\ UNCHANGED <<k, value, owner, original, hold, alive, nested>>
  BY DEF TakeReturns, Running, mutex
<1>1. AnyMutex \in Mutexes /\ "user" \in PC /\ t # Idle /\ wants[t] \in Mutexes
  BY <1>0 DEF AnyMutex, PC, MutexInv, ThreadsInv, TypeOK
<1>2. /\ Sound(k') /\ ThreadsInv' /\ WaitInv'
      /\ pc' \in [Thread -> PC] /\ wants' \in [Thread -> Mutexes]
      /\ \A u \in Thread, n \in Mutexes :
            /\ Waits(u, n)' <=> Waits(u, n)
            /\ u # t => (HandedTo(u, n)' <=> HandedTo(u, n))
  BY <1>0, <1>1, PcEffect
<1>3. /\ \A n \in Mutexes : ~HandedTo(t, n)'
      /\ \A n \in Mutexes : HandedTo(t, n) <=> n = wants[t] /\ ~Failed(t)
  <2>1. pc'[t] = "user"
    BY <1>0 DEF Goto, MutexInv, TypeOK
  <2>2. \A n \in Mutexes : ~Waits(t, n)
    BY <1>0, CallerRuns
  <2> QED BY <1>0, <2>1, <2>2 DEF HandedTo
<1>4. /\ held' \in [Thread -> [Mutexes -> Nat]]
      /\ \A u \in Thread, n \in Mutexes :
            held'[u][n] = IF u = t /\ HandedTo(t, n) THEN held[u][n] + 1 ELSE held[u][n]
  <2>1. held \in [Thread -> [Mutexes -> Nat]]
    BY DEF MutexInv, TypeOK
  <2>2. CASE Failed(t)
    BY <1>0, <1>3, <2>1, <2>2
  <2>3. CASE ~Failed(t)
    BY <1>0, <1>1, <1>3, <2>1, <2>3
  <2> QED BY <2>2, <2>3
<1>5. TypeOK'
  BY <1>0, <1>2, <1>4 DEF MutexInv, TypeOK
<1>6. OwnersInv'
  <2> SUFFICES ASSUME NEW n \in Mutexes
               PROVE  \A u \in Thread :
                         held'[u][n] + (IF HandedTo(u, n)' THEN 1 ELSE 0)
                             = IF owner[n] = u THEN hold[n] ELSE 0
    BY <1>0, OneMutex, EveryMutex
  <2>1. ASSUME NEW u \in Thread
        PROVE  held'[u][n] + (IF HandedTo(u, n)' THEN 1 ELSE 0)
                   = IF owner[n] = u THEN hold[n] ELSE 0
    <3>1. /\ held[u][n] \in Nat
          /\ held[u][n] + (IF HandedTo(u, n) THEN 1 ELSE 0)
                 = IF owner[n] = u THEN hold[n] ELSE 0
      BY OneMutex
    <3>2. CASE u = t
      BY <1>3, <1>4, <3>1, <3>2
    <3>3. CASE u # t
      BY <1>2, <1>4, <3>1, <3>3
    <3> QED BY <3>2, <3>3
  <2> QED BY <2>1
<1>q. Quiet
  BY <1>0 DEF Quiet
<1> QED BY <1>q, <1>2, <1>5, <1>6 DEF MutexInv

(* A release that leaves the mutex with its owner *)
LEMMA StepReleaseHeld ==
    ASSUME MutexInv, NEW t \in Thread, t # Idle, NEW m \in Mutexes, ReleaseHeld(t, m)
    PROVE  MutexInv' /\ Quiet
<1> USE MutexAssumption, KernelAssumption
<1>0. /\ k.cur = t /\ pc[t] = "user" /\ owner[m] = t /\ hold[m] > 1
      /\ hold' = [hold EXCEPT ![m] = @ - 1]
      /\ held' = [held EXCEPT ![t][m] = @ - 1]
      /\ UNCHANGED <<k, pc, value, owner, original, alive, wants, nested>>
  BY DEF ReleaseHeld, Calls, Running
<1>1. /\ Sound(k') /\ ThreadsInv' /\ WaitInv'
  BY <1>0 DEF MutexInv, ThreadsInv, WaitInv, Waits, Failed
<1>2. \A u \in Thread, n \in Mutexes : HandedTo(u, n)' <=> HandedTo(u, n)
  BY <1>0 DEF HandedTo, Waits, Failed
<1>3. held[t][m] = hold[m] /\ ~HandedTo(t, m)
  <2>1. ~HandedTo(t, m)
    BY <1>0 DEF HandedTo
  <2> QED BY <1>0, <2>1, OneMutex
<1>4. /\ \A n \in Mutexes : hold'[n] = IF n = m THEN hold[m] - 1 ELSE hold[n]
      /\ \A u \in Thread, n \in Mutexes :
            held'[u][n] = IF u = t /\ n = m THEN hold[m] - 1 ELSE held[u][n]
      /\ hold[m] \in Nat
  BY <1>0, <1>3 DEF MutexInv, TypeOK
<1>5. TypeOK'
  <2>1. hold[m] - 1 \in Nat
    BY <1>0, <1>4
  <2> QED BY <1>0, <1>3, <2>1 DEF MutexInv, TypeOK
<1>6. OwnersInv'
  <2>1. ASSUME NEW n \in Mutexes
        PROVE  /\ value[n] = 1 <=> hold'[n] = 0
               /\ \A u \in Thread : held'[u][n] + (IF HandedTo(u, n)' THEN 1 ELSE 0)
                                     = IF owner[n] = u THEN hold'[n] ELSE 0
    <3>1. CASE n = m
      BY <1>0, <1>2, <1>3, <1>4, <3>1, OneMutex
    <3>2. CASE n # m
      BY <1>2, <1>4, <3>2, OneMutex, SMTT(20)
    <3> QED BY <3>1, <3>2
  <2>2. ASSUME NEW n \in Mutexes
        PROVE  /\ value'[n] = 1 <=> owner'[n] = NoOwner
               /\ value'[n] = 1 => k'.list[n] = <<>>
               /\ owner'[n] # NoOwner => ~Contains(k'.list[n], owner'[n])
               /\ owner'[n] # NoOwner => original'[n] \in Priority
    BY <1>0, OneMutex
  <2> QED BY <1>0, <2>1, <2>2, EveryMutex
<1>q. Quiet
  BY <1>0 DEF Quiet
<1> QED BY <1>q, <1>1, <1>5, <1>6 DEF MutexInv

(* The owner gets its original priority back: the kernel in between. *)
LEMMA BackEffect ==
    ASSUME MutexInv, NEW m \in Mutexes, owner[m] # NoOwner
    PROVE  LET r == BackToOriginal(m) IN
           /\ Sound(r) /\ SameCurrent(r, k) /\ SameQueues(r, k)
           /\ r.stat = k.stat /\ r.err = k.err
           /\ r.prio = [k.prio EXCEPT ![owner[m]] = original[m]]
<1>1. Sound(k) /\ original[m] \in Priority /\ owner[m] \in Thread
  BY OneMutex DEF MutexInv, ThreadsInv
<1>2. CASE original[m] # k.prio[owner[m]]
  <2>1. BackToOriginal(m) = ChangePriority(k, owner[m], original[m])
    BY <1>2 DEF BackToOriginal
  <2> QED BY <1>1, <2>1, SoundPriority
<1>3. CASE original[m] = k.prio[owner[m]]
  <2>1. BackToOriginal(m) = k
    BY <1>3 DEF BackToOriginal
  <2>2. k.prio = [k.prio EXCEPT ![owner[m]] = original[m]]
    BY <1>1, <1>3 DEF Sound, KernelState
  <2> QED BY <1>1, <2>1, <2>2 DEF SameCurrent, SameQueues
<1> QED BY <1>2, <1>3

(* A release with no thread waiting *)
LEMMA StepReleaseFree ==
    ASSUME MutexInv, NEW t \in Thread, t # Idle, NEW m \in Mutexes, ReleaseFree(t, m)
    PROVE  MutexInv'
<1> USE MutexAssumption, KernelAssumption
<1>0. /\ k.cur = t /\ pc[t] = "user" /\ owner[m] = t /\ hold[m] = 1 /\ k.list[m] = <<>>
      /\ k' = BackToOriginal(m)
      /\ hold' = [hold EXCEPT ![m] = 0]
      /\ value' = [value EXCEPT ![m] = @ + 1]
      /\ owner' = [owner EXCEPT ![m] = NoOwner]
      /\ original' = [original EXCEPT ![m] = PriorityMax]
      /\ held' = [held EXCEPT ![t][m] = @ - 1]
      /\ UNCHANGED <<pc, alive, wants, nested>>
  BY DEF ReleaseFree, Calls, Running
<1>1. /\ Sound(k') /\ k'.cur = k.cur /\ SameQueues(k', k)
      /\ k'.stat = k.stat /\ k'.err = k.err
  BY <1>0, BackEffect DEF SameCurrent
<1>2. /\ \A u \in Thread, n \in Mutexes : Waits(u, n)' <=> Waits(u, n)
      /\ \A u \in Thread : Failed(u)' <=> Failed(u)
      /\ \A n \in Mutexes : k'.list[n] = k.list[n]
  BY <1>1 DEF Waits, Failed, SameQueues
<1>3. ThreadsInv' /\ WaitInv'
  BY <1>0, <1>1, <1>2 DEF MutexInv, ThreadsInv, WaitInv
<1>4. \A u \in Thread, n \in Mutexes : HandedTo(u, n)' <=> HandedTo(u, n)
  BY <1>0, <1>2 DEF HandedTo
<1>5. held[t][m] = 1 /\ ~HandedTo(t, m) /\ value[m] = 0
  <2>1. ~HandedTo(t, m)
    BY <1>0 DEF HandedTo
  <2> QED BY <1>0, <2>1, OneMutex
<1>6. \A n \in Mutexes :
        /\ owner'[n] = IF n = m THEN NoOwner ELSE owner[n]
        /\ value'[n] = IF n = m THEN 1 ELSE value[n]
        /\ hold'[n] = IF n = m THEN 0 ELSE hold[n]
        /\ original'[n] = IF n = m THEN PriorityMax ELSE original[n]
        /\ \A u \in Thread : held'[u][n] = IF u = t /\ n = m THEN 0 ELSE held[u][n]
  <2>1. /\ value \in [Mutexes -> {0, 1}] /\ owner \in [Mutexes -> Thread \cup {NoOwner}]
        /\ original \in [Mutexes -> Priority \cup {PriorityMax}]
        /\ hold \in [Mutexes -> Nat] /\ held \in [Thread -> [Mutexes -> Nat]]
    BY DEF MutexInv, TypeOK
  <2>2. \A n \in Mutexes : owner'[n] = IF n = m THEN NoOwner ELSE owner[n]
    BY <1>0, <2>1
  <2>3. \A n \in Mutexes : hold'[n] = IF n = m THEN 0 ELSE hold[n]
    BY <1>0, <2>1
  <2>4. \A n \in Mutexes : original'[n] = IF n = m THEN PriorityMax ELSE original[n]
    BY <1>0, <2>1
  <2>5. \A n \in Mutexes : value'[n] = IF n = m THEN 1 ELSE value[n]
    BY <1>0, <1>5, <2>1
  <2>6. \A n \in Mutexes, u \in Thread :
           held'[u][n] = IF u = t /\ n = m THEN 0 ELSE held[u][n]
    <3>1. held' = [held EXCEPT ![t] = [held[t] EXCEPT ![m] = 0]]
      BY <1>0, <1>5, <2>1
    <3>2. \A u \in Thread : held'[u] = IF u = t THEN [held[t] EXCEPT ![m] = 0] ELSE held[u]
      BY <2>1, <3>1
    <3>3. \A n \in Mutexes : [held[t] EXCEPT ![m] = 0][n] = IF n = m THEN 0 ELSE held[t][n]
      BY <2>1
    <3> QED BY <3>2, <3>3
  <2> QED BY <2>2, <2>3, <2>4, <2>5, <2>6
<1>7. TypeOK'
  <2>1. value' \in [Mutexes -> {0, 1}]
    BY <1>0, <1>5 DEF MutexInv, TypeOK
  <2>2. owner' \in [Mutexes -> Thread \cup {NoOwner}]
    BY <1>0 DEF MutexInv, TypeOK
  <2>3. original' \in [Mutexes -> Priority \cup {PriorityMax}] /\ hold' \in [Mutexes -> Nat]
    BY <1>0 DEF MutexInv, TypeOK
  <2>4. held' \in [Thread -> [Mutexes -> Nat]]
    <3>1. held \in [Thread -> [Mutexes -> Nat]]
      BY DEF MutexInv, TypeOK
    <3>2. held' = [held EXCEPT ![t] = [held[t] EXCEPT ![m] = 0]]
      BY <1>0, <1>5, <3>1
    <3> QED BY <3>1, <3>2
  <2> QED BY <1>0, <1>1, <2>1, <2>2, <2>3, <2>4 DEF MutexInv, TypeOK, Sound
<1>8. OwnersInv'
  <2>1. ASSUME NEW n \in Mutexes
        PROVE  /\ value'[n] = 1 <=> owner'[n] = NoOwner
               /\ value'[n] = 1 <=> hold'[n] = 0
               /\ value'[n] = 1 => k'.list[n] = <<>>
               /\ owner'[n] # NoOwner => ~Contains(k'.list[n], owner'[n])
               /\ owner'[n] # NoOwner => original'[n] \in Priority
    <3>1. CASE n = m
      BY <1>0, <1>2, <1>6, <3>1
    <3>2. CASE n # m
      BY <1>2, <1>6, <3>2, OneMutex
    <3> QED BY <3>1, <3>2
  <2>2. ASSUME NEW n \in Mutexes, NEW u \in Thread
        PROVE  held'[u][n] + (IF HandedTo(u, n)' THEN 1 ELSE 0)
                   = IF owner'[n] = u THEN hold'[n] ELSE 0
    <3>1. CASE n = m
      <4>1. u # t => held[u][m] + (IF HandedTo(u, m) THEN 1 ELSE 0) = 0
        BY <1>0, OneMutex
      <4> QED BY <1>4, <1>5, <1>6, <3>1, <4>1
    <3>2. CASE n # m
      BY <1>4, <1>6, <3>2, OneMutex
    <3> QED BY <3>1, <3>2
  <2> QED BY <2>1, <2>2, EveryMutex
<1> QED BY <1>3, <1>7, <1>8 DEF MutexInv

-----------------------------------------------------------------------------
(* What the invariant says of one thread. *)
LEMMA OneThread ==
    ASSUME MutexInv, NEW u \in Thread
    PROVE  /\ k.stat[u] = "suspend" => pc[u] \in {"sched", "woken", "sleep", "slept"}
           /\ \A n \in Mutexes : Waits(u, n) =>
                 wants[u] = n /\ ~Failed(u) /\ pc[u] \in {"sched", "woken"}
           /\ \A n \in Mutexes :
                 k.stat[u] = "suspend" /\ pc[u] \in {"sched", "woken"} /\ wants[u] = n
                     => Waits(u, n)
BY DEF MutexInv, ThreadsInv, WaitInv

(* The first thread of a list of waiters. *)
LEMMA FirstWaiter ==
    ASSUME MutexInv, NEW m \in Mutexes, k.list[m] # <<>>
    PROVE  LET u == Head(k.list[m]) IN
           /\ u \in Thread /\ Waits(u, m) /\ k.stat[u] = "suspend"
           /\ wants[u] = m /\ ~Failed(u) /\ pc[u] \in {"sched", "woken"}
           /\ u # owner[m]
<1> DEFINE u == Head(k.list[m])
<1>1. k.list[m] \in Seq(Thread) /\ KernelOK(k)
  BY MutexAssumption DEF MutexInv, ThreadsInv, Sound, KernelState, ListHead
<1>2. u \in Thread /\ Waits(u, m)
  BY <1>1, EmptyList DEF Waits
<1>3. k.stat[u] = "suspend"
  BY <1>1, <1>2, MutexAssumption DEF KernelOK, WaitersSuspended, Waits
<1>4. wants[u] = m /\ ~Failed(u) /\ pc[u] \in {"sched", "woken"}
  BY <1>2 DEF MutexInv, WaitInv
<1>5. u # owner[m]
  BY <1>2, MutexAssumption, OneMutex DEF Waits
<1> QED BY <1>2, <1>3, <1>4, <1>5

(* It is resumed, in a kernel that differs from k in priorities and errors. *)
LEMMA ResumeEffect ==
    ASSUME MutexInv, NEW m \in Mutexes, k.list[m] # <<>>, NEW kk, Sound(kk),
           SameQueues(kk, k), kk.stat = k.stat, kk.cur = k.cur,
           k.stat[k.cur] = "running"
    PROVE  LET u == Head(k.list[m])
               r == rt_ipc_list_resume(kk, m)
           IN  /\ Sound(r) /\ r.cur = k.cur /\ r.prio = kk.prio /\ r.err = kk.err
               /\ r.stat[u] = "ready"
               /\ \A v \in Thread \ {u} : r.stat[v] = k.stat[v]
               /\ \A n \in Mutexes : r.list[n] = RemoveFirst(k.list[n], u)
               /\ \A n \in Mutexes, v \in Thread :
                     Contains(r.list[n], v) <=> Waits(v, n) /\ v # u
<1> DEFINE u == Head(k.list[m])
           r == rt_thread_resume(kk, u)
<1> USE MutexAssumption
<1>1. u \in Thread /\ k.stat[u] = "suspend"
  BY FirstWaiter
<1>2. kk.list[m] = k.list[m]
  BY DEF SameQueues
<1>3. rt_ipc_list_resume(kk, m) = r
  BY <1>2 DEF rt_ipc_list_resume
<1> HIDE DEF u
<1>4. /\ Sound(r) /\ SameCurrent(r, kk)
      /\ r.prio = kk.prio /\ r.err = kk.err
      /\ r.stat[u] = IF u = kk.cur THEN "running" ELSE "ready"
      /\ \A v \in Thread \ {u} : r.stat[v] = kk.stat[v]
      /\ \A q \in WaitQueue : r.list[q] = RemoveFirst(kk.list[q], u)
  BY <1>1, SoundResume
<1> HIDE DEF r
<1>5. u # k.cur /\ k.stat \in [Thread -> Stat]
  BY <1>1 DEF MutexInv, ThreadsInv, Sound, KernelState
<1>6. r.stat[u] = "ready" /\ \A v \in Thread \ {u} : r.stat[v] = k.stat[v]
  BY <1>1, <1>4, <1>5
<1>7. \A n \in Mutexes : r.list[n] = RemoveFirst(k.list[n], u)
  BY <1>4 DEF SameQueues
<1>8. \A n \in Mutexes : k.list[n] \in Seq(Thread) /\ IsInjective(k.list[n])
  BY DEF MutexInv, ThreadsInv, Sound, KernelState, KernelOK, LinkedOnce, ListHead
<1>9. \A n \in Mutexes, v \in Thread : Contains(r.list[n], v) <=> Waits(v, n) /\ v # u
  BY <1>7, <1>8, RemoveFromList DEF Waits
<1> QED BY <1>3, <1>4, <1>6, <1>7, <1>9 DEF SameCurrent, u

(* A release with a thread waiting *)
LEMMA StepReleaseHandsOver ==
    ASSUME MutexInv, NEW t \in Thread, t # Idle, NEW m \in Mutexes, ReleaseHandsOver(t, m)
    PROVE  MutexInv'
<1> USE MutexAssumption, KernelAssumption
<1> DEFINE kk == BackToOriginal(m)
<1>a. SUFFICES ASSUME NEW u \in Thread, u = Head(k.list[m])
               PROVE  MutexInv'
  BY FirstWaiter DEF ReleaseHandsOver
<1>0. /\ k.cur = t /\ pc[t] = "user" /\ owner[m] = t /\ hold[m] = 1 /\ k.list[m] # <<>>
      /\ k' = rt_ipc_list_resume(kk, m)
      /\ owner' = [owner EXCEPT ![m] = u]
      /\ original' = [original EXCEPT ![m] = k.prio[u]]
      /\ held' = [held EXCEPT ![t][m] = @ - 1]
      /\ Goto(t, "released")
      /\ UNCHANGED <<value, hold, alive, wants>>
  BY <1>a DEF ReleaseHandsOver, BecomesOwner, Calls, Running
<1>2. /\ u \in Thread /\ Waits(u, m) /\ k.stat[u] = "suspend"
      /\ wants[u] = m /\ ~Failed(u) /\ pc[u] \in {"sched", "woken"} /\ u # t
  BY <1>a, <1>0, FirstWaiter
<1>1. nested' \in SUBSET Thread
  <2>1. nested' = (IF Owns(u) \subseteq {m} THEN nested ELSE nested \cup {u})
    BY <1>a DEF ReleaseHandsOver, BecomesOwner
  <2>2. nested \subseteq Thread
    BY DEF MutexInv, TypeOK
  <2> QED BY <1>2, <2>1, <2>2
<1>3. k.stat[t] = "running" /\ \A n \in Mutexes : ~Waits(t, n)
  BY <1>0, CallerRuns
<1>4. /\ Sound(kk) /\ kk.cur = k.cur /\ SameQueues(kk, k) /\ kk.stat = k.stat /\ kk.err = k.err
  BY <1>0, BackEffect DEF SameCurrent
<1> HIDE DEF kk
<1>5. /\ Sound(k') /\ k'.cur = t /\ k'.err = k.err
      /\ k'.stat[u] = "ready"
      /\ \A v \in Thread \ {u} : k'.stat[v] = k.stat[v]
      /\ \A n \in Mutexes, v \in Thread :
            Contains(k'.list[n], v) <=> Waits(v, n) /\ v # u
  BY <1>a, <1>0, <1>3, <1>4, ResumeEffect, SMTT(20)
<1>6. /\ \A v \in Thread, n \in Mutexes : Waits(v, n)' <=> Waits(v, n) /\ v # u
      /\ \A v \in Thread : Failed(v)' <=> Failed(v)
  BY <1>5 DEF Waits, Failed
<1>7. /\ pc' \in [Thread -> PC] /\ pc'[t] = "released"
      /\ \A v \in Thread \ {t} : pc'[v] = pc[v]
  BY <1>0 DEF MutexInv, TypeOK, Goto, PC
<1>8. ThreadsInv'
  <2>1. pc'[Idle] = "user" /\ k'.stat[k'.cur] = "running"
    BY <1>2, <1>3, <1>5, <1>7 DEF MutexInv, ThreadsInv
  <2>2. ASSUME NEW v \in Thread, k'.stat[v] = "suspend"
        PROVE  pc'[v] \in {"sched", "woken", "sleep", "slept"}
    <3>1. v # u /\ v # t
      BY <1>2, <1>3, <1>5, <2>2
    <3> QED BY <1>5, <1>7, <2>2, <3>1 DEF MutexInv, ThreadsInv
  <2> QED BY <1>5, <2>1, <2>2 DEF ThreadsInv
<1>9. WaitInv'
  <2>1. ASSUME NEW v \in Thread, NEW n \in Mutexes, Waits(v, n)'
        PROVE  (wants[v] = n /\ ~Failed(v) /\ pc[v] \in {"sched", "woken"})'
    <3>1. Waits(v, n) /\ v # t
      BY <1>3, <1>6, <2>1
    <3> QED BY <1>0, <1>6, <1>7, <3>1 DEF MutexInv, WaitInv
  <2>2. ASSUME NEW v \in Thread, NEW n \in Mutexes,
               (k.stat[v] = "suspend" /\ pc[v] \in {"sched", "woken"} /\ wants[v] = n)'
        PROVE  Waits(v, n)'
    <3>1. v # u /\ v # t
      BY <1>2, <1>3, <1>5, <2>2
    <3> QED BY <1>0, <1>5, <1>6, <1>7, <2>2, <3>1 DEF MutexInv, WaitInv
  <2> QED BY <2>1, <2>2 DEF WaitInv
<1>10. \A v \in Thread, n \in Mutexes :
          HandedTo(v, n)' <=> HandedTo(v, n) \/ (v = u /\ n = m)
  <2>1. ASSUME NEW n \in Mutexes PROVE ~HandedTo(t, n) /\ ~HandedTo(t, n)'
    BY <1>0, <1>7 DEF HandedTo
  <2>2. ASSUME NEW n \in Mutexes PROVE HandedTo(u, n)' <=> n = m
    <3>1. pc'[u] = pc[u]
      BY <1>2, <1>7
    <3>2. wants' = wants
      BY <1>0
    <3>3. ~Waits(u, n)'
      BY <1>2, <1>6
    <3>4. ~Failed(u)'
      BY <1>2, <1>6
    <3>5. pc'[u] \in {"sched", "woken"} /\ wants'[u] = m
      BY <1>2, <3>1, <3>2
    <3> QED BY <3>3, <3>4, <3>5 DEF HandedTo
  <2>3. ASSUME NEW n \in Mutexes PROVE ~HandedTo(u, n)
    BY <1>2 DEF HandedTo
  <2>4. ASSUME NEW v \in Thread, v # t, v # u, NEW n \in Mutexes
        PROVE  HandedTo(v, n)' <=> HandedTo(v, n)
    BY <1>0, <1>6, <1>7, <2>4 DEF HandedTo
  <2>5. ASSUME NEW v \in Thread, NEW n \in Mutexes
        PROVE  HandedTo(v, n)' <=> HandedTo(v, n) \/ (v = u /\ n = m)
    <3>1. CASE v = t
      BY <1>2, <2>1, <3>1
    <3>2. CASE v = u
      <4>1. (HandedTo(u, n)' <=> n = m) /\ ~HandedTo(u, n)
        BY <2>2, <2>3
      <4> QED BY <3>2, <4>1 DEF HandedTo
    <3>3. CASE v # t /\ v # u
      BY <2>4, <3>3
    <3> QED BY <3>1, <3>2, <3>3
  <2> QED BY <2>5
<1>11. held[t][m] = 1 /\ ~HandedTo(t, m) /\ value[m] = 0 /\ k.prio[u] \in Priority
  <2>1. ~HandedTo(t, m)
    BY <1>0 DEF HandedTo
  <2>2. k.prio[u] \in Priority
    BY <1>2 DEF MutexInv, ThreadsInv, Sound, KernelState
  <2> QED BY <1>0, <2>1, <2>2, OneMutex
<1>12. \A n \in Mutexes :
        /\ owner'[n] = IF n = m THEN u ELSE owner[n]
        /\ original'[n] = IF n = m THEN k.prio[u] ELSE original[n]
        /\ \A v \in Thread : held'[v][n] = IF v = t /\ n = m THEN 0 ELSE held[v][n]
  <2>1. /\ owner \in [Mutexes -> Thread \cup {NoOwner}]
        /\ original \in [Mutexes -> Priority \cup {PriorityMax}]
        /\ held \in [Thread -> [Mutexes -> Nat]]
    BY DEF MutexInv, TypeOK
  <2>2. \A n \in Mutexes : owner'[n] = IF n = m THEN u ELSE owner[n]
    BY <1>0, <2>1
  <2>3. \A n \in Mutexes : original'[n] = IF n = m THEN k.prio[u] ELSE original[n]
    BY <1>0, <2>1
  <2>4. \A n \in Mutexes, v \in Thread :
           held'[v][n] = IF v = t /\ n = m THEN 0 ELSE held[v][n]
    <3>1. held' = [held EXCEPT ![t] = [held[t] EXCEPT ![m] = 0]]
      BY <1>0, <1>11, <2>1
    <3>2. \A v \in Thread : held'[v] = IF v = t THEN [held[t] EXCEPT ![m] = 0] ELSE held[v]
      BY <2>1, <3>1
    <3>3. \A n \in Mutexes : [held[t] EXCEPT ![m] = 0][n] = IF n = m THEN 0 ELSE held[t][n]
      BY <2>1
    <3> QED BY <3>2, <3>3
  <2> QED BY <2>2, <2>3, <2>4
<1>13. TypeOK'
  <2>1. owner' \in [Mutexes -> Thread \cup {NoOwner}]
    BY <1>0, <1>2 DEF MutexInv, TypeOK
  <2>2. original' \in [Mutexes -> Priority \cup {PriorityMax}]
    BY <1>0, <1>11 DEF MutexInv, TypeOK
  <2>3. held' \in [Thread -> [Mutexes -> Nat]]
    <3>1. held \in [Thread -> [Mutexes -> Nat]]
      BY DEF MutexInv, TypeOK
    <3>2. held' = [held EXCEPT ![t] = [held[t] EXCEPT ![m] = 0]]
      BY <1>0, <1>11, <3>1
    <3> QED BY <3>1, <3>2
  <2> QED BY <1>0, <1>1, <1>5, <1>7, <2>1, <2>2, <2>3 DEF MutexInv, TypeOK, Sound
<1>14. OwnersInv'
  <2>1. ASSUME NEW n \in Mutexes
        PROVE  /\ value'[n] = 1 <=> owner'[n] = NoOwner
               /\ value'[n] = 1 <=> hold'[n] = 0
               /\ value'[n] = 1 => k'.list[n] = <<>>
               /\ owner'[n] # NoOwner => ~Contains(k'.list[n], owner'[n])
               /\ owner'[n] # NoOwner => original'[n] \in Priority
    <3>1. CASE n = m
      BY <1>0, <1>2, <1>5, <1>11, <1>12, <3>1
    <3>2. CASE n # m
      <4>1. k.list[n] = <<>> => k'.list[n] = <<>>
        <5>1. k.list[n] \in Seq(Thread) /\ k'.list[n] \in Seq(Thread)
          BY <1>5 DEF MutexInv, ThreadsInv, Sound, KernelState, ListHead
        <5>2. SUFFICES ASSUME k.list[n] = <<>> PROVE \A v \in Thread : ~Contains(k'.list[n], v)
          BY <5>1, EmptyList
        <5>3. \A v \in Thread : ~Contains(k.list[n], v)
          BY <5>1, <5>2, EmptyList
        <5> QED BY <1>5, <5>3 DEF Waits
      <4>2. owner[n] # NoOwner => ~Contains(k'.list[n], owner[n])
        BY <1>5, OneMutex DEF Waits
      <4> QED BY <1>0, <1>12, <3>2, <4>1, <4>2, OneMutex
    <3> QED BY <3>1, <3>2
  <2>2. ASSUME NEW n \in Mutexes, NEW v \in Thread
        PROVE  held'[v][n] + (IF HandedTo(v, n)' THEN 1 ELSE 0)
                   = IF owner'[n] = v THEN hold'[n] ELSE 0
    <3>1. CASE n = m
      <4>1. /\ held[v][m] \in Nat
            /\ v # t => held[v][m] + (IF HandedTo(v, m) THEN 1 ELSE 0) = 0
        BY <1>0, OneMutex
      <4>2. v # t => held[v][m] = 0 /\ ~HandedTo(v, m)
        BY <4>1
      <4> QED BY <1>0, <1>2, <1>10, <1>11, <1>12, <3>1, <4>2
    <3>2. CASE n # m
      BY <1>0, <1>10, <1>12, <3>2, OneMutex, SMTT(20)
    <3> QED BY <3>1, <3>2
  <2> QED BY <2>1, <2>2, EveryMutex
<1> QED BY <1>8, <1>9, <1>13, <1>14 DEF MutexInv

(* A take that waits: the owner inherits the priority, ... *)
LEMMA BoostEffect ==
    ASSUME MutexInv, NEW t \in Thread, NEW m \in Mutexes, owner[m] \in Thread \ {t}
    PROVE  LET k0 == [k EXCEPT !.err[t] = "ok"]
               r == IF k.prio[t] < k.prio[owner[m]]
                    THEN ChangePriority(k0, owner[m], k.prio[t])
                    ELSE k0
           IN  /\ Sound(r) /\ SameCurrent(r, k) /\ SameQueues(r, k)
               /\ r.stat = k.stat /\ r.err = [k.err EXCEPT ![t] = "ok"]
               /\ r.prio[t] = k.prio[t] /\ r.prio[owner[m]] <= k.prio[t]
               /\ r.prio[owner[m]] <= k.prio[owner[m]]
               /\ \A u \in Thread \ {owner[m]} : r.prio[u] = k.prio[u]
<1> DEFINE k0 == [k EXCEPT !.err[t] = "ok"]
<1>1. /\ Sound(k0) /\ SameCurrent(k0, k) /\ SameQueues(k0, k)
      /\ k0.stat = k.stat /\ k0.err = [k.err EXCEPT ![t] = "ok"] /\ k0.prio = k.prio
  <2>1. LET r == k0 IN
        /\ Sound(r) /\ SameCurrent(r, k)
        /\ r.prio = k.prio /\ r.stat = k.stat /\ r.list = k.list
        /\ r.err = [k.err EXCEPT ![t] = "ok"]
    BY SoundError DEF MutexInv, ThreadsInv, Error
  <2> QED BY <2>1 DEF SameQueues
<1> HIDE DEF k0
<1> DEFINE r == IF k.prio[t] < k.prio[owner[m]]
                THEN ChangePriority(k0, owner[m], k.prio[t])
                ELSE k0
<1>2. /\ k.prio \in [Thread -> Priority] /\ owner[m] # t
      /\ k.prio[t] \in Nat /\ k.prio[owner[m]] \in Nat
  BY KernelAssumption DEF MutexInv, ThreadsInv, Sound, KernelState, Priority
<1>3. CASE k.prio[t] < k.prio[owner[m]]
  <2>1. /\ Sound(r) /\ SameCurrent(r, k0) /\ SameQueues(r, k0)
        /\ r.stat = k0.stat /\ r.err = k0.err
        /\ r.prio = [k0.prio EXCEPT ![owner[m]] = k.prio[t]]
    BY <1>1, <1>2, <1>3, SoundPriority
  <2> HIDE DEF r
  <2>2. SameCurrent(r, k) /\ SameQueues(r, k) /\ r.stat = k.stat
        /\ r.err = [k.err EXCEPT ![t] = "ok"]
    BY <1>1, <2>1 DEF SameCurrent, SameQueues
  <2>3. /\ r.prio[owner[m]] = k.prio[t]
        /\ \A u \in Thread \ {owner[m]} : r.prio[u] = k.prio[u]
    BY <1>1, <1>2, <2>1
  <2>4. r.prio[t] = k.prio[t] /\ r.prio[owner[m]] <= k.prio[t]
        /\ r.prio[owner[m]] <= k.prio[owner[m]]
    BY <1>2, <1>3, <2>3
  <2> QED BY <2>1, <2>2, <2>3, <2>4 DEF r, k0
<1>4. CASE ~(k.prio[t] < k.prio[owner[m]])
  <2>1. r = k0
    BY <1>4
  <2>2. k.prio[owner[m]] <= k.prio[t]
    BY <1>2, <1>4
  <2> QED BY <1>1, <1>2, <2>1, <2>2 DEF k0
<1> QED BY <1>3, <1>4

(* ... and the caller joins the waiters. *)
LEMMA WaitsEffect ==
    ASSUME MutexInv, NEW t \in Thread, t # Idle, NEW m \in Mutexes, NEW timed \in BOOLEAN,
           TakeWaits(t, m, timed)
    PROVE  /\ Sound(k') /\ k'.cur = k.cur /\ owner[m] \in Thread \ {t}
           /\ k'.stat[t] = "suspend" /\ k'.err[t] = "ok"
           /\ \A u \in Thread \ {t} : k'.stat[u] = k.stat[u] /\ k'.err[u] = k.err[u]
           /\ k'.prio[t] = k.prio[t] /\ k'.prio[owner[m]] <= k.prio[t]
           /\ k'.prio[owner[m]] <= k.prio[owner[m]]
           /\ \A u \in Thread \ {owner[m]} : k'.prio[u] = k.prio[u]
           /\ \A n \in Mutexes \ {m} : k'.list[n] = k.list[n]
           /\ \E i \in 1 .. Len(k.list[m]) + 1 :
                 /\ k'.list[m] = InsertAt(k.list[m], i, t)
                 /\ Flag # "fifo" =>
                       /\ \A j \in 1 .. Len(k.list[m]) :
                             j < i => k'.prio[k.list[m][j]] <= k.prio[t]
                       /\ i <= Len(k.list[m]) => k.prio[t] < k'.prio[k.list[m][i]]
<1> USE MutexAssumption
<1> DEFINE k0 == [k EXCEPT !.err[t] = "ok"]
           k1 == IF k.prio[t] < k.prio[owner[m]]
                 THEN ChangePriority(k0, owner[m], k.prio[t])
                 ELSE k0
           k2 == rt_ipc_list_suspend(k1, m, t, Flag)
           i == Place(k1, k1.list[m], k1.prio[t], Flag)
<1>1. owner[m] \in Thread \ {t} /\ k.cur = t /\ k.stat[t] = "running"
  <2>1. k.cur = t /\ pc[t] = "user" /\ owner[m] # t /\ value[m] = 0
    BY DEF TakeWaits, Calls, Running
  <2>2. owner[m] \in Thread
    BY <2>1, OneMutex
  <2> QED BY <2>1, <2>2, CallerRuns
<1>2. k' = IF timed THEN StartTimer(k2, t) ELSE k2
  BY DEF TakeWaits
<1>3. /\ Sound(k1) /\ SameCurrent(k1, k) /\ SameQueues(k1, k)
      /\ k1.stat = k.stat /\ k1.err = [k.err EXCEPT ![t] = "ok"]
      /\ k1.prio[t] = k.prio[t] /\ k1.prio[owner[m]] <= k.prio[t]
      /\ k1.prio[owner[m]] <= k.prio[owner[m]]
      /\ \A u \in Thread \ {owner[m]} : k1.prio[u] = k.prio[u]
  BY <1>1, BoostEffect
<1> HIDE DEF k1
<1>4. /\ Sound(k2) /\ SameCurrent(k2, k1)
      /\ k2.prio = k1.prio /\ k2.err = k1.err
      /\ k2.stat[t] = "suspend"
      /\ \A u \in Thread \ {t} : k2.stat[u] = k1.stat[u]
      /\ k2.list[m] = InsertAt(k1.list[m], i, t)
      /\ \A p \in WaitQueue \ {m} : k2.list[p] = k1.list[p]
  <2>1. k1.stat[t] = "running" /\ m \in WaitQueue
    BY <1>1, <1>3
  <2> QED BY <1>3, <2>1, SoundSuspend
<1>5. k1.list[m] = k.list[m] /\ k.list[m] \in Seq(Thread)
  BY <1>3 DEF SameQueues, MutexInv, ThreadsInv, Sound, KernelState, ListHead
<1>6. /\ i \in 1 .. Len(k.list[m]) + 1
      /\ Flag # "fifo" =>
            /\ \A j \in 1 .. Len(k.list[m]) : j < i => k1.prio[k.list[m][j]] <= k.prio[t]
            /\ i <= Len(k.list[m]) => k.prio[t] < k1.prio[k.list[m][i]]
  <2>1. k1 \in KernelState /\ k.prio[t] \in Priority
    BY <1>3 DEF MutexInv, ThreadsInv, Sound, KernelState
  <2> QED BY <1>3, <1>5, <2>1, PlaceInList
<1> HIDE DEF i, k2
<1>7. /\ Sound(k') /\ SameCurrent(k', k2)
      /\ k'.prio = k2.prio /\ k'.stat = k2.stat /\ k'.list = k2.list /\ k'.err = k2.err
  <2>2. CASE timed
    BY <1>2, <1>4, <2>2, SoundTimer
  <2>3. CASE ~timed
    BY <1>2, <1>4, <2>3 DEF SameCurrent
  <2> QED BY <2>2, <2>3
<1>8. k'.cur = k.cur
  BY <1>3, <1>4, <1>7 DEF SameCurrent
<1>9. k'.prio = k1.prio
  BY <1>4, <1>7
<1>10. /\ k'.stat[t] = "suspend"
       /\ \A u \in Thread \ {t} : k'.stat[u] = k.stat[u]
  BY <1>3, <1>4, <1>7
<1>11. /\ k'.err[t] = "ok"
       /\ \A u \in Thread \ {t} : k'.err[u] = k.err[u]
  BY <1>3, <1>4, <1>7 DEF MutexInv, ThreadsInv, Sound, KernelState
<1>12. \A n \in Mutexes \ {m} : k'.list[n] = k.list[n]
  BY <1>3, <1>4, <1>7 DEF SameQueues
<1>13. k'.list[m] = InsertAt(k.list[m], i, t)
  BY <1>4, <1>5, <1>7
<1>14. \E j \in 1 .. Len(k.list[m]) + 1 :
          /\ k'.list[m] = InsertAt(k.list[m], j, t)
          /\ Flag # "fifo" =>
                /\ \A h \in 1 .. Len(k.list[m]) :
                      h < j => k'.prio[k.list[m][h]] <= k.prio[t]
                /\ j <= Len(k.list[m]) => k.prio[t] < k'.prio[k.list[m][j]]
  BY <1>6, <1>9, <1>13
<1> QED BY <1>1, <1>3, <1>7, <1>8, <1>9, <1>10, <1>11, <1>12, <1>14

LEMMA StepTakeWaits ==
    ASSUME MutexInv, NEW t \in Thread, t # Idle, NEW m \in Mutexes, NEW timed \in BOOLEAN,
           TakeWaits(t, m, timed)
    PROVE  MutexInv'
<1> USE MutexAssumption, KernelAssumption
<1>0. /\ k.cur = t /\ pc[t] = "user" /\ value[m] = 0 /\ owner[m] # t
      /\ wants' = [wants EXCEPT ![t] = m]
      /\ Goto(t, "sched")
      /\ UNCHANGED <<value, owner, original, hold, alive, held, nested>>
  <2>1. value[m] \in {0, 1}
    BY OneMutex
  <2> QED BY <2>1 DEF TakeWaits, Calls, Running, mutex, history
<1>1. /\ Sound(k') /\ k'.cur = t /\ k'.stat[t] = "suspend" /\ k'.err[t] = "ok"
      /\ \A u \in Thread \ {t} : k'.stat[u] = k.stat[u] /\ k'.err[u] = k.err[u]
      /\ \A n \in Mutexes \ {m} : k'.list[n] = k.list[n]
      /\ \E i \in 1 .. Len(k.list[m]) + 1 : k'.list[m] = InsertAt(k.list[m], i, t)
  BY <1>0, WaitsEffect
<1>2. \A n \in Mutexes : ~Waits(t, n)
  BY <1>0, CallerRuns
<1>3. \A u \in Thread, n \in Mutexes :
         Contains(k'.list[n], u) <=> Contains(k.list[n], u) \/ (u = t /\ n = m)
  <2>1. \A n \in Mutexes : k.list[n] \in Seq(Thread) /\ IsInjective(k.list[n])
    BY DEF MutexInv, ThreadsInv, Sound, KernelState, KernelOK, LinkedOnce, ListHead
  <2>2. PICK i \in 1 .. Len(k.list[m]) + 1 : k'.list[m] = InsertAt(k.list[m], i, t)
    BY <1>1
  <2>3. ~Contains(k.list[m], t)
    BY <1>2 DEF Waits
  <2>4. \A x : Contains(k'.list[m], x) <=> Contains(k.list[m], x) \/ x = t
    BY <2>1, <2>2, <2>3, InsertInList
  <2>5. ASSUME NEW u \in Thread, NEW n \in Mutexes
        PROVE  Contains(k'.list[n], u) <=> Contains(k.list[n], u) \/ (u = t /\ n = m)
    <3>1. CASE n = m
      BY <2>4, <3>1
    <3>2. CASE n # m
      BY <1>1, <3>2
    <3> QED BY <3>1, <3>2
  <2> QED BY <2>5
<1>4. /\ \A u \in Thread, n \in Mutexes : Waits(u, n)' <=> Waits(u, n) \/ (u = t /\ n = m)
      /\ \A u \in Thread \ {t} : Failed(u)' <=> Failed(u)
      /\ ~Failed(t)'
  BY <1>1, <1>3 DEF Waits, Failed
<1>5. /\ pc' \in [Thread -> PC] /\ pc'[t] = "sched"
      /\ wants' \in [Thread -> Mutexes] /\ wants'[t] = m
      /\ \A u \in Thread \ {t} : pc'[u] = pc[u] /\ wants'[u] = wants[u]
  BY <1>0 DEF MutexInv, TypeOK, Goto, PC
<1>6. TypeOK'
  BY <1>0, <1>1, <1>5 DEF MutexInv, TypeOK, Sound
<1>7. ThreadsInv'
  <2>1. pc'[Idle] = "user" /\ pc'[k'.cur] = "sched"
    BY <1>1, <1>5 DEF MutexInv, ThreadsInv
  <2>2. ASSUME NEW u \in Thread, k'.stat[u] = "suspend"
        PROVE  pc'[u] \in {"sched", "woken", "sleep", "slept"}
    <3>1. CASE u = t
      BY <1>5, <3>1
    <3>2. CASE u # t
      <4>1. k.stat[u] = "suspend" /\ pc'[u] = pc[u]
        BY <1>1, <1>5, <2>2, <3>2
      <4> QED BY <4>1, OneThread
    <3> QED BY <3>1, <3>2
  <2> QED BY <1>1, <2>1, <2>2 DEF ThreadsInv
<1>8. WaitInv'
  <2>1. ASSUME NEW u \in Thread, NEW n \in Mutexes, Waits(u, n)'
        PROVE  (wants[u] = n /\ ~Failed(u) /\ pc[u] \in {"sched", "woken"})'
    <3>1. CASE u = t
      <4>1. n = m
        BY <1>2, <1>4, <2>1, <3>1
      <4>2. ~Failed(u)'
        BY <1>4, <3>1
      <4> QED BY <1>5, <3>1, <4>1, <4>2
    <3>2. CASE u # t
      BY <1>4, <1>5, <2>1, <3>2 DEF MutexInv, WaitInv
    <3> QED BY <3>1, <3>2
  <2>2. ASSUME NEW u \in Thread, NEW n \in Mutexes,
               (k.stat[u] = "suspend" /\ pc[u] \in {"sched", "woken"} /\ wants[u] = n)'
        PROVE  Waits(u, n)'
    <3>1. CASE u = t
      BY <1>4, <1>5, <2>2, <3>1
    <3>2. CASE u # t
      <4>1. k.stat[u] = "suspend" /\ pc[u] \in {"sched", "woken"} /\ wants[u] = n
        BY <1>1, <1>5, <2>2, <3>2
      <4> QED BY <1>4, <4>1, OneThread
    <3> QED BY <3>1, <3>2
  <2> QED BY <2>1, <2>2 DEF WaitInv
<1>9. \A u \in Thread, n \in Mutexes : HandedTo(u, n)' <=> HandedTo(u, n)
  <2>1. ASSUME NEW n \in Mutexes PROVE ~HandedTo(t, n) /\ ~HandedTo(t, n)'
    <3>1. ~HandedTo(t, n)
      BY <1>0 DEF HandedTo
    <3>2. CASE n = m
      BY <1>4, <3>1, <3>2 DEF HandedTo
    <3>3. CASE n # m
      BY <1>5, <3>1, <3>3 DEF HandedTo
    <3> QED BY <3>2, <3>3
  <2>2. ASSUME NEW n \in Mutexes, NEW u \in Thread, u # t
        PROVE  HandedTo(u, n)' <=> HandedTo(u, n)
    BY <1>4, <1>5, <2>2 DEF HandedTo
  <2> QED BY <2>1, <2>2
<1>10. OwnersInv'
  <2>1. ASSUME NEW n \in Mutexes
        PROVE  /\ value[n] = 1 => k'.list[n] = <<>>
               /\ owner[n] # NoOwner => ~Contains(k'.list[n], owner[n])
    <3>1. CASE n = m
      BY <1>0, <1>3, <3>1, OneMutex
    <3>2. CASE n # m
      BY <1>1, <3>2, OneMutex
    <3> QED BY <3>1, <3>2
  <2>2. ASSUME NEW n \in Mutexes
        PROVE  /\ value'[n] = 1 <=> owner'[n] = NoOwner
               /\ value'[n] = 1 <=> hold'[n] = 0
               /\ owner'[n] # NoOwner => original'[n] \in Priority
               /\ \A u \in Thread : held'[u][n] + (IF HandedTo(u, n)' THEN 1 ELSE 0)
                                     = IF owner'[n] = u THEN hold'[n] ELSE 0
    BY <1>0, <1>9, OneMutex
  <2> QED BY <1>0, <2>1, <2>2, EveryMutex
<1> QED BY <1>6, <1>7, <1>8, <1>10 DEF MutexInv

-----------------------------------------------------------------------------
(* A detach, turn by turn: only the waiters notice. *)
LEMMA StepDetachStarts ==
    ASSUME MutexInv, NEW t \in Thread, t # Idle, NEW m \in Mutexes, DetachStarts(t, m)
    PROVE  MutexInv' /\ Quiet
<1> USE MutexAssumption, KernelAssumption
<1>0. /\ k.cur = t /\ pc[t] = "user"
      /\ alive' = alive \ {m}
      /\ wants' = [wants EXCEPT ![t] = m]
      /\ Goto(t, "check")
      /\ UNCHANGED <<k, value, owner, original, hold, held, nested>>
  BY DEF DetachStarts, Calls, Running, history
<1>1. "check" \in PC
  BY DEF PC
<1>2. /\ Sound(k') /\ ThreadsInv' /\ WaitInv'
      /\ pc' \in [Thread -> PC] /\ wants' \in [Thread -> Mutexes]
      /\ \A u \in Thread, n \in Mutexes :
            /\ Waits(u, n)' <=> Waits(u, n)
            /\ u # t => (HandedTo(u, n)' <=> HandedTo(u, n))
  BY <1>0, <1>1, PcEffect
<1>3. \A n \in Mutexes : ~HandedTo(t, n) /\ ~HandedTo(t, n)'
  BY <1>0 DEF HandedTo, Goto, MutexInv, TypeOK
<1>4. TypeOK'
  BY <1>0, <1>2 DEF MutexInv, TypeOK
<1>5. \A u \in Thread, n \in Mutexes : HandedTo(u, n)' <=> HandedTo(u, n)
  BY <1>2, <1>3
<1>6. OwnersInv'
  <2>1. ASSUME NEW n \in Mutexes
        PROVE  /\ value'[n] = 1 <=> owner'[n] = NoOwner
               /\ value'[n] = 1 <=> hold'[n] = 0
               /\ value'[n] = 1 => k'.list[n] = <<>>
               /\ owner'[n] # NoOwner => ~Contains(k'.list[n], owner'[n])
               /\ owner'[n] # NoOwner => original'[n] \in Priority
               /\ \A u \in Thread : held'[u][n] + (IF HandedTo(u, n)' THEN 1 ELSE 0)
                                     = IF owner'[n] = u THEN hold'[n] ELSE 0
    BY <1>0, <1>5, OneMutex
  <2> QED BY <2>1, EveryMutex
<1>q. Quiet
  BY <1>0 DEF Quiet
<1> QED BY <1>q, <1>2, <1>4, <1>6 DEF MutexInv

LEMMA StepDetachGoes ==
    ASSUME MutexInv, NEW t \in Thread, k.cur = t, pc[t] \in {"check", "resume"}, t # Idle,
           NEW at \in {"resume", "user", "fault"}, Goto(t, at),
           UNCHANGED <<k, mutex, wants, history>>
    PROVE  MutexInv' /\ Quiet
<1> USE MutexAssumption, KernelAssumption
<1>1. at \in PC /\ pc[t] \notin {"sched", "sleep"}
  BY DEF PC
<1>2. PICK m \in Mutexes : TRUE
  OBVIOUS
<1>3. /\ Sound(k') /\ ThreadsInv' /\ WaitInv'
      /\ pc' \in [Thread -> PC] /\ wants' \in [Thread -> Mutexes]
      /\ \A u \in Thread, n \in Mutexes :
            /\ Waits(u, n)' <=> Waits(u, n)
            /\ u # t => (HandedTo(u, n)' <=> HandedTo(u, n))
  BY <1>1, <1>2, PcEffect
<1>4. \A n \in Mutexes : ~HandedTo(t, n) /\ ~HandedTo(t, n)'
  BY DEF HandedTo, Goto, MutexInv, TypeOK
<1>5. TypeOK'
  BY <1>3 DEF MutexInv, TypeOK, mutex, history
<1>6. OwnersInv'
  BY <1>3, <1>4, SameOwners DEF history
<1>q. Quiet
  BY DEF Quiet, mutex, history
<1> QED BY <1>q, <1>3, <1>5, <1>6 DEF MutexInv

(* One turn resumes the first waiter with an error. *)
LEMMA StepDetachResumes ==
    ASSUME MutexInv, NEW t \in Thread, k.cur = t, pc[t] = "resume", t # Idle,
           k.list[wants[t]] # <<>>, k' = ResumeWithError(k, wants[t]), Goto(t, "check"),
           UNCHANGED <<mutex, wants, history>>
    PROVE  MutexInv' /\ Quiet
<1> USE MutexAssumption, KernelAssumption
<1>a. wants[t] \in Mutexes
  BY DEF MutexInv, TypeOK
<1>b. PICK m \in Mutexes : m = wants[t]
  BY <1>a
<1>c. PICK u \in Thread : u = Head(k.list[m])
  BY <1>b, FirstWaiter
<1> DEFINE kk == [k EXCEPT !.err[u] = "error"]
<1>0. k.list[m] # <<>> /\ k' = rt_ipc_list_resume(kk, m)
  BY <1>b, <1>c DEF ResumeWithError
<1>1. /\ Waits(u, m) /\ k.stat[u] = "suspend" /\ wants[u] = m /\ pc[u] \in {"sched", "woken"}
  BY <1>0, <1>c, FirstWaiter
<1>2. k.stat[t] = "running" /\ \A n \in Mutexes : ~Waits(t, n)
  BY CallerRuns
<1>3. /\ Sound(kk) /\ SameQueues(kk, k) /\ kk.stat = k.stat /\ kk.cur = k.cur
      /\ kk.prio = k.prio /\ kk.err = [k.err EXCEPT ![u] = "error"]
  <2>1. LET r == kk IN
        /\ Sound(r) /\ SameCurrent(r, k)
        /\ r.prio = k.prio /\ r.stat = k.stat /\ r.list = k.list
        /\ r.err = [k.err EXCEPT ![u] = "error"]
    BY SoundError DEF MutexInv, ThreadsInv, Error
  <2> QED BY <2>1 DEF SameQueues, SameCurrent
<1> HIDE DEF kk
<1>4. /\ Sound(k') /\ k'.cur = k.cur /\ k'.err = kk.err /\ k'.prio = kk.prio
      /\ \A n \in Mutexes : k'.list[n] = RemoveFirst(k.list[n], u)
      /\ k'.stat[u] = "ready"
      /\ \A v \in Thread \ {u} : k'.stat[v] = k.stat[v]
      /\ \A n \in Mutexes, v \in Thread :
            Contains(k'.list[n], v) <=> Waits(v, n) /\ v # u
  BY <1>0, <1>c, <1>2, <1>3, ResumeEffect, SMTT(20)
<1>5. /\ \A v \in Thread, n \in Mutexes : Waits(v, n)' <=> Waits(v, n) /\ v # u
      /\ Failed(u)'
      /\ \A v \in Thread \ {u} : Failed(v)' <=> Failed(v)
  <2>1. k.err \in [Thread -> Error]
    BY DEF MutexInv, ThreadsInv, Sound, KernelState
  <2> QED BY <1>3, <1>4, <2>1 DEF Waits, Failed
<1>6. /\ pc' \in [Thread -> PC] /\ pc'[t] = "check"
      /\ \A v \in Thread \ {t} : pc'[v] = pc[v]
  BY DEF MutexInv, TypeOK, Goto, PC
<1>7. TypeOK'
  BY <1>4, <1>6 DEF MutexInv, TypeOK, Sound, mutex, history
<1>8. ThreadsInv'
  <2>0. t # u
    BY <1>1, <1>2
  <2>1. pc'[Idle] = "user" /\ k'.stat[k'.cur] = "running"
    <3>1. pc'[Idle] = "user"
      BY <1>6 DEF MutexInv, ThreadsInv
    <3> QED BY <1>2, <1>4, <2>0, <3>1
  <2>2. ASSUME NEW v \in Thread, k'.stat[v] = "suspend"
        PROVE  pc'[v] \in {"sched", "woken", "sleep", "slept"}
    <3>1. v # u /\ v # t
      BY <1>1, <1>2, <1>4, <2>2
    <3>2. k.stat[v] = "suspend" /\ pc'[v] = pc[v]
      BY <1>4, <1>6, <2>2, <3>1
    <3> QED BY <3>2, OneThread
  <2> QED BY <1>4, <2>1, <2>2 DEF ThreadsInv
<1>9. WaitInv'
  <2>1. ASSUME NEW v \in Thread, NEW n \in Mutexes, Waits(v, n)'
        PROVE  (wants[v] = n /\ ~Failed(v) /\ pc[v] \in {"sched", "woken"})'
    <3>1. Waits(v, n) /\ v # t /\ v # u
      BY <1>2, <1>5, <2>1
    <3>2. wants[v] = n /\ ~Failed(v) /\ pc[v] \in {"sched", "woken"}
      BY <3>1, OneThread
    <3>3. wants' = wants
      OBVIOUS
    <3> QED BY <1>5, <1>6, <3>1, <3>2, <3>3
  <2>2. ASSUME NEW v \in Thread, NEW n \in Mutexes,
               (k.stat[v] = "suspend" /\ pc[v] \in {"sched", "woken"} /\ wants[v] = n)'
        PROVE  Waits(v, n)'
    <3>1. v # u /\ v # t
      BY <1>1, <1>2, <1>4, <2>2, SMTT(20)
    <3>2. k.stat[v] = "suspend" /\ pc[v] \in {"sched", "woken"} /\ wants[v] = n
      BY <1>4, <1>6, <2>2, <3>1
    <3>3. Waits(v, n)
      BY <3>2, OneThread
    <3> QED BY <1>5, <3>1, <3>3
  <2> QED BY <2>1, <2>2 DEF WaitInv
<1>10. \A v \in Thread, n \in Mutexes : HandedTo(v, n)' <=> HandedTo(v, n)
  <2>1. \A n \in Mutexes : ~HandedTo(t, n) /\ ~HandedTo(t, n)'
    BY <1>6 DEF HandedTo
  <2>2. \A n \in Mutexes : ~HandedTo(u, n) /\ ~HandedTo(u, n)'
    BY <1>1, <1>5 DEF HandedTo
  <2>3. ASSUME NEW v \in Thread, v # t, v # u, NEW n \in Mutexes
        PROVE  HandedTo(v, n)' <=> HandedTo(v, n)
    BY <1>5, <1>6, <2>3 DEF HandedTo
  <2> QED BY <2>1, <2>2, <2>3
<1>11. OwnersInv'
  BY <1>4, <1>5, <1>10, SameOwners DEF history
<1>q. Quiet
  BY <1>3, <1>4 DEF Quiet, mutex, history
<1> QED BY <1>q, <1>7, <1>8, <1>9, <1>11 DEF MutexInv

-----------------------------------------------------------------------------
(* Every step but four is quiet. *)
LoudStep ==
    \E t \in Thread \ {Idle}, m \in Mutexes :
        \/ TakeFree(t, m)
        \/ \E timed \in BOOLEAN : TakeWaits(t, m, timed)
        \/ ReleaseFree(t, m)
        \/ ReleaseHandsOver(t, m)

LEMMA NotIdle ==
    ASSUME MutexInv, NEW t \in Thread,
           (\E api : Calls(t, api)) \/ (k.cur = t /\ pc[t] # "user")
    PROVE  t # Idle
BY ThreadsAssumption DEF MutexInv, ThreadsInv, Calls

LEMMA StepSleep ==
    ASSUME MutexInv, NEW t \in Thread, Sleep(t)
    PROVE  MutexInv' /\ Quiet
<1>0. Sleeps(t) /\ UNCHANGED <<mutex, wants, held, nested>>
  BY DEF Sleep, history
<1>1. CASE Calls(t, "sleep") /\ k' = StartTimer(rt_thread_suspend(k, t), t) /\ Goto(t, "sleep")
  <2>1. t # Idle /\ Running(t, "user")
    BY <1>1, NotIdle DEF Calls
  <2> QED BY <1>0, <1>1, <2>1, StepFallsAsleep
<1>2. CASE Reschedule(t, "sleep", "slept")
  <2>1. k.cur = t /\ pc[t] = "sleep" /\ Goto(t, "slept") /\ k' = rt_schedule(k)
    BY <1>2 DEF Reschedule, Running
  <2> QED BY <1>0, <2>1, StepSchedule
<1>3. CASE /\ Running(t, "slept")
           /\ k' = [k EXCEPT !.err[t] = IF @ = "timeout" THEN "ok" ELSE @]
           /\ Goto(t, "user")
  <2>1. k \in KernelState
    BY DEF MutexInv, ThreadsInv, Sound
  <2>2. k.err[t] \in Error /\ "ok" \in Error
    BY <2>1 DEF KernelState, Error
  <2>3. PICK e \in Error : e = IF k.err[t] = "timeout" THEN "ok" ELSE k.err[t]
    BY <2>2
  <2>4. k' = [k EXCEPT !.err[t] = e]
    BY <1>3, <2>1, <2>3 DEF KernelState
  <2> QED BY <1>0, <1>3, <2>4, StepError
<1> QED BY <1>0, <1>1, <1>2, <1>3 DEF Sleeps

LEMMA StepSwitches ==
    ASSUME MutexInv, NEW t \in Thread, TakeSchedules(t) \/ ReleaseSchedules(t)
    PROVE  MutexInv' /\ Quiet
<1>1. /\ UNCHANGED <<mutex, wants, held, nested>> /\ k' = rt_schedule(k) /\ k.cur = t
      /\ \/ pc[t] = "sched" /\ Goto(t, "woken")
         \/ pc[t] = "released" /\ Goto(t, "user")
  BY DEF TakeSchedules, ReleaseSchedules, Reschedule, Running, history
<1> QED BY <1>1, StepSchedule

LEMMA StepRefused ==
    ASSUME MutexInv, NEW t \in Thread, NEW m \in Mutexes,
           TakeFails(t, m) \/ ReleaseRefused(t, m)
    PROVE  MutexInv' /\ Quiet
<1>1. PICK e \in {"timeout", "error"} : k' = [k EXCEPT !.err[t] = e]
  BY DEF TakeFails, ReleaseRefused
<1>2. e \in Error /\ Running(t, "user") /\ UNCHANGED <<pc, mutex, wants, held, nested>>
  BY DEF TakeFails, ReleaseRefused, Calls, Error, history
<1> QED BY <1>1, <1>2, StepError

LEMMA StepDetach ==
    ASSUME MutexInv, NEW t \in Thread, DetachResumes(t)
    PROVE  MutexInv' /\ Quiet
<1>1. UNCHANGED <<mutex, wants, history>>
  BY DEF DetachResumes
<1>2. CASE ChecksList(t, "check", wants[t], "resume", "user")
  <2>1. k.cur = t /\ pc[t] = "check" /\ UNCHANGED k
    BY <1>2 DEF ChecksList, Running
  <2>2. PICK at \in {"resume", "user", "fault"} : Goto(t, at)
    BY <1>2 DEF ChecksList
  <2>3. t # Idle
    BY <2>1, NotIdle
  <2> QED BY <1>1, <2>1, <2>2, <2>3, StepDetachGoes
<1>3. CASE ResumesNext(t, "resume", wants[t], "check")
  <2>1. k.cur = t /\ pc[t] = "resume"
    BY <1>3 DEF ResumesNext, Running
  <2>2. t # Idle
    BY <2>1, NotIdle
  <2>3. CASE k.list[wants[t]] # <<>>
    <3>1. k' = ResumeWithError(k, wants[t]) /\ Goto(t, "check")
      BY <1>3, <2>3 DEF ResumesNext
    <3> QED BY <1>1, <2>1, <2>2, <2>3, <3>1, StepDetachResumes
  <2>4. CASE k.list[wants[t]] = <<>>
    <3>1. UNCHANGED k /\ Goto(t, "fault")
      BY <1>3, <2>4 DEF ResumesNext
    <3> QED BY <1>1, <2>1, <2>2, <3>1, StepDetachGoes
  <2> QED BY <2>3, <2>4
<1> QED BY <1>2, <1>3 DEF DetachResumes

LEMMA StepStutter ==
    ASSUME MutexInv, UNCHANGED vars
    PROVE  MutexInv' /\ Quiet
<1>1. Quiet
  BY DEF vars, mutex, history, Quiet
<1>2. TypeOK'
  BY DEF MutexInv, vars, mutex, history, TypeOK
<1>3. ThreadsInv' /\ WaitInv'
  BY DEF MutexInv, vars, ThreadsInv, WaitInv, Waits, Failed
<1>4. OwnersInv'
  BY DEF MutexInv, vars, mutex, history, OwnersInv, FreeOrOwned, MutualExclusion,
         OriginalKnown, HandedTo, Waits, Failed
<1> QED BY <1>1, <1>2, <1>3, <1>4 DEF MutexInv

LEMMA StepMutex ==
    ASSUME MutexInv, [Next]_vars
    PROVE  MutexInv' /\ (Quiet \/ LoudStep)
<1>1. ASSUME NEW t \in Thread, ThreadStep(t) PROVE MutexInv' /\ (Quiet \/ LoudStep)
  <2>1. CASE TakeSchedules(t) \/ ReleaseSchedules(t)
    BY <2>1, StepSwitches
  <2>2. CASE TakeReturns(t)
    BY <2>2, StepTakeReturns
  <2>3. CASE Sleep(t)
    BY <2>3, StepSleep
  <2>4. CASE DetachResumes(t)
    BY <2>4, StepDetach
  <2>5. ASSUME NEW m \in Mutexes,
               \/ TakeAgain(t, m)
               \/ TakeFree(t, m)
               \/ \E timed \in BOOLEAN : TakeWaits(t, m, timed)
               \/ TakeFails(t, m)
               \/ ReleaseHeld(t, m)
               \/ ReleaseFree(t, m)
               \/ ReleaseHandsOver(t, m)
               \/ ReleaseRefused(t, m)
               \/ DetachStarts(t, m)
        PROVE  MutexInv' /\ (Quiet \/ LoudStep)
    <3>0. t # Idle
      <4>1. \E api : Calls(t, api)
        BY <2>5 DEF TakeAgain, TakeFree, TakeWaits, TakeFails, ReleaseHeld, ReleaseFree,
                    ReleaseHandsOver, ReleaseRefused, DetachStarts
      <4> QED BY <4>1, NotIdle
    <3>1. CASE TakeAgain(t, m)
      BY <3>1, StepTakeAgain
    <3>2. CASE TakeFree(t, m)
      BY <3>0, <3>2, StepTakeFree DEF LoudStep
    <3>3. ASSUME NEW timed \in BOOLEAN, TakeWaits(t, m, timed)
          PROVE  MutexInv' /\ LoudStep
      BY <3>0, <3>3, StepTakeWaits DEF LoudStep
    <3>4. CASE TakeFails(t, m) \/ ReleaseRefused(t, m)
      BY <3>4, StepRefused
    <3>5. CASE ReleaseHeld(t, m)
      BY <3>0, <3>5, StepReleaseHeld
    <3>6. CASE ReleaseFree(t, m)
      BY <3>0, <3>6, StepReleaseFree DEF LoudStep
    <3>7. CASE ReleaseHandsOver(t, m)
      BY <3>0, <3>7, StepReleaseHandsOver DEF LoudStep
    <3>8. CASE DetachStarts(t, m)
      BY <3>0, <3>8, StepDetachStarts
    <3> QED BY <2>5, <3>1, <3>2, <3>3, <3>4, <3>5, <3>6, <3>7, <3>8
  <2>6. { n \in alive : MaxTakes[t][n] > 0 } \subseteq Mutexes
    BY DEF MutexInv, TypeOK
  <2> QED BY <1>1, <2>1, <2>2, <2>3, <2>4, <2>5, <2>6 DEF ThreadStep
<1>2. CASE Slice
  <2>1. k' = rt_schedule(k) /\ UNCHANGED <<pc, mutex, wants, held, nested>>
    BY <1>2 DEF Slice, SliceExpires, history
  <2> QED BY <2>1, StepSchedule
<1>3. ASSUME NEW u \in Thread, Timeout(u) PROVE MutexInv' /\ Quiet
  BY <1>3, StepTimeout
<1>4. CASE UNCHANGED vars
  BY <1>4, StepStutter
<1> QED BY <1>1, <1>2, <1>3, <1>4 DEF Next

LEMMA AlwaysMutexInv == Spec => []MutexInv
BY InitMutex, StepMutex, PTL DEF Spec

(* The scheduler's structures, the program counters and the fields of each *)
(* mutex stay of their types.                                              *)
THEOREM MutexTyped == Spec => []TypeOK
<1>1. MutexInv => TypeOK
  BY DEF MutexInv
<1> QED BY <1>1, AlwaysMutexInv, PTL

(* What a thread was told of a mutex is so, for any number of threads and  *)
(* mutexes: takes and releases balance, a mutex handed to a sleeping       *)
(* thread belongs to nobody else, and no time-out or detach in between     *)
(* leaves it with two owners.                                              *)
THEOREM MutexExcludes == Spec => []MutualExclusion
<1>1. MutexInv => MutualExclusion
  BY DEF MutexInv, OwnersInv
<1> QED BY <1>1, AlwaysMutexInv, PTL

(* A mutex is free or owned, never in between, and nobody waits for a free *)
(* one.                                                                    *)
THEOREM MutexWhole == Spec => []FreeOrOwned
<1>1. MutexInv => FreeOrOwned
  BY DEF MutexInv, OwnersInv
<1> QED BY <1>1, AlwaysMutexInv, PTL

(* Priority changes of threads that run, are ready, or wait leave the      *)
(* ready lists and the lists of waiters whole.                             *)
THEOREM MutexKernelConsistent == Spec => []KernelConsistent
<1>1. MutexInv => KernelConsistent
  BY InvInvariants
<1> QED BY <1>1, AlwaysMutexInv, PTL

-----------------------------------------------------------------------------
(* The inheritance of priorities.  A thread that never owned two mutexes   *)
(* owns at most one, which keeps the priority it started with, and has     *)
(* that priority itself when it owns none.                                 *)
InheritInv ==
    /\ \A t \in Thread \ nested, m, n \in Mutexes :
          owner[m] = t /\ owner[n] = t => m = n
    /\ \A t \in Thread \ nested, m \in Mutexes :
          owner[m] = t => original[m] = InitPriority[t]
    /\ PriorityRestored

LEMMA InitInherit == Init => InheritInv
<1> SUFFICES ASSUME Init PROVE InheritInv
  OBVIOUS
<1>1. k.prio = InitPriority
  BY DEF Init, ThreadsInit, KernelStart
<1>2. \A m \in Mutexes, t \in Thread : owner[m] # t
  BY MutexAssumption DEF Init
<1> QED BY <1>1, <1>2 DEF InheritInv, PriorityRestored

(* A thread that becomes owner of m, and owned none or is nested from now  *)
(* on; no other thread becomes owner or changes its priority.              *)
LEMMA NewOwner ==
    ASSUME MutexInv, InheritInv, NEW u \in Thread, NEW m \in Mutexes, owner[m] # u,
           owner' = [owner EXCEPT ![m] = u],
           nested' = (IF Owns(u) \subseteq {m} THEN nested ELSE nested \cup {u}),
           original' = [original EXCEPT ![m] = k.prio[u]],
           \A t \in Thread \ {u} :
               k'.prio[t] = IF owner[m] = t THEN original[m] ELSE k.prio[t]
    PROVE  InheritInv'
<1>1. /\ owner'[m] = u /\ original'[m] = k.prio[u]
      /\ \A n \in Mutexes \ {m} : owner'[n] = owner[n] /\ original'[n] = original[n]
  BY DEF MutexInv, TypeOK
<1>2. nested \subseteq nested'
  OBVIOUS
<1>3. ASSUME u \notin nested' PROVE \A n \in Mutexes : owner[n] # u
  BY <1>3 DEF Owns
<1>4. ASSUME u \notin nested' PROVE k.prio[u] = InitPriority[u]
  <2>1. Owns(u) = {}
    BY <1>3, <1>4 DEF Owns
  <2> QED BY <1>2, <1>4, <2>1 DEF InheritInv, PriorityRestored
<1>5. ASSUME NEW t \in Thread \ nested', NEW a \in Mutexes, NEW b \in Mutexes,
             owner'[a] = t, owner'[b] = t
      PROVE  a = b
  <2>1. CASE t = u
    BY <1>1, <1>3, <1>5, <2>1
  <2>2. CASE t # u
    <3>1. a # m /\ b # m
      BY <1>1, <1>5, <2>2
    <3>2. owner[a] = t /\ owner[b] = t /\ t \in Thread \ nested
      BY <1>1, <1>2, <1>5, <3>1
    <3> QED BY <3>2 DEF InheritInv
  <2> QED BY <2>1, <2>2
<1>6. ASSUME NEW t \in Thread \ nested', NEW n \in Mutexes, owner'[n] = t
      PROVE  original'[n] = InitPriority[t]
  <2>1. CASE n = m
    BY <1>1, <1>4, <1>6, <2>1
  <2>2. CASE n # m
    <3>1. owner[n] = t /\ t \in Thread \ nested
      BY <1>1, <1>2, <1>6, <2>2
    <3> QED BY <1>1, <2>2, <3>1 DEF InheritInv
  <2> QED BY <2>1, <2>2
<1>7. ASSUME NEW t \in Thread \ nested', \A n \in Mutexes : owner'[n] # t
      PROVE  k'.prio[t] = InitPriority[t]
  <2>1. t # u /\ t \in Thread \ nested
    BY <1>1, <1>2, <1>7
  <2>2. CASE owner[m] = t
    <3>1. original[m] = InitPriority[t]
      BY <2>1, <2>2 DEF InheritInv
    <3> QED BY <2>1, <2>2, <3>1
  <2>3. CASE owner[m] # t
    <3>1. Owns(t) = {}
      BY <1>1, <1>7, <2>3 DEF Owns
    <3>2. k.prio[t] = InitPriority[t]
      BY <2>1, <3>1 DEF InheritInv, PriorityRestored
    <3> QED BY <2>1, <2>3, <3>2
  <2> QED BY <2>2, <2>3
<1>8. PriorityRestored'
  BY <1>7 DEF PriorityRestored, Owns
<1> QED BY <1>5, <1>6, <1>8 DEF InheritInv

(* What a release changes for the threads. *)
LEMMA ReleaseEffect ==
    ASSUME MutexInv, NEW t \in Thread, NEW m \in Mutexes, ReleaseFree(t, m)
    PROVE  /\ k'.prio[t] = original[m]
           /\ \A u \in Thread \ {t} : k'.prio[u] = k.prio[u]
           /\ \A n \in Mutexes : k'.list[n] = k.list[n]
<1>1. owner[m] = t /\ k' = BackToOriginal(m) /\ t # NoOwner
  BY MutexAssumption DEF ReleaseFree
<1>2. k'.prio = [k.prio EXCEPT ![t] = original[m]] /\ SameQueues(k', k)
  BY <1>1, BackEffect
<1>3. \A n \in Mutexes : k'.list[n] = k.list[n]
  BY <1>2, MutexAssumption DEF SameQueues
<1> QED BY <1>2, <1>3 DEF MutexInv, ThreadsInv, Sound, KernelState

LEMMA HandOverEffect ==
    ASSUME MutexInv, NEW t \in Thread \ {Idle}, NEW m \in Mutexes, ReleaseHandsOver(t, m)
    PROVE  \E u \in Thread \ {t} :
              /\ u = Head(k.list[m])
              /\ owner' = [owner EXCEPT ![m] = u]
              /\ nested' = (IF Owns(u) \subseteq {m} THEN nested ELSE nested \cup {u})
              /\ original' = [original EXCEPT ![m] = k.prio[u]]
              /\ k'.prio[t] = original[m]
              /\ \A v \in Thread \ {t} : k'.prio[v] = k.prio[v]
              /\ \A n \in Mutexes : k'.list[n] = RemoveFirst(k.list[n], u)
              /\ \A n \in Mutexes, v \in Thread :
                    Contains(k'.list[n], v) <=> Waits(v, n) /\ v # u
<1>1. /\ owner[m] = t /\ k.list[m] # <<>> /\ k.cur = t /\ pc[t] = "user" /\ t # NoOwner
      /\ k' = rt_ipc_list_resume(BackToOriginal(m), m)
  BY MutexAssumption DEF ReleaseHandsOver, Calls, Running
<1>2. PICK u \in Thread : u = Head(k.list[m]) /\ u # t
  BY <1>1, FirstWaiter
<1>3. /\ owner' = [owner EXCEPT ![m] = u]
      /\ nested' = (IF Owns(u) \subseteq {m} THEN nested ELSE nested \cup {u})
      /\ original' = [original EXCEPT ![m] = k.prio[u]]
  BY <1>2 DEF ReleaseHandsOver, BecomesOwner
<1> DEFINE kk == BackToOriginal(m)
<1>4. /\ Sound(kk) /\ SameQueues(kk, k) /\ kk.stat = k.stat /\ kk.cur = k.cur
      /\ kk.prio = [k.prio EXCEPT ![t] = original[m]]
  BY <1>1, BackEffect DEF SameCurrent
<1> HIDE DEF kk
<1>5. k.stat[k.cur] = "running"
  BY <1>1, CallerRuns
<1>6. /\ k'.prio = kk.prio
      /\ \A n \in Mutexes : k'.list[n] = RemoveFirst(k.list[n], u)
      /\ \A n \in Mutexes, v \in Thread :
            Contains(k'.list[n], v) <=> Waits(v, n) /\ v # u
  BY <1>1, <1>2, <1>4, <1>5, ResumeEffect DEF kk
<1>7. k'.prio[t] = original[m] /\ \A v \in Thread \ {t} : k'.prio[v] = k.prio[v]
  BY <1>4, <1>6 DEF MutexInv, ThreadsInv, Sound, KernelState
<1> QED BY <1>2, <1>3, <1>6, <1>7

LEMMA StepInherit ==
    ASSUME MutexInv, InheritInv, Quiet \/ LoudStep
    PROVE  InheritInv'
<1>1. CASE Quiet
  BY <1>1 DEF Quiet, InheritInv, PriorityRestored, Owns
<1>2. ASSUME NEW t \in Thread, NEW m \in Mutexes, TakeFree(t, m)
      PROVE  InheritInv'
  <2>1. /\ k' = [k EXCEPT !.err[t] = "ok"] /\ owner[m] # t /\ owner[m] \notin Thread
        /\ owner' = [owner EXCEPT ![m] = t]
        /\ nested' = (IF Owns(t) \subseteq {m} THEN nested ELSE nested \cup {t})
        /\ original' = [original EXCEPT ![m] = k.prio[t]]
    <3>1. owner[m] = NoOwner
      BY <1>2, OneMutex DEF TakeFree
    <3> QED BY <1>2, <3>1, MutexAssumption DEF TakeFree, BecomesOwner
  <2>2. k'.prio = k.prio
    BY <2>1 DEF MutexInv, ThreadsInv, Sound, KernelState
  <2>3. \A v \in Thread \ {t} : k'.prio[v] = IF owner[m] = v THEN original[m] ELSE k.prio[v]
    BY <2>1, <2>2
  <2> QED BY <2>1, <2>3, NewOwner
<1>3. ASSUME NEW t \in Thread \ {Idle}, NEW m \in Mutexes, NEW timed \in BOOLEAN,
             TakeWaits(t, m, timed)
      PROVE  InheritInv'
  <2>1. UNCHANGED <<owner, original, nested>>
    BY <1>3 DEF TakeWaits, mutex, history
  <2>2. /\ owner[m] \in Thread \ {t}
        /\ \A u \in Thread \ {owner[m]} : k'.prio[u] = k.prio[u]
    BY <1>3, WaitsEffect
  <2>3. ASSUME NEW u \in Thread \ nested, Owns(u) = {} PROVE k'.prio[u] = InitPriority[u]
    <3>1. u # owner[m]
      BY <2>3 DEF Owns
    <3> QED BY <2>2, <2>3, <3>1 DEF InheritInv, PriorityRestored
  <2> QED BY <2>1, <2>3 DEF InheritInv, PriorityRestored, Owns
<1>4. ASSUME NEW t \in Thread, NEW m \in Mutexes, ReleaseFree(t, m)
      PROVE  InheritInv'
  <2>1. /\ owner[m] = t /\ owner' = [owner EXCEPT ![m] = NoOwner]
        /\ original' = [original EXCEPT ![m] = PriorityMax] /\ UNCHANGED nested
        /\ k' = BackToOriginal(m) /\ t # NoOwner
    BY <1>4, MutexAssumption DEF ReleaseFree
  <2>2. /\ k'.prio[t] = original[m]
        /\ \A u \in Thread \ {t} : k'.prio[u] = k.prio[u]
    BY <1>4, ReleaseEffect
  <2>3. \A n \in Mutexes :
          /\ owner'[n] = IF n = m THEN NoOwner ELSE owner[n]
          /\ original'[n] = IF n = m THEN PriorityMax ELSE original[n]
    BY <2>1 DEF MutexInv, TypeOK
  <2>4. ASSUME NEW u \in Thread \ nested, \A n \in Mutexes : owner'[n] # u
        PROVE  k'.prio[u] = InitPriority[u]
    <3>1. CASE u = t
      BY <2>1, <2>2, <3>1 DEF InheritInv
    <3>2. CASE u # t
      <4>1. Owns(u) = {}
        BY <2>1, <2>3, <2>4, <3>2 DEF Owns
      <4> QED BY <2>2, <3>2, <4>1 DEF InheritInv, PriorityRestored
    <3> QED BY <3>1, <3>2
  <2>5. PriorityRestored'
    BY <2>1, <2>4 DEF PriorityRestored, Owns
  <2>6. NoOwner \notin Thread
    BY MutexAssumption
  <2> QED BY <2>1, <2>3, <2>5, <2>6 DEF InheritInv
<1>5. ASSUME NEW t \in Thread \ {Idle}, NEW m \in Mutexes, ReleaseHandsOver(t, m)
      PROVE  InheritInv'
  <2>1. owner[m] = t
    BY <1>5 DEF ReleaseHandsOver
  <2>2. PICK u \in Thread \ {t} :
           /\ owner' = [owner EXCEPT ![m] = u]
           /\ nested' = (IF Owns(u) \subseteq {m} THEN nested ELSE nested \cup {u})
           /\ original' = [original EXCEPT ![m] = k.prio[u]]
           /\ k'.prio[t] = original[m]
           /\ \A v \in Thread \ {t} : k'.prio[v] = k.prio[v]
    BY <1>5, HandOverEffect
  <2>3. \A v \in Thread \ {u} : k'.prio[v] = IF owner[m] = v THEN original[m] ELSE k.prio[v]
    BY <2>1, <2>2
  <2>4. owner[m] # u
    BY <2>1, <2>2
  <2> QED BY <2>2, <2>3, <2>4, NewOwner
<1> QED BY <1>1, <1>2, <1>3, <1>4, <1>5 DEF LoudStep

(* A thread that owns no mutex has the priority it started with, unless it *)
(* once owned two at a time: after any boost, hand-over, time-out of the   *)
(* thread that boosted it, or detach.                                      *)
THEOREM MutexRestoresPriority == Spec => []PriorityRestored
<1>1. MutexInv /\ InheritInv /\ [Next]_vars => (MutexInv /\ InheritInv)'
  BY StepMutex, StepInherit
<1>2. Init => MutexInv /\ InheritInv
  BY InitMutex, InitInherit
<1>3. InheritInv => PriorityRestored
  BY DEF InheritInv
<1> QED BY <1>1, <1>2, <1>3, PTL DEF Spec

-----------------------------------------------------------------------------
(* In lists kept in the order of priorities: each waiter that owns no      *)
(* mutex, so that nobody boosts it, waits behind no less urgent thread.    *)
OrderInv ==
    \A m \in Mutexes, x \in Thread, y \in Thread :
        Before(k.list[m], x, y) /\ Owns(y) = {} => k.prio[x] <= k.prio[y]

LEMMA InitOrder == Init => OrderInv /\ NoSimpleReversion
<1> SUFFICES ASSUME Init PROVE OrderInv /\ NoSimpleReversion
  OBVIOUS
<1>1. \A m \in Mutexes : k.list[m] = <<>>
  BY InitMutex, OneMutex DEF Init
<1> QED BY <1>1 DEF OrderInv, NoSimpleReversion, Waits, Contains, Before

LEMMA BeforeContains ==
    ASSUME NEW s, NEW x, NEW y, Before(s, x, y)
    PROVE  Contains(s, x) /\ Contains(s, y)
BY DEF Before, Contains

LEMMA WaitedForIsOwned ==
    ASSUME MutexInv, NEW w \in Thread, NEW m \in Mutexes, Waits(w, m)
    PROVE  owner[m] \in Thread /\ owner[m] # w /\ value[m] = 0
<1>1. k.list[m] # <<>>
  BY DEF Waits, Contains
<1> QED BY <1>1, OneMutex DEF Waits

LEMMA Priorities ==
    ASSUME MutexInv, NEW t \in Thread
    PROVE  k.prio[t] \in Nat
BY KernelAssumption DEF MutexInv, ThreadsInv, Sound, KernelState, Priority

LEMMA ListsOfThreads ==
    ASSUME MutexInv, NEW m \in Mutexes
    PROVE  k.list[m] \in Seq(Thread) /\ IsInjective(k.list[m])
BY MutexAssumption
   DEF MutexInv, ThreadsInv, Sound, KernelState, KernelOK, LinkedOnce, ListHead

LEMMA OrderQuiet ==
    ASSUME MutexInv, OrderInv, NoSimpleReversion, Quiet
    PROVE  OrderInv' /\ NoSimpleReversion'
<1>1. ASSUME NEW m \in Mutexes, NEW x \in Thread, NEW y \in Thread, Before(k'.list[m], x, y)
      PROVE  Before(k.list[m], x, y)
  <2>1. CASE k'.list[m] = k.list[m]
    BY <1>1, <2>1
  <2>2. ASSUME NEW u \in Thread, k'.list[m] = RemoveFirst(k.list[m], u)
        PROVE  Before(k.list[m], x, y)
    BY <1>1, <2>2, ListsOfThreads, RemoveKeepsOrder
  <2> QED BY <2>1, <2>2 DEF Quiet
<1>2. ASSUME NEW m \in Mutexes, NEW w \in Thread, Waits(w, m)'
      PROVE  Waits(w, m)
  <2>1. CASE k'.list[m] = k.list[m]
    BY <1>2, <2>1 DEF Waits
  <2>2. ASSUME NEW u \in Thread, k'.list[m] = RemoveFirst(k.list[m], u)
        PROVE  Waits(w, m)
    BY <1>2, <2>2, ListsOfThreads, RemoveFromList DEF Waits
  <2> QED BY <2>1, <2>2 DEF Quiet
<1>3. UNCHANGED <<owner, nested>> /\ k'.prio = k.prio
  BY DEF Quiet
<1>4. \A t \in Thread : Owns(t)' = Owns(t)
  BY <1>3 DEF Owns
<1>5. OrderInv'
  BY <1>1, <1>3, <1>4 DEF OrderInv
<1>6. NoSimpleReversion'
  BY <1>2, <1>3, <1>4 DEF NoSimpleReversion
<1> QED BY <1>5, <1>6

LEMMA OrderTakeFree ==
    ASSUME MutexInv, OrderInv, NoSimpleReversion,
           NEW t \in Thread, NEW m \in Mutexes, TakeFree(t, m)
    PROVE  OrderInv' /\ NoSimpleReversion'
<1>1. /\ k' = [k EXCEPT !.err[t] = "ok"] /\ owner' = [owner EXCEPT ![m] = t]
      /\ nested' = (IF Owns(t) \subseteq {m} THEN nested ELSE nested \cup {t})
      /\ value[m] = 1 /\ owner[m] = NoOwner
  BY OneMutex DEF TakeFree, BecomesOwner
<1>2. k'.prio = k.prio /\ k'.list = k.list
  BY <1>1 DEF MutexInv, ThreadsInv, Sound, KernelState
<1>3. \A n \in Mutexes : owner'[n] = IF n = m THEN t ELSE owner[n]
  BY <1>1 DEF MutexInv, TypeOK
<1>4. ASSUME NEW u \in Thread, Owns(u)' = {} PROVE Owns(u) = {}
  <2>1. owner[m] # u
    BY <1>1, MutexAssumption
  <2>2. \A n \in Mutexes : owner'[n] # u
    BY <1>4 DEF Owns
  <2> QED BY <1>3, <2>1, <2>2 DEF Owns
<1>5. OrderInv'
  BY <1>2, <1>4 DEF OrderInv
<1>6. \A w \in Thread, n \in Mutexes : Waits(w, n)' => Waits(w, n) /\ n # m
  BY <1>1, <1>2, WaitedForIsOwned DEF Waits
<1>7. nested \subseteq nested'
  BY <1>1
<1>8. ASSUME NEW n \in Mutexes, NEW w \in Thread,
             Waits(w, n)', Owns(w)' = {}, owner'[n] \notin nested'
      PROVE  k'.prio[owner'[n]] <= k'.prio[w]
  <2>1. Waits(w, n) /\ Owns(w) = {} /\ owner'[n] = owner[n] /\ owner[n] \notin nested
    BY <1>3, <1>4, <1>6, <1>7, <1>8
  <2> QED BY <1>2, <2>1 DEF NoSimpleReversion
<1>9. NoSimpleReversion'
  BY <1>8 DEF NoSimpleReversion
<1> QED BY <1>5, <1>9

LEMMA OrderReleaseFree ==
    ASSUME MutexInv, InheritInv, OrderInv, NoSimpleReversion,
           NEW t \in Thread, NEW m \in Mutexes, ReleaseFree(t, m)
    PROVE  OrderInv' /\ NoSimpleReversion'
<1>1. /\ owner[m] = t /\ owner' = [owner EXCEPT ![m] = NoOwner] /\ UNCHANGED nested
      /\ k.list[m] = <<>> /\ k.cur = t /\ pc[t] = "user"
  BY DEF ReleaseFree, Calls, Running
<1>2. /\ \A u \in Thread \ {t} : k'.prio[u] = k.prio[u]
      /\ \A n \in Mutexes : k'.list[n] = k.list[n]
  BY ReleaseEffect
<1>3. \A n \in Mutexes : owner'[n] = IF n = m THEN NoOwner ELSE owner[n]
  BY <1>1 DEF MutexInv, TypeOK
<1>4. \A n \in Mutexes : ~Waits(t, n)
  BY <1>1, CallerRuns
<1>5. ASSUME NEW u \in Thread \ {t}, Owns(u)' = {} PROVE Owns(u) = {}
  <2>1. \A n \in Mutexes : owner'[n] # u
    BY <1>5 DEF Owns
  <2> QED BY <1>1, <1>3, <2>1 DEF Owns
<1>6. ASSUME NEW n \in Mutexes, NEW x \in Thread, NEW y \in Thread,
             Before(k'.list[n], x, y), Owns(y)' = {}
      PROVE  k'.prio[x] <= k'.prio[y]
  <2>1. Before(k.list[n], x, y)
    BY <1>2, <1>6
  <2>2. x # t /\ y # t
    BY <1>4, <2>1, BeforeContains DEF Waits
  <2>3. Owns(y) = {}
    BY <1>5, <1>6, <2>2
  <2> QED BY <1>2, <2>1, <2>2, <2>3 DEF OrderInv
<1>7. ASSUME NEW n \in Mutexes, NEW w \in Thread,
             Waits(w, n)', Owns(w)' = {}, owner'[n] \notin nested'
      PROVE  k'.prio[owner'[n]] <= k'.prio[w]
  <2>1. Waits(w, n)
    BY <1>2, <1>7 DEF Waits
  <2>2. w # t /\ n # m
    BY <1>1, <1>4, <2>1 DEF Waits, Contains
  <2>3. owner'[n] = owner[n] /\ owner[n] \in Thread \ nested
    BY <1>1, <1>3, <1>7, <2>1, <2>2, WaitedForIsOwned
  <2>4. owner[n] # t
    BY <1>1, <2>2, <2>3 DEF InheritInv
  <2>5. Owns(w) = {}
    BY <1>5, <1>7, <2>2
  <2>6. k.prio[owner[n]] <= k.prio[w]
    BY <2>1, <2>3, <2>5 DEF NoSimpleReversion
  <2> QED BY <1>2, <2>2, <2>3, <2>4, <2>6
<1> QED BY <1>6, <1>7 DEF OrderInv, NoSimpleReversion

LEMMA OrderHandsOver ==
    ASSUME MutexInv, InheritInv, OrderInv, NoSimpleReversion,
           NEW t \in Thread \ {Idle}, NEW m \in Mutexes, ReleaseHandsOver(t, m)
    PROVE  OrderInv' /\ NoSimpleReversion'
<1>1. owner[m] = t /\ k.cur = t /\ pc[t] = "user" /\ k.list[m] # <<>>
  BY DEF ReleaseHandsOver, Calls, Running
<1>2. PICK u \in Thread \ {t} :
         /\ u = Head(k.list[m])
         /\ owner' = [owner EXCEPT ![m] = u]
         /\ nested' = (IF Owns(u) \subseteq {m} THEN nested ELSE nested \cup {u})
         /\ \A v \in Thread \ {t} : k'.prio[v] = k.prio[v]
         /\ \A n \in Mutexes : k'.list[n] = RemoveFirst(k.list[n], u)
         /\ \A n \in Mutexes, v \in Thread :
               Contains(k'.list[n], v) <=> Waits(v, n) /\ v # u
  BY HandOverEffect
<1>3. \A n \in Mutexes : owner'[n] = IF n = m THEN u ELSE owner[n]
  BY <1>2 DEF MutexInv, TypeOK
<1>4. \A n \in Mutexes : ~Waits(t, n)
  BY <1>1, CallerRuns
<1>5. ASSUME NEW v \in Thread \ {t}, Owns(v)' = {} PROVE Owns(v) = {}
  <2>1. \A n \in Mutexes : owner'[n] # v
    BY <1>5 DEF Owns
  <2> QED BY <1>1, <1>3, <2>1 DEF Owns
<1>6. nested \subseteq nested'
  BY <1>2
<1>7. ASSUME NEW n \in Mutexes, NEW x \in Thread, NEW y \in Thread,
             Before(k'.list[n], x, y), Owns(y)' = {}
      PROVE  k'.prio[x] <= k'.prio[y]
  <2>1. Before(k.list[n], x, y)
    BY <1>2, <1>7, ListsOfThreads, RemoveKeepsOrder
  <2>2. x # t /\ y # t
    BY <1>4, <2>1, BeforeContains DEF Waits
  <2>3. Owns(y) = {}
    BY <1>5, <1>7, <2>2
  <2> QED BY <1>2, <2>1, <2>2, <2>3 DEF OrderInv
<1>8. ASSUME NEW n \in Mutexes, NEW w \in Thread,
             Waits(w, n)', Owns(w)' = {}, owner'[n] \notin nested'
      PROVE  k'.prio[owner'[n]] <= k'.prio[w]
  <2>1. Waits(w, n) /\ w # u
    BY <1>2, <1>8 DEF Waits
  <2>2. w # t
    BY <1>4, <2>1
  <2>3. Owns(w) = {}
    BY <1>5, <1>8, <2>2
  <2>4. CASE n = m
    <3>1. PICK j \in 1 .. Len(k.list[m]) : k.list[m][j] = w
      BY <2>1, <2>4 DEF Waits, Contains
    <3>2. u = k.list[m][1] /\ Len(k.list[m]) \in Nat
      BY <1>1, <1>2, ListsOfThreads, HeadTailProperties
    <3>3. 1 \in 1 .. Len(k.list[m]) /\ 1 < j
      BY <2>1, <3>1, <3>2
    <3>4. Before(k.list[m], u, w)
      BY <3>1, <3>2, <3>3 DEF Before
    <3>5. k.prio[u] <= k.prio[w]
      BY <2>3, <3>4 DEF OrderInv
    <3> QED BY <1>2, <1>3, <2>2, <2>4, <3>5
  <2>5. CASE n # m
    <3>1. owner'[n] = owner[n] /\ owner[n] \in Thread \ nested
      BY <1>3, <1>6, <1>8, <2>1, <2>5, WaitedForIsOwned
    <3>2. owner[n] # t
      BY <1>1, <2>5, <3>1 DEF InheritInv
    <3>3. k.prio[owner[n]] <= k.prio[w]
      BY <2>1, <2>3, <3>1 DEF NoSimpleReversion
    <3> QED BY <1>2, <2>2, <3>1, <3>2, <3>3
  <2> QED BY <2>4, <2>5
<1> QED BY <1>7, <1>8 DEF OrderInv, NoSimpleReversion

LEMMA OrderTakeWaits ==
    ASSUME MutexInv, OrderInv, NoSimpleReversion, Flag = "prio",
           NEW t \in Thread \ {Idle}, NEW m \in Mutexes, NEW timed \in BOOLEAN,
           TakeWaits(t, m, timed)
    PROVE  OrderInv' /\ NoSimpleReversion'
<1>1. UNCHANGED <<owner, nested>> /\ k.cur = t /\ pc[t] = "user"
  BY DEF TakeWaits, Calls, Running, mutex, history
<1>2. PICK o \in Thread \ {t} : o = owner[m]
  BY WaitsEffect
<1>3. /\ k'.prio[t] = k.prio[t] /\ k'.prio[o] <= k.prio[t]
      /\ k'.prio[o] <= k.prio[o]
      /\ \A u \in Thread \ {o} : k'.prio[u] = k.prio[u]
      /\ \A n \in Mutexes \ {m} : k'.list[n] = k.list[n]
  BY <1>2, WaitsEffect
<1>4. PICK i \in 1 .. Len(k.list[m]) + 1 :
         /\ k'.list[m] = InsertAt(k.list[m], i, t)
         /\ \A j \in 1 .. Len(k.list[m]) : j < i => k'.prio[k.list[m][j]] <= k.prio[t]
         /\ i <= Len(k.list[m]) => k.prio[t] < k'.prio[k.list[m][i]]
  BY WaitsEffect
<1>5. k.list[m] \in Seq(Thread) /\ IsInjective(k.list[m]) /\ ~Contains(k.list[m], t)
  BY <1>1, CallerRuns, ListsOfThreads DEF Waits
<1>6. \A u \in Thread : k.prio[u] \in Nat /\ k'.prio[u] \in Nat
  <2>1. MutexInv'
    BY StepTakeWaits
  <2>2. \A u \in Thread : k'.prio[u] \in Nat
    BY <2>1, KernelAssumption DEF MutexInv, ThreadsInv, Sound, KernelState, Priority
  <2> QED BY <2>2, Priorities
<1>7. \A u \in Thread : k'.prio[u] <= k.prio[u]
  BY <1>3, <1>6
<1>8. \A u \in Thread : Owns(u)' = Owns(u) /\ (Owns(u) = {} => k'.prio[u] = k.prio[u])
  BY <1>1, <1>2, <1>3 DEF Owns
<1>9. ASSUME NEW n \in Mutexes, NEW x \in Thread, NEW y \in Thread,
             Before(k.list[n], x, y), Owns(y) = {}
      PROVE  k'.prio[x] <= k'.prio[y]
  <2>1. k.prio[x] <= k.prio[y] /\ k'.prio[y] = k.prio[y] /\ k'.prio[x] <= k.prio[x]
    BY <1>7, <1>8, <1>9 DEF OrderInv
  <2> QED BY <1>6, <2>1
<1>10. ASSUME NEW x \in Thread, NEW y \in Thread, Before(k'.list[m], x, y), Owns(y) = {}
       PROVE  k'.prio[x] <= k'.prio[y]
  <2>1. \/ Before(k.list[m], x, y)
        \/ y = t /\ \E j \in 1 .. Len(k.list[m]) : j < i /\ k.list[m][j] = x
        \/ x = t /\ \E j \in 1 .. Len(k.list[m]) : i <= j /\ k.list[m][j] = y
    BY <1>4, <1>5, <1>10, InsertInList
  <2>2. CASE Before(k.list[m], x, y)
    BY <1>9, <1>10, <2>2
  <2>3. ASSUME y = t, NEW j \in 1 .. Len(k.list[m]), j < i, k.list[m][j] = x
        PROVE  k'.prio[x] <= k'.prio[y]
    BY <1>3, <1>4, <2>3
  <2>4. ASSUME x = t, NEW j \in 1 .. Len(k.list[m]), i <= j, k.list[m][j] = y
        PROVE  k'.prio[x] <= k'.prio[y]
    <3>1. i \in 1 .. Len(k.list[m]) /\ k.prio[t] < k'.prio[k.list[m][i]]
      BY <1>4, <2>4
    <3>2. PICK z \in Thread : z = k.list[m][i]
      BY <1>5, <3>1
    <3>3. k'.prio[z] <= k'.prio[y]
      <4>1. CASE i = j
        <5>1. z = y
          BY <2>4, <3>2, <4>1
        <5> QED BY <1>6, <5>1
      <4>2. CASE i < j
        <5>1. Before(k.list[m], z, y)
          BY <2>4, <3>1, <3>2, <4>2 DEF Before
        <5> QED BY <1>9, <1>10, <5>1
      <4> QED BY <2>4, <3>1, <4>1, <4>2
    <3> QED BY <1>3, <1>6, <2>4, <3>1, <3>2, <3>3
  <2> QED BY <2>1, <2>2, <2>3, <2>4
<1>11. OrderInv'
  <2> SUFFICES ASSUME NEW n \in Mutexes, NEW x \in Thread, NEW y \in Thread,
                      Before(k'.list[n], x, y), Owns(y) = {}
               PROVE  k'.prio[x] <= k'.prio[y]
    BY <1>8 DEF OrderInv
  <2>1. CASE n = m
    BY <1>10, <2>1
  <2>2. CASE n # m
    BY <1>3, <1>9, <2>2
  <2> QED BY <2>1, <2>2
<1>12. ASSUME NEW n \in Mutexes, NEW w \in Thread,
              Waits(w, n)', Owns(w) = {}, owner[n] \notin nested
       PROVE  k'.prio[owner[n]] <= k'.prio[w]
  <2>1. CASE Waits(w, n)
    <3>1. k.prio[owner[n]] <= k.prio[w] /\ k'.prio[w] = k.prio[w] /\ owner[n] \in Thread
      BY <1>8, <1>12, <2>1, WaitedForIsOwned DEF NoSimpleReversion
    <3>2. k'.prio[owner[n]] <= k.prio[owner[n]]
      BY <1>7, <3>1
    <3> QED BY <1>6, <3>1, <3>2
  <2>2. CASE ~Waits(w, n)
    <3>1. n = m
      BY <1>3, <1>12, <2>2 DEF Waits
    <3>2. w = t
      BY <1>4, <1>5, <1>12, <2>2, <3>1, InsertInList DEF Waits
    <3> QED BY <1>2, <1>3, <3>1, <3>2
  <2> QED BY <2>1, <2>2
<1>13. NoSimpleReversion'
  BY <1>1, <1>8, <1>12 DEF NoSimpleReversion
<1> QED BY <1>11, <1>13

(* With waiters in the order of priorities, the owner of a mutex is at     *)
(* least as urgent as any thread that waits for it and owns none itself,   *)
(* unless the owner had two mutexes at a time.                             *)
THEOREM MutexInherits ==
    ASSUME Flag = "prio"
    PROVE  Spec => []NoSimpleReversion
<1> DEFINE Inv == MutexInv /\ InheritInv /\ OrderInv /\ NoSimpleReversion
<1>1. Init => Inv
  BY InitMutex, InitInherit, InitOrder
<1>2. Inv /\ [Next]_vars => Inv'
  <2> SUFFICES ASSUME MutexInv, InheritInv, OrderInv, NoSimpleReversion, Quiet \/ LoudStep
               PROVE  OrderInv' /\ NoSimpleReversion'
    BY StepMutex, StepInherit
  <2>1. CASE Quiet
    BY <2>1, OrderQuiet
  <2>2. CASE LoudStep
    BY <2>2, OrderTakeFree, OrderTakeWaits, OrderReleaseFree, OrderHandsOver DEF LoudStep
  <2> QED BY <2>1, <2>2
<1>3. Inv => NoSimpleReversion
  OBVIOUS
<1> QED BY <1>1, <1>2, <1>3, PTL DEF Spec
=============================================================================
