---------------------------- MODULE ObjectProofs ----------------------------
(***************************************************************************)
(* The objects with one list of waiters - the semaphore, the event, the    *)
(* message queue and the memory pool - for any threads, priorities and     *)
(* programs.                                                               *)
(***************************************************************************)
EXTENDS Semaphore, Event, MessageQueue, MemPool, KernelProofs, FiniteSetTheorems

(***************************************************************************)
(* The semaphore, for any flag and number of tokens: none is lost or made, *)
(* none idles while a thread waits, and every step of the code is a step   *)
(* of CountingSemaphore.                                                   *)
(*                                                                         *)
(* The proof goes by the effect a step has on the tokens and on who waits: *)
(* Effect lists the effects there are, StepEffect proves that each action  *)
(* has one of them, and the invariant and the refinement follow from that. *)
(***************************************************************************)

(* Nothing here changes a priority. *)
KernelInv == ThreadsOK(k, pc) /\ k.prio = InitPriority

(* Who holds a token is not in a blocking call of rt_sem_take. *)
HoldersOut == \A t \in holds : pc[t] \notin {"sched", "woken"}

FiniteTokens == IsFiniteSet(holds) /\ IsFiniteSet(Granted)

WaitersOrdered == Flag = "prio" => Ordered(Waiters, InitPriority)

SemInv ==
    /\ SemTypeOK
    /\ KernelInv
    /\ HoldersOut
    /\ WaitersOrdered
    /\ FiniteTokens
    /\ TokensConserved
    /\ NoTokenIdle

LEMMA GrantedIs ==
    Granted = GrantedOf(k, pc, Object) /\ Granted' = GrantedOf(k', pc', Object)
BY DEF Granted, Woken, Failed, Waits, GrantedOf, InList

-----------------------------------------------------------------------------
(* The effects of a step on the tokens, on those who wait and on those who *)
(* were given a token.                                                     *)

(* None, or a detach has started. *)
Keeps ==
    /\ Granted' = Granted /\ Waiters' = Waiters
    /\ UNCHANGED <<value, holds, total>>

(* t takes a token, or none is there and it waits. *)
Takes(t) ==
    /\ t \notin holds \cup Granted /\ ~Waits(t, Object)
    /\ value > 0 /\ value' = value - 1 /\ holds' = holds \cup {t}
    /\ Granted' = Granted /\ Waiters' = Waiters /\ UNCHANGED total

Enters(t) ==
    /\ t \notin holds \cup Granted /\ ~Waits(t, Object)
    /\ value = 0
    /\ Waiters' = InsertAt(Waiters, Place(k, Waiters, k.prio[t], Flag), t)
    /\ Granted' = Granted /\ UNCHANGED <<value, holds, total>>

(* t, that waited, was told of an error. *)
Leaves(t) ==
    /\ Waits(t, Object)
    /\ Waiters' = RemoveFirst(Waiters, t)
    /\ Granted' = Granted /\ UNCHANGED <<value, holds, total>>

(* t is back in its call with the token it was given. *)
Returns(t) ==
    /\ t \in Granted \ holds
    /\ Granted' = Granted \ {t} /\ holds' = holds \cup {t}
    /\ Waiters' = Waiters /\ UNCHANGED <<value, total>>

(* A token goes to the first who waits, or becomes available. *)
Given ==
    /\ Waiters # <<>> /\ Head(Waiters) \in Thread \ Granted
    /\ Waiters' = RemoveFirst(Waiters, Head(Waiters))
    /\ Granted' = Granted \cup {Head(Waiters)}
    /\ UNCHANGED value

Counts ==
    /\ Waiters = <<>> /\ Waiters' = <<>>
    /\ value' = value + 1 /\ Granted' = Granted

Releases(t) ==
    /\ t \in holds /\ holds' = holds \ {t}
    /\ Given \/ Counts
    /\ UNCHANGED total

Produces == (Given \/ Counts) /\ total' = total + 1 /\ UNCHANGED holds

Resets ==
    /\ Waiters' = <<>>
    /\ value' \in Nat /\ total' = total - value + value'
    /\ Granted' = Granted /\ UNCHANGED holds

Effect ==
    \/ Keeps \/ Produces \/ Resets
    \/ \E t \in Thread :
          Takes(t) \/ Enters(t) \/ Leaves(t) \/ Returns(t) \/ Releases(t)

-----------------------------------------------------------------------------
(* Who makes a call runs, is not idle and waits nowhere. *)
LEMMA SemCallerRuns ==
    ASSUME SemInv, NEW t \in Thread, NEW at, at \notin AtSwitch, Running(t, at)
    PROVE  /\ k.cur = t /\ pc[t] = at /\ k.stat[t] = "running" /\ ~Waits(t, Object)
           /\ at # "user" => t # Idle
           /\ \A api : Calls(t, api) => t # Idle
<1>1. k.cur = t /\ pc[k.cur] \notin AtSwitch /\ ThreadsOK(k, pc)
  BY DEF Running, SemInv, KernelInv
<1>2. k.stat[t] = "running" /\ ~InList(k, Object, t)
  BY <1>1, CallerRunning, IpcObjectAssumption
<1> QED BY <1>1, <1>2, ThreadsAssumption DEF Running, Calls, ThreadsOK, Waits, InList

LEMMA SemStateOK ==
    ASSUME SemInv
    PROVE  /\ ThreadsOK(k, pc) /\ Sound(k) /\ k \in KernelState /\ k.prio = InitPriority
           /\ pc \in [Thread -> PC] /\ Object \in WaitQueue
           /\ Waiters \in Seq(Thread) /\ IsInjective(Waiters)
           /\ value \in Nat /\ total \in Nat /\ holds \subseteq Thread
<1>1. ThreadsOK(k, pc) /\ k.prio = InitPriority /\ Object \in WaitQueue
  BY IpcObjectAssumption DEF SemInv, KernelInv
<1>2. Sound(k) /\ k \in KernelState
  BY <1>1 DEF ThreadsOK, Sound
<1>3. Waiters \in Seq(Thread) /\ IsInjective(Waiters)
  BY <1>1, <1>2, QueueOK DEF Waiters
<1> QED BY <1>1, <1>2, <1>3 DEF SemInv, SemTypeOK

(* rt_schedule, on the way out of a call or at the end of a slice *)
LEMMA StepSchedule ==
    ASSUME SemInv, k' = rt_schedule(k), UNCHANGED sem,
           \A u \in Thread :
              \/ pc'[u] = pc[u]
              \/ pc[u] = "sched" /\ pc'[u] = "woken"
              \/ pc[u] = "sleep" /\ pc'[u] = "slept"
              \/ pc[u] = "released" /\ pc'[u] = "user"
    PROVE  KernelInv' /\ Keeps
<1>1. ThreadsOK(k, pc) /\ k.prio = InitPriority /\ Object \in WaitQueue
  BY SemStateOK
<1>2. /\ ThreadsOK(k', pc') /\ k'.prio = k.prio /\ k'.err = k.err
      /\ \A q \in WaitQueue : k'.list[q] = k.list[q]
  BY <1>1, CallsSchedule
<1>3. GrantedOf(k', pc', Object) = GrantedOf(k, pc, Object)
  BY <1>1, <1>2 DEF GrantedOf, InList
<1> QED BY <1>1, <1>2, <1>3, GrantedIs DEF KernelInv, Keeps, sem, Waiters

LEMMA SemStepTimeout ==
    ASSUME SemInv, NEW u \in Thread, TimerFires(u), UNCHANGED sem
    PROVE  KernelInv' /\ (Keeps \/ Leaves(u))
<1>1. ThreadsOK(k, pc) /\ k.prio = InitPriority /\ Object \in WaitQueue
  BY SemStateOK
<1>2. k.tmr[u] /\ k' = rt_thread_timeout(k, u) /\ pc' = pc
  BY DEF TimerFires
<1>3. /\ ThreadsOK(k', pc) /\ k'.prio = k.prio
      /\ k.stat[u] = "suspend"
      /\ \A v \in Thread : k'.err[v] = IF v = u THEN "timeout" ELSE k.err[v]
      /\ k'.list[Object] = RemoveFirst(k.list[Object], u)
      /\ \A v : InList(k', Object, v) <=> InList(k, Object, v) /\ v # u
  BY <1>1, <1>2, CallsTimeout
<1>4. u \notin GrantedOf(k, pc, Object)
  BY <1>1, <1>3, ThreadOK, IpcObjectAssumption DEF GrantedOf
<1>5. GrantedOf(k', pc', Object) = GrantedOf(k, pc, Object)
  <2>1. \A v \in Thread : v \in GrantedOf(k', pc', Object) <=> v \in GrantedOf(k, pc, Object)
    BY <1>2, <1>3, <1>4 DEF GrantedOf
  <2> QED BY <2>1 DEF GrantedOf
<1>6. KernelInv' /\ Granted' = Granted /\ Waiters' = RemoveFirst(Waiters, u)
  BY <1>1, <1>2, <1>3, <1>5, GrantedIs DEF KernelInv, Waiters
<1>7. CASE Waits(u, Object)
  BY <1>6, <1>7 DEF Leaves, sem
<1>8. CASE ~Waits(u, Object)
  <2>1. Waiters' = Waiters
    <3>1. Waiters \in Seq(Thread) /\ ~Contains(Waiters, u)
      BY <1>8, SemStateOK DEF Waits, Waiters
    <3>2. RemoveFirst(Waiters, u) = Waiters
      BY <3>1, RemoveNothing
    <3> QED BY <1>6, <3>2
  <2> QED BY <1>6, <2>1 DEF Keeps, sem
<1> QED BY <1>7, <1>8

(* t goes on in its call, k but for its error unchanged. *)
LEMMA StepMoves ==
    ASSUME SemInv, NEW t \in Thread \ {Idle}, k.cur = t, pc[t] \notin AtSwitch,
           NEW to, pc' = [pc EXCEPT ![t] = to], UNCHANGED k
    PROVE  /\ KernelInv' /\ Waiters' = Waiters
           /\ Granted' = IF to \in {"sched", "woken"} /\ k.err[t] = "ok"
                         THEN Granted \cup {t} ELSE Granted \ {t}
<1>1. ThreadsOK(k, pc) /\ Sound(k) /\ k.prio = InitPriority /\ Object \in WaitQueue
  BY SemStateOK
<1>2. pc'[t] = to /\ \A u \in Thread \ {t} : pc'[u] = pc[u]
  BY SemStateOK
<1>3. ThreadsOK(k', pc')
  <2>1. k.cur # Idle /\ pc[k.cur] \notin AtSwitch /\ \A u \in Thread \ {k.cur} : pc'[u] = pc[u]
    BY <1>2
  <2>2. GoesOn(k', k, pc', pc)
    BY <1>1, <2>1 DEF GoesOn
  <2> QED BY <1>1, <2>1, <2>2, CallerMoves
<1>4. ~InList(k, Object, t)
  BY <1>1, CallerRunning
<1>5. GrantedOf(k', pc', Object) =
         IF to \in {"sched", "woken"} /\ k.err[t] = "ok"
         THEN GrantedOf(k, pc, Object) \cup {t} ELSE GrantedOf(k, pc, Object) \ {t}
  <2>1. \A v \in Thread \ {t} : v \in GrantedOf(k', pc', Object) <=> v \in GrantedOf(k, pc, Object)
    BY <1>2 DEF GrantedOf
  <2>2. t \in GrantedOf(k', pc', Object) <=> to \in {"sched", "woken"} /\ k.err[t] = "ok"
    BY <1>2, <1>4 DEF GrantedOf
  <2>3. GrantedOf(k', pc', Object) \subseteq Thread /\ GrantedOf(k, pc, Object) \subseteq Thread
    BY DEF GrantedOf
  <2> QED BY <2>1, <2>2, <2>3
<1> QED BY <1>1, <1>3, <1>5, GrantedIs DEF KernelInv, Waiters

LEMMA SemStepSleep ==
    ASSUME SemInv, NEW t \in Thread, SemSleep(t)
    PROVE  KernelInv' /\ Keeps
<1>1. /\ ThreadsOK(k, pc) /\ Sound(k) /\ k \in KernelState
      /\ k.prio = InitPriority /\ Object \in WaitQueue /\ pc \in [Thread -> PC]
  BY SemStateOK
<1>2. CASE Calls(t, "sleep") /\ k' = StartTimer(rt_thread_suspend(k, t), t) /\ Goto(t, "sleep")
  <2>1. k.cur = t /\ pc[t] = "user" /\ t # Idle
    <3>1. Running(t, "user")
      BY <1>2 DEF Calls
    <3> QED BY <1>2, <3>1, SemCallerRuns DEF AtSwitch
  <2>2. pc'[t] = "sleep" /\ \A u \in Thread \ {t} : pc'[u] = pc[u]
    BY <1>1, <1>2 DEF Goto
  <2>3. /\ ThreadsOK(k', pc') /\ k'.prio = k.prio /\ k'.err = k.err
        /\ \A q \in WaitQueue : k'.list[q] = k.list[q]
    BY <1>1, <1>2, <2>1, <2>2, CallsSleep DEF AtSwitch
  <2>4. GrantedOf(k', pc', Object) = GrantedOf(k, pc, Object)
    BY <1>1, <2>1, <2>2, <2>3 DEF GrantedOf, InList
  <2> QED BY <1>1, <2>3, <2>4, GrantedIs DEF KernelInv, Keeps, Waiters, SemSleep, sem
<1>3. CASE Reschedule(t, "sleep", "slept")
  <2>1. k' = rt_schedule(k) /\ pc[t] = "sleep" /\ UNCHANGED sem
    BY <1>3 DEF Reschedule, Running, SemSleep
  <2>2. \A u \in Thread : pc'[u] = pc[u] \/ (pc[u] = "sleep" /\ pc'[u] = "slept")
    BY <1>1, <1>3, <2>1 DEF Reschedule, Goto
  <2> QED BY <2>1, <2>2, StepSchedule
<1>4. CASE /\ Running(t, "slept")
           /\ k' = [k EXCEPT !.err[t] = IF @ = "timeout" THEN "ok" ELSE @]
           /\ Goto(t, "user")
  <2>1. k.cur = t /\ pc[t] = "slept" /\ t # Idle /\ ~InList(k, Object, t)
    BY <1>4, SemCallerRuns DEF AtSwitch, Waits, InList
  <2>2. pc'[t] = "user" /\ \A u \in Thread \ {t} : pc'[u] = pc[u]
    BY <1>1, <1>4 DEF Goto
  <2>3. PICK e \in Error : k' = [k EXCEPT !.err[t] = e]
    BY <1>1, <1>4 DEF KernelState, Error
  <2>4. Sound(k')
    BY <1>1, <2>1, <2>3, SemCallerRuns, <1>4, SoundError, ThreadOK DEF AtSwitch
  <2>5. /\ k'.cur = k.cur /\ k'.stat = k.stat /\ k'.list = k.list /\ k'.prio = k.prio
        /\ \A u \in Thread \ {t} : k'.err[u] = k.err[u]
    BY <1>1, <2>3 DEF KernelState
  <2>6. GoesOn(k', k, pc', pc)
    BY <2>1, <2>2, <2>4, <2>5 DEF GoesOn
  <2>7. ThreadsOK(k', pc')
    BY <1>1, <2>1, <2>6, CallerMoves DEF AtSwitch
  <2>8. GrantedOf(k', pc', Object) = GrantedOf(k, pc, Object)
    BY <2>1, <2>2, <2>5 DEF GrantedOf, InList
  <2> QED BY <1>1, <2>5, <2>7, <2>8, GrantedIs DEF KernelInv, Keeps, Waiters, SemSleep, sem
<1> QED BY <1>2, <1>3, <1>4 DEF SemSleep, Sleeps

LEMMA StepTakeNow ==
    ASSUME SemInv, NEW t \in Thread, TakeNow(t)
    PROVE  KernelInv' /\ Takes(t)
<1>1. Running(t, "user") /\ UNCHANGED <<k, pc>>
  BY DEF TakeNow, Calls
<1>2. ~Waits(t, Object) /\ pc[t] = "user"
  BY <1>1, SemCallerRuns DEF AtSwitch
<1>3. t \notin Granted
  BY <1>2 DEF Granted, Woken
<1>4. Granted' = Granted /\ Waiters' = Waiters /\ KernelInv'
  <2>1. KernelInv
    BY DEF SemInv
  <2> QED BY <1>1, <2>1, GrantedIs DEF Waiters, KernelInv
<1> QED BY <1>2, <1>3, <1>4 DEF TakeNow, Takes

LEMMA StepTakeWaits ==
    ASSUME SemInv, NEW t \in Thread, NEW timed \in BOOLEAN, TakeWaits(t, timed)
    PROVE  KernelInv' /\ Enters(t)
<1>1. /\ ThreadsOK(k, pc) /\ k.prio = InitPriority /\ Object \in WaitQueue
      /\ pc \in [Thread -> PC]
  BY SemStateOK
<1>2. k.cur = t /\ pc[t] = "user" /\ t # Idle /\ ~Waits(t, Object)
  <2>1. Running(t, "user") /\ Calls(t, "take")
    BY DEF Calls, TakeWaits
  <2> QED BY <2>1, SemCallerRuns DEF AtSwitch
<1>3. pc'[t] = "sched" /\ \A u \in Thread \ {t} : pc'[u] = pc[u]
  BY <1>1 DEF Goto, TakeWaits
<1>4. k' = BlockOf(k, t, Object, Flag, timed)
  BY DEF TakeWaits, Block, BlockOf
<1>5. /\ ThreadsOK(k', pc') /\ k'.prio = k.prio
      /\ k'.list[Object] = InsertAt(k.list[Object], Place(k, k.list[Object], k.prio[t], Flag), t)
  BY <1>1, <1>2, <1>3, <1>4, CallsBlock DEF AtSwitch
<1>6. /\ \A u \in Thread \ {t} : k'.err[u] = k.err[u]
      /\ \A v : InList(k', Object, v) <=> InList(k, Object, v) \/ v = t
  BY <1>1, <1>2, <1>3, <1>4, CallsBlock DEF AtSwitch
<1>7. GrantedOf(k', pc', Object) = GrantedOf(k, pc, Object)
  <2>1. t \notin GrantedOf(k', pc', Object) /\ t \notin GrantedOf(k, pc, Object)
    BY <1>2, <1>6 DEF GrantedOf
  <2> QED BY <1>3, <1>6, <2>1 DEF GrantedOf
<1>8. t \notin Granted
  BY <1>2 DEF Granted, Woken
<1> QED BY <1>1, <1>2, <1>5, <1>7, <1>8, GrantedIs DEF KernelInv, Enters, Waiters, TakeWaits, sem

LEMMA StepTakeReturns ==
    ASSUME SemInv, NEW t \in Thread, TakeReturns(t)
    PROVE  KernelInv' /\ (Keeps \/ Returns(t))
<1>1. k.cur = t /\ pc[t] = "woken" /\ t # Idle /\ ~Waits(t, Object)
  <2>1. Running(t, "woken")
    BY DEF TakeReturns
  <2> QED BY <2>1, SemCallerRuns DEF AtSwitch
<1>2. UNCHANGED k /\ pc' = [pc EXCEPT ![t] = "user"]
  BY DEF TakeReturns, Goto
<1>3. KernelInv' /\ Waiters' = Waiters /\ Granted' = Granted \ {t}
  <2>1. /\ KernelInv' /\ Waiters' = Waiters
        /\ Granted' = IF "user" \in {"sched", "woken"} /\ k.err[t] = "ok"
                      THEN Granted \cup {t} ELSE Granted \ {t}
    BY <1>1, <1>2, StepMoves DEF AtSwitch
  <2> QED BY <2>1
<1>4. t \in Granted <=> ~Failed(t)
  BY <1>1 DEF Granted, Woken
<1>5. t \notin holds
  BY <1>1 DEF SemInv, HoldersOut
<1> QED BY <1>3, <1>4, <1>5 DEF TakeReturns, Keeps, Returns

(* Where t goes on to is not in a blocking call. *)
OutOfCall == {"user", "released", "check", "resume", "fault"}

(* t resumes others without leaving the CPU: r is the kernel after that.   *)
LEMMA SemMovesOn ==
    ASSUME NEW r, ThreadsOK(r, pc), NEW t \in Thread \ {Idle}, r.cur = t, pc[t] \in OutOfCall,
           NEW to \in OutOfCall, pc \in [Thread -> PC], pc' = [pc EXCEPT ![t] = to]
    PROVE  /\ ThreadsOK(r, pc')
           /\ GrantedOf(r, pc', Object) = GrantedOf(r, pc, Object)
<1>1. pc'[t] = to /\ \A u \in Thread \ {t} : pc'[u] = pc[u]
  OBVIOUS
<1>2. GoesOn(r, r, pc', pc)
  BY <1>1 DEF GoesOn, ThreadsOK
<1>3. pc[r.cur] \notin AtSwitch /\ r.cur # Idle
  BY DEF AtSwitch, OutOfCall
<1>4. ThreadsOK(r, pc')
  BY <1>2, <1>3, CallerMoves
<1>5. t \notin GrantedOf(r, pc', Object) /\ t \notin GrantedOf(r, pc, Object)
  BY <1>1 DEF GrantedOf, OutOfCall
<1> QED BY <1>1, <1>4, <1>5 DEF GrantedOf

(* The first who waits is given a token. *)
LEMMA ResumeFirst ==
    ASSUME SemInv, Waiters # <<>>
    PROVE  LET r == rt_ipc_list_resume(k, Object)
               w == Head(Waiters)
           IN  /\ ThreadsOK(r, pc) /\ r.cur = k.cur /\ r.prio = k.prio
               /\ w \in Thread \ Granted
               /\ r.list[Object] = RemoveFirst(Waiters, w)
               /\ GrantedOf(r, pc, Object) = Granted \cup {w}
<1> DEFINE w == Head(Waiters)
           r == rt_thread_resume(k, w)
<1>1. /\ ThreadsOK(k, pc) /\ Sound(k) /\ Object \in WaitQueue
  BY SemStateOK
<1>2. w \in Thread /\ InList(k, Object, w)
  BY <1>1, QueueOK DEF Waiters
<1>3. rt_ipc_list_resume(k, Object) = r
  BY DEF rt_ipc_list_resume, Waiters
<1>4. w = Head(k.list[Object])
  BY DEF Waiters
<1> HIDE DEF w
<1>5. /\ ThreadsOK(r, pc) /\ r.cur = k.cur /\ r.prio = k.prio /\ r.err = k.err
      /\ r.list[Object] = RemoveFirst(k.list[Object], w)
      /\ \A v : InList(r, Object, v) <=> InList(k, Object, v) /\ v # w
  BY <1>1, <1>2, CallsResume
<1> HIDE DEF r
<1>6. k.err[w] = "ok" /\ pc[w] \in {"sched", "woken"}
  BY <1>1, <1>2, ThreadOK
<1>7. GrantedOf(r, pc, Object) = GrantedOf(k, pc, Object) \cup {w}
  BY <1>2, <1>5, <1>6 DEF GrantedOf
<1>8. w \notin GrantedOf(k, pc, Object)
  BY <1>2 DEF GrantedOf
<1> QED BY <1>2, <1>3, <1>5, <1>7, <1>8, GrantedIs DEF w, Waiters

LEMMA StepRelease ==
    ASSUME SemInv, NEW t \in Thread, rt_sem_release(t)
    PROVE  KernelInv' /\ Releases(t)
<1>1. /\ ThreadsOK(k, pc) /\ k.prio = InitPriority /\ Object \in WaitQueue
      /\ pc \in [Thread -> PC]
  BY SemStateOK
<1>2. k.cur = t /\ pc[t] = "user" /\ t # Idle
  <2>1. Running(t, "user") /\ Calls(t, "take")
    BY DEF Calls, rt_sem_release
  <2> QED BY <2>1, SemCallerRuns DEF AtSwitch
<1>3. t \in holds /\ holds' = holds \ {t} /\ UNCHANGED total
  BY DEF rt_sem_release
<1>4. CASE Waiters # <<>>
  <2>1. k' = rt_ipc_list_resume(k, Object) /\ UNCHANGED value
        /\ pc' = [pc EXCEPT ![t] = "released"]
    BY <1>4 DEF rt_sem_release, Put, Goto
  <2>2. /\ ThreadsOK(k', pc) /\ k'.cur = k.cur /\ k'.prio = k.prio
        /\ Head(Waiters) \in Thread \ Granted
        /\ Waiters' = RemoveFirst(Waiters, Head(Waiters))
        /\ GrantedOf(k', pc, Object) = Granted \cup {Head(Waiters)}
    BY <1>4, <2>1, ResumeFirst DEF Waiters
  <2>3. ThreadsOK(k', pc') /\ GrantedOf(k', pc', Object) = GrantedOf(k', pc, Object)
    BY <1>1, <1>2, <2>1, <2>2, SemMovesOn DEF OutOfCall
  <2>4. Given
    BY <1>4, <2>1, <2>2, <2>3, GrantedIs DEF Given
  <2> QED BY <1>1, <1>3, <2>2, <2>3, <2>4 DEF KernelInv, Releases
<1>5. CASE Waiters = <<>>
  <2>1. UNCHANGED k /\ value' = value + 1 /\ pc' = [pc EXCEPT ![t] = "user"]
    BY <1>5 DEF rt_sem_release, Put, Goto
  <2>2. ThreadsOK(k, pc') /\ GrantedOf(k, pc', Object) = GrantedOf(k, pc, Object)
    BY <1>1, <1>2, <2>1, SemMovesOn DEF OutOfCall
  <2>3. Counts
    BY <1>5, <2>1, <2>2, GrantedIs DEF Counts, Waiters
  <2> QED BY <1>1, <1>3, <2>1, <2>2, <2>3 DEF KernelInv, Releases
<1> QED BY <1>4, <1>5

LEMMA StepIsrRelease == SemInv /\ IsrRelease => KernelInv' /\ Produces
<1> SUFFICES ASSUME SemInv, IsrRelease PROVE KernelInv' /\ Produces
  OBVIOUS
<1>1. ThreadsOK(k, pc) /\ k.prio = InitPriority /\ Object \in WaitQueue
  BY SemStateOK
<1>2. UNCHANGED <<pc, holds>> /\ total' = total + 1
  BY DEF IsrRelease
<1>3. CASE Waiters # <<>>
  <2> DEFINE r == rt_ipc_list_resume(k, Object)
  <2>1. k' = rt_schedule(r) /\ UNCHANGED value
    BY <1>3 DEF IsrRelease
  <2>2. /\ ThreadsOK(r, pc) /\ r.prio = k.prio
        /\ Head(Waiters) \in Thread \ Granted
        /\ r.list[Object] = RemoveFirst(Waiters, Head(Waiters))
        /\ GrantedOf(r, pc, Object) = Granted \cup {Head(Waiters)}
    BY <1>3, ResumeFirst
  <2> HIDE DEF r
  <2>3. /\ ThreadsOK(k', pc) /\ k'.prio = r.prio /\ k'.err = r.err
        /\ \A q \in WaitQueue : k'.list[q] = r.list[q]
    BY <2>1, <2>2, CallsSchedule
  <2>4. GrantedOf(k', pc', Object) = GrantedOf(r, pc, Object)
    BY <1>1, <1>2, <2>3 DEF GrantedOf, InList
  <2>5. Given
    BY <1>1, <1>3, <2>1, <2>2, <2>3, <2>4, GrantedIs DEF Given, Waiters
  <2> QED BY <1>1, <1>2, <2>2, <2>3, <2>5 DEF KernelInv, Produces
<1>4. CASE Waiters = <<>>
  <2>1. UNCHANGED k /\ value' = value + 1
    BY <1>4 DEF IsrRelease
  <2>2. Counts
    BY <1>2, <1>4, <2>1, GrantedIs DEF Counts, Waiters
  <2> QED BY <1>1, <1>2, <2>1, <2>2 DEF KernelInv, Produces
<1> QED BY <1>3, <1>4

LEMMA SemStepReset ==
    ASSUME SemInv, NEW t \in Thread, NEW v \in 0 .. InitValue, rt_sem_control(t, v)
    PROVE  KernelInv' /\ Resets
<1>1. /\ ThreadsOK(k, pc) /\ k.prio = InitPriority /\ Object \in WaitQueue
      /\ pc \in [Thread -> PC]
  BY SemStateOK
<1>2. k.cur = t /\ pc[t] = "user" /\ t # Idle
  <2>1. Running(t, "user") /\ Calls(t, "reset")
    BY DEF Calls, rt_sem_control
  <2> QED BY <2>1, SemCallerRuns DEF AtSwitch
<1>3. k' = rt_ipc_list_resume_all(k, Object) /\ pc' = [pc EXCEPT ![t] = "released"]
  BY DEF rt_sem_control, Goto
<1>4. /\ ThreadsOK(k', pc) /\ k'.cur = k.cur /\ k'.prio = k.prio
      /\ \A u \in Thread : k'.err[u] = IF InList(k, Object, u) THEN "error" ELSE k.err[u]
      /\ k'.list[Object] = <<>> /\ \A u : ~InList(k', Object, u)
  BY <1>1, <1>3, CallsResumeAll
<1>5. ThreadsOK(k', pc') /\ GrantedOf(k', pc', Object) = GrantedOf(k', pc, Object)
  BY <1>1, <1>2, <1>3, <1>4, SemMovesOn DEF OutOfCall
<1>6. GrantedOf(k', pc, Object) = GrantedOf(k, pc, Object)
  BY <1>4 DEF GrantedOf
<1>7. v \in Nat
  BY SemaphoreAssumption
<1> QED BY <1>1, <1>4, <1>5, <1>6, <1>7, GrantedIs
        DEF KernelInv, Resets, Waiters, rt_sem_control

LEMMA SemStepDetachStarts ==
    ASSUME SemInv, NEW t \in Thread, SemDetachStarts(t)
    PROVE  KernelInv' /\ Keeps
<1>1. k.cur = t /\ pc[t] = "user" /\ t # Idle
  <2>1. Running(t, "user") /\ Calls(t, "detach")
    BY DEF Calls, SemDetachStarts
  <2> QED BY <2>1, SemCallerRuns DEF AtSwitch
<1>2. UNCHANGED k /\ pc' = [pc EXCEPT ![t] = "check"]
  BY DEF SemDetachStarts, Goto
<1>3. ThreadsOK(k, pc') /\ GrantedOf(k, pc', Object) = GrantedOf(k, pc, Object)
  BY <1>1, <1>2, SemStateOK, SemMovesOn DEF OutOfCall
<1> QED BY <1>2, <1>3, SemStateOK, GrantedIs DEF KernelInv, Keeps, SemDetachStarts, Waiters

LEMMA SemStepDetachResumes ==
    ASSUME SemInv, NEW t \in Thread, SemDetachResumes(t)
    PROVE  KernelInv' /\ (Keeps \/ \E u \in Thread : Leaves(u))
<1>1. /\ ThreadsOK(k, pc) /\ k.prio = InitPriority /\ Object \in WaitQueue
      /\ pc \in [Thread -> PC]
  BY SemStateOK
<1>2. UNCHANGED <<value, holds, total>>
  BY DEF SemDetachResumes, sem
<1>3. ASSUME NEW at \in {"check", "resume"}, Running(t, at), NEW to \in OutOfCall,
             Goto(t, to), UNCHANGED k
      PROVE  KernelInv' /\ Keeps
  <2>1. k.cur = t /\ pc[t] = at /\ t # Idle
    BY <1>3, SemCallerRuns DEF AtSwitch
  <2>2. ThreadsOK(k, pc') /\ GrantedOf(k, pc', Object) = GrantedOf(k, pc, Object)
    BY <1>1, <1>3, <2>1, SemMovesOn DEF OutOfCall, Goto
  <2> QED BY <1>1, <1>2, <1>3, <2>2, GrantedIs DEF KernelInv, Keeps, Waiters
<1>4. CASE ChecksList(t, "check", Object, "resume", "user")
  BY <1>3, <1>4 DEF ChecksList, OutOfCall
<1>5. CASE ResumesNext(t, "resume", Object, "check")
  <2>1. CASE k.list[Object] = <<>>
    BY <1>3, <1>5, <2>1 DEF ResumesNext, OutOfCall
  <2>2. CASE k.list[Object] # <<>>
    <3>1. k' = ResumeWithError(k, Object) /\ pc' = [pc EXCEPT ![t] = "check"] /\ Running(t, "resume")
      BY <1>5, <2>2 DEF ResumesNext, Goto
    <3>2. k.cur = t /\ pc[t] = "resume" /\ t # Idle
      BY <3>1, SemCallerRuns DEF AtSwitch
    <3>3. PICK u : u = Head(k.list[Object])
      OBVIOUS
    <3>4. /\ u \in Thread /\ InList(k, Object, u)
          /\ ThreadsOK(k', pc) /\ k'.cur = k.cur /\ k'.prio = k.prio
          /\ \A x \in Thread : k'.err[x] = IF x = u THEN "error" ELSE k.err[x]
          /\ k'.list[Object] = RemoveFirst(k.list[Object], u)
          /\ \A x : InList(k', Object, x) <=> InList(k, Object, x) /\ x # u
      BY <1>1, <2>2, <3>1, <3>3, CallsTurn
    <3>5. ThreadsOK(k', pc') /\ GrantedOf(k', pc', Object) = GrantedOf(k', pc, Object)
      BY <1>1, <3>1, <3>2, <3>4, SemMovesOn DEF OutOfCall
    <3>6. GrantedOf(k', pc, Object) = GrantedOf(k, pc, Object)
      BY <3>4 DEF GrantedOf
    <3>7. KernelInv' /\ Leaves(u)
      BY <1>1, <1>2, <3>4, <3>5, <3>6, GrantedIs DEF KernelInv, Leaves, Waits, InList, Waiters
    <3> QED BY <3>4, <3>7
  <2> QED BY <2>1, <2>2
<1> QED BY <1>4, <1>5 DEF SemDetachResumes

-----------------------------------------------------------------------------
(* Each action has one of the effects. *)
LEMMA StepEffect == SemInv /\ [SemNext]_semVars => KernelInv' /\ Effect
<1> SUFFICES ASSUME SemInv, [SemNext]_semVars PROVE KernelInv' /\ Effect
  OBVIOUS
<1>1. ASSUME NEW t \in Thread, SemThreadStep(t) PROVE KernelInv' /\ Effect
  <2>1. ASSUME TakeNow(t) PROVE KernelInv' /\ Effect
    BY <2>1, StepTakeNow DEF Effect
  <2>2. ASSUME NEW timed \in BOOLEAN, TakeWaits(t, timed) PROVE KernelInv' /\ Effect
    BY <2>2, StepTakeWaits DEF Effect
  <2>3. ASSUME NEW at, NEW to, Reschedule(t, at, to), UNCHANGED sem,
               <<at, to>> \in {<<"sched", "woken">>, <<"released", "user">>}
        PROVE  KernelInv' /\ Effect
    <3>1. k' = rt_schedule(k) /\ pc[t] = at /\ pc' = [pc EXCEPT ![t] = to]
      BY <2>3 DEF Reschedule, Running, Goto
    <3>2. pc'[t] = to /\ \A u \in Thread \ {t} : pc'[u] = pc[u]
      BY <3>1, SemStateOK
    <3>3. (at = "sched" /\ to = "woken") \/ (at = "released" /\ to = "user")
      BY <2>3
    <3>4. \A u \in Thread : \/ pc'[u] = pc[u]
                            \/ pc[u] = "sched" /\ pc'[u] = "woken"
                            \/ pc[u] = "released" /\ pc'[u] = "user"
      BY <3>1, <3>2, <3>3
    <3> QED BY <2>3, <3>1, <3>4, StepSchedule DEF Effect
  <2>4. ASSUME TakeReturns(t) PROVE KernelInv' /\ Effect
    BY <2>4, StepTakeReturns DEF Effect
  <2>5. ASSUME rt_sem_release(t) PROVE KernelInv' /\ Effect
    BY <2>5, StepRelease DEF Effect
  <2>6. ASSUME NEW v \in 0 .. InitValue, rt_sem_control(t, v) PROVE KernelInv' /\ Effect
    BY <2>6, SemStepReset DEF Effect
  <2>7. ASSUME SemDetachStarts(t) PROVE KernelInv' /\ Effect
    BY <2>7, SemStepDetachStarts DEF Effect
  <2>8. ASSUME SemDetachResumes(t) PROVE KernelInv' /\ Effect
    BY <2>8, SemStepDetachResumes DEF Effect
  <2> QED BY <1>1, <2>1, <2>2, <2>3, <2>4, <2>5, <2>6, <2>7, <2>8
          DEF SemThreadStep, TakeSchedules, ReleaseSchedules
<1>2. ASSUME NEW t \in Thread, SemSleep(t) PROVE KernelInv' /\ Effect
  BY <1>2, SemStepSleep DEF Effect
<1>3. ASSUME SemSlice PROVE KernelInv' /\ Effect
  BY <1>3, StepSchedule DEF Effect, SemSlice, SliceExpires
<1>4. ASSUME NEW u \in Thread, SemTimeout(u) PROVE KernelInv' /\ Effect
  BY <1>4, SemStepTimeout DEF Effect, SemTimeout
<1>5. ASSUME IsrRelease PROVE KernelInv' /\ Effect
  BY <1>5, StepIsrRelease DEF Effect
<1>6. ASSUME UNCHANGED semVars PROVE KernelInv' /\ Effect
  <2>1. KernelInv' /\ Keeps
    <3>1. KernelInv
      BY DEF SemInv
    <3> QED BY <1>6, <3>1, GrantedIs DEF KernelInv, Keeps, semVars, sem, Waiters
  <2> QED BY <2>1 DEF Effect
<1> QED BY <1>1, <1>2, <1>3, <1>4, <1>5, <1>6 DEF SemNext

(* Holders do not take another token. *)
LEMMA StepHolders == SemInv /\ [SemNext]_semVars => HoldersOut'
<1> SUFFICES ASSUME SemInv, [SemNext]_semVars PROVE HoldersOut'
  OBVIOUS
<1>0. pc \in [Thread -> PC] /\ holds \subseteq Thread /\ HoldersOut
  BY DEF SemInv, SemTypeOK
<1>1. ASSUME NEW t \in Thread, NEW to, pc' = [pc EXCEPT ![t] = to], UNCHANGED holds,
             t \in holds => to \notin {"sched", "woken"}
      PROVE  HoldersOut'
  BY <1>0, <1>1 DEF HoldersOut
<1>2. CASE UNCHANGED <<pc, holds>>
  BY <1>0, <1>2 DEF HoldersOut
<1>3. ASSUME NEW t \in Thread, SemThreadStep(t) PROVE HoldersOut'
  <2>1. CASE TakeNow(t)
    BY <1>0, <2>1 DEF TakeNow, HoldersOut, Calls, Running
  <2>2. ASSUME NEW timed \in BOOLEAN, TakeWaits(t, timed) PROVE HoldersOut'
    BY <1>1, <2>2 DEF TakeWaits, Goto, sem
  <2>3. CASE TakeSchedules(t)
    <3>1. t \notin holds
      BY <1>0, <2>3 DEF TakeSchedules, Reschedule, Running, HoldersOut
    <3> QED BY <1>1, <2>3, <3>1 DEF TakeSchedules, Reschedule, Goto, sem
  <2>4. CASE TakeReturns(t)
    BY <1>0, <2>4 DEF TakeReturns, Goto, HoldersOut
  <2>5. CASE rt_sem_release(t)
    BY <1>0, <2>5 DEF rt_sem_release, Goto, HoldersOut
  <2>6. CASE ReleaseSchedules(t)
    BY <1>1, <2>6 DEF ReleaseSchedules, Reschedule, Goto, sem
  <2>7. ASSUME NEW v \in 0 .. InitValue, rt_sem_control(t, v) PROVE HoldersOut'
    BY <1>1, <2>7 DEF rt_sem_control, Goto
  <2>8. CASE SemDetachStarts(t)
    BY <1>1, <2>8 DEF SemDetachStarts, Goto
  <2>9. CASE SemDetachResumes(t)
    BY <1>1, <2>9 DEF SemDetachResumes, ChecksList, ResumesNext, Goto, sem
  <2> QED BY <1>3, <2>1, <2>2, <2>3, <2>4, <2>5, <2>6, <2>7, <2>8, <2>9 DEF SemThreadStep
<1>4. ASSUME NEW t \in Thread, SemSleep(t) PROVE HoldersOut'
  BY <1>1, <1>4 DEF SemSleep, Sleeps, Reschedule, Goto, sem
<1>5. CASE SemSlice \/ (\E u \in Thread : SemTimeout(u)) \/ IsrRelease \/ UNCHANGED semVars
  BY <1>2, <1>5 DEF SemSlice, SliceExpires, SemTimeout, TimerFires, IsrRelease, semVars, sem
<1> QED BY <1>3, <1>4, <1>5 DEF SemNext

LEMMA StepType == SemInv /\ [SemNext]_semVars /\ KernelInv' => SemTypeOK'
<1> SUFFICES ASSUME SemInv, [SemNext]_semVars, KernelInv' PROVE SemTypeOK'
  OBVIOUS
<1>1. k' \in KernelState
  BY DEF KernelInv, ThreadsOK, Sound
<1>2. Effect /\ value \in Nat /\ holds \subseteq Thread /\ SemTypeOK
  BY StepEffect DEF SemInv, SemTypeOK
<1>3. total = value + Cardinality(holds) + Cardinality(Granted)
      /\ Cardinality(holds) \in Nat /\ Cardinality(Granted) \in Nat
  BY FS_CardinalityType DEF SemInv, TokensConserved, FiniteTokens
<1>4. value' \in Nat
  BY <1>2 DEF Effect, Keeps, Produces, Resets, Takes, Enters, Leaves, Returns, Releases,
              Given, Counts
<1>5. holds' \subseteq Thread
  BY <1>2 DEF Effect, Keeps, Produces, Resets, Takes, Enters, Leaves, Returns, Releases
<1>6. total' \in Nat
  <2>1. total \in Nat
    BY <1>2 DEF SemTypeOK
  <2>2. CASE Resets
    <3>1. total - value \in Nat
      BY <1>2, <1>3, <2>1
    <3>2. PICK d \in Nat : d = total - value
      BY <3>1
    <3>3. total' = d + value' /\ value' \in Nat
      BY <2>2, <3>2 DEF Resets
    <3> QED BY <3>2, <3>3
  <2>3. CASE ~Resets
    BY <1>2, <2>1, <2>3 DEF Effect, Keeps, Produces, Takes, Enters, Leaves, Returns, Releases
  <2> QED BY <2>2, <2>3
<1>7. pc' \in [Thread -> PC]
  <2>1. ASSUME NEW t \in Thread, NEW to \in PC, Goto(t, to) PROVE pc' \in [Thread -> PC]
    BY <1>2, <2>1 DEF Goto, SemTypeOK
  <2>2. CASE UNCHANGED pc
    BY <1>2, <2>2 DEF SemTypeOK
  <2>3. ASSUME NEW t \in Thread, SemThreadStep(t) \/ SemSleep(t) PROVE pc' \in [Thread -> PC]
    <3>1. UNCHANGED pc \/ \E to \in PC : Goto(t, to)
      BY <2>3 DEF SemThreadStep, TakeNow, TakeWaits, TakeSchedules, TakeReturns, rt_sem_release,
                  ReleaseSchedules, rt_sem_control, SemDetachStarts, SemDetachResumes, ChecksList,
                  ResumesNext, SemSleep, Sleeps, Reschedule, PC
    <3> QED BY <2>1, <2>2, <3>1
  <2>4. CASE SemSlice \/ (\E u \in Thread : SemTimeout(u)) \/ IsrRelease \/ UNCHANGED semVars
    BY <2>2, <2>4 DEF SemSlice, SliceExpires, SemTimeout, TimerFires, IsrRelease, semVars
  <2> QED BY <2>3, <2>4 DEF SemNext
<1>8. alive' \in BOOLEAN /\ produced' \in 0 .. Produced
  <2>1. alive \in BOOLEAN /\ produced \in 0 .. Produced
    BY <1>2 DEF SemTypeOK
  <2>2. \/ UNCHANGED produced /\ (UNCHANGED alive \/ alive' = FALSE)
        \/ UNCHANGED alive /\ produced < Produced /\ produced' = produced + 1
    BY DEF SemNext, SemThreadStep, TakeNow, TakeWaits, TakeSchedules, TakeReturns, rt_sem_release,
           ReleaseSchedules, rt_sem_control, SemDetachStarts, SemDetachResumes, SemSleep, SemSlice,
           SemTimeout, IsrRelease, semVars, sem
  <2>3. produced' \in 0 .. Produced
    BY <2>1, <2>2, SemaphoreAssumption
  <2>4. alive' \in BOOLEAN
    BY <2>1, <2>2, Zenon
  <2> QED BY <2>3, <2>4
<1> QED BY <1>1, <1>4, <1>5, <1>6, <1>7, <1>8 DEF SemTypeOK

(* What the effects keep true. *)
LEMMA EffectTokens == SemInv /\ Effect => (FiniteTokens /\ TokensConserved)'
<1> SUFFICES ASSUME SemInv, Effect PROVE (FiniteTokens /\ TokensConserved)'
  OBVIOUS
<1>1. /\ IsFiniteSet(holds) /\ Cardinality(holds) \in Nat
      /\ IsFiniteSet(Granted) /\ Cardinality(Granted) \in Nat
      /\ value \in Nat /\ total = value + Cardinality(holds) + Cardinality(Granted)
  BY FS_CardinalityType DEF SemInv, FiniteTokens, TokensConserved, SemTypeOK
<1>2. \A x : /\ IsFiniteSet(Granted \cup {x})
             /\ x \notin Granted => Cardinality(Granted \cup {x}) = Cardinality(Granted) + 1
             /\ IsFiniteSet(Granted \ {x})
             /\ x \in Granted => Cardinality(Granted \ {x}) = Cardinality(Granted) - 1
  BY <1>1, FS_AddElement, FS_RemoveElement
<1>3. \A x : /\ IsFiniteSet(holds \cup {x})
             /\ x \notin holds => Cardinality(holds \cup {x}) = Cardinality(holds) + 1
             /\ IsFiniteSet(holds \ {x})
             /\ x \in holds => Cardinality(holds \ {x}) = Cardinality(holds) - 1
  BY <1>1, FS_AddElement, FS_RemoveElement
<1>4. PICK h \in Nat, g \in Nat : h = Cardinality(holds) /\ g = Cardinality(Granted)
  BY <1>1
<1> DEFINE Now(hh, gg) ==
              /\ IsFiniteSet(holds') /\ IsFiniteSet(Granted')
              /\ Cardinality(holds') = hh /\ Cardinality(Granted') = gg
<1>5. ASSUME NEW hh \in Nat, NEW gg \in Nat, Now(hh, gg), total' = value' + hh + gg
      PROVE  (FiniteTokens /\ TokensConserved)'
  BY <1>5 DEF FiniteTokens, TokensConserved
<1>6. total = value + h + g /\ value \in Nat
  BY <1>1, <1>4
<1>7. CASE Keeps \/ \E t \in Thread : Enters(t) \/ Leaves(t)
  <2>1. Now(h, g) /\ total' = total /\ value' = value
    BY <1>1, <1>4, <1>7 DEF Keeps, Enters, Leaves
  <2> QED BY <1>5, <1>6, <2>1
<1>8. CASE Resets
  <2>1. Now(h, g) /\ total' = total - value + value' /\ value' \in Nat
    BY <1>1, <1>4, <1>8 DEF Resets
  <2> QED BY <1>5, <1>6, <2>1
<1>9. CASE Produces /\ Given
  <2>1. Now(h, g + 1) /\ total' = total + 1 /\ value' = value
    BY <1>1, <1>2, <1>4, <1>9 DEF Produces, Given
  <2> QED BY <1>5, <1>6, <2>1
<1>10. CASE Produces /\ Counts
  <2>1. Now(h, g) /\ total' = total + 1 /\ value' = value + 1
    BY <1>1, <1>4, <1>10 DEF Produces, Counts
  <2> QED BY <1>5, <1>6, <2>1
<1>11. ASSUME NEW t \in Thread, Takes(t) PROVE (FiniteTokens /\ TokensConserved)'
  <2>1. Now(h + 1, g) /\ total' = total /\ value' = value - 1
    BY <1>1, <1>3, <1>4, <1>11 DEF Takes
  <2> QED BY <1>5, <1>6, <2>1
<1>12. ASSUME NEW t \in Thread, Returns(t) PROVE (FiniteTokens /\ TokensConserved)'
  <2>1. IsFiniteSet(holds') /\ Cardinality(holds') = h + 1
    BY <1>3, <1>4, <1>12 DEF Returns
  <2>2. IsFiniteSet(Granted') /\ Cardinality(Granted') = g - 1
    BY <1>2, <1>4, <1>12 DEF Returns
  <2>3. g - 1 \in Nat
    BY <2>2, FS_CardinalityType
  <2>4. total' = total /\ value' = value
    BY <1>12 DEF Returns
  <2> QED BY <1>5, <1>6, <2>1, <2>2, <2>3, <2>4
<1>13. ASSUME NEW t \in Thread, Releases(t) PROVE (FiniteTokens /\ TokensConserved)'
  <2>1. IsFiniteSet(holds') /\ Cardinality(holds') = h - 1
    BY <1>3, <1>4, <1>13 DEF Releases
  <2>2. h - 1 \in Nat
    BY <2>1, FS_CardinalityType
  <2>3. CASE Given
    <3>1. IsFiniteSet(Granted') /\ Cardinality(Granted') = g + 1 /\ value' = value
      BY <1>2, <1>4, <2>3 DEF Given
    <3>2. total' = total
      BY <1>13 DEF Releases
    <3> QED BY <1>5, <1>6, <2>1, <2>2, <3>1, <3>2
  <2>4. CASE Counts
    <3>1. IsFiniteSet(Granted') /\ Cardinality(Granted') = g /\ value' = value + 1
      BY <1>1, <1>4, <2>4 DEF Counts
    <3>2. total' = total
      BY <1>13 DEF Releases
    <3> QED BY <1>5, <1>6, <2>1, <2>2, <3>1, <3>2
  <2> QED BY <1>13, <2>3, <2>4 DEF Releases
<1> QED BY <1>7, <1>8, <1>9, <1>10, <1>11, <1>12, <1>13 DEF Effect, Produces

LEMMA EffectNoTokenIdle == SemInv /\ Effect => NoTokenIdle'
<1> SUFFICES ASSUME SemInv, Effect PROVE NoTokenIdle'
  OBVIOUS
<1>1. /\ NoTokenIdle /\ value \in Nat
      /\ Waiters \in Seq(Thread)
  BY SemStateOK DEF SemInv
<1>2. value > 0 => Waiters = <<>>
  BY <1>1 DEF NoTokenIdle
<1>3. ASSUME NEW t \in Thread, Leaves(t) PROVE ~(value > 0)
  BY <1>2, <1>3 DEF Leaves, Waits, Waiters, Contains
<1>4. ASSUME Given PROVE ~(value' > 0)
  BY <1>2, <1>4 DEF Given
<1>5. value' > 0 => Waiters' = <<>>
  BY <1>1, <1>2, <1>3, <1>4 DEF Effect, Keeps, Produces, Resets, Takes, Enters, Leaves, Returns,
                                Releases, Counts
<1> QED BY <1>5 DEF NoTokenIdle

LEMMA EffectOrder == SemInv /\ Effect => WaitersOrdered'
<1> SUFFICES ASSUME SemInv, Effect, Flag = "prio" PROVE Ordered(Waiters', InitPriority)
  BY DEF WaitersOrdered
<1>1. /\ k \in KernelState /\ k.prio = InitPriority
      /\ Waiters \in Seq(Thread) /\ IsInjective(Waiters)
  BY SemStateOK
<1>2. Ordered(Waiters, InitPriority)
  BY DEF SemInv, WaitersOrdered
<1>3. ASSUME NEW u, Waiters' = RemoveFirst(Waiters, u) PROVE Ordered(Waiters', InitPriority)
  BY <1>1, <1>2, <1>3, OrderedRemove
<1>4. ASSUME NEW t \in Thread, Enters(t) PROVE Ordered(Waiters', InitPriority)
  <2>1. ~Contains(Waiters, t) /\ Waiters' = InsertAt(Waiters, Place(k, Waiters, k.prio[t], Flag), t)
    BY <1>4 DEF Enters, Waits, Waiters
  <2> QED BY <1>1, <1>2, <2>1, OrderedJoin
<1>5. Ordered(<<>>, InitPriority)
  BY DEF Ordered, Before
<1>6. CASE Waiters' = Waiters \/ Waiters' = <<>>
  BY <1>2, <1>5, <1>6
<1> QED BY <1>3, <1>4, <1>6 DEF Effect, Keeps, Produces, Resets, Takes, Leaves, Returns,
                                Releases, Given, Counts

LEMMA StepSem == SemInv /\ [SemNext]_semVars => SemInv'
<1>1. SemInv /\ [SemNext]_semVars => KernelInv' /\ Effect
  BY StepEffect
<1> QED BY <1>1, StepType, StepHolders, EffectTokens, EffectNoTokenIdle, EffectOrder DEF SemInv

LEMMA InitSem == SemInit => SemInv
<1> SUFFICES ASSUME SemInit PROVE SemInv
  OBVIOUS
<1> USE ThreadsAssumption, SemaphoreAssumption, IpcObjectAssumption
<1>1. k = KernelStart(InitThread, InitPriority, InitReady) /\ \A t \in Thread : pc[t] = "user"
  BY DEF SemInit, ThreadsInit
<1>2. /\ ThreadsOK(k, pc) /\ k.prio = InitPriority
      /\ Waiters = <<>>
  <2> DEFINE k0 == KernelStart(InitThread, InitPriority, InitReady)
  <2>1. Starts(InitThread, InitPriority, InitReady)
    BY DEF Starts
  <2>2. /\ ThreadsOK(k0, pc) /\ k0.prio = InitPriority
        /\ \A q \in WaitQueue : k0.list[q] = <<>>
    BY <1>1, <2>1, CallsStart
  <2> HIDE DEF k0
  <2>3. k = k0
    BY <1>1 DEF k0
  <2> QED BY <2>2, <2>3 DEF Waiters
<1>3. Granted = {} /\ holds = {}
  BY <1>1 DEF Granted, Woken, SemInit
<1>4. SemTypeOK
  <2>1. k \in KernelState
    BY <1>2 DEF ThreadsOK, Sound
  <2>2. pc \in [Thread -> PC]
    BY DEF SemInit, ThreadsInit, PC
  <2> QED BY <2>1, <2>2 DEF SemInit, SemTypeOK
<1>5. WaitersOrdered
  BY <1>2 DEF WaitersOrdered, Ordered, Before
<1>6. FiniteTokens /\ TokensConserved
  <2>1. IsFiniteSet({}) /\ Cardinality({}) = 0
    BY FS_EmptySet
  <2>2. value = InitValue /\ total = InitValue
    BY DEF SemInit
  <2> QED BY <1>3, <2>1, <2>2 DEF FiniteTokens, TokensConserved
<1>7. HoldersOut /\ NoTokenIdle
  BY <1>2, <1>3 DEF HoldersOut, NoTokenIdle
<1> QED BY <1>2, <1>4, <1>5, <1>6, <1>7 DEF SemInv, KernelInv

LEMMA AlwaysSem == SemSpec => []SemInv
BY InitSem, StepSem, PTL DEF SemSpec

THEOREM SemaphoreTyped == SemSpec => []SemTypeOK
<1>1. SemInv => SemTypeOK
  BY DEF SemInv
<1> QED BY <1>1, AlwaysSem, PTL

(* No token is lost or made, for any number of threads and any calls of    *)
(* theirs: one that rt_sem_release hands to a sleeping thread is counted   *)
(* on the way, through every time-out, reset and interrupt in between.     *)
THEOREM SemaphoreConserves == SemSpec => []TokensConserved
<1>1. SemInv => TokensConserved
  BY DEF SemInv
<1> QED BY <1>1, AlwaysSem, PTL

(* Nobody waits while a token is available. *)
THEOREM SemaphoreNoTokenIdle == SemSpec => []NoTokenIdle
<1>1. SemInv => NoTokenIdle
  BY DEF SemInv
<1> QED BY <1>1, AlwaysSem, PTL

(* With RT_IPC_FLAG_PRIO the waiters stand in the order of priorities, and *)
(* all of them are suspended in rt_sem_take.                               *)
THEOREM SemaphoreUrgentFirst == SemSpec => []UrgentFirst
<1>1. SemInv => UrgentFirst
  <2> SUFFICES ASSUME SemInv PROVE UrgentFirst
    OBVIOUS
  <2>1. /\ ThreadsOK(k, pc) /\ Object \in WaitQueue /\ k.prio = InitPriority
        /\ KernelOK(k) /\ Waiters \in Seq(Thread)
    BY SemStateOK DEF Sound
  <2>2. Flag = "prio" => SortedByPriority(Object)
    <3> SUFFICES ASSUME Flag = "prio",
                        NEW i \in 1 .. Len(Waiters), NEW j \in 1 .. Len(Waiters), i < j
                 PROVE  k.prio[Waiters[i]] <= k.prio[Waiters[j]]
      BY DEF SortedByPriority, Waiters
    <3>1. Before(Waiters, Waiters[i], Waiters[j])
      BY DEF Before
    <3>2. Waiters[i] \in Thread /\ Waiters[j] \in Thread
      BY <2>1
    <3> QED BY <2>1, <3>1, <3>2 DEF SemInv, WaitersOrdered, Ordered
  <2>3. \A t \in Thread : Waits(t, Object) => pc[t] \in {"sched", "woken"}
    BY <2>1, ThreadOK DEF Waits, InList
  <2> QED BY <2>1, <2>2, <2>3 DEF UrgentFirst
<1> QED BY <1>1, AlwaysSem, PTL

-----------------------------------------------------------------------------
(* The refinement of CountingSemaphore: the state of a thread, as the      *)
(* abstract semaphore sees it.                                             *)
StateOf(t) == IF Waits(t, Object) THEN "waiting"
              ELSE IF t \in holds \cup Granted THEN "holding"
              ELSE "out"

AbstractState == [t \in Thread |-> StateOf(t)]

Ranks == [t \in Thread |-> IF Flag = "prio" THEN InitPriority[t] ELSE 0]

(* Who waits holds no token and was given none. *)
LEMMA WaitersHaveNone ==
    ASSUME SemInv, NEW t \in Thread, Waits(t, Object)
    PROVE  t \notin holds \cup Granted
<1>1. pc[t] \in {"sched", "woken"}
  BY SemStateOK, ThreadOK DEF Waits, InList
<1>2. t \notin holds
  BY <1>1 DEF SemInv, HoldersOut
<1>3. t \notin Granted
  BY DEF Granted, Woken
<1> QED BY <1>2, <1>3

LEMMA NobodyWaits ==
    ASSUME SemInv, Waiters = <<>>, NEW t \in Thread
    PROVE  ~Waits(t, Object)
BY DEF Waiters, Waits, Contains

(* The first of the waiters is one the token must go to. *)
LEMMA HeadIsServed ==
    ASSUME SemInv, Waiters # <<>>
    PROVE  LET w == Head(Waiters) IN
           /\ w \in Thread /\ Waits(w, Object)
           /\ \A t \in Thread : Waits(t, Object) => Ranks[w] <= Ranks[t]
<1> DEFINE w == Head(Waiters)
<1>1. /\ Sound(k) /\ Object \in WaitQueue /\ Waiters \in Seq(Thread)
  BY SemStateOK
<1>2. w \in Thread /\ Waits(w, Object)
  BY <1>1, QueueOK DEF Waits, InList, Waiters
<1>3. ASSUME NEW t \in Thread, Waits(t, Object) PROVE Ranks[w] <= Ranks[t]
  <2>1. CASE Flag = "prio"
    <3>1. InitPriority[w] <= InitPriority[t]
      BY <1>1, <1>3, <2>1, OrderedHead, ThreadsAssumption
         DEF SemInv, WaitersOrdered, Waits, Waiters
    <3>2. Ranks[w] = InitPriority[w] /\ Ranks[t] = InitPriority[t]
      BY <1>2, <2>1 DEF Ranks
    <3> QED BY <3>1, <3>2
  <2>2. CASE Flag # "prio"
    BY <1>2, <2>2 DEF Ranks
  <2> QED BY <2>1, <2>2
<1> QED BY <1>2, <1>3

(* The thread w, the first that waits, is given a token. *)
LEMMA GivenEffect ==
    ASSUME SemInv, Given, NEW w, w = Head(Waiters)
    PROVE  /\ w \in Thread /\ StateOf(w) = "waiting"
           /\ \A t \in Thread : Waits(t, Object) => Ranks[w] <= Ranks[t]
           /\ \A t \in Thread : /\ Waits(t, Object)' <=> Waits(t, Object) /\ t # w
                                /\ t \in Granted' <=> t \in Granted \/ t = w
<1>1. Waiters \in Seq(Thread) /\ IsInjective(Waiters) /\ Waiters # <<>>
  BY SemStateOK DEF Given
<1>2. w \in Thread /\ Waits(w, Object) /\ \A t \in Thread : Waits(t, Object) => Ranks[w] <= Ranks[t]
  BY <1>1, HeadIsServed
<1>3. Waiters' = RemoveFirst(Waiters, w) /\ Granted' = Granted \cup {w}
  BY DEF Given
<1>4. \A t : Contains(RemoveFirst(Waiters, w), t) <=> Contains(Waiters, t) /\ t # w
  BY <1>1, RemoveFromList
<1>5. \A t : Waits(t, Object)' <=> Waits(t, Object) /\ t # w
  BY <1>3, <1>4 DEF Waits, Waiters
<1> QED BY <1>2, <1>3, <1>5 DEF StateOf

(* The forms the steps of the abstract semaphore take. *)
OneChanges(c, x) == StateOf(c)' = x /\ \A t \in Thread \ {c} : StateOf(t)' = StateOf(t)

TwoChange(c, x, w, y) ==
    /\ StateOf(c)' = x /\ StateOf(w)' = y
    /\ \A t \in Thread \ {c, w} : StateOf(t)' = StateOf(t)

LEMMA OneUpdate ==
    ASSUME NEW c \in Thread, NEW x, OneChanges(c, x)
    PROVE  AbstractState' = [AbstractState EXCEPT ![c] = x]
BY DEF OneChanges, AbstractState

LEMMA TwoUpdate ==
    ASSUME NEW c \in Thread, NEW x, NEW w \in Thread \ {c}, NEW y, TwoChange(c, x, w, y)
    PROVE  AbstractState' = [AbstractState EXCEPT ![c] = x, ![w] = y]
BY DEF TwoChange, AbstractState

LEMMA AbstractTake ==
    ASSUME NEW c \in Thread, StateOf(c) = "out", value > 0, value' = value - 1,
           OneChanges(c, "holding")
    PROVE  Abstract!Take(c)
<1>1. AbstractState[c] = "out" /\ AbstractState' = [AbstractState EXCEPT ![c] = "holding"]
  BY OneUpdate DEF AbstractState
<1> QED BY <1>1 DEF Abstract!Take, AbstractState, StateOf

LEMMA AbstractWait ==
    ASSUME NEW c \in Thread, StateOf(c) = "out", value = 0, value' = value,
           OneChanges(c, "waiting")
    PROVE  Abstract!Wait(c)
<1>1. AbstractState[c] = "out" /\ AbstractState' = [AbstractState EXCEPT ![c] = "waiting"]
  BY OneUpdate DEF AbstractState
<1> QED BY <1>1 DEF Abstract!Wait, AbstractState, StateOf

LEMMA AbstractGiveUp ==
    ASSUME NEW c \in Thread, StateOf(c) = "waiting", value' = value, OneChanges(c, "out")
    PROVE  Abstract!GiveUp(c)
<1>1. AbstractState[c] = "waiting" /\ AbstractState' = [AbstractState EXCEPT ![c] = "out"]
  BY OneUpdate DEF AbstractState
<1> QED BY <1>1 DEF Abstract!GiveUp, AbstractState, StateOf

(* Who waits in the abstract semaphore, and who must be served first. *)
LEMMA AbstractWaiting ==
    /\ Abstract!Waiting = { t \in Thread : Waits(t, Object) }
    /\ \A w \in Thread :
          Waits(w, Object) /\ (\A t \in Thread : Waits(t, Object) => Ranks[w] <= Ranks[t])
             => w \in Abstract!FirstServed
<1>1. Abstract!Waiting = { t \in Thread : AbstractState[t] = "waiting" }
  BY DEF Abstract!Waiting, AbstractState, StateOf
<1>2. \A t \in Thread : AbstractState[t] = "waiting" <=> Waits(t, Object)
  BY DEF AbstractState, StateOf
<1>3. Abstract!Waiting = { t \in Thread : Waits(t, Object) }
  BY <1>1, <1>2
<1>4. Abstract!FirstServed =
         { c \in Abstract!Waiting : \A d \in Abstract!Waiting : Ranks[c] <= Ranks[d] }
  BY DEF Abstract!FirstServed, Ranks
<1> QED BY <1>3, <1>4

LEMMA AbstractRelease ==
    ASSUME NEW c \in Thread, StateOf(c) = "holding", \A t \in Thread : ~Waits(t, Object),
           value' = value + 1, OneChanges(c, "out")
    PROVE  Abstract!Release(c)
<1>1. AbstractState[c] = "holding" /\ AbstractState' = [AbstractState EXCEPT ![c] = "out"]
  BY OneUpdate DEF AbstractState
<1>2. Abstract!Waiting = {}
  BY AbstractWaiting
<1> QED BY <1>1, <1>2 DEF Abstract!Release, AbstractState, StateOf

LEMMA AbstractPass ==
    ASSUME NEW c \in Thread, StateOf(c) = "holding", NEW w \in Thread \ {c}, Waits(w, Object),
           \A t \in Thread : Waits(t, Object) => Ranks[w] <= Ranks[t],
           value' = value, TwoChange(c, "out", w, "holding")
    PROVE  Abstract!Pass(c, w)
<1>1. /\ AbstractState[c] = "holding"
      /\ AbstractState' = [AbstractState EXCEPT ![c] = "out", ![w] = "holding"]
  BY TwoUpdate DEF AbstractState
<1>2. w \in Abstract!FirstServed
  BY AbstractWaiting
<1> QED BY <1>1, <1>2 DEF Abstract!Pass, AbstractState, StateOf

LEMMA AbstractProduceFor ==
    ASSUME NEW w \in Thread, Waits(w, Object),
           \A t \in Thread : Waits(t, Object) => Ranks[w] <= Ranks[t],
           value' = value, OneChanges(w, "holding")
    PROVE  Abstract!ProduceFor(w)
<1>1. AbstractState' = [AbstractState EXCEPT ![w] = "holding"]
  BY OneUpdate
<1>2. w \in Abstract!FirstServed
  BY AbstractWaiting
<1> QED BY <1>1, <1>2 DEF Abstract!ProduceFor, AbstractState, StateOf

LEMMA AbstractProduce ==
    ASSUME \A t \in Thread : ~Waits(t, Object) /\ StateOf(t)' = StateOf(t), value' = value + 1
    PROVE  Abstract!Produce
<1>1. AbstractState' = AbstractState
  BY DEF AbstractState
<1>2. Abstract!Waiting = {}
  BY AbstractWaiting
<1> QED BY <1>1, <1>2 DEF Abstract!Produce, AbstractState, StateOf

LEMMA AbstractReset ==
    ASSUME value' \in Nat,
           \A t \in Thread : StateOf(t)' = IF Waits(t, Object) THEN "out" ELSE StateOf(t)
    PROVE  Abstract!Reset
<1>1. AbstractState' = [c \in Thread |-> IF AbstractState[c] = "waiting" THEN "out"
                                         ELSE AbstractState[c]]
  BY DEF AbstractState, StateOf
<1> QED BY <1>1 DEF Abstract!Reset, AbstractState, StateOf

LEMMA AbstractStutter ==
    ASSUME \A t \in Thread : StateOf(t)' = StateOf(t), value' = value
    PROVE  UNCHANGED Abstract!vars
<1>1. AbstractState' = AbstractState
  BY DEF AbstractState
<1> QED BY <1>1 DEF Abstract!vars, AbstractState, StateOf

(* Each effect is a step of the abstract semaphore, or none.               *)
LEMMA RefineStep == SemInv /\ Effect => [Abstract!Next]_(Abstract!vars)
<1> SUFFICES ASSUME SemInv, Effect, ~ UNCHANGED Abstract!vars PROVE Abstract!Next
  OBVIOUS
<1>1. Waiters \in Seq(Thread) /\ IsInjective(Waiters) /\ holds \subseteq Thread
  BY SemStateOK
<1>2. ASSUME Waiters' = Waiters, NEW t \in Thread PROVE Waits(t, Object)' <=> Waits(t, Object)
  BY <1>2 DEF Waits, Waiters
<1>3. \A t \in Thread : Waits(t, Object) => t \notin holds \cup Granted
  BY WaitersHaveNone
<1>4. \A t \in holds : t \notin Granted
  BY DEF SemInv, HoldersOut, Granted, Woken
<1>5. CASE Keeps
  <2>1. \A t \in Thread : StateOf(t)' = StateOf(t)
    BY <1>2, <1>5 DEF Keeps, StateOf
  <2> QED BY <1>5, <2>1, AbstractStutter DEF Keeps
<1>6. ASSUME NEW t \in Thread, Takes(t) PROVE Abstract!Next
  <2>1. StateOf(t) = "out" /\ OneChanges(t, "holding")
    BY <1>2, <1>6 DEF Takes, StateOf, OneChanges
  <2>2. Abstract!Take(t)
    BY <1>6, <2>1, AbstractTake DEF Takes
  <2> QED BY <2>2 DEF Abstract!Next
<1>7. ASSUME NEW t \in Thread, Enters(t) PROVE Abstract!Next
  <2>1. StateOf(t) = "out"
    BY <1>7 DEF Enters, StateOf
  <2>2. \A u \in Thread : Waits(u, Object)' <=> Waits(u, Object) \/ u = t
    <3>1. ~Contains(Waiters, t)
      BY <1>7 DEF Enters, Waits, Waiters
    <3>2. Place(k, Waiters, k.prio[t], Flag) \in 1 .. Len(Waiters) + 1
      BY <1>1, SemStateOK, PlaceInList DEF KernelState
    <3>3. \A u : Contains(Waiters', u) <=> Contains(Waiters, u) \/ u = t
      BY <1>1, <1>7, <3>1, <3>2, InsertInList DEF Enters
    <3> QED BY <3>3 DEF Waits, Waiters
  <2>3. OneChanges(t, "waiting")
    BY <1>7, <2>2 DEF Enters, StateOf, OneChanges
  <2>4. Abstract!Wait(t)
    BY <1>7, <2>1, <2>3, AbstractWait DEF Enters
  <2> QED BY <2>4 DEF Abstract!Next
<1>8. ASSUME NEW t \in Thread, Leaves(t) PROVE Abstract!Next
  <2>1. \A u \in Thread : Waits(u, Object)' <=> Waits(u, Object) /\ u # t
    <3>1. \A u : Contains(Waiters', u) <=> Contains(Waiters, u) /\ u # t
      BY <1>1, <1>8, RemoveFromList DEF Leaves
    <3> QED BY <3>1 DEF Waits, Waiters
  <2>2. StateOf(t) = "waiting" /\ OneChanges(t, "out")
    BY <1>3, <1>8, <2>1 DEF Leaves, StateOf, OneChanges
  <2>3. Abstract!GiveUp(t)
    BY <1>8, <2>2, AbstractGiveUp DEF Leaves
  <2> QED BY <2>3 DEF Abstract!Next
<1>9. ASSUME NEW t \in Thread, Returns(t) PROVE Abstract!Next
  <2>1. \A u \in Thread : StateOf(u)' = StateOf(u)
    BY <1>2, <1>9 DEF Returns, StateOf
  <2> QED BY <1>9, <2>1, AbstractStutter DEF Returns
<1>10. ASSUME NEW t \in Thread, Releases(t) PROVE Abstract!Next
  <2>1. t \in holds /\ holds' = holds \ {t} /\ t \notin Granted /\ StateOf(t) = "holding"
    BY <1>3, <1>4, <1>10 DEF Releases, StateOf
  <2>2. CASE Given
    <3>1. PICK w : w = Head(Waiters)
      OBVIOUS
    <3>2. /\ w \in Thread /\ StateOf(w) = "waiting"
          /\ \A u \in Thread : Waits(u, Object) => Ranks[w] <= Ranks[u]
          /\ \A u \in Thread : /\ Waits(u, Object)' <=> Waits(u, Object) /\ u # w
                               /\ u \in Granted' <=> u \in Granted \/ u = w
      BY <2>2, <3>1, GivenEffect
    <3>3. w # t /\ Waits(w, Object) /\ ~Waits(t, Object)
      BY <2>1, <3>2 DEF StateOf
    <3>4. TwoChange(t, "out", w, "holding")
      BY <2>1, <3>2, <3>3 DEF TwoChange, StateOf
    <3>5. Abstract!Pass(t, w)
      BY <2>1, <2>2, <3>2, <3>3, <3>4, AbstractPass DEF Given
    <3> QED BY <3>2, <3>5 DEF Abstract!Next
  <2>3. CASE Counts
    <3>1. \A u \in Thread : ~Waits(u, Object) /\ ~Waits(u, Object)'
      BY <2>3 DEF Counts, Waits, Waiters, Contains
    <3>2. OneChanges(t, "out")
      BY <2>1, <2>3, <3>1 DEF OneChanges, StateOf, Counts
    <3>3. Abstract!Release(t)
      BY <2>1, <2>3, <3>1, <3>2, AbstractRelease DEF Counts
    <3> QED BY <3>3 DEF Abstract!Next
  <2> QED BY <1>10, <2>2, <2>3 DEF Releases
<1>11. CASE Produces
  <2>1. holds' = holds
    BY <1>11 DEF Produces
  <2>2. CASE Given
    <3>1. PICK w : w = Head(Waiters)
      OBVIOUS
    <3>2. /\ w \in Thread /\ StateOf(w) = "waiting"
          /\ \A u \in Thread : Waits(u, Object) => Ranks[w] <= Ranks[u]
          /\ \A u \in Thread : /\ Waits(u, Object)' <=> Waits(u, Object) /\ u # w
                               /\ u \in Granted' <=> u \in Granted \/ u = w
      BY <2>2, <3>1, GivenEffect
    <3>3. Waits(w, Object)
      BY <3>2 DEF StateOf
    <3>4. OneChanges(w, "holding")
      BY <2>1, <3>2 DEF OneChanges, StateOf
    <3>5. Abstract!ProduceFor(w)
      BY <2>2, <3>2, <3>3, <3>4, AbstractProduceFor DEF Given
    <3> QED BY <3>2, <3>5 DEF Abstract!Next
  <2>3. CASE Counts
    <3>1. \A u \in Thread : ~Waits(u, Object) /\ ~Waits(u, Object)'
      BY <2>3 DEF Counts, Waits, Waiters, Contains
    <3>2. \A u \in Thread : StateOf(u)' = StateOf(u)
      BY <2>1, <2>3, <3>1 DEF StateOf, Counts
    <3>3. Abstract!Produce
      BY <2>3, <3>1, <3>2, AbstractProduce DEF Counts
    <3> QED BY <3>3 DEF Abstract!Next
  <2> QED BY <1>11, <2>2, <2>3 DEF Produces
<1>12. CASE Resets
  <2>1. \A t \in Thread : ~Waits(t, Object)'
    BY <1>12 DEF Resets, Waits, Waiters, Contains
  <2>2. \A t \in Thread : StateOf(t)' = IF Waits(t, Object) THEN "out" ELSE StateOf(t)
    BY <1>3, <1>12, <2>1 DEF Resets, StateOf
  <2>3. Abstract!Reset
    BY <1>12, <2>2, AbstractReset DEF Resets
  <2> QED BY <2>3 DEF Abstract!Next
<1> QED BY <1>5, <1>6, <1>7, <1>8, <1>9, <1>10, <1>11, <1>12 DEF Effect

(* The code of a semaphore, with its lists, time-outs and switches, does   *)
(* what CountingSemaphore says and nothing else.                           *)
THEOREM SemaphoreRefines == SemSpec => ImplementsSemaphore
<1>1. SemInit => Abstract!Init
  <2> SUFFICES ASSUME SemInit PROVE Abstract!Init
    OBVIOUS
  <2>1. SemInv /\ Waiters = <<>>
    BY InitSem, CallsStart, ThreadsAssumption, SemaphoreAssumption, IpcObjectAssumption
       DEF SemInit, ThreadsInit, Starts, Waiters
  <2>2. Granted = {} /\ holds = {} /\ value \in Nat
    BY SemaphoreAssumption DEF Granted, Woken, SemInit, ThreadsInit
  <2>3. \A t \in Thread : StateOf(t) = "out"
    BY <2>1, <2>2, NobodyWaits DEF StateOf
  <2>4. AbstractState = [t \in Thread |-> "out"]
    BY <2>3 DEF AbstractState
  <2> QED BY <2>2, <2>4 DEF Abstract!Init, AbstractState, StateOf
<1>2. SemInv /\ [SemNext]_semVars => [Abstract!Next]_(Abstract!vars)
  BY StepEffect, RefineStep
<1> QED BY <1>1, <1>2, AlwaysSem, PTL DEF SemSpec, ImplementsSemaphore, Abstract!Spec

-----------------------------------------------------------------------------
(***************************************************************************)
(* The event, for any requests and flags: a send leaves nobody waiting for *)
(* flags that are set, no flag is taken twice, and who is woken was given  *)
(* what it asked for.  The loop of rt_event_send serves the waiters one    *)
(* after the other, each from the flags that those before it left: Serving *)
(* says what holds after n of its turns.                                   *)
(***************************************************************************)

(* The flags g are an answer to the request r. *)
Answers(g, r) == g # {} /\ g \subseteq r.set /\ (r.op = "and" => g = r.set)

EventInv ==
    /\ EventTypeOK
    /\ ThreadsOK(k, pc)
    /\ \A t \in Thread : InList(k, Object, t) =>
          /\ event_set[t] = Request[t].set
          /\ ~Satisfied(Request[t].op, Request[t].set, set)
    /\ \A t \in GrantedOf(k, pc, Object) : Answers(event_set[t], Request[t])
    /\ TakenOnce

Bit(e, es) == IF e \in es THEN 1 ELSE 0

(* After n turns of the loop of a send of es, with the kernel, the flags,  *)
(* the event sets and the history as in s: those of the first n that still *)
(* wait are not satisfied, the others wait as before.                      *)
Serving(s, es, n) ==
    /\ ThreadsOK(s.k, pc) /\ s.k.cur = k.cur
    /\ s.set \subseteq EventFlag
    /\ s.es \in [Thread -> SUBSET EventFlag]
    /\ s.taken \in [EventFlag -> Nat]
    /\ \A e \in EventFlag : s.taken[e] + Bit(e, s.set) <= sent[e] + Bit(e, es)
    /\ \A t \in Thread : InList(s.k, Object, t) =>
          InList(k, Object, t) /\ s.es[t] = Request[t].set
    /\ \A j \in 1 .. Len(Waiters) :
          IF j <= n
          THEN InList(s.k, Object, Waiters[j]) =>
                  ~Satisfied(Request[Waiters[j]].op, Request[Waiters[j]].set, s.set)
          ELSE InList(s.k, Object, Waiters[j])
    /\ \A t \in GrantedOf(s.k, pc, Object) : Answers(s.es[t], Request[t])

LEMMA EventStateOK ==
    ASSUME EventInv
    PROVE  /\ ThreadsOK(k, pc) /\ Sound(k) /\ k \in KernelState /\ Object \in WaitQueue
           /\ pc \in [Thread -> PC]
           /\ Waiters \in Seq(Thread) /\ IsInjective(Waiters)
<1>1. ThreadsOK(k, pc) /\ Sound(k) /\ k \in KernelState /\ Object \in WaitQueue
  BY IpcObjectAssumption DEF EventInv, ThreadsOK, Sound
<1> QED BY <1>1, QueueOK DEF EventInv, EventTypeOK, Waiters

LEMMA RequestOK ==
    ASSUME NEW t \in Thread
    PROVE  /\ Request[t].set \subseteq EventFlag /\ Request[t].set # {}
           /\ Request[t].op \in {"and", "or"} /\ Request[t].clear \in BOOLEAN
BY EventAssumption

(* Fewer flags satisfy nobody else. *)
LEMMA SatisfiedByMore ==
    ASSUME NEW op, NEW want, NEW have, NEW more, have \subseteq more,
           ~Satisfied(op, want, more)
    PROVE  ~Satisfied(op, want, have)
BY DEF Satisfied

LEMMA CountedBits ==
    ASSUME NEW count \in [EventFlag -> Nat], NEW es
    PROVE  /\ Counted(count, es) \in [EventFlag -> Nat]
           /\ \A e \in EventFlag : Counted(count, es)[e] = count[e] + Bit(e, es)
BY DEF Counted, Bit

(* What a receiver with CLEAR takes is not set any more.                   *)
LEMMA TakeConserves ==
    ASSUME NEW count \in [EventFlag -> Nat], NEW have \in SUBSET EventFlag,
           NEW hits \in SUBSET have, NEW e \in EventFlag
    PROVE  Counted(count, hits)[e] + Bit(e, have \ hits) = count[e] + Bit(e, have)
<1>1. Counted(count, hits)[e] = count[e] + Bit(e, hits)
  BY CountedBits
<1>2. Bit(e, hits) + Bit(e, have \ hits) = Bit(e, have)
  BY DEF Bit
<1>3. count[e] \in Nat /\ Bit(e, hits) \in Nat /\ Bit(e, have \ hits) \in Nat
  BY DEF Bit
<1> QED BY <1>1, <1>2, <1>3
-----------------------------------------------------------------------------
(* The flags of a waiter whom the turn satisfies.                          *)
LEMMA ServeAnswers ==
    ASSUME NEW t \in Thread, NEW have \in SUBSET EventFlag,
           Satisfied(Request[t].op, Request[t].set, have)
    PROVE  Answers(Request[t].set \cap have, Request[t])
<1>1. Request[t].set # {} /\ Request[t].op \in {"and", "or"}
  BY RequestOK
<1>2. CASE Request[t].op = "and"
  BY <1>1, <1>2 DEF Satisfied, Answers
<1>3. CASE Request[t].op = "or"
  BY <1>1, <1>3 DEF Satisfied, Answers
<1> QED BY <1>1, <1>2, <1>3

LEMMA ServeTurn ==
    ASSUME EventInv, NEW es \in SUBSET EventFlag, NEW s,
           NEW n \in Nat, n < Len(Waiters), Serving(s, es, n)
    PROVE  Serving(Serve(s, Waiters[n + 1]), es, n + 1)
<1>1. /\ Waiters \in Seq(Thread) /\ IsInjective(Waiters) /\ Len(Waiters) \in Nat
      /\ DOMAIN Waiters = 1 .. Len(Waiters) /\ Object \in WaitQueue
  BY EventStateOK, LenProperties
<1>2. PICK i \in 1 .. Len(Waiters) : i = n + 1
  BY <1>1
<1>3. PICK t \in Thread : t = Waiters[i]
  BY <1>1
<1>4. \A j \in 1 .. Len(Waiters) : Waiters[j] = t => j = i
  BY <1>1, <1>3 DEF IsInjective
<1>5. InList(s.k, Object, t) /\ s.es[t] = Request[t].set
  BY <1>2, <1>3 DEF Serving
<1> DEFINE r == Request[t]
<1>6. /\ r.set \subseteq EventFlag /\ r.clear \in BOOLEAN
  BY RequestOK
<1>7. CASE ~Satisfied(r.op, r.set, s.set)
  <2>1. Serve(s, t) = s
    BY <1>5, <1>7 DEF Serve
  <2>2. Serving(s, es, n + 1)
    BY <1>1, <1>2, <1>3, <1>4, <1>7 DEF Serving
  <2> QED BY <1>2, <1>3, <2>1, <2>2
<1>8. CASE Satisfied(r.op, r.set, s.set)
  <2>1. PICK hits \in SUBSET s.set : hits = r.set \cap s.set
    OBVIOUS
  <2>2. PICK have : have = IF r.clear THEN s.set \ hits ELSE s.set
    OBVIOUS
  <2>3. PICK count : count = IF r.clear THEN Counted(s.taken, hits) ELSE s.taken
    OBVIOUS
  <2>4. PICK kk : kk = rt_thread_resume(s.k, t)
    OBVIOUS
  <2>5. PICK sets : sets = [s.es EXCEPT ![t] = hits]
    OBVIOUS
  <2>6. Serve(s, t) = [k |-> kk, set |-> have, es |-> sets, taken |-> count]
    BY <1>5, <1>8, <2>1, <2>2, <2>3, <2>4, <2>5 DEF Serve
  <2>7. /\ ThreadsOK(kk, pc) /\ kk.cur = s.k.cur /\ kk.err = s.k.err
        /\ \A v : InList(kk, Object, v) <=> InList(s.k, Object, v) /\ v # t
    BY <1>1, <1>5, <2>4, CallsResume DEF Serving
  <2>8. /\ have \subseteq s.set /\ have \subseteq EventFlag
        /\ count \in [EventFlag -> Nat]
        /\ \A e \in EventFlag : count[e] + Bit(e, have) = s.taken[e] + Bit(e, s.set)
    <3>1. s.set \subseteq EventFlag /\ s.taken \in [EventFlag -> Nat]
      BY DEF Serving
    <3>2. CASE r.clear
      <4>1. have = s.set \ hits /\ count = Counted(s.taken, hits)
        BY <2>2, <2>3, <3>2
      <4>2. count \in [EventFlag -> Nat]
        BY <3>1, <4>1, CountedBits
      <4>3. \A e \in EventFlag : count[e] + Bit(e, have) = s.taken[e] + Bit(e, s.set)
        BY <3>1, <4>1, TakeConserves
      <4> QED BY <3>1, <4>1, <4>2, <4>3
    <3>3. CASE ~r.clear
      BY <2>2, <2>3, <3>1, <3>3
    <3> QED BY <3>2, <3>3
  <2>9. /\ sets \in [Thread -> SUBSET EventFlag] /\ sets[t] = hits
        /\ \A u \in Thread \ {t} : sets[u] = s.es[u]
    BY <2>1, <2>5 DEF Serving
  <2>10. \A e \in EventFlag : count[e] + Bit(e, have) <= sent[e] + Bit(e, es)
    BY <2>8 DEF Serving
  <2>11. \A u \in Thread : InList(kk, Object, u) => InList(k, Object, u) /\ sets[u] = Request[u].set
    BY <2>7, <2>9 DEF Serving
  <2>12. ASSUME NEW j \in 1 .. Len(Waiters)
         PROVE  IF j <= n + 1
                THEN InList(kk, Object, Waiters[j]) =>
                        ~Satisfied(Request[Waiters[j]].op, Request[Waiters[j]].set, have)
                ELSE InList(kk, Object, Waiters[j])
    <3>1. CASE j <= n
      <4>1. InList(kk, Object, Waiters[j]) =>
               ~Satisfied(Request[Waiters[j]].op, Request[Waiters[j]].set, s.set)
        BY <2>7, <3>1 DEF Serving
      <4>2. j <= n + 1
        BY <3>1
      <4> QED BY <2>8, <4>1, <4>2, SatisfiedByMore
    <3>2. CASE j = n + 1
      BY <1>2, <1>3, <2>7, <3>2
    <3>3. CASE j > n + 1
      <4>1. InList(s.k, Object, Waiters[j]) /\ Waiters[j] # t
        BY <1>2, <1>4, <3>3 DEF Serving
      <4> QED BY <2>7, <3>3, <4>1
    <3> QED BY <3>1, <3>2, <3>3
  <2>13. ASSUME NEW u \in GrantedOf(kk, pc, Object) PROVE Answers(sets[u], Request[u])
    <3>1. CASE u = t
      <4>1. s.set \in SUBSET EventFlag
        BY DEF Serving
      <4>2. Answers(hits, Request[t])
        BY <1>8, <2>1, <4>1, ServeAnswers
      <4> QED BY <2>9, <3>1, <4>2
    <3>2. CASE u # t
      <4>1. u \in GrantedOf(s.k, pc, Object) /\ u \in Thread
        BY <2>7, <3>2 DEF GrantedOf
      <4> QED BY <2>9, <3>2, <4>1 DEF Serving
    <3> QED BY <3>1, <3>2
  <2>14. PICK x : x = [k |-> kk, set |-> have, es |-> sets, taken |-> count]
    OBVIOUS
  <2>15. x.k = kk /\ x.set = have /\ x.es = sets /\ x.taken = count
    BY <2>14
  <2>16. s.k.cur = k.cur
    BY DEF Serving
  <2>17. Serving(x, es, n + 1)
    BY <2>7, <2>8, <2>9, <2>10, <2>11, <2>12, <2>13, <2>15, <2>16 DEF Serving
  <2> QED BY <1>2, <1>3, <2>6, <2>14, <2>17
<1> QED BY <1>7, <1>8

(* g numbers the turns of the loop as its definition does; it exists.      *)
Start(es) == [k |-> k, set |-> set \cup es, es |-> event_set, taken |-> taken]

Serves(g, m, es) ==
    g = [n \in 0 .. m |-> IF n = 0 THEN Start(es) ELSE Serve(g[n - 1], Waiters[n])]

LEMMA ServesExist ==
    ASSUME NEW es, NEW m \in Nat
    PROVE  \E g : Serves(g, m, es)
<1> USE DEF Serves
<1> DEFINE S == { n \in Nat : \E g : Serves(g, n, es) }
<1>1. 0 \in S
  <2> DEFINE g == [n \in 0 .. 0 |-> Start(es)]
  <2>1. Serves(g, 0, es)
    OBVIOUS
  <2> QED BY <2>1
<1>2. ASSUME NEW i \in Nat, i \in S PROVE i + 1 \in S
  <2>1. PICK g : Serves(g, i, es)
    BY <1>2
  <2> DEFINE h == [n \in 0 .. i + 1 |->
                      IF n <= i THEN g[n] ELSE Serve(g[i], Waiters[i + 1])]
  <2>2. ASSUME NEW n \in 0 .. i + 1
        PROVE  h[n] = IF n = 0 THEN Start(es) ELSE Serve(h[n - 1], Waiters[n])
    <3>1. CASE n = 0
      BY <2>1, <3>1
    <3>2. CASE n # 0 /\ n <= i
      <4>1. n \in 0 .. i /\ n - 1 \in 0 .. i
        BY <3>2
      <4>2. g[n] = Serve(g[n - 1], Waiters[n])
        BY <2>1, <3>2, <4>1
      <4>3. h[n] = g[n] /\ h[n - 1] = g[n - 1]
        BY <4>1
      <4> QED BY <3>2, <4>2, <4>3
    <3>3. CASE n = i + 1
      <4>1. h[n] = Serve(g[i], Waiters[n]) /\ h[n - 1] = g[i]
        BY <3>3
      <4> QED BY <3>3, <4>1
    <3> QED BY <3>1, <3>2, <3>3
  <2>3. Serves(h, i + 1, es)
    BY <2>2
  <2>4. \E x : Serves(x, i + 1, es)
    <3> HIDE DEF h, Serves
    <3> QED BY <2>3
  <2> QED BY <2>4
<1> HIDE DEF S
<1>3. Nat \subseteq S
  BY <1>1, <1>2, InductiveSet
<1> QED BY <1>3 DEF S

LEMMA ServeStarts ==
    ASSUME EventInv, NEW es \in SUBSET EventFlag
    PROVE  Serving(Start(es), es, 0)
<1>1. /\ Waiters \in Seq(Thread) /\ Len(Waiters) \in Nat /\ ThreadsOK(k, pc)
      /\ \A j \in 1 .. Len(Waiters) : InList(k, Object, Waiters[j])
  BY EventStateOK, LenProperties DEF InList, Contains, Waiters
<1>2. PICK s : s = Start(es)
  OBVIOUS
<1>3. s.k = k /\ s.set = set \cup es /\ s.es = event_set /\ s.taken = taken
  BY <1>2 DEF Start
<1>4. ASSUME NEW e \in EventFlag
      PROVE  s.taken[e] + Bit(e, s.set) <= sent[e] + Bit(e, es)
  <2>1. taken[e] + Bit(e, set) <= sent[e] /\ taken[e] \in Nat /\ sent[e] \in Nat
    BY DEF EventInv, EventTypeOK, TakenOnce, Bit
  <2>2. Bit(e, set \cup es) <= Bit(e, set) + Bit(e, es)
    BY DEF Bit
  <2>3. Bit(e, set \cup es) \in Nat /\ Bit(e, set) \in Nat /\ Bit(e, es) \in Nat
    BY DEF Bit
  <2> QED BY <1>3, <2>1, <2>2, <2>3
<1>5. s.set \subseteq EventFlag /\ s.es \in [Thread -> SUBSET EventFlag] /\ s.taken \in [EventFlag -> Nat]
  BY <1>3 DEF EventInv, EventTypeOK
<1>6. /\ \A t \in Thread : InList(s.k, Object, t) => InList(k, Object, t) /\ s.es[t] = Request[t].set
      /\ \A t \in GrantedOf(s.k, pc, Object) : Answers(s.es[t], Request[t])
  BY <1>3 DEF EventInv
<1>7. \A j \in 1 .. Len(Waiters) : ~(j <= 0) /\ InList(s.k, Object, Waiters[j])
  BY <1>1, <1>3
<1>8. ThreadsOK(s.k, pc) /\ s.k.cur = k.cur
  BY <1>1, <1>3
<1>9. Serving(s, es, 0)
  BY <1>4, <1>5, <1>6, <1>7, <1>8 DEF Serving
<1> QED BY <1>2, <1>9

(* The whole loop.                                                         *)
LEMMA SentServes ==
    ASSUME EventInv, NEW es \in SUBSET EventFlag
    PROVE  Serving(Sent(es), es, Len(Waiters))
<1> DEFINE L == Len(Waiters)
           turns == CHOOSE g : Serves(g, L, es)
           S == { n \in Nat : n <= L => Serving(turns[n], es, n) }
<1>1. L \in Nat
  BY EventStateOK, LenProperties
<1>2. turns = [n \in 0 .. L |-> IF n = 0 THEN Start(es) ELSE Serve(turns[n - 1], Waiters[n])]
  <2>1. \E g : Serves(g, L, es)
    BY <1>1, ServesExist
  <2>2. Serves(turns, L, es)
    BY <2>1, Zenon
  <2> QED BY <2>2 DEF Serves
<1>3. Sent(es) = turns[L]
  BY DEF Sent, Serves, Start, Waiters
<1> HIDE DEF turns
<1>4. turns[0] = Start(es) /\ \A n \in 0 .. L : n # 0 => turns[n] = Serve(turns[n - 1], Waiters[n])
  <2>1. ASSUME NEW n \in 0 .. L
        PROVE  turns[n] = IF n = 0 THEN Start(es) ELSE Serve(turns[n - 1], Waiters[n])
    <3> DEFINE g == [n1 \in 0 .. L |->
                        IF n1 = 0 THEN Start(es) ELSE Serve(turns[n1 - 1], Waiters[n1])]
    <3>1. g[n] = IF n = 0 THEN Start(es) ELSE Serve(turns[n - 1], Waiters[n])
      OBVIOUS
    <3>2. turns = g
      BY <1>2
    <3> HIDE DEF g
    <3> QED BY <3>1, <3>2
  <2> QED BY <1>1, <2>1
<1>5. 0 \in S
  BY <1>4, ServeStarts
<1>6. ASSUME NEW n \in Nat, n \in S PROVE n + 1 \in S
  <2> SUFFICES ASSUME n + 1 <= L PROVE Serving(turns[n + 1], es, n + 1)
    BY DEF S
  <2>1. Serving(turns[n], es, n) /\ n < L
    BY <1>1, <1>6
  <2>2. turns[n + 1] = Serve(turns[n], Waiters[n + 1])
    <3>1. n + 1 \in 0 .. L /\ n + 1 # 0 /\ (n + 1) - 1 = n
      BY <1>1
    <3> QED BY <1>4, <3>1
  <2>3. Serving(Serve(turns[n], Waiters[n + 1]), es, n + 1)
    BY <2>1, ServeTurn
  <2> QED BY <2>2, <2>3
<1>7. Nat \subseteq S
  <2> HIDE DEF S
  <2> QED BY <1>5, <1>6, InductiveSet
<1>8. Serving(turns[L], es, L)
  BY <1>1, <1>7
<1> QED BY <1>3, <1>8

(* What rt_event_send does before it schedules.                            *)
LEMMA SentOK ==
    ASSUME EventInv, NEW es \in SUBSET EventFlag
    PROVE  /\ ThreadsOK(Sent(es).k, pc) /\ Sent(es).k.cur = k.cur
           /\ Sent(es).set \subseteq EventFlag
           /\ Sent(es).es \in [Thread -> SUBSET EventFlag]
           /\ Sent(es).taken \in [EventFlag -> Nat]
           /\ \A e \in EventFlag :
                 Sent(es).taken[e] + Bit(e, Sent(es).set) <= sent[e] + Bit(e, es)
           /\ \A t \in Thread : InList(Sent(es).k, Object, t) =>
                 /\ Sent(es).es[t] = Request[t].set
                 /\ ~Satisfied(Request[t].op, Request[t].set, Sent(es).set)
           /\ \A t \in GrantedOf(Sent(es).k, pc, Object) : Answers(Sent(es).es[t], Request[t])
<1>1. PICK s : s = Sent(es)
  OBVIOUS
<1>2. Serving(s, es, Len(Waiters))
  BY <1>1, SentServes
<1>3. Waiters \in Seq(Thread) /\ Len(Waiters) \in Nat
  BY EventStateOK, LenProperties
<1>4. ASSUME NEW t \in Thread, InList(s.k, Object, t)
      PROVE  s.es[t] = Request[t].set /\ ~Satisfied(Request[t].op, Request[t].set, s.set)
  <2>1. InList(k, Object, t) /\ s.es[t] = Request[t].set
    BY <1>2, <1>4 DEF Serving
  <2>2. PICK j \in 1 .. Len(Waiters) : Waiters[j] = t
    BY <1>3, <2>1 DEF InList, Contains, Waiters
  <2>3. j <= Len(Waiters)
    BY <1>3
  <2> QED BY <1>2, <1>4, <2>1, <2>2, <2>3 DEF Serving
<1>5. /\ ThreadsOK(s.k, pc) /\ s.k.cur = k.cur
      /\ s.set \subseteq EventFlag
      /\ s.es \in [Thread -> SUBSET EventFlag]
      /\ s.taken \in [EventFlag -> Nat]
      /\ \A e \in EventFlag : s.taken[e] + Bit(e, s.set) <= sent[e] + Bit(e, es)
      /\ \A t \in GrantedOf(s.k, pc, Object) : Answers(s.es[t], Request[t])
  BY <1>2 DEF Serving
<1> QED BY <1>1, <1>4, <1>5
-----------------------------------------------------------------------------
(* The steps.  Most of them take flags or threads away.                    *)
LEMMA EventShrinks ==
    ASSUME EventInv, ThreadsOK(k', pc'), pc' \in [Thread -> PC],
           \A v \in Thread : InList(k', Object, v) => InList(k, Object, v),
           GrantedOf(k', pc', Object) \subseteq GrantedOf(k, pc, Object),
           set' \subseteq set, alive' \in BOOLEAN, UNCHANGED <<event_set, sends, sent>>,
           taken' \in [EventFlag -> Nat], TakenOnce'
    PROVE  EventInv'
<1>1. EventTypeOK'
  <2>1. k' \in KernelState
    BY DEF ThreadsOK, Sound
  <2> QED BY <2>1 DEF EventInv, EventTypeOK
<1>2. \A t \in Thread : InList(k', Object, t) =>
         /\ event_set'[t] = Request[t].set
         /\ ~Satisfied(Request[t].op, Request[t].set, set')
  BY SatisfiedByMore DEF EventInv
<1>3. \A t \in GrantedOf(k', pc', Object) : Answers(event_set'[t], Request[t])
  BY DEF EventInv
<1> QED BY <1>1, <1>2, <1>3 DEF EventInv

LEMMA EventStays ==
    ASSUME EventInv, ThreadsOK(k', pc'), pc' \in [Thread -> PC],
           \A v \in Thread : InList(k', Object, v) => InList(k, Object, v),
           GrantedOf(k', pc', Object) \subseteq GrantedOf(k, pc, Object),
           set' \subseteq set, alive' \in BOOLEAN, UNCHANGED <<event_set, history>>
    PROVE  EventInv'
<1>1. /\ UNCHANGED <<event_set, sends, sent>>
      /\ taken' = taken /\ sent' = sent
      /\ taken \in [EventFlag -> Nat] /\ sent \in [EventFlag -> Nat]
  BY DEF history, EventInv, EventTypeOK
<1>2. TakenOnce'
  <2>1. \A e \in EventFlag : taken[e] + (IF e \in set THEN 1 ELSE 0) <= sent[e]
    BY DEF EventInv, TakenOnce
  <2>2. ASSUME NEW e \in EventFlag
        PROVE  taken'[e] + (IF e \in set' THEN 1 ELSE 0) <= sent'[e]
    <3>1. taken[e] \in Nat /\ sent[e] \in Nat
      BY <1>1
    <3>2. CASE e \in set
      BY <1>1, <2>1, <3>1, <3>2
    <3>3. CASE e \notin set
      BY <1>1, <2>1, <3>1, <3>3
    <3> QED BY <3>2, <3>3
  <2> QED BY <2>2 DEF TakenOnce
<1> QED BY <1>1, <1>2, EventShrinks

LEMMA EventCallerRuns ==
    ASSUME EventInv, NEW t \in Thread, NEW at, at \notin AtSwitch, Running(t, at),
           at # "user" \/ \E api : Calls(t, api)
    PROVE  k.cur = t /\ pc[t] = at /\ t # Idle /\ pc[k.cur] \notin AtSwitch
<1>1. k.cur = t /\ pc[t] = at /\ pc[k.cur] \notin AtSwitch
  BY DEF Running
<1>2. t # Idle
  BY <1>1, EventStateOK, ThreadsAssumption DEF Calls, ThreadsOK
<1> QED BY <1>1, <1>2

(* t goes on in its call, or leaves it, with at most its error changed.    *)
LEMMA EventMovesOn ==
    ASSUME EventInv, NEW t \in Thread \ {Idle}, k.cur = t, pc[t] \notin AtSwitch,
           pc'[t] \notin {"sched", "woken"}, \A u \in Thread \ {t} : pc'[u] = pc[u],
           \/ UNCHANGED k
           \/ \E e \in Error : k' = [k EXCEPT !.err[t] = e]
    PROVE  /\ ThreadsOK(k', pc')
           /\ \A v \in Thread : InList(k', Object, v) => InList(k, Object, v)
           /\ GrantedOf(k', pc', Object) \subseteq GrantedOf(k, pc, Object)
<1>1. ThreadsOK(k, pc) /\ Sound(k) /\ k \in KernelState /\ Object \in WaitQueue
  BY EventStateOK
<1>2. /\ Sound(k') /\ k'.cur = k.cur /\ k'.stat = k.stat /\ k'.list = k.list
      /\ \A u \in Thread \ {t} : k'.err[u] = k.err[u]
  <2>1. CASE UNCHANGED k
    BY <1>1, <2>1
  <2>2. ASSUME NEW e \in Error, k' = [k EXCEPT !.err[t] = e]
        PROVE  /\ Sound(k') /\ k'.cur = k.cur /\ k'.stat = k.stat /\ k'.list = k.list
               /\ \A u \in Thread \ {t} : k'.err[u] = k.err[u]
    BY <1>1, <2>2, SoundError DEF KernelState
  <2> QED BY <2>1, <2>2
<1>3. GoesOn(k', k, pc', pc)
  BY <1>2 DEF GoesOn
<1>4. /\ ThreadsOK(k', pc')
      /\ GrantedOf(k', pc', Object) = GrantedOf(k, pc, Object) \ {k.cur}
  BY <1>1, <1>3, QuietMove
<1> QED BY <1>2, <1>4 DEF InList

(* t goes on after what it did to the kernel has left ThreadsOK to hold.   *)
LEMMA GoesAfter ==
    ASSUME EventInv, NEW t \in Thread \ {Idle}, pc[t] \notin AtSwitch,
           NEW to \in PC, to \notin {"sched", "woken"}, Goto(t, to),
           ThreadsOK(k', pc), k'.cur = t
    PROVE  /\ ThreadsOK(k', pc') /\ pc' \in [Thread -> PC]
           /\ GrantedOf(k', pc', Object) \subseteq GrantedOf(k', pc, Object)
<1>1. pc \in [Thread -> PC] /\ Object \in WaitQueue
  BY EventStateOK
<1>2. /\ pc' \in [Thread -> PC] /\ pc'[t] = to
      /\ \A u \in Thread \ {t} : pc'[u] = pc[u]
  BY <1>1 DEF Goto
<1>3. GoesOn(k', k', pc', pc)
  BY <1>2 DEF GoesOn, ThreadsOK
<1>4. /\ ThreadsOK(k', pc')
      /\ GrantedOf(k', pc', Object) = GrantedOf(k', pc, Object) \ {k'.cur}
  BY <1>1, <1>2, <1>3, QuietMove
<1> QED BY <1>2, <1>4

LEMMA StepRecvNow == EventInv /\ (\E t \in Thread : RecvNow(t)) => EventInv'
<1> SUFFICES ASSUME EventInv, NEW t \in Thread, RecvNow(t) PROVE EventInv'
  OBVIOUS
<1>1. /\ Calls(t, "recv") /\ k' = [k EXCEPT !.err[t] = "ok"] /\ "ok" \in Error
      /\ set' = (IF Request[t].clear THEN set \ Request[t].set ELSE set)
      /\ taken' = IF Request[t].clear THEN Counted(taken, set \cap Request[t].set) ELSE taken
      /\ pc' = pc /\ alive' = alive /\ UNCHANGED <<event_set, sends, sent>>
  BY DEF RecvNow, Error
<1>2. k.cur = t /\ pc[t] = "user" /\ t # Idle
  BY <1>1, EventCallerRuns DEF Calls, AtSwitch
<1>3. /\ ThreadsOK(k', pc')
      /\ \A v \in Thread : InList(k', Object, v) => InList(k, Object, v)
      /\ GrantedOf(k', pc', Object) \subseteq GrantedOf(k, pc, Object)
  <2>1. /\ t \in Thread \ {Idle} /\ pc[t] \notin AtSwitch /\ pc'[t] \notin {"sched", "woken"}
        /\ \A u \in Thread \ {t} : pc'[u] = pc[u]
        /\ \E e \in Error : k' = [k EXCEPT !.err[t] = e]
    BY <1>1, <1>2 DEF AtSwitch
  <2> QED BY <1>2, <2>1, EventMovesOn
<1>4. /\ set \in SUBSET EventFlag /\ taken \in [EventFlag -> Nat] /\ sent \in [EventFlag -> Nat]
      /\ alive \in BOOLEAN /\ pc \in [Thread -> PC]
      /\ \A e \in EventFlag : taken[e] + Bit(e, set) <= sent[e]
  BY DEF EventInv, EventTypeOK, TakenOnce, Bit
<1>5. /\ taken' \in [EventFlag -> Nat]
      /\ \A e \in EventFlag : taken'[e] + Bit(e, set') = taken[e] + Bit(e, set)
  <2>1. CASE Request[t].clear
    <3>1. PICK hits \in SUBSET set : hits = set \cap Request[t].set
      OBVIOUS
    <3>2. set' = set \ hits /\ taken' = Counted(taken, hits)
      BY <1>1, <2>1, <3>1
    <3>3. taken' \in [EventFlag -> Nat]
      BY <1>4, <3>2, CountedBits
    <3>4. \A e \in EventFlag : taken'[e] + Bit(e, set') = taken[e] + Bit(e, set)
      BY <1>4, <3>2, TakeConserves
    <3> QED BY <3>3, <3>4
  <2>2. CASE ~Request[t].clear
    BY <1>1, <1>4, <2>2
  <2> QED BY <2>1, <2>2
<1>6. TakenOnce'
  <2>1. \A e \in EventFlag : taken'[e] + Bit(e, set') <= sent'[e]
    BY <1>1, <1>4, <1>5
  <2> QED BY <2>1 DEF TakenOnce, Bit
<1>7. set' \subseteq set /\ alive' \in BOOLEAN /\ pc' \in [Thread -> PC]
  BY <1>1, <1>4
<1> QED BY <1>1, <1>3, <1>5, <1>6, <1>7, EventShrinks

(* The steps of calls that leave the flags alone. *)
LEMMA MovesStay ==
    ASSUME EventInv, NEW t \in Thread \ {Idle}, k.cur = t, pc[t] \notin AtSwitch,
           \/ pc[t] = "user" /\ UNCHANGED pc
           \/ \E to \in PC \ {"sched", "woken"} : Goto(t, to),
           \/ UNCHANGED k
           \/ \E e \in Error : k' = [k EXCEPT !.err[t] = e],
           UNCHANGED <<set, event_set, history>>, alive' \in BOOLEAN
    PROVE  EventInv'
<1>1. /\ pc' \in [Thread -> PC] /\ pc'[t] \notin {"sched", "woken"}
      /\ \A u \in Thread \ {t} : pc'[u] = pc[u]
  <2>1. pc \in [Thread -> PC]
    BY EventStateOK
  <2>2. CASE pc[t] = "user" /\ UNCHANGED pc
    BY <2>1, <2>2
  <2>3. ASSUME NEW to \in PC \ {"sched", "woken"}, Goto(t, to)
        PROVE  /\ pc' \in [Thread -> PC] /\ pc'[t] \notin {"sched", "woken"}
               /\ \A u \in Thread \ {t} : pc'[u] = pc[u]
    BY <2>1, <2>3 DEF Goto
  <2> QED BY <2>2, <2>3
<1>2. /\ ThreadsOK(k', pc')
      /\ \A v \in Thread : InList(k', Object, v) => InList(k, Object, v)
      /\ GrantedOf(k', pc', Object) \subseteq GrantedOf(k, pc, Object)
  BY <1>1, EventMovesOn
<1> QED BY <1>1, <1>2, EventStays

LEMMA StepRecvFails ==
    ASSUME EventInv, NEW t \in Thread, RecvFails(t) PROVE EventInv'
<1>1. k.cur = t /\ pc[t] = "user" /\ t # Idle /\ pc[t] \notin AtSwitch
  BY EventCallerRuns DEF RecvFails, Calls, AtSwitch
<1>2. /\ \E e \in Error : k' = [k EXCEPT !.err[t] = e]
      /\ pc' = pc /\ alive' = alive /\ UNCHANGED <<set, event_set, history>>
  BY DEF RecvFails, event, Error
<1>3. t \in Thread \ {Idle} /\ alive' \in BOOLEAN
  BY <1>1, <1>2 DEF EventInv, EventTypeOK
<1> QED BY <1>1, <1>2, <1>3, MovesStay

LEMMA StepRecvReturns ==
    ASSUME EventInv, NEW t \in Thread, RecvReturns(t) PROVE EventInv'
<1>1. k.cur = t /\ t # Idle /\ pc[t] \notin AtSwitch
  BY EventCallerRuns DEF RecvReturns, AtSwitch
<1>2. /\ \E to \in PC \ {"sched", "woken"} : Goto(t, to)
      /\ UNCHANGED k /\ alive' = alive /\ UNCHANGED <<set, event_set, history>>
  BY DEF RecvReturns, event, PC
<1>3. t \in Thread \ {Idle} /\ alive' \in BOOLEAN
  BY <1>1, <1>2 DEF EventInv, EventTypeOK
<1> QED BY <1>1, <1>2, <1>3, MovesStay

LEMMA EventStepDetachStarts ==
    ASSUME EventInv, NEW t \in Thread, EventDetachStarts(t) PROVE EventInv'
<1>1. k.cur = t /\ t # Idle /\ pc[t] \notin AtSwitch
  BY EventCallerRuns DEF EventDetachStarts, Calls, AtSwitch
<1>2. /\ \E to \in PC \ {"sched", "woken"} : Goto(t, to)
      /\ UNCHANGED k /\ alive' \in BOOLEAN /\ UNCHANGED <<set, event_set, history>>
  BY DEF EventDetachStarts, PC
<1>3. t \in Thread \ {Idle}
  BY <1>1
<1> QED BY <1>1, <1>2, <1>3, MovesStay

LEMMA EventStepDetachResumes ==
    ASSUME EventInv, NEW t \in Thread, EventDetachResumes(t) PROVE EventInv'
<1>1. Running(t, "check") \/ Running(t, "resume")
  BY DEF EventDetachResumes, ChecksList, ResumesNext
<1>2. k.cur = t /\ t # Idle /\ pc[t] \notin AtSwitch
  BY <1>1, EventCallerRuns DEF AtSwitch
<1>3. /\ t \in Thread \ {Idle} /\ alive' \in BOOLEAN
      /\ set' = set /\ UNCHANGED <<set, event_set, history>>
      /\ {"user", "resume", "fault", "check"} \subseteq PC \ {"sched", "woken"}
  BY <1>2 DEF EventDetachResumes, EventInv, EventTypeOK, event, PC
<1>4. ASSUME NEW to \in {"user", "resume", "fault"}, Goto(t, to), UNCHANGED k
      PROVE  EventInv'
  BY <1>2, <1>3, <1>4, MovesStay
<1>5. ASSUME Waiters # <<>>, k' = ResumeWithError(k, Object), Goto(t, "check")
      PROVE  EventInv'
  <2>1. ThreadsOK(k, pc) /\ Object \in WaitQueue /\ Waiters \in Seq(Thread) /\ IsInjective(Waiters)
    BY EventStateOK
  <2>2. PICK u : u = Head(Waiters)
    OBVIOUS
  <2>3. /\ ThreadsOK(k', pc) /\ k'.cur = t
        /\ k'.list[Object] = RemoveFirst(Waiters, u)
        /\ GrantedOf(k', pc, Object) = GrantedOf(k, pc, Object) \ {u}
    BY <1>2, <1>5, <2>1, <2>2, QuietTurn DEF Waiters
  <2>4. \A v \in Thread : InList(k', Object, v) => InList(k, Object, v)
    BY <2>1, <2>3, RemoveFromList DEF InList, Waiters
  <2>5. /\ ThreadsOK(k', pc') /\ pc' \in [Thread -> PC]
        /\ GrantedOf(k', pc', Object) \subseteq GrantedOf(k', pc, Object)
    <3>1. "check" \in PC /\ "check" \notin {"sched", "woken"}
      BY <1>3
    <3> QED BY <1>2, <1>3, <1>5, <2>3, <3>1, GoesAfter
  <2> QED BY <1>3, <2>3, <2>4, <2>5, EventStays
<1>6. CASE ChecksList(t, "check", Object, "resume", "user")
  BY <1>4, <1>6 DEF ChecksList
<1>7. CASE ResumesNext(t, "resume", Object, "check")
  BY <1>4, <1>5, <1>7 DEF ResumesNext, Waiters
<1> QED BY <1>6, <1>7 DEF EventDetachResumes

(* t begins to wait for its whole request. *)
LEMMA StepRecvWaits ==
    ASSUME EventInv, NEW t \in Thread, NEW timed \in BOOLEAN, RecvWaits(t, timed)
    PROVE  EventInv'
<1>1. /\ Calls(t, "recv") /\ ~Satisfied(Request[t].op, Request[t].set, set)
      /\ k' = BlockOf(k, t, Object, Flag, timed)
      /\ event_set' = [event_set EXCEPT ![t] = Request[t].set]
      /\ Goto(t, "sched") /\ UNCHANGED <<set, alive, history>>
  BY DEF RecvWaits, Block, BlockOf
<1>2. k.cur = t /\ pc[t] = "user" /\ t # Idle /\ pc[k.cur] \notin AtSwitch
  BY <1>1, EventCallerRuns DEF Calls, AtSwitch
<1>3. /\ ThreadsOK(k, pc) /\ Object \in WaitQueue /\ pc \in [Thread -> PC] /\ "sched" \in PC
      /\ event_set \in [Thread -> SUBSET EventFlag] /\ Request[t].set \subseteq EventFlag
  BY EventStateOK, RequestOK DEF EventInv, EventTypeOK, PC
<1>4. /\ pc' \in [Thread -> PC] /\ pc'[t] = "sched" /\ \A u \in Thread \ {t} : pc'[u] = pc[u]
      /\ event_set' \in [Thread -> SUBSET EventFlag] /\ event_set'[t] = Request[t].set
      /\ \A u \in Thread \ {t} : event_set'[u] = event_set[u]
  BY <1>1, <1>3 DEF Goto
<1>5. /\ ThreadsOK(k', pc')
      /\ \A v : InList(k', Object, v) <=> InList(k, Object, v) \/ v = t
      /\ GrantedOf(k', pc', Object) = GrantedOf(k, pc, Object) \ {t}
  <2>1. ThreadsOK(k', pc') /\ \A u \in Thread \ {t} : k'.err[u] = k.err[u]
    BY <1>1, <1>2, <1>3, <1>4, CallsBlock
  <2>2. \A v : InList(k', Object, v) <=> InList(k, Object, v) \/ v = t
    BY <1>1, <1>2, <1>3, <1>4, CallsBlock
  <2>3. \A v \in Thread : v \in GrantedOf(k', pc', Object) <=> v \in GrantedOf(k, pc, Object) /\ v # t
    BY <1>4, <2>1, <2>2 DEF GrantedOf
  <2> QED BY <2>1, <2>2, <2>3 DEF GrantedOf
<1>6. EventTypeOK'
  <2>1. k' \in KernelState
    BY <1>5 DEF ThreadsOK, Sound
  <2> QED BY <1>1, <1>4, <2>1 DEF EventInv, EventTypeOK, history
<1>7. ASSUME NEW u \in Thread, InList(k', Object, u)
      PROVE  event_set'[u] = Request[u].set /\ ~Satisfied(Request[u].op, Request[u].set, set')
  <2>1. CASE u = t
    BY <1>1, <1>4, <2>1
  <2>2. CASE u # t
    BY <1>1, <1>4, <1>5, <1>7, <2>2 DEF EventInv
  <2> QED BY <2>1, <2>2
<1>8. ASSUME NEW u \in GrantedOf(k', pc', Object) PROVE Answers(event_set'[u], Request[u])
  <2>1. u \in Thread \ {t} /\ u \in GrantedOf(k, pc, Object)
    BY <1>5 DEF GrantedOf
  <2> QED BY <1>4, <2>1 DEF EventInv
<1>9. TakenOnce'
  BY <1>1 DEF EventInv, TakenOnce, history
<1> QED BY <1>5, <1>6, <1>7, <1>8, <1>9 DEF EventInv

LEMMA StepSchedules ==
    ASSUME EventInv, EventSlice \/ \E t \in Thread : RecvSchedules(t) \/ SendSchedules(t)
    PROVE  EventInv'
<1>1. ThreadsOK(k, pc) /\ Object \in WaitQueue /\ pc \in [Thread -> PC]
  BY EventStateOK
<1>2. /\ k' = rt_schedule(k) /\ pc' \in [Thread -> PC]
      /\ \A u \in Thread :
            \/ pc'[u] = pc[u]
            \/ pc[u] = "sched" /\ pc'[u] = "woken"
            \/ pc[u] = "sleep" /\ pc'[u] = "slept"
            \/ pc[u] = "released" /\ pc'[u] = "user"
  <2>1. CASE EventSlice
    BY <1>1, <2>1 DEF EventSlice, SliceExpires
  <2>2. ASSUME NEW t \in Thread, Reschedule(t, "sched", "woken") \/ Reschedule(t, "released", "user")
        PROVE  /\ k' = rt_schedule(k) /\ pc' \in [Thread -> PC]
               /\ \A u \in Thread :
                     \/ pc'[u] = pc[u]
                     \/ pc[u] = "sched" /\ pc'[u] = "woken"
                     \/ pc[u] = "sleep" /\ pc'[u] = "slept"
                     \/ pc[u] = "released" /\ pc'[u] = "user"
    BY <1>1, <2>2 DEF Reschedule, Running, Goto, PC
  <2> QED BY <2>1, <2>2 DEF RecvSchedules, SendSchedules
<1>3. /\ ThreadsOK(k', pc')
      /\ k'.list[Object] = k.list[Object] /\ GrantedOf(k', pc', Object) = GrantedOf(k, pc, Object)
  BY <1>1, <1>2, QuietSchedule
<1>4. set' = set /\ alive' \in BOOLEAN /\ UNCHANGED <<event_set, history>>
  BY DEF EventSlice, RecvSchedules, SendSchedules, event, EventInv, EventTypeOK
<1> QED BY <1>2, <1>3, <1>4, EventStays DEF InList

LEMMA EventStepSleep ==
    ASSUME EventInv, NEW t \in Thread, EventSleep(t) PROVE EventInv'
<1>1. ThreadsOK(k, pc) /\ Object \in WaitQueue /\ pc \in [Thread -> PC]
  BY EventStateOK
<1>2. k.cur = t
  BY DEF EventSleep, Sleeps, Reschedule, Running, Calls
<1>3. t # Idle
  <2>1. CASE Calls(t, "sleep")
    BY <2>1, ThreadsAssumption DEF Calls
  <2>2. CASE ~Calls(t, "sleep")
    <3>1. pc[t] \in {"sleep", "slept"}
      BY <2>2 DEF EventSleep, Sleeps, Reschedule, Running
    <3> QED BY <1>1, <3>1 DEF ThreadsOK
  <2> QED BY <2>1, <2>2
<1>4. SleepsTo(k', pc', k, pc, t)
  BY <1>1, <1>2 DEF SleepsTo, EventSleep, Sleeps, Reschedule, Running, Calls, Goto
<1>5. pc' \in [Thread -> PC]
  BY <1>1 DEF EventSleep, Sleeps, Reschedule, Goto, PC
<1>6. /\ ThreadsOK(k', pc')
      /\ k'.list[Object] = k.list[Object] /\ GrantedOf(k', pc', Object) = GrantedOf(k, pc, Object)
  <2>1. t \in Thread \ {Idle}
    BY <1>3
  <2> QED BY <1>1, <1>4, <2>1, QuietSleep
<1>7. set' = set /\ alive' \in BOOLEAN /\ UNCHANGED <<event_set, history>>
  BY DEF EventSleep, event, EventInv, EventTypeOK
<1> QED BY <1>5, <1>6, <1>7, EventStays DEF InList

LEMMA EventStepTimeout ==
    ASSUME EventInv, NEW u \in Thread, EventTimeout(u) PROVE EventInv'
<1>1. ThreadsOK(k, pc) /\ Object \in WaitQueue /\ pc \in [Thread -> PC]
  BY EventStateOK
<1>2. k.tmr[u] /\ k' = rt_thread_timeout(k, u) /\ pc' = pc
  BY DEF EventTimeout, TimerFires
<1>3. /\ ThreadsOK(k', pc')
      /\ \A v : InList(k', Object, v) <=> InList(k, Object, v) /\ v # u
      /\ GrantedOf(k', pc', Object) = GrantedOf(k, pc, Object) \ {u}
  BY <1>1, <1>2, QuietTimeout
<1>4. set' = set /\ alive' \in BOOLEAN /\ UNCHANGED <<event_set, history>>
  BY DEF EventTimeout, event, EventInv, EventTypeOK
<1> QED BY <1>1, <1>2, <1>3, <1>4, EventStays

(* A reset wakes everybody with an error and takes all flags away.         *)
LEMMA EventStepReset ==
    ASSUME EventInv, NEW t \in Thread, rt_event_control(t) PROVE EventInv'
<1>1. ThreadsOK(k, pc) /\ Object \in WaitQueue /\ pc \in [Thread -> PC]
  BY EventStateOK
<1>2. k.cur = t /\ pc[t] \notin AtSwitch /\ t \in Thread \ {Idle}
  BY EventCallerRuns DEF rt_event_control, Calls, AtSwitch
<1>3. k' = rt_ipc_list_resume_all(k, Object) /\ Goto(t, "released")
  BY DEF rt_event_control
<1>4. /\ ThreadsOK(k', pc) /\ k'.cur = k.cur /\ k'.list[Object] = <<>>
      /\ GrantedOf(k', pc, Object) = { v \in GrantedOf(k, pc, Object) : ~InList(k, Object, v) }
  BY <1>1, <1>3, QuietResumeAll
<1>5. /\ ThreadsOK(k', pc') /\ pc' \in [Thread -> PC]
      /\ GrantedOf(k', pc', Object) \subseteq GrantedOf(k', pc, Object)
  <2>1. "released" \in PC /\ "released" \notin {"sched", "woken"}
    BY DEF PC
  <2> QED BY <1>2, <1>3, <1>4, <2>1, GoesAfter
<1>6. \A v \in Thread : ~InList(k', Object, v)
  BY <1>4 DEF InList, Contains
<1>7. set' \subseteq set /\ alive' \in BOOLEAN /\ UNCHANGED <<event_set, history>>
  BY DEF rt_event_control, EventInv, EventTypeOK
<1> QED BY <1>4, <1>5, <1>6, <1>7, EventStays

(* What is left to show of a send, by a thread or by an interrupt. *)
LEMMA SendsKeeps ==
    ASSUME EventInv, NEW es \in SUBSET EventFlag, Sends(es),
           ThreadsOK(k', pc'), pc' \in [Thread -> PC],
           \A v \in Thread : InList(k', Object, v) => InList(Sent(es).k, Object, v),
           GrantedOf(k', pc', Object) \subseteq GrantedOf(Sent(es).k, pc, Object)
    PROVE  EventInv'
<1>1. PICK s : s = Sent(es)
  OBVIOUS
<1>2. /\ s.set \subseteq EventFlag
      /\ s.es \in [Thread -> SUBSET EventFlag]
      /\ s.taken \in [EventFlag -> Nat]
      /\ \A e \in EventFlag : s.taken[e] + Bit(e, s.set) <= sent[e] + Bit(e, es)
      /\ \A t \in Thread : InList(s.k, Object, t) =>
            /\ s.es[t] = Request[t].set
            /\ ~Satisfied(Request[t].op, Request[t].set, s.set)
      /\ \A t \in GrantedOf(s.k, pc, Object) : Answers(s.es[t], Request[t])
  BY <1>1, SentOK
<1>3. /\ set' = s.set /\ event_set' = s.es /\ taken' = s.taken
      /\ sent' = Counted(sent, es) /\ sends' = sends + 1 /\ sends < MaxSends
      /\ UNCHANGED alive
  BY <1>1 DEF Sends
<1>4. /\ sent' \in [EventFlag -> Nat] /\ \A e \in EventFlag : sent'[e] = sent[e] + Bit(e, es)
  BY <1>3, CountedBits DEF EventInv, EventTypeOK
<1>5. TakenOnce'
  <2>1. \A e \in EventFlag : taken'[e] + Bit(e, set') <= sent'[e]
    BY <1>2, <1>3, <1>4
  <2> QED BY <2>1 DEF TakenOnce, Bit
<1>6. EventTypeOK'
  <2>1. k' \in KernelState
    BY DEF ThreadsOK, Sound
  <2>2. sends' \in 0 .. MaxSends
    BY <1>3, EventAssumption DEF EventInv, EventTypeOK
  <2> QED BY <1>2, <1>3, <1>4, <2>1, <2>2 DEF EventInv, EventTypeOK
<1>7. \A t \in Thread : InList(k', Object, t) =>
         event_set'[t] = Request[t].set /\ ~Satisfied(Request[t].op, Request[t].set, set')
  BY <1>1, <1>2, <1>3
<1>8. \A t \in GrantedOf(k', pc', Object) : Answers(event_set'[t], Request[t])
  BY <1>1, <1>2, <1>3
<1> QED BY <1>5, <1>6, <1>7, <1>8 DEF EventInv

LEMMA StepSend ==
    ASSUME EventInv, NEW t \in Thread, NEW es \in SUBSET EventFlag, rt_event_send(t, es)
    PROVE  EventInv'
<1>1. k.cur = t /\ pc[t] \notin AtSwitch /\ t \in Thread \ {Idle}
  BY EventCallerRuns DEF rt_event_send, Calls, AtSwitch
<1>2. PICK to \in {"released", "user"} : Goto(t, to)
  BY DEF rt_event_send
<1>3. k' = Sent(es).k /\ Sends(es)
  BY DEF rt_event_send
<1>4. ThreadsOK(k', pc) /\ k'.cur = t
  BY <1>1, <1>3, SentOK
<1>5. /\ ThreadsOK(k', pc') /\ pc' \in [Thread -> PC]
      /\ GrantedOf(k', pc', Object) \subseteq GrantedOf(k', pc, Object)
  <2>1. to \in PC /\ to \notin {"sched", "woken"}
    BY DEF PC
  <2> QED BY <1>1, <1>2, <1>4, <2>1, GoesAfter
<1> QED BY <1>3, <1>5, SendsKeeps

LEMMA StepIsrSend ==
    ASSUME EventInv, NEW es \in SUBSET EventFlag, IsrSend(es) PROVE EventInv'
<1>1. ThreadsOK(k, pc) /\ Object \in WaitQueue /\ pc' = pc /\ pc' \in [Thread -> PC]
  BY EventStateOK DEF IsrSend
<1>2. PICK r : r = Sent(es).k
  OBVIOUS
<1>3. ThreadsOK(r, pc)
  BY <1>2, SentOK
<1>4. k' = (IF r # k THEN rt_schedule(r) ELSE k) /\ Sends(es)
  BY <1>2 DEF IsrSend
<1>5. /\ ThreadsOK(k', pc')
      /\ k'.list[Object] = r.list[Object] /\ GrantedOf(k', pc', Object) = GrantedOf(r, pc, Object)
  <2>1. CASE r = k
    BY <1>1, <1>4, <2>1
  <2>2. CASE r # k
    BY <1>1, <1>3, <1>4, <2>2, QuietSchedule
  <2> QED BY <2>1, <2>2
<1> QED BY <1>1, <1>2, <1>4, <1>5, SendsKeeps DEF InList

LEMMA StepEvent == EventInv /\ [EventNext]_eventVars => EventInv'
<1> SUFFICES ASSUME EventInv, [EventNext]_eventVars PROVE EventInv'
  OBVIOUS
<1>1. ASSUME NEW t \in Thread, EventThreadStep(t) PROVE EventInv'
  BY <1>1, StepRecvNow, StepRecvFails, StepRecvWaits, StepSchedules, StepRecvReturns,
     StepSend, EventStepReset, EventStepDetachStarts, EventStepDetachResumes DEF EventThreadStep
<1>2. CASE UNCHANGED eventVars
  <2>1. UNCHANGED <<k, pc, set, event_set, alive, sends, sent, taken>>
    BY <1>2 DEF eventVars, event, history
  <2> QED BY <2>1 DEF EventInv, EventTypeOK, TakenOnce
<1> QED BY <1>1, <1>2, EventStepSleep, StepSchedules, EventStepTimeout, StepIsrSend DEF EventNext

LEMMA InitEvent == EventInit => EventInv
<1> SUFFICES ASSUME EventInit PROVE EventInv
  OBVIOUS
<1>1. k = KernelStart(InitThread, InitPriority, InitReady) /\ pc = [t \in Thread |-> "user"]
  BY DEF EventInit, ThreadsInit
<1>2. Starts(InitThread, InitPriority, InitReady)
  BY ThreadsAssumption DEF Starts
<1>3. ThreadsOK(k, pc) /\ k.list[Object] = <<>>
  BY <1>1, <1>2, CallsStart, IpcObjectAssumption
<1>4. \A t \in Thread : ~InList(k, Object, t)
  BY <1>3 DEF InList, Contains
<1>5. GrantedOf(k, pc, Object) = {}
  BY <1>1 DEF GrantedOf
<1>6. EventTypeOK
  <2>1. k \in KernelState
    BY <1>3 DEF ThreadsOK, Sound
  <2>2. pc \in [Thread -> PC]
    BY <1>1 DEF PC
  <2>3. event_set \in [Thread -> SUBSET EventFlag]
    BY RequestOK DEF EventInit
  <2>4. set \subseteq EventFlag /\ alive \in BOOLEAN /\ sends \in 0 .. MaxSends
    BY EventAssumption DEF EventInit
  <2>5. sent \in [EventFlag -> Nat] /\ taken \in [EventFlag -> Nat]
    BY DEF EventInit
  <2> QED BY <2>1, <2>2, <2>3, <2>4, <2>5 DEF EventTypeOK
<1>7. TakenOnce
  BY DEF EventInit, TakenOnce
<1> QED BY <1>3, <1>4, <1>5, <1>6, <1>7 DEF EventInv

LEMMA EventInvariant == EventSpec => []EventInv
BY InitEvent, StepEvent, PTL DEF EventSpec
-----------------------------------------------------------------------------
(***************************************************************************)
(* No thread waits for flags that are set: rt_event_send serves every      *)
(* waiter that the flags left by those before it satisfy, and nothing else *)
(* sets flags.                                                             *)
(***************************************************************************)
THEOREM EventWaitersUnsatisfied == EventSpec => []WaitersUnsatisfied
<1>1. EventInv => WaitersUnsatisfied
  BY DEF EventInv, WaitersUnsatisfied, Waits, InList
<1> QED BY <1>1, EventInvariant, PTL

(***************************************************************************)
(* A flag is taken with CLEAR, by a waiter or by a receiver that finds it  *)
(* set, at most as often as it is sent.                                    *)
(***************************************************************************)
THEOREM EventTakenOnce == EventSpec => []TakenOnce
<1>1. EventInv => TakenOnce
  BY DEF EventInv
<1> QED BY <1>1, EventInvariant, PTL

(***************************************************************************)
(* A thread that was woken by a send finds in event_set what it asked for, *)
(* until it has returned: all of it for AND, some of it for OR.            *)
(***************************************************************************)
THEOREM EventGrantedAsAsked == EventSpec => []GrantedAsAsked
<1>1. EventInv => GrantedAsAsked
  <2> SUFFICES ASSUME EventInv PROVE GrantedAsAsked
    OBVIOUS
  <2>1. ASSUME NEW t \in Thread, Waits(t, Object)
        PROVE  pc[t] \in {"sched", "woken"} /\ event_set[t] = Request[t].set
    BY <2>1, ThreadOK, EventStateOK DEF EventInv, Waits, InList
  <2>2. ASSUME NEW t \in Thread, Woken(t, Object) PROVE Answers(event_set[t], Request[t])
    BY <2>2 DEF EventInv, Woken, Failed, Waits, GrantedOf, InList
  <2> QED BY <2>1, <2>2 DEF GrantedAsAsked, Answers, EventInv
<1> QED BY <1>1, EventInvariant, PTL

-----------------------------------------------------------------------------
(***************************************************************************)
(* The message queue, for any number of nodes.  First the lists: a list of *)
(* linked nodes is described by the sequence of its nodes, and every       *)
(* action by what it does to the two sequences and to the nodes taken out. *)
(* Then the wakeups, from what KernelProofs says of threads in their       *)
(* calls.                                                                  *)
(***************************************************************************)

\* The links nx lead from n through the nodes of s and end there.
Chain(nx, n, s) ==
    /\ s \in Seq(Node) /\ IsInjective(s)
    /\ n = IF s = <<>> THEN Null ELSE s[1]
    /\ \A i \in 1 .. Len(s) : nx[s[i]] = IF i = Len(s) THEN Null ELSE s[i + 1]

LEMMA ChainTail ==
    ASSUME NEW nx, NEW n, NEW s, Chain(nx, n, s), n # Null
    PROVE  /\ n \in Node /\ Contains(s, n)
           /\ s # <<>> /\ Head(s) = n /\ Len(s) \in Nat \ {0}
           /\ Chain(nx, nx[n], Tail(s)) /\ Len(Tail(s)) = Len(s) - 1
           /\ \A x : Contains(Tail(s), x) <=> Contains(s, x) /\ x # n
<1>1. s \in Seq(Node) /\ IsInjective(s) /\ s # <<>> /\ n = s[1]
  BY DEF Chain
<1>2. Head(s) = n
  BY <1>1, HeadTailProperties
<1>3. /\ Tail(s) \in Seq(Node) /\ Len(Tail(s)) = Len(s) - 1 /\ IsInjective(Tail(s))
      /\ n \in Node /\ Contains(s, n)
      /\ \A x : Contains(Tail(s), x) <=> Contains(s, x) /\ x # n
  BY <1>1, <1>2, TailOfList
<1>4. Len(s) \in Nat \ {0} /\ \A i \in 1 .. Len(s) - 1 : Tail(s)[i] = s[i + 1]
  BY <1>1, LenProperties, EmptySeq, HeadTailProperties
<1>5. nx[n] = IF Tail(s) = <<>> THEN Null ELSE Tail(s)[1]
  <2>1. Tail(s) = <<>> <=> Len(s) = 1
    BY <1>3, <1>4, LenProperties, EmptySeq
  <2>2. nx[s[1]] = IF 1 = Len(s) THEN Null ELSE s[2]
    BY <1>4 DEF Chain
  <2>3. Len(s) # 1 => Tail(s)[1] = s[2]
    <3>1. PICK d, l : d = Tail(s) /\ l = Len(s)
      OBVIOUS
    <3>2. l \in Nat \ {0} /\ \A i \in 1 .. l - 1 : d[i] = s[i + 1]
      BY <1>4, <3>1
    <3>3. l # 1 => d[1] = s[2]
      BY <3>2
    <3> QED BY <3>1, <3>3
  <2> QED BY <1>1, <2>1, <2>2, <2>3
<1>6. ASSUME NEW i \in 1 .. Len(Tail(s))
      PROVE  nx[Tail(s)[i]] = IF i = Len(Tail(s)) THEN Null ELSE Tail(s)[i + 1]
  <2>1. i + 1 \in 1 .. Len(s) /\ i \in 1 .. Len(s) - 1 /\ Tail(s)[i] = s[i + 1]
    BY <1>3, <1>4
  <2>2. nx[s[i + 1]] = IF i + 1 = Len(s) THEN Null ELSE s[(i + 1) + 1]
    BY <2>1 DEF Chain
  <2>3. i + 1 # Len(s) => Tail(s)[i + 1] = s[(i + 1) + 1]
    <3>1. i + 1 # Len(s) => i + 1 \in 1 .. Len(s) - 1
      BY <1>4, <2>1
    <3> QED BY <1>4, <3>1
  <2>4. i = Len(Tail(s)) <=> i + 1 = Len(s)
    BY <1>3, <1>4
  <2> QED BY <2>1, <2>2, <2>3, <2>4
<1> QED BY <1>1, <1>2, <1>3, <1>4, <1>5, <1>6 DEF Chain

LEMMA ChainKept ==
    ASSUME NEW nx, NEW n, NEW s, Chain(nx, n, s),
           NEW ny, \A x \in Node : Contains(s, x) => ny[x] = nx[x]
    PROVE  Chain(ny, n, s)
<1>1. \A i \in 1 .. Len(s) : s[i] \in Node /\ Contains(s, s[i])
  BY DEF Chain, Contains
<1>2. \A i \in 1 .. Len(s) : ny[s[i]] = nx[s[i]]
  BY <1>1
<1> QED BY <1>2 DEF Chain

LEMMA ChainFirst ==
    ASSUME NEW nx \in [Node -> Node \cup {Null}], NEW n, NEW s, Chain(nx, n, s),
           NEW m \in Node, ~Contains(s, m)
    PROVE  /\ Chain([nx EXCEPT ![m] = n], m, <<m>> \o s)
           /\ [nx EXCEPT ![m] = n] \in [Node -> Node \cup {Null}]
           /\ Len(<<m>> \o s) = Len(s) + 1
           /\ \A x : Contains(<<m>> \o s, x) <=> Contains(s, x) \/ x = m
<1> DEFINE q == <<m>> \o s
           ny == [nx EXCEPT ![m] = n]
<1>1. s \in Seq(Node) /\ IsInjective(s) /\ Len(s) \in Nat
  BY LenProperties DEF Chain
<1>2. /\ q \in Seq(Node) /\ Len(q) = Len(s) + 1 /\ IsInjective(q)
      /\ \A x : Contains(q, x) <=> Contains(s, x) \/ x = m
  BY <1>1, FirstOfList
<1>3. q[1] = m /\ \A i \in 2 .. Len(q) : q[i] = s[i - 1]
  <2>1. <<m>> \in Seq(Node) /\ Len(<<m>>) = 1 /\ <<m>>[1] = m
    OBVIOUS
  <2>2. \A i \in 1 .. Len(q) : q[i] = IF i <= 1 THEN <<m>>[i] ELSE s[i - 1]
    BY <1>1, <1>2, <2>1, ConcatProperties
  <2> HIDE DEF q
  <2> QED BY <1>1, <1>2, <2>1, <2>2
<1>4. /\ \A x \in Node \ {m} : ny[x] = nx[x]
      /\ ny[m] = n
  OBVIOUS
<1>5. n \in Node \cup {Null} /\ (s = <<>> <=> Len(s) = 0)
  BY <1>1, EmptySeq DEF Chain
<1>6. ny \in [Node -> Node \cup {Null}]
  BY <1>5
<1> HIDE DEF q, ny
<1>7. q # <<>>
  BY <1>1, <1>2
<1>8. ASSUME NEW i \in 1 .. Len(q)
      PROVE  ny[q[i]] = IF i = Len(q) THEN Null ELSE q[i + 1]
  <2>1. CASE i = 1
    <3>1. ny[q[i]] = n
      BY <1>3, <1>4, <2>1
    <3>2. i = Len(q) <=> s = <<>>
      BY <1>1, <1>2, <1>5, <2>1
    <3>3. i # Len(q) => q[i + 1] = s[1]
      BY <1>1, <1>2, <1>3, <2>1
    <3> QED BY <3>1, <3>2, <3>3 DEF Chain
  <2>2. CASE i # 1
    <3>1. i - 1 \in 1 .. Len(s) /\ q[i] = s[i - 1]
      BY <1>1, <1>2, <1>3, <2>2
    <3>2. s[i - 1] \in Node /\ s[i - 1] # m
      BY <1>1, <3>1 DEF Contains
    <3>3. nx[s[i - 1]] = IF i - 1 = Len(s) THEN Null ELSE s[(i - 1) + 1]
      BY <3>1 DEF Chain
    <3>4. i # Len(q) => q[i + 1] = s[(i - 1) + 1]
      <4>1. i # Len(q) => i + 1 \in 2 .. Len(q)
        BY <1>1, <1>2, <2>2
      <4>2. (i + 1) - 1 = (i - 1) + 1
        BY <1>2
      <4>3. i # Len(q) => q[i + 1] = s[(i + 1) - 1]
        BY <1>3, <4>1
      <4> QED BY <4>2, <4>3
    <3> QED BY <1>1, <1>2, <1>4, <3>1, <3>2, <3>3, <3>4
  <2> QED BY <2>1, <2>2
<1>9. Chain(ny, m, q)
  BY <1>2, <1>3, <1>7, <1>8 DEF Chain
<1> QED BY <1>2, <1>6, <1>9 DEF q, ny

\* ny are the links nx with m behind the last node of s, if it has one.
EndsAt(ny, nx, s, m) ==
    /\ ny[m] = Null
    /\ s # <<>> => ny[s[Len(s)]] = m
    /\ \A x \in Node \ {m} : (s # <<>> => x # s[Len(s)]) => ny[x] = nx[x]

LEMMA ChainLast ==
    ASSUME NEW nx, NEW n, NEW s, Chain(nx, n, s),
           NEW m \in Node, ~Contains(s, m), NEW ny, EndsAt(ny, nx, s, m)
    PROVE  /\ Chain(ny, IF n = Null THEN m ELSE n, Append(s, m))
           /\ Len(Append(s, m)) = Len(s) + 1
           /\ Append(s, m)[Len(s) + 1] = m
           /\ \A i \in 1 .. Len(s) : Append(s, m)[i] = s[i]
           /\ \A x : Contains(Append(s, m), x) <=> Contains(s, x) \/ x = m
<1> DEFINE q == Append(s, m)
<1>1. s \in Seq(Node) /\ IsInjective(s) /\ Len(s) \in Nat /\ (s = <<>> <=> Len(s) = 0)
  BY LenProperties, EmptySeq DEF Chain
<1>2. /\ q \in Seq(Node) /\ Len(q) = Len(s) + 1 /\ IsInjective(q) /\ q # <<>>
      /\ q[Len(s) + 1] = m /\ \A i \in 1 .. Len(s) : q[i] = s[i]
      /\ \A x : Contains(q, x) <=> Contains(s, x) \/ x = m
  BY <1>1, AppendToList, AppendProperties
<1> HIDE DEF q
<1> USE DEF EndsAt
<1>3. ASSUME NEW i \in 1 .. Len(q)
      PROVE  ny[q[i]] = IF i = Len(q) THEN Null ELSE q[i + 1]
  <2>1. CASE i = Len(q)
    BY <1>1, <1>2, <2>1
  <2>2. CASE i = Len(s)
    <3>1. s # <<>> /\ q[i] = s[Len(s)] /\ i # Len(q) /\ q[i + 1] = m
      BY <1>1, <1>2, <2>2
    <3> QED BY <3>1
  <2>3. CASE i \in 1 .. Len(s) /\ i # Len(s)
    <3>1. s[i] \in Node /\ s[i] # m
      BY <1>1, <2>3 DEF Contains
    <3>2. s[i] # s[Len(s)]
      BY <1>1, <2>3 DEF IsInjective
    <3>3. ny[s[i]] = nx[s[i]]
      BY <3>1, <3>2
    <3>4. nx[s[i]] = s[i + 1]
      BY <2>3 DEF Chain
    <3>5. q[i] = s[i] /\ q[i + 1] = s[i + 1] /\ i # Len(q)
      BY <1>1, <1>2, <2>3
    <3> QED BY <3>3, <3>4, <3>5
  <2> QED BY <1>1, <1>2, <2>1, <2>2, <2>3
<1>4. (IF n = Null THEN m ELSE n) = q[1]
  <2>1. CASE s = <<>>
    BY <1>1, <1>2, <2>1 DEF Chain
  <2>2. CASE s # <<>>
    <3>1. n = s[1] /\ 1 \in 1 .. Len(s)
      BY <1>1, <2>2 DEF Chain
    <3>2. n \in Node /\ n # Null
      BY <1>1, <3>1, MessageQueueAssumption
    <3> QED BY <1>2, <3>1, <3>2
  <2> QED BY <2>1, <2>2
<1>5. Chain(ny, IF n = Null THEN m ELSE n, q)
  BY <1>2, <1>3, <1>4 DEF Chain
<1> QED BY <1>2, <1>5 DEF q

(* Nodes finds the sequence: the walk along the links is at its i-th node  *)
(* after i - 1 steps.                                                      *)
Walk(g, n) ==
    g = [i \in 0 .. MaxMsgs |->
            IF i = 0 THEN n ELSE IF g[i - 1] = Null THEN Null ELSE next[g[i - 1]]]

LEMMA WalkStep ==
    ASSUME NEW g, NEW n, Walk(g, n)
    PROVE  /\ g[0] = n
           /\ \A i \in 0 .. MaxMsgs :
                 i # 0 => g[i] = IF g[i - 1] = Null THEN Null ELSE next[g[i - 1]]
<1>1. MaxMsgs \in Nat
  BY MessageQueueAssumption
<1>2. ASSUME NEW i \in 0 .. MaxMsgs
      PROVE  g[i] = IF i = 0 THEN n ELSE IF g[i - 1] = Null THEN Null ELSE next[g[i - 1]]
  <2> DEFINE h == [j \in 0 .. MaxMsgs |->
                      IF j = 0 THEN n ELSE IF g[j - 1] = Null THEN Null ELSE next[g[j - 1]]]
  <2>1. h[i] = IF i = 0 THEN n ELSE IF g[i - 1] = Null THEN Null ELSE next[g[i - 1]]
    OBVIOUS
  <2>2. g = h
    BY DEF Walk
  <2> HIDE DEF h
  <2> QED BY <2>1, <2>2
<1> QED BY <1>1, <1>2

LEMMA NodesAre ==
    ASSUME NEW n, NEW s, Chain(next, n, s), Len(s) <= MaxMsgs
    PROVE  Nodes(n) = s
<1> DEFINE w == [i \in 0 .. MaxMsgs |-> IF i < Len(s) THEN s[i + 1] ELSE Null]
           at == CHOOSE g : Walk(g, n)
           reached == { i \in 0 .. MaxMsgs - 1 : at[i] # Null }
           S == { i \in Nat : i <= MaxMsgs => at[i] = w[i] }
<1>1. /\ s \in Seq(Node) /\ Len(s) \in Nat /\ MaxMsgs \in Nat /\ Null \notin Node
      /\ (s = <<>> <=> Len(s) = 0)
  BY MessageQueueAssumption, LenProperties, EmptySeq DEF Chain
<1>2. \A i \in 1 .. Len(s) : s[i] \in Node /\ s[i] # Null
  BY <1>1
<1>3. w[0] = n
  BY <1>1 DEF Chain
<1>4. ASSUME NEW i \in 0 .. MaxMsgs, i # 0
      PROVE  w[i] = IF w[i - 1] = Null THEN Null ELSE next[w[i - 1]]
  <2>1. i - 1 \in 0 .. MaxMsgs /\ (i - 1) + 1 = i
    BY <1>1, <1>4
  <2>2. /\ w[i] = IF i < Len(s) THEN s[i + 1] ELSE Null
        /\ w[i - 1] = IF i - 1 < Len(s) THEN s[i] ELSE Null
    BY <2>1
  <2> HIDE DEF w
  <2>3. CASE i <= Len(s)
    <3>1. i \in 1 .. Len(s)
      BY <1>1, <1>4, <2>3
    <3>2. next[s[i]] = IF i = Len(s) THEN Null ELSE s[i + 1]
      BY <3>1 DEF Chain
    <3>3. w[i - 1] = s[i] /\ w[i - 1] # Null
      BY <1>1, <1>2, <2>2, <3>1
    <3>4. w[i] = IF i = Len(s) THEN Null ELSE s[i + 1]
      BY <1>1, <2>2, <3>1
    <3> QED BY <3>2, <3>3, <3>4
  <2>4. CASE ~(i <= Len(s))
    BY <1>1, <2>2, <2>4
  <2> QED BY <2>3, <2>4
<1>5. Walk(w, n)
  <2>1. \A i \in 0 .. MaxMsgs :
           w[i] = IF i = 0 THEN n ELSE IF w[i - 1] = Null THEN Null ELSE next[w[i - 1]]
    BY <1>3, <1>4
  <2>2. w = [i \in 0 .. MaxMsgs |-> w[i]]
    OBVIOUS
  <2> HIDE DEF w
  <2> QED BY <2>1, <2>2 DEF Walk
<1>6. \A i \in 0 .. MaxMsgs : w[i] = IF i < Len(s) THEN s[i + 1] ELSE Null
  OBVIOUS
<1> HIDE DEF w
<1>7. Walk(at, n)
  <2>1. \E g : Walk(g, n)
    BY <1>5
  <2> QED BY <2>1, Zenon
<1>8. Nodes(n) = [i \in 1 .. Cardinality(reached) |-> at[i - 1]]
  BY DEF Nodes, Walk
<1>9. Nat \subseteq S
  <2>1. 0 \in S
    BY <1>3, <1>7, WalkStep
  <2>2. ASSUME NEW i \in Nat, i \in S PROVE i + 1 \in S
    <3>1. CASE i + 1 <= MaxMsgs
      <4>1. /\ i \in 0 .. MaxMsgs /\ i + 1 \in 0 .. MaxMsgs /\ i + 1 # 0
            /\ (i + 1) - 1 = i
        BY <1>1, <3>1
      <4>2. at[i] = w[i]
        BY <2>2, <4>1
      <4> HIDE DEF at
      <4>3. at[i + 1] = IF at[i] = Null THEN Null ELSE next[at[i]]
        <5>1. at[i + 1] = IF at[(i + 1) - 1] = Null THEN Null ELSE next[at[(i + 1) - 1]]
          BY <1>7, <4>1, WalkStep
        <5> QED BY <4>1, <5>1
      <4>4. w[i + 1] = IF w[i] = Null THEN Null ELSE next[w[i]]
        <5>1. w[i + 1] = IF w[(i + 1) - 1] = Null THEN Null ELSE next[w[(i + 1) - 1]]
          BY <1>4, <4>1
        <5> QED BY <4>1, <5>1
      <4>5. at[i + 1] = w[i + 1]
        BY <4>2, <4>3, <4>4
      <4> QED BY <4>1, <4>5
    <3>2. CASE ~(i + 1 <= MaxMsgs)
      BY <3>2
    <3> QED BY <3>1, <3>2
  <2> HIDE DEF S
  <2> QED BY <2>1, <2>2, InductiveSet
<1>10. \A i \in 0 .. MaxMsgs : at[i] = w[i]
  <2> HIDE DEF at
  <2> QED BY <1>1, <1>9
<1> HIDE DEF at
<1>11. reached = 0 .. Len(s) - 1
  <2>1. ASSUME NEW i \in 0 .. MaxMsgs - 1 PROVE at[i] # Null <=> i < Len(s)
    <3>1. i \in 0 .. MaxMsgs /\ (i < Len(s) => i + 1 \in 1 .. Len(s))
      BY <1>1
    <3>2. at[i] = IF i < Len(s) THEN s[i + 1] ELSE Null
      BY <1>6, <1>10, <3>1
    <3> QED BY <1>2, <3>1, <3>2
  <2>2. reached = { i \in 0 .. MaxMsgs - 1 : i < Len(s) }
    BY <2>1
  <2> HIDE DEF reached
  <2> QED BY <1>1, <2>2
<1>12. Cardinality(reached) = Len(s)
  <2>1. 0 \in Int /\ Len(s) - 1 \in Int
    BY <1>1
  <2>2. Cardinality(0 .. Len(s) - 1) = IF 0 > Len(s) - 1 THEN 0 ELSE (Len(s) - 1) - 0 + 1
    BY <2>1, FS_Interval
  <2>3. Cardinality(reached) = IF 0 > Len(s) - 1 THEN 0 ELSE (Len(s) - 1) - 0 + 1
    BY <1>11, <2>2
  <2> HIDE DEF reached
  <2> QED BY <1>1, <2>3
<1>13. \A i \in 1 .. Len(s) : at[i - 1] = s[i]
  <2> TAKE i \in 1 .. Len(s)
  <2>1. i - 1 \in 0 .. MaxMsgs /\ i - 1 < Len(s) /\ (i - 1) + 1 = i
    BY <1>1
  <2> QED BY <1>6, <1>10, <2>1
<1>14. s = [i \in 1 .. Len(s) |-> s[i]]
  BY <1>1
<1>15. [i \in 1 .. Len(s) |-> at[i - 1]] = [i \in 1 .. Len(s) |-> s[i]]
  BY <1>13
<1> QED BY <1>8, <1>12, <1>14, <1>15
-----------------------------------------------------------------------------
(* Where the nodes are: each in one of two sequences, in either order, or  *)
(* with the one thread that has taken it out.                              *)
Out(nd) == { t \in Thread : nd[t] # Null }

Placed(f, q, nd) ==
    /\ nd \in [Thread -> Node \cup {Null}]
    /\ Len(f) \in Nat /\ Len(q) \in Nat
    /\ \A n \in Node : ~(Contains(f, n) /\ Contains(q, n))
    /\ \A t \in Thread : nd[t] # Null =>
          /\ ~Contains(f, nd[t]) /\ ~Contains(q, nd[t])
          /\ \A u \in Thread : nd[u] = nd[t] => u = t
    /\ \A n \in Node : \/ Contains(f, n) \/ Contains(q, n)
                       \/ \E t \in Thread : nd[t] = n
    /\ IsFiniteSet(Out(nd))
    /\ Len(f) + Len(q) + Cardinality(Out(nd)) = MaxMsgs

LEMMA ContainsInList ==
    ASSUME NEW T, NEW s \in Seq(T), NEW x, Contains(s, x) PROVE x \in T
<1>1. \A i \in 1 .. Len(s) : s[i] \in T
  OBVIOUS
<1> QED BY <1>1, LenProperties DEF Contains

LEMMA PlacedEither ==
    ASSUME NEW f, NEW q, NEW nd, Placed(f, q, nd) PROVE Placed(q, f, nd)
<1>1. Cardinality(Out(nd)) \in Nat
  BY FS_CardinalityType DEF Placed
<1> QED BY <1>1 DEF Placed

LEMMA PlacedBounds ==
    ASSUME NEW f, NEW q, NEW nd, Placed(f, q, nd)
    PROVE  /\ Len(f) \in 0 .. MaxMsgs /\ Len(q) \in 0 .. MaxMsgs
           /\ \A t \in Thread : nd[t] # Null => Len(q) < MaxMsgs
<1>1. Cardinality(Out(nd)) \in Nat /\ (Cardinality(Out(nd)) = 0 <=> Out(nd) = {})
  BY FS_CardinalityType, FS_EmptySet DEF Placed
<1>2. MaxMsgs \in Nat
  BY MessageQueueAssumption
<1> QED BY <1>1, <1>2 DEF Placed, Out

\* t takes n out of the first ...
LEMMA PlacedTakes ==
    ASSUME NEW f, NEW q, NEW nd, Placed(f, q, nd),
           NEW t \in Thread, nd[t] = Null, NEW n \in Node, Contains(f, n),
           NEW g, Len(g) \in Nat, Len(g) = Len(f) - 1,
           \A x : Contains(g, x) <=> Contains(f, x) /\ x # n
    PROVE  Placed(g, q, [nd EXCEPT ![t] = n])
<1> DEFINE md == [nd EXCEPT ![t] = n]
<1>1. /\ md \in [Thread -> Node \cup {Null}] /\ md[t] = n /\ n # Null
      /\ \A u \in Thread \ {t} : md[u] = nd[u]
  BY MessageQueueAssumption DEF Placed
<1> HIDE DEF md
<1>2. \A u \in Thread : nd[u] # n
  BY <1>1 DEF Placed
<1>3. Out(md) = Out(nd) \cup {t} /\ t \notin Out(nd)
  BY <1>1 DEF Out
<1>4. IsFiniteSet(Out(md)) /\ Cardinality(Out(md)) = Cardinality(Out(nd)) + 1
  BY <1>3, FS_AddElement DEF Placed
<1>5. Cardinality(Out(nd)) \in Nat
  BY FS_CardinalityType DEF Placed
<1>6. Len(g) + Len(q) + Cardinality(Out(md)) = MaxMsgs
  BY <1>4, <1>5 DEF Placed
<1>7. ASSUME NEW u \in Thread, md[u] # Null
      PROVE  /\ ~Contains(g, md[u]) /\ ~Contains(q, md[u])
             /\ \A v \in Thread : md[v] = md[u] => v = u
  <2>1. CASE u = t
    <3>1. ~Contains(q, n)
      BY DEF Placed
    <3> QED BY <1>1, <1>2, <2>1, <3>1
  <2>2. CASE u # t
    <3>1. /\ md[u] = nd[u] /\ ~Contains(f, nd[u]) /\ ~Contains(q, nd[u])
          /\ \A v \in Thread : nd[v] = nd[u] => v = u
      BY <1>1, <1>7, <2>2 DEF Placed
    <3> QED BY <1>1, <1>2, <2>2, <3>1
  <2> QED BY <2>1, <2>2
<1>8. ASSUME NEW x \in Node
      PROVE  /\ ~(Contains(g, x) /\ Contains(q, x))
             /\ Contains(g, x) \/ Contains(q, x) \/ \E u \in Thread : md[u] = x
  <2>1. ~(Contains(g, x) /\ Contains(q, x))
    BY DEF Placed
  <2>2. CASE x = n
    BY <1>1, <2>1, <2>2
  <2>3. CASE x # n
    <3>1. Contains(f, x) \/ Contains(q, x) \/ \E u \in Thread : nd[u] = x
      BY DEF Placed
    <3>2. ASSUME NEW u \in Thread, nd[u] = x PROVE md[u] = x
      <4>1. u # t
        BY <3>2, MessageQueueAssumption
      <4> QED BY <1>1, <3>2, <4>1
    <3> QED BY <2>1, <2>3, <3>1, <3>2
  <2> QED BY <2>2, <2>3
<1>9. Placed(g, q, md)
  <2>1. Len(q) \in Nat
    BY DEF Placed
  <2> QED BY <1>1, <1>4, <1>6, <1>7, <1>8, <2>1 DEF Placed
<1> QED BY <1>9 DEF md

\* ... or gives the one it has back to it.
LEMMA PlacedGives ==
    ASSUME NEW f, NEW q, NEW nd, Placed(f, q, nd),
           NEW t \in Thread, nd[t] # Null,
           NEW g, Len(g) \in Nat, Len(g) = Len(f) + 1,
           \A x : Contains(g, x) <=> Contains(f, x) \/ x = nd[t]
    PROVE  Placed(g, q, [nd EXCEPT ![t] = Null])
<1> DEFINE md == [nd EXCEPT ![t] = Null]
<1>1. /\ md \in [Thread -> Node \cup {Null}] /\ md[t] = Null /\ nd[t] \in Node
      /\ \A u \in Thread \ {t} : md[u] = nd[u]
  BY DEF Placed
<1> HIDE DEF md
<1>2. \A u \in Thread \ {t} : nd[u] # nd[t]
  BY DEF Placed
<1>3. Out(md) = Out(nd) \ {t} /\ t \in Out(nd)
  BY <1>1 DEF Out
<1>4. IsFiniteSet(Out(md)) /\ Cardinality(Out(md)) = Cardinality(Out(nd)) - 1
  BY <1>3, FS_RemoveElement DEF Placed
<1>5. Cardinality(Out(nd)) \in Nat
  BY FS_CardinalityType DEF Placed
<1>6. Len(g) + Len(q) + Cardinality(Out(md)) = MaxMsgs
  BY <1>4, <1>5 DEF Placed
<1>7. ASSUME NEW u \in Thread, md[u] # Null
      PROVE  /\ ~Contains(g, md[u]) /\ ~Contains(q, md[u])
             /\ \A v \in Thread : md[v] = md[u] => v = u
  <2>1. u # t /\ md[u] = nd[u]
    BY <1>1, <1>7
  <2>2. /\ ~Contains(f, nd[u]) /\ ~Contains(q, nd[u])
        /\ \A v \in Thread : nd[v] = nd[u] => v = u
    BY <1>7, <2>1 DEF Placed
  <2>3. \A v \in Thread : md[v] = md[u] => v # t
    BY <1>1, <1>7
  <2> QED BY <1>1, <1>2, <2>1, <2>2, <2>3
<1>8. ASSUME NEW x \in Node
      PROVE  /\ ~(Contains(g, x) /\ Contains(q, x))
             /\ Contains(g, x) \/ Contains(q, x) \/ \E u \in Thread : md[u] = x
  <2>1. ~(Contains(g, x) /\ Contains(q, x))
    BY DEF Placed
  <2>2. CASE x = nd[t]
    BY <2>1, <2>2
  <2>3. CASE x # nd[t]
    <3>1. Contains(f, x) \/ Contains(q, x) \/ \E u \in Thread : nd[u] = x
      BY DEF Placed
    <3>2. ASSUME NEW u \in Thread, nd[u] = x PROVE md[u] = x
      <4>1. u # t
        BY <2>3, <3>2
      <4> QED BY <1>1, <3>2, <4>1
    <3> QED BY <2>1, <2>3, <3>1, <3>2
  <2> QED BY <2>2, <2>3
<1>9. Placed(g, q, md)
  <2>1. Len(q) \in Nat
    BY DEF Placed
  <2> QED BY <1>1, <1>4, <1>6, <1>7, <1>8, <2>1 DEF Placed
<1> QED BY <1>9 DEF md

\* Nodes go from one sequence to the other.
LEMMA PlacedMoves ==
    ASSUME NEW f, NEW q, NEW nd, Placed(f, q, nd),
           NEW g, NEW p, Len(g) \in Nat, Len(p) \in Nat, Len(g) + Len(p) = Len(f) + Len(q),
           \A x : Contains(g, x) \/ Contains(p, x) <=> Contains(f, x) \/ Contains(q, x),
           \A x : ~(Contains(g, x) /\ Contains(p, x))
    PROVE  Placed(g, p, nd)
<1>1. Cardinality(Out(nd)) \in Nat
  BY FS_CardinalityType DEF Placed
<1>2. Len(g) + Len(p) + Cardinality(Out(nd)) = MaxMsgs
  BY <1>1 DEF Placed
<1>3. /\ \A t \in Thread : nd[t] # Null => ~Contains(g, nd[t]) /\ ~Contains(p, nd[t])
      /\ \A n \in Node : Contains(g, n) \/ Contains(p, n) \/ \E t \in Thread : nd[t] = n
  BY DEF Placed
<1> QED BY <1>2, <1>3 DEF Placed
-----------------------------------------------------------------------------
(* f and q are the nodes of the free list and of the queue, and a queued   *)
(* node has a message.                                                     *)
Listed(f, q) ==
    /\ next \in [Node -> Node \cup {Null}]
    /\ Chain(next, free, f) /\ Chain(next, head, q)
    /\ Placed(f, q, node)
    /\ entry = Len(q) /\ tail = IF q = <<>> THEN Null ELSE q[Len(q)]
    /\ content \in [Node -> Message \cup {Nothing}]
    /\ \A i \in 1 .. Len(q) : content[q[i]] \in Message

\* those who are between the two critical sections of their call
Holding == {"link", "urgent_link", "put_back"}

LocalsOK ==
    /\ pc \in [Thread -> MqPC]
    /\ alive \in BOOLEAN /\ limited \subseteq Thread
    /\ got \in [Thread -> Message \cup {Nothing}]
    /\ \A t \in Thread : node[t] # Null <=> pc[t] \in Holding

ListInv == LocalsOK /\ \E f, q : Listed(f, q)

LEMMA ListedFacts ==
    ASSUME NEW f, NEW q, Listed(f, q)
    PROVE  /\ f \in Seq(Node) /\ IsInjective(f) /\ Len(f) \in 0 .. MaxMsgs
           /\ q \in Seq(Node) /\ IsInjective(q) /\ Len(q) \in 0 .. MaxMsgs
           /\ (f = <<>> <=> Len(f) = 0) /\ (q = <<>> <=> Len(q) = 0)
           /\ \A i \in 1 .. Len(q) : q[i] \in Node /\ Contains(q, q[i])
           /\ \A t \in Thread : node[t] \in Node \cup {Null}
           /\ node \in [Thread -> Node \cup {Null}]
<1>1. f \in Seq(Node) /\ IsInjective(f) /\ q \in Seq(Node) /\ IsInjective(q)
  BY DEF Listed, Chain
<1>2. Len(f) \in 0 .. MaxMsgs /\ Len(q) \in 0 .. MaxMsgs
  BY PlacedBounds DEF Listed
<1>3. \A i \in 1 .. Len(q) : q[i] \in Node /\ Contains(q, q[i])
  BY <1>1 DEF Contains
<1>4. node \in [Thread -> Node \cup {Null}]
  BY DEF Listed, Placed
<1> QED BY <1>1, <1>2, <1>3, <1>4, EmptySeq

LEMMA ListedTakes ==
    ASSUME NEW f, NEW q, Listed(f, q), LocalsOK, NEW t \in Thread, NEW api, NEW at,
           TakesNode(t, api, at)
    PROVE  Listed(Tail(f), q)'
<1>1. /\ free # Null /\ node' = [node EXCEPT ![t] = free] /\ free' = next[free]
      /\ next' = next /\ entry' = entry /\ head' = head /\ tail' = tail /\ content' = content
      /\ node[t] = Null
  BY DEF TakesNode, Calls, Running, LocalsOK, Holding
<1>2. /\ free \in Node /\ Contains(f, free)
      /\ Chain(next, next[free], Tail(f)) /\ Len(Tail(f)) = Len(f) - 1
      /\ \A x : Contains(Tail(f), x) <=> Contains(f, x) /\ x # free
      /\ Len(f) \in Nat \ {0}
  BY <1>1, ChainTail DEF Listed
<1>3. Len(Tail(f)) \in Nat
  BY <1>2
<1>4. Placed(Tail(f), q, [node EXCEPT ![t] = free])
  BY <1>1, <1>2, <1>3, PlacedTakes DEF Listed
<1> QED BY <1>1, <1>2, <1>4 DEF Listed

\* a queued node that n is linked behind
LEMMA ListedEnd ==
    ASSUME NEW f, NEW q, Listed(f, q), NEW n \in Node, ~Contains(q, n),
           next' = [EndedBy(n) EXCEPT ![n] = Null],
           head' = IF head = Null THEN n ELSE head
    PROVE  /\ next' \in [Node -> Node \cup {Null}]
           /\ Chain(next', head', Append(q, n))
           /\ Len(Append(q, n)) = Len(q) + 1 /\ Append(q, n)[Len(q) + 1] = n
           /\ \A i \in 1 .. Len(q) : Append(q, n)[i] = q[i]
           /\ \A x : Contains(Append(q, n), x) <=> Contains(q, x) \/ x = n
           /\ \A x \in Node : x # n /\ ~Contains(q, x) => next'[x] = next[x]
<1>1. /\ next \in [Node -> Node \cup {Null}] /\ Chain(next, head, q)
      /\ tail = IF q = <<>> THEN Null ELSE q[Len(q)]
      /\ Null \notin Node
  BY MessageQueueAssumption DEF Listed
<1>2. /\ Len(q) \in Nat /\ (q = <<>> <=> Len(q) = 0)
      /\ \A i \in 1 .. Len(q) : q[i] \in Node /\ Contains(q, q[i])
  BY ListedFacts
<1>3. q # <<>> => /\ tail = q[Len(q)] /\ tail \in Node /\ tail # Null /\ Contains(q, tail)
                  /\ tail # n
  BY <1>1, <1>2
<1>4. EndedBy(n) = IF q # <<>> THEN [next EXCEPT ![tail] = n] ELSE next
  BY <1>1, <1>3 DEF EndedBy
<1>5. /\ next' \in [Node -> Node \cup {Null}]
      /\ EndsAt(next', next, q, n)
  <2>1. CASE q = <<>>
    BY <1>1, <1>4, <2>1 DEF EndsAt
  <2>2. CASE q # <<>>
    BY <1>1, <1>3, <1>4, <2>2 DEF EndsAt
  <2> QED BY <2>1, <2>2
<1>6. PICK ny : ny = next' /\ EndsAt(ny, next, q, n)
  BY <1>5
<1>7. /\ Chain(ny, IF head = Null THEN n ELSE head, Append(q, n))
      /\ Len(Append(q, n)) = Len(q) + 1 /\ Append(q, n)[Len(q) + 1] = n
      /\ \A i \in 1 .. Len(q) : Append(q, n)[i] = q[i]
      /\ \A x : Contains(Append(q, n), x) <=> Contains(q, x) \/ x = n
  <2>1. Chain(next, head, q) /\ ~Contains(q, n)
    BY <1>1
  <2> QED BY <1>6, <2>1, ChainLast
<1>8. ASSUME NEW x \in Node, x # n, ~Contains(q, x) PROVE next'[x] = next[x]
  <2>1. x # n /\ (q # <<>> => x # q[Len(q)])
    BY <1>2, <1>3, <1>8
  <2> QED BY <1>5, <2>1 DEF EndsAt
<1> QED BY <1>5, <1>6, <1>7, <1>8

(* The messages of the nodes q, with m as the last of p, or as the first.  *)
MessageLast(q, p, m) ==
    /\ Len(p) = Len(q) + 1 /\ content'[p[Len(q) + 1]] = m
    /\ \A i \in 1 .. Len(q) : content'[p[i]] = content[q[i]]

MessageFirst(q, p, m) ==
    /\ Len(p) = Len(q) + 1 /\ content'[p[1]] = m
    /\ \A i \in 1 .. Len(q) : content'[p[i + 1]] = content[q[i]]

LEMMA ListedLast ==
    ASSUME NEW f, NEW q, Listed(f, q), LocalsOK, NEW t \in Thread, Links(t, "link"),
           NEW p, p = Append(q, node[t])
    PROVE  Listed(f, p)' /\ Len(q) < MaxMsgs /\ MessageLast(q, p, t)
<1> DEFINE n == node[t]
<1>1. /\ node[t] # Null /\ node' = [node EXCEPT ![t] = Null] /\ free' = free
      /\ content' = [content EXCEPT ![n] = t] /\ LinkLast(n)
  BY DEF Links, Running, LocalsOK, Holding
<1>2. /\ n \in Node /\ ~Contains(f, n) /\ ~Contains(q, n)
      /\ Placed(f, q, node) /\ entry = Len(q) /\ Len(q) \in Nat
  BY <1>1, ListedFacts DEF Listed, Placed
<1>3. /\ next' = [EndedBy(n) EXCEPT ![n] = Null] /\ tail' = n
      /\ head' = (IF head = Null THEN n ELSE head) /\ entry' = entry + 1
  BY <1>1 DEF LinkLast
<1>4. /\ next' \in [Node -> Node \cup {Null}]
      /\ Chain(next', head', Append(q, n))
      /\ Len(Append(q, n)) = Len(q) + 1 /\ Append(q, n)[Len(q) + 1] = n
      /\ \A i \in 1 .. Len(q) : Append(q, n)[i] = q[i]
      /\ \A x : Contains(Append(q, n), x) <=> Contains(q, x) \/ x = n
      /\ \A x \in Node : x # n /\ ~Contains(q, x) => next'[x] = next[x]
  <2> HIDE DEF n
  <2> QED BY <1>2, <1>3, ListedEnd
<1>5. Chain(next', free', f)
  <2>1. \A x \in Node : Contains(f, x) => next'[x] = next[x]
    BY <1>2, <1>4 DEF Placed
  <2> QED BY <1>1, <2>1, ChainKept DEF Listed
<1>6. Placed(f, Append(q, n), [node EXCEPT ![t] = Null])
  <2> DEFINE r == Append(q, n)
  <2>1. Len(r) \in Nat /\ Len(r) = Len(q) + 1 /\ \A x : Contains(r, x) <=> Contains(q, x) \/ x = n
    BY <1>2, <1>4
  <2> HIDE DEF r
  <2>2. Placed(q, f, node)
    BY <1>2, PlacedEither
  <2>3. Placed(r, f, [node EXCEPT ![t] = Null])
    BY <1>1, <2>1, <2>2, PlacedGives
  <2>4. Placed(f, r, [node EXCEPT ![t] = Null])
    BY <2>3, PlacedEither
  <2> QED BY <2>4 DEF r
<1>7. /\ content' \in [Node -> Message \cup {Nothing}] /\ t \in Message
      /\ content'[Append(q, n)[Len(q) + 1]] = t
      /\ \A i \in 1 .. Len(q) : /\ content'[Append(q, n)[i]] = content[q[i]]
                               /\ content[q[i]] \in Message
  <2>1. t \in Message /\ content \in [Node -> Message \cup {Nothing}]
    BY DEF Listed, Message
  <2>2. content'[n] = t /\ \A x \in Node \ {n} : content'[x] = content[x]
    BY <1>1, <1>2, <2>1
  <2>3. ASSUME NEW i \in 1 .. Len(q)
        PROVE  content'[Append(q, n)[i]] = content[q[i]] /\ content[q[i]] \in Message
    <3>1. Append(q, n)[i] = q[i] /\ q[i] \in Node /\ q[i] # n /\ content[q[i]] \in Message
      BY <1>2, <1>4, ListedFacts DEF Listed
    <3> QED BY <2>2, <3>1
  <2>4. content' \in [Node -> Message \cup {Nothing}]
    BY <1>1, <2>1
  <2> QED BY <1>4, <2>1, <2>2, <2>3, <2>4
<1>8. /\ Append(q, n) # <<>> /\ entry' = Len(Append(q, n))
      /\ tail' = Append(q, n)[Len(Append(q, n))]
  <2>1. Append(q, n) # <<>>
    BY <1>2, <1>4
  <2> QED BY <1>2, <1>3, <1>4, <2>1
<1> HIDE DEF n
<1>9. Placed(f, Append(q, n), node')
  BY <1>1, <1>6
<1>10. p = Append(q, n)
  BY DEF n
<1>11. Listed(f, p)'
  <2>1. /\ next' \in [Node -> Node \cup {Null}]
        /\ Chain(next', free', f) /\ Chain(next', head', p) /\ Placed(f, p, node')
    BY <1>4, <1>5, <1>9, <1>10
  <2>2. /\ entry' = Len(p) /\ tail' = IF p = <<>> THEN Null ELSE p[Len(p)]
        /\ content' \in [Node -> Message \cup {Nothing}]
    BY <1>7, <1>8, <1>10
  <2>3. ASSUME NEW i \in 1 .. Len(p) PROVE content'[p[i]] \in Message
    <3>1. Len(p) = Len(q) + 1 /\ (i = Len(q) + 1 \/ i \in 1 .. Len(q))
      BY <1>2, <1>4, <1>10
    <3> QED BY <1>7, <1>10, <3>1
  <2> QED BY <2>1, <2>2, <2>3, Zenon DEF Listed
<1>12. Len(q) < MaxMsgs
  BY <1>1, <1>2, PlacedBounds
<1>13. MessageLast(q, p, t)
  BY <1>4, <1>7, <1>10 DEF MessageLast
<1> QED BY <1>11, <1>12, <1>13

LEMMA ListedFirst ==
    ASSUME NEW f, NEW q, Listed(f, q), LocalsOK, NEW t \in Thread, Links(t, "urgent_link"),
           NEW p, p = <<node[t]>> \o q
    PROVE  Listed(f, p)' /\ Len(q) < MaxMsgs /\ MessageFirst(q, p, t)
<1> DEFINE n == node[t]
<1>1. /\ node[t] # Null /\ node' = [node EXCEPT ![t] = Null] /\ free' = free
      /\ content' = [content EXCEPT ![n] = t] /\ LinkFirst(n)
  BY DEF Links, Running, LocalsOK, Holding
<1>2. /\ n \in Node /\ ~Contains(f, n) /\ ~Contains(q, n)
      /\ Placed(f, q, node) /\ entry = Len(q) /\ Len(q) \in Nat
      /\ q \in Seq(Node) /\ (q = <<>> <=> Len(q) = 0)
      /\ tail = IF q = <<>> THEN Null ELSE q[Len(q)]
  BY <1>1, ListedFacts DEF Listed, Placed
<1>3. /\ next' = [next EXCEPT ![n] = head] /\ head' = n /\ entry' = entry + 1
      /\ tail' = IF tail = Null THEN n ELSE tail
  BY <1>1 DEF LinkFirst
<1>4. /\ Chain(next', head', p) /\ next' \in [Node -> Node \cup {Null}]
      /\ Len(p) = Len(q) + 1
      /\ \A x : Contains(p, x) <=> Contains(q, x) \/ x = n
  <2>1. Chain(next, head, q) /\ next \in [Node -> Node \cup {Null}]
    BY DEF Listed
  <2> HIDE DEF n
  <2>2. p = <<n>> \o q
    BY DEF n
  <2>3. n \in Node /\ ~Contains(q, n)
    BY <1>2
  <2>4. /\ Chain([next EXCEPT ![n] = head], n, p)
        /\ [next EXCEPT ![n] = head] \in [Node -> Node \cup {Null}]
        /\ Len(p) = Len(q) + 1
        /\ \A x : Contains(p, x) <=> Contains(q, x) \/ x = n
    <3>1. /\ Chain([next EXCEPT ![n] = head], n, <<n>> \o q)
          /\ [next EXCEPT ![n] = head] \in [Node -> Node \cup {Null}]
          /\ Len(<<n>> \o q) = Len(q) + 1
          /\ \A x : Contains(<<n>> \o q, x) <=> Contains(q, x) \/ x = n
      BY <2>1, <2>3, ChainFirst
    <3> QED BY <2>2, <3>1
  <2>5. next' = [next EXCEPT ![n] = head] /\ head' = n
    BY <1>3 DEF n
  <2> QED BY <2>4, <2>5
<1>5. p[1] = n /\ \A i \in 1 .. Len(q) : p[i + 1] = q[i]
  <2>1. <<n>> \in Seq(Node) /\ Len(<<n>>) = 1 /\ <<n>>[1] = n
    BY <1>2
  <2>2. \A i \in 1 .. Len(p) : p[i] = IF i <= 1 THEN <<n>>[i] ELSE q[i - 1]
    BY <1>2, <1>4, <2>1, ConcatProperties
  <2>3. ASSUME NEW i \in 1 .. Len(q) PROVE p[i + 1] = q[i]
    <3>1. i + 1 \in 1 .. Len(p) /\ ~(i + 1 <= 1) /\ (i + 1) - 1 = i
      BY <1>2, <1>4
    <3> QED BY <2>2, <3>1
  <2> QED BY <1>2, <1>4, <2>1, <2>2, <2>3
<1>6. Chain(next', free', f)
  <2>1. \A x \in Node : Contains(f, x) => next'[x] = next[x]
    BY <1>2, <1>3 DEF Listed
  <2> QED BY <1>1, <2>1, ChainKept DEF Listed
<1>7. Placed(f, p, node')
  <2>1. Len(p) \in Nat
    BY <1>2, <1>4
  <2>2. Placed(q, f, node)
    BY <1>2, PlacedEither
  <2>3. Placed(p, f, [node EXCEPT ![t] = Null])
    BY <1>1, <1>4, <2>1, <2>2, PlacedGives
  <2> QED BY <1>1, <2>3, PlacedEither
<1>8. /\ content' \in [Node -> Message \cup {Nothing}] /\ t \in Message
      /\ content'[p[1]] = t
      /\ \A i \in 1 .. Len(q) : /\ content'[p[i + 1]] = content[q[i]]
                               /\ content[q[i]] \in Message
  <2>1. t \in Message /\ content \in [Node -> Message \cup {Nothing}]
    BY DEF Listed, Message
  <2>2. content'[n] = t /\ \A x \in Node \ {n} : content'[x] = content[x]
    BY <1>1, <1>2, <2>1
  <2>3. ASSUME NEW i \in 1 .. Len(q)
        PROVE  content'[p[i + 1]] = content[q[i]] /\ content[q[i]] \in Message
    <3>1. p[i + 1] = q[i] /\ q[i] \in Node /\ q[i] # n /\ content[q[i]] \in Message
      BY <1>2, <1>5, ListedFacts DEF Listed
    <3> QED BY <2>2, <3>1
  <2>4. content' \in [Node -> Message \cup {Nothing}]
    BY <1>1, <2>1
  <2> QED BY <1>5, <2>1, <2>2, <2>3, <2>4
<1>9. entry' = Len(p) /\ tail' = IF p = <<>> THEN Null ELSE p[Len(p)]
  <2>1. p # <<>> /\ entry' = Len(p)
    BY <1>2, <1>3, <1>4
  <2>2. CASE q = <<>>
    BY <1>2, <1>3, <1>4, <1>5, <2>1, <2>2
  <2>3. CASE q # <<>>
    <3>1. Len(q) \in 1 .. Len(q) /\ p[Len(p)] = q[Len(q)]
      BY <1>2, <1>4, <1>5, <2>3
    <3>2. q[Len(q)] # Null
      BY <3>1, ListedFacts, MessageQueueAssumption
    <3> QED BY <1>2, <1>3, <2>1, <2>3, <3>1, <3>2
  <2> QED BY <2>2, <2>3
<1>10. ASSUME NEW i \in 1 .. Len(p) PROVE content'[p[i]] \in Message
  <2>1. CASE i = 1
    BY <1>8, <2>1
  <2>2. CASE i # 1
    <3>1. i - 1 \in 1 .. Len(q) /\ (i - 1) + 1 = i
      BY <1>2, <1>4, <2>2
    <3>2. content'[p[(i - 1) + 1]] \in Message
      BY <1>8, <3>1
    <3> QED BY <3>1, <3>2
  <2> QED BY <2>1, <2>2
<1>11. Listed(f, p)'
  BY <1>4, <1>6, <1>7, <1>8, <1>9, <1>10, Zenon DEF Listed
<1>12. Len(q) < MaxMsgs
  BY <1>1, <1>2, PlacedBounds
<1>13. MessageFirst(q, p, t)
  BY <1>4, <1>8 DEF MessageFirst
<1> QED BY <1>11, <1>12, <1>13

LEMMA ListedUnlinks ==
    ASSUME NEW f, NEW q, Listed(f, q), LocalsOK, NEW t \in Thread, Unlinks(t)
    PROVE  /\ Listed(f, Tail(q))' /\ q # <<>> /\ head = q[1] /\ head \in Node
           /\ Len(Tail(q)) = Len(q) - 1
           /\ \A i \in 1 .. Len(q) - 1 : Tail(q)[i] = q[i + 1]
<1>1. /\ entry # 0 /\ node[t] = Null /\ node' = [node EXCEPT ![t] = head]
      /\ head' = next[head] /\ tail' = (IF tail = head THEN Null ELSE tail)
      /\ entry' = entry - 1 /\ UNCHANGED <<free, next, content>>
  BY DEF Unlinks, Loops, Calls, Running, LocalsOK, Holding
<1>2. /\ q \in Seq(Node) /\ IsInjective(q) /\ Len(q) \in Nat \ {0} /\ q # <<>>
      /\ head = q[1] /\ Null \notin Node /\ head \in Node
      /\ tail = q[Len(q)] /\ entry = Len(q)
  BY <1>1, ListedFacts, MessageQueueAssumption DEF Listed, Chain
<1>3. PICK p : p = Tail(q)
  OBVIOUS
<1>4. /\ Contains(q, head) /\ Chain(next, next[head], p) /\ Len(p) = Len(q) - 1
      /\ \A x : Contains(p, x) <=> Contains(q, x) /\ x # head
  BY <1>2, <1>3, ChainTail DEF Listed
<1>5. Len(p) = Len(q) - 1 /\ \A i \in 1 .. Len(q) - 1 : p[i] = q[i + 1]
  BY <1>2, <1>3, HeadTailProperties
<1>6. Placed(f, p, node')
  <2>1. Placed(q, f, node) /\ Len(p) \in Nat
    BY <1>2, <1>4, PlacedEither DEF Listed
  <2>2. Placed(p, f, [node EXCEPT ![t] = head])
    BY <1>1, <1>2, <1>4, <2>1, PlacedTakes
  <2> QED BY <1>1, <2>2, PlacedEither
<1>7. entry' = Len(p) /\ tail' = IF p = <<>> THEN Null ELSE p[Len(p)]
  <2>1. p \in Seq(Node) /\ (p = <<>> <=> Len(p) = 0)
    BY <1>4, EmptySeq DEF Chain
  <2>2. tail = head <=> Len(q) = 1
    BY <1>2 DEF IsInjective
  <2>3. p # <<>> => p[Len(p)] = q[Len(q)]
    BY <1>2, <1>4, <1>5, <2>1
  <2> QED BY <1>1, <1>2, <1>4, <2>1, <2>2, <2>3
<1>8. ASSUME NEW i \in 1 .. Len(p) PROVE content'[p[i]] \in Message
  <2>1. i \in 1 .. Len(q) - 1 /\ i + 1 \in 1 .. Len(q)
    BY <1>2, <1>4
  <2> QED BY <1>1, <1>5, <2>1 DEF Listed
<1>9. Listed(f, p)'
  <2>1. /\ next' = next /\ free' = free /\ content' = content
        /\ Chain(next, free, f) /\ content \in [Node -> Message \cup {Nothing}]
        /\ next \in [Node -> Node \cup {Null}]
    BY <1>1 DEF Listed
  <2> QED BY <1>1, <1>4, <1>6, <1>7, <1>8, <2>1 DEF Listed
<1> QED BY <1>2, <1>3, <1>4, <1>5, <1>9

LEMMA ListedPutsBack ==
    ASSUME NEW f, NEW q, Listed(f, q), LocalsOK, NEW t \in Thread, PutsBack(t)
    PROVE  \E g : Listed(g, q)'
<1> DEFINE n == node[t]
<1>1. /\ node[t] # Null /\ node' = [node EXCEPT ![t] = Null]
      /\ next' = [next EXCEPT ![n] = free] /\ free' = n
      /\ UNCHANGED <<entry, head, tail, content>>
  BY DEF PutsBack, Running, LocalsOK, Holding
<1>2. /\ n \in Node /\ ~Contains(f, n) /\ ~Contains(q, n)
      /\ Placed(f, q, node) /\ Len(f) \in Nat
  BY <1>1, ListedFacts DEF Listed, Placed
<1> HIDE DEF n
<1>3. PICK g : g = <<n>> \o f
  OBVIOUS
<1>4. /\ Chain(next', free', g) /\ next' \in [Node -> Node \cup {Null}]
      /\ Len(g) = Len(f) + 1
      /\ \A x : Contains(g, x) <=> Contains(f, x) \/ x = n
  <2>1. Chain(next, free, f) /\ next \in [Node -> Node \cup {Null}]
    BY DEF Listed
  <2> QED BY <1>1, <1>2, <1>3, <2>1, ChainFirst
<1>5. Chain(next', head', q)
  <2>1. \A x \in Node : Contains(q, x) => next'[x] = next[x]
    BY <1>1, <1>2 DEF Listed
  <2> QED BY <1>1, <2>1, ChainKept DEF Listed
<1>6. Placed(g, q, node')
  <2>1. Len(g) \in Nat
    BY <1>2, <1>4
  <2> QED BY <1>1, <1>2, <1>4, <2>1, PlacedGives DEF n
<1>7. Listed(g, q)'
  <2>1. /\ entry' = Len(q) /\ tail' = (IF q = <<>> THEN Null ELSE q[Len(q)])
        /\ content' \in [Node -> Message \cup {Nothing}]
        /\ \A i \in 1 .. Len(q) : content'[q[i]] \in Message
    BY <1>1 DEF Listed
  <2> QED BY <1>4, <1>5, <1>6, <2>1, Zenon DEF Listed
<1> QED BY <1>7

(* The loop of a reset: g[i] is the free list after i of the nodes r.      *)
Puts(g, m, r) ==
    g = [i \in 0 .. m |->
            IF i = 0 THEN [free |-> free, next |-> next]
            ELSE [free |-> r[i], next |-> [g[i - 1].next EXCEPT ![r[i]] = g[i - 1].free]]]

PutNext(x, n) == [free |-> n, next |-> [x.next EXCEPT ![n] = x.free]]

LEMMA PutsStep ==
    ASSUME NEW g, NEW m \in Nat, NEW r, Puts(g, m, r)
    PROVE  /\ g[0] = [free |-> free, next |-> next]
           /\ \A i \in 0 .. m : i # 0 => g[i] = PutNext(g[i - 1], r[i])
<1>1. ASSUME NEW i \in 0 .. m
      PROVE  g[i] = IF i = 0 THEN [free |-> free, next |-> next]
                    ELSE PutNext(g[i - 1], r[i])
  <2> DEFINE h == [j \in 0 .. m |-> IF j = 0 THEN [free |-> free, next |-> next]
                                    ELSE PutNext(g[j - 1], r[j])]
  <2>1. h[i] = IF i = 0 THEN [free |-> free, next |-> next] ELSE PutNext(g[i - 1], r[i])
    OBVIOUS
  <2>2. g = h
    BY DEF Puts, PutNext
  <2> HIDE DEF h
  <2> QED BY <2>1, <2>2
<1> QED BY <1>1

LEMMA PutsExist ==
    ASSUME NEW r, NEW m \in Nat
    PROVE  \E g : Puts(g, m, r)
<1> DEFINE S == { n \in Nat : \E g : Puts(g, n, r) }
           first == [free |-> free, next |-> next]
<1>1. 0 \in S
  <2> DEFINE g == [i \in 0 .. 0 |-> first]
  <2>1. Puts(g, 0, r)
    BY DEF Puts
  <2> QED BY <2>1
<1>2. ASSUME NEW n \in Nat, n \in S PROVE n + 1 \in S
  <2>1. PICK g : Puts(g, n, r)
    BY <1>2
  <2>2. g[0] = first /\ \A i \in 0 .. n : i # 0 => g[i] = PutNext(g[i - 1], r[i])
    BY <2>1, PutsStep
  <2> DEFINE h == [i \in 0 .. n + 1 |-> IF i <= n THEN g[i] ELSE PutNext(g[n], r[n + 1])]
  <2> HIDE DEF first
  <2>3. ASSUME NEW i \in 0 .. n + 1
        PROVE  h[i] = IF i = 0 THEN first ELSE PutNext(h[i - 1], r[i])
    <3>1. CASE i = 0
      BY <2>2, <3>1
    <3>2. CASE i # 0 /\ i <= n
      <4>1. i \in 0 .. n /\ i - 1 \in 0 .. n
        BY <3>2
      <4>2. g[i] = PutNext(g[i - 1], r[i])
        BY <2>2, <3>2, <4>1
      <4>3. h[i] = g[i] /\ h[i - 1] = g[i - 1]
        BY <4>1
      <4> QED BY <3>2, <4>2, <4>3
    <3>3. CASE i = n + 1
      <4>1. h[i] = PutNext(g[n], r[i]) /\ h[i - 1] = g[n]
        BY <3>3
      <4> QED BY <3>3, <4>1
    <3> QED BY <3>1, <3>2, <3>3
  <2>4. h = [i \in 0 .. n + 1 |-> h[i]]
    OBVIOUS
  <2> HIDE DEF h
  <2>5. h = [i \in 0 .. n + 1 |-> IF i = 0 THEN first ELSE PutNext(h[i - 1], r[i])]
    BY <2>3, <2>4
  <2>6. Puts(h, n + 1, r)
    BY <2>5 DEF Puts, PutNext, first
  <2> QED BY <2>6
<1> HIDE DEF S
<1>3. Nat \subseteq S
  BY <1>1, <1>2, InductiveSet
<1> QED BY <1>3 DEF S

\* x is the free list f with the first i nodes of q put in front.
PutUpTo(x, i, f, q) ==
    /\ x.next \in [Node -> Node \cup {Null}]
    /\ \E e : /\ Chain(x.next, x.free, e) /\ Len(e) = Len(f) + i
              /\ \A n : Contains(e, n) <=> Contains(f, n) \/ \E j \in 1 .. i : q[j] = n

LEMMA PutOne ==
    ASSUME NEW f, NEW q, Listed(f, q), NEW i \in Nat, i + 1 <= Len(q),
           NEW x, PutUpTo(x, i, f, q)
    PROVE  PutUpTo(PutNext(x, q[i + 1]), i + 1, f, q)
<1>1. /\ Len(f) \in Nat /\ Len(q) \in Nat /\ IsInjective(q) /\ q \in Seq(Node)
      /\ i + 1 \in 1 .. Len(q) /\ q[i + 1] \in Node /\ Contains(q, q[i + 1])
  BY ListedFacts
<1>2. PICK m : m = q[i + 1]
  OBVIOUS
<1>3. PICK e : /\ Chain(x.next, x.free, e) /\ Len(e) = Len(f) + i
               /\ \A n : Contains(e, n) <=> Contains(f, n) \/ \E j \in 1 .. i : q[j] = n
  BY DEF PutUpTo
<1>4. m \in Node /\ ~Contains(e, m)
  <2>1. ~Contains(f, m)
    BY <1>1, <1>2 DEF Listed, Placed
  <2>2. \A j \in 1 .. i : q[j] # m
    BY <1>1, <1>2 DEF IsInjective
  <2> QED BY <1>1, <1>2, <1>3, <2>1, <2>2
<1>5. PICK nx, fr : nx = x.next /\ fr = x.free
  OBVIOUS
<1>6. PICK d : d = <<m>> \o e
  OBVIOUS
<1>7. /\ Chain([nx EXCEPT ![m] = fr], m, d)
      /\ [nx EXCEPT ![m] = fr] \in [Node -> Node \cup {Null}]
      /\ Len(d) = Len(e) + 1
      /\ \A n : Contains(d, n) <=> Contains(e, n) \/ n = m
  <2>1. nx \in [Node -> Node \cup {Null}] /\ Chain(nx, fr, e)
    BY <1>3, <1>5 DEF PutUpTo
  <2>2. /\ Chain([nx EXCEPT ![m] = fr], m, <<m>> \o e)
        /\ [nx EXCEPT ![m] = fr] \in [Node -> Node \cup {Null}]
        /\ Len(<<m>> \o e) = Len(e) + 1
        /\ \A n : Contains(<<m>> \o e, n) <=> Contains(e, n) \/ n = m
    BY <1>4, <2>1, ChainFirst
  <2> QED BY <1>6, <2>2
<1>8. PICK y : y = PutNext(x, m)
  OBVIOUS
<1>9. y.next = [nx EXCEPT ![m] = fr] /\ y.free = m
  BY <1>5, <1>8 DEF PutNext
<1>10. \A n : Contains(d, n) <=> Contains(f, n) \/ \E j \in 1 .. i + 1 : q[j] = n
  <2> TAKE n
  <2>1. (\E j \in 1 .. i + 1 : q[j] = n) <=> (\E j \in 1 .. i : q[j] = n) \/ q[i + 1] = n
    <3>1. 1 .. i + 1 = (1 .. i) \cup {i + 1}
      OBVIOUS
    <3> QED BY <3>1
  <2> QED BY <1>2, <1>3, <1>7, <2>1
<1>11. Len(d) = Len(f) + (i + 1)
  BY <1>1, <1>3, <1>7
<1>12. PutUpTo(y, i + 1, f, q)
  BY <1>7, <1>9, <1>10, <1>11 DEF PutUpTo
<1> QED BY <1>2, <1>8, <1>12

LEMMA ListedReset ==
    ASSUME NEW f, NEW q, Listed(f, q), NEW t \in Thread, rt_mq_control(t)
    PROVE  \E g : Listed(g, <<>>)'
<1> DEFINE m == Len(q)
           put == CHOOSE g : Puts(g, m, q)
           S == { i \in Nat : i <= m => PutUpTo(put[i], i, f, q) }
<1>1. m \in Nat /\ m <= MaxMsgs /\ Len(f) \in Nat /\ q \in Seq(Node)
  BY ListedFacts
<1>2. Nodes(head) = q
  BY <1>1, NodesAre DEF Listed
<1>3. Puts(put, m, q)
  <2>1. \E g : Puts(g, m, q)
    BY <1>1, PutsExist
  <2> HIDE DEF m
  <2> QED BY <2>1, Zenon
<1>4. /\ free' = put[m].free /\ next' = put[m].next
      /\ entry' = 0 /\ head' = Null /\ tail' = Null /\ UNCHANGED <<content, node>>
  <2>1. LET r == Nodes(head)
            p == CHOOSE g : Puts(g, Len(r), r)
        IN  free' = p[Len(r)].free /\ next' = p[Len(r)].next
    BY DEF rt_mq_control, Puts
  <2>2. entry' = 0 /\ head' = Null /\ tail' = Null /\ UNCHANGED <<content, node>>
    BY DEF rt_mq_control, locals
  <2> QED BY <1>2, <2>1, <2>2
<1> HIDE DEF put, m
<1>5. /\ put[0] = [free |-> free, next |-> next]
      /\ \A i \in 0 .. m : i # 0 => put[i] = PutNext(put[i - 1], q[i])
  BY <1>1, <1>3, PutsStep
<1>6. 0 \in S
  <2>1. put[0].free = free /\ put[0].next = next
    BY <1>5
  <2>2. \A n : Contains(f, n) <=> Contains(f, n) \/ \E j \in 1 .. 0 : q[j] = n
    OBVIOUS
  <2>3. Chain(put[0].next, put[0].free, f) /\ Len(f) = Len(f) + 0
    BY <1>1, <2>1 DEF Listed
  <2>4. put[0].next \in [Node -> Node \cup {Null}]
    BY <2>1 DEF Listed
  <2>5. PutUpTo(put[0], 0, f, q)
    BY <2>2, <2>3, <2>4 DEF PutUpTo
  <2> QED BY <2>5
<1>7. ASSUME NEW i \in Nat, i \in S PROVE i + 1 \in S
  <2>1. CASE i + 1 <= m
    <3>1. i + 1 \in 0 .. m /\ i + 1 # 0 /\ (i + 1) - 1 = i /\ i <= m
      BY <1>1, <2>1
    <3>2. PutUpTo(put[i], i, f, q)
      BY <1>7, <3>1
    <3>3. put[i + 1] = PutNext(put[i], q[i + 1])
      <4>1. put[i + 1] = PutNext(put[(i + 1) - 1], q[i + 1])
        BY <1>5, <3>1
      <4> QED BY <3>1, <4>1
    <3>4. PutUpTo(put[i + 1], i + 1, f, q)
      BY <2>1, <3>2, <3>3, PutOne DEF m
    <3> QED BY <3>4
  <2>2. CASE ~(i + 1 <= m)
    BY <2>2
  <2> QED BY <2>1, <2>2
<1> HIDE DEF S
<1>8. Nat \subseteq S
  BY <1>6, <1>7, InductiveSet
<1>9. PutUpTo(put[m], m, f, q)
  BY <1>1, <1>8 DEF S
<1>10. PICK e : /\ Chain(next', free', e) /\ Len(e) = Len(f) + m
                /\ \A n : Contains(e, n) <=> Contains(f, n) \/ \E j \in 1 .. m : q[j] = n
  BY <1>4, <1>9 DEF PutUpTo
<1>11. Placed(e, <<>>, node')
  <2>1. /\ Len(e) \in Nat /\ Len(<<>>) = 0 /\ Len(e) + Len(<<>>) = Len(f) + Len(q)
    BY <1>1, <1>10 DEF m
  <2>2. \A x : ~Contains(<<>>, x)
    BY DEF Contains
  <2>3. \A x : Contains(e, x) <=> Contains(f, x) \/ Contains(q, x)
    BY <1>10 DEF Contains, m
  <2>4. Placed(f, q, node) /\ node' = node
    BY <1>4 DEF Listed
  <2>5. Placed(e, <<>>, node)
    <3>1. /\ \A x : Contains(e, x) \/ Contains(<<>>, x) <=> Contains(f, x) \/ Contains(q, x)
          /\ \A x : ~(Contains(e, x) /\ Contains(<<>>, x))
      BY <2>2, <2>3
    <3>2. PICK z : z = <<>>
      OBVIOUS
    <3>3. /\ \A x : Contains(e, x) \/ Contains(z, x) <=> Contains(f, x) \/ Contains(q, x)
          /\ \A x : ~(Contains(e, x) /\ Contains(z, x))
          /\ Len(z) \in Nat /\ Len(e) + Len(z) = Len(f) + Len(q)
      BY <2>1, <3>1, <3>2
    <3>4. Placed(e, z, node)
      BY <2>1, <2>4, <3>3, PlacedMoves
    <3> QED BY <3>2, <3>4
  <2> QED BY <2>4, <2>5
<1>12. /\ next' \in [Node -> Node \cup {Null}] /\ entry' = Len(<<>>)
       /\ content' \in [Node -> Message \cup {Nothing}]
  BY <1>4, <1>9 DEF PutUpTo, Listed
<1>13. Chain(next', head', <<>>)
  <2>1. <<>> \in Seq(Node) /\ IsInjective(<<>>) /\ Len(<<>>) = 0
    BY DEF IsInjective
  <2> QED BY <1>4, <2>1 DEF Chain
<1>14. \A i \in 1 .. Len(<<>>) : content'[<<>>[i]] \in Message
  OBVIOUS
<1>15. tail' = IF <<>> = <<>> THEN Null ELSE <<>>[Len(<<>>)]
  BY <1>4
<1>16. Listed(e, <<>>)'
  BY <1>10, <1>11, <1>12, <1>13, <1>14, <1>15 DEF Listed
<1> QED BY <1>16

LEMMA ListedIsr ==
    ASSUME NEW f, NEW q, Listed(f, q), IsrSends, NEW p, p = Append(q, free)
    PROVE  Listed(Tail(f), p)' /\ Len(q) < MaxMsgs /\ MessageLast(q, p, Isr)
<1>1. PICK n : n = free
  OBVIOUS
<1>2. /\ n # Null /\ content' = [content EXCEPT ![n] = Isr] /\ free' = next[n]
      /\ next' = [EndedBy(n) EXCEPT ![n] = Null] /\ tail' = n
      /\ head' = (IF head = Null THEN n ELSE head) /\ entry' = entry + 1
      /\ node' = node
  BY <1>1 DEF IsrSends, EndedBy, locals
<1>3. /\ n \in Node /\ Contains(f, n)
      /\ Chain(next, next[n], Tail(f)) /\ Len(Tail(f)) = Len(f) - 1
      /\ \A x : Contains(Tail(f), x) <=> Contains(f, x) /\ x # n
      /\ Len(f) \in Nat \ {0}
  BY <1>1, <1>2, ChainTail DEF Listed
<1>4. /\ ~Contains(q, n) /\ Len(q) \in Nat /\ entry = Len(q) /\ Placed(f, q, node)
      /\ \A x \in Node : ~(Contains(f, x) /\ Contains(q, x))
  BY <1>3, ListedFacts DEF Listed, Placed
<1>5. p = Append(q, n)
  BY <1>1
<1>6. /\ next' \in [Node -> Node \cup {Null}]
      /\ Chain(next', head', p)
      /\ Len(p) = Len(q) + 1 /\ p[Len(q) + 1] = n
      /\ \A i \in 1 .. Len(q) : p[i] = q[i]
      /\ \A x : Contains(p, x) <=> Contains(q, x) \/ x = n
      /\ \A x \in Node : x # n /\ ~Contains(q, x) => next'[x] = next[x]
  <2>1. /\ next' \in [Node -> Node \cup {Null}]
        /\ Chain(next', head', Append(q, n))
        /\ Len(Append(q, n)) = Len(q) + 1 /\ Append(q, n)[Len(q) + 1] = n
        /\ \A i \in 1 .. Len(q) : Append(q, n)[i] = q[i]
        /\ \A x : Contains(Append(q, n), x) <=> Contains(q, x) \/ x = n
        /\ \A x \in Node : x # n /\ ~Contains(q, x) => next'[x] = next[x]
    BY <1>2, <1>3, <1>4, ListedEnd
  <2> QED BY <1>5, <2>1
<1>7. PICK g : g = Tail(f)
  OBVIOUS
<1>8. Chain(next', free', g)
  <2>1. \A x \in Node : Contains(g, x) => next'[x] = next[x]
    BY <1>3, <1>4, <1>6, <1>7
  <2>2. Chain(next, next[n], g)
    BY <1>3, <1>7
  <2> QED BY <1>2, <2>1, <2>2, ChainKept
<1>9. Placed(g, p, node')
  <2>1. Len(g) \in Nat /\ Len(p) \in Nat /\ Len(g) + Len(p) = Len(f) + Len(q)
    BY <1>3, <1>4, <1>6, <1>7
  <2>2. \A x : Contains(g, x) <=> Contains(f, x) /\ x # n
    BY <1>3, <1>7
  <2>3. /\ \A x : Contains(g, x) \/ Contains(p, x) <=> Contains(f, x) \/ Contains(q, x)
        /\ \A x : ~(Contains(g, x) /\ Contains(p, x))
    <3>1. \A x : Contains(f, x) => x \in Node
      BY ListedFacts, ContainsInList
    <3> QED BY <1>3, <1>4, <1>6, <2>2, <3>1
  <2> QED BY <1>2, <1>4, <2>1, <2>3, PlacedMoves
<1>10. /\ content' \in [Node -> Message \cup {Nothing}]
       /\ content'[n] = Isr /\ Isr \in Message
       /\ \A x \in Node \ {n} : content'[x] = content[x]
  BY <1>2, <1>3 DEF Listed, Message
<1>11. \A i \in 1 .. Len(q) : content'[p[i]] = content[q[i]] /\ content[q[i]] \in Message
  <2> TAKE i \in 1 .. Len(q)
  <2>1. p[i] = q[i] /\ q[i] \in Node /\ Contains(q, q[i]) /\ q[i] # n /\ content[q[i]] \in Message
    BY <1>4, <1>6, ListedFacts DEF Listed
  <2> QED BY <1>10, <2>1
<1>12. \A i \in 1 .. Len(p) : content'[p[i]] \in Message
  <2> TAKE i \in 1 .. Len(p)
  <2>1. i = Len(q) + 1 \/ i \in 1 .. Len(q)
    BY <1>4, <1>6
  <2> QED BY <1>6, <1>10, <1>11, <2>1
<1>13. entry' = Len(p) /\ tail' = IF p = <<>> THEN Null ELSE p[Len(p)]
  <2>1. p # <<>>
    BY <1>4, <1>6
  <2> QED BY <1>2, <1>4, <1>6, <2>1
<1>14. Listed(g, p)'
  BY <1>6, <1>8, <1>9, <1>10, <1>12, <1>13, Zenon DEF Listed
<1>15. Len(q) < MaxMsgs
  <2>1. Len(p) \in 0 .. MaxMsgs
    BY <1>9, PlacedBounds
  <2> QED BY <1>4, <1>6, <2>1, MessageQueueAssumption
<1>16. MessageLast(q, p, Isr)
  BY <1>6, <1>10, <1>11 DEF MessageLast
<1> QED BY <1>7, <1>14, <1>15, <1>16
-----------------------------------------------------------------------------
(* The steps that leave the nodes alone. *)
Idles(t) ==
    \/ \E timed \in BOOLEAN : Waiting(t, timed)
    \/ GivesUp(t) \/ Fails(t) \/ Schedules(t) \/ DetachStarts(t) \/ DetachResumes(t) \/ Sleep(t)
    \/ Slice \/ Timeout(t) \/ UNCHANGED vars

LEMMA IdleStep ==
    ASSUME LocalsOK, NEW t \in Thread, Idles(t)
    PROVE  /\ UNCHANGED <<links, content, node, got>> /\ LocalsOK'
           /\ \A u \in Thread : pc'[u] = pc[u] \/ (pc'[u] \notin Holding /\ pc[u] \notin Holding)
<1>1. UNCHANGED <<links, content, node, got>>
  BY DEF Idles, Waiting, GivesUp, Fails, Schedules, DetachStarts, DetachResumes, Sleep, Slice,
         Timeout, vars, locals
<1>2. alive' \in BOOLEAN /\ limited' \subseteq Thread
  BY DEF LocalsOK, Idles, Waiting, GivesUp, Fails, Schedules, DetachStarts, DetachResumes,
         Sleep, Slice, Timeout, vars, locals
<1>3. ASSUME UNCHANGED pc
      PROVE  /\ LocalsOK'
             /\ \A u \in Thread : pc'[u] = pc[u] \/ (pc'[u] \notin Holding /\ pc[u] \notin Holding)
  <2>1. got' \in [Thread -> Message \cup {Nothing}] /\ pc' \in [Thread -> MqPC]
    BY <1>1, <1>3 DEF LocalsOK
  <2>2. \A u \in Thread : node'[u] # Null <=> pc'[u] \in Holding
    BY <1>1, <1>3 DEF LocalsOK
  <2>3. LocalsOK'
    BY <1>2, <2>1, <2>2, Zenon DEF LocalsOK
  <2>4. \A u \in Thread : pc'[u] = pc[u]
    BY <1>3
  <2> QED BY <2>3, <2>4
<1>4. ASSUME NEW to \in MqPC \ Holding, Goto(t, to), pc[t] \notin Holding
      PROVE  /\ LocalsOK'
             /\ \A u \in Thread : pc'[u] = pc[u] \/ (pc'[u] \notin Holding /\ pc[u] \notin Holding)
  <2>1. /\ pc' \in [Thread -> MqPC] /\ pc'[t] = to
        /\ \A u \in Thread \ {t} : pc'[u] = pc[u]
    BY <1>4 DEF LocalsOK, Goto
  <2>2. \A u \in Thread : node'[u] # Null <=> pc'[u] \in Holding
    BY <1>1, <1>4, <2>1 DEF LocalsOK
  <2>3. got' \in [Thread -> Message \cup {Nothing}]
    BY <1>1 DEF LocalsOK
  <2>4. LocalsOK'
    BY <1>2, <2>1, <2>2, <2>3, Zenon DEF LocalsOK
  <2>5. to \notin Holding /\ pc[t] \notin Holding
    BY <1>4
  <2>6. \A u \in Thread : pc'[u] = pc[u] \/ (pc'[u] \notin Holding /\ pc[u] \notin Holding)
    BY <2>1, <2>5, Zenon
  <2> QED BY <2>4, <2>6, Zenon
<1>5. {"user", "sleep", "slept", "sched", "woken", "released", "check", "resume", "fault"}
         \subseteq MqPC \ Holding
  BY DEF MqPC, Holding
<1>6. ASSUME UNCHANGED pc \/ \E at, to \in MqPC \ Holding : pc[t] = at /\ Goto(t, to)
      PROVE  /\ LocalsOK'
             /\ \A u \in Thread : pc'[u] = pc[u] \/ (pc'[u] \notin Holding /\ pc[u] \notin Holding)
  BY <1>3, <1>4, <1>6
<1>7. ASSUME NEW timed, Waiting(t, timed)
      PROVE  \E at, to \in MqPC \ Holding : pc[t] = at /\ Goto(t, to)
  BY <1>5, <1>7 DEF Waiting, Loops, Calls, Running
<1>8. CASE GivesUp(t) \/ Fails(t) \/ DetachStarts(t)
  <2>1. \E at, to \in MqPC \ Holding : pc[t] = at /\ Goto(t, to)
    BY <1>5, <1>8 DEF GivesUp, Fails, DetachStarts, Calls, Running
  <2> QED BY <1>1, <1>6, <2>1
<1>9. CASE Schedules(t)
  <2>1. \E at, to \in MqPC \ Holding : pc[t] = at /\ Goto(t, to)
    BY <1>5, <1>9 DEF Schedules, Reschedule, Running
  <2> QED BY <1>1, <1>6, <2>1
<1>10. CASE DetachResumes(t)
  <2>1. \E at, to \in MqPC \ Holding : pc[t] = at /\ Goto(t, to)
    <3>1. CASE ChecksList(t, "check", Object, "resume", "user")
      BY <1>5, <3>1 DEF ChecksList, Running
    <3>2. CASE ResumesNext(t, "resume", Object, "check")
      BY <1>5, <3>2 DEF ResumesNext, Running
    <3> QED BY <1>10, <3>1, <3>2 DEF DetachResumes
  <2> QED BY <1>1, <1>6, <2>1
<1>11. CASE Sleep(t)
  <2>1. \E at, to \in MqPC \ Holding : pc[t] = at /\ Goto(t, to)
    BY <1>5, <1>11 DEF Sleep, Sleeps, Reschedule, Calls, Running
  <2> QED BY <1>1, <1>6, <2>1
<1>12. CASE Slice \/ Timeout(t) \/ UNCHANGED vars
  BY <1>1, <1>3, <1>12 DEF Slice, SliceExpires, Timeout, TimerFires, vars
<1>13. CASE \E timed \in BOOLEAN : Waiting(t, timed)
  BY <1>1, <1>6, <1>7, <1>13
<1> QED BY <1>8, <1>9, <1>10, <1>11, <1>12, <1>13 DEF Idles

\* A thread goes on with node' and with what it has got.
LEMMA LocalsMove ==
    ASSUME LocalsOK, NEW t \in Thread, NEW to \in MqPC, Goto(t, to),
           \A u \in Thread \ {t} : node'[u] = node[u],
           node'[t] # Null <=> to \in Holding,
           alive' = alive, limited' \subseteq Thread,
           got' \in [Thread -> Message \cup {Nothing}]
    PROVE  /\ LocalsOK' /\ pc'[t] = to
           /\ \A u \in Thread \ {t} : pc'[u] = pc[u]
<1>1. /\ pc' \in [Thread -> MqPC] /\ pc'[t] = to
      /\ \A u \in Thread \ {t} : pc'[u] = pc[u]
  BY DEF LocalsOK, Goto
<1>2. \A u \in Thread : node'[u] # Null <=> pc'[u] \in Holding
  BY <1>1 DEF LocalsOK
<1> QED BY <1>1, <1>2 DEF LocalsOK

LEMMA MovesTakes ==
    ASSUME NEW f, NEW q, Listed(f, q), LocalsOK, NEW t \in Thread,
           TakesNode(t, "send", "link") \/ TakesNode(t, "urgent", "urgent_link")
    PROVE  /\ LocalsOK' /\ pc[t] = "user" /\ pc'[t] \in {"link", "urgent_link"}
           /\ \A u \in Thread \ {t} : pc'[u] = pc[u] /\ node'[u] = node[u]
<1>1. PICK at \in {"link", "urgent_link"} : TakesNode(t, "send", at) \/ TakesNode(t, "urgent", at)
  OBVIOUS
<1>2. /\ free # Null /\ node' = [node EXCEPT ![t] = free] /\ Goto(t, at)
      /\ alive' = alive /\ limited' = limited /\ got' = got /\ pc[t] = "user"
  BY <1>1 DEF TakesNode, Calls, Running
<1>3. /\ at \in MqPC /\ at \in Holding
  BY <1>1 DEF MqPC, Holding
<1>4. node'[t] = free /\ \A u \in Thread \ {t} : node'[u] = node[u]
  BY <1>2, ListedFacts
<1>5. limited' \subseteq Thread /\ got' \in [Thread -> Message \cup {Nothing}]
  BY <1>2 DEF LocalsOK
<1> QED BY <1>1, <1>2, <1>3, <1>4, <1>5, LocalsMove

LEMMA MovesLinks ==
    ASSUME NEW f, NEW q, Listed(f, q), LocalsOK, NEW t \in Thread,
           Links(t, "link") \/ Links(t, "urgent_link")
    PROVE  /\ LocalsOK' /\ pc[t] \in {"link", "urgent_link"} /\ pc'[t] \in {"released", "user"}
           /\ \A u \in Thread \ {t} : pc'[u] = pc[u] /\ node'[u] = node[u]
<1>1. PICK to : to = IF Wakes THEN "released" ELSE "user"
  OBVIOUS
<1>2. /\ node' = [node EXCEPT ![t] = Null] /\ Goto(t, to) /\ pc[t] \in {"link", "urgent_link"}
      /\ alive' = alive /\ limited' = limited /\ got' = got
  BY <1>1 DEF Links, Running
<1>3. to \in {"released", "user"} /\ to \in MqPC /\ to \notin Holding
  BY <1>1 DEF MqPC, Holding
<1>4. node'[t] = Null /\ \A u \in Thread \ {t} : node'[u] = node[u]
  BY <1>2, ListedFacts
<1>5. limited' \subseteq Thread /\ got' \in [Thread -> Message \cup {Nothing}]
  BY <1>2 DEF LocalsOK
<1> QED BY <1>2, <1>3, <1>4, <1>5, LocalsMove

LEMMA MovesUnlinks ==
    ASSUME NEW f, NEW q, Listed(f, q), LocalsOK, NEW t \in Thread, Unlinks(t)
    PROVE  /\ LocalsOK' /\ pc[t] \in {"user", "woken"} /\ pc'[t] = "put_back" /\ node'[t] = head
           /\ \A u \in Thread \ {t} : pc'[u] = pc[u] /\ node'[u] = node[u]
<1>1. /\ node' = [node EXCEPT ![t] = head] /\ Goto(t, "put_back")
      /\ alive' = alive /\ limited' = limited \ {t} /\ got' = got /\ pc[t] \in {"user", "woken"}
  BY DEF Unlinks, Loops, Calls, Running
<1>2. head # Null
  BY ListedUnlinks, MessageQueueAssumption
<1>3. "put_back" \in MqPC /\ "put_back" \in Holding
  BY DEF MqPC, Holding
<1>4. node'[t] = head /\ \A u \in Thread \ {t} : node'[u] = node[u]
  BY <1>1, ListedFacts
<1>5. limited' \subseteq Thread /\ got' \in [Thread -> Message \cup {Nothing}]
  BY <1>1 DEF LocalsOK
<1> QED BY <1>1, <1>2, <1>3, <1>4, <1>5, LocalsMove

LEMMA MovesPutsBack ==
    ASSUME NEW f, NEW q, Listed(f, q), LocalsOK, NEW t \in Thread, PutsBack(t)
    PROVE  /\ LocalsOK' /\ pc[t] = "put_back" /\ pc'[t] = "user" /\ got'[t] = content[node[t]]
           /\ \A u \in Thread \ {t} : /\ pc'[u] = pc[u] /\ node'[u] = node[u]
                                      /\ got'[u] = got[u]
<1>1. /\ node' = [node EXCEPT ![t] = Null] /\ Goto(t, "user") /\ pc[t] = "put_back"
      /\ alive' = alive /\ limited' = limited
      /\ got' = [got EXCEPT ![t] = content[node[t]]]
  BY DEF PutsBack, Running
<1>2. content[node[t]] \in Message \cup {Nothing}
  <2>1. node[t] \in Node
    BY <1>1, ListedFacts DEF LocalsOK, Holding
  <2> QED BY <2>1 DEF Listed
<1>3. "user" \in MqPC /\ "user" \notin Holding
  BY DEF MqPC, Holding
<1>4. node'[t] = Null /\ \A u \in Thread \ {t} : node'[u] = node[u]
  BY <1>1, ListedFacts
<1>5. /\ limited' \subseteq Thread /\ got' \in [Thread -> Message \cup {Nothing}]
      /\ got'[t] = content[node[t]] /\ \A u \in Thread \ {t} : got'[u] = got[u]
  BY <1>1, <1>2 DEF LocalsOK
<1> QED BY <1>1, <1>3, <1>4, <1>5, LocalsMove

LEMMA MovesControl ==
    ASSUME NEW f, NEW q, Listed(f, q), LocalsOK, NEW t \in Thread, rt_mq_control(t)
    PROVE  /\ LocalsOK' /\ pc[t] = "user" /\ pc'[t] = "released"
           /\ UNCHANGED <<node, content, got>> /\ \A u \in Thread \ {t} : pc'[u] = pc[u]
<1>1. /\ UNCHANGED <<node, content, got>> /\ Goto(t, "released") /\ pc[t] = "user"
      /\ alive' = alive /\ limited' = limited
  BY DEF rt_mq_control, Calls, Running, locals
<1>2. "released" \in MqPC /\ "released" \notin Holding /\ "user" \notin Holding
  BY DEF MqPC, Holding
<1>3. node'[t] = Null /\ \A u \in Thread \ {t} : node'[u] = node[u]
  BY <1>1, <1>2 DEF LocalsOK
<1>4. limited' \subseteq Thread /\ got' \in [Thread -> Message \cup {Nothing}]
  BY <1>1 DEF LocalsOK
<1> QED BY <1>1, <1>2, <1>3, <1>4, LocalsMove

LEMMA StepListInv == ListInv /\ [Next]_vars => ListInv'
<1> SUFFICES ASSUME ListInv, [Next]_vars PROVE ListInv'
  OBVIOUS
<1>1. LocalsOK
  BY DEF ListInv
<1>2. PICK f, q : Listed(f, q)
  BY DEF ListInv
<1>3. ASSUME NEW t \in Thread, Idles(t) PROVE ListInv'
  <2>1. UNCHANGED <<links, content, node>> /\ LocalsOK'
    BY <1>1, <1>3, IdleStep
  <2>2. Listed(f, q)'
    BY <1>2, <2>1 DEF links, Listed
  <2> QED BY <2>1, <2>2 DEF ListInv
<1>4. ASSUME NEW t \in Thread, rt_mq_send(t) \/ rt_mq_urgent(t) PROVE ListInv'
  <2>1. CASE TakesNode(t, "send", "link") \/ TakesNode(t, "urgent", "urgent_link")
    <3>1. Listed(Tail(f), q)'
      BY <1>1, <1>2, <2>1, ListedTakes
    <3>2. LocalsOK'
      BY <1>1, <1>2, <2>1, MovesTakes
    <3> QED BY <3>1, <3>2 DEF ListInv
  <2>2. CASE Links(t, "link") \/ Links(t, "urgent_link")
    <3>1. \E p : Listed(f, p)'
      BY <1>1, <1>2, <2>2, ListedLast, ListedFirst
    <3>2. LocalsOK'
      BY <1>1, <1>2, <2>2, MovesLinks
    <3> QED BY <3>1, <3>2 DEF ListInv
  <2> QED BY <1>4, <2>1, <2>2 DEF rt_mq_send, rt_mq_urgent
<1>5. ASSUME NEW t \in Thread, Unlinks(t) PROVE ListInv'
  BY <1>1, <1>2, <1>5, ListedUnlinks, MovesUnlinks DEF ListInv
<1>6. ASSUME NEW t \in Thread, PutsBack(t) PROVE ListInv'
  BY <1>1, <1>2, <1>6, ListedPutsBack, MovesPutsBack DEF ListInv
<1>7. ASSUME NEW t \in Thread, rt_mq_control(t) PROVE ListInv'
  BY <1>1, <1>2, <1>7, ListedReset, MovesControl DEF ListInv
<1>8. CASE IsrSends
  <2>1. \E g, p : Listed(g, p)'
    BY <1>2, <1>8, ListedIsr
  <2>2. LocalsOK'
    BY <1>1, <1>8 DEF IsrSends, locals, LocalsOK
  <2> QED BY <2>1, <2>2 DEF ListInv
<1>9. ASSUME NEW t \in Thread, rt_mq_recv(t) PROVE ListInv'
  BY <1>3, <1>5, <1>6, <1>9 DEF rt_mq_recv, Idles
<1>10. ASSUME NEW t \in Thread,
              \/ Schedules(t) \/ DetachStarts(t) \/ DetachResumes(t)
              \/ Sleep(t) \/ Slice \/ Timeout(t) \/ UNCHANGED vars
       PROVE  ListInv'
  BY <1>3, <1>10 DEF Idles
<1>11. Idle \in Thread
  BY KernelAssumption
<1> QED BY <1>4, <1>7, <1>8, <1>9, <1>10, <1>11 DEF Next
-----------------------------------------------------------------------------
LEMMA InitListed == Init => ListInv
<1> SUFFICES ASSUME Init PROVE ListInv
  OBVIOUS
<1>1. /\ entry = 0 /\ head = Null /\ tail = Null /\ free = MaxMsgs
      /\ next = [n \in Node |-> IF n = 1 THEN Null ELSE n - 1]
      /\ content = [n \in Node |-> Nothing] /\ alive = TRUE
      /\ node = [t \in Thread |-> Null] /\ limited = {}
      /\ got = [t \in Thread |-> Nothing] /\ pc = [t \in Thread |-> "user"]
  BY DEF Init, ThreadsInit
<1>2. MaxMsgs \in Nat \ {0} /\ Null \notin Node /\ Node = 1 .. MaxMsgs
  BY MessageQueueAssumption DEF Node
<1> DEFINE f == [i \in 1 .. MaxMsgs |-> MaxMsgs + 1 - i]
<1>3. /\ f \in Seq(Node) /\ Len(f) = MaxMsgs
      /\ \A i \in 1 .. MaxMsgs : f[i] = MaxMsgs + 1 - i /\ f[i] \in Node
  <2>1. \A i \in 1 .. MaxMsgs : MaxMsgs + 1 - i \in Node
    BY <1>2
  <2>2. f \in Seq(Node)
    BY <1>2, <2>1, IsASeq
  <2> QED BY <1>2, <2>1, <2>2
<1> HIDE DEF f
<1>4. f # <<>> /\ IsInjective(f)
  BY <1>2, <1>3 DEF IsInjective
<1>5. \A n \in Node : Contains(f, n)
  <2> TAKE n \in Node
  <2>1. MaxMsgs + 1 - n \in 1 .. MaxMsgs /\ f[MaxMsgs + 1 - n] = n
    BY <1>2, <1>3
  <2> QED BY <1>3, <2>1 DEF Contains
<1>6. Chain(next, free, f)
  <2>1. free = f[1]
    BY <1>1, <1>2, <1>3
  <2>2. ASSUME NEW i \in 1 .. Len(f)
        PROVE  next[f[i]] = IF i = Len(f) THEN Null ELSE f[i + 1]
    <3>1. i \in 1 .. MaxMsgs /\ f[i] = MaxMsgs + 1 - i /\ f[i] \in Node
      BY <1>3
    <3>2. next[f[i]] = IF f[i] = 1 THEN Null ELSE f[i] - 1
      BY <1>1, <3>1
    <3>3. i # MaxMsgs => i + 1 \in 1 .. MaxMsgs
      BY <1>2, <3>1
    <3>4. i # MaxMsgs => f[i + 1] = MaxMsgs + 1 - (i + 1)
      BY <1>3, <3>3
    <3>5. f[i] = 1 <=> i = MaxMsgs
      BY <1>2, <3>1
    <3>6. i # MaxMsgs => f[i + 1] = f[i] - 1
      BY <1>2, <3>1, <3>4
    <3> QED BY <1>3, <3>2, <3>5, <3>6
  <2> QED BY <1>3, <1>4, <2>1, <2>2 DEF Chain
<1>7. \A x : ~Contains(<<>>, x)
  BY DEF Contains
<1>8. Chain(next, head, <<>>)
  <2>1. <<>> \in Seq(Node) /\ Len(<<>>) = 0 /\ IsInjective(<<>>)
    BY DEF IsInjective
  <2> QED BY <1>1, <2>1 DEF Chain
<1>9. Placed(f, <<>>, node)
  <2>1. Out(node) = {}
    BY <1>1 DEF Out
  <2>2. IsFiniteSet(Out(node)) /\ Cardinality(Out(node)) = 0
    BY <2>1, FS_EmptySet
  <2>3. node \in [Thread -> Node \cup {Null}] /\ \A t \in Thread : node[t] = Null
    BY <1>1
  <2>4. Len(<<>>) = 0 /\ Len(f) + 0 + 0 = MaxMsgs
    BY <1>2, <1>3
  <2> QED BY <1>2, <1>3, <1>5, <1>7, <2>2, <2>3, <2>4 DEF Placed
<1>10. Listed(f, <<>>)
  <2>1. next \in [Node -> Node \cup {Null}]
    <3>1. \A n \in Node : (IF n = 1 THEN Null ELSE n - 1) \in Node \cup {Null}
      BY <1>2
    <3> QED BY <1>1, <3>1
  <2>2. content \in [Node -> Message \cup {Nothing}]
    BY <1>1
  <2>3. entry = Len(<<>>) /\ tail = IF <<>> = <<>> THEN Null ELSE <<>>[Len(<<>>)]
    BY <1>1
  <2>4. \A i \in 1 .. Len(<<>>) : content[<<>>[i]] \in Message
    OBVIOUS
  <2> QED BY <1>6, <1>8, <1>9, <2>1, <2>2, <2>3, <2>4 DEF Listed
<1>11. LocalsOK
  BY <1>1, <1>2 DEF LocalsOK, MqPC, Holding
<1> QED BY <1>10, <1>11 DEF ListInv

(* What the calls of the threads and the interrupts do to the pool never   *)
(* depends on the kernel, whose state the types of the model include.      *)
LEMMA ListInvConserves == ListInv /\ k \in KernelState => NodesConserved
<1> SUFFICES ASSUME ListInv, k \in KernelState PROVE NodesConserved
  OBVIOUS
<1>1. PICK f, q : Listed(f, q)
  BY DEF ListInv
<1>2. /\ f \in Seq(Node) /\ Len(f) \in 0 .. MaxMsgs
      /\ q \in Seq(Node) /\ Len(q) \in 0 .. MaxMsgs
      /\ Chain(next, free, f) /\ Chain(next, head, q) /\ Placed(f, q, node)
      /\ next \in [Node -> Node \cup {Null}] /\ MaxMsgs \in Nat
      /\ entry = Len(q) /\ tail = IF q = <<>> THEN Null ELSE q[Len(q)]
      /\ content \in [Node -> Message \cup {Nothing}]
  BY <1>1, ListedFacts, MessageQueueAssumption DEF Listed
<1>3. Nodes(free) = f /\ Nodes(head) = q
  BY <1>2, NodesAre
<1>4. {head, tail, free} \subseteq Node \cup {Null}
  <2>1. /\ f # <<>> => f[1] \in Node
        /\ q # <<>> => q[1] \in Node /\ q[Len(q)] \in Node
    BY <1>2
  <2> QED BY <1>2, <2>1 DEF Chain
<1>5. TypeOK
  <2>1. node \in [Thread -> Node \cup {Null}]
    BY <1>2 DEF Placed
  <2>2. /\ pc \in [Thread -> MqPC] /\ alive \in BOOLEAN /\ limited \subseteq Thread
        /\ got \in [Thread -> Message \cup {Nothing}]
    BY DEF ListInv, LocalsOK
  <2> QED BY <1>2, <1>4, <2>1, <2>2 DEF TypeOK
<1>6. TakenOut = Out(node)
  BY DEF TakenOut, Out
<1>7. Len(f) + Len(q) + Cardinality(TakenOut) = MaxMsgs
  BY <1>2, <1>6 DEF Placed
<1>8. ToSet(f) \cup ToSet(q) \cup { node[t] : t \in TakenOut } = Node
  <2>1. \A x : (x \in ToSet(f) <=> Contains(f, x)) /\ (x \in ToSet(q) <=> Contains(q, x))
    BY <1>2, LenProperties DEF ToSet, Contains
  <2>2. \A x : Contains(f, x) \/ Contains(q, x) => x \in Node
    BY <1>2, ContainsInList
  <2>3. \A x : x \in { node[t] : t \in TakenOut } <=> \E t \in Thread : node[t] = x /\ x # Null
    BY DEF TakenOut
  <2>4. \A x \in Node : Contains(f, x) \/ Contains(q, x) \/ \E t \in Thread : node[t] = x
    BY <1>2 DEF Placed
  <2>5. \A t \in Thread : node[t] # Null => node[t] \in Node
    BY <1>2 DEF Placed
  <2>6. \A x \in Node : x # Null
    BY MessageQueueAssumption
  <2> DEFINE A == ToSet(f)
             B == ToSet(q)
             C == { node[t] : t \in TakenOut }
  <2>7. \A x : x \in A \/ x \in B \/ x \in C <=> x \in Node
    BY <2>1, <2>2, <2>3, <2>4, <2>5, <2>6
  <2> HIDE DEF A, B, C
  <2>8. A \cup B \cup C = Node
    BY <2>7
  <2> QED BY <2>8 DEF A, B, C
<1>9. tail = IF q = <<>> THEN Null ELSE Last(q)
  BY <1>2 DEF Last
<1> QED BY <1>2, <1>3, <1>5, <1>7, <1>8, <1>9 DEF NodesConserved
-----------------------------------------------------------------------------
(* The wakeups.  Granted: the receivers that were woken for a message and  *)
(* have not looked for it yet.                                             *)
MqGranted == GrantedOf(k, pc, Object)

Awaited ==
    /\ entry \in Nat /\ IsFiniteSet(MqGranted)
    /\ Waiters # <<>> => entry <= Cardinality(MqGranted)

QueueInv == ListInv /\ ThreadsOK(k, pc) /\ Awaited

(* The effects of a step on the count, on those who wait and on those who  *)
(* were woken: nothing, but that some who wait may be told of an error ... *)
MqKeeps ==
    /\ UNCHANGED entry /\ MqGranted' = MqGranted
    /\ Waiters = <<>> => Waiters' = <<>>

(* ... t has looked for a message, and taken one if there is one ...       *)
Looks(t) ==
    /\ entry' = IF entry = 0 THEN 0 ELSE entry - 1
    /\ Waiters' = Waiters /\ MqGranted' = MqGranted \ {t}

MqEnters(t) == entry = 0 /\ entry' = 0 /\ MqGranted' = MqGranted \ {t}

(* ... a message comes, and one that waits is woken for it ...             *)
Arrives ==
    /\ entry' = entry + 1
    /\ IF Waiters # <<>>
       THEN \E w \in Thread \ MqGranted : MqGranted' = MqGranted \cup {w}
       ELSE Waiters' = <<>> /\ MqGranted' = MqGranted

(* ... or all messages go, and nobody waits.                               *)
Empties == entry' = 0 /\ Waiters' = <<>> /\ MqGranted' \subseteq MqGranted

MqEffect == MqKeeps \/ Arrives \/ Empties \/ \E t \in Thread : Looks(t) \/ MqEnters(t)

LEMMA EffectAwaited == Awaited /\ MqEffect => Awaited'
<1> SUFFICES ASSUME Awaited, MqEffect
             PROVE  /\ entry' \in Nat /\ IsFiniteSet(MqGranted')
                    /\ Waiters' # <<>> => entry' <= Cardinality(MqGranted')
  BY DEF Awaited
<1>1. /\ entry \in Nat /\ IsFiniteSet(MqGranted) /\ Cardinality(MqGranted) \in Nat
      /\ Waiters # <<>> => entry <= Cardinality(MqGranted)
  BY FS_CardinalityType DEF Awaited
<1>2. \A x : /\ IsFiniteSet(MqGranted \cup {x}) /\ IsFiniteSet(MqGranted \ {x})
             /\ x \notin MqGranted => Cardinality(MqGranted \cup {x}) = Cardinality(MqGranted) + 1
             /\ Cardinality(MqGranted \ {x}) \in {Cardinality(MqGranted), Cardinality(MqGranted) - 1}
             /\ Cardinality(MqGranted \ {x}) \in Nat
  BY <1>1, FS_AddElement, FS_RemoveElement, FS_CardinalityType
<1>3. CASE MqKeeps
  BY <1>1, <1>3 DEF MqKeeps
<1>4. CASE Arrives
  <2>1. CASE Waiters # <<>>
    <3>1. PICK w \in Thread \ MqGranted : MqGranted' = MqGranted \cup {w}
      BY <1>4, <2>1 DEF Arrives
    <3>2. IsFiniteSet(MqGranted') /\ Cardinality(MqGranted') = Cardinality(MqGranted) + 1
      BY <1>2, <3>1
    <3> QED BY <1>1, <1>4, <2>1, <3>2 DEF Arrives
  <2>2. CASE Waiters = <<>>
    BY <1>1, <1>4, <2>2 DEF Arrives
  <2> QED BY <2>1, <2>2
<1>5. CASE Empties
  <2>1. IsFiniteSet(MqGranted')
    BY <1>1, <1>5, FS_Subset DEF Empties
  <2> QED BY <1>5, <2>1 DEF Empties
<1>6. ASSUME NEW t \in Thread, Looks(t) \/ MqEnters(t)
      PROVE  /\ entry' \in Nat /\ IsFiniteSet(MqGranted')
             /\ Waiters' # <<>> => entry' <= Cardinality(MqGranted')
  <2>1. MqGranted' = MqGranted \ {t} /\ IsFiniteSet(MqGranted') /\ Cardinality(MqGranted') \in Nat
    BY <1>2, <1>6 DEF Looks, MqEnters
  <2>2. Cardinality(MqGranted') \in {Cardinality(MqGranted), Cardinality(MqGranted) - 1}
    BY <1>2, <2>1
  <2>3. entry' \in Nat /\ (entry' = 0 \/ (entry' = entry - 1 /\ Waiters' = Waiters))
    BY <1>1, <1>6 DEF Looks, MqEnters
  <2> QED BY <1>1, <2>1, <2>2, <2>3
<1> QED BY <1>3, <1>4, <1>5, <1>6 DEF MqEffect
-----------------------------------------------------------------------------
LEMMA QueueState ==
    ASSUME QueueInv
    PROVE  /\ ThreadsOK(k, pc) /\ k \in KernelState /\ Sound(k) /\ Object \in WaitQueue
           /\ pc \in [Thread -> MqPC] /\ Waiters \in Seq(Thread) /\ IsInjective(Waiters)
<1>1. ThreadsOK(k, pc) /\ Sound(k) /\ k \in KernelState /\ Object \in WaitQueue
  BY IpcObjectAssumption DEF QueueInv, ThreadsOK, Sound
<1> QED BY <1>1, QueueOK DEF QueueInv, ListInv, LocalsOK, Waiters

(* Who makes a call runs, is not idle and waits nowhere. *)
LEMMA CallerRuns ==
    ASSUME QueueInv, NEW t \in Thread, NEW at, at \notin AtSwitch, Running(t, at),
           at # "user" \/ \E api : Calls(t, api)
    PROVE  /\ k.cur = t /\ pc[t] = at /\ pc[k.cur] \notin AtSwitch
           /\ t \in Thread \ {Idle} /\ ~InList(k, Object, t)
<1>1. k.cur = t /\ pc[t] = at /\ pc[k.cur] \notin AtSwitch
  BY DEF Running
<1>2. ~InList(k, Object, t)
  BY <1>1, QueueState, CallerRunning
<1>3. t # Idle
  BY <1>1, QueueState, ThreadsAssumption DEF Calls, ThreadsOK
<1> QED BY <1>1, <1>2, <1>3

(* t goes on from b, that its call may have made of k. *)
LEMMA MovesFrom ==
    ASSUME NEW b, ThreadsOK(b, pc), NEW t \in Thread \ {Idle}, b.cur = t, pc \in [Thread -> MqPC],
           pc[t] \notin AtSwitch, NEW to, to \notin {"sched", "woken"}, Goto(t, to),
           \/ k' = b
           \/ \E e \in Error : k' = [b EXCEPT !.err[t] = e]
    PROVE  /\ ThreadsOK(k', pc') /\ k'.list = b.list
           /\ GrantedOf(k', pc', Object) = GrantedOf(b, pc, Object) \ {t}
<1>1. Sound(b) /\ b \in KernelState /\ Object \in WaitQueue
  BY IpcObjectAssumption DEF ThreadsOK, Sound
<1>2. pc'[t] = to /\ \A u \in Thread \ {t} : pc'[u] = pc[u]
  BY DEF Goto
<1>3. /\ Sound(k') /\ k'.cur = b.cur /\ k'.stat = b.stat /\ k'.list = b.list
      /\ \A u \in Thread \ {t} : k'.err[u] = b.err[u]
  <2>1. CASE k' = b
    BY <1>1, <2>1
  <2>2. ASSUME NEW e \in Error, k' = [b EXCEPT !.err[t] = e]
        PROVE  /\ Sound(k') /\ k'.cur = b.cur /\ k'.stat = b.stat /\ k'.list = b.list
               /\ \A u \in Thread \ {t} : k'.err[u] = b.err[u]
    BY <1>1, <2>2, SoundError DEF KernelState, SameCurrent
  <2> QED BY <2>1, <2>2
<1>4. GoesOn(k', b, pc', pc)
  BY <1>2, <1>3 DEF GoesOn
<1> QED BY <1>1, <1>2, <1>3, <1>4, QuietMove

LEMMA StepLooks ==
    ASSUME QueueInv, NEW t \in Thread, Unlinks(t) \/ GivesUp(t)
    PROVE  ThreadsOK(k', pc') /\ Looks(t)
<1>1. k.cur = t /\ t \in Thread \ {Idle} /\ pc[t] \notin AtSwitch
  <2>1. Calls(t, "recv") \/ Running(t, "woken")
    BY DEF Unlinks, GivesUp, Loops
  <2> QED BY <2>1, CallerRuns DEF Calls, AtSwitch
<1>2. \/ Goto(t, "put_back") /\ k' = k
      \/ Goto(t, "user") /\ k' = [k EXCEPT !.err[t] = "timeout"]
  BY DEF Unlinks, GivesUp
<1>3. "timeout" \in Error
  BY DEF Error
<1>4. ThreadsOK(k', pc') /\ k'.list = k.list /\ MqGranted' = MqGranted \ {t}
  <2>1. ThreadsOK(k, pc) /\ pc \in [Thread -> MqPC]
    BY QueueState
  <2> QED BY <1>1, <1>2, <1>3, <2>1, MovesFrom DEF MqGranted
<1>5. entry' = IF entry = 0 THEN 0 ELSE entry - 1
  BY DEF Unlinks, GivesUp, links
<1> QED BY <1>4, <1>5 DEF Looks, Waiters

(* The steps that change neither the queue nor who waits. *)
LEMMA StepPasses ==
    ASSUME QueueInv, NEW t \in Thread,
           \/ Fails(t) \/ PutsBack(t) \/ DetachStarts(t)
           \/ TakesNode(t, "send", "link") \/ TakesNode(t, "urgent", "urgent_link")
    PROVE  ThreadsOK(k', pc') /\ MqKeeps
<1>1. /\ k.cur = t /\ t \in Thread \ {Idle} /\ pc[t] \notin AtSwitch
  <2>1. \/ Running(t, "woken") \/ Running(t, "put_back") \/ Calls(t, "detach")
        \/ Calls(t, "send") \/ Calls(t, "urgent")
    BY DEF Fails, PutsBack, DetachStarts, TakesNode
  <2> QED BY <2>1, CallerRuns DEF Calls, AtSwitch
<1>2. /\ k' = k /\ entry' = entry
      /\ \E to : to \notin {"sched", "woken"} /\ Goto(t, to)
  BY DEF Fails, PutsBack, DetachStarts, TakesNode, links
<1>3. ThreadsOK(k', pc') /\ k'.list = k.list /\ MqGranted' = MqGranted \ {t}
  <2>1. ThreadsOK(k, pc) /\ pc \in [Thread -> MqPC]
    BY QueueState
  <2> QED BY <1>1, <1>2, <2>1, MovesFrom DEF MqGranted
<1>4. t \notin MqGranted
  BY DEF Fails, PutsBack, DetachStarts, TakesNode, Calls, Running, Failed, MqGranted, GrantedOf
<1> QED BY <1>2, <1>3, <1>4 DEF MqKeeps, Waiters

LEMMA StepWaits ==
    ASSUME QueueInv, NEW t \in Thread, NEW timed \in BOOLEAN, Waiting(t, timed)
    PROVE  ThreadsOK(k', pc') /\ MqEnters(t)
<1>1. ThreadsOK(k, pc) /\ Object \in WaitQueue /\ pc \in [Thread -> MqPC]
  BY QueueState
<1>2. k.cur = t /\ t # Idle /\ pc[k.cur] \notin AtSwitch
  <2>1. Calls(t, "recv") \/ Running(t, "woken")
    BY DEF Waiting, Loops
  <2> QED BY <2>1, CallerRuns DEF Calls, AtSwitch
<1>3. pc'[t] = "sched" /\ \A u \in Thread \ {t} : pc'[u] = pc[u]
  BY <1>1 DEF Goto, Waiting
<1>4. k' = BlockOf(k, t, Object, Flag, timed)
  BY DEF Waiting, Block, BlockOf
<1>5. /\ ThreadsOK(k', pc')
      /\ \A u \in Thread \ {t} : k'.err[u] = k.err[u]
      /\ \A v : InList(k', Object, v) <=> InList(k, Object, v) \/ v = t
  BY <1>1, <1>2, <1>3, <1>4, CallsBlock
<1>6. MqGranted' = MqGranted \ {t}
  <2>1. \A v \in Thread : v \in GrantedOf(k', pc', Object) <=> v \in GrantedOf(k, pc, Object) /\ v # t
    BY <1>3, <1>5 DEF GrantedOf
  <2> QED BY <2>1 DEF MqGranted, GrantedOf
<1> QED BY <1>5, <1>6 DEF MqEnters, Waiting, links

(* What a message that comes does to those who wait. *)
AfterArrival == IF Wakes THEN rt_ipc_list_resume(k, Object) ELSE k

LEMMA MessageWakes ==
    ASSUME QueueInv
    PROVE  /\ ThreadsOK(AfterArrival, pc) /\ AfterArrival.cur = k.cur
           /\ IF Waiters # <<>>
              THEN \E w \in Thread \ MqGranted : GrantedOf(AfterArrival, pc, Object) = MqGranted \cup {w}
              ELSE AfterArrival = k
<1>1. ThreadsOK(k, pc) /\ Object \in WaitQueue
  BY QueueState
<1>2. CASE Waiters = <<>>
  BY <1>1, <1>2 DEF AfterArrival, Wakes, Waiters
<1>3. CASE Waiters # <<>>
  <2>1. PICK w : w = Head(Waiters)
    OBVIOUS
  <2>2. /\ w \in Thread /\ w \notin MqGranted
        /\ ThreadsOK(rt_thread_resume(k, w), pc) /\ rt_thread_resume(k, w).cur = k.cur
        /\ GrantedOf(rt_thread_resume(k, w), pc, Object) = MqGranted \cup {w}
    BY <1>1, <1>3, <2>1, WakesHead DEF Waiters, MqGranted
  <2>3. AfterArrival = rt_thread_resume(k, w)
    BY <1>3, <2>1 DEF AfterArrival, Wakes, Waiters, rt_ipc_list_resume
  <2> QED BY <1>3, <2>2, <2>3
<1> QED BY <1>2, <1>3

LEMMA StepLinks ==
    ASSUME QueueInv, NEW t \in Thread, Links(t, "link") \/ Links(t, "urgent_link")
    PROVE  ThreadsOK(k', pc') /\ Arrives
<1>1. k.cur = t /\ t \in Thread \ {Idle} /\ pc[t] \in {"link", "urgent_link"}
  <2>1. Running(t, "link") \/ Running(t, "urgent_link")
    BY DEF Links
  <2> QED BY <2>1, CallerRuns DEF AtSwitch
<1>2. k' = AfterArrival /\ \E to \in {"released", "user"} : Goto(t, to)
  BY DEF Links, AfterArrival
<1>3. /\ ThreadsOK(AfterArrival, pc) /\ AfterArrival.cur = t
      /\ IF Waiters # <<>>
         THEN \E w \in Thread \ MqGranted : GrantedOf(AfterArrival, pc, Object) = MqGranted \cup {w}
         ELSE AfterArrival = k
  BY <1>1, MessageWakes
<1>4. /\ ThreadsOK(k', pc') /\ k'.list = AfterArrival.list
      /\ GrantedOf(k', pc', Object) = GrantedOf(AfterArrival, pc, Object) \ {t}
  <2>1. pc \in [Thread -> MqPC] /\ pc[t] \notin AtSwitch
    BY <1>1, QueueState DEF AtSwitch
  <2> QED BY <1>1, <1>2, <1>3, <2>1, MovesFrom
<1>5. t \notin GrantedOf(AfterArrival, pc, Object)
  BY <1>1 DEF GrantedOf
<1>6. MqGranted' = GrantedOf(AfterArrival, pc, Object)
  BY <1>4, <1>5 DEF MqGranted
<1>7. entry' = entry + 1
  BY DEF Links, LinkLast, LinkFirst
<1>8. Waiters = <<>> => Waiters' = <<>> /\ MqGranted' = MqGranted
  BY <1>3, <1>4, <1>6 DEF Waiters, MqGranted
<1> QED BY <1>3, <1>4, <1>6, <1>7, <1>8 DEF Arrives

LEMMA StepIsr ==
    ASSUME QueueInv, IsrSends
    PROVE  ThreadsOK(k', pc') /\ Arrives
<1>1. ThreadsOK(k, pc) /\ Object \in WaitQueue
  BY QueueState
<1>2. /\ k' = (IF Wakes THEN rt_schedule(AfterArrival) ELSE AfterArrival)
      /\ pc' = pc /\ entry' = entry + 1
  BY DEF IsrSends, AfterArrival
<1>3. /\ ThreadsOK(AfterArrival, pc)
      /\ IF Waiters # <<>>
         THEN \E w \in Thread \ MqGranted : GrantedOf(AfterArrival, pc, Object) = MqGranted \cup {w}
         ELSE AfterArrival = k
  BY MessageWakes
<1>4. /\ ThreadsOK(k', pc') /\ k'.list[Object] = AfterArrival.list[Object]
      /\ MqGranted' = GrantedOf(AfterArrival, pc, Object)
  <2>1. CASE Wakes
    BY <1>1, <1>2, <1>3, <2>1, QuietSchedule DEF MqGranted
  <2>2. CASE ~Wakes
    BY <1>2, <1>3, <2>2 DEF MqGranted
  <2> QED BY <2>1, <2>2
<1>5. Waiters = <<>> => Waiters' = <<>> /\ MqGranted' = MqGranted
  BY <1>3, <1>4 DEF Waiters, MqGranted
<1> QED BY <1>2, <1>3, <1>4, <1>5 DEF Arrives

LEMMA StepControl ==
    ASSUME QueueInv, NEW t \in Thread, rt_mq_control(t)
    PROVE  ThreadsOK(k', pc') /\ Empties
<1>1. k.cur = t /\ t \in Thread \ {Idle} /\ pc[t] = "user"
  <2>1. Running(t, "user") /\ Calls(t, "reset")
    BY DEF rt_mq_control, Calls
  <2> QED BY <2>1, CallerRuns DEF AtSwitch
<1>2. ThreadsOK(k, pc) /\ Object \in WaitQueue /\ pc \in [Thread -> MqPC]
  BY QueueState
<1>3. PICK r : r = rt_ipc_list_resume_all(k, Object)
  OBVIOUS
<1>4. /\ ThreadsOK(r, pc) /\ r.cur = k.cur /\ r.list[Object] = <<>>
      /\ GrantedOf(r, pc, Object) \subseteq MqGranted
  BY <1>2, <1>3, QuietResumeAll DEF MqGranted
<1>5. k' = r /\ Goto(t, "released") /\ entry' = 0
  BY <1>3 DEF rt_mq_control
<1>6. /\ ThreadsOK(k', pc') /\ k'.list = r.list
      /\ GrantedOf(k', pc', Object) = GrantedOf(r, pc, Object) \ {t}
  <2>1. pc[t] \notin AtSwitch /\ "released" \notin {"sched", "woken"}
    BY <1>1 DEF AtSwitch
  <2> QED BY <1>1, <1>2, <1>4, <1>5, <2>1, MovesFrom
<1> QED BY <1>4, <1>5, <1>6 DEF Empties, Waiters, MqGranted

LEMMA StepDetachResumes ==
    ASSUME QueueInv, NEW t \in Thread, DetachResumes(t)
    PROVE  ThreadsOK(k', pc') /\ MqKeeps
<1>1. ThreadsOK(k, pc) /\ Object \in WaitQueue /\ pc \in [Thread -> MqPC]
  BY QueueState
<1>2. /\ k.cur = t /\ t \in Thread \ {Idle} /\ pc[t] \in {"check", "resume"}
      /\ pc[t] \notin AtSwitch
  <2>1. Running(t, "check") \/ Running(t, "resume")
    BY DEF DetachResumes, ChecksList, ResumesNext
  <2> QED BY <2>1, CallerRuns DEF AtSwitch
<1>3. t \notin MqGranted /\ entry' = entry
  BY <1>2 DEF MqGranted, GrantedOf, DetachResumes, links
<1>4. ASSUME NEW to \in {"resume", "user", "fault"}, Goto(t, to), UNCHANGED k
      PROVE  ThreadsOK(k', pc') /\ MqKeeps
  <2>1. ThreadsOK(k', pc') /\ k'.list = k.list /\ MqGranted' = MqGranted \ {t}
    BY <1>1, <1>2, <1>4, MovesFrom DEF MqGranted
  <2> QED BY <1>3, <2>1 DEF MqKeeps, Waiters
<1>5. ASSUME Waiters # <<>>, k' = ResumeWithError(k, Object), Goto(t, "check")
      PROVE  ThreadsOK(k', pc') /\ MqKeeps
  <2>1. PICK b : b = ResumeWithError(k, Object)
    OBVIOUS
  <2>2. PICK u : u = Head(Waiters)
    OBVIOUS
  <2>3. /\ ThreadsOK(b, pc) /\ b.cur = t
        /\ InList(k, Object, u) /\ GrantedOf(b, pc, Object) = MqGranted \ {u}
    BY <1>1, <1>2, <1>5, <2>1, <2>2, QuietTurn DEF Waiters, MqGranted
  <2>4. ThreadsOK(k', pc') /\ GrantedOf(k', pc', Object) = GrantedOf(b, pc, Object) \ {t}
    BY <1>1, <1>2, <1>5, <2>1, <2>3, MovesFrom
  <2>5. u \notin MqGranted
    BY <2>3 DEF MqGranted, GrantedOf
  <2> QED BY <1>3, <1>5, <2>3, <2>4, <2>5 DEF MqKeeps, MqGranted
<1>6. CASE ChecksList(t, "check", Object, "resume", "user")
  BY <1>4, <1>6 DEF ChecksList
<1>7. CASE ResumesNext(t, "resume", Object, "check")
  BY <1>4, <1>5, <1>7 DEF ResumesNext, Waiters
<1> QED BY <1>6, <1>7 DEF DetachResumes

LEMMA StepTimeout ==
    ASSUME QueueInv, NEW u \in Thread, Timeout(u)
    PROVE  ThreadsOK(k', pc') /\ MqKeeps
<1>1. ThreadsOK(k, pc) /\ Object \in WaitQueue /\ Waiters \in Seq(Thread) /\ IsInjective(Waiters)
  BY QueueState
<1>2. k.tmr[u] /\ k' = rt_thread_timeout(k, u) /\ pc' = pc /\ entry' = entry
  BY DEF Timeout, TimerFires, links
<1>3. /\ ThreadsOK(k', pc')
      /\ Waiters' = RemoveFirst(Waiters, u) /\ MqGranted' = MqGranted \ {u}
  BY <1>1, <1>2, QuietTimeout DEF Waiters, MqGranted
<1>4. u \notin MqGranted
  BY <1>1, <1>2, ThreadOK, IpcObjectAssumption DEF MqGranted, GrantedOf
<1>5. Waiters = <<>> => Waiters' = <<>>
  <2>1. Waiters = <<>> => ~Contains(Waiters, u)
    BY DEF Contains
  <2> QED BY <1>1, <1>3, <2>1, RemoveNothing
<1> QED BY <1>2, <1>3, <1>4, <1>5 DEF MqKeeps

LEMMA StepSleep ==
    ASSUME QueueInv, NEW t \in Thread, Sleep(t)
    PROVE  ThreadsOK(k', pc') /\ MqKeeps
<1>1. ThreadsOK(k, pc) /\ Object \in WaitQueue /\ pc \in [Thread -> MqPC]
  BY QueueState
<1>2. k.cur = t
  BY DEF Sleep, Sleeps, Reschedule, Running, Calls
<1>3. t # Idle
  <2>1. CASE Calls(t, "sleep")
    BY <2>1, ThreadsAssumption DEF Calls
  <2>2. CASE ~Calls(t, "sleep")
    <3>1. pc[t] \in {"sleep", "slept"}
      BY <2>2 DEF Sleep, Sleeps, Reschedule, Running
    <3> QED BY <1>1, <3>1 DEF ThreadsOK
  <2> QED BY <2>1, <2>2
<1>4. SleepsTo(k', pc', k, pc, t)
  BY <1>1, <1>2 DEF SleepsTo, Sleep, Sleeps, Reschedule, Running, Calls, Goto
<1>5. /\ ThreadsOK(k', pc')
      /\ k'.list[Object] = k.list[Object] /\ GrantedOf(k', pc', Object) = GrantedOf(k, pc, Object)
  <2>1. t \in Thread \ {Idle}
    BY <1>3
  <2> QED BY <1>1, <1>4, <2>1, QuietSleep
<1> QED BY <1>5 DEF Sleep, links, MqKeeps, Waiters, MqGranted

(* rt_schedule, on the way out of a call, or at the end of a slice *)
LEMMA MqStepSchedules ==
    ASSUME QueueInv, Slice \/ \E t \in Thread : Schedules(t)
    PROVE  ThreadsOK(k', pc') /\ MqKeeps
<1>1. ThreadsOK(k, pc) /\ Object \in WaitQueue /\ pc \in [Thread -> MqPC]
  BY QueueState
<1>2. /\ k' = rt_schedule(k)
      /\ \A u \in Thread : \/ pc'[u] = pc[u]
                           \/ pc[u] = "sched" /\ pc'[u] = "woken"
                           \/ pc[u] = "sleep" /\ pc'[u] = "slept"
                           \/ pc[u] = "released" /\ pc'[u] = "user"
  <2>1. CASE Slice
    BY <2>1 DEF Slice, SliceExpires
  <2>2. ASSUME NEW t \in Thread, Reschedule(t, "sched", "woken") \/ Reschedule(t, "released", "user")
        PROVE  /\ k' = rt_schedule(k)
               /\ \A u \in Thread : \/ pc'[u] = pc[u]
                                    \/ pc[u] = "sched" /\ pc'[u] = "woken"
                                    \/ pc[u] = "sleep" /\ pc'[u] = "slept"
                                    \/ pc[u] = "released" /\ pc'[u] = "user"
    BY <1>1, <2>2 DEF Reschedule, Running, Goto
  <2> QED BY <2>1, <2>2 DEF Schedules
<1>3. /\ ThreadsOK(k', pc')
      /\ k'.list[Object] = k.list[Object] /\ GrantedOf(k', pc', Object) = GrantedOf(k, pc, Object)
  BY <1>1, <1>2, QuietSchedule
<1>4. entry' = entry
  BY DEF Slice, Schedules, links
<1> QED BY <1>3, <1>4 DEF MqKeeps, Waiters, MqGranted

LEMMA StepWakes ==
    ASSUME QueueInv, [Next]_vars
    PROVE  ThreadsOK(k', pc') /\ MqEffect
<1>1. ASSUME NEW t \in Thread, rt_mq_recv(t) PROVE ThreadsOK(k', pc') /\ MqEffect
  BY <1>1, StepLooks, StepPasses, StepWaits DEF rt_mq_recv, MqEffect
<1>2. ASSUME NEW t \in Thread, rt_mq_send(t) \/ rt_mq_urgent(t)
      PROVE  ThreadsOK(k', pc') /\ MqEffect
  BY <1>2, StepPasses, StepLinks DEF rt_mq_send, rt_mq_urgent, MqEffect
<1>3. ASSUME NEW t \in Thread, DetachStarts(t) \/ DetachResumes(t)
      PROVE  ThreadsOK(k', pc') /\ MqEffect
  BY <1>3, StepPasses, StepDetachResumes DEF MqEffect
<1>4. ASSUME NEW t \in Thread, rt_mq_control(t) PROVE ThreadsOK(k', pc') /\ MqEffect
  BY <1>4, StepControl DEF MqEffect
<1>5. ASSUME NEW t \in Thread, Schedules(t) \/ Sleep(t) \/ Timeout(t)
      PROVE  ThreadsOK(k', pc') /\ MqEffect
  BY <1>5, MqStepSchedules, StepSleep, StepTimeout DEF MqEffect
<1>6. CASE Slice \/ IsrSends
  BY <1>6, MqStepSchedules, StepIsr DEF MqEffect
<1>7. CASE UNCHANGED vars
  <2>1. UNCHANGED <<k, pc, entry>> /\ ThreadsOK(k, pc)
    BY <1>7, QueueState DEF vars, links
  <2> QED BY <2>1 DEF MqEffect, MqKeeps, Waiters, MqGranted
<1> QED BY <1>1, <1>2, <1>3, <1>4, <1>5, <1>6, <1>7 DEF Next

LEMMA InitQueue == Init => QueueInv
<1> SUFFICES ASSUME Init PROVE QueueInv
  OBVIOUS
<1>1. /\ k = KernelStart(InitThread, InitPriority, InitReady) /\ entry = 0
      /\ pc = [t \in Thread |-> "user"]
  BY DEF Init, ThreadsInit
<1>2. Starts(InitThread, InitPriority, InitReady)
  BY ThreadsAssumption DEF Starts
<1>3. ThreadsOK(k, pc) /\ Waiters = <<>>
  BY <1>1, <1>2, CallsStart, IpcObjectAssumption DEF Waiters
<1>4. MqGranted = {}
  BY <1>1 DEF MqGranted, GrantedOf
<1> QED BY <1>1, <1>3, <1>4, InitListed, FS_EmptySet DEF QueueInv, Awaited

LEMMA StepQueueInv == QueueInv /\ [Next]_vars => QueueInv'
<1> SUFFICES ASSUME QueueInv, [Next]_vars PROVE QueueInv'
  OBVIOUS
<1>1. ListInv'
  BY StepListInv DEF QueueInv
<1>2. ThreadsOK(k', pc') /\ MqEffect
  BY StepWakes
<1>3. Awaited'
  BY <1>2, EffectAwaited DEF QueueInv
<1> QED BY <1>1, <1>2, <1>3 DEF QueueInv

(***************************************************************************)
(* The nodes of the pool are in the free list, in the queue or with a      *)
(* call, each once, and head, tail and entry describe the queue, whatever  *)
(* calls of several threads and interrupts do between the two critical     *)
(* sections of a call.                                                     *)
(***************************************************************************)
THEOREM MessageQueueConserves == Spec => []NodesConserved
<1>1. QueueInv => NodesConserved
  BY QueueState, ListInvConserves DEF QueueInv
<1> QED BY <1>1, InitQueue, StepQueueInv, PTL DEF Spec

(***************************************************************************)
(* While receivers wait, a woken one is on its way for every message in    *)
(* the queue: whatever overtakes them, times out, resets or detaches.      *)
(***************************************************************************)
THEOREM MessageQueueNoLostWakeup == Spec => []NoLostWakeup
<1>1. QueueInv => NoLostWakeup
  <2>1. MqGranted = { t \in Thread : Woken(t, Object) }
    BY DEF MqGranted, GrantedOf, Woken, Failed, Waits, InList
  <2> QED BY <2>1 DEF QueueInv, Awaited, NoLostWakeup, Waiters
<1> QED BY <1>1, InitQueue, StepQueueInv, PTL DEF Spec
-----------------------------------------------------------------------------
MessagesOf(q) == [i \in 1 .. Len(q) |-> content[q[i]]]

ContentsOK == \A f, q : Listed(f, q) => Contents = MessagesOf(q)

LEMMA ContentsAre == ContentsOK
<1> SUFFICES ASSUME NEW f, NEW q, Listed(f, q) PROVE Contents = MessagesOf(q)
  BY DEF ContentsOK
<1>1. Chain(next, head, q) /\ Len(q) \in 0 .. MaxMsgs /\ entry = Len(q)
  BY ListedFacts DEF Listed
<1>2. Nodes(head) = q
  BY <1>1, MessageQueueAssumption, NodesAre
<1>3. [i \in 1 .. entry |-> IF i <= Len(q) THEN content[q[i]] ELSE Nothing] = MessagesOf(q)
  BY <1>1 DEF MessagesOf
<1> QED BY <1>2, <1>3 DEF Contents

LEMMA ContentsNext == ContentsOK'
BY ContentsAre, PTL

LEMMA MessagesAre ==
    ASSUME NEW f, NEW q, Listed(f, q)
    PROVE  /\ Contents \in Seq(Message) /\ Len(Contents) = Len(q) /\ Len(q) \in Nat
           /\ \A i \in 1 .. Len(q) : Contents[i] = content[q[i]]
<1>1. Contents = MessagesOf(q)
  BY ContentsAre DEF ContentsOK
<1>2. Len(q) \in Nat /\ \A i \in 1 .. Len(q) : content[q[i]] \in Message
  BY ListedFacts DEF Listed
<1>3. MessagesOf(q) \in Seq(Message)
  BY <1>2, IsASeq DEF MessagesOf
<1> QED BY <1>1, <1>2, <1>3 DEF MessagesOf

LEMMA MessagesNext ==
    ASSUME NEW f, NEW q, Listed(f, q)'
    PROVE  /\ Contents' \in Seq(Message) /\ Len(Contents') = Len(q) /\ Len(q) \in Nat
           /\ \A i \in 1 .. Len(q) : Contents'[i] = content'[q[i]]
<1>1. Contents' = [i \in 1 .. Len(q) |-> content'[q[i]]]
  BY ContentsNext DEF ContentsOK, MessagesOf
<1>2. Len(q) \in Nat
  BY LenProperties DEF Listed, Chain
<1>3. \A i \in 1 .. Len(q) : content'[q[i]] \in Message
  BY DEF Listed
<1>4. [i \in 1 .. Len(q) |-> content'[q[i]]] \in Seq(Message)
  BY <1>2, <1>3, IsASeq
<1> QED BY <1>1, <1>2, <1>4

Received == [t \in Thread |-> IF pc[t] = "put_back" THEN content[node[t]] ELSE got[t]]

(* Only node n is written, and it is with none that reads a message.       *)
LEMMA ReceivedSame ==
    ASSUME NEW t \in Thread, NEW n, content \in [Node -> Message \cup {Nothing}],
           content' \in [Node -> Message \cup {Nothing}],
           \A x \in Node \ {n} : content'[x] = content[x],
           \A u \in Thread : pc[u] = "put_back" => node[u] \in Node \ {n},
           \A u \in Thread \ {t} : pc'[u] = pc[u] /\ node'[u] = node[u],
           pc'[t] # "put_back", pc[t] # "put_back", got' = got
    PROVE  Received' = Received
<1> SUFFICES ASSUME NEW u \in Thread
             PROVE  (IF pc'[u] = "put_back" THEN content'[node'[u]] ELSE got'[u])
                        = (IF pc[u] = "put_back" THEN content[node[u]] ELSE got[u])
  BY DEF Received
<1>1. CASE u = t
  BY <1>1
<1>2. CASE u # t
  BY <1>2
<1> QED BY <1>1, <1>2

LEMMA NodesOut ==
    ASSUME NEW f, NEW q, Listed(f, q), LocalsOK, NEW u \in Thread, pc[u] \in Holding
    PROVE  /\ node[u] \in Node /\ ~Contains(f, node[u]) /\ ~Contains(q, node[u])
           /\ \A t \in Thread \ {u} : node[t] # node[u]
BY DEF Listed, Placed, LocalsOK

LEMMA ReceivedLinks ==
    ASSUME NEW f, NEW q, Listed(f, q), LocalsOK, NEW t \in Thread,
           Links(t, "link") \/ Links(t, "urgent_link")
    PROVE  Received' = Received
<1>1. PICK n : n = node[t]
  OBVIOUS
<1>2. content' = [content EXCEPT ![n] = t] /\ got' = got
  BY <1>1 DEF Links
<1>3. /\ pc[t] \in {"link", "urgent_link"} /\ pc'[t] \in {"released", "user"}
      /\ \A u \in Thread \ {t} : pc'[u] = pc[u] /\ node'[u] = node[u]
  BY MovesLinks
<1>4. \A u \in Thread : pc[u] = "put_back" => node[u] \in Node \ {n}
  <2> SUFFICES ASSUME NEW u \in Thread, pc[u] = "put_back" PROVE node[u] \in Node \ {n}
    OBVIOUS
  <2>1. u # t /\ pc[u] \in Holding
    BY <1>3 DEF Holding
  <2> QED BY <1>1, <2>1, NodesOut
<1>5. /\ content \in [Node -> Message \cup {Nothing}] /\ t \in Message
      /\ content' \in [Node -> Message \cup {Nothing}]
      /\ \A x \in Node \ {n} : content'[x] = content[x]
  <2>1. content \in [Node -> Message \cup {Nothing}] /\ t \in Message
    BY DEF Listed, Message
  <2> QED BY <1>2, <2>1
<1> QED BY <1>2, <1>3, <1>4, <1>5, ReceivedSame

LEMMA AddsLast ==
    ASSUME NEW f, NEW q, Listed(f, q), LocalsOK, NEW t \in Thread, Links(t, "link")
    PROVE  AbstractQueue!Add(t)
<1>1. PICK p : p = Append(q, node[t])
  OBVIOUS
<1>2. Listed(f, p)' /\ Len(q) < MaxMsgs /\ MessageLast(q, p, t)
  BY <1>1, ListedLast
<1>3. PICK a, b : a = Contents /\ b = Contents'
  OBVIOUS
<1>4. /\ a \in Seq(Message) /\ Len(a) = Len(q) /\ Len(q) \in Nat
      /\ \A i \in 1 .. Len(q) : a[i] = content[q[i]]
  BY <1>3, MessagesAre
<1>5. /\ b \in Seq(Message) /\ Len(b) = Len(p)
      /\ \A i \in 1 .. Len(p) : b[i] = content'[p[i]]
  BY <1>2, <1>3, MessagesNext
<1>6. b = Append(a, t)
  <2>1. Len(b) = Len(a) + 1 /\ b[Len(a) + 1] = t /\ \A i \in 1 .. Len(a) : b[i] = a[i]
    BY <1>2, <1>4, <1>5 DEF MessageLast
  <2>2. t \in Message
    BY DEF Message
  <2> QED BY <1>4, <1>5, <2>1, <2>2, AppendIs
<1>7. Received' = Received
  BY ReceivedLinks
<1> QED BY <1>2, <1>3, <1>4, <1>6, <1>7 DEF AbstractQueue!Add, Received

LEMMA AddsFirst ==
    ASSUME NEW f, NEW q, Listed(f, q), LocalsOK, NEW t \in Thread, Links(t, "urgent_link")
    PROVE  AbstractQueue!AddUrgent(t)
<1>1. PICK p : p = <<node[t]>> \o q
  OBVIOUS
<1>2. Listed(f, p)' /\ Len(q) < MaxMsgs /\ MessageFirst(q, p, t)
  BY <1>1, ListedFirst
<1>3. PICK a, b : a = Contents /\ b = Contents'
  OBVIOUS
<1>4. /\ a \in Seq(Message) /\ Len(a) = Len(q) /\ Len(q) \in Nat
      /\ \A i \in 1 .. Len(q) : a[i] = content[q[i]]
  BY <1>3, MessagesAre
<1>5. /\ b \in Seq(Message) /\ Len(b) = Len(p)
      /\ \A i \in 1 .. Len(p) : b[i] = content'[p[i]]
  BY <1>2, <1>3, MessagesNext
<1>6. b = <<t>> \o a
  <2>1. Len(b) = Len(a) + 1 /\ b[1] = t
    BY <1>2, <1>4, <1>5 DEF MessageFirst
  <2>2. ASSUME NEW i \in 1 .. Len(a) PROVE b[i + 1] = a[i]
    <3>1. i \in 1 .. Len(q) /\ i + 1 \in 1 .. Len(p)
      BY <1>2, <1>4 DEF MessageFirst
    <3> QED BY <1>2, <1>4, <1>5, <3>1 DEF MessageFirst
  <2>3. t \in Message
    BY DEF Message
  <2>4. a \in Seq(Message) /\ b \in Seq(Message)
    BY <1>4, <1>5
  <2> QED BY <2>1, <2>2, <2>3, <2>4, FirstIs, Zenon
<1>7. Received' = Received
  BY ReceivedLinks
<1> QED BY <1>2, <1>3, <1>4, <1>6, <1>7 DEF AbstractQueue!AddUrgent, Received

LEMMA AddsIsr ==
    ASSUME NEW f, NEW q, Listed(f, q), LocalsOK, IsrSends
    PROVE  AbstractQueue!Add(Isr)
<1>1. PICK p : p = Append(q, free)
  OBVIOUS
<1>2. Listed(Tail(f), p)' /\ Len(q) < MaxMsgs /\ MessageLast(q, p, Isr)
  BY <1>1, ListedIsr
<1>3. PICK a, b : a = Contents /\ b = Contents'
  OBVIOUS
<1>4. /\ a \in Seq(Message) /\ Len(a) = Len(q) /\ Len(q) \in Nat
      /\ \A i \in 1 .. Len(q) : a[i] = content[q[i]]
  BY <1>3, MessagesAre
<1>5. /\ b \in Seq(Message) /\ Len(b) = Len(p)
      /\ \A i \in 1 .. Len(p) : b[i] = content'[p[i]]
  BY <1>2, <1>3, MessagesNext
<1>6. b = Append(a, Isr)
  <2>1. Len(b) = Len(a) + 1 /\ b[Len(a) + 1] = Isr /\ \A i \in 1 .. Len(a) : b[i] = a[i]
    BY <1>2, <1>4, <1>5 DEF MessageLast
  <2>2. Isr \in Message
    BY DEF Message
  <2> QED BY <1>4, <1>5, <2>1, <2>2, AppendIs
<1>7. Received' = Received
  <2>1. PICK n : n = free
    OBVIOUS
  <2>2. /\ n # Null /\ content' = [content EXCEPT ![n] = Isr]
        /\ UNCHANGED <<pc, node, got>>
    BY <2>1 DEF IsrSends, locals
  <2>3. Contains(f, n)
    BY <2>1, <2>2, ChainTail DEF Listed
  <2>4. ASSUME NEW u \in Thread, pc[u] = "put_back" PROVE node[u] \in Node \ {n}
    <3>1. pc[u] \in Holding
      BY <2>4 DEF Holding
    <3> QED BY <2>3, <3>1, NodesOut
  <2>5. content \in [Node -> Message \cup {Nothing}]
    BY DEF Listed
  <2>6. \A x \in Node \ {n} : content'[x] = content[x]
    BY <2>2, <2>5
  <2>7. ASSUME NEW u \in Thread
        PROVE  (IF pc'[u] = "put_back" THEN content'[node'[u]] ELSE got'[u])
                   = (IF pc[u] = "put_back" THEN content[node[u]] ELSE got[u])
    BY <2>2, <2>4, <2>6
  <2> QED BY <2>7 DEF Received
<1> QED BY <1>2, <1>3, <1>4, <1>6, <1>7 DEF AbstractQueue!Add, Received

LEMMA RemovesFirst ==
    ASSUME NEW f, NEW q, Listed(f, q), LocalsOK, NEW t \in Thread, Unlinks(t)
    PROVE  AbstractQueue!Remove(t)
<1>1. PICK p : p = Tail(q)
  OBVIOUS
<1>2. /\ Listed(f, p)' /\ q # <<>> /\ head = q[1] /\ Len(p) = Len(q) - 1
      /\ \A i \in 1 .. Len(q) - 1 : p[i] = q[i + 1]
  BY <1>1, ListedUnlinks
<1>3. content' = content /\ got' = got
  BY DEF Unlinks
<1>4. PICK a, b : a = Contents /\ b = Contents'
  OBVIOUS
<1>5. /\ a \in Seq(Message) /\ Len(a) = Len(q) /\ Len(q) \in Nat \ {0} /\ a # <<>>
      /\ \A i \in 1 .. Len(q) : a[i] = content[q[i]]
  <2>1. Len(q) # 0
    BY <1>2, ListedFacts
  <2> QED BY <1>4, <2>1, MessagesAre
<1>6. /\ b \in Seq(Message) /\ Len(b) = Len(p)
      /\ \A i \in 1 .. Len(p) : b[i] = content[p[i]]
  BY <1>2, <1>3, <1>4, MessagesNext
<1>7. b = Tail(a)
  <2>1. ASSUME NEW i \in 1 .. Len(b) PROVE b[i] = a[i + 1]
    <3>1. i \in 1 .. Len(p) /\ i \in 1 .. Len(q) - 1 /\ i + 1 \in 1 .. Len(q)
      BY <1>2, <1>5, <1>6
    <3> QED BY <1>2, <1>5, <1>6, <3>1
  <2> QED BY <1>2, <1>5, <1>6, <2>1, TailIs
<1>8. content[head] = Head(a)
  BY <1>2, <1>5
<1>9. /\ pc[t] \in {"user", "woken"} /\ pc'[t] = "put_back" /\ node'[t] = head
      /\ \A u \in Thread \ {t} : pc'[u] = pc[u] /\ node'[u] = node[u]
  BY MovesUnlinks
<1>10. Received' = [Received EXCEPT ![t] = Head(a)]
  BY <1>3, <1>8, <1>9 DEF Received
<1> QED BY <1>4, <1>5, <1>7, <1>10 DEF AbstractQueue!Remove, Received

(* A step that changes neither the sequence of nodes nor what they hold.   *)
LEMMA SameMessages ==
    ASSUME NEW f, NEW q, Listed(f, q), NEW g, Listed(g, q)', content' = content
    PROVE  Contents' = Contents
<1>1. PICK a, b : a = Contents /\ b = Contents'
  OBVIOUS
<1>2. /\ a \in Seq(Message) /\ Len(a) = Len(q) /\ Len(q) \in Nat
      /\ \A i \in 1 .. Len(q) : a[i] = content[q[i]]
  BY <1>1, MessagesAre
<1>3. /\ b \in Seq(Message) /\ Len(b) = Len(q)
      /\ \A i \in 1 .. Len(q) : b[i] = content[q[i]]
  BY <1>1, MessagesNext
<1>4. a = b
  BY <1>2, <1>3, SeqEqual
<1> QED BY <1>1, <1>4

LEMMA StepRefines ==
    ASSUME ListInv, [Next]_vars
    PROVE  [AbstractQueue!Next]_<<Contents, Received>>
<1> DEFINE Maps == AbstractQueue!Next \/ UNCHANGED <<Contents, Received>>
<1>1. LocalsOK
  BY DEF ListInv
<1>2. PICK f, q : Listed(f, q)
  BY DEF ListInv
<1>3. ASSUME NEW t \in Thread, Idles(t) PROVE Maps
  <2>1. /\ UNCHANGED <<links, content, node, got>>
        /\ \A u \in Thread : pc'[u] = pc[u] \/ (pc'[u] \notin Holding /\ pc[u] \notin Holding)
    BY <1>1, <1>3, IdleStep
  <2>2. Listed(f, q)'
    BY <1>2, <2>1 DEF links, Listed
  <2>3. Contents' = Contents
    BY <1>2, <2>1, <2>2, SameMessages
  <2>4. \A u \in Thread : pc'[u] = "put_back" <=> pc[u] = "put_back"
    BY <2>1 DEF Holding
  <2>5. Received' = Received
    BY <2>1, <2>4 DEF Received
  <2> QED BY <2>3, <2>5
<1>4. ASSUME NEW t \in Thread, rt_mq_send(t) \/ rt_mq_urgent(t) PROVE Maps
  <2>1. CASE TakesNode(t, "send", "link") \/ TakesNode(t, "urgent", "urgent_link")
    <3>1. Listed(Tail(f), q)'
      BY <1>1, <1>2, <2>1, ListedTakes
    <3>2. content' = content /\ got' = got
      BY <2>1 DEF TakesNode
    <3>3. Contents' = Contents
      BY <1>2, <3>1, <3>2, SameMessages
    <3>4. /\ pc[t] = "user" /\ pc'[t] \in {"link", "urgent_link"}
          /\ \A u \in Thread \ {t} : pc'[u] = pc[u] /\ node'[u] = node[u]
      BY <1>1, <1>2, <2>1, MovesTakes
    <3>5. Received' = Received
      BY <3>2, <3>4 DEF Received
    <3> QED BY <3>3, <3>5
  <2>2. CASE Links(t, "link")
    <3>1. t \in Message
      BY DEF Message
    <3> QED BY <1>1, <1>2, <2>2, <3>1, AddsLast DEF AbstractQueue!Next
  <2>3. CASE Links(t, "urgent_link")
    <3>1. t \in Message
      BY DEF Message
    <3> QED BY <1>1, <1>2, <2>3, <3>1, AddsFirst DEF AbstractQueue!Next
  <2> QED BY <1>4, <2>1, <2>2, <2>3 DEF rt_mq_send, rt_mq_urgent
<1>5. ASSUME NEW t \in Thread, Unlinks(t) PROVE Maps
  BY <1>1, <1>2, <1>5, RemovesFirst DEF AbstractQueue!Next
<1>6. ASSUME NEW t \in Thread, PutsBack(t) PROVE Maps
  <2>1. \E g : Listed(g, q)'
    BY <1>1, <1>2, <1>6, ListedPutsBack
  <2>2. content' = content
    BY <1>6 DEF PutsBack
  <2>3. Contents' = Contents
    BY <1>2, <2>1, <2>2, SameMessages
  <2>4. /\ pc[t] = "put_back" /\ pc'[t] = "user" /\ got'[t] = content[node[t]]
        /\ \A u \in Thread \ {t} : /\ pc'[u] = pc[u] /\ node'[u] = node[u]
                                   /\ got'[u] = got[u]
    BY <1>1, <1>2, <1>6, MovesPutsBack
  <2>5. Received' = Received
    BY <2>2, <2>4 DEF Received
  <2> QED BY <2>3, <2>5
<1>7. ASSUME NEW t \in Thread, rt_mq_control(t) PROVE Maps
  <2>1. PICK g : Listed(g, <<>>)'
    BY <1>2, <1>7, ListedReset
  <2>2. Contents' = <<>>
    <3>1. Contents' \in Seq(Message) /\ Len(Contents') = Len(<<>>)
      BY <2>1, MessagesNext
    <3> QED BY <3>1, EmptySeq
  <2>3. /\ pc[t] = "user" /\ pc'[t] = "released" /\ UNCHANGED <<node, content, got>>
        /\ \A u \in Thread \ {t} : pc'[u] = pc[u]
    BY <1>1, <1>2, <1>7, MovesControl
  <2>4. Received' = Received
    BY <2>3 DEF Received
  <2>5. AbstractQueue!Reset
    BY <2>2, <2>4 DEF AbstractQueue!Reset, Received
  <2> QED BY <2>5 DEF AbstractQueue!Next
<1>8. ASSUME IsrSends PROVE Maps
  <2>1. Isr \in Message
    BY DEF Message
  <2> QED BY <1>1, <1>2, <1>8, <2>1, AddsIsr DEF AbstractQueue!Next
<1>9. ASSUME NEW t \in Thread, rt_mq_recv(t) PROVE Maps
  BY <1>3, <1>5, <1>6, <1>9 DEF rt_mq_recv, Idles
<1>10. ASSUME NEW t \in Thread,
              \/ Schedules(t) \/ DetachStarts(t) \/ DetachResumes(t)
              \/ Sleep(t) \/ Slice \/ Timeout(t) \/ UNCHANGED vars
       PROVE  Maps
  BY <1>3, <1>10 DEF Idles
<1>11. Idle \in Thread
  BY KernelAssumption
<1>12. Maps
  <2> HIDE DEF Maps
  <2> QED BY <1>4, <1>7, <1>8, <1>9, <1>10, <1>11 DEF Next
<1> QED BY <1>12

(***************************************************************************)
(* The linked nodes implement the bounded queue of BoundedQueue: a message *)
(* is received once, whole, in order, urgent ones first, though calls of   *)
(* other threads and interrupts come between the two critical sections of  *)
(* a send and of a receive.                                                *)
(***************************************************************************)
THEOREM MessageQueueRefines == Spec => ImplementsQueue
<1>1. Init => AbstractQueue!Init
  <2> SUFFICES ASSUME Init PROVE AbstractQueue!Init
    OBVIOUS
  <2>1. entry = 0 /\ got = [t \in Thread |-> Nothing] /\ \A t \in Thread : pc[t] = "user"
    BY DEF Init, ThreadsInit
  <2>2. PICK f, q : Listed(f, q)
    BY InitListed DEF ListInv
  <2>3. Contents = <<>>
    <3>1. Contents \in Seq(Message) /\ Len(Contents) = 0
      BY <2>1, <2>2, MessagesAre DEF Listed
    <3> QED BY <3>1, EmptySeq
  <2> QED BY <2>1, <2>3 DEF AbstractQueue!Init
<1>2. ListInv /\ [Next]_vars => [AbstractQueue!Next]_<<Contents, Received>>
  BY StepRefines
<1> QED BY <1>1, <1>2, InitListed, StepListInv, PTL
        DEF Spec, ImplementsQueue, AbstractQueue!Spec, Received

-----------------------------------------------------------------------------
(***************************************************************************)
(* The memory pool, for any blocks: first the blocks, whatever the         *)
(* scheduler does, since who has a block depends on the pool alone; then,  *)
(* with what KernelProofs says of the threads in their calls, that no      *)
(* wakeup is lost.                                                         *)
(***************************************************************************)

Has(b) == \E t \in Thread : block[t] = b

Free(b) == Contains(block_list, b)

\* every block is in one of three places, and with one thread
PoolInv ==
    /\ block_list \in Seq(Blocks) /\ IsInjective(block_list)
    /\ block_free_count = Len(block_list)
    /\ block \in [Thread -> Blocks \cup {NoBlock}] /\ device \subseteq Blocks
    /\ \A t, u \in Thread : block[t] = block[u] /\ block[t] # NoBlock => t = u
    /\ \A b \in Blocks : /\ Free(b) \/ Has(b) \/ b \in device
                         /\ ~(Free(b) /\ Has(b))
                         /\ ~(Free(b) /\ b \in device)
                         /\ ~(Has(b) /\ b \in device)

LEMMA PoolInvConserves == PoolInv => BlocksConserved
<1> SUFFICES ASSUME PoolInv, NEW b \in Blocks
             PROVE  Cardinality({ t \in Thread : block[t] = b })
                        + (IF b \in device THEN 1 ELSE 0)
                        + (IF Contains(block_list, b) THEN 1 ELSE 0) = 1
  BY DEF PoolInv, BlocksConserved
<1> DEFINE holders == { t \in Thread : block[t] = b }
<1>1. b # NoBlock
  BY MemPoolAssumption
<1>2. CASE Has(b)
  <2>1. PICK t \in Thread : block[t] = b
    BY <1>2 DEF Has
  <2>2. holders = {t}
    BY <1>1, <2>1 DEF PoolInv
  <2>3. Cardinality(holders) = 1
    BY <2>2, FS_Singleton
  <2>4. b \notin device /\ ~Contains(block_list, b)
    BY <1>2 DEF PoolInv, Free
  <2> QED
    BY <2>3, <2>4
<1>3. CASE ~Has(b)
  <2>1. holders = {}
    BY <1>3 DEF Has
  <2>2. Cardinality(holders) = 0
    BY <2>1, FS_EmptySet
  <2>3. b \in device <=> ~Contains(block_list, b)
    BY <1>3 DEF PoolInv, Free
  <2> QED
    BY <2>2, <2>3
<1> QED
  BY <1>2, <1>3

LEMMA PoolTakes == ASSUME PoolInv, NEW t \in Thread, block[t] = NoBlock, Allocates(t)
                   PROVE  PoolInv'
<1> DEFINE b == Head(block_list)
<1>1. /\ block_list \in Seq(Blocks) /\ IsInjective(block_list)
      /\ block_free_count = Len(block_list) /\ block_free_count > 0
      /\ block_list' = Tail(block_list) /\ block_free_count' = block_free_count - 1
      /\ block' = [block EXCEPT ![t] = b] /\ device' = device
  BY DEF PoolInv, Allocates
<1>2. block_list # <<>>
  BY <1>1
<1>3. /\ block_list' \in Seq(Blocks) /\ Len(block_list') = Len(block_list) - 1
      /\ IsInjective(block_list') /\ b \in Blocks /\ Free(b)
      /\ \A x : Contains(block_list', x) <=> Contains(block_list, x) /\ x # b
  BY <1>1, <1>2, TailOfList DEF Free
<1> HIDE DEF b
<1>4. /\ block' \in [Thread -> Blocks \cup {NoBlock}]
      /\ \A u \in Thread : block'[u] = IF u = t THEN b ELSE block[u]
  BY <1>1, <1>3 DEF PoolInv
<1>5. \A u \in Thread : block[u] # b
  BY <1>3 DEF PoolInv, Has
<1>6. \A x \in Blocks : /\ Free(x)' <=> Free(x) /\ x # b
                        /\ Has(x)' <=> Has(x) \/ x = b
  <2> TAKE x \in Blocks
  <2>1. x # NoBlock
    BY MemPoolAssumption
  <2>2. Has(x)' <=> Has(x) \/ x = b
    BY <1>4, <2>1 DEF Has
  <2> QED
    BY <1>3, <2>2 DEF Free
<1>7. b # NoBlock /\ b \notin device
  BY <1>3, MemPoolAssumption DEF PoolInv
<1>8. \A u, w \in Thread : block'[u] = block'[w] /\ block'[u] # NoBlock => u = w
  BY <1>4, <1>5 DEF PoolInv
<1>9. block_free_count' = Len(block_list')
  BY <1>1, <1>3
<1> QED
  BY <1>1, <1>3, <1>4, <1>6, <1>7, <1>8, <1>9 DEF PoolInv

\* b comes back to the list from a thread or from the device
LEMMA PoolGetsBack ==
    ASSUME PoolInv, NEW b \in Blocks, Frees(b),
           \/ /\ device' = device
              /\ \E t \in Thread : block[t] = b /\ block' = [block EXCEPT ![t] = NoBlock]
           \/ /\ b \in device /\ device' = device \ {b}
              /\ block' = block
    PROVE  PoolInv'
<1>1. /\ block_list \in Seq(Blocks) /\ IsInjective(block_list)
      /\ block_free_count = Len(block_list) /\ Len(block_list) \in Nat
      /\ block_list' = <<b>> \o block_list /\ block_free_count' = block_free_count + 1
      /\ b # NoBlock
  BY MemPoolAssumption, LenProperties DEF PoolInv, Frees
<1>2. ~Free(b)
  BY DEF PoolInv, Has
<1>3. /\ block_list' \in Seq(Blocks) /\ Len(block_list') = Len(block_list) + 1
      /\ IsInjective(block_list')
      /\ \A x : Contains(block_list', x) <=> Contains(block_list, x) \/ x = b
  BY <1>1, <1>2, FirstOfList DEF Free
<1>4. \A x \in Blocks : Free(x)' <=> Free(x) \/ x = b
  BY <1>3 DEF Free
<1>5. block_free_count' = Len(block_list')
  BY <1>1, <1>3
<1>6. CASE b \in device /\ device' = device \ {b} /\ block' = block
  <2>1. \A x \in Blocks : Has(x)' <=> Has(x)
    BY <1>6 DEF Has
  <2> QED
    BY <1>3, <1>4, <1>5, <1>6, <2>1 DEF PoolInv
<1>7. ASSUME NEW t \in Thread, block[t] = b, block' = [block EXCEPT ![t] = NoBlock],
             device' = device
      PROVE  PoolInv'
  <2>1. /\ block' \in [Thread -> Blocks \cup {NoBlock}]
        /\ \A u \in Thread : block'[u] = IF u = t THEN NoBlock ELSE block[u]
    BY <1>7 DEF PoolInv
  <2>2. \A u \in Thread : u # t => block[u] # b
    BY <1>1, <1>7 DEF PoolInv
  <2>3. \A x \in Blocks : Has(x)' <=> Has(x) /\ x # b
    <3> TAKE x \in Blocks
    <3>1. x # NoBlock
      BY MemPoolAssumption
    <3> QED
      BY <1>7, <2>1, <2>2, <3>1 DEF Has
  <2>4. b \notin device
    BY <1>7 DEF PoolInv, Has
  <2>5. \A u, w \in Thread : block'[u] = block'[w] /\ block'[u] # NoBlock => u = w
    BY <2>1 DEF PoolInv
  <2> QED
    BY <1>3, <1>4, <1>5, <1>7, <2>1, <2>3, <2>4, <2>5 DEF PoolInv
<1> QED
  BY <1>6, <1>7

LEMMA PoolLends ==
    ASSUME PoolInv, NEW t \in Thread, HandsOver(t)
    PROVE  PoolInv'
<1>1. /\ block[t] \in Blocks /\ block[t] # NoBlock
      /\ device' = device \cup {block[t]}
      /\ block' = [block EXCEPT ![t] = NoBlock]
      /\ UNCHANGED <<block_list, block_free_count>>
  BY DEF PoolInv, HandsOver, pool
<1>2. /\ block' \in [Thread -> Blocks \cup {NoBlock}] /\ device' \subseteq Blocks
      /\ \A u \in Thread : block'[u] = IF u = t THEN NoBlock ELSE block[u]
  BY <1>1 DEF PoolInv
<1>3. \A x \in Blocks : /\ Has(x)' <=> Has(x) /\ x # block[t]
                        /\ Free(x)' <=> Free(x)
  <2> TAKE x \in Blocks
  <2>1. x # NoBlock
    BY MemPoolAssumption
  <2>2. Has(x)' <=> Has(x) /\ x # block[t]
    BY <1>1, <1>2, <2>1 DEF Has, PoolInv
  <2> QED
    BY <1>1, <2>2 DEF Free
<1>4. Has(block[t]) /\ ~Free(block[t])
  BY <1>1 DEF Has, PoolInv
<1>5. \A u, w \in Thread : block'[u] = block'[w] /\ block'[u] # NoBlock => u = w
  BY <1>2 DEF PoolInv
<1> QED
  BY <1>1, <1>2, <1>3, <1>4, <1>5 DEF PoolInv

\* The thread that loops in rt_mp_alloc has no block yet.
WaitsEmpty ==
    /\ pc \in [Thread -> MpPC]
    /\ \A t \in Thread : pc[t] \in {"sched", "woken"} => block[t] = NoBlock

LEMMA StepWaitsEmpty == PoolInv /\ WaitsEmpty /\ [MpNext]_mpVars => WaitsEmpty'
<1> SUFFICES ASSUME PoolInv, WaitsEmpty, [MpNext]_mpVars PROVE WaitsEmpty'
  OBVIOUS
<1>1. ASSUME NEW t \in Thread, NEW at \in MpPC, Goto(t, at),
             \A u \in Thread : u # t => block'[u] = block[u],
             at \in {"sched", "woken"} => block'[t] = NoBlock
      PROVE  WaitsEmpty'
  BY <1>1 DEF WaitsEmpty, Goto
<1>2. ASSUME UNCHANGED pc, \A t \in Thread : block'[t] \in {block[t], NoBlock}
      PROVE  WaitsEmpty'
  BY <1>2 DEF WaitsEmpty
<1>3. /\ block \in [Thread -> Blocks \cup {NoBlock}]
      /\ {"user", "sleep", "slept", "sched", "woken", "released", "check", "resume", "fault"} = MpPC
  BY DEF PoolInv, MpPC
<1>4. \A t \in Thread : MpLoops(t) => block[t] = NoBlock
  BY DEF MpLoops, Running, WaitsEmpty
<1>5. ASSUME NEW t \in Thread, rt_mp_alloc(t) PROVE WaitsEmpty'
  <2>1. CASE Allocates(t)
    BY <1>1, <1>3, <2>1 DEF Allocates
  <2>2. ASSUME NEW timed, MpWaiting(t, timed) PROVE WaitsEmpty'
    BY <1>1, <1>3, <1>4, <2>2 DEF MpWaiting, owners
  <2>3. CASE MpGivesUp(t)
    BY <1>1, <1>3, <2>3 DEF MpGivesUp, owners
  <2>4. CASE MpFails(t)
    BY <1>1, <1>3, <2>4 DEF MpFails, owners
  <2> QED
    BY <1>5, <2>1, <2>2, <2>3, <2>4 DEF rt_mp_alloc
<1>6. ASSUME NEW t \in Thread, rt_mp_free(t) PROVE WaitsEmpty'
  <2>1. \E at \in {"released", "user"} : Goto(t, at)
    BY <1>6 DEF rt_mp_free
  <2> QED
    BY <1>1, <1>3, <1>6, <2>1 DEF rt_mp_free
<1>7. ASSUME NEW t \in Thread, HandsOver(t) PROVE WaitsEmpty'
  BY <1>2, <1>3, <1>7 DEF HandsOver
<1>8. ASSUME NEW t \in Thread, MpSchedules(t) PROVE WaitsEmpty'
  <2>1. CASE Reschedule(t, "sched", "woken")
    <3>1. block[t] = NoBlock
      BY <2>1 DEF Reschedule, Running, WaitsEmpty
    <3> QED
      BY <1>1, <1>3, <1>8, <2>1, <3>1 DEF MpSchedules, Reschedule, owners
  <2>2. CASE Reschedule(t, "released", "user")
    BY <1>1, <1>3, <1>8, <2>2 DEF MpSchedules, Reschedule, owners
  <2> QED
    BY <1>8, <2>1, <2>2 DEF MpSchedules
<1>9. ASSUME NEW t \in Thread, MpDetachStarts(t) PROVE WaitsEmpty'
  BY <1>1, <1>3, <1>9 DEF MpDetachStarts, owners
<1>10. ASSUME NEW t \in Thread, MpDetachResumes(t) PROVE WaitsEmpty'
  <2>1. \E at \in {"resume", "user", "check", "fault"} : Goto(t, at)
    BY <1>10 DEF MpDetachResumes, ChecksList, ResumesNext
  <2>2. UNCHANGED block
    BY <1>10 DEF MpDetachResumes, owners
  <2> QED
    BY <1>1, <1>3, <2>1, <2>2
<1>11. ASSUME NEW b \in Blocks, IsrFrees(b) PROVE WaitsEmpty'
  BY <1>2, <1>11 DEF IsrFrees
<1>12. ASSUME NEW t \in Thread, MpSleep(t) PROVE WaitsEmpty'
  <2>1. \E at \in {"sleep", "slept", "user"} : Goto(t, at)
    BY <1>12 DEF MpSleep, Sleeps, Reschedule
  <2>2. UNCHANGED block
    BY <1>12 DEF MpSleep, owners
  <2> QED
    BY <1>1, <1>3, <2>1, <2>2
<1>13. CASE MpSlice
  BY <1>2, <1>13 DEF MpSlice, SliceExpires, owners
<1>14. ASSUME NEW u \in Thread, MpTimeout(u) PROVE WaitsEmpty'
  BY <1>2, <1>14 DEF MpTimeout, TimerFires, owners
<1>15. CASE UNCHANGED mpVars
  BY <1>2, <1>15 DEF mpVars, owners
<1> QED
  BY <1>5, <1>6, <1>7, <1>8, <1>9, <1>10, <1>11, <1>12, <1>13, <1>14, <1>15 DEF MpNext

LEMMA StepPool == PoolInv /\ WaitsEmpty /\ [MpNext]_mpVars => PoolInv'
<1> SUFFICES ASSUME PoolInv, WaitsEmpty, [MpNext]_mpVars PROVE PoolInv'
  OBVIOUS
<1>1. ASSUME UNCHANGED <<block_list, block_free_count, owners>> PROVE PoolInv'
  BY <1>1 DEF PoolInv, owners, Has, Free
<1>2. ASSUME NEW t \in Thread, rt_mp_alloc(t) PROVE PoolInv'
  <2>1. CASE Allocates(t)
    <3>1. block[t] = NoBlock
      BY <2>1 DEF Allocates, MpLoops, Running, WaitsEmpty
    <3> QED
      BY <2>1, <3>1, PoolTakes
  <2>2. CASE ~Allocates(t)
    BY <1>1, <1>2, <2>2 DEF rt_mp_alloc, MpWaiting, MpGivesUp, MpFails, pool
  <2> QED
    BY <2>1, <2>2
<1>3. ASSUME NEW t \in Thread, rt_mp_free(t) PROVE PoolInv'
  <2>1. block[t] \in Blocks
    BY <1>3 DEF rt_mp_free, PoolInv
  <2> QED
    BY <1>3, <2>1, PoolGetsBack DEF rt_mp_free
<1>4. ASSUME NEW b \in Blocks, IsrFrees(b) PROVE PoolInv'
  BY <1>4, PoolGetsBack DEF IsrFrees
<1>5. ASSUME NEW t \in Thread,
             MpSchedules(t) \/ MpDetachStarts(t) \/ MpDetachResumes(t) \/ MpSleep(t) \/ MpTimeout(t)
      PROVE  PoolInv'
  BY <1>1, <1>5 DEF MpSchedules, MpDetachStarts, MpDetachResumes, MpSleep, MpTimeout, pool
<1>6. CASE MpSlice \/ UNCHANGED mpVars
  BY <1>1, <1>6 DEF MpSlice, mpVars, pool
<1> QED
  BY <1>2, <1>3, <1>4, <1>5, <1>6, PoolLends DEF MpNext

LEMMA InitPool == MpInit => PoolInv /\ WaitsEmpty
<1> SUFFICES ASSUME MpInit PROVE PoolInv /\ WaitsEmpty
  OBVIOUS
<1>1. /\ block_list = InitBlocks /\ block_free_count = Len(InitBlocks)
      /\ block = [t \in Thread |-> NoBlock] /\ device = {}
      /\ pc = [t \in Thread |-> "user"]
  BY DEF MpInit, ThreadsInit
<1>2. InitBlocks \in Seq(Blocks) /\ IsInjective(InitBlocks) /\ NoBlock \notin Blocks
  BY MemPoolAssumption
<1>3. \A b \in Blocks : Contains(InitBlocks, b)
  <2>1. \A b \in Blocks : b \in ToSet(InitBlocks)
    BY MemPoolAssumption
  <2>2. DOMAIN InitBlocks = 1 .. Len(InitBlocks)
    BY <1>2, LenProperties
  <2> QED
    BY <2>1, <2>2 DEF ToSet, Contains
<1>4. \A b \in Blocks : Free(b) /\ ~Has(b)
  BY <1>1, <1>2, <1>3 DEF Free, Has
<1> QED
  BY <1>1, <1>2, <1>4 DEF PoolInv, WaitsEmpty, MpPC

(***************************************************************************)
(* Every block is free, with one thread or with the device, at any time:   *)
(* rt_mp_alloc tests for a block again each time it is woken.              *)
(***************************************************************************)
THEOREM MemPoolConserves == MpSpec => []BlocksConserved
<1>1. MpInit => PoolInv /\ WaitsEmpty
  BY InitPool
<1>2. (PoolInv /\ WaitsEmpty) /\ [MpNext]_mpVars => (PoolInv /\ WaitsEmpty)'
  BY StepPool, StepWaitsEmpty
<1> QED
  BY <1>1, <1>2, PoolInvConserves, PTL DEF MpSpec
-----------------------------------------------------------------------------
(* The wakeups.  Granted: those that were woken for a block and have not   *)
(* tested for it yet.                                                      *)
MpGranted == GrantedOf(k, pc, Mp)

(* A detach takes the pool out of use before its loop. *)
DetachIsLast == \A t \in Thread : pc[t] \in {"check", "resume"} => ~attached

(* suspend_thread_count counts at least those that wait, also when there   *)
(* are none: a free that finds it at zero leaves nobody asleep.            *)
MpCounted ==
    attached => /\ suspend_thread_count \in Nat
                /\ suspend_thread_count >= Len(MpWaiters)
                /\ IsFiniteSet(MpGranted)
                /\ MpWaiters # <<>> => block_free_count <= Cardinality(MpGranted)

WakeInv == PoolInv /\ WaitsEmpty /\ ThreadsOK(k, pc) /\ DetachIsLast /\ MpCounted

(* The effects of a step on the counts, on those who wait and on those who *)
(* were woken.                                                             *)
counts == <<block_free_count, suspend_thread_count>>

MpKeeps == UNCHANGED <<counts, MpWaiters, MpGranted>>

(* t has looked for a block, and taken one if there is one. *)
MpLooks(t) ==
    /\ MpWaiters' = MpWaiters /\ MpGranted' = MpGranted \ {t} /\ UNCHANGED suspend_thread_count
    /\ IF block_free_count = 0 THEN block_free_count' = 0
                               ELSE block_free_count' = block_free_count - 1

MpEnters(t) ==
    /\ block_free_count = 0 /\ block_free_count' = 0
    /\ suspend_thread_count' = suspend_thread_count + 1
    /\ MpWaiters' # <<>> /\ Len(MpWaiters') = Len(MpWaiters) + 1
    /\ MpGranted' = MpGranted \ {t}

(* One that waited, or nobody, was told of an error. *)
MpLeaves ==
    /\ MpGranted' = MpGranted /\ Len(MpWaiters') <= Len(MpWaiters)
    /\ MpWaiters = <<>> => MpWaiters' = <<>>
    /\ UNCHANGED counts

(* A block comes back, and one that waits is woken for it. *)
MpReturns ==
    /\ block_free_count' = block_free_count + 1
    /\ suspend_thread_count' = IF Woke THEN suspend_thread_count - 1
                                       ELSE suspend_thread_count
    /\ IF Woke /\ MpWaiters # <<>>
       THEN /\ Len(MpWaiters') = Len(MpWaiters) - 1
            /\ \E w \in Thread \ MpGranted : MpGranted' = MpGranted \cup {w}
       ELSE MpWaiters' = MpWaiters /\ MpGranted' = MpGranted

MpEffect == MpKeeps \/ MpLeaves \/ MpReturns \/ \E t \in Thread : MpLooks(t) \/ MpEnters(t)

LEMMA EffectCounted == WakeInv /\ (attached' => attached /\ MpEffect) => MpCounted'
<1> SUFFICES ASSUME WakeInv, attached', attached, MpEffect
             PROVE  /\ suspend_thread_count' \in Nat
                    /\ suspend_thread_count' >= Len(MpWaiters')
                    /\ IsFiniteSet(MpGranted')
                    /\ MpWaiters' # <<>> => block_free_count' <= Cardinality(MpGranted')
  BY DEF MpCounted
<1>1. /\ suspend_thread_count \in Nat /\ suspend_thread_count >= Len(MpWaiters)
      /\ IsFiniteSet(MpGranted) /\ Cardinality(MpGranted) \in Nat
      /\ MpWaiters # <<>> => block_free_count <= Cardinality(MpGranted)
  BY FS_CardinalityType DEF WakeInv, MpCounted
<1>2. block_free_count \in Nat
  BY LenProperties DEF WakeInv, PoolInv
<1>3. MpWaiters \in Seq(Thread) /\ Len(MpWaiters) \in Nat /\ (MpWaiters = <<>> <=> Len(MpWaiters) = 0)
  BY MemPoolAssumption, QueueOK, LenProperties, EmptySeq DEF WakeInv, ThreadsOK, MpWaiters
<1>4. \A x : /\ IsFiniteSet(MpGranted \cup {x}) /\ IsFiniteSet(MpGranted \ {x})
             /\ x \notin MpGranted => Cardinality(MpGranted \cup {x}) = Cardinality(MpGranted) + 1
             /\ Cardinality(MpGranted \ {x}) \in {Cardinality(MpGranted), Cardinality(MpGranted) - 1}
  BY <1>1, FS_AddElement, FS_RemoveElement
<1>5. CASE MpKeeps \/ MpLeaves
  <2>1. /\ Len(MpWaiters') <= Len(MpWaiters) /\ MpGranted' = MpGranted
        /\ block_free_count' = block_free_count
        /\ suspend_thread_count' = suspend_thread_count
        /\ MpWaiters = <<>> => MpWaiters' = <<>>
    BY <1>3, <1>5 DEF MpKeeps, MpLeaves, counts
  <2>2. Len(MpWaiters') \in Int
    BY <1>3, <1>5 DEF MpKeeps, MpLeaves
  <2> QED BY <1>1, <1>3, <2>1, <2>2
<1>6. CASE MpReturns
  <2>1. CASE Woke /\ MpWaiters # <<>>
    <3>1. PICK w \in Thread \ MpGranted : MpGranted' = MpGranted \cup {w}
      BY <1>6, <2>1 DEF MpReturns
    <3>2. IsFiniteSet(MpGranted') /\ Cardinality(MpGranted') = Cardinality(MpGranted) + 1
      BY <1>4, <3>1
    <3>3. /\ block_free_count' = block_free_count + 1
          /\ suspend_thread_count' = suspend_thread_count - 1
          /\ Len(MpWaiters') = Len(MpWaiters) - 1
      BY <1>6, <2>1 DEF MpReturns
    <3>4. Len(MpWaiters) > 0
      BY <1>3, <2>1
    <3>5. block_free_count' <= Cardinality(MpGranted')
      BY <1>1, <1>2, <2>1, <3>2, <3>3
    <3> QED BY <1>1, <1>3, <3>2, <3>3, <3>4, <3>5
  <2>2. CASE ~(Woke /\ MpWaiters # <<>>)
    <3>1. /\ MpWaiters' = MpWaiters /\ MpGranted' = MpGranted
          /\ suspend_thread_count' = IF Woke THEN suspend_thread_count - 1
                                             ELSE suspend_thread_count
      BY <1>6, <2>2 DEF MpReturns
    <3>2. MpWaiters = <<>>
      <4>1. CASE Woke
        BY <2>2, <4>1
      <4>2. CASE ~Woke
        BY <1>1, <1>3, <4>2 DEF Woke
      <4> QED BY <4>1, <4>2
    <3>3. suspend_thread_count' \in Nat
      BY <1>1, <3>1 DEF Woke
    <3> QED BY <1>1, <1>3, <3>1, <3>2, <3>3
  <2> QED BY <2>1, <2>2
<1>7. ASSUME NEW t \in Thread, MpLooks(t)
      PROVE  /\ suspend_thread_count' \in Nat
             /\ suspend_thread_count' >= Len(MpWaiters')
             /\ IsFiniteSet(MpGranted')
             /\ MpWaiters' # <<>> => block_free_count' <= Cardinality(MpGranted')
  <2>1. /\ MpWaiters' = MpWaiters /\ MpGranted' = MpGranted \ {t}
        /\ suspend_thread_count' = suspend_thread_count
        /\ IF block_free_count = 0 THEN block_free_count' = 0
                                   ELSE block_free_count' = block_free_count - 1
    BY <1>7 DEF MpLooks
  <2>2. /\ IsFiniteSet(MpGranted')
        /\ Cardinality(MpGranted') \in {Cardinality(MpGranted), Cardinality(MpGranted) - 1}
    BY <1>4, <2>1
  <2>3. Cardinality(MpGranted') \in Nat
    BY <2>2, FS_CardinalityType
  <2> QED BY <1>1, <1>2, <1>3, <2>1, <2>2, <2>3
<1>8. ASSUME NEW t \in Thread, MpEnters(t)
      PROVE  /\ suspend_thread_count' \in Nat
             /\ suspend_thread_count' >= Len(MpWaiters')
             /\ IsFiniteSet(MpGranted')
             /\ MpWaiters' # <<>> => block_free_count' <= Cardinality(MpGranted')
  <2>1. MpGranted' = MpGranted \ {t} /\ block_free_count' = 0
    BY <1>8 DEF MpEnters
  <2>2. IsFiniteSet(MpGranted') /\ Cardinality(MpGranted') \in Nat
    BY <1>4, <2>1, FS_CardinalityType
  <2> QED BY <1>1, <1>3, <1>8, <2>1, <2>2 DEF MpEnters
<1> QED BY <1>5, <1>6, <1>7, <1>8 DEF MpEffect
-----------------------------------------------------------------------------
(* Each action has one of the effects. *)
LEMMA WakeState ==
    ASSUME WakeInv
    PROVE  /\ ThreadsOK(k, pc) /\ k \in KernelState /\ Sound(k) /\ Mp \in WaitQueue
           /\ pc \in [Thread -> MpPC]
           /\ MpWaiters \in Seq(Thread) /\ IsInjective(MpWaiters)
<1>1. ThreadsOK(k, pc) /\ Sound(k) /\ k \in KernelState /\ Mp \in WaitQueue
  BY MemPoolAssumption DEF WakeInv, ThreadsOK, Sound
<1> QED BY <1>1, QueueOK DEF WakeInv, WaitsEmpty, MpWaiters

(* Who makes a call runs, is not idle and waits nowhere. *)
LEMMA MpCallerRuns ==
    ASSUME WakeInv, NEW t \in Thread, NEW at, at \notin AtSwitch, Running(t, at),
           at # "user" \/ \E api : Calls(t, api)
    PROVE  k.cur = t /\ pc[t] = at /\ t # Idle /\ ~Waits(t, Mp) /\ pc[k.cur] \notin AtSwitch
<1>1. k.cur = t /\ pc[t] = at /\ pc[k.cur] \notin AtSwitch
  BY DEF Running
<1>2. ~InList(k, Mp, t)
  BY <1>1, WakeState, CallerRunning
<1>3. t # Idle
  BY <1>1, WakeState, ThreadsAssumption DEF Calls, ThreadsOK
<1> QED BY <1>1, <1>2, <1>3 DEF Waits, InList

LEMMA KeepsIfSame ==
    ASSUME k'.list[Mp] = k.list[Mp], GrantedOf(k', pc', Mp) = GrantedOf(k, pc, Mp),
           UNCHANGED pool
    PROVE  MpKeeps
BY DEF MpKeeps, MpWaiters, MpGranted, counts, pool

(* t leaves its call with what it found. *)
LEMMA MovesOut ==
    ASSUME WakeInv, NEW t \in Thread \ {Idle}, k.cur = t, pc[t] \notin AtSwitch,
           NEW to, to \notin {"sched", "woken"}, Goto(t, to),
           \/ UNCHANGED k
           \/ \E e \in Error : k' = [k EXCEPT !.err[t] = e]
    PROVE  ThreadsOK(k', pc') /\ MpWaiters' = MpWaiters /\ MpGranted' = MpGranted \ {t}
<1>1. ThreadsOK(k, pc) /\ Sound(k) /\ k \in KernelState /\ Mp \in WaitQueue /\ pc \in [Thread -> MpPC]
  BY WakeState
<1>2. pc'[t] = to /\ \A u \in Thread \ {t} : pc'[u] = pc[u]
  BY <1>1 DEF Goto
<1>3. /\ Sound(k') /\ k'.cur = k.cur /\ k'.stat = k.stat /\ k'.list = k.list
      /\ \A u \in Thread \ {t} : k'.err[u] = k.err[u]
  <2>1. CASE UNCHANGED k
    BY <1>1, <2>1
  <2>2. ASSUME NEW e \in Error, k' = [k EXCEPT !.err[t] = e]
        PROVE  /\ Sound(k') /\ k'.cur = k.cur /\ k'.stat = k.stat /\ k'.list = k.list
               /\ \A u \in Thread \ {t} : k'.err[u] = k.err[u]
    BY <1>1, <2>2, SoundError DEF KernelState
  <2> QED BY <2>1, <2>2
<1>4. GoesOn(k', k, pc', pc)
  BY <1>2, <1>3 DEF GoesOn
<1> QED BY <1>1, <1>2, <1>3, <1>4, QuietMove DEF MpWaiters, MpGranted

LEMMA MpStepLooks ==
    ASSUME WakeInv, NEW t \in Thread, Allocates(t) \/ MpGivesUp(t)
    PROVE  ThreadsOK(k', pc') /\ MpLooks(t)
<1>1. k.cur = t /\ t # Idle /\ pc[t] \notin AtSwitch
  <2>1. MpLoops(t)
    BY DEF Allocates, MpGivesUp
  <2> QED BY <2>1, MpCallerRuns DEF MpLoops, Calls, AtSwitch
<1>2. Goto(t, "user")
  BY DEF Allocates, MpGivesUp
<1>3. \/ UNCHANGED k
      \/ \E e \in Error : k' = [k EXCEPT !.err[t] = e]
  BY DEF Allocates, MpGivesUp, Error
<1>4. ThreadsOK(k', pc') /\ MpWaiters' = MpWaiters /\ MpGranted' = MpGranted \ {t}
  <2>1. t \in Thread \ {Idle} /\ "user" \notin {"sched", "woken"}
    BY <1>1
  <2> QED BY <1>1, <1>2, <1>3, <2>1, MovesOut
<1>5. block_free_count \in Nat
  BY LenProperties DEF WakeInv, PoolInv
<1> QED BY <1>4, <1>5 DEF MpLooks, Allocates, MpGivesUp, pool

LEMMA StepFails ==
    ASSUME WakeInv, NEW t \in Thread, MpFails(t)
    PROVE  ThreadsOK(k', pc') /\ MpKeeps
<1>1. k.cur = t /\ t # Idle /\ pc[t] \notin AtSwitch
  BY MpCallerRuns DEF MpFails, AtSwitch
<1>2. ThreadsOK(k', pc') /\ MpWaiters' = MpWaiters /\ MpGranted' = MpGranted \ {t}
  <2>1. t \in Thread \ {Idle} /\ "user" \notin {"sched", "woken"}
    BY <1>1
  <2> QED BY <1>1, <2>1, MovesOut DEF MpFails
<1>3. t \notin MpGranted
  BY DEF MpFails, Failed, MpGranted, GrantedOf
<1> QED BY <1>2, <1>3 DEF MpKeeps, counts, MpFails, pool

(* Here the thread that waits joins the list in front. *)
LEMMA MpStepWaits ==
    ASSUME WakeInv, NEW t \in Thread, NEW timed \in BOOLEAN, MpWaiting(t, timed)
    PROVE  ThreadsOK(k', pc') /\ MpEnters(t)
<1>1. /\ ThreadsOK(k, pc) /\ Sound(k) /\ k \in KernelState /\ Mp \in WaitQueue
      /\ pc \in [Thread -> MpPC] /\ MpWaiters \in Seq(Thread) /\ IsInjective(MpWaiters)
  BY WakeState
<1>2. k.cur = t /\ t # Idle /\ ~Waits(t, Mp) /\ pc[k.cur] \notin AtSwitch
  <2>1. MpLoops(t)
    BY DEF MpWaiting
  <2> QED BY <2>1, MpCallerRuns DEF MpLoops, Calls, AtSwitch
<1>3. k.stat[t] = "running"
  BY <1>1, <1>2, CallerRunning
<1> DEFINE a == [k EXCEPT !.err[t] = "ok"]
           l == <<t>> \o MpWaiters
           r == Joins(a, t, Mp, l)
<1>4. /\ Sound(a) /\ a \in KernelState
      /\ a.cur = k.cur /\ a.stat = k.stat /\ a.list = k.list
      /\ a.err[t] = "ok" /\ \A u \in Thread \ {t} : a.err[u] = k.err[u]
  <2>1. Sound(a)
    <3>1. "ok" \in Error
      BY DEF Error
    <3> QED BY <1>1, <3>1, SoundError
  <2>2. a \in KernelState
    BY <2>1 DEF Sound
  <2>3. /\ a.cur = k.cur /\ a.stat = k.stat /\ a.list = k.list
        /\ a.err = [k.err EXCEPT ![t] = "ok"]
    BY <1>1 DEF KernelState
  <2> QED BY <1>1, <2>1, <2>2, <2>3 DEF KernelState
<1>5. SuspendFirst(t) = r
  <2>1. PICK b : b = a
    OBVIOUS
  <2>2. rt_thread_suspend(b, t).list[Mp] = MpWaiters
    <3>1. /\ b \in KernelState /\ KernelOK(b) /\ CurrentOK(b) /\ b.stat[t] \in Runnable
      BY <1>3, <1>4, <2>1 DEF Sound, Runnable
    <3>2. SameQueues(rt_thread_suspend(b, t), b)
      BY <3>1, SuspendThread
    <3> QED BY <1>1, <1>4, <2>1, <3>2 DEF SameQueues, MpWaiters
  <2>3. SuspendFirst(t) = [rt_thread_suspend(b, t) EXCEPT !.list[Mp] = <<t>> \o @]
    BY <2>1 DEF SuspendFirst
  <2> QED BY <2>1, <2>2, <2>3 DEF Joins
<1>6. /\ l \in Seq(Thread) /\ IsInjective(l) /\ Len(l) = Len(MpWaiters) + 1
      /\ \A x : Contains(l, x) <=> Contains(k.list[Mp], x) \/ x = t
  BY <1>1, <1>2, FirstOfList DEF Waits, MpWaiters
<1>7. l # <<>>
  BY <1>1, <1>6
<1> HIDE DEF a, l
<1>8. /\ Sound(r) /\ SameCurrent(r, a) /\ r.err = a.err
      /\ r.stat[t] = "suspend"
      /\ \A u \in Thread \ {t} : r.stat[u] = a.stat[u]
      /\ r.list[Mp] = l
      /\ \A p \in WaitQueue \ {Mp} : r.list[p] = a.list[p]
  BY <1>1, <1>2, <1>3, <1>4, <1>6, SoundJoins
<1> HIDE DEF r
<1>9. /\ Sound(k') /\ k'.cur = r.cur /\ k'.stat = r.stat /\ k'.list = r.list /\ k'.err = r.err
  <2>1. CASE timed
    <3>1. k' = StartTimer(r, t)
      BY <1>5, <2>1 DEF MpWaiting
    <3> QED BY <1>8, <3>1, SoundTimer DEF SameCurrent
  <2>2. CASE ~timed
    BY <1>5, <1>8, <2>2 DEF MpWaiting
  <2> QED BY <2>1, <2>2
<1>10. /\ k'.cur = k.cur /\ k'.list[Mp] = l /\ k'.err[t] = "ok"
       /\ \A p \in WaitQueue \ {Mp} : k'.list[p] = k.list[p]
       /\ \A u \in Thread \ {t} : k'.err[u] = k.err[u] /\ k'.stat[u] = k.stat[u]
  BY <1>4, <1>8, <1>9 DEF SameCurrent
<1>11. pc'[t] = "sched" /\ \A u \in Thread \ {t} : pc'[u] = pc[u]
  BY <1>1 DEF MpWaiting, Goto
<1>12. /\ ThreadsOK(k', pc')
       /\ \A v : InList(k', Mp, v) <=> InList(k, Mp, v) \/ v = t
  BY <1>1, <1>2, <1>6, <1>9, <1>10, <1>11, CallsJoin
<1>13. MpGranted' = MpGranted \ {t}
  <2>1. \A v \in Thread : v \in GrantedOf(k', pc', Mp) <=> v \in GrantedOf(k, pc, Mp) /\ v # t
    BY <1>10, <1>11, <1>12 DEF GrantedOf
  <2> QED BY <2>1 DEF MpGranted, GrantedOf
<1> QED BY <1>6, <1>7, <1>10, <1>12, <1>13 DEF MpEnters, MpWaiting, MpWaiters

(* What rt_mp_free does to the kernel before it schedules. *)
LEMMA FreeWakes ==
    ASSUME WakeInv
    PROVE  /\ ThreadsOK(AfterFree, pc) /\ AfterFree.cur = k.cur
           /\ IF Woke /\ MpWaiters # <<>>
              THEN /\ Len(AfterFree.list[Mp]) = Len(MpWaiters) - 1
                   /\ \E w \in Thread \ MpGranted :
                         GrantedOf(AfterFree, pc, Mp) = MpGranted \cup {w}
              ELSE AfterFree = k
<1>1. /\ ThreadsOK(k, pc) /\ Sound(k) /\ k \in KernelState /\ Mp \in WaitQueue
      /\ MpWaiters \in Seq(Thread) /\ IsInjective(MpWaiters)
  BY WakeState
<1>2. CASE ~(Woke /\ MpWaiters # <<>>)
  BY <1>1, <1>2 DEF AfterFree
<1>3. CASE Woke /\ MpWaiters # <<>>
  <2>1. PICK w : w = Head(MpWaiters)
    OBVIOUS
  <2> DEFINE r == rt_thread_resume(k, w)
  <2>2. /\ w \in Thread /\ InList(k, Mp, w) /\ k.err[w] = "ok"
        /\ ThreadsOK(r, pc) /\ r.cur = k.cur
        /\ r.list[Mp] = RemoveFirst(MpWaiters, w)
        /\ w \notin MpGranted
        /\ GrantedOf(r, pc, Mp) = MpGranted \cup {w}
    BY <1>1, <1>3, <2>1, WakesHead DEF MpWaiters, MpGranted
  <2>3. [k EXCEPT !.err[w] = "ok"] = k
    BY <1>1, <2>2 DEF KernelState
  <2>4. AfterFree = r
    BY <1>3, <2>1, <2>3 DEF AfterFree
  <2> HIDE DEF r
  <2>5. Len(RemoveFirst(MpWaiters, w)) = Len(MpWaiters) - 1
    BY <1>1, <2>2, RemoveOne DEF InList, MpWaiters
  <2> QED BY <1>3, <2>2, <2>4, <2>5
<1> QED BY <1>2, <1>3

LEMMA StepFrees ==
    ASSUME WakeInv, NEW t \in Thread, rt_mp_free(t)
    PROVE  ThreadsOK(k', pc') /\ MpReturns
<1>1. ThreadsOK(k, pc) /\ Mp \in WaitQueue /\ pc \in [Thread -> MpPC]
  BY WakeState
<1>2. k.cur = t /\ t # Idle /\ pc[t] = "user"
  <2>1. Running(t, "user") /\ Calls(t, "alloc")
    BY DEF rt_mp_free, Calls
  <2> QED BY <2>1, MpCallerRuns DEF AtSwitch
<1>3. /\ ThreadsOK(k', pc) /\ k'.cur = k.cur
      /\ IF Woke /\ MpWaiters # <<>>
         THEN /\ Len(MpWaiters') = Len(MpWaiters) - 1
              /\ \E w \in Thread \ MpGranted : GrantedOf(k', pc, Mp) = MpGranted \cup {w}
         ELSE k' = k
  BY FreeWakes DEF rt_mp_free, MpWaiters
<1>4. pc'[t] \in {"released", "user"} /\ \A u \in Thread \ {t} : pc'[u] = pc[u]
  BY <1>1 DEF rt_mp_free, Goto
<1>5. GoesOn(k', k', pc', pc)
  BY <1>2, <1>3, <1>4 DEF GoesOn, ThreadsOK
<1>6. ThreadsOK(k', pc') /\ GrantedOf(k', pc', Mp) = GrantedOf(k', pc, Mp) \ {t}
  <2>1. pc[k'.cur] \notin AtSwitch /\ k'.cur # Idle /\ pc'[k'.cur] \notin {"sched", "woken"}
    BY <1>2, <1>3, <1>4 DEF AtSwitch
  <2> QED BY <1>1, <1>2, <1>3, <1>5, <2>1, QuietMove
<1>7. t \notin GrantedOf(k', pc, Mp)
  BY <1>2 DEF GrantedOf
<1>8. MpGranted' = GrantedOf(k', pc, Mp)
  BY <1>6, <1>7 DEF MpGranted
<1> QED BY <1>3, <1>6, <1>8 DEF MpReturns, rt_mp_free, Frees, MpWaiters, MpGranted

LEMMA StepIsrFrees ==
    ASSUME WakeInv, NEW b \in Blocks, IsrFrees(b)
    PROVE  ThreadsOK(k', pc') /\ MpReturns
<1>1. ThreadsOK(k, pc) /\ Mp \in WaitQueue
  BY WakeState
<1> DEFINE r == AfterFree
<1>2. /\ ThreadsOK(r, pc)
      /\ IF Woke /\ MpWaiters # <<>>
         THEN /\ Len(r.list[Mp]) = Len(MpWaiters) - 1
              /\ \E w \in Thread \ MpGranted : GrantedOf(r, pc, Mp) = MpGranted \cup {w}
         ELSE r = k
  BY FreeWakes
<1>3. k' = (IF Woke THEN rt_schedule(r) ELSE k) /\ pc' = pc
  BY DEF IsrFrees
<1> HIDE DEF r
<1>4. /\ ThreadsOK(k', pc')
      /\ k'.list[Mp] = r.list[Mp] /\ GrantedOf(k', pc', Mp) = GrantedOf(r, pc, Mp)
  <2>1. CASE Woke
    BY <1>1, <1>2, <1>3, <2>1, QuietSchedule
  <2>2. CASE ~Woke
    BY <1>1, <1>2, <1>3, <2>2
  <2> QED BY <2>1, <2>2
<1> QED BY <1>2, <1>4 DEF MpReturns, IsrFrees, Frees, MpWaiters, MpGranted

LEMMA MpStepTimeout ==
    ASSUME WakeInv, NEW u \in Thread, MpTimeout(u)
    PROVE  ThreadsOK(k', pc') /\ MpLeaves
<1>1. ThreadsOK(k, pc) /\ Mp \in WaitQueue /\ MpWaiters \in Seq(Thread) /\ IsInjective(MpWaiters)
  BY WakeState
<1>2. k.tmr[u] /\ k' = rt_thread_timeout(k, u) /\ pc' = pc
  BY DEF MpTimeout, TimerFires
<1>3. /\ ThreadsOK(k', pc')
      /\ MpWaiters' = RemoveFirst(MpWaiters, u) /\ MpGranted' = MpGranted \ {u}
  BY <1>1, <1>2, QuietTimeout DEF MpWaiters, MpGranted
<1>4. u \notin MpGranted
  BY <1>1, <1>2, ThreadOK, MemPoolAssumption DEF MpGranted, GrantedOf
<1>5. Len(MpWaiters') <= Len(MpWaiters) /\ (MpWaiters = <<>> => MpWaiters' = <<>>)
  <2>1. /\ Len(MpWaiters) \in Nat /\ (MpWaiters = <<>> <=> Len(MpWaiters) = 0)
        /\ MpWaiters' \in Seq(Thread) /\ Len(MpWaiters') \in Nat
        /\ (MpWaiters' = <<>> <=> Len(MpWaiters') = 0)
    BY <1>1, <1>3, RemoveOne, LenProperties, EmptySeq
  <2>2. Len(MpWaiters') = IF Contains(MpWaiters, u) THEN Len(MpWaiters) - 1 ELSE Len(MpWaiters)
    BY <1>1, <1>3, RemoveOne
  <2> QED BY <2>1, <2>2
<1> QED BY <1>3, <1>4, <1>5 DEF MpLeaves, MpTimeout, counts, pool

LEMMA MpStepSleep ==
    ASSUME WakeInv, NEW t \in Thread, MpSleep(t)
    PROVE  ThreadsOK(k', pc') /\ MpKeeps
<1>1. ThreadsOK(k, pc) /\ Mp \in WaitQueue /\ pc \in [Thread -> MpPC]
  BY WakeState
<1>2. k.cur = t
  BY DEF MpSleep, Sleeps, Reschedule, Running, Calls
<1>3. t # Idle
  <2>1. CASE Calls(t, "sleep")
    BY <2>1, ThreadsAssumption DEF Calls
  <2>2. CASE ~Calls(t, "sleep")
    <3>1. pc[t] \in {"sleep", "slept"}
      BY <2>2 DEF MpSleep, Sleeps, Reschedule, Running
    <3> QED BY <1>1, <3>1 DEF ThreadsOK
  <2> QED BY <2>1, <2>2
<1>4. SleepsTo(k', pc', k, pc, t)
  BY <1>1, <1>2 DEF SleepsTo, MpSleep, Sleeps, Reschedule, Running, Calls, Goto
<1>5. /\ ThreadsOK(k', pc')
      /\ k'.list[Mp] = k.list[Mp] /\ GrantedOf(k', pc', Mp) = GrantedOf(k, pc, Mp)
  <2>1. t \in Thread \ {Idle}
    BY <1>3
  <2> QED BY <1>1, <1>4, <2>1, QuietSleep
<1> QED BY <1>5, KeepsIfSame DEF MpSleep

(* rt_schedule, on the way out of a call, or at the end of a slice *)
LEMMA MpStepSchedules ==
    ASSUME WakeInv, MpSlice \/ \E t \in Thread : MpSchedules(t)
    PROVE  ThreadsOK(k', pc') /\ MpKeeps
<1>1. ThreadsOK(k, pc) /\ Mp \in WaitQueue /\ pc \in [Thread -> MpPC]
  BY WakeState
<1>2. /\ k' = rt_schedule(k)
      /\ \A u \in Thread : \/ pc'[u] = pc[u]
                           \/ pc[u] = "sched" /\ pc'[u] = "woken"
                           \/ pc[u] = "sleep" /\ pc'[u] = "slept"
                           \/ pc[u] = "released" /\ pc'[u] = "user"
  <2>1. CASE MpSlice
    BY <2>1 DEF MpSlice, SliceExpires
  <2>2. ASSUME NEW t \in Thread, Reschedule(t, "sched", "woken") \/ Reschedule(t, "released", "user")
        PROVE  /\ k' = rt_schedule(k)
               /\ \A u \in Thread : \/ pc'[u] = pc[u]
                                    \/ pc[u] = "sched" /\ pc'[u] = "woken"
                                    \/ pc[u] = "sleep" /\ pc'[u] = "slept"
                                    \/ pc[u] = "released" /\ pc'[u] = "user"
    BY <1>1, <2>2 DEF Reschedule, Running, Goto
  <2> QED BY <2>1, <2>2 DEF MpSchedules
<1>3. /\ ThreadsOK(k', pc')
      /\ k'.list[Mp] = k.list[Mp] /\ GrantedOf(k', pc', Mp) = GrantedOf(k, pc, Mp)
  BY <1>1, <1>2, QuietSchedule
<1> QED BY <1>3, KeepsIfSame DEF MpSlice, MpSchedules

(* A detach tells those who wait one by one, when the pool is no more.     *)
LEMMA StepDetachStarts ==
    ASSUME WakeInv, NEW t \in Thread, MpDetachStarts(t)
    PROVE  ThreadsOK(k', pc') /\ attached' = FALSE
<1>1. k.cur = t /\ t # Idle /\ pc[t] \notin AtSwitch
  BY MpCallerRuns DEF MpDetachStarts, Calls, AtSwitch
<1>2. ThreadsOK(k', pc')
  <2>1. t \in Thread \ {Idle} /\ "check" \notin {"sched", "woken"}
    BY <1>1
  <2> QED BY <1>1, <2>1, MovesOut DEF MpDetachStarts
<1> QED BY <1>2 DEF MpDetachStarts

LEMMA MpStepDetachResumes ==
    ASSUME WakeInv, NEW t \in Thread, MpDetachResumes(t)
    PROVE  ThreadsOK(k', pc') /\ attached = FALSE /\ attached' = FALSE
<1>1. ThreadsOK(k, pc) /\ Mp \in WaitQueue /\ pc \in [Thread -> MpPC]
  BY WakeState
<1>2. Running(t, "check") \/ Running(t, "resume")
  BY DEF MpDetachResumes, ChecksList, ResumesNext
<1>3. k.cur = t /\ t # Idle /\ pc[t] \notin AtSwitch
  BY <1>2, MpCallerRuns DEF AtSwitch
<1>4. attached = FALSE /\ attached' = FALSE
  BY <1>2 DEF Running, WakeInv, DetachIsLast, MpDetachResumes
<1>5. ASSUME NEW to \in {"resume", "user", "fault"}, Goto(t, to), UNCHANGED k
      PROVE  ThreadsOK(k', pc')
  <2>1. t \in Thread \ {Idle} /\ to \notin {"sched", "woken"}
    BY <1>3
  <2> QED BY <1>3, <1>5, <2>1, MovesOut
<1>6. ASSUME MpWaiters # <<>>, k' = ResumeWithError(k, Mp), Goto(t, "check")
      PROVE  ThreadsOK(k', pc')
  <2>1. ThreadsOK(k', pc) /\ k'.cur = t
    BY <1>1, <1>3, <1>6, QuietTurn DEF MpWaiters
  <2>2. pc'[t] = "check" /\ \A u \in Thread \ {t} : pc'[u] = pc[u]
    BY <1>1, <1>6 DEF Goto
  <2>3. GoesOn(k', k', pc', pc)
    BY <2>1, <2>2 DEF GoesOn, ThreadsOK
  <2> QED BY <1>3, <2>1, <2>2, <2>3, QuietMove
<1>7. CASE ChecksList(t, "check", Mp, "resume", "user")
  BY <1>4, <1>5, <1>7 DEF ChecksList
<1>8. CASE ResumesNext(t, "resume", Mp, "check")
  BY <1>4, <1>5, <1>6, <1>8 DEF ResumesNext, MpWaiters
<1> QED BY <1>4, <1>7, <1>8 DEF MpDetachResumes

LEMMA StepIdles ==
    ASSUME WakeInv, UNCHANGED mpVars \/ \E t \in Thread : HandsOver(t)
    PROVE  ThreadsOK(k', pc') /\ MpKeeps
<1>1. UNCHANGED <<k, pc, pool>>
  BY DEF mpVars, HandsOver
<1>2. ThreadsOK(k', pc')
  BY <1>1, WakeState
<1> QED BY <1>1, <1>2 DEF MpKeeps, counts, pool, MpWaiters, MpGranted

LEMMA MpStepWakes ==
    ASSUME WakeInv, [MpNext]_mpVars
    PROVE  ThreadsOK(k', pc') /\ (attached' => attached /\ MpEffect)
<1>1. ASSUME NEW t \in Thread, rt_mp_alloc(t)
      PROVE  ThreadsOK(k', pc') /\ attached' = attached /\ MpEffect
  <2>1. CASE Allocates(t) \/ MpGivesUp(t)
    <3>1. ThreadsOK(k', pc') /\ MpLooks(t)
      BY <2>1, MpStepLooks
    <3> QED BY <2>1, <3>1 DEF Allocates, MpGivesUp, MpEffect
  <2>2. ASSUME NEW timed \in BOOLEAN, MpWaiting(t, timed)
        PROVE  ThreadsOK(k', pc') /\ attached' = attached /\ MpEffect
    <3>1. ThreadsOK(k', pc') /\ MpEnters(t)
      BY <2>2, MpStepWaits
    <3> QED BY <2>2, <3>1 DEF MpWaiting, MpEffect
  <2>3. CASE MpFails(t)
    <3>1. ThreadsOK(k', pc') /\ MpKeeps
      BY <2>3, StepFails
    <3> QED BY <2>3, <3>1 DEF MpFails, MpEffect
  <2> QED BY <1>1, <2>1, <2>2, <2>3 DEF rt_mp_alloc
<1>2. ASSUME NEW t \in Thread, rt_mp_free(t)
      PROVE  ThreadsOK(k', pc') /\ attached' = attached /\ MpEffect
  <2>1. ThreadsOK(k', pc') /\ MpReturns
    BY <1>2, StepFrees
  <2> QED BY <1>2, <2>1 DEF rt_mp_free, MpEffect
<1>3. ASSUME NEW b \in Blocks, IsrFrees(b)
      PROVE  ThreadsOK(k', pc') /\ attached' = attached /\ MpEffect
  <2>1. ThreadsOK(k', pc') /\ MpReturns
    BY <1>3, StepIsrFrees
  <2> QED BY <1>3, <2>1 DEF IsrFrees, MpEffect
<1>4. ASSUME NEW t \in Thread, MpTimeout(t)
      PROVE  ThreadsOK(k', pc') /\ attached' = attached /\ MpEffect
  <2>1. ThreadsOK(k', pc') /\ MpLeaves
    BY <1>4, MpStepTimeout
  <2> QED BY <1>4, <2>1 DEF MpTimeout, MpEffect
<1>5. ASSUME NEW t \in Thread, MpSchedules(t) \/ MpSleep(t)
      PROVE  ThreadsOK(k', pc') /\ attached' = attached /\ MpEffect
  <2>1. ThreadsOK(k', pc') /\ MpKeeps
    BY <1>5, MpStepSchedules, MpStepSleep
  <2> QED BY <1>5, <2>1 DEF MpSchedules, MpSleep, MpEffect
<1>6. ASSUME NEW t \in Thread, HandsOver(t)
      PROVE  ThreadsOK(k', pc') /\ attached' = attached /\ MpEffect
  <2>1. ThreadsOK(k', pc') /\ MpKeeps
    BY <1>6, StepIdles
  <2> QED BY <1>6, <2>1 DEF HandsOver, MpEffect
<1>7. CASE MpSlice
  <2>1. ThreadsOK(k', pc') /\ MpKeeps
    BY <1>7, MpStepSchedules
  <2> QED BY <1>7, <2>1 DEF MpSlice, MpEffect
<1>8. CASE UNCHANGED mpVars
  <2>1. ThreadsOK(k', pc') /\ MpKeeps
    BY <1>8, StepIdles
  <2> QED BY <1>8, <2>1 DEF mpVars, MpEffect
<1>9. ASSUME NEW t \in Thread, MpDetachStarts(t) \/ MpDetachResumes(t)
      PROVE  ThreadsOK(k', pc') /\ attached' = FALSE
  BY <1>9, StepDetachStarts, MpStepDetachResumes
<1> QED BY <1>1, <1>2, <1>3, <1>4, <1>5, <1>6, <1>7, <1>8, <1>9 DEF MpNext

LEMMA StepDetachIsLast == WakeInv /\ [MpNext]_mpVars => DetachIsLast'
<1> SUFFICES ASSUME WakeInv, [MpNext]_mpVars, NEW u \in Thread, pc'[u] \in {"check", "resume"}
             PROVE  ~attached'
  BY DEF DetachIsLast
<1>1. pc \in [Thread -> MpPC] /\ (pc[u] \in {"check", "resume"} => ~attached)
  BY WakeState DEF WakeInv, DetachIsLast
<1>2. ASSUME NEW t \in Thread, MpDetachStarts(t) \/ MpDetachResumes(t)
      PROVE  ~attached'
  BY <1>2, StepDetachStarts, MpStepDetachResumes
<1>3. ASSUME NEW t \in Thread, NEW to, to \notin {"check", "resume"}, Goto(t, to), UNCHANGED attached
      PROVE  ~attached'
  BY <1>1, <1>3 DEF Goto
<1>4. ASSUME UNCHANGED <<pc, attached>> PROVE ~attached'
  BY <1>1, <1>4
<1>5. ASSUME NEW t \in Thread, rt_mp_alloc(t) PROVE ~attached'
  BY <1>3, <1>5 DEF rt_mp_alloc, Allocates, MpWaiting, MpGivesUp, MpFails
<1>6. ASSUME NEW t \in Thread, rt_mp_free(t) PROVE ~attached'
  BY <1>3, <1>6 DEF rt_mp_free
<1>7. ASSUME NEW t \in Thread, MpSchedules(t) \/ MpSleep(t) PROVE ~attached'
  BY <1>3, <1>7 DEF MpSchedules, Reschedule, MpSleep, Sleeps
<1>8. ASSUME NEW t \in Thread, HandsOver(t) \/ MpTimeout(t) PROVE ~attached'
  BY <1>4, <1>8 DEF HandsOver, MpTimeout, TimerFires
<1>9. CASE MpSlice \/ UNCHANGED mpVars \/ \E b \in Blocks : IsrFrees(b)
  BY <1>4, <1>9 DEF MpSlice, SliceExpires, mpVars, IsrFrees
<1> QED BY <1>2, <1>5, <1>6, <1>7, <1>8, <1>9 DEF MpNext

LEMMA InitWakes == MpInit => WakeInv
<1> SUFFICES ASSUME MpInit PROVE WakeInv
  OBVIOUS
<1>1. PoolInv /\ WaitsEmpty
  BY InitPool
<1>2. k = KernelStart(InitThread, InitPriority, InitReady) /\ pc = [t \in Thread |-> "user"]
  BY DEF MpInit, ThreadsInit
<1>3. Starts(InitThread, InitPriority, InitReady)
  BY ThreadsAssumption DEF Starts
<1>4. ThreadsOK(k, pc) /\ k.list[Mp] = <<>>
  BY <1>2, <1>3, CallsStart, MemPoolAssumption
<1>5. MpGranted = {}
  BY <1>2 DEF MpGranted, GrantedOf
<1>6. Len(MpWaiters) = 0 /\ MpWaiters = <<>> /\ suspend_thread_count = 0 /\ IsFiniteSet(MpGranted)
  BY <1>4, <1>5, FS_EmptySet DEF MpWaiters, MpInit
<1>7. DetachIsLast
  BY <1>2 DEF DetachIsLast
<1> QED BY <1>1, <1>4, <1>6, <1>7 DEF WakeInv, MpCounted

LEMMA StepWakeInv == WakeInv /\ [MpNext]_mpVars => WakeInv'
<1> SUFFICES ASSUME WakeInv, [MpNext]_mpVars PROVE WakeInv'
  OBVIOUS
<1>1. PoolInv' /\ WaitsEmpty'
  BY StepPool, StepWaitsEmpty DEF WakeInv
<1>2. ThreadsOK(k', pc') /\ (attached' => attached /\ MpEffect)
  BY MpStepWakes
<1>3. DetachIsLast'
  BY StepDetachIsLast
<1>4. MpCounted'
  BY <1>2, EffectCounted
<1> QED BY <1>1, <1>2, <1>3, <1>4 DEF WakeInv

(***************************************************************************)
(* While the pool is in use and threads wait, a woken thread is on its way *)
(* to every free block, and suspend_thread_count sees all that wait, so    *)
(* that the next rt_mp_free wakes one: whatever the woken threads, others  *)
(* that allocate, their time limits and the device do in the meantime.     *)
(***************************************************************************)
THEOREM MemPoolNoLostWakeup == MpSpec => []MpNoLostWakeup
<1>1. WakeInv => MpNoLostWakeup
  <2>1. MpGranted = { t \in Thread : Woken(t, Mp) }
    BY DEF MpGranted, GrantedOf, Woken, Failed, Waits, InList
  <2> QED BY <2>1 DEF WakeInv, MpCounted, MpNoLostWakeup
<1> QED BY <1>1, InitWakes, StepWakeInv, PTL DEF MpSpec
=============================================================================
