--------------------------- MODULE ThreadLifeProofs ---------------------------
(***************************************************************************)
(* The theorems about ThreadLife: the pages of the heap are all in one     *)
(* place, and every block has one owner, if the threads that others delete *)
(* do nothing but wait (OthersWait) and each is deleted once (Careful).    *)
(*                                                                         *)
(* The inductive invariant has two parts.  LifeOK says what the lists, the *)
(* states and the timers of the kernel are about, what each call is about  *)
(* and has in hand at each place in it, that no two calls are about one    *)
(* thread, and that the kernel knows nothing of memory that is no thread.  *)
(* MemoryOK says that the heap is whole (HeapOK of SlabProofs), and whose  *)
(* each block on it is.  The kernel's operators come first, then the steps *)
(* of threads as far as LifeOK goes, then the memory they take and give.   *)
(***************************************************************************)
EXTENDS ThreadLife, SlabProofs

-----------------------------------------------------------------------------
(* The lists of the kernel while threads are made and unmade.              *)

(* What the lists of the kernel are about while threads are made and       *)
(* unmade: a thread taken off its ready list to be deleted is ready still, *)
(* and the suspend lists hold dead threads.                                *)
LinksOK(kk) ==
    /\ kk.lock = 0 /\ LinkedOnce(kk) /\ BitmapExact(kk)
    /\ \A p \in Priority, u \in Thread :
          Contains(kk.list[p], u) => kk.stat[u] = "ready" /\ kk.prio[u] = p
    /\ \A q \in WaitQueue, u \in Thread :
          Contains(kk.list[q], u) => kk.stat[u] = "close"
    /\ \A u \in Thread : kk.tmr[u] => kk.stat[u] = "suspend"

(* The idle thread runs or is in its ready list. *)
IdleReady(kk) ==
    /\ kk.stat[Idle] \in Runnable
    /\ kk.stat[Idle] = "ready" => Contains(kk.list[kk.prio[Idle]], Idle)

LivesOK(kk) == LinksOK(kk) /\ CurrentOK(kk) /\ IdleReady(kk)

Linked(kk, u) == \E h \in ListHead : Contains(kk.list[h], u)

(* Nothing in the kernel refers to u. *)
Off(kk, u) == u # kk.cur /\ ~kk.tmr[u] /\ ~Linked(kk, u)

OffStays(r, kk, u) == Off(kk, u) => Off(r, u)

(* r is kk without u in its lists. *)
LinksWithout(r, kk, u) ==
    \A h \in ListHead, v \in Thread :
       Contains(r.list[h], v) <=> Contains(kk.list[h], v) /\ v # u

(* r is kk with u also in list l. *)
LinksWith(r, kk, u, l) ==
    \A h \in ListHead, v \in Thread :
       Contains(r.list[h], v) <=> Contains(kk.list[h], v) \/ (h = l /\ v = u)

LEMMA TakenOff ==
    ASSUME NEW kk \in KernelState, NEW t \in Thread, LinkedOnce(kk), BitmapExact(kk),
           \A p \in Priority : Contains(kk.list[p], t) => p = kk.prio[t]
    PROVE  LET r == rt_schedule_remove_thread(kk, t) IN
           /\ r \in KernelState /\ SameThreads(r, kk)
           /\ LinkedOnce(r) /\ BitmapExact(r) /\ LinksWithout(r, kk, t)
<1> DEFINE p  == kk.prio[t]
           k1 == rt_list_remove(kk, t)
           r  == rt_schedule_remove_thread(kk, t)
<1>1. /\ k1 \in KernelState
      /\ SameThreads(k1, kk)
      /\ k1.table = kk.table /\ k1.group = kk.group
      /\ LinkedOnce(k1)
      /\ \A h \in ListHead : \A u :
            Contains(k1.list[h], u) <=> Contains(kk.list[h], u) /\ u # t
  BY ListRemove
<1>2. p \in Priority
  BY DEF KernelState
<1>4. r = IF k1.list[p] # <<>>
          THEN k1
          ELSE [k1 EXCEPT
                  !.table = kk.table \ {p},
                  !.group = IF \E q \in kk.table \ {p} :
                                 q \div GroupSize = p \div GroupSize
                            THEN @
                            ELSE @ \ {p \div GroupSize}]
  BY DEF rt_schedule_remove_thread
<1> HIDE DEF k1, r
<1>5. /\ r \in KernelState /\ SameThreads(r, kk) /\ r.list = k1.list
      /\ r.table = IF k1.list[p] # <<>> THEN kk.table ELSE kk.table \ {p}
      /\ r.group = IF k1.list[p] # <<>> THEN kk.group
                   ELSE IF \E q \in kk.table \ {p} :
                                 q \div GroupSize = p \div GroupSize
                        THEN kk.group
                        ELSE kk.group \ {p \div GroupSize}
  BY <1>1, <1>4 DEF KernelState, SameThreads
<1>6. \A q \in Priority \ {p} : k1.list[q] = <<>> <=> kk.list[q] = <<>>
  <2> SUFFICES ASSUME NEW q \in Priority \ {p}
               PROVE  k1.list[q] = <<>> <=> kk.list[q] = <<>>
    OBVIOUS
  <2>1. q \in ListHead /\ k1.list[q] \in Seq(Thread) /\ kk.list[q] \in Seq(Thread)
    BY <1>1 DEF ListHead, KernelState
  <2>2. ~Contains(kk.list[q], t)
    OBVIOUS
  <2>3. \A u \in Thread : Contains(k1.list[q], u) <=> Contains(kk.list[q], u)
    BY <1>1, <2>1, <2>2
  <2> QED BY <2>1, <2>3, EmptyList
<1>7. k1.list[p] # <<>> => kk.list[p] # <<>>
  <2>1. p \in ListHead /\ k1.list[p] \in Seq(Thread) /\ kk.list[p] \in Seq(Thread)
    BY <1>1, <1>2 DEF ListHead, KernelState
  <2>2. \A u \in Thread : Contains(k1.list[p], u) => Contains(kk.list[p], u)
    BY <1>1, <2>1
  <2> QED BY <2>1, <2>2, EmptyList
<1>8. r.table = { q \in Priority : r.list[q] # <<>> }
  BY <1>2, <1>5, <1>6, <1>7 DEF BitmapExact
<1>9. r.group = { q \div GroupSize : q \in r.table }
  BY <1>2, <1>5 DEF BitmapExact
<1>10. LinkedOnce(r)
  BY <1>1, <1>5 DEF LinkedOnce
<1>11. LinksWithout(r, kk, t)
  BY <1>1, <1>5 DEF LinksWithout
<1> QED BY <1>5, <1>8, <1>9, <1>10, <1>11 DEF BitmapExact, r

(* rt_list_remove alone, of a thread that is in no ready list. *)
LEMMA Unlinked ==
    ASSUME NEW kk \in KernelState, NEW t \in Thread, LinkedOnce(kk), BitmapExact(kk),
           \A p \in Priority : ~Contains(kk.list[p], t)
    PROVE  LET r == rt_list_remove(kk, t) IN
           /\ r \in KernelState /\ SameThreads(r, kk)
           /\ LinkedOnce(r) /\ BitmapExact(r) /\ LinksWithout(r, kk, t)
<1> DEFINE r == rt_list_remove(kk, t)
<1>1. /\ r \in KernelState
      /\ SameThreads(r, kk)
      /\ r.table = kk.table /\ r.group = kk.group
      /\ LinkedOnce(r)
      /\ \A h \in ListHead : \A u :
            Contains(r.list[h], u) <=> Contains(kk.list[h], u) /\ u # t
  BY ListRemove
<1> HIDE DEF r
<1>2. \A p \in Priority : r.list[p] = <<>> <=> kk.list[p] = <<>>
  <2> SUFFICES ASSUME NEW p \in Priority
               PROVE  r.list[p] = <<>> <=> kk.list[p] = <<>>
    OBVIOUS
  <2>1. p \in ListHead /\ r.list[p] \in Seq(Thread) /\ kk.list[p] \in Seq(Thread)
    BY <1>1 DEF ListHead, KernelState
  <2>2. \A u \in Thread : Contains(r.list[p], u) <=> Contains(kk.list[p], u)
    BY <1>1, <2>1
  <2> QED BY <2>1, <2>2, EmptyList
<1>3. BitmapExact(r)
  BY <1>1, <1>2 DEF BitmapExact
<1>4. LinksWithout(r, kk, t)
  BY <1>1 DEF LinksWithout
<1> QED BY <1>1, <1>3, <1>4 DEF r

(* rt_schedule_insert_thread of a thread that is in no list. *)
LEMMA PutOn ==
    ASSUME NEW kk \in KernelState, NEW t \in Thread, LinkedOnce(kk), BitmapExact(kk),
           ~Linked(kk, t), t # kk.cur
    PROVE  LET r == rt_schedule_insert_thread(kk, t) IN
           /\ r \in KernelState /\ LinkedOnce(r) /\ BitmapExact(r)
           /\ LinksWith(r, kk, t, kk.prio[t])
           /\ r.cur = kk.cur /\ r.lock = kk.lock
           /\ r.prio = kk.prio /\ r.err = kk.err /\ r.tmr = kk.tmr
           /\ r.stat = [kk.stat EXCEPT ![t] = "ready"]
<1> DEFINE p == kk.prio[t]
           r == rt_schedule_insert_thread(kk, t)
<1>1. p \in Priority /\ p \in ListHead /\ kk.list[p] \in Seq(Thread)
  BY DEF KernelState, ListHead
<1>2. Priority \subseteq ListHead
  BY DEF ListHead
<1>3. r = [kk EXCEPT !.stat[t]  = "ready",
                     !.list[p]  = Append(@, t),
                     !.table    = @ \cup {p},
                     !.group    = @ \cup {p \div GroupSize}]
  BY DEF rt_schedule_insert_thread
<1>4. IsInjective(kk.list[p]) /\ ~Contains(kk.list[p], t)
  BY <1>1 DEF Linked, LinkedOnce
<1>5. /\ Append(kk.list[p], t) \in Seq(Thread)
      /\ IsInjective(Append(kk.list[p], t))
      /\ Append(kk.list[p], t) # <<>>
      /\ \A x : Contains(Append(kk.list[p], t), x) <=> Contains(kk.list[p], x) \/ x = t
  BY <1>1, <1>4, AppendToList
<1>6. /\ r.cur = kk.cur /\ r.lock = kk.lock
      /\ r.list = [kk.list EXCEPT ![p] = Append(@, t)]
      /\ r.table = kk.table \cup {p}
      /\ r.group = kk.group \cup {p \div GroupSize}
      /\ r.prio = kk.prio /\ r.err = kk.err /\ r.tmr = kk.tmr
      /\ r.stat = [kk.stat EXCEPT ![t] = "ready"]
  BY <1>3 DEF KernelState
<1>7. p \div GroupSize \in Group
  BY <1>1 DEF Group
<1>8. /\ r.list[p] = Append(kk.list[p], t)
      /\ \A h \in ListHead \ {p} : r.list[h] = kk.list[h]
  BY <1>1, <1>6 DEF KernelState
<1>9. r \in KernelState
  <2>1. [kk.list EXCEPT ![p] = Append(@, t)] \in [ListHead -> Seq(Thread)]
    BY <1>1, <1>5 DEF KernelState
  <2>2. kk.group \cup {p \div GroupSize} \in SUBSET Group
    BY <1>7 DEF KernelState
  <2>3. [kk.stat EXCEPT ![t] = "ready"] \in [Thread -> Stat]
    BY DEF KernelState, Stat
  <2>4. kk.table \cup {p} \in SUBSET Priority
    BY <1>1 DEF KernelState
  <2> QED BY <1>3, <2>1, <2>2, <2>3, <2>4 DEF KernelState
<1> HIDE DEF r
<1>10. LinksWith(r, kk, t, p)
  BY <1>5, <1>8 DEF LinksWith
<1>11. LinkedOnce(r)
  <2>1. \A h \in ListHead : IsInjective(r.list[h])
    BY <1>5, <1>8 DEF LinkedOnce
  <2>2. \A g, h \in ListHead, u \in Thread :
           Contains(r.list[g], u) /\ Contains(r.list[h], u) => g = h
    BY <1>10 DEF LinksWith, LinkedOnce, Linked
  <2> QED BY <2>1, <2>2 DEF LinkedOnce
<1>12. BitmapExact(r)
  <2>1. kk.table = { q \in Priority : kk.list[q] # <<>> }
    BY DEF BitmapExact
  <2>2. r.table = { q \in Priority : r.list[q] # <<>> }
    BY <1>1, <1>2, <1>5, <1>6, <1>8, <2>1
  <2>3. r.group = { q \div GroupSize : q \in r.table }
    BY <1>6 DEF BitmapExact
  <2> QED BY <2>2, <2>3 DEF BitmapExact
<1> QED BY <1>6, <1>9, <1>10, <1>11, <1>12 DEF r

-----------------------------------------------------------------------------
(* rt_schedule.                                                            *)

(* What a rescheduling leaves as it was, and who has the CPU after it. *)
Scheduled(r, kk) ==
    /\ r \in KernelState /\ LivesOK(r)
    /\ r.prio = kk.prio /\ r.tmr = kk.tmr
    /\ r.stat[r.cur] = "running"
    /\ \A u \in Thread :
          /\ kk.stat[u] \notin Runnable => r.stat[u] = kk.stat[u]
          /\ kk.stat[u] \in Runnable => r.stat[u] \in Runnable
          /\ OffStays(r, kk, u)

LEMMA IdleQueued ==
    ASSUME NEW kk \in KernelState, LivesOK(kk), kk.group = {}
    PROVE  kk.cur = Idle /\ kk.stat[kk.cur] = "running"
<1> USE KernelAssumption
<1>0. kk.table = {} <=> kk.group = {}
  BY DEF LivesOK, LinksOK, BitmapExact
<1>1. kk.table = {}
  BY <1>0
<1>2. kk.prio[Idle] \in Priority /\ kk.list[kk.prio[Idle]] \in Seq(Thread)
  BY DEF KernelState, ListHead
<1>3. kk.list[kk.prio[Idle]] = <<>>
  BY <1>1, <1>2 DEF LivesOK, LinksOK, BitmapExact
<1>4. ~Contains(kk.list[kk.prio[Idle]], Idle)
  BY <1>3 DEF Contains
<1>5. kk.stat[Idle] = "running"
  BY <1>4 DEF LivesOK, IdleReady, Runnable
<1> QED BY <1>5 DEF LivesOK, CurrentOK

LEMMA Reschedules ==
    ASSUME NEW kk \in KernelState, LivesOK(kk)
    PROVE  Scheduled(rt_schedule(kk), kk)
<1> DEFINE r == rt_schedule(kk)
<1> USE KernelAssumption
<1>1. CASE kk.group = {}
  <2>1. r = kk
    BY <1>1 DEF rt_schedule
  <2> QED BY <1>1, <2>1, IdleQueued DEF Scheduled, OffStays
<1>2. CASE kk.group # {}
  <2> DEFINE high    == HighestReady(kk)
             from    == kk.cur
             running == kk.stat[from] = "running"
             to      == IF running /\ kk.prio[from] < high
                        THEN from
                        ELSE Head(kk.list[high])
             k1      == [kk EXCEPT !.cur = to]
             k2      == IF running /\ to # from
                        THEN rt_schedule_insert_thread(k1, from)
                        ELSE k1
             k3      == rt_schedule_remove_thread(k2, to)
  <2>0. /\ kk.lock = 0 /\ LinkedOnce(kk) /\ BitmapExact(kk)
        /\ \A p \in Priority, u \in Thread :
              Contains(kk.list[p], u) => kk.stat[u] = "ready" /\ kk.prio[u] = p
        /\ \A q \in WaitQueue, u \in Thread :
              Contains(kk.list[q], u) => kk.stat[u] = "close"
        /\ \A u \in Thread : kk.tmr[u] => kk.stat[u] = "suspend"
        /\ \A t \in Thread : kk.stat[t] = "running" => t = kk.cur
        /\ kk.stat[kk.cur] # "ready"
        /\ IdleReady(kk)
    BY DEF LivesOK, LinksOK, CurrentOK
  <2>1. r = [k3 EXCEPT !.stat[to] = "running"]
    BY <1>2, <2>0 DEF rt_schedule
  <2>2. high \in kk.table
    BY <1>2, <2>0, HighestReadyIsLeast
  <2> HIDE DEF high
  <2>3. high \in Priority /\ kk.list[high] # <<>>
    BY <2>0, <2>2 DEF BitmapExact
  <2>4. Head(kk.list[high]) \in Thread /\ Contains(kk.list[high], Head(kk.list[high]))
    BY <2>3, EmptyList DEF KernelState, ListHead
  <2>5. kk.stat[Head(kk.list[high])] = "ready"
    BY <2>0, <2>3, <2>4
  <2>6. Priority \subseteq ListHead /\ WaitQueue \subseteq ListHead
    BY DEF ListHead
  <2>7. from \in Thread /\ to \in Thread /\ kk.prio \in [Thread -> Priority]
    BY <2>4 DEF KernelState
  <2>8. /\ to = from => running
        /\ to # from => Contains(kk.list[high], to) /\ kk.stat[to] = "ready"
    BY <2>0, <2>4, <2>5
  <2> HIDE DEF to
  <2>9. /\ k1 \in KernelState
        /\ k1.cur = to /\ k1.lock = 0 /\ k1.list = kk.list
        /\ k1.table = kk.table /\ k1.group = kk.group /\ k1.stat = kk.stat
        /\ k1.prio = kk.prio /\ k1.err = kk.err /\ k1.tmr = kk.tmr
    BY <2>0, <2>7 DEF KernelState
  <2> HIDE DEF k1
  <2>10. LinkedOnce(k1) /\ BitmapExact(k1)
    BY <2>0, <2>9 DEF LinkedOnce, BitmapExact
  <2>11. running => ~Linked(k1, from)
    BY <2>0, <2>6, <2>7, <2>9 DEF Linked, ListHead
  <2>12. /\ k2 \in KernelState /\ LinkedOnce(k2) /\ BitmapExact(k2)
         /\ k2.cur = to /\ k2.lock = 0
         /\ k2.prio = kk.prio /\ k2.tmr = kk.tmr
         /\ k2.stat = IF running /\ to # from
                      THEN [kk.stat EXCEPT ![from] = "ready"]
                      ELSE kk.stat
         /\ \A h \in ListHead, v \in Thread :
               Contains(k2.list[h], v) <=>
                 \/ Contains(kk.list[h], v)
                 \/ running /\ to # from /\ h = kk.prio[from] /\ v = from
    <3>1. CASE running /\ to # from
      <4>1. k2 = rt_schedule_insert_thread(k1, from)
        BY <3>1
      <4>2. from # k1.cur
        BY <2>9, <3>1
      <4> HIDE DEF running, k2
      <4>3. /\ k2 \in KernelState /\ LinkedOnce(k2) /\ BitmapExact(k2)
            /\ LinksWith(k2, k1, from, k1.prio[from])
            /\ k2.cur = k1.cur /\ k2.lock = k1.lock
            /\ k2.prio = k1.prio /\ k2.err = k1.err /\ k2.tmr = k1.tmr
            /\ k2.stat = [k1.stat EXCEPT ![from] = "ready"]
        BY <2>7, <2>9, <2>10, <2>11, <3>1, <4>1, <4>2, PutOn
      <4> QED BY <2>9, <3>1, <4>3 DEF LinksWith
    <3>2. CASE ~(running /\ to # from)
      <4>1. k2 = k1
        BY <3>2
      <4> QED BY <2>9, <2>10, <3>2, <4>1
    <3> QED BY <3>1, <3>2
  <2> HIDE DEF k2
  <2>13. /\ from # to => k2.stat[to] = kk.stat[to]
         /\ \A u \in Thread \ {from} : k2.stat[u] = kk.stat[u]
    BY <2>7, <2>12 DEF KernelState
  <2>14. \A p \in Priority : Contains(k2.list[p], to) => p = k2.prio[to]
    BY <2>0, <2>6, <2>7, <2>12
  <2>15. /\ k3 \in KernelState /\ SameThreads(k3, k2)
         /\ LinkedOnce(k3) /\ BitmapExact(k3) /\ LinksWithout(k3, k2, to)
    BY <2>7, <2>12, <2>14, TakenOff
  <2> HIDE DEF k3
  <2> HIDE DEF r
  <2>16. /\ r \in KernelState
         /\ r.cur = to /\ r.lock = 0 /\ r.list = k3.list
         /\ r.table = k3.table /\ r.group = k3.group
         /\ r.prio = kk.prio /\ r.tmr = kk.tmr
         /\ r.stat = [k2.stat EXCEPT ![to] = "running"]
    <3>1. [k3.stat EXCEPT ![to] = "running"] \in [Thread -> Stat]
      BY <2>7, <2>15 DEF KernelState, Stat
    <3> QED BY <2>1, <2>12, <2>15, <3>1 DEF KernelState, SameThreads
  <2>17. /\ r.stat[to] = "running"
         /\ \A u \in Thread \ {to} :
               r.stat[u] = IF running /\ u = from THEN "ready" ELSE kk.stat[u]
    BY <2>7, <2>12, <2>16 DEF KernelState
  <2>18. \A h \in ListHead, v \in Thread :
            Contains(r.list[h], v) <=>
              /\ v # to
              /\ \/ Contains(kk.list[h], v)
                 \/ running /\ h = kk.prio[from] /\ v = from
    BY <2>12, <2>15, <2>16 DEF LinksWithout
  <2>19. LinkedOnce(r) /\ BitmapExact(r)
    BY <2>15, <2>16 DEF LinkedOnce, BitmapExact
  <2> HIDE DEF running
  <2>20. ASSUME NEW p \in Priority, NEW u \in Thread, Contains(r.list[p], u)
         PROVE  r.stat[u] = "ready" /\ r.prio[u] = p
    BY <2>0, <2>6, <2>7, <2>16, <2>17, <2>18, <2>20
  <2>21. ASSUME NEW q \in WaitQueue, NEW u \in Thread, Contains(r.list[q], u)
         PROVE  r.stat[u] = "close"
    <3>1. q # kk.prio[from]
      BY <2>7, QueuesAreNotPriorities
    <3>2. u # to /\ Contains(kk.list[q], u)
      BY <2>6, <2>18, <2>21, <3>1
    <3>3. kk.stat[u] = "close"
      BY <2>0, <3>2
    <3> QED BY <2>17, <3>2, <3>3 DEF running
  <2>22. ASSUME NEW u \in Thread, r.tmr[u]
         PROVE  r.stat[u] = "suspend"
    <3>1. kk.stat[u] = "suspend"
      BY <2>0, <2>16, <2>22
    <3> QED BY <2>8, <2>17, <3>1 DEF running
  <2>23. CurrentOK(r)
    BY <2>0, <2>7, <2>16, <2>17 DEF CurrentOK, running
  <2>24. IdleReady(r)
    <3>1. CASE Idle = to
      BY <2>17, <3>1 DEF IdleReady, Runnable
    <3>2. CASE Idle # to
      <4>1. r.stat[Idle] = IF running /\ Idle = from THEN "ready" ELSE kk.stat[Idle]
        BY <2>17, <3>2
      <4>2. CASE kk.stat[Idle] = "running"
        <5>1. Idle = from /\ running
          BY <2>0, <4>2 DEF running
        <5>2. Contains(r.list[kk.prio[Idle]], Idle)
          BY <2>6, <2>7, <2>18, <3>2, <5>1
        <5> QED BY <2>16, <4>1, <5>1, <5>2 DEF IdleReady, Runnable
      <4>3. CASE kk.stat[Idle] = "ready"
        <5>1. Contains(kk.list[kk.prio[Idle]], Idle)
          BY <2>0, <4>3 DEF IdleReady
        <5>2. Contains(r.list[kk.prio[Idle]], Idle)
          BY <2>6, <2>7, <2>18, <3>2, <5>1
        <5>3. r.stat[Idle] = "ready"
          BY <4>1, <4>3
        <5> QED BY <2>16, <5>2, <5>3 DEF IdleReady, Runnable
      <4> QED BY <2>0, <4>2, <4>3 DEF IdleReady, Runnable
    <3> QED BY <3>1, <3>2
  <2>25. LivesOK(r)
    BY <2>16, <2>19, <2>20, <2>21, <2>22, <2>23, <2>24 DEF LivesOK, LinksOK
  <2>26. ASSUME NEW u \in Thread
         PROVE  /\ kk.stat[u] \notin Runnable => r.stat[u] = kk.stat[u]
                /\ kk.stat[u] \in Runnable => r.stat[u] \in Runnable
    BY <2>7, <2>8, <2>17 DEF Runnable, running
  <2>27. ASSUME NEW u \in Thread, Off(kk, u)
         PROVE  Off(r, u)
    <3>1. u # to
      BY <2>3, <2>6, <2>8, <2>27 DEF Off, Linked
    <3>2. ~Linked(r, u)
      BY <2>18, <2>27 DEF Off, Linked
    <3> QED BY <2>16, <2>27, <3>1, <3>2 DEF Off
  <2> QED BY <2>16, <2>17, <2>25, <2>26, <2>27 DEF Scheduled, OffStays, r
<1> QED BY <1>1, <1>2

-----------------------------------------------------------------------------
(* Threads that are suspended, and threads that die.                       *)

(* Only what the kernel keeps of t has changed: its state is s now, and    *)
(* its timer runs or not.                                                  *)
Becomes(r, kk, t, s, timer) ==
    /\ r \in KernelState /\ LivesOK(r)
    /\ r.cur = kk.cur /\ r.prio = kk.prio
    /\ r.stat = [kk.stat EXCEPT ![t] = s]
    /\ r.tmr = [kk.tmr EXCEPT ![t] = timer]
    /\ \A u \in Thread \ {t} : OffStays(r, kk, u)

LEMMA LivesParts ==
    ASSUME NEW kk, LivesOK(kk)
    PROVE  /\ kk.lock = 0 /\ LinkedOnce(kk) /\ BitmapExact(kk)
           /\ \A p \in Priority, u \in Thread :
                 Contains(kk.list[p], u) => kk.stat[u] = "ready" /\ kk.prio[u] = p
           /\ \A q \in WaitQueue, u \in Thread :
                 Contains(kk.list[q], u) => kk.stat[u] = "close"
           /\ \A u \in Thread : kk.tmr[u] => kk.stat[u] = "suspend"
           /\ \A u \in Thread : kk.stat[u] = "running" => u = kk.cur
           /\ kk.stat[kk.cur] # "ready"
           /\ IdleReady(kk)
BY DEF LivesOK, LinksOK, CurrentOK

LEMMA LinkedWhere ==
    ASSUME NEW kk, LivesOK(kk), NEW u \in Thread, Linked(kk, u)
    PROVE  kk.stat[u] \in {"ready", "close"}
BY LivesParts DEF Linked, ListHead

(* A thread in no list changes its state, and not to ready. *)
LEMMA StatChanges ==
    ASSUME NEW kk \in KernelState, LivesOK(kk), NEW r \in KernelState,
           NEW t \in Thread \ {Idle}, NEW s \in Stat \ {"ready"}, NEW m \in BOOLEAN,
           LinkedOnce(r), BitmapExact(r), LinksWithout(r, kk, t),
           r.lock = 0, r.cur = kk.cur, r.prio = kk.prio,
           r.stat = [kk.stat EXCEPT ![t] = s], r.tmr = [kk.tmr EXCEPT ![t] = m],
           m => s = "suspend", s = "running" => t = kk.cur
    PROVE  Becomes(r, kk, t, s, m)
<1>1. /\ r.stat[t] = s /\ r.tmr[t] = m
      /\ \A u \in Thread \ {t} : r.stat[u] = kk.stat[u] /\ r.tmr[u] = kk.tmr[u]
  BY DEF KernelState
<1>2. Priority \subseteq ListHead /\ WaitQueue \subseteq ListHead
  BY DEF ListHead
<1>3. /\ \A h \in ListHead : ~Contains(r.list[h], t)
      /\ \A h \in ListHead, u \in Thread \ {t} :
            Contains(r.list[h], u) <=> Contains(kk.list[h], u)
  BY DEF LinksWithout
<1>4. LinksOK(r)
  <2>1. \A p \in Priority, u \in Thread :
           Contains(r.list[p], u) => r.stat[u] = "ready" /\ r.prio[u] = p
    BY <1>1, <1>2, <1>3, LivesParts
  <2>2. \A q \in WaitQueue, u \in Thread :
           Contains(r.list[q], u) => r.stat[u] = "close"
    BY <1>1, <1>2, <1>3, LivesParts
  <2>3. \A u \in Thread : r.tmr[u] => r.stat[u] = "suspend"
    BY <1>1, LivesParts
  <2> QED BY <2>1, <2>2, <2>3 DEF LinksOK
<1>5. CurrentOK(r)
  <2>1. kk.cur \in Thread
    BY DEF KernelState
  <2> QED BY <1>1, <2>1, LivesParts DEF CurrentOK
<1>6. IdleReady(r)
  <2>1. Idle \in Thread \ {t} /\ kk.prio[Idle] \in ListHead
    BY <1>2, KernelAssumption DEF KernelState
  <2> QED BY <1>1, <1>3, <2>1, LivesParts DEF IdleReady
<1>7. \A u \in Thread \ {t} : OffStays(r, kk, u)
  BY <1>1, <1>3 DEF OffStays, Off, Linked
<1> QED BY <1>4, <1>5, <1>6, <1>7 DEF Becomes, LivesOK

LEMMA RunningIsOff ==
    ASSUME NEW kk \in KernelState, LivesOK(kk), NEW t \in Thread,
           kk.stat[t] \in {"running", "suspend", "init"}
    PROVE  \A h \in ListHead : ~Contains(kk.list[h], t)
BY LinkedWhere DEF Linked

LEMMA SuspendsCaller ==
    ASSUME NEW kk \in KernelState, LivesOK(kk), NEW t \in Thread \ {Idle},
           kk.stat[t] = "running"
    PROVE  Becomes(rt_thread_suspend(kk, t), kk, t, "suspend", FALSE)
<1> DEFINE g == rt_schedule_remove_thread(kk, t)
           r == rt_thread_suspend(kk, t)
<1>1. \A h \in ListHead : ~Contains(kk.list[h], t)
  BY RunningIsOff
<1>2. \A p \in Priority : Contains(kk.list[p], t) => p = kk.prio[t]
  BY <1>1 DEF ListHead
<1>3. /\ g \in KernelState /\ SameThreads(g, kk)
      /\ LinkedOnce(g) /\ BitmapExact(g) /\ LinksWithout(g, kk, t)
  BY <1>2, LivesParts, TakenOff
<1>4. r = [g EXCEPT !.stat[t] = "suspend", !.tmr[t]  = FALSE]
  BY DEF rt_thread_suspend, CanSuspend, Suspend
<1> HIDE DEF g, r
<1>5. /\ r \in KernelState /\ r.list = g.list /\ r.table = g.table /\ r.group = g.group
      /\ r.lock = g.lock /\ r.cur = g.cur /\ r.prio = g.prio
      /\ r.stat = [g.stat EXCEPT ![t] = "suspend"] /\ r.tmr = [g.tmr EXCEPT ![t] = FALSE]
  <2>1. [g.stat EXCEPT ![t] = "suspend"] \in [Thread -> Stat]
    BY <1>3 DEF KernelState, Stat
  <2>2. [g.tmr EXCEPT ![t] = FALSE] \in [Thread -> BOOLEAN]
    BY <1>3 DEF KernelState
  <2> QED BY <1>3, <1>4, <2>1, <2>2 DEF KernelState
<1>6. LinkedOnce(r) /\ BitmapExact(r) /\ LinksWithout(r, kk, t)
  BY <1>3, <1>5 DEF LinkedOnce, BitmapExact, LinksWithout
<1>7. /\ r.lock = 0 /\ r.cur = kk.cur /\ r.prio = kk.prio
      /\ r.stat = [kk.stat EXCEPT ![t] = "suspend"] /\ r.tmr = [kk.tmr EXCEPT ![t] = FALSE]
  BY <1>3, <1>5, LivesParts DEF SameThreads
<1>8. "suspend" \in Stat \ {"ready"} /\ FALSE \in BOOLEAN
  BY DEF Stat
<1> HIDE DEF r
<1>9. Becomes(r, kk, t, "suspend", FALSE)
  BY <1>5, <1>6, <1>7, <1>8, StatChanges
<1> QED BY <1>9 DEF r

LEMMA SleepsCaller ==
    ASSUME NEW kk \in KernelState, LivesOK(kk), NEW t \in Thread \ {Idle},
           kk.stat[t] = "running"
    PROVE  Becomes(StartTimer(rt_thread_suspend(kk, t), t), kk, t, "suspend", TRUE)
<1> DEFINE g == rt_thread_suspend(kk, t)
           r == StartTimer(g, t)
<1>1. Becomes(g, kk, t, "suspend", FALSE)
  BY SuspendsCaller
<1>2. r = [g EXCEPT !.tmr[t] = TRUE]
  BY DEF StartTimer
<1> HIDE DEF g, r
<1>3. /\ g \in KernelState /\ LivesOK(g) /\ g.cur = kk.cur /\ g.prio = kk.prio
      /\ g.stat = [kk.stat EXCEPT ![t] = "suspend"]
      /\ g.tmr = [kk.tmr EXCEPT ![t] = FALSE]
      /\ \A u \in Thread \ {t} : OffStays(g, kk, u)
  BY <1>1 DEF Becomes
<1>4. /\ r \in KernelState /\ r.list = g.list /\ r.table = g.table /\ r.group = g.group
      /\ r.lock = g.lock /\ r.cur = g.cur /\ r.prio = g.prio
      /\ r.stat = g.stat /\ r.tmr = [kk.tmr EXCEPT ![t] = TRUE]
  <2>1. [g.tmr EXCEPT ![t] = TRUE] = [kk.tmr EXCEPT ![t] = TRUE]
    BY <1>3 DEF KernelState
  <2>2. [g.tmr EXCEPT ![t] = TRUE] \in [Thread -> BOOLEAN]
    BY <1>3 DEF KernelState
  <2> QED BY <1>2, <1>3, <2>1, <2>2 DEF KernelState
<1>5. /\ r.stat[t] = "suspend"
      /\ \A u \in Thread \ {t} : r.tmr[u] = g.tmr[u]
  BY <1>3, <1>4 DEF KernelState
<1>6. LivesOK(r)
  <2>1. \A u \in Thread : r.tmr[u] => r.stat[u] = "suspend"
    BY <1>3, <1>4, <1>5, LivesParts
  <2>2. LinkedOnce(r) /\ BitmapExact(r)
    BY <1>3, <1>4 DEF LivesOK, LinksOK, LinkedOnce, BitmapExact
  <2> QED BY <1>3, <1>4, <2>1, <2>2 DEF LivesOK, LinksOK, CurrentOK, IdleReady
<1>7. \A u \in Thread \ {t} : OffStays(r, kk, u)
  BY <1>3, <1>4, <1>5 DEF OffStays, Off, Linked
<1>8. r.cur = kk.cur /\ r.prio = kk.prio /\ r.stat = [kk.stat EXCEPT ![t] = "suspend"]
  BY <1>3, <1>4
<1>9. Becomes(r, kk, t, "suspend", TRUE)
  BY <1>4, <1>6, <1>7, <1>8 DEF Becomes
<1> QED BY <1>9 DEF r, g

(* rt_schedule_remove_thread of another thread, to be deleted. *)
LEMMA RemovesOther ==
    ASSUME NEW kk \in KernelState, LivesOK(kk), NEW t \in Thread \ {Idle},
           t # kk.cur, kk.stat[t] # "close", ~kk.tmr[t]
    PROVE  LET r == rt_schedule_remove_thread(kk, t) IN
           /\ r \in KernelState /\ LivesOK(r) /\ SameThreads(r, kk) /\ Off(r, t)
           /\ \A u \in Thread : OffStays(r, kk, u)
<1> DEFINE r == rt_schedule_remove_thread(kk, t)
<1>2. \A p \in Priority : Contains(kk.list[p], t) => p = kk.prio[t]
  BY LivesParts
<1>3. /\ r \in KernelState /\ SameThreads(r, kk)
      /\ LinkedOnce(r) /\ BitmapExact(r) /\ LinksWithout(r, kk, t)
  BY <1>2, LivesParts, TakenOff
<1> HIDE DEF r
<1>4. LivesOK(r)
  <2>1. Priority \subseteq ListHead /\ WaitQueue \subseteq ListHead
    BY DEF ListHead
  <2>2. kk.prio[Idle] \in ListHead /\ Idle # t
    BY <2>1, KernelAssumption DEF KernelState
  <2>3. IdleReady(r)
    BY <1>3, <2>2, LivesParts, KernelAssumption DEF IdleReady, LinksWithout, SameThreads
  <2>4. CurrentOK(r)
    BY <1>3, LivesParts DEF CurrentOK, SameThreads
  <2>5. LinksOK(r)
    BY <1>3, <2>1, LivesParts DEF LinksOK, LinksWithout, SameThreads
  <2> QED BY <2>3, <2>4, <2>5 DEF LivesOK
<1>5. Off(r, t) /\ \A u \in Thread : OffStays(r, kk, u)
  BY <1>3 DEF OffStays, Off, Linked, LinksWithout, SameThreads
<1> QED BY <1>3, <1>4, <1>5 DEF r

-----------------------------------------------------------------------------
(* The list of defunct threads.                                            *)

LEMMA Prepends ==
    ASSUME NEW T, NEW s \in Seq(T), NEW e \in T, IsInjective(s), ~Contains(s, e)
    PROVE  LET l == <<e>> \o s IN
           /\ l \in Seq(T) /\ IsInjective(l)
           /\ \A x : Contains(l, x) <=> Contains(s, x) \/ x = e
<1> DEFINE l == <<e>> \o s
<1>1. /\ l \in Seq(T) /\ Len(l) = Len(s) + 1 /\ l[1] = e /\ Len(s) \in Nat
      /\ \A i \in 2 .. Len(s) + 1 : l[i] = s[i - 1]
      /\ \A i \in 1 .. Len(s) : l[i + 1] = s[i]
  OBVIOUS
<1> HIDE DEF l
<1>2. \A x : Contains(l, x) <=> Contains(s, x) \/ x = e
  <2> SUFFICES ASSUME NEW x PROVE Contains(l, x) <=> Contains(s, x) \/ x = e
    OBVIOUS
  <2>1. ASSUME Contains(l, x) PROVE Contains(s, x) \/ x = e
    <3>1. PICK i \in 1 .. Len(l) : l[i] = x
      BY <2>1 DEF Contains
    <3>2. CASE i = 1
      BY <1>1, <3>1, <3>2
    <3>3. CASE i # 1
      <4>1. i \in 2 .. Len(s) + 1 /\ i - 1 \in 1 .. Len(s)
        BY <1>1, <3>1, <3>3
      <4> QED BY <1>1, <3>1, <4>1 DEF Contains
    <3> QED BY <3>2, <3>3
  <2>2. ASSUME Contains(s, x) PROVE Contains(l, x)
    <3>1. PICK i \in 1 .. Len(s) : s[i] = x
      BY <2>2 DEF Contains
    <3>2. i + 1 \in 1 .. Len(l) /\ l[i + 1] = x
      BY <1>1, <3>1
    <3> QED BY <3>2 DEF Contains
  <2>3. Contains(l, e)
    <3>1. 1 \in 1 .. Len(l)
      BY <1>1
    <3> QED BY <1>1, <3>1 DEF Contains
  <2> QED BY <2>1, <2>2, <2>3
<1>3. IsInjective(l)
  <2>1. DOMAIN l = 1 .. Len(s) + 1 /\ DOMAIN s = 1 .. Len(s)
    BY <1>1
  <2>2. ASSUME NEW i \in 1 .. Len(s) + 1, NEW j \in 1 .. Len(s) + 1, l[i] = l[j], i < j
        PROVE  FALSE
    <3>1. j \in 2 .. Len(s) + 1 /\ j - 1 \in 1 .. Len(s)
      BY <1>1, <2>2
    <3>2. CASE i = 1
      <4>1. s[j - 1] = e
        BY <1>1, <2>2, <3>1, <3>2
      <4> QED BY <3>1, <4>1 DEF Contains
    <3>3. CASE i # 1
      <4>1. i \in 2 .. Len(s) + 1 /\ i - 1 \in 1 .. Len(s)
        BY <1>1, <3>3
      <4>2. s[i - 1] = s[j - 1]
        BY <1>1, <2>2, <3>1, <4>1
      <4>3. i - 1 = j - 1
        BY <2>1, <3>1, <4>1, <4>2 DEF IsInjective
      <4> QED BY <1>1, <2>2, <4>3
    <3> QED BY <3>2, <3>3
  <2>3. \A i, j \in 1 .. Len(s) + 1 : l[i] = l[j] => i = j
    <3> SUFFICES ASSUME NEW i \in 1 .. Len(s) + 1, NEW j \in 1 .. Len(s) + 1, l[i] = l[j]
                 PROVE  i = j
      OBVIOUS
    <3>1. ~(i < j) /\ ~(j < i)
      BY <2>2
    <3> QED BY <1>1, <3>1
  <2> QED BY <2>1, <2>3 DEF IsInjective
<1> QED BY <1>1, <1>2, <1>3 DEF l

(* A dead thread, in no list, is put on the list of defunct threads. *)
LEMMA JoinsDead ==
    ASSUME NEW kk \in KernelState, LivesOK(kk), NEW e \in KernelState,
           NEW t \in Thread \ {Idle},
           LinkedOnce(e), BitmapExact(e), LinksWithout(e, kk, t),
           e.lock = 0, e.cur = kk.cur, e.prio = kk.prio,
           e.stat = [kk.stat EXCEPT ![t] = "close"],
           e.tmr = [kk.tmr EXCEPT ![t] = FALSE]
    PROVE  Becomes(ToDefunct(e, t), kk, t, "close", FALSE)
<1> DEFINE r == ToDefunct(e, t)
           l == <<t>> \o e.list[defunct]
<1>1. "close" \in Stat \ {"ready"} /\ FALSE \in BOOLEAN
  BY DEF Stat
<1>2. Becomes(e, kk, t, "close", FALSE)
  BY <1>1, StatChanges
<1>3. /\ e \in KernelState /\ LivesOK(e)
      /\ \A u \in Thread \ {t} : OffStays(e, kk, u)
  BY <1>2 DEF Becomes
<1>0. /\ \A p \in Priority, u \in Thread :
            Contains(e.list[p], u) => e.stat[u] = "ready" /\ e.prio[u] = p
      /\ \A q \in WaitQueue, u \in Thread :
            Contains(e.list[q], u) => e.stat[u] = "close"
      /\ \A u \in Thread : e.tmr[u] => e.stat[u] = "suspend"
      /\ IdleReady(e)
  BY <1>3 DEF LivesOK, LinksOK
<1>4. defunct \in WaitQueue /\ defunct \in ListHead /\ defunct \notin Priority
  BY LifeAssumption, QueuesAreNotPriorities DEF ListHead
<1>5. Priority \subseteq ListHead /\ WaitQueue \subseteq ListHead
  BY DEF ListHead
<1>6. e.list[defunct] \in Seq(Thread) /\ IsInjective(e.list[defunct])
      /\ ~Contains(e.list[defunct], t)
  BY <1>4 DEF KernelState, LinkedOnce, LinksWithout
<1>7. /\ l \in Seq(Thread) /\ IsInjective(l)
      /\ \A x : Contains(l, x) <=> Contains(e.list[defunct], x) \/ x = t
  BY <1>6, Prepends
<1>8. r = [e EXCEPT !.list[defunct] = l]
  BY DEF ToDefunct
<1> HIDE DEF l, r
<1>9. /\ r \in KernelState /\ r.table = e.table /\ r.group = e.group
      /\ r.lock = e.lock /\ r.cur = e.cur /\ r.prio = e.prio
      /\ r.stat = e.stat /\ r.tmr = e.tmr /\ r.list = [e.list EXCEPT ![defunct] = l]
  <2>1. [e.list EXCEPT ![defunct] = l] \in [ListHead -> Seq(Thread)]
    BY <1>7 DEF KernelState
  <2> QED BY <1>8, <2>1 DEF KernelState
<1>10. /\ r.list[defunct] = l
       /\ \A h \in ListHead \ {defunct} : r.list[h] = e.list[h]
  BY <1>4, <1>9 DEF KernelState
<1>11. LinksWith(r, e, t, defunct)
  BY <1>7, <1>10 DEF LinksWith
<1>12. LinkedOnce(r)
  <2>1. \A h \in ListHead : IsInjective(r.list[h])
    BY <1>7, <1>10 DEF LinkedOnce
  <2>2. \A h \in ListHead : ~Contains(e.list[h], t)
    BY DEF LinksWithout
  <2>3. \A g, h \in ListHead, u \in Thread :
           Contains(r.list[g], u) /\ Contains(r.list[h], u) => g = h
    BY <1>11, <2>2 DEF LinksWith, LinkedOnce
  <2> QED BY <2>1, <2>3 DEF LinkedOnce
<1>13. BitmapExact(r)
  BY <1>4, <1>5, <1>9, <1>10 DEF BitmapExact
<1>14. e.stat[t] = "close"
  BY DEF KernelState
<1>15. LinksOK(r)
  <2>1. \A p \in Priority, u \in Thread :
           Contains(r.list[p], u) => r.stat[u] = "ready" /\ r.prio[u] = p
    BY <1>4, <1>5, <1>9, <1>10, <1>0
  <2>2. \A q \in WaitQueue, u \in Thread :
           Contains(r.list[q], u) => r.stat[u] = "close"
    <3>1. \A q \in WaitQueue, u \in Thread :
             Contains(r.list[q], u) => Contains(e.list[q], u) \/ u = t
      BY <1>5, <1>11 DEF LinksWith
    <3> QED BY <1>9, <1>14, <3>1, <1>0
  <2>3. \A u \in Thread : r.tmr[u] => r.stat[u] = "suspend"
    BY <1>9, <1>0
  <2> QED BY <1>9, <1>12, <1>13, <2>1, <2>2, <2>3 DEF LinksOK
<1>16. IdleReady(r)
  <2>1. e.prio[Idle] \in Priority /\ e.prio[Idle] \in ListHead \ {defunct}
    BY <1>4, <1>5, KernelAssumption DEF KernelState
  <2> QED BY <1>9, <1>10, <2>1, <1>0 DEF IdleReady
<1>17. CurrentOK(r)
  BY <1>3, <1>9 DEF LivesOK, CurrentOK
<1>18. \A u \in Thread \ {t} : OffStays(r, kk, u)
  <2>1. \A u \in Thread \ {t} : OffStays(r, e, u)
    BY <1>9, <1>11 DEF OffStays, Off, Linked, LinksWith
  <2> QED BY <1>3, <2>1 DEF OffStays
<1>19. Becomes(r, kk, t, "close", FALSE)
  BY <1>9, <1>15, <1>16, <1>17, <1>18 DEF Becomes, LivesOK
<1> QED BY <1>19 DEF r

LEMMA ExitsCaller ==
    ASSUME NEW kk \in KernelState, LivesOK(kk), NEW t \in Thread \ {Idle},
           kk.stat[t] = "running"
    PROVE  Becomes(Exited(kk, t), kk, t, "close", FALSE)
<1> DEFINE g == rt_schedule_remove_thread(kk, t)
           e == [g EXCEPT !.stat[t] = "close", !.tmr[t] = FALSE]
<1>1. \A h \in ListHead : ~Contains(kk.list[h], t)
  BY RunningIsOff
<1>2. \A p \in Priority : Contains(kk.list[p], t) => p = kk.prio[t]
  BY <1>1 DEF ListHead
<1>3. /\ g \in KernelState /\ SameThreads(g, kk)
      /\ LinkedOnce(g) /\ BitmapExact(g) /\ LinksWithout(g, kk, t)
  BY <1>2, LivesParts, TakenOff
<1>4. Exited(kk, t) = ToDefunct(e, t)
  BY DEF Exited
<1> HIDE DEF g
<1>5. /\ e \in KernelState /\ e.list = g.list /\ e.table = g.table /\ e.group = g.group
      /\ e.lock = g.lock /\ e.cur = g.cur /\ e.prio = g.prio
      /\ e.stat = [g.stat EXCEPT ![t] = "close"] /\ e.tmr = [g.tmr EXCEPT ![t] = FALSE]
  <2>1. [g.stat EXCEPT ![t] = "close"] \in [Thread -> Stat]
    BY <1>3 DEF KernelState, Stat
  <2>2. [g.tmr EXCEPT ![t] = FALSE] \in [Thread -> BOOLEAN]
    BY <1>3 DEF KernelState
  <2> QED BY <1>3, <2>1, <2>2 DEF KernelState
<1> HIDE DEF e
<1>6. LinkedOnce(e) /\ BitmapExact(e) /\ LinksWithout(e, kk, t)
  BY <1>3, <1>5 DEF LinkedOnce, BitmapExact, LinksWithout
<1>7. /\ e.lock = 0 /\ e.cur = kk.cur /\ e.prio = kk.prio
      /\ e.stat = [kk.stat EXCEPT ![t] = "close"] /\ e.tmr = [kk.tmr EXCEPT ![t] = FALSE]
  BY <1>3, <1>5, LivesParts DEF SameThreads
<1>8. Becomes(ToDefunct(e, t), kk, t, "close", FALSE)
  BY <1>5, <1>6, <1>7, JoinsDead
<1> QED BY <1>4, <1>8

LEMMA ClosesOther ==
    ASSUME NEW kk \in KernelState, LivesOK(kk), NEW t \in Thread \ {Idle}, Off(kk, t)
    PROVE  Becomes(ToDefunct([kk EXCEPT !.stat[t] = "close"], t), kk, t, "close", FALSE)
<1> DEFINE e == [kk EXCEPT !.stat[t] = "close"]
<1>1. /\ e \in KernelState /\ e.list = kk.list /\ e.table = kk.table /\ e.group = kk.group
      /\ e.lock = kk.lock /\ e.cur = kk.cur /\ e.prio = kk.prio
      /\ e.stat = [kk.stat EXCEPT ![t] = "close"] /\ e.tmr = kk.tmr
  <2>1. [kk.stat EXCEPT ![t] = "close"] \in [Thread -> Stat]
    BY DEF KernelState, Stat
  <2> QED BY <2>1 DEF KernelState
<1>2. kk.tmr = [kk.tmr EXCEPT ![t] = FALSE]
  BY DEF KernelState, Off
<1> HIDE DEF e
<1>3. LinkedOnce(e) /\ BitmapExact(e) /\ LinksWithout(e, kk, t)
  BY <1>1, LivesParts DEF LinkedOnce, BitmapExact, LinksWithout, Off, Linked
<1>4. e.lock = 0 /\ e.tmr = [kk.tmr EXCEPT ![t] = FALSE]
  BY <1>1, <1>2, LivesParts
<1>5. Becomes(ToDefunct(e, t), kk, t, "close", FALSE)
  BY <1>1, <1>3, <1>4, JoinsDead
<1> QED BY <1>5 DEF e

-----------------------------------------------------------------------------
(* Threads that become ready.                                              *)

(* Only what the kernel keeps of t, besides its timer and its links, has   *)
(* changed.                                                                *)
SameOthers(r, kk, t) ==
    /\ r.list = kk.list /\ r.table = kk.table /\ r.group = kk.group
    /\ r.lock = kk.lock /\ r.cur = kk.cur /\ r.tmr = kk.tmr
    /\ r.prio = [kk.prio EXCEPT ![t] = r.prio[t]]
    /\ r.stat = [kk.stat EXCEPT ![t] = r.stat[t]]

(* A thread nothing refers to may be given any state but ready or running. *)
LEMMA OffTouched ==
    ASSUME NEW kk \in KernelState, LivesOK(kk), NEW r \in KernelState,
           NEW t \in Thread \ {Idle}, Off(kk, t), SameOthers(r, kk, t),
           r.stat[t] # "running"
    PROVE  LivesOK(r) /\ \A u \in Thread : OffStays(r, kk, u)
<1>1. /\ \A u \in Thread \ {t} : r.stat[u] = kk.stat[u] /\ r.prio[u] = kk.prio[u]
      /\ r.list = kk.list /\ r.lock = kk.lock /\ r.cur = kk.cur /\ r.tmr = kk.tmr
  BY DEF KernelState, SameOthers
<1>2. Priority \subseteq ListHead /\ WaitQueue \subseteq ListHead
  BY DEF ListHead
<1>3. t # kk.cur /\ ~kk.tmr[t] /\ \A h \in ListHead : ~Contains(kk.list[h], t)
  BY DEF Off, Linked
<1>4. LinkedOnce(r) /\ BitmapExact(r)
  BY LivesParts DEF LinkedOnce, BitmapExact, SameOthers
<1>5. LinksOK(r)
  <2>1. \A p \in Priority, u \in Thread :
           Contains(r.list[p], u) => r.stat[u] = "ready" /\ r.prio[u] = p
    BY <1>1, <1>2, <1>3, LivesParts
  <2>2. \A q \in WaitQueue, u \in Thread :
           Contains(r.list[q], u) => r.stat[u] = "close"
    BY <1>1, <1>2, <1>3, LivesParts
  <2>3. \A u \in Thread : r.tmr[u] => r.stat[u] = "suspend"
    BY <1>1, <1>3, LivesParts
  <2>4. r.lock = 0
    BY <1>1, LivesParts
  <2> QED BY <1>4, <2>1, <2>2, <2>3, <2>4 DEF LinksOK
<1>6. CurrentOK(r)
  <2>1. kk.cur \in Thread
    BY DEF KernelState
  <2> QED BY <1>1, <1>3, <2>1, LivesParts DEF CurrentOK
<1>7. IdleReady(r)
  BY <1>1, LivesParts, KernelAssumption DEF IdleReady
<1>8. \A u \in Thread : OffStays(r, kk, u)
  BY <1>1 DEF OffStays, Off, Linked
<1> QED BY <1>5, <1>6, <1>7, <1>8 DEF LivesOK

(* A thread in no list that waits is made ready, or runs if it has the     *)
(* CPU still.                                                              *)
LEMMA Inserts ==
    ASSUME NEW kk \in KernelState, LivesOK(kk), NEW g \in KernelState,
           NEW t \in Thread \ {Idle},
           LinkedOnce(g), BitmapExact(g), LinksWithout(g, kk, t),
           g.lock = 0, g.cur = kk.cur, g.prio = kk.prio,
           \A u \in Thread \ {t} : g.stat[u] = kk.stat[u],
           g.tmr = [kk.tmr EXCEPT ![t] = FALSE]
    PROVE  LET s == IF t = kk.cur THEN "running" ELSE "ready"
           IN  Becomes(rt_schedule_insert_thread(g, t), kk, t, s, FALSE)
<1> DEFINE r == rt_schedule_insert_thread(g, t)
<1>0. FALSE \in BOOLEAN
  OBVIOUS
<1>1. CASE t = kk.cur
  <2>1. r = [g EXCEPT !.stat[t] = "running"]
    BY <1>1 DEF rt_schedule_insert_thread
  <2> HIDE DEF r
  <2>2. /\ r \in KernelState /\ r.list = g.list /\ r.table = g.table /\ r.group = g.group
        /\ r.lock = g.lock /\ r.cur = g.cur /\ r.prio = g.prio /\ r.tmr = g.tmr
        /\ r.stat = [g.stat EXCEPT ![t] = "running"]
    <3>1. [g.stat EXCEPT ![t] = "running"] \in [Thread -> Stat]
      BY DEF KernelState, Stat
    <3> QED BY <2>1, <3>1 DEF KernelState
  <2>3. [g.stat EXCEPT ![t] = "running"] = [kk.stat EXCEPT ![t] = "running"]
    BY DEF KernelState
  <2>4. LinkedOnce(r) /\ BitmapExact(r) /\ LinksWithout(r, kk, t)
    BY <2>2 DEF LinkedOnce, BitmapExact, LinksWithout
  <2>5. "running" \in Stat \ {"ready"}
    BY DEF Stat
  <2>6. /\ r.lock = 0 /\ r.cur = kk.cur /\ r.prio = kk.prio
        /\ r.stat = [kk.stat EXCEPT ![t] = "running"]
        /\ r.tmr = [kk.tmr EXCEPT ![t] = FALSE]
    BY <2>2, <2>3
  <2>7. Becomes(r, kk, t, "running", FALSE)
    BY <1>0, <1>1, <2>2, <2>4, <2>5, <2>6, StatChanges
  <2> QED BY <1>1, <2>7 DEF r
<1>2. CASE t # kk.cur
  <2>1. ~Linked(g, t) /\ t # g.cur
    BY <1>2 DEF Linked, LinksWithout
  <2>2. /\ r \in KernelState /\ LinkedOnce(r) /\ BitmapExact(r)
        /\ LinksWith(r, g, t, g.prio[t])
        /\ r.cur = g.cur /\ r.lock = g.lock
        /\ r.prio = g.prio /\ r.err = g.err /\ r.tmr = g.tmr
        /\ r.stat = [g.stat EXCEPT ![t] = "ready"]
    BY <2>1, PutOn
  <2> HIDE DEF r
  <2>3. r.stat = [kk.stat EXCEPT ![t] = "ready"]
    <3>1. [g.stat EXCEPT ![t] = "ready"] = [kk.stat EXCEPT ![t] = "ready"]
      BY DEF KernelState
    <3> QED BY <2>2, <3>1
  <2>4. /\ r.stat[t] = "ready" /\ ~r.tmr[t]
        /\ \A u \in Thread \ {t} : r.stat[u] = kk.stat[u] /\ r.tmr[u] = kk.tmr[u]
        /\ r.prio = kk.prio /\ kk.prio[t] \in Priority
    BY <2>2, <2>3 DEF KernelState
  <2>5. Priority \subseteq ListHead /\ WaitQueue \subseteq ListHead
    BY DEF ListHead
  <2>6. \A h \in ListHead, u \in Thread :
           Contains(r.list[h], u) <=>
               (Contains(kk.list[h], u) /\ u # t) \/ (h = kk.prio[t] /\ u = t)
    BY <2>2 DEF LinksWith, LinksWithout
  <2>7. LinksOK(r)
    <3>1. \A p \in Priority, u \in Thread :
             Contains(r.list[p], u) => r.stat[u] = "ready" /\ r.prio[u] = p
      BY <2>4, <2>5, <2>6, LivesParts
    <3>2. \A q \in WaitQueue, u \in Thread :
             Contains(r.list[q], u) => r.stat[u] = "close"
      <4> SUFFICES ASSUME NEW q \in WaitQueue, NEW u \in Thread, Contains(r.list[q], u)
                   PROVE  r.stat[u] = "close"
        OBVIOUS
      <4>1. q # kk.prio[t]
        BY <2>4, QueuesAreNotPriorities
      <4>2. Contains(kk.list[q], u) /\ u # t
        BY <2>5, <2>6, <4>1
      <4> QED BY <2>4, <4>2, LivesParts
    <3>3. \A u \in Thread : r.tmr[u] => r.stat[u] = "suspend"
      BY <2>4, LivesParts
    <3> QED BY <2>2, <3>1, <3>2, <3>3 DEF LinksOK
  <2>8. CurrentOK(r)
    <3>1. kk.cur \in Thread /\ r.cur = kk.cur
      BY <2>2 DEF KernelState
    <3> QED BY <1>2, <2>4, <3>1, LivesParts DEF CurrentOK
  <2>9. IdleReady(r)
    <3>1. Idle \in Thread \ {t} /\ kk.prio[Idle] \in ListHead
      BY <2>5, KernelAssumption DEF KernelState
    <3> QED BY <2>4, <2>6, <3>1, LivesParts DEF IdleReady
  <2>10. \A u \in Thread \ {t} : OffStays(r, kk, u)
    BY <2>2, <2>4, <2>6 DEF OffStays, Off, Linked
  <2>11. Becomes(r, kk, t, "ready", FALSE)
    BY <2>2, <2>3, <2>7, <2>8, <2>9, <2>10 DEF Becomes, LivesOK
  <2> QED BY <1>2, <2>11 DEF r
<1> QED BY <1>1, <1>2

-----------------------------------------------------------------------------
(* rt_thread_timeout, and the dead thread that idle takes off its list.    *)

(* rt_list_remove of a thread in no ready list, when only its state, error *)
(* and timer have changed.                                                 *)
LEMMA UnlinksWaiting ==
    ASSUME NEW kk \in KernelState, LivesOK(kk), NEW e \in KernelState, NEW t \in Thread,
           e.list = kk.list, e.table = kk.table, e.group = kk.group,
           e.lock = kk.lock, e.cur = kk.cur, e.prio = kk.prio,
           \A h \in ListHead : ~Contains(kk.list[h], t)
    PROVE  LET g == rt_list_remove(e, t) IN
           /\ g \in KernelState /\ SameThreads(g, e)
           /\ LinkedOnce(g) /\ BitmapExact(g) /\ LinksWithout(g, kk, t)
<1>1. LinkedOnce(e) /\ BitmapExact(e)
  BY LivesParts DEF LinkedOnce, BitmapExact
<1>2. \A p \in Priority : ~Contains(e.list[p], t)
  BY DEF ListHead
<1>3. LET g == rt_list_remove(e, t) IN
      /\ g \in KernelState /\ SameThreads(g, e)
      /\ LinkedOnce(g) /\ BitmapExact(g) /\ LinksWithout(g, e, t)
  BY <1>1, <1>2, Unlinked
<1> QED BY <1>3 DEF LinksWithout

(* rt_thread_resume of a thread that waits, or is started. *)
LEMMA Resumes ==
    ASSUME NEW kk \in KernelState, LivesOK(kk), NEW e \in KernelState,
           NEW t \in Thread \ {Idle},
           e.list = kk.list, e.table = kk.table, e.group = kk.group,
           e.lock = kk.lock, e.cur = kk.cur, e.prio = kk.prio, e.tmr = kk.tmr,
           e.stat = [kk.stat EXCEPT ![t] = "suspend"],
           \A h \in ListHead : ~Contains(kk.list[h], t)
    PROVE  LET s == IF t = kk.cur THEN "running" ELSE "ready"
           IN  Becomes(rt_thread_resume(e, t), kk, t, s, FALSE)
<1> DEFINE g0 == rt_list_remove(e, t)
           g  == ResumeUnlink(e, t)
<1>1. /\ g0 \in KernelState /\ SameThreads(g0, e)
      /\ LinkedOnce(g0) /\ BitmapExact(g0) /\ LinksWithout(g0, kk, t)
  BY UnlinksWaiting
<1>2. g = [g0 EXCEPT !.tmr[t] = FALSE]
  BY DEF ResumeUnlink
<1>3. e.stat[t] = "suspend"
  BY DEF KernelState
<1>4. rt_thread_resume(e, t) = rt_schedule_insert_thread(g, t)
  BY <1>3 DEF rt_thread_resume
<1> HIDE DEF g0, g
<1>5. /\ g \in KernelState /\ g.list = g0.list /\ g.table = g0.table /\ g.group = g0.group
      /\ g.lock = g0.lock /\ g.cur = g0.cur /\ g.prio = g0.prio /\ g.stat = g0.stat
      /\ g.tmr = [g0.tmr EXCEPT ![t] = FALSE]
  <2>1. [g0.tmr EXCEPT ![t] = FALSE] \in [Thread -> BOOLEAN]
    BY <1>1 DEF KernelState
  <2> QED BY <1>1, <1>2, <2>1 DEF KernelState
<1>6. LinkedOnce(g) /\ BitmapExact(g) /\ LinksWithout(g, kk, t)
  BY <1>1, <1>5 DEF LinkedOnce, BitmapExact, LinksWithout
<1>7. /\ g.lock = 0 /\ g.cur = kk.cur /\ g.prio = kk.prio
      /\ g.tmr = [kk.tmr EXCEPT ![t] = FALSE] /\ g.stat = e.stat
  BY <1>1, <1>5, LivesParts DEF SameThreads
<1>8. \A u \in Thread \ {t} : g.stat[u] = kk.stat[u]
  BY <1>7 DEF KernelState
<1>9. LET s == IF t = kk.cur THEN "running" ELSE "ready"
      IN  Becomes(rt_schedule_insert_thread(g, t), kk, t, s, FALSE)
  BY <1>5, <1>6, <1>7, <1>8, Inserts
<1> QED BY <1>4, <1>9

LEMMA StartsThread ==
    ASSUME NEW kk \in KernelState, LivesOK(kk), NEW t \in Thread \ {Idle}, Off(kk, t)
    PROVE  Becomes(rt_thread_resume([kk EXCEPT !.stat[t] = "suspend"], t),
                   kk, t, "ready", FALSE)
<1> DEFINE e == [kk EXCEPT !.stat[t] = "suspend"]
<1>1. /\ e \in KernelState /\ e.list = kk.list /\ e.table = kk.table /\ e.group = kk.group
      /\ e.lock = kk.lock /\ e.cur = kk.cur /\ e.prio = kk.prio /\ e.tmr = kk.tmr
      /\ e.stat = [kk.stat EXCEPT ![t] = "suspend"]
  <2>1. [kk.stat EXCEPT ![t] = "suspend"] \in [Thread -> Stat]
    BY DEF KernelState, Stat
  <2> QED BY <2>1 DEF KernelState
<1> HIDE DEF e
<1>2. t # kk.cur /\ \A h \in ListHead : ~Contains(kk.list[h], t)
  BY DEF Off, Linked
<1>3. Becomes(rt_thread_resume(e, t), kk, t, "ready", FALSE)
  BY <1>1, <1>2, Resumes
<1> QED BY <1>3 DEF e

(* What comes of t being woken and the CPU going to who is most urgent.    *)
Woken(r, kk, t) ==
    /\ r \in KernelState /\ LivesOK(r)
    /\ r.prio = kk.prio /\ r.stat[r.cur] = "running" /\ r.stat[t] \in Runnable
    /\ \A u \in Thread : r.tmr[u] => kk.tmr[u]
    /\ \A u \in Thread \ {t} :
          /\ kk.stat[u] \notin Runnable => r.stat[u] = kk.stat[u]
          /\ kk.stat[u] \in Runnable => r.stat[u] \in Runnable
          /\ OffStays(r, kk, u)

LEMMA WokenScheduled ==
    ASSUME NEW kk \in KernelState, NEW g, NEW t \in Thread, NEW s \in Runnable,
           Becomes(g, kk, t, s, FALSE)
    PROVE  Woken(rt_schedule(g), kk, t)
<1> DEFINE r == rt_schedule(g)
<1>1. /\ g \in KernelState /\ LivesOK(g) /\ g.prio = kk.prio
      /\ g.stat = [kk.stat EXCEPT ![t] = s] /\ g.tmr = [kk.tmr EXCEPT ![t] = FALSE]
      /\ \A u \in Thread \ {t} : OffStays(g, kk, u)
  BY DEF Becomes
<1>2. Scheduled(r, g)
  BY <1>1, Reschedules
<1> HIDE DEF r
<1>3. /\ g.stat[t] = s /\ \A u \in Thread \ {t} : g.stat[u] = kk.stat[u]
      /\ \A u \in Thread : g.tmr[u] => kk.tmr[u]
  BY <1>1 DEF KernelState
<1>4. Woken(r, kk, t)
  BY <1>1, <1>2, <1>3 DEF Scheduled, Woken, OffStays
<1> QED BY <1>4 DEF r

LEMMA WakesThread ==
    ASSUME NEW kk \in KernelState, LivesOK(kk), NEW t \in Thread, kk.stat[t] = "suspend"
    PROVE  Woken(rt_schedule(rt_thread_resume(kk, t)), kk, t)
<1>1. t # Idle
  BY LivesParts DEF IdleReady, Runnable
<1>2. \A h \in ListHead : ~Contains(kk.list[h], t)
  BY RunningIsOff
<1>3. kk.stat = [kk.stat EXCEPT ![t] = "suspend"]
  BY DEF KernelState
<1>4. PICK s \in Runnable : Becomes(rt_thread_resume(kk, t), kk, t, s, FALSE)
  <2>1. LET s == IF t = kk.cur THEN "running" ELSE "ready"
        IN  Becomes(rt_thread_resume(kk, t), kk, t, s, FALSE)
    BY <1>1, <1>2, <1>3, Resumes
  <2> QED BY <2>1 DEF Runnable
<1> QED BY <1>4, WokenScheduled

LEMMA TimesOutThread ==
    ASSUME NEW kk \in KernelState, LivesOK(kk), NEW t \in Thread, kk.tmr[t]
    PROVE  Woken(rt_thread_timeout(kk, t), kk, t)
<1> DEFINE e == [kk EXCEPT !.tmr[t] = FALSE, !.err[t] = "timeout"]
           g == rt_list_remove(e, t)
<1>0. kk.stat[t] = "suspend"
  BY LivesParts
<1>1. t # Idle
  BY <1>0, LivesParts DEF IdleReady, Runnable
<1>2. \A h \in ListHead : ~Contains(kk.list[h], t)
  BY <1>0, RunningIsOff
<1>3. /\ e \in KernelState /\ e.list = kk.list /\ e.table = kk.table /\ e.group = kk.group
      /\ e.lock = kk.lock /\ e.cur = kk.cur /\ e.prio = kk.prio /\ e.stat = kk.stat
      /\ e.tmr = [kk.tmr EXCEPT ![t] = FALSE]
  <2>1. [kk.tmr EXCEPT ![t] = FALSE] \in [Thread -> BOOLEAN]
    BY DEF KernelState
  <2>2. [kk.err EXCEPT ![t] = "timeout"] \in [Thread -> Error]
    BY DEF KernelState, Error
  <2> QED BY <2>1, <2>2 DEF KernelState
<1>4. rt_thread_timeout(kk, t) = rt_schedule(rt_schedule_insert_thread(g, t))
  BY DEF rt_thread_timeout, TimedOut
<1> HIDE DEF e
<1>5. /\ g \in KernelState /\ SameThreads(g, e)
      /\ LinkedOnce(g) /\ BitmapExact(g) /\ LinksWithout(g, kk, t)
  BY <1>2, <1>3, UnlinksWaiting
<1> HIDE DEF g
<1>6. /\ g.lock = 0 /\ g.cur = kk.cur /\ g.prio = kk.prio
      /\ g.tmr = [kk.tmr EXCEPT ![t] = FALSE] /\ g.stat = kk.stat
  BY <1>3, <1>5, LivesParts DEF SameThreads
<1>7. PICK s \in Runnable : Becomes(rt_schedule_insert_thread(g, t), kk, t, s, FALSE)
  <2>1. LET s == IF t = kk.cur THEN "running" ELSE "ready"
        IN  Becomes(rt_schedule_insert_thread(g, t), kk, t, s, FALSE)
    BY <1>1, <1>5, <1>6, Inserts
  <2> QED BY <2>1 DEF Runnable
<1> QED BY <1>4, <1>7, WokenScheduled

(* The idle thread takes the first dead thread off its list. *)
LEMMA TakesDead ==
    ASSUME NEW kk \in KernelState, LivesOK(kk), kk.stat[kk.cur] = "running",
           kk.list[defunct] # <<>>
    PROVE  LET t == Head(kk.list[defunct])
               r == rt_schedule(rt_list_remove(kk, t))
           IN  /\ t \in Thread \ {Idle} /\ kk.stat[t] = "close" /\ Linked(kk, t)
               /\ Scheduled(r, kk) /\ Off(r, t)
<1> DEFINE t == Head(kk.list[defunct])
           g == rt_list_remove(kk, t)
           r == rt_schedule(g)
<1>1. defunct \in WaitQueue /\ defunct \in ListHead
  BY LifeAssumption DEF ListHead
<1>2. t \in Thread /\ Contains(kk.list[defunct], t)
  BY <1>1, EmptyList DEF KernelState
<1> HIDE DEF t
<1>3. kk.stat[t] = "close" /\ Linked(kk, t)
  BY <1>1, <1>2, LivesParts DEF Linked
<1>4. t # Idle /\ t # kk.cur /\ ~kk.tmr[t]
  BY <1>2, <1>3, LivesParts DEF IdleReady, Runnable
<1>5. \A p \in Priority : ~Contains(kk.list[p], t)
  BY <1>2, <1>3, LivesParts
<1>6. /\ g \in KernelState /\ SameThreads(g, kk)
      /\ LinkedOnce(g) /\ BitmapExact(g) /\ LinksWithout(g, kk, t)
  BY <1>2, <1>5, LivesParts, Unlinked
<1> HIDE DEF g
<1>7. LivesOK(g)
  <2>1. Priority \subseteq ListHead /\ WaitQueue \subseteq ListHead
    BY DEF ListHead
  <2>2. kk.prio[Idle] \in ListHead /\ Idle \in Thread
    BY <2>1, KernelAssumption DEF KernelState
  <2>3. IdleReady(g)
    BY <1>4, <1>6, <2>2, LivesParts DEF IdleReady, LinksWithout, SameThreads
  <2>4. CurrentOK(g)
    BY <1>6, LivesParts DEF CurrentOK, SameThreads
  <2>5. LinksOK(g)
    BY <1>6, <2>1, LivesParts DEF LinksOK, LinksWithout, SameThreads
  <2> QED BY <2>3, <2>4, <2>5 DEF LivesOK
<1>8. Off(g, t) /\ \A u \in Thread : OffStays(g, kk, u)
  BY <1>2, <1>4, <1>6 DEF OffStays, Off, Linked, LinksWithout, SameThreads
<1>9. Scheduled(r, g)
  BY <1>6, <1>7, Reschedules
<1> HIDE DEF r
<1>10. Scheduled(r, kk) /\ Off(r, t)
  BY <1>2, <1>6, <1>8, <1>9 DEF Scheduled, SameThreads, OffStays
<1> QED BY <1>2, <1>3, <1>4, <1>10 DEF r, g, t

-----------------------------------------------------------------------------
(* The inductive invariant.                                                *)

(* Where a thread is, in its calls. *)
InMalloc == {"malloc", "page", "zone"}
AboutThread == {"register", "stack", "created", "unlink", "free_object",
                "remove", "detach", "close", "free_stack", "free_stack_pages"}
Outside == {"user", "sched"}
Holding == {"zone", "free_stack_pages", "free_pages"}
Places == InMalloc \cup AboutThread \cup Outside \cup {"free_pages"}

(* What goes with the place: its target, what it allocates, what it holds. *)
PlaceOK(t) ==
    /\ pc[t] \in Places
    /\ want[t] \in {Tcb, Text}
    /\ pc[t] \notin InMalloc => want[t] = Tcb
    /\ pc[t] \in AboutThread => target[t] # NULL
    /\ target[t] # NULL => pc[t] \in AboutThread \/ (pc[t] \in InMalloc /\ want[t] = Text)
    /\ block[t] # NoBlock <=> pc[t] \in Holding
    /\ pc[t] = "zone" => block[t].page = zone_page_cnt

(* A call about thread x has come to this place. *)
AboutOK(x, at) ==
    /\ x \in object <=> at \notin {"register", "free_object"}
    /\ at \in {"register", "stack", "created"} \cup InMalloc => k.stat[x] = "init"
    /\ at \in {"unlink", "free_object"} => k.stat[x] \in {"init", "close"}
    /\ at \in {"free_stack", "free_stack_pages"} => k.stat[x] = "close"
    /\ at = "remove" => k.stat[x] \notin {"init", "close"} /\ k.prio[x] \in Deletable
    /\ at \in {"detach", "close"} => k.prio[x] \in Deletable \/ k.stat[x] = "init"
    /\ at # "remove" => Off(k, x)

(* A thread inside a call lives, and nobody deletes it. *)
CallerOK(t) ==
    pc[t] \notin Outside =>
        t = Idle \/ (t \in object /\ k.prio[t] \notin Deletable /\ k.stat[t] \in Runnable)

CallOK(t) ==
    /\ PlaceOK(t)
    /\ target[t] # NULL => AboutOK(target[t], pc[t])
    /\ CallerOK(t)

(* Two calls are about two threads. *)
TargetsApart == \A t, u \in Thread : target[t] = target[u] /\ target[t] # NULL => t = u

About(x) == \E t \in Thread : target[t] = x

(* The kernel knows nothing of memory that is no thread. *)
StrangerOK(x) ==
    x \notin object \cup {Idle} => Off(k, x) /\ (~About(x) => k.stat[x] = "init")

TypesOK ==
    /\ TypeOK
    /\ pc \in [Thread -> Places] /\ want \in [Thread -> ChunkSize]
    /\ block \in [Thread -> Runs \cup {NoBlock}]

LifeOK ==
    /\ TypesOK
    /\ LivesOK(k)
    /\ \A t \in Thread : CallOK(t)
    /\ TargetsApart
    /\ \A x \in Thread : StrangerOK(x)
    /\ \A x \in Thread : k.prio[x] \in Deletable => ~k.tmr[x]
    /\ pc[k.cur] # "sched" => k.stat[k.cur] = "running"

Hands == {block[t] : t \in InHand}

HandsApart == \A t, u \in InHand : t # u => block[t] # block[u]

Blocks == SmallBlocks(heap) \cup {PAGE * p : p \in LargeBlocks(heap)}

ThreadBlocks == object \cup Targets({"register", "free_object"})

Complete == object \ Targets({"stack", "free_stack_pages", "unlink"} \cup InMalloc)

(* The blocks are the texts tx, the threads th, and of those in cp also    *)
(* the stacks.                                                             *)
Owned(small, blocks, tx, th, cp, st) ==
    LET stacks == {st[x] : x \in cp}
    IN  /\ Range(tx) \cup th \cup stacks = blocks
        /\ Range(tx) \subseteq small /\ th \subseteq small
        /\ Range(tx) \cap th = {} /\ Range(tx) \cap stacks = {} /\ th \cap stacks = {}
        /\ IsInjective(tx)
        /\ \A x, y \in cp : x # y => st[x] # st[y]

MemoryOK ==
    /\ HeapOK(heap, Hands) /\ HandsApart
    /\ texts \in Seq(Nat)
    /\ Owned(SmallBlocks(heap), Blocks, texts, ThreadBlocks, Complete, stack)

IInv == LifeOK /\ MemoryOK

-----------------------------------------------------------------------------
(* What a step changes, and what it leaves.                                *)

Unborn == {"init", "close"}

(* What a step of the kernel leaves of a thread it is not about. *)
Kept(r, kk, y) ==
    /\ r.prio[y] = kk.prio[y]
    /\ kk.stat[y] \in Unborn => r.stat[y] = kk.stat[y]
    /\ kk.stat[y] \notin Unborn => r.stat[y] \notin Unborn
    /\ OffStays(r, kk, y)

(* A step of the program changes where t is only. *)
ActsAlone(t) ==
    \A u \in Thread \ {t} :
       pc'[u] = pc[u] /\ target'[u] = target[u] /\ want'[u] = want[u] /\ block'[u] = block[u]

(* A step of t, on what the kernel keeps of Y. *)
Leaves(t, Y) ==
    /\ ActsAlone(t)
    /\ \A y \in Thread \ Y : Kept(k', k, y) /\ (y \in object' <=> y \in object)
    /\ \A y \in Y \ {t} : pc[y] \in Outside
    /\ \A u \in Thread \ (Y \cup {t}) : k.stat[u] \in Runnable => k'.stat[u] \in Runnable
    /\ \A u \in Thread \ {t} : target[u] = NULL \/ target[u] \notin Y

(* The target of t is its own. *)
Picks(t) ==
    /\ target'[t] = NULL \/ \A u \in Thread \ {t} : target[u] # target'[t]
    /\ \/ target'[t] = target[t] \/ target[t] = NULL \/ target[t] \in object'
       \/ k'.stat[target[t]] = "init"

NoTimers(kk) == \A x \in Thread : kk.prio[x] \in Deletable => ~kk.tmr[x]

CurrentRuns == pc[k.cur] # "sched" => k.stat[k.cur] = "running"

LEMMA OtherCall ==
    ASSUME LifeOK, NEW t \in Thread, NEW Y \in SUBSET Thread, Leaves(t, Y),
           NEW u \in Thread \ {t}
    PROVE  CallOK(u)'
<1>1. CallOK(u) /\ u \in Thread /\ target[u] \in Thread \cup {NULL}
  BY DEF LifeOK, TypesOK, TypeOK
<1>2. pc'[u] = pc[u] /\ target'[u] = target[u] /\ want'[u] = want[u] /\ block'[u] = block[u]
  BY DEF Leaves, ActsAlone
<1>3. PlaceOK(u)'
  BY <1>1, <1>2 DEF CallOK, PlaceOK
<1>4. target[u] # NULL => AboutOK(target[u], pc[u])'
  <2> SUFFICES ASSUME target[u] # NULL
               PROVE  AboutOK(target[u], pc[u])'
    OBVIOUS
  <2>1. PICK x \in Thread : x = target[u]
    BY <1>1
  <2>2. x \notin Y
    BY <2>1 DEF Leaves
  <2>3. Kept(k', k, x) /\ (x \in object' <=> x \in object)
    BY <2>2 DEF Leaves
  <2>4. PICK p : p = pc[u]
    OBVIOUS
  <2>5. AboutOK(x, p)
    BY <1>1, <2>1, <2>4 DEF CallOK
  <2>6. /\ x \in object' <=> p \notin {"register", "free_object"}
        /\ p \in {"register", "stack", "created"} \cup InMalloc => k'.stat[x] = "init"
        /\ p \in {"unlink", "free_object"} => k'.stat[x] \in {"init", "close"}
        /\ p \in {"free_stack", "free_stack_pages"} => k'.stat[x] = "close"
        /\ p = "remove" => k'.stat[x] \notin {"init", "close"} /\ k'.prio[x] \in Deletable
        /\ p \in {"detach", "close"} => k'.prio[x] \in Deletable \/ k'.stat[x] = "init"
        /\ p # "remove" => Off(k', x)
    BY <2>3, <2>5 DEF AboutOK, Kept, Unborn, OffStays
  <2> QED BY <1>2, <2>1, <2>4, <2>6 DEF AboutOK
<1>5. CallerOK(u)'
  <2>1. CASE pc[u] \in Outside
    BY <1>2, <2>1 DEF CallerOK
  <2>2. CASE pc[u] \notin Outside
    <3>1. u \notin Y
      BY <2>2 DEF Leaves
    <3>2. Kept(k', k, u) /\ (u \in object' <=> u \in object)
          /\ (k.stat[u] \in Runnable => k'.stat[u] \in Runnable)
      BY <3>1 DEF Leaves
    <3> QED BY <1>1, <2>2, <3>2 DEF CallOK, CallerOK, Kept
  <2> QED BY <2>1, <2>2
<1> QED BY <1>2, <1>3, <1>4, <1>5 DEF CallOK

LEMMA LifeStep ==
    ASSUME LifeOK, NEW t \in Thread, NEW Y \in SUBSET Thread, Leaves(t, Y), Picks(t),
           TypesOK', LivesOK(k'), CallOK(t)', \A y \in Y : StrangerOK(y)',
           NoTimers(k'), CurrentRuns'
    PROVE  LifeOK'
<1>1. \A u \in Thread : CallOK(u)'
  BY OtherCall
<1>2. TargetsApart'
  <2>1. \A u, v \in Thread \ {t} : target'[u] = target'[v] /\ target'[u] # NULL => u = v
    BY DEF LifeOK, TargetsApart, Leaves, ActsAlone
  <2>2. \A u \in Thread \ {t} : target'[t] # NULL => target'[u] # target'[t]
    BY DEF Picks, Leaves, ActsAlone
  <2> QED BY <2>1, <2>2 DEF TargetsApart
<1>3. \A x \in Thread : StrangerOK(x)'
  <2> SUFFICES ASSUME NEW x \in Thread \ Y
               PROVE  StrangerOK(x)'
    OBVIOUS
  <2>1. StrangerOK(x)
    BY DEF LifeOK
  <2>2. Kept(k', k, x) /\ (x \in object' <=> x \in object)
    BY DEF Leaves
  <2> SUFFICES ASSUME x \notin object' \cup {Idle}
               PROVE  Off(k', x) /\ (~About(x)' => k'.stat[x] = "init")
    BY DEF StrangerOK
  <2>3. Off(k, x) /\ (~About(x) => k.stat[x] = "init")
    BY <2>1, <2>2 DEF StrangerOK
  <2>4. Off(k', x)
    BY <2>2, <2>3 DEF Kept, OffStays
  <2>5. ASSUME About(x) PROVE About(x)' \/ x = NULL \/ k'.stat[x] = "init"
    <3>1. PICK u \in Thread : target[u] = x
      BY <2>5 DEF About
    <3>2. CASE u # t
      BY <3>1, <3>2 DEF About, Leaves, ActsAlone
    <3>3. CASE u = t
      BY <2>2, <3>1, <3>3 DEF About, Picks
    <3> QED BY <3>2, <3>3
  <2>6. x # NULL
    BY LifeAssumption
  <2> QED BY <2>2, <2>3, <2>4, <2>5, <2>6 DEF Kept, Unborn
<1> QED BY <1>1, <1>2, <1>3 DEF LifeOK, NoTimers, CurrentRuns

-----------------------------------------------------------------------------
(* What a step needs to know.                                              *)

(* What t goes on with: its place, its target, what it allocates, what it  *)
(* holds.                                                                  *)
Moves(t, at, tg, w, b) ==
    /\ pc' = [pc EXCEPT ![t] = at] /\ target' = [target EXCEPT ![t] = tg]
    /\ want' = [want EXCEPT ![t] = w] /\ block' = [block EXCEPT ![t] = b]

Goes(at, tg, w, b) ==
    /\ at \in Places /\ w \in {Tcb, Text}
    /\ tg \in (Thread \ {Idle}) \cup {NULL} /\ b \in Runs \cup {NoBlock}
    /\ at \notin InMalloc => w = Tcb
    /\ at \in AboutThread => tg # NULL
    /\ tg # NULL => at \in AboutThread \/ (at \in InMalloc /\ w = Text)
    /\ b # NoBlock <=> at \in Holding
    /\ at = "zone" => b.page = zone_page_cnt

Keeps(t, Y) ==
    /\ \A y \in Thread \ Y : Kept(k', k, y) /\ (y \in object' <=> y \in object)
    /\ \A y \in Y \ {t} : pc[y] \in Outside
    /\ \A u \in Thread \ (Y \cup {t}) : k.stat[u] \in Runnable => k'.stat[u] \in Runnable
    /\ \A u \in Thread \ {t} : target[u] = NULL \/ target[u] \notin Y

Chooses(t, tg) ==
    /\ tg = NULL \/ \A u \in Thread \ {t} : target[u] # tg
    /\ \/ tg = target[t] \/ target[t] = NULL \/ target[t] \in object'
       \/ k'.stat[target[t]] = "init"

RestTyped ==
    /\ k' \in KernelState /\ object' \subseteq Thread \ {Idle} /\ stack' \in [Thread -> Nat]

LEMMA MovesTo ==
    ASSUME TypesOK, NEW t \in Thread, NEW at, NEW tg, NEW w, NEW b,
           Moves(t, at, tg, w, b), Goes(at, tg, w, b), RestTyped
    PROVE  /\ TypesOK' /\ ActsAlone(t) /\ PlaceOK(t)'
           /\ pc'[t] = at /\ target'[t] = tg /\ want'[t] = w /\ block'[t] = b
<1>1. /\ pc \in [Thread -> Places] /\ want \in [Thread -> ChunkSize]
      /\ target \in [Thread -> (Thread \ {Idle}) \cup {NULL}]
      /\ block \in [Thread -> Runs \cup {NoBlock}]
  BY DEF TypesOK, TypeOK
<1>2. /\ at \in Places /\ w \in ChunkSize
      /\ tg \in (Thread \ {Idle}) \cup {NULL} /\ b \in Runs \cup {NoBlock}
  BY LifeAssumption DEF Goes
<1> HIDE DEF Places
<1>3. /\ pc'[t] = at /\ target'[t] = tg /\ want'[t] = w /\ block'[t] = b
      /\ pc' \in [Thread -> Places] /\ want' \in [Thread -> ChunkSize]
      /\ target' \in [Thread -> (Thread \ {Idle}) \cup {NULL}]
      /\ block' \in [Thread -> Runs \cup {NoBlock}]
  BY <1>1, <1>2 DEF Moves
<1>4. ActsAlone(t)
  BY <1>1 DEF Moves, ActsAlone
<1>5. TypesOK'
  BY <1>3 DEF TypesOK, TypeOK, RestTyped
<1>6. PlaceOK(t)'
  BY <1>3 DEF PlaceOK, Goes
<1> QED BY <1>3, <1>4, <1>5, <1>6

LEMMA StepLife ==
    ASSUME LifeOK, NEW t \in Thread, NEW Y \in SUBSET Thread,
           NEW at, NEW tg, NEW w, NEW b,
           Moves(t, at, tg, w, b), Goes(at, tg, w, b), RestTyped, LivesOK(k'),
           Keeps(t, Y), Chooses(t, tg), tg # NULL => AboutOK(tg, at)',
           CallerOK(t)', \A y \in Y : StrangerOK(y)', NoTimers(k'), CurrentRuns'
    PROVE  LifeOK'
<1>1. /\ TypesOK' /\ ActsAlone(t) /\ PlaceOK(t)'
      /\ pc'[t] = at /\ target'[t] = tg
  BY MovesTo DEF LifeOK
<1>2. Leaves(t, Y)
  BY <1>1 DEF Leaves, Keeps
<1>3. Picks(t)
  BY <1>1 DEF Picks, Chooses
<1>4. CallOK(t)'
  BY <1>1 DEF CallOK
<1> QED BY <1>1, <1>2, <1>3, <1>4, LifeStep

LEMMA AllKept == \A y : Kept(k, k, y)
  BY DEF Kept, OffStays

(* A step of the running thread that leaves the kernel as it is. *)
LEMMA SameLife ==
    ASSUME LifeOK, NEW t \in Thread, NEW at, NEW tg, NEW w, NEW b,
           Moves(t, at, tg, w, b), Goes(at, tg, w, b),
           k' = k, object' = object, stack' \in [Thread -> Nat],
           k.cur = t, pc[t] # "sched",
           Chooses(t, tg), tg # NULL => AboutOK(tg, at)', CallerOK(t)'
    PROVE  LifeOK'
<1>1. k \in KernelState /\ object \subseteq Thread \ {Idle} /\ LivesOK(k)
  BY DEF LifeOK, TypesOK, TypeOK
<1>2. RestTyped /\ LivesOK(k')
  BY <1>1 DEF RestTyped
<1>3. Keeps(t, {})
  BY AllKept DEF Keeps
<1>4. NoTimers(k') /\ k.stat[k.cur] = "running"
  BY DEF LifeOK, NoTimers
<1>5. CurrentRuns'
  BY <1>4 DEF CurrentRuns
<1>6. {} \in SUBSET Thread /\ \A y \in {} : StrangerOK(y)'
  OBVIOUS
<1> QED BY <1>2, <1>3, <1>4, <1>5, <1>6, StepLife

LEMMA AtPlace ==
    ASSUME LifeOK, NEW t \in Thread
    PROVE  /\ pc \in [Thread -> Places] /\ want \in [Thread -> ChunkSize]
           /\ target \in [Thread -> (Thread \ {Idle}) \cup {NULL}]
           /\ block \in [Thread -> Runs \cup {NoBlock}]
           /\ k \in KernelState /\ object \subseteq Thread \ {Idle}
           /\ stack \in [Thread -> Nat] /\ LivesOK(k)
           /\ PlaceOK(t) /\ CallerOK(t) /\ (target[t] # NULL => AboutOK(target[t], pc[t]))
           /\ pc[t] \in Outside \cup {"free_pages"} =>
                 target[t] = NULL /\ want[t] = Tcb
           /\ pc[t] \notin Holding => block[t] = NoBlock
           /\ pc[t] \in AboutThread => want[t] = Tcb /\ target[t] \in Thread \ {Idle}
<1>1. CallOK(t) /\ TypesOK /\ LivesOK(k)
  BY DEF LifeOK
<1>2. PlaceOK(t) /\ CallerOK(t) /\ (target[t] # NULL => AboutOK(target[t], pc[t]))
  BY <1>1 DEF CallOK
<1>3. pc[t] \in Outside \cup {"free_pages"} => pc[t] \notin AboutThread \cup InMalloc
  BY DEF Outside, AboutThread, InMalloc
<1>4. pc[t] \in AboutThread => pc[t] \notin InMalloc
  BY DEF AboutThread, InMalloc
<1> QED BY <1>1, <1>2, <1>3, <1>4 DEF TypesOK, TypeOK, PlaceOK

(* The thread that has the CPU and is not on its way to rt_schedule. *)
LEMMA RunsOn ==
    ASSUME LifeOK, NEW t \in Thread, k.cur = t, pc[t] # "sched"
    PROVE  /\ k.stat[t] = "running" /\ (t = Idle \/ t \in object)
           /\ ~Off(k, t)
           /\ \A u \in Thread : target[u] = t =>
                 pc[u] = "remove" /\ k.prio[t] \in Deletable
<1>1. k.stat[t] = "running" /\ ~Off(k, t) /\ StrangerOK(t)
  BY DEF LifeOK, Off
<1>2. t # NULL
  BY LifeAssumption
<1>3. ASSUME NEW u \in Thread, target[u] = t
      PROVE  pc[u] = "remove" /\ k.prio[t] \in Deletable
  <2>1. AboutOK(t, pc[u])
    BY <1>2, <1>3 DEF LifeOK, CallOK
  <2> QED BY <1>1, <2>1 DEF AboutOK
<1> QED BY <1>1, <1>3 DEF StrangerOK

LEMMA CallsApi ==
    ASSUME LifeOK, OthersWait, NEW t \in Thread, NEW api, Calls(t, api)
    PROVE  /\ k.cur = t /\ pc[t] = "user" /\ k.stat[t] = "running"
           /\ t # Idle /\ t \in object
           /\ target[t] = NULL /\ want[t] = Tcb /\ block[t] = NoBlock
           /\ api # "wait" => k.prio[t] \notin Deletable
                                /\ \A u \in Thread : target[u] # t
<1>1. k.cur = t /\ pc[t] = "user" /\ t # Idle /\ api \in Api[k.prio[t]]
  BY DEF Calls, Running
<1>2. /\ k.stat[t] = "running" /\ t \in object
      /\ \A u \in Thread : target[u] = t => k.prio[t] \in Deletable
  BY <1>1, RunsOn
<1>3. pc[t] \in Outside \cup {"free_pages"} /\ pc[t] \notin Holding
  BY <1>1 DEF Outside, Holding
<1>4. api # "wait" => k.prio[t] \notin Deletable
  BY <1>1 DEF OthersWait
<1> QED BY <1>1, <1>2, <1>3, <1>4, AtPlace

-----------------------------------------------------------------------------
(* Calls that begin, and rt_thread_delete.                                 *)

LEMMA Stays ==
    ASSUME LifeOK, NEW t \in Thread
    PROVE  /\ pc = [pc EXCEPT ![t] = pc[t]] /\ target = [target EXCEPT ![t] = target[t]]
           /\ want = [want EXCEPT ![t] = want[t]] /\ block = [block EXCEPT ![t] = block[t]]
BY AtPlace

(* A thread inside a call that goes on, and the kernel stays as it is. *)
LEMMA GoesOnInside ==
    ASSUME LifeOK, NEW t \in Thread, pc[t] \notin Outside, k' = k,
           t \in object => t \in object'
    PROVE  CallerOK(t)'
BY AtPlace DEF CallerOK

LEMMA CreateLife ==
    ASSUME LifeOK, OthersWait, NEW t \in Thread, rt_thread_create(t)
    PROVE  LifeOK'
<1>1. Calls(t, "create")
  BY DEF rt_thread_create
<1>2. /\ k.cur = t /\ pc[t] = "user" /\ t \in object /\ k.stat[t] = "running"
      /\ target[t] = NULL /\ want[t] = Tcb /\ block[t] = NoBlock /\ k.prio[t] \notin Deletable
  BY <1>1, CallsApi
<1>3. Moves(t, "malloc", NULL, Tcb, NoBlock) /\ k' = k /\ object' = object /\ stack' = stack
  BY <1>2, Stays DEF rt_thread_create, Goto, Moves
<1>4. Goes("malloc", NULL, Tcb, NoBlock)
  BY DEF Goes, Places, InMalloc, AboutThread, Holding
<1>5. Chooses(t, NULL) /\ CallerOK(t)'
  BY <1>2, <1>3 DEF Chooses, CallerOK, Runnable
<1>6. stack' \in [Thread -> Nat]
  BY <1>3, AtPlace
<1> QED BY <1>2, <1>3, <1>4, <1>5, <1>6, SameLife

LEMMA MallocsTextLife ==
    ASSUME LifeOK, OthersWait, NEW t \in Thread, MallocsText(t)
    PROVE  LifeOK'
<1>1. Calls(t, "text")
  BY DEF MallocsText
<1>2. /\ k.cur = t /\ pc[t] = "user" /\ t \in object /\ k.stat[t] = "running"
      /\ target[t] = NULL /\ want[t] = Tcb /\ block[t] = NoBlock /\ k.prio[t] \notin Deletable
  BY <1>1, CallsApi
<1>3. Moves(t, "malloc", NULL, Text, NoBlock) /\ k' = k /\ object' = object /\ stack' = stack
  BY <1>2, Stays DEF MallocsText, Goto, Moves
<1>4. Goes("malloc", NULL, Text, NoBlock)
  BY DEF Goes, Places, InMalloc, AboutThread, Holding
<1>5. Chooses(t, NULL) /\ CallerOK(t)'
  BY <1>2, <1>3 DEF Chooses, CallerOK, Runnable
<1>6. stack' \in [Thread -> Nat]
  BY <1>3, AtPlace
<1> QED BY <1>2, <1>3, <1>4, <1>5, <1>6, SameLife

(* A thread found, alive, that nobody deletes is no call's target. *)
LEMMA NobodysTarget ==
    ASSUME LifeOK, NEW x \in Thread, k.stat[x] \notin {"init", "close"}, Deleting(x) = {}
    PROVE  \A u \in Thread : target[u] # x
<1> SUFFICES ASSUME NEW u \in Thread, target[u] = x
             PROVE  FALSE
  OBVIOUS
<1>1. x # NULL
  BY LifeAssumption
<1>2. AboutOK(x, pc[u]) /\ PlaceOK(u)
  BY <1>1 DEF LifeOK, CallOK
<1>3. pc[u] \in AboutThread \cup InMalloc
  BY <1>1, <1>2 DEF PlaceOK
<1>4. pc[u] \in {"remove", "detach", "close"}
  BY <1>2, <1>3 DEF AboutOK, AboutThread
<1> QED BY <1>4 DEF Deleting

LEMMA DeleteLife ==
    ASSUME LifeOK, OthersWait, Careful, NEW t \in Thread, rt_thread_delete(t)
    PROVE  LifeOK'
<1>1. /\ k' = k /\ object' = object /\ stack' = stack /\ want' = want /\ block' = block
  BY DEF rt_thread_delete
<1>2. stack' \in [Thread -> Nat]
  BY <1>1, AtPlace
<1>3. CASE /\ Calls(t, "delete") /\ Goto(t, "remove")
           /\ \E x \in object \ {t} :
                 /\ k.prio[x] \in Deletable /\ k.stat[x] # "init"
                 /\ Careful => k.stat[x] # "close" /\ Deleting(x) = {}
                 /\ target' = [target EXCEPT ![t] = x]
  <2>1. /\ k.cur = t /\ pc[t] = "user" /\ t \in object /\ k.stat[t] = "running"
        /\ target[t] = NULL /\ want[t] = Tcb /\ block[t] = NoBlock /\ k.prio[t] \notin Deletable
    BY <1>3, CallsApi
  <2>2. PICK x \in object \ {t} :
           /\ k.prio[x] \in Deletable /\ k.stat[x] \notin {"init", "close"}
           /\ Deleting(x) = {} /\ target' = [target EXCEPT ![t] = x]
    BY <1>3
  <2>3. x \in Thread \ {Idle} /\ x # NULL
    BY LifeAssumption, AtPlace
  <2>4. Moves(t, "remove", x, Tcb, NoBlock)
    BY <1>1, <1>3, <2>1, <2>2, Stays DEF Goto, Moves
  <2>5. Goes("remove", x, Tcb, NoBlock)
    BY <2>3 DEF Goes, Places, InMalloc, AboutThread, Holding
  <2>6. AboutOK(x, "remove")'
    BY <1>1, <2>2 DEF AboutOK, InMalloc
  <2>7. Chooses(t, x)
    BY <2>1, <2>2, <2>3, NobodysTarget DEF Chooses
  <2>8. CallerOK(t)'
    BY <1>1, <2>1 DEF CallerOK, Runnable
  <2> QED BY <1>1, <1>2, <2>1, <2>4, <2>5, <2>6, <2>7, <2>8, SameLife
<1>4. CASE Running(t, "created") /\ Goto(t, "detach") /\ UNCHANGED target
  <2>1. k.cur = t /\ pc[t] = "created"
    BY <1>4 DEF Running
  <2>2. pc[t] \in AboutThread /\ pc[t] \notin Holding /\ pc[t] \notin Outside
    BY <2>1 DEF AboutThread, Holding, Outside
  <2>3. PICK x \in Thread \ {Idle} : x = target[t] /\ x # NULL
    BY <2>2, AtPlace, LifeAssumption
  <2>4. AboutOK(x, "created") /\ want[t] = Tcb /\ block[t] = NoBlock
    BY <2>1, <2>2, <2>3, AtPlace
  <2>5. Moves(t, "detach", x, Tcb, NoBlock)
    BY <1>1, <1>4, <2>3, <2>4, Stays DEF Goto, Moves
  <2>6. Goes("detach", x, Tcb, NoBlock)
    BY <2>3 DEF Goes, Places, InMalloc, AboutThread, Holding
  <2>7. AboutOK(x, "detach")'
    BY <1>1, <2>4 DEF AboutOK, InMalloc
  <2>8. Chooses(t, x)
    BY <2>3 DEF Chooses, LifeOK, TargetsApart
  <2>9. CallerOK(t)'
    BY <1>1, <2>2, GoesOnInside
  <2> QED BY <1>1, <1>2, <2>1, <2>5, <2>6, <2>7, <2>8, <2>9, SameLife
<1> QED BY <1>3, <1>4 DEF rt_thread_delete

LEMMA DetachesLife ==
    ASSUME LifeOK, NEW t \in Thread, DetachesTimer(t)
    PROVE  LifeOK' /\ k' = k
<1>1. /\ object' = object /\ stack' = stack /\ want' = want /\ block' = block
      /\ target' = target /\ k.cur = t /\ pc[t] = "detach" /\ Goto(t, "close")
      /\ k' = [k EXCEPT !.tmr[target[t]] = FALSE]
  BY DEF DetachesTimer, Calm, Running
<1>2. pc[t] \in AboutThread /\ pc[t] \notin Holding /\ pc[t] \notin Outside
  BY <1>1 DEF AboutThread, Holding, Outside
<1>3. PICK x \in Thread \ {Idle} : x = target[t] /\ x # NULL
  BY <1>2, AtPlace, LifeAssumption
<1>4. AboutOK(x, "detach") /\ want[t] = Tcb /\ block[t] = NoBlock
  BY <1>1, <1>2, <1>3, AtPlace
<1>5. k' = k
  <2>1. k \in KernelState /\ ~k.tmr[x]
    BY <1>4, AtPlace DEF AboutOK, Off
  <2>2. [k.tmr EXCEPT ![x] = FALSE] = k.tmr
    BY <2>1 DEF KernelState
  <2>3. k' = [k EXCEPT !.tmr = [k.tmr EXCEPT ![x] = FALSE]]
    BY <1>1, <1>3
  <2> QED BY <2>1, <2>2, <2>3 DEF KernelState
<1>6. Moves(t, "close", x, Tcb, NoBlock)
  BY <1>1, <1>3, <1>4, Stays DEF Goto, Moves
<1>7. Goes("close", x, Tcb, NoBlock)
  BY <1>3 DEF Goes, Places, InMalloc, AboutThread, Holding
<1>8. AboutOK(x, "close")'
  BY <1>1, <1>4, <1>5 DEF AboutOK, InMalloc
<1>9. Chooses(t, x)
  BY <1>3 DEF Chooses, LifeOK, TargetsApart
<1>10. CallerOK(t)' /\ stack' \in [Thread -> Nat]
  BY <1>1, <1>2, <1>5, GoesOnInside, AtPlace
<1> QED BY <1>1, <1>5, <1>6, <1>7, <1>8, <1>9, <1>10, SameLife

-----------------------------------------------------------------------------
(* Threads that wait, exit and start.                                      *)

(* What Becomes and Scheduled say, for the threads a step is not about.    *)
LEMMA BecomesKeeps ==
    ASSUME NEW kk \in KernelState, NEW r, NEW x \in Thread, NEW s, NEW m \in BOOLEAN,
           Becomes(r, kk, x, s, m)
    PROVE  /\ r \in KernelState /\ LivesOK(r) /\ r.cur = kk.cur
           /\ r.stat[x] = s /\ r.tmr[x] = m /\ r.prio = kk.prio
           /\ \A y \in Thread \ {x} :
                 Kept(r, kk, y) /\ r.stat[y] = kk.stat[y] /\ r.tmr[y] = kk.tmr[y]
<1>1. /\ r \in KernelState /\ LivesOK(r)
      /\ r.cur = kk.cur /\ r.prio = kk.prio
      /\ r.stat = [kk.stat EXCEPT ![x] = s]
      /\ r.tmr = [kk.tmr EXCEPT ![x] = m]
      /\ \A y \in Thread \ {x} : OffStays(r, kk, y)
  BY DEF Becomes
<1>2. /\ r.stat[x] = s /\ r.tmr[x] = m
      /\ \A y \in Thread \ {x} : r.stat[y] = kk.stat[y] /\ r.tmr[y] = kk.tmr[y]
  BY <1>1 DEF KernelState
<1> QED BY <1>1, <1>2 DEF Kept

LEMMA ScheduledKeeps ==
    ASSUME NEW kk, NEW r, Scheduled(r, kk)
    PROVE  \A y \in Thread : Kept(r, kk, y)
BY DEF Scheduled, Kept, Unborn, Runnable

LEMMA WokenKeeps ==
    ASSUME NEW kk, NEW r, NEW x, Woken(r, kk, x)
    PROVE  \A y \in Thread \ {x} : Kept(r, kk, y)
BY DEF Woken, Kept, Unborn, Runnable

LEMMA NotBusy ==
    ASSUME LifeOK, NEW x \in Thread \ {Idle},
           k.stat[x] \notin Runnable \/ k.prio[x] \in Deletable
    PROVE  pc[x] \in Outside
BY AtPlace DEF CallerOK

LEMMA WaitsLife ==
    ASSUME LifeOK, OthersWait, NEW t \in Thread, rt_thread_sleep(t) \/ Waits(t)
    PROVE  LifeOK'
<1>1. PICK m \in BOOLEAN, api \in {"sleep", "wait"} :
        /\ Calls(t, api) /\ (api = "wait" => m = FALSE)
        /\ k' = IF m THEN StartTimer(rt_thread_suspend(k, t), t) ELSE rt_thread_suspend(k, t)
        /\ Goto(t, "sched") /\ Calm
  BY DEF rt_thread_sleep, Waits
<1>2. /\ k.cur = t /\ pc[t] = "user" /\ t \in Thread \ {Idle} /\ k.stat[t] = "running"
      /\ target[t] = NULL /\ want[t] = Tcb /\ block[t] = NoBlock
      /\ m => k.prio[t] \notin Deletable
  BY <1>1, CallsApi
<1>3. k \in KernelState /\ LivesOK(k)
  BY AtPlace
<1>4. Becomes(k', k, t, "suspend", m)
  BY <1>1, <1>2, <1>3, SuspendsCaller, SleepsCaller
<1>5. /\ k' \in KernelState /\ LivesOK(k') /\ k'.cur = k.cur
      /\ k'.stat[t] = "suspend" /\ k'.tmr[t] = m /\ k'.prio = k.prio
      /\ \A y \in Thread \ {t} :
            Kept(k', k, y) /\ k'.stat[y] = k.stat[y] /\ k'.tmr[y] = k.tmr[y]
  BY <1>3, <1>4, BecomesKeeps
<1>6. Kept(k', k, t)
  BY <1>2, <1>5 DEF Kept, Unborn, OffStays, Off
<1>7. Moves(t, "sched", NULL, Tcb, NoBlock) /\ object' = object /\ stack' = stack
  BY <1>1, <1>2, Stays DEF Goto, Calm, Moves
<1>8. Goes("sched", NULL, Tcb, NoBlock)
  BY DEF Goes, Places, InMalloc, AboutThread, Holding, Outside
<1>9. RestTyped
  BY <1>5, <1>7, AtPlace DEF RestTyped
<1>10. Keeps(t, {})
  BY <1>5, <1>6, <1>7 DEF Keeps
<1>11. NoTimers(k')
  BY <1>2, <1>5 DEF NoTimers, LifeOK
<1>12. pc'[t] = "sched"
  BY <1>1, AtPlace DEF Goto
<1>13. CallerOK(t)' /\ CurrentRuns' /\ Chooses(t, NULL)
  BY <1>2, <1>5, <1>12 DEF CallerOK, CurrentRuns, Chooses, Outside
<1>14. {} \in SUBSET Thread /\ \A y \in {} : StrangerOK(y)'
  OBVIOUS
<1> QED BY <1>5, <1>7, <1>8, <1>9, <1>10, <1>11, <1>13, <1>14, StepLife

LEMMA ExitLife ==
    ASSUME LifeOK, OthersWait, NEW t \in Thread, rt_thread_exit(t)
    PROVE  LifeOK'
<1>1. Calls(t, "exit") /\ k' = Exited(k, t) /\ Goto(t, "sched") /\ Calm
  BY DEF rt_thread_exit
<1>2. /\ k.cur = t /\ pc[t] = "user" /\ t \in Thread \ {Idle} /\ t \in object
      /\ k.stat[t] = "running"
      /\ target[t] = NULL /\ want[t] = Tcb /\ block[t] = NoBlock
      /\ \A u \in Thread : target[u] # t
  BY <1>1, CallsApi
<1>3. k \in KernelState /\ LivesOK(k)
  BY AtPlace
<1>4. Becomes(k', k, t, "close", FALSE)
  BY <1>1, <1>2, <1>3, ExitsCaller
<1>5. /\ k' \in KernelState /\ LivesOK(k') /\ k'.cur = k.cur
      /\ k'.stat[t] = "close" /\ ~k'.tmr[t] /\ k'.prio = k.prio
      /\ \A y \in Thread \ {t} :
            Kept(k', k, y) /\ k'.stat[y] = k.stat[y] /\ k'.tmr[y] = k.tmr[y]
  <2>1. PICK m \in BOOLEAN : m = FALSE
    OBVIOUS
  <2>2. Becomes(k', k, t, "close", m)
    BY <1>4, <2>1
  <2> QED BY <1>3, <2>1, <2>2, BecomesKeeps, SMTT(60)
<1>7. Moves(t, "sched", NULL, Tcb, NoBlock) /\ object' = object /\ stack' = stack
  BY <1>1, <1>2, Stays DEF Goto, Calm, Moves
<1>8. Goes("sched", NULL, Tcb, NoBlock)
  BY DEF Goes, Places, InMalloc, AboutThread, Holding, Outside
<1>9. RestTyped
  BY <1>5, <1>7, AtPlace DEF RestTyped
<1>10. Keeps(t, {t})
  BY <1>2, <1>5, <1>7 DEF Keeps
<1>11. NoTimers(k')
  BY <1>5 DEF NoTimers, LifeOK
<1>12. pc'[t] = "sched"
  BY <1>1, AtPlace DEF Goto
<1>13. CallerOK(t)' /\ CurrentRuns' /\ Chooses(t, NULL)
  BY <1>2, <1>5, <1>12 DEF CallerOK, CurrentRuns, Chooses, Outside
<1>14. {t} \in SUBSET Thread /\ \A y \in {t} : StrangerOK(y)'
  BY <1>2, <1>7 DEF StrangerOK
<1> QED BY <1>5, <1>7, <1>8, <1>9, <1>10, <1>11, <1>13, <1>14, StepLife

LEMMA StartupLife ==
    ASSUME LifeOK, NEW t \in Thread, rt_thread_startup(t)
    PROVE  LifeOK'
<1>1. /\ k.cur = t /\ pc[t] = "created" /\ Goto(t, "sched")
      /\ k' = rt_thread_resume([k EXCEPT !.stat[target[t]] = "suspend"], target[t])
      /\ target' = [target EXCEPT ![t] = NULL]
      /\ object' = object /\ stack' = stack /\ want' = want /\ block' = block
  BY DEF rt_thread_startup, Running
<1>2. pc[t] \in AboutThread /\ pc[t] \notin Holding
  BY <1>1 DEF AboutThread, Holding
<1>3. PICK x \in Thread \ {Idle} : x = target[t] /\ x # NULL
  BY <1>2, AtPlace, LifeAssumption
<1>4. /\ want[t] = Tcb /\ block[t] = NoBlock
      /\ x \in object /\ k.stat[x] = "init" /\ Off(k, x)
  BY <1>1, <1>2, <1>3, AtPlace DEF AboutOK
<1>5. k \in KernelState /\ LivesOK(k)
  BY AtPlace
<1>6. Becomes(k', k, x, "ready", FALSE)
  BY <1>1, <1>3, <1>4, <1>5, StartsThread
<1>7. /\ k' \in KernelState /\ LivesOK(k') /\ k'.cur = k.cur
      /\ k'.stat[x] = "ready" /\ ~k'.tmr[x] /\ k'.prio = k.prio
      /\ \A y \in Thread \ {x} :
            Kept(k', k, y) /\ k'.stat[y] = k.stat[y] /\ k'.tmr[y] = k.tmr[y]
  <2>1. PICK m \in BOOLEAN : m = FALSE
    OBVIOUS
  <2>2. Becomes(k', k, x, "ready", m)
    BY <1>6, <2>1
  <2> QED BY <1>5, <2>1, <2>2, BecomesKeeps, SMTT(60)
<1>8. Moves(t, "sched", NULL, Tcb, NoBlock)
  BY <1>1, <1>4, Stays DEF Goto, Moves
<1>9. Goes("sched", NULL, Tcb, NoBlock)
  BY DEF Goes, Places, InMalloc, AboutThread, Holding, Outside
<1>10. RestTyped
  BY <1>1, <1>7, AtPlace DEF RestTyped
<1>11. pc[x] \in Outside /\ \A u \in Thread \ {t} : target[u] # x
  BY <1>3, <1>4, NotBusy DEF Runnable, LifeOK, TargetsApart
<1>12. Keeps(t, {x})
  BY <1>1, <1>7, <1>11 DEF Keeps
<1>13. NoTimers(k')
  BY <1>7 DEF NoTimers, LifeOK
<1>14. pc'[t] = "sched"
  BY <1>1, AtPlace DEF Goto
<1>15. CallerOK(t)' /\ CurrentRuns' /\ Chooses(t, NULL)
  BY <1>1, <1>3, <1>4, <1>7, <1>14 DEF CallerOK, CurrentRuns, Chooses, Outside
<1>16. {x} \in SUBSET Thread /\ \A y \in {x} : StrangerOK(y)'
  BY <1>1, <1>4 DEF StrangerOK
<1> QED BY <1>7, <1>8, <1>9, <1>10, <1>12, <1>13, <1>15, <1>16, StepLife

LEMMA ClosesLife ==
    ASSUME LifeOK, NEW t \in Thread, Closes(t)
    PROVE  LifeOK'
<1>1. /\ k.cur = t /\ pc[t] = "close" /\ Goto(t, "user")
      /\ k' = ToDefunct([k EXCEPT !.stat[target[t]] = "close"], target[t])
      /\ target' = [target EXCEPT ![t] = NULL]
      /\ object' = object /\ stack' = stack /\ want' = want /\ block' = block
  BY DEF Closes, Running
<1>2. pc[t] \in AboutThread /\ pc[t] \notin Holding /\ pc[t] # "sched"
  BY <1>1 DEF AboutThread, Holding
<1>3. PICK x \in Thread \ {Idle} : x = target[t] /\ x # NULL
  BY <1>2, AtPlace, LifeAssumption
<1>4. /\ want[t] = Tcb /\ block[t] = NoBlock
      /\ x \in object /\ (k.prio[x] \in Deletable \/ k.stat[x] = "init") /\ Off(k, x)
  BY <1>1, <1>2, <1>3, AtPlace DEF AboutOK
<1>5. k \in KernelState /\ LivesOK(k) /\ k.stat[t] = "running" /\ x # t
  BY <1>1, <1>2, <1>4, AtPlace, RunsOn
<1>6. Becomes(k', k, x, "close", FALSE)
  BY <1>1, <1>3, <1>4, <1>5, ClosesOther
<1>7. /\ k' \in KernelState /\ LivesOK(k') /\ k'.cur = k.cur
      /\ k'.stat[x] = "close" /\ ~k'.tmr[x] /\ k'.prio = k.prio
      /\ \A y \in Thread \ {x} :
            Kept(k', k, y) /\ k'.stat[y] = k.stat[y] /\ k'.tmr[y] = k.tmr[y]
  <2>1. PICK m \in BOOLEAN : m = FALSE
    OBVIOUS
  <2>2. Becomes(k', k, x, "close", m)
    BY <1>6, <2>1
  <2> QED BY <1>5, <2>1, <2>2, BecomesKeeps, SMTT(60)
<1>8. Moves(t, "user", NULL, Tcb, NoBlock)
  BY <1>1, <1>4, Stays DEF Goto, Moves
<1>9. Goes("user", NULL, Tcb, NoBlock)
  BY DEF Goes, Places, InMalloc, AboutThread, Holding, Outside
<1>10. RestTyped
  BY <1>1, <1>7, AtPlace DEF RestTyped
<1>11. pc[x] \in Outside /\ \A u \in Thread \ {t} : target[u] # x
  BY <1>3, <1>4, NotBusy DEF Runnable, LifeOK, TargetsApart
<1>12. Keeps(t, {x})
  BY <1>1, <1>7, <1>11 DEF Keeps
<1>13. NoTimers(k')
  BY <1>7 DEF NoTimers, LifeOK
<1>14. pc'[t] = "user"
  BY <1>1, AtPlace DEF Goto
<1>15. CallerOK(t)' /\ CurrentRuns' /\ Chooses(t, NULL)
  BY <1>1, <1>3, <1>4, <1>5, <1>7, <1>14 DEF CallerOK, CurrentRuns, Chooses, Outside
<1>16. {x} \in SUBSET Thread /\ \A y \in {x} : StrangerOK(y)'
  BY <1>1, <1>4 DEF StrangerOK
<1> QED BY <1>7, <1>8, <1>9, <1>10, <1>12, <1>13, <1>15, <1>16, StepLife

-----------------------------------------------------------------------------
(* Interrupts, and steps of the kernel.                                    *)

(* A step of the kernel, no thread of its own accord. *)
LEMMA AboutKept ==
    ASSUME NEW x \in Thread, NEW at, AboutOK(x, at), Kept(k', k, x),
           x \in object' <=> x \in object
    PROVE  AboutOK(x, at)'
BY DEF AboutOK, Kept, Unborn, OffStays

LEMMA InterruptStep ==
    ASSUME LifeOK, NEW Y \in SUBSET Thread, Calm, pc' = pc,
           k' \in KernelState, LivesOK(k'),
           \A y \in Thread \ Y : Kept(k', k, y),
           \A y \in Y : pc[y] \in Outside /\ y \in object,
           \A u \in Thread \ Y : k.stat[u] \in Runnable => k'.stat[u] \in Runnable,
           \A u \in Thread : target[u] = NULL \/ target[u] \notin Y,
           NoTimers(k'), CurrentRuns'
    PROVE  LifeOK'
<1>1. /\ object' = object /\ stack' = stack /\ target' = target
      /\ want' = want /\ block' = block
  BY DEF Calm
<1>2. Idle \in Thread
  BY KernelAssumption
<1>3. PICK at, tg, w, b :
        at = pc[Idle] /\ tg = target[Idle] /\ w = want[Idle] /\ b = block[Idle]
  OBVIOUS
<1>4. Moves(Idle, at, tg, w, b)
  BY <1>1, <1>2, <1>3, Stays DEF Moves
<1>5. /\ PlaceOK(Idle) /\ (tg # NULL => AboutOK(tg, at))
      /\ tg \in (Thread \ {Idle}) \cup {NULL} /\ b \in Runs \cup {NoBlock}
  BY <1>2, <1>3, AtPlace
<1>6. Goes(at, tg, w, b)
  BY <1>3, <1>5 DEF Goes, PlaceOK
<1>7. RestTyped
  BY <1>1, <1>2, AtPlace DEF RestTyped
<1>8. Keeps(Idle, Y)
  BY <1>1 DEF Keeps
<1>9. Chooses(Idle, tg)
  BY <1>2, <1>3 DEF Chooses, LifeOK, TargetsApart
<1>10. tg # NULL => AboutOK(tg, at)'
  <2> SUFFICES ASSUME tg # NULL
               PROVE  AboutOK(tg, at)'
    OBVIOUS
  <2>1. tg \in Thread \ Y /\ AboutOK(tg, at)
    BY <1>2, <1>3, <1>5
  <2> QED BY <1>1, <2>1, AboutKept
<1>11. CallerOK(Idle)' /\ \A y \in Y : StrangerOK(y)'
  BY <1>1 DEF CallerOK, StrangerOK
<1> QED BY <1>2, <1>4, <1>6, <1>7, <1>8, <1>9, <1>10, <1>11, StepLife

LEMMA WokenLife ==
    ASSUME LifeOK, Calm, pc' = pc, NEW x \in Thread, k.stat[x] = "suspend",
           Woken(k', k, x), \A u \in Thread : target[u] # x
    PROVE  LifeOK'
<1>1. k \in KernelState /\ LivesOK(k) /\ StrangerOK(x)
  BY AtPlace DEF LifeOK
<1>2. x # Idle
  BY <1>1, LivesParts DEF IdleReady, Runnable
<1>3. pc[x] \in Outside
  BY <1>2, NotBusy DEF Runnable
<1>4. x \in object
  BY <1>1, <1>2 DEF StrangerOK, About
<1>5. \A y \in Thread \ {x} : Kept(k', k, y)
  BY WokenKeeps
<1>6. /\ k' \in KernelState /\ LivesOK(k')
      /\ \A u \in Thread \ {x} : k.stat[u] \in Runnable => k'.stat[u] \in Runnable
      /\ k'.stat[k'.cur] = "running" /\ k'.prio = k.prio
      /\ \A u \in Thread : k'.tmr[u] => k.tmr[u]
  BY DEF Woken
<1>7. NoTimers(k') /\ CurrentRuns'
  BY <1>6 DEF NoTimers, CurrentRuns, LifeOK
<1>8. {x} \in SUBSET Thread
  OBVIOUS
<1> QED BY <1>3, <1>4, <1>5, <1>6, <1>7, <1>8, InterruptStep

LEMMA InterruptsLife ==
    ASSUME LifeOK, Interrupts
    PROVE  LifeOK'
<1>1. k \in KernelState /\ LivesOK(k)
  BY KernelAssumption, AtPlace
<1>2. Calm /\ pc' = pc
  BY DEF Interrupts, TimerFires, DeviceWakes, SliceExpires
<1>3. CASE TimerFires
  <2>1. PICK x \in Thread : k.tmr[x] /\ k' = rt_thread_timeout(k, x)
    BY <1>3 DEF TimerFires
  <2>2. k.stat[x] = "suspend" /\ k.prio[x] \notin Deletable /\ ~Off(k, x)
    BY <1>1, <2>1, LivesParts DEF LifeOK, Off
  <2>3. \A u \in Thread : target[u] # x
    BY <2>2, LifeAssumption DEF LifeOK, CallOK, AboutOK
  <2>4. Woken(k', k, x)
    BY <1>1, <2>1, TimesOutThread
  <2> QED BY <1>2, <2>2, <2>3, <2>4, WokenLife
<1>4. CASE DeviceWakes
  <2>1. PICK x \in Thread :
           /\ k.stat[x] = "suspend" /\ Deleting(x) = {}
           /\ k' = rt_schedule(rt_thread_resume(k, x))
    BY <1>4 DEF DeviceWakes
  <2>2. \A u \in Thread : target[u] # x
    BY <2>1, NobodysTarget
  <2>3. Woken(k', k, x)
    BY <1>1, <2>1, WakesThread
  <2> QED BY <1>2, <2>1, <2>2, <2>3, WokenLife
<1>5. CASE SliceExpires
  <2>1. Scheduled(k', k)
    BY <1>1, <1>5, Reschedules DEF SliceExpires
  <2>2. \A y \in Thread : Kept(k', k, y)
    BY <2>1, ScheduledKeeps
  <2>3. NoTimers(k') /\ CurrentRuns'
    BY <2>1 DEF NoTimers, CurrentRuns, LifeOK, Scheduled
  <2>4. /\ k' \in KernelState /\ LivesOK(k')
        /\ \A u \in Thread : k.stat[u] \in Runnable => k'.stat[u] \in Runnable
    BY <2>1 DEF Scheduled
  <2>5. {} \in SUBSET Thread
    OBVIOUS
  <2> QED BY <1>2, <2>2, <2>3, <2>4, <2>5, InterruptStep
<1> QED BY <1>3, <1>4, <1>5 DEF Interrupts

(* What the CPU does for the thread it executes, when only the kernel's    *)
(* lists change.                                                           *)
LEMMA KernelStep ==
    ASSUME LifeOK, NEW t \in Thread, NEW at, NEW tg,
           pc' = [pc EXCEPT ![t] = at], target' = [target EXCEPT ![t] = tg],
           object' = object, stack' = stack, want' = want, block' = block,
           want[t] = Tcb, block[t] = NoBlock, Goes(at, tg, Tcb, NoBlock),
           k' \in KernelState, LivesOK(k'), \A y \in Thread : Kept(k', k, y),
           \A u \in Thread : k.stat[u] \in Runnable => k'.stat[u] \in Runnable,
           Chooses(t, tg), tg # NULL => AboutOK(tg, at)', CallerOK(t)',
           NoTimers(k'), CurrentRuns'
    PROVE  LifeOK'
<1>1. Moves(t, at, tg, Tcb, NoBlock)
  BY Stays DEF Moves
<1>2. RestTyped
  BY AtPlace DEF RestTyped
<1>3. Keeps(t, {}) /\ {} \in SUBSET Thread /\ \A y \in {} : StrangerOK(y)'
  BY DEF Keeps
<1> QED BY <1>1, <1>2, <1>3, StepLife

LEMMA SchedulesLife ==
    ASSUME LifeOK, NEW t \in Thread, Schedules(t)
    PROVE  LifeOK'
<1>1. /\ pc[t] = "sched" /\ pc' = [pc EXCEPT ![t] = "user"] /\ k' = rt_schedule(k)
      /\ object' = object /\ stack' = stack /\ target' = target
      /\ want' = want /\ block' = block
  BY DEF Schedules, Running, Goto, Calm
<1>2. /\ k \in KernelState /\ LivesOK(k) /\ pc \in [Thread -> Places]
      /\ target[t] = NULL /\ want[t] = Tcb /\ block[t] = NoBlock
  BY <1>1, AtPlace DEF Outside, Holding
<1>3. Scheduled(k', k)
  BY <1>1, <1>2, Reschedules
<1>4. \A y \in Thread : Kept(k', k, y)
  BY <1>3, ScheduledKeeps
<1>5. NoTimers(k') /\ CurrentRuns' /\ CallerOK(t)'
  BY <1>1, <1>2, <1>3 DEF NoTimers, CurrentRuns, LifeOK, Scheduled, CallerOK, Outside
<1>6. /\ k' \in KernelState /\ LivesOK(k')
      /\ \A u \in Thread : k.stat[u] \in Runnable => k'.stat[u] \in Runnable
  BY <1>3 DEF Scheduled
<1>7. Goes("user", NULL, Tcb, NoBlock)
  BY DEF Goes, Places, InMalloc, AboutThread, Holding, Outside
<1>8. target' = [target EXCEPT ![t] = NULL] /\ Chooses(t, NULL)
  BY <1>1, <1>2, Stays DEF Chooses
<1> QED BY <1>1, <1>2, <1>4, <1>5, <1>6, <1>7, <1>8, KernelStep

LEMMA RemovesLife ==
    ASSUME LifeOK, NEW t \in Thread, Removes(t)
    PROVE  LifeOK'
<1>1. /\ k.cur = t /\ pc[t] = "remove" /\ pc' = [pc EXCEPT ![t] = "detach"]
      /\ k' = rt_schedule_remove_thread(k, target[t])
      /\ object' = object /\ stack' = stack /\ target' = target
      /\ want' = want /\ block' = block
  BY DEF Removes, Running, Goto, Calm
<1>2. pc[t] \in AboutThread /\ pc[t] \notin Holding \cup Outside
  BY <1>1 DEF AboutThread, Holding, Outside
<1>3. PICK x \in Thread \ {Idle} : x = target[t] /\ x # NULL
  BY <1>2, AtPlace, LifeAssumption
<1>4. /\ want[t] = Tcb /\ block[t] = NoBlock /\ pc \in [Thread -> Places]
      /\ k \in KernelState /\ LivesOK(k)
      /\ x \in object /\ k.stat[x] \notin {"init", "close"} /\ k.prio[x] \in Deletable
      /\ t # Idle => t \in object /\ k.prio[t] \notin Deletable /\ k.stat[t] \in Runnable
  BY <1>1, <1>2, <1>3, AtPlace DEF AboutOK, CallerOK
<1>5. x # k.cur /\ ~k.tmr[x]
  BY <1>1, <1>3, <1>4 DEF LifeOK
<1>6. /\ k' \in KernelState /\ LivesOK(k') /\ SameThreads(k', k) /\ Off(k', x)
      /\ \A u \in Thread : OffStays(k', k, u)
  BY <1>1, <1>3, <1>4, <1>5, RemovesOther
<1>7. k'.stat = k.stat /\ k'.prio = k.prio /\ k'.tmr = k.tmr /\ k'.cur = k.cur
  BY <1>6 DEF SameThreads
<1>8. /\ \A y \in Thread : Kept(k', k, y)
      /\ \A u \in Thread : k.stat[u] \in Runnable => k'.stat[u] \in Runnable
  BY <1>6, <1>7 DEF Kept
<1>9. NoTimers(k') /\ CurrentRuns' /\ CallerOK(t)'
  BY <1>1, <1>4, <1>7, RunsOn DEF NoTimers, CurrentRuns, LifeOK, CallerOK
<1>10. Goes("detach", x, Tcb, NoBlock)
  BY <1>3 DEF Goes, Places, InMalloc, AboutThread, Holding
<1>11. target' = [target EXCEPT ![t] = x] /\ Chooses(t, x)
  BY <1>1, <1>3, Stays DEF Chooses, LifeOK, TargetsApart
<1>12. AboutOK(x, "detach")'
  BY <1>1, <1>4, <1>6, <1>7 DEF AboutOK, InMalloc
<1> QED BY <1>1, <1>4, <1>6, <1>8, <1>9, <1>10, <1>11, <1>12, KernelStep

LEMMA IdleLife ==
    ASSUME LifeOK, rt_thread_idle_excute
    PROVE  LifeOK'
<1>1. k.cur = Idle /\ pc[Idle] = "user" /\ Idle \in Thread
  BY KernelAssumption DEF rt_thread_idle_excute, Running
<1>2. /\ k \in KernelState /\ LivesOK(k) /\ pc \in [Thread -> Places]
      /\ target[Idle] = NULL /\ want[Idle] = Tcb /\ block[Idle] = NoBlock
      /\ k.stat[k.cur] = "running"
  BY <1>1, AtPlace, RunsOn DEF Outside, Holding
<1>3. CASE k.list[defunct] = <<>>
  <2>1. k' = k /\ pc' = pc /\ Calm
    BY <1>3 DEF rt_thread_idle_excute, vars, Calm
  <2>2. NoTimers(k') /\ CurrentRuns'
    BY <2>1 DEF NoTimers, CurrentRuns, LifeOK
  <2>3. {} \in SUBSET Thread
    OBVIOUS
  <2> QED BY <1>2, <2>1, <2>2, <2>3, AllKept, InterruptStep
<1>4. CASE k.list[defunct] # <<>>
  <2>1. PICK x : x = Head(k.list[defunct])
    OBVIOUS
  <2>2. /\ k' = rt_schedule(rt_list_remove(k, x))
        /\ target' = [target EXCEPT ![Idle] = x]
        /\ pc' = [pc EXCEPT ![Idle] = "free_stack"]
        /\ object' = object /\ stack' = stack /\ want' = want /\ block' = block
    BY <1>4, <2>1 DEF rt_thread_idle_excute, Goto
  <2>3. /\ x \in Thread \ {Idle} /\ k.stat[x] = "close" /\ Linked(k, x)
        /\ Scheduled(k', k) /\ Off(k', x)
    BY <1>2, <1>4, <2>1, <2>2, TakesDead
  <2>4. x \in object /\ x # NULL
    BY <2>3, LifeAssumption DEF LifeOK, StrangerOK, Off
  <2>5. \A u \in Thread : target[u] # x
    BY <2>3, <2>4 DEF LifeOK, CallOK, AboutOK, Off
  <2>6. \A y \in Thread : Kept(k', k, y)
    BY <2>3, ScheduledKeeps
  <2>7. NoTimers(k') /\ CurrentRuns' /\ CallerOK(Idle)'
    BY <2>3 DEF NoTimers, CurrentRuns, LifeOK, Scheduled, CallerOK
  <2>8. /\ k' \in KernelState /\ LivesOK(k') /\ k'.stat[x] = "close"
        /\ \A u \in Thread : k.stat[u] \in Runnable => k'.stat[u] \in Runnable
    BY <2>3 DEF Scheduled, Runnable
  <2>9. Goes("free_stack", x, Tcb, NoBlock)
    BY <2>3, <2>4 DEF Goes, Places, InMalloc, AboutThread, Holding
  <2>10. Chooses(Idle, x)
    BY <1>2, <2>5 DEF Chooses
  <2>11. AboutOK(x, "free_stack")'
    BY <2>2, <2>3, <2>4, <2>8 DEF AboutOK, InMalloc
  <2> QED BY <1>1, <1>2, <2>2, <2>6, <2>7, <2>8, <2>9, <2>10, <2>11, KernelStep
<1> QED BY <1>3, <1>4

-----------------------------------------------------------------------------
(* Calls that go on.                                                       *)

(* A call that goes on about the same thread; the kernel stays as it is.   *)
LEMMA SameInside ==
    ASSUME LifeOK, NEW t \in Thread, k.cur = t, pc[t] \notin Outside, NEW at, NEW w, NEW b,
           pc' = [pc EXCEPT ![t] = at], target' = target,
           want' = [want EXCEPT ![t] = w], block' = [block EXCEPT ![t] = b],
           k' = k, object' = object, stack' \in [Thread -> Nat],
           Goes(at, target[t], w, b),
           target[t] # NULL => AboutOK(target[t], at)'
    PROVE  LifeOK'
<1>1. PICK tg : tg = target[t]
  OBVIOUS
<1>2. Moves(t, at, tg, w, b)
  BY <1>1, Stays DEF Moves
<1>3. Chooses(t, tg)
  BY <1>1 DEF Chooses, LifeOK, TargetsApart
<1>4. CallerOK(t)' /\ pc[t] # "sched"
  BY GoesOnInside DEF Outside
<1> QED BY <1>1, <1>2, <1>3, <1>4, SameLife

LEMMA AboutSame ==
    ASSUME k' = k, object' = object, NEW x, NEW at
    PROVE  AboutOK(x, at)' <=> AboutOK(x, at)
BY DEF AboutOK, Off, Linked

LEMMA PlaceIs ==
    ASSUME LifeOK, NEW t \in Thread
    PROVE  /\ want[t] \in {Tcb, Text}
           /\ target[t] \in (Thread \ {Idle}) \cup {NULL}
           /\ target[t] # NULL => pc[t] \in AboutThread \/ (pc[t] \in InMalloc /\ want[t] = Text)
BY AtPlace DEF PlaceOK

(* The memory for a stack, or none, has been found. *)
LEMMA ReturnsStackLife ==
    ASSUME LifeOK, NEW t \in Thread, k.cur = t, pc[t] \in InMalloc \cup {"stack"},
           target[t] # NULL, NEW ptr \in Nat, ReturnsStack(t, ptr),
           want' = [want EXCEPT ![t] = Tcb], block' = [block EXCEPT ![t] = NoBlock],
           target' = target, object' = object
    PROVE  LifeOK'
<1>1. PICK x \in Thread \ {Idle} : x = target[t] /\ x # NULL
  BY PlaceIs
<1>2. /\ k \in KernelState /\ LivesOK(k) /\ stack \in [Thread -> Nat]
      /\ pc \in [Thread -> Places] /\ object \subseteq Thread \ {Idle}
  BY AtPlace
<1>3. /\ pc[t] \notin Outside /\ pc[t] \notin {"register", "free_object"}
      /\ pc[t] # "remove"
  BY DEF InMalloc, Outside
<1>4. x \in object /\ k.stat[x] = "init" /\ Off(k, x)
  <2>1. AboutOK(x, pc[t])
    BY <1>1, AtPlace
  <2> QED BY <1>3, <2>1 DEF AboutOK
<1>5. k.stat[t] = "running" /\ x # t
  BY <1>3, <1>4, RunsOn DEF Outside
<1>6. CASE ptr = NULL
  <2>1. k' = k /\ stack' = stack /\ pc' = [pc EXCEPT ![t] = "unlink"]
    BY <1>6 DEF ReturnsStack, Goto
  <2>2. Goes("unlink", x, Tcb, NoBlock)
    BY <1>1 DEF Goes, Places, InMalloc, AboutThread, Holding
  <2>3. AboutOK(x, "unlink")'
    BY <1>4, <2>1 DEF AboutOK, InMalloc
  <2> QED BY <1>1, <1>2, <1>3, <2>1, <2>2, <2>3, SameInside
<1>7. CASE ptr # NULL
  <2>1. /\ stack' = [stack EXCEPT ![x] = ptr] /\ pc' = [pc EXCEPT ![t] = "created"]
        /\ k' = [k EXCEPT !.stat[x] = "init", !.err[x] = "ok", !.tmr[x] = FALSE]
    BY <1>1, <1>7 DEF ReturnsStack, Goto
  <2>2. /\ k' \in KernelState /\ k'.list = k.list /\ k'.table = k.table /\ k'.group = k.group
        /\ k'.lock = k.lock /\ k'.cur = k.cur /\ k'.prio = k.prio
        /\ k'.stat = k.stat /\ k'.tmr = k.tmr
    <3>1. [k.stat EXCEPT ![x] = "init"] = k.stat
      BY <1>2, <1>4 DEF KernelState
    <3>2. [k.tmr EXCEPT ![x] = FALSE] = k.tmr
      BY <1>2, <1>4 DEF KernelState, Off
    <3>3. [k.err EXCEPT ![x] = "ok"] \in [Thread -> Error]
      BY <1>2 DEF KernelState, Error
    <3>4. k' = [k EXCEPT !.err = [k.err EXCEPT ![x] = "ok"]]
      BY <1>2, <2>1, <3>1, <3>2 DEF KernelState
    <3> QED BY <1>2, <3>3, <3>4 DEF KernelState
  <2>3. /\ LivesOK(k') /\ \A u \in Thread : Kept(k', k, u)
    <3>1. SameOthers(k', k, x) /\ k'.stat[x] # "running"
      BY <1>2, <1>4, <2>2 DEF SameOthers, KernelState
    <3>2. LivesOK(k') /\ \A u \in Thread : OffStays(k', k, u)
      BY <1>1, <1>2, <1>4, <2>2, <3>1, OffTouched
    <3> QED BY <2>2, <3>2 DEF Kept
  <2>4. Moves(t, "created", x, Tcb, NoBlock)
    BY <1>1, <2>1, Stays DEF Moves
  <2>5. Goes("created", x, Tcb, NoBlock)
    BY <1>1 DEF Goes, Places, InMalloc, AboutThread, Holding
  <2>6. RestTyped
    BY <1>2, <2>1, <2>2 DEF RestTyped
  <2>7. Keeps(t, {})
    BY <2>2, <2>3 DEF Keeps
  <2>8. Chooses(t, x)
    BY <1>1 DEF Chooses, LifeOK, TargetsApart
  <2>9. AboutOK(x, "created")'
    BY <1>4, <2>2, <2>3 DEF AboutOK, InMalloc, Kept, OffStays
  <2>10. CallerOK(t)' /\ NoTimers(k') /\ CurrentRuns'
    <3>1. t # Idle => t \in object /\ k.prio[t] \notin Deletable /\ k.stat[t] \in Runnable
      BY <1>3, AtPlace DEF CallerOK
    <3> QED BY <1>5, <2>2, <3>1 DEF CallerOK, NoTimers, CurrentRuns, LifeOK
  <2>11. {} \in SUBSET Thread /\ \A y \in {} : StrangerOK(y)'
    OBVIOUS
  <2> QED BY <2>2, <2>3, <2>4, <2>5, <2>6, <2>7, <2>8, <2>9, <2>10, <2>11, StepLife
<1> QED BY <1>6, <1>7

(* A control block that has been found is of a thread that is nowhere.     *)
Nowhere(ptr) ==
    ptr # NULL => ptr \in Thread \ {Idle} /\ ptr \notin object /\ \A u \in Thread : target[u] # ptr

LEMMA ReturnsLife ==
    ASSUME LifeOK, NEW t \in Thread, k.cur = t, pc[t] \in InMalloc,
           NEW ptr \in Nat, Returns(t, ptr), block' = [block EXCEPT ![t] = NoBlock],
           object' = object, want[t] = Tcb => Nowhere(ptr)
    PROVE  LifeOK'
<1>0. /\ pc[t] \notin Outside \cup AboutThread /\ stack \in [Thread -> Nat]
      /\ want[t] \in {Tcb, Text} /\ want \in [Thread -> ChunkSize]
      /\ target[t] # NULL => want[t] = Text
  BY AtPlace, PlaceIs DEF InMalloc, Outside, AboutThread
<1>1. CASE want[t] = Tcb
  <2>1. PICK at : at = IF ptr = NULL THEN "user" ELSE "register"
    OBVIOUS
  <2>2. /\ target[t] = NULL /\ target' = [target EXCEPT ![t] = ptr]
        /\ pc' = [pc EXCEPT ![t] = at] /\ k' = k /\ stack' = stack /\ want' = want
    BY <1>0, <1>1, <2>1, LifeAssumption DEF Returns, Goto
  <2>3. Moves(t, at, ptr, Tcb, NoBlock)
    BY <1>1, <2>2, Stays DEF Moves
  <2>4. Goes(at, ptr, Tcb, NoBlock)
    BY <1>1, <2>1 DEF Goes, Places, InMalloc, AboutThread, Holding, Outside, Nowhere
  <2>5. ASSUME ptr # NULL PROVE AboutOK(ptr, at)'
    <3>1. /\ ptr \in Thread \ {Idle} /\ ptr \notin object
          /\ \A u \in Thread : target[u] # ptr
      BY <1>1, <2>5 DEF Nowhere
    <3>2. k.stat[ptr] = "init" /\ Off(k, ptr)
      BY <3>1 DEF LifeOK, StrangerOK, About
    <3> QED BY <2>1, <2>2, <2>5, <3>1, <3>2 DEF AboutOK, InMalloc
  <2>6. Chooses(t, ptr)
    BY <1>1, <2>2 DEF Chooses, Nowhere
  <2>7. CallerOK(t)' /\ pc[t] # "sched" /\ stack' \in [Thread -> Nat]
    BY <1>0, <2>2, GoesOnInside DEF Outside
  <2> QED BY <2>2, <2>3, <2>4, <2>5, <2>6, <2>7, SameLife
<1>2. CASE want[t] = Text /\ target[t] # NULL
  <2>1. /\ ReturnsStack(t, ptr) /\ want' = [want EXCEPT ![t] = Tcb] /\ target' = target
    BY <1>2, LifeAssumption DEF Returns
  <2> QED BY <1>2, <2>1, ReturnsStackLife
<1>3. CASE want[t] = Text /\ target[t] = NULL
  <2>1. /\ want' = [want EXCEPT ![t] = Tcb] /\ pc' = [pc EXCEPT ![t] = "user"]
        /\ k' = k /\ stack' = stack /\ target' = target
    BY <1>3, LifeAssumption DEF Returns, Goto
  <2>2. Goes("user", target[t], Tcb, NoBlock)
    BY <1>3 DEF Goes, Places, InMalloc, AboutThread, Holding, Outside
  <2> QED BY <1>0, <1>3, <2>1, <2>2, SameInside
<1> QED BY <1>0, <1>1, <1>2, <1>3

LEMMA RegisterLife ==
    ASSUME LifeOK, NEW t \in Thread, rt_object_allocate(t)
    PROVE  LifeOK'
<1>0. PICK p \in NewPriorities : k' = [k EXCEPT !.prio[target[t]] = p]
  BY DEF rt_object_allocate
<1>1. PICK x :
        /\ x = target[t] /\ k.cur = t /\ pc[t] = "register"
        /\ object' = object \cup {x} /\ k' = [k EXCEPT !.prio[x] = p]
        /\ pc' = [pc EXCEPT ![t] = "stack"]
        /\ stack' = stack /\ target' = target /\ want' = want /\ block' = block
  BY <1>0 DEF rt_object_allocate, Running, Goto
<1>2. pc[t] \in AboutThread /\ pc[t] \notin Holding \cup Outside \cup {"sched", "remove"}
  BY <1>1 DEF AboutThread, Holding, Outside
<1>3. /\ x \in Thread \ {Idle} /\ x # NULL /\ want[t] = Tcb /\ block[t] = NoBlock
      /\ k \in KernelState /\ LivesOK(k) /\ stack \in [Thread -> Nat]
      /\ object \subseteq Thread \ {Idle} /\ p \in Priority
  BY <1>1, <1>2, AtPlace, LifeAssumption
<1>4. x \notin object /\ k.stat[x] = "init" /\ Off(k, x)
  BY <1>1, <1>3, AtPlace DEF AboutOK
<1>5. /\ k' \in KernelState /\ k'.list = k.list /\ k'.table = k.table /\ k'.group = k.group
      /\ k'.lock = k.lock /\ k'.cur = k.cur /\ k'.prio = [k.prio EXCEPT ![x] = p]
      /\ k'.stat = k.stat /\ k'.tmr = k.tmr
  <2>1. [k.prio EXCEPT ![x] = p] \in [Thread -> Priority]
    BY <1>3 DEF KernelState
  <2> QED BY <1>1, <1>3, <2>1 DEF KernelState
<1>6. LivesOK(k') /\ \A u \in Thread : OffStays(k', k, u)
  <2>1. SameOthers(k', k, x) /\ k'.stat[x] # "running"
    BY <1>3, <1>4, <1>5 DEF SameOthers, KernelState
  <2> QED BY <1>3, <1>4, <1>5, <2>1, OffTouched
<1>7. \A u \in Thread \ {x} : k'.prio[u] = k.prio[u]
  BY <1>3, <1>5 DEF KernelState
<1>8. pc[x] \in Outside /\ x # t /\ \A u \in Thread \ {t} : target[u] # x
  BY <1>1, <1>2, <1>3, <1>4, NotBusy, RunsOn DEF Runnable, LifeOK, TargetsApart
<1>9. Keeps(t, {x})
  BY <1>1, <1>5, <1>6, <1>7, <1>8 DEF Keeps, Kept
<1>10. Moves(t, "stack", x, Tcb, NoBlock)
  BY <1>1, <1>3, Stays DEF Moves
<1>11. Goes("stack", x, Tcb, NoBlock)
  BY <1>3 DEF Goes, Places, InMalloc, AboutThread, Holding
<1>12. RestTyped /\ Chooses(t, x)
  BY <1>1, <1>3, <1>5, <1>8 DEF RestTyped, Chooses
<1>13. AboutOK(x, "stack")'
  BY <1>1, <1>3, <1>4, <1>5, <1>6 DEF AboutOK, OffStays
<1>14. CallerOK(t)'
  BY <1>1, <1>2, <1>3, <1>5, <1>7, <1>8, AtPlace DEF CallerOK
<1>15. NoTimers(k') /\ CurrentRuns'
  BY <1>1, <1>2, <1>4, <1>5, <1>7, RunsOn DEF NoTimers, LifeOK, CurrentRuns, Off
<1>16. {x} \in SUBSET Thread /\ \A y \in {x} : StrangerOK(y)'
  BY <1>1, <1>3 DEF StrangerOK
<1> QED BY <1>6, <1>9, <1>10, <1>11, <1>12, <1>13, <1>14, <1>15, <1>16, StepLife

LEMMA UnlinksLife ==
    ASSUME LifeOK, NEW t \in Thread, Unlinks(t)
    PROVE  LifeOK'
<1>1. PICK x :
        /\ x = target[t] /\ k.cur = t /\ pc[t] = "unlink"
        /\ object' = object \ {x} /\ k' = k
        /\ pc' = [pc EXCEPT ![t] = "free_object"]
        /\ stack' = stack /\ target' = target /\ want' = want /\ block' = block
  BY DEF Unlinks, Running, Goto
<1>2. pc[t] \in AboutThread /\ pc[t] \notin Holding \cup Outside \cup {"sched", "remove"}
  BY <1>1 DEF AboutThread, Holding, Outside
<1>3. /\ x \in Thread \ {Idle} /\ x # NULL /\ want[t] = Tcb /\ block[t] = NoBlock
      /\ k \in KernelState /\ LivesOK(k) /\ stack \in [Thread -> Nat]
      /\ object \subseteq Thread \ {Idle}
  BY <1>1, <1>2, AtPlace, LifeAssumption
<1>4. x \in object /\ k.stat[x] \in {"init", "close"} /\ Off(k, x)
  BY <1>1, <1>3, AtPlace DEF AboutOK
<1>5. pc[x] \in Outside /\ x # t /\ \A u \in Thread \ {t} : target[u] # x
  BY <1>1, <1>2, <1>3, <1>4, NotBusy, RunsOn DEF Runnable, LifeOK, TargetsApart
<1>6. Keeps(t, {x})
  BY <1>1, <1>5, AllKept DEF Keeps
<1>7. Moves(t, "free_object", x, Tcb, NoBlock)
  BY <1>1, <1>3, Stays DEF Moves
<1>8. Goes("free_object", x, Tcb, NoBlock)
  BY <1>3 DEF Goes, Places, InMalloc, AboutThread, Holding
<1>9. RestTyped /\ Chooses(t, x) /\ LivesOK(k')
  BY <1>1, <1>3, <1>5 DEF RestTyped, Chooses
<1>10. AboutOK(x, "free_object")'
  BY <1>1, <1>4 DEF AboutOK, InMalloc
<1>11. CallerOK(t)'
  BY <1>1, <1>2, <1>5, AtPlace DEF CallerOK
<1>12. NoTimers(k') /\ CurrentRuns'
  BY <1>1, <1>2, RunsOn DEF NoTimers, LifeOK, CurrentRuns
<1>13. target'[t] = x
  BY <1>1, <1>3, AtPlace
<1>14. {x} \in SUBSET Thread /\ \A y \in {x} : StrangerOK(y)'
  BY <1>1, <1>3, <1>4, <1>13 DEF StrangerOK, About
<1> QED BY <1>6, <1>7, <1>8, <1>9, <1>10, <1>11, <1>12, <1>14, StepLife

-----------------------------------------------------------------------------
(* Whose the blocks are.                                                   *)

(* The runs of pages in hand. *)
LEMMA NoBlockIs == NoBlock \notin Runs
BY DEF Runs, NoBlock, Run, NULL

LEMMA HandsSame ==
    ASSUME block' = block, HandsApart
    PROVE  Hands' = Hands /\ HandsApart'
BY DEF Hands, HandsApart, InHand

LEMMA HandsGain ==
    ASSUME block \in [Thread -> Runs \cup {NoBlock}], HandsApart, NEW t \in Thread,
           block[t] = NoBlock, NEW r \in Runs, r \notin Hands, block' = [block EXCEPT ![t] = r]
    PROVE  Hands' = Hands \cup {r} /\ HandsApart'
<1>1. r # NoBlock
  BY NoBlockIs
<1>2. /\ block'[t] = r /\ DOMAIN block' = Thread
      /\ \A u \in Thread \ {t} : block'[u] = block[u]
  OBVIOUS
<1>3. InHand' = InHand \cup {t} /\ t \notin InHand /\ InHand \subseteq Thread
  BY <1>1, <1>2 DEF InHand
<1>4. Hands' = Hands \cup {r}
  BY <1>2, <1>3 DEF Hands
<1>5. \A u \in InHand : block[u] # r
  BY DEF Hands
<1>6. HandsApart'
  BY <1>2, <1>3, <1>5 DEF HandsApart
<1> QED BY <1>4, <1>6

LEMMA HandsLose ==
    ASSUME block \in [Thread -> Runs \cup {NoBlock}], HandsApart, NEW t \in Thread,
           block[t] # NoBlock, NEW r, r = block[t], block' = [block EXCEPT ![t] = NoBlock]
    PROVE  Hands' = Hands \ {r} /\ HandsApart' /\ r \in Hands
<1>2. /\ block'[t] = NoBlock /\ \A u \in Thread \ {t} : block'[u] = block[u]
  OBVIOUS
<1>3. InHand' = InHand \ {t} /\ t \in InHand /\ InHand \subseteq Thread
  BY <1>2 DEF InHand
<1>4. Hands' = Hands \ {r}
  BY <1>2, <1>3 DEF Hands, HandsApart
<1>5. HandsApart'
  BY <1>2, <1>3 DEF HandsApart
<1> QED BY <1>3, <1>4, <1>5 DEF Hands

(* What the calls are about, after a step of t. *)
ComesTo(t, at, tg) ==
    pc' = [pc EXCEPT ![t] = at] /\ target' = [target EXCEPT ![t] = tg]

LEMMA TargetsStep ==
    ASSUME LifeOK, NEW t \in Thread, NEW at, NEW tg, ComesTo(t, at, tg), NEW S
    PROVE  \A x : x \in Targets(S)' <=>
              \/ (x \in Targets(S) /\ x # target[t])
              \/ (x = tg /\ at \in S /\ x # NULL)
<1>0. pc \in [Thread -> Places] /\ target \in [Thread -> (Thread \ {Idle}) \cup {NULL}]
  BY AtPlace
<1>1. /\ \A u \in Thread \ {t} : pc'[u] = pc[u] /\ target'[u] = target[u]
      /\ pc'[t] = at /\ target'[t] = tg
  BY <1>0 DEF ComesTo
<1>2. \A u \in Thread \ {t} : target[u] # NULL => target[u] # target[t]
  BY DEF LifeOK, TargetsApart
<1>3. ASSUME NEW x
      PROVE  x \in Targets(S) <=> \E u \in Thread : x = target[u] /\ pc[u] \in S /\ x # NULL
  BY DEF Targets
<1>4. ASSUME NEW x
      PROVE  x \in Targets(S)' <=> \E u \in Thread : x = target'[u] /\ pc'[u] \in S /\ x # NULL
  BY DEF Targets
<1> QED BY <1>1, <1>2, <1>3, <1>4

LEMMA TargetHas ==
    ASSUME LifeOK, NEW t \in Thread, target[t] # NULL, NEW S
    PROVE  target[t] \in Targets(S) <=> pc[t] \in S
BY DEF Targets, LifeOK, TargetsApart

(* The places where a call has its thread in memory but not registered,    *)
(* and those where it is registered and has no stack.                      *)
Making == {"register", "free_object"}
Lacking == {"stack", "free_stack_pages", "unlink"} \cup InMalloc

LEMMA BlocksAre ==
    /\ ThreadBlocks = object \cup Targets(Making) /\ Complete = object \ Targets(Lacking)
    /\ ThreadBlocks' = object' \cup Targets(Making)' /\ Complete' = object' \ Targets(Lacking)'
BY DEF ThreadBlocks, Complete, Making, Lacking

Elsewhere(x, at) == x = NULL \/ at \notin Making \cup Lacking

(* What is owned does not change: the call is not about a thread that is   *)
(* being made or unmade, or the thread still lacks its stack.              *)
Reckons(t, at, tg) ==
    \/ (Elsewhere(target[t], pc[t]) /\ Elsewhere(tg, at))
    \/ (tg = target[t] /\ {pc[t], at} \subseteq Lacking)

LEMMA ReckonSame ==
    ASSUME LifeOK, NEW t \in Thread, NEW at, NEW tg, ComesTo(t, at, tg), object' = object,
           Reckons(t, at, tg)
    PROVE  ThreadBlocks' = ThreadBlocks /\ Complete' = Complete
<1>0. Making \cap Lacking = {}
  BY DEF Making, Lacking, InMalloc
<1>1. ASSUME NEW S \in {Making, Lacking} PROVE Targets(S)' = Targets(S)
  <2>1. \A x : x \in Targets(S)' <=>
              \/ (x \in Targets(S) /\ x # target[t])
              \/ (x = tg /\ at \in S /\ x # NULL)
    BY TargetsStep
  <2>2. \A x \in Targets(S) : x # NULL
    BY DEF Targets
  <2>3. target[t] # NULL => (target[t] \in Targets(S) <=> pc[t] \in S)
    BY TargetHas
  <2>4. CASE Elsewhere(target[t], pc[t]) /\ Elsewhere(tg, at)
    <3>1. target[t] \notin Targets(S) /\ (tg = NULL \/ at \notin S)
      BY <2>2, <2>3, <2>4 DEF Elsewhere
    <3> QED BY <2>1, <2>2, <3>1
  <2>5. CASE tg = target[t] /\ {pc[t], at} \subseteq Lacking
    <3>1. pc[t] \in S <=> at \in S
      BY <1>0, <2>5
    <3> QED BY <2>1, <2>2, <2>3, <2>5, <3>1
  <2> QED BY <2>4, <2>5 DEF Reckons
<1>2. Targets(Making)' = Targets(Making) /\ Targets(Lacking)' = Targets(Lacking)
  BY <1>1
<1> QED BY <1>2, BlocksAre

(* The blocks. *)
LEMMA SmallKnown ==
    ASSUME NEW h, NEW H, HeapOK(h, H), NEW a \in SmallBlocks(h)
    PROVE  /\ a \in Nat \ {0} /\ h.kup[a \div PAGE].type = "small"
           /\ \A p \in LargeBlocks(h) : a # PAGE * p
           /\ \A p \in Nat : a # PAGE * p
<1>1. PICK z, c : Out(h, z, c) /\ a = ChunkAt(z, h.zone[z].size, c)
  BY SmallIs
<1>2. /\ a \in Nat \ {0} /\ a % PAGE # 0 /\ h.kup[a \div PAGE].type = "small"
  BY <1>1, OneChunk
<1>3. \A p \in Nat : (PAGE * p) % PAGE = 0
  <2>1. \A p \in Nat : (4096 * p) % 4096 = 0
    BY Z3
  <2> QED BY <2>1 DEF PAGE
<1>4. \A p \in Nat : a # PAGE * p
  BY <1>2, <1>3
<1> QED BY <1>2, <1>4, ZonesAre

LEMMA BlocksGainSmall ==
    ASSUME HeapOK(heap', Hands'), NEW a, a \notin SmallBlocks(heap),
           SmallBlocks(heap') = SmallBlocks(heap) \cup {a},
           LargeBlocks(heap') = LargeBlocks(heap)
    PROVE  /\ Blocks' = Blocks \cup {a} /\ a \notin Blocks /\ a \in Nat \ {0}
           /\ SmallBlocks(heap)' = SmallBlocks(heap) \cup {a}
<1>1. PICK h, H : h = heap' /\ H = Hands'
  OBVIOUS
<1>2. a \in Nat \ {0} /\ \A p \in LargeBlocks(h) : a # PAGE * p
  BY <1>1, SmallKnown
<1> QED BY <1>1, <1>2 DEF Blocks

LEMMA BlocksLoseSmall ==
    ASSUME HeapOK(heap, Hands), NEW a \in SmallBlocks(heap),
           SmallBlocks(heap') = SmallBlocks(heap) \ {a},
           LargeBlocks(heap') = LargeBlocks(heap)
    PROVE  /\ Blocks' = Blocks \ {a}
           /\ SmallBlocks(heap)' = SmallBlocks(heap) \ {a}
<1>1. \A p \in LargeBlocks(heap) : a # PAGE * p
  BY SmallKnown
<1> QED BY <1>1 DEF Blocks

LEMMA BlocksSame ==
    ASSUME SmallBlocks(heap') = SmallBlocks(heap), LargeBlocks(heap') = LargeBlocks(heap)
    PROVE  Blocks' = Blocks /\ SmallBlocks(heap)' = SmallBlocks(heap)
BY DEF Blocks

LEMMA BlocksGainLarge ==
    ASSUME HeapOK(heap, Hands), NEW p \in Nat \ {0}, p \notin LargeBlocks(heap),
           SmallBlocks(heap') = SmallBlocks(heap),
           LargeBlocks(heap') = LargeBlocks(heap) \cup {p}
    PROVE  /\ Blocks' = Blocks \cup {PAGE * p} /\ PAGE * p \notin Blocks
           /\ SmallBlocks(heap)' = SmallBlocks(heap) /\ PAGE * p \in Nat \ {0}
<1>1. \A a \in SmallBlocks(heap) : a # PAGE * p
  BY SmallKnown
<1>2. \A q \in LargeBlocks(heap) : PAGE * q # PAGE * p
  BY ZonesAre DEF PAGE
<1> QED BY <1>1, <1>2 DEF Blocks, PAGE

LEMMA BlocksLoseLarge ==
    ASSUME HeapOK(heap, Hands), NEW p \in LargeBlocks(heap),
           SmallBlocks(heap') = SmallBlocks(heap),
           LargeBlocks(heap') = LargeBlocks(heap) \ {p}
    PROVE  /\ Blocks' = Blocks \ {PAGE * p} /\ SmallBlocks(heap) \ {PAGE * p} = SmallBlocks(heap)
           /\ SmallBlocks(heap)' = SmallBlocks(heap)
<1>1. \A a \in SmallBlocks(heap) : a # PAGE * p
  BY SmallKnown
<1>2. \A q \in LargeBlocks(heap) \ {p} : PAGE * q # PAGE * p
  BY ZonesAre DEF PAGE
<1> QED BY <1>1, <1>2 DEF Blocks

-----------------------------------------------------------------------------
(* A block more, and a block less.                                         *)

LEMMA OwnedBy ==
    ASSUME NEW small, NEW blocks, NEW tx, NEW th, NEW cp, NEW st,
           NEW stacks, stacks = {st[x] : x \in cp},
           Range(tx) \cup th \cup stacks = blocks,
           Range(tx) \subseteq small, th \subseteq small,
           Range(tx) \cap th = {}, Range(tx) \cap stacks = {}, th \cap stacks = {},
           IsInjective(tx), \A x, y \in cp : x # y => st[x] # st[y]
    PROVE  Owned(small, blocks, tx, th, cp, st)
BY DEF Owned

(* Adding to what is owned, and taking from it. *)
LEMMA OwnedMore ==
    ASSUME NEW small, NEW blocks, NEW tx \in Seq(Nat), NEW th, NEW cp, NEW st,
           Owned(small, blocks, tx, th, cp, st), NEW a \in Nat, a \notin blocks,
           NEW small2, small \subseteq small2
    PROVE  /\ a \in small2 => Owned(small2, blocks \cup {a}, tx, th \cup {a}, cp, st)
           /\ a \in small2 => Owned(small2, blocks \cup {a}, Append(tx, a), th, cp, st)
           /\ \A x, s : x \notin cp /\ s[x] = a /\ (\A y \in cp : s[y] = st[y])
                 => Owned(small2, blocks \cup {a}, tx, th, cp \cup {x}, s)
<1> DEFINE stacks == {st[x] : x \in cp}
<1>1. /\ Range(tx) \cup th \cup stacks = blocks
      /\ Range(tx) \subseteq small /\ th \subseteq small
      /\ Range(tx) \cap th = {} /\ Range(tx) \cap stacks = {} /\ th \cap stacks = {}
      /\ IsInjective(tx)
      /\ \A x, y \in cp : x # y => st[x] # st[y]
  BY DEF Owned
<1>2. ASSUME a \in small2 PROVE Owned(small2, blocks \cup {a}, tx, th \cup {a}, cp, st)
  BY <1>1, <1>2 DEF Owned
<1>3. ASSUME a \in small2 PROVE Owned(small2, blocks \cup {a}, Append(tx, a), th, cp, st)
  <2> DEFINE tx2 == Append(tx, a)
  <2>1. /\ DOMAIN tx = 1 .. Len(tx) /\ DOMAIN tx2 = 1 .. Len(tx) + 1 /\ Len(tx) \in Nat
        /\ \A i \in DOMAIN tx : tx2[i] = tx[i]
        /\ tx2[Len(tx) + 1] = a
    OBVIOUS
  <2>2. Range(tx2) = Range(tx) \cup {a}
    BY <2>1 DEF Range
  <2>3. \A i \in DOMAIN tx : tx[i] # a
    BY <1>1 DEF Range
  <2>4. IsInjective(tx2)
    BY <1>1, <2>1, <2>3 DEF IsInjective
  <2> HIDE DEF tx2
  <2>5. Owned(small2, blocks \cup {a}, tx2, th, cp, st)
    <3>1. PICK sk : sk = stacks
      OBVIOUS
    <3>2. /\ Range(tx2) \cup th \cup sk = blocks \cup {a}
          /\ Range(tx2) \subseteq small2 /\ th \subseteq small2
          /\ Range(tx2) \cap th = {} /\ Range(tx2) \cap sk = {} /\ th \cap sk = {}
      <4> HIDE DEF stacks
      <4> QED BY <1>1, <1>3, <2>2, <3>1
    <3> QED BY <1>1, <2>4, <3>1, <3>2, OwnedBy
  <2> QED BY <2>5 DEF tx2
<1>4. ASSUME NEW x, NEW s, x \notin cp, s[x] = a, \A y \in cp : s[y] = st[y]
      PROVE  Owned(small2, blocks \cup {a}, tx, th, cp \cup {x}, s)
  <2>1. {s[y] : y \in cp \cup {x}} = stacks \cup {a}
    BY <1>4
  <2>2. \A y, z \in cp \cup {x} : y # z => s[y] # s[z]
    BY <1>1, <1>4
  <2>3. PICK sk : sk = stacks \cup {a}
    OBVIOUS
  <2>4. /\ Range(tx) \cup th \cup sk = blocks \cup {a}
        /\ Range(tx) \subseteq small2 /\ th \subseteq small2
        /\ Range(tx) \cap sk = {} /\ th \cap sk = {}
    <3> HIDE DEF stacks
    <3> QED BY <1>1, <2>3
  <2> QED BY <1>1, <2>1, <2>2, <2>3, <2>4, OwnedBy
<1> QED BY <1>2, <1>3, <1>4

LEMMA OwnedLess ==
    ASSUME NEW small, NEW blocks, NEW tx \in Seq(Nat), NEW th, NEW cp, NEW st,
           Owned(small, blocks, tx, th, cp, st), NEW a
    PROVE  /\ a \in th => \A s : (\A y \in cp : s[y] = st[y])
                 => Owned(small \ {a}, blocks \ {a}, tx, th \ {a}, cp, s)
           /\ tx # <<>> /\ a = Head(tx)
                 => a \in small /\ Owned(small \ {a}, blocks \ {a}, Tail(tx), th, cp, st)
           /\ \A x \in cp : a = st[x]
                 => a \in blocks /\ Owned(small \ {a}, blocks \ {a}, tx, th, cp \ {x}, st)
<1> DEFINE stacks == {st[x] : x \in cp}
<1>1. /\ Range(tx) \cup th \cup stacks = blocks
      /\ Range(tx) \subseteq small /\ th \subseteq small
      /\ Range(tx) \cap th = {} /\ Range(tx) \cap stacks = {} /\ th \cap stacks = {}
      /\ IsInjective(tx)
      /\ \A x, y \in cp : x # y => st[x] # st[y]
  BY DEF Owned
<1>2. ASSUME a \in th, NEW s, \A y \in cp : s[y] = st[y]
      PROVE  Owned(small \ {a}, blocks \ {a}, tx, th \ {a}, cp, s)
  <2>1. {s[y] : y \in cp} = stacks
    BY <1>2
  <2>2. \A x, y \in cp : x # y => s[x] # s[y]
    BY <1>1, <1>2
  <2>3. Range(tx) \cup (th \ {a}) \cup stacks = blocks \ {a}
    BY <1>1, <1>2
  <2>4. Range(tx) \subseteq small \ {a} /\ th \ {a} \subseteq small \ {a}
    BY <1>1, <1>2
  <2> HIDE DEF stacks
  <2> QED BY <1>1, <2>1, <2>2, <2>3, <2>4 DEF Owned
<1>3. ASSUME tx # <<>>, a = Head(tx)
      PROVE  a \in small /\ Owned(small \ {a}, blocks \ {a}, Tail(tx), th, cp, st)
  <2> DEFINE tx2 == Tail(tx)
  <2>1. /\ DOMAIN tx = 1 .. Len(tx) /\ Len(tx) \in Nat \ {0}
        /\ DOMAIN tx2 = 1 .. Len(tx) - 1 /\ tx[1] = a
        /\ \A i \in DOMAIN tx2 : tx2[i] = tx[i + 1]
    BY <1>3
  <2>2. \A i, j \in DOMAIN tx : i # j => tx[i] # tx[j]
    BY <1>1 DEF IsInjective
  <2>3. Range(tx2) = Range(tx) \ {a} /\ a \in Range(tx)
    <3>1. ASSUME NEW i \in DOMAIN tx, tx[i] # a PROVE \E j \in DOMAIN tx2 : tx2[j] = tx[i]
      <4>1. i - 1 \in DOMAIN tx2 /\ tx2[i - 1] = tx[i]
        BY <2>1, <3>1
      <4> QED BY <4>1
    <3>2. ASSUME NEW j \in DOMAIN tx2 PROVE tx2[j] \in Range(tx) \ {a}
      <4>1. j + 1 \in DOMAIN tx /\ j + 1 # 1 /\ 1 \in DOMAIN tx /\ tx2[j] = tx[j + 1]
        BY <2>1
      <4>2. tx[j + 1] # tx[1]
        BY <2>2, <4>1
      <4> QED BY <2>1, <4>1, <4>2 DEF Range
    <3>3. a \in Range(tx)
      BY <2>1 DEF Range
    <3>4. ASSUME NEW y \in Range(tx2) PROVE y \in Range(tx) \ {a}
      BY <3>2 DEF Range
    <3>5. ASSUME NEW y \in Range(tx) \ {a} PROVE y \in Range(tx2)
      <4>1. PICK i \in DOMAIN tx : y = tx[i]
        BY DEF Range
      <4> QED BY <3>1, <4>1 DEF Range
    <3> QED BY <3>3, <3>4, <3>5
  <2>4. IsInjective(tx2)
    <3> HIDE DEF tx2
    <3>1. ASSUME NEW i \in DOMAIN tx2, NEW j \in DOMAIN tx2, i # j PROVE tx2[i] # tx2[j]
      <4>1. i + 1 \in DOMAIN tx /\ j + 1 \in DOMAIN tx /\ i + 1 # j + 1
        <5>0. PICK n : n = Len(tx)
          OBVIOUS
        <5>1. n = Len(tx) /\ n \in Nat
          BY <5>0
        <5>2. i \in 1 .. n - 1 /\ j \in 1 .. n - 1
          BY <2>1, <5>1
        <5>5. n \in Nat
          BY <5>1
        <5>3. i + 1 \in 1 .. n /\ j + 1 \in 1 .. n /\ i \in Int /\ j \in Int
          BY <5>2, <5>5
        <5>4. i + 1 # j + 1
          BY <3>1, <5>3
        <5> QED BY <2>1, <5>1, <5>3, <5>4
      <4> QED BY <2>1, <2>2, <4>1
    <3> QED BY <3>1 DEF IsInjective
  <2> HIDE DEF tx2
  <2>5. Owned(small \ {a}, blocks \ {a}, tx2, th, cp, st)
    <3>1. Range(tx2) \cup th \cup stacks = blocks \ {a}
      BY <1>1, <2>3
    <3> QED BY <1>1, <2>3, <2>4, <3>1 DEF Owned
  <2> QED BY <1>1, <2>3, <2>5 DEF tx2
<1>4. ASSUME NEW x \in cp, a = st[x]
      PROVE  a \in blocks /\ Owned(small \ {a}, blocks \ {a}, tx, th, cp \ {x}, st)
  <2>1. {st[y] : y \in cp \ {x}} = stacks \ {a}
    BY <1>1, <1>4
  <2>2. a \in stacks
    BY <1>4
  <2> QED BY <1>1, <2>1, <2>2 DEF Owned
<1> QED BY <1>2, <1>3, <1>4

(* A thread inside a call has its control block in memory. *)
LEMMA TargetsInMemory ==
    ASSUME LifeOK, NEW u \in Thread, target[u] # NULL
    PROVE  target[u] \in ThreadBlocks
<1>1. CASE pc[u] \in Making
  BY <1>1, TargetHas, BlocksAre
<1>2. CASE pc[u] \notin Making
  <2>1. AboutOK(target[u], pc[u])
    BY DEF LifeOK, CallOK
  <2> QED BY <1>2, <2>1, BlocksAre DEF AboutOK, Making
<1> QED BY <1>1, <1>2

LEMMA ChunkNowhere ==
    ASSUME LifeOK, MemoryOK, NEW h, NEW H, HeapOK(h, H), NEW z \in Zones(h),
           NEW c \in 0 .. z_nmax[Tcb] - 1, NEW a, a = ChunkAt(z, Tcb, c),
           a \notin SmallBlocks(heap)
    PROVE  Nowhere(a)
<1>1. PagesOf(z) \subseteq PageNo /\ z \in Nat \ {0}
  BY ZonePages, ZonesAre DEF HeapOK, PagesOK
<1>2. z + zone_page_cnt - 1 <= Pages
  <2>1. z + zone_page_cnt - 1 \in PagesOf(z)
    BY <1>1, SlabAssumption DEF PagesOf
  <2> QED BY <1>1, <2>1, SlabAssumption DEF PageNo
<1>3. z \in 1 .. Pages - zone_page_cnt + 1
  BY <1>1, <1>2, SlabAssumption
<1>4. a \in Thread \ {Idle}
  BY <1>3, LifeAssumption
<1>5. ThreadBlocks \subseteq SmallBlocks(heap)
  BY DEF MemoryOK, Owned
<1>6. \A u \in Thread : target[u] # a
  BY <1>4, <1>5, TargetsInMemory, LifeAssumption
<1> QED BY <1>4, <1>5, <1>6, BlocksAre DEF Nowhere

-----------------------------------------------------------------------------
(* Steps that leave the heap as it is.                                     *)

LEMMA MemoryParts ==
    ASSUME MemoryOK
    PROVE  /\ HeapOK(heap, Hands) /\ HandsApart /\ texts \in Seq(Nat)
           /\ Owned(SmallBlocks(heap), Blocks, texts, ThreadBlocks, Complete, stack)
BY DEF MemoryOK

LEMMA MemoryBy ==
    ASSUME HeapOK(heap', Hands'), HandsApart', texts' \in Seq(Nat),
           Owned(SmallBlocks(heap'), Blocks', texts', ThreadBlocks', Complete', stack')
    PROVE  MemoryOK'
BY DEF MemoryOK

(* The memory stays as it is. *)
LEMMA MemoryStill ==
    ASSUME MemoryOK, heap' = heap, block' = block, texts' = texts, stack' = stack,
           ThreadBlocks' = ThreadBlocks, Complete' = Complete
    PROVE  MemoryOK'
<1>1. Hands' = Hands /\ HandsApart'
  BY MemoryParts, HandsSame
<1>2. Blocks' = Blocks
  BY DEF Blocks
<1> QED BY <1>1, <1>2, MemoryParts, MemoryBy

LEMMA NoCallReckons ==
    ASSUME pc' = pc, target' = target, object' = object
    PROVE  ThreadBlocks' = ThreadBlocks /\ Complete' = Complete
BY DEF ThreadBlocks, Complete, Targets

LEMMA InterruptsMemory ==
    ASSUME MemoryOK, Interrupts
    PROVE  MemoryOK'
<1>1. Calm /\ heap' = heap /\ pc' = pc
  BY DEF Interrupts, TimerFires, DeviceWakes, SliceExpires
<1> QED BY <1>1, MemoryStill, NoCallReckons DEF Calm

(* The steps that are about the kernel only. *)
KernelSteps(t) ==
    \/ rt_thread_create(t) \/ rt_thread_startup(t) \/ Schedules(t)
    \/ rt_thread_sleep(t) \/ Waits(t) \/ rt_thread_exit(t)
    \/ rt_thread_delete(t) \/ Removes(t) \/ DetachesTimer(t) \/ Closes(t)
    \/ MallocsText(t)

LEMMA KernelStepsMemory ==
    ASSUME LifeOK, MemoryOK, NEW t \in Thread, KernelSteps(t)
    PROVE  MemoryOK'
<1>1. /\ heap' = heap /\ block' = block /\ texts' = texts /\ stack' = stack
      /\ object' = object
  BY DEF KernelSteps, rt_thread_create, rt_thread_startup, Schedules, rt_thread_sleep, Waits,
         rt_thread_exit, rt_thread_delete, Removes, DetachesTimer, Closes, MallocsText, Calm
<1>2. \E at, tg : ComesTo(t, at, tg) /\ Reckons(t, at, tg)
  <2>1. target = [target EXCEPT ![t] = target[t]]
    BY Stays
  <2>2. /\ target[t] # NULL => pc[t] \in AboutThread \cup InMalloc
        /\ pc[t] \in AboutThread => target[t] # NULL
    BY AtPlace DEF PlaceOK
  <2> DEFINE Quiet == {"user", "sched", "created", "remove", "detach", "close"}
  <2>3. Quiet \cap (Making \cup Lacking) = {}
    BY DEF Making, Lacking, InMalloc
  <2>4. pc[t] \in Quiet
    BY DEF KernelSteps, rt_thread_create, rt_thread_startup, Schedules, rt_thread_sleep, Waits,
           rt_thread_exit, rt_thread_delete, Removes, DetachesTimer, Closes, MallocsText,
           Calls, Running
  <2>5. Elsewhere(target[t], pc[t])
    BY <2>3, <2>4 DEF Elsewhere
  <2>6. CASE rt_thread_create(t) \/ MallocsText(t)
    <3>1. ComesTo(t, "malloc", target[t])
      BY <2>1, <2>6 DEF ComesTo, rt_thread_create, MallocsText, Goto
    <3>2. target[t] = NULL
      BY <2>6, AtPlace DEF rt_thread_create, MallocsText, Calls, Running, Outside
    <3>3. Reckons(t, "malloc", target[t])
      BY <2>5, <3>2 DEF Reckons, Elsewhere
    <3> QED BY <3>1, <3>3
  <2>7. CASE \/ Schedules(t) \/ rt_thread_sleep(t) \/ Waits(t) \/ rt_thread_exit(t)
             \/ rt_thread_delete(t) \/ Removes(t) \/ DetachesTimer(t)
    <3>1. PICK at \in Quiet : pc' = [pc EXCEPT ![t] = at]
      BY <2>7 DEF Schedules, rt_thread_sleep, Waits, rt_thread_exit,
                  rt_thread_delete, Removes, DetachesTimer, Goto
    <3>2. PICK tg : target' = [target EXCEPT ![t] = tg]
      BY <2>1, <2>7 DEF Schedules, rt_thread_sleep, Waits, rt_thread_exit,
                        rt_thread_delete, Removes, DetachesTimer, Calm
    <3>3. ComesTo(t, at, tg) /\ Reckons(t, at, tg)
      BY <2>3, <2>5, <3>1, <3>2 DEF ComesTo, Reckons, Elsewhere
    <3> QED BY <3>3
  <2>8. CASE rt_thread_startup(t) \/ Closes(t)
    <3>1. PICK at \in Quiet : pc' = [pc EXCEPT ![t] = at]
      BY <2>8 DEF rt_thread_startup, Closes, Goto
    <3>2. ComesTo(t, at, NULL) /\ Reckons(t, at, NULL)
      BY <2>5, <2>8, <3>1 DEF ComesTo, Reckons, Elsewhere, rt_thread_startup, Closes
    <3> QED BY <3>2
  <2> QED BY <2>6, <2>7, <2>8 DEF KernelSteps
<1>3. ThreadBlocks' = ThreadBlocks /\ Complete' = Complete
  BY <1>1, <1>2, ReckonSame
<1> QED BY <1>1, <1>3, MemoryStill

LEMMA IdleMemory ==
    ASSUME LifeOK, MemoryOK, rt_thread_idle_excute
    PROVE  MemoryOK'
<1>1. CASE k.list[defunct] = <<>>
  <2>1. UNCHANGED vars
    BY <1>1 DEF rt_thread_idle_excute
  <2> QED BY <2>1, MemoryStill, NoCallReckons DEF vars
<1>2. CASE k.list[defunct] # <<>>
  <2>1. PICK x : /\ ComesTo(Idle, "free_stack", x) /\ pc[Idle] = "user"
                 /\ heap' = heap /\ block' = block /\ texts' = texts /\ stack' = stack
                 /\ object' = object
    BY <1>2 DEF rt_thread_idle_excute, Running, Goto, ComesTo
  <2>2. Reckons(Idle, "free_stack", x) /\ Idle \in Thread
    BY <2>1, KernelAssumption DEF Reckons, Elsewhere, Making, Lacking, InMalloc
  <2>3. ThreadBlocks' = ThreadBlocks /\ Complete' = Complete
    BY <2>1, <2>2, ReckonSame
  <2> QED BY <2>1, <2>3, MemoryStill
<1> QED BY <1>1, <1>2

LEMMA RegisterMemory ==
    ASSUME LifeOK, MemoryOK, NEW t \in Thread, rt_object_allocate(t)
    PROVE  MemoryOK'
<1>1. PICK x :
        /\ x = target[t] /\ pc[t] = "register" /\ object' = object \cup {x}
        /\ pc' = [pc EXCEPT ![t] = "stack"] /\ target' = target
        /\ heap' = heap /\ block' = block /\ texts' = texts /\ stack' = stack
  BY DEF rt_object_allocate, Running, Goto
<1>2. ComesTo(t, "stack", x)
  BY <1>1, Stays DEF ComesTo
<1>3. x # NULL /\ x \notin object
  BY <1>1, AtPlace DEF AboutThread, PlaceOK, AboutOK
<1>4. pc[t] \in Making /\ "stack" \in Lacking /\ "stack" \notin Making /\ pc[t] \notin Lacking
  BY <1>1 DEF Making, Lacking, InMalloc
<1>5. /\ \A y : y \in Targets(Making)' <=> y \in Targets(Making) /\ y # x
      /\ \A y : y \in Targets(Lacking)' <=> (y \in Targets(Lacking) /\ y # x) \/ y = x
  BY <1>1, <1>2, <1>3, <1>4, TargetsStep
<1>6. x \in Targets(Making)
  BY <1>1, <1>3, <1>4, TargetHas
<1>7. ThreadBlocks' = ThreadBlocks /\ Complete' = Complete
  BY <1>1, <1>3, <1>5, <1>6, BlocksAre
<1> QED BY <1>1, <1>7, MemoryStill

LEMMA UnlinksMemory ==
    ASSUME LifeOK, MemoryOK, NEW t \in Thread, Unlinks(t)
    PROVE  MemoryOK'
<1>1. PICK x :
        /\ x = target[t] /\ pc[t] = "unlink" /\ object' = object \ {x}
        /\ pc' = [pc EXCEPT ![t] = "free_object"] /\ target' = target
        /\ heap' = heap /\ block' = block /\ texts' = texts /\ stack' = stack
  BY DEF Unlinks, Running, Goto
<1>2. ComesTo(t, "free_object", x)
  BY <1>1, Stays DEF ComesTo
<1>3. x # NULL /\ x \in object
  BY <1>1, AtPlace DEF AboutThread, PlaceOK, AboutOK
<1>4. /\ pc[t] \in Lacking /\ "free_object" \in Making
      /\ "free_object" \notin Lacking /\ pc[t] \notin Making
  BY <1>1 DEF Making, Lacking, InMalloc
<1>5. /\ \A y : y \in Targets(Making)' <=> (y \in Targets(Making) /\ y # x) \/ y = x
      /\ \A y : y \in Targets(Lacking)' <=> y \in Targets(Lacking) /\ y # x
  BY <1>1, <1>2, <1>3, <1>4, TargetsStep
<1>6. x \in Targets(Lacking)
  BY <1>1, <1>3, <1>4, TargetHas
<1>7. ThreadBlocks' = ThreadBlocks /\ Complete' = Complete
  BY <1>1, <1>3, <1>5, <1>6, BlocksAre
<1> QED BY <1>1, <1>7, MemoryStill

-----------------------------------------------------------------------------
(* What rt_malloc returns.                                                 *)

(* What rt_malloc has found: nothing, or a block that was not one.         *)
Gains(ptr) ==
    \/ ptr = NULL /\ Blocks' = Blocks /\ SmallBlocks(heap') = SmallBlocks(heap)
    \/ /\ ptr \in Nat \ {0} /\ ptr \notin Blocks /\ Blocks' = Blocks \cup {ptr}
       /\ SmallBlocks(heap) \subseteq SmallBlocks(heap')

LEMMA StackMemory ==
    ASSUME LifeOK, MemoryOK, NEW t \in Thread, pc[t] \in InMalloc \cup {"stack"},
           target[t] # NULL, NEW ptr, ReturnsStack(t, ptr), Gains(ptr),
           target' = target, object' = object, texts' = texts,
           HeapOK(heap', Hands'), HandsApart'
    PROVE  MemoryOK'
<1>1. PICK x \in Thread \ {Idle} : x = target[t] /\ x # NULL
  BY PlaceIs
<1>2. pc[t] \in Lacking /\ pc[t] \notin Making
  BY DEF Lacking, Making, InMalloc
<1>3. x \in object
  <2>1. AboutOK(x, pc[t])
    BY <1>1, AtPlace
  <2> QED BY <1>2, <2>1 DEF AboutOK, Making
<1>4. x \in Targets(Lacking) /\ x \notin Targets(Making)
  BY <1>1, <1>2, TargetHas
<1>5. /\ Owned(SmallBlocks(heap), Blocks, texts, ThreadBlocks, Complete, stack)
      /\ texts \in Seq(Nat) /\ stack \in [Thread -> Nat] /\ object \subseteq Thread
  BY MemoryParts, AtPlace
<1>6. CASE ptr = NULL
  <2>1. stack' = stack /\ ComesTo(t, "unlink", x)
    BY <1>1, <1>6, Stays DEF ReturnsStack, Goto, ComesTo
  <2>2. Reckons(t, "unlink", x)
    BY <1>1, <1>2 DEF Reckons, Lacking
  <2>3. ThreadBlocks' = ThreadBlocks /\ Complete' = Complete
    BY <2>1, <2>2, ReckonSame
  <2>4. Blocks' = Blocks /\ SmallBlocks(heap') = SmallBlocks(heap)
    BY <1>6 DEF Gains, NULL
  <2> QED BY <1>5, <2>1, <2>3, <2>4, MemoryBy
<1>7. CASE ptr # NULL
  <2>1. stack' = [stack EXCEPT ![x] = ptr] /\ ComesTo(t, "created", x)
    BY <1>1, <1>7, Stays DEF ReturnsStack, Goto, ComesTo
  <2>2. "created" \notin Making \cup Lacking
    BY DEF Making, Lacking, InMalloc
  <2>3. /\ \A y : y \in Targets(Making)' <=> y \in Targets(Making) /\ y # x
        /\ \A y : y \in Targets(Lacking)' <=> y \in Targets(Lacking) /\ y # x
    BY <1>1, <2>1, <2>2, TargetsStep
  <2>4. ThreadBlocks' = ThreadBlocks /\ Complete' = Complete \cup {x} /\ x \notin Complete
    BY <1>3, <1>4, <2>3, BlocksAre
  <2>5. /\ ptr \in Nat \ {0} /\ ptr \notin Blocks /\ Blocks' = Blocks \cup {ptr}
        /\ SmallBlocks(heap) \subseteq SmallBlocks(heap')
    BY <1>7 DEF Gains
  <2>6. stack'[x] = ptr /\ \A y \in Complete : stack'[y] = stack[y]
    BY <1>1, <1>5, <2>1, <2>4, BlocksAre
  <2>7. PICK b, th, cp, st, s, s2 :
           /\ b = Blocks /\ th = ThreadBlocks /\ cp = Complete /\ st = stack
           /\ s = SmallBlocks(heap) /\ s2 = SmallBlocks(heap')
    OBVIOUS
  <2>8. Owned(s2, b \cup {ptr}, texts, th, cp \cup {x}, stack')
    <3>1. Owned(s, b, texts, th, cp, st) /\ ptr \in Nat /\ ptr \notin b /\ s \subseteq s2
          /\ x \notin cp /\ stack'[x] = ptr /\ \A y \in cp : stack'[y] = st[y]
      BY <1>5, <2>4, <2>5, <2>6, <2>7
    <3> QED BY <1>5, <3>1, OwnedMore
  <2> QED BY <1>5, <2>4, <2>5, <2>7, <2>8, MemoryBy
<1> QED BY <1>6, <1>7

LEMMA ReturnsMemory ==
    ASSUME LifeOK, MemoryOK, NEW t \in Thread, pc[t] \in InMalloc,
           NEW ptr, Returns(t, ptr), Gains(ptr),
           ptr # NULL => ptr \in SmallBlocks(heap'),
           object' = object, HeapOK(heap', Hands'), HandsApart'
    PROVE  MemoryOK'
<1>0. want[t] \in {Tcb, Text} /\ (target[t] # NULL => want[t] = Text)
  BY PlaceIs DEF InMalloc, AboutThread
<1>1. /\ Owned(SmallBlocks(heap), Blocks, texts, ThreadBlocks, Complete, stack)
      /\ texts \in Seq(Nat)
  BY MemoryParts
<1>2. pc[t] \in Lacking /\ "user" \notin Lacking \cup Making
      /\ "register" \in Making /\ "register" \notin Lacking
  BY DEF Lacking, Making, InMalloc
<1>3. ptr = NULL => Blocks' = Blocks /\ SmallBlocks(heap') = SmallBlocks(heap)
  BY DEF Gains, NULL
<1>4. ptr # NULL => /\ ptr \in Nat \ {0} /\ ptr \notin Blocks /\ Blocks' = Blocks \cup {ptr}
                    /\ SmallBlocks(heap) \subseteq SmallBlocks(heap')
  BY DEF Gains
<1>5. PICK b, th, cp, st, s, s2 :
         /\ b = Blocks /\ th = ThreadBlocks /\ cp = Complete /\ st = stack
         /\ s = SmallBlocks(heap) /\ s2 = SmallBlocks(heap')
  OBVIOUS
<1>6. Owned(s, b, texts, th, cp, st)
  BY <1>1, <1>5
<1>7. CASE want[t] = Tcb
  <2>1. target' = [target EXCEPT ![t] = ptr] /\ stack' = stack /\ texts' = texts
        /\ pc' = [pc EXCEPT ![t] = IF ptr = NULL THEN "user" ELSE "register"]
    BY <1>7, LifeAssumption DEF Returns, Goto
  <2>2. target[t] = NULL
    BY <1>0, <1>7, LifeAssumption
  <2>3. CASE ptr = NULL
    <3>1. ComesTo(t, "user", ptr) /\ Reckons(t, "user", ptr)
      BY <2>1, <2>2, <2>3 DEF ComesTo, Reckons, Elsewhere
    <3>2. ThreadBlocks' = ThreadBlocks /\ Complete' = Complete
      BY <3>1, ReckonSame
    <3> QED BY <1>1, <1>3, <2>1, <2>3, <3>2, MemoryBy
  <2>4. CASE ptr # NULL
    <3>1. ComesTo(t, "register", ptr)
      BY <2>1, <2>4 DEF ComesTo
    <3>2. /\ \A y : y \in Targets(Making)' <=>
                      (y \in Targets(Making) /\ y # target[t]) \/ y = ptr
          /\ \A y : y \in Targets(Lacking)' <=> y \in Targets(Lacking) /\ y # target[t]
      BY <1>2, <2>4, <3>1, TargetsStep
    <3>3. target[t] \notin Targets(Making) \cup Targets(Lacking)
      BY <2>2 DEF Targets
    <3>4. ThreadBlocks' = ThreadBlocks \cup {ptr} /\ Complete' = Complete
      BY <3>2, <3>3, BlocksAre
    <3>5. Owned(s2, b \cup {ptr}, texts, th \cup {ptr}, cp, st)
      BY <1>1, <1>4, <1>5, <1>6, <2>4, OwnedMore
    <3> QED BY <1>1, <1>4, <1>5, <2>1, <2>4, <3>4, <3>5, MemoryBy
  <2> QED BY <2>3, <2>4
<1>8. CASE want[t] = Text /\ target[t] # NULL
  <2>1. ReturnsStack(t, ptr) /\ target' = target /\ texts' = texts
    BY <1>8, LifeAssumption DEF Returns
  <2> QED BY <1>8, <2>1, StackMemory
<1>9. CASE want[t] = Text /\ target[t] = NULL
  <2>1. /\ texts' = IF ptr = NULL THEN texts ELSE Append(texts, ptr)
        /\ pc' = [pc EXCEPT ![t] = "user"] /\ target' = target /\ stack' = stack
    BY <1>9, LifeAssumption DEF Returns, Goto
  <2>2. ComesTo(t, "user", NULL)
    BY <1>9, <2>1, Stays DEF ComesTo
  <2>3. Reckons(t, "user", NULL)
    BY <1>9 DEF Reckons, Elsewhere
  <2>4. ThreadBlocks' = ThreadBlocks /\ Complete' = Complete
    BY <2>2, <2>3, ReckonSame
  <2>5. CASE ptr = NULL
    BY <1>1, <1>3, <2>1, <2>4, <2>5, MemoryBy
  <2>6. CASE ptr # NULL
    <3>1. Owned(s2, b \cup {ptr}, Append(texts, ptr), th, cp, st)
      BY <1>1, <1>4, <1>5, <1>6, <2>6, OwnedMore
    <3>2. Append(texts, ptr) \in Seq(Nat)
      BY <1>1, <1>4, <2>6
    <3> QED BY <1>4, <1>5, <2>1, <2>4, <2>6, <3>1, <3>2, MemoryBy
  <2> QED BY <2>5, <2>6
<1> QED BY <1>0, <1>7, <1>8, <1>9

(* rt_malloc returns, with a block or not. *)
Taken(t, ptr) ==
    \/ /\ ptr = NULL /\ SmallBlocks(heap') = SmallBlocks(heap)
       /\ LargeBlocks(heap') = LargeBlocks(heap)
    \/ /\ ptr \notin SmallBlocks(heap) /\ SmallBlocks(heap') = SmallBlocks(heap) \cup {ptr}
       /\ LargeBlocks(heap') = LargeBlocks(heap)
       /\ \E z \in Zones(heap') : \E c \in 0 .. z_nmax[want[t]] - 1 :
             ptr = ChunkAt(z, want[t], c)

LEMMA ReturnsOK ==
    ASSUME LifeOK, MemoryOK, NEW t \in Thread, k.cur = t, pc[t] \in InMalloc,
           NEW ptr, Returns(t, ptr), Taken(t, ptr), object' = object,
           block' = [block EXCEPT ![t] = NoBlock],
           HeapOK(heap', Hands'), HandsApart'
    PROVE  LifeOK' /\ MemoryOK'
<1>1. CASE ptr = NULL
  <2>1. SmallBlocks(heap') = SmallBlocks(heap) /\ LargeBlocks(heap') = LargeBlocks(heap)
    <3>1. PICK h : h = heap'
      OBVIOUS
    <3>2. ptr \notin SmallBlocks(h)
      BY <1>1, <3>1, SmallKnown DEF NULL
    <3> QED BY <3>1, <3>2 DEF Taken
  <2>2. Gains(ptr)
    BY <1>1, <2>1, BlocksSame DEF Gains
  <2>3. Nowhere(ptr) /\ ptr \in Nat
    BY <1>1 DEF Nowhere, NULL
  <2> QED BY <1>1, <2>2, <2>3, ReturnsMemory, ReturnsLife
<1>2. CASE ptr # NULL
  <2>1. /\ ptr \notin SmallBlocks(heap) /\ SmallBlocks(heap') = SmallBlocks(heap) \cup {ptr}
        /\ LargeBlocks(heap') = LargeBlocks(heap)
    BY <1>2 DEF Taken
  <2>2. PICK z \in Zones(heap') : \E c \in 0 .. z_nmax[want[t]] - 1 : ptr = ChunkAt(z, want[t], c)
    BY <1>2 DEF Taken
  <2>3. Blocks' = Blocks \cup {ptr} /\ ptr \notin Blocks /\ ptr \in Nat \ {0}
    BY <2>1, BlocksGainSmall
  <2>4. Gains(ptr) /\ ptr \in SmallBlocks(heap')
    BY <2>1, <2>3 DEF Gains
  <2>5. ASSUME want[t] = Tcb PROVE Nowhere(ptr)
    <3>1. PICK h, H : h = heap' /\ H = Hands'
      OBVIOUS
    <3>2. PICK c \in 0 .. z_nmax[Tcb] - 1 : ptr = ChunkAt(z, Tcb, c)
      BY <2>2, <2>5
    <3> QED BY <2>1, <2>2, <3>1, <3>2, ChunkNowhere
  <2>6. ptr \in Nat
    BY <2>3
  <2>7. MemoryOK'
    BY <2>4, ReturnsMemory
  <2> QED BY <2>5, <2>6, <2>7, ReturnsLife
<1> QED BY <1>1, <1>2

-----------------------------------------------------------------------------
(* The sections that allocate.                                             *)

LEMMA MallocOK ==
    ASSUME LifeOK, MemoryOK, NEW t \in Thread, rt_malloc(t)
    PROVE  LifeOK' /\ MemoryOK'
<1>1. /\ k.cur = t /\ pc[t] = "malloc" /\ object' = object /\ block' = block
  BY DEF rt_malloc, Running
<1>2. PICK s : s = want[t]
  OBVIOUS
<1>3. /\ pc[t] \in InMalloc /\ pc[t] \notin Holding /\ pc[t] \notin Outside
  BY <1>1 DEF InMalloc, Holding, Outside
<1>4. /\ s \in ChunkSize /\ block[t] = NoBlock /\ want \in [Thread -> ChunkSize]
      /\ HeapOK(heap, Hands) /\ HandsApart
  BY <1>2, <1>3, AtPlace, MemoryParts
<1>5. Hands' = Hands /\ HandsApart' /\ block' = [block EXCEPT ![t] = NoBlock]
  BY <1>1, <1>4, HandsSame, Stays
<1>6. CASE heap.zone_array[s] # <<>>
  <2>1. PICK ptr : ptr = ChunkFound(heap, s)
    OBVIOUS
  <2>2. heap' = ChunkTaken(heap, s) /\ Returns(t, ptr)
    BY <1>2, <1>6, <2>1 DEF rt_malloc
  <2>3. /\ HeapOK(heap', Hands) /\ LargeBlocks(heap') = LargeBlocks(heap)
        /\ ptr \notin SmallBlocks(heap) /\ SmallBlocks(heap') = SmallBlocks(heap) \cup {ptr}
        /\ Zones(heap') = Zones(heap)
        /\ \E z \in Zones(heap) : \E c \in 0 .. z_nmax[s] - 1 : ptr = ChunkAt(z, s, c)
    BY <1>4, <1>6, <2>1, <2>2, ChunkTakenOK
  <2>4. Taken(t, ptr)
    BY <1>2, <2>3 DEF Taken
  <2> QED BY <1>1, <1>3, <1>5, <2>2, <2>3, <2>4, ReturnsOK
<1>7. CASE heap.zone_array[s] = <<>> /\ heap.zone_free # <<>>
  <2>1. PICK z : z = Head(heap.zone_free)
    OBVIOUS
  <2>2. PICK ptr : ptr = ChunkAt(z, s, 0)
    OBVIOUS
  <2>3. heap' = ZoneMade([heap EXCEPT !.zone_free = Tail(@)], z, s) /\ Returns(t, ptr)
    BY <1>2, <1>7, <2>1, <2>2 DEF rt_malloc
  <2>4. /\ HeapOK(heap', Hands) /\ LargeBlocks(heap') = LargeBlocks(heap)
        /\ ptr \notin SmallBlocks(heap) /\ SmallBlocks(heap') = SmallBlocks(heap) \cup {ptr}
        /\ z \in Zones(heap') /\ 0 \in 0 .. z_nmax[s] - 1
    <3>1. PICK h, H, g : h = heap /\ H = Hands /\ g = heap'
      OBVIOUS
    <3>2. /\ HeapOK(h, H) /\ h.zone_free # <<>> /\ z = Head(h.zone_free)
          /\ g = ZoneMade(FreeZoneTaken(h), z, s)
      BY <1>4, <1>7, <2>1, <2>3, <3>1 DEF FreeZoneTaken
    <3>3. /\ HeapOK(g, H) /\ LargeBlocks(g) = LargeBlocks(h)
          /\ ptr \notin SmallBlocks(h) /\ SmallBlocks(g) = SmallBlocks(h) \cup {ptr}
          /\ z \in Zones(g) /\ 0 \in 0 .. z_nmax[s] - 1
      BY <1>4, <2>2, <3>2, ZoneReused
    <3> QED BY <3>1, <3>3
  <2>5. Taken(t, ptr)
    BY <1>2, <2>2, <2>4 DEF Taken
  <2> QED BY <1>1, <1>3, <1>5, <2>3, <2>4, <2>5, ReturnsOK
<1>8. CASE heap.zone_array[s] = <<>> /\ heap.zone_free = <<>>
  <2>1. /\ pc' = [pc EXCEPT ![t] = "page"] /\ heap' = heap /\ k' = k /\ stack' = stack
        /\ target' = target /\ texts' = texts /\ want' = want
    BY <1>2, <1>8 DEF rt_malloc, Goto
  <2>2. want' = [want EXCEPT ![t] = s] /\ stack' \in [Thread -> Nat]
    BY <1>2, <2>1, Stays, AtPlace
  <2>3. Goes("page", target[t], s, NoBlock)
    BY <1>2, <1>3, PlaceIs DEF Goes, Places, InMalloc, AboutThread, Holding
  <2>4. target[t] # NULL => AboutOK(target[t], "page")'
    <3> SUFFICES ASSUME target[t] # NULL PROVE AboutOK(target[t], "page")'
      OBVIOUS
    <3>1. PICK x : x = target[t]
      OBVIOUS
    <3>2. AboutOK(x, "malloc")
      BY <1>1, <3>1, AtPlace
    <3>3. AboutOK(x, "page")'
      BY <1>1, <2>1, <3>2 DEF AboutOK, InMalloc
    <3> QED BY <2>1, <3>1, <3>3
  <2>5. LifeOK'
    BY <1>1, <1>3, <1>5, <2>1, <2>2, <2>3, <2>4, SameInside
  <2>6. ComesTo(t, "page", target[t])
    BY <2>1, Stays DEF ComesTo
  <2>7. Reckons(t, "page", target[t])
    BY <1>1 DEF Reckons, Lacking, InMalloc
  <2>8. ThreadBlocks' = ThreadBlocks /\ Complete' = Complete
    BY <1>1, <2>6, <2>7, ReckonSame
  <2> QED BY <1>1, <2>1, <2>5, <2>8, MemoryStill
<1> QED BY <1>6, <1>7, <1>8

LEMMA NoPages ==
    ASSUME NEW h, NEW H, HeapOK(h, H), NEW n \in Nat \ {0}
    PROVE  /\ PageFound(h, n) = NULL => rt_page_alloc(h, n) = h
           /\ PageFound(h, n) # NULL => Fits(h, n) # {}
<1>1. CASE Fits(h, n) = {}
  BY <1>1 DEF rt_page_alloc, PageFound
<1>2. CASE Fits(h, n) # {}
  <2>1. PICK p, r, g : p = PageFound(h, n) /\ r = Run(p, n) /\ g = rt_page_alloc(h, n)
    OBVIOUS
  <2>2. r \in Runs
    BY <1>2, <2>1, PageAllocOK
  <2>3. p # NULL
    BY <2>1, <2>2 DEF Runs, Run, NULL
  <2> QED BY <1>2, <2>1, <2>3
<1> QED BY <1>1, <1>2

LEMMA GetsPagesOK ==
    ASSUME LifeOK, MemoryOK, NEW t \in Thread, GetsPages(t)
    PROVE  LifeOK' /\ MemoryOK'
<1>1. PICK z : z = PageFound(heap, zone_page_cnt)
  OBVIOUS
<1>2. /\ k.cur = t /\ pc[t] = "page" /\ object' = object
      /\ heap' = rt_page_alloc(heap, zone_page_cnt)
  BY DEF GetsPages, Running
<1>3. /\ pc[t] \in InMalloc /\ pc[t] \notin Holding /\ pc[t] \notin Outside
  BY <1>2 DEF InMalloc, Holding, Outside
<1>4. /\ block[t] = NoBlock /\ block \in [Thread -> Runs \cup {NoBlock}]
      /\ HeapOK(heap, Hands) /\ HandsApart /\ zone_page_cnt \in Nat \ {0}
      /\ Owned(SmallBlocks(heap), Blocks, texts, ThreadBlocks, Complete, stack)
      /\ texts \in Seq(Nat)
  BY <1>3, AtPlace, MemoryParts, SlabAssumption
<1>5. CASE z = NULL
  <2>1. Returns(t, NULL) /\ block' = block /\ heap' = heap
    BY <1>1, <1>2, <1>4, <1>5, NoPages DEF GetsPages
  <2>2. Hands' = Hands /\ HandsApart' /\ block' = [block EXCEPT ![t] = NoBlock]
    BY <1>4, <2>1, HandsSame, Stays
  <2>3. Taken(t, NULL)
    BY <2>1 DEF Taken
  <2> QED BY <1>2, <1>3, <1>4, <2>1, <2>2, <2>3, ReturnsOK
<1>6. CASE z # NULL
  <2>1. PICK r : r = Run(z, zone_page_cnt)
    OBVIOUS
  <2>2. /\ block' = [block EXCEPT ![t] = r] /\ pc' = [pc EXCEPT ![t] = "zone"]
        /\ k' = k /\ stack' = stack /\ target' = target /\ texts' = texts /\ want' = want
    BY <1>1, <1>6, <2>1 DEF GetsPages, Goto
  <2>3. Fits(heap, zone_page_cnt) # {}
    BY <1>1, <1>4, <1>6, NoPages
  <2>4. /\ HeapOK(heap', Hands \cup {r}) /\ r \in Runs /\ r \notin Hands
        /\ SmallBlocks(heap') = SmallBlocks(heap) /\ LargeBlocks(heap') = LargeBlocks(heap)
    <3>1. PICK h, H, g, n : h = heap /\ H = Hands /\ g = heap' /\ n = zone_page_cnt
      OBVIOUS
    <3>2. /\ HeapOK(h, H) /\ n \in Nat \ {0} /\ Fits(h, n) # {}
          /\ g = rt_page_alloc(h, n) /\ r = Run(PageFound(h, n), n)
      BY <1>1, <1>2, <1>4, <2>1, <2>3, <3>1
    <3>3. /\ HeapOK(g, H \cup {r}) /\ r \in Runs /\ r \notin H
          /\ SmallBlocks(g) = SmallBlocks(h) /\ LargeBlocks(g) = LargeBlocks(h)
      BY <3>2, PageAllocOK
    <3> QED BY <3>1, <3>3
  <2>5. Hands' = Hands \cup {r} /\ HandsApart'
    BY <1>4, <2>2, <2>4, HandsGain
  <2>6. PICK w : w = want[t]
    OBVIOUS
  <2>7. want' = [want EXCEPT ![t] = w] /\ stack' \in [Thread -> Nat]
    BY <2>2, <2>6, Stays, AtPlace
  <2>8. r.page = zone_page_cnt /\ r # NoBlock
    BY <2>1, <2>4, NoBlockIs DEF Run
  <2>9. Goes("zone", target[t], w, r)
    BY <1>3, <2>4, <2>6, <2>8, PlaceIs DEF Goes, Places, InMalloc, AboutThread, Holding
  <2>10. target[t] # NULL => AboutOK(target[t], "zone")'
    <3> SUFFICES ASSUME target[t] # NULL PROVE AboutOK(target[t], "zone")'
      OBVIOUS
    <3>1. PICK x : x = target[t]
      OBVIOUS
    <3>2. AboutOK(x, "page")
      BY <1>2, <3>1, AtPlace
    <3>3. AboutOK(x, "zone")'
      BY <1>2, <2>2, <3>2 DEF AboutOK, InMalloc
    <3> QED BY <2>2, <3>1, <3>3
  <2>11. LifeOK'
    BY <1>2, <1>3, <2>2, <2>7, <2>9, <2>10, SameInside
  <2>12. ComesTo(t, "zone", target[t])
    BY <2>2, Stays DEF ComesTo
  <2>13. Reckons(t, "zone", target[t])
    BY <1>2 DEF Reckons, Lacking, InMalloc
  <2>14. ThreadBlocks' = ThreadBlocks /\ Complete' = Complete
    BY <1>2, <2>12, <2>13, ReckonSame
  <2>15. Blocks' = Blocks
    BY <2>4, BlocksSame
  <2>16. MemoryOK'
    BY <1>4, <2>2, <2>4, <2>5, <2>14, <2>15, MemoryBy
  <2> QED BY <2>11, <2>16
<1> QED BY <1>5, <1>6

LEMMA MakesZoneOK ==
    ASSUME LifeOK, MemoryOK, NEW t \in Thread, MakesZone(t)
    PROVE  LifeOK' /\ MemoryOK'
<1>1. PICK z, s, ptr : z = block[t].start /\ s = want[t] /\ ptr = ChunkAt(z, s, 0)
  OBVIOUS
<1>2. /\ k.cur = t /\ pc[t] = "zone" /\ object' = object
      /\ heap' = ZoneMade(SetUsage(heap, z), z, s)
      /\ block' = [block EXCEPT ![t] = NoBlock] /\ Returns(t, ptr)
  BY <1>1 DEF MakesZone, Running
<1>3. pc[t] \in InMalloc /\ pc[t] \in Holding
  BY <1>2 DEF InMalloc, Holding
<1>4. /\ block \in [Thread -> Runs \cup {NoBlock}] /\ want \in [Thread -> ChunkSize]
      /\ HeapOK(heap, Hands) /\ HandsApart
  BY AtPlace, MemoryParts
<1>5. block[t] # NoBlock /\ block[t].page = zone_page_cnt
  BY <1>2, <1>3, AtPlace DEF PlaceOK
<1>6. PICK r \in Runs : r = block[t]
  BY <1>4, <1>5
<1>7. z \in Nat \ {0} /\ r = Run(z, zone_page_cnt) /\ s \in ChunkSize
  BY <1>1, <1>4, <1>5, <1>6 DEF Runs, Run
<1>8. Hands' = Hands \ {r} /\ HandsApart' /\ r \in Hands
  BY <1>2, <1>4, <1>5, <1>6, HandsLose
<1>9. /\ HeapOK(heap', Hands \ {r}) /\ LargeBlocks(heap') = LargeBlocks(heap)
      /\ ptr \notin SmallBlocks(heap) /\ SmallBlocks(heap') = SmallBlocks(heap) \cup {ptr}
      /\ z \in Zones(heap') /\ 0 \in 0 .. z_nmax[s] - 1
  BY <1>1, <1>2, <1>4, <1>7, <1>8, ZoneAdded
<1>10. Taken(t, ptr)
  BY <1>1, <1>9 DEF Taken
<1> QED BY <1>2, <1>3, <1>8, <1>9, <1>10, ReturnsOK

LEMMA GetsStackOK ==
    ASSUME LifeOK, MemoryOK, NEW t \in Thread, GetsStack(t)
    PROVE  LifeOK' /\ MemoryOK'
<1>1. PICK n, start : n = StackPages[k.prio[target[t]]] /\ start = PageFound(heap, n)
  OBVIOUS
<1>2. /\ k.cur = t /\ pc[t] = "stack" /\ object' = object /\ texts' = texts
      /\ target' = target /\ block' = block
  BY DEF GetsStack, Running
<1>3. /\ pc[t] \in AboutThread /\ pc[t] \notin Holding /\ pc[t] \notin Outside
  BY <1>2 DEF AboutThread, Holding, Outside
<1>4. PICK x \in Thread \ {Idle} : x = target[t] /\ x # NULL
  BY <1>3, AtPlace, LifeAssumption
<1>5. /\ block[t] = NoBlock /\ block \in [Thread -> Runs \cup {NoBlock}] /\ want[t] = Tcb
      /\ HeapOK(heap, Hands) /\ HandsApart /\ AboutOK(x, "stack")
      /\ k \in KernelState /\ stack \in [Thread -> Nat] /\ want \in [Thread -> ChunkSize]
  BY <1>2, <1>3, <1>4, AtPlace, MemoryParts
<1>6. n \in Nat
  BY <1>1, <1>4, <1>5, LifeAssumption DEF KernelState
<1>7. Hands' = Hands /\ HandsApart' /\ block' = [block EXCEPT ![t] = NoBlock]
  BY <1>2, <1>5, HandsSame, Stays
<1>8. CASE /\ n = 0 /\ want' = [want EXCEPT ![t] = Text] /\ Goto(t, "malloc")
           /\ UNCHANGED <<heap, k, stack>>
  <2>1. pc' = [pc EXCEPT ![t] = "malloc"] /\ heap' = heap /\ k' = k /\ stack' = stack
    BY <1>8 DEF Goto
  <2>2. Goes("malloc", target[t], Text, NoBlock)
    BY <1>4 DEF Goes, Places, InMalloc, AboutThread, Holding
  <2>3. target[t] # NULL => AboutOK(target[t], "malloc")'
    <3>1. AboutOK(x, "malloc")'
      BY <1>2, <1>5, <2>1 DEF AboutOK, InMalloc
    <3> QED BY <1>2, <1>4, <3>1
  <2>9. stack' \in [Thread -> Nat] /\ want' = [want EXCEPT ![t] = Text]
    BY <1>5, <1>8
  <2>4. LifeOK'
    BY <1>2, <1>3, <1>7, <2>9, <2>1, <2>2, <2>3, SameInside
  <2>5. ComesTo(t, "malloc", target[t])
    BY <1>2, <2>1, Stays DEF ComesTo
  <2>6. Reckons(t, "malloc", target[t])
    BY <1>2 DEF Reckons, Lacking, InMalloc
  <2>7. ThreadBlocks' = ThreadBlocks /\ Complete' = Complete
    BY <1>2, <2>5, <2>6, ReckonSame
  <2> QED BY <1>2, <2>1, <2>4, <2>7, MemoryStill
<1>9. CASE /\ n > 0 /\ ReturnsStack(t, PAGE * start) /\ want' = want
           /\ heap' = IF start = NULL THEN heap ELSE Large(rt_page_alloc(heap, n), start, n)
  <2>1. want' = [want EXCEPT ![t] = Tcb]
    BY <1>5, <1>9, Stays
  <2>2. PICK ptr : ptr = PAGE * start
    OBVIOUS
  <2>3. ptr \in Nat /\ Gains(ptr) /\ HeapOK(heap', Hands)
    <3>1. CASE start = NULL
      <4>1. ptr = 0 /\ heap' = heap
        BY <1>9, <2>2, <3>1 DEF NULL, PAGE
      <4> QED BY <1>5, <4>1, BlocksSame DEF Gains, NULL
    <3>2. CASE start # NULL
      <4>1. PICK g, r : g = rt_page_alloc(heap, n) /\ r = Run(start, n)
        OBVIOUS
      <4>2. n \in Nat \ {0} /\ Fits(heap, n) # {}
        BY <1>1, <1>5, <1>6, <1>9, <3>2, NoPages
      <4>3. /\ HeapOK(g, Hands \cup {r}) /\ r \in Runs /\ r \notin Hands
            /\ SmallBlocks(g) = SmallBlocks(heap) /\ LargeBlocks(g) = LargeBlocks(heap)
        BY <1>1, <1>5, <4>1, <4>2, PageAllocOK
      <4>4. heap' = Large(g, start, n)
        BY <1>9, <3>2, <4>1
      <4>5. PICK H : H = Hands \cup {r}
        OBVIOUS
      <4>6. /\ HeapOK(heap', H \ {r}) /\ SmallBlocks(heap') = SmallBlocks(g)
            /\ LargeBlocks(heap') = LargeBlocks(g) \cup {start} /\ start \notin LargeBlocks(g)
            /\ start \in Nat \ {0}
        BY <4>1, <4>3, <4>4, <4>5, LargeOK
      <4>7. H \ {r} = Hands
        BY <4>3, <4>5
      <4>8. /\ Blocks' = Blocks \cup {PAGE * start} /\ PAGE * start \notin Blocks
            /\ PAGE * start \in Nat \ {0}
        BY <1>5, <4>3, <4>6, BlocksGainLarge
      <4> QED BY <2>2, <4>3, <4>6, <4>7, <4>8 DEF Gains
    <3> QED BY <3>1, <3>2
  <2>4. ReturnsStack(t, ptr) /\ pc[t] \in InMalloc \cup {"stack"} /\ target[t] # NULL
    BY <1>2, <1>4, <1>9, <2>2
  <2>5. LifeOK'
    BY <1>2, <1>7, <2>1, <2>3, <2>4, ReturnsStackLife
  <2>6. MemoryOK'
    BY <1>2, <1>7, <2>3, <2>4, StackMemory
  <2> QED BY <2>5, <2>6
<1> QED BY <1>1, <1>8, <1>9 DEF GetsStack

-----------------------------------------------------------------------------
(* The sections that free.                                                 *)

(* What rt_free of the small block ptr does. *)
Freed(t, ptr, at, b) ==
    /\ pc' = [pc EXCEPT ![t] = at] /\ block' = [block EXCEPT ![t] = b]
    /\ HeapOK(heap', Hands') /\ HandsApart'
    /\ Blocks' = Blocks \ {ptr} /\ SmallBlocks(heap') = SmallBlocks(heap) \ {ptr}

LEMMA FreesSmall ==
    ASSUME LifeOK, MemoryOK, NEW t \in Thread, block[t] = NoBlock,
           NEW ptr \in SmallBlocks(heap), NEW ret, NEW pages, Frees(t, ptr, ret, pages)
    PROVE  \E at, b : /\ Freed(t, ptr, at, b)
                      /\ (at = ret /\ b = NoBlock) \/ (at = pages /\ b \in Runs)
<1>1. /\ block \in [Thread -> Runs \cup {NoBlock}]
      /\ HeapOK(heap, Hands) /\ HandsApart
  BY AtPlace, MemoryParts
<1>2. PICK g, h, H : g = ChunkFreed(heap, ptr) /\ h = heap /\ H = Hands
  OBVIOUS
<1>3. /\ HeapOK(g, H) /\ LargeBlocks(g) = LargeBlocks(h)
      /\ SmallBlocks(g) = SmallBlocks(h) \ {ptr}
  BY <1>1, <1>2, ChunkFreedOK
<1>4. CASE TooManyFree(g)
  <2>1. PICK r : r = Run(Head(g.zone_free), zone_page_cnt)
    OBVIOUS
  <2>2. /\ heap' = ZoneReleased(g) /\ block' = [block EXCEPT ![t] = r]
        /\ pc' = [pc EXCEPT ![t] = pages]
    BY <1>2, <1>4, <2>1 DEF Frees, Goto
  <2>3. g.zone_free # <<>>
    <3>1. Len(<<>>) = 0
      OBVIOUS
    <3> QED BY <1>4, <3>1, SlabAssumption DEF TooManyFree
  <2>4. PICK e : e = heap'
    OBVIOUS
  <2>5. /\ HeapOK(e, H \cup {r}) /\ r \in Runs /\ r \notin H
        /\ SmallBlocks(e) = SmallBlocks(g) /\ LargeBlocks(e) = LargeBlocks(g)
    BY <1>3, <2>1, <2>2, <2>3, <2>4, ZoneReleasedOK
  <2>6. Hands' = Hands \cup {r} /\ HandsApart'
    BY <1>1, <1>2, <2>2, <2>5, HandsGain
  <2>7. Blocks' = Blocks \ {ptr}
    BY <1>1, <1>2, <1>3, <2>4, <2>5, BlocksLoseSmall
  <2> QED BY <1>2, <1>3, <2>2, <2>4, <2>5, <2>6, <2>7 DEF Freed
<1>5. CASE ~TooManyFree(g)
  <2>1. heap' = g /\ block' = block /\ pc' = [pc EXCEPT ![t] = ret]
    BY <1>2, <1>5 DEF Frees, Goto
  <2>2. Hands' = Hands /\ HandsApart' /\ block' = [block EXCEPT ![t] = NoBlock]
    BY <1>1, <2>1, HandsSame, Stays
  <2>3. Blocks' = Blocks \ {ptr}
    BY <1>1, <1>2, <1>3, <2>1, BlocksLoseSmall
  <2> QED BY <1>2, <1>3, <2>1, <2>2, <2>3 DEF Freed
<1> QED BY <1>4, <1>5

LEMMA OwnedLessStack ==
    ASSUME NEW small, NEW blocks, NEW tx \in Seq(Nat), NEW th, NEW cp, NEW st,
           Owned(small, blocks, tx, th, cp, st), NEW x \in cp, NEW a, a = st[x]
    PROVE  Owned(small \ {a}, blocks \ {a}, tx, th, cp \ {x}, st)
BY OwnedLess

LEMMA OwnedLessThread ==
    ASSUME NEW small, NEW blocks, NEW tx \in Seq(Nat), NEW th, NEW cp, NEW st,
           Owned(small, blocks, tx, th, cp, st), NEW a \in th,
           NEW s, \A y \in cp : s[y] = st[y]
    PROVE  Owned(small \ {a}, blocks \ {a}, tx, th \ {a}, cp, s)
BY OwnedLess

LEMMA StackFreed ==
    ASSUME LifeOK, MemoryOK, NEW t \in Thread, k.cur = t, pc[t] = "free_stack",
           NEW at, NEW b,
           (at = "unlink" /\ b = NoBlock) \/ (at = "free_stack_pages" /\ b \in Runs),
           Freed(t, stack[target[t]], at, b),
           UNCHANGED <<k, object, stack, texts, target, want>>
    PROVE  LifeOK' /\ MemoryOK'
<1>1. pc[t] \in AboutThread /\ pc[t] \notin Outside
  BY DEF AboutThread, Outside
<1>2. PICK x \in Thread \ {Idle} : x = target[t] /\ x # NULL
  BY <1>1, AtPlace, LifeAssumption
<1>3. /\ want[t] = Tcb /\ AboutOK(x, "free_stack") /\ stack \in [Thread -> Nat]
      /\ texts \in Seq(Nat)
      /\ Owned(SmallBlocks(heap), Blocks, texts, ThreadBlocks, Complete, stack)
  BY <1>1, <1>2, AtPlace, MemoryParts
<1>4. pc' = [pc EXCEPT ![t] = at] /\ block' = [block EXCEPT ![t] = b]
  BY DEF Freed
<1>5. LifeOK'
  <2>1. Goes(at, x, Tcb, b)
    BY <1>2, NoBlockIs DEF Goes, Places, InMalloc, AboutThread, Holding
  <2>2. x # NULL => AboutOK(x, at)'
    BY <1>3 DEF AboutOK, InMalloc
  <2>3. stack' \in [Thread -> Nat] /\ want' = [want EXCEPT ![t] = Tcb]
    BY <1>3, Stays
  <2> QED BY <1>1, <1>2, <1>4, <2>1, <2>2, <2>3, SameInside
<1>6. pc[t] \notin Making \cup Lacking /\ at \in Lacking /\ at \notin Making
  BY DEF Making, Lacking, InMalloc
<1>7. ComesTo(t, at, x)
  BY <1>2, <1>4, Stays DEF ComesTo
<1>8. /\ \A y : y \in Targets(Making)' <=> y \in Targets(Making) /\ y # x
      /\ \A y : y \in Targets(Lacking)' <=> (y \in Targets(Lacking) /\ y # x) \/ y = x
  BY <1>2, <1>6, <1>7, TargetsStep
<1>9. x \notin Targets(Making) /\ x \notin Targets(Lacking)
  BY <1>2, <1>6, TargetHas
<1>10. x \in object
  BY <1>3 DEF AboutOK
<1>11. ThreadBlocks' = ThreadBlocks /\ Complete' = Complete \ {x} /\ x \in Complete
  BY <1>8, <1>9, <1>10, BlocksAre
<1>12. PICK bl, th, cp, s, a, tx, st :
         /\ bl = Blocks /\ th = ThreadBlocks /\ cp = Complete
         /\ s = SmallBlocks(heap) /\ a = stack[x] /\ tx = texts /\ st = stack
  OBVIOUS
<1>13. Owned(s \ {a}, bl \ {a}, tx, th, cp \ {x}, st)
  <2>1. Owned(s, bl, tx, th, cp, st) /\ x \in cp /\ tx \in Seq(Nat) /\ a = st[x]
    BY <1>3, <1>11, <1>12
  <2> QED BY <2>1, OwnedLessStack
<1>14. MemoryOK'
  BY <1>2, <1>3, <1>11, <1>12, <1>13, MemoryBy DEF Freed
<1> QED BY <1>5, <1>14

LEMMA FreesStackOK ==
    ASSUME LifeOK, MemoryOK, NEW t \in Thread, FreesStack(t)
    PROVE  LifeOK' /\ MemoryOK'
<1>1. PICK a, start : a = stack[target[t]] /\ start = a \div PAGE
  OBVIOUS
<1>2. /\ k.cur = t /\ pc[t] = "free_stack"
      /\ UNCHANGED <<k, object, stack, texts, target, want>>
  BY DEF FreesStack, Running
<1>3. pc[t] \in AboutThread /\ pc[t] \notin Outside \cup Holding
  BY <1>2 DEF AboutThread, Outside, Holding
<1>4. PICK x \in Thread \ {Idle} : x = target[t] /\ x # NULL
  BY <1>3, AtPlace, LifeAssumption
<1>5. /\ AboutOK(x, "free_stack") /\ block[t] = NoBlock
      /\ block \in [Thread -> Runs \cup {NoBlock}]
      /\ HeapOK(heap, Hands) /\ HandsApart
      /\ Owned(SmallBlocks(heap), Blocks, texts, ThreadBlocks, Complete, stack)
  BY <1>2, <1>3, <1>4, AtPlace, MemoryParts
<1>6. x \in Complete
  <2>1. pc[t] \notin Lacking /\ x \in object
    BY <1>2, <1>5 DEF Lacking, InMalloc, AboutOK
  <2> QED BY <1>4, <2>1, TargetHas, BlocksAre
<1>7. a \in Blocks
  BY <1>1, <1>4, <1>5, <1>6 DEF Owned
<1>8. CASE a \in SmallBlocks(heap)
  <2>1. heap.kup[start].type # "large"
    BY <1>1, <1>5, <1>8, SmallKnown
  <2>2. Frees(t, a, "unlink", "free_stack_pages")
    BY <1>1, <2>1 DEF FreesStack
  <2>3. PICK at, b : /\ Freed(t, a, at, b)
                     /\ \/ at = "unlink" /\ b = NoBlock
                        \/ at = "free_stack_pages" /\ b \in Runs
    BY <1>5, <1>8, <2>2, FreesSmall
  <2> QED BY <1>1, <1>2, <2>3, StackFreed
<1>9. CASE a \notin SmallBlocks(heap)
  <2>1. PICK p \in LargeBlocks(heap) : a = PAGE * p
    BY <1>7, <1>9 DEF Blocks
  <2>2. p \in Nat \ {0}
    BY ZonesAre
  <2>3. start = p
    <3>1. (4096 * p) \div 4096 = p
      BY <2>2, Z3
    <3> QED BY <1>1, <2>1, <3>1 DEF PAGE
  <2>4. heap.kup[p].type = "large"
    BY DEF LargeBlocks
  <2>5. PICK r : r = Run(p, heap.kup[p].size)
    OBVIOUS
  <2>6. /\ block' = [block EXCEPT ![t] = r] /\ heap' = LargeFreed(heap, p)
        /\ pc' = [pc EXCEPT ![t] = "free_stack_pages"]
    BY <1>1, <2>3, <2>4, <2>5 DEF FreesStack, Goto
  <2>7. PICK h, H, g : h = heap /\ H = Hands /\ g = heap'
    OBVIOUS
  <2>8. /\ HeapOK(g, H \cup {r}) /\ r \in Runs /\ r \notin H
        /\ SmallBlocks(g) = SmallBlocks(h) /\ LargeBlocks(g) = LargeBlocks(h) \ {p}
    BY <1>5, <2>5, <2>6, <2>7, LargeFreedOK
  <2>9. Hands' = Hands \cup {r} /\ HandsApart'
    BY <1>5, <2>6, <2>7, <2>8, HandsGain
  <2>10. /\ Blocks' = Blocks \ {PAGE * p}
         /\ SmallBlocks(heap) \ {PAGE * p} = SmallBlocks(heap)
    BY <1>5, <2>7, <2>8, BlocksLoseLarge
  <2>11. Freed(t, a, "free_stack_pages", r)
    BY <2>1, <2>6, <2>7, <2>8, <2>9, <2>10 DEF Freed
  <2> QED BY <1>1, <1>2, <2>8, <2>11, StackFreed
<1> QED BY <1>8, <1>9

LEMMA FreesObjectOK ==
    ASSUME LifeOK, MemoryOK, NEW t \in Thread, FreesObject(t)
    PROVE  LifeOK' /\ MemoryOK'
<1>1. PICK x : x = target[t]
  OBVIOUS
<1>2. /\ k.cur = t /\ pc[t] = "free_object" /\ Frees(t, x, "user", "free_pages")
      /\ k' = [k EXCEPT !.stat[x] = "init", !.prio[x] = 0, !.err[x] = "ok"]
      /\ stack' = [stack EXCEPT ![x] = NULL]
      /\ target' = [target EXCEPT ![t] = NULL]
      /\ object' = object /\ texts' = texts /\ want' = want
  BY <1>1 DEF FreesObject, Running
<1>3. pc[t] \in AboutThread /\ pc[t] \notin Outside \cup Holding \cup {"sched"}
  BY <1>2 DEF AboutThread, Outside, Holding
<1>4. /\ x \in Thread \ {Idle} /\ x # NULL /\ want[t] = Tcb /\ block[t] = NoBlock
      /\ k \in KernelState /\ LivesOK(k) /\ stack \in [Thread -> Nat]
      /\ object \subseteq Thread \ {Idle} /\ texts \in Seq(Nat)
      /\ Owned(SmallBlocks(heap), Blocks, texts, ThreadBlocks, Complete, stack)
  BY <1>1, <1>3, AtPlace, LifeAssumption, MemoryParts
<1>5. x \notin object /\ k.stat[x] \in {"init", "close"} /\ Off(k, x)
  BY <1>1, <1>2, <1>4, AtPlace DEF AboutOK
<1>6. pc[t] \in Making /\ pc[t] \notin Lacking
  BY <1>2 DEF Making, Lacking, InMalloc
<1>7. x \in Targets(Making) /\ x \notin Targets(Lacking) /\ x \in ThreadBlocks
  BY <1>1, <1>4, <1>6, TargetHas, BlocksAre
<1>8. x \in SmallBlocks(heap)
  BY <1>4, <1>7 DEF Owned
<1>9. PICK at, b : /\ Freed(t, x, at, b)
                   /\ (at = "user" /\ b = NoBlock) \/ (at = "free_pages" /\ b \in Runs)
  BY <1>2, <1>4, <1>8, FreesSmall
<1>10. pc' = [pc EXCEPT ![t] = at] /\ block' = [block EXCEPT ![t] = b]
  BY <1>9 DEF Freed
<1>11. /\ k' \in KernelState /\ k'.list = k.list /\ k'.table = k.table /\ k'.group = k.group
       /\ k'.lock = k.lock /\ k'.cur = k.cur /\ k'.tmr = k.tmr
       /\ k'.prio = [k.prio EXCEPT ![x] = 0] /\ k'.stat = [k.stat EXCEPT ![x] = "init"]
  <2>1. [k.stat EXCEPT ![x] = "init"] \in [Thread -> Stat]
    BY <1>4 DEF KernelState, Stat
  <2>2. [k.prio EXCEPT ![x] = 0] \in [Thread -> Priority]
    BY <1>4, KernelAssumption DEF KernelState, Priority
  <2>3. [k.err EXCEPT ![x] = "ok"] \in [Thread -> Error]
    BY <1>4 DEF KernelState, Error
  <2> QED BY <1>2, <1>4, <2>1, <2>2, <2>3 DEF KernelState
<1>12. /\ k'.stat[x] = "init" /\ k'.prio[x] = 0
       /\ \A u \in Thread \ {x} : k'.stat[u] = k.stat[u] /\ k'.prio[u] = k.prio[u]
  BY <1>4, <1>11 DEF KernelState
<1>13. LivesOK(k') /\ \A u \in Thread : OffStays(k', k, u)
  <2>1. SameOthers(k', k, x) /\ k'.stat[x] # "running"
    BY <1>11, <1>12 DEF SameOthers
  <2> QED BY <1>4, <1>5, <1>11, <2>1, OffTouched
<1>14. LifeOK'
  <2>1. pc[x] \in Outside /\ x # t /\ \A u \in Thread \ {t} : target[u] # x
    BY <1>1, <1>2, <1>3, <1>4, <1>5, NotBusy, RunsOn DEF Runnable, LifeOK, TargetsApart
  <2>2. Keeps(t, {x})
    BY <1>2, <1>12, <1>13, <2>1 DEF Keeps, Kept
  <2>3. Moves(t, at, NULL, Tcb, b)
    BY <1>2, <1>4, <1>10, Stays DEF Moves
  <2>4. Goes(at, NULL, Tcb, b)
    BY <1>9, NoBlockIs DEF Goes, Places, InMalloc, AboutThread, Holding, Outside
  <2>5. RestTyped /\ Chooses(t, NULL)
    <3>1. NULL \in Nat
      BY DEF NULL
    <3>2. stack' \in [Thread -> Nat]
      BY <1>2, <1>4, <3>1
    <3>3. k' \in KernelState
      BY <1>11
    <3>4. object' \subseteq Thread \ {Idle}
      BY <1>2, <1>4
    <3>5. Chooses(t, NULL)
      BY <1>1, <1>12 DEF Chooses
    <3> QED BY <3>2, <3>3, <3>4, <3>5 DEF RestTyped
  <2>6. CallerOK(t)'
    BY <1>2, <1>3, <1>4, <1>12, <2>1, AtPlace DEF CallerOK
  <2>7. k'.stat[k'.cur] = "running"
    BY <1>2, <1>3, <1>11, <1>12, <2>1, RunsOn
  <2>8. NoTimers(k') /\ CurrentRuns'
    BY <1>5, <1>11, <1>12, <2>7 DEF NoTimers, LifeOK, CurrentRuns, Off
  <2>9. {x} \in SUBSET Thread /\ \A y \in {x} : StrangerOK(y)'
    BY <1>4, <1>5, <1>12, <1>13 DEF StrangerOK, OffStays
  <2> QED BY <1>13, <2>2, <2>3, <2>4, <2>5, <2>6, <2>8, <2>9, StepLife
<1>15. ComesTo(t, at, NULL)
  BY <1>2, <1>10 DEF ComesTo
<1>16. /\ \A y : y \in Targets(Making)' <=> y \in Targets(Making) /\ y # x
       /\ \A y : y \in Targets(Lacking)' <=> y \in Targets(Lacking) /\ y # x
  BY <1>1, <1>15, TargetsStep
<1>17. ThreadBlocks' = ThreadBlocks \ {x} /\ Complete' = Complete /\ x \notin Complete
  BY <1>2, <1>5, <1>7, <1>16, BlocksAre
<1>18. \A y \in Complete : stack'[y] = stack[y]
  BY <1>2, <1>4, <1>17, BlocksAre
<1>19. PICK bl, th, cp, s, st, tx, sn :
         /\ bl = Blocks /\ th = ThreadBlocks /\ cp = Complete
         /\ s = SmallBlocks(heap) /\ st = stack /\ tx = texts /\ sn = stack'
  OBVIOUS
<1>20. Owned(s \ {x}, bl \ {x}, tx, th \ {x}, cp, sn)
  <2>1. /\ Owned(s, bl, tx, th, cp, st) /\ x \in th /\ tx \in Seq(Nat)
        /\ \A y \in cp : sn[y] = st[y]
    BY <1>4, <1>7, <1>18, <1>19
  <2> QED BY <2>1, OwnedLessThread
<1>21. MemoryOK'
  BY <1>2, <1>4, <1>9, <1>17, <1>19, <1>20, MemoryBy DEF Freed
<1> QED BY <1>14, <1>21

LEMMA FreesPagesOK ==
    ASSUME LifeOK, MemoryOK, NEW t \in Thread, FreesPages(t)
    PROVE  LifeOK' /\ MemoryOK'
<1>1. PICK at, r : at = (IF pc[t] = "free_pages" THEN "user" ELSE "unlink") /\ r = block[t]
  OBVIOUS
<1>2. /\ k.cur = t /\ pc[t] \in {"free_stack_pages", "free_pages"}
      /\ heap' = rt_page_free(heap, r.start, r.page)
      /\ block' = [block EXCEPT ![t] = NoBlock] /\ pc' = [pc EXCEPT ![t] = at]
      /\ UNCHANGED <<k, object, stack, texts, target, want>>
  BY <1>1 DEF FreesPages, Goto
<1>3. pc[t] \in Holding /\ pc[t] \notin Outside \cup InMalloc
  BY <1>2 DEF Holding, Outside, InMalloc
<1>4. /\ block \in [Thread -> Runs \cup {NoBlock}] /\ block[t] # NoBlock /\ want[t] = Tcb
      /\ HeapOK(heap, Hands) /\ HandsApart /\ stack \in [Thread -> Nat]
      /\ Owned(SmallBlocks(heap), Blocks, texts, ThreadBlocks, Complete, stack)
      /\ texts \in Seq(Nat)
  BY <1>3, AtPlace, MemoryParts DEF PlaceOK
<1>5. Hands' = Hands \ {r} /\ HandsApart' /\ r \in Hands
  BY <1>1, <1>2, <1>4, HandsLose
<1>6. PICK h, H, g : h = heap /\ H = Hands /\ g = heap'
  OBVIOUS
<1>7. /\ HeapOK(g, H \ {r})
      /\ SmallBlocks(g) = SmallBlocks(h) /\ LargeBlocks(g) = LargeBlocks(h)
  BY <1>2, <1>4, <1>5, <1>6, PageFreeOK
<1>8. Blocks' = Blocks
  BY <1>6, <1>7, BlocksSame
<1>9. /\ pc[t] = "free_pages" => at = "user" /\ target[t] = NULL
      /\ pc[t] = "free_stack_pages" => at = "unlink" /\ target[t] # NULL
  BY <1>1, AtPlace, LifeAssumption DEF AboutThread
<1>10. LifeOK'
  <2>1. Goes(at, target[t], Tcb, NoBlock)
    BY <1>2, <1>9, PlaceIs DEF Goes, Places, InMalloc, AboutThread, Holding, Outside
  <2>2. target[t] # NULL => AboutOK(target[t], at)'
    <3> SUFFICES ASSUME target[t] # NULL PROVE AboutOK(target[t], at)'
      OBVIOUS
    <3>1. PICK x : x = target[t]
      OBVIOUS
    <3>2. AboutOK(x, "free_stack_pages") /\ at = "unlink"
      BY <1>2, <1>9, <3>1, AtPlace
    <3>3. AboutOK(x, at)'
      BY <1>2, <3>2 DEF AboutOK, InMalloc
    <3> QED BY <1>2, <3>1, <3>3
  <2>3. stack' \in [Thread -> Nat] /\ want' = [want EXCEPT ![t] = Tcb]
    BY <1>2, <1>4, Stays
  <2> QED BY <1>2, <1>3, <2>1, <2>2, <2>3, SameInside
<1>11. ComesTo(t, at, target[t])
  BY <1>2, Stays DEF ComesTo
<1>12. Reckons(t, at, target[t])
  BY <1>2, <1>9 DEF Reckons, Elsewhere, Lacking
<1>13. ThreadBlocks' = ThreadBlocks /\ Complete' = Complete
  BY <1>2, <1>11, <1>12, ReckonSame
<1>14. MemoryOK'
  BY <1>2, <1>4, <1>5, <1>6, <1>7, <1>8, <1>13, MemoryBy
<1> QED BY <1>10, <1>14

LEMMA FreesTextOK ==
    ASSUME LifeOK, MemoryOK, OthersWait, NEW t \in Thread, FreesText(t)
    PROVE  LifeOK' /\ MemoryOK'
<1>1. PICK a : a = Head(texts)
  OBVIOUS
<1>2. /\ Calls(t, "text") /\ texts # <<>> /\ Frees(t, a, "user", "free_pages")
      /\ texts' = Tail(texts)
      /\ UNCHANGED <<k, object, stack, target, want>>
  BY <1>1 DEF FreesText
<1>3. /\ k.cur = t /\ pc[t] = "user" /\ t \in object /\ k.stat[t] = "running"
      /\ target[t] = NULL /\ want[t] = Tcb /\ block[t] = NoBlock /\ k.prio[t] \notin Deletable
  BY <1>2, CallsApi
<1>4. /\ stack \in [Thread -> Nat] /\ texts \in Seq(Nat)
      /\ Owned(SmallBlocks(heap), Blocks, texts, ThreadBlocks, Complete, stack)
  BY AtPlace, MemoryParts
<1>5. PICK bl, th, cp, s, st :
         /\ bl = Blocks /\ th = ThreadBlocks /\ cp = Complete
         /\ s = SmallBlocks(heap) /\ st = stack
  OBVIOUS
<1>6. a \in s /\ Owned(s \ {a}, bl \ {a}, Tail(texts), th, cp, st)
  <2>1. Owned(s, bl, texts, th, cp, st)
    BY <1>4, <1>5
  <2> QED BY <1>1, <1>2, <1>4, <2>1, OwnedLess
<1>7. PICK at, b : /\ Freed(t, a, at, b)
                   /\ (at = "user" /\ b = NoBlock) \/ (at = "free_pages" /\ b \in Runs)
  BY <1>2, <1>3, <1>5, <1>6, FreesSmall
<1>8. pc' = [pc EXCEPT ![t] = at] /\ block' = [block EXCEPT ![t] = b]
  BY <1>7 DEF Freed
<1>9. LifeOK'
  <2>1. Moves(t, at, NULL, Tcb, b)
    BY <1>2, <1>3, <1>8, Stays DEF Moves
  <2>2. Goes(at, NULL, Tcb, b)
    BY <1>7, NoBlockIs DEF Goes, Places, InMalloc, AboutThread, Holding, Outside
  <2>3. Chooses(t, NULL) /\ CallerOK(t)' /\ stack' \in [Thread -> Nat]
    BY <1>2, <1>3, <1>4 DEF Chooses, CallerOK, Runnable
  <2> QED BY <1>2, <1>3, <2>1, <2>2, <2>3, SameLife
<1>10. ComesTo(t, at, NULL)
  BY <1>2, <1>3, <1>8, Stays DEF ComesTo
<1>11. Reckons(t, at, NULL)
  BY <1>3 DEF Reckons, Elsewhere
<1>12. ThreadBlocks' = ThreadBlocks /\ Complete' = Complete
  BY <1>2, <1>10, <1>11, ReckonSame
<1>13. Tail(texts) \in Seq(Nat)
  BY <1>2, <1>4
<1>14. MemoryOK'
  BY <1>2, <1>5, <1>6, <1>7, <1>12, <1>13, MemoryBy DEF Freed
<1> QED BY <1>9, <1>14

-----------------------------------------------------------------------------
(* The heap at the start.                                                  *)

(* The heap when the threads start. *)
LEMMA ZoneFirst ==
    ASSUME NEW h, HeapOK(h, {}), NEW p \in Nat \ {0}, NEW m \in Nat \ {0},
           h.page_list = <<Run(p, m)>>, zone_page_cnt <= m, NEW s \in ChunkSize,
           NEW g, g = ZoneMade(SetUsage(rt_page_alloc(h, zone_page_cnt), p), p, s),
           NEW a, a = ChunkAt(p, s, 0)
    PROVE  /\ HeapOK(g, {}) /\ LargeBlocks(g) = LargeBlocks(h)
           /\ a \notin SmallBlocks(h) /\ SmallBlocks(g) = SmallBlocks(h) \cup {a}
           /\ zone_page_cnt < m => g.page_list = <<Run(p + zone_page_cnt, m - zone_page_cnt)>>
<1>1. h \in HeapState /\ zone_page_cnt \in Nat \ {0}
  BY SlabAssumption DEF HeapOK, PagesOK
<1>2. PICK b : b = rt_page_alloc(h, zone_page_cnt)
  OBVIOUS
<1>3. /\ Fits(h, zone_page_cnt) # {} /\ PageFound(h, zone_page_cnt) = p
      /\ zone_page_cnt < m => b.page_list = <<Run(p + zone_page_cnt, m - zone_page_cnt)>>
  BY <1>1, <1>2, AllocFromOne
<1>4. PICK r : r = Run(p, zone_page_cnt)
  OBVIOUS
<1>5. PICK E : E = {}
  OBVIOUS
<1>6. /\ HeapOK(b, E \cup {r}) /\ r \notin E
      /\ SmallBlocks(b) = SmallBlocks(h) /\ LargeBlocks(b) = LargeBlocks(h)
  BY <1>1, <1>2, <1>3, <1>4, <1>5, PageAllocOK
<1>7. PICK H : H = E \cup {r}
  OBVIOUS
<1>8. g = ZoneMade(SetUsage(b, p), p, s) /\ HeapOK(b, H) /\ r \in H /\ H \ {r} = {}
  BY <1>2, <1>5, <1>6, <1>7
<1>9. /\ HeapOK(g, H \ {r}) /\ LargeBlocks(g) = LargeBlocks(b)
      /\ a \notin SmallBlocks(b) /\ SmallBlocks(g) = SmallBlocks(b) \cup {a}
  BY <1>4, <1>8, ZoneAdded
<1>10. g.page_list = b.page_list
  <2>1. b \in HeapState
    BY <1>8 DEF HeapOK, PagesOK
  <2>2. PICK c : c = SetUsage(b, p)
    OBVIOUS
  <2>3. c.page_list = b.page_list /\ DOMAIN c = DOMAIN b
    BY <2>1, <2>2 DEF SetUsage, HeapState
  <2>4. g = ZoneMade(c, p, s)
    BY <1>8, <2>2
  <2>5. g.page_list = c.page_list
    BY <2>1, <2>3, <2>4 DEF ZoneMade, HeapState
  <2> QED BY <2>3, <2>5
<1> QED BY <1>3, <1>6, <1>8, <1>9, <1>10

LEMMA RunFirst ==
    ASSUME NEW h, HeapOK(h, {}), NEW p \in Nat \ {0}, NEW m \in Nat \ {0},
           h.page_list = <<Run(p, m)>>, NEW n \in Nat \ {0}, n < m,
           NEW g, g = Large(rt_page_alloc(h, n), p, n)
    PROVE  /\ HeapOK(g, {}) /\ SmallBlocks(g) = SmallBlocks(h)
           /\ LargeBlocks(g) = LargeBlocks(h) \cup {p}
           /\ g.page_list = <<Run(p + n, m - n)>>
<1>1. h \in HeapState
  BY DEF HeapOK, PagesOK
<1>2. PICK b : b = rt_page_alloc(h, n)
  OBVIOUS
<1>3. /\ Fits(h, n) # {} /\ PageFound(h, n) = p /\ b.page_list = <<Run(p + n, m - n)>>
  BY <1>1, <1>2, AllocFromOne
<1>4. PICK r : r = Run(p, n)
  OBVIOUS
<1>5. PICK E : E = {}
  OBVIOUS
<1>6. /\ HeapOK(b, E \cup {r}) /\ r \notin E
      /\ SmallBlocks(b) = SmallBlocks(h) /\ LargeBlocks(b) = LargeBlocks(h)
  BY <1>1, <1>2, <1>3, <1>4, <1>5, PageAllocOK
<1>7. PICK H : H = E \cup {r}
  OBVIOUS
<1>8. g = Large(b, p, n) /\ HeapOK(b, H) /\ r \in H /\ H \ {r} = {}
  BY <1>2, <1>5, <1>6, <1>7
<1>9. /\ HeapOK(g, H \ {r}) /\ SmallBlocks(g) = SmallBlocks(b)
      /\ LargeBlocks(g) = LargeBlocks(b) \cup {p}
  BY <1>4, <1>8, LargeOK
<1>10. g.page_list = b.page_list
  <2>1. b \in HeapState
    BY <1>8 DEF HeapOK, PagesOK
  <2> QED BY <1>8, <2>1 DEF Large, HeapState
<1> QED BY <1>3, <1>6, <1>8, <1>9, <1>10

LEMMA StartPages ==
    /\ Pages \in Nat /\ zone_page_cnt \in Nat \ {0} /\ StackPages[MainPriority] \in Nat \ {0}
    /\ zone_page_cnt + StackPages[MainPriority] < Pages
    /\ 2 * zone_page_cnt + StackPages[MainPriority] <= Pages
    /\ MainPriority \in Priority /\ MainPriority # PriorityMax - 1
    /\ PriorityMax - 1 \in Priority /\ Tcb \in ChunkSize /\ Text \in ChunkSize
<1>1. MainPriority \in Priority
  BY KernelAssumption, StartAssumption DEF Priority, MainPriority
<1>2. PriorityMax - 1 \in Priority
  BY KernelAssumption DEF Priority
<1>3. StackPages[MainPriority] \in Nat \ {0} /\ Tcb \in ChunkSize /\ Text \in ChunkSize
  BY <1>1, LifeAssumption, StartAssumption
<1>4. Pages \in Nat /\ zone_page_cnt \in Nat \ {0}
  BY SlabAssumption
<1> QED BY <1>1, <1>2, <1>3, <1>4, StartAssumption, KernelAssumption

MainStack == PAGE * (zone_page_cnt + 1)
FirstText == ChunkAt(TextZone, Text, 0)

LEMMA HeapStarts ==
    ASSUME Init
    PROVE  /\ HeapOK(heap, {})
           /\ SmallBlocks(heap) = {Main, FirstText} /\ FirstText # Main
           /\ LargeBlocks(heap) = {zone_page_cnt + 1}
<1>1. PICK i : i = HeapInit
  OBVIOUS
<1>2. PICK n : n = StackPages[MainPriority]
  OBVIOUS
<1>3. PICK h : h = NewZone(i, 1, Tcb)
  OBVIOUS
<1>4. PICK q : q = zone_page_cnt + 1
  OBVIOUS
<1>5. PICK g : g = Large(rt_page_alloc(h, n), q, n)
  OBVIOUS
<1>6. heap = NewZone(g, TextZone, Text)
  BY <1>1, <1>2, <1>3, <1>4, <1>5, Zenon DEF Init
<1>7. /\ n \in Nat \ {0} /\ q \in Nat \ {0} /\ q = 1 + zone_page_cnt
      /\ Pages \in Nat \ {0} /\ zone_page_cnt \in Nat \ {0}
      /\ zone_page_cnt <= Pages /\ zone_page_cnt < Pages
      /\ Pages - zone_page_cnt \in Nat \ {0} /\ n < Pages - zone_page_cnt
      /\ (Pages - zone_page_cnt) - n \in Nat \ {0} /\ zone_page_cnt <= (Pages - zone_page_cnt) - n
      /\ TextZone = q + n /\ q + n \in Nat \ {0}
  BY <1>2, <1>4, StartPages DEF TextZone
<1>8. HeapOK(i, {}) /\ SmallBlocks(i) = {} /\ LargeBlocks(i) = {}
      /\ i.page_list = <<Run(1, Pages)>>
  BY <1>1, HeapInitOK
<1>9. PICK a : a = ChunkAt(1, Tcb, 0)
  OBVIOUS
<1>10. /\ HeapOK(h, {}) /\ LargeBlocks(h) = {} /\ SmallBlocks(h) = {a}
       /\ h.page_list = <<Run(q, Pages - zone_page_cnt)>>
  <2>1. h = ZoneMade(SetUsage(rt_page_alloc(i, zone_page_cnt), 1), 1, Tcb)
    BY <1>3 DEF NewZone
  <2>2. 1 \in Nat \ {0} /\ Tcb \in ChunkSize
    BY StartPages
  <2>3. /\ HeapOK(h, {}) /\ LargeBlocks(h) = LargeBlocks(i)
        /\ a \notin SmallBlocks(i) /\ SmallBlocks(h) = SmallBlocks(i) \cup {a}
        /\ zone_page_cnt < Pages =>
              h.page_list = <<Run(1 + zone_page_cnt, Pages - zone_page_cnt)>>
    BY <1>7, <1>8, <1>9, <2>1, <2>2, ZoneFirst
  <2> QED BY <1>7, <1>8, <2>3
<1>11. PICK m : m = Pages - zone_page_cnt
  OBVIOUS
<1>12. /\ HeapOK(g, {}) /\ SmallBlocks(g) = {a} /\ LargeBlocks(g) = {q}
       /\ g.page_list = <<Run(q + n, m - n)>>
  <2>1. m \in Nat \ {0} /\ n < m /\ h.page_list = <<Run(q, m)>>
    BY <1>7, <1>10, <1>11
  <2>2. /\ HeapOK(g, {}) /\ SmallBlocks(g) = SmallBlocks(h)
        /\ LargeBlocks(g) = LargeBlocks(h) \cup {q}
        /\ g.page_list = <<Run(q + n, m - n)>>
    BY <1>5, <1>7, <1>10, <2>1, RunFirst
  <2> QED BY <1>10, <2>2
<1>13. PICK w : w = q + n
  OBVIOUS
<1>14. PICK l : l = m - n
  OBVIOUS
<1>15. PICK b : b = ChunkAt(w, Text, 0)
  OBVIOUS
<1>16. /\ HeapOK(heap, {}) /\ LargeBlocks(heap) = LargeBlocks(g)
       /\ b \notin SmallBlocks(g) /\ SmallBlocks(heap) = SmallBlocks(g) \cup {b}
  <2>1. w \in Nat \ {0} /\ l \in Nat \ {0} /\ zone_page_cnt <= l
        /\ g.page_list = <<Run(w, l)>> /\ Text \in ChunkSize
    BY <1>7, <1>11, <1>12, <1>13, <1>14, StartPages
  <2>2. heap = ZoneMade(SetUsage(rt_page_alloc(g, zone_page_cnt), w), w, Text)
    BY <1>6, <1>7, <1>13 DEF NewZone
  <2> QED BY <1>12, <1>15, <2>1, <2>2, ZoneFirst
<1>17. a = Main /\ b = FirstText
  BY <1>7, <1>9, <1>13, <1>15 DEF Main, FirstText
<1> QED BY <1>4, <1>12, <1>16, <1>17

-----------------------------------------------------------------------------
(* The invariant holds at the start.                                       *)

(* The kernel when the threads start. *)
StartPriorities == [t \in Thread |-> IF t = Idle THEN PriorityMax - 1
                                     ELSE IF t = Main THEN MainPriority ELSE 0]
StartReady == [p \in Priority |-> IF p = PriorityMax - 1 THEN <<Idle>> ELSE <<>>]

LEMMA MainIs == Main \in Thread \ {Idle} /\ Idle \in Thread /\ NULL \notin Thread
<1>1. 1 \in 1 .. Pages - zone_page_cnt + 1
  BY StartPages
<1>2. 0 \in 0 .. z_nmax[Tcb] - 1
  BY StartPages, SlabAssumption
<1>3. ChunkAt(1, Tcb, 0) \in Thread \ {Idle}
  BY <1>1, <1>2, LifeAssumption
<1> QED BY <1>3, LifeAssumption, KernelAssumption DEF Main

LEMMA KernelStarts ==
    ASSUME NEW r, r = KernelStart(Main, StartPriorities, StartReady)
    PROVE  /\ r \in KernelState /\ LivesOK(r)
           /\ r.cur = Main /\ r.prio = StartPriorities /\ r.stat[Main] = "running"
           /\ \A t \in Thread : ~r.tmr[t]
           /\ \A t \in Thread \ {Main, Idle} : Off(r, t) /\ r.stat[t] = "init"
<1> DEFINE low == PriorityMax - 1
<1>1. /\ Main \in Thread \ {Idle} /\ Idle \in Thread /\ low \in Priority
      /\ MainPriority \in Priority /\ MainPriority # low /\ 0 \in Priority
      /\ Priority \subseteq ListHead /\ WaitQueue \subseteq ListHead
      /\ WaitQueue \cap Priority = {}
  BY MainIs, StartPages, KernelAssumption, QueuesAreNotPriorities DEF Priority, ListHead
<1>2. /\ StartPriorities \in [Thread -> Priority]
      /\ StartPriorities[Idle] = low /\ StartPriorities[Main] = MainPriority
  BY <1>1 DEF StartPriorities
<1>3. /\ StartReady \in [Priority -> Seq(Thread)]
      /\ \A p \in Priority : StartReady[p] = IF p = low THEN <<Idle>> ELSE <<>>
  BY <1>1 DEF StartReady
<1>4. /\ r.cur = Main /\ r.lock = 0
      /\ r.table = { p \in Priority : StartReady[p] # <<>> }
      /\ r.group = { p \div GroupSize : p \in { q \in Priority : StartReady[q] # <<>> } }
      /\ r.list = [h \in ListHead |-> IF h \in Priority THEN StartReady[h] ELSE <<>>]
      /\ r.prio = StartPriorities
      /\ r.err = [t \in Thread |-> "ok"]
      /\ r.tmr = [t \in Thread |-> FALSE]
      /\ r.stat = [t \in Thread |->
                      IF t = Main THEN "running"
                      ELSE IF Contains(StartReady[StartPriorities[t]], t)
                           THEN "ready" ELSE "init"]
  BY DEF KernelStart
<1>5. r \in KernelState
  <2>1. r.list \in [ListHead -> Seq(Thread)]
    BY <1>3, <1>4
  <2>2. r.group \in SUBSET Group
    BY <1>4 DEF Group
  <2>3. r.stat \in [Thread -> Stat] /\ r.err \in [Thread -> Error]
    BY <1>4 DEF Stat, Error
  <2> QED BY <1>1, <1>2, <1>4, <2>1, <2>2, <2>3 DEF KernelState, KernelStart
<1>6. \A h \in ListHead : r.list[h] = IF h = low THEN <<Idle>> ELSE <<>>
  BY <1>1, <1>3, <1>4
<1>7. \A h \in ListHead : \A u : Contains(r.list[h], u) <=> h = low /\ u = Idle
  BY <1>6 DEF Contains
<1>8. \A t \in Thread : r.stat[t] = IF t = Main THEN "running"
                                    ELSE IF t = Idle THEN "ready" ELSE "init"
  <2>1. \A t \in Thread : Contains(StartReady[StartPriorities[t]], t) <=> t = Idle
    <3> SUFFICES ASSUME NEW t \in Thread
                 PROVE  Contains(StartReady[StartPriorities[t]], t) <=> t = Idle
      OBVIOUS
    <3>1. StartPriorities[t] \in Priority
      BY <1>2
    <3>2. Contains(r.list[StartPriorities[t]], t) <=> t = Idle
      BY <1>1, <1>2, <1>7, <3>1
    <3> QED BY <1>1, <1>4, <3>1, <3>2
  <2> QED BY <1>4, <2>1
<1>9. LinkedOnce(r)
  <2>1. \A h \in ListHead : IsInjective(r.list[h])
    BY <1>6 DEF IsInjective
  <2> QED BY <1>7, <2>1 DEF LinkedOnce
<1>10. BitmapExact(r)
  <2>1. \A p \in Priority : r.list[p] = StartReady[p]
    BY <1>1, <1>4
  <2> QED BY <1>4, <2>1 DEF BitmapExact
<1>11. LinksOK(r)
  BY <1>1, <1>2, <1>4, <1>7, <1>8, <1>9, <1>10 DEF LinksOK
<1>12. CurrentOK(r)
  BY <1>1, <1>4, <1>8 DEF CurrentOK
<1>13. IdleReady(r)
  BY <1>1, <1>2, <1>4, <1>7, <1>8 DEF IdleReady, Runnable
<1>14. \A t \in Thread : ~r.tmr[t]
  BY <1>4
<1>15. \A t \in Thread \ {Main, Idle} : Off(r, t) /\ r.stat[t] = "init"
  BY <1>4, <1>7, <1>8, <1>14 DEF Off, Linked
<1> QED BY <1>1, <1>4, <1>5, <1>8, <1>11, <1>12, <1>13, <1>14, <1>15 DEF LivesOK

LEMMA LifeStarts ==
    ASSUME Init
    PROVE  LifeOK
<1>1. k = KernelStart(Main, StartPriorities, StartReady)
  BY Zenon DEF Init, StartPriorities, StartReady
<1>2. /\ k \in KernelState /\ LivesOK(k)
      /\ k.cur = Main /\ k.prio = StartPriorities /\ k.stat[Main] = "running"
      /\ \A t \in Thread : ~k.tmr[t]
      /\ \A t \in Thread \ {Main, Idle} : Off(k, t) /\ k.stat[t] = "init"
  BY <1>1, KernelStarts
<1>3. /\ object = {Main} /\ pc = [t \in Thread |-> "user"]
      /\ target = [t \in Thread |-> NULL] /\ want = [t \in Thread |-> Tcb]
      /\ block = [t \in Thread |-> NoBlock]
      /\ stack = [t \in Thread |-> IF t = Main THEN PAGE * (zone_page_cnt + 1) ELSE NULL]
  BY DEF Init
<1>4. Main \in Thread \ {Idle} /\ Idle \in Thread
  BY MainIs
<1>5. TypesOK
  <2>1. stack \in [Thread -> Nat]
    <3>1. PAGE * (zone_page_cnt + 1) \in Nat
      BY StartPages DEF PAGE
    <3>2. NULL \in Nat
      BY DEF NULL
    <3> QED BY <1>3, <3>1, <3>2
  <2>2. target \in [Thread -> (Thread \ {Idle}) \cup {NULL}]
    BY <1>3
  <2>3. pc \in [Thread -> Places] /\ block \in [Thread -> Runs \cup {NoBlock}]
    BY <1>3 DEF Places, Outside
  <2>4. want \in [Thread -> ChunkSize]
    BY <1>3, StartPages
  <2>5. TypeOK
    BY <1>2, <1>3, <1>4, <2>1, <2>2 DEF TypeOK
  <2> QED BY <2>3, <2>4, <2>5 DEF TypesOK
<1>6. ASSUME NEW t \in Thread PROVE CallOK(t)
  <2>1. pc[t] = "user" /\ target[t] = NULL /\ want[t] = Tcb /\ block[t] = NoBlock
    BY <1>3
  <2>2. PlaceOK(t)
    BY <2>1 DEF PlaceOK, Places, Outside, InMalloc, AboutThread, Holding
  <2> QED BY <2>1, <2>2 DEF CallOK, CallerOK, Outside
<1>7. TargetsApart
  BY <1>3 DEF TargetsApart
<1>8. ASSUME NEW x \in Thread PROVE StrangerOK(x)
  BY <1>2, <1>3 DEF StrangerOK
<1>9. pc[k.cur] # "sched" => k.stat[k.cur] = "running"
  BY <1>2
<1> QED BY <1>2, <1>5, <1>6, <1>7, <1>8, <1>9 DEF LifeOK

LEMMA MemoryStarts ==
    ASSUME Init
    PROVE  MemoryOK
<1>1. /\ HeapOK(heap, {}) /\ SmallBlocks(heap) = {Main, FirstText} /\ FirstText # Main
      /\ LargeBlocks(heap) = {zone_page_cnt + 1}
  BY HeapStarts
<1>2. /\ object = {Main} /\ target = [t \in Thread |-> NULL]
      /\ block = [t \in Thread |-> NoBlock] /\ texts = <<FirstText>>
      /\ stack = [t \in Thread |-> IF t = Main THEN MainStack ELSE NULL]
  BY DEF Init, FirstText, MainStack
<1>3. Main \in Thread \ {Idle}
  BY MainIs
<1>4. Hands = {} /\ HandsApart
  BY <1>2 DEF Hands, HandsApart, InHand
<1>5. \A S : Targets(S) = {}
  BY <1>2 DEF Targets
<1>6. ThreadBlocks = {Main} /\ Complete = {Main}
  BY <1>2, <1>5 DEF ThreadBlocks, Complete
<1>7. FirstText \in Nat \ {0} /\ FirstText # MainStack /\ Main # MainStack
  <2>1. PICK H : H = {}
    BY Zenon
  <2>2. HeapOK(heap, H)
    BY <1>1, <2>1
  <2>3. zone_page_cnt + 1 \in Nat
    BY StartPages
  <2>4. \A a \in SmallBlocks(heap) : a \in Nat \ {0} /\ \A p \in Nat : a # PAGE * p
    BY <2>2, SmallKnown
  <2> QED BY <1>1, <2>3, <2>4 DEF MainStack
<1>8. Blocks = {Main, FirstText, MainStack}
  BY <1>1 DEF Blocks, MainStack
<1>9. PICK f \in Nat : f = FirstText
  BY <1>7
<1>10. /\ texts = <<f>> /\ <<f>> \in Seq(Nat) /\ Range(<<f>>) = {f} /\ IsInjective(<<f>>)
  BY <1>2, <1>9 DEF Range, IsInjective
<1>11. stack[Main] = MainStack
  BY <1>2, <1>3
<1>12. Owned(SmallBlocks(heap), Blocks, texts, ThreadBlocks, Complete, stack)
  BY <1>1, <1>6, <1>7, <1>8, <1>9, <1>10, <1>11 DEF Owned
<1> QED BY <1>1, <1>4, <1>10, <1>12 DEF MemoryOK

LEMMA StartsOK == Init => IInv
BY LifeStarts, MemoryStarts DEF IInv

-----------------------------------------------------------------------------
(* The theorems.                                                           *)

LEMMA StutterOK ==
    ASSUME LifeOK, MemoryOK, UNCHANGED vars
    PROVE  LifeOK' /\ MemoryOK'
<1>1. /\ k' = k /\ pc' = pc /\ Calm /\ heap' = heap
  BY DEF vars, Calm
<1>2. k \in KernelState /\ LivesOK(k)
  BY KernelAssumption, AtPlace
<1>3. NoTimers(k') /\ CurrentRuns'
  BY <1>1 DEF NoTimers, CurrentRuns, LifeOK
<1>4. {} \in SUBSET Thread
  OBVIOUS
<1>5. LifeOK'
  BY <1>1, <1>2, <1>3, <1>4, AllKept, InterruptStep
<1>6. ThreadBlocks' = ThreadBlocks /\ Complete' = Complete
  BY <1>1, NoCallReckons DEF Calm
<1> QED BY <1>1, <1>5, <1>6, MemoryStill DEF Calm

LEMMA StepsOK ==
    ASSUME LifeOK, MemoryOK, Careful, OthersWait, NEW t \in Thread, Steps(t)
    PROVE  LifeOK' /\ MemoryOK'
<1>1. CASE KernelSteps(t)
  <2>1. MemoryOK'
    BY <1>1, KernelStepsMemory
  <2>2. CASE rt_thread_create(t)
    BY <2>1, <2>2, CreateLife
  <2>3. CASE rt_thread_startup(t)
    BY <2>1, <2>3, StartupLife
  <2>4. CASE Schedules(t)
    BY <2>1, <2>4, SchedulesLife
  <2>5. CASE rt_thread_sleep(t) \/ Waits(t)
    BY <2>1, <2>5, WaitsLife
  <2>6. CASE rt_thread_exit(t)
    BY <2>1, <2>6, ExitLife
  <2>7. CASE rt_thread_delete(t)
    BY <2>1, <2>7, DeleteLife
  <2>8. CASE Removes(t)
    BY <2>1, <2>8, RemovesLife
  <2>9. CASE DetachesTimer(t)
    BY <2>1, <2>9, DetachesLife
  <2>10. CASE Closes(t)
    BY <2>1, <2>10, ClosesLife
  <2>11. CASE MallocsText(t)
    BY <2>1, <2>11, MallocsTextLife
  <2> QED BY <1>1, <2>2, <2>3, <2>4, <2>5, <2>6, <2>7, <2>8, <2>9, <2>10, <2>11 DEF KernelSteps
<1>2. CASE rt_malloc(t)
  BY <1>2, MallocOK
<1>3. CASE GetsPages(t)
  BY <1>3, GetsPagesOK
<1>4. CASE MakesZone(t)
  BY <1>4, MakesZoneOK
<1>5. CASE rt_object_allocate(t)
  BY <1>5, RegisterLife, RegisterMemory
<1>6. CASE GetsStack(t)
  BY <1>6, GetsStackOK
<1>7. CASE FreesStack(t)
  BY <1>7, FreesStackOK
<1>8. CASE Unlinks(t)
  BY <1>8, UnlinksLife, UnlinksMemory
<1>9. CASE FreesObject(t)
  BY <1>9, FreesObjectOK
<1>10. CASE FreesPages(t)
  BY <1>10, FreesPagesOK
<1>11. CASE FreesText(t)
  BY <1>11, FreesTextOK
<1> QED BY <1>1, <1>2, <1>3, <1>4, <1>5, <1>6, <1>7, <1>8, <1>9, <1>10, <1>11
        DEF Steps, KernelSteps

LEMMA NextOK ==
    ASSUME IInv, Careful, OthersWait, [Next]_vars
    PROVE  IInv'
<1>1. LifeOK /\ MemoryOK
  BY DEF IInv
<1>2. CASE \E t \in Thread : Steps(t)
  BY <1>1, <1>2, StepsOK DEF IInv
<1>3. CASE rt_thread_idle_excute
  BY <1>1, <1>3, IdleLife, IdleMemory DEF IInv
<1>4. CASE Interrupts
  BY <1>1, <1>4, InterruptsLife, InterruptsMemory DEF IInv
<1>5. CASE UNCHANGED vars
  BY <1>1, <1>5, StutterOK DEF IInv
<1> QED BY <1>2, <1>3, <1>4, <1>5 DEF Next

LEMMA InvHeapTiled ==
    ASSUME IInv
    PROVE  HeapTiled
<1>1. HeapOK(heap, Hands) /\ HandsApart
  BY MemoryParts DEF IInv
<1>2. Tiling(Tiles(heap, Hands)) /\ PageList(heap.page_list)
  BY <1>1 DEF HeapOK, PagesOK
<1>3. PICK T : T = Tiles(heap, Hands)
  OBVIOUS
<1>4. /\ UNION {PagesIn(x[2]) : x \in T} = PageNo
      /\ \A x, y \in T : x # y => PagesIn(x[2]) \cap PagesIn(y[2]) = {}
  BY <1>2, <1>3 DEF Tiling
<1>5. \A i, j \in DOMAIN heap.page_list :
         i < j => After(heap.page_list[i]) < heap.page_list[j].start
  BY <1>2 DEF PageList, Gapped
<1>6. \A t, u \in InHand : t # u => block[t] # block[u]
  BY <1>1 DEF HandsApart
<1>7. T = Tiles(heap, {block[t] : t \in InHand})
  BY <1>3 DEF Hands
<1> QED BY <1>4, <1>5, <1>6, <1>7, Zenon DEF HeapTiled

LEMMA InvBlocksOwned ==
    ASSUME IInv
    PROVE  BlocksOwned
<1>1. Owned(SmallBlocks(heap), Blocks, texts, ThreadBlocks, Complete, stack)
  BY MemoryParts DEF IInv
<1>2. /\ ThreadBlocks = object \cup Targets({"register", "free_object"})
      /\ Complete = object \ Targets({"stack", "malloc", "page", "zone",
                                      "free_stack_pages", "unlink"})
  <2>1. {"stack", "free_stack_pages", "unlink"} \cup InMalloc
           = {"stack", "malloc", "page", "zone", "free_stack_pages", "unlink"}
    BY DEF InMalloc
  <2> QED BY <2>1, Zenon DEF ThreadBlocks, Complete
<1> QED BY <1>1, <1>2, Zenon DEF BlocksOwned, Owned, Blocks

(***************************************************************************)
(* What create, start-up, exit, delete, idle and rt_malloc keep, whatever  *)
(* comes between their sections: the invariant that the others follow      *)
(* from.                                                                   *)
(***************************************************************************)
THEOREM LifeInvariant ==
    ASSUME Careful, OthersWait
    PROVE  Spec => []IInv
<1>1. IInv /\ [Next]_vars => IInv'
  BY NextOK
<1> QED BY <1>1, StartsOK, PTL DEF Spec

(***************************************************************************)
(* The kernel's records, the object container, the stacks and what calls   *)
(* are about keep their types.                                             *)
(***************************************************************************)
THEOREM LifeTyped ==
    ASSUME Careful, OthersWait
    PROVE  Spec => []TypeOK
<1>1. IInv => TypeOK
  BY DEF IInv, LifeOK, TypesOK
<1> QED BY <1>1, LifeInvariant, PTL

(***************************************************************************)
(* Every page of the heap is in one place: a free run, a zone, a large     *)
(* block, or the hand of a caller that waits for heap_sem; and free runs   *)
(* that meet are one.                                                      *)
(***************************************************************************)
THEOREM LifeHeapTiled ==
    ASSUME Careful, OthersWait
    PROVE  Spec => []HeapTiled
<1>1. IInv => HeapTiled
  BY InvHeapTiled
<1> QED BY <1>1, LifeInvariant, PTL

(***************************************************************************)
(* Every block that rt_malloc has given has one owner - a text, a control  *)
(* block or a stack - and every owner's block is still out: none is lost,  *)
(* given twice, or freed while its owner lives.                            *)
(***************************************************************************)
THEOREM LifeBlocksOwned ==
    ASSUME Careful, OthersWait
    PROVE  Spec => []BlocksOwned
<1>1. IInv => BlocksOwned
  BY InvBlocksOwned
<1> QED BY <1>1, LifeInvariant, PTL
=============================================================================
