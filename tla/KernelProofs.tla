---------------------------- MODULE KernelProofs ----------------------------
(***************************************************************************)
(* What the operations of Kernel do to the lists, the bitmap and the       *)
(* thread states, for every set of threads and every number of             *)
(* priorities.                                                             *)
(***************************************************************************)
EXTENDS Kernel, TLAPS, SequenceTheorems, WellFoundedInduction

(* The list helpers: a list without repetitions stays one. *)
LEMMA AppendToList ==
    ASSUME NEW T, NEW s \in Seq(T), NEW e \in T, IsInjective(s), ~Contains(s, e)
    PROVE  /\ Append(s, e) \in Seq(T)
           /\ IsInjective(Append(s, e))
           /\ Append(s, e) # <<>>
           /\ \A x : Contains(Append(s, e), x) <=> Contains(s, x) \/ x = e
<1>1. /\ Append(s, e) \in Seq(T)
      /\ Len(Append(s, e)) = Len(s) + 1
      /\ \A i \in 1 .. Len(s) : Append(s, e)[i] = s[i]
      /\ Append(s, e)[Len(s) + 1] = e
  BY AppendProperties
<1>2. DOMAIN s = 1 .. Len(s) /\ DOMAIN Append(s, e) = 1 .. Len(s) + 1 /\ Len(s) \in Nat
  BY <1>1
<1>3. IsInjective(Append(s, e))
  BY <1>1, <1>2 DEF IsInjective, Contains
<1>4. \A x : Contains(Append(s, e), x) <=> Contains(s, x) \/ x = e
  BY <1>1, <1>2 DEF Contains
<1> QED BY <1>1, <1>2, <1>3, <1>4

(* What a sequence is that has a new last element, a new first one, or has *)
(* lost its first one.                                                     *)
LEMMA AppendIs ==
    ASSUME NEW T, NEW a \in Seq(T), NEW b \in Seq(T), NEW m \in T, Len(b) = Len(a) + 1,
           b[Len(a) + 1] = m, \A i \in 1 .. Len(a) : b[i] = a[i]
    PROVE  b = Append(a, m)
<1> DEFINE c == Append(a, m)
<1>1. /\ c \in Seq(T) /\ Len(c) = Len(a) + 1 /\ Len(a) \in Nat /\ c[Len(a) + 1] = m
      /\ \A i \in 1 .. Len(a) : c[i] = a[i]
  BY AppendProperties, LenProperties
<1> HIDE DEF c
<1>2. \A i \in 1 .. Len(b) : b[i] = c[i]
  BY <1>1
<1>3. b = c
  BY <1>1, <1>2, SeqEqual
<1> QED BY <1>3 DEF c

LEMMA FirstIs ==
    ASSUME NEW T, NEW a \in Seq(T), NEW b \in Seq(T), NEW m \in T, Len(b) = Len(a) + 1,
           b[1] = m, \A i \in 1 .. Len(a) : b[i + 1] = a[i]
    PROVE  b = <<m>> \o a
<1> DEFINE c == <<m>> \o a
<1>1. /\ c \in Seq(T) /\ Len(c) = Len(a) + 1 /\ Len(a) \in Nat /\ c[1] = m
      /\ \A i \in 2 .. Len(a) + 1 : c[i] = a[i - 1]
  BY LenProperties
<1> HIDE DEF c
<1>2. ASSUME NEW i \in 1 .. Len(b) PROVE b[i] = c[i]
  <2>1. CASE i = 1
    BY <1>1, <2>1
  <2>2. CASE i # 1
    <3>1. i - 1 \in 1 .. Len(a) /\ i \in 2 .. Len(a) + 1 /\ (i - 1) + 1 = i
      BY <1>1, <2>2
    <3>2. b[(i - 1) + 1] = a[i - 1]
      BY <3>1
    <3> QED BY <1>1, <3>1, <3>2
  <2> QED BY <2>1, <2>2
<1>3. b = c
  BY <1>1, <1>2, SeqEqual
<1> QED BY <1>3 DEF c

LEMMA TailIs ==
    ASSUME NEW T, NEW a \in Seq(T), NEW b \in Seq(T), a # <<>>, Len(b) = Len(a) - 1,
           \A i \in 1 .. Len(b) : b[i] = a[i + 1]
    PROVE  b = Tail(a)
<1>1. PICK c : c = Tail(a)
  OBVIOUS
<1>2. /\ c \in Seq(T) /\ Len(c) = Len(a) - 1 /\ Len(a) \in Nat
      /\ \A i \in 1 .. Len(c) : c[i] = a[i + 1]
  BY <1>1, HeadTailProperties, LenProperties
<1>3. \A i \in 1 .. Len(b) : b[i] = c[i]
  BY <1>2
<1> QED BY <1>1, <1>2, <1>3, SeqEqual

(* The least element of a set of naturals exists. *)
LEMMA MinOfNats ==
    ASSUME NEW S, S \subseteq Nat, S # {}
    PROVE  Min(S) \in S /\ \A x \in S : Min(S) <= x
<1>1. IsWellFoundedOn({ss \in Nat \X Nat : ss[1] < ss[2]}, Nat)
  BY NatLessThanWellFounded, Zenon DEF OpToRel
<1>2. \E m \in S : \A y \in S :
          <<y, m>> \notin {ss \in Nat \X Nat : ss[1] < ss[2]}
  BY <1>1, WFMin, Zenon
<1>3. PICK m \in S : \A y \in S :
          <<y, m>> \notin {ss \in Nat \X Nat : ss[1] < ss[2]}
  BY <1>2
<1>4. ASSUME NEW y \in S PROVE m <= y
  <2>1. y \in Nat /\ m \in Nat
    OBVIOUS
  <2>2. ~(y < m)
    BY <1>3, <2>1
  <2> QED BY <2>1, <2>2
<1> QED BY <1>4 DEF Min

LEMMA MinOfOne ==
    ASSUME NEW i \in Nat
    PROVE  Min({i}) = i
BY DEF Min

LEMMA RemoveOne ==
    ASSUME NEW T, NEW s \in Seq(T), NEW e, IsInjective(s)
    PROVE  /\ RemoveFirst(s, e) \in Seq(T)
           /\ IsInjective(RemoveFirst(s, e))
           /\ \A x : Contains(RemoveFirst(s, e), x) <=> Contains(s, x) /\ x # e
           /\ Len(RemoveFirst(s, e)) = IF Contains(s, e) THEN Len(s) - 1 ELSE Len(s)
<1>1. CASE ~Contains(s, e)
  BY <1>1 DEF Contains, RemoveFirst
<1>2. CASE Contains(s, e)
  <2>1. PICK i \in 1 .. Len(s) : s[i] = e
    BY <1>2 DEF Contains
  <2> DEFINE I == { j \in 1 .. Len(s) : s[j] = e }
  <2>2. I = {i}
    BY <2>1 DEF IsInjective
  <2>3. Min(I) = i
    <3>1. Min({i}) = i
      BY MinOfOne
    <3> QED BY <2>2, <3>1
  <2>4. RemoveFirst(s, e) = SubSeq(s, 1, i - 1) \o SubSeq(s, i + 1, Len(s))
    BY <2>1, <2>2, <2>3 DEF RemoveFirst, SelectInSeq, RemoveAt
  <2> DEFINE a == SubSeq(s, 1, i - 1)
             b == SubSeq(s, i + 1, Len(s))
             r == RemoveFirst(s, e)
  <2>5. /\ a \in Seq(T) /\ Len(a) = i - 1
        /\ \A j \in 1 .. i - 1 : a[j] = s[j]
    BY SubSeqProperties
  <2>6. /\ b \in Seq(T) /\ Len(b) = Len(s) - i
        /\ \A j \in 1 .. Len(s) - i : b[j] = s[i + j]
    BY SubSeqProperties
  <2>7. /\ r \in Seq(T) /\ Len(r) = Len(s) - 1
        /\ \A j \in 1 .. Len(s) - 1 : r[j] = IF j < i THEN s[j] ELSE s[j + 1]
    <3> HIDE DEF a, b, r
    <3>1. r = a \o b
      BY <2>4 DEF r, a, b
    <3>2. /\ a \o b \in Seq(T) /\ Len(a \o b) = Len(a) + Len(b)
          /\ \A j \in 1 .. Len(a) + Len(b) :
                (a \o b)[j] = IF j <= Len(a) THEN a[j] ELSE b[j - Len(a)]
      BY <2>5, <2>6, ConcatProperties
    <3> QED BY <3>1, <3>2, <2>5, <2>6
  <2> HIDE DEF r
  <2>8. DOMAIN s = 1 .. Len(s) /\ DOMAIN r = 1 .. Len(s) - 1 /\ Len(s) \in Nat
    BY <2>7
  <2>9. IsInjective(r)
    <3> SUFFICES ASSUME NEW g \in 1 .. Len(s) - 1, NEW h \in 1 .. Len(s) - 1,
                        r[g] = r[h]
                 PROVE  g = h
      BY <2>8 DEF IsInjective
    <3>1. \A m, n \in 1 .. Len(s) : s[m] = s[n] => m = n
      BY <2>8 DEF IsInjective
    <3>2. /\ r[g] = IF g < i THEN s[g] ELSE s[g + 1]
          /\ r[h] = IF h < i THEN s[h] ELSE s[h + 1]
      BY <2>7
    <3>3. /\ g \in 1 .. Len(s) /\ g + 1 \in 1 .. Len(s)
          /\ h \in 1 .. Len(s) /\ h + 1 \in 1 .. Len(s)
      BY <2>8
    <3>4. CASE g < i /\ h < i
      BY <3>1, <3>2, <3>3, <3>4
    <3>5. CASE g < i /\ ~(h < i)
      <4>1. s[g] = s[h + 1]
        BY <3>2, <3>5
      <4> QED BY <3>1, <3>3, <3>5, <4>1
    <3>6. CASE ~(g < i) /\ h < i
      <4>1. s[g + 1] = s[h]
        BY <3>2, <3>6
      <4> QED BY <3>1, <3>3, <3>6, <4>1
    <3>7. CASE ~(g < i) /\ ~(h < i)
      <4>1. s[g + 1] = s[h + 1]
        BY <3>2, <3>7
      <4> QED BY <3>1, <3>3, <4>1
    <3> QED BY <3>4, <3>5, <3>6, <3>7
  <2>10. \A x : Contains(r, x) <=> Contains(s, x) /\ x # e
    <3>1. ASSUME NEW x, Contains(r, x) PROVE Contains(s, x) /\ x # e
      BY <3>1, <2>1, <2>7, <2>8 DEF Contains, IsInjective
    <3>2. ASSUME NEW x, Contains(s, x), x # e PROVE Contains(r, x)
      <4>1. PICK j \in 1 .. Len(s) : s[j] = x
        BY <3>2 DEF Contains
      <4>2. CASE j < i
        BY <4>1, <4>2, <2>7, <2>8 DEF Contains
      <4>3. CASE j > i
        <5>1. j - 1 \in 1 .. Len(r) /\ r[j - 1] = x
          BY <4>1, <4>3, <2>7, <2>8
        <5> QED BY <5>1 DEF Contains
      <4> QED BY <4>1, <4>2, <4>3, <3>2, <2>1
    <3> QED BY <3>1, <3>2
  <2> QED BY <1>2, <2>7, <2>9, <2>10 DEF r
<1> QED BY <1>1, <1>2

LEMMA RemoveFromList ==
    ASSUME NEW T, NEW s \in Seq(T), NEW e, IsInjective(s)
    PROVE  /\ RemoveFirst(s, e) \in Seq(T)
           /\ IsInjective(RemoveFirst(s, e))
           /\ \A x : Contains(RemoveFirst(s, e), x) <=> Contains(s, x) /\ x # e
BY RemoveOne

LEMMA EmptyList ==
    ASSUME NEW T, NEW s \in Seq(T)
    PROVE  /\ s = <<>> <=> \A x \in T : ~Contains(s, x)
           /\ s # <<>> => Head(s) \in T /\ Contains(s, Head(s))
<1>1. s = <<>> => \A x \in T : ~Contains(s, x)
  BY DEF Contains
<1>2. s # <<>> => Len(s) \in Nat \ {0} /\ s[1] \in T /\ Head(s) = s[1]
  BY HeadTailProperties, EmptySeq
<1>3. s # <<>> => Head(s) \in T /\ Contains(s, Head(s))
  BY <1>2 DEF Contains
<1> QED BY <1>1, <1>3

\* The first of a list without repetitions is taken off.
LEMMA TailOfList ==
    ASSUME NEW T, NEW s \in Seq(T), IsInjective(s), s # <<>>
    PROVE  /\ Tail(s) \in Seq(T) /\ Len(Tail(s)) = Len(s) - 1
           /\ IsInjective(Tail(s))
           /\ Head(s) \in T /\ Contains(s, Head(s))
           /\ \A x : Contains(Tail(s), x) <=> Contains(s, x) /\ x # Head(s)
<1>1. /\ Len(s) \in Nat \ {0} /\ DOMAIN s = 1 .. Len(s) /\ Head(s) = s[1]
      /\ Tail(s) \in Seq(T) /\ Len(Tail(s)) = Len(s) - 1
      /\ \A i \in 1 .. Len(s) - 1 : Tail(s)[i] = s[i + 1]
      /\ DOMAIN Tail(s) = 1 .. Len(s) - 1
      /\ Head(s) \in T
  BY LenProperties, EmptySeq, HeadTailProperties
<1>2. IsInjective(Tail(s))
  <2> SUFFICES ASSUME NEW i \in 1 .. Len(s) - 1, NEW j \in 1 .. Len(s) - 1,
                      Tail(s)[i] = Tail(s)[j]
               PROVE  i = j
    BY <1>1 DEF IsInjective
  <2>1. i + 1 \in DOMAIN s /\ j + 1 \in DOMAIN s /\ s[i + 1] = s[j + 1]
    BY <1>1
  <2>2. i + 1 = j + 1
    BY <2>1 DEF IsInjective
  <2> QED
    BY <1>1, <2>2
<1>3. Contains(s, Head(s))
  BY <1>1 DEF Contains
<1>4. ASSUME NEW x, Contains(Tail(s), x)
      PROVE  Contains(s, x) /\ x # Head(s)
  <2>1. PICK i \in 1 .. Len(s) - 1 : Tail(s)[i] = x
    BY <1>1, <1>4 DEF Contains
  <2>2. i + 1 \in DOMAIN s /\ s[i + 1] = x /\ i + 1 # 1 /\ 1 \in DOMAIN s
    BY <1>1, <2>1
  <2> QED
    BY <1>1, <2>2 DEF Contains, IsInjective
<1>5. ASSUME NEW x, Contains(s, x), x # Head(s)
      PROVE  Contains(Tail(s), x)
  <2>1. PICK i \in 1 .. Len(s) : s[i] = x
    BY <1>1, <1>5 DEF Contains
  <2>2. i - 1 \in 1 .. Len(s) - 1 /\ (i - 1) + 1 = i
    BY <1>1, <1>5, <2>1
  <2>3. Tail(s)[i - 1] = x
    BY <1>1, <2>1, <2>2
  <2> QED
    BY <1>1, <2>2, <2>3 DEF Contains
<1> QED
  BY <1>1, <1>2, <1>3, <1>4, <1>5

\* A new one is put first.
LEMMA FirstOfList ==
    ASSUME NEW T, NEW s \in Seq(T), IsInjective(s), NEW e \in T, ~Contains(s, e)
    PROVE  /\ <<e>> \o s \in Seq(T) /\ Len(<<e>> \o s) = Len(s) + 1
           /\ IsInjective(<<e>> \o s)
           /\ \A x : Contains(<<e>> \o s, x) <=> Contains(s, x) \/ x = e
<1> DEFINE q == <<e>> \o s
<1>1. /\ <<e>> \in Seq(T) /\ Len(<<e>>) = 1 /\ <<e>>[1] = e
  OBVIOUS
<1>2. /\ q \in Seq(T) /\ Len(q) = Len(s) + 1
      /\ \A i \in 1 .. Len(q) : q[i] = IF i <= 1 THEN <<e>>[i] ELSE s[i - 1]
      /\ Len(s) \in Nat /\ DOMAIN s = 1 .. Len(s) /\ DOMAIN q = 1 .. Len(s) + 1
  BY <1>1, ConcatProperties, LenProperties
<1> HIDE DEF q
<1>3. /\ q[1] = e
      /\ \A i \in DOMAIN q : i # 1 => i - 1 \in DOMAIN s /\ q[i] = s[i - 1]
      /\ \A i \in DOMAIN s : i + 1 \in DOMAIN q /\ q[i + 1] = s[i] /\ i + 1 # 1
  BY <1>1, <1>2
<1>4. \A i \in DOMAIN s : s[i] # e
  BY <1>2 DEF Contains
<1>5. IsInjective(q)
  <2> SUFFICES ASSUME NEW i \in DOMAIN q, NEW j \in DOMAIN q, q[i] = q[j], i # j
               PROVE  FALSE
    BY DEF IsInjective
  <2>1. i # 1 /\ j # 1
    BY <1>3, <1>4
  <2>2. i - 1 \in DOMAIN s /\ j - 1 \in DOMAIN s /\ s[i - 1] = s[j - 1]
    BY <1>3, <2>1
  <2>3. i - 1 = j - 1
    BY <2>2 DEF IsInjective
  <2> QED
    BY <1>2, <2>3
<1>6. \A x : Contains(q, x) <=> Contains(s, x) \/ x = e
  <2> TAKE x
  <2>1. Contains(q, x) <=> \E i \in DOMAIN q : q[i] = x
    BY <1>2 DEF Contains
  <2>2. Contains(s, x) <=> \E i \in DOMAIN s : s[i] = x
    BY <1>2 DEF Contains
  <2>3. 1 \in DOMAIN q
    BY <1>2
  <2> QED
    BY <1>3, <2>1, <2>2, <2>3
<1> QED
  BY <1>2, <1>5, <1>6 DEF q

-----------------------------------------------------------------------------
(* A thread between two lists: linked in none, the others consistent. *)
Detached(k, t) ==
    /\ LinkedOnce(k)
    /\ \A h \in ListHead : ~Contains(k.list[h], t)
    /\ \A p \in Priority, u \in Thread \ {t} :
          Contains(k.list[p], u) <=> k.stat[u] = "ready" /\ k.prio[u] = p
    /\ \A q \in WaitQueue, u \in Thread :
          Contains(k.list[q], u) => k.stat[u] = "suspend"
    /\ \A u \in Thread \ {t} : k.tmr[u] => k.stat[u] = "suspend"
    /\ BitmapExact(k)

(* r differs from k in its lists and its bitmap only. *)
SameThreads(r, k) ==
    /\ r.cur = k.cur /\ r.lock = k.lock
    /\ r.stat = k.stat /\ r.prio = k.prio /\ r.err = k.err /\ r.tmr = k.tmr

(* No object's suspend list changes. *)
SameQueues(r, k) == \A q \in WaitQueue : r.list[q] = k.list[q]

LEMMA ListRemove ==
    ASSUME NEW k \in KernelState, NEW t \in Thread, LinkedOnce(k)
    PROVE  LET r == rt_list_remove(k, t) IN
           /\ r \in KernelState
           /\ SameThreads(r, k)
           /\ r.table = k.table /\ r.group = k.group
           /\ LinkedOnce(r)
           /\ \A h \in ListHead : \A u :
                 Contains(r.list[h], u) <=> Contains(k.list[h], u) /\ u # t
           /\ \A h \in ListHead : r.list[h] = RemoveFirst(k.list[h], t)
<1> DEFINE r == rt_list_remove(k, t)
<1>1. \A h \in ListHead :
        /\ RemoveFirst(k.list[h], t) \in Seq(Thread)
        /\ IsInjective(RemoveFirst(k.list[h], t))
        /\ \A u : Contains(RemoveFirst(k.list[h], t), u)
                     <=> Contains(k.list[h], u) /\ u # t
  <2> SUFFICES ASSUME NEW h \in ListHead
               PROVE  /\ RemoveFirst(k.list[h], t) \in Seq(Thread)
                      /\ IsInjective(RemoveFirst(k.list[h], t))
                      /\ \A u : Contains(RemoveFirst(k.list[h], t), u)
                                   <=> Contains(k.list[h], u) /\ u # t
    OBVIOUS
  <2>1. k.list[h] \in Seq(Thread) /\ IsInjective(k.list[h])
    BY DEF KernelState, LinkedOnce
  <2> QED BY <2>1, RemoveFromList
<1>2. /\ r.list = [h \in ListHead |-> RemoveFirst(k.list[h], t)]
      /\ SameThreads(r, k)
      /\ r.table = k.table /\ r.group = k.group
  BY DEF rt_list_remove, KernelState, SameThreads
<1>3. r \in KernelState
  BY <1>1 DEF rt_list_remove, KernelState
<1> HIDE DEF r
<1>4. \A h \in ListHead : \A u :
         Contains(r.list[h], u) <=> Contains(k.list[h], u) /\ u # t
  BY <1>1, <1>2
<1>5. LinkedOnce(r)
  <2>1. \A h \in ListHead : IsInjective(r.list[h])
    BY <1>1, <1>2
  <2> QED BY <2>1, <1>4 DEF LinkedOnce
<1> QED BY <1>2, <1>3, <1>4, <1>5 DEF r

(* Nothing is removed where the thread is not. *)
LEMMA RemoveNothing ==
    ASSUME NEW s, NEW e, ~Contains(s, e)
    PROVE  RemoveFirst(s, e) = s
BY DEF RemoveFirst, Contains

(* Taking a suspended thread off the list it waits in, if any. *)
LEMMA UnlinkSuspended ==
    ASSUME NEW k \in KernelState, NEW t \in Thread, KernelOK(k),
           k.stat[t] = "suspend"
    PROVE  LET r == rt_list_remove(k, t) IN
           /\ r \in KernelState /\ SameThreads(r, k) /\ Detached(r, t)
           /\ \A q \in WaitQueue : r.list[q] = RemoveFirst(k.list[q], t)
<1> DEFINE r == rt_list_remove(k, t)
<1>1. /\ r \in KernelState
      /\ SameThreads(r, k)
      /\ r.table = k.table /\ r.group = k.group
      /\ \A h \in ListHead : r.list[h] = RemoveFirst(k.list[h], t)
      /\ LinkedOnce(r)
      /\ \A h \in ListHead : \A u :
            Contains(r.list[h], u) <=> Contains(k.list[h], u) /\ u # t
  BY ListRemove DEF KernelOK
<1> HIDE DEF r
<1>2. \A p \in Priority : r.list[p] = <<>> <=> k.list[p] = <<>>
  <2> SUFFICES ASSUME NEW p \in Priority
               PROVE  r.list[p] = <<>> <=> k.list[p] = <<>>
    OBVIOUS
  <2>1. p \in ListHead /\ r.list[p] \in Seq(Thread) /\ k.list[p] \in Seq(Thread)
    BY <1>1 DEF ListHead, KernelState
  <2>2. ~Contains(k.list[p], t)
    BY DEF KernelOK, ReadyListed
  <2>3. \A u \in Thread : Contains(r.list[p], u) <=> Contains(k.list[p], u)
    BY <1>1, <2>1, <2>2
  <2> QED BY <2>1, <2>3, EmptyList
<1>3. BitmapExact(r)
  BY <1>1, <1>2 DEF KernelOK, BitmapExact
<1>4. Priority \subseteq ListHead /\ WaitQueue \subseteq ListHead
  BY DEF ListHead
<1>5. /\ \A p \in Priority, u \in Thread \ {t} :
            Contains(r.list[p], u) <=> r.stat[u] = "ready" /\ r.prio[u] = p
      /\ \A q \in WaitQueue, u \in Thread :
            Contains(r.list[q], u) => r.stat[u] = "suspend"
      /\ \A u \in Thread \ {t} : r.tmr[u] => r.stat[u] = "suspend"
  <2>1. /\ \A h \in ListHead : \A u :
             Contains(r.list[h], u) <=> Contains(k.list[h], u) /\ u # t
        /\ r.stat = k.stat /\ r.prio = k.prio /\ r.tmr = k.tmr
    BY <1>1 DEF SameThreads
  <2> QED BY <1>4, <2>1 DEF KernelOK, ReadyListed, WaitersSuspended
<1> QED BY <1>1, <1>3, <1>4, <1>5 DEF Detached, r

(* rt_schedule_remove_thread, for a thread that waits on no object: the    *)
(* bitmap follows the ready lists.                                         *)
LEMMA RemoveThread ==
    ASSUME NEW k \in KernelState, NEW t \in Thread, KernelOK(k),
           k.stat[t] # "suspend"
    PROVE  LET r == rt_schedule_remove_thread(k, t) IN
           /\ r \in KernelState /\ SameThreads(r, k) /\ Detached(r, t)
           /\ SameQueues(r, k)
<1> DEFINE p  == k.prio[t]
           k1 == rt_list_remove(k, t)
           r  == rt_schedule_remove_thread(k, t)
<1>1. /\ k1 \in KernelState
      /\ SameThreads(k1, k)
      /\ \A h \in ListHead : k1.list[h] = RemoveFirst(k.list[h], t)
      /\ k1.table = k.table /\ k1.group = k.group
      /\ LinkedOnce(k1)
      /\ \A h \in ListHead : \A u :
            Contains(k1.list[h], u) <=> Contains(k.list[h], u) /\ u # t
  BY ListRemove DEF KernelOK
<1>2. p \in Priority
  BY DEF KernelState
<1>3. Priority \subseteq ListHead /\ WaitQueue \subseteq ListHead
  BY DEF ListHead
<1>4. r = IF k1.list[p] # <<>>
          THEN k1
          ELSE [k1 EXCEPT
                  !.table = k.table \ {p},
                  !.group = IF \E q \in k.table \ {p} :
                                 q \div GroupSize = p \div GroupSize
                            THEN @
                            ELSE @ \ {p \div GroupSize}]
  BY DEF rt_schedule_remove_thread
<1> HIDE DEF k1, r
<1>5. /\ r \in KernelState /\ SameThreads(r, k) /\ r.list = k1.list
      /\ r.table = IF k1.list[p] # <<>> THEN k.table ELSE k.table \ {p}
      /\ r.group = IF k1.list[p] # <<>> THEN k.group
                   ELSE IF \E q \in k.table \ {p} :
                                 q \div GroupSize = p \div GroupSize
                        THEN k.group
                        ELSE k.group \ {p \div GroupSize}
  BY <1>1, <1>4 DEF KernelState, SameThreads
<1>6. \A q \in Priority \ {p} : k1.list[q] = <<>> <=> k.list[q] = <<>>
  <2> SUFFICES ASSUME NEW q \in Priority \ {p}
               PROVE  k1.list[q] = <<>> <=> k.list[q] = <<>>
    OBVIOUS
  <2>1. q \in ListHead /\ k1.list[q] \in Seq(Thread) /\ k.list[q] \in Seq(Thread)
    BY <1>1 DEF ListHead, KernelState
  <2>2. ~Contains(k.list[q], t)
    BY DEF KernelOK, ReadyListed
  <2>3. \A u \in Thread : Contains(k1.list[q], u) <=> Contains(k.list[q], u)
    BY <1>1, <2>1, <2>2
  <2> QED BY <2>1, <2>3, EmptyList
<1>7. k1.list[p] # <<>> => k.list[p] # <<>>
  <2>1. p \in ListHead /\ k1.list[p] \in Seq(Thread) /\ k.list[p] \in Seq(Thread)
    BY <1>1, <1>2 DEF ListHead, KernelState
  <2>2. \A u \in Thread : Contains(k1.list[p], u) => Contains(k.list[p], u)
    BY <1>1, <2>1
  <2> QED BY <2>1, <2>2, EmptyList
<1>8. r.table = { q \in Priority : r.list[q] # <<>> }
  BY <1>2, <1>5, <1>6, <1>7 DEF KernelOK, BitmapExact
<1>9. r.group = { q \div GroupSize : q \in r.table }
  BY <1>2, <1>5 DEF KernelOK, BitmapExact
<1>10. /\ \A h \in ListHead : ~Contains(r.list[h], t)
       /\ \A q \in Priority, u \in Thread \ {t} :
            Contains(r.list[q], u) <=> r.stat[u] = "ready" /\ r.prio[u] = q
       /\ \A q \in WaitQueue, u \in Thread :
            Contains(r.list[q], u) => r.stat[u] = "suspend"
       /\ \A u \in Thread \ {t} : r.tmr[u] => r.stat[u] = "suspend"
  <2>1. /\ \A h \in ListHead : \A u :
             Contains(r.list[h], u) <=> Contains(k.list[h], u) /\ u # t
        /\ r.stat = k.stat /\ r.prio = k.prio /\ r.tmr = k.tmr
    BY <1>1, <1>5 DEF SameThreads
  <2> QED BY <1>3, <2>1 DEF KernelOK, ReadyListed, WaitersSuspended
<1>11. LinkedOnce(r)
  BY <1>1, <1>5 DEF LinkedOnce
<1>12. SameQueues(r, k)
  <2>1. \A q \in WaitQueue : ~Contains(k.list[q], t)
    BY DEF KernelOK, WaitersSuspended
  <2> QED BY <1>1, <1>3, <1>5, <2>1, RemoveNothing DEF SameQueues
<1> QED BY <1>5, <1>8, <1>9, <1>10, <1>11, <1>12 DEF Detached, BitmapExact, r

(* Changing the state of a thread linked nowhere, other than to ready. *)
LEMMA MarkStat ==
    ASSUME NEW k \in KernelState, NEW t \in Thread, Detached(k, t), ~k.tmr[t],
           NEW s \in Stat \ {"ready"}
    PROVE  LET r == [k EXCEPT !.stat[t] = s] IN
           /\ r \in KernelState /\ KernelOK(r) /\ SameQueues(r, k)
           /\ r.cur = k.cur /\ r.lock = k.lock /\ r.list = k.list
           /\ r.table = k.table /\ r.group = k.group
           /\ r.prio = k.prio /\ r.err = k.err /\ r.tmr = k.tmr
           /\ r.stat = [k.stat EXCEPT ![t] = s]
<1> DEFINE r == [k EXCEPT !.stat[t] = s]
<1>1. Priority \subseteq ListHead /\ WaitQueue \subseteq ListHead
  BY DEF ListHead
<1>2. /\ r \in KernelState
      /\ r.cur = k.cur /\ r.lock = k.lock /\ r.list = k.list
      /\ r.table = k.table /\ r.group = k.group
      /\ r.prio = k.prio /\ r.err = k.err /\ r.tmr = k.tmr
      /\ r.stat = [k.stat EXCEPT ![t] = s]
  <2>1. [k.stat EXCEPT ![t] = s] \in [Thread -> Stat]
    BY DEF KernelState
  <2> QED BY <2>1 DEF KernelState
<1> HIDE DEF r
<1>3. \A u \in Thread \ {t} : r.stat[u] = k.stat[u]
  BY <1>2
<1>4. r.stat[t] = s
  BY <1>2 DEF KernelState
<1>5. LinkedOnce(r) /\ BitmapExact(r)
  BY <1>2 DEF Detached, LinkedOnce, BitmapExact
<1>6. ReadyListed(r)
  BY <1>1, <1>2, <1>3, <1>4 DEF ReadyListed, Detached
<1>7. WaitersSuspended(r)
  BY <1>1, <1>2, <1>3, <1>4 DEF WaitersSuspended, Detached
<1> QED BY <1>2, <1>5, <1>6, <1>7 DEF KernelOK, SameQueues, r

(* A thread that neither is ready nor waits is linked nowhere. *)
LEMMA NotLinked ==
    ASSUME NEW k, NEW t \in Thread, KernelOK(k),
           k.stat[t] \notin {"ready", "suspend"}
    PROVE  Detached(k, t) /\ ~k.tmr[t]
BY DEF KernelOK, ReadyListed, WaitersSuspended, Detached, ListHead

(* rt_schedule_insert_thread, for a thread linked nowhere. *)
LEMMA InsertThread ==
    ASSUME NEW k \in KernelState, NEW t \in Thread, Detached(k, t), ~k.tmr[t]
    PROVE  LET r == rt_schedule_insert_thread(k, t) IN
           /\ r \in KernelState /\ KernelOK(r) /\ SameQueues(r, k)
           /\ r.cur = k.cur /\ r.lock = k.lock
           /\ r.prio = k.prio /\ r.err = k.err /\ r.tmr = k.tmr
           /\ r.stat = [k.stat EXCEPT ![t] =
                            IF t = k.cur THEN "running" ELSE "ready"]
           /\ t # k.cur => k.prio[t] \in r.table
           /\ k.table \subseteq r.table
<1> DEFINE p == k.prio[t]
           r == rt_schedule_insert_thread(k, t)
<1>1. p \in Priority /\ p \in ListHead /\ k.list[p] \in Seq(Thread)
  BY DEF KernelState, ListHead
<1>2. Priority \subseteq ListHead /\ WaitQueue \subseteq ListHead
  BY DEF ListHead
<1>3. CASE t = k.cur
  <2>1. r = [k EXCEPT !.stat[t] = "running"]
    BY <1>3 DEF rt_schedule_insert_thread
  <2>2. "running" \in Stat \ {"ready"}
    BY DEF Stat
  <2>3. /\ r \in KernelState /\ KernelOK(r) /\ SameQueues(r, k)
        /\ r.cur = k.cur /\ r.lock = k.lock /\ r.table = k.table
        /\ r.prio = k.prio /\ r.err = k.err /\ r.tmr = k.tmr
        /\ r.stat = [k.stat EXCEPT ![t] = "running"]
    BY <2>1, <2>2, MarkStat
  <2> QED BY <1>3, <2>3
<1>4. CASE t # k.cur
  <2>1. r = [k EXCEPT !.stat[t]  = "ready",
                      !.list[p]  = Append(@, t),
                      !.table    = @ \cup {p},
                      !.group    = @ \cup {p \div GroupSize}]
    BY <1>4 DEF rt_schedule_insert_thread
  <2>2. IsInjective(k.list[p]) /\ ~Contains(k.list[p], t)
    BY <1>1 DEF Detached, LinkedOnce
  <2>3. /\ Append(k.list[p], t) \in Seq(Thread)
        /\ IsInjective(Append(k.list[p], t))
        /\ Append(k.list[p], t) # <<>>
        /\ \A x : Contains(Append(k.list[p], t), x) <=> Contains(k.list[p], x) \/ x = t
    BY <1>1, <2>2, AppendToList
  <2>4. /\ r.cur = k.cur /\ r.lock = k.lock
        /\ r.list = [k.list EXCEPT ![p] = Append(@, t)]
        /\ r.table = k.table \cup {p}
        /\ r.group = k.group \cup {p \div GroupSize}
        /\ r.prio = k.prio /\ r.err = k.err /\ r.tmr = k.tmr
        /\ r.stat = [k.stat EXCEPT ![t] = "ready"]
    BY <2>1 DEF KernelState
  <2>5. p \div GroupSize \in Group
    BY <1>1 DEF Group
  <2>6. /\ r.list[p] = Append(k.list[p], t)
        /\ \A h \in ListHead \ {p} : r.list[h] = k.list[h]
        /\ \A u \in Thread \ {t} : r.stat[u] = k.stat[u]
        /\ r.stat[t] = "ready"
    BY <1>1, <2>4 DEF KernelState
  <2>7. r \in KernelState
    <3>1. [k.list EXCEPT ![p] = Append(@, t)] \in [ListHead -> Seq(Thread)]
      BY <1>1, <2>3 DEF KernelState
    <3>2. k.group \cup {p \div GroupSize} \in SUBSET Group
      BY <2>5 DEF KernelState
    <3>3. [k.stat EXCEPT ![t] = "ready"] \in [Thread -> Stat]
      BY DEF KernelState, Stat
    <3>4. k.table \cup {p} \in SUBSET Priority
      BY <1>1 DEF KernelState
    <3> QED BY <2>1, <3>1, <3>2, <3>3, <3>4 DEF KernelState
  <2> HIDE DEF r
  <2>8. LinkedOnce(r)
    <3>1. \A h \in ListHead : IsInjective(r.list[h])
      BY <2>3, <2>6 DEF Detached, LinkedOnce
    <3>2. \A h \in ListHead, u \in Thread :
             Contains(r.list[h], u) <=> Contains(k.list[h], u) \/ (h = p /\ u = t)
      BY <2>3, <2>6
    <3>3. \A g, h \in ListHead, u \in Thread :
             Contains(r.list[g], u) /\ Contains(r.list[h], u) => g = h
      BY <3>2 DEF Detached, LinkedOnce
    <3> QED BY <3>1, <3>3 DEF LinkedOnce
  <2>9. BitmapExact(r)
    <3>1. k.table = { q \in Priority : k.list[q] # <<>> }
      BY DEF Detached, BitmapExact
    <3>2. r.table = { q \in Priority : r.list[q] # <<>> }
      BY <1>1, <1>2, <2>3, <2>4, <2>6, <3>1
    <3>3. r.group = { q \div GroupSize : q \in r.table }
      BY <2>4 DEF Detached, BitmapExact
    <3> QED BY <3>2, <3>3 DEF BitmapExact
  <2>10. ReadyListed(r)
    <3> SUFFICES ASSUME NEW q \in Priority, NEW u \in Thread
                 PROVE  Contains(r.list[q], u) <=> r.stat[u] = "ready" /\ r.prio[u] = q
      BY DEF ReadyListed
    <3>1. CASE u = t
      BY <1>2, <2>3, <2>4, <2>6, <3>1 DEF Detached
    <3>2. CASE u # t
      BY <1>2, <2>3, <2>4, <2>6, <3>2 DEF Detached
    <3> QED BY <3>1, <3>2
  <2>11. WaitersSuspended(r) /\ SameQueues(r, k)
    <3>1. \A q \in WaitQueue : r.list[q] = k.list[q]
      BY <1>1, <1>2, <2>6, QueuesAreNotPriorities
    <3>2. \A q \in WaitQueue : ~Contains(k.list[q], t)
      BY <1>2 DEF Detached
    <3> QED BY <2>4, <2>6, <3>1, <3>2 DEF WaitersSuspended, Detached, SameQueues
  <2> QED BY <1>4, <2>4, <2>7, <2>8, <2>9, <2>10, <2>11 DEF KernelOK, r
<1> QED BY <1>3, <1>4

-----------------------------------------------------------------------------
(* The two-level lookup of the bitmap. *)
LEMMA DivBounds ==
    ASSUME NEW a \in Nat, NEW g \in Nat \ {0}
    PROVE  a \div g \in Nat /\ g * (a \div g) <= a /\ a < g * (a \div g) + g
OBVIOUS

LEMMA TimesMonotone ==
    ASSUME NEW x \in Nat, NEW y \in Nat, NEW g \in Nat, x <= y
    PROVE  g * x <= g * y
OBVIOUS

LEMMA DivMonotone ==
    ASSUME NEW a \in Nat, NEW b \in Nat, NEW g \in Nat \ {0}, a <= b
    PROVE  a \div g <= b \div g
<1> DEFINE x == a \div g
           y == b \div g
<1>1. x \in Nat /\ y \in Nat /\ g * x <= a /\ b < g * y + g
  BY DivBounds
<1> HIDE DEF x, y
<1>2. SUFFICES ASSUME x > y PROVE FALSE
  BY <1>1 DEF x, y
<1>3. g * (y + 1) <= g * x
  BY <1>1, <1>2, TimesMonotone
<1>4. g * (y + 1) = g * y + g /\ g * x \in Nat /\ g * y \in Nat
  BY <1>1
<1> QED BY <1>1, <1>3, <1>4

(* _get_highest_priority_thread finds the least priority whose bit is set: *)
(* the first bit of the first byte that is not zero.                       *)
LEMMA HighestReadyIsLeast ==
    ASSUME NEW k \in KernelState, BitmapExact(k), k.group # {}
    PROVE  /\ HighestReady(k) \in k.table
           /\ \A p \in k.table : HighestReady(k) <= p
<1> USE KernelAssumption
<1>1. k.table \subseteq Nat
  BY DEF KernelState, Priority
<1>2. \A p \in k.table : p \div GroupSize \in Nat /\ p \div GroupSize \in k.group
  BY <1>1, DivBounds DEF BitmapExact
<1>3. k.group \subseteq Nat
  BY <1>2 DEF BitmapExact
<1> DEFINE g == Min(k.group)
           P == { p \in k.table : p \div GroupSize = g }
<1>4. g \in k.group /\ \A x \in k.group : g <= x
  BY <1>3, MinOfNats
<1>5. P # {} /\ P \subseteq Nat
  BY <1>1, <1>4 DEF BitmapExact
<1>6. Min(P) \in P /\ \A p \in P : Min(P) <= p
  BY <1>5, MinOfNats
<1>7. HighestReady(k) = Min(P)
  BY DEF HighestReady
<1> HIDE DEF P
<1> DEFINE h == Min(P)
<1> HIDE DEF h
<1>8. h \in k.table /\ h \div GroupSize = g /\ \A p \in P : h <= p
  BY <1>6 DEF P, h
<1> HIDE DEF g
<1>9. ASSUME NEW p \in k.table PROVE h <= p
  <2>1. p \in Nat /\ h \in Nat /\ p \div GroupSize \in Nat /\ g \in Nat
    BY <1>1, <1>2, <1>3, <1>4, <1>8
  <2>2. CASE p \div GroupSize = g
    BY <1>8, <2>2 DEF P
  <2>3. CASE p \div GroupSize # g
    <3>1. g < p \div GroupSize
      BY <1>2, <1>4, <2>1, <2>3
    <3>2. p <= h => p \div GroupSize <= h \div GroupSize
      BY <2>1, DivMonotone
    <3> QED BY <1>8, <2>1, <3>1, <3>2
  <2> QED BY <2>2, <2>3
<1> QED BY <1>7, <1>8, <1>9 DEF h

Runnable == {"ready", "running"}

(* rt_schedule keeps the lists and the bitmap consistent, and unless the   *)
(* scheduler is locked it leaves the CPU to a thread that no ready thread  *)
(* is more urgent than.                                                    *)
LEMMA ScheduleThread ==
    ASSUME NEW k \in KernelState, KernelOK(k), CurrentOK(k)
    PROVE  LET r == rt_schedule(k) IN
           /\ r \in KernelState /\ KernelOK(r) /\ CurrentOK(r) /\ SameQueues(r, k)
           /\ r.lock = k.lock /\ r.prio = k.prio /\ r.err = k.err /\ r.tmr = k.tmr
           /\ \A u \in Thread :
                 /\ k.stat[u] \notin Runnable => r.stat[u] = k.stat[u]
                 /\ k.stat[u] \in Runnable => r.stat[u] \in Runnable
           /\ r.cur = k.cur \/ k.stat[r.cur] = "ready"
           /\ k.stat[k.cur] = "running" => r.stat[r.cur] = "running"
           /\ k.lock # 0 => r = k
           /\ k.lock = 0 /\ k.table # {} =>
                 r.stat[r.cur] = "running" /\ CurrentIsHighest(r)
<1> DEFINE r == rt_schedule(k)
<1>0. k.table = {} <=> k.group = {}
  BY DEF KernelOK, BitmapExact
<1>1. CASE k.lock # 0 \/ k.group = {}
  <2>1. r = k
    BY <1>1 DEF rt_schedule
  <2> QED BY <1>0, <1>1, <2>1 DEF Runnable, SameQueues
<1>2. CASE k.lock = 0 /\ k.group # {}
  <2> DEFINE high    == HighestReady(k)
             from    == k.cur
             running == k.stat[from] = "running"
             to      == IF running /\ k.prio[from] < high
                        THEN from
                        ELSE Head(k.list[high])
             k1      == [k EXCEPT !.cur = to]
             k2      == IF running /\ to # from
                        THEN rt_schedule_insert_thread(k1, from)
                        ELSE k1
             k3      == rt_schedule_remove_thread(k2, to)
  <2>1. r = [k3 EXCEPT !.stat[to] = "running"]
    BY <1>2 DEF rt_schedule
  <2>2. high \in k.table /\ \A p \in k.table : high <= p
    BY <1>2, HighestReadyIsLeast DEF KernelOK
  <2> HIDE DEF high
  <2>3. high \in Priority /\ k.list[high] # <<>>
    BY <2>2 DEF KernelOK, BitmapExact
  <2>4. Head(k.list[high]) \in Thread /\ Contains(k.list[high], Head(k.list[high]))
    BY <2>3, EmptyList DEF KernelState, ListHead
  <2>5. k.stat[Head(k.list[high])] = "ready" /\ k.prio[Head(k.list[high])] = high
    BY <2>3, <2>4 DEF KernelOK, ReadyListed
  <2>6. \A u \in Thread : k.stat[u] = "ready" => k.prio[u] \in k.table
    <3> SUFFICES ASSUME NEW u \in Thread, k.stat[u] = "ready"
                 PROVE  k.prio[u] \in k.table
      OBVIOUS
    <3>1. k.prio[u] \in Priority /\ k.list[k.prio[u]] \in Seq(Thread)
      BY DEF KernelState, ListHead
    <3>2. Contains(k.list[k.prio[u]], u)
      BY <3>1 DEF KernelOK, ReadyListed
    <3> QED BY <3>1, <3>2, EmptyList DEF KernelOK, BitmapExact
  <2>7. from \in Thread /\ to \in Thread /\ k.prio \in [Thread -> Priority]
    BY <2>4 DEF KernelState
  <2>8. /\ to = from => running /\ k.prio[from] < high
        /\ to # from => k.stat[to] = "ready" /\ k.prio[to] = high
                         /\ (running => high <= k.prio[from])
    <3>1. high \in Int /\ k.prio[from] \in Int
      BY <2>3, <2>7 DEF Priority
    <3>2. CASE running /\ k.prio[from] < high
      BY <3>2
    <3>3. CASE ~(running /\ k.prio[from] < high)
      <4>1. to = Head(k.list[high])
        BY <3>3
      <4>2. to # from
        BY <2>5, <4>1 DEF CurrentOK
      <4> QED BY <2>5, <3>1, <3>3, <4>1, <4>2
    <3> QED BY <3>2, <3>3
  <2> HIDE DEF to
  <2>9. /\ k1 \in KernelState
        /\ k1.cur = to /\ k1.lock = k.lock /\ k1.list = k.list
        /\ k1.table = k.table /\ k1.group = k.group /\ k1.stat = k.stat
        /\ k1.prio = k.prio /\ k1.err = k.err /\ k1.tmr = k.tmr
    BY <2>7 DEF KernelState
  <2> HIDE DEF k1
  <2>10. KernelOK(k1)
    BY <2>9 DEF KernelOK, LinkedOnce, ReadyListed, BitmapExact, WaitersSuspended
  <2>11. /\ k2 \in KernelState /\ KernelOK(k2) /\ SameQueues(k2, k)
         /\ k2.cur = to /\ k2.lock = k.lock
         /\ k2.prio = k.prio /\ k2.err = k.err /\ k2.tmr = k.tmr
         /\ k2.stat = IF running /\ to # from
                      THEN [k.stat EXCEPT ![from] = "ready"]
                      ELSE k.stat
    <3>1. CASE running /\ to # from
      <4>1. k2 = rt_schedule_insert_thread(k1, from)
        BY <3>1
      <4>2. Detached(k1, from) /\ ~k1.tmr[from]
        BY <2>7, <2>9, <2>10, <3>1, NotLinked
      <4> QED BY <2>7, <2>9, <3>1, <4>1, <4>2, InsertThread DEF SameQueues
    <3>2. CASE ~(running /\ to # from)
      BY <2>9, <2>10, <3>2 DEF SameQueues
    <3> QED BY <3>1, <3>2
  <2> HIDE DEF k2
  <2>12. k2.stat[to] \in Runnable
    BY <2>7, <2>8, <2>11 DEF Runnable, KernelState
  <2>13. /\ k3 \in KernelState /\ SameThreads(k3, k2) /\ Detached(k3, to)
         /\ SameQueues(k3, k2)
    BY <2>7, <2>11, <2>12, RemoveThread DEF Runnable
  <2> HIDE DEF k3
  <2>14. ~k3.tmr[to]
    BY <2>7, <2>11, <2>12, <2>13 DEF KernelOK, WaitersSuspended, SameThreads, Runnable
  <2> HIDE DEF r
  <2>15. /\ r \in KernelState /\ KernelOK(r) /\ SameQueues(r, k)
         /\ r.cur = to /\ r.lock = k.lock
         /\ r.prio = k.prio /\ r.err = k.err /\ r.tmr = k.tmr
         /\ r.stat = [k2.stat EXCEPT ![to] = "running"]
    BY <2>1, <2>7, <2>11, <2>13, <2>14, MarkStat DEF SameThreads, SameQueues, Stat
  <2>16. /\ r.stat[to] = "running"
         /\ \A u \in Thread \ {to} :
               r.stat[u] = IF running /\ u = from THEN "ready" ELSE k.stat[u]
    BY <2>7, <2>11, <2>15 DEF KernelState
  <2>17. CurrentOK(r)
    BY <2>7, <2>15, <2>16 DEF CurrentOK
  <2>18. \A u \in Thread :
           /\ k.stat[u] \notin Runnable => r.stat[u] = k.stat[u]
           /\ k.stat[u] \in Runnable => r.stat[u] \in Runnable
    BY <2>7, <2>8, <2>16 DEF Runnable
  <2>19. CurrentIsHighest(r)
    <3> SUFFICES ASSUME NEW u \in Thread, r.stat[u] = "ready"
                 PROVE  k.prio[to] <= k.prio[u]
      BY <2>15 DEF CurrentIsHighest
    <3>1. u # to /\ high \in Int /\ k.prio[u] \in Int /\ k.prio[to] \in Int
      BY <2>3, <2>7, <2>16 DEF Priority
    <3>2. k.prio[to] <= high
      BY <2>8, <3>1
    <3>3. CASE k.stat[u] = "ready"
      BY <2>2, <2>6, <3>1, <3>2, <3>3
    <3>4. CASE k.stat[u] # "ready"
      BY <2>8, <2>16, <3>1, <3>2, <3>4
    <3> QED BY <3>3, <3>4
  <2> QED BY <1>2, <2>8, <2>15, <2>16, <2>17, <2>18, <2>19 DEF r
<1> QED BY <1>1, <1>2, <1>0 DEF KernelState

-----------------------------------------------------------------------------
(* The calls of src/thread.c. *)

(* Bookkeeping that touches no list keeps the lists consistent. *)
LEMMA SameLists ==
    ASSUME NEW k, NEW r, KernelOK(k),
           r.list = k.list, r.table = k.table, r.group = k.group,
           r.stat = k.stat, r.prio = k.prio,
           \A t \in Thread : r.tmr[t] => r.stat[t] = "suspend"
    PROVE  KernelOK(r) /\ SameQueues(r, k) /\ (r.cur = k.cur /\ CurrentOK(k) => CurrentOK(r))
BY DEF KernelOK, LinkedOnce, ReadyListed, BitmapExact, WaitersSuspended,
       SameQueues, CurrentOK

LEMMA SuspendThread ==
    ASSUME NEW k \in KernelState, NEW t \in Thread, KernelOK(k), CurrentOK(k),
           k.stat[t] \in Runnable
    PROVE  LET r == rt_thread_suspend(k, t) IN
           /\ r \in KernelState /\ KernelOK(r) /\ CurrentOK(r) /\ SameQueues(r, k)
           /\ r.cur = k.cur /\ r.lock = k.lock /\ r.prio = k.prio /\ r.err = k.err
           /\ r.stat = [k.stat EXCEPT ![t] = "suspend"]
           /\ r.tmr = k.tmr
           /\ \A h \in ListHead : ~Contains(r.list[h], t)
<1> DEFINE k1 == rt_schedule_remove_thread(k, t)
           r  == [k1 EXCEPT !.stat[t] = "suspend"]
<1>1. /\ k1 \in KernelState /\ SameThreads(k1, k) /\ Detached(k1, t)
      /\ SameQueues(k1, k)
  BY RemoveThread DEF Runnable
<1>2. ~k.tmr[t]
  BY DEF KernelOK, WaitersSuspended, Runnable
<1>3. rt_thread_suspend(k, t) = [k1 EXCEPT !.stat[t] = "suspend", !.tmr[t] = FALSE]
  BY DEF rt_thread_suspend, CanSuspend, Suspend, Runnable
<1> HIDE DEF k1
<1>4. ~k1.tmr[t] /\ k1.tmr = k.tmr
  BY <1>1, <1>2 DEF SameThreads
<1>5. [k1 EXCEPT !.stat[t] = "suspend", !.tmr[t] = FALSE] = r
  <2>1. [k1.tmr EXCEPT ![t] = FALSE] = k1.tmr
    BY <1>1, <1>4 DEF KernelState
  <2> QED BY <1>1, <2>1 DEF KernelState
<1>6. "suspend" \in Stat \ {"ready"}
  BY DEF Stat
<1>7. /\ r \in KernelState /\ KernelOK(r) /\ SameQueues(r, k1)
      /\ r.cur = k1.cur /\ r.lock = k1.lock /\ r.list = k1.list
      /\ r.prio = k1.prio /\ r.err = k1.err /\ r.tmr = k1.tmr
      /\ r.stat = [k1.stat EXCEPT ![t] = "suspend"]
  BY <1>1, <1>4, <1>6, MarkStat
<1> HIDE DEF r
<1>8. CurrentOK(r)
  BY <1>1, <1>7 DEF CurrentOK, SameThreads, KernelState
<1>9. \A h \in ListHead : ~Contains(r.list[h], t)
  BY <1>1, <1>7 DEF Detached
<1> QED BY <1>1, <1>3, <1>4, <1>5, <1>7, <1>8, <1>9 DEF SameThreads, SameQueues

(* The first half of rt_thread_resume leaves the thread linked nowhere. *)
LEMMA UnlinkForResume ==
    ASSUME NEW k \in KernelState, NEW t \in Thread, KernelOK(k),
           k.stat[t] = "suspend"
    PROVE  LET r == ResumeUnlink(k, t) IN
           /\ r \in KernelState /\ KernelOK(r) /\ Detached(r, t)
           /\ r.cur = k.cur /\ r.lock = k.lock /\ r.stat = k.stat
           /\ r.prio = k.prio /\ r.err = k.err
           /\ r.tmr = [k.tmr EXCEPT ![t] = FALSE]
           /\ \A q \in WaitQueue : r.list[q] = RemoveFirst(k.list[q], t)
<1> DEFINE k1 == rt_list_remove(k, t)
           r  == ResumeUnlink(k, t)
<1>1. /\ k1 \in KernelState /\ SameThreads(k1, k) /\ Detached(k1, t)
      /\ \A q \in WaitQueue : k1.list[q] = RemoveFirst(k.list[q], t)
  BY UnlinkSuspended
<1>2. r = [k1 EXCEPT !.tmr[t] = FALSE]
  BY DEF ResumeUnlink
<1> HIDE DEF k1, r
<1>3. /\ r \in KernelState
      /\ r.cur = k1.cur /\ r.lock = k1.lock /\ r.stat = k1.stat /\ r.list = k1.list
      /\ r.table = k1.table /\ r.group = k1.group
      /\ r.prio = k1.prio /\ r.err = k1.err
      /\ r.tmr = [k1.tmr EXCEPT ![t] = FALSE]
  BY <1>1, <1>2 DEF KernelState
<1>4. ~r.tmr[t] /\ \A u \in Thread : r.tmr[u] => k1.tmr[u]
  BY <1>1, <1>3 DEF KernelState
<1>5. Detached(r, t)
  BY <1>1, <1>3, <1>4 DEF Detached, LinkedOnce, BitmapExact
<1>6. KernelOK(r)
  <2>1. r.stat[t] = "suspend"
    BY <1>1, <1>3 DEF SameThreads
  <2>2. ReadyListed(r)
    BY <1>5, <2>1 DEF ReadyListed, Detached, ListHead
  <2>3. WaitersSuspended(r)
    BY <1>5, <2>1 DEF WaitersSuspended, Detached
  <2> QED BY <1>5, <2>2, <2>3 DEF KernelOK, Detached
<1> QED BY <1>1, <1>3, <1>5, <1>6 DEF SameThreads, r

(* The second half, and rt_thread_resume as a whole. *)
LEMMA InsertResumed ==
    ASSUME NEW k \in KernelState, NEW t \in Thread, CurrentOK(k),
           Detached(k, t), ~k.tmr[t]
    PROVE  LET r == rt_schedule_insert_thread(k, t) IN
           /\ r \in KernelState /\ KernelOK(r) /\ CurrentOK(r) /\ SameQueues(r, k)
           /\ r.cur = k.cur /\ r.lock = k.lock
           /\ r.prio = k.prio /\ r.err = k.err /\ r.tmr = k.tmr
           /\ r.stat = [k.stat EXCEPT ![t] =
                            IF t = k.cur THEN "running" ELSE "ready"]
<1> DEFINE r == rt_schedule_insert_thread(k, t)
<1>1. /\ r \in KernelState /\ KernelOK(r) /\ SameQueues(r, k)
      /\ r.cur = k.cur /\ r.lock = k.lock
      /\ r.prio = k.prio /\ r.err = k.err /\ r.tmr = k.tmr
      /\ r.stat = [k.stat EXCEPT ![t] =
                       IF t = k.cur THEN "running" ELSE "ready"]
  BY InsertThread
<1> HIDE DEF r
<1>2. CurrentOK(r)
  BY <1>1 DEF CurrentOK, KernelState
<1> QED BY <1>1, <1>2 DEF r

LEMMA ResumeThread ==
    ASSUME NEW k \in KernelState, NEW t \in Thread, KernelOK(k), CurrentOK(k),
           k.stat[t] = "suspend"
    PROVE  LET r == rt_thread_resume(k, t) IN
           /\ r \in KernelState /\ KernelOK(r) /\ CurrentOK(r)
           /\ r.cur = k.cur /\ r.lock = k.lock /\ r.prio = k.prio /\ r.err = k.err
           /\ r.tmr = [k.tmr EXCEPT ![t] = FALSE]
           /\ r.stat = [k.stat EXCEPT ![t] =
                            IF t = k.cur THEN "running" ELSE "ready"]
           /\ \A q \in WaitQueue : r.list[q] = RemoveFirst(k.list[q], t)
<1> DEFINE k1 == ResumeUnlink(k, t)
<1>1. /\ k1 \in KernelState /\ KernelOK(k1) /\ Detached(k1, t)
      /\ k1.cur = k.cur /\ k1.lock = k.lock /\ k1.stat = k.stat
      /\ k1.prio = k.prio /\ k1.err = k.err
      /\ k1.tmr = [k.tmr EXCEPT ![t] = FALSE]
      /\ \A q \in WaitQueue : k1.list[q] = RemoveFirst(k.list[q], t)
  BY UnlinkForResume
<1>2. rt_thread_resume(k, t) = rt_schedule_insert_thread(k1, t)
  BY DEF rt_thread_resume
<1> HIDE DEF k1
<1>3. CurrentOK(k1) /\ ~k1.tmr[t]
  BY <1>1 DEF CurrentOK, KernelState
<1> DEFINE r == rt_schedule_insert_thread(k1, t)
<1>4. /\ r \in KernelState /\ KernelOK(r) /\ CurrentOK(r) /\ SameQueues(r, k1)
      /\ r.cur = k1.cur /\ r.lock = k1.lock
      /\ r.prio = k1.prio /\ r.err = k1.err /\ r.tmr = k1.tmr
      /\ r.stat = [k1.stat EXCEPT ![t] =
                       IF t = k1.cur THEN "running" ELSE "ready"]
  BY <1>1, <1>3, InsertResumed
<1> HIDE DEF r
<1> QED BY <1>1, <1>2, <1>4 DEF SameQueues, r

(* The timer interrupt of a waiting thread. *)
LEMMA TimeoutThread ==
    ASSUME NEW k \in KernelState, NEW t \in Thread, KernelOK(k), CurrentOK(k),
           k.stat[t] = "suspend"
    PROVE  LET r == TimedOut(k, t) IN
           /\ r \in KernelState /\ KernelOK(r) /\ CurrentOK(r)
           /\ r.cur = k.cur /\ r.lock = k.lock /\ r.prio = k.prio
           /\ r.err = [k.err EXCEPT ![t] = "timeout"]
           /\ r.tmr = [k.tmr EXCEPT ![t] = FALSE]
           /\ r.stat = [k.stat EXCEPT ![t] =
                            IF t = k.cur THEN "running" ELSE "ready"]
           /\ \A q \in WaitQueue : r.list[q] = RemoveFirst(k.list[q], t)
<1> DEFINE k0 == [k EXCEPT !.tmr[t] = FALSE, !.err[t] = "timeout"]
           k2 == rt_list_remove(k0, t)
           k1 == rt_schedule_insert_thread(k2, t)
<1>1. /\ k0 \in KernelState
      /\ k0.cur = k.cur /\ k0.lock = k.lock /\ k0.prio = k.prio
      /\ k0.stat = k.stat /\ k0.list = k.list
      /\ k0.table = k.table /\ k0.group = k.group
      /\ k0.err = [k.err EXCEPT ![t] = "timeout"]
      /\ k0.tmr = [k.tmr EXCEPT ![t] = FALSE]
  <2>1. [k.err EXCEPT ![t] = "timeout"] \in [Thread -> Error]
    BY DEF KernelState, Error
  <2> QED BY <2>1 DEF KernelState
<1>2. TimedOut(k, t) = k1
  BY DEF TimedOut
<1> HIDE DEF k0
<1>3. ~k0.tmr[t] /\ \A u \in Thread : k0.tmr[u] => k0.stat[u] = "suspend"
  BY <1>1 DEF KernelOK, WaitersSuspended, KernelState
<1>4. KernelOK(k0) /\ CurrentOK(k0)
  BY <1>1, <1>3, SameLists
<1>5. /\ k2 \in KernelState /\ SameThreads(k2, k0) /\ Detached(k2, t)
      /\ \A q \in WaitQueue : k2.list[q] = RemoveFirst(k0.list[q], t)
  BY <1>1, <1>4, UnlinkSuspended
<1> HIDE DEF k2
<1>6. CurrentOK(k2) /\ ~k2.tmr[t]
  BY <1>3, <1>4, <1>5 DEF CurrentOK, SameThreads
<1>7. /\ k1 \in KernelState /\ KernelOK(k1) /\ CurrentOK(k1) /\ SameQueues(k1, k2)
      /\ k1.cur = k2.cur /\ k1.lock = k2.lock
      /\ k1.prio = k2.prio /\ k1.err = k2.err /\ k1.tmr = k2.tmr
      /\ k1.stat = [k2.stat EXCEPT ![t] =
                       IF t = k2.cur THEN "running" ELSE "ready"]
  BY <1>5, <1>6, InsertResumed
<1> HIDE DEF k1
<1> QED BY <1>1, <1>2, <1>5, <1>7 DEF SameThreads, SameQueues

(* Changing the priority of a thread that is not ready. *)
LEMMA PriorityOfOther ==
    ASSUME NEW k \in KernelState, NEW t \in Thread, NEW p \in Priority,
           KernelOK(k), CurrentOK(k), k.stat[t] # "ready"
    PROVE  LET r == ChangePriority(k, t, p) IN
           /\ r \in KernelState /\ KernelOK(r) /\ CurrentOK(r)
           /\ r.cur = k.cur /\ r.lock = k.lock /\ r.stat = k.stat
           /\ r.err = k.err /\ r.tmr = k.tmr /\ r.list = k.list
           /\ r.prio = [k.prio EXCEPT ![t] = p]
<1> DEFINE r == [k EXCEPT !.prio[t] = p]
<1>1. ChangePriority(k, t, p) = r
  BY DEF ChangePriority
<1>2. /\ r \in KernelState
      /\ r.cur = k.cur /\ r.lock = k.lock /\ r.stat = k.stat
      /\ r.table = k.table /\ r.group = k.group
      /\ r.err = k.err /\ r.tmr = k.tmr /\ r.list = k.list
      /\ r.prio = [k.prio EXCEPT ![t] = p]
  BY DEF KernelState
<1> HIDE DEF r
<1>3. ReadyListed(r)
  BY <1>2 DEF KernelOK, ReadyListed, KernelState
<1>4. KernelOK(r) /\ CurrentOK(r)
  BY <1>2, <1>3 DEF KernelOK, LinkedOnce, BitmapExact, WaitersSuspended, CurrentOK
<1> QED BY <1>1, <1>2, <1>4

(* Changing the priority of a ready thread: it moves to its new list. *)
LEMMA PriorityOfReady ==
    ASSUME NEW k \in KernelState, NEW t \in Thread, NEW p \in Priority,
           KernelOK(k), CurrentOK(k), k.stat[t] = "ready"
    PROVE  LET r == ChangePriority(k, t, p) IN
           /\ r \in KernelState /\ KernelOK(r) /\ CurrentOK(r) /\ SameQueues(r, k)
           /\ r.cur = k.cur /\ r.lock = k.lock /\ r.stat = k.stat
           /\ r.err = k.err /\ r.tmr = k.tmr
           /\ r.prio = [k.prio EXCEPT ![t] = p]
<1> DEFINE k1 == rt_schedule_remove_thread(k, t)
           k2 == [k1 EXCEPT !.prio[t] = p]
           r  == rt_schedule_insert_thread(k2, t)
<1>1. /\ k1 \in KernelState /\ SameThreads(k1, k) /\ Detached(k1, t)
      /\ SameQueues(k1, k)
  BY RemoveThread
<1>2. ChangePriority(k, t, p) = r
  BY DEF ChangePriority
<1> HIDE DEF k1
<1>3. /\ k2 \in KernelState
      /\ k2.cur = k1.cur /\ k2.lock = k1.lock /\ k2.stat = k1.stat
      /\ k2.table = k1.table /\ k2.group = k1.group
      /\ k2.err = k1.err /\ k2.tmr = k1.tmr /\ k2.list = k1.list
      /\ k2.prio = [k1.prio EXCEPT ![t] = p]
  BY <1>1 DEF KernelState
<1> HIDE DEF k2
<1>4. Detached(k2, t)
  <2>1. \A u \in Thread \ {t} : k2.prio[u] = k1.prio[u]
    BY <1>1, <1>3 DEF KernelState
  <2> QED BY <1>1, <1>3, <2>1 DEF Detached, LinkedOnce, BitmapExact
<1>5. ~k2.tmr[t] /\ CurrentOK(k2) /\ t # k2.cur
  BY <1>1, <1>3 DEF KernelOK, WaitersSuspended, SameThreads, CurrentOK
<1>6. /\ r \in KernelState /\ KernelOK(r) /\ CurrentOK(r) /\ SameQueues(r, k2)
      /\ r.cur = k2.cur /\ r.lock = k2.lock
      /\ r.prio = k2.prio /\ r.err = k2.err /\ r.tmr = k2.tmr
      /\ r.stat = [k2.stat EXCEPT ![t] = "ready"]
  BY <1>3, <1>4, <1>5, InsertResumed
<1> HIDE DEF r
<1>7. [k2.stat EXCEPT ![t] = "ready"] = k.stat
  BY <1>1, <1>3 DEF SameThreads, KernelState
<1> QED BY <1>1, <1>2, <1>3, <1>6, <1>7 DEF SameThreads, SameQueues

-----------------------------------------------------------------------------
(* The suspend lists of src/ipc.c. *)

(* The thread timer is stopped or runs for a suspended thread, so a list   *)
(* of waiters changes in three ways: a thread is put at its place, it is   *)
(* taken off, or nothing happens.  What the order of such a list says of   *)
(* two threads:                                                            *)
Before(s, x, y) == \E i, j \in 1 .. Len(s) : i < j /\ s[i] = x /\ s[j] = y

LEMMA RemoveKeepsOrder ==
    ASSUME NEW T, NEW s \in Seq(T), NEW e, IsInjective(s), NEW x, NEW y,
           Before(RemoveFirst(s, e), x, y)
    PROVE  Before(s, x, y)
<1>1. CASE ~Contains(s, e)
  BY <1>1, RemoveNothing
<1>2. CASE Contains(s, e)
  <2>1. PICK i \in 1 .. Len(s) : s[i] = e
    BY <1>2 DEF Contains
  <2> DEFINE I == { j \in 1 .. Len(s) : s[j] = e }
  <2>2. I = {i}
    BY <2>1 DEF IsInjective
  <2>3. Min(I) = i
    <3>1. Min({i}) = i
      BY MinOfOne
    <3> QED BY <2>2, <3>1
  <2>4. RemoveFirst(s, e) = SubSeq(s, 1, i - 1) \o SubSeq(s, i + 1, Len(s))
    BY <2>1, <2>2, <2>3 DEF RemoveFirst, SelectInSeq, RemoveAt
  <2> DEFINE a == SubSeq(s, 1, i - 1)
             b == SubSeq(s, i + 1, Len(s))
             r == RemoveFirst(s, e)
  <2>5. /\ a \in Seq(T) /\ Len(a) = i - 1
        /\ \A j \in 1 .. i - 1 : a[j] = s[j]
    BY SubSeqProperties
  <2>6. /\ b \in Seq(T) /\ Len(b) = Len(s) - i
        /\ \A j \in 1 .. Len(s) - i : b[j] = s[i + j]
    BY SubSeqProperties
  <2>7. /\ Len(r) = Len(s) - 1
        /\ \A j \in 1 .. Len(s) - 1 : r[j] = IF j < i THEN s[j] ELSE s[j + 1]
    <3> HIDE DEF a, b, r
    <3>1. r = a \o b
      BY <2>4 DEF r, a, b
    <3>2. /\ Len(a \o b) = Len(a) + Len(b)
          /\ \A j \in 1 .. Len(a) + Len(b) :
                (a \o b)[j] = IF j <= Len(a) THEN a[j] ELSE b[j - Len(a)]
      BY <2>5, <2>6, ConcatProperties
    <3> QED BY <3>1, <3>2, <2>5, <2>6
  <2>8. PICK g, h \in 1 .. Len(r) : g < h /\ r[g] = x /\ r[h] = y
    BY DEF Before
  <2> HIDE DEF r, a, b, I
  <2> DEFINE g1 == IF g < i THEN g ELSE g + 1
             h1 == IF h < i THEN h ELSE h + 1
  <2>9. Len(s) \in Nat /\ g \in 1 .. Len(s) - 1 /\ h \in 1 .. Len(s) - 1
    BY <2>7
  <2>10. g1 \in 1 .. Len(s) /\ h1 \in 1 .. Len(s) /\ g1 < h1
    BY <2>8, <2>9
  <2>11. s[g1] = x /\ s[h1] = y
    BY <2>7, <2>8, <2>9
  <2> QED BY <2>10, <2>11 DEF Before
<1> QED BY <1>1, <1>2

(* Putting a thread in a list of waiters. *)
LEMMA InsertInList ==
    ASSUME NEW T, NEW s \in Seq(T), NEW e \in T, IsInjective(s), ~Contains(s, e),
           NEW i \in 1 .. Len(s) + 1
    PROVE  /\ InsertAt(s, i, e) \in Seq(T)
           /\ IsInjective(InsertAt(s, i, e))
           /\ \A x : Contains(InsertAt(s, i, e), x) <=> Contains(s, x) \/ x = e
           /\ \A x, y : Before(InsertAt(s, i, e), x, y) =>
                 \/ Before(s, x, y)
                 \/ y = e /\ \E j \in 1 .. Len(s) : j < i /\ s[j] = x
                 \/ x = e /\ \E j \in 1 .. Len(s) : i <= j /\ s[j] = y
<1> DEFINE a == SubSeq(s, 1, i - 1)
           b == SubSeq(s, i, Len(s))
           c == a \o <<e>>
           r == InsertAt(s, i, e)
<1>0. Len(s) \in Nat
  OBVIOUS
<1>1. /\ a \in Seq(T) /\ Len(a) = i - 1
      /\ \A j \in 1 .. i - 1 : a[j] = s[j]
  BY SubSeqProperties
<1>2. /\ b \in Seq(T) /\ Len(b) = Len(s) - i + 1
      /\ \A j \in 1 .. Len(s) - i + 1 : b[j] = s[i + j - 1]
  BY SubSeqProperties
<1>3. r = c \o b
  BY DEF InsertAt
<1> HIDE DEF a, b, r
<1>4. /\ c \in Seq(T) /\ Len(c) = i
      /\ \A j \in 1 .. i - 1 : c[j] = s[j]
      /\ c[i] = e
  <2>1. /\ <<e>> \in Seq(T) /\ Len(<<e>>) = 1 /\ <<e>>[1] = e
    OBVIOUS
  <2>2. /\ c \in Seq(T) /\ Len(c) = Len(a) + Len(<<e>>)
        /\ \A j \in 1 .. Len(a) + Len(<<e>>) :
              c[j] = IF j <= Len(a) THEN a[j] ELSE <<e>>[j - Len(a)]
    BY <1>1, <2>1, ConcatProperties
  <2> QED BY <1>1, <2>1, <2>2
<1> HIDE DEF c
<1>5. /\ r \in Seq(T) /\ Len(r) = Len(s) + 1
      /\ \A j \in 1 .. Len(s) + 1 :
            r[j] = IF j < i THEN s[j] ELSE IF j = i THEN e ELSE s[j - 1]
  <2>1. /\ c \o b \in Seq(T) /\ Len(c \o b) = Len(c) + Len(b)
        /\ \A j \in 1 .. Len(c) + Len(b) :
              (c \o b)[j] = IF j <= Len(c) THEN c[j] ELSE b[j - Len(c)]
    BY <1>2, <1>4, ConcatProperties
  <2>2. Len(c) + Len(b) = Len(s) + 1
    BY <1>2, <1>4
  <2>3. ASSUME NEW j \in 1 .. Len(s) + 1
        PROVE  r[j] = IF j < i THEN s[j] ELSE IF j = i THEN e ELSE s[j - 1]
    <3>1. r[j] = IF j <= i THEN c[j] ELSE b[j - i]
      BY <1>3, <1>4, <2>1, <2>2
    <3>2. CASE j < i
      <4>1. r[j] = c[j] /\ j \in 1 .. i - 1
        BY <1>0, <3>1, <3>2
      <4> QED BY <1>4, <3>2, <4>1
    <3>3. CASE j = i
      BY <1>4, <3>1, <3>3
    <3>4. CASE j > i
      <4>1. j - i \in 1 .. Len(s) - i + 1 /\ i + (j - i) - 1 = j - 1
        BY <3>4, <1>0
      <4> QED BY <1>2, <3>1, <3>4, <4>1
    <3> QED BY <3>2, <3>3, <3>4
  <2> QED BY <1>3, <2>1, <2>2, <2>3
<1>6. DOMAIN s = 1 .. Len(s) /\ DOMAIN r = 1 .. Len(s) + 1
  BY <1>5
<1>7. \A j \in 1 .. Len(s) : s[j] # e
  BY DEF Contains
<1>8. \A g, h \in 1 .. Len(s) : s[g] = s[h] => g = h
  BY <1>6 DEF IsInjective
<1>9. IsInjective(r)
  <2> SUFFICES ASSUME NEW g \in 1 .. Len(s) + 1, NEW h \in 1 .. Len(s) + 1,
                      g < h, r[g] = r[h]
               PROVE  FALSE
    <3>1. \A g, h \in 1 .. Len(s) + 1 : ~(g < h /\ r[g] = r[h])
      OBVIOUS
    <3>2. \A g, h \in 1 .. Len(s) + 1 : r[g] = r[h] => g = h
      BY <3>1, <1>0
    <3> QED BY <1>6, <3>2 DEF IsInjective
  <2>1. CASE h < i
    BY <1>0, <1>5, <1>8, <2>1
  <2>2. CASE g < i /\ h = i
    BY <1>0, <1>5, <1>7, <2>2
  <2>3. CASE g < i /\ h > i
    <3>1. s[g] = s[h - 1] /\ g \in 1 .. Len(s) /\ h - 1 \in 1 .. Len(s)
      BY <1>0, <1>5, <2>3
    <3> QED BY <1>8, <2>3, <3>1
  <2>4. CASE g = i
    <3>1. s[h - 1] = e /\ h - 1 \in 1 .. Len(s)
      BY <1>0, <1>5, <2>4
    <3> QED BY <1>7, <3>1
  <2>5. CASE g > i
    <3>1. s[g - 1] = s[h - 1] /\ g - 1 \in 1 .. Len(s) /\ h - 1 \in 1 .. Len(s)
      BY <1>0, <1>5, <2>5
    <3> QED BY <1>0, <1>8, <3>1
  <2> QED BY <1>0, <2>1, <2>2, <2>3, <2>4, <2>5
<1>10. \A x : Contains(r, x) <=> Contains(s, x) \/ x = e
  <2>1. ASSUME NEW x, Contains(r, x) PROVE Contains(s, x) \/ x = e
    <3>1. PICK j \in 1 .. Len(s) + 1 : r[j] = x
      BY <1>5, <2>1 DEF Contains
    <3>2. CASE j < i
      BY <1>0, <1>5, <3>1, <3>2 DEF Contains
    <3>3. CASE j = i
      BY <1>5, <3>1, <3>3
    <3>4. CASE j > i
      <4>1. s[j - 1] = x /\ j - 1 \in 1 .. Len(s)
        BY <1>0, <1>5, <3>1, <3>4
      <4> QED BY <4>1 DEF Contains
    <3> QED BY <1>0, <3>2, <3>3, <3>4
  <2>2. Contains(r, e)
    <3>1. i \in 1 .. Len(r) /\ r[i] = e
      BY <1>5
    <3> QED BY <3>1 DEF Contains
  <2>3. ASSUME NEW x, Contains(s, x) PROVE Contains(r, x)
    <3>1. PICK j \in 1 .. Len(s) : s[j] = x
      BY <2>3 DEF Contains
    <3>2. CASE j < i
      <4>1. j \in 1 .. Len(r) /\ r[j] = x
        BY <1>0, <1>5, <3>1, <3>2
      <4> QED BY <4>1 DEF Contains
    <3>3. CASE j >= i
      <4>1. j + 1 \in 1 .. Len(r) /\ r[j + 1] = x
        BY <1>0, <1>5, <3>1, <3>3
      <4> QED BY <4>1 DEF Contains
    <3> QED BY <1>0, <3>2, <3>3
  <2> QED BY <2>1, <2>2, <2>3
<1>11. ASSUME NEW x, NEW y, Before(r, x, y)
       PROVE  \/ Before(s, x, y)
              \/ y = e /\ \E j \in 1 .. Len(s) : j < i /\ s[j] = x
              \/ x = e /\ \E j \in 1 .. Len(s) : i <= j /\ s[j] = y
  <2>1. PICK g \in 1 .. Len(s) + 1, h \in 1 .. Len(s) + 1 : g < h /\ r[g] = x /\ r[h] = y
    BY <1>5, <1>11 DEF Before
  <2>2. CASE h < i
    <3>1. g \in 1 .. Len(s) /\ h \in 1 .. Len(s) /\ s[g] = x /\ s[h] = y
      BY <1>0, <1>5, <2>1, <2>2
    <3> QED BY <2>1, <3>1 DEF Before
  <2>3. CASE h = i
    <3>1. g \in 1 .. Len(s) /\ g < i /\ s[g] = x /\ y = e
      BY <1>0, <1>5, <2>1, <2>3
    <3> QED BY <3>1
  <2>4. CASE g < i /\ h > i
    <3>1. g \in 1 .. Len(s) /\ h - 1 \in 1 .. Len(s) /\ g < h - 1 /\ s[g] = x /\ s[h - 1] = y
      BY <1>0, <1>5, <2>1, <2>4
    <3> QED BY <3>1 DEF Before
  <2>5. CASE g = i
    <3>1. h - 1 \in 1 .. Len(s) /\ i <= h - 1 /\ ~(h < i) /\ h # i
      BY <1>0, <2>1, <2>5
    <3>2. s[h - 1] = y
      BY <1>5, <2>1, <3>1
    <3>3. x = e
      BY <1>5, <2>1, <2>5
    <3> QED BY <3>1, <3>2, <3>3
  <2>6. CASE g > i
    <3>1. g - 1 \in 1 .. Len(s) /\ h - 1 \in 1 .. Len(s) /\ g - 1 < h - 1
          /\ s[g - 1] = x /\ s[h - 1] = y
      BY <1>0, <1>5, <2>1, <2>6
    <3> QED BY <3>1 DEF Before
  <2> QED BY <1>0, <2>1, <2>2, <2>3, <2>4, <2>5, <2>6
<1> QED BY <1>5, <1>9, <1>10, <1>11 DEF r

(* Where a thread of priority p goes. *)
LEMMA PlaceInList ==
    ASSUME NEW kk \in KernelState, NEW s \in Seq(Thread), NEW p \in Priority,
           NEW flag
    PROVE  /\ Place(kk, s, p, flag) \in 1 .. Len(s) + 1
           /\ flag # "fifo" =>
                 /\ \A j \in 1 .. Len(s) :
                       j < Place(kk, s, p, flag) => kk.prio[s[j]] <= p
                 /\ Place(kk, s, p, flag) <= Len(s) =>
                       p < kk.prio[s[Place(kk, s, p, flag)]]
<1> USE KernelAssumption
<1>0. Len(s) \in Nat
  OBVIOUS
<1>1. CASE flag = "fifo"
  BY <1>0, <1>1 DEF Place
<1>2. CASE flag # "fifo"
  <2> DEFINE S == { i \in 1 .. Len(s) : p < kk.prio[s[i]] } \cup {Len(s) + 1}
  <2>1. S \subseteq Nat /\ S # {} /\ S \subseteq 1 .. Len(s) + 1
    BY <1>0
  <2>2. Min(S) \in S /\ \A x \in S : Min(S) <= x
    BY <2>1, MinOfNats
  <2>3. Place(kk, s, p, flag) = Min(S)
    BY <1>2 DEF Place
  <2>4. \A j \in 1 .. Len(s) : kk.prio[s[j]] \in Nat /\ p \in Nat
    BY DEF KernelState, Priority
  <2>5. \A j \in 1 .. Len(s) : j < Min(S) => kk.prio[s[j]] <= p
    <3> SUFFICES ASSUME NEW j \in 1 .. Len(s), j < Min(S), ~(kk.prio[s[j]] <= p)
                 PROVE  FALSE
      OBVIOUS
    <3>1. j \in S
      BY <2>4
    <3>2. Min(S) \in Nat /\ Min(S) <= j
      BY <2>1, <2>2, <3>1
    <3> QED BY <3>2
  <2>6. Min(S) <= Len(s) => p < kk.prio[s[Min(S)]]
    BY <1>0, <2>2
  <2> QED BY <2>1, <2>2, <2>3, <2>5, <2>6
<1> QED BY <1>1, <1>2

-----------------------------------------------------------------------------
(* A kernel between two steps: what holds of it whoever runs next.         *)
Sound(kk) ==
    /\ kk \in KernelState /\ KernelOK(kk) /\ CurrentOK(kk)
    /\ kk.lock = 0
    /\ kk.stat[Idle] \in Runnable
    /\ kk.stat[kk.cur] \in {"running", "suspend"}

(* The fields of r that no call but one of a list, or of a priority, has   *)
(* changed.                                                                *)
SameCurrent(r, kk) == r.cur = kk.cur /\ r.lock = kk.lock

LEMMA SoundSchedule ==
    ASSUME NEW kk, Sound(kk)
    PROVE  LET r == rt_schedule(kk) IN
           /\ Sound(r) /\ SameQueues(r, kk)
           /\ r.prio = kk.prio /\ r.err = kk.err /\ r.tmr = kk.tmr
           /\ r.stat[r.cur] = "running"
           /\ \A u \in Thread : r.stat[u] = "suspend" <=> kk.stat[u] = "suspend"
<1> DEFINE r == rt_schedule(kk)
<1> USE KernelAssumption
<1>1. kk \in KernelState /\ KernelOK(kk) /\ CurrentOK(kk) /\ kk.lock = 0
  BY DEF Sound
<1>2. /\ r \in KernelState /\ KernelOK(r) /\ CurrentOK(r) /\ SameQueues(r, kk)
      /\ r.lock = kk.lock /\ r.prio = kk.prio /\ r.err = kk.err /\ r.tmr = kk.tmr
      /\ \A u \in Thread :
            /\ kk.stat[u] \notin Runnable => r.stat[u] = kk.stat[u]
            /\ kk.stat[u] \in Runnable => r.stat[u] \in Runnable
      /\ kk.stat[kk.cur] = "running" => r.stat[r.cur] = "running"
      /\ kk.lock = 0 /\ kk.table # {} => r.stat[r.cur] = "running"
  BY <1>1, ScheduleThread
<1> HIDE DEF r
<1>3. ASSUME kk.stat[kk.cur] = "suspend" PROVE r.stat[r.cur] = "running"
  <2>1. kk.stat[Idle] = "ready"
    BY <1>1, <1>3 DEF Sound, Runnable, CurrentOK
  <2>2. kk.prio[Idle] \in Priority /\ kk.list[kk.prio[Idle]] \in Seq(Thread)
    BY <1>1 DEF KernelState, ListHead
  <2>3. Contains(kk.list[kk.prio[Idle]], Idle)
    BY <1>1, <2>1, <2>2 DEF KernelOK, ReadyListed
  <2>4. kk.list[kk.prio[Idle]] # <<>>
    BY <2>2, <2>3, EmptyList
  <2>5. kk.table # {}
    BY <1>1, <2>2, <2>4 DEF KernelOK, BitmapExact
  <2> QED BY <1>1, <1>2, <2>5
<1>4. r.stat[r.cur] = "running"
  BY <1>2, <1>3 DEF Sound
<1> QED BY <1>1, <1>2, <1>4 DEF Sound, Runnable, r

(* A thread that is not idle suspends itself and joins the list q, that is *)
(* l after it.                                                             *)
Joins(kk, t, q, l) == [rt_thread_suspend(kk, t) EXCEPT !.list[q] = l]

LEMMA SoundJoins ==
    ASSUME NEW kk, Sound(kk), NEW t \in Thread, t # Idle, kk.stat[t] = "running",
           NEW q \in WaitQueue, NEW l \in Seq(Thread), IsInjective(l),
           \A x : Contains(l, x) <=> Contains(kk.list[q], x) \/ x = t
    PROVE  LET r == Joins(kk, t, q, l) IN
           /\ Sound(r) /\ SameCurrent(r, kk)
           /\ r.prio = kk.prio /\ r.err = kk.err /\ r.tmr = kk.tmr
           /\ r.stat[t] = "suspend"
           /\ \A u \in Thread \ {t} : r.stat[u] = kk.stat[u]
           /\ r.list[q] = l
           /\ \A p \in WaitQueue \ {q} : r.list[p] = kk.list[p]
<1> DEFINE k1 == rt_thread_suspend(kk, t)
           r1 == [k1 EXCEPT !.list[q] = l]
<1> USE KernelAssumption
<1>0. Joins(kk, t, q, l) = r1
  BY DEF Joins
<1>1. kk \in KernelState /\ KernelOK(kk) /\ CurrentOK(kk) /\ kk.stat[t] \in Runnable
  BY DEF Sound, Runnable
<1>2. /\ k1 \in KernelState /\ KernelOK(k1) /\ CurrentOK(k1) /\ SameQueues(k1, kk)
      /\ k1.cur = kk.cur /\ k1.lock = kk.lock /\ k1.prio = kk.prio /\ k1.err = kk.err
      /\ k1.stat = [kk.stat EXCEPT ![t] = "suspend"]
      /\ k1.tmr = kk.tmr
      /\ \A h \in ListHead : ~Contains(k1.list[h], t)
  BY <1>1, SuspendThread
<1> HIDE DEF k1
<1>3. k1.list[q] = kk.list[q] /\ q \in ListHead
  BY <1>1, <1>2 DEF SameQueues, ListHead, KernelState
<1>9. /\ r1 \in KernelState
      /\ r1.cur = k1.cur /\ r1.lock = k1.lock /\ r1.prio = k1.prio /\ r1.err = k1.err
      /\ r1.tmr = k1.tmr /\ r1.stat = k1.stat /\ r1.table = k1.table /\ r1.group = k1.group
      /\ r1.list[q] = l
      /\ \A h \in ListHead \ {q} : r1.list[h] = k1.list[h]
  BY <1>2, <1>3 DEF KernelState
<1> HIDE DEF r1
<1>10. q \notin Priority
  BY QueuesAreNotPriorities
<1>11. k1.stat[t] = "suspend"
  BY <1>1, <1>2 DEF KernelState
<1>12. LinkedOnce(r1)
  <2>1. \A h \in ListHead : IsInjective(r1.list[h])
    BY <1>2, <1>9 DEF KernelOK, LinkedOnce
  <2>2. \A h \in ListHead, u \in Thread :
           Contains(r1.list[h], u) <=> Contains(k1.list[h], u) \/ (h = q /\ u = t)
    BY <1>3, <1>9
  <2>3. ASSUME NEW g \in ListHead, NEW h \in ListHead, NEW u \in Thread,
               Contains(r1.list[g], u), Contains(r1.list[h], u)
        PROVE  g = h
    <3>1. CASE u = t
      BY <1>2, <2>2, <2>3, <3>1
    <3>2. CASE u # t
      <4>1. Contains(k1.list[g], u) /\ Contains(k1.list[h], u)
        BY <2>2, <2>3, <3>2
      <4> QED BY <1>2, <4>1 DEF KernelOK, LinkedOnce
    <3> QED BY <3>1, <3>2
  <2> QED BY <2>1, <2>3 DEF LinkedOnce
<1>13. ReadyListed(r1) /\ BitmapExact(r1)
  <2>1. \A p \in Priority : r1.list[p] = k1.list[p]
    BY <1>9, <1>10 DEF ListHead
  <2> QED BY <1>2, <1>9, <2>1 DEF KernelOK, ReadyListed, BitmapExact
<1>14. WaitersSuspended(r1)
  BY <1>2, <1>3, <1>9, <1>11 DEF KernelOK, WaitersSuspended, ListHead
<1>15. CurrentOK(r1) /\ KernelOK(r1)
  BY <1>2, <1>9, <1>12, <1>13, <1>14 DEF CurrentOK, KernelOK
<1>16. \A p \in WaitQueue \ {q} : r1.list[p] = kk.list[p]
  BY <1>2, <1>9 DEF SameQueues, ListHead
<1>17. r1.stat[Idle] \in Runnable /\ r1.stat[r1.cur] \in {"running", "suspend"} /\ r1.lock = 0
  BY <1>1, <1>2, <1>9 DEF Sound, KernelState
<1>18. /\ r1.stat[t] = "suspend"
       /\ \A u \in Thread \ {t} : r1.stat[u] = kk.stat[u]
  BY <1>1, <1>2, <1>9 DEF KernelState
<1>19. Sound(r1) /\ SameCurrent(r1, kk)
  BY <1>2, <1>9, <1>15, <1>17 DEF Sound, SameCurrent
<1>20. r1.prio = kk.prio /\ r1.err = kk.err /\ r1.tmr = kk.tmr /\ r1.list[q] = l
  BY <1>2, <1>9
<1> QED BY <1>0, <1>16, <1>18, <1>19, <1>20

(* rt_ipc_list_suspend by a thread that is not idle *)
LEMMA SoundSuspend ==
    ASSUME NEW kk, Sound(kk), NEW t \in Thread, t # Idle, kk.stat[t] = "running",
           NEW q \in WaitQueue, NEW flag
    PROVE  LET r == rt_ipc_list_suspend(kk, q, t, flag)
               i == Place(kk, kk.list[q], kk.prio[t], flag)
           IN  /\ Sound(r) /\ SameCurrent(r, kk)
               /\ r.prio = kk.prio /\ r.err = kk.err /\ r.tmr = kk.tmr
               /\ r.stat[t] = "suspend"
               /\ \A u \in Thread \ {t} : r.stat[u] = kk.stat[u]
               /\ r.list[q] = InsertAt(kk.list[q], i, t)
               /\ \A p \in WaitQueue \ {q} : r.list[p] = kk.list[p]
<1> DEFINE k1 == rt_thread_suspend(kk, t)
           i  == Place(kk, kk.list[q], kk.prio[t], flag)
           l  == InsertAt(kk.list[q], i, t)
           r  == [k1 EXCEPT !.list[q] = l]
<1> USE KernelAssumption
<1>1. kk \in KernelState /\ KernelOK(kk) /\ CurrentOK(kk) /\ kk.stat[t] \in Runnable
  BY DEF Sound, Runnable
<1>2. SameQueues(k1, kk) /\ k1.prio = kk.prio /\ \A h \in ListHead : ~Contains(k1.list[h], t)
  BY <1>1, SuspendThread
<1>3. k1.list[q] = kk.list[q] /\ q \in ListHead /\ kk.list[q] \in Seq(Thread)
  BY <1>1, <1>2 DEF SameQueues, ListHead, KernelState
<1>4. IsInjective(kk.list[q]) /\ ~Contains(kk.list[q], t)
  BY <1>1, <1>2, <1>3 DEF KernelOK, LinkedOnce
<1>5. i \in 1 .. Len(kk.list[q]) + 1
  BY <1>1, <1>3, PlaceInList DEF KernelState
<1>6. /\ l \in Seq(Thread) /\ IsInjective(l)
      /\ \A x : Contains(l, x) <=> Contains(kk.list[q], x) \/ x = t
  BY <1>3, <1>4, <1>5, InsertInList
<1>7. rt_ipc_list_suspend(kk, q, t, flag) = r
  <2> HIDE DEF k1
  <2>1. Place(k1, k1.list[q], k1.prio[t], flag) = i
    BY <1>2, <1>3 DEF Place
  <2>2. rt_ipc_list_suspend(kk, q, t, flag)
          = [k1 EXCEPT !.list[q] = InsertAt(@, Place(k1, @, k1.prio[t], flag), t)]
    BY DEF rt_ipc_list_suspend, k1
  <2> QED BY <1>3, <2>1, <2>2
<1> HIDE DEF r, l
<1>8. /\ Sound(r) /\ SameCurrent(r, kk)
      /\ r.prio = kk.prio /\ r.err = kk.err /\ r.tmr = kk.tmr
      /\ r.stat[t] = "suspend"
      /\ \A u \in Thread \ {t} : r.stat[u] = kk.stat[u]
      /\ r.list[q] = l
      /\ \A p \in WaitQueue \ {q} : r.list[p] = kk.list[p]
  <2>1. r = Joins(kk, t, q, l)
    BY DEF r, Joins
  <2> QED BY <1>6, <2>1, SoundJoins
<1> QED BY <1>7, <1>8 DEF l

(* rt_thread_resume of a waiting thread *)
LEMMA SoundResume ==
    ASSUME NEW kk, Sound(kk), NEW t \in Thread, kk.stat[t] = "suspend"
    PROVE  LET r == rt_thread_resume(kk, t) IN
           /\ Sound(r) /\ SameCurrent(r, kk)
           /\ r.prio = kk.prio /\ r.err = kk.err
           /\ r.stat[t] = IF t = kk.cur THEN "running" ELSE "ready"
           /\ \A u \in Thread \ {t} : r.stat[u] = kk.stat[u]
           /\ \A q \in WaitQueue : r.list[q] = RemoveFirst(kk.list[q], t)
<1> DEFINE r == rt_thread_resume(kk, t)
<1> USE KernelAssumption
<1>1. kk \in KernelState /\ KernelOK(kk) /\ CurrentOK(kk)
  BY DEF Sound
<1>2. /\ r \in KernelState /\ KernelOK(r) /\ CurrentOK(r)
      /\ r.cur = kk.cur /\ r.lock = kk.lock /\ r.prio = kk.prio /\ r.err = kk.err
      /\ r.stat = [kk.stat EXCEPT ![t] = IF t = kk.cur THEN "running" ELSE "ready"]
      /\ \A q \in WaitQueue : r.list[q] = RemoveFirst(kk.list[q], t)
  BY <1>1, ResumeThread
<1> HIDE DEF r
<1>3. r.stat[Idle] \in Runnable /\ r.stat[r.cur] \in {"running", "suspend"}
  BY <1>1, <1>2 DEF Sound, KernelState, Runnable
<1>4. /\ r.stat[t] = IF t = kk.cur THEN "running" ELSE "ready"
      /\ \A u \in Thread \ {t} : r.stat[u] = kk.stat[u]
  BY <1>1, <1>2 DEF KernelState
<1>5. Sound(r) /\ SameCurrent(r, kk)
  BY <1>1, <1>2, <1>3 DEF Sound, SameCurrent
<1> QED BY <1>2, <1>4, <1>5 DEF r

(* the time-out of a waiting thread *)
LEMMA SoundTimeout ==
    ASSUME NEW kk, Sound(kk), NEW t \in Thread, kk.stat[t] = "suspend"
    PROVE  LET r == rt_thread_timeout(kk, t) IN
           /\ Sound(r)
           /\ r.prio = kk.prio
           /\ \A u \in Thread : r.err[u] = IF u = t THEN "timeout" ELSE kk.err[u]
           /\ r.stat[r.cur] = "running"
           /\ \A u \in Thread : r.stat[u] = "suspend" <=> kk.stat[u] = "suspend" /\ u # t
           /\ \A q \in WaitQueue : r.list[q] = RemoveFirst(kk.list[q], t)
<1> DEFINE k1 == TimedOut(kk, t)
<1>1. kk \in KernelState /\ KernelOK(kk) /\ CurrentOK(kk)
  BY DEF Sound
<1>2. /\ k1 \in KernelState /\ KernelOK(k1) /\ CurrentOK(k1)
      /\ k1.cur = kk.cur /\ k1.lock = kk.lock /\ k1.prio = kk.prio
      /\ k1.err = [kk.err EXCEPT ![t] = "timeout"]
      /\ k1.stat = [kk.stat EXCEPT ![t] = IF t = kk.cur THEN "running" ELSE "ready"]
      /\ \A q \in WaitQueue : k1.list[q] = RemoveFirst(kk.list[q], t)
  <2>1. k1 \in KernelState /\ KernelOK(k1) /\ CurrentOK(k1)
    BY <1>1, TimeoutThread, Zenon
  <2>2. k1.cur = kk.cur /\ k1.lock = kk.lock /\ k1.prio = kk.prio
    BY <1>1, TimeoutThread, Zenon
  <2>3. k1.err = [kk.err EXCEPT ![t] = "timeout"]
    BY <1>1, TimeoutThread, Zenon
  <2>4. k1.stat = [kk.stat EXCEPT ![t] = IF t = kk.cur THEN "running" ELSE "ready"]
    BY <1>1, TimeoutThread, Zenon
  <2>5. \A q \in WaitQueue : k1.list[q] = RemoveFirst(kk.list[q], t)
    BY <1>1, TimeoutThread, Zenon
  <2> QED BY <2>1, <2>2, <2>3, <2>4, <2>5
<1> HIDE DEF k1
<1> DEFINE r == rt_schedule(k1)
<1> USE KernelAssumption
<1>3. k1.stat[Idle] \in Runnable /\ k1.stat[k1.cur] \in {"running", "suspend"}
  BY <1>1, <1>2 DEF Sound, KernelState, Runnable
<1>4. \A u \in Thread : k1.stat[u] = "suspend" <=> kk.stat[u] = "suspend" /\ u # t
  BY <1>1, <1>2 DEF KernelState
<1>5. Sound(k1)
  BY <1>2, <1>3 DEF Sound
<1>6. /\ Sound(r) /\ SameQueues(r, k1)
      /\ r.prio = k1.prio /\ r.err = k1.err
      /\ r.stat[r.cur] = "running"
      /\ \A u \in Thread : r.stat[u] = "suspend" <=> k1.stat[u] = "suspend"
  BY <1>5, SoundSchedule
<1>7. r = rt_thread_timeout(kk, t)
  BY DEF rt_thread_timeout, k1
<1> HIDE DEF r
<1>8. \A u \in Thread : r.err[u] = IF u = t THEN "timeout" ELSE kk.err[u]
  BY <1>1, <1>2, <1>6 DEF KernelState
<1>9. \A q \in WaitQueue : r.list[q] = RemoveFirst(kk.list[q], t)
  BY <1>2, <1>6 DEF SameQueues
<1>10. r.prio = kk.prio /\ \A u \in Thread : r.stat[u] = "suspend" <=> kk.stat[u] = "suspend" /\ u # t
  BY <1>2, <1>4, <1>6
<1> QED BY <1>6, <1>7, <1>8, <1>9, <1>10

(* Writes to thread->error, and the start of the timer of a suspended one. *)
LEMMA SoundError ==
    ASSUME NEW kk, Sound(kk), NEW t \in Thread, NEW e \in Error
    PROVE  LET r == [kk EXCEPT !.err[t] = e] IN
           /\ Sound(r) /\ SameCurrent(r, kk)
           /\ r.prio = kk.prio /\ r.stat = kk.stat /\ r.list = kk.list
           /\ r.err = [kk.err EXCEPT ![t] = e]
<1> DEFINE r == [kk EXCEPT !.err[t] = e]
<1>1. kk \in KernelState /\ KernelOK(kk) /\ CurrentOK(kk)
  BY DEF Sound
<1>2. /\ r \in KernelState
      /\ r.cur = kk.cur /\ r.lock = kk.lock /\ r.list = kk.list
      /\ r.table = kk.table /\ r.group = kk.group /\ r.stat = kk.stat
      /\ r.prio = kk.prio /\ r.tmr = kk.tmr
      /\ r.err = [kk.err EXCEPT ![t] = e]
  BY <1>1 DEF KernelState
<1> HIDE DEF r
<1>3. KernelOK(r) /\ CurrentOK(r)
  BY <1>1, <1>2, SameLists DEF KernelOK, WaitersSuspended
<1> QED BY <1>1, <1>2, <1>3 DEF Sound, SameCurrent, r

LEMMA SoundTimer ==
    ASSUME NEW kk, Sound(kk), NEW t \in Thread, kk.stat[t] = "suspend"
    PROVE  LET r == StartTimer(kk, t) IN
           /\ Sound(r) /\ SameCurrent(r, kk)
           /\ r.prio = kk.prio /\ r.stat = kk.stat /\ r.list = kk.list /\ r.err = kk.err
<1> DEFINE r == StartTimer(kk, t)
<1>1. kk \in KernelState /\ KernelOK(kk) /\ CurrentOK(kk)
  BY DEF Sound
<1>2. /\ r \in KernelState
      /\ r.cur = kk.cur /\ r.lock = kk.lock /\ r.list = kk.list
      /\ r.table = kk.table /\ r.group = kk.group /\ r.stat = kk.stat
      /\ r.prio = kk.prio /\ r.err = kk.err
      /\ r.tmr = [kk.tmr EXCEPT ![t] = TRUE]
  BY <1>1 DEF KernelState, StartTimer
<1> HIDE DEF r
<1>3. \A u \in Thread : r.tmr[u] => r.stat[u] = "suspend"
  <2> SUFFICES ASSUME NEW u \in Thread, r.tmr[u] PROVE kk.stat[u] = "suspend"
    BY <1>2
  <2>1. CASE u = t
    BY <2>1
  <2>2. CASE u # t
    <3>1. kk.tmr[u]
      BY <1>1, <1>2, <2>2 DEF KernelState
    <3> QED BY <1>1, <3>1 DEF KernelOK, WaitersSuspended
  <2> QED BY <2>1, <2>2
<1>4. KernelOK(r) /\ CurrentOK(r)
  BY <1>1, <1>2, <1>3, SameLists
<1> QED BY <1>1, <1>2, <1>4 DEF Sound, SameCurrent, r

(* A change of priority *)
LEMMA SoundPriority ==
    ASSUME NEW kk, Sound(kk), NEW t \in Thread, NEW p \in Priority
    PROVE  LET r == ChangePriority(kk, t, p) IN
           /\ Sound(r) /\ SameCurrent(r, kk) /\ SameQueues(r, kk)
           /\ r.stat = kk.stat /\ r.err = kk.err
           /\ r.prio = [kk.prio EXCEPT ![t] = p]
<1> DEFINE r == ChangePriority(kk, t, p)
<1>1. kk \in KernelState /\ KernelOK(kk) /\ CurrentOK(kk)
  BY DEF Sound
<1>2. /\ r \in KernelState /\ KernelOK(r) /\ CurrentOK(r) /\ SameQueues(r, kk)
      /\ r.cur = kk.cur /\ r.lock = kk.lock /\ r.stat = kk.stat /\ r.err = kk.err
      /\ r.prio = [kk.prio EXCEPT ![t] = p]
  <2>1. CASE kk.stat[t] = "ready"
    BY <1>1, <2>1, PriorityOfReady
  <2>2. CASE kk.stat[t] # "ready"
    <3>1. r.list = kk.list /\ r \in KernelState /\ KernelOK(r) /\ CurrentOK(r)
          /\ r.cur = kk.cur /\ r.lock = kk.lock /\ r.stat = kk.stat /\ r.err = kk.err
          /\ r.prio = [kk.prio EXCEPT ![t] = p]
      BY <1>1, <2>2, PriorityOfOther
    <3> QED BY <3>1 DEF SameQueues
  <2> QED BY <2>1, <2>2
<1> HIDE DEF r
<1> QED BY <1>1, <1>2 DEF Sound, SameCurrent, r

(* The end of every turn of the loop: the first waiter, told of an error,  *)
(* is off the list and can run.                                            *)
LEMMA RemoveHead ==
    ASSUME NEW T, NEW s \in Seq(T), s # <<>>
    PROVE  /\ RemoveFirst(s, Head(s)) \in Seq(T)
           /\ Len(RemoveFirst(s, Head(s))) = Len(s) - 1
<1> DEFINE I == { i \in 1 .. Len(s) : s[i] = Head(s) }
           l == SubSeq(s, 1, 0)
           m == SubSeq(s, 2, Len(s))
<1>1. Len(s) \in Nat \ {0} /\ s[1] = Head(s)
  BY HeadTailProperties, EmptySeq
<1>2. 1 \in I /\ I \subseteq Nat
  BY <1>1
<1>3. Min(I) \in I /\ Min(I) <= 1
  BY <1>2, MinOfNats
<1>4. Min(I) = 1
  BY <1>2, <1>3
<1>5. RemoveFirst(s, Head(s)) = SubSeq(s, 1, 1 - 1) \o SubSeq(s, 1 + 1, Len(s))
  <2>1. RemoveFirst(s, Head(s)) = RemoveAt(s, Min(I))
    BY <1>1 DEF RemoveFirst, SelectInSeq
  <2> QED BY <1>4, <2>1 DEF RemoveAt
<1>6. RemoveFirst(s, Head(s)) = l \o m
  BY <1>5
<1>7. l \in Seq(T) /\ Len(l) = 0
  BY <1>1, SubSeqProperties
<1>8. m \in Seq(T) /\ Len(m) = Len(s) - 1
  <2>1. PICK i \in 1 .. Len(s) : i = 1
    BY <1>1
  <2>2. /\ SubSeq(s, i + 1, Len(s)) \in Seq(T)
        /\ Len(SubSeq(s, i + 1, Len(s))) = Len(s) - i
    BY SubSeqProperties
  <2>3. m = SubSeq(s, i + 1, Len(s))
    BY <2>1
  <2> QED BY <2>1, <2>2, <2>3
<1> HIDE DEF l, m
<1>9. l \o m \in Seq(T) /\ Len(l \o m) = Len(l) + Len(m)
  BY <1>7, <1>8, ConcatProperties
<1> QED BY <1>1, <1>6, <1>7, <1>8, <1>9

LEMMA SoundTurn ==
    ASSUME NEW kk, Sound(kk), NEW q \in WaitQueue, kk.list[q] # <<>>
    PROVE  LET r == ResumeWithError(kk, q)
               t == Head(kk.list[q])
           IN  /\ t \in Thread /\ Contains(kk.list[q], t)
               /\ Sound(r) /\ SameCurrent(r, kk) /\ r.prio = kk.prio
               /\ r.list[q] = RemoveFirst(kk.list[q], t)
               /\ Len(r.list[q]) = Len(kk.list[q]) - 1
               /\ \A u : Contains(r.list[q], u) <=> Contains(kk.list[q], u) /\ u # t
               /\ \A p \in WaitQueue \ {q} : r.list[p] = kk.list[p]
               /\ r.err[t] = "error"
               /\ r.stat[t] = IF t = kk.cur THEN "running" ELSE "ready"
               /\ \A u \in Thread \ {t} : r.err[u] = kk.err[u] /\ r.stat[u] = kk.stat[u]
<1> DEFINE t  == Head(kk.list[q])
           k1 == [kk EXCEPT !.err[t] = "error"]
           r  == rt_thread_resume(k1, t)
<1>1. kk \in KernelState /\ LinkedOnce(kk) /\ WaitersSuspended(kk)
  BY DEF Sound, KernelOK
<1>2. \A p \in WaitQueue : p \in ListHead /\ kk.list[p] \in Seq(Thread)
  BY <1>1 DEF ListHead, KernelState
<1>3. t \in Thread /\ Contains(kk.list[q], t)
  BY <1>2, EmptyList
<1>4. kk.stat[t] = "suspend"
  BY <1>1, <1>3 DEF WaitersSuspended
<1>5. \A p \in WaitQueue \ {q} : ~Contains(kk.list[p], t)
  BY <1>1, <1>2, <1>3 DEF LinkedOnce
<1> HIDE DEF t
<1>6. /\ Sound(k1) /\ SameCurrent(k1, kk)
      /\ k1.prio = kk.prio /\ k1.stat = kk.stat /\ k1.list = kk.list
      /\ k1.err = [kk.err EXCEPT ![t] = "error"]
  BY <1>3, SoundError DEF Error
<1>7. ResumeWithError(kk, q) = r
  <2>1. ResumeWithError(kk, q) = rt_ipc_list_resume(k1, q)
    BY DEF ResumeWithError, t
  <2>2. rt_ipc_list_resume(k1, q) = rt_thread_resume(k1, Head(k1.list[q]))
    BY DEF rt_ipc_list_resume
  <2> QED BY <1>6, <2>1, <2>2 DEF t
<1>8. /\ \A u \in Thread \ {t} : k1.err[u] = kk.err[u]
      /\ k1.err[t] = "error"
  BY <1>1, <1>3, <1>6 DEF KernelState
<1> HIDE DEF k1
<1>9. /\ Sound(r) /\ SameCurrent(r, k1)
      /\ r.prio = k1.prio /\ r.err = k1.err
      /\ r.stat[t] = IF t = k1.cur THEN "running" ELSE "ready"
      /\ \A u \in Thread \ {t} : r.stat[u] = k1.stat[u]
      /\ \A p \in WaitQueue : r.list[p] = RemoveFirst(k1.list[p], t)
  BY <1>3, <1>4, <1>6, SoundResume
<1> HIDE DEF r
<1>10. r.list[q] = RemoveFirst(kk.list[q], t)
  BY <1>6, <1>9
<1>11. Len(r.list[q]) = Len(kk.list[q]) - 1
  BY <1>2, <1>10, RemoveHead DEF t
<1>12. \A u : Contains(r.list[q], u) <=> Contains(kk.list[q], u) /\ u # t
  BY <1>1, <1>2, <1>10, RemoveFromList DEF LinkedOnce
<1>13. \A p \in WaitQueue \ {q} : r.list[p] = kk.list[p]
  BY <1>2, <1>5, <1>6, <1>9, RemoveNothing
<1>14. /\ \A u \in Thread \ {t} : r.err[u] = kk.err[u] /\ r.stat[u] = kk.stat[u]
       /\ r.err[t] = "error"
       /\ r.stat[t] = IF t = kk.cur THEN "running" ELSE "ready"
       /\ r.prio = kk.prio /\ SameCurrent(r, kk)
  BY <1>6, <1>8, <1>9 DEF SameCurrent
<1> QED BY <1>3, <1>7, <1>9, <1>10, <1>11, <1>12, <1>13, <1>14 DEF t

(* Induction over the naturals, for a set of them. *)
LEMMA InductiveSet ==
    ASSUME NEW S, 0 \in S, \A n \in Nat : n \in S => n + 1 \in S
    PROVE  Nat \subseteq S
<1> SUFFICES ASSUME ~(Nat \subseteq S) PROVE FALSE
  OBVIOUS
<1> DEFINE R == Nat \ S
<1>1. R \subseteq Nat /\ R # {}
  OBVIOUS
<1>2. Min(R) \in R /\ \A x \in R : Min(R) <= x
  BY <1>1, MinOfNats
<1> DEFINE m == Min(R)
<1>3. m \in Nat \ {0} /\ m \notin S
  BY <1>2
<1>4. m - 1 \in Nat /\ m - 1 \notin R
  BY <1>2, <1>3
<1>5. (m - 1) + 1 \in S
  BY <1>4
<1> QED BY <1>3, <1>5

(* g is the kernel kk after each of the first m turns, as the definition   *)
(* of the loop numbers them; they do exist.                                *)
Turns(g, m, kk, q) ==
    g = [n \in 0 .. m |-> IF n = 0 THEN kk ELSE ResumeWithError(g[n - 1], q)]

LEMMA TurnsExist ==
    ASSUME NEW kk, NEW q, NEW m \in Nat
    PROVE  \E g : Turns(g, m, kk, q)
<1> USE DEF Turns
<1> DEFINE S == { n \in Nat : \E g : Turns(g, n, kk, q) }
<1>1. 0 \in S
  <2> DEFINE g == [n \in 0 .. 0 |-> kk]
  <2>1. Turns(g, 0, kk, q)
    OBVIOUS
  <2> QED BY <2>1
<1>2. ASSUME NEW i \in Nat, i \in S PROVE i + 1 \in S
  <2>1. PICK g : Turns(g, i, kk, q)
    BY <1>2
  <2> DEFINE h == [n \in 0 .. i + 1 |->
                      IF n <= i THEN g[n] ELSE ResumeWithError(g[i], q)]
  <2>2. ASSUME NEW n \in 0 .. i + 1
        PROVE  h[n] = IF n = 0 THEN kk ELSE ResumeWithError(h[n - 1], q)
    <3>1. CASE n = 0
      BY <2>1, <3>1
    <3>2. CASE n # 0 /\ n <= i
      <4>1. n \in 0 .. i /\ n - 1 \in 0 .. i
        BY <3>2
      <4>2. g[n] = ResumeWithError(g[n - 1], q)
        BY <2>1, <3>2, <4>1
      <4>3. h[n] = g[n] /\ h[n - 1] = g[n - 1]
        BY <4>1
      <4> QED BY <3>2, <4>2, <4>3
    <3>3. CASE n = i + 1
      <4>1. h[n] = ResumeWithError(g[i], q) /\ h[n - 1] = g[i]
        BY <3>3
      <4> QED BY <3>3, <4>1
    <3> QED BY <3>1, <3>2, <3>3
  <2>3. Turns(h, i + 1, kk, q)
    BY <2>2
  <2>4. \E x : Turns(x, i + 1, kk, q)
    <3> HIDE DEF h, Turns
    <3> QED BY <2>3
  <2> QED BY <2>4
<1> HIDE DEF S
<1>3. Nat \subseteq S
  BY <1>1, <1>2, InductiveSet
<1> QED BY <1>3 DEF S

(* After n turns of the loop of rt_ipc_list_resume_all: the threads that   *)
(* have left the list were told of an error and can run.                   *)
Resumed(r, kk, q, n) ==
    /\ Sound(r) /\ SameCurrent(r, kk) /\ r.prio = kk.prio
    /\ Len(r.list[q]) = Len(kk.list[q]) - n
    /\ \A p \in WaitQueue \ {q} : r.list[p] = kk.list[p]
    /\ \A u : Contains(r.list[q], u) => Contains(kk.list[q], u)
    /\ \A u \in Thread :
          IF Contains(kk.list[q], u) /\ ~Contains(r.list[q], u)
          THEN /\ r.err[u] = "error"
               /\ r.stat[u] = IF u = kk.cur THEN "running" ELSE "ready"
          ELSE r.err[u] = kk.err[u] /\ r.stat[u] = kk.stat[u]

LEMMA TurnResumes ==
    ASSUME NEW kk, Sound(kk), NEW q \in WaitQueue, NEW n \in Nat, n + 1 <= Len(kk.list[q]),
           NEW a, Resumed(a, kk, q, n)
    PROVE  Resumed(ResumeWithError(a, q), kk, q, n + 1)
<1> DEFINE b == ResumeWithError(a, q)
           t == Head(a.list[q])
<1>1. Sound(a) /\ Len(kk.list[q]) \in Nat
  <2>1. kk.list[q] \in Seq(Thread)
    BY DEF Sound, KernelState, ListHead
  <2> QED BY <2>1 DEF Resumed
<1>2. a.list[q] # <<>>
  <2>1. Len(a.list[q]) = Len(kk.list[q]) - n /\ Len(kk.list[q]) - n # 0
    BY <1>1 DEF Resumed
  <2> QED BY <2>1
<1>3. t \in Thread /\ Contains(a.list[q], t) /\ Sound(b) /\ SameCurrent(b, a)
  BY <1>1, <1>2, SoundTurn
<1>4. b.prio = a.prio /\ \A p \in WaitQueue \ {q} : b.list[p] = a.list[p]
  BY <1>1, <1>2, SoundTurn
<1>5. Len(b.list[q]) = Len(a.list[q]) - 1
  BY <1>1, <1>2, SoundTurn
<1>6. \A u : Contains(b.list[q], u) <=> Contains(a.list[q], u) /\ u # t
  <2>1. b.list[q] = RemoveFirst(a.list[q], t)
    BY <1>1, <1>2, SoundTurn
  <2>2. a.list[q] \in Seq(Thread) /\ IsInjective(a.list[q])
    BY <1>1 DEF Sound, KernelState, KernelOK, LinkedOnce, ListHead
  <2> QED BY <2>1, <2>2, RemoveFromList
<1>7. /\ b.err[t] = "error"
      /\ b.stat[t] = IF t = a.cur THEN "running" ELSE "ready"
  BY <1>1, <1>2, SoundTurn
<1>8. \A u \in Thread \ {t} : b.err[u] = a.err[u] /\ b.stat[u] = a.stat[u]
  BY <1>1, <1>2, SoundTurn
<1> HIDE DEF b, t
<1>9. Sound(b) /\ SameCurrent(b, kk) /\ b.prio = kk.prio
  BY <1>3, <1>4 DEF Resumed, SameCurrent
<1>10. Len(b.list[q]) = Len(kk.list[q]) - (n + 1)
  BY <1>1, <1>5 DEF Resumed
<1>11. \A p \in WaitQueue \ {q} : b.list[p] = kk.list[p]
  BY <1>4 DEF Resumed
<1>12. \A u : Contains(b.list[q], u) => Contains(kk.list[q], u)
  BY <1>6 DEF Resumed
<1>13. ASSUME NEW u \in Thread
      PROVE  IF Contains(kk.list[q], u) /\ ~Contains(b.list[q], u)
             THEN /\ b.err[u] = "error"
                  /\ b.stat[u] = IF u = kk.cur THEN "running" ELSE "ready"
             ELSE b.err[u] = kk.err[u] /\ b.stat[u] = kk.stat[u]
  <2>1. a.cur = kk.cur
    BY DEF Resumed, SameCurrent
  <2>2. IF Contains(kk.list[q], u) /\ ~Contains(a.list[q], u)
        THEN /\ a.err[u] = "error"
             /\ a.stat[u] = IF u = kk.cur THEN "running" ELSE "ready"
        ELSE a.err[u] = kk.err[u] /\ a.stat[u] = kk.stat[u]
    BY DEF Resumed
  <2>3. Contains(kk.list[q], t)
    BY <1>3 DEF Resumed
  <2>4. Contains(b.list[q], u) <=> Contains(a.list[q], u) /\ u # t
    BY <1>6
  <2>5. CASE u = t
    BY <1>7, <2>1, <2>3, <2>4, <2>5
  <2>6. CASE u # t
    <3>1. b.err[u] = a.err[u] /\ b.stat[u] = a.stat[u]
      BY <1>8, <2>6
    <3> QED BY <2>2, <2>4, <2>6, <3>1
  <2> QED BY <2>5, <2>6
<1> QED BY <1>9, <1>10, <1>11, <1>12, <1>13 DEF Resumed, b

(* The whole loop, with interrupts disabled: everybody who waited is told  *)
(* of an error and can run, nobody else notices.                           *)
LEMMA SoundResumeAll ==
    ASSUME NEW kk, Sound(kk), NEW q \in WaitQueue
    PROVE  LET r == rt_ipc_list_resume_all(kk, q) IN
           /\ Sound(r) /\ SameCurrent(r, kk) /\ r.prio = kk.prio
           /\ r.list[q] = <<>>
           /\ \A p \in WaitQueue \ {q} : r.list[p] = kk.list[p]
           /\ \A u \in Thread :
                 IF Contains(kk.list[q], u)
                 THEN /\ r.err[u] = "error"
                      /\ r.stat[u] = IF u = kk.cur THEN "running" ELSE "ready"
                 ELSE r.err[u] = kk.err[u] /\ r.stat[u] = kk.stat[u]
<1> DEFINE L == Len(kk.list[q])
           turns == CHOOSE g : Turns(g, L, kk, q)
           S == { n \in Nat : n <= L => Resumed(turns[n], kk, q, n) }
<1>1. q \in ListHead /\ kk.list[q] \in Seq(Thread) /\ L \in Nat
  BY DEF Sound, KernelState, ListHead
<1>2. turns = [n \in 0 .. L |-> IF n = 0 THEN kk ELSE ResumeWithError(turns[n - 1], q)]
  <2>1. \E g : Turns(g, L, kk, q)
    BY <1>1, TurnsExist
  <2>2. Turns(turns, L, kk, q)
    BY <2>1, Zenon
  <2> QED BY <2>2 DEF Turns
<1>3. rt_ipc_list_resume_all(kk, q) = turns[L]
  BY DEF rt_ipc_list_resume_all, Turns
<1> HIDE DEF turns
<1>4. turns[0] = kk /\ \A n \in 0 .. L : n # 0 => turns[n] = ResumeWithError(turns[n - 1], q)
  <2>1. ASSUME NEW n \in 0 .. L
        PROVE  turns[n] = IF n = 0 THEN kk ELSE ResumeWithError(turns[n - 1], q)
    <3> DEFINE g == [n1 \in 0 .. L |->
                        IF n1 = 0 THEN kk ELSE ResumeWithError(turns[n1 - 1], q)]
    <3>1. g[n] = IF n = 0 THEN kk ELSE ResumeWithError(turns[n - 1], q)
      OBVIOUS
    <3>2. turns = g
      BY <1>2
    <3> HIDE DEF g
    <3> QED BY <3>1, <3>2
  <2> QED BY <1>1, <2>1
<1>5. 0 \in S
  <2>1. Resumed(kk, kk, q, 0)
    BY <1>1 DEF SameCurrent, Resumed
  <2> QED BY <1>4, <2>1
<1>6. ASSUME NEW n \in Nat, n \in S PROVE n + 1 \in S
  <2> SUFFICES ASSUME n + 1 <= L PROVE Resumed(turns[n + 1], kk, q, n + 1)
    BY DEF S
  <2>1. Resumed(turns[n], kk, q, n)
    BY <1>1, <1>6
  <2>2. turns[n + 1] = ResumeWithError(turns[n], q)
    <3>1. n + 1 \in 0 .. L /\ n + 1 # 0 /\ (n + 1) - 1 = n
      BY <1>1
    <3> QED BY <1>4, <3>1
  <2> QED BY <2>1, <2>2, TurnResumes
<1>7. Resumed(turns[L], kk, q, L)
  <2>1. Nat \subseteq S
    <3> HIDE DEF S
    <3> QED BY <1>5, <1>6, InductiveSet
  <2> QED BY <1>1, <2>1
<1> DEFINE r == turns[L]
<1> HIDE DEF r
<1>8. Resumed(r, kk, q, L)
  BY <1>7 DEF r
<1>9. r.list[q] = <<>>
  <2>1. r.list[q] \in Seq(Thread) /\ Len(r.list[q]) = 0
    BY <1>1, <1>8 DEF Sound, KernelState, Resumed
  <2> QED BY <2>1, EmptySeq
<1>10. \A u : ~Contains(r.list[q], u)
  BY <1>9 DEF Contains
<1> QED BY <1>3, <1>8, <1>9, <1>10 DEF r, Resumed

(* The kernel when the scheduler starts.                                   *)
LEMMA SoundStart ==
    ASSUME NEW first \in Thread, NEW priority \in [Thread -> Priority],
           NEW ready \in [Priority -> Seq(Thread)],
           KernelOK(KernelStart(first, priority, ready)),
           Idle = first \/ Contains(ready[priority[Idle]], Idle)
    PROVE  LET r == KernelStart(first, priority, ready) IN
           /\ Sound(r)
           /\ r.cur = first /\ r.prio = priority
           /\ r.stat[r.cur] = "running"
           /\ \A q \in WaitQueue : r.list[q] = <<>>
           /\ \A t \in Thread : r.stat[t] # "suspend" /\ r.err[t] = "ok" /\ ~r.tmr[t]
<1> USE KernelAssumption
<1> DEFINE r == KernelStart(first, priority, ready)
<1>1. /\ r.cur = first /\ r.lock = 0
      /\ r.table = { p \in Priority : ready[p] # <<>> }
      /\ r.group = { p \div GroupSize : p \in { q \in Priority : ready[q] # <<>> } }
      /\ r.list = [h \in ListHead |-> IF h \in Priority THEN ready[h] ELSE <<>>]
      /\ r.prio = priority
      /\ r.err = [t \in Thread |-> "ok"]
      /\ r.tmr = [t \in Thread |-> FALSE]
      /\ r.stat = [t \in Thread |->
                      IF t = first THEN "running"
                      ELSE IF Contains(ready[priority[t]], t)
                           THEN "ready" ELSE "init"]
  BY DEF KernelStart
<1>2. r \in KernelState
  <2>1. r.list \in [ListHead -> Seq(Thread)]
    BY <1>1
  <2>2. r.group \in SUBSET Group
    BY <1>1 DEF Group
  <2>3. r.stat \in [Thread -> Stat] /\ r.err \in [Thread -> Error]
    BY <1>1 DEF Stat, Error
  <2> QED BY <1>1, <2>1, <2>2, <2>3 DEF KernelState, KernelStart
<1>3. CurrentOK(r) /\ KernelOK(r)
  BY <1>1 DEF CurrentOK
<1>4. \A q \in WaitQueue : r.list[q] = <<>>
  BY <1>1, QueuesAreNotPriorities DEF ListHead
<1>5. r.stat[Idle] \in {"ready", "running"} /\ r.stat[r.cur] = "running"
      /\ \A t \in Thread : r.stat[t] # "suspend" /\ r.err[t] = "ok" /\ ~r.tmr[t]
  BY <1>1
<1> HIDE DEF r
<1>6. Sound(r)
  BY <1>1, <1>2, <1>3, <1>5 DEF Sound, Runnable
<1> QED BY <1>1, <1>4, <1>5, <1>6 DEF r

-----------------------------------------------------------------------------
(* The threads in their calls of the IPC objects: at[t] is where t is.     *)
(* Who has the CPU without running is on its way from its suspension to    *)
(* rt_schedule; a thread in a list of waiters is in a blocking call and    *)
(* was not told of an error, and a thread suspended in one is in a list.   *)
AtSwitch == {"sched", "sleep"}

InCall == {"sched", "woken", "sleep", "slept"}

InList(kk, q, t) == Contains(kk.list[q], t)

ThreadsOK(kk, at) ==
    /\ Sound(kk)
    /\ at[Idle] = "user"
    /\ kk.stat[kk.cur] # "running" => at[kk.cur] \in AtSwitch
    /\ \A t \in Thread : kk.stat[t] = "suspend" => at[t] \in InCall
    /\ \A t \in Thread, q \in WaitQueue :
          InList(kk, q, t) => kk.err[t] = "ok" /\ at[t] \in {"sched", "woken"}
    /\ \A t \in Thread :
          kk.stat[t] = "suspend" /\ at[t] \in {"sched", "woken"} =>
              \E q \in WaitQueue : InList(kk, q, t)

(* What ThreadsOK says of one thread. *)
LEMMA ThreadOK ==
    ASSUME NEW kk, NEW at, ThreadsOK(kk, at), NEW t \in Thread
    PROVE  /\ kk.stat[t] = "suspend" => at[t] \in InCall
           /\ kk.stat[t] = "suspend" /\ at[t] \in {"sched", "woken"} =>
                 \E q \in WaitQueue : InList(kk, q, t)
           /\ \A q \in WaitQueue : InList(kk, q, t) =>
                 kk.err[t] = "ok" /\ at[t] \in {"sched", "woken"} /\ kk.stat[t] = "suspend"
           /\ kk.tmr[t] => kk.stat[t] = "suspend"
BY DEF ThreadsOK, Sound, KernelOK, WaitersSuspended, InList

LEMMA QueueOK ==
    ASSUME NEW kk, Sound(kk), NEW q \in WaitQueue
    PROVE  /\ kk.list[q] \in Seq(Thread) /\ IsInjective(kk.list[q])
           /\ kk.list[q] = <<>> <=> \A t \in Thread : ~InList(kk, q, t)
           /\ kk.list[q] # <<>> => Head(kk.list[q]) \in Thread /\ InList(kk, q, Head(kk.list[q]))
<1>1. kk.list[q] \in Seq(Thread) /\ IsInjective(kk.list[q])
  BY DEF Sound, KernelState, KernelOK, LinkedOnce, ListHead
<1> QED BY <1>1, EmptyList DEF InList

(* Whoever makes a call runs and waits nowhere.                            *)
LEMMA CallerRunning ==
    ASSUME NEW kk, NEW at, ThreadsOK(kk, at), at[kk.cur] \notin AtSwitch
    PROVE  /\ kk.cur \in Thread /\ kk.stat[kk.cur] = "running"
           /\ \A q \in WaitQueue : ~InList(kk, q, kk.cur)
<1>1. kk.cur \in Thread /\ kk.stat[kk.cur] = "running"
  BY DEF ThreadsOK, Sound, KernelState
<1> QED BY <1>1, ThreadOK

(* The running thread goes on in its call, and may write to its error.     *)
GoesOn(r, kk, to, at) ==
    /\ Sound(r) /\ r.cur = kk.cur /\ r.stat = kk.stat
    /\ \A q \in WaitQueue : r.list[q] = kk.list[q]
    /\ \A u \in Thread \ {kk.cur} : r.err[u] = kk.err[u] /\ to[u] = at[u]

LEMMA CallerMoves ==
    ASSUME NEW kk, NEW at, ThreadsOK(kk, at), at[kk.cur] \notin AtSwitch, kk.cur # Idle,
           NEW r, NEW to, GoesOn(r, kk, to, at)
    PROVE  ThreadsOK(r, to)
<1> USE DEF GoesOn
<1> USE KernelAssumption
<1>1. /\ kk.cur \in Thread /\ kk.stat[kk.cur] = "running"
      /\ \A q \in WaitQueue : ~InList(kk, q, kk.cur)
  BY CallerRunning
<1>2. ASSUME NEW u \in Thread
      PROVE  /\ r.stat[u] = "suspend" => to[u] \in InCall
             /\ r.stat[u] = "suspend" /\ to[u] \in {"sched", "woken"} =>
                   \E q \in WaitQueue : InList(r, q, u)
             /\ \A q \in WaitQueue : InList(r, q, u) =>
                   r.err[u] = "ok" /\ to[u] \in {"sched", "woken"}
  <2>1. CASE u = kk.cur
    BY <1>1, <2>1 DEF InList
  <2>2. CASE u # kk.cur
    BY <2>2, ThreadOK DEF InList
  <2> QED BY <2>1, <2>2
<1>3. to[Idle] = "user"
  BY DEF ThreadsOK
<1> QED BY <1>1, <1>2, <1>3 DEF ThreadsOK

(* rt_schedule, from a call or at the end of a slice: a thread that goes   *)
(* from sched to woken is still in its call.                               *)
LEMMA CallsSchedule ==
    ASSUME NEW kk, NEW at, ThreadsOK(kk, at), NEW to,
           \A u \in Thread :
              \/ to[u] = at[u]
              \/ at[u] = "sched" /\ to[u] = "woken"
              \/ at[u] = "sleep" /\ to[u] = "slept"
              \/ at[u] = "released" /\ to[u] = "user"
    PROVE  LET r == rt_schedule(kk) IN
           /\ ThreadsOK(r, to)
           /\ r.prio = kk.prio /\ r.err = kk.err
           /\ \A q \in WaitQueue : r.list[q] = kk.list[q]
<1> DEFINE r == rt_schedule(kk)
<1> USE KernelAssumption
<1>1. /\ Sound(r) /\ SameQueues(r, kk)
      /\ r.prio = kk.prio /\ r.err = kk.err
      /\ r.stat[r.cur] = "running"
      /\ \A u \in Thread : r.stat[u] = "suspend" <=> kk.stat[u] = "suspend"
  BY SoundSchedule DEF ThreadsOK
<1> HIDE DEF r
<1>2. \A q \in WaitQueue : r.list[q] = kk.list[q]
  BY <1>1 DEF SameQueues
<1>3. ASSUME NEW u \in Thread
      PROVE  /\ r.stat[u] = "suspend" => to[u] \in InCall
             /\ r.stat[u] = "suspend" /\ to[u] \in {"sched", "woken"} =>
                   \E q \in WaitQueue : InList(r, q, u)
             /\ \A q \in WaitQueue : InList(r, q, u) =>
                   r.err[u] = "ok" /\ to[u] \in {"sched", "woken"}
  <2>1. to[u] \in {"sched", "woken"} <=> at[u] \in {"sched", "woken"}
    OBVIOUS
  <2>2. at[u] \in InCall => to[u] \in InCall
    BY DEF InCall
  <2> QED BY <1>1, <1>2, <2>1, <2>2, ThreadOK DEF InList
<1>4. to[Idle] = "user"
  BY DEF ThreadsOK
<1> QED BY <1>1, <1>2, <1>3, <1>4 DEF ThreadsOK, r

(* The timer of u, in its call or asleep.                                  *)
LEMMA CallsTimeout ==
    ASSUME NEW kk, NEW at, ThreadsOK(kk, at), NEW u \in Thread, kk.tmr[u]
    PROVE  LET r == rt_thread_timeout(kk, u) IN
           /\ ThreadsOK(r, at) /\ r.prio = kk.prio
           /\ kk.stat[u] = "suspend"
           /\ \A v \in Thread : r.err[v] = IF v = u THEN "timeout" ELSE kk.err[v]
           /\ \A q \in WaitQueue :
                 /\ r.list[q] = RemoveFirst(kk.list[q], u)
                 /\ \A v : InList(r, q, v) <=> InList(kk, q, v) /\ v # u
<1> DEFINE r == rt_thread_timeout(kk, u)
<1> USE KernelAssumption
<1>1. Sound(kk) /\ kk.stat[u] = "suspend"
  BY ThreadOK DEF ThreadsOK
<1>2. /\ Sound(r) /\ r.prio = kk.prio
      /\ \A v \in Thread : r.err[v] = IF v = u THEN "timeout" ELSE kk.err[v]
      /\ r.stat[r.cur] = "running"
      /\ \A v \in Thread : r.stat[v] = "suspend" <=> kk.stat[v] = "suspend" /\ v # u
      /\ \A q \in WaitQueue : r.list[q] = RemoveFirst(kk.list[q], u)
  BY <1>1, SoundTimeout
<1> HIDE DEF r
<1>3. \A q \in WaitQueue : \A v : InList(r, q, v) <=> InList(kk, q, v) /\ v # u
  BY <1>1, <1>2, QueueOK, RemoveFromList DEF InList
<1>4. ASSUME NEW v \in Thread
      PROVE  /\ r.stat[v] = "suspend" => at[v] \in InCall
             /\ r.stat[v] = "suspend" /\ at[v] \in {"sched", "woken"} =>
                   \E q \in WaitQueue : InList(r, q, v)
             /\ \A q \in WaitQueue : InList(r, q, v) =>
                   r.err[v] = "ok" /\ at[v] \in {"sched", "woken"}
  BY <1>2, <1>3, ThreadOK
<1> QED BY <1>1, <1>2, <1>3, <1>4 DEF ThreadsOK, r

(* An object wakes t, one of those that wait in its list q.                *)
LEMMA CallsResume ==
    ASSUME NEW kk, NEW at, ThreadsOK(kk, at), NEW q \in WaitQueue,
           NEW t \in Thread, InList(kk, q, t)
    PROVE  LET r == rt_thread_resume(kk, t) IN
           /\ ThreadsOK(r, at) /\ r.cur = kk.cur
           /\ r.prio = kk.prio /\ r.err = kk.err
           /\ r.list[q] = RemoveFirst(kk.list[q], t)
           /\ \A v : InList(r, q, v) <=> InList(kk, q, v) /\ v # t
           /\ \A p \in WaitQueue \ {q} : r.list[p] = kk.list[p]
           /\ r.stat[t] \in Runnable
<1> DEFINE r == rt_thread_resume(kk, t)
<1> USE KernelAssumption
<1>1. Sound(kk) /\ kk.stat[t] = "suspend" /\ kk.err[t] = "ok" /\ at[t] \in {"sched", "woken"}
  BY ThreadOK DEF ThreadsOK
<1>2. /\ Sound(r) /\ SameCurrent(r, kk)
      /\ r.prio = kk.prio /\ r.err = kk.err
      /\ r.stat[t] = IF t = kk.cur THEN "running" ELSE "ready"
      /\ \A u \in Thread \ {t} : r.stat[u] = kk.stat[u]
      /\ \A p \in WaitQueue : r.list[p] = RemoveFirst(kk.list[p], t)
  BY <1>1, SoundResume
<1> HIDE DEF r
<1>3. \A p \in WaitQueue : \A v : InList(r, p, v) <=> InList(kk, p, v) /\ v # t
  BY <1>1, <1>2, QueueOK, RemoveFromList DEF InList
<1>4. \A p \in WaitQueue \ {q} : r.list[p] = kk.list[p]
  <2>1. \A p \in WaitQueue \ {q} : ~Contains(kk.list[p], t)
    BY <1>1 DEF Sound, KernelOK, LinkedOnce, InList, ListHead
  <2> QED BY <1>1, <1>2, <2>1, QueueOK, RemoveNothing
<1>5. ASSUME NEW v \in Thread
      PROVE  /\ r.stat[v] = "suspend" => at[v] \in InCall
             /\ r.stat[v] = "suspend" /\ at[v] \in {"sched", "woken"} =>
                   \E p \in WaitQueue : InList(r, p, v)
             /\ \A p \in WaitQueue : InList(r, p, v) =>
                   r.err[v] = "ok" /\ at[v] \in {"sched", "woken"}
  <2>1. CASE v = t
    BY <1>2, <1>3, <2>1
  <2>2. CASE v # t
    BY <1>2, <1>3, <2>2, ThreadOK
  <2> QED BY <2>1, <2>2
<1>6. r.stat[r.cur] # "running" => at[r.cur] \in AtSwitch
  BY <1>2 DEF ThreadsOK, SameCurrent, Sound, KernelState
<1>7. r.stat[t] \in Runnable
  BY <1>2 DEF Runnable
<1>8. ThreadsOK(r, at)
  BY <1>2, <1>5, <1>6 DEF ThreadsOK
<1> QED BY <1>2, <1>3, <1>4, <1>7, <1>8 DEF SameCurrent, r

(* One turn of rt_ipc_list_resume_all, and the loop with interrupts        *)
(* disabled.                                                               *)
LEMMA CallsTurn ==
    ASSUME NEW kk, NEW at, ThreadsOK(kk, at), NEW q \in WaitQueue, kk.list[q] # <<>>
    PROVE  LET r == ResumeWithError(kk, q)
               t == Head(kk.list[q])
           IN  /\ t \in Thread /\ InList(kk, q, t)
               /\ ThreadsOK(r, at) /\ r.cur = kk.cur /\ r.prio = kk.prio
               /\ \A v \in Thread : r.err[v] = IF v = t THEN "error" ELSE kk.err[v]
               /\ r.list[q] = RemoveFirst(kk.list[q], t)
               /\ \A v : InList(r, q, v) <=> InList(kk, q, v) /\ v # t
               /\ \A p \in WaitQueue \ {q} : r.list[p] = kk.list[p]
<1> DEFINE r == ResumeWithError(kk, q)
           t == Head(kk.list[q])
<1>1. Sound(kk)
  BY DEF ThreadsOK
<1>2. /\ t \in Thread /\ InList(kk, q, t)
      /\ Sound(r) /\ SameCurrent(r, kk) /\ r.prio = kk.prio
      /\ r.list[q] = RemoveFirst(kk.list[q], t)
      /\ \A p \in WaitQueue \ {q} : r.list[p] = kk.list[p]
      /\ r.err[t] = "error"
      /\ r.stat[t] = IF t = kk.cur THEN "running" ELSE "ready"
      /\ \A u \in Thread \ {t} : r.err[u] = kk.err[u] /\ r.stat[u] = kk.stat[u]
  BY <1>1, SoundTurn DEF InList
<1> HIDE DEF r, t
<1>3. \A v : InList(r, q, v) <=> InList(kk, q, v) /\ v # t
  BY <1>1, <1>2, QueueOK, RemoveFromList DEF InList
<1>4. ASSUME NEW p \in WaitQueue, InList(r, p, t)
      PROVE  FALSE
  <2>1. CASE p = q
    BY <1>3, <1>4, <2>1
  <2>2. CASE p # q
    <3>1. InList(kk, p, t)
      BY <1>2, <1>4, <2>2 DEF InList
    <3> QED BY <1>1, <1>2, <2>2, <3>1 DEF Sound, KernelOK, LinkedOnce, InList, ListHead
  <2> QED BY <2>1, <2>2
<1>5. ASSUME NEW v \in Thread \ {t}, NEW p \in WaitQueue
      PROVE  InList(r, p, v) <=> InList(kk, p, v)
  <2>1. CASE p = q
    BY <1>3, <2>1
  <2>2. CASE p # q
    BY <1>2, <2>2 DEF InList
  <2> QED BY <2>1, <2>2
<1>6. ASSUME NEW v \in Thread
      PROVE  /\ r.stat[v] = "suspend" => at[v] \in InCall
             /\ r.stat[v] = "suspend" /\ at[v] \in {"sched", "woken"} =>
                   \E p \in WaitQueue : InList(r, p, v)
             /\ \A p \in WaitQueue : InList(r, p, v) =>
                   r.err[v] = "ok" /\ at[v] \in {"sched", "woken"}
  <2>1. CASE v = t
    BY <1>2, <1>4, <2>1
  <2>2. CASE v # t
    BY <1>2, <1>5, <2>2, ThreadOK
  <2> QED BY <2>1, <2>2
<1>7. r.stat[r.cur] # "running" => at[r.cur] \in AtSwitch
  BY <1>2 DEF ThreadsOK, SameCurrent, Sound, KernelState
<1>8. ThreadsOK(r, at)
  BY <1>2, <1>6, <1>7 DEF ThreadsOK
<1> QED BY <1>2, <1>3, <1>8 DEF SameCurrent, r, t

LEMMA CallsResumeAll ==
    ASSUME NEW kk, NEW at, ThreadsOK(kk, at), NEW q \in WaitQueue
    PROVE  LET r == rt_ipc_list_resume_all(kk, q) IN
           /\ ThreadsOK(r, at) /\ r.cur = kk.cur /\ r.prio = kk.prio
           /\ \A v \in Thread : r.err[v] = IF InList(kk, q, v) THEN "error" ELSE kk.err[v]
           /\ r.list[q] = <<>>
           /\ \A v : ~InList(r, q, v)
           /\ \A p \in WaitQueue \ {q} : r.list[p] = kk.list[p]
<1> DEFINE r == rt_ipc_list_resume_all(kk, q)
<1>1. Sound(kk)
  BY DEF ThreadsOK
<1>2. /\ Sound(r) /\ SameCurrent(r, kk) /\ r.prio = kk.prio
      /\ r.list[q] = <<>>
      /\ \A p \in WaitQueue \ {q} : r.list[p] = kk.list[p]
      /\ \A u \in Thread :
            IF InList(kk, q, u)
            THEN /\ r.err[u] = "error"
                 /\ r.stat[u] = IF u = kk.cur THEN "running" ELSE "ready"
            ELSE r.err[u] = kk.err[u] /\ r.stat[u] = kk.stat[u]
  BY <1>1, SoundResumeAll DEF InList
<1> HIDE DEF r
<1>3. \A v : ~InList(r, q, v)
  BY <1>2 DEF InList, Contains
<1>4. ASSUME NEW v \in Thread
      PROVE  /\ r.stat[v] = "suspend" => at[v] \in InCall
             /\ r.stat[v] = "suspend" /\ at[v] \in {"sched", "woken"} =>
                   \E p \in WaitQueue : InList(r, p, v)
             /\ \A p \in WaitQueue : InList(r, p, v) =>
                   r.err[v] = "ok" /\ at[v] \in {"sched", "woken"}
  <2>1. CASE InList(kk, q, v)
    <3>1. r.stat[v] # "suspend"
      BY <1>2, <2>1
    <3>2. ASSUME NEW p \in WaitQueue, InList(r, p, v)
          PROVE  FALSE
      <4>1. p # q
        BY <1>3, <3>2
      <4>2. InList(kk, p, v)
        BY <1>2, <3>2, <4>1 DEF InList
      <4> QED BY <1>1, <2>1, <4>1, <4>2 DEF Sound, KernelOK, LinkedOnce, InList, ListHead
    <3> QED BY <3>1, <3>2
  <2>2. CASE ~InList(kk, q, v)
    <3>1. \A p \in WaitQueue : InList(r, p, v) <=> InList(kk, p, v)
      BY <1>2, <1>3, <2>2 DEF InList
    <3>2. r.err[v] = kk.err[v] /\ r.stat[v] = kk.stat[v]
      BY <1>2, <2>2
    <3> QED BY <3>1, <3>2, ThreadOK
  <2> QED BY <2>1, <2>2
<1>5. r.stat[r.cur] # "running" => at[r.cur] \in AtSwitch
  <2>1. kk.cur \in Thread /\ r.cur = kk.cur
    BY <1>1, <1>2 DEF SameCurrent, Sound, KernelState
  <2>2. CASE InList(kk, q, kk.cur)
    BY <1>2, <2>1, <2>2
  <2>3. CASE ~InList(kk, q, kk.cur)
    BY <1>2, <2>1, <2>3 DEF ThreadsOK
  <2> QED BY <2>2, <2>3
<1>6. ThreadsOK(r, at)
  BY <1>2, <1>4, <1>5 DEF ThreadsOK
<1> QED BY <1>2, <1>3, <1>6 DEF SameCurrent, r

(* The running thread puts itself in the list q, in the place that the     *)
(* list has for it, with or without a time limit.                          *)
LEMMA CallsJoin ==
    ASSUME NEW kk, NEW at, ThreadsOK(kk, at), kk.cur # Idle, at[kk.cur] \notin AtSwitch,
           NEW q \in WaitQueue, NEW l \in Seq(Thread), IsInjective(l),
           \A x : Contains(l, x) <=> Contains(kk.list[q], x) \/ x = kk.cur,
           NEW r, Sound(r), r.cur = kk.cur, r.list[q] = l,
           \A p \in WaitQueue \ {q} : r.list[p] = kk.list[p],
           \A u \in Thread \ {kk.cur} : r.err[u] = kk.err[u] /\ r.stat[u] = kk.stat[u],
           r.err[kk.cur] = "ok",
           NEW to, to[kk.cur] = "sched", \A u \in Thread \ {kk.cur} : to[u] = at[u]
    PROVE  /\ ThreadsOK(r, to)
           /\ \A v : InList(r, q, v) <=> InList(kk, q, v) \/ v = kk.cur
<1> USE KernelAssumption
<1>1. /\ kk.cur \in Thread /\ kk.stat[kk.cur] = "running"
      /\ \A p \in WaitQueue : ~InList(kk, p, kk.cur)
  BY CallerRunning
<1>2. \A v : InList(r, q, v) <=> InList(kk, q, v) \/ v = kk.cur
  BY DEF InList
<1>3. \A p \in WaitQueue \ {q} : \A v : InList(r, p, v) <=> InList(kk, p, v)
  BY DEF InList
<1>4. ASSUME NEW u \in Thread
      PROVE  /\ r.stat[u] = "suspend" => to[u] \in InCall
             /\ r.stat[u] = "suspend" /\ to[u] \in {"sched", "woken"} =>
                   \E p \in WaitQueue : InList(r, p, u)
             /\ \A p \in WaitQueue : InList(r, p, u) =>
                   r.err[u] = "ok" /\ to[u] \in {"sched", "woken"}
  <2>1. CASE u = kk.cur
    BY <1>2, <2>1 DEF InCall
  <2>2. CASE u # kk.cur
    <3>1. \A p \in WaitQueue : InList(r, p, u) <=> InList(kk, p, u)
      BY <1>2, <1>3, <2>2
    <3> QED BY <2>2, <3>1, ThreadOK
  <2> QED BY <2>1, <2>2
<1>5. to[Idle] = "user"
  BY DEF ThreadsOK
<1>6. r.stat[r.cur] # "running" => to[r.cur] \in AtSwitch
  BY DEF AtSwitch
<1> QED BY <1>2, <1>4, <1>5, <1>6 DEF ThreadsOK

(* What the blocking calls do with interrupts disabled; Block of Threads   *)
(* says the same of the variable k.                                        *)
BlockOf(kk, t, q, flag, timed) ==
    LET k1 == rt_ipc_list_suspend([kk EXCEPT !.err[t] = "ok"], q, t, flag)
    IN  IF timed THEN StartTimer(k1, t) ELSE k1

LEMMA CallsBlock ==
    ASSUME NEW kk, NEW at, ThreadsOK(kk, at), kk.cur # Idle, at[kk.cur] \notin AtSwitch,
           NEW q \in WaitQueue, NEW flag, NEW timed \in BOOLEAN,
           NEW to, to[kk.cur] = "sched", \A u \in Thread \ {kk.cur} : to[u] = at[u]
    PROVE  LET r == BlockOf(kk, kk.cur, q, flag, timed)
               i == Place(kk, kk.list[q], kk.prio[kk.cur], flag)
           IN  /\ ThreadsOK(r, to)
               /\ r.cur = kk.cur /\ r.prio = kk.prio
               /\ r.err[kk.cur] = "ok"
               /\ \A u \in Thread \ {kk.cur} : r.err[u] = kk.err[u]
               /\ i \in 1 .. Len(kk.list[q]) + 1
               /\ r.list[q] = InsertAt(kk.list[q], i, kk.cur)
               /\ \A v : InList(r, q, v) <=> InList(kk, q, v) \/ v = kk.cur
               /\ \A p \in WaitQueue \ {q} : r.list[p] = kk.list[p]
<1> USE KernelAssumption
<1>1. PICK t \in Thread : t = kk.cur
  BY CallerRunning
<1>2. kk.stat[t] = "running" /\ ~InList(kk, q, t) /\ Sound(kk) /\ kk \in KernelState
  BY <1>1, CallerRunning DEF ThreadsOK, Sound
<1> DEFINE a == [kk EXCEPT !.err[t] = "ok"]
           k1 == rt_ipc_list_suspend(a, q, t, flag)
           i == Place(kk, kk.list[q], kk.prio[t], flag)
           l == InsertAt(kk.list[q], i, t)
           r == IF timed THEN StartTimer(k1, t) ELSE k1
<1>0. BlockOf(kk, t, q, flag, timed) = r
  BY DEF BlockOf
<1>3. /\ Sound(a)
      /\ a.cur = kk.cur /\ a.prio = kk.prio /\ a.stat = kk.stat /\ a.list = kk.list
      /\ a.err[t] = "ok" /\ \A u \in Thread \ {t} : a.err[u] = kk.err[u]
  <2>1. Sound(a)
    BY <1>2, SoundError DEF Error
  <2> QED BY <1>2, <2>1 DEF KernelState
<1>4. i = Place(a, a.list[q], a.prio[t], flag)
  BY <1>3 DEF Place
<1> HIDE DEF a
<1>5. /\ Sound(k1) /\ SameCurrent(k1, a)
      /\ k1.prio = a.prio /\ k1.err = a.err
      /\ k1.stat[t] = "suspend"
      /\ \A u \in Thread \ {t} : k1.stat[u] = a.stat[u]
  BY <1>1, <1>2, <1>3, SoundSuspend
<1>6. /\ k1.list[q] = l
      /\ \A p \in WaitQueue \ {q} : k1.list[p] = a.list[p]
  BY <1>1, <1>2, <1>3, <1>4, SoundSuspend
<1> HIDE DEF k1
<1>7. /\ Sound(r) /\ r.cur = k1.cur /\ r.prio = k1.prio /\ r.err = k1.err
      /\ r.stat = k1.stat /\ r.list = k1.list
  <2>1. CASE timed
    BY <1>5, <2>1, SoundTimer DEF SameCurrent
  <2>2. CASE ~timed
    BY <1>5, <2>2
  <2> QED BY <2>1, <2>2
<1> HIDE DEF r
<1>8. kk.list[q] \in Seq(Thread) /\ IsInjective(kk.list[q])
  BY <1>2, QueueOK
<1>9. i \in 1 .. Len(kk.list[q]) + 1
  BY <1>2, <1>8, PlaceInList DEF KernelState
<1>10. /\ l \in Seq(Thread) /\ IsInjective(l)
       /\ \A x : Contains(l, x) <=> Contains(kk.list[q], x) \/ x = t
  BY <1>2, <1>8, <1>9, InsertInList DEF InList
<1> HIDE DEF l, i
<1>11. /\ r.cur = kk.cur /\ r.prio = kk.prio /\ r.err[t] = "ok" /\ r.list[q] = l
       /\ \A u \in Thread \ {t} : r.err[u] = kk.err[u] /\ r.stat[u] = kk.stat[u]
       /\ \A p \in WaitQueue \ {q} : r.list[p] = kk.list[p]
  BY <1>3, <1>5, <1>6, <1>7 DEF SameCurrent
<1>12. /\ ThreadsOK(r, to)
       /\ \A v : InList(r, q, v) <=> InList(kk, q, v) \/ v = kk.cur
  BY <1>1, <1>7, <1>10, <1>11, CallsJoin
<1> QED BY <1>0, <1>1, <1>9, <1>11, <1>12 DEF l, i

(* rt_thread_sleep, up to its rt_schedule                                  *)
LEMMA CallsSleep ==
    ASSUME NEW kk, NEW at, ThreadsOK(kk, at), kk.cur # Idle, at[kk.cur] \notin AtSwitch,
           NEW to, to[kk.cur] = "sleep", \A u \in Thread \ {kk.cur} : to[u] = at[u]
    PROVE  LET r == StartTimer(rt_thread_suspend(kk, kk.cur), kk.cur) IN
           /\ ThreadsOK(r, to)
           /\ r.cur = kk.cur /\ r.prio = kk.prio /\ r.err = kk.err
           /\ \A q \in WaitQueue : r.list[q] = kk.list[q]
<1> USE KernelAssumption
<1>1. PICK t \in Thread : t = kk.cur
  BY CallerRunning
<1>2. /\ kk.stat[t] = "running" /\ Sound(kk) /\ kk \in KernelState
      /\ \A q \in WaitQueue : ~InList(kk, q, t)
  BY <1>1, CallerRunning DEF ThreadsOK, Sound
<1> DEFINE k1 == rt_thread_suspend(kk, t)
           r == StartTimer(k1, t)
<1>3. /\ k1 \in KernelState /\ KernelOK(k1) /\ CurrentOK(k1) /\ SameQueues(k1, kk)
      /\ k1.cur = kk.cur /\ k1.lock = kk.lock /\ k1.prio = kk.prio /\ k1.err = kk.err
      /\ k1.stat = [kk.stat EXCEPT ![t] = "suspend"]
  BY <1>2, SuspendThread DEF Sound, Runnable
<1> HIDE DEF k1
<1>4. k1.stat[t] = "suspend" /\ \A u \in Thread \ {t} : k1.stat[u] = kk.stat[u]
  BY <1>2, <1>3 DEF KernelState
<1>5. Sound(k1)
  BY <1>1, <1>2, <1>3, <1>4 DEF Sound
<1>6. /\ Sound(r) /\ r.cur = k1.cur /\ r.prio = k1.prio /\ r.err = k1.err
      /\ r.stat = k1.stat /\ r.list = k1.list
  BY <1>4, <1>5, SoundTimer DEF SameCurrent
<1> HIDE DEF r
<1>7. \A q \in WaitQueue : r.list[q] = kk.list[q]
  BY <1>3, <1>6 DEF SameQueues
<1>8. ASSUME NEW u \in Thread
      PROVE  /\ r.stat[u] = "suspend" => to[u] \in InCall
             /\ r.stat[u] = "suspend" /\ to[u] \in {"sched", "woken"} =>
                   \E p \in WaitQueue : InList(r, p, u)
             /\ \A p \in WaitQueue : InList(r, p, u) =>
                   r.err[u] = "ok" /\ to[u] \in {"sched", "woken"}
  <2>1. \A p \in WaitQueue : InList(r, p, u) <=> InList(kk, p, u)
    BY <1>7 DEF InList
  <2>2. CASE u = t
    BY <1>1, <1>2, <2>1, <2>2 DEF InCall
  <2>3. CASE u # t
    <3>1. r.stat[u] = kk.stat[u] /\ r.err[u] = kk.err[u] /\ to[u] = at[u]
      BY <1>1, <1>3, <1>4, <1>6, <2>3
    <3> QED BY <2>1, <3>1, ThreadOK
  <2> QED BY <2>2, <2>3
<1>9. to[Idle] = "user" /\ (r.stat[r.cur] # "running" => to[r.cur] \in AtSwitch)
  BY <1>1, <1>3, <1>6 DEF ThreadsOK, AtSwitch
<1>10. ThreadsOK(r, to)
  BY <1>6, <1>8, <1>9 DEF ThreadsOK
<1> QED BY <1>1, <1>3, <1>6, <1>7, <1>10 DEF r, k1

(* The kernel when the scheduler starts, with everybody in his program.    *)
Starts(first, priority, ready) ==
    /\ first \in Thread /\ priority \in [Thread -> Priority]
    /\ ready \in [Priority -> Seq(Thread)]
    /\ KernelOK(KernelStart(first, priority, ready))
    /\ Idle = first \/ Contains(ready[priority[Idle]], Idle)

LEMMA CallsStart ==
    ASSUME NEW first, NEW priority, NEW ready, Starts(first, priority, ready),
           NEW at, \A t \in Thread : at[t] = "user"
    PROVE  LET r == KernelStart(first, priority, ready) IN
           /\ ThreadsOK(r, at)
           /\ r.cur = first /\ r.prio = priority
           /\ \A q \in WaitQueue : r.list[q] = <<>>
<1> USE KernelAssumption DEF Starts
<1> DEFINE r == KernelStart(first, priority, ready)
<1>1. /\ Sound(r)
      /\ r.cur = first /\ r.prio = priority
      /\ r.stat[r.cur] = "running"
      /\ \A q \in WaitQueue : r.list[q] = <<>>
      /\ \A t \in Thread : r.stat[t] # "suspend" /\ r.err[t] = "ok" /\ ~r.tmr[t]
  BY SoundStart
<1> HIDE DEF r
<1>2. \A q \in WaitQueue : \A v : ~InList(r, q, v)
  BY <1>1 DEF InList, Contains
<1>3. ThreadsOK(r, at)
  BY <1>1, <1>2 DEF ThreadsOK
<1> QED BY <1>1, <1>2, <1>3 DEF r

(* Those that were woken by the object of the list q, and are not back in  *)
(* their calls yet.                                                        *)
GrantedOf(kk, at, q) ==
    { t \in Thread : at[t] \in {"sched", "woken"} /\ kk.err[t] = "ok" /\ ~InList(kk, q, t) }

(* What the calls do to those that were woken, for every list at once.     *)
LEMMA QuietSchedule ==
    ASSUME NEW kk, NEW at, ThreadsOK(kk, at), NEW to,
           \A u \in Thread :
              \/ to[u] = at[u]
              \/ at[u] = "sched" /\ to[u] = "woken"
              \/ at[u] = "sleep" /\ to[u] = "slept"
              \/ at[u] = "released" /\ to[u] = "user"
    PROVE  LET r == rt_schedule(kk) IN
           /\ ThreadsOK(r, to) /\ r.prio = kk.prio
           /\ \A q \in WaitQueue : /\ r.list[q] = kk.list[q]
                                   /\ GrantedOf(r, to, q) = GrantedOf(kk, at, q)
<1> DEFINE r == rt_schedule(kk)
<1>1. /\ ThreadsOK(r, to) /\ r.prio = kk.prio /\ r.err = kk.err
      /\ \A q \in WaitQueue : r.list[q] = kk.list[q]
  BY CallsSchedule
<1> HIDE DEF r
<1>2. \A u \in Thread : to[u] \in {"sched", "woken"} <=> at[u] \in {"sched", "woken"}
  OBVIOUS
<1>3. \A q \in WaitQueue : GrantedOf(r, to, q) = GrantedOf(kk, at, q)
  BY <1>1, <1>2 DEF GrantedOf, InList
<1> QED BY <1>1, <1>3 DEF r

(* The same of the three steps of rt_thread_sleep, Sleeps of Threads.      *)
SleepsTo(r, to, kk, at, t) ==
    /\ kk.cur = t
    /\ \A u \in Thread \ {t} : to[u] = at[u]
    /\ \/ /\ at[t] = "user" /\ to[t] = "sleep"
          /\ r = StartTimer(rt_thread_suspend(kk, t), t)
       \/ /\ at[t] = "sleep" /\ to[t] = "slept"
          /\ r = rt_schedule(kk)
       \/ /\ at[t] = "slept" /\ to[t] = "user"
          /\ r = [kk EXCEPT !.err[t] = IF @ = "timeout" THEN "ok" ELSE @]

LEMMA QuietSleep ==
    ASSUME NEW kk, NEW at, ThreadsOK(kk, at), NEW t \in Thread \ {Idle},
           NEW r, NEW to, SleepsTo(r, to, kk, at, t)
    PROVE  /\ ThreadsOK(r, to) /\ r.prio = kk.prio
           /\ \A q \in WaitQueue : /\ r.list[q] = kk.list[q]
                                   /\ GrantedOf(r, to, q) = GrantedOf(kk, at, q)
<1>1. kk.cur = t /\ \A u \in Thread \ {t} : to[u] = at[u]
  BY DEF SleepsTo
<1>2. CASE at[t] = "user" /\ to[t] = "sleep" /\ r = StartTimer(rt_thread_suspend(kk, t), t)
  <2>1. /\ ThreadsOK(r, to) /\ r.prio = kk.prio /\ r.err = kk.err
        /\ \A q \in WaitQueue : r.list[q] = kk.list[q]
    BY <1>1, <1>2, CallsSleep DEF AtSwitch
  <2>2. \A q \in WaitQueue : GrantedOf(r, to, q) = GrantedOf(kk, at, q)
    BY <1>1, <1>2, <2>1 DEF GrantedOf, InList
  <2> QED BY <2>1, <2>2
<1>3. CASE at[t] = "sleep" /\ to[t] = "slept" /\ r = rt_schedule(kk)
  BY <1>1, <1>3, QuietSchedule
<1>4. CASE /\ at[t] = "slept" /\ to[t] = "user"
           /\ r = [kk EXCEPT !.err[t] = IF @ = "timeout" THEN "ok" ELSE @]
  <2>1. Sound(kk) /\ kk \in KernelState /\ \A q \in WaitQueue : ~InList(kk, q, t)
    BY <1>1, <1>4, ThreadOK DEF ThreadsOK, Sound
  <2>2. PICK e \in Error : r = [kk EXCEPT !.err[t] = e]
    BY <1>4, <2>1 DEF KernelState, Error
  <2>3. Sound(r)
    BY <2>1, <2>2, SoundError
  <2>4. /\ r.cur = kk.cur /\ r.stat = kk.stat /\ r.list = kk.list /\ r.prio = kk.prio
        /\ \A u \in Thread \ {t} : r.err[u] = kk.err[u]
    BY <2>1, <2>2 DEF KernelState
  <2>5. GoesOn(r, kk, to, at)
    BY <1>1, <2>3, <2>4 DEF GoesOn
  <2>6. ThreadsOK(r, to)
    BY <1>1, <1>4, <2>5, CallerMoves DEF AtSwitch
  <2>7. \A q \in WaitQueue : GrantedOf(r, to, q) = GrantedOf(kk, at, q)
    BY <1>1, <1>4, <2>4 DEF GrantedOf, InList
  <2> QED BY <2>4, <2>6, <2>7
<1> QED BY <1>2, <1>3, <1>4 DEF SleepsTo

(* The timer of u wakes nobody for an object.                              *)
LEMMA QuietTimeout ==
    ASSUME NEW kk, NEW at, ThreadsOK(kk, at), NEW u \in Thread, kk.tmr[u]
    PROVE  LET r == rt_thread_timeout(kk, u) IN
           /\ ThreadsOK(r, at) /\ r.prio = kk.prio
           /\ \A v \in Thread : r.err[v] = IF v = u THEN "timeout" ELSE kk.err[v]
           /\ at[u] \in InCall
           /\ \A q \in WaitQueue :
                 /\ r.list[q] = RemoveFirst(kk.list[q], u)
                 /\ \A v : InList(r, q, v) <=> InList(kk, q, v) /\ v # u
                 /\ GrantedOf(r, at, q) = GrantedOf(kk, at, q) \ {u}
<1> DEFINE r == rt_thread_timeout(kk, u)
<1>1. /\ ThreadsOK(r, at) /\ r.prio = kk.prio /\ kk.stat[u] = "suspend"
      /\ \A v \in Thread : r.err[v] = IF v = u THEN "timeout" ELSE kk.err[v]
      /\ \A q \in WaitQueue :
            /\ r.list[q] = RemoveFirst(kk.list[q], u)
            /\ \A v : InList(r, q, v) <=> InList(kk, q, v) /\ v # u
  BY CallsTimeout
<1> HIDE DEF r
<1>2. ASSUME NEW q \in WaitQueue
      PROVE  GrantedOf(r, at, q) = GrantedOf(kk, at, q) \ {u}
  <2>1. \A v \in Thread : v \in GrantedOf(r, at, q) <=> v \in GrantedOf(kk, at, q) /\ v # u
    BY <1>1 DEF GrantedOf
  <2> QED BY <2>1 DEF GrantedOf
<1>3. at[u] \in InCall
  BY <1>1, ThreadOK
<1> QED BY <1>1, <1>2, <1>3 DEF r

(* The running thread leaves its call, or goes on where nobody waits.      *)
LEMMA QuietMove ==
    ASSUME NEW kk, NEW at, ThreadsOK(kk, at), at[kk.cur] \notin AtSwitch, kk.cur # Idle,
           NEW r, NEW to, GoesOn(r, kk, to, at), to[kk.cur] \notin {"sched", "woken"}
    PROVE  /\ ThreadsOK(r, to)
           /\ \A q \in WaitQueue : GrantedOf(r, to, q) = GrantedOf(kk, at, q) \ {kk.cur}
<1>1. ThreadsOK(r, to)
  BY CallerMoves
<1>2. ASSUME NEW q \in WaitQueue
      PROVE  GrantedOf(r, to, q) = GrantedOf(kk, at, q) \ {kk.cur}
  <2>1. \A v \in Thread :
           v \in GrantedOf(r, to, q) <=> v \in GrantedOf(kk, at, q) /\ v # kk.cur
    <3> TAKE v \in Thread
    <3>1. CASE v = kk.cur
      BY <3>1 DEF GrantedOf
    <3>2. CASE v # kk.cur
      BY <3>2 DEF GoesOn, GrantedOf, InList
    <3> QED BY <3>1, <3>2
  <2> QED BY <2>1 DEF GrantedOf
<1> QED BY <1>1, <1>2

(* An object wakes the first who waits.                                    *)
LEMMA WakesHead ==
    ASSUME NEW kk, NEW at, ThreadsOK(kk, at), NEW q \in WaitQueue, kk.list[q] # <<>>
    PROVE  LET w == Head(kk.list[q])
               r == rt_thread_resume(kk, w)
           IN  /\ w \in Thread /\ InList(kk, q, w) /\ kk.err[w] = "ok"
               /\ ThreadsOK(r, at) /\ r.cur = kk.cur /\ r.prio = kk.prio
               /\ r.list[q] = RemoveFirst(kk.list[q], w)
               /\ w \notin GrantedOf(kk, at, q)
               /\ GrantedOf(r, at, q) = GrantedOf(kk, at, q) \cup {w}
               /\ \A p \in WaitQueue \ {q} : /\ r.list[p] = kk.list[p]
                                             /\ GrantedOf(r, at, p) = GrantedOf(kk, at, p)
<1> DEFINE w == Head(kk.list[q])
           r == rt_thread_resume(kk, w)
<1>1. w \in Thread /\ InList(kk, q, w)
  BY QueueOK DEF ThreadsOK
<1>2. kk.err[w] = "ok" /\ at[w] \in {"sched", "woken"}
  BY <1>1, ThreadOK
<1> HIDE DEF w
<1>3. /\ ThreadsOK(r, at) /\ r.cur = kk.cur /\ r.prio = kk.prio /\ r.err = kk.err
      /\ r.list[q] = RemoveFirst(kk.list[q], w)
      /\ \A v : InList(r, q, v) <=> InList(kk, q, v) /\ v # w
      /\ \A p \in WaitQueue \ {q} : r.list[p] = kk.list[p]
  BY <1>1, CallsResume
<1> HIDE DEF r
<1>4. GrantedOf(r, at, q) = GrantedOf(kk, at, q) \cup {w}
  <2>1. \A v \in Thread : v \in GrantedOf(r, at, q) <=> v \in GrantedOf(kk, at, q) \/ v = w
    BY <1>2, <1>3 DEF GrantedOf
  <2> QED BY <1>1, <2>1 DEF GrantedOf
<1>5. \A p \in WaitQueue \ {q} : GrantedOf(r, at, p) = GrantedOf(kk, at, p)
  BY <1>3 DEF GrantedOf, InList
<1>6. w \notin GrantedOf(kk, at, q)
  BY <1>1 DEF GrantedOf
<1> QED BY <1>1, <1>2, <1>3, <1>4, <1>5, <1>6 DEF r, w

(* Those that are resumed with an error were given nothing.                *)
LEMMA QuietTurn ==
    ASSUME NEW kk, NEW at, ThreadsOK(kk, at), NEW q \in WaitQueue, kk.list[q] # <<>>
    PROVE  LET r == ResumeWithError(kk, q)
               t == Head(kk.list[q])
           IN  /\ t \in Thread /\ InList(kk, q, t)
               /\ ThreadsOK(r, at) /\ r.cur = kk.cur /\ r.prio = kk.prio
               /\ \A v \in Thread : r.err[v] = IF v = t THEN "error" ELSE kk.err[v]
               /\ r.list[q] = RemoveFirst(kk.list[q], t)
               /\ \A p \in WaitQueue : GrantedOf(r, at, p) = GrantedOf(kk, at, p) \ {t}
               /\ \A p \in WaitQueue \ {q} : r.list[p] = kk.list[p]
<1> DEFINE r == ResumeWithError(kk, q)
           t == Head(kk.list[q])
<1>1. /\ t \in Thread /\ InList(kk, q, t)
      /\ ThreadsOK(r, at) /\ r.cur = kk.cur /\ r.prio = kk.prio
      /\ \A v \in Thread : r.err[v] = IF v = t THEN "error" ELSE kk.err[v]
      /\ r.list[q] = RemoveFirst(kk.list[q], t)
      /\ \A v : InList(r, q, v) <=> InList(kk, q, v) /\ v # t
      /\ \A p \in WaitQueue \ {q} : r.list[p] = kk.list[p]
  BY CallsTurn
<1> HIDE DEF r, t
<1>2. ASSUME NEW p \in WaitQueue
      PROVE  GrantedOf(r, at, p) = GrantedOf(kk, at, p) \ {t}
  <2>1. \A v : v # t => (InList(r, p, v) <=> InList(kk, p, v))
    BY <1>1 DEF InList
  <2>2. \A v \in Thread : v \in GrantedOf(r, at, p) <=> v \in GrantedOf(kk, at, p) /\ v # t
    BY <1>1, <2>1 DEF GrantedOf
  <2> QED BY <2>2 DEF GrantedOf
<1> QED BY <1>1, <1>2 DEF r, t

LEMMA QuietResumeAll ==
    ASSUME NEW kk, NEW at, ThreadsOK(kk, at), NEW q \in WaitQueue
    PROVE  LET r == rt_ipc_list_resume_all(kk, q) IN
           /\ ThreadsOK(r, at) /\ r.cur = kk.cur /\ r.prio = kk.prio
           /\ \A v \in Thread : r.err[v] = IF InList(kk, q, v) THEN "error" ELSE kk.err[v]
           /\ r.list[q] = <<>>
           /\ \A p \in WaitQueue :
                 GrantedOf(r, at, p) = { v \in GrantedOf(kk, at, p) : ~InList(kk, q, v) }
           /\ \A p \in WaitQueue \ {q} : r.list[p] = kk.list[p]
<1> DEFINE r == rt_ipc_list_resume_all(kk, q)
<1>1. /\ ThreadsOK(r, at) /\ r.cur = kk.cur /\ r.prio = kk.prio
      /\ \A v \in Thread : r.err[v] = IF InList(kk, q, v) THEN "error" ELSE kk.err[v]
      /\ r.list[q] = <<>>
      /\ \A v : ~InList(r, q, v)
      /\ \A p \in WaitQueue \ {q} : r.list[p] = kk.list[p]
  BY CallsResumeAll
<1> HIDE DEF r
<1>2. ASSUME NEW p \in WaitQueue
      PROVE  GrantedOf(r, at, p) = { v \in GrantedOf(kk, at, p) : ~InList(kk, q, v) }
  <2>1. \A v : ~InList(kk, q, v) => (InList(r, p, v) <=> InList(kk, p, v))
    BY <1>1 DEF InList
  <2>2. \A v \in Thread :
           v \in GrantedOf(r, at, p) <=> v \in GrantedOf(kk, at, p) /\ ~InList(kk, q, v)
    BY <1>1, <2>1 DEF GrantedOf
  <2> QED BY <2>2 DEF GrantedOf
<1> QED BY <1>1, <1>2 DEF r

(* A list in the order of priorities stays so when a thread leaves it, and *)
(* when one joins it where Place says; its first thread is the most urgent *)
(* one.                                                                    *)
Ordered(s, prio) == \A x, y \in Thread : Before(s, x, y) => prio[x] <= prio[y]

LEMMA OrderedRemove ==
    ASSUME NEW s \in Seq(Thread), IsInjective(s), NEW prio, Ordered(s, prio), NEW e
    PROVE  Ordered(RemoveFirst(s, e), prio)
BY RemoveKeepsOrder DEF Ordered

LEMMA OrderedJoin ==
    ASSUME NEW kk \in KernelState, NEW s \in Seq(Thread), IsInjective(s),
           Ordered(s, kk.prio), NEW t \in Thread, ~Contains(s, t),
           NEW flag, flag # "fifo"
    PROVE  Ordered(InsertAt(s, Place(kk, s, kk.prio[t], flag), t), kk.prio)
<1> DEFINE i == Place(kk, s, kk.prio[t], flag)
<1>1. \A u \in Thread : kk.prio[u] \in Nat /\ kk.prio[u] \in Priority
  BY KernelAssumption DEF KernelState, Priority
<1>2. /\ i \in 1 .. Len(s) + 1
      /\ \A j \in 1 .. Len(s) : j < i => kk.prio[s[j]] <= kk.prio[t]
      /\ i <= Len(s) => kk.prio[t] < kk.prio[s[i]]
  BY <1>1, PlaceInList
<1> HIDE DEF i
<1> SUFFICES ASSUME NEW x \in Thread, NEW y \in Thread, Before(InsertAt(s, i, t), x, y)
             PROVE  kk.prio[x] <= kk.prio[y]
  BY DEF Ordered, i
<1>3. \/ Before(s, x, y)
      \/ y = t /\ \E j \in 1 .. Len(s) : j < i /\ s[j] = x
      \/ x = t /\ \E j \in 1 .. Len(s) : i <= j /\ s[j] = y
  BY <1>2, InsertInList
<1>4. CASE Before(s, x, y)
  BY <1>4 DEF Ordered
<1>5. ASSUME y = t, NEW j \in 1 .. Len(s), j < i, s[j] = x
      PROVE  kk.prio[x] <= kk.prio[y]
  BY <1>2, <1>5
<1>6. ASSUME x = t, NEW j \in 1 .. Len(s), i <= j, s[j] = y
      PROVE  kk.prio[x] <= kk.prio[y]
  <2>1. i \in 1 .. Len(s) /\ kk.prio[t] < kk.prio[s[i]]
    BY <1>2, <1>6
  <2>2. PICK z \in Thread : z = s[i]
    BY <2>1
  <2>3. kk.prio[z] <= kk.prio[y]
    <3>1. CASE i = j
      BY <1>1, <1>6, <2>2, <3>1
    <3>2. CASE i < j
      <4>1. Before(s, z, y)
        BY <1>6, <2>1, <2>2, <3>2 DEF Before
      <4> QED BY <4>1 DEF Ordered
    <3> QED BY <1>6, <2>1, <3>1, <3>2
  <2>4. kk.prio[x] < kk.prio[z]
    BY <1>6, <2>1, <2>2
  <2> QED BY <1>1, <2>3, <2>4
<1> QED BY <1>3, <1>4, <1>5, <1>6

LEMMA OrderedHead ==
    ASSUME NEW s \in Seq(Thread), NEW prio \in [Thread -> Priority],
           Ordered(s, prio), NEW y, Contains(s, y)
    PROVE  prio[Head(s)] <= prio[y]
<1>1. PICK j \in 1 .. Len(s) : s[j] = y
  BY DEF Contains
<1>2. Head(s) = s[1] /\ s[1] \in Thread /\ y \in Thread /\ Len(s) \in Nat
  <2>1. s # <<>> /\ 1 \in 1 .. Len(s)
    BY <1>1
  <2> QED BY <1>1, <2>1
<1>3. \A u \in Thread : prio[u] \in Nat
  BY KernelAssumption DEF Priority
<1>4. CASE j = 1
  BY <1>1, <1>2, <1>3, <1>4
<1>5. CASE j # 1
  <2>1. Before(s, s[1], y)
    BY <1>1, <1>2, <1>5 DEF Before
  <2> QED BY <1>2, <2>1 DEF Ordered
<1> QED BY <1>4, <1>5
=============================================================================
