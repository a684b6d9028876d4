---------------------------- MODULE MailboxProofs ----------------------------
(***************************************************************************)
(* The mailbox, proved for any threads, programs and number of places.     *)
(* The two sides of it, those who send and those who receive, are treated  *)
(* as one: op names the calls of a side, List(op) those that wait in them, *)
(* and Ready(op) what there is for them, free places or mails.             *)
(***************************************************************************)
EXTENDS Mailbox, KernelProofs, FiniteSetTheorems

Op == {"send", "recv"}

Other(op) == IF op = "send" THEN "recv" ELSE "send"

Ready(op) == IF op = "send" THEN Size - entry ELSE entry

InWait == {"sched", "woken"}

\* Those of WokenIn(op), for any kernel and calls.
WokenOf(kk, at, c, op) == { t \in GrantedOf(kk, at, List(op)) : c[t] = op }

(* A thread has a call to wait in while it is in one, and is in the list   *)
(* of that call only.                                                      *)
CallsOK(kk, at, c) ==
    /\ c \in [Thread -> {"none", "send", "recv"}]
    /\ \A t \in Thread : c[t] # "none" <=> at[t] \in InWait
    /\ \A t \in Thread, op \in Op : InList(kk, List(op), t) => c[t] = op

RingOK == /\ entry \in 0 .. Size
          /\ out_offset \in Offset /\ in_offset \in Offset
          /\ msg_pool \in [Offset -> Mail \cup {Nothing}]
          /\ in_offset = IF out_offset + entry < Size THEN out_offset + entry
                                                      ELSE out_offset + entry - Size

Awaited(op) ==
    /\ IsFiniteSet(WokenOf(k, pc, call, op))
    /\ k.list[List(op)] # <<>> => Ready(op) <= Cardinality(WokenOf(k, pc, call, op))

MailInv ==
    /\ pc \in [Thread -> PC]
    /\ ThreadsOK(k, pc) /\ CallsOK(k, pc, call)
    /\ RingOK
    /\ \A op \in Op : Awaited(op)

LEMMA OpOK ==
    ASSUME NEW op \in Op
    PROVE  /\ Other(op) \in Op /\ Other(op) # op /\ Other(Other(op)) = op
           /\ List(op) \in WaitQueue /\ List(Other(op)) \in WaitQueue
           /\ List(op) # List(Other(op))
           /\ \A o \in Op : o = op \/ o = Other(op)
BY MailboxAssumption DEF Op, Other, List

LEMMA ReadyOK ==
    ASSUME RingOK, NEW op \in Op
    PROVE  /\ Ready(op) \in Nat /\ (Ready(op) = 0 <=> Blocked(op))
           /\ (Blocked(op) => Ready(Other(op)) = Size)
BY MailboxAssumption DEF RingOK, Ready, Op, Other, Blocked
-----------------------------------------------------------------------------
(* What a step does to one side.                                           *)
Waiters(op) == k.list[List(op)]

WokenFor(op) == WokenOf(k, pc, call, op)

(* Nobody more waits, and nobody is on the way who was not; mails or       *)
(* places may be taken by somebody else.                                   *)
Keeps(op) ==
    /\ WokenFor(op)' = WokenFor(op)
    /\ Ready(op)' \in Nat /\ Ready(op)' <= Ready(op)
    /\ Waiters(op)' # <<>> => Waiters(op) # <<>>

(* t, which may be one of those on the way, takes one.                     *)
TakesOne(op, t) ==
    /\ WokenFor(op)' = WokenFor(op) \ {t}
    /\ Ready(op)' \in Nat /\ Ready(op)' = Ready(op) - 1
    /\ Waiters(op)' # <<>> => Waiters(op) # <<>>

(* There is one more, and somebody is sent for it if anybody waits.        *)
GetsOne(op) ==
    /\ Ready(op)' = Ready(op) + 1
    /\ IF Waiters(op) # <<>>
       THEN \E w : w \notin WokenFor(op) /\ WokenFor(op)' = WokenFor(op) \cup {w}
       ELSE Waiters(op)' = <<>> /\ WokenFor(op)' = WokenFor(op)

(* t finds nothing, and waits or goes.                                     *)
FindsNone(op, t) == Ready(op)' = 0 /\ WokenFor(op)' = WokenFor(op) \ {t}

(* All that wait are sent home.                                            *)
Clears(op) == Waiters(op)' = <<>> /\ WokenFor(op)' \subseteq WokenFor(op)

Effect(op) ==
    \/ Keeps(op)
    \/ GetsOne(op)
    \/ \E t \in Thread : TakesOne(op, t) \/ FindsNone(op, t)
    \/ Clears(op)

(* A side that a step leaves alone. *)
LEMMA KeepsIfSame ==
    ASSUME MailInv, NEW op \in Op, Ready(op)' = Ready(op),
           Waiters(op)' # <<>> => Waiters(op) # <<>>,
           WokenFor(op)' = WokenFor(op)
    PROVE  Keeps(op)
<1>1. PICK r : r = Ready(op)
  OBVIOUS
<1>2. r \in Nat
  BY <1>1, ReadyOK DEF MailInv
<1>3. Ready(op)' \in Nat /\ Ready(op)' <= Ready(op)
  BY <1>1, <1>2
<1> QED BY <1>3 DEF Keeps

LEMMA EffectAwaited ==
    ASSUME NEW op \in Op, Awaited(op), Effect(op), Ready(op) \in Nat
    PROVE  Awaited(op)'
<1> DEFINE a == WokenFor(op)
           b == WokenFor(op)'
           r == Ready(op)
           s == Ready(op)'
<1>1. /\ IsFiniteSet(a) /\ Cardinality(a) \in Nat
      /\ Waiters(op) # <<>> => r <= Cardinality(a)
  BY FS_CardinalityType DEF Awaited, Waiters, WokenFor
<1>2. SUFFICES IsFiniteSet(b) /\ (Waiters(op)' # <<>> => s <= Cardinality(b))
  BY DEF Awaited, Waiters, WokenFor
<1> HIDE DEF a, b, r, s
<1>3. CASE Keeps(op)
  BY <1>1, <1>3 DEF Keeps, a, b, r, s
<1>4. CASE GetsOne(op)
  <2>1. CASE Waiters(op) # <<>>
    <3>1. PICK w : w \notin a /\ b = a \cup {w}
      BY <1>4, <2>1 DEF GetsOne, a, b
    <3>2. IsFiniteSet(b) /\ Cardinality(b) = Cardinality(a) + 1
      BY <1>1, <3>1, FS_AddElement
    <3>3. s = r + 1
      BY <1>4 DEF GetsOne, r, s
    <3> QED BY <1>1, <2>1, <3>2, <3>3 DEF r
  <2>2. CASE Waiters(op) = <<>>
    BY <1>1, <1>4, <2>2 DEF GetsOne, a, b
  <2> QED BY <2>1, <2>2
<1>5. ASSUME NEW t \in Thread, TakesOne(op, t)
      PROVE  IsFiniteSet(b) /\ (Waiters(op)' # <<>> => s <= Cardinality(b))
  <2>1. b = a \ {t} /\ s = r - 1 /\ (Waiters(op)' # <<>> => Waiters(op) # <<>>)
    BY <1>5 DEF TakesOne, a, b, r, s
  <2>2. IsFiniteSet(b) /\ Cardinality(b) \in {Cardinality(a), Cardinality(a) - 1}
    BY <1>1, <2>1, FS_RemoveElement
  <2> QED BY <1>1, <2>1, <2>2 DEF r
<1>6. ASSUME NEW t \in Thread, FindsNone(op, t)
      PROVE  IsFiniteSet(b) /\ (Waiters(op)' # <<>> => s <= Cardinality(b))
  <2>1. b = a \ {t} /\ s = 0
    BY <1>6 DEF FindsNone, a, b, s
  <2>2. IsFiniteSet(b) /\ Cardinality(b) \in Nat
    BY <1>1, <2>1, FS_RemoveElement, FS_CardinalityType
  <2> QED BY <2>1, <2>2
<1>7. CASE Clears(op)
  BY <1>1, <1>7, FS_Subset DEF Clears, a, b
<1> QED BY <1>3, <1>4, <1>5, <1>6, <1>7 DEF Effect
-----------------------------------------------------------------------------
(* Each action has one of the effects on each side. *)
LEMMA StateOK ==
    ASSUME MailInv
    PROVE  /\ ThreadsOK(k, pc) /\ CallsOK(k, pc, call) /\ Sound(k) /\ k \in KernelState
           /\ pc \in [Thread -> PC]
           /\ \A op \in Op : Ready(op) \in Nat
BY ReadyOK DEF MailInv, ThreadsOK, Sound

(* Who makes a call runs, is not idle and waits nowhere. *)
LEMMA CallerRuns ==
    ASSUME MailInv, NEW t \in Thread, NEW at, at \notin AtSwitch, Running(t, at),
           at # "user" \/ \E api : Calls(t, api)
    PROVE  /\ k.cur = t /\ pc[t] = at /\ t # Idle /\ pc[k.cur] \notin AtSwitch
           /\ \A q \in WaitQueue : ~InList(k, q, t)
<1>1. k.cur = t /\ pc[t] = at /\ pc[k.cur] \notin AtSwitch
  BY DEF Running
<1>2. \A q \in WaitQueue : ~InList(k, q, t)
  BY <1>1, StateOK, CallerRunning
<1>3. t # Idle
  BY <1>1, StateOK, ThreadsAssumption DEF Calls, ThreadsOK
<1> QED BY <1>1, <1>2, <1>3

LEMMA CallerLoops ==
    ASSUME MailInv, NEW t \in Thread, NEW op \in Op, Loops(t, op)
    PROVE  /\ k.cur = t /\ pc[t] \in {"user", "woken"} /\ t # Idle /\ pc[k.cur] \notin AtSwitch
           /\ \A q \in WaitQueue : ~InList(k, q, t)
           /\ call[t] \in {"none", op}
<1>1. \/ Running(t, "user") /\ \E api : Calls(t, api)
      \/ Running(t, "woken") /\ call[t] = op
  BY DEF Loops, Calls
<1>2. pc[t] = "user" => call[t] = "none"
  BY StateOK DEF CallsOK, InWait
<1> QED BY <1>1, <1>2, CallerRuns DEF AtSwitch, Running

(* The kernel goes from k to r, with t, which is in no list, on its way    *)
(* out of its call.                                                        *)
LEMMA LeavesOK ==
    ASSUME MailInv, NEW t \in Thread, NEW r, NEW to, NEW c,
           c = [call EXCEPT ![t] = "none"], to[t] \notin InWait,
           \A u \in Thread \ {t} : to[u] = pc[u],
           \A u \in Thread, op \in Op : InList(r, List(op), u) => InList(k, List(op), u),
           \A op \in Op : ~InList(k, List(op), t)
    PROVE  CallsOK(r, to, c)
<1>1. CallsOK(k, pc, call)
  BY StateOK
<1>2. c \in [Thread -> {"none", "send", "recv"}] /\ c[t] = "none"
      /\ \A u \in Thread \ {t} : c[u] = call[u]
  BY <1>1 DEF CallsOK
<1> QED BY <1>1, <1>2 DEF CallsOK

LEMMA StaysOK ==
    ASSUME MailInv, NEW r, NEW to, \A u \in Thread : to[u] \in InWait <=> pc[u] \in InWait,
           \A u \in Thread, op \in Op : InList(r, List(op), u) => InList(k, List(op), u)
    PROVE  CallsOK(r, to, call)
BY StateOK DEF CallsOK

(* A thread that leaves with what it found, without or with an error.      *)
LEMMA StepLeaves ==
    ASSUME MailInv, NEW t \in Thread, Fails(t) \/ \E op \in Op : GivesUp(t, op)
    PROVE  ThreadsOK(k', pc') /\ CallsOK(k', pc', call') /\ \A op \in Op : Effect(op)
<1>1. Running(t, "woken") /\ Goto(t, "user") /\ Leaves(t) /\ UNCHANGED ring
  BY DEF Fails, GivesUp
<1>2. /\ k.cur = t /\ pc[t] = "woken" /\ t # Idle /\ pc[k.cur] \notin AtSwitch
      /\ \A q \in WaitQueue : ~InList(k, q, t)
  BY <1>1, CallerRuns DEF AtSwitch
<1>3. ThreadsOK(k, pc) /\ Sound(k) /\ k \in KernelState /\ pc \in [Thread -> PC]
  BY StateOK
<1>4. pc'[t] = "user" /\ \A u \in Thread \ {t} : pc'[u] = pc[u]
  BY <1>1, <1>3 DEF Goto
<1>5. \/ UNCHANGED k
      \/ \E e \in Error : k' = [k EXCEPT !.err[t] = e]
  BY DEF Fails, GivesUp, Error
<1>6. /\ Sound(k') /\ k'.cur = k.cur /\ k'.stat = k.stat /\ k'.list = k.list
      /\ \A u \in Thread \ {t} : k'.err[u] = k.err[u]
  <2>1. CASE UNCHANGED k
    BY <1>3, <2>1
  <2>2. ASSUME NEW e \in Error, k' = [k EXCEPT !.err[t] = e]
        PROVE  /\ Sound(k') /\ k'.cur = k.cur /\ k'.stat = k.stat /\ k'.list = k.list
               /\ \A u \in Thread \ {t} : k'.err[u] = k.err[u]
    BY <1>3, <2>2, SoundError DEF KernelState
  <2> QED BY <1>5, <2>1, <2>2
<1>7. GoesOn(k', k, pc', pc)
  BY <1>2, <1>4, <1>6 DEF GoesOn
<1>8. /\ ThreadsOK(k', pc')
      /\ \A q \in WaitQueue : GrantedOf(k', pc', q) = GrantedOf(k, pc, q) \ {t}
  BY <1>2, <1>3, <1>4, <1>7, QuietMove
<1>9. CallsOK(k', pc', call')
  <2>1. \A u \in Thread, op \in Op : InList(k', List(op), u) => InList(k, List(op), u)
    BY <1>6 DEF InList
  <2> QED BY <1>1, <1>2, <1>4, <2>1, LeavesOK, OpOK DEF Leaves, InWait
<1>10. /\ call'[t] = "none" /\ \A u \in Thread \ {t} : call'[u] = call[u]
  BY <1>1, StateOK DEF Leaves, CallsOK
<1>11. \A op \in Op : WokenFor(op)' = WokenFor(op) \ {t}
  BY <1>8, <1>10, OpOK DEF WokenFor, WokenOf, GrantedOf
<1>12. \A op \in Op : Ready(op)' = Ready(op) /\ Waiters(op)' = Waiters(op)
  BY <1>1, <1>6 DEF ring, Ready, Waiters
<1>13. CASE Fails(t)
  <2>1. \A op \in Op : t \notin WokenFor(op)
    BY <1>13 DEF Fails, Failed, WokenFor, WokenOf, GrantedOf
  <2>2. ASSUME NEW op \in Op PROVE Keeps(op)
    <3>1. WokenFor(op)' = WokenFor(op)
      BY <1>11, <2>1
    <3> QED BY <1>12, <3>1, KeepsIfSame
  <2> QED BY <1>8, <1>9, <2>2 DEF Effect
<1>14. ASSUME NEW op \in Op, GivesUp(t, op)
       PROVE  \A o \in Op : Effect(o)
  <2>1. Ready(op) = 0 /\ call[t] = op
    BY <1>2, <1>14, ReadyOK DEF GivesUp, MailInv, Loops, Calls, Running
  <2>2. FindsNone(op, t)
    BY <1>11, <1>12, <2>1 DEF FindsNone
  <2>3. Keeps(Other(op))
    <3>1. t \notin WokenFor(Other(op))
      BY <2>1, OpOK DEF WokenFor, WokenOf
    <3>2. WokenFor(Other(op))' = WokenFor(Other(op))
      BY <1>11, <3>1, OpOK
    <3> QED BY <1>12, <3>2, KeepsIfSame, OpOK
  <2> QED BY <2>2, <2>3, OpOK DEF Effect
<1> QED BY <1>8, <1>9, <1>13, <1>14

(* What a call that has what it came for does for the other side: it wakes *)
(* the first that waits there.                                             *)
LEMMA PassesOn ==
    ASSUME MailInv, NEW t \in Thread, NEW op \in Op, Loops(t, op), Leaves(t),
           Wakes(t, List(Other(op)))
    PROVE  /\ ThreadsOK(k', pc') /\ CallsOK(k', pc', call')
           /\ Waiters(op)' = Waiters(op) /\ WokenFor(op)' = WokenFor(op) \ {t}
           /\ IF Waiters(Other(op)) # <<>>
              THEN \E w : /\ w \notin WokenFor(Other(op))
                          /\ WokenFor(Other(op))' = WokenFor(Other(op)) \cup {w}
              ELSE Waiters(Other(op))' = <<>> /\ WokenFor(Other(op))' = WokenFor(Other(op))
<1>1. /\ k.cur = t /\ pc[t] \in {"user", "woken"} /\ t # Idle /\ pc[k.cur] \notin AtSwitch
      /\ \A q \in WaitQueue : ~InList(k, q, t)
      /\ call[t] \in {"none", op}
  BY CallerLoops
<1>2. ThreadsOK(k, pc) /\ CallsOK(k, pc, call) /\ Sound(k) /\ pc \in [Thread -> PC]
  BY StateOK
<1>3. PICK p, q : /\ p = List(op) /\ q = List(Other(op)) /\ p # q
                  /\ p \in WaitQueue /\ q \in WaitQueue
  BY OpOK
<1>4. call'[t] = "none" /\ \A u \in Thread \ {t} : call'[u] = call[u]
  BY <1>2 DEF Leaves, CallsOK
<1>5. pc'[t] \in {"released", "user"} /\ \A u \in Thread \ {t} : pc'[u] = pc[u]
  BY <1>2 DEF Wakes, Goto
<1>6. ASSUME NEW r, ThreadsOK(r, pc), r.cur = k.cur, k' = r
      PROVE  /\ ThreadsOK(k', pc')
             /\ \A h \in WaitQueue : GrantedOf(k', pc', h) = GrantedOf(r, pc, h) \ {t}
  <2>1. GoesOn(r, r, pc', pc)
    BY <1>1, <1>5, <1>6 DEF GoesOn, ThreadsOK
  <2>2. pc[r.cur] \notin AtSwitch /\ r.cur # Idle /\ pc'[r.cur] \notin {"sched", "woken"}
    BY <1>1, <1>5, <1>6
  <2>3. PICK to : to = pc'
    OBVIOUS
  <2>4. /\ ThreadsOK(r, to)
        /\ \A h \in WaitQueue : GrantedOf(r, to, h) = GrantedOf(r, pc, h) \ {r.cur}
    BY <1>6, <2>1, <2>2, <2>3, QuietMove
  <2> QED BY <1>1, <1>6, <2>3, <2>4
<1>7. ASSUME \A u \in Thread, o \in Op : InList(k', List(o), u) => InList(k, List(o), u)
      PROVE  CallsOK(k', pc', call')
  <2>1. pc'[t] \notin InWait /\ \A o \in Op : ~InList(k, List(o), t)
    BY <1>1, <1>5, OpOK DEF InWait
  <2>2. call' = [call EXCEPT ![t] = "none"]
    BY DEF Leaves
  <2> QED BY <1>5, <1>7, <2>1, <2>2, LeavesOK
<1>8. CASE Waiters(Other(op)) # <<>>
  <2>1. PICK w, r : w = Head(k.list[q]) /\ r = rt_thread_resume(k, w)
    OBVIOUS
  <2>2. k.list[q] # <<>> /\ k' = r
    BY <1>3, <1>8, <2>1 DEF Waiters, Wakes, rt_ipc_list_resume
  <2>3. /\ w \in Thread /\ InList(k, q, w)
        /\ ThreadsOK(r, pc) /\ r.cur = k.cur
        /\ r.list[q] = RemoveFirst(k.list[q], w)
        /\ w \notin GrantedOf(k, pc, q)
        /\ GrantedOf(r, pc, q) = GrantedOf(k, pc, q) \cup {w}
        /\ r.list[p] = k.list[p] /\ GrantedOf(r, pc, p) = GrantedOf(k, pc, p)
    BY <1>2, <1>3, <2>1, <2>2, WakesHead
  <2>4. /\ ThreadsOK(k', pc')
        /\ \A h \in WaitQueue : GrantedOf(k', pc', h) = GrantedOf(r, pc, h) \ {t}
    BY <1>6, <2>2, <2>3
  <2>5. call[w] = Other(op) /\ w # t
    BY <1>1, <1>2, <1>3, <2>3, OpOK DEF CallsOK
  <2>6. \A v : InList(r, q, v) => InList(k, q, v)
    BY <1>2, <1>3, <2>3, QueueOK, RemoveOne DEF InList
  <2>7. \A u \in Thread, o \in Op : InList(k', List(o), u) => InList(k, List(o), u)
    BY <1>3, <2>2, <2>3, <2>6, OpOK DEF InList
  <2>8. CallsOK(k', pc', call')
    BY <1>7, <2>7
  <2>9. WokenFor(op)' = WokenFor(op) \ {t}
    BY <1>3, <1>4, <2>3, <2>4 DEF WokenFor, WokenOf, GrantedOf
  <2>10. WokenFor(Other(op))' = WokenFor(Other(op)) \cup {w}
    <3>1. GrantedOf(k', pc', q) = (GrantedOf(k, pc, q) \cup {w}) \ {t}
      BY <1>3, <2>3, <2>4
    <3>2. call[t] # Other(op) /\ call'[t] # Other(op) /\ call'[w] = Other(op)
      BY <1>1, <1>4, <2>3, <2>5, OpOK DEF Op
    <3>3. { u \in GrantedOf(k', pc', q) : call'[u] = Other(op) }
              = { u \in GrantedOf(k, pc, q) : call[u] = Other(op) } \cup {w}
      BY <1>4, <3>1, <3>2 DEF GrantedOf
    <3> QED BY <1>3, <3>3 DEF WokenFor, WokenOf
  <2>11. w \notin WokenFor(Other(op))
    BY <1>3, <2>3 DEF WokenFor, WokenOf
  <2>12. Waiters(op)' = Waiters(op)
    BY <1>3, <2>2, <2>3 DEF Waiters
  <2> QED BY <1>8, <2>4, <2>8, <2>9, <2>10, <2>11, <2>12
<1>9. CASE Waiters(Other(op)) = <<>>
  <2>1. k' = k
    BY <1>9 DEF Waiters, Wakes
  <2>2. /\ ThreadsOK(k', pc')
        /\ \A h \in WaitQueue : GrantedOf(k', pc', h) = GrantedOf(k, pc, h) \ {t}
    BY <1>2, <1>6, <2>1
  <2>3. CallsOK(k', pc', call')
    BY <1>7, <2>1
  <2>4. WokenFor(op)' = WokenFor(op) \ {t}
    BY <1>3, <1>4, <2>2 DEF WokenFor, WokenOf, GrantedOf
  <2>5. WokenFor(Other(op))' = WokenFor(Other(op))
    <3>1. GrantedOf(k', pc', q) = GrantedOf(k, pc, q) \ {t}
      BY <1>3, <2>2
    <3>2. call[t] # Other(op) /\ call'[t] # Other(op)
      BY <1>1, <1>4, OpOK DEF Op
    <3>3. { u \in GrantedOf(k', pc', q) : call'[u] = Other(op) }
              = { u \in GrantedOf(k, pc, q) : call[u] = Other(op) }
      BY <1>4, <3>1, <3>2 DEF GrantedOf
    <3> QED BY <1>3, <3>3 DEF WokenFor, WokenOf
  <2>6. Waiters(op)' = Waiters(op) /\ Waiters(Other(op))' = Waiters(Other(op))
    BY <2>1 DEF Waiters
  <2> QED BY <1>9, <2>2, <2>3, <2>4, <2>5, <2>6
<1> QED BY <1>8, <1>9

(* A send puts a mail, a receive takes one. *)
LEMMA ReadyPasses ==
    ASSUME RingOK
    PROVE  /\ entry' = entry + 1 /\ entry < Size =>
                 /\ Ready("send")' = Ready("send") - 1 /\ Ready("send")' \in Nat
                 /\ Ready("recv")' = Ready("recv") + 1
           /\ entry' = entry - 1 /\ entry # 0 =>
                 /\ Ready("recv")' = Ready("recv") - 1 /\ Ready("recv")' \in Nat
                 /\ Ready("send")' = Ready("send") + 1
<1>1. Size \in Nat /\ entry \in 0 .. Size
  BY MailboxAssumption DEF RingOK
<1>2. Ready("recv") = entry /\ Ready("send") = Size - entry
  BY DEF Ready
<1>3. Ready("recv")' = entry' /\ Ready("send")' = Size - entry'
  BY DEF Ready
<1> QED BY <1>1, <1>2, <1>3

LEMMA StepPasses ==
    ASSUME MailInv, NEW t \in Thread, Sends(t) \/ Receives(t)
    PROVE  ThreadsOK(k', pc') /\ CallsOK(k', pc', call') /\ \A op \in Op : Effect(op)
<1>1. RingOK
  BY DEF MailInv
<1>2. PICK op \in Op :
         /\ Loops(t, op) /\ Leaves(t) /\ Wakes(t, List(Other(op)))
         /\ Ready(op)' = Ready(op) - 1 /\ Ready(op)' \in Nat
         /\ Ready(Other(op))' = Ready(Other(op)) + 1
  <2>1. CASE Sends(t)
    <3>1. Other("send") = "recv" /\ List("recv") = Receivers /\ "send" \in Op
      BY DEF Other, List, Op
    <3>2. entry' = entry + 1 /\ entry < Size
      BY <1>1, <2>1, MailboxAssumption DEF Sends, Put, Blocked, RingOK
    <3>3. Loops(t, "send") /\ Leaves(t) /\ Wakes(t, List(Other("send")))
      BY <2>1, <3>1 DEF Sends
    <3> QED BY <1>1, <3>1, <3>2, <3>3, ReadyPasses
  <2>2. CASE Receives(t)
    <3>1. Other("recv") = "send" /\ List("send") = Senders /\ "recv" \in Op
      BY DEF Other, List, Op
    <3>2. entry' = entry - 1 /\ entry # 0
      BY <2>2 DEF Receives, Blocked
    <3>3. Loops(t, "recv") /\ Leaves(t) /\ Wakes(t, List(Other("recv")))
      BY <2>2, <3>1 DEF Receives
    <3> QED BY <1>1, <3>1, <3>2, <3>3, ReadyPasses
  <2> QED BY <2>1, <2>2
<1>3. /\ ThreadsOK(k', pc') /\ CallsOK(k', pc', call')
      /\ Waiters(op)' = Waiters(op) /\ WokenFor(op)' = WokenFor(op) \ {t}
      /\ IF Waiters(Other(op)) # <<>>
         THEN \E w : /\ w \notin WokenFor(Other(op))
                     /\ WokenFor(Other(op))' = WokenFor(Other(op)) \cup {w}
         ELSE Waiters(Other(op))' = <<>> /\ WokenFor(Other(op))' = WokenFor(Other(op))
  BY <1>2, PassesOn
<1>4. TakesOne(op, t)
  BY <1>2, <1>3 DEF TakesOne
<1>5. GetsOne(Other(op))
  BY <1>2, <1>3 DEF GetsOne
<1> QED BY <1>3, <1>4, <1>5, OpOK DEF Effect

LEMMA StepIsrSends ==
    ASSUME MailInv, IsrSends
    PROVE  ThreadsOK(k', pc') /\ CallsOK(k', pc', call') /\ \A op \in Op : Effect(op)
<1>1. ThreadsOK(k, pc) /\ CallsOK(k, pc, call) /\ Sound(k) /\ pc \in [Thread -> PC] /\ RingOK
  BY StateOK DEF MailInv
<1>2. PICK p, q : /\ p = List("send") /\ q = List("recv") /\ p # q
                  /\ p \in WaitQueue /\ q \in WaitQueue /\ q = Receivers
  BY MailboxAssumption DEF List
<1>3. pc' = pc /\ call' = call
  BY DEF IsrSends, calls
<1>4. /\ Ready("send")' = Ready("send") - 1 /\ Ready("send")' \in Nat
      /\ Ready("recv")' = Ready("recv") + 1
  <2>1. entry' = entry + 1 /\ entry < Size
    BY <1>1, MailboxAssumption DEF IsrSends, Put, Blocked, RingOK
  <2> QED BY <1>1, <2>1, ReadyPasses
<1>5. CASE k.list[q] # <<>>
  <2>1. PICK w, r : w = Head(k.list[q]) /\ r = rt_thread_resume(k, w)
    OBVIOUS
  <2>2. k' = rt_schedule(r)
    BY <1>2, <1>5, <2>1 DEF IsrSends, rt_ipc_list_resume
  <2>3. /\ w \in Thread /\ InList(k, q, w)
        /\ ThreadsOK(r, pc)
        /\ r.list[q] = RemoveFirst(k.list[q], w)
        /\ w \notin GrantedOf(k, pc, q)
        /\ GrantedOf(r, pc, q) = GrantedOf(k, pc, q) \cup {w}
        /\ r.list[p] = k.list[p] /\ GrantedOf(r, pc, p) = GrantedOf(k, pc, p)
    BY <1>1, <1>2, <1>5, <2>1, WakesHead
  <2>4. /\ ThreadsOK(k', pc')
        /\ \A h \in WaitQueue : /\ k'.list[h] = r.list[h]
                                /\ GrantedOf(k', pc', h) = GrantedOf(r, pc, h)
    BY <1>3, <2>2, <2>3, QuietSchedule
  <2>5. call[w] = "recv"
    BY <1>1, <1>2, <2>3 DEF CallsOK, Op
  <2>6. \A v : InList(r, q, v) => InList(k, q, v)
    BY <1>1, <1>2, <2>3, QueueOK, RemoveOne DEF InList
  <2>7. \A u \in Thread, o \in Op : InList(k', List(o), u) => InList(k, List(o), u)
    BY <1>2, <2>3, <2>4, <2>6 DEF InList, Op
  <2>8. CallsOK(k', pc', call')
    BY <1>3, <2>7, StaysOK
  <2>9. WokenFor("send")' = WokenFor("send") /\ Waiters("send")' = Waiters("send")
    BY <1>2, <1>3, <2>3, <2>4 DEF WokenFor, WokenOf, Waiters
  <2>10. WokenFor("recv")' = WokenFor("recv") \cup {w} /\ w \notin WokenFor("recv")
    BY <1>2, <1>3, <2>3, <2>4, <2>5 DEF WokenFor, WokenOf
  <2>11. Keeps("send")
    BY <1>1, <1>4, <2>9, MailboxAssumption DEF Keeps, Ready, RingOK
  <2>12. GetsOne("recv")
    BY <1>2, <1>4, <1>5, <2>10 DEF GetsOne, Waiters
  <2> QED BY <2>4, <2>8, <2>11, <2>12 DEF Effect, Op
<1>6. CASE k.list[q] = <<>>
  <2>1. k' = k
    BY <1>2, <1>6 DEF IsrSends
  <2>2. \A op \in Op : WokenFor(op)' = WokenFor(op) /\ Waiters(op)' = Waiters(op)
    BY <1>3, <2>1 DEF WokenFor, WokenOf, Waiters
  <2>3. Keeps("send")
    BY <1>1, <1>4, <2>2, MailboxAssumption DEF Keeps, Ready, RingOK, Op
  <2>4. GetsOne("recv")
    BY <1>2, <1>4, <1>6, <2>2 DEF GetsOne, Waiters, Op
  <2> QED BY <1>1, <1>3, <2>1, <2>3, <2>4 DEF Effect, Op
<1> QED BY <1>5, <1>6

LEMMA StepWaits ==
    ASSUME MailInv, NEW t \in Thread, NEW op \in Op, NEW timed \in BOOLEAN,
           Waiting(t, op, timed)
    PROVE  ThreadsOK(k', pc') /\ CallsOK(k', pc', call') /\ \A o \in Op : Effect(o)
<1>1. /\ k.cur = t /\ pc[t] \in {"user", "woken"} /\ t # Idle /\ pc[k.cur] \notin AtSwitch
      /\ \A q \in WaitQueue : ~InList(k, q, t)
      /\ call[t] \in {"none", op}
  BY CallerLoops DEF Waiting
<1>2. ThreadsOK(k, pc) /\ CallsOK(k, pc, call) /\ Sound(k) /\ pc \in [Thread -> PC] /\ RingOK
  BY StateOK DEF MailInv
<1>3. PICK p, q : /\ p = List(op) /\ q = List(Other(op)) /\ p # q
                  /\ p \in WaitQueue /\ q \in WaitQueue
  BY OpOK
<1>4. /\ call' \in [Thread -> {"none", "send", "recv"}]
      /\ call'[t] = op /\ \A u \in Thread \ {t} : call'[u] = call[u]
  BY <1>2 DEF Waiting, CallsOK, Op
<1>5. pc'[t] = "sched" /\ \A u \in Thread \ {t} : pc'[u] = pc[u]
  BY <1>2 DEF Waiting, Goto
<1>6. PICK r, to : r = k' /\ to = pc'
  OBVIOUS
<1>7. r = BlockOf(k, t, p, Flag, timed)
  BY <1>3, <1>6 DEF Waiting, Block, BlockOf
<1>8. /\ ThreadsOK(r, to)
      /\ \A v : InList(r, p, v) <=> InList(k, p, v) \/ v = t
      /\ GrantedOf(r, to, p) = GrantedOf(k, pc, p) \ {t}
      /\ r.list[q] = k.list[q]
      /\ GrantedOf(r, to, q) = GrantedOf(k, pc, q) \cup {t}
  <2>1. /\ ThreadsOK(r, to) /\ r.err[t] = "ok"
        /\ \A u \in Thread \ {t} : r.err[u] = k.err[u]
        /\ \A v : InList(r, p, v) <=> InList(k, p, v) \/ v = t
    BY <1>1, <1>2, <1>3, <1>5, <1>6, <1>7, CallsBlock
  <2>2. r.list[q] = k.list[q]
    <3>1. q \in WaitQueue \ {p}
      BY <1>3
    <3> QED BY <1>1, <1>2, <1>3, <1>5, <1>6, <1>7, <3>1, CallsBlock
  <2>3. GrantedOf(r, to, p) = GrantedOf(k, pc, p) \ {t}
    <3>1. \A v \in Thread : v \in GrantedOf(r, to, p) <=> v \in GrantedOf(k, pc, p) /\ v # t
      BY <1>5, <1>6, <2>1 DEF GrantedOf
    <3> QED BY <3>1 DEF GrantedOf
  <2>4. GrantedOf(r, to, q) = GrantedOf(k, pc, q) \cup {t}
    <3>1. \A v : InList(r, q, v) <=> InList(k, q, v)
      BY <2>2 DEF InList
    <3>2. \A v \in Thread : v \in GrantedOf(r, to, q) <=> v \in GrantedOf(k, pc, q) \/ v = t
      BY <1>1, <1>3, <1>5, <1>6, <2>1, <3>1 DEF GrantedOf
    <3> QED BY <3>2 DEF GrantedOf
  <2> QED BY <2>1, <2>2, <2>3, <2>4
<1>9. CallsOK(k', pc', call')
  <2>1. \A u \in Thread : call'[u] # "none" <=> pc'[u] \in InWait
    BY <1>2, <1>4, <1>5 DEF CallsOK, InWait, Op
  <2>2. ASSUME NEW u \in Thread, NEW o \in Op, InList(r, List(o), u)
        PROVE  call'[u] = o
    <3>1. CASE o = op
      BY <1>2, <1>3, <1>4, <1>8, <2>2, <3>1 DEF CallsOK
    <3>2. CASE o = Other(op)
      <4>1. InList(k, q, u)
        BY <1>3, <1>8, <2>2, <3>2 DEF InList
      <4> QED BY <1>1, <1>2, <1>3, <1>4, <3>2, <4>1 DEF CallsOK
    <3> QED BY <3>1, <3>2, OpOK
  <2> QED BY <1>4, <1>6, <2>1, <2>2 DEF CallsOK
<1>10. WokenFor(op)' = WokenFor(op) \ {t}
  BY <1>3, <1>4, <1>6, <1>8 DEF WokenFor, WokenOf, GrantedOf
<1>11. WokenFor(Other(op))' = WokenFor(Other(op))
  <2>1. call[t] # Other(op) /\ call'[t] # Other(op)
    BY <1>1, <1>4, OpOK DEF Op
  <2>2. { u \in GrantedOf(r, to, q) : call'[u] = Other(op) }
            = { u \in GrantedOf(k, pc, q) : call[u] = Other(op) }
    BY <1>4, <1>8, <2>1 DEF GrantedOf
  <2> QED BY <1>3, <1>6, <2>2 DEF WokenFor, WokenOf
<1>12. Ready(op) = 0 /\ \A o \in Op : Ready(o)' = Ready(o)
  BY <1>2, ReadyOK DEF Waiting, ring, Ready
<1>13. FindsNone(op, t)
  BY <1>10, <1>12 DEF FindsNone
<1>14. Keeps(Other(op))
  <2>1. Waiters(Other(op))' = Waiters(Other(op))
    BY <1>3, <1>6, <1>8 DEF Waiters
  <2> QED BY <1>11, <1>12, <2>1, KeepsIfSame, OpOK
<1> QED BY <1>6, <1>8, <1>9, <1>13, <1>14, OpOK DEF Effect

(* Steps that neither wait nor wake for the mailbox.                       *)
LEMMA QuietKeeps ==
    ASSUME MailInv, UNCHANGED <<ring, calls>>, ThreadsOK(k', pc'),
           \A u \in Thread : pc'[u] \in InWait <=> pc[u] \in InWait,
           \A q \in WaitQueue : /\ k'.list[q] = k.list[q]
                                /\ GrantedOf(k', pc', q) = GrantedOf(k, pc, q)
    PROVE  ThreadsOK(k', pc') /\ CallsOK(k', pc', call') /\ \A op \in Op : Effect(op)
<1>1. CallsOK(k', pc', call')
  <2>1. \A u \in Thread, op \in Op : InList(k', List(op), u) => InList(k, List(op), u)
    BY OpOK DEF InList
  <2> QED BY <2>1, StaysOK DEF calls
<1>2. ASSUME NEW op \in Op PROVE Keeps(op)
  <2>1. Ready(op)' = Ready(op)
    BY DEF Ready, ring
  <2>2. Waiters(op)' = Waiters(op) /\ WokenFor(op)' = WokenFor(op)
    BY OpOK DEF Waiters, WokenFor, WokenOf, calls
  <2> QED BY <2>1, <2>2, KeepsIfSame
<1> QED BY <1>1, <1>2 DEF Effect

LEMMA StepSleep ==
    ASSUME MailInv, NEW t \in Thread, Sleep(t)
    PROVE  ThreadsOK(k', pc') /\ CallsOK(k', pc', call') /\ \A op \in Op : Effect(op)
<1>1. ThreadsOK(k, pc) /\ pc \in [Thread -> PC]
  BY StateOK
<1>2. k.cur = t
  BY DEF Sleep, Sleeps, Reschedule, Running, Calls
<1>3. t # Idle
  <2>1. CASE Calls(t, "sleep")
    BY <2>1, ThreadsAssumption DEF Calls
  <2>2. CASE ~Calls(t, "sleep")
    <3>1. pc[t] \in {"sleep", "slept"}
      BY <2>2 DEF Sleep, Sleeps, Reschedule, Running
    <3> QED BY <1>1, <3>1 DEF ThreadsOK
  <2> QED BY <2>1, <2>2
<1>4. SleepsTo(k', pc', k, pc, t)
  BY <1>1, <1>2 DEF SleepsTo, Sleep, Sleeps, Reschedule, Running, Calls, Goto
<1>5. /\ ThreadsOK(k', pc')
      /\ \A q \in WaitQueue : /\ k'.list[q] = k.list[q]
                              /\ GrantedOf(k', pc', q) = GrantedOf(k, pc, q)
  <2>1. t \in Thread \ {Idle}
    BY <1>3
  <2> QED BY <1>1, <1>4, <2>1, QuietSleep
<1>6. \A u \in Thread : pc'[u] \in InWait <=> pc[u] \in InWait
  BY <1>4 DEF SleepsTo, InWait
<1> QED BY <1>5, <1>6, QuietKeeps DEF Sleep

(* rt_schedule, on the way out of a call, or at the end of a slice *)
LEMMA StepSchedules ==
    ASSUME MailInv, Slice \/ \E t \in Thread : Schedules(t)
    PROVE  ThreadsOK(k', pc') /\ CallsOK(k', pc', call') /\ \A op \in Op : Effect(op)
<1>1. ThreadsOK(k, pc) /\ pc \in [Thread -> PC]
  BY StateOK
<1>2. /\ k' = rt_schedule(k)
      /\ \A u \in Thread : \/ pc'[u] = pc[u]
                           \/ pc[u] = "sched" /\ pc'[u] = "woken"
                           \/ pc[u] = "sleep" /\ pc'[u] = "slept"
                           \/ pc[u] = "released" /\ pc'[u] = "user"
  <2>1. CASE Slice
    BY <2>1 DEF Slice, SliceExpires
  <2>2. ASSUME NEW t \in Thread, Reschedule(t, "sched", "woken") \/ Reschedule(t, "released", "user")
        PROVE  /\ k' = rt_schedule(k)
               /\ \A u \in Thread : \/ pc'[u] = pc[u]
                                    \/ pc[u] = "sched" /\ pc'[u] = "woken"
                                    \/ pc[u] = "sleep" /\ pc'[u] = "slept"
                                    \/ pc[u] = "released" /\ pc'[u] = "user"
    BY <1>1, <2>2 DEF Reschedule, Running, Goto
  <2> QED BY <2>1, <2>2 DEF Schedules
<1>3. /\ ThreadsOK(k', pc')
      /\ \A q \in WaitQueue : /\ k'.list[q] = k.list[q]
                              /\ GrantedOf(k', pc', q) = GrantedOf(k, pc, q)
  BY <1>1, <1>2, QuietSchedule
<1>4. \A u \in Thread : pc'[u] \in InWait <=> pc[u] \in InWait
  BY <1>2 DEF InWait
<1> QED BY <1>3, <1>4, QuietKeeps DEF Slice, Schedules

LEMMA StepIdles ==
    ASSUME MailInv, UNCHANGED vars
    PROVE  ThreadsOK(k', pc') /\ CallsOK(k', pc', call') /\ \A op \in Op : Effect(op)
<1>1. UNCHANGED <<k, pc, ring, calls>>
  BY DEF vars
<1>2. ThreadsOK(k', pc')
  BY <1>1, StateOK
<1>3. \A q \in WaitQueue : /\ k'.list[q] = k.list[q]
                           /\ GrantedOf(k', pc', q) = GrantedOf(k, pc, q)
  BY <1>1
<1> QED BY <1>1, <1>2, <1>3, QuietKeeps

(* The timer of u takes it off its list; it was not on its way.            *)
LEMMA StepTimeout ==
    ASSUME MailInv, NEW u \in Thread, Timeout(u)
    PROVE  ThreadsOK(k', pc') /\ CallsOK(k', pc', call') /\ \A op \in Op : Effect(op)
<1>1. ThreadsOK(k, pc) /\ CallsOK(k, pc, call) /\ Sound(k)
  BY StateOK
<1>2. k.tmr[u] /\ k' = rt_thread_timeout(k, u) /\ pc' = pc /\ UNCHANGED <<ring, calls>>
  BY DEF Timeout, TimerFires
<1>3. /\ ThreadsOK(k', pc')
      /\ \A q \in WaitQueue :
            /\ k'.list[q] = RemoveFirst(k.list[q], u)
            /\ \A v : InList(k', q, v) <=> InList(k, q, v) /\ v # u
            /\ GrantedOf(k', pc', q) = GrantedOf(k, pc, q) \ {u}
  BY <1>1, <1>2, QuietTimeout
<1>4. CallsOK(k', pc', call')
  <2>1. \A v \in Thread, op \in Op : InList(k', List(op), v) => InList(k, List(op), v)
    BY <1>3, OpOK
  <2> QED BY <1>2, <2>1, StaysOK DEF calls
<1>5. ASSUME NEW op \in Op PROVE u \notin WokenFor(op)
  <2> SUFFICES ASSUME u \in WokenFor(op) PROVE FALSE
    OBVIOUS
  <2>1. call[u] = op /\ pc[u] \in {"sched", "woken"} /\ ~InList(k, List(op), u)
    BY DEF WokenFor, WokenOf, GrantedOf
  <2>2. PICK q \in WaitQueue : InList(k, q, u)
    BY <1>1, <1>2, <2>1, ThreadOK
  <2>3. PICK o \in Op : q = List(o)
    BY MailboxAssumption DEF Op, List
  <2> QED BY <1>1, <2>1, <2>2, <2>3 DEF CallsOK
<1>6. ASSUME NEW op \in Op PROVE Keeps(op)
  <2>1. Ready(op)' = Ready(op)
    BY <1>2 DEF Ready, ring
  <2>2. WokenFor(op)' = WokenFor(op)
    <3>1. WokenFor(op)' = WokenFor(op) \ {u}
      BY <1>2, <1>3, OpOK DEF WokenFor, WokenOf, calls
    <3> QED BY <1>5, <3>1
  <2>3. Waiters(op)' # <<>> => Waiters(op) # <<>>
    <3>1. PICK q : q = List(op) /\ q \in WaitQueue
      BY OpOK
    <3>2. Sound(k')
      BY <1>3 DEF ThreadsOK
    <3> QED BY <1>1, <1>3, <3>1, <3>2, QueueOK DEF Waiters
  <2> QED BY <2>1, <2>2, <2>3, KeepsIfSame
<1> QED BY <1>3, <1>4, <1>6 DEF Effect

(* A reset sends both lists home. *)
LEMMA StepReset ==
    ASSUME MailInv, NEW t \in Thread, rt_mb_control(t)
    PROVE  ThreadsOK(k', pc') /\ CallsOK(k', pc', call') /\ \A op \in Op : Effect(op)
<1>1. k.cur = t /\ pc[t] = "user" /\ t # Idle /\ pc[k.cur] \notin AtSwitch
  BY CallerRuns DEF rt_mb_control, Calls, AtSwitch
<1>2. ThreadsOK(k, pc) /\ CallsOK(k, pc, call) /\ pc \in [Thread -> PC]
  BY StateOK
<1>3. PICK p, q : /\ p = Receivers /\ q = Senders /\ p # q
                  /\ p \in WaitQueue /\ q \in WaitQueue
                  /\ \A op \in Op : List(op) \in {p, q}
  BY MailboxAssumption DEF List
<1>4. PICK a, b : a = rt_ipc_list_resume_all(k, p) /\ b = rt_ipc_list_resume_all(a, q)
  OBVIOUS
<1>5. k' = b /\ pc'[t] = "released" /\ \A u \in Thread \ {t} : pc'[u] = pc[u]
  BY <1>2, <1>3, <1>4 DEF rt_mb_control, Goto
<1>6. /\ ThreadsOK(a, pc) /\ a.cur = k.cur /\ a.list[p] = <<>>
      /\ \A h \in WaitQueue : GrantedOf(a, pc, h) \subseteq GrantedOf(k, pc, h)
      /\ \A h \in WaitQueue \ {p} : a.list[h] = k.list[h]
  <2>1. ThreadsOK(a, pc) /\ a.cur = k.cur /\ a.list[p] = <<>>
    BY <1>2, <1>3, <1>4, QuietResumeAll
  <2>2. ASSUME NEW h \in WaitQueue
        PROVE  GrantedOf(a, pc, h) \subseteq GrantedOf(k, pc, h)
    BY <1>2, <1>3, <1>4, QuietResumeAll
  <2>3. ASSUME NEW h \in WaitQueue \ {p} PROVE a.list[h] = k.list[h]
    BY <1>2, <1>3, <1>4, QuietResumeAll
  <2> QED BY <2>1, <2>2, <2>3
<1>7. /\ ThreadsOK(b, pc) /\ b.cur = a.cur /\ b.list[q] = <<>>
      /\ \A h \in WaitQueue : GrantedOf(b, pc, h) \subseteq GrantedOf(a, pc, h)
      /\ \A h \in WaitQueue \ {q} : b.list[h] = a.list[h]
  <2>1. ThreadsOK(b, pc) /\ b.cur = a.cur /\ b.list[q] = <<>>
    BY <1>3, <1>4, <1>6, QuietResumeAll
  <2>2. ASSUME NEW h \in WaitQueue
        PROVE  GrantedOf(b, pc, h) \subseteq GrantedOf(a, pc, h)
    BY <1>3, <1>4, <1>6, QuietResumeAll
  <2>3. ASSUME NEW h \in WaitQueue \ {q} PROVE b.list[h] = a.list[h]
    BY <1>3, <1>4, <1>6, QuietResumeAll
  <2> QED BY <2>1, <2>2, <2>3
<1>8. b.list[p] = <<>> /\ b.list[q] = <<>>
  BY <1>3, <1>6, <1>7
<1>9. PICK to : to = pc'
  OBVIOUS
<1>10. /\ ThreadsOK(b, to)
       /\ \A h \in WaitQueue : GrantedOf(b, to, h) \subseteq GrantedOf(k, pc, h)
  <2>1. GoesOn(b, b, to, pc)
    BY <1>1, <1>5, <1>6, <1>7, <1>9 DEF GoesOn, ThreadsOK
  <2>2. pc[b.cur] \notin AtSwitch /\ b.cur # Idle /\ to[b.cur] \notin {"sched", "woken"}
    BY <1>1, <1>5, <1>6, <1>7, <1>9
  <2>3. /\ ThreadsOK(b, to)
        /\ \A h \in WaitQueue : GrantedOf(b, to, h) = GrantedOf(b, pc, h) \ {b.cur}
    BY <1>7, <2>1, <2>2, QuietMove
  <2> QED BY <1>6, <1>7, <2>3
<1>11. CallsOK(k', pc', call')
  <2>1. \A u \in Thread, op \in Op : ~InList(b, List(op), u)
    BY <1>3, <1>8, EmptySeq DEF InList, Contains
  <2>2. \A u \in Thread : pc'[u] \in InWait <=> pc[u] \in InWait
    BY <1>1, <1>5 DEF InWait
  <2>3. call' = call
    BY DEF rt_mb_control, calls
  <2> QED BY <1>5, <2>1, <2>2, <2>3, StaysOK
<1>12. ASSUME NEW op \in Op PROVE Clears(op)
  <2>1. PICK h : h = List(op) /\ h \in {p, q} /\ h \in WaitQueue
    BY <1>3
  <2>2. Waiters(op)' = <<>>
    BY <1>5, <1>8, <2>1 DEF Waiters
  <2>3. GrantedOf(k', pc', h) \subseteq GrantedOf(k, pc, h) /\ call' = call
    BY <1>5, <1>9, <1>10, <2>1 DEF rt_mb_control, calls
  <2>4. WokenFor(op)' \subseteq WokenFor(op)
    BY <2>1, <2>3 DEF WokenFor, WokenOf
  <2> QED BY <2>2, <2>4 DEF Clears
<1> QED BY <1>5, <1>9, <1>10, <1>11, <1>12 DEF Effect

(* A detach tells those who wait one by one; the caller waits nowhere.     *)
LEMMA StepDetach ==
    ASSUME MailInv, NEW t \in Thread, DetachStarts(t) \/ DetachResumes(t)
    PROVE  ThreadsOK(k', pc') /\ CallsOK(k', pc', call') /\ \A op \in Op : Effect(op)
<1>1. ThreadsOK(k, pc) /\ CallsOK(k, pc, call) /\ Sound(k) /\ pc \in [Thread -> PC]
  BY StateOK
<1> DEFINE Froms == {"user", "check", "resume", "check_senders", "resume_senders"}
           Tos == Froms \cup {"fault"}
<1>2. PICK at \in Froms, to \in Tos : Running(t, at) /\ Goto(t, to)
  BY DEF DetachStarts, Calls, DetachResumes, ChecksList, ResumesNext
<1>3. k.cur = t /\ pc[t] = at /\ t # Idle /\ pc[k.cur] \notin AtSwitch
  BY <1>2, CallerRuns DEF DetachStarts, DetachResumes, ChecksList, ResumesNext,
                          AtSwitch, Calls, Running
<1>4. pc'[t] = to /\ \A u \in Thread \ {t} : pc'[u] = pc[u]
  BY <1>1, <1>2 DEF Goto
<1>5. PICK pd : pd = pc'
  OBVIOUS
<1>6. ASSUME NEW r, r = k', ThreadsOK(r, pc), r.cur = t
      PROVE  /\ ThreadsOK(r, pd)
             /\ \A q \in WaitQueue : GrantedOf(r, pd, q) = GrantedOf(r, pc, q) \ {t}
  <2>1. GoesOn(r, r, pd, pc)
    BY <1>4, <1>5, <1>6 DEF GoesOn, ThreadsOK
  <2>2. pc[r.cur] \notin AtSwitch /\ r.cur # Idle /\ pd[r.cur] \notin {"sched", "woken"}
    BY <1>3, <1>4, <1>5, <1>6
  <2> QED BY <1>6, <2>1, <2>2, QuietMove
<1>7. \A q \in WaitQueue : t \notin GrantedOf(k, pc, q)
  BY <1>3 DEF GrantedOf
<1>8. \A u \in Thread : pc'[u] \in InWait <=> pc[u] \in InWait
  BY <1>3, <1>4 DEF InWait
<1>9. UNCHANGED <<ring, calls>>
  BY DEF DetachStarts, DetachResumes
<1>10. CASE k' = k
  <2>1. /\ ThreadsOK(k', pc')
        /\ \A q \in WaitQueue : /\ k'.list[q] = k.list[q]
                                /\ GrantedOf(k', pc', q) = GrantedOf(k, pc, q)
    BY <1>1, <1>3, <1>5, <1>6, <1>7, <1>10
  <2> QED BY <1>8, <1>9, <2>1, QuietKeeps
<1>11. ASSUME NEW p \in WaitQueue, k.list[p] # <<>>, k' = ResumeWithError(k, p)
       PROVE  ThreadsOK(k', pc') /\ CallsOK(k', pc', call') /\ \A op \in Op : Effect(op)
  <2>1. PICK w, r : w = Head(k.list[p]) /\ r = k'
    OBVIOUS
  <2>2. /\ InList(k, p, w) /\ ThreadsOK(r, pc) /\ r.cur = t
        /\ r.list[p] = RemoveFirst(k.list[p], w)
        /\ \A h \in WaitQueue : GrantedOf(r, pc, h) = GrantedOf(k, pc, h) \ {w}
        /\ \A h \in WaitQueue \ {p} : r.list[h] = k.list[h]
        /\ w \in Thread
    BY <1>1, <1>3, <1>11, <2>1, QuietTurn
  <2>3. /\ ThreadsOK(k', pc')
        /\ \A h \in WaitQueue : GrantedOf(k', pc', h) = GrantedOf(k, pc, h) \ {w}
    BY <1>5, <1>6, <1>7, <2>1, <2>2
  <2>4. \A h \in WaitQueue, v \in Thread : InList(r, h, v) => InList(k, h, v)
    <3>1. \A v \in Thread : InList(r, p, v) => InList(k, p, v)
      BY <1>1, <2>2, QueueOK, RemoveOne DEF InList
    <3> QED BY <2>2, <3>1 DEF InList
  <2>5. CallsOK(k', pc', call')
    <3>1. \A u \in Thread, op \in Op : InList(k', List(op), u) => InList(k, List(op), u)
      BY <2>1, <2>4, OpOK
    <3> QED BY <1>8, <1>9, <3>1, StaysOK DEF calls
  <2>6. ASSUME NEW op \in Op PROVE Keeps(op)
    <3>1. PICK h : h = List(op) /\ h \in WaitQueue
      BY OpOK
    <3>2. w \notin WokenFor(op)
      <4> SUFFICES ASSUME w \in WokenFor(op) PROVE FALSE
        OBVIOUS
      <4>1. call[w] = op /\ ~InList(k, List(op), w)
        BY DEF WokenFor, WokenOf, GrantedOf
      <4>2. PICK o \in Op : p = List(o)
        BY MailboxAssumption DEF Op, List
      <4> QED BY <1>1, <2>2, <4>1, <4>2 DEF CallsOK
    <3>3. WokenFor(op)' = WokenFor(op)
      <4>1. WokenFor(op)' = WokenFor(op) \ {w}
        BY <1>9, <2>3, OpOK DEF WokenFor, WokenOf, calls
      <4> QED BY <3>2, <4>1
    <3>4. Waiters(op)' # <<>> => Waiters(op) # <<>>
      BY <1>1, <2>1, <2>2, <2>4, <3>1, QueueOK DEF Waiters, ThreadsOK
    <3>5. Ready(op)' = Ready(op)
      BY <1>9 DEF Ready, ring
    <3> QED BY <3>3, <3>4, <3>5, KeepsIfSame
  <2> QED BY <2>3, <2>5, <2>6 DEF Effect
<1>12. \/ k' = k
       \/ \E p \in WaitQueue : k.list[p] # <<>> /\ k' = ResumeWithError(k, p)
  BY MailboxAssumption DEF DetachStarts, DetachResumes, ChecksList, ResumesNext
<1> QED BY <1>10, <1>11, <1>12

LEMMA StepWakes ==
    ASSUME MailInv, [Next]_vars
    PROVE  ThreadsOK(k', pc') /\ CallsOK(k', pc', call') /\ \A op \in Op : Effect(op)
<1> DEFINE Fine == ThreadsOK(k', pc') /\ CallsOK(k', pc', call') /\ \A op \in Op : Effect(op)
<1>0. SUFFICES Fine
  OBVIOUS
<1>1. ASSUME NEW t \in Thread, ThreadStep(t) PROVE Fine
  <2>1. CASE Sends(t) \/ Receives(t)
    BY <2>1, StepPasses
  <2>2. ASSUME NEW op \in Op, NEW timed \in BOOLEAN, Waiting(t, op, timed) PROVE Fine
    BY <2>2, StepWaits
  <2>3. CASE Schedules(t)
    BY <2>3, StepSchedules
  <2>4. CASE Fails(t) \/ \E op \in Op : GivesUp(t, op)
    BY <2>4, StepLeaves
  <2>5. CASE rt_mb_control(t)
    BY <2>5, StepReset
  <2>6. CASE DetachStarts(t) \/ DetachResumes(t)
    BY <2>6, StepDetach
  <2> HIDE DEF Fine
  <2> QED BY <1>1, <2>1, <2>2, <2>3, <2>4, <2>5, <2>6 DEF ThreadStep, Op
<1>2. ASSUME NEW t \in Thread, Sleep(t) PROVE Fine
  BY <1>2, StepSleep
<1>3. CASE Slice
  BY <1>3, StepSchedules
<1>4. ASSUME NEW u \in Thread, Timeout(u) PROVE Fine
  BY <1>4, StepTimeout
<1>5. CASE IsrSends
  BY <1>5, StepIsrSends
<1>6. CASE UNCHANGED vars
  BY <1>6, StepIdles
<1> HIDE DEF Fine
<1> QED BY <1>1, <1>2, <1>3, <1>4, <1>5, <1>6 DEF Next
-----------------------------------------------------------------------------
(* The ring. *)
LEMMA PutKeepsRing ==
    ASSUME RingOK, entry # Size, NEW m \in Mail, Put(m)
    PROVE  RingOK'
<1>1. /\ Size \in Nat \ {0} /\ entry \in 0 .. Size - 1
      /\ out_offset \in 0 .. Size - 1 /\ in_offset \in 0 .. Size - 1
      /\ in_offset = IF out_offset + entry < Size THEN out_offset + entry
                                                  ELSE out_offset + entry - Size
  BY MailboxAssumption DEF RingOK, Offset
<1>2. /\ entry' = entry + 1 /\ out_offset' = out_offset
      /\ in_offset' = IF in_offset + 1 >= Size THEN 0 ELSE in_offset + 1
  BY DEF Put, Following
<1>3. msg_pool' \in [Offset -> Mail \cup {Nothing}]
  BY DEF Put, RingOK
<1>4. PICK e, o, i, f, j :
         e = entry /\ o = out_offset /\ i = in_offset /\ f = entry' /\ j = in_offset'
  OBVIOUS
<1>5. /\ f \in 0 .. Size /\ j \in 0 .. Size - 1
      /\ j = IF o + f < Size THEN o + f ELSE o + f - Size
  BY <1>1, <1>2, <1>4
<1> QED BY <1>1, <1>2, <1>3, <1>4, <1>5 DEF RingOK, Offset

LEMMA ReceiveKeepsRing ==
    ASSUME RingOK, NEW t, Receives(t)
    PROVE  RingOK'
<1>1. /\ Size \in Nat \ {0} /\ entry \in 1 .. Size
      /\ out_offset \in 0 .. Size - 1 /\ in_offset \in 0 .. Size - 1
      /\ in_offset = IF out_offset + entry < Size THEN out_offset + entry
                                                  ELSE out_offset + entry - Size
  BY MailboxAssumption DEF RingOK, Offset, Receives, Blocked
<1>2. /\ entry' = entry - 1 /\ in_offset' = in_offset /\ msg_pool' = msg_pool
      /\ out_offset' = IF out_offset + 1 >= Size THEN 0 ELSE out_offset + 1
  BY DEF Receives, Following
<1>3. PICK e, o, i, f, j :
         e = entry /\ o = out_offset /\ i = in_offset /\ f = entry' /\ j = out_offset'
  OBVIOUS
<1>4. /\ f \in 0 .. Size /\ j \in 0 .. Size - 1
      /\ i = IF j + f < Size THEN j + f ELSE j + f - Size
  BY <1>1, <1>2, <1>3
<1> QED BY <1>1, <1>2, <1>3, <1>4 DEF RingOK, Offset

\* Steps that leave the ring alone.
Rests(t) ==
    \/ \E op \in Op, timed \in BOOLEAN : Waiting(t, op, timed)
    \/ Schedules(t)
    \/ \E op \in Op : GivesUp(t, op)
    \/ Fails(t) \/ DetachStarts(t) \/ DetachResumes(t)
    \/ Sleep(t) \/ Slice \/ Timeout(t)

LEMMA RestsSame ==
    ASSUME NEW t, Rests(t)
    PROVE  UNCHANGED <<ring, got>>
BY DEF Rests, Waiting, Schedules, GivesUp, Fails, DetachStarts, DetachResumes,
       Sleep, Slice, Timeout

LEMMA StepKinds ==
    ASSUME [Next]_vars
    PROVE  \/ UNCHANGED <<ring, got>>
           \/ \E t \in Thread : Sends(t) \/ Receives(t) \/ rt_mb_control(t)
           \/ IsrSends
<1>1. ASSUME NEW t \in Thread, ThreadStep(t) \/ Sleep(t) \/ Timeout(t)
      PROVE  Sends(t) \/ Receives(t) \/ rt_mb_control(t) \/ Rests(t)
  BY <1>1 DEF ThreadStep, Rests, Op
<1>2. CASE Slice
  BY <1>2 DEF Slice
<1>3. CASE UNCHANGED vars
  BY <1>3 DEF vars
<1> QED BY <1>1, <1>2, <1>3, RestsSame DEF Next

LEMMA StepRing == RingOK /\ [Next]_vars => RingOK'
<1> SUFFICES ASSUME RingOK, [Next]_vars PROVE RingOK'
  OBVIOUS
<1>1. CASE UNCHANGED <<ring, got>>
  BY <1>1 DEF RingOK, ring
<1>2. ASSUME NEW t \in Thread, Sends(t) PROVE RingOK'
  BY <1>2, PutKeepsRing DEF Sends, Blocked, Mail
<1>3. ASSUME NEW t \in Thread, Receives(t) PROVE RingOK'
  BY <1>3, ReceiveKeepsRing
<1>4. ASSUME NEW t \in Thread, rt_mb_control(t) PROVE RingOK'
  BY <1>4, MailboxAssumption DEF rt_mb_control, RingOK, Offset
<1>5. CASE IsrSends
  BY <1>5, PutKeepsRing DEF IsrSends, Blocked, Mail
<1> QED BY <1>1, <1>2, <1>3, <1>4, <1>5, StepKinds
-----------------------------------------------------------------------------
LEMMA InitMail == Init => MailInv
<1> SUFFICES ASSUME Init PROVE MailInv
  OBVIOUS
<1>1. /\ k = KernelStart(InitThread, InitPriority, InitReady)
      /\ pc = [t \in Thread |-> "user"] /\ call = [t \in Thread |-> "none"]
  BY DEF Init, ThreadsInit
<1>2. Starts(InitThread, InitPriority, InitReady)
  BY ThreadsAssumption DEF Starts
<1>3. ThreadsOK(k, pc) /\ \A op \in Op : k.list[List(op)] = <<>>
  BY <1>1, <1>2, CallsStart, OpOK
<1>4. CallsOK(k, pc, call)
  BY <1>1, <1>3 DEF CallsOK, InList, Contains, InWait
<1>5. RingOK
  BY MailboxAssumption DEF Init, RingOK, Offset
<1>6. \A op \in Op : WokenOf(k, pc, call, op) = {}
  BY <1>1 DEF WokenOf, GrantedOf
<1>7. \A op \in Op : Awaited(op)
  BY <1>3, <1>6, FS_EmptySet DEF Awaited
<1> QED BY <1>1, <1>3, <1>4, <1>5, <1>7 DEF MailInv, PC

\* Where a step may leave a thread.
LEMMA StepPlaces == pc \in [Thread -> PC] /\ [Next]_vars => pc' \in [Thread -> PC]
<1> SUFFICES ASSUME pc \in [Thread -> PC], [Next]_vars PROVE pc' \in [Thread -> PC]
  OBVIOUS
<1>1. \/ pc' = pc
      \/ \E t \in Thread, at \in PC : Goto(t, at)
  <2>1. ASSUME NEW t \in Thread, ThreadStep(t)
        PROVE  pc' = pc \/ \E at \in PC : Goto(t, at)
    <3>1. CASE Sends(t) \/ Receives(t)
      BY <3>1 DEF Sends, Receives, Wakes, PC
    <3>2. ASSUME NEW op, NEW timed, Waiting(t, op, timed) PROVE Goto(t, "sched")
      BY <3>2 DEF Waiting
    <3>3. CASE Schedules(t)
      BY <3>3 DEF Schedules, Reschedule, PC
    <3>4. ASSUME NEW op, GivesUp(t, op) PROVE Goto(t, "user")
      BY <3>4 DEF GivesUp
    <3>5. CASE Fails(t) \/ rt_mb_control(t) \/ DetachStarts(t)
      BY <3>5 DEF Fails, rt_mb_control, DetachStarts, PC
    <3>6. CASE DetachResumes(t)
      BY <3>6 DEF DetachResumes, ChecksList, ResumesNext, PC
    <3>7. "sched" \in PC /\ "user" \in PC
      BY DEF PC
    <3> QED BY <2>1, <3>1, <3>2, <3>3, <3>4, <3>5, <3>6, <3>7 DEF ThreadStep
  <2>2. ASSUME NEW t \in Thread, Sleep(t) PROVE \E at \in PC : Goto(t, at)
    BY <2>2 DEF Sleep, Sleeps, Reschedule, PC
  <2>3. CASE UNCHANGED vars \/ Slice \/ IsrSends \/ \E u \in Thread : Timeout(u)
    BY <2>3 DEF vars, Slice, SliceExpires, IsrSends, Timeout, TimerFires
  <2> QED BY <2>1, <2>2, <2>3 DEF Next
<1> QED BY <1>1 DEF Goto

LEMMA StepMailInv == MailInv /\ [Next]_vars => MailInv'
<1> SUFFICES ASSUME MailInv, [Next]_vars PROVE MailInv'
  OBVIOUS
<1>1. ThreadsOK(k', pc') /\ CallsOK(k', pc', call') /\ \A op \in Op : Effect(op)
  BY StepWakes
<1>2. RingOK'
  BY StepRing DEF MailInv
<1>3. \A op \in Op : Awaited(op)'
  BY <1>1, EffectAwaited, StateOK DEF MailInv
<1>4. pc' \in [Thread -> PC]
  BY StepPlaces DEF MailInv
<1> QED BY <1>1, <1>2, <1>3, <1>4 DEF MailInv

(***************************************************************************)
(* While receivers wait, a woken receiver is on its way for every mail in  *)
(* the box, and while senders wait, a woken sender for every free place,   *)
(* for any threads, programs and number of places: whoever overtakes them, *)
(* times out, resets or detaches.                                          *)
(***************************************************************************)
THEOREM MailboxNoLostWakeup == Spec => []NoLostWakeup
<1>1. MailInv => NoLostWakeup
  <2> SUFFICES ASSUME MailInv PROVE NoLostWakeup
    OBVIOUS
  <2>1. ASSUME NEW op \in Op PROVE WokenFor(op) = WokenIn(op)
    BY DEF WokenFor, WokenOf, WokenIn, GrantedOf, Woken, Failed, Waits, InList
  <2>2. "send" \in Op /\ "recv" \in Op /\ List("send") = Senders /\ List("recv") = Receivers
    BY DEF Op, List
  <2>3. Ready("send") = Size - entry /\ Ready("recv") = entry
    BY DEF Ready
  <2> QED BY <2>1, <2>2, <2>3 DEF MailInv, Awaited, NoLostWakeup, WokenFor
<1> QED BY <1>1, InitMail, StepMailInv, PTL DEF Spec
-----------------------------------------------------------------------------
(* The mails in the ring, in order, as a sequence.                         *)
Slot(o, i) == IF o + i < Size THEN o + i ELSE o + i - Size

Cell == Mail \cup {Nothing}

LEMMA ModBounds ==
    ASSUME NEW a \in Nat, NEW g \in Nat \ {0}
    PROVE  a % g \in 0 .. g - 1 /\ a = g * (a \div g) + (a % g)
OBVIOUS

LEMMA SlotIs ==
    ASSUME NEW o \in Offset, NEW i \in 0 .. Size - 1
    PROVE  (o + i) % Size = Slot(o, i) /\ Slot(o, i) \in Offset
<1>1. Size \in Nat \ {0} /\ o \in Nat /\ i \in Nat /\ o < Size /\ i < Size
  BY MailboxAssumption DEF Offset
<1>2. PICK a \in Nat : a = o + i /\ a < 2 * Size
  BY <1>1
<1>3. PICK q, r : q = a \div Size /\ r = a % Size
  OBVIOUS
<1>4. q \in Nat /\ r \in 0 .. Size - 1 /\ a = Size * q + r
  BY <1>1, <1>3, DivBounds, ModBounds
<1>5. q \in {0, 1}
  <2> SUFFICES ASSUME 2 <= q PROVE FALSE
    BY <1>4
  <2>1. Size * 2 <= Size * q
    BY <1>1, <1>4, TimesMonotone
  <2>2. Size * q \in Nat
    BY <1>1, <1>4
  <2> QED BY <1>1, <1>2, <1>4, <2>1, <2>2
<1>6. Size * q = IF q = 0 THEN 0 ELSE Size
  BY <1>1, <1>5
<1>7. r = Slot(o, i)
  BY <1>1, <1>2, <1>4, <1>5, <1>6 DEF Slot
<1> QED BY <1>2, <1>3, <1>4, <1>7 DEF Offset

\* Places that are not the same are not the same in the ring.
LEMMA SlotsDiffer ==
    ASSUME NEW o \in Offset, NEW i \in 0 .. Size - 1, NEW j \in 0 .. Size - 1, i # j
    PROVE  Slot(o, i) # Slot(o, j)
BY MailboxAssumption DEF Slot, Offset

IsRing(c, e, o, p) == c = [i \in 1 .. e |-> p[(o + i - 1) % Size]]

LEMMA MailsAre ==
    ASSUME NEW e \in 0 .. Size, NEW o \in Offset, NEW p \in [Offset -> Cell],
           NEW c, IsRing(c, e, o, p)
    PROVE  /\ c \in Seq(Cell) /\ Len(c) = e /\ e \in Nat
           /\ \A i \in 1 .. e : c[i] = p[Slot(o, i - 1)] /\ Slot(o, i - 1) \in Offset
<1>1. e \in Nat /\ Size \in Nat
  BY MailboxAssumption
<1>2. ASSUME NEW i \in 1 .. e
      PROVE  /\ p[(o + i - 1) % Size] = p[Slot(o, i - 1)] /\ Slot(o, i - 1) \in Offset
  <2>1. i - 1 \in 0 .. Size - 1 /\ o + i - 1 = o + (i - 1)
    BY <1>1 DEF Offset
  <2>2. (o + (i - 1)) % Size = Slot(o, i - 1) /\ Slot(o, i - 1) \in Offset
    BY <2>1, SlotIs
  <2> QED BY <2>1, <2>2
<1>3. \A i \in 1 .. e : p[(o + i - 1) % Size] \in Cell
  BY <1>2
<1>4. c = [i \in 1 .. e |-> p[(o + i - 1) % Size]]
  BY DEF IsRing
<1>5. c \in Seq(Cell)
  BY <1>1, <1>3, <1>4, IsASeq
<1> QED BY <1>1, <1>2, <1>4, <1>5

LEMMA ContentsAre ==
    ASSUME RingOK, RingOK'
    PROVE  /\ Contents \in Seq(Cell) /\ Len(Contents) = entry
           /\ \A i \in 1 .. entry :
                 Contents[i] = msg_pool[Slot(out_offset, i - 1)] /\ Slot(out_offset, i - 1) \in Offset
           /\ Contents' \in Seq(Cell) /\ Len(Contents') = entry'
           /\ \A i \in 1 .. entry' : Contents'[i] = msg_pool'[Slot(out_offset', i - 1)]
<1>1. PICK e, o, p, c : /\ e = entry /\ o = out_offset /\ p = msg_pool /\ c = Contents
  OBVIOUS
<1>2. PICK f, q, r, d : /\ f = entry' /\ q = out_offset' /\ r = msg_pool' /\ d = Contents'
  OBVIOUS
<1>3. e \in 0 .. Size /\ o \in Offset /\ p \in [Offset -> Cell]
  BY <1>1 DEF RingOK, Cell
<1>4. f \in 0 .. Size /\ q \in Offset /\ r \in [Offset -> Cell]
  BY <1>2 DEF RingOK, Cell
<1>5. IsRing(c, e, o, p)
  BY <1>1 DEF Contents, IsRing
<1>6. IsRing(d, f, q, r)
  BY <1>2 DEF Contents, IsRing
<1>7. /\ c \in Seq(Cell) /\ Len(c) = e
      /\ \A i \in 1 .. e : c[i] = p[Slot(o, i - 1)] /\ Slot(o, i - 1) \in Offset
  BY <1>3, <1>5, MailsAre
<1>8. /\ d \in Seq(Cell) /\ Len(d) = f
      /\ \A i \in 1 .. f : d[i] = r[Slot(q, i - 1)]
  BY <1>4, <1>6, MailsAre
<1> QED BY <1>1, <1>2, <1>7, <1>8

LEMMA PutAdds ==
    ASSUME RingOK, RingOK', entry # Size, NEW m \in Mail, Put(m)
    PROVE  Len(Contents) < Size /\ Contents' = Append(Contents, m)
<1>1. PICK e, o, p, a, b : e = entry /\ o = out_offset /\ p = msg_pool
                           /\ a = Contents /\ b = Contents'
  OBVIOUS
<1>2. /\ Size \in Nat /\ e \in 0 .. Size - 1 /\ o \in Offset
      /\ p \in [Offset -> Cell] /\ in_offset = Slot(o, e) /\ Slot(o, e) \in Offset
  BY <1>1, MailboxAssumption DEF RingOK, Cell, Slot
<1>3. /\ msg_pool' = [p EXCEPT ![Slot(o, e)] = m]
      /\ entry' = e + 1 /\ out_offset' = o
  BY <1>1, <1>2 DEF Put
<1>4. /\ a \in Seq(Cell) /\ Len(a) = e /\ b \in Seq(Cell) /\ Len(b) = e + 1
      /\ \A i \in 1 .. e : a[i] = p[Slot(o, i - 1)] /\ Slot(o, i - 1) \in Offset
      /\ \A i \in 1 .. e + 1 : b[i] = msg_pool'[Slot(o, i - 1)]
  BY <1>1, <1>3, ContentsAre
<1>5. b[e + 1] = m
  <2>1. e + 1 \in 1 .. e + 1 /\ (e + 1) - 1 = e
    BY <1>2
  <2>2. b[e + 1] = msg_pool'[Slot(o, e)]
    BY <1>4, <2>1
  <2> QED BY <1>2, <1>3, <2>2
<1>6. ASSUME NEW i \in 1 .. e PROVE b[i] = a[i]
  <2>1. i - 1 \in 0 .. Size - 1 /\ i - 1 # e /\ e \in 0 .. Size - 1 /\ i \in 1 .. e + 1
    BY <1>2
  <2>2. Slot(o, i - 1) # Slot(o, e)
    BY <1>2, <2>1, SlotsDiffer
  <2>3. b[i] = msg_pool'[Slot(o, i - 1)] /\ a[i] = p[Slot(o, i - 1)] /\ Slot(o, i - 1) \in Offset
    BY <1>4, <2>1
  <2> QED BY <1>2, <1>3, <2>2, <2>3
<1>7. m \in Cell
  BY DEF Cell
<1>8. b = Append(a, m)
  BY <1>4, <1>5, <1>6, <1>7, AppendIs
<1> QED BY <1>1, <1>2, <1>4, <1>8

LEMMA ReceiveRemoves ==
    ASSUME RingOK, RingOK', NEW t, Receives(t)
    PROVE  Abstract!Remove(t)
<1>1. PICK e, o, p, a, b : e = entry /\ o = out_offset /\ p = msg_pool
                           /\ a = Contents /\ b = Contents'
  OBVIOUS
<1>2. /\ Size \in Nat \ {0} /\ e \in 1 .. Size /\ o \in 0 .. Size - 1
  BY <1>1, MailboxAssumption DEF RingOK, Offset, Receives, Blocked
<1>3. /\ msg_pool' = p /\ entry' = e - 1
      /\ out_offset' = IF o + 1 >= Size THEN 0 ELSE o + 1
      /\ got' = [got EXCEPT ![t] = p[o]]
  BY <1>1 DEF Receives, Following
<1>4. /\ a \in Seq(Cell) /\ Len(a) = e /\ b \in Seq(Cell) /\ Len(b) = e - 1
      /\ \A i \in 1 .. e : a[i] = p[Slot(o, i - 1)]
      /\ \A i \in 1 .. e - 1 : b[i] = p[Slot(out_offset', i - 1)]
  BY <1>1, <1>3, ContentsAre
<1>5. ASSUME NEW i \in 1 .. Len(b) PROVE b[i] = a[i + 1]
  <2>1. i \in 1 .. e - 1 /\ i + 1 \in 1 .. e /\ (i + 1) - 1 = i
    BY <1>2, <1>4
  <2>2. a[i + 1] = p[Slot(o, i)] /\ b[i] = p[Slot(out_offset', i - 1)]
    BY <1>4, <2>1
  <2>3. PICK j : j = out_offset'
    OBVIOUS
  <2>4. Slot(j, i - 1) = Slot(o, i)
    BY <1>2, <1>3, <2>1, <2>3 DEF Slot
  <2> QED BY <2>2, <2>3, <2>4
<1>6. a # <<>>
  BY <1>2, <1>4, EmptySeq
<1>7. b = Tail(a)
  BY <1>4, <1>5, <1>6, TailIs
<1>8. p[o] = Head(a)
  <2>1. 1 \in 1 .. e /\ Slot(o, 1 - 1) = o
    BY <1>2 DEF Slot
  <2> QED BY <1>4, <1>6, <2>1
<1> QED BY <1>1, <1>3, <1>6, <1>7, <1>8 DEF Abstract!Remove

LEMMA StepRefines ==
    ASSUME RingOK, RingOK', [Next]_vars
    PROVE  [Abstract!Next]_<<Contents, got>>
<1>1. CASE UNCHANGED <<ring, got>>
  <2>1. Contents' = Contents
    BY <1>1 DEF Contents, ring
  <2> QED BY <1>1, <2>1
<1>2. ASSUME NEW m \in Mail, Put(m), entry # Size, got' = got
      PROVE  Abstract!Next
  <2>1. Abstract!Add(m)
    BY <1>2, PutAdds DEF Abstract!Add
  <2> QED BY <2>1 DEF Abstract!Next
<1>3. ASSUME NEW t \in Thread, Sends(t) PROVE Abstract!Next
  BY <1>2, <1>3 DEF Sends, Blocked, Mail
<1>4. ASSUME NEW t \in Thread, Receives(t) PROVE Abstract!Next
  BY <1>4, ReceiveRemoves DEF Abstract!Next
<1>5. ASSUME NEW t \in Thread, rt_mb_control(t) PROVE Abstract!Next
  <2>1. entry' = 0 /\ got' = got
    BY <1>5 DEF rt_mb_control
  <2>2. Contents' = <<>>
    <3>1. Contents' \in Seq(Cell) /\ Len(Contents') = 0
      BY <2>1, ContentsAre
    <3> QED BY <3>1, EmptySeq
  <2> QED BY <2>1, <2>2 DEF Abstract!Next, Abstract!Reset
<1>6. CASE IsrSends
  <2>1. Abstract!Next
    BY <1>2, <1>6 DEF IsrSends, Blocked, Mail
  <2> QED BY <2>1
<1> QED BY <1>1, <1>3, <1>4, <1>5, <1>6, StepKinds

(***************************************************************************)
(* The ring implements the bounded queue of BoundedQueue, for any number   *)
(* of places: every mail is received once, in order, by threads that wait, *)
(* are overtaken or time out, with an interrupt that sends.                *)
(***************************************************************************)
THEOREM MailboxRefines == Spec => ImplementsQueue
<1>1. Init => Abstract!Init
  <2> SUFFICES ASSUME Init PROVE Abstract!Init
    OBVIOUS
  <2>1. entry = 0 /\ got = [t \in Thread |-> Nothing]
    BY DEF Init
  <2>2. Contents = <<>>
    BY <2>1 DEF Contents
  <2> QED BY <2>1, <2>2 DEF Abstract!Init
<1>2. MailInv => RingOK
  BY DEF MailInv
<1>3. RingOK /\ RingOK' /\ [Next]_vars => [Abstract!Next]_<<Contents, got>>
  BY StepRefines
<1> QED BY <1>1, <1>2, <1>3, InitMail, StepMailInv, PTL
        DEF Spec, ImplementsQueue, Abstract!Spec
=============================================================================
