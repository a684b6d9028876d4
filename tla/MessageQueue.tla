----------------------------- MODULE MessageQueue ------------------------------
(***************************************************************************)
(* The message queue of src/ipc.c: a pool of nodes, each linked in the     *)
(* free list or in the queue, or taken out by a call that copies a message *)
(* into or out of it with interrupts enabled.  Messages are named by their *)
(* sender.                                                                 *)
(***************************************************************************)
EXTENDS IpcObject

CONSTANTS MaxMsgs,     \* mq->max_msgs: nodes in the pool
          IsrActive,   \* a device interrupt sends, too
          Isr,         \* the sender of its messages
          Null,        \* RT_NULL
          Nothing

Node == 1 .. MaxMsgs
Message == Thread \cup {Isr}

ASSUME MessageQueueAssumption ==
    /\ MaxMsgs \in Nat \ {0}
    /\ IsrActive \in BOOLEAN
    /\ Nothing \notin Message
    /\ Null \notin Node

VARIABLES entry, head, tail, free,   \* msg_queue_head, _tail, _free
          next, content,             \* the nodes
          node,      \* node[t]: the node the call of t has taken out
          limited,   \* the threads whose rt_mq_recv has a time limit
          got        \* what the last rt_mq_recv of a thread has copied

links == <<entry, head, tail, free, next>>
locals == <<alive, node, limited>>
vars == <<k, pc, links, content, locals, got>>

MqPC == {"user", "sleep", "slept", "link", "urgent_link", "sched", "woken",
         "put_back", "released", "check", "resume", "fault"}

(* rt_mq_init: the last node of the pool is the first of the free list.    *)
Init ==
    /\ ThreadsInit
    /\ entry = 0 /\ head = Null /\ tail = Null /\ free = MaxMsgs
    /\ next = [n \in Node |-> IF n = 1 THEN Null ELSE n - 1]
    /\ content = [n \in Node |-> Nothing]
    /\ alive = TRUE
    /\ node = [t \in Thread |-> Null]
    /\ limited = {}
    /\ got = [t \in Thread |-> Nothing]

-----------------------------------------------------------------------------
(* rt_mq_send and rt_mq_urgent.  With no free node they fail and change    *)
(* nothing.                                                                *)
TakesNode(t, api, at) ==
    /\ Calls(t, api) /\ alive
    /\ free # Null
    /\ node' = [node EXCEPT ![t] = free]
    /\ free' = next[free]
    /\ Goto(t, at)
    /\ UNCHANGED <<k, entry, head, tail, next, content, alive, limited, got>>

EndedBy(n) == IF tail # Null THEN [next EXCEPT ![tail] = n] ELSE next

\* BUG: msg_queue_tail stays
BugLinkForgetsTail(n) ==
    /\ next' = [EndedBy(n) EXCEPT ![n] = Null]
    /\ tail' = IF tail = Null THEN n ELSE tail
    /\ head' = IF head = Null THEN n ELSE head
    /\ entry' = entry + 1

LinkLast(n) ==
    /\ next' = [EndedBy(n) EXCEPT ![n] = Null]
    /\ tail' = n
    /\ head' = IF head = Null THEN n ELSE head
    /\ entry' = entry + 1

LinkFirst(n) ==
    /\ next' = [next EXCEPT ![n] = head]
    /\ head' = n
    /\ tail' = IF tail = Null THEN n ELSE tail
    /\ entry' = entry + 1

\* BUG: a waiter is woken only when the queue was empty
BugWakesWhenEmpty == k.list[Object] # <<>> /\ entry = 0

Wakes == k.list[Object] # <<>>

(***************************************************************************)
(* The copy is made with interrupts enabled before this section.  Only the *)
(* node taken out is touched, so it is joined with the section.            *)
(***************************************************************************)
Links(t, at) ==
    /\ Running(t, at)
    /\ content' = [content EXCEPT ![node[t]] = t]
    /\ IF at = "link" THEN LinkLast(node[t]) ELSE LinkFirst(node[t])
    /\ node' = [node EXCEPT ![t] = Null]
    /\ k' = IF Wakes THEN rt_ipc_list_resume(k, Object) ELSE k
    /\ Goto(t, IF Wakes THEN "released" ELSE "user")
    /\ UNCHANGED <<free, alive, limited, got>>

rt_mq_send(t) == TakesNode(t, "send", "link") \/ Links(t, "link")

rt_mq_urgent(t) == TakesNode(t, "urgent", "urgent_link") \/ Links(t, "urgent_link")

-----------------------------------------------------------------------------
(* rt_mq_recv: the test of its while loop *)
Loops(t) ==
    \/ Calls(t, "recv") /\ alive
    \/ Running(t, "woken") /\ ~Failed(t)

Unlinks(t) ==
    /\ Loops(t) /\ entry # 0
    /\ node' = [node EXCEPT ![t] = head]
    /\ head' = next[head]
    /\ tail' = IF tail = head THEN Null ELSE tail
    /\ entry' = entry - 1
    /\ limited' = limited \ {t}
    /\ Goto(t, "put_back")
    /\ UNCHANGED <<k, free, next, content, alive, got>>

(* The copy out, with interrupts enabled, is joined with it likewise.      *)
PutsBack(t) ==
    /\ Running(t, "put_back")
    /\ got' = [got EXCEPT ![t] = content[node[t]]]
    /\ next' = [next EXCEPT ![node[t]] = free]
    /\ free' = node[t]
    /\ node' = [node EXCEPT ![t] = Null]
    /\ Goto(t, "user")
    /\ UNCHANGED <<k, entry, head, tail, content, alive, limited>>

(* A call with a time limit that loops waits for what is left of it. *)
Waiting(t, timed) ==
    /\ Loops(t) /\ entry = 0
    /\ timed => "timed" \in Api[t]
    /\ pc[t] = "woken" => timed = (t \in limited)
    /\ Block(t, Object, Flag, timed)
    /\ limited' = IF timed THEN limited \cup {t} ELSE limited
    /\ Goto(t, "sched")
    /\ UNCHANGED <<links, content, alive, node, got>>

(* ... or fails if nothing is left. *)
GivesUp(t) ==
    /\ Running(t, "woken") /\ ~Failed(t) /\ entry = 0
    /\ t \in limited
    /\ k' = [k EXCEPT !.err[t] = "timeout"]
    /\ limited' = limited \ {t}
    /\ Goto(t, "user")
    /\ UNCHANGED <<links, content, alive, node, got>>

Fails(t) ==
    /\ Running(t, "woken") /\ Failed(t)
    /\ limited' = limited \ {t}
    /\ Goto(t, "user")
    /\ UNCHANGED <<k, links, content, alive, node, got>>

rt_mq_recv(t) ==
    \/ \E timed \in BOOLEAN : Waiting(t, timed)
    \/ Unlinks(t)
    \/ PutsBack(t)
    \/ GivesUp(t)
    \/ Fails(t)

Schedules(t) ==
    /\ Reschedule(t, "sched", "woken") \/ Reschedule(t, "released", "user")
    /\ UNCHANGED <<links, content, locals, got>>

-----------------------------------------------------------------------------
(* Nodes(n): those reached from n, in order, by following the links at    *)
(* most MaxMsgs - 1 times.                                                 *)
Nodes(n) ==
    LET at[i \in 0 .. MaxMsgs] ==
            IF i = 0 THEN n ELSE IF at[i - 1] = Null THEN Null ELSE next[at[i - 1]]
        reached == { i \in 0 .. MaxMsgs - 1 : at[i] # Null }
    IN  [i \in 1 .. Cardinality(reached) |-> at[i - 1]]

\* BUG: the nodes reset are not given back
BugResetClearsFree(t) ==
    /\ Calls(t, "reset") /\ alive
    /\ k' = rt_ipc_list_resume_all(k, Object)
    /\ entry' = 0 /\ head' = Null /\ tail' = Null
    /\ Goto(t, "released")
    /\ UNCHANGED <<free, next, content, locals, got>>

(* rt_mq_control(RT_IPC_CMD_RESET): the nodes of the queue go one by one   *)
(* to the front of the free list.                                          *)
rt_mq_control(t) ==
    LET q == Nodes(head)
        put[i \in 0 .. Len(q)] ==
            IF i = 0 THEN [free |-> free, next |-> next]
            ELSE [free |-> q[i], next |-> [put[i - 1].next EXCEPT ![q[i]] = put[i - 1].free]]
    IN  /\ Calls(t, "reset") /\ alive
        /\ k' = rt_ipc_list_resume_all(k, Object)
        /\ entry' = 0 /\ head' = Null /\ tail' = Null
        /\ free' = put[Len(q)].free /\ next' = put[Len(q)].next
        /\ Goto(t, "released")
        /\ UNCHANGED <<content, locals, got>>

(* rt_mq_detach and rt_mq_delete, with the queue as it is.                 *)
DetachStarts(t) ==
    /\ Calls(t, "detach") /\ alive
    /\ alive' = FALSE
    /\ Goto(t, "check")
    /\ UNCHANGED <<k, links, content, node, limited, got>>

DetachResumes(t) ==
    /\ \/ ChecksList(t, "check", Object, "resume", "user")
       \/ ResumesNext(t, "resume", Object, "check")
    /\ UNCHANGED <<links, content, locals, got>>

Sleep(t) == Sleeps(t) /\ UNCHANGED <<links, content, locals, got>>

Slice == SliceExpires /\ UNCHANGED <<links, content, locals, got>>

Timeout(u) == TimerFires(u) /\ UNCHANGED <<links, content, locals, got>>

(* A device interrupt sends: it is not interrupted itself. *)
IsrSends ==
    /\ IsrActive /\ alive /\ free # Null
    /\ content' = [content EXCEPT ![free] = Isr]
    /\ free' = next[free]
    /\ next' = [(IF tail # Null THEN [next EXCEPT ![tail] = free] ELSE next)
                   EXCEPT ![free] = Null]
    /\ tail' = free
    /\ head' = IF head = Null THEN free ELSE head
    /\ entry' = entry + 1
    /\ k' = IF Wakes THEN rt_schedule(rt_ipc_list_resume(k, Object)) ELSE k
    /\ UNCHANGED <<pc, locals, got>>

-----------------------------------------------------------------------------
Next ==
    \/ \E t \in Thread : \/ rt_mq_send(t)
                         \/ rt_mq_urgent(t)
                         \/ rt_mq_recv(t)
                         \/ Schedules(t)
                         \/ rt_mq_control(t)
                         \/ DetachStarts(t)
                         \/ DetachResumes(t)
    \/ \E t \in Thread : Sleep(t)
    \/ Slice
    \/ \E u \in Thread : Timeout(u)
    \/ IsrSends

Spec == Init /\ [][Next]_vars
-----------------------------------------------------------------------------
TypeOK ==
    /\ k \in KernelState
    /\ pc \in [Thread -> MqPC]
    /\ entry \in 0 .. MaxMsgs
    /\ {head, tail, free} \subseteq Node \cup {Null}
    /\ next \in [Node -> Node \cup {Null}]
    /\ content \in [Node -> Message \cup {Nothing}]
    /\ alive \in BOOLEAN
    /\ node \in [Thread -> Node \cup {Null}]
    /\ limited \subseteq Thread
    /\ got \in [Thread -> Message \cup {Nothing}]

TakenOut == { t \in Thread : node[t] # Null }

(* Every node is at exactly one place (the types hold, too): in the free   *)
(* list, in the queue, or with the one call that copies its message; and   *)
(* head, tail and entry describe the queue, while calls of several threads *)
(* are between their two critical sections and a reset empties the queue   *)
(* under them.                                                             *)
NodesConserved ==
    LET f == Nodes(free)
        q == Nodes(head)
    IN  /\ TypeOK
        /\ Len(f) + Len(q) + Cardinality(TakenOut) = MaxMsgs
        /\ ToSet(f) \cup ToSet(q) \cup { node[t] : t \in TakenOut } = Node
        /\ entry = Len(q)
        /\ tail = IF q = <<>> THEN Null ELSE Last(q)

(* No wakeup is lost: while receivers wait there is a woken one on its way *)
(* for every message in the queue, whoever overtakes them.                 *)
NoLostWakeup ==
    k.list[Object] # <<>> => entry <= Cardinality({ t \in Thread : Woken(t, Object) })

Contents ==
    LET q == Nodes(head)
    IN  [i \in 1 .. entry |-> IF i <= Len(q) THEN content[q[i]] ELSE Nothing]

(* The linked nodes are a queue in which urgent messages come first: a     *)
(* message is received once, whole, in order, though it is copied with     *)
(* interrupts enabled.  It is received when its node is unlinked.          *)
AbstractQueue == INSTANCE BoundedQueue WITH
    Receiver <- Thread, Capacity <- MaxMsgs,
    queue <- Contents,
    got   <- [t \in Thread |-> IF pc[t] = "put_back" THEN content[node[t]] ELSE got[t]]

ImplementsQueue == AbstractQueue!Spec
=============================================================================
