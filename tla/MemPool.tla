-------------------------------- MODULE MemPool --------------------------------
(***************************************************************************)
(* The memory pool of src/mempool.c: blocks of one size that threads       *)
(* allocate, waiting if there is none, and that threads and interrupts     *)
(* free.  Each thread has at most one block here and may pass it to a      *)
(* device whose interrupt frees it.                                        *)
(***************************************************************************)
EXTENDS Threads

CONSTANTS Mp,          \* its suspend list
          Blocks,      \* block_total_count of them
          InitBlocks,  \* the free list of rt_mp_init
          NoBlock,
          MaxCount     \* bound: suspend_thread_count

ASSUME MemPoolAssumption ==
    /\ WaitQueue = {Mp}
    /\ Blocks # {} /\ NoBlock \notin Blocks
    /\ InitBlocks \in Seq(Blocks)
    /\ MaxCount \in Nat
    /\ IsInjective(InitBlocks) /\ ToSet(InitBlocks) = Blocks

VARIABLES block_list,          \* the chain of free blocks
          block_free_count,
          suspend_thread_count,
          attached,     \* the pool is not detached
          block,     \* block[t]: the block that t has
          device,    \* the blocks a device has
          mpLimited,   \* the threads whose rt_mp_alloc has a time limit
          fault      \* history: a free took the pool itself for a thread

pool == <<block_list, block_free_count, suspend_thread_count>>
owners == <<block, device>>
mpVars == <<k, pc, pool, attached, owners, mpLimited, fault>>

MpPC == {"user", "sleep", "slept", "sched", "woken", "released",
         "check", "resume", "fault"}

MpWaiters == k.list[Mp]

MpInit ==
    /\ ThreadsInit
    /\ block_list = InitBlocks
    /\ block_free_count = Len(InitBlocks)
    /\ suspend_thread_count = 0
    /\ attached = TRUE
    /\ block = [t \in Thread |-> NoBlock]
    /\ device = {}
    /\ mpLimited = {}
    /\ fault = FALSE

-----------------------------------------------------------------------------
(* rt_mp_alloc: the test of its while loop *)
MpLoops(t) ==
    \/ Calls(t, "alloc") /\ attached /\ block[t] = NoBlock
    \/ Running(t, "woken") /\ ~Failed(t)

\* BUG: a woken thread does not test for a block again
BugAllocNoRetest(t) ==
    /\ MpLoops(t) /\ (block_free_count > 0 \/ pc[t] = "woken")
    /\ block_free_count' = block_free_count - 1
    /\ block' = [block EXCEPT ![t] = IF block_list = <<>> THEN NoBlock ELSE Head(block_list)]
    /\ block_list' = IF block_list = <<>> THEN <<>> ELSE Tail(block_list)
    /\ mpLimited' = mpLimited \ {t}
    /\ Goto(t, "user")
    /\ UNCHANGED <<k, suspend_thread_count, attached, device, fault>>

Allocates(t) ==
    /\ MpLoops(t) /\ block_free_count > 0
    /\ block_free_count' = block_free_count - 1
    /\ block' = [block EXCEPT ![t] = Head(block_list)]
    /\ block_list' = Tail(block_list)
    /\ mpLimited' = mpLimited \ {t}
    /\ Goto(t, "user")
    /\ UNCHANGED <<k, suspend_thread_count, attached, device, fault>>

(* The last to wait is the first on the list. *)
SuspendFirst(t) ==
    [rt_thread_suspend([k EXCEPT !.err[t] = "ok"], t)
        EXCEPT !.list[Mp] = <<t>> \o @]

\* BUG: a woken thread that waits again is not counted
BugWaitingNotCounted(t, timed) ==
    /\ MpLoops(t) /\ block_free_count = 0 /\ suspend_thread_count < MaxCount
    /\ pc[t] = "woken" => timed = (t \in mpLimited)
    /\ k' = IF timed THEN StartTimer(SuspendFirst(t), t) ELSE SuspendFirst(t)
    /\ suspend_thread_count' = IF pc[t] = "woken"
                               THEN suspend_thread_count
                               ELSE suspend_thread_count + 1
    /\ mpLimited' = IF timed THEN mpLimited \cup {t} ELSE mpLimited
    /\ Goto(t, "sched")
    /\ UNCHANGED <<block_list, block_free_count, attached, owners, fault>>

MpWaiting(t, timed) ==
    /\ MpLoops(t) /\ block_free_count = 0 /\ suspend_thread_count < MaxCount
    /\ pc[t] = "woken" => timed = (t \in mpLimited)
    /\ k' = IF timed THEN StartTimer(SuspendFirst(t), t) ELSE SuspendFirst(t)
    /\ suspend_thread_count' = suspend_thread_count + 1
    /\ mpLimited' = IF timed THEN mpLimited \cup {t} ELSE mpLimited
    /\ Goto(t, "sched")
    /\ UNCHANGED <<block_list, block_free_count, attached, owners, fault>>

(* With no time to wait, or none left, it fails. *)
MpGivesUp(t) ==
    /\ MpLoops(t) /\ block_free_count = 0
    /\ pc[t] = "woken" => t \in mpLimited
    /\ k' = [k EXCEPT !.err[t] = "timeout"]
    /\ mpLimited' = mpLimited \ {t}
    /\ Goto(t, "user")
    /\ UNCHANGED <<pool, attached, owners, fault>>

(* Woken with an error it returns at once: suspend_thread_count stays.     *)
MpFails(t) ==
    /\ Running(t, "woken") /\ Failed(t)
    /\ mpLimited' = mpLimited \ {t}
    /\ Goto(t, "user")
    /\ UNCHANGED <<k, pool, attached, owners, fault>>

rt_mp_alloc(t) ==
    \/ Allocates(t)
    \/ \E timed \in BOOLEAN : MpWaiting(t, timed)
    \/ MpGivesUp(t)
    \/ MpFails(t)

-----------------------------------------------------------------------------
(* rt_mp_free decides by suspend_thread_count whether a thread waits.  If  *)
(* the list is empty it takes the list head for the node of a thread: here *)
(* nothing else happens then, as if the memory there did not look like a   *)
(* suspended thread.                                                       *)
Woke == suspend_thread_count # 0

AfterFree ==
    IF Woke /\ MpWaiters # <<>>
    THEN rt_thread_resume([k EXCEPT !.err[Head(MpWaiters)] = "ok"], Head(MpWaiters))
    ELSE k

Frees(b) ==
    /\ block_free_count' = block_free_count + 1
    /\ block_list' = <<b>> \o block_list
    /\ suspend_thread_count' = IF Woke THEN suspend_thread_count - 1
                                       ELSE suspend_thread_count
    /\ fault' = (fault \/ (Woke /\ MpWaiters = <<>>))

rt_mp_free(t) ==
    /\ Calls(t, "alloc") /\ block[t] # NoBlock
    /\ Frees(block[t])
    /\ block' = [block EXCEPT ![t] = NoBlock]
    /\ k' = AfterFree
    /\ Goto(t, IF Woke THEN "released" ELSE "user")
    /\ UNCHANGED <<attached, device, mpLimited>>

HandsOver(t) ==
    /\ Calls(t, "device") /\ block[t] # NoBlock
    /\ device' = device \cup {block[t]}
    /\ block' = [block EXCEPT ![t] = NoBlock]
    /\ UNCHANGED <<k, pc, pool, attached, mpLimited, fault>>

(* The interrupt of the device calls rt_mp_free. *)
IsrFrees(b) ==
    /\ b \in device
    /\ Frees(b)
    /\ device' = device \ {b}
    /\ k' = IF Woke THEN rt_schedule(AfterFree) ELSE k
    /\ UNCHANGED <<pc, attached, block, mpLimited>>

MpSchedules(t) ==
    /\ Reschedule(t, "sched", "woken") \/ Reschedule(t, "released", "user")
    /\ UNCHANGED <<pool, attached, owners, mpLimited, fault>>

-----------------------------------------------------------------------------
(* rt_mp_detach and rt_mp_delete, with a loop like rt_ipc_list_resume_all  *)
(* that counts.                                                            *)
MpDetachStarts(t) ==
    /\ Calls(t, "detach") /\ attached
    /\ attached' = FALSE
    /\ Goto(t, "check")
    /\ UNCHANGED <<k, pool, owners, mpLimited, fault>>

MpDetachResumes(t) ==
    /\ \/ /\ ChecksList(t, "check", Mp, "resume", "user")
          /\ UNCHANGED suspend_thread_count
       \/ /\ ResumesNext(t, "resume", Mp, "check")
          /\ suspend_thread_count' = suspend_thread_count - 1
    /\ UNCHANGED <<block_list, block_free_count, attached, owners, mpLimited, fault>>

MpSleep(t) == Sleeps(t) /\ UNCHANGED <<pool, attached, owners, mpLimited, fault>>

MpSlice == SliceExpires /\ UNCHANGED <<pool, attached, owners, mpLimited, fault>>

MpTimeout(u) == TimerFires(u) /\ UNCHANGED <<pool, attached, owners, mpLimited, fault>>

-----------------------------------------------------------------------------
MpNext ==
    \/ \E t \in Thread : \/ rt_mp_alloc(t)
                         \/ rt_mp_free(t)
                         \/ HandsOver(t)
                         \/ MpSchedules(t)
                         \/ MpDetachStarts(t)
                         \/ MpDetachResumes(t)
    \/ \E b \in Blocks : IsrFrees(b)
    \/ \E t \in Thread : MpSleep(t)
    \/ MpSlice
    \/ \E u \in Thread : MpTimeout(u)

MpSpec == MpInit /\ [][MpNext]_mpVars
-----------------------------------------------------------------------------
MpTypeOK ==
    /\ k \in KernelState
    /\ pc \in [Thread -> MpPC]
    /\ block_list \in Seq(Blocks)
    /\ block_free_count \in 0 .. Cardinality(Blocks)
    /\ suspend_thread_count \in Int
    /\ attached \in BOOLEAN
    /\ block \in [Thread -> Blocks \cup {NoBlock}]
    /\ device \subseteq Blocks
    /\ mpLimited \subseteq Thread
    /\ fault \in BOOLEAN

(* Every block is free, or with one thread, or with the device, and the    *)
(* count of the free ones is right: none is given out twice or lost though *)
(* woken threads are overtaken.                                            *)
BlocksConserved ==
    /\ IsInjective(block_list)
    /\ block_free_count = Len(block_list)
    /\ \A b \in Blocks :
          Cardinality({ t \in Thread : block[t] = b })
            + (IF b \in device THEN 1 ELSE 0)
            + (IF Contains(block_list, b) THEN 1 ELSE 0) = 1

(* No wakeup is lost: while threads wait, a woken one is on its way for    *)
(* every free block, and suspend_thread_count sees those that wait.        *)
MpNoLostWakeup ==
    attached /\ MpWaiters # <<>> =>
        /\ block_free_count <= Cardinality({ t \in Thread : Woken(t, Mp) })
        /\ suspend_thread_count >= Len(MpWaiters)

(* mempool.c:423 "get the suspended thread": there is one.                 *)
WokenIsWaiter == ~fault
=============================================================================
