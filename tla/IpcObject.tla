------------------------------ MODULE IpcObject -----------------------------
(***************************************************************************)
(* struct rt_ipc_object of include/rtdef.h, of an object with one list of  *)
(* waiters: what Semaphore, Event and MessageQueue have in common.         *)
(***************************************************************************)
EXTENDS Threads

CONSTANTS Object,   \* parent.suspend_thread
          Flag      \* parent.flag: "fifo" or "prio"

ASSUME IpcObjectAssumption == WaitQueue = {Object} /\ Flag \in {"fifo", "prio"}

VARIABLE alive      \* the object is not detached

PC == {"user", "sleep", "slept", "sched", "woken", "released",
       "check", "resume", "fault"}

Waiters == k.list[Object]
=============================================================================
