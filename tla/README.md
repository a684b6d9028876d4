# A verification project for the QR scanner firmware and its RT-Thread kernel

The repository is the firmware of a QR-code scanner: the RT-Thread kernel
(`src/`, `include/`) and the application on top of it (`core/`).  One CPU (SMP
is off), priorities 0 (most urgent) to 255, a tick of 10 ms, software timers in
a thread of their own, assertions compiled away.  These TLA+ modules model the
scheduler, the life of threads and the heap they come from, the kernel's
synchronisation objects, the memory pool, the timers, the application's scan
pipeline, and what the firmware keeps without power: its settings, its serial
number and the proof that it is genuine.  TLC checks them on small instances.
For every instance, the TLA+ proof system proves the consistency of the
scheduler, the exclusion and the priority inheritance of mutexes, that
semaphores, events, mailboxes, message queues and pools lose, duplicate and
overlook nothing, that semaphores, mailboxes and message queues implement what
they promise, that the lists of timers stay sorted and no hard timer fires late,
that the heap stays whole and every block of it has one owner while threads come and
go, the ownership of image buffers and texts, what survives a loss of power, and
that the serial number in the flash is the host's.  The proofs rest on the
hypotheses that section 4 states; liveness is model-checked, and so is that
nothing in use is freed.

Some of what the code does is undefined: a list of soft timers torn by an
interrupt, a wild pointer freed, a buffer on the stack overrun.  There the models
end and say nothing of what follows; section 3 has the properties that say such
states are not reached, which do not hold.

Paths below are relative to the repository's root.

## 1. The system

### Components and their state

| Component | State | Operations | Talks to | What makes it correct |
|---|---|---|---|---|
| Scheduler (`src/scheduler.c`) | a ready list per priority, a two-level bitmap, the current thread, the lock count | `rt_schedule`, insert, remove, enter/exit critical | everyone; interrupts call it too | lists and bitmap agree; the most urgent ready thread runs; equals share the CPU |
| Threads (`src/thread.c`) | state, priority, slice, error, a timer each | suspend, resume, sleep, yield, startup, control, detach, delete, timeout | scheduler, timers, IPC lists (one `tlist` node for all of them) | a thread is linked once; nothing is woken twice; sleepers wake |
| IPC objects (`src/ipc.c`) | a suspend list each and a value, an owner, a flag set, a ring or two linked lists | take/release, send/recv, reset, detach | scheduler; interrupts may release and send | nothing is lost or given out twice; no waiter sleeps beside what it waits for |
| Memory pool (`src/mempool.c`) | a chain of free blocks, two counters, a suspend list | alloc, free, detach | scheduler; interrupts may free | blocks are conserved |
| Timers (`src/timer.c`, `src/clock.c`) | a sorted list of hard timers and one of soft ones, flags, the tick | start, stop, control, the clock interrupt, the timer thread | every timed wait; callbacks start and stop timers | lists sorted through tick wrap; nothing fires early, late or never |
| Scan pipeline (`core/zbar`, `core/misc`, the frame loop in `core/vlcview`) | image buffers with a flag each, two mailboxes, texts on the heap, the scanner switch and its light | frame, decode, send, obey, start, stop | IPC, player, host by USB | a buffer and a text have one owner; nothing is dropped by an idle stop |
| Sound player (`core/audio`) | the file in the buffer, play status, stop request | play, stop | two events | one sound at a time, each to its end |
| Configuration store (`core/xgd_config`: `dev_ini.c`, `xgd_config.c`, `xgd_config_deal.c`) | the ini file in flash, its records in memory, the values in use | load, default, read, write, save, obey a setting code | file system, pipeline, decoder, sender, player | a restart finds the settings that were in use |
| Serial number (`xgd_sn_down.c`, `core/flash`) | two records with a sum byte in one flash sector, a frame parser | download a frame, write, read | host by USB, flash driver | a record is whole or absent, and as the host sent it |
| Secure boot (`core/security`) | one-time fuses, a ciphertext in the same sector, the verdict | inject a key, encrypt, judge | fuses, flash | what was injected is found genuine at the next start |
| Heap (`src/slab.c`) | a list of free page runs, zones of equal chunks, free zones, the use of each page | malloc, free, page alloc and free | a semaphore; everyone | every page and block has one owner |
| Idle and defunct threads (`src/idle.c`, `src/object.c`) | the list of defunct threads, the object container | exit, delete, reap | heap, scheduler | nothing in use is freed; the dead are freed |
| Devices, USB classes, video, audio drivers | registries, vendor handles | | | see section 5 |

### What is hard here

Almost every call enables interrupts between its steps.  A thread that has put
itself on a list may be woken by an interrupt before it calls `rt_schedule`; a
woken thread has to look again, because a more urgent one may have taken what
it was woken for; a timeout takes a thread off the list it waits in while
another thread is about to wake it.  `rt_thread_resume` and
`rt_ipc_list_resume_all` look at the state before they lock it.  Timer
callbacks change the list that is being walked.  In the application the
results of `rt_mb_send` are ignored, and ownership of buffers and texts rests
on sizes and priorities alone.  A thread that exits queues itself for idle while
it runs on the stack idle will free; `rt_malloc` and `rt_free` let go of the heap
in the middle.  Power may go while a file or a sector is erased and not yet
written again, and fuses cannot be burnt a second time.  `PROJECT.json` lists these hazards with their
lines and the properties that cover them.

## 2. The modules

    Kernel             the kernel's data and the functions that change it
    |- KernelProofs    what those functions keep, for all the proofs below
    |- Scheduler       threads calling the scheduling API; interrupts
    |  |- SchedulerProofs   (Scheduler, Timer)
    |- Threads         what a thread in a blocking call does, for the objects:
       |- IpcObject    an object with one list of waiters
       |  |- Semaphore -> CountingSemaphore (implements)
       |  |- Event
       |  |- MessageQueue -> BoundedQueue   (implements)
       |- Mutex
       |  |- MutexProofs
       |- Mailbox -> BoundedQueue           (implements)
       |  |- MailboxProofs
       |- MemPool
       |- ObjectProofs   (Semaphore, Event, MessageQueue, MemPool)
    Timer              hard and soft timers, the clock, the timer thread
    Slab               the heap: pages, zones, chunks
    |- SlabProofs      what its sections keep
    Kernel, Slab       threads and the heap they come from:
    |- ThreadLife      create, exit, delete, idle
       |- ThreadLifeProofs
    Scanner            the application's pipeline, above the kernel
    Settings, Provision    what is kept without power
    |- NonVolatile     both, the USB port and the start of the firmware
    |- ApplicationProofs   (Scanner, Settings, NonVolatile)
    MC*                the instances that TLC checks

**Kernel** is a record `k` (ready and suspend lists `list`, bitmap `table` and
`group`, `stat`, `prio`, `err`, `tmr` of each thread, `cur`, `lock`) and one
operator per kernel function that maps a `k` to the next, so that a caller's
critical section is one expression such as
`rt_schedule(rt_thread_resume(k, t))`.  `rt_list_remove` removes a node from
whatever list it is in, as the C macro does, so a node linked twice or a stale
one misbehaves in the model as in the code.

**Scheduler** and the object modules give each thread a program counter.  Only
the current thread moves (`k.cur = t`); each step is the code between two
points where interrupts are enabled; interrupts (clock, thread timer, device)
are actions that are enabled between any two steps.  So a step is a critical
section of the C code, and all interleavings that preemption allows are there.

**Mailbox, MessageQueue, MemPool** test again after a wakeup and wait for the
rest of their time; whether any is left is a free choice.  In MessageQueue a node
is in no list between the two critical sections of a call, while its message is
copied; everything else may happen there, a reset too.  The copy itself touches
only that node and is joined with the second section.

**Timer** follows one tick counter that wraps.  `rt_timer_start` is four steps
(unlink, compute, insert, wake the timer thread), `rt_timer_stop` three (its
test of the flag, the unlink, the flag).  `rt_soft_timer_check` locks the
scheduler, which keeps other threads out, and never disables interrupts: each of
its statements that reads or writes what timeout functions of hard timers may
change is a step (is the timer due, `n->next`, the unlink, the flag read, the flag
cleared, the restart), and so are the thread's look at its list, in two, and its
suspension.  The clock interrupt is one step that fires all due hard timers, one turn
of the loop of `rt_timer_check` after the other, and comes between any of these.
If it changes the soft list while the thread is among the loads and stores of
`rt_list_remove` (`include/rtservice.h:82`), the list stays whole if the thread has not
begun or other timers are meant, and is torn otherwise: both outcomes are there, and the
second (`Tears`) is the end of the model.  No
thread is kept from a due timer for more than `MaxLate` ticks, and periods are
shorter than half a turn of the tick by as much: `rt_timer_start` asserts the
half (`src/timer.c:323`), and with less the order of the list would be lost.
Calls on one timer do not overlap: no two agents start the
same timer at once.

**Scanner** is above the kernel: mailboxes are bounded queues and events are
bits, which Mailbox and Event justify, and a thread moves if no ready thread
has a smaller priority number.  Priorities are those of the build.  Elapsed
time (between scans, before the idle stop) is left open.  `image_queue_init` is
two steps for each buffer: the camera, which is more urgent, may claim the buffer
when its flag is cleared and its `bufferptr` not yet set; it gets NULL, takes that
for a full queue, and the flag stays (`lost`).  `dev_audio_play` frees the
uninitialised `fr2_info.data` when a file cannot be opened
(`core/audio/dev_audio.c:455`): either nothing comes of that, or the model ends
(`FreesWild`).

**Slab** is the allocator of the build.  A run of pages, a zone, the use of each
page are a record `heap`; each section between a take and a release of
`heap_sem` is an operator on it (that those sections exclude each other is what
Semaphore shows).  **ThreadLife** strings them together: `rt_malloc` of a small
block is one to three steps, `rt_free` one or two, `rt_thread_create` allocates,
registers, allocates a stack and undoes the first two if it gets none;
`rt_thread_delete` is four steps; idle's reaping is up to six, and a more urgent
thread may come between any two.  A thread *is* the address of its control
block, so that a new one may lie where an old one was and a stale reference is
one to a block that is free.  Stacks may be small blocks, among the texts of the
application, or runs of pages.  What is left in freed memory is reset.

**Settings** is the file as a sequence of lines, the records as the lines that
`dev_ini_save` would write, and the value each key is used at.  `Used` is what
the reader of a key makes of it: a missing key is read as -1, which the readers
of `Checked` replace, and those of `SET_VOICE`, `SET_COM_MODE`,
`SET_ENTER_NEWLINE` and `SET_SCAN_CODE` use as it is.  `scan_delay_config` is a plain
`char`, so it holds 255 or -1 of a missing key (`CharIsSigned`).  A save truncates
the file and writes a line at a step.  **Provision** takes the host's bytes
through the frame parser, one read of any length at a step, and the sector
through an erasure and two programmings for each of its records.  A record in
the sector is a sequence of one entry, or of none where there is no record or
its sum does not fit.  The text of a download is copied into the 32 bytes of
`w_buff` before its length is compared with `POSSN_MAX_SIZE`
(`core/xgd_config/xgd_sn_down.c:257`): one that is too long and fits is refused, and with a
longer one the model ends (`Overrun`).  The fuses keep
their first key and a cipher is the pair of its key and its text.
**NonVolatile** composes the two with the USB port and the order in which
`user_main` starts things; a loss of power, at any step, keeps the file, the
sector and the fuses.

Assumed there: a `write()` to the file is done entirely or not at all, and calls
of the file system, the flash, the fuses and the cipher do not fail; a sector is
programmed from its beginning; the two bytes into which a setting's value is
printed (`xgd_config.c:400`) are taken as large enough.  In ThreadLife: all
threads but idle come from `rt_thread_create` (main does, `src/components.c:200`),
none has a cleanup function or belongs to a module; and with `Careful = TRUE` a
thread that is deleted waits without a time limit, is not dead and is not being
deleted by another, and nobody wakes it meanwhile.

## 3. What TLC checks

| Run | Shows |
|---|---|
| `Scheduler` | ready lists, bitmap and states stay consistent (`KernelConsistent`); nothing but the current thread is RUNNING, also when it was resumed before it got to `rt_schedule` (`OnlyCurrentRuns`); what `rt_thread_resume` checked still holds when it acts, if one agent wakes a thread (`ResumeTargetHeld`) |
| `SchedulerLive` | preemption (`RunsHighest`), sharing by equals (`RoundRobin`), sleeping ends (`SleepEnds`) |
| `Semaphore` | tokens are conserved through timeouts, resets and detach; none lies idle beside a waiter; waiters are served by priority; `CountingSemaphore` is implemented |
| `Mutex` | exclusion; free or owned as a whole; inheritance and its end for threads that never held two mutexes |
| `Event` | no satisfied waiter is left; a cleared flag goes to one receiver; a receiver gets what it asked for |
| `Mailbox` | no wakeup is lost though woken threads are overtaken; `BoundedQueue` is implemented |
| `MessageQueue` | every node has one place; no wakeup is lost; `BoundedQueue` is implemented |
| `MemPool` | every block has one place; no wakeup is lost |
| `Timer` | lists sorted through the wrap, the soft one until an interrupt tears it; no active timer is forgotten, and every hard timer in the list can be stopped; hard timers fire at their tick |
| `Scanner` | a text has one owner, and so has a buffer, but one claimed in the middle of `image_queue_init`, which has none; the idle stop never switches the scanner off over a waiting text, because the sender is more urgent than the decoder |
| `NonVolatile` | after power was lost at any step, a restart finds the settings that were in use or the first lines of a file that was being saved (`RestartFindsSettings`); the checked keys a file has lost are used at their defaults (`ForgottenIsDefault`); a serial number is one the host sent, or empty, however its bytes were cut into reads, garbled or mixed (`SerialWholeOrEmpty`); a device whose host was told that the number is taken is genuine after any restart (`GenuineWhenTold`); the thread that listens for it has the serial class of the USB port (`ListensOverCdc`) |
| `ThreadLife` | nothing the kernel refers to is in freed memory, and no thread runs on a freed stack (`NothingFreedInUse`); pages have one owner and free runs are joined (`HeapTiled`); blocks have one owner whichever allocation fails (`BlocksOwned`); the dead are freed (`Reaped`) |

Every property of a passing run has a mutant, a `Bug...` operator beside the
one it replaces, that makes TLC find the property violated.

Type invariants are stated in every module; that of the scheduler is kept as a
run, those of mutexes and semaphores are proved.

### Faults of the kernel

*Pool.* `rt_mp_alloc` counts waiting threads in `suspend_thread_count` and
leaves the count as it is when it times out (`src/mempool.c:357`);
`rt_mp_free` trusts the count (`:421`) and takes the empty list's head for a
`struct rt_thread`.  The model records it in `fault` and then goes on as if
nothing else had happened, the mildest outcome; so what `MemPool` shows holds
if the memory there does not happen to look like a suspended thread.

*Timer thread.* `rt_thread_timer_entry` reads the list at `src/timer.c:646`
and suspends itself at `:650`.  A start in between, by an interrupt or a more
urgent thread, finds the thread not yet suspended and does not wake it.

*Soft timers.*  `rt_soft_timer_check` holds the scheduler lock and not the
interrupts.  An interrupt that starts or stops a soft timer can tear the list in the middle
of the unlink (`:600`, `SoftListWhole`), take away the timer that `n` stands at
(`:597`, `ScansLinked`), or start the timer whose flag is about to be cleared
(`:626`): that one is in the list, will fire, and `rt_timer_stop` refuses to stop it
(`LinkedIsActive`).  None of this is about the hard timers, whose list is only changed with
interrupts disabled.

### Stated but not kept as runs

These are defined in the modules and are known not to hold; to see it, name
the property as the INVARIANT of the configuration given.

| Property | Where | Why it fails |
|---|---|---|
| `WokenIsWaiter` | `MemPool.cfg` | the pool's fault above |
| `WatchesTimers` | `Timer.cfg` | the timer thread's |
| `SoftListWhole`, `LinkedIsActive`, `ScansLinked` | `Timer.cfg` | those of soft timers; with two soft timers and no interrupt a timeout function that stops the next one will do for the last |
| `NoFrameLost` | `Scanner.cfg` | the camera claims the only buffer between `core/zbar/zbar_queue.c:38` and `:42`, gets NULL and drops the frame (`core/zbar/xgdzbar.c:412`); the buffer stays marked used and nothing is decoded any more |
| `NoWildFree` | `Scanner.cfg` | a sound file that cannot be opened: `core/audio/dev_audio.c:455` frees a pointer that was never set |
| `DelayFitsSound` | `NonVolatile.cfg` | a `SET_VOICE` lost with the end of the file is -1: not `SET_VOICE_OK`, so it beeps, and not 0, so it waits 90 ticks for the spoken answer (`core/misc/xgd_sender.c:182`, `:192`) |
| `TooLongIsRefused` | `NonVolatile.cfg` | a serial number longer than 32 bytes is copied into `w_buff` before it is refused (`core/xgd_config/xgd_sn_down.c:257`) |
| `NothingFreedInUse` | `ThreadLife.cfg` with `Deletable = {0}`, and without `MCOthersWait`, which that breaks | a sleeping thread is deleted: its timer fires after `rt_schedule_remove_thread` and before `rt_timer_detach` (`src/thread.c:441`, `:445`), and the closed thread is ready again when idle frees it. `sample_vlcview_exit` (`core/vlcview/sample_vlcview.c:109`) deletes a thread that sleeps a tick at a time |
| `NothingFreedInUse` | `ThreadLife.cfg` with `Careful = FALSE` | `rt_thread_find` finds a thread until `rt_object_delete`: one that idle has taken off its list and is freeing (`src/idle.c:180` to `:224`) can be deleted once more and is queued again |
| `FactoryResets` | `NonVolatile.cfg`, as a PROPERTY | the file is deleted, the records are kept, and the next setting writes the old ones again (`core/xgd_config/xgd_config_deal.c:236`) |
| `DeafIsGenuine` | `NonVolatile.cfg` | power lost after the serial number and before its ciphertext leaves a device that no longer listens (`xgd_sn_down.c:530`) and masks what it reports (`core/misc/xgd_sender.c:211`), for good |
| `SerialAsSent` | `NonVolatile.cfg` | the buffer of a frame is cleared at every read (`xgd_sn_down.c:385`): of a body cut in two the first part becomes zeros, the number is the empty string, and the sum still fits |
| `ReadyIsQueued` | `Scheduler.cfg` with `OneWaker = FALSE` | two agents resume one thread: the state is checked before interrupts are disabled (`src/thread.c:715`) |
| `NextIsSuspended` | `Semaphore.cfg` | `rt_ipc_list_resume_all` tests the list with interrupts enabled; a timeout empties it (`src/ipc.c:162`) |
| `NoReversion` | `Mutex.cfg` | priorities are saved per mutex, not per thread: two mutexes released in the order they were taken lose an inheritance (`src/ipc.c:831`) |

### Bounds

| Bound | Value | Why it is enough |
|---|---|---|
| threads | 3 and idle | one more urgent than two equals (or three levels for Mutex): preemption, overtaking and round robin all need no more. The more urgent one can also sleep, so that the others run while it waits for nothing: without that they never see a full or a non-empty object |
| `Api` | per thread | which calls a thread makes; in `Mailbox` and `MessageQueue` one thread's calls may have a time limit, to keep the runs short |
| `PriorityMax`, `GroupSize` | 3 or 4, 2 | two groups of the bitmap, so both of its levels matter |
| `MaxLock` | 1 | nesting only counts |
| `Produced` (Semaphore), `MaxSends` (Event) | 1, 2 | releases by the interrupt; threads release as often as they like |
| `Size`, `MaxMsgs`, `Blocks` | 2 | full, empty and in between; offsets wrap |
| `MaxCount` (MemPool) | 5 | the stale count may exceed the number of threads by two timeouts |
| `MaxTakes` (Mutex) | 0 to 2 | recursion in one thread, nesting in another |
| `TickMax`, `FirstTick`, `LastTick` | 10, 8, 1 | the tick wraps on the way; times are 1 or 2, below half the range as the code demands (`src/timer.c:296`) |
| `MaxLate` (Timer) | 1 | a thread may be one tick late; the code needs lateness plus time below half the range |
| `MaxScans`, `Frames`, `DrainTicks` (Scanner) | 3, 1, 1 | one text with the sender, one in the mailbox, and a third that is refused; a sound can be interrupted while it plays and while it drains |
| `BootTimeouts` (Scanner) | 1 | 3 in the code (`core/misc/xgd_sender.c:241`); they only count |
| `MaxMessages`, `FRAME_O1_DATA_MAX`, `W_BUFF`, `POSSN_MAX_SIZE` (NonVolatile) | 1, 4, 3, 2 | in the order they have in the code; one message between two starts is a number, one too long, one too long for `w_buff`, one garbled, or a frame cut short with a whole one behind it, and is read in any pieces; starts are not bounded |
| `config_default`, `Sets` (NonVolatile) | 4 keys, 2 of them scanned | one used as it is read and one that is checked and in use at once are scanned; of the others one is checked and one is not.  Settings opened and closed bit by bit are in the theorems only |
| `CharIsSigned` (NonVolatile) | FALSE | as on ARM, the processor of the build; the theorems are about both |
| `RandomKeys`, `TextChars` | 2, 1 | the second attempt makes another key than the fuses hold |
| `Pages`, `zone_page_cnt`, `z_nmax` (ThreadLife) | 10, 2, 2 | pages run out for a control block, for a small stack and for a large one; zones fill, empty, are kept and are released |
| `ZONE_RELEASE_THRESH` | 1 | 2 in the code; it only counts |
| `MaxMade` | 2 threads, 1 text | besides main, idle and a first text; control blocks and addresses are used again |
| `IMG_BUF_NUM`, `SenderSlots`, `ImgSlots` (Scanner) | 1, 1, 2 | the first two as built (`core/zbar/zbar_queue.c:11`, `core/misc/xgd_sender.c`); the mailbox of buffers has at least as many slots as there are buffers |

### Fairness

`SchedulerLive` and `ThreadLife` need it.  The CPU executes the current thread
until its call returns; a thread that goes on running leaves its critical
section; the clock ticks while there is another thread to switch to; a running
timer comes due.  The first, third and fourth are the hardware's; the second is
what `rt_enter_critical` asks of its callers, and without it nothing else would
run.  In ThreadLife idle, if it has the CPU again and again, gets on (strong
fairness of its steps): between two interrupts the CPU executes instructions.
That idle has the CPU again and again is not assumed but the premise of
`Reaped`: more urgent threads may keep it for themselves.
Application code need never make another call.

## 4. What is proved

`KernelProofs` holds what the operators of Kernel keep, in four layers that the
proofs of the components use from the top:

- *Lists and bitmap.*  Removing, appending and inserting in a list without
  duplicates; the bitmap is exact after an insert and a remove; the group word
  and its table give the most urgent priority; `rt_schedule` leaves the most
  urgent thread current; suspend, resume, timeout, startup and a change of
  priority preserve `KernelOK`.
- *`Sound`.*  A kernel between two steps: consistent, unlocked, idle able to
  run.  Each call keeps a kernel sound and says what else it changes.
  `rt_ipc_list_resume_all` is a loop over a list of any length.  It is a recursive
  function over the turns, and what it comes to is proved from a set of
  naturals that has 0 and with `n` also `n + 1`, where the library's induction
  theorem cannot be used.
- *`ThreadsOK`.*  Where threads are in their calls: one in a list of waiters is
  in a blocking call and was not told of an error, one suspended in such a call
  is in a list, and only one on its way to `rt_schedule` has the CPU without
  running.  Every call keeps this, for all objects alike.
- *`GrantedOf`.*  The threads that an object has woken and that are not back yet:
  they are off its list without an error.  A wakeup adds the first of the list,
  a time limit, a reset and a detach add nobody.  `Ordered`: a list in the order
  of priorities stays so.

### The scheduler

`SchedulerProofs` proves, for all threads, priorities, group
sizes and initial ready lists:

| Theorem | States |
|---|---|
| `SchedulerTyped` | `[]TypeOK` |
| `SchedulerInvariant` | `[]SchedulerInv` |
| `SchedulerConsistent` | `[]KernelConsistent` |
| `SchedulerOneRunning` | `[]OnlyCurrentRuns` |
| `SchedulerPreemptive` | `[]RunsHighest`, if no priority changes at run time |

They assume `OneWaker`: one agent at a time resumes a thread, and none resumes
a thread that a timer will resume.  Without it they are false (`ReadyIsQueued`):
the code tests before it disables interrupts, and nothing in it keeps a second
resumer out.  So the theorems are about applications that keep it.
`KernelConsistent` alone is not inductive: `rt_thread_resume` acts on a state
it checked in an earlier step, so `SchedulerInv` adds that the target of a
resume under way is still suspended, without timer and nobody else's
(`ResumeTargetHeld`), that a thread that is current but not RUNNING is on its
way from its suspension to `rt_schedule` with the scheduler unlocked, and that
idle is always runnable, so `rt_schedule` always finds a thread.  `RunsHighest` needs
`HighestInv` besides: a more urgent thread is ready only between the statement
that made it ready and the `rt_schedule` that follows.  The proof has one lemma
per action.

### Mutexes

`MutexProofs` proves, for all threads, mutexes, priorities, programs and depths
of recursion:

| Theorem | States |
|---|---|
| `MutexTyped` | `[]TypeOK` |
| `MutexExcludes` | `[]MutualExclusion` |
| `MutexWhole` | `[]FreeOrOwned` |
| `MutexKernelConsistent` | `[]KernelConsistent` |
| `MutexRestoresPriority` | `[]PriorityRestored` |
| `MutexInherits` | `[]NoSimpleReversion`, if the waiters are kept in the order of priorities |

`MutualExclusion` says what a thread in the middle of its
call will find, so it needs to be known which threads those are: `WaitInv` says that a
thread in the list of a mutex waits for that mutex and was not told of an error,
and that one suspended in its take is in the list.  `ThreadsInv` says where a
thread that is suspended, or current without running, is in its program, and
`OriginalKnown` that the priority to go back to is a priority.  All steps but
four (taking a free mutex, waiting, the two releases) are `Quiet`: they change no
owner and no priority and take at most one thread off each list.  So the two
theorems about priorities only look at those four.  `InheritInv` adds that a thread
that never had two mutexes owns at most one, which keeps the priority the thread
started with; `OrderInv` that a waiter nobody boosts waits behind no less
urgent one.  The exceptions in both properties (two mutexes at a time, waiters
that own one) are those without which they fail (`NoReversion`, below the runs).

### Semaphores, events, mailboxes, queues and pools

| Module | Theorem | States |
|---|---|---|
| `ObjectProofs` | `SemaphoreTyped` | `[]SemTypeOK` |
| | `SemaphoreConserves` | `[]TokensConserved` |
| | `SemaphoreNoTokenIdle` | `[]NoTokenIdle` |
| | `SemaphoreUrgentFirst` | `[]UrgentFirst` |
| | `SemaphoreRefines` | `ImplementsSemaphore` |
| | `EventWaitersUnsatisfied` | `[]WaitersUnsatisfied` |
| | `EventTakenOnce` | `[]TakenOnce` |
| | `EventGrantedAsAsked` | `[]GrantedAsAsked` |
| `MailboxProofs` | `MailboxNoLostWakeup` | `[]NoLostWakeup` |
| | `MailboxRefines` | `ImplementsQueue` |
| `ObjectProofs` | `MessageQueueConserves` | `[]NodesConserved` |
| | `MessageQueueNoLostWakeup` | `[]NoLostWakeup` |
| | `MessageQueueRefines` | `ImplementsQueue` |
| | `MemPoolConserves` | `[]BlocksConserved` |
| | `MemPoolNoLostWakeup` | `[]MpNoLostWakeup` |

The proofs about semaphores and about lost wakeups have one form.  Each
action is shown, from the layers of `KernelProofs`, to have one of a few
*effects* on what the property is about (the count, those who wait, those who
were woken): a thread looks and takes, a thread enters the list, one leaves it
with an error, something arrives, all is emptied, or nothing changes.  Then it
is the effects, not the actions, that are shown to keep the invariant, and to
be the steps of the abstract specification.

*Semaphore.*  `SemInv` joins to the three properties that the holders of a token
are outside the call, that holders and woken threads are finitely many (they are
counted), and that the list is ordered.  No property is inductive alone: a
release hands its token to the first of the list without counting it, which
conserves tokens only if that thread has none and was not woken before.
Refinement: a thread is idle, waiting, granted or holding in `CountingSemaphore`
(`StateOf`), and an effect changes one thread or two.

*Event.*  `EventInv` says that waiters are not satisfied by the flags that are
set, and that a woken one has flags that answer what it asked for (`Answers`).
A send walks the list while it changes it: `Serving` is the invariant of that
loop, the first `n` of those who waited are served or not satisfied, the others
wait as before; `taken` never exceeds `sent`, less what is set.

*Mailbox.*  Senders wait for places as receivers wait for mails, and every call that
gets one gives the other side one.  The proof names a side by its call (`op`), what
there is for it `Ready(op)`, and has one lemma per action for both sides.  `Awaited`
is the property with the finiteness of what it counts; it is inductive
with `CallsOK`, which says that a thread in a list of waiters is in the call
of that list: without it a receiver that was woken could count as a sender on its
way.  `RingOK` relates the two offsets and `entry`; a mail put in is beyond
all that are in the ring (`SlotsDiffer`), so that the contents grow at the end.

*Message queue.*  That `msg_queue_free`, `msg_queue_head` and the links hold two
disjoint sequences of nodes is stated with the sequences themselves: `Chain(next, n, s)`,
the links lead from `n` through the nodes of `s` and end there.  `ListInv` says that
such sequences `f` and `q` exist, that every node is in one of them or with one
thread (`Placed`), that a thread has a node only between the two critical
sections of its call (`LocalsOK`), and that `entry` and `tail` are those of `q`
(`Listed`).  Every action is one of a few operations on a chain, and the properties,
which walk the chain with a recursive function, follow since the walk of a chain is its
sequence.  A reset moves the queue to the free list node by node (`PutUpTo`).
For the wakeups `Awaited`, as in the mailbox: while somebody waits, `entry` is at most the number of
receivers that were woken; a receiver that finds nothing has been overtaken.
Refinement: the contents of the abstract queue are the messages of `q` (`MessagesOf`),
and a receiver has its message when it has taken the node, before it has copied it
(`Received`).

*Pool.*  `PoolInv` says that a block is free, with one thread or with the
device, and that the free count is the length of the free chain; counting holders
(`BlocksConserved`) follows.  `WaitsEmpty` is needed beside it: a thread that
waits in `rt_mp_alloc`, and may take a block when it wakes, has none yet.  The stale
`suspend_thread_count` (above) does no harm here: it decides who is woken, not
who has a block.  For the wakeups it matters: `Counted` says that the count is at
least the number of those who wait, so a free never overlooks one, until a
detach (`DetachIsLast`), which resets nothing.

### Timers

`SchedulerProofs` proves in its second half, for all timers, periods, timeout
functions and widths of the tick:

| Theorem | States |
|---|---|
| `TimerTyped` | `[]TimerTypeOK` |
| `TimerListsSorted` | `[]ListsSorted` |
| `TimerActiveAccounted` | `[]ActiveAccounted` |
| `TimerHardOnTime` | `HardOnTime` |

The code compares times by their difference modulo the tick's width, which is
no order on all ticks.  It is one on times less than half a turn after a common
tick, and `Base(tick)`, `MaxLate` ticks ago, is such a tick for all that is in a
list or computed and about to be (`TimesNear`): nothing that is still of account
is before it, and a new time is less than half a turn after it.  `Compare` says
that the code's test orders such times by their distance from the base, `NextBase`
and `DueAtNext` what becomes of them when the clock goes on.  `TimersInv` joins
that the lists are sorted (`TimersOK`); that a timer in the middle of its start is
in no list, not active and in nobody else's start (`CallsOK`); that only the two
places around a timeout function have a timer in `firing`; and that active timers are
accounted for, and hard ones in the list active.  It is kept, not implied, by the four steps of a start: that
the time computed at one tick is still near when its timer is inserted some ticks
later is what `TimesNear` carries from one to the other.  The steps of
`rt_soft_timer_check` that change a timer have a lemma each, those that look have one
together (`StepLooksOn`); what the invariant says of the soft list it says until
that is torn.

`rt_timer_check` fires the first timer of the list as long as that is due.  A turn
keeps `Checked`: what the invariant says, of a list in the middle of the
interrupt.  If the first is not due, none is, because the list is sorted
(`FirstIsFirst`); a turn takes one that is due away, and what timeout functions
start is not due yet (`FreshAtNext`); so after as many turns as there are hard timers
none is left (`FireAllIs`).

### Threads and the heap

| Module | Theorem | States |
|---|---|---|
| `SlabProofs` | `PageAllocOK`, `PageFreeOK` | a section of `rt_page_alloc` or `rt_page_free` that begins with a whole heap ends with one, with the run in the caller's hand or back among the free ones |
| | `ChunkTakenOK`, `ChunkFreedOK` | so do `rt_malloc` and `rt_free` of a chunk, and the block given was not out; the block freed is out no more, and no other |
| `ThreadLifeProofs` | `LifeInvariant` | `[]IInv` |
| | `LifeTyped` | `[]TypeOK` |
| | `LifeHeapTiled` | `[]HeapTiled` |
| | `LifeBlocksOwned` | `[]BlocksOwned` |

*Heap.*  `HeapOK(h, H)` says of a heap `h`, with the runs of pages `H` in the hands of
callers between two sections, that free runs, zones, large blocks and `H` cover the
pages, each page once; that the list of free runs is sorted and no two of them meet; that the use
recorded of each page is the one it has; and of each zone that its header counts the
chunks that are free: those beyond `uindex` and those in its list, each of which is there once.
`rt_page_free` is the hard one: the run that comes back may join the run before
it, the one behind, both or none, and the new list is in all four cases one
*splice* of the old (`Spliced`), of which sortedness and the pages covered are
proved once.  A chunk is known by its address, `PAGE` times the page where it begins and one
more than its number.  That such addresses differ needs a zone of fewer chunks than
`PAGE`, the bound of `SlabAssumption` on `z_nmax`; zones have at most 128 KB
(`src/slab.c:188`), and control blocks and texts, the sizes modelled, take more than 32 bytes.

*Threads.*  `IInv` is `LifeOK /\ MemoryOK`.  `LifeOK` says what the lists, states
and timers are about while threads are made and unmade: the kernel's consistency is weaker here
than in the scheduler, for a thread taken off its list to be deleted is still
ready, and the list of defunct threads holds closed ones.  It gives for each place in
each call (`PlaceOK`, `AboutOK`) what the call is about, what it has in hand, and
how far the thread it is about has left the kernel (`Off`); that no two calls are
about one thread (`TargetsApart`); that a thread in the middle of a call lives and
nobody deletes it (`CallerOK`); and that the kernel refers to no memory that is not a thread
(`StrangerOK`).  `MemoryOK` says that the heap is whole and that the blocks that are out are the
texts, the control blocks of the threads and of those being registered or freed,
and the stacks of those that have theirs (`Owned`), each block once.  Every step
is shown first to keep `LifeOK`, then to do one of a few things to the blocks: gain
one, lose one, or pass one on between those categories.

Two hypotheses besides the `ASSUME`s: `Careful`, a thread is deleted once, and
not after it has exited; and `OthersWait`, the threads that others delete make no
other call than to wait without a time limit.  Both are needed: without either the
kernel frees what is in use (the two entries in section 3), and a thread that is
deleted in the middle of `rt_malloc` leaves with the pages it had in hand.  The
firmware does not keep them (`core/vlcview/sample_vlcview.c:109`), which is why the
theorems stop at the heap: that nothing in use is freed would be little more
than these hypotheses, and stays with the run.

### The application

| Theorem of `ApplicationProofs` | States |
|---|---|
| `ScannerStopsIdle` | `StopsOnlyIdle` |
| `ScannerTextOwned` | `[]TextOwnedOnce` |
| `ScannerFramesOwned` | `[]FrameOwnedOnce` |
| `SettingsSurvivePowerLoss`, `LostSettingIsDefault` | `[]RestartFindsSettings` and `[]ForgottenIsDefault`, for the settings alone |
| `FirmwareKeepsSettings`, `FirmwareForgets` | the same for the whole firmware, every step of which is one of the settings or leaves them alone |
| `FactoryHostIsHeard` | `[]ListensOverCdc` |
| `ToldIsGenuine` | `[]GenuineWhenTold` |
| `SerialKept` | `[]SerialWholeOrEmpty`, if the host sends whole frames (`HostSendsFrames`) |

*Pipeline.*  The idle stop is safe only because sender (130) is more urgent than
decoder (168): `SwitchInv` says that no text is in the mailbox between the timeout of the
sender's receive and its stop, and a step of the decoder there would need the
sender to wait.  `TextInv` orders the texts (those reported, the one in hand and
those in the mail were made in that order); `FrameInv` says where a used buffer
is, that a buffer is in one place, that one whose `bufferptr` is not set is in
none (used or not, as the camera comes in the middle of `image_queue_init`), and that
the mailbox has room, from the
assumption that the mailbox has a slot for every buffer (`ImgSlots`, the
`IMG_BUF_NUM` of the build).  `image_frame_send` ignores what `rt_mb_send`
returns; this is why it may.

*Settings.*  `SettingsInv` adds to `RestartFindsSettings` that the file exists while it is
saved, and the shape of its lines; the lemma that matters is that the next line
of a prefix of the records makes a longer prefix.  `ForgetInv` adds that a key
that is being set has a line among the records, so that while the firmware is up a
checked key without one is used as it was at the start.  What a reader takes of a
missing key is then its default (`ReadersAssumption`): `xgd_config_read` returns
-1, which the readers of `Checked` test for, and the values they fall back to are
those of the table in `core/xgd_config/xgd_config.c:305`.  `SET_SCAN_DELAY` is one
of them only if a `char` has no sign, as the decoder tests for more than 10.  Of the keys
outside `Checked` the theorem says nothing: they are used as -1.

*Serial number.*  `PortInv` says that the port serves the keyboard only if the
sector has a serial number, until the download is off.  `DownloadInv` says what the
sector and its copy in memory hold at each stage of a download: once a ciphertext
is made, it is one that the fuses decrypt to this number, and it is in the sector
before the host is told.

`SerialKept` is about the bytes.  A read brings any number of them to the frame
parser, so the invariant is about single bytes: each on the wire has a place in a frame
(`Places`), and the parser's state fits the place of the byte that comes next
(`ParserAt`), for every one of its steps: the header it has taken, the sum so far,
and a buffer that holds the body up to there, or whose first byte a read has
cleared since (`SoFar`).  `OctetTaken` is the step from a place to the next, with
a case for each step of the parser; `ParseOK` goes through a read, `PlacesAfterSend` and
`PlacesAfterRead` through what is on the wire.  At the end of a frame whose sum fits
the string in the buffer is the body or the empty one (`TextIs`): a body has no
byte 0, and the string ends at the first.  The parser cannot take part of a body
for a header, because a header begins with `SOH` and a body has none.
`HostSendsFrames` says that serial numbers are text (characters from 2 to 255) and that
what else the host sends are whole frames of text too, of any command, length and sum, but not
one that is short enough, has the command of a serial number and a sum that
fits: for the parser that *is* a serial number.  A frame cut short, with a whole one behind it, is
in the run and not in the theorem: a sum of one byte tells such a mixture from a
number only on the instance.  A text longer than `w_buff` may be among what the
host sends; the theorem is then about what the sector holds when it comes.

### From what, and what is not

Assumptions are those of the `ASSUME`s: priorities and lists to start with that
are consistent, `NoOwner`, `NoBlock` and `Null` no thread, block and node, one mutex
at least, mailboxes and requests that are as the calls allow them, finitely many hard timers,
periods and lateness that leave room in half a turn of the tick, readers that
agree with the table of defaults, `POSSN_MAX_SIZE` at most `W_BUFF` and that below
`FRAME_O1_DATA_MAX`, chunks of control blocks that are the threads, a heap with
room for what is on it at the start, lengths that are numbers; TLC evaluates them in every run.

Only model-checked are:

- liveness (`RoundRobin`, `SleepEnds`, `Reaped`), which the prover does not do;
- `ResumeTargetHeld` and `NothingFreedInUse`, which hold by what is asked of the
  callers (`OneWaker`, `Careful`); the first is a conjunct of the invariant of the
  scheduler, on those terms;
- `SerialWholeOrEmpty` where the host may break off within a frame.

## 5. What is not modelled

- of threads: `rt_thread_init` and `rt_thread_detach` (only the timer thread and
  idle are static, and nobody detaches them), cleanup functions (none is given)
  and threads of modules;
- of timers: `rt_timer_detach`, `rt_timer_delete`, and the controls that only read or
  set a flag before the start;
- of the heap: `rt_realloc`; `src/mem.c` (not in the build) and `src/memheap.c`
  (no user);
- widths of counters (`sem->value` 16 bits, `mutex->hold` 8 bits);
- `rt_sem_take` with a wait while the scheduler is locked, which the code
  forbids in a comment and does not test;
- delete of an IPC object, which is its detach and a free;
- idle hooks (`RT_USING_HOOK` is off), signals (off), SMP (off: `src/cpu.c`);
- devices (`src/device.c` hands calls on to drivers) and the formatting and
  string functions of `src/kservice.c`;
- the production-test mode of the pipeline with its queries, the count of
  repeated texts, wave files and volume;
- HID reports, USB, audio, PWM and video drivers, the overlay: register
  writes and calls of closed vendor libraries, whose state is not in the
  repository.

More than a third of the C lines of the repository are of this last kind, or data:
`core/overlay/osd_fontlib.h` alone is 17005 lines of font bitmaps;
`core/zbar/zbar.h` is the header of a library of others, and `core/venc`,
`core/vlcview`, `core/isp` and much of `include/` are vendor sample code,
register and type declarations.  They have no state or order that a model could say
anything about beyond what the code says.

## 6. Plan

Done: Kernel, Scheduler, the IPC objects, the pool, timers and the pipeline; the
settings, the serial number, the fuses and the port across losses of power;
the end of threads, the object container and the slab allocator; the proofs of
section 4.

Left, in the order of what it would add:

1. Flash and file-system calls that fail, in NonVolatile: `xgd_sn_down.c`
   ignores most of their results.
2. The production-test mode with its message queue, added to Scanner.
3. `rt_realloc` on Slab.
