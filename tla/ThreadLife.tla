------------------------------ MODULE ThreadLife ------------------------------
(***************************************************************************)
(* The life of threads made with rt_thread_create: their control blocks    *)
(* and stacks come from the heap, they are registered as objects, run,     *)
(* exit or are deleted, and go to the list of defunct threads, from which  *)
(* the idle thread returns them to the heap.                               *)
(*                                                                         *)
(* A thread is the address of its control block, so a new one may be where *)
(* an old one was.  What is left in freed memory is of no account and is   *)
(* reset.  Steps are the sections with interrupts disabled, or heap_sem    *)
(* held; between any two of them an interrupt may come and another thread  *)
(* take the CPU.  That heap_sem makes its sections exclusive is what       *)
(* Semaphore shows.  All threads but idle are made with rt_thread_create,  *)
(* and none has a cleanup function or belongs to a module.                 *)
(***************************************************************************)
EXTENDS Kernel, Slab

CONSTANTS defunct,        \* rt_thread_defunct, one of WaitQueue
          Tcb, Text,      \* two sizes: of a struct rt_thread, and of texts
          StackPages,     \* pages of the stack of a thread of a priority; of one
                          \* with 0 it is a small block, of the size of texts
          NewPriorities,  \* what threads are created with
          Api,            \* the calls that threads of a priority make
          Deletable,      \* the priorities of threads that others delete
          Careful,        \* TRUE: the thread deleted has not exited, nor does
                          \* another thread delete it
          MaxMade         \* bound: threads created, further texts made

ASSUME LifeAssumption ==
    /\ NULL \notin Thread
    /\ defunct \in WaitQueue
    /\ Tcb \in ChunkSize /\ Text \in ChunkSize /\ Tcb # Text
    /\ \A z \in 1 .. Pages - zone_page_cnt + 1, c \in 0 .. z_nmax[Tcb] - 1 :
           ChunkAt(z, Tcb, c) \in Thread \ {Idle}
    /\ StackPages \in [Priority -> Nat]
    /\ NewPriorities \subseteq Priority

(* Threads that others delete only wait for devices: none is deleted with  *)
(* an allocation half done.                                                *)
OthersWait == \A p \in Deletable : Api[p] \subseteq {"wait"}

VARIABLES heap,     \* what slab.c keeps
          k,        \* what the kernel keeps
          object,   \* the threads in the object container
          stack,    \* stack_addr
          texts,    \* the texts of the application, read in the order they are made
          pc,       \* where each thread is
          target,   \* the control block each thread's call is about
          want,     \* the size it allocates
          block,    \* the run of pages in its hand
          made      \* threads and texts made

vars == <<heap, k, object, stack, texts, pc, target, want, block, made>>

NoBlock == Run(NULL, 0)
MainPriority == 1
Main == ChunkAt(1, Tcb, 0)

\* there is more than idle, and the pages suffice to start
ASSUME StartAssumption ==
    /\ MainPriority < PriorityMax - 1
    /\ StackPages[MainPriority] > 0
    /\ 2 * zone_page_cnt + StackPages[MainPriority] <= Pages

\* rt_application_init has created the first thread, idle is static, and the
\* application has made a text, whose zone comes after the stack
TextZone == zone_page_cnt + 1 + StackPages[MainPriority]

NewZone(h, z, s) == ZoneMade(SetUsage(rt_page_alloc(h, zone_page_cnt), z), z, s)

Init ==
    /\ heap = LET h == NewZone(HeapInit, 1, Tcb)
                  n == StackPages[MainPriority]
                  g == Large(rt_page_alloc(h, n), zone_page_cnt + 1, n)
              IN  NewZone(g, TextZone, Text)
    /\ k = KernelStart(Main,
                       [t \in Thread |-> IF t = Idle THEN PriorityMax - 1
                                         ELSE IF t = Main THEN MainPriority ELSE 0],
                       [p \in Priority |-> IF p = PriorityMax - 1 THEN <<Idle>> ELSE <<>>])
    /\ object = {Main}
    /\ stack = [t \in Thread |-> IF t = Main THEN PAGE * (zone_page_cnt + 1) ELSE NULL]
    /\ texts = <<ChunkAt(TextZone, Text, 0)>>
    /\ pc = [t \in Thread |-> "user"]
    /\ target = [t \in Thread |-> NULL]
    /\ want = [t \in Thread |-> Tcb]
    /\ block = [t \in Thread |-> NoBlock]
    /\ made = [s \in ChunkSize |-> 0]

Running(t, at) == k.cur = t /\ pc[t] = at

Calls(t, api) == Running(t, "user") /\ t # Idle /\ api \in Api[k.prio[t]]

Goto(t, at) == pc' = [pc EXCEPT ![t] = at]

Calm == UNCHANGED <<object, stack, texts, target, want, block, made>>
-----------------------------------------------------------------------------
(* rt_malloc of a small block.                                             *)

\* BUG: without a stack, the object is left as it is
BugReturnsStack(t, ptr) ==
    LET new == target[t]
    IN  IF ptr = NULL
        THEN Goto(t, "user") /\ UNCHANGED <<k, stack>>
        ELSE /\ stack' = [stack EXCEPT ![new] = ptr]
             /\ k' = [k EXCEPT !.stat[new] = "init", !.err[new] = "ok", !.tmr[new] = FALSE]
             /\ Goto(t, "created")

\* _rt_thread_init; without a stack rt_thread_create deletes the object
ReturnsStack(t, ptr) ==
    LET new == target[t]
    IN  IF ptr = NULL
        THEN Goto(t, "unlink") /\ UNCHANGED <<k, stack>>
        ELSE /\ stack' = [stack EXCEPT ![new] = ptr]
             /\ k' = [k EXCEPT !.stat[new] = "init", !.err[new] = "ok", !.tmr[new] = FALSE]
             /\ Goto(t, "created")

\* rt_malloc returns ptr: to rt_object_allocate, rt_thread_create or the application
Returns(t, ptr) ==
    CASE want[t] = Tcb ->
           /\ target' = [target EXCEPT ![t] = ptr]
           /\ Goto(t, IF ptr = NULL THEN "user" ELSE "register")
           /\ UNCHANGED <<k, stack, texts, want>>
      [] want[t] = Text /\ target[t] # NULL ->
           /\ ReturnsStack(t, ptr)
           /\ want' = [want EXCEPT ![t] = Tcb]
           /\ UNCHANGED <<texts, target>>
      [] want[t] = Text /\ target[t] = NULL ->
           /\ texts' = IF ptr = NULL THEN texts ELSE Append(texts, ptr)
           /\ want' = [want EXCEPT ![t] = Tcb]
           /\ Goto(t, "user")
           /\ UNCHANGED <<k, stack, target>>

rt_malloc(t) ==
    LET s == want[t]
    IN  /\ Running(t, "malloc")
        /\ CASE heap.zone_array[s] # <<>> ->
                  heap' = ChunkTaken(heap, s) /\ Returns(t, ChunkFound(heap, s))
             [] heap.zone_array[s] = <<>> /\ heap.zone_free # <<>> ->
                  LET z == Head(heap.zone_free)
                  IN  /\ heap' = ZoneMade([heap EXCEPT !.zone_free = Tail(@)], z, s)
                      /\ Returns(t, ChunkAt(z, s, 0))
             [] OTHER -> Goto(t, "page") /\ UNCHANGED <<heap, k, stack, target, texts, want>>
        /\ UNCHANGED <<object, block, made>>

GetsPages(t) ==
    LET z == PageFound(heap, zone_page_cnt)
    IN  /\ Running(t, "page")
        /\ heap' = rt_page_alloc(heap, zone_page_cnt)
        /\ IF z = NULL
           THEN Returns(t, NULL) /\ UNCHANGED block
           ELSE /\ block' = [block EXCEPT ![t] = Run(z, zone_page_cnt)]
                /\ Goto(t, "zone")
                /\ UNCHANGED <<k, stack, target, texts, want>>
        /\ UNCHANGED <<object, made>>

MakesZone(t) ==
    LET z == block[t].start
    IN  /\ Running(t, "zone")
        /\ heap' = ZoneMade(SetUsage(heap, z), z, want[t])
        /\ block' = [block EXCEPT ![t] = NoBlock]
        /\ Returns(t, ChunkAt(z, want[t], 0))
        /\ UNCHANGED <<object, made>>
-----------------------------------------------------------------------------
(* rt_thread_create and rt_thread_startup.                                 *)

rt_thread_create(t) ==
    /\ Calls(t, "create")
    /\ made[Tcb] < MaxMade[Tcb]
    /\ made' = [made EXCEPT ![Tcb] = @ + 1]
    /\ Goto(t, "malloc")
    /\ UNCHANGED <<heap, k, object, stack, texts, target, want, block>>

\* rt_object_allocate links the object into the container; the priority is the
\* caller's argument
rt_object_allocate(t) ==
    /\ Running(t, "register")
    /\ object' = object \cup {target[t]}
    /\ \E p \in NewPriorities : k' = [k EXCEPT !.prio[target[t]] = p]
    /\ Goto(t, "stack")
    /\ UNCHANGED <<heap, stack, texts, target, want, block, made>>

\* a stack of zone_limit or more is a large block
GetsStack(t) ==
    LET n == StackPages[k.prio[target[t]]]
        start == PageFound(heap, n)
    IN  /\ Running(t, "stack")
        /\ \/ /\ n = 0
              /\ want' = [want EXCEPT ![t] = Text]
              /\ Goto(t, "malloc")
              /\ UNCHANGED <<heap, k, stack>>
           \/ /\ n > 0
              /\ heap' = IF start = NULL THEN heap
                         ELSE Large(rt_page_alloc(heap, n), start, n)
              /\ ReturnsStack(t, PAGE * start)
              /\ UNCHANGED want
        /\ UNCHANGED <<object, texts, target, block, made>>

\* only its creator knows the new thread: nothing comes between the steps
rt_thread_startup(t) ==
    LET new == target[t]
    IN  /\ Running(t, "created")
        /\ k' = rt_thread_resume([k EXCEPT !.stat[new] = "suspend"], new)
        /\ target' = [target EXCEPT ![t] = NULL]
        /\ Goto(t, "sched")
        /\ UNCHANGED <<heap, object, stack, texts, want, block, made>>

Schedules(t) ==
    /\ Running(t, "sched")
    /\ k' = rt_schedule(k)
    /\ Goto(t, "user")
    /\ Calm /\ UNCHANGED heap
-----------------------------------------------------------------------------
(* A thread waits, for a time or for a device.                             *)

rt_thread_sleep(t) ==
    /\ Calls(t, "sleep")
    /\ k' = StartTimer(rt_thread_suspend(k, t), t)
    /\ Goto(t, "sched")
    /\ Calm /\ UNCHANGED heap

Waits(t) ==
    /\ Calls(t, "wait")
    /\ k' = rt_thread_suspend(k, t)
    /\ Goto(t, "sched")
    /\ Calm /\ UNCHANGED heap
-----------------------------------------------------------------------------
(* The end of a thread.                                                    *)

\* rt_list_insert_after: at the head, and off no other list
ToDefunct(kk, t) == [kk EXCEPT !.list[defunct] = <<t>> \o @]

\* BUG: rt_thread_exit forgets the list of defunct threads
BugExit(kk, t) ==
    [rt_schedule_remove_thread(kk, t) EXCEPT !.stat[t] = "close", !.tmr[t] = FALSE]

Exited(kk, t) ==
    ToDefunct([rt_schedule_remove_thread(kk, t) EXCEPT !.stat[t] = "close",
                                                       !.tmr[t] = FALSE], t)

rt_thread_exit(t) ==
    /\ Calls(t, "exit")
    /\ k' = Exited(k, t)
    /\ Goto(t, "sched")
    /\ Calm /\ UNCHANGED heap

Deleting(t) == {d \in Thread : pc[d] \in {"remove", "detach", "close"} /\ target[d] = t}

\* rt_thread_find and rt_thread_delete; a thread never started is only closed
rt_thread_delete(t) ==
    /\ \/ /\ Calls(t, "delete")
          /\ \E x \in object \ {t} :
                /\ k.prio[x] \in Deletable /\ k.stat[x] # "init"
                /\ Careful => k.stat[x] # "close" /\ Deleting(x) = {}
                /\ target' = [target EXCEPT ![t] = x]
          /\ Goto(t, "remove")
       \/ /\ Running(t, "created")
          /\ Goto(t, "detach")
          /\ UNCHANGED target
    /\ UNCHANGED <<heap, k, object, stack, texts, want, block, made>>

\* BUG: the thread stays in its ready list
BugRemoves(t) ==
    /\ Running(t, "remove")
    /\ Goto(t, "detach")
    /\ Calm /\ UNCHANGED <<heap, k>>

Removes(t) ==
    /\ Running(t, "remove")
    /\ k' = rt_schedule_remove_thread(k, target[t])
    /\ Goto(t, "detach")
    /\ Calm /\ UNCHANGED heap

DetachesTimer(t) ==
    /\ Running(t, "detach")
    /\ k' = [k EXCEPT !.tmr[target[t]] = FALSE]
    /\ Goto(t, "close")
    /\ Calm /\ UNCHANGED heap

Closes(t) ==
    /\ Running(t, "close")
    /\ k' = ToDefunct([k EXCEPT !.stat[target[t]] = "close"], target[t])
    /\ target' = [target EXCEPT ![t] = NULL]
    /\ Goto(t, "user")
    /\ UNCHANGED <<heap, object, stack, texts, want, block, made>>
-----------------------------------------------------------------------------
(* rt_thread_idle_excute and rt_object_delete.                             *)

\* one turn of the loop: with the rt_schedule of rt_exit_critical
rt_thread_idle_excute ==
    /\ Running(Idle, "user")
    /\ IF k.list[defunct] = <<>>
       THEN UNCHANGED vars
       ELSE LET t == Head(k.list[defunct])
            IN  /\ k' = rt_schedule(rt_list_remove(k, t))
                /\ target' = [target EXCEPT ![Idle] = t]
                /\ Goto(Idle, "free_stack")
                /\ UNCHANGED <<heap, object, stack, texts, want, block, made>>

\* rt_free of the small block ptr
Frees(t, ptr, return, pages) ==
    LET freed == ChunkFreed(heap, ptr)
    IN  IF TooManyFree(freed)
        THEN /\ heap' = ZoneReleased(freed)
             /\ block' = [block EXCEPT ![t] = Run(Head(freed.zone_free), zone_page_cnt)]
             /\ Goto(t, pages)
        ELSE heap' = freed /\ Goto(t, return) /\ UNCHANGED block

FreesStack(t) ==
    LET ptr == stack[target[t]]
        start == ptr \div PAGE
    IN  /\ Running(t, "free_stack")
        /\ IF heap.kup[start].type = "large"
           THEN /\ block' = [block EXCEPT ![t] = Run(start, heap.kup[start].size)]
                /\ heap' = LargeFreed(heap, start)
                /\ Goto(t, "free_stack_pages")
           ELSE Frees(t, ptr, "unlink", "free_stack_pages")
        /\ UNCHANGED <<k, object, stack, texts, target, want, made>>

Unlinks(t) ==
    /\ Running(t, "unlink")
    /\ object' = object \ {target[t]}
    /\ Goto(t, "free_object")
    /\ UNCHANGED <<heap, k, stack, texts, target, want, block, made>>

FreesObject(t) ==
    LET x == target[t]
    IN  /\ Running(t, "free_object")
        /\ Frees(t, x, "user", "free_pages")
        /\ k' = [k EXCEPT !.stat[x] = "init", !.prio[x] = 0, !.err[x] = "ok"]
        /\ stack' = [stack EXCEPT ![x] = NULL]
        /\ target' = [target EXCEPT ![t] = NULL]
        /\ UNCHANGED <<object, texts, want, made>>

FreesPages(t) ==
    /\ pc[t] \in {"free_stack_pages", "free_pages"} /\ k.cur = t
    /\ heap' = rt_page_free(heap, block[t].start, block[t].page)
    /\ block' = [block EXCEPT ![t] = NoBlock]
    /\ Goto(t, IF pc[t] = "free_pages" THEN "user" ELSE "unlink")
    /\ UNCHANGED <<k, object, stack, texts, target, want, made>>
-----------------------------------------------------------------------------
(* Texts: the other blocks on the heap, freed in the order they are made.   *)

MallocsText(t) ==
    /\ Calls(t, "text")
    /\ made[Text] < MaxMade[Text]
    /\ made' = [made EXCEPT ![Text] = @ + 1]
    /\ want' = [want EXCEPT ![t] = Text]
    /\ Goto(t, "malloc")
    /\ UNCHANGED <<heap, k, object, stack, texts, target, block>>

FreesText(t) ==
    /\ Calls(t, "text")
    /\ texts # <<>>
    /\ Frees(t, Head(texts), "user", "free_pages")
    /\ texts' = Tail(texts)
    /\ UNCHANGED <<k, object, stack, target, want, made>>
-----------------------------------------------------------------------------
(* Interrupts.                                                             *)

TimerFires ==
    /\ \E t \in Thread : k.tmr[t] /\ k' = rt_thread_timeout(k, t)
    /\ Calm /\ UNCHANGED <<heap, pc>>

\* a device wakes a thread that waits for it; nobody deletes it meanwhile
DeviceWakes ==
    /\ \E t \in Thread :
           /\ k.stat[t] = "suspend" /\ ~k.tmr[t] /\ Deleting(t) = {}
           /\ k' = rt_schedule(rt_thread_resume(k, t))
    /\ Calm /\ UNCHANGED <<heap, pc>>

SliceExpires ==
    /\ k' = rt_schedule(k)
    /\ k' # k
    /\ Calm /\ UNCHANGED <<heap, pc>>

Interrupts == TimerFires \/ DeviceWakes \/ SliceExpires

Steps(t) ==
    \/ rt_thread_create(t) \/ rt_malloc(t) \/ GetsPages(t) \/ MakesZone(t)
    \/ rt_object_allocate(t) \/ GetsStack(t) \/ rt_thread_startup(t) \/ Schedules(t)
    \/ rt_thread_sleep(t) \/ Waits(t)
    \/ rt_thread_exit(t) \/ rt_thread_delete(t) \/ Removes(t) \/ DetachesTimer(t) \/ Closes(t)
    \/ FreesStack(t) \/ Unlinks(t) \/ FreesObject(t) \/ FreesPages(t)
    \/ MallocsText(t) \/ FreesText(t)

Next == (\E t \in Thread : Steps(t)) \/ rt_thread_idle_excute \/ Interrupts

(***************************************************************************)
(* A thread that is given the CPU again and again gets on: the CPU         *)
(* executes something of it before it is preempted.  Asked of idle only.   *)
(***************************************************************************)
IdleSteps == \/ rt_thread_idle_excute
             \/ FreesStack(Idle) \/ FreesPages(Idle) \/ Unlinks(Idle) \/ FreesObject(Idle)

Fairness == SF_vars(IdleSteps)

Spec == Init /\ [][Next]_vars /\ Fairness
-----------------------------------------------------------------------------
(* Properties.                                                             *)

TypeOK ==
    /\ k \in KernelState
    /\ object \subseteq Thread \ {Idle}
    /\ stack \in [Thread -> Nat]
    /\ target \in [Thread -> (Thread \ {Idle}) \cup {NULL}]

\* the threads the scheduler, a list or a timer refers to
Referenced == {k.cur} \cup (UNION {Range(k.list[h]) : h \in ListHead})
                     \cup {t \in Thread : k.tmr[t]}

\* ptr is a block malloc has returned
Allocated(ptr) == ptr \in SmallBlocks(heap) \cup {PAGE * p : p \in LargeBlocks(heap)}

(***************************************************************************)
(* Nothing the kernel still refers to is in freed memory: not a thread in  *)
(* a ready list or the list of defunct ones, with a running timer or in    *)
(* the object container; and the thread that has the CPU has its stack,    *)
(* also one that has just put itself on the list of defunct threads.  A    *)
(* thread on that list stays dead: it is on no other, and nothing will     *)
(* wake it.                                                                *)
(***************************************************************************)
NothingFreedInUse ==
    /\ object \cup Referenced \subseteq SmallBlocks(heap) \cup {Idle}
    /\ k.cur # Idle => Allocated(stack[k.cur])
    /\ \A t \in Range(k.list[defunct]) :
           k.stat[t] = "close" /\ ~k.tmr[t] /\ \A p \in Priority : ~Contains(k.list[p], t)

InHand == {t \in Thread : block[t] # NoBlock}

(***************************************************************************)
(* Every page is in the list of free ones, in a zone, in a large block or  *)
(* in the hand of a thread, once; and free runs are as long as they can    *)
(* be: none begins where another ends.                                     *)
(***************************************************************************)
HeapTiled ==
    LET tiles == Tiles(heap, {block[t] : t \in InHand})
    IN  /\ UNION {PagesIn(x[2]) : x \in tiles} = PageNo
        /\ \A x, y \in tiles : x # y => PagesIn(x[2]) \cap PagesIn(y[2]) = {}
        /\ \A t, u \in InHand : t # u => block[t] # block[u]
        /\ \A i, j \in DOMAIN heap.page_list :
               i < j => After(heap.page_list[i]) < heap.page_list[j].start

\* what the calls that have come to one of these places are about
Targets(at) == {target[t] : t \in {t \in Thread : pc[t] \in at /\ target[t] # NULL}}

(***************************************************************************)
(* Every block on the heap is a text, a registered thread or one that is   *)
(* being made or unmade, or the stack of one thread: whichever allocation  *)
(* of rt_thread_create fails, nothing is left behind.                      *)
(***************************************************************************)
BlocksOwned ==
    LET threads  == object \cup Targets({"register", "free_object"})
        complete == object \ Targets({"stack", "malloc", "page", "zone",
                                      "free_stack_pages", "unlink"})
        stacks   == {stack[x] : x \in complete}
    IN  /\ Range(texts) \cup threads \cup stacks
              = SmallBlocks(heap) \cup {PAGE * p : p \in LargeBlocks(heap)}
        /\ Range(texts) \cap threads = {} /\ Range(texts) \cap stacks = {}
        /\ threads \cap stacks = {}
        /\ IsInjective(texts)
        /\ \A x, y \in complete : x # y => stack[x] # stack[y]

(***************************************************************************)
(* If the idle thread gets the CPU again and again, dead threads do not    *)
(* pile up: again and again there is none.  (The list is last in, first    *)
(* out: while others die without end an early one may wait without end.)   *)
(***************************************************************************)
Reaped ==
    []<>(k.cur = Idle) => []<>(\A t \in object : k.stat[t] # "close")
=============================================================================
