--------------------------------- MODULE Timer ---------------------------------
(***************************************************************************)
(* The timers of src/timer.c: the hard timers, whose timeout functions the *)
(* clock interrupt calls, and the soft timers, whose timeout functions the *)
(* timer thread calls with the scheduler unlocked.  Ticks wrap around.     *)
(*                                                                         *)
(* A user thread and the timeout functions start and stop timers.  Threads *)
(* are interleaved at every point where interrupts are enabled, except     *)
(* that the user does not run while the timer thread has locked the        *)
(* scheduler; the clock interrupt may come there too.  Calls on one timer  *)
(* do not overlap (NotInCall).                                             *)
(***************************************************************************)
EXTENDS Integers, FiniteSets, SequencesExt

CONSTANTS Hard, Soft,   \* the timers
          Periodic,     \* those with RT_TIMER_FLAG_PERIODIC
          UserTimers,   \* those the user thread starts and stops
          SoftEffect,   \* ... and the timeout functions of soft timers
          TickMax,      \* RT_TICK_MAX
          Times,        \* Times[t]: the values of its init_tick
          HardEffect,   \* what the timeout functions of hard timers may do
          FirstTick,    \* rt_tick at the start
          LastTick,     \* bound: rt_tick at the end
          MaxLate,      \* bound: ticks a thread may be behind a due timer
          User, TimerThread, None

Timers == Hard \cup Soft
Caller == {User, TimerThread}
Half == TickMax \div 2
Ticks == 0 .. TickMax

ASSUME TimerAssumption ==
    /\ Hard \cap Soft = {} /\ IsFiniteSet(Hard)
    /\ Periodic \subseteq Timers
    /\ UserTimers \subseteq Timers /\ SoftEffect \subseteq Timers
    /\ TickMax \in Nat
    /\ FirstTick \in Ticks /\ LastTick \in Ticks
    /\ User # TimerThread
    /\ None \notin Timers
    /\ HardEffect \subseteq [call : {"start", "stop"}, timer : Timers] \cup {None}
    /\ MaxLate \in Nat
    /\ Times \in [Timers -> SUBSET { d \in 1 .. Half : d + MaxLate + 1 < Half }]

\* BUG: the tick does not wrap
BugPlus(a, b) == a + b

(* Unsigned arithmetic on rt_tick_t *)
Plus(a, b) == (a + b) % (TickMax + 1)
Minus(a, b) == (a - b) % (TickMax + 1)

VARIABLES tick,        \* rt_tick
          tm,          \* tm.hard, tm.soft: the timer lists; tm.active: those with
                       \* RT_TIMER_FLAG_ACTIVATED; tm.timeout: timeout_tick;
                       \* tm.init: init_tick
          doing, arg,  \* the call of rt_timer_start or rt_timer_stop each
                       \* caller is in, and its timer
          tt,          \* where the timer thread is
          node, current_tick,  \* n and current_tick of rt_soft_timer_check
          firing,      \* the timer whose timeout function it calls
          next_timeout,
          wake_tick    \* the tick its rt_thread_delay ends at

calling == <<doing, arg>>
thread == <<tt, node, current_tick, firing, next_timeout, wake_tick>>
timerVars == <<tick, tm, calling, thread>>

ListOf(s, t) == IF t \in Soft THEN s.soft ELSE s.hard

Linked(s, t) == Contains(ListOf(s, t), t)

InitTicks == { f \in [Timers -> 1 .. Half] : \A t \in Timers : f[t] \in Times[t] }

TimerInit ==
    /\ tick = FirstTick
    /\ tm \in [hard : {<<>>}, soft : {<<>>}, active : {{}},
               timeout : {[t \in Timers |-> 0]}, init : InitTicks]
    /\ doing = [c \in Caller |-> "none"]
    /\ arg = [c \in Caller |-> None]
    /\ tt = "read"
    /\ node = None /\ current_tick = 0 /\ firing = None /\ next_timeout = 0 /\ wake_tick = 0

-----------------------------------------------------------------------------
(* The pieces of rt_timer_start and rt_timer_stop.                         *)

SetList(s, t, l) == IF t \in Soft THEN [s EXCEPT !.soft = l] ELSE [s EXCEPT !.hard = l]

_rt_timer_remove(s, t) == SetList(s, t, RemoveFirst(ListOf(s, t), t))

Unflag(s, t) == [s EXCEPT !.active = @ \ {t}]

SetTimeout(s, t, now) == [s EXCEPT !.timeout[t] = Plus(now, s.init[t])]

\* BUG: the times are compared without the wrap of the tick
BugPlaceOf(s, t) ==
    LET l == ListOf(s, t)
    IN  Min({ i \in 1 .. Len(l) : s.timeout[l[i]] > s.timeout[t] } \cup {Len(l) + 1})

(* Before the first timer that is due later; so behind those due with it.  *)
PlaceOf(s, t) ==
    LET l == ListOf(s, t)
    IN  Min({ i \in 1 .. Len(l) :
                LET d == Minus(s.timeout[l[i]], s.timeout[t]) IN 0 < d /\ d < Half }
              \cup {Len(l) + 1})

Insert(s, t) ==
    [SetList(s, t, InsertAt(ListOf(s, t), PlaceOf(s, t), t))
        EXCEPT !.active = @ \cup {t}]

(* Both functions as an interrupt executes them, in one piece.             *)
StartNow(s, t, now) ==
    Insert(SetTimeout(Unflag(_rt_timer_remove(s, t), t), t, now), t)

StopNow(s, t) ==
    IF t \in s.active THEN Unflag(_rt_timer_remove(s, t), t) ELSE s

Due(s, t, now) == Minus(now, s.timeout[t]) < Half

-----------------------------------------------------------------------------
(* A caller runs when the scheduler lets it, and makes one call at a time. *)

SchedulerLocked ==
    tt \in {"scan", "next", "unlink", "after", "clear", "unflag", "again", "restart"}

CanRun(c) == tt # "lost" /\ (c = User => ~SchedulerLocked)

(* No call about t is under way. *)
NotInCall(t) == \A c \in Caller : arg[c] # t

MayCall(c, t) ==
    /\ doing[c] = "none" /\ NotInCall(t) /\ CanRun(c)
    /\ IF c = User THEN t \in UserTimers ELSE tt = "callback" /\ t \in SoftEffect

Goes(c, at, t) ==
    /\ doing' = [doing EXCEPT ![c] = at]
    /\ arg' = [arg EXCEPT ![c] = IF at = "none" THEN None ELSE t]

(* rt_timer_start(t): remove, compute, insert, and wake the timer thread.  *)
StartRemoves(c, t) ==
    /\ MayCall(c, t)
    /\ tm' = Unflag(_rt_timer_remove(tm, t), t)
    /\ Goes(c, "compute", t)
    /\ UNCHANGED <<tick, thread>>

StartComputes(c) ==
    /\ doing[c] = "compute" /\ CanRun(c)
    /\ tm' = SetTimeout(tm, arg[c], tick)
    /\ Goes(c, "insert", arg[c])
    /\ UNCHANGED <<tick, thread>>

StartInserts(c) ==
    /\ doing[c] = "insert" /\ CanRun(c)
    /\ tm' = Insert(tm, arg[c])
    /\ Goes(c, IF arg[c] \in Soft THEN "wake" ELSE "none", arg[c])
    /\ UNCHANGED <<tick, thread>>

(* The timer thread waits for a timer, or for the next one to be due.      *)
TimerThreadSuspended == tt \in {"suspended", "sleeping"}

WakesThread == IF TimerThreadSuspended THEN "check" ELSE tt

StartWakes(c) ==
    /\ doing[c] = "wake" /\ CanRun(c)
    /\ tt' = WakesThread
    /\ wake_tick' = IF TimerThreadSuspended THEN 0 ELSE wake_tick
    /\ Goes(c, "none", arg[c])
    /\ UNCHANGED <<tick, tm, node, current_tick, firing, next_timeout>>

\* BUG: the ACTIVATED flag stays
BugStopKeepsFlag(c) ==
    /\ doing[c] = "unflag" /\ CanRun(c)
    /\ tm' = tm
    /\ Goes(c, "none", arg[c])
    /\ UNCHANGED <<tick, thread>>

(* rt_timer_stop(t): the flag is read before interrupts are disabled and   *)
(* goes after they are enabled again.                                      *)
StopChecks(c, t) ==
    /\ MayCall(c, t)
    /\ t \in tm.active
    /\ Goes(c, "remove", t)
    /\ UNCHANGED <<tick, tm, thread>>

StopRemoves(c) ==
    /\ doing[c] = "remove" /\ CanRun(c)
    /\ tm' = _rt_timer_remove(tm, arg[c])
    /\ Goes(c, "unflag", arg[c])
    /\ UNCHANGED <<tick, thread>>

StopUnflags(c) ==
    /\ doing[c] = "unflag" /\ CanRun(c)
    /\ tm' = Unflag(tm, arg[c])
    /\ Goes(c, "none", arg[c])
    /\ UNCHANGED <<tick, thread>>

(* rt_timer_control(RT_TIMER_CTRL_SET_TIME) *)
rt_timer_control(c, t, d) ==
    /\ MayCall(c, t)
    /\ tm' = [tm EXCEPT !.init[t] = d]
    /\ UNCHANGED <<tick, calling, thread>>

-----------------------------------------------------------------------------
(* The timer thread: rt_thread_timer_entry and rt_soft_timer_check.        *)

TimerThreadStep(at, to) ==
    /\ tt = at /\ doing[TimerThread] = "none"
    /\ tt' = to

(* rt_timer_list_next_timeout(rt_soft_timer_list): the list is tested, then *)
(* read.  If it has become empty in between, the head is taken for a timer. *)
ReadsNext ==
    /\ TimerThreadStep("read", IF tm.soft = <<>> THEN "wait" ELSE "peek")
    /\ next_timeout' = IF tm.soft = <<>> THEN TickMax ELSE 0
    /\ UNCHANGED <<tick, tm, calling, node, current_tick, firing, wake_tick>>

PeeksNext ==
    /\ TimerThreadStep("peek", "wait")
    /\ next_timeout' \in IF tm.soft = <<>> THEN Ticks ELSE {tm.timeout[Head(tm.soft)]}
    /\ UNCHANGED <<tick, tm, calling, node, current_tick, firing, wake_tick>>

(* "no software timer exist, suspend self", or a sleep until the next one: *)
(* rt_thread_delay adds the delta to the tick it finds, and a delay of 0   *)
(* ends at the next tick.                                                  *)
WaitsForNext ==
    LET delta == Minus(next_timeout, tick)
        delays == next_timeout # TickMax /\ delta < Half
    IN  /\ TimerThreadStep("wait", IF next_timeout = TickMax THEN "suspended"
                                   ELSE IF delays THEN "delay"
                                   ELSE "check")
        /\ next_timeout' = IF delays THEN delta ELSE 0
        /\ UNCHANGED <<tick, tm, calling, node, current_tick, firing, wake_tick>>

Delays ==
    /\ TimerThreadStep("delay", "sleeping")
    /\ wake_tick' = Plus(tick, next_timeout)
    /\ next_timeout' = 0
    /\ UNCHANGED <<tick, tm, calling, node, current_tick, firing>>

(* rt_soft_timer_check reads the tick, then locks the scheduler.  That     *)
(* keeps the user out; the clock interrupt goes on between any two steps,  *)
(* and its timeout functions may start and stop the timers of the list.    *)
CheckStarts ==
    /\ TimerThreadStep("check", "enter")
    /\ current_tick' = tick
    /\ UNCHANGED <<tick, tm, calling, node, firing, next_timeout, wake_tick>>

CheckLocks ==
    /\ TimerThreadStep("enter", "scan")
    /\ node' = IF tm.soft = <<>> THEN None ELSE Head(tm.soft)
    /\ UNCHANGED <<tick, tm, calling, current_tick, firing, next_timeout, wake_tick>>

ScanFindsDue ==
    /\ TimerThreadStep("scan", "next")
    /\ node # None /\ Due(tm, node, current_tick)
    /\ UNCHANGED <<tick, tm, calling, node, current_tick, firing, next_timeout, wake_tick>>

ScanEnds ==
    /\ TimerThreadStep("scan", "read")
    /\ node # None => ~Due(tm, node, current_tick)
    /\ node' = None
    /\ current_tick' = 0
    /\ UNCHANGED <<tick, tm, calling, firing, next_timeout, wake_tick>>

(* n->next: a timer that is in no list is linked to itself. *)
NodeAfter(t) ==
    LET s == tm.soft
    IN  IF ~Contains(s, t) THEN t
        ELSE IF Last(s) = t THEN None
        ELSE CHOOSE u \in ToSet(s) : \E i \in 1 .. Len(s) - 1 : s[i] = t /\ s[i + 1] = u

ScanGoesOn ==
    /\ TimerThreadStep("next", "unlink")
    /\ node' = NodeAfter(node)
    /\ firing' = node
    /\ UNCHANGED <<tick, tm, calling, current_tick, next_timeout, wake_tick>>

(* The end of _rt_timer_remove: see Tears for what may come in the middle. *)
ScanUnlinks ==
    /\ TimerThreadStep("unlink", "callback")
    /\ tm' = _rt_timer_remove(tm, firing)
    /\ UNCHANGED <<tick, calling, node, current_tick, firing, next_timeout, wake_tick>>

CallbackReturns ==
    /\ TimerThreadStep("callback", "relock")
    /\ current_tick' = tick
    /\ UNCHANGED <<tick, tm, calling, node, firing, next_timeout, wake_tick>>

Relocks ==
    /\ TimerThreadStep("relock", "after")
    /\ UNCHANGED <<tick, tm, calling, node, current_tick, firing, next_timeout, wake_tick>>

(* A periodic timer that was not stopped is started again; for the others  *)
(* the flag goes, whatever has been done since it was read.                *)
AfterCallback ==
    LET again == firing \in Periodic /\ firing \in tm.active
    IN  /\ TimerThreadStep("after", IF again THEN "unflag" ELSE "clear")
        /\ UNCHANGED <<tick, tm, calling, node, current_tick, firing, next_timeout, wake_tick>>

ScanUnflags ==
    /\ TimerThreadStep("clear", "scan")
    /\ tm' = Unflag(tm, firing)
    /\ firing' = None
    /\ UNCHANGED <<tick, calling, node, current_tick, next_timeout, wake_tick>>

RestartUnflags ==
    /\ TimerThreadStep("unflag", "again")
    /\ tm' = Unflag(tm, firing)
    /\ UNCHANGED <<tick, calling, node, current_tick, firing, next_timeout, wake_tick>>

(* ... and then the first section of rt_timer_start. *)
RestartRemoves ==
    /\ TimerThreadStep("again", "restart")
    /\ tm' = Unflag(_rt_timer_remove(tm, firing), firing)
    /\ Goes(TimerThread, "compute", firing)
    /\ firing' = None
    /\ UNCHANGED <<tick, node, current_tick, next_timeout, wake_tick>>

RestartReturns ==
    /\ TimerThreadStep("restart", "scan")
    /\ UNCHANGED <<tick, tm, calling, node, current_tick, firing, next_timeout, wake_tick>>

-----------------------------------------------------------------------------
(* The clock interrupt: rt_tick_increase and rt_timer_check.  The timeout  *)
(* function of a hard timer starts or stops another timer or does nothing. *)

TimeoutCalls(s, e, now) ==
    IF e = None THEN s
    ELSE IF e.call = "start" THEN [s EXCEPT !.tm = StartNow(s.tm, e.timer, now),
                                            !.started = @ \cup {e.timer}]
    ELSE [s EXCEPT !.tm = StopNow(s.tm, e.timer)]

(* One turn of the loop of rt_timer_check: the first timer, if it is due.  *)
Fire(s, effect, now) ==
    IF s.tm.hard = <<>> \/ ~Due(s.tm, Head(s.tm.hard), now) THEN s
    ELSE LET t  == Head(s.tm.hard)
             called == TimeoutCalls([s EXCEPT !.tm = _rt_timer_remove(@, t)],
                                    effect[t], now)
         IN  IF t \in Periodic /\ t \in called.tm.active
             THEN [called EXCEPT !.tm = StartNow(called.tm, t, now)]
             ELSE [called EXCEPT !.tm = Unflag(called.tm, t)]

\* BUG: only the first expired timer fires
BugFireFirst(effect, now) ==
    Fire([tm |-> tm, started |-> {}], effect, now)

FireAll(effect, now) ==
    LET turns[i \in 0 .. Cardinality(Hard)] ==
            IF i = 0 THEN [tm |-> tm, started |-> {}]
            ELSE Fire(turns[i - 1], effect, now)
    IN  turns[Cardinality(Hard)]

(* What MaxLate bounds: no thread is kept from a due timer for longer.     *)
InTime(now) ==
    LET pending == ToSet(tm.soft) \cup { arg[c] : c \in { d \in Caller : doing[d] = "insert" } }
    IN  \A t \in pending : Due(tm, t, now) => Minus(now, tm.timeout[t]) <= MaxLate

(* The timer thread is between the loads and stores of rt_list_remove, and *)
(* s has linked or unlinked a soft timer.  If that was among the ones the  *)
(* thread has read or written, its remaining stores put the old links      *)
(* beside the new: no list.  The model ends there ("lost").                *)
Tears(s) == tt = "unlink" /\ (s.tm.soft # tm.soft \/ s.started \cap Soft # {})

rt_tick_increase(effect) ==
    LET now == Plus(tick, 1)
        s   == FireAll(effect, now)
        up  == \/ tt = "sleeping" /\ Minus(now, wake_tick) < Half
               \/ TimerThreadSuspended /\ s.started \cap Soft # {}
    IN  /\ tick # LastTick /\ InTime(now) /\ tt # "lost"
        /\ \A t \in Hard : effect[t] # None => NotInCall(effect[t].timer) /\ effect[t].timer # t
        /\ tick' = now
        /\ tm' = s.tm
        /\ \/ tt' = IF up THEN "check" ELSE tt
           \/ Tears(s) /\ tt' = "lost"
        /\ wake_tick' = IF up THEN 0 ELSE wake_tick
        /\ UNCHANGED <<calling, node, current_tick, firing, next_timeout>>

-----------------------------------------------------------------------------
Lost == tt = "lost" /\ UNCHANGED timerVars

TimerNext ==
    \/ \E c \in Caller, t \in Timers : \/ StartRemoves(c, t)
                                       \/ StopChecks(c, t)
                                       \/ \E d \in Times[t] : rt_timer_control(c, t, d)
    \/ \E c \in Caller : \/ StartComputes(c)
                         \/ StartInserts(c)
                         \/ StartWakes(c)
                         \/ StopRemoves(c)
                         \/ StopUnflags(c)
    \/ ReadsNext
    \/ PeeksNext
    \/ WaitsForNext
    \/ Delays
    \/ CheckStarts
    \/ CheckLocks
    \/ ScanFindsDue
    \/ ScanEnds
    \/ ScanGoesOn
    \/ ScanUnlinks
    \/ CallbackReturns
    \/ Relocks
    \/ AfterCallback
    \/ ScanUnflags
    \/ RestartUnflags
    \/ RestartRemoves
    \/ RestartReturns
    \/ \E effect \in [Hard -> HardEffect] : rt_tick_increase(effect)
    \/ Lost

TimerSpec == TimerInit /\ [][TimerNext]_timerVars
-----------------------------------------------------------------------------
TimerTypeOK ==
    /\ tick \in Ticks
    /\ tm \in [hard : Seq(Hard), soft : Seq(Soft), active : SUBSET Timers,
              timeout : [Timers -> Ticks], init : InitTicks]
    /\ doing \in [Caller -> {"none", "compute", "insert", "wake", "remove", "unflag"}]
    /\ arg \in [Caller -> Timers \cup {None}]
    /\ tt \in {"read", "peek", "wait", "delay", "suspended", "sleeping", "check", "enter",
              "scan", "next", "unlink", "callback", "relock", "after", "clear", "unflag",
              "again", "restart", "lost"}
    /\ {node, firing} \subseteq Soft \cup {None}
    /\ {current_tick, next_timeout, wake_tick} \subseteq Ticks

(* A timer is in its list once, and the lists are sorted by the time that  *)
(* is left, also while ticks wrap around and for a timer whose time was    *)
(* computed some ticks before it is inserted.  Of the soft list this is    *)
(* said until an interrupt has changed it in the middle of an unlink.      *)
ListsSorted ==
    \A l \in {tm.hard} \cup (IF tt = "lost" THEN {} ELSE {tm.soft}) :
        /\ IsInjective(l)
        /\ \A i, j \in 1 .. Len(l) :
              i < j => Minus(tm.timeout[l[j]], tm.timeout[l[i]]) < Half

(* Flags and lists agree.  No timer that is marked active is forgotten: it *)
(* is in its list, or its timeout function is being called, or the stop    *)
(* that has taken it out has not cleared the flag yet.  And no hard timer  *)
(* is in the list without the flag: rt_timer_stop would refuse to take it  *)
(* out (timer.c:430).                                                      *)
ActiveAccounted ==
    /\ \A t \in tm.active : \/ Linked(tm, t)
                            \/ firing = t
                            \/ \E c \in Caller : doing[c] = "unflag" /\ arg[c] = t
                            \/ t \in Soft /\ tt = "lost"
    /\ ToSet(tm.hard) \subseteq tm.active

(* When the clock interrupt returns, no hard timer is due: a timer that is *)
(* in the list at a tick fires at the tick it was started for.             *)
HardOnTime ==
    [][tick' # tick =>
        \A t \in ToSet(tm'.hard) : Minus(tick', tm'.timeout[t]) >= Half]_timerVars

(* timer.c:649 "no software timer exist, suspend self": while the timer    *)
(* thread is suspended without a time limit there is no soft timer, or the *)
(* call that starts it has still to wake the thread.                       *)
WatchesTimers ==
    tt = "suspended" =>
        tm.soft = <<>> \/ \E c \in Caller : doing[c] = "wake"

(* The node that rt_soft_timer_check keeps across a timeout function is in *)
(* the list when it goes on (timer.c:416 "This function will stop the      *)
(* timer").                                                                *)
ScansLinked == tt = "scan" /\ node # None => Linked(tm, node)

(* The same for soft timers as for hard ones in ActiveAccounted: one that  *)
(* will fire can be stopped.                                               *)
LinkedIsActive == tt # "lost" => ToSet(tm.soft) \subseteq tm.active

(* No interrupt changes the soft list in the middle of an unlink.          *)
SoftListWhole == tt # "lost"
=============================================================================
