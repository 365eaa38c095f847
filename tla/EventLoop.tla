------------------------------ MODULE EventLoop ------------------------------
(***************************************************************************)
(* The JavaScript event loop of jsiapp (src/jsiapp/eventloop.h and .cpp)   *)
(* with the script-facing functions that scripthost.cpp installs on top of *)
(* it: setTimeout, setInterval, setImmediate and clearTimeout.             *)
(*                                                                         *)
(* One thread, EventLoop::threadProc, calls iteration() for ever.  An      *)
(* iteration drains the task queue, then looks at the first timer only and *)
(* runs its handler when it is due.  The main thread and the inspector's   *)
(* I/O thread push tasks without any lock, so a push that meets the loop   *)
(* at the queue may lose the task or kill the process.  _timerEvents is    *)
(* touched by the loop's own thread alone.                                 *)
(*                                                                         *)
(* iteration() also drains _jsiBgCompletedItems (eventloop.cpp:41-48).     *)
(* Only BgEventLoop::iteration fills it, and no thread runs that, because  *)
(* bgeventloop.cpp:25 is commented out: the body of that loop is never     *)
(* entered and is left out here.                                           *)
(***************************************************************************)
EXTENDS Integers, SequencesExt

CONSTANTS
  Delays,     \* the delays, in milliseconds, that scripts pass; also negative
  MinDue,     \* bound: no interval moves on into the past from before this
  MaxTimers,  \* bound: how many timers are ever created
  MaxTasks,   \* bound: how many tasks other threads ever push
  MaxNow      \* bound: the last reading of the clock

ASSUME ConstantsAssumption ==
  /\ Delays \subseteq Int /\ MinDue \in Int
  /\ MaxTimers \in Nat /\ MaxTasks \in Nat /\ MaxNow \in Nat

VARIABLES
  now,             \* std::chrono::steady_clock::now()
  timers,          \* _timerEvents, a multiset ordered by next_ + delay_
  currentTimerId,  \* _currentTimerId, zero at first: ScriptHost is static
  nextTimerId,     \* the static counter of GetUnusedTimerId
  taskQueue,       \* _taskQueue; a task is the number of its push
  posted,          \* how many pushes there were
  pc,              \* where the loop's thread is
  frame,           \* the locals next, delay, isPeriodic of iteration()
  origin,          \* history: when each timer was created
  fires,           \* history: how often each timer's handler was started
  cancelled        \* history: the timers cleared while they were alive

loopVars == <<timers, currentTimerId, nextTimerId, frame>>
history  == <<origin, fires, cancelled>>
vars     == <<now, loopVars, taskQueue, posted, pc, history>>

TimerIds == 1 .. MaxTimers

\* What periodic_ tells apart.
Kinds == {"timeout", "interval"}

Timer == [id : TimerIds, next : Int, delay : Delays, kind : Kinds]

NoFrame == [next |-> 0, delay |-> 0, kind |-> "timeout"]

\* The key operator<(TimerEvent, TimerEvent) compares.
Due(t) == t.next + t.delay

Pending == {timers[i].id : i \in DOMAIN timers}

\* Mutant of IsUpperBound: in front of the equal ones (a lower bound).
LowerBoundInstead(s, t, k) ==
  /\ \A i \in 1 .. k - 1 : Due(s[i]) < Due(t)
  /\ k <= Len(s) => Due(t) <= Due(s[k])

(***************************************************************************)
(* multiset::emplace puts an element behind the ones with an equal key.    *)
(***************************************************************************)
IsUpperBound(s, t, k) ==
  /\ \A i \in 1 .. k - 1 : Due(s[i]) <= Due(t)
  /\ k <= Len(s) => Due(t) < Due(s[k])

UpperBound(s, t) == CHOOSE k \in 1 .. Len(s) + 1 : IsUpperBound(s, t, k)

Emplace(s, t) == InsertAt(s, UpperBound(s, t), t)

Init ==
  /\ now = 0
  /\ timers = <<>>
  /\ currentTimerId = 0
  /\ nextTimerId = 1
  /\ taskQueue = <<>>
  /\ posted = 0
  /\ pc = "poll"
  /\ frame = NoFrame
  /\ origin = [id \in TimerIds |-> 0]
  /\ fires = [id \in TimerIds |-> 0]
  /\ cancelled = {}

------------------------------------------------------------------------------
(* The other threads and the clock. *)

Tick ==
  /\ now < MaxNow
  /\ now' = now + 1
  /\ UNCHANGED <<loopVars, taskQueue, posted, pc, history>>

\* ScriptHost and main push tasks, the inspector's I/O thread pushes
\* DispatchMessages.
PushTask ==
  /\ posted < MaxTasks
  /\ pc # "crashed"
  /\ posted' = posted + 1
  /\ taskQueue' = Append(taskQueue, posted + 1)
  /\ UNCHANGED <<now, loopVars, pc, history>>

\* The same push while the loop's thread is at the queue: std::queue is not
\* synchronised, so the element can vanish behind a lost update of its size,
\* or the loop can call an empty std::function and terminate.
RacyPush ==
  /\ posted < MaxTasks
  /\ pc = "poll"
  /\ posted' = posted + 1
  /\ pc' \in {"poll", "crashed"}
  /\ UNCHANGED <<now, loopVars, taskQueue, history>>

------------------------------------------------------------------------------
(* EventLoop::iteration, on its own thread. *)

RunTask ==
  /\ pc = "poll"
  /\ taskQueue # <<>>
  /\ taskQueue' = Tail(taskQueue)
  /\ pc' = "task"
  /\ UNCHANGED <<now, loopVars, posted, history>>

TaskReturns ==
  /\ pc = "task"
  /\ pc' = "poll"
  /\ UNCHANGED <<now, loopVars, taskQueue, posted, history>>

TasksDrained ==
  /\ pc = "poll"
  /\ taskQueue = <<>>
  /\ pc' = "timers"
  /\ UNCHANGED <<now, loopVars, taskQueue, posted, history>>

NoTimerDue ==
  /\ pc = "timers"
  /\ timers # <<>> => now < Due(Head(timers))
  /\ pc' = "poll"
  /\ UNCHANGED <<now, loopVars, taskQueue, posted, history>>

\* An interval without a delay, or with a negative one, can start any number of
\* times without the clock moving.  With a negative delay each start puts it
\* back earlier than before, which the bound MinDue cuts off: the starts that
\* leave its entry as it was are not counted.
MovesOn(t) ==
  \/ t.kind = "timeout"
  \/ t.delay > 0
  \/ t.delay < 0 /\ Due(t) >= MinDue

FireTimer ==
  /\ pc = "timers"
  /\ timers # <<>>
  /\ LET t == Head(timers)
     IN /\ now >= Due(t)
        /\ currentTimerId' = t.id
        /\ frame' = [next |-> t.next, delay |-> t.delay, kind |-> t.kind]
        /\ fires' = IF MovesOn(t) THEN [fires EXCEPT ![t.id] = @ + 1] ELSE fires
  /\ timers' = Tail(timers)
  /\ pc' = "handler"
  /\ UNCHANGED <<now, nextTimerId, taskQueue, posted, origin, cancelled>>

\* The handler has returned; `next` is the next_ of an interval's new entry and
\* `then` where the thread goes on.
HandlerReturns(next, then) ==
  /\ pc = "handler"
  /\ timers' = IF frame.kind = "interval" /\ currentTimerId > 0
               THEN Emplace(timers, [id |-> currentTimerId, next |-> next,
                                     delay |-> frame.delay,
                                     kind |-> frame.kind])
               ELSE timers
  /\ currentTimerId' = 0
  /\ frame' = NoFrame
  /\ pc' = then
  /\ UNCHANGED <<now, nextTimerId, taskQueue, posted, history>>

\* Mutant of TimerReturns: the period starts when the handler ends.
ReturnsFromNow == HandlerReturns(now, "poll")

\* The next_ of the entry an interval gets: next + delay.
NextOfInterval == IF MovesOn(frame) THEN frame.next + frame.delay ELSE frame.next

\* Mutant of TimerReturns: due timers run before the tasks are looked at.
ReturnsToTimers == HandlerReturns(NextOfInterval, "timers")

\* The handler has returned (Runtime::call swallows exceptions): an interval
\* that was not cleared meanwhile goes back into the queue.
TimerReturns == HandlerReturns(NextOfInterval, "poll")

------------------------------------------------------------------------------
(* The functions a script calls from a task or from a timer's handler. *)

InScript == pc \in {"task", "handler"}

AddTimer(delay, kind) ==
  /\ InScript
  /\ nextTimerId <= MaxTimers
  /\ nextTimerId' = nextTimerId + 1
  /\ timers' = Emplace(timers, [id |-> nextTimerId, next |-> now,
                                delay |-> delay, kind |-> kind])
  /\ origin' = [origin EXCEPT ![nextTimerId] = now]
  /\ UNCHANGED <<now, currentTimerId, taskQueue, posted, pc, frame, fires, cancelled>>

SetTimeout(delay) == AddTimer(delay, "timeout")

SetInterval(delay) == AddTimer(delay, "interval")

\* Mutant of EraseTimer: the first entry instead of the one that was found.
EraseFirst(s, id) == IF s = <<>> THEN s ELSE Tail(s)

\* Of several elements with this id, find_if takes the first.
EraseTimer(s, id) ==
  LET at == {i \in DOMAIN s : s[i].id = id}
  IN IF at = {} THEN s
     ELSE RemoveAt(s, CHOOSE i \in at : \A j \in at : i <= j)

\* Mutant of ClearTimeout: the running timer is not noticed.
ClearQueuedOnly(id) ==
  /\ InScript
  /\ timers' = EraseTimer(timers, id)
  /\ cancelled' = cancelled \cup ({id} \cap (Pending \cup ({currentTimerId} \ {0})))
  /\ UNCHANGED <<now, currentTimerId, nextTimerId, taskQueue, posted, pc, frame, origin, fires>>

\* clearTimeout takes any number: an id that was never given out, the id of a
\* timer that is gone, or 0.
ClearTimeout(id) ==
  /\ InScript
  /\ IF currentTimerId = id
     THEN currentTimerId' = 0 /\ UNCHANGED timers
     ELSE timers' = EraseTimer(timers, id) /\ UNCHANGED currentTimerId
  /\ cancelled' = cancelled \cup ({id} \cap (Pending \cup ({currentTimerId} \ {0})))
  /\ UNCHANGED <<now, nextTimerId, taskQueue, posted, pc, frame, origin, fires>>

Script ==
  \/ \E delay \in Delays : SetTimeout(delay) \/ SetInterval(delay)
  \/ \E id \in 0 .. MaxTimers : ClearTimeout(id)

LoopStep ==
  RunTask \/ TaskReturns \/ TasksDrained \/ NoTimerDue \/ FireTimer \/ TimerReturns

Next == Tick \/ PushTask \/ RacyPush \/ LoopStep \/ Script

Spec == Init /\ [][Next]_vars

(***************************************************************************)
(* threadProc is `while (true) iteration()` and the clock advances.  That  *)
(* every task and every handler returns is an assumption on the scripts.   *)
(***************************************************************************)
FairSpec == Spec /\ WF_vars(LoopStep) /\ WF_vars(Tick)

------------------------------------------------------------------------------
(* Properties *)

\* Every variable has its type.
TypeOK ==
  /\ now \in 0 .. MaxNow
  /\ timers \in Seq(Timer)
  /\ currentTimerId \in 0 .. MaxTimers
  /\ nextTimerId \in 1 .. MaxTimers + 1
  /\ taskQueue \in Seq(1 .. MaxTasks)
  /\ posted \in 0 .. MaxTasks
  /\ pc \in {"poll", "task", "timers", "handler", "crashed"}
  /\ frame \in [next : Int, delay : Delays \cup {0}, kind : Kinds]
  /\ origin \in [TimerIds -> Int]
  /\ fires \in [TimerIds -> Nat]
  /\ cancelled \subseteq TimerIds

\* "Sorted queue that has the next timeout first" (eventloop.h:108), and
\* one-shot timers due at the same instant keep the order of their creation,
\* whatever intervals are taken out and put back between them.
FirstDueFirst ==
  \A i, j \in DOMAIN timers :
    i < j => \/ Due(timers[i]) < Due(timers[j])
             \/ /\ Due(timers[i]) = Due(timers[j])
                /\ timers[i].kind = "timeout" /\ timers[j].kind = "timeout"
                     => timers[i].id < timers[j].id

\* No timer is queued twice, and the timer whose handler runs is out of the
\* queue: the handler can clear it only through _currentTimerId.
OneEntryPerTimer ==
  /\ \A i, j \in DOMAIN timers : timers[i].id = timers[j].id => i = j
  /\ currentTimerId \notin Pending

\* A cleared timer is out for good, also when it cleared itself in its own
\* handler and was about to be put back ("goes to 0 if timer was cleared in
\* its own handler", eventloop.h:117).
ClearedStaysCleared ==
  /\ cancelled \cap Pending = {}
  /\ currentTimerId \notin cancelled

\* Nothing loses a timer: one that was created is queued, running, cleared, or
\* a one-shot that had its turn; and clearing one timer clears no other.
NoTimerLost ==
  \A id \in 1 .. nextTimerId - 1 :
    \/ id \in Pending
    \/ id = currentTimerId
    \/ id \in cancelled
    \/ fires[id] = 1

\* The n-th start of an interval is due exactly n delays after setInterval,
\* however late the earlier ones ran (next + delay in eventloop.cpp:75, not
\* now): no drift and no period skipped, also where a negative delay takes the
\* interval back in time.  A queued one-shot has not run yet.
OnSchedule ==
  \A i \in DOMAIN timers :
    LET t == timers[i]
    IN /\ Due(t) = origin[t.id] + (fires[t.id] + 1) * t.delay
       /\ t.kind = "timeout" => fires[t.id] = 0

\* The queue of tasks is empty again and again (at most MaxTasks are ever
\* pushed), whatever the timers do: an iteration runs one handler at most
\* before it returns to the tasks, so that even an interval that is always due
\* cannot keep a queued task waiting.
TasksAreServed == []<>(pc = "crashed" \/ taskQueue = <<>>)

\* An interval with no delay keeps the due time it was created with, and one
\* with a negative delay (setInterval takes any number, scripthost.cpp:209-214)
\* gets an earlier one at each start: either returns to the front of the queue
\* and hides every timer due later.
Hides(t, due) == t.kind = "interval" /\ t.delay <= 0 /\ Due(t) < due

Hidden(due) ==
  \/ \E i \in DOMAIN timers : Hides(timers[i], due)
  \/ pc = "handler" /\ Hides(frame, due)

\* A timer leaves its place in the queue once it is due: only an interval with
\* no delay or a negative one, and an earlier due time, can starve it.
TimersAreServed ==
  \A id \in TimerIds :
    []<>(\/ pc = "crashed"
         \/ \A i \in DOMAIN timers :
              timers[i].id = id /\ Due(timers[i]) <= MaxNow => Hidden(Due(timers[i])))

\* What is due is served: queued tasks whatever the timers do, timers unless an
\* interval hides them whose delay is not positive (eventloop.cpp:60-75 looks
\* at the first timer only).  Pushes lost in a race were never queued.
EverythingIsServed == TasksAreServed /\ TimersAreServed

==============================================================================
