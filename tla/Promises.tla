------------------------------ MODULE Promises ------------------------------
(***************************************************************************)
(* Calls, exceptions and promises between C++ and JavaScript on the event  *)
(* loop's thread: V8Runtime::call and HostFunctionProxy::call, which turn  *)
(* exceptions into each other, and V8Runtime::Then and Catch, which leave  *)
(* a pending promise to V8 but handle a settled one themselves.            *)
(*                                                                         *)
(* stack is the thread's stack: "task" and "host" are C++ frames, "script" *)
(* and "callback" are JavaScript.  A promise is named by the number of its *)
(* creation; reg tells of one that Then or Catch made where it came from.  *)
(***************************************************************************)
EXTENDS Integers, Sequences, SequencesExt

CONSTANTS MaxPromises, \* bound: promises made
          MaxDepth,    \* bound: frames on the stack
          MaxRoots,    \* bound: what the event loop starts
          MaxHostCalls \* bound: calls of host functions

ASSUME PromisesAssumption ==
  MaxPromises \in Nat /\ MaxDepth \in Nat /\ MaxRoots \in Nat /\ MaxHostCalls \in Nat

P       == 1 .. MaxPromises
Fulfilled == {"value", "undefined"}
Settled == Fulfilled \union {"error"}
NoReg   == [src |-> 0, kind |-> "none", late |-> FALSE]

VARIABLES state,     \* v8::Promise::State with the result; "none": not made
          made,      \* how many promises there are
          reg,       \* how each promise was derived
          reactions, \* what V8 does when a promise is settled, in order
          jobs,      \* V8's microtasks
          stack,
          scheduled, \* V8's scheduled exception: the height of the host function
                     \* in which it came up, 0: there is none.  It is rethrown
                     \* in JavaScript when a host function returns
          resolvers, \* promises whose resolver C++ still has
          bgQueue,   \* BgEventLoop::_taskQueue
          calls,     \* how often the callback of a registration was called
          roots, hostCalls

promiseVars == <<state, made, reg, reactions, jobs, resolvers, bgQueue>>
counters    == <<roots, hostCalls>>
vars        == <<promiseVars, stack, scheduled, calls, counters>>

Frame(kind, for, via) == [kind |-> kind, for |-> for, via |-> via]
Push(f) == Len(stack) < MaxDepth /\ stack' = Append(stack, f)
Top     == Last(stack)
Pop     == stack' = Front(stack)
JavaScript == {"script", "callback"}
InJs(s)  == \E i \in DOMAIN s : s[i].kind \in JavaScript
JsTop    == stack # <<>> /\ Top.kind \in JavaScript
\* Mutant of NativeTop: C++ goes on while microtasks wait.
NativeTopAtOnce == stack # <<>> /\ Top.kind \in {"task", "host"}

\* Microtasks run when the outermost call into JavaScript returns, before C++
\* goes on.
NativeTop == stack # <<>> /\ Top.kind \in {"task", "host"} /\ (jobs = <<>> \/ InJs(stack))

\* Promise p gets its result: its reactions become microtasks.
Jobs(p, v) == [i \in DOMAIN reactions[p] |-> [for |-> reactions[p][i], v |-> v]]
Settle(p, v, todo) ==
  /\ state' = [state EXCEPT ![p] = v]
  /\ jobs' = todo \o Jobs(p, v)
  /\ reactions' = [reactions EXCEPT ![p] = <<>>]

-----------------------------------------------------------------------------
(* The event loop.                                                         *)

CanStart == stack = <<>> /\ jobs = <<>> /\ roots < MaxRoots /\ roots' = roots + 1

\* A task of the event loop that is C++.
RunTask ==
  /\ CanStart /\ Push(Frame("task", 0, "loop"))
  /\ UNCHANGED <<promiseVars, scheduled, calls, hostCalls>>

\* ScriptHost::runScript: evaluateJavaScript.
EvaluateJavaScript ==
  /\ CanStart /\ Push(Frame("script", 0, "run"))
  /\ UNCHANGED <<promiseVars, scheduled, calls, hostCalls>>

\* A timer: JSIFunctionProxy's function is called.
CallTimer ==
  /\ CanStart /\ Push(Frame("callback", 0, "call"))
  /\ UNCHANGED <<promiseVars, scheduled, calls, hostCalls>>

TaskReturns ==
  /\ NativeTop /\ Top.kind = "task" /\ Pop
  /\ UNCHANGED <<promiseVars, scheduled, calls, counters>>

-----------------------------------------------------------------------------
(* Host functions.                                                         *)

\* JavaScript calls a host function: HostFunctionCallback.
CallHost ==
  /\ JsTop /\ hostCalls < MaxHostCalls /\ hostCalls' = hostCalls + 1
  /\ Push(Frame("host", 0, "call"))
  /\ UNCHANGED <<promiseVars, scheduled, calls, roots>>

\* HostFunctionProxy::call returns the result, or catches whatever the function
\* threw and throws an Error in its place.  In either case JavaScript goes on
\* with the exception that is scheduled, be it this host function's or that of
\* one further down, which came up before it made its next call; what JavaScript
\* does with it is its affair.
HostReturns ==
  /\ NativeTop /\ Top.kind = "host" /\ Pop
  /\ scheduled' = 0
  /\ UNCHANGED <<promiseVars, calls, counters>>

-----------------------------------------------------------------------------
(* Promises and resolvers.                                                 *)

\* PromiseResolver::create
CreatePromiseResolver ==
  /\ NativeTop /\ made < MaxPromises /\ made' = made + 1
  /\ state' = [state EXCEPT ![made'] = "pending"]
  /\ resolvers' = resolvers \union {made'}
  /\ UNCHANGED <<reg, reactions, jobs, bgQueue, stack, scheduled, calls, counters>>

\* PromiseResolver::Resolve
Resolve(p) ==
  /\ NativeTop /\ p \in resolvers
  /\ IF state[p] = "pending" THEN Settle(p, "value", jobs)
     ELSE UNCHANGED <<state, jobs, reactions>>
  /\ resolvers' \in {resolvers, resolvers \ {p}}
  /\ UNCHANGED <<made, reg, bgQueue, stack, scheduled, calls, counters>>

\* PromiseResolver::Reject
Reject(p) ==
  /\ NativeTop /\ p \in resolvers
  /\ IF state[p] = "pending" THEN Settle(p, "error", jobs)
     ELSE UNCHANGED <<state, jobs, reactions>>
  /\ resolvers' \in {resolvers, resolvers \ {p}}
  /\ UNCHANGED <<made, reg, bgQueue, stack, scheduled, calls, counters>>

\* BgEventLoop::add.  loop starts no thread, so nothing takes the task out again
\* and EventLoop's _jsiBgCompletedItems stays empty.
AddBgTask(p) == bgQueue' = Append(bgQueue, p)

\* main.cpp's getDataAsync: a promise, and a task with its resolver for the
\* background loop.
GetDataAsync ==
  /\ NativeTop /\ Top.kind = "host" /\ made < MaxPromises /\ made' = made + 1
  /\ state' = [state EXCEPT ![made'] = "pending"]
  /\ AddBgTask(made')
  /\ UNCHANGED <<reg, reactions, jobs, resolvers, stack, scheduled, calls, counters>>

Handles(kind, v) == \/ kind = "then" /\ v \in Fulfilled
                    \/ kind = "catch" /\ v = "error"

\* The new promise that p's Then or Catch makes.
Derive(p, kind, late) ==
  /\ NativeTop /\ made < MaxPromises /\ made' = made + 1
  /\ reg' = [reg EXCEPT ![made'] = [src |-> p, kind |-> kind, late |-> late]]

\* Mutant of RegisterWithV8: the promise is made, V8 is not told.
RegisterUnheard(p, kind) ==
  /\ state[p] = "pending" /\ Derive(p, kind, FALSE)
  /\ state' = [state EXCEPT ![made'] = "pending"]
  /\ UNCHANGED <<reactions, jobs, resolvers, bgQueue, stack, scheduled, calls, counters>>

\* Then, Catch: the promise is pending, V8 is told.
RegisterWithV8(p, kind) ==
  /\ state[p] = "pending" /\ Derive(p, kind, FALSE)
  /\ state' = [state EXCEPT ![made'] = "pending"]
  /\ reactions' = [reactions EXCEPT ![p] = Append(@, made')]
  /\ UNCHANGED <<jobs, resolvers, bgQueue, stack, scheduled, calls, counters>>

\* Mutant of CallAtOnce: any settled promise will do.
CallAnyway(p, kind) ==
  /\ state[p] \in Settled /\ Derive(p, kind, TRUE)
  /\ Push(Frame("callback", made', "call"))
  /\ calls' = [calls EXCEPT ![made'] = @ + 1]
  /\ UNCHANGED <<state, reactions, jobs, resolvers, bgQueue, scheduled, counters>>

\* Then of a fulfilled promise, Catch of a rejected one: calls the function.
CallAtOnce(p, kind) ==
  /\ Handles(kind, state[p]) /\ Derive(p, kind, TRUE)
  /\ Push(Frame("callback", made', "call"))
  /\ calls' = [calls EXCEPT ![made'] = @ + 1]
  /\ UNCHANGED <<state, reactions, jobs, resolvers, bgQueue, scheduled, counters>>

\* Otherwise: a promise whose resolver is dropped.
MakeOrphan(p, kind) ==
  /\ state[p] \in Settled /\ ~Handles(kind, state[p]) /\ Derive(p, kind, TRUE)
  /\ state' = [state EXCEPT ![made'] = "pending"]
  /\ UNCHANGED <<reactions, jobs, resolvers, bgQueue, stack, scheduled, calls, counters>>

\* V8Runtime::Then and Catch
Then(p)  == RegisterWithV8(p, "then") \/ CallAtOnce(p, "then") \/ MakeOrphan(p, "then")
Catch(p) == RegisterWithV8(p, "catch") \/ CallAtOnce(p, "catch") \/ MakeOrphan(p, "catch")

-----------------------------------------------------------------------------
(* V8: microtasks and the end of JavaScript frames.                        *)

\* Mutant of RunMicrotask: a result nobody handles is dropped.
RunHandledMicrotask ==
  /\ jobs # <<>> /\ ~InJs(stack)
  /\ LET j == Head(jobs)
     IN IF Handles(reg[j.for].kind, j.v)
        THEN /\ Push(Frame("callback", j.for, "job"))
             /\ calls' = [calls EXCEPT ![j.for] = @ + 1]
        ELSE UNCHANGED <<stack, calls>>
  /\ jobs' = Tail(jobs)
  /\ UNCHANGED <<state, reactions, made, reg, resolvers, bgQueue, scheduled, counters>>

\* One microtask: the callback is called, or the result handed on.
RunMicrotask ==
  /\ jobs # <<>> /\ ~InJs(stack)
  /\ LET j == Head(jobs)
     IN IF Handles(reg[j.for].kind, j.v)
        THEN /\ Push(Frame("callback", j.for, "job")) /\ jobs' = Tail(jobs)
             /\ calls' = [calls EXCEPT ![j.for] = @ + 1]
             /\ UNCHANGED <<state, reactions>>
        ELSE /\ Settle(j.for, j.v, Tail(jobs))
             /\ UNCHANGED <<stack, calls>>
  /\ UNCHANGED <<made, reg, resolvers, bgQueue, scheduled, counters>>

\* A script ends or throws: ExecuteString's TryCatch has the exception, and
\* ReportException throws a JSError that runScript prints.
ScriptEnds ==
  /\ JsTop /\ Top.kind = "script" /\ Pop
  /\ UNCHANGED <<promiseVars, scheduled, calls, counters>>

CallbackTop == JsTop /\ Top.kind = "callback"

\* A callback returns something that is no promise.  V8 resolves the derived
\* promise; Then and Catch resolve the promise they make now.
CallbackReturns ==
  /\ CallbackTop /\ Pop
  /\ IF Top.for = 0 THEN UNCHANGED <<state, jobs, reactions>>
     ELSE Settle(Top.for, "value", jobs)
  /\ UNCHANGED <<made, reg, resolvers, bgQueue, scheduled, calls, counters>>

\* A callback returns promise q.  V8 lets the derived promise follow q; Then and
\* Catch return q itself.
CallbackReturnsPromise(q) ==
  /\ CallbackTop /\ Top.for # 0 /\ Top.for # q /\ state[q] # "none" /\ Pop
  /\ IF Top.via = "job"
     THEN /\ reg' = [reg EXCEPT ![Top.for] = [@ EXCEPT !.src = q, !.kind = "follow"]]
          /\ IF state[q] = "pending"
             THEN /\ reactions' = [reactions EXCEPT ![q] = Append(@, Top.for)]
                  /\ UNCHANGED jobs
             ELSE /\ jobs' = Append(jobs, [for |-> Top.for, v |-> state[q]])
                  /\ UNCHANGED reactions
     ELSE UNCHANGED <<reg, reactions, jobs>>
  /\ UNCHANGED <<state, made, resolvers, bgQueue, scheduled, calls, counters>>

\* A callback throws.  In a microtask V8 rejects the derived promise.  In
\* V8Runtime::call, which has no TryCatch, V8 schedules the exception if there is
\* JavaScript below, in the place of one scheduled before, or else drops it; call
\* returns undefined, which Then and Catch take for the result, and the host
\* function goes on with the exception scheduled, perhaps to its next call.
CallbackThrows ==
  /\ CallbackTop /\ Pop
  /\ IF Top.for = 0 THEN UNCHANGED <<state, jobs, reactions>>
     ELSE Settle(Top.for, IF Top.via = "job" THEN "error" ELSE "undefined", jobs)
  /\ scheduled' = IF Top.via # "job" /\ InJs(stack') THEN Len(stack') ELSE scheduled
  /\ UNCHANGED <<made, reg, resolvers, bgQueue, calls, counters>>

-----------------------------------------------------------------------------
Init ==
  /\ state = [p \in P |-> "none"] /\ made = 0 /\ reg = [p \in P |-> NoReg]
  /\ reactions = [p \in P |-> <<>>] /\ jobs = <<>> /\ stack = <<>>
  /\ scheduled = 0 /\ resolvers = {} /\ bgQueue = <<>>
  /\ calls = [p \in P |-> 0] /\ roots = 0 /\ hostCalls = 0

\* What the thread does on its own once something was started: JavaScript ends,
\* host functions and tasks return, microtasks run.
Progress ==
  \/ TaskReturns \/ HostReturns \/ RunMicrotask
  \/ ScriptEnds \/ CallbackReturns \/ CallbackThrows
  \/ \E q \in P : CallbackReturnsPromise(q)

Next ==
  \/ Progress
  \/ RunTask \/ EvaluateJavaScript \/ CallTimer \/ CallHost
  \/ CreatePromiseResolver \/ GetDataAsync
  \/ \E p \in P : Resolve(p) \/ Reject(p) \/ Then(p) \/ Catch(p)

Spec == Init /\ [][Next]_vars
\* JavaScript and host functions that run come to an end.
FairSpec == Spec /\ WF_vars(Progress)

-----------------------------------------------------------------------------
Registrations == [src : 0 .. MaxPromises, kind : {"none", "then", "catch", "follow"}, late : BOOLEAN]
Microtasks    == [for : P, v : Settled]
Frames        == [kind : {"task", "host"} \union JavaScript, for : 0 .. MaxPromises,
                  via : {"loop", "run", "call", "job"}]

\* Every variable has its type.
TypeOK ==
  /\ state \in [P -> {"none", "pending"} \union Settled] /\ made \in 0 .. MaxPromises
  /\ reg \in [P -> Registrations] /\ reactions \in [P -> Seq(P)]
  /\ jobs \in Seq(Microtasks) /\ stack \in Seq(Frames)
  /\ scheduled \in Nat /\ resolvers \subseteq P /\ bgQueue \in Seq(P)
  /\ calls \in [P -> Nat] /\ roots \in Nat /\ hostCalls \in Nat

Derived(p)  == reg[p].kind # "none"
Source(p)   == state[reg[p].src]
Applies(p)  == Handles(reg[p].kind, Source(p))
Orphan(p)   == reg[p].late /\ ~Applies(p)
InFlight(p) ==
  \/ \E i \in DOMAIN jobs : jobs[i].for = p
  \/ \E i \in DOMAIN stack : stack[i].kind = "callback" /\ stack[i].for = p

\* A promise from Then or Catch that is pending is so for a reason: its source
\* is pending and knows of it, or its microtask or callback is on the way; or it
\* was asked for when the other outcome was already there, and then it is never
\* settled, as V8Runtime.cpp's TODO suspects.  No resolution is lost on the way.
\* (And every variable has its type.)
PendingForAReason ==
  /\ TypeOK
  /\ \A p \in P : state[p] = "pending" /\ Derived(p) =>
       \/ Source(p) = "pending" /\ Contains(reactions[reg[p].src], p)
       \/ InFlight(p) \/ Orphan(p)

\* An exception that V8 has scheduled came up in a host function that JavaScript
\* called and that has not returned: when that function returns, at the latest,
\* JavaScript gets it.  It never stays behind to surface in a later call of the
\* event loop, or in JavaScript that the host function had nothing to do with.
ScheduledHasCatcher ==
  scheduled # 0 =>
    /\ scheduled \in 2 .. Len(stack)
    /\ stack[scheduled].kind = "host" /\ stack[scheduled - 1].kind \in JavaScript

\* Whether Then or Catch came before or after the outcome: the callback is
\* called at most once, for the outcome it is meant for, with the result there;
\* without it the derived promise takes the result over.  The exception of one
\* that throws (V8Runtime::call) does not outlive the host function that called
\* it: JavaScript gets it when that function returns, unless a callback that the
\* function calls meanwhile gets it from a host function of its own and makes it
\* its own outcome, or a later exception takes its place.
CalledForItsOutcome ==
  /\ ScheduledHasCatcher
  /\ \A p \in P :
       /\ calls[p] <= 1
       /\ reg[p].kind \in {"then", "catch"} /\ calls[p] = 1 => Applies(p)
       /\ Derived(p) /\ state[p] \in Settled /\ (calls[p] = 0 \/ reg[p].kind = "follow")
            => state[p] = Source(p)

\* A callback is never called before one that was registered earlier on the same
\* promise, except from a host function: there Then calls at once while the
\* earlier ones wait for JavaScript to return.
OvertakesOnlyInHostFunctions ==
  [][\A p, q \in P :
       /\ calls'[p] > calls[p] /\ q < p /\ calls[q] = 0 /\ state[q] = "pending"
       /\ reg'[q].src = reg'[p].src /\ reg[q].kind \in {"then", "catch"} /\ Applies(q)
       => reg'[p].late /\ InJs(stack)]_vars

\* What was registered with V8 in time is settled once its source is, or follows
\* a promise that is still pending.
ResultsArrive ==
  \A p \in P :
    (Derived(p) /\ ~reg[p].late /\ Source(p) \in Settled)
      ~> (state[p] \in Settled \/ (reg[p].kind = "follow" /\ Source(p) = "pending"))

=============================================================================
