--------------------------- MODULE InspectorAgent ---------------------------
(***************************************************************************)
(* AgentImpl and V8NodeInspector (src/jsiapp/inspector_agent.cpp): how the *)
(* frontend's messages get from the inspector's I/O thread to the engine   *)
(* on the JavaScript thread.                                               *)
(*                                                                         *)
(* The I/O thread appends a message to incoming_message_queue_ under       *)
(* state_m.  If the queue was empty it also asks V8 for an interrupt and   *)
(* gives the event loop a task, each of which calls DispatchMessages; then *)
(* it notifies the condition variable.  The JavaScript thread dispatches   *)
(* from four places: the wait for the frontend in Start, an interrupt of   *)
(* running JavaScript, a task of the event loop, and the nested loop of a  *)
(* pause.  They nest, so that thread is modelled by its call stack.        *)
(*                                                                         *)
(* V8 is external: JavaScript runs, is interrupted, and pauses when a      *)
(* frontend is connected and it is not paused yet (V8 ignores a break      *)
(* inside a pause).  The server never posts TAG_DISCONNECT: only the       *)
(* destructor of SocketSession::Delegate does, and it is never run, because*)
(* TcpHolder::DisconnectAndDispose (inspector_socket.cc:79) is empty.      *)
(* WaitForDisconnect, FatalException and Stop have no caller.              *)
(*                                                                         *)
(* A tag is a message like any other, told by its text alone: a frontend   *)
(* that sends "#connect" or "#disconnect" is taken for the server.  (Text  *)
(* that is no UTF-8 never becomes a message; see InspectorSocket.)         *)
(***************************************************************************)
EXTENDS Integers, SequencesExt

CONSTANTS
  Kinds,       \* what frontends send
  MaxMessages  \* bound: how many messages are ever posted

(***************************************************************************)
(* "run" is Runtime.runIfWaitingForDebugger, "resume" Debugger.resume or a *)
(* step, "evaluate" a request that runs JavaScript, "connect" the text of  *)
(* TAG_CONNECT, "disconnect" that of TAG_DISCONNECT; "other" is any other. *)
(***************************************************************************)
ASSUME ConstantsAssumption ==
  /\ Kinds \subseteq {"run", "resume", "evaluate", "other", "connect", "disconnect"}
  /\ MaxMessages \in Nat

VARIABLES
  incoming,    \* incoming_message_queue_
  io,          \* where the I/O thread is in PostIncomingMessage
  interrupts,  \* interrupts V8 was asked for and has not served
  loopTasks,   \* DispatchMessages tasks in the event loop's queue
  stack,       \* the JavaScript thread's calls, outermost first
  batch,       \* the local `tasks` of DispatchMessages still to do
  dispatching, \* dispatching_messages_
  waiting,     \* waiting_for_frontend_
  terminated,  \* terminated_
  nested,      \* running_nested_loop_
  state,       \* state_
  session,     \* session_ is set
  posted,      \* history: how many messages were posted
  handled,     \* history: the messages handled, in order
  lost,        \* history: a push met the event loop at its queue
  crashed      \* the process has died

ioVars    == <<io, interrupts, loopTasks, posted, lost>>
engine    == <<waiting, terminated, nested, state, session, handled>>
vars      == <<incoming, ioVars, stack, batch, dispatching, engine, crashed>>

Message == [id : 1 .. MaxMessages, kind : Kinds \cup {"connect"}]

Tags == {"connect", "disconnect"}

Frames == {"start", "spin", "loop", "script", "dispatch", "evaluate",
           "pause", "serve", "look", "falling", "asleep"}

Top == Last(stack)

\* The stack after the innermost call has become f, or returned.
Becomes(f) == Append(Front(stack), f)
Returned   == Front(stack)

(***************************************************************************)
(* The runtime's constructor calls Start, which begins with the wait for a *)
(* first message.                                                          *)
(***************************************************************************)
Init ==
  /\ incoming = <<>>
  /\ io = "idle" /\ interrupts = 0 /\ loopTasks = 0 /\ posted = 0 /\ lost = FALSE
  /\ stack = <<"start", "look">>
  /\ batch = <<>>
  /\ dispatching = FALSE
  /\ waiting = TRUE
  /\ terminated = FALSE /\ nested = FALSE
  /\ state = "new"
  /\ session = FALSE
  /\ handled = <<>>
  /\ crashed = FALSE

------------------------------------------------------------------------------
(* The I/O thread: PostIncomingMessage *)

\* Mutant of AppendMessage: the newest message first.
AppendAtFront ==
  /\ ~crashed
  /\ io = "idle"
  /\ posted < MaxMessages
  /\ posted' = posted + 1
  /\ \E kind \in IF posted = 0 THEN {"connect"} ELSE Kinds :
       incoming' = <<[id |-> posted + 1, kind |-> kind]>> \o incoming
  /\ io' = IF incoming = <<>> THEN "interrupt" ELSE "notify"
  /\ UNCHANGED <<interrupts, loopTasks, lost, stack, batch, dispatching, engine, crashed>>

\* AppendMessage, under state_m.  The server starts its session with
\* TAG_CONNECT; what follows is the frontend's.
AppendMessage ==
  /\ ~crashed
  /\ io = "idle"
  /\ posted < MaxMessages
  /\ posted' = posted + 1
  /\ \E kind \in IF posted = 0 THEN {"connect"} ELSE Kinds :
       incoming' = Append(incoming, [id |-> posted + 1, kind |-> kind])
  /\ io' = IF incoming = <<>> THEN "interrupt" ELSE "notify"
  /\ UNCHANGED <<interrupts, loopTasks, lost, stack, batch, dispatching, engine, crashed>>

RequestInterrupt ==
  /\ ~crashed
  /\ io = "interrupt"
  /\ interrupts' = interrupts + 1
  /\ io' = "task"
  /\ UNCHANGED <<incoming, loopTasks, posted, lost, stack, batch, dispatching, engine, crashed>>

\* Mutant of AddTask: the interrupt alone has to do.
InterruptOnly ==
  /\ ~crashed
  /\ io = "task"
  /\ io' = "notify"
  /\ UNCHANGED <<incoming, interrupts, loopTasks, posted, lost, stack, batch,
                 dispatching, engine, crashed>>

AddTask ==
  /\ ~crashed
  /\ io = "task"
  /\ loopTasks' = loopTasks + 1
  /\ io' = "notify"
  /\ UNCHANGED <<incoming, interrupts, posted, lost, stack, batch, dispatching, engine, crashed>>

\* The event loop's queue is not synchronised (EventLoop!RacyPush).
RacyAddTask ==
  /\ ~crashed
  /\ io = "task"
  /\ Top = "loop"
  /\ io' = "notify"
  /\ lost' = TRUE
  /\ crashed' \in BOOLEAN
  /\ UNCHANGED <<incoming, interrupts, loopTasks, posted, stack, batch, dispatching, engine>>

\* notify_all, without the mutex the waiter holds.
NotifyMessageReceived ==
  /\ ~crashed
  /\ io = "notify"
  /\ io' = "idle"
  /\ stack' = IF Top = "asleep" THEN Returned ELSE stack
  /\ UNCHANGED <<incoming, interrupts, loopTasks, posted, lost, batch, dispatching, engine, crashed>>

------------------------------------------------------------------------------
(* The JavaScript thread: WaitForFrontendMessage *)

\* The queue is looked at under incoming_message_cond_m_, not under state_m.
LookAtQueue ==
  /\ ~crashed
  /\ Top = "look"
  /\ stack' = IF incoming = <<>> THEN Becomes("falling") ELSE Returned
  /\ UNCHANGED <<incoming, ioVars, batch, dispatching, engine, crashed>>

FallAsleep ==
  /\ ~crashed
  /\ Top = "falling"
  /\ stack' = Becomes("asleep")
  /\ UNCHANGED <<incoming, ioVars, batch, dispatching, engine, crashed>>

\* wait() has no predicate: a condition variable may wake up by itself.
WakeSpuriously ==
  /\ ~crashed
  /\ Top = "asleep"
  /\ stack' = Returned
  /\ UNCHANGED <<incoming, ioVars, batch, dispatching, engine, crashed>>

------------------------------------------------------------------------------
(* The JavaScript thread: DispatchMessages *)

\* Mutant of CallDispatch: a second activation on top of the first.
CallUnguarded(caller) ==
  IF incoming = <<>>
  THEN /\ stack' = caller
       /\ UNCHANGED <<incoming, batch, dispatching>>
  ELSE /\ stack' = Append(caller, "dispatch")
       /\ dispatching' = TRUE
       /\ batch' = incoming
       /\ incoming' = <<>>

\* A call of DispatchMessages: it returns to `caller` at once when it is
\* active already or finds no message, and otherwise takes the queue.
CallDispatch(caller) ==
  IF dispatching \/ incoming = <<>>
  THEN /\ stack' = caller
       /\ UNCHANGED <<incoming, batch, dispatching>>
  ELSE /\ stack' = Append(caller, "dispatch")
       /\ dispatching' = TRUE
       /\ batch' = incoming
       /\ incoming' = <<>>

\* TAG_CONNECT; CHECK_EQ aborts.
Connect(m) ==
  /\ m.kind = "connect"
  /\ IF state = "accepting"
     THEN state' = "connected" /\ session' = TRUE /\ UNCHANGED crashed
     ELSE crashed' = TRUE /\ UNCHANGED <<state, session>>
  /\ UNCHANGED <<stack, waiting, terminated>>

\* TAG_DISCONNECT: quitMessageLoopOnPause and session_.reset().
Disconnect(m) ==
  /\ m.kind = "disconnect"
  /\ IF state = "connected"
     THEN state' = "accepting" /\ session' = FALSE /\ terminated' = TRUE /\ UNCHANGED crashed
     ELSE crashed' = TRUE /\ UNCHANGED <<state, session, terminated>>
  /\ UNCHANGED <<stack, waiting>>

\* dispatchMessageFromFrontend: waiting_for_frontend_ stays set exactly when
\* the message IS Runtime.runIfWaitingForDebugger.  V8 ignores a resume that
\* comes outside of a pause; session_ is not tested for null.
ToFrontendSession(m) ==
  /\ m.kind \notin Tags
  /\ waiting' = (waiting /\ m.kind = "run")
  /\ terminated' = (terminated \/ (m.kind = "resume" /\ nested))
  /\ stack' = IF m.kind = "evaluate" THEN Append(stack, "evaluate") ELSE stack
  /\ crashed' = ~session
  /\ UNCHANGED <<state, session>>

DispatchMessage ==
  /\ ~crashed
  /\ Top = "dispatch"
  /\ batch # <<>>
  /\ \/ Connect(Head(batch))
     \/ Disconnect(Head(batch))
     \/ ToFrontendSession(Head(batch))
  /\ handled' = Append(handled, Head(batch))
  /\ batch' = Tail(batch)
  /\ UNCHANGED <<incoming, ioVars, dispatching, nested>>

\* Mutant of DispatchAgain: one batch, no look at what came in meanwhile.
DispatchOnce ==
  /\ ~crashed
  /\ Top = "dispatch"
  /\ batch = <<>>
  /\ stack' = Returned
  /\ dispatching' = FALSE
  /\ UNCHANGED <<incoming, ioVars, batch, engine, crashed>>

\* `while (!tasks.empty())`: the next batch, or the end of the activation.
DispatchAgain ==
  /\ ~crashed
  /\ Top = "dispatch"
  /\ batch = <<>>
  /\ batch' = incoming
  /\ incoming' = <<>>
  /\ IF incoming = <<>>
     THEN stack' = Returned /\ dispatching' = FALSE
     ELSE UNCHANGED <<stack, dispatching>>
  /\ UNCHANGED <<ioVars, engine, crashed>>

------------------------------------------------------------------------------
(* The JavaScript thread: Start *)

\* The wait is over: state_ = kAccepting.
StartAccepting ==
  /\ ~crashed
  /\ Top = "start"
  /\ state' = "accepting"
  /\ stack' = Becomes("spin")
  /\ UNCHANGED <<incoming, ioVars, batch, dispatching, waiting, terminated, nested,
                 session, handled, crashed>>

StartSpins ==
  /\ ~crashed
  /\ Top = "spin"
  /\ waiting
  /\ CallDispatch(stack)
  /\ UNCHANGED <<ioVars, engine, crashed>>

\* Mutant of StartReturns: the wait for the frontend is left out.
StartReturnsAtOnce ==
  /\ ~crashed
  /\ Top = "spin"
  /\ stack' = Becomes("loop")
  /\ crashed' = ~session
  /\ UNCHANGED <<incoming, ioVars, batch, dispatching, engine>>

\* schedulePauseOnNextStatement, on session_ without a test.
StartReturns ==
  /\ ~crashed
  /\ Top = "spin"
  /\ ~waiting
  /\ stack' = Becomes("loop")
  /\ crashed' = ~session
  /\ UNCHANGED <<incoming, ioVars, batch, dispatching, engine>>

------------------------------------------------------------------------------
(* The JavaScript thread: the event loop and the engine *)

RunDispatchTask ==
  /\ ~crashed
  /\ Top = "loop"
  /\ loopTasks > 0
  /\ loopTasks' = loopTasks - 1
  /\ CallDispatch(stack)
  /\ UNCHANGED <<io, interrupts, posted, lost, engine, crashed>>

\* A script, a timer's handler.
RunScript ==
  /\ ~crashed
  /\ Top = "loop"
  /\ stack' = Append(stack, "script")
  /\ UNCHANGED <<incoming, ioVars, batch, dispatching, engine, crashed>>

InJavaScript == Top \in {"script", "evaluate"}

JavaScriptReturns ==
  /\ ~crashed
  /\ InJavaScript
  /\ stack' = Returned
  /\ UNCHANGED <<incoming, ioVars, batch, dispatching, engine, crashed>>

\* V8 serves an interrupt by calling InterruptCallback.
InterruptCallback ==
  /\ ~crashed
  /\ InJavaScript
  /\ interrupts > 0
  /\ interrupts' = interrupts - 1
  /\ CallDispatch(stack)
  /\ UNCHANGED <<io, loopTasks, posted, lost, engine, crashed>>

------------------------------------------------------------------------------
(* The JavaScript thread: runMessageLoopOnPause *)

\* "pause" is the test of terminated_, "serve" the call of DispatchMessages.
RunMessageLoopOnPause ==
  /\ ~crashed
  /\ InJavaScript
  /\ session /\ ~nested
  /\ stack' = Append(stack, "pause")
  /\ terminated' = FALSE
  /\ nested' = TRUE
  /\ UNCHANGED <<incoming, ioVars, batch, dispatching, waiting, state, session, handled, crashed>>

PauseWaits ==
  /\ ~crashed
  /\ Top = "pause"
  /\ ~terminated
  /\ stack' = Becomes("serve") \o <<"look">>
  /\ UNCHANGED <<incoming, ioVars, batch, dispatching, engine, crashed>>

PauseServes ==
  /\ ~crashed
  /\ Top = "serve"
  /\ CallDispatch(Becomes("pause"))
  /\ UNCHANGED <<ioVars, engine, crashed>>

PauseEnds ==
  /\ ~crashed
  /\ Top = "pause"
  /\ terminated
  /\ stack' = Returned
  /\ terminated' = FALSE
  /\ nested' = FALSE
  /\ UNCHANGED <<incoming, ioVars, batch, dispatching, waiting, state, session, handled, crashed>>

------------------------------------------------------------------------------
Post == RequestInterrupt \/ AddTask \/ RacyAddTask \/ NotifyMessageReceived

Wait == LookAtQueue \/ FallAsleep

Serve == DispatchMessage \/ DispatchAgain \/ PauseWaits \/ PauseServes \/ PauseEnds

Start == StartAccepting \/ StartSpins \/ StartReturns

Next ==
  \/ AppendMessage \/ Post
  \/ Wait \/ WakeSpuriously
  \/ Serve \/ Start
  \/ RunDispatchTask \/ RunScript
  \/ JavaScriptReturns \/ InterruptCallback \/ RunMessageLoopOnPause

Spec == Init /\ [][Next]_vars

(***************************************************************************)
(* Both threads are scheduled, the event loop keeps taking tasks, and V8   *)
(* serves interrupts of JavaScript that runs.  That a script returns is    *)
(* not assumed; a request that evaluates JavaScript does return.           *)
(***************************************************************************)
FairSpec ==
  /\ Spec
  /\ WF_vars(Post)
  /\ WF_vars(Wait \/ Serve \/ Start)
  /\ WF_vars(Top = "evaluate" /\ JavaScriptReturns)
  /\ SF_vars(RunDispatchTask)
  /\ WF_vars(InterruptCallback)

------------------------------------------------------------------------------
(* Properties *)

\* Every variable has its type.
TypeOK ==
  /\ incoming \in Seq(Message) /\ batch \in Seq(Message) /\ handled \in Seq(Message)
  /\ io \in {"idle", "interrupt", "task", "notify"}
  /\ interrupts \in Nat /\ loopTasks \in Nat
  /\ stack \in Seq(Frames) /\ stack # <<>>
  /\ posted \in 0 .. MaxMessages
  /\ state \in {"new", "accepting", "connected"}
  /\ dispatching \in BOOLEAN /\ waiting \in BOOLEAN /\ terminated \in BOOLEAN
  /\ nested \in BOOLEAN /\ session \in BOOLEAN /\ lost \in BOOLEAN /\ crashed \in BOOLEAN

Calls(frames) == {i \in DOMAIN stack : stack[i] \in frames}

\* The flags tell what is on the stack, however dispatching, JavaScript,
\* interrupts and pauses nest: one DispatchMessages at most, one pause at
\* most, and only an active dispatch holds messages.
FlagsMatchStack ==
  /\ dispatching <=> Calls({"dispatch"}) # {}
  /\ nested <=> Calls({"pause", "serve"}) # {}
  /\ \A i, j \in Calls({"dispatch"}) : i = j
  /\ \A i, j \in Calls({"pause", "serve"}) : i = j
  /\ batch # <<>> => dispatching

\* The I/O thread asks for a dispatch only when it finds the queue empty, so a
\* message behind another relies on the request made for the first: until the
\* queue is taken, an interrupt and (unless the event loop lost it) a task are
\* due, however many of them other dispatches have used up.
DispatchIsComing ==
  incoming # <<>> /\ ~crashed =>
    \/ dispatching
    \/ /\ io = "interrupt" \/ interrupts > 0
       /\ io \in {"interrupt", "task"} \/ loopTasks > 0 \/ lost

\* The server's own tag is its first message: a later one is a frontend's.
Forged(m) == m.kind \in Tags /\ m.id > 1

\* The CHECK_EQs and the uses of session_ (inspector_agent.cpp:480, 651, 870,
\* 877) hold, but for two things that bring the process down: the
\* unsynchronised push into the event loop, and a message of the frontend with
\* the text of a tag, which connects twice or resets session_ for those behind.
ChecksHold == crashed => lost \/ \E i \in DOMAIN handled : Forged(handled[i])

\* MessagePipe as seen here: a pipe that does not break.
Pipe == INSTANCE MessagePipe WITH
  Messages  <- Message,
  waiting   <- batch \o incoming,
  delivered <- handled,
  broken    <- FALSE

\* The messages are handled in the order in which they were posted, each once,
\* whichever of the four places dispatches it.
PipeSpec == Pipe!Spec

\* A pause that V8 entered from inside DispatchMessages.
PausedInRequest == nested /\ dispatching /\ Min(Calls({"dispatch"})) < Min(Calls({"pause", "serve"}))

\* Every message is handled, except in the situations in which it is not: the
\* process died, the event loop lost the task and is idle, a wait was entered
\* after the notification, or a request of the frontend is paused.  (At most
\* MaxMessages are posted: all of them are handled in the end.)
MessagesAreHandled ==
  []<>(\/ Len(handled) = posted
       \/ crashed
       \/ lost /\ Top = "loop"
       \/ Top = "asleep" /\ io = "idle"
       \/ PausedInRequest)

\* "Resumes JavaScript execution." (concatenated_protocol.json:340, of
\* Debugger.resume): a pause for which a resume is queued ends.
ResumeResumes ==
  (nested /\ \E i \in DOMAIN incoming : incoming[i].kind = "resume") ~> (~nested \/ crashed)

\* "node should wait for the run callback from the remote client and initiate
\* its startup" (inspector_agent.cpp:973): the event loop goes on only after
\* Runtime.runIfWaitingForDebugger.
StartupWaitsForRun ==
  stack[1] = "loop" => \E i \in DOMAIN handled : handled[i].kind = "run"
==============================================================================
