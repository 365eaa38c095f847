----------------------------- MODULE NodeAgent -----------------------------
(***************************************************************************)
(* AgentImpl of src/baseline_inspector/inspector_agent.cc, from which      *)
(* src/jsiapp/inspector_agent.cpp was ported: how sessions get from the    *)
(* I/O thread, which NodeSocket models, to V8 on the main thread, and      *)
(* answers back.                                                           *)
(*                                                                         *)
(* Unlike the port it guards the queues and the condition variable with    *)
(* one mutex, ends sessions, waits for the frontend on a semaphore, and    *)
(* pumps the platform's tasks in a pause.  The main thread is modelled by  *)
(* its call stack; "loop" is node.cc's event loop, which is external, as   *)
(* V8 is.  The I/O thread's loop never ends (io_thread_req_ keeps it       *)
(* alive), so what follows uv_run in WorkerRunIO is left out.              *)
(***************************************************************************)
EXTENDS Integers, SequencesExt

CONSTANTS
  MaxSessions,  \* bound: how many connections are accepted
  None,         \* no session
  Kinds,        \* what frontends send
  MaxCalls      \* bound: how often the delegate is called

\* "run" is Runtime.runIfWaitingForDebugger, "resume" Debugger.resume,
\* "evaluate" runs JavaScript; the tags are messages of that text.
Tags == {"#connect", "#disconnect"}

ASSUME NodeAgentAssumption ==
  /\ Kinds \subseteq {"run", "resume", "evaluate", "other"} \cup Tags
  /\ MaxSessions \in Nat /\ MaxCalls \in Nat /\ None \notin Nat

VARIABLES
  wait,         \* wait_
  start,        \* start_sem_ was posted
  io,           \* where the I/O thread is
  listening,    \* the server accepts connections
  next,         \* the server's next_session_id_
  accepted,     \* connections that have not asked for a session
  open,         \* the delegate's session_id, when it is connected_
  waiting,      \* the delegate's waiting_
  calls,        \* history: the delegate's calls
  incoming,     \* incoming_message_queue_
  tasks,        \* tasks of the platform for the main thread
  interrupt,    \* V8 was asked for an interrupt and has not served it
  outgoing,     \* outgoing_message_queue_; io_thread_req_ is sent while it is not empty
  stack,        \* the main thread's calls, outermost first
  batch,        \* the local `tasks` of DispatchMessages still to do
  dispatching,  \* dispatching_messages_
  terminated,   \* terminated_
  nested,       \* running_nested_loop_
  state,        \* state_
  session,      \* session_id_ while V8's session_ is set
  shuttingDown, \* shutting_down_
  handled,      \* history: the calls that reached V8
  crashed       \* a CHECK failed

delegateVars == <<open, waiting, calls>>
trigger      == <<io, tasks, interrupt>>
server       == <<listening, next, accepted>>
engine       == <<terminated, nested, state, session, shuttingDown, handled>>
main         == <<stack, batch, dispatching, engine, crashed>>
vars == <<wait, start, delegateVars, incoming, trigger, server, outgoing, main>>

Frames == {"start", "loop", "script", "dispatch", "evaluate", "paused", "leaving",
           "test", "asleep", "pump", "exit"}

Top == Last(stack)
Becomes(f) == Append(Front(stack), f)
Returned   == Front(stack)
Running(f) == Contains(stack, f)

Ids == 0 .. MaxSessions - 1

Init ==
  /\ wait \in BOOLEAN /\ start = FALSE
  /\ io = "starting" /\ tasks = 0 /\ interrupt = FALSE
  /\ listening = FALSE /\ next = 0 /\ accepted = {}
  /\ open = None /\ waiting = wait /\ calls = <<>>
  /\ incoming = <<>>
  /\ outgoing = <<>>
  /\ stack = <<"start">> /\ batch = <<>> /\ dispatching = FALSE
  /\ terminated = FALSE /\ nested = FALSE
  /\ state = "new" /\ session = None /\ shuttingDown = FALSE /\ handled = <<>>
  /\ crashed = FALSE

------------------------------------------------------------------------------
(* The I/O thread: the server *)

WorkerRunIO ==
  /\ io = "starting"
  /\ \/ /\ io' = "idle" /\ listening' = TRUE
        /\ start' = ~wait
        /\ UNCHANGED state
     \/ /\ io' = "ended" /\ state' = "error"
        /\ start' = TRUE
        /\ UNCHANGED listening
  /\ UNCHANGED <<wait, delegateVars, incoming, tasks, interrupt, next, accepted, outgoing,
                 stack, batch, dispatching, terminated, nested, session, shuttingDown, handled, crashed>>

\* One callback of the server's at a time, and each is done with
\* PostIncomingMessage before the next.
Idle == ~crashed /\ io = "idle"

Accept ==
  /\ Idle /\ listening /\ next < MaxSessions
  /\ accepted' = accepted \cup {next}
  /\ next' = next + 1
  /\ UNCHANGED <<wait, start, delegateVars, incoming, trigger, listening, outgoing, main>>

------------------------------------------------------------------------------
(* The I/O thread: PostIncomingMessage *)

\* Under state_lock_.
AppendMessage(m) ==
  /\ Len(calls) < MaxCalls
  /\ calls' = Append(calls, m)
  /\ incoming' = Append(incoming, m)
  /\ io' = IF incoming = <<>> THEN "trigger" ELSE "notify"
  /\ UNCHANGED <<wait, tasks, interrupt, listening, next, outgoing, main>>

\* Mutant of StartSession: connected_ is not looked at.
StartSecondSession(id) ==
  /\ Idle /\ id \in accepted
  /\ AppendMessage([kind |-> "connect", id |-> id])
  /\ open' = id /\ accepted' = accepted \ {id}
  /\ UNCHANGED <<start, waiting>>

\* A connection that is refused does not ask again.
StartSession(id) ==
  /\ Idle /\ id \in accepted /\ open = None
  /\ AppendMessage([kind |-> "connect", id |-> id])
  /\ open' = id /\ accepted' = accepted \ {id}
  /\ UNCHANGED <<start, waiting>>

\* The semaphore is posted before the message is in the queue.
ResumeStartup ==
  /\ Idle /\ open # None /\ waiting
  /\ waiting' = FALSE /\ start' = TRUE
  /\ io' = "resumed"
  /\ UNCHANGED <<wait, open, calls, incoming, tasks, interrupt, server, outgoing, main>>

\* After the first, a run is a message like any other.
MessageReceived(kind) ==
  /\ ~crashed /\ open # None
  /\ io = (IF kind = "run" THEN "resumed" ELSE "idle")
  /\ AppendMessage([kind |-> kind, id |-> open])
  /\ UNCHANGED <<start, open, waiting, accepted>>

EndSession ==
  /\ Idle /\ open # None
  /\ AppendMessage([kind |-> "disconnect", id |-> open])
  /\ open' = None
  /\ UNCHANGED <<start, waiting, accepted>>

\* CallOnForegroundThread, RequestInterrupt and uv_async_send.
RequestDispatch ==
  /\ ~crashed /\ io = "trigger"
  /\ tasks' = tasks + 1 /\ interrupt' = TRUE
  /\ io' = "notify"
  /\ UNCHANGED <<wait, start, delegateVars, incoming, server, outgoing, main>>

\* Broadcast, under state_lock_.
NotifyMessageReceived ==
  /\ ~crashed /\ io = "notify"
  /\ io' = "idle"
  /\ stack' = IF Top = "asleep" THEN Becomes("pump") ELSE stack
  /\ UNCHANGED <<wait, start, delegateVars, incoming, tasks, interrupt, server, outgoing,
                 batch, dispatching, engine, crashed>>

\* The message that ends the server is empty; others are dropped when their
\* session has ended.
WriteCbIO ==
  /\ Idle /\ outgoing # <<>>
  /\ outgoing' = <<>>
  /\ listening' = (listening /\ ~\E i \in DOMAIN outgoing : outgoing[i].to = None)
  /\ UNCHANGED <<wait, start, delegateVars, incoming, trigger, next, accepted, main>>

------------------------------------------------------------------------------
(* The main thread: DispatchMessages *)

\* A call of DispatchMessages, which goes on with `caller`.
CallDispatch(caller) ==
  IF dispatching \/ incoming = <<>>
  THEN stack' = caller /\ UNCHANGED <<incoming, batch, dispatching>>
  ELSE /\ stack' = Append(caller, "dispatch")
       /\ dispatching' = TRUE
       /\ batch' = incoming
       /\ incoming' = <<>>

\* What DispatchMessages sees of a call: a text, which for the delegate's own
\* calls is a tag, and for a frontend's may be one.
Text(m) == CASE m.kind = "connect"    -> "#connect"
             [] m.kind = "disconnect" -> "#disconnect"
             [] OTHER                 -> m.kind

\* What V8 writes goes to session_id_; `for` is whom it is meant for.
Written(to, for) == outgoing' = Append(outgoing, [to |-> to, for |-> for])

\* Mutant of Connect: the session's id is that of the first session.
ConnectKeepsId(m) ==
  /\ Text(m) = "#connect"
  /\ IF state = "accepting"
     THEN /\ state' = "connected"
          /\ session' = (IF handled = <<>> THEN m.id ELSE handled[1].id)
          /\ UNCHANGED crashed
     ELSE crashed' = TRUE /\ UNCHANGED <<state, session>>
  /\ UNCHANGED <<stack, terminated, outgoing>>

Connect(m) ==
  /\ Text(m) = "#connect"
  /\ IF state = "accepting"
     THEN state' = "connected" /\ session' = m.id /\ UNCHANGED crashed
     ELSE crashed' = TRUE /\ UNCHANGED <<state, session>>
  /\ UNCHANGED <<stack, terminated, outgoing>>

Disconnect(m) ==
  /\ Text(m) = "#disconnect"
  /\ IF state = "connected"
     THEN /\ state' = (IF shuttingDown THEN "done" ELSE "accepting")
          /\ session' = None /\ terminated' = TRUE /\ UNCHANGED crashed
     ELSE crashed' = TRUE /\ UNCHANGED <<state, session, terminated>>
  /\ UNCHANGED <<stack, outgoing>>

\* V8 answers each request, and ignores a resume when it is not paused.
ToFrontendSession(m) ==
  /\ Text(m) \notin Tags
  /\ crashed' = (session = None)
  /\ terminated' = (terminated \/ (Text(m) = "resume" /\ Running("paused")))
  /\ stack' = IF Text(m) = "evaluate" /\ session # None THEN Append(stack, "evaluate") ELSE stack
  /\ IF session = None THEN UNCHANGED outgoing ELSE Written(session, m.id)
  /\ UNCHANGED <<state, session>>

DispatchMessage ==
  /\ ~crashed /\ Top = "dispatch" /\ batch # <<>>
  /\ Connect(Head(batch)) \/ Disconnect(Head(batch)) \/ ToFrontendSession(Head(batch))
  /\ handled' = Append(handled, Head(batch))
  /\ batch' = Tail(batch)
  /\ UNCHANGED <<wait, start, delegateVars, incoming, trigger, server, dispatching, nested, shuttingDown>>

DispatchAgain ==
  /\ ~crashed /\ Top = "dispatch" /\ batch = <<>>
  /\ batch' = incoming /\ incoming' = <<>>
  /\ IF incoming = <<>>
     THEN stack' = Returned /\ dispatching' = FALSE
     ELSE UNCHANGED <<stack, dispatching>>
  /\ UNCHANGED <<wait, start, delegateVars, trigger, server, outgoing, engine, crashed>>

------------------------------------------------------------------------------
(* The main thread: from Start to the end *)

\* Mutant of StartReturns: what came before the run is left to later.
StartReturnsAtOnce ==
  /\ ~crashed /\ Top = "start" /\ start
  /\ stack' = IF state = "error" THEN <<"exit">> ELSE <<"loop">>
  /\ state' = IF state = "error" THEN state ELSE "accepting"
  /\ UNCHANGED <<wait, start, delegateVars, incoming, trigger, server, outgoing, batch, dispatching,
                 terminated, nested, session, shuttingDown, handled, crashed>>

\* The rest of Start, after uv_sem_wait.  When there is no server, it joins
\* the I/O thread and gives up.
StartReturns ==
  /\ ~crashed /\ Top = "start" /\ start
  /\ state' = IF state = "error" THEN state ELSE "accepting"
  /\ IF state # "error" /\ wait THEN CallDispatch(<<"loop">>)
     ELSE /\ stack' = IF state = "error" THEN <<"exit">> ELSE <<"loop">>
          /\ UNCHANGED <<incoming, batch, dispatching>>
  /\ UNCHANGED <<wait, start, delegateVars, trigger, server, outgoing,
                 terminated, nested, session, shuttingDown, handled, crashed>>

\* PumpMessageLoop, of the event loop and of the nested one.
RunTask ==
  /\ ~crashed /\ Top \in {"loop", "pump"} /\ tasks > 0
  /\ tasks' = tasks - 1
  /\ CallDispatch(stack)
  /\ UNCHANGED <<wait, start, delegateVars, io, interrupt, server, outgoing, engine, crashed>>

RunScript ==
  /\ ~crashed /\ Top = "loop"
  /\ stack' = Append(stack, "script")
  /\ UNCHANGED <<wait, start, delegateVars, incoming, trigger, server, outgoing, batch, dispatching,
                 engine, crashed>>

InJavaScript == ~crashed /\ Top \in {"script", "evaluate"}

JavaScriptReturns ==
  /\ InJavaScript
  /\ stack' = Returned
  /\ UNCHANGED <<wait, start, delegateVars, incoming, trigger, server, outgoing, batch, dispatching,
                 engine, crashed>>

InterruptCallback ==
  /\ InJavaScript /\ interrupt
  /\ interrupt' = FALSE
  /\ CallDispatch(stack)
  /\ UNCHANGED <<wait, start, delegateVars, io, tasks, server, outgoing, engine, crashed>>

------------------------------------------------------------------------------
(* The main thread: runMessageLoopOnPause *)

\* A break in JavaScript; V8 knows of no break inside a pause.
Pause ==
  /\ InJavaScript /\ session # None /\ ~nested
  /\ stack' = stack \o <<"paused", "test">>
  /\ terminated' = FALSE /\ nested' = TRUE
  /\ UNCHANGED <<wait, start, delegateVars, incoming, trigger, server, outgoing, batch, dispatching,
                 state, session, shuttingDown, handled, crashed>>

\* WaitForDisconnect: at the end of the program, or of FatalException.
WaitForDisconnect ==
  /\ ~crashed /\ stack \in {<<"loop">>, <<"loop", "script">>}
  /\ IF state = "connected"
     THEN /\ shuttingDown' = TRUE /\ Written(None, None)
          /\ stack' = <<"leaving", "test">>
          /\ terminated' = FALSE /\ nested' = TRUE
     ELSE /\ stack' = <<"exit">>
          /\ UNCHANGED <<shuttingDown, outgoing, terminated, nested>>
  /\ UNCHANGED <<wait, start, delegateVars, incoming, trigger, server, batch, dispatching,
                 state, session, handled, crashed>>

\* Mutant of WaitForFrontendMessage: the queue is not looked at.
WaitUnseen ==
  /\ ~crashed /\ Top = "test" /\ ~terminated
  /\ stack' = Becomes("asleep")
  /\ UNCHANGED <<wait, start, delegateVars, incoming, trigger, server, outgoing, batch, dispatching,
                 engine, crashed>>

\* Under state_lock_.
WaitForFrontendMessage ==
  /\ ~crashed /\ Top = "test" /\ ~terminated
  /\ stack' = Becomes(IF incoming = <<>> THEN "asleep" ELSE "pump")
  /\ UNCHANGED <<wait, start, delegateVars, incoming, trigger, server, outgoing, batch, dispatching,
                 engine, crashed>>

\* A condition variable may wake up by itself.
WakeSpuriously ==
  /\ ~crashed /\ Top = "asleep"
  /\ stack' = Becomes("pump")
  /\ UNCHANGED <<wait, start, delegateVars, incoming, trigger, server, outgoing, batch, dispatching,
                 engine, crashed>>

Pumped ==
  /\ ~crashed /\ Top = "pump" /\ tasks = 0
  /\ stack' = Becomes("test")
  /\ UNCHANGED <<wait, start, delegateVars, incoming, trigger, server, outgoing, batch, dispatching,
                 engine, crashed>>

LoopEnds ==
  /\ ~crashed /\ Top = "test" /\ terminated
  /\ stack' = IF stack[1] = "leaving" THEN <<"exit">> ELSE Front(Returned)
  /\ terminated' = FALSE /\ nested' = FALSE
  /\ UNCHANGED <<wait, start, delegateVars, incoming, trigger, server, outgoing, batch, dispatching,
                 state, session, shuttingDown, handled, crashed>>

------------------------------------------------------------------------------
Resumed == io = "resumed" /\ MessageReceived("run")

Post == RequestDispatch \/ NotifyMessageReceived

Serve == DispatchMessage \/ DispatchAgain \/ WaitForFrontendMessage \/ Pumped \/ LoopEnds

Next ==
  \/ WorkerRunIO \/ WriteCbIO \/ Post
  \/ Accept \/ \E id \in Ids : StartSession(id)
  \/ \E kind \in Kinds : MessageReceived(kind)
  \/ ResumeStartup \/ EndSession
  \/ StartReturns \/ RunTask \/ RunScript \/ JavaScriptReturns
  \/ InterruptCallback \/ Pause \/ WaitForDisconnect \/ Serve \/ WakeSpuriously

Spec == Init /\ [][Next]_vars

\* Both threads run, libuv calls back when it was woken, the event loop keeps
\* pumping tasks, V8 serves interrupts, and requests that evaluate return.
\* That scripts return is not assumed.
FairSpec ==
  /\ Spec
  /\ WF_vars(WorkerRunIO) /\ WF_vars(Post) /\ WF_vars(Resumed) /\ SF_vars(WriteCbIO)
  /\ WF_vars(StartReturns) /\ WF_vars(Serve) /\ WF_vars(Top = "pump" /\ RunTask)
  /\ SF_vars(Top = "loop" /\ RunTask)
  /\ WF_vars(Top = "evaluate" /\ JavaScriptReturns)
  /\ WF_vars(InterruptCallback)

------------------------------------------------------------------------------
(* Properties *)

Call  == [kind : Kinds \cup {"connect", "disconnect"}, id : Ids]
Write == [to : Ids \cup {None}, for : Ids \cup {None}]

\* Every variable has its type.
TypeOK ==
  /\ wait \in BOOLEAN /\ start \in BOOLEAN /\ interrupt \in BOOLEAN /\ listening \in BOOLEAN
  /\ waiting \in BOOLEAN /\ dispatching \in BOOLEAN /\ terminated \in BOOLEAN
  /\ nested \in BOOLEAN /\ shuttingDown \in BOOLEAN /\ crashed \in BOOLEAN
  /\ io \in {"starting", "ended", "idle", "resumed", "trigger", "notify"}
  /\ next \in 0 .. MaxSessions /\ accepted \subseteq Ids /\ {open, session} \subseteq Ids \cup {None}
  /\ calls \in Seq(Call) /\ incoming \in Seq(Call) /\ batch \in Seq(Call) /\ handled \in Seq(Call)
  /\ tasks \in 0 .. MaxCalls
  /\ outgoing \in Seq(Write)
  /\ stack \in Seq(Frames)
  /\ state \in {"new", "accepting", "connected", "done", "error"}

\* Every call of the delegate reaches V8 once and in order, whichever of
\* Start, a task, an interrupt and a pause dispatches it; and although V8 does
\* not say whom it answers, and the session may have ended and another begun
\* by then, an answer is addressed to the session that asked.
InOrder ==
  /\ TypeOK
  /\ handled \o batch \o incoming = calls
  /\ \A i \in DOMAIN outgoing : outgoing[i].to = outgoing[i].for

\* A frontend has sent the text of a tag, and it was dispatched.
Forged == \E i \in DOMAIN handled : handled[i].kind \in Tags

\* The CHECKs of DispatchMessages hold, except when a session starts after
\* the last one has ended in a process that is leaving, and except after a
\* frontend has sent the text of a tag: a second "#connect" fails the CHECK of
\* its own branch, and after "#disconnect" the next message, or the end of the
\* session, finds no session to go to.
ChecksHold == crashed => (state = "done" /\ Last(handled).kind = "connect") \/ Forged

\* When Start waited for the frontend, what the frontend sent before it asked
\* to run has reached V8 when the first script starts.
RunComesLast ==
  wait /\ Running("script") =>
    /\ ~waiting
    /\ \A i \in DOMAIN calls :
         (\A j \in 1 .. i : calls[j].kind # "run") => Len(handled) >= i

\* V8, behind the queue, sees what the delegate sees: one session at a time,
\* each with a start, its messages and one end, as long as no frontend has
\* sent the text of a tag: then its session may end or begin again in V8 while
\* it goes on in the delegate.
V8Sees(c) == <<CASE Text(c) = "#connect" -> "start" [] Text(c) = "#disconnect" -> "end" [] OTHER -> "message", c.id>>

V8Sessions == INSTANCE NodeSessions WITH
  open  <- session,
  calls <- [i \in DOMAIN handled |-> V8Sees(handled[i])]

V8SessionsSpec == [][~crashed' /\ ~Forged' => V8Sessions!Next]_<<session, handled>>

\* A request that is paused inside of DispatchMessages, which therefore
\* dispatches nothing until it is resumed: by nobody.
PausedInRequest == \E i, j \in DOMAIN stack : i < j /\ stack[i] = "dispatch" /\ stack[j] = "paused"

\* Every call is handled, also when the main thread is about to wait for it,
\* unless the program ends or is paused in a request, or still waits for the
\* run it was started to wait for; and a program that waits for the frontend
\* to leave ends when it has.
NobodyWaitsForEver ==
  []<>(\/ crashed \/ Top = "exit"
       \/ /\ handled = calls \/ PausedInRequest \/ ~start
          /\ ~(Running("leaving") /\ open = None))

============================================================================
