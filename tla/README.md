# jsiapp in TLA+

A verification development of `jsiapp`: a Windows program (`src/jsiapp`) that
hosts V8 behind React Native's JSI, gives scripts timers, promises and host
functions, and lets Chrome DevTools debug them through an inspector ported from
Node.js; and of the Node.js original kept beside it (`src/baseline_inspector`).

The modules model the program as its source is, its missing locks and
uninitialised members included. TLC checks them on small instances; TLAPS
proves the results listed under *Theorems* for every value of the constants.

    tlc -config EventLoop.cfg MCEventLoop      # a run
    tlapm EventLoopProofs.tla                  # the proofs of a component

## 1. The system

`jsiapp.vcxproj` builds the `.cpp`/`.cc` files of `src/jsiapp` except
`WsServer.cpp` and `inspector_socket_server - Copy.cpp`; `src/baseline_inspector`
is the libuv code the port to Boost.Asio started from.

**Threads.** The main thread (`main.cpp`) constructs `ScriptHost`, pushes tasks
and joins. The *JavaScript thread* (`EventLoop::threadProc`) runs all
JavaScript and owns the timers. The *I/O thread* (detached in
`AgentImpl::Start`) runs the inspector's `io_service`. A background thread
(`BgEventLoop`) exists in the code and is never started. Node's inspector has a
main thread and an I/O thread.

| Component | State | Operations | Talks to |
|---|---|---|---|
| event loop (`eventloop.*`) | `_timerEvents`, `_taskQueue`, `_currentTimerId` | `iteration`, `add`, `addPeriodic`, `cancel` | tasks pushed by other threads without a lock |
| script host (`scripthost.*`, `main.cpp`) | the runtime, the loops | `setTimeout` and relatives, `runScript`, `getDataAsync` | event loop, runtime |
| background loop (`bgeventloop.cpp`) | queue of items | `add`, `iteration` (never run) | event loop |
| TCP connection (`tcp.*`) | `outQueue`, `writing_`, `messageToWrite_` | accept, read loop, `write_async`, `do_write` | the socket; written to by both threads |
| inspector agent (`inspector_agent.*`) | incoming queue, dispatch, start-up and pause flags | `PostIncomingMessage`, `DispatchMessages`, `Start`, `runMessageLoopOnPause`, `Write` | event loop, V8, server |
| socket server and protocol (`inspector_socket*`, `base64.h`) | handler, parser, buffers, the session | HTTP, upgrade, frames, `Send` | TCP connection, agent |
| V8 runtime (`V8Runtime.*`) | host-object trackers, V8 handles | evaluate, call, host objects and functions, promises, destructor | V8, JSI |
| JSI (`jsi.*`, `jsi-inl.h`) | owned pointer values | move, copy, steal, assign, destroy | runtime |
| conversions (`JSIDynamic.*`, UTF, delays) | none | values, texts, numbers to and fro | JSI, inspector |
| Node's inspector (`baseline_inspector`) | connections and sessions, closing, two queues | accept, frames, close, `Stop`, `Start`, `WaitForDisconnect`, pauses | libuv, V8 |

What makes each correct, and what is hard: four threads' worth of
interleavings with one properly used mutex; callbacks that re-enter
(`clearTimeout` in a handler, interrupts and pauses inside `DispatchMessages`,
host functions inside callbacks); a condition variable whose predicate is
guarded by another mutex; partial reads and failed sends; several owners of a
JavaScript object, three of whom may release it; closing that takes several
callbacks. Nothing is persisted, and there is no retry or timeout protocol
besides the timers. `PROJECT.json` lists each hazard at its line with the
property that would catch it.

## 2. Modules

| Module | Models | Runs and proofs |
|---|---|---|
| `EventLoop` | `eventloop.*`, the timer functions of `scripthost.cpp` | `event_loop`; `EventLoopProofs` |
| `TcpConnection` | `tcp.*` | `tcp_connection`; `WireProofs` |
| `InspectorAgent` | `inspector_agent.cpp`: posting, waiting, dispatching, start-up, pauses | `inspector_agent`, `inspector_resume`, `inspector_startup`; `InspectorAgentProofs` |
| `InspectorSocket` | `inspector_socket.cc` and the session of `inspector_socket_server.cpp` | `inspector_socket`, `inspector_socket_cut`; `InspectorSocketProofs` |
| `JsiHandles` | `jsi.*`, and handles, host objects and destructor of `V8Runtime.cpp` | `jsi_handles`; `JsiHandlesProofs` |
| `Promises` | calls, exceptions and promises of `V8Runtime.cpp`, `getDataAsync`, the background queue | `promises`; `PromisesProofs` |
| `WireCodecs` | UTF-8/16, base64, frames, hosts, header fields, paths | `codecs`; `WireProofs` |
| `ValueConversions` | `JSIDynamic.cpp` | `codecs` |
| `DelayConversion` | scripts' delays on their way to the clock (`scripthost.cpp`, `eventloop.h`) | `codecs`; `WireProofs` |
| `Codecs` | abstract: what `WireCodecs` and `DelayConversion` promise | `codecs`; `WireProofs` |
| `Conversions` | abstract: the same, and what `ValueConversions` promises | `codecs` |
| `NodeSocket` | `baseline_inspector`: sockets and server | `node_socket`; `NodeSocketProofs` |
| `NodeAgent` | `baseline_inspector`: the agent | `node_agent`; `NodeAgentProofs` |
| `NodeSessions` | abstract: one session at a time, each started and ended once | implemented by `NodeSocket` and by `NodeAgent` |
| `MessagePipe` | abstract: a FIFO pipe that may break | implemented by `TcpConnection` and by `InspectorAgent` |
| `MC...` | the instances TLC checks | |

The components meet where the abstract modules are: what `InspectorSocket`
posts is what `InspectorAgent` accepts (its `ChecksHold` rests on the
`SessionThenFramesInOrder` of the socket: the session is posted before any
frame; but a frame may have the text of a tag), and what it writes is what `TcpConnection` queues. In Node's inspector the delegate's calls
that `NodeSocket` makes are those that `NodeAgent` takes, and `NodeSessions` is
what is said of them on either side.

Operators named "Mutant of X" are defective variants of a definition. No
specification uses them; substituted for X they make a named property fail,
which shows that the property depends on the code (`PROJECT.json`, "mutants").

### EventLoop

`timers` is the multiset `_timerEvents` as a sequence; `Emplace` is
`multiset::emplace` with `operator<` of `TimerEvent` (an upper bound among equal
keys). `pc` is the JavaScript thread: `poll` at the task queue, `task`,
`timers` at the timer check, `handler` inside a callback. One action per step
of `iteration()`: `RunTask`, `TaskReturns`, `TasksDrained`, `NoTimerDue`,
`FireTimer` (remembers the entry in `frame`, the locals of `iteration()`),
`TimerReturns` (puts an interval back unless `_currentTimerId` was zeroed).
`SetTimeout` (with delay 0, `setImmediate`), `SetInterval` and `ClearTimeout`
are possible inside a task or handler. `PushTask` is a push by another thread;
`RacyPush` is the same push while the loop is at the queue, whose `std::queue`
has no lock: the task may vanish or the process die. `_currentTimerId` has no
initialiser but belongs to a static object, hence starts as zero. Delays are
any integers: `setInterval(f, -1)` casts the number as it is
(`scripthost.cpp:211`), and each start puts such an interval back *earlier* than
before (`eventloop.cpp:75`), so that it stays first and no other timer is ever
looked at. Nothing bounds the starts of an interval whose delay is zero or
negative within one reading of the clock, so its entry moves back in time no
further than the bound `MinDue`, and starts that leave it where it is are not
counted (`MovesOn`).

### TcpConnection

`pc[t]` is where thread `t` is between `write_async`, the critical section of
`do_write` and its `async_send`. `writing` starts with either value, because
`writing_` is initialised nowhere and the object is allocated with `new`.
`broken` is history: the garbage was true, or a send failed, after which
`writing_` stays set. A read error ends the process. A short send counts as
completed, as in the code.

### InspectorAgent

`stack` is the JavaScript thread's call stack; its last element says what comes
next: `look`, `falling`, `asleep` inside `WaitForFrontendMessage`; `start`,
`spin` inside `Start`; `dispatch` inside `DispatchMessages`; `pause` and
`serve` inside `runMessageLoopOnPause`; `script` and `evaluate` for JavaScript;
`loop` for the idle event loop. `falling` is the window between the test of the
queue and the wait. `io` follows `PostIncomingMessage`. V8 is external: it runs
JavaScript, serves interrupts, and pauses when a session exists and it is not
paused already. The tags are in band: `DispatchMessages` tells them by their
text (`inspector_agent.cpp:864-888`), so among a frontend's messages are
`"connect"` and `"disconnect"`, the texts of the two tags.

### InspectorSocket

`net` is what clients have sent and nobody has read, as halves of numbered
items, so that a read may end inside a request or a frame. `HttpOnData` is
`HttpHandler::OnData` up to its loop over `events`, whose turns are `OnHttpGet`,
`Refuse` and `OnSocketUpgrade`; `WsOnData` starts the loop over `buf`, whose
turns are the results of `ParseWsFrames`. `Decode` gives the results
`decode_frame_hybi17` can have; what it does octet by octet is in `WireCodecs`.
A whole text frame is posted (`FrameOk`), or is no UTF-8 and ends the process
(`FrameThrows`: `Utf8ToUtf16` throws on the I/O thread below
`PostIncomingMessage`, and nobody catches it).
`Send` is the agent's. `llhttp` is external: it keeps its state from read to
read, stays failed, and pauses at an upgrade.

### JsiHandles

`slot` has what each C++ variable holds (a `Pointer`, a `Value`, or nothing),
`pv` what each `PointerValue` refers to, `heap` and `prop` the JavaScript
objects. Actions are the special members and getters of `jsi.h` (`MovePointer`,
`AssignPointer`, `StealPointer`, `CopyValue`, ...), those of `V8Runtime` that
make handles, and the life of host objects: `CreateHostObject` (with the branch
in which V8 makes no object), `EmbedderDrops`, `CollectGarbage` with the
finalizers, `DestroyRuntime` with the walk over the trackers. Moved-from
pointers may only be assigned to, copied and destroyed; the embedder destroys
the runtime only when it has no handles left, as `jsi.h` asks. V8's collector
is external: it reclaims what is unreachable, in one step.

### Promises

`stack` is the thread's stack of C++ and JavaScript frames, `reactions` and
`jobs` are V8's, `reg` says where a promise comes from. `Then(p)` and `Catch(p)`
are the three branches of the code: pending (V8 is told), settled as wanted
(the function is called at once, before the promise it returns exists for
anybody else), settled otherwise (`MakeOrphan`: a promise nobody resolves).
`CallbackThrows` has both ways an exception takes: a rejected promise in a
microtask, and in `V8Runtime::call`, which has no `TryCatch`, an exception that
is scheduled if there is JavaScript below and dropped otherwise. `scheduled` is
the height of the host function in which it came up: that function goes on and
may make further calls, and the exception is thrown in JavaScript when it
returns, or already when a host function returns to one of the callbacks it
calls meanwhile. So one callback's exception can become the outcome of the next;
`CalledForItsOutcome` says how far it gets, which is to the return of that host
function and no further.

### WireCodecs, ValueConversions, DelayConversion, Codecs, Conversions

Operators with the case distinctions of the code. Text is a sequence of UTF-16
units or of bytes, as numbers, and `Written` is what one turn of `utf16toUTF8`
writes; base64 is a sequence of the values of `unbase64_table`, `V` its macro
and `Turn` one turn of `base64_decode_fast`; a frame is the octets of its header
and how many of all of its octets are there, of which `ParseWsFrames` takes as
many as `bytes_consumed`, an `int`, says (`AsInt`), and `compressed` is known
from the first; header fields are a sequence of names and values, in the order
they come, and `Headers` is what `OnHeaderField` and `OnHeaderValue` make of
them, values of one spelling joined; a host is a sequence of the
characters the code looks for. Loops are recursive functions, so that they can
be proved about; only values, which are trees, take a recursive operator, and
have a module of their own for that reason. Their texts and names are sequences
of characters, among which U+0000, at which a key is cut, surrogates that stand
alone, which UTF-8 loses, and digits, which make a name an index. No code of the
application calls the decoder of `base64.h`; it is modelled because the header
has it. `Codecs` has one input per state,
and what comes out is compared with what was meant; `Conversions` adds values.

### NodeSocket and NodeAgent

`k[c]` has the fields of one `InspectorSocket` and its `SocketSession`.
`uv_close`, the writes it cancels and its callback are separate steps
(`Closing`, `WriteDone`, `CloseDone`), between which reads and writes of others
come. A read ends anywhere: `ReadPart` hands over the beginning of a frame and
leaves its `"rest"`, and `buf` is what the buffer has of it. The beginning of a
text frame waits there (`PartOfFrame`) or passes for all of it (`CutTextFrame`),
whereupon more is removed than the buffer has and the process is taken to have
died. A refusal leaves the parsed path and key in place (`parser` is "stale"):
the next request's are appended to them, so that a client that tries again on the
same connection is hardly ever answered and never upgraded. `closer` is `close_count_`, or -1 without a `Closer`. In `NodeAgent` the
main thread is a stack as in `InspectorAgent`; `io` follows the I/O thread
through `PostIncomingMessage` and the resumption of start-up; `session`,
`handled` is what V8 has seen. `kind` says what a call was meant as, and `Text`
what the code compares: a tag of the delegate's and a frontend's message of the
same text are the same to it. libuv, the platform's task queue and `node.cc` are external.

## 3. Runs

| Run | Properties | What it shows | Bounds |
|---|---|---|---|
| `event_loop` | `FirstDueFirst`, `ClearedStaysCleared`, `NoTimerLost`, `OnSchedule`, `EverythingIsServed` | order, completeness and schedule of timers under clears from handlers, late loops and racing pushes; tasks are served, and due timers too unless an interval with a zero or negative delay hides them | 3 timers, delays {-1, 0, 1}, intervals back to -1, 2 tasks, clock to 3 |
| `tcp_connection` | `OneSendAtATime`, `EverythingIsSent`, `PipeSpec` | two threads and completions share one buffer and one flag; implements `MessagePipe` | 8 messages |
| `inspector_agent` | `FlagsMatchStack`, `DispatchIsComing`, `ChecksHold`, `PipeSpec`, `MessagesAreHandled` | however the dispatching places nest, messages are handled once and in order and a queued one has a dispatch coming; they are handled except in four named situations; no `CHECK` fails and no missing session is used unless a frontend sends the text of a tag | 4 messages of all kinds |
| `inspector_socket` | `SessionThenFramesInOrder`, `AnsweredInOrder`, `DiesOfCutResetOrGarble`, `EverythingIsServed` | any client, any cut of the stream into reads: replies and session never mix, requests are answered in order; only a cut frame, a reset handler or text that is no UTF-8 ends the process | 4 items of 9 kinds, 1 message of the agent |
| `jsi_handles` | `HandlesAreSound`, `ReachableIsThere`, `ReleasedOnce`, `NothingOutlivesTheRuntime` | any sequence of handle operations, collections and the runtime's end | 2 variables, 1 member, 1 plain object, 1 host object, 1 host function, 2 pointer values |
| `promises` | `PendingForAReason`, `CalledForItsOutcome`, `OvertakesOnlyInHostFunctions`, `ResultsArrive` | no result is lost on its way, callbacks are called once and for their outcome, a scheduled exception does not outlive its host function | 3 promises, 4 frames, 3 starts, 3 host calls |
| `codecs` | `TextsSurvive`, `FramesSurvive`, `RequestsAnswered`, `ValuesSurvive`, `DelaysAreKept` | each conversion gives what was meant, except for exactly the stated inputs | see below |
| `node_socket` | `ConnectedIsConnected`, `NothingAfterClose`, `DiesOfHasteOrCut`, `SessionsSpec`, `ConnectionsEnd` | sessions and connections agree, each ends once, however frames are cut into reads; only a client that goes on while it is refused, or a part of a frame that passes for the whole, ends the process; implements `NodeSessions` | 2 clients, 3 items, 1 message |
| `node_agent` | `InOrder`, `ChecksHold`, `RunComesLast`, `V8SessionsSpec`, `NobodyWaitsForEver` | calls reach V8 once and in order, answers go to who asked, nobody waits for ever; implements `NodeSessions`, and no `CHECK` fails, unless a session starts in a process that is leaving or a frontend sends the text of a tag | 2 sessions, 4 calls |
| `inspector_resume` (violation) | `ResumeResumes` | a resume notified before the wait began is slept through | 3 messages |
| `inspector_startup` (violation) | `StartupWaitsForRun` | start-up goes on without `runIfWaitingForDebugger` | 3 messages |
| `inspector_socket_cut` (violation) | `FramesSurviveCuts` | a frame cut by a read is lost | 3 items |

*Why the bounds are enough.* Three timers give one that runs, one it clears or
ties with, and one bystander; delays -1, 0 and 1 with the clock at 3 give ties,
late starts, catch-up bursts and intervals that go back in time. Eight messages on a connection are more than
its two threads and one completion can have between them, so that every mix of
new and waiting messages comes up; four for the agents are the
session, a request that runs JavaScript, and two that arrive meanwhile. A
request, the upgrade and two frames, each cut anywhere, fill a socket. Two
pointer values and three slots give every pair of owners, with self-assignment
and one slot that holds neither; symmetry is taken over variables of the
embedder and addresses, which nothing distinguishes. Three promises are a
source, a derived one and one a callback returns or that is derived from the
derived. `codecs` takes the values at which a case of the code begins or ends:
UTF-16 units around each boundary of the encodings in texts of up to 3, frame
lengths around 125, 255 and 65535 with 0 to 14 octets or nearly all of them
there, an `int` that ends just above the second of these (`IntLimit` 65550 for
2^31), hosts of up to 5 characters, up to 3 header fields whose names are equal,
equal but for their case, or begin alike, names with U+0000, a lone surrogate or a digit, integers around the precision of a double
(`Precision` 64 for 2^53) and clock readings around the end of their range
(`Limit` 512 for 2^63, `Scale` 10 for 10^6, the overflow being modelled with that width).

*Deadlock* is checked for `jsi_handles` and `codecs` and is switched off
elsewhere: those instances end when their bounds are used up, and the program
may die (`crashed`, `aborted`).

*Fairness.* Weak fairness of what the code runs in a loop of its own, and of
the environment finishing what it was asked for, never of clients, scripts or
the frontend: `EventLoop`: `while (true) iteration()` and the clock, with tasks
and handlers assumed to return. `TcpConnection`: threads inside `write_async`,
and the operating system completing or failing a send. `InspectorSocket`: the
read loop. `InspectorAgent`, `NodeAgent`: each thread inside the inspector's
code, requests that evaluate (not scripts) return, V8 serves interrupts, and
the event loop keeps taking dispatch tasks although scripts run between them
(strong fairness: each iteration drains the task queue, `PumpMessageLoop` takes
tasks in order). `NodeAgent`: libuv calls back when it was woken. `NodeSocket`:
libuv completes writes and closes. `Promises`: what runs comes to an end.
A property `[]<>P` says that each item is served because the items are bounded
in number and served ones stay so.

*Findings* (`PROJECT.json`, "findings"): the lost notification; the inverted
test for `runIfWaitingForDebugger`; frames cut by a read, which are all those
above 8192 bytes.

*Met while modelling*, with the code as cause; the models have them where they
are in reach, and the properties name them as exceptions:

- `writing_` is not initialised (`tcp.h:62`): with garbage true, nothing is
  ever sent; a failed send has the same effect. A short send is not continued (`tcp.cpp:170`).
  The port is ignored (`tcp.h:38`). A debugger that disconnects ends the
  process (`tcp.cpp:90`).
- A pause inside a request spins and cannot be resumed
  (`inspector_agent.cpp:854`: `DispatchMessages` does not nest). The I/O thread
  is started before `port_` and `wait_` are assigned (`inspector_agent.cpp:633`).
- The tags of the agents are in band (`inspector_agent.cpp:869`,
  `baseline_inspector/inspector_agent.cc:646`): a frame with the text
  `#connect` fails a `CHECK_EQ`, and one with `#disconnect` takes V8's session
  away from the messages behind it.
- Text that is no UTF-8 ends the process (`inspector_agent.cpp:194`).
- `bytes_consumed` is an `int` (`inspector_socket.cc:395`): of a frame of 2^31
  bytes or more something else is removed from the buffer. The first byte of a
  compressed frame ends the connection, whatever else is there (`:333`, `:479`).
- Header fields of one spelling are joined (`inspector_socket.cc:610`); of two
  spellings, and of a name and a longer one that starts with it, neither is found (`:648`).
- A key is cut at U+0000 (`JSIDynamic.cpp:43`), a name that is an index fails
  an assertion (`:79`), and a surrogate that stands alone does not survive.
- A bad frame resets `tcp_` and the read loop goes on with it (`inspector_socket.cc:412`).
- An exception of a callback the event loop calls is told to nobody, and one of
  a callback that a host function calls may be thrown in the next callback it
  calls (`V8Runtime.cpp:893`). A `Then` or `Catch` for the outcome that is already
  missed makes a promise nobody settles. `getDataAsync` never settles: the background thread is not started
  (`bgeventloop.cpp:25`).
- Setting a property of a host object, or enumerating it, casts the callback's
  undefined data to a proxy (`V8Runtime.cpp:103`). A host object that keeps a
  handle to its own wrapper is a root of itself (`V8Runtime.cpp:732`).
  `inspectorAgent_` outlives the isolate (`V8Runtime.cpp:437`).
- Node's: a part of a text frame is taken for the whole when no more of it is missing
  than the bytes before its mask, or when less than four bytes are there
  (`baseline_inspector/inspector_socket.cc:238`): the payload
  is read from behind the buffer and more erased than it has (`:54`, from `:352`);
  `uv_run` never returns, because `io_thread_req_` keeps the loop
  alive, so that `Stop`'s join would block; an empty text frame ends the
  session; a close frame stays in the buffer and is met again; reading goes on
  while a refusal is written, and what is read then frees the connection twice;
  a server-initiated close followed by end of file without a close frame leaves
  the connection; a connect that follows the last disconnect of a process that
  is leaving fails `CHECK_EQ(State::kAccepting)`.

## 4. Theorems

All hold for every value of the constants, under the assumptions named in the
modules (bounds are naturals, sorts are disjoint).

`EventLoopProofs`: `TypeCorrect`, `OneEntryAlways`, `ClearedForGood`,
`NoTimerEverLost`, `OrderedAlways`, `OnScheduleAlways`. The invariants are not
inductive by themselves: while an interval's handler runs, its place is held by
`_currentTimerId` and the locals of `iteration()`. `LoopInv` ties these
together: ids in the queue and in `currentTimerId` are different and below
`nextTimerId`, the frame has the schedule of the running timer, and each
created timer is in one of the places `NoTimerLost` lists. What the queue
operations do is stated once (`EmplaceProperties`, `EraseProperties`).

`WireProofs` has what goes over the wire, sent and encoded. Of `TcpConnection`:
`TypeCorrect`, `OneSendAlways`, `ImplementsPipe` (`Spec => PipeSpec`). `TokenInv`
reads `writing_` as a token: when it is set and
the connection is not broken, exactly one of a thread with a taken message, the
send in flight and the completion handler holds it. The refinement follows,
because then at most one message is between queue and wire.

Of `Codecs`: `TextsSurviveAlways`, `FramesSurviveAlways`,
`RequestsAlwaysAnswered`, `DelaysAlwaysKept`, `DelaysSurviveAlways`. No input
depends on another, so that the weight is in what the operators compute, for
texts and hosts of any length, header fields in any number, payloads of any
length and integers of any width, among them that of `int`.

- *Loops.* `Recursion` and `SameRun` say that the function a loop defines
  exists and is the only one with its equations; what a loop does is an
  induction along its turns. Both are by `InductionTo`, over a set in place of a
  predicate, as in `InspectorSocketProofs` below.
- *Texts.* What `utf16toUTF8` writes is a sequence of blocks laid end to end
  (`BlocksOfText`, `TextsAreLaid`); each is as long as `BytesOf` counts and
  spells the point it was made of (`BlocksSpell`). A block begins with a byte
  that continues nothing and no other byte of it does (`FirstBytes`), so that
  the decoder finds every block where it was put (`CharactersAreThere`) and
  reads its units back (`ReadsOfText`). A surrogate on its own is written as
  three bytes that no decoder accepts, hence the equivalence in `ProperTextSurvives`.
- *Base64.* The encoder's text has its i-th letter where arithmetic says; one
  other character moves those behind it by one (`Carries`). The loop invariant
  (`Between`) says that whole groups have been decoded so far, that the place of
  the next one is known, the other character counted, and that `max_i` is
  aligned to it. The loop ends with everything that there is room for (`Over`),
  or before a group that has no room or is not whole (`Stuck`), which the last
  call of the slow way finishes (`SlowGroups`, `Decoding`).
- *Frames.* `BytesFacts`: `Number` puts together what `BigEndian` takes apart;
  `Decided` is the decoder as a decision between what it has read, and
  `FrameResult` what that is for a client's frame: a whole one is removed
  whole exactly if its size is an `int`, one that is compressed ends the
  connection from its first byte on.
- *Requests.* `RFindIsLast`, `HostsThatAreGood`, `Commands`; `HeadersJoin` and
  `HeadersAreFound` say which fields a value is put together of, and when it is found.
- *Delays.* `DelaysAlwaysKept` holds in every width, those of the code (2^63
  and 10^6) included, where `codecs` checks 512 and 10: the sum of two wrapped
  numbers is right whenever its result is in range (`WrapTwice`), and the
  smallest `long long`, which NaN and the like become, wraps to no delay at all
  because a millisecond has an even number of ticks.

`InspectorAgentProofs`: `TypeCorrect`, `FlagsAlwaysMatch`,
`DispatchAlwaysComing`, `ChecksAlwaysHold`, `AgentIsPipe`. The strengthening
describes the shapes the stack can have (what can be above what) and ties
`state`, `session` and the flags to them; given those, each of the places that
dispatch takes whole queues only, and `session` is set before it is used
because the first message posted is the session's; what is said of both ends
when a frontend has sent the text of a tag (`TagForged`).

`JsiHandlesProofs`: `HandlesAlwaysSound`, `ReachableAlwaysThere`,
`AlwaysReleasedOnce`, `NothingEverOutlives`. The inductive invariant says that
the non-null pointers of the slots and the allocated pointer values are in
one-to-one correspondence, that the tracker, proxy and number of `destroy` calls of a
host object move together, and that members of host objects that are gone hold
nothing. Reachability is defined as the least closed set, so the collector's
step needs no induction.

`NodeAgentProofs`: `TypeCorrect`, `AlwaysInOrder`, `ChecksAlwaysHold`,
`RunAlwaysLast`, `V8SeesSessions`. The inductive invariant is the conjunction
of `DataOK` (types), `ThreadInv` (shapes of the main thread's stack, and
whatever is queued has a dispatch coming), `StartInv` (who may be waited for
while `Start` waits), `LogInv` (the calls form sessions), `SessionInv` (V8's
session is the delegate's as of the calls handled so far, or none if a
frontend's tag was among them) and `RunInv`.

`PromisesProofs`: `TypeCorrect`, `AlwaysForAReason`, `AlwaysForItsOutcome`,
`NoOvertaking`. A promise of `Then` or `Catch` is in one of three places: among
the reactions of its source (`WaitOK`: both are pending), in a microtask
(`JobOK`: the source is settled with the result it carries), or in a frame of
its callback (`FrameOK`: the callback was called once). The three exclude each
other by what they say of the source and of `calls`, so that a step which takes
a promise out of one place is seen to put it into the next (`ReasonInv`), and
within a place promises of one source stand in the order of their registration
(`Ordered`), from which `NoOvertaking` follows. `StackInv` gives the shapes of
the stack: C++ that runs above JavaScript is a host function, so that an
exception scheduled in it has, at its height of the stack, JavaScript to return
to for as long as it is scheduled.

`InspectorSocketProofs`: `TypeCorrect`, `SwitchSeenByBoth`, `AnswersInOrder`,
`DiesForAReason`. The invariants compare what was sent with what was answered
and posted, while the halves of items in between are in `net`, in the parser, in
`events` and in `buf`. The proof numbers the halves along the stream (`Place`)
and lets `Taken` be how many were read: `StreamInv` says that `net` is the end
of the stream and that `buf` comes just before it; `EventsInv` and `PostsInv`
place events and posts before `Taken`, in order; `PhaseInv` ties `handler` to
what the other variables can hold, `CutInv` says that without a cut `buf` starts
at an item, and `PoliteInv` counts, for a well-behaved client, replies, events and
the request begun against `Taken`. A read feeds the parser many halves in one
step. `Parse` is a recursive function, and the library's induction cannot be
instantiated, so that `InductionTo` argues with the least counterexample
(`LeastNatural`, from well-foundedness of `<`) over a set in place of a predicate;
`ParseFound` and `ParseFoundAll` are what it gives.

`NodeSocketProofs`: `TypeCorrect`, `AlwaysConnected`, `AlwaysInOrder`,
`OnlyHasteOrCutsKill`, `ImplementsSessions` (`Spec => SessionsSpec`). `ConnInv` says
of each connection on its own how far it is: what its session, handle, pending
writes and read callbacks can be together, before the upgrade (`HandshakeInv`,
`RefusalInv`), while the delegate has its session (`ConnectedInv`) and after. A
step changes one connection, so that `Bystanders` settles the others. The
exception is history: `hasty` has the connections that went on while a refusal
was being written, and every clause that such a client can break is weakened by
it and by nothing else; a part of a frame that passes for the whole is a step of
its own, behind which nothing runs. `CloserIsNeeded` (`close_count_` is the number of
sessions that point to the closer, and one for the listening socket) needs
cardinalities of sets that gain or lose one element (`Counted`). `IInv` was
checked by TLC before it was proved, like the other modules' invariants.

Lemmas about sequences (positions after an insertion or a removal, what is on
a stack after a call and a return) are stated in each proof module that needs them.

Only model-checked: liveness (fairness and ENABLED are out of the prover's
reach), and `ValuesSurvive` of `codecs`, because values are trees, converted by
recursive operators, behind which nothing can be proved. Every other safety
property of a passing run, and every refinement, is a theorem.

## 5. Not modelled

- `WsServer.cpp` (a sketch from Boost.Beast's examples, included by nothing),
  `inspector_socket_server - Copy.cpp` (an intermediate state): not built.
- `v8_inspector_protocol_json.h`, `concatenated_protocol.json`: data. Loggers,
  precompiled headers: no behaviour.
- `EventLoop`'s drain of `_jsiBgCompletedItems`: no thread ever fills it.
- The server's own `TAG_DISCONNECT`, `WaitForDisconnect`, `FatalException`, `Stop`,
  `TerminateConnections` of the port: the delegate's destructor never runs, the
  others have no caller. Node's versions are modelled in `NodeAgent` and `NodeSocket`.
- The text of HTTP replies and targets; the SHA-1 of the handshake (external).
- Node's console wrapper (`inspector_agent.cc:346-409`): calls within JavaScript.
- `WeakObject`, `Scope` and the instrumentation of JSI, which `V8Runtime`
  leaves empty or unsupported; the constructors of `JSError`, which read
  properties of an error and have no state; `typedjsi.h`, which nothing uses; what only
  forwards to V8 (arrays, property names, `instanceof`).
- A resolver of JSI's that is resolved with a promise (`V8Runtime.cpp:923`; only
  handlers return promises in `Promises`), and a connection that libuv fails to accept.
- The demonstration host object and `print` of `scripthost.cpp` and `main.cpp`.
- Frames of 2^31 bytes and more in `InspectorSocket` and `NodeSocket`
  (`WireCodecs` has them), and a property `__proto__` in `ValueConversions`.
- After a close frame the port keeps the connection open and later messages
  are written behind the reply: `InspectorSocket` has it, no property forbids it.

## 6. Plan

Done: everything above. Next, most important first:

1. The port's socket and agent composed and refined through one `MessagePipe`,
   instead of side by side.
2. Larger instances of `jsi_handles` (two host objects that hold handles to each
   other's wrappers).
