-------------------------- MODULE InspectorSocket --------------------------
(***************************************************************************)
(* The inspector's protocol on its one connection:                         *)
(* src/jsiapp/inspector_socket.cc (HttpHandler, WsHandler, TcpHolder) and  *)
(* the session of inspector_socket_server.cpp.                             *)
(*                                                                         *)
(* HttpHandler answers requests until one of them upgrades the connection; *)
(* AcceptUpgrade then moves tcp_ into a WsHandler, which replaces it, and  *)
(* StartSession posts TAG_CONNECT to the agent.  WsHandler posts each text *)
(* frame and answers a close frame.  A bad frame resets tcp_, but the read *)
(* loop goes on: TcpHolder keeps its handler, and OnDataReceivedCb does    *)
(* not look at tcp_.                                                       *)
(*                                                                         *)
(* What a client sends are numbered items, each of two halves, so that a   *)
(* read can end inside of one.  The HTTP parser (llhttp, external) keeps   *)
(* its state from read to read.  WsHandler keeps nothing: each read has    *)
(* its own vector (tcp.cpp:70), and what OnData leaves of it is gone.      *)
(*                                                                         *)
(* All steps are the I/O thread's, except Send, which is the JavaScript    *)
(* thread's.  What becomes of a write is the subject of TcpConnection,     *)
(* what becomes of a post that of InspectorAgent.                          *)
(***************************************************************************)
EXTENDS Integers, SequencesExt

CONSTANTS
  Kinds,    \* what clients send
  MaxItems, \* bound: how many items clients send
  MaxSends  \* bound: how many messages the agent sends

(***************************************************************************)
(* "get" asks for /json or a path below it that is served, "stray" for     *)
(* another path; "refused" is not a GET or has a host that is not allowed; *)
(* "upgrade" has a WebSocket key and "nokey" has none.  "text",     *)
(* "garbled" and "close" are frames, the second a text that is no UTF-8,   *)
(* and "bad" is one that is compressed or ill-formed.                      *)
(***************************************************************************)
Requests == {"get", "stray", "refused", "nokey", "upgrade"}
Frames   == {"text", "garbled", "close", "bad"}

ASSUME ConstantsAssumption ==
  /\ Kinds \subseteq Requests \cup Frames
  /\ MaxItems \in Nat
  /\ MaxSends \in Nat

VARIABLES
  sent,    \* history: the kinds of the items sent, in order
  net,     \* the halves that were sent and not read
  handler, \* protocol_handler_: "http" or "ws"
  tcp,     \* the handler's tcp_ is set
  parser,  \* what parser_ keeps: a request begun, and whether it failed
  events,  \* the local `events` of HttpHandler::OnData
  buf,     \* the `data` of WsHandler::OnData
  out,     \* history: what was written, in order
  posts,   \* history: the items posted to the agent, in order
  rude,    \* history: the client has broken the protocol
  cut,     \* history: a read has ended inside of an item that is a frame or
           \* follows the upgrade
  crashed  \* the process has died

client == <<sent, rude>>
vars   == <<client, net, handler, tcp, parser, events, buf, out, posts, cut, crashed>>

Items == 1 .. MaxItems

\* Posted for a frame that is not one the client sent.
Junk == 0

NoRequest == 0

Half == [item : Items, half : {1, 2}]

Kind(x) == sent[x.item]

Init ==
  /\ sent = <<>> /\ rude = FALSE
  /\ net = <<>>
  /\ handler = "http"
  /\ tcp = TRUE
  /\ parser = [begun |-> NoRequest, failed |-> FALSE]
  /\ events = <<>>
  /\ buf = <<>>
  /\ out = <<>>
  /\ posts = <<>>
  /\ cut = FALSE
  /\ crashed = FALSE

------------------------------------------------------------------------------
(* Clients *)

\* What a well-behaved client sends: valid requests, no further one after
\* the upgrade, frames once that was answered, nothing after a close frame.
Proper(k) ==
  \/ k \in {"get", "stray", "upgrade"} /\ ~Contains(sent, "upgrade")
  \/ k \in {"text", "close"} /\ Contains(out, "101") /\ ~Contains(sent, "close")

ClientSends(k) ==
  /\ ~crashed
  /\ Len(sent) < MaxItems
  /\ sent' = Append(sent, k)
  /\ net' = net \o <<[item |-> Len(sent) + 1, half |-> 1], [item |-> Len(sent) + 1, half |-> 2]>>
  /\ rude' = (rude \/ ~Proper(k))
  /\ UNCHANGED <<handler, tcp, parser, events, buf, out, posts, cut, crashed>>

\* What async_read_some may hand over: what has arrived, or a part of it.
Reads == {SubSeq(net, 1, n) : n \in 1 .. Len(net)}

\* The next read starts when the callback has returned.
Read(data) ==
  /\ ~crashed
  /\ events = <<>> /\ buf = <<>>
  /\ net' = SubSeq(net, Len(data) + 1, Len(net))

------------------------------------------------------------------------------
(* HttpHandler *)

\* Mutant of ParseHalf: the parser does not pause at an upgrade.
ParseOn(p, x) ==
  IF p.failed THEN p
  ELSE CASE x.half = 1 /\ p.begun = NoRequest /\ Kind(x) \in Requests ->
              [p EXCEPT !.begun = x.item]
         [] x.half = 2 /\ p.begun = x.item ->
              [p EXCEPT !.begun = NoRequest, !.complete = Append(@, x.item)]
         [] OTHER -> [p EXCEPT !.failed = TRUE]

\* llhttp_execute over half an item: a failure is for ever, and what follows a
\* request for an upgrade in the same read is skipped.
ParseHalf(p, x) ==
  IF p.failed \/ p.paused THEN p
  ELSE CASE x.half = 1 /\ p.begun = NoRequest /\ Kind(x) \in Requests ->
              [p EXCEPT !.begun = x.item]
         [] x.half = 2 /\ p.begun = x.item ->
              [p EXCEPT !.begun = NoRequest, !.complete = Append(@, x.item),
                        !.paused = Kind(x) \in {"nokey", "upgrade"}]
         [] OTHER -> [p EXCEPT !.failed = TRUE]

\* llhttp_execute over data: p[n] is the parser after n halves.
Parse(data) ==
  LET p[n \in 0 .. Len(data)] ==
        IF n = 0
          THEN [begun |-> parser.begun, failed |-> parser.failed, complete |-> <<>>, paused |-> FALSE]
          ELSE ParseHalf(p[n - 1], data[n])
  IN  p[Len(data)]

\* Mutant of Keep: the parser is set up anew for each read.
Forget(p) == [begun |-> NoRequest, failed |-> p.failed]

\* What the parser keeps for the next read.
Keep(p) == [begun |-> p.begun, failed |-> p.failed]

\* OnData up to its loop: a failed parse, also one that failed earlier, is
\* answered before the requests that came before it.
HttpOnData ==
  /\ handler = "http"
  /\ \E data \in Reads :
       /\ Read(data)
       /\ parser' = Keep(Parse(data))
       /\ events' = Parse(data).complete
       /\ out' = IF Parse(data).failed THEN Append(out, "400") ELSE out
       /\ cut' = (cut \/ (Parse(data).paused /\ Last(data).half = 1))
  /\ UNCHANGED <<client, handler, tcp, buf, posts, crashed>>

Event(kinds) ==
  /\ ~crashed
  /\ events # <<>>
  /\ sent[Head(events)] \in kinds

\* Mutant of OnHttpGet: a request that is not handled ends the loop.
StrayEndsLoop ==
  /\ Event({"get", "stray"})
  /\ out' = Append(out, IF sent[Head(events)] = "get" THEN "200" ELSE "400")
  /\ events' = IF sent[Head(events)] = "get" THEN Tail(events) ELSE <<>>
  /\ UNCHANGED <<client, net, handler, tcp, parser, buf, posts, cut, crashed>>

\* HandleGetRequest answers, or CancelHandshake does; the loop goes on.
OnHttpGet ==
  /\ Event({"get", "stray"})
  /\ out' = Append(out, IF sent[Head(events)] = "get" THEN "200" ELSE "400")
  /\ events' = Tail(events)
  /\ UNCHANGED <<client, net, handler, tcp, parser, buf, posts, cut, crashed>>

\* CancelHandshake, and the events that follow are dropped.
Refuse ==
  /\ Event({"refused", "nokey"})
  /\ out' = Append(out, "400")
  /\ events' = <<>>
  /\ UNCHANGED <<client, net, handler, tcp, parser, buf, posts, cut, crashed>>

\* AcceptUpgrade, SwitchProtocol (which deletes the handler whose loop this
\* is) and StartSession.  A further event would be given to a dead handler.
OnSocketUpgrade ==
  /\ Event({"upgrade"})
  /\ out' = Append(out, "101")
  /\ handler' = "ws"
  /\ posts' = Append(posts, Head(events))
  /\ events' = <<>>
  /\ crashed' = (Tail(events) # <<>>)
  /\ UNCHANGED <<client, net, tcp, parser, buf, cut>>

------------------------------------------------------------------------------
(* WsHandler *)

\* Reads go on whether or not tcp_ is set.
WsOnData ==
  /\ handler = "ws"
  /\ \E data \in Reads :
       /\ Read(data)
       /\ buf' = data
       /\ cut' = (cut \/ Last(data).half = 1)
  /\ UNCHANGED <<client, handler, tcp, parser, events, out, posts, crashed>>

Texts == {"text", "garbled"}

(***************************************************************************)
(* decode_frame_hybi17 on the rest of the data.  Its test for the payload  *)
(* leaves out the header (line 385), so that a frame that is short by a    *)
(* few bytes is taken for a whole one: "overread", or "close" for a close  *)
(* frame, whose payload is not looked at.  A half whose first one was lost *)
(* is payload: it may look like anything.                                  *)
(***************************************************************************)
Decode(data) ==
  LET k == Kind(Head(data))
  IN  CASE Head(data).half = 2 -> {"incomplete", "overread", "close", "error", "ok"}
        [] Head(data).half = 1 /\ Len(data) = 1 ->
             {"incomplete", IF k \in Texts THEN "overread" ELSE IF k = "close" THEN "close" ELSE "error"}
        [] OTHER -> {IF k \in Texts THEN "ok" ELSE IF k = "close" THEN "close" ELSE "error"}

\* bytes_consumed, in halves.
Consumed(data) == IF Head(data).half = 2 THEN 1 .. Len(data) ELSE {2}

Frame(result) ==
  /\ ~crashed
  /\ buf # <<>>
  /\ result \in Decode(buf)

\* Mutant of FrameOk: what was consumed is not removed.
FrameStays ==
  /\ Frame("ok")
  /\ Head(buf).half = 1 => Kind(Head(buf)) = "text"
  /\ posts' = IF tcp THEN Append(posts, IF Head(buf).half = 1 THEN Head(buf).item ELSE Junk) ELSE posts
  /\ crashed' = ~tcp
  /\ UNCHANGED <<client, net, handler, tcp, parser, events, buf, out, cut>>

\* delegate() of a handler whose tcp_ was reset is fatal.
FrameOk ==
  /\ Frame("ok")
  /\ Head(buf).half = 1 => Kind(Head(buf)) = "text"
  /\ posts' = IF tcp THEN Append(posts, IF Head(buf).half = 1 THEN Head(buf).item ELSE Junk) ELSE posts
  /\ crashed' = ~tcp
  /\ \E n \in Consumed(buf) : buf' = SubSeq(buf, n + 1, Len(buf))
  /\ UNCHANGED <<client, net, handler, tcp, parser, events, out, cut>>

\* OnWsFrame, MessageReceived, PostIncomingMessage: before the message is in the
\* queue, Utf8ToUtf16 throws, and the I/O thread catches nothing.
FrameThrows ==
  /\ Frame("ok")
  /\ Head(buf).half = 1 => Kind(Head(buf)) = "garbled"
  /\ crashed' = TRUE
  /\ UNCHANGED <<client, net, handler, tcp, parser, events, buf, out, posts, cut>>

FrameIncomplete ==
  /\ Frame("incomplete")
  /\ buf' = <<>>
  /\ UNCHANGED <<client, net, handler, tcp, parser, events, out, posts, cut, crashed>>

\* The payload is read, and then erased, beyond the end of the data: the
\* first may be survived, the second is not.
FrameOverread ==
  /\ Frame("overread")
  /\ crashed' = TRUE
  /\ posts' \in IF tcp THEN {posts, Append(posts, Junk)} ELSE {posts}
  /\ UNCHANGED <<client, net, handler, tcp, parser, events, buf, out, cut>>

\* CloseFrameReceived, each time: OnCloseFrameWritten does nothing, so that
\* neither callback is ever run or changed.  The rest of the data is dropped.
FrameClose ==
  /\ Frame("close")
  /\ out' = IF tcp THEN Append(out, "close") ELSE out
  /\ crashed' = ~tcp
  /\ buf' = <<>>
  /\ UNCHANGED <<client, net, handler, tcp, parser, events, posts, cut>>

\* OnEof.  dispose_ is never set: nothing calls Shutdown on a WsHandler.
FrameError ==
  /\ Frame("error")
  /\ tcp' = FALSE
  /\ buf' = <<>>
  /\ UNCHANGED <<client, net, handler, parser, events, out, posts, cut, crashed>>

------------------------------------------------------------------------------
(* The agent *)

\* The agent answers once it has a session, on the JavaScript thread.
Send ==
  /\ ~crashed
  /\ posts # <<>>
  /\ Len(SelectSeq(out, LAMBDA o : o = "message")) < MaxSends
  /\ out' = IF tcp THEN Append(out, "message") ELSE out
  /\ crashed' = ~tcp
  /\ UNCHANGED <<client, net, handler, tcp, parser, events, buf, posts, cut>>

------------------------------------------------------------------------------
HandleEvent == OnHttpGet \/ Refuse \/ OnSocketUpgrade

ParseWsFrames == FrameOk \/ FrameThrows \/ FrameIncomplete \/ FrameOverread \/ FrameClose \/ FrameError

OnData == HttpOnData \/ HandleEvent \/ WsOnData \/ ParseWsFrames

Next ==
  \/ \E k \in Kinds : ClientSends(k)
  \/ OnData
  \/ Send

Spec == Init /\ [][Next]_vars

(***************************************************************************)
(* The I/O thread runs nothing but the read loop, and the operating system *)
(* hands over what has arrived.  Neither clients nor the agent have to     *)
(* send anything.                                                          *)
(***************************************************************************)
FairSpec == Spec /\ WF_vars(OnData)

------------------------------------------------------------------------------
(* Properties *)

Replies == {"200", "400", "101"}

\* Every variable has its type.
TypeOK ==
  /\ sent \in Seq(Kinds) /\ Len(sent) <= MaxItems
  /\ net \in Seq(Half)
  /\ handler \in {"http", "ws"}
  /\ tcp \in BOOLEAN
  /\ parser \in [begun : Items \cup {NoRequest}, failed : BOOLEAN]
  /\ events \in Seq(Items)
  /\ buf \in Seq(Half)
  /\ out \in Seq(Replies \cup {"message", "close"})
  /\ posts \in Seq(Items \cup {Junk})
  /\ rude \in BOOLEAN /\ cut \in BOOLEAN /\ crashed \in BOOLEAN

\* The answers to HTTP requests and the traffic of the session never mix:
\* what is written is replies, then one 101, then messages and close frames;
\* the 101 is there exactly when WsHandler is.
HandshakeComesFirst ==
  \A i \in 1 .. Len(out) :
    /\ out[i] \in {"message", "close"} => \E j \in 1 .. i - 1 : out[j] = "101"
    /\ out[i] = "101" => handler = "ws" /\ \A j \in i + 1 .. Len(out) : out[j] \notin Replies

\* The session starts once, before its first message; and however reads cut
\* the stream, no frame is posted twice or before an earlier one.
PostsInOrder ==
  /\ (posts # <<>>) = (handler = "ws")
  /\ \A i \in 1 .. Len(posts) : posts[i] # Junk =>
       /\ sent[posts[i]] = IF i = 1 THEN "upgrade" ELSE "text"
       /\ \A j \in 1 .. i - 1 : posts[j] < posts[i]

\* What the agent (InspectorAgent's ChecksHold) and the client rely on, in
\* states that are well typed: the one switch from HTTP to frames is seen by
\* both sides in the same place of the traffic.
SessionThenFramesInOrder == TypeOK /\ HandshakeComesFirst /\ PostsInOrder

Answer(k) == CASE k = "get" -> "200" [] k = "upgrade" -> "101" [] OTHER -> "400"

\* A well-behaved client gets the answers to its requests in the order of
\* the requests, pipelined or not, and however reads cut them: all that it
\* sends before its frames is requests, and the i-th reply is the i-th one's.
AnsweredInOrder ==
  ~rude => \A i \in 1 .. Len(out) : out[i] \in Replies =>
             i <= Len(sent) /\ sent[i] \in Requests /\ out[i] = Answer(sent[i])

\* The frame to be decoded is a text that is no UTF-8.
Garbled == buf # <<>> /\ Kind(Head(buf)) = "garbled"

\* Whatever clients send, the process dies only after a read has cut a frame,
\* after tcp_ was reset, or of a text that is no UTF-8; in particular no event
\* is left for a deleted handler.
DiesOfCutResetOrGarble == crashed => cut \/ ~tcp \/ Garbled

\* Item i is answered or posted, which nothing takes back.
Served(i) ==
  \/ sent[i] \in Requests /\ Len(SelectSeq(out, LAMBDA o : o \in Replies)) >= i
  \/ sent[i] = "text"  /\ Contains(posts, i)
  \/ sent[i] = "close" /\ Contains(out, "close")

\* Everything a well-behaved client sends is served in the end, unless a read
\* has cut a frame; clients send MaxItems items at most, so that "again and
\* again all of them are served" is "each of them will be".
EverythingIsServed ==
  []<>(rude \/ cut \/ \A i \in 1 .. Len(sent) : Served(i))

------------------------------------------------------------------------------
(* Properties that do not hold *)

\* The items of which nothing is left to read.
Received(i) == i <= Len(sent) /\ \A h \in Range(net) \cup Range(buf) : h.item # i

\* remove_from_beginning leaves the unparsed rest in the buffer (lines 422 to
\* 425) for the bytes of the next read: a frame that a read has cut arrives.
FramesSurviveCuts ==
  ~rude => \A i \in 1 .. Len(sent) :
             sent[i] = "text" /\ Received(i) => Contains(posts, i)

=============================================================================
