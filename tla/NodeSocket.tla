---------------------------- MODULE NodeSocket ----------------------------
(***************************************************************************)
(* The originals that the inspector was ported from, kept under            *)
(* src/baseline_inspector: the connections of inspector_socket.cc and the  *)
(* sessions of inspector_socket_server.cc, on libuv.                       *)
(*                                                                         *)
(* Everything here runs on the I/O thread, one callback of libuv's at a    *)
(* time.  Closing takes several of them: uv_close cancels the writes that  *)
(* are pending, calls back for each of them, then calls the close          *)
(* callback, dispose_inspector or report_handshake_failure_cb, which       *)
(* deletes the session.                                                    *)
(*                                                                         *)
(* A client's requests and frames are items.  A read hands over one, the   *)
(* beginning of one, or the rest of it: several that come together are     *)
(* gone through one by one, except that what comes with an upgrade in the  *)
(* same read is dropped with it, and that nothing behind a close frame is  *)
(* looked at.  A frame is shorter than 2^31 bytes.                         *)
(***************************************************************************)
EXTENDS Integers, FiniteSets, SequencesExt

CONSTANTS
  Conns,     \* the connections, which are also the sessions
  None,      \* no connection
  Sends,     \* what each client sends: of requests and frames
  MaxItems,  \* bound: how many items the clients send together
  MaxSends   \* bound: how many messages the agent sends

(***************************************************************************)
(* "get" is answered; "refused" is not, or is no GET, or has no key;       *)
(* "declined" upgrades to a target that does not exist.  "empty" is a text *)
(* frame without payload and "bad" one that is compressed or ill-formed.   *)
(***************************************************************************)
Requests == {"get", "refused", "declined", "upgrade"}
Frames   == {"text", "empty", "close", "bad"}

\* What is to be read: "rest" is what is left of a frame that was begun.
Items == Requests \cup Frames \cup {"rest"}

ASSUME NodeSocketAssumption ==
  /\ IsFiniteSet(Conns) /\ None \notin Conns
  /\ Sends \in [Conns -> SUBSET (Requests \cup Frames)]
  /\ MaxItems \in Nat /\ MaxSends \in Nat

VARIABLES
  listening,  \* of server_: "open", "closing" or "closed"
  closer,     \* close_count_ of closer_, or -1 for nullptr
  k,          \* of each connection, its InspectorSocket and SocketSession
  net,        \* of each connection, what was sent and not read
  shut,       \* the client has closed its end
  sent,       \* history: how many items the clients sent
  sessions,   \* connected_sessions_
  open,       \* the session for which the delegate is connected_
  calls,      \* history: the calls of the delegate
  out,        \* history: what was written to each connection
  hasty,      \* history: the connections from which something was read while a
              \* refusal was being written to them
  crashed     \* a CHECK failed, or memory was used that is not there

clients  == <<net, shut, sent>>
delegate == <<open, calls>>
vars     == <<listening, closer, k, clients, sessions, delegate, out, hasty, crashed>>

(***************************************************************************)
(* session is state_, or "none" before and "gone" after its life; writes   *)
(* are the pending writes whose callbacks do something.  buf is the        *)
(* buffer: empty, a frame that is not complete, the close frame that stays *)
(* in it, or what is left when more is removed from it than it has.        *)
(***************************************************************************)
Fresh ==
  [session |-> "none", handle |-> "none", onClose |-> "none", reading |-> "no",
   parser |-> "none", readCb |-> FALSE, closeSent |-> FALSE, receivedClose |-> FALSE,
   shuttingDown |-> FALSE, hasCloser |-> FALSE, eof |-> FALSE, buf |-> "none", writes |-> <<>>]

Init ==
  /\ listening = "open" /\ closer = -1
  /\ k = [c \in Conns |-> Fresh]
  /\ net = [c \in Conns |-> <<>>] /\ shut = [c \in Conns |-> FALSE] /\ sent = 0
  /\ sessions = {} /\ open = None /\ calls = <<>>
  /\ out = [c \in Conns |-> <<>>]
  /\ hasty = {} /\ crashed = FALSE

Becomes(c, s)   == k' = [k EXCEPT ![c] = s]
Writes(c, what) == out' = [out EXCEPT ![c] = Append(@, what)]
Tell(what, c)   == calls' = Append(calls, <<what, c>>)

------------------------------------------------------------------------------
(* Clients *)

SocketConnectedCallback(c) ==
  /\ ~crashed /\ listening = "open" /\ k[c] = Fresh
  /\ Becomes(c, [Fresh EXCEPT !.session = "http", !.handle = "open", !.reading = "http", !.parser = "ok"])
  /\ UNCHANGED <<listening, closer, clients, sessions, delegate, out, hasty, crashed>>

ClientSends(c, kind) ==
  /\ ~crashed /\ k[c] # Fresh /\ ~shut[c] /\ sent < MaxItems
  /\ net' = [net EXCEPT ![c] = Append(@, kind)]
  /\ sent' = sent + 1
  /\ UNCHANGED <<listening, closer, k, shut, sessions, delegate, out, hasty, crashed>>

ClientCloses(c) ==
  /\ ~crashed /\ k[c] # Fresh /\ ~shut[c]
  /\ shut' = [shut EXCEPT ![c] = TRUE]
  /\ UNCHANGED <<listening, closer, k, net, sent, sessions, delegate, out, hasty, crashed>>

------------------------------------------------------------------------------
(* Closing *)

\* close_connection and the second half of close_and_report_handshake_failure.
Closing(s, callback) ==
  IF s.handle = "open" THEN [s EXCEPT !.handle = "closing", !.onClose = callback, !.reading = "no"] ELSE s

\* SocketSession::Close(true) from its state_ = kClosing on, and inspector_close.
inspector_close(s) ==
  LET t == [s EXCEPT !.session = "closing", !.shuttingDown = TRUE]
  IN  IF s.eof THEN Closing(t, "dispose")
      ELSE [t EXCEPT !.readCb = FALSE, !.closeSent = FALSE,
                     !.writes = Append(@, "close"), !.reading = "ws"]

\* Mutant of SessionTerminated: the delegate is not told.
TerminatedSilently(c) ==
  IF c \in sessions THEN sessions' = sessions \ {c} /\ UNCHANGED delegate
  ELSE UNCHANGED <<sessions, delegate>>

SessionTerminated(c) ==
  IF c \in sessions
    THEN sessions' = sessions \ {c} /\ open' = None /\ Tell("end", c)
    ELSE UNCHANGED <<sessions, delegate>>

\* The CHECKs of Close and the ASSERTs of inspector_close.
MayClose(s) == s.session # "closing" /\ ~s.hasCloser /\ s.handle = "open" /\ ~s.shuttingDown

CloseFrames(s) == IF s.eof THEN <<>> ELSE <<"close">>

\* ReadCallback_ with nothing read: OnRemoteDataIO ends the session.
EndOfData(c, s, then, frames) ==
  /\ SessionTerminated(c)
  /\ Becomes(c, then)
  /\ out' = [out EXCEPT ![c] = @ \o CloseFrames(s) \o frames]
  /\ crashed' = (~MayClose(s) \/ then.buf = "overrun")

------------------------------------------------------------------------------
(* Requests *)

\* handshake_failed: answered, and closed when the answer is written.
Failed(s) == [s EXCEPT !.writes = Append(@, "fail")]

\* What an item was read with, and what is left after it; an upgrade, also one
\* that is refused, drops what follows in the same read.  What it leaves of an
\* item may look like anything, also like one that takes others for its own.
ReadHttp(c) ==
  /\ ~crashed /\ k[c].reading = "http" /\ net[c] # <<>>
  /\ \/ net' = [net EXCEPT ![c] = Tail(@)]
     \/ /\ k[c].parser # "failed" /\ Head(net[c]) \in Requests \ {"get"}
        /\ \E n \in 2 .. Len(net[c]), left \in {<<>>} \cup {<<x>> : x \in Requests \cup Frames} :
             net' = [net EXCEPT ![c] = left \o SubSeq(@, n + 1, Len(@))]
  /\ hasty' = IF Contains(k[c].writes, "fail") THEN hasty \cup {c} ELSE hasty
  /\ UNCHANGED <<listening, closer, shut, sent>>

\* init_handshake is called after an answer and not after a refusal: then the
\* path and the key are stale, and the next request's are appended to them.
\* Two paths in one may be answered even if neither would be, and seldom are.
RespondToGet(c) ==
  /\ ReadHttp(c)
  /\ \/ k[c].parser = "ok"    /\ Head(net[c]) = "get"
     \/ k[c].parser = "stale" /\ Head(net[c]) \in {"get", "refused"}
  /\ Becomes(c, [k[c] EXCEPT !.parser = "ok"])
  /\ Writes(c, "200")
  /\ UNCHANGED <<sessions, delegate, crashed>>

\* Frames are errors to the HTTP parser, and it does not recover from one.
HandshakeFailed(c) ==
  LET wrong == k[c].parser = "failed" \/ Head(net[c]) \in Frames
  IN  /\ ReadHttp(c)
      /\ \/ wrong
         \/ Head(net[c]) = "refused"
         \/ k[c].parser = "stale" /\ Head(net[c]) = "get"
      /\ Becomes(c, [Failed(k[c]) EXCEPT !.parser = IF wrong THEN "failed" ELSE "stale"])
      /\ Writes(c, "400")
      /\ UNCHANGED <<sessions, delegate, crashed>>

\* SessionStarted refuses: there is no such target, or a session is open.  A
\* target's name has no slash, so two paths in one name none; a stale key
\* passes for that of an upgrade without one.
Declined(c) ==
  /\ ReadHttp(c)
  /\ \/ k[c].parser = "ok"    /\ Head(net[c]) = "declined"
     \/ k[c].parser = "ok"    /\ Head(net[c]) = "upgrade" /\ open # None
     \/ k[c].parser = "stale" /\ Head(net[c]) \in Requests \ {"get"}
  /\ Becomes(c, [Failed(k[c]) EXCEPT !.session = "declined", !.parser = "stale"])
  /\ Writes(c, "400")
  /\ UNCHANGED <<sessions, delegate, crashed>>

\* Mutant of SessionStarted: the delegate's answer is not looked at.
StartedAnyway(c) ==
  /\ Head(net[c]) = "upgrade"
  /\ sessions' = sessions \cup {c}
  /\ open' = c
  /\ Tell("start", c)

SessionStarted(c) ==
  /\ Head(net[c]) = "upgrade" /\ open = None
  /\ sessions' = sessions \cup {c}
  /\ open' = c
  /\ Tell("start", c)

\* The upgrade: handshake_complete and FrontendConnected, which CHECKs that
\* no earlier request was declined.
HandshakeComplete(c) ==
  /\ ReadHttp(c)
  /\ k[c].parser = "ok"
  /\ SessionStarted(c)
  /\ Becomes(c, [k[c] EXCEPT !.session = "ws", !.reading = "ws", !.parser = "none", !.readCb = TRUE])
  /\ Writes(c, "101")
  /\ crashed' = (k[c].session # "http")

\* Mutant of EofInHandshake: reading is stopped, but the handle not closed.
EofStopsReading(c) ==
  /\ ~crashed /\ k[c].reading = "http" /\ net[c] = <<>> /\ shut[c]
  /\ Becomes(c, [k[c] EXCEPT !.reading = "no"])
  /\ UNCHANGED <<listening, closer, clients, sessions, delegate, out, hasty, crashed>>

EofInHandshake(c) ==
  /\ ~crashed /\ k[c].reading = "http" /\ net[c] = <<>> /\ shut[c]
  /\ Becomes(c, Closing(k[c], "report"))
  /\ hasty' = IF Contains(k[c].writes, "fail") THEN hasty \cup {c} ELSE hasty
  /\ UNCHANGED <<listening, closer, clients, sessions, delegate, out, crashed>>

------------------------------------------------------------------------------
(* Frames *)

\* A close frame is not removed from the buffer: it is met again, before
\* anything that comes later.
Kind(c) ==
  CASE k[c].buf = "stuck"        -> "close"
    [] k[c].buf \in Frames       -> k[c].buf
    [] k[c].buf = "none" /\ Head(net[c]) \in Requests -> "bad"
    [] OTHER                     -> Head(net[c])

\* The item or the rest of it is read, or only its beginning.
ReadWs(c) ==
  /\ ~crashed /\ k[c].reading = "ws" /\ net[c] # <<>>
  /\ \/ net' = [net EXCEPT ![c] = Tail(@)]
     \/ /\ Kind(c) = "close"
        /\ \E n \in 2 .. Len(net[c]) : net' = [net EXCEPT ![c] = SubSeq(@, n + 1, Len(@))]
  /\ UNCHANGED <<listening, closer, shut, sent, hasty>>

ReadPart(c) ==
  /\ ~crashed /\ k[c].reading = "ws" /\ net[c] # <<>> /\ Head(net[c]) # "rest"
  /\ net' = [net EXCEPT ![c] = <<"rest">> \o Tail(@)]
  /\ UNCHANGED <<listening, closer, shut, sent, hasty>>

\* FRAME_INCOMPLETE.
PartOfFrame(c) ==
  /\ ReadPart(c)
  /\ k[c].buf = "none"
  /\ Becomes(c, [k[c] EXCEPT !.buf = Kind(c)])
  /\ UNCHANGED <<sessions, delegate, out, crashed>>

TextFrame(c) ==
  /\ ReadWs(c)
  /\ Kind(c) = "text" \/ (Kind(c) = "empty" /\ ~k[c].readCb)
  /\ Becomes(c, [k[c] EXCEPT !.buf = "none"])
  /\ IF k[c].readCb THEN Tell("message", c) ELSE UNCHANGED calls
  /\ UNCHANGED <<sessions, open, out, crashed>>

\* The test for the payload leaves out the header, and wraps when there is
\* nothing else (line 238): a part is taken for the frame, its payload read from
\* behind the buffer, and more removed than there is.
CutTextFrame(c) ==
  /\ ReadPart(c)
  /\ Kind(c) = "text" \/ (Kind(c) = "empty" /\ ~k[c].readCb)
  /\ Becomes(c, [k[c] EXCEPT !.buf = "overrun"])
  /\ IF k[c].readCb THEN Tell("message", c) ELSE UNCHANGED calls
  /\ crashed' = TRUE
  /\ UNCHANGED <<sessions, open, out>>

\* read_cb is told that 0 bytes were read, which it takes for the end.
EmptyFrame(c) ==
  \E left \in {"none", "overrun"} :
    /\ IF left = "none" THEN ReadWs(c) ELSE ReadPart(c)
    /\ Kind(c) = "empty" /\ k[c].readCb
    /\ EndOfData(c, k[c], [inspector_close(k[c]) EXCEPT !.buf = left], <<>>)

\* parse_ws_frames and close_connection; the beginning may show it.
BadFrame(c) ==
  /\ ReadWs(c) \/ ReadPart(c)
  /\ Kind(c) = "bad"
  /\ IF k[c].readCb
       THEN EndOfData(c, k[c], Closing(inspector_close(k[c]), "dispose"), <<>>)
       ELSE /\ Becomes(c, Closing(k[c], "dispose"))
            /\ UNCHANGED <<sessions, delegate, out, crashed>>

\* close_frame_received, for all of the frame or enough of it.
CloseFrame(c) ==
  LET met      == [k[c] EXCEPT !.receivedClose = TRUE, !.buf = "stuck"]
      Reply(s) == [s EXCEPT !.writes = Append(@, "close")]
  IN  /\ ReadWs(c) \/ ReadPart(c)
      /\ Kind(c) = "close"
      /\ IF k[c].readCb
           THEN EndOfData(c, k[c], Reply(inspector_close(met)), <<"close">>)
           ELSE /\ IF k[c].closeSent
                     THEN Becomes(c, Closing(met, "dispose")) /\ UNCHANGED out
                     ELSE Becomes(c, Reply(met)) /\ Writes(c, "close")
                /\ UNCHANGED <<sessions, delegate, crashed>>

\* The rest of a frame may never have been sent.
EofInSession(c) ==
  LET met == [k[c] EXCEPT !.eof = TRUE, !.reading = "no"]
  IN  /\ ~crashed /\ k[c].reading = "ws" /\ net[c] \in {<<>>, <<"rest">>} /\ shut[c]
      /\ IF ~k[c].shuttingDown /\ k[c].readCb
           THEN EndOfData(c, met, inspector_close(met), <<>>)
           ELSE Becomes(c, met) /\ UNCHANGED <<sessions, delegate, out, crashed>>
      /\ UNCHANGED <<listening, closer, clients, hasty>>

MessagesSent == FoldFunction(+, 0, [c \in Conns |-> Len(SelectSeq(out[c], LAMBDA w : w = "message"))])

\* Mutant of Send: the session is not looked up.
SendAnyway(c) ==
  /\ ~crashed /\ MessagesSent < MaxSends
  /\ k[c].session \in {"ws", "closing"} /\ k[c].handle = "open"
  /\ Writes(c, "message")
  /\ UNCHANGED <<listening, closer, k, clients, sessions, delegate, hasty, crashed>>

\* InspectorSocketServer::Send; with a session that is not connected it does
\* nothing.
Send(c) ==
  /\ ~crashed /\ MessagesSent < MaxSends
  /\ c \in sessions
  /\ Writes(c, "message")
  /\ UNCHANGED <<listening, closer, k, clients, sessions, delegate, hasty, crashed>>

------------------------------------------------------------------------------
(* libuv's completions *)

\* then_close_and_report_failure or on_close_frame_written.
WriteDone(c) ==
  /\ ~crashed /\ k[c].handle = "open" /\ k[c].writes # <<>>
  /\ LET s == [k[c] EXCEPT !.writes = Tail(@)]
     IN  Becomes(c, CASE Head(k[c].writes) = "fail" -> Closing(s, "report")
                      [] Head(k[c].writes) = "close" ->
                           IF s.receivedClose THEN Closing([s EXCEPT !.closeSent = TRUE], "dispose")
                           ELSE [s EXCEPT !.closeSent = TRUE])
  /\ UNCHANGED <<listening, closer, clients, sessions, delegate, out, hasty, crashed>>

\* Mutant of CountDown: the closer is left behind.
CountOnly == closer' = closer - 1

\* DecreaseExpectedCount and NotifyIfDone.
CountDown == closer' = IF closer = 1 THEN -1 ELSE closer - 1

\* uv_close is done.  A refusal that was still being written reports the
\* failure and deletes the session, so that the close callback uses what is
\* deleted; it also does so when the handshake's state is gone.
CloseDone(c) ==
  /\ ~crashed /\ k[c].handle = "closing"
  /\ crashed' = (Contains(k[c].writes, "fail") \/ (k[c].onClose = "report" /\ k[c].parser = "none"))
  /\ Becomes(c, [k[c] EXCEPT !.handle = "closed", !.session = "gone", !.writes = <<>>])
  /\ IF k[c].hasCloser THEN CountDown ELSE UNCHANGED closer
  /\ UNCHANGED <<listening, clients, sessions, delegate, out, hasty>>

------------------------------------------------------------------------------
(* The server *)

Stop ==
  /\ ~crashed /\ listening = "open"
  /\ listening' = "closing"
  /\ closer' = IF closer = -1 THEN 1 ELSE closer + 1
  /\ UNCHANGED <<k, clients, sessions, delegate, out, hasty, crashed>>

ServerClosedCallback ==
  /\ ~crashed /\ listening = "closing"
  /\ listening' = "closed"
  /\ CountDown
  /\ UNCHANGED <<k, clients, sessions, delegate, out, hasty, crashed>>

\* After NotifyIfDone there is no closer when nothing is to be waited for.
TerminateConnections ==
  /\ ~crashed /\ sessions # {}
  /\ sessions' = {}
  /\ k' = [c \in Conns |-> IF c \in sessions THEN [inspector_close(k[c]) EXCEPT !.hasCloser = TRUE] ELSE k[c]]
  /\ out' = [c \in Conns |-> IF c \in sessions THEN out[c] \o CloseFrames(k[c]) ELSE out[c]]
  /\ crashed' = (\E c \in sessions : ~MayClose(k[c]))
  /\ closer' = (IF closer = -1 THEN 0 ELSE closer) + Cardinality(sessions)
  /\ open' = None
  /\ Tell("end", CHOOSE c \in sessions : TRUE)
  /\ UNCHANGED <<listening, clients, hasty>>

------------------------------------------------------------------------------
(* The specification *)

Client(c) ==
  \/ SocketConnectedCallback(c)
  \/ \E kind \in Sends[c] : ClientSends(c, kind)
  \/ ClientCloses(c)

Callback(c) ==
  \/ RespondToGet(c)
  \/ HandshakeFailed(c)
  \/ Declined(c)
  \/ HandshakeComplete(c)
  \/ EofInHandshake(c)
  \/ PartOfFrame(c)
  \/ TextFrame(c)
  \/ CutTextFrame(c)
  \/ EmptyFrame(c)
  \/ BadFrame(c)
  \/ CloseFrame(c)
  \/ EofInSession(c)
  \/ WriteDone(c)
  \/ CloseDone(c)

Next ==
  \/ \E c \in Conns : Client(c) \/ Callback(c) \/ Send(c)
  \/ Stop
  \/ ServerClosedCallback
  \/ TerminateConnections

Spec == Init /\ [][Next]_vars

\* libuv calls back for what has happened, on every handle.
FairSpec == Spec /\ \A c \in Conns : WF_vars(Callback(c))

------------------------------------------------------------------------------
(* Properties *)

\* What k[c] ranges over, and the types of all variables.
Connection ==
  [session : {"none", "http", "ws", "closing", "declined", "gone"},
   handle  : {"none", "open", "closing", "closed"},
   onClose : {"none", "dispose", "report"},
   reading : {"no", "http", "ws"},
   parser  : {"none", "ok", "stale", "failed"},
   readCb  : BOOLEAN, closeSent : BOOLEAN, receivedClose : BOOLEAN, shuttingDown : BOOLEAN,
   hasCloser : BOOLEAN, eof : BOOLEAN,
   buf     : Frames \cup {"none", "stuck", "overrun"},
   writes  : Seq({"close", "fail"})]

TypeOK ==
  /\ listening \in {"open", "closing", "closed"}
  /\ closer \in -1 .. Cardinality(Conns) + 1
  /\ k \in [Conns -> Connection]
  /\ net \in [Conns -> Seq(Items)] /\ shut \in [Conns -> BOOLEAN] /\ sent \in 0 .. MaxItems
  /\ sessions \subseteq Conns /\ open \in Conns \cup {None}
  /\ calls \in Seq({"start", "message", "end"} \X Conns)
  /\ out \in [Conns -> Seq({"200", "400", "101", "message", "close"})]
  /\ hasty \subseteq Conns /\ crashed \in BOOLEAN

\* The delegate sees one session at a time, each with a start, its messages
\* and one end, although sessions are ended from five places, some of which
\* end them twice.
Delegate == INSTANCE NodeSessions WITH Ids <- Conns
SessionsSpec == Delegate!Spec

\* Every variable has its type; the map of sessions and what the delegate
\* believes agree, and a session in it has a connection that is open and read,
\* unless it was upgraded after a refusal.
ConnectedIsConnected ==
  /\ TypeOK
  /\ ~crashed => /\ sessions = {open} \ {None}
                 /\ \A c \in sessions \ hasty : k[c].session = "ws" /\ k[c].handle = "open" /\ k[c].readCb

\* The order of what a client is sent: answers to requests, the upgrade,
\* messages, and nothing after a close frame but another one.
InOrder(w) ==
  \A j \in DOMAIN w :
    /\ \A i \in 1 .. j - 1 : /\ w[i] = "close" => w[j] = "close"
                             /\ w[i] = "101" => w[j] \in {"message", "close"}
    /\ w[j] \in {"message", "close"} => \E i \in 1 .. j - 1 : w[i] = "101"

\* A client is never sent anything behind a close frame, nor anything of the
\* session before the upgrade (Send, close_frame_received and inspector_close
\* write to the same socket as the answers do).
NothingAfterClose == \A c \in Conns : InOrder(out[c])

\* The closer's count is that of the sessions and the listening socket that
\* wait for it, and it is there exactly while one of them does.
Waiting == {c \in Conns : k[c].hasCloser /\ k[c].session # "gone"}

CloserIsNeeded ==
  LET needed == Cardinality(Waiting) + (IF listening = "closing" THEN 1 ELSE 0)
  IN  closer = IF needed = 0 THEN -1 ELSE needed

\* A part of a frame was taken for all of it.
Overrun == \E c \in Conns : k[c].buf = "overrun"

\* Sessions are freed once and after everything that could call back for them,
\* and the closer they point to lives as long as it is needed and no longer:
\* the process dies only when a client has sent more, or closed, while a
\* refusal was being written to it, or when a read ended in a frame so that a
\* part of it passed for the whole.
DiesOfHasteOrCut == IF crashed THEN hasty # {} \/ Overrun ELSE CloserIsNeeded

\* The server has closed first, and the client has closed without a close
\* frame: nothing calls back any more.
Stranded(c) == k[c].shuttingDown /\ k[c].eof /\ k[c].buf # "stuck"

\* When the client closes, the session is freed in the end, except when the
\* server was waiting for a close frame.
ConnectionsEnd ==
  []<>(crashed \/ \A c \in Conns : shut[c] => k[c].session = "gone" \/ Stranded(c))

============================================================================
