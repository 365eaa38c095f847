---------------------------- MODULE TcpConnection ----------------------------
(***************************************************************************)
(* tcp_connection (src/jsiapp/tcp.h, tcp.cpp): the one connection of the   *)
(* inspector.  It is accepted once and then read in a loop on the I/O      *)
(* thread; the JavaScript thread (results and notifications) and the I/O   *)
(* thread (HTTP replies) write to it with write_async.                     *)
(*                                                                         *)
(* write_async queues a message under queueAccessMutex and calls           *)
(* do_write(false); whoever finds writing_ false takes the front message   *)
(* and starts one async_send; its completion, on the I/O thread, calls     *)
(* do_write(true) for the next.  The constructor (tcp.h:37) initialises    *)
(* neither writing_ nor the callbacks: writing_ starts with any value.     *)
(*                                                                         *)
(* A message is the number of its push.  What is received is not           *)
(* modelled: every read hands a fresh buffer to the read callback and      *)
(* starts the next read; any read error aborts the process.                *)
(***************************************************************************)
EXTENDS Integers, SequencesExt

CONSTANT MaxMessages   \* bound: how many messages are ever written

ASSUME MaxMessagesAssumption == MaxMessages \in Nat

Js == "js"
Io == "io"
Threads == {Js, Io}

Messages == 1 .. MaxMessages

NoMessage == 0

VARIABLES
  conn,      \* "accepting", "open", or "aborted" with the whole process
  outQueue,  \* outQueue
  writing,   \* writing_
  sending,   \* the messages of the async_sends in flight
  pc,        \* where each thread is in write_async and do_write
  local,     \* each thread's local `message` of do_write
  wire,      \* history: the sends that have completed, in order
  accepted,  \* history: how many messages were pushed
  broken     \* history: writing_ started as garbage, or a send has failed

queue   == <<outQueue, writing>>
history == <<wire, accepted, broken>>
vars    == <<conn, queue, sending, pc, local, history>>

\* A short send reports success too (async_send is one send_some): the rest
\* of the message is never sent.
Sent == [message : Messages, whole : {"whole", "cut"}]

Init ==
  /\ conn = "accepting"
  /\ outQueue = <<>>
  /\ writing \in BOOLEAN
  /\ sending = <<>>
  /\ pc = [t \in Threads |-> "idle"]
  /\ local = [t \in Threads |-> NoMessage]
  /\ wire = <<>>
  /\ accepted = 0
  /\ broken = writing

------------------------------------------------------------------------------
(* start, handle_accept and read_loop_async *)

\* A failed accept starts over and changes nothing.
HandleAccept ==
  /\ conn = "accepting"
  /\ conn' = "open"
  /\ UNCHANGED <<queue, sending, pc, local, history>>

\* End of file counts as a read error.
ReadError ==
  /\ conn = "open"
  /\ pc[Io] = "idle"
  /\ conn' = "aborted"
  /\ UNCHANGED <<queue, sending, pc, local, history>>

------------------------------------------------------------------------------
(* write_async and do_write *)

\* write_async up to its call of do_write.
WriteAsync(t) ==
  /\ conn = "open"
  /\ pc[t] = "idle"
  /\ accepted < MaxMessages
  /\ accepted' = accepted + 1
  /\ outQueue' = Append(outQueue, accepted + 1)
  /\ pc' = [pc EXCEPT ![t] = "queued"]
  /\ UNCHANGED <<conn, writing, sending, local, wire, broken>>

\* do_write while it holds the lock.
TakeMessage(t) ==
  /\ outQueue # <<>>
  /\ local' = [local EXCEPT ![t] = Head(outQueue)]
  /\ outQueue' = Tail(outQueue)
  /\ writing' = TRUE
  /\ pc' = [pc EXCEPT ![t] = "taken"]

NothingToWrite(t) ==
  /\ outQueue = <<>>
  /\ writing' = FALSE
  /\ pc' = [pc EXCEPT ![t] = "idle"]
  /\ UNCHANGED <<outQueue, local>>

AlreadyWriting(t) ==
  /\ pc' = [pc EXCEPT ![t] = "idle"]
  /\ UNCHANGED <<outQueue, writing, local>>

\* Mutant of DoWriteNew: a new message does not look at writing_.
DoWriteAnyway(t) ==
  /\ conn # "aborted"
  /\ pc[t] = "queued"
  /\ TakeMessage(t) \/ NothingToWrite(t)
  /\ UNCHANGED <<conn, sending, history>>

DoWriteNew(t) ==
  /\ conn # "aborted"
  /\ pc[t] = "queued"
  /\ IF writing THEN AlreadyWriting(t) ELSE TakeMessage(t) \/ NothingToWrite(t)
  /\ UNCHANGED <<conn, sending, history>>

DoWriteNext ==
  /\ conn # "aborted"
  /\ pc[Io] = "completed"
  /\ TakeMessage(Io) \/ NothingToWrite(Io)
  /\ UNCHANGED <<conn, sending, history>>

\* do_write after the lock: messageToWrite_ is set and its send started.
AsyncSend(t) ==
  /\ conn # "aborted"
  /\ pc[t] = "taken"
  /\ sending' = Append(sending, local[t])
  /\ local' = [local EXCEPT ![t] = NoMessage]
  /\ pc' = [pc EXCEPT ![t] = "idle"]
  /\ UNCHANGED <<conn, queue, history>>

\* Mutant of SendCompletes: the handler does not call do_write(true).
CompletesWithoutNext ==
  /\ conn # "aborted"
  /\ pc[Io] = "idle"
  /\ sending # <<>>
  /\ wire' = Append(wire, [message |-> Head(sending), whole |-> "whole"])
  /\ sending' = Tail(sending)
  /\ UNCHANGED <<conn, queue, pc, local, accepted, broken>>

\* A completion handler runs on the I/O thread, when that is idle.
SendCompletes ==
  /\ conn # "aborted"
  /\ pc[Io] = "idle"
  /\ sending # <<>>
  /\ \E whole \in {"whole", "cut"} :
       wire' = Append(wire, [message |-> Head(sending), whole |-> whole])
  /\ sending' = Tail(sending)
  /\ pc' = [pc EXCEPT ![Io] = "completed"]
  /\ UNCHANGED <<conn, queue, local, accepted, broken>>

\* Mutant of SendFails: the next message goes out after a failed send.
FailsAndGoesOn ==
  /\ conn # "aborted"
  /\ pc[Io] = "idle"
  /\ sending # <<>>
  /\ sending' = Tail(sending)
  /\ pc' = [pc EXCEPT ![Io] = "completed"]
  /\ broken' = TRUE
  /\ UNCHANGED <<conn, queue, local, wire, accepted>>

\* The handler of a failed send does nothing: writing_ stays true.
SendFails ==
  /\ conn # "aborted"
  /\ pc[Io] = "idle"
  /\ sending # <<>>
  /\ sending' = Tail(sending)
  /\ broken' = TRUE
  /\ UNCHANGED <<conn, queue, pc, local, wire, accepted>>

Next ==
  \/ HandleAccept
  \/ ReadError
  \/ \E t \in Threads : WriteAsync(t) \/ DoWriteNew(t) \/ AsyncSend(t)
  \/ DoWriteNext
  \/ SendCompletes
  \/ SendFails

Spec == Init /\ [][Next]_vars

(***************************************************************************)
(* A thread inside write_async goes on, and the operating system completes *)
(* or fails a send that was started.                                       *)
(***************************************************************************)
FairSpec ==
  /\ Spec
  /\ \A t \in Threads : WF_vars(DoWriteNew(t) \/ AsyncSend(t))
  /\ WF_vars(DoWriteNext)
  /\ WF_vars(SendCompletes \/ SendFails)

------------------------------------------------------------------------------
(* Properties *)

\* Every variable has its type.
TypeOK ==
  /\ conn \in {"accepting", "open", "aborted"}
  /\ outQueue \in Seq(Messages)
  /\ writing \in BOOLEAN
  /\ sending \in Seq(Messages)
  /\ pc \in [Threads -> {"idle", "queued", "taken", "completed"}]
  /\ local \in [Threads -> Messages \cup {NoMessage}]
  /\ wire \in Seq(Sent)
  /\ accepted \in 0 .. MaxMessages
  /\ broken \in BOOLEAN

\* The threads that are between taking a message and starting its send.
Taking == {t \in Threads : pc[t] = "taken"}

\* messageToWrite_ is the buffer of the send in flight: a second send, or a
\* thread that is about to overwrite the buffer, would change its bytes.
OneSendAtATime ==
  /\ Len(sending) + (IF Js \in Taking THEN 1 ELSE 0) + (IF Io \in Taking THEN 1 ELSE 0) <= 1
  /\ pc[Io] = "completed" => sending = <<>> /\ Taking = {}

\* The messages that are neither on the wire nor in the queue, in order.
OnTheWay ==
  sending \o (IF Js \in Taking THEN <<local[Js]>> ELSE <<>>)
          \o (IF Io \in Taking THEN <<local[Io]>> ELSE <<>>)

WireMessages == [i \in DOMAIN wire |-> wire[i].message]

\* Every accepted message is sent, unless the connection breaks or the process
\* ends: whoever gives writing_ up has found the queue empty, and a message
\* pushed while writing_ is true is left to the completion (tcp.cpp:149).
EverythingIsSent == []<>(conn = "aborted" \/ broken \/ Len(wire) = accepted)

\* MessagePipe as the connection implements it.
Pipe == INSTANCE MessagePipe WITH
  waiting   <- OnTheWay \o outQueue,
  delivered <- WireMessages,
  broken    <- broken

\* The connection is a FIFO pipe that may break: what two threads queue and two
\* take goes out in the order in which it was queued, each once, until a send
\* fails; from then on nothing goes out, and it never goes out of order.
PipeSpec == Pipe!Spec

==============================================================================
