----------------------------- MODULE WireProofs -----------------------------
(***************************************************************************)
(* Proofs about what goes over the wire: first about TcpConnection, for    *)
(* any number of messages, then about the conversions of Codecs, for any   *)
(* texts, bytes, frames, requests, delays and widths.                      *)
(*                                                                         *)
(* TcpConnection: the invariant is that writing_ acts as a token: while it *)
(* is set and the connection is not broken, exactly one of four parties    *)
(* holds it - a thread that has taken a message, the send in flight, or    *)
(* the completion handler - and whoever holds it is bound to pass it on or *)
(* to give it back.                                                        *)
(*                                                                         *)
(* Codecs: the loops of the conversions are recursive functions, of which  *)
(* Recursion shows that there are such and SameRun that there is only one. *)
(* What a loop does is then an induction along its turns (InductionTo): a  *)
(* sequence of blocks is laid end to end, and each block is found again    *)
(* where the other side looks for it.                                      *)
(***************************************************************************)
EXTENDS TcpConnection, Codecs, SequenceTheorems, FiniteSetTheorems, WellFoundedInduction, TLAPS

------------------------------------------------------------------------------
(* Messages and sends *)

\* The JavaScript thread runs no completion handler, and a thread that has
\* taken a message holds one.
TypeInv ==
  /\ TypeOK
  /\ pc[Js] # "completed"
  /\ \A t \in Threads : pc[t] = "taken" => local[t] \in Messages

Free      == sending = <<>> /\ Taking = {} /\ pc[Io] # "completed"
BySend    == Len(sending) = 1 /\ Taking = {} /\ pc[Io] # "completed"
ByThread(t) == sending = <<>> /\ Taking = {t} /\ pc[Io] # "completed"
ByHandler == sending = <<>> /\ Taking = {} /\ pc[Io] = "completed"

\* Who holds writing_.  A connection that is broken has it set with no holder.
TokenInv ==
  /\ broken => writing
  /\ ~writing \/ broken => Free
  /\ writing /\ ~broken => BySend \/ (\E t \in Threads : ByThread(t)) \/ ByHandler

LEMMA TypeInit == Init => TypeInv
BY MaxMessagesAssumption
   DEF Init, TypeInv, TypeOK, Threads, Js, Io, Messages, NoMessage, Sent

LEMMA TypeStep == TypeInv /\ [Next]_vars => TypeInv'
<1>. SUFFICES ASSUME TypeInv, [Next]_vars
              PROVE  TypeInv'
  OBVIOUS
<1>. USE DEF TypeInv, TypeOK, Threads, Js, Io
<1>1. CASE HandleAccept \/ ReadError
  BY <1>1 DEF HandleAccept, ReadError, queue, history
<1>2. ASSUME NEW t \in Threads, WriteAsync(t)
      PROVE  TypeInv'
  <2>1. accepted + 1 \in Messages /\ accepted' \in 0 .. MaxMessages
    BY <1>2, MaxMessagesAssumption DEF WriteAsync, Messages
  <2>2. outQueue' \in Seq(Messages)
    BY <1>2, <2>1 DEF WriteAsync
  <2>. QED  BY <1>2, <2>1, <2>2 DEF WriteAsync
<1>3. ASSUME NEW t \in Threads, TakeMessage(t), UNCHANGED <<conn, sending, history>>
      PROVE  TypeInv'
  <2>1. Head(outQueue) \in Messages /\ Tail(outQueue) \in Seq(Messages)
    BY <1>3 DEF TakeMessage
  <2>. QED  BY <1>3, <2>1 DEF TakeMessage, history
<1>4. ASSUME NEW t \in Threads, NothingToWrite(t) \/ AlreadyWriting(t),
             UNCHANGED <<conn, sending, history>>
      PROVE  TypeInv'
  BY <1>4 DEF NothingToWrite, AlreadyWriting, history
<1>5. ASSUME NEW t \in Threads, DoWriteNew(t)
      PROVE  TypeInv'
  BY <1>3, <1>4, <1>5 DEF DoWriteNew
<1>6. CASE DoWriteNext
  BY <1>3, <1>4, <1>6 DEF DoWriteNext
<1>7. ASSUME NEW t \in Threads, AsyncSend(t)
      PROVE  TypeInv'
  <2>1. sending' \in Seq(Messages)
    BY <1>7 DEF AsyncSend
  <2>. QED  BY <1>7, <2>1 DEF AsyncSend, queue, history
<1>8. CASE SendCompletes
  <2>1. Head(sending) \in Messages /\ Tail(sending) \in Seq(Messages)
    BY <1>8 DEF SendCompletes
  <2>2. wire' \in Seq(Sent)
    <3>1. PICK whole \in {"whole", "cut"} :
            wire' = Append(wire, [message |-> Head(sending), whole |-> whole])
      BY <1>8 DEF SendCompletes
    <3>2. [message |-> Head(sending), whole |-> whole] \in Sent
      BY <2>1 DEF Sent
    <3>. QED  BY <3>1, <3>2
  <2>. QED  BY <1>8, <2>1, <2>2 DEF SendCompletes, queue
<1>9. CASE SendFails
  <2>1. Tail(sending) \in Seq(Messages)
    BY <1>9 DEF SendFails
  <2>. QED  BY <1>9, <2>1 DEF SendFails, queue
<1>10. CASE UNCHANGED vars
  BY <1>10 DEF vars, queue, history
<1>. QED
  BY <1>1, <1>2, <1>5, <1>6, <1>7, <1>8, <1>9, <1>10 DEF Next

\* Every reachable state of the connection has the types the code declares.
THEOREM TypeCorrect == Spec => []TypeOK
<1>1. TypeInv => TypeOK
  BY DEF TypeInv
<1>. QED  BY TypeInit, TypeStep, <1>1, PTL DEF Spec

------------------------------------------------------------------------------
(* The token *)

LEMMA TokenInit == Init => TokenInv
BY DEF Init, TokenInv, Free, BySend, ByThread, ByHandler, Taking, Threads, Js, Io

LEMMA TokenStep == TypeInv /\ TokenInv /\ [Next]_vars => TokenInv'
<1>. SUFFICES ASSUME TypeInv, TokenInv, [Next]_vars
              PROVE  TokenInv'
  OBVIOUS
<1>0. /\ sending \in Seq(Messages)
      /\ pc \in [Threads -> {"idle", "queued", "taken", "completed"}]
      /\ local \in [Threads -> Messages \cup {NoMessage}]
  BY DEF TypeInv, TypeOK
<1>. USE DEF TokenInv, Free, BySend, ByThread, ByHandler, Taking, Threads, Js, Io
<1>1. CASE HandleAccept \/ ReadError
  BY <1>1 DEF HandleAccept, ReadError, queue, history
<1>2. ASSUME NEW t \in Threads, WriteAsync(t)
      PROVE  TokenInv'
  BY <1>0, <1>2 DEF WriteAsync
<1>3. ASSUME NEW t \in Threads, DoWriteNew(t)
      PROVE  TokenInv'
  <2>1. CASE writing
    BY <1>0, <1>3, <2>1 DEF DoWriteNew, AlreadyWriting, history
  <2>2. CASE ~writing /\ TakeMessage(t)
    <3>1. Taking' = {t} /\ pc'[Io] # "completed"
      BY <1>0, <1>3, <2>2 DEF TakeMessage
    <3>. QED  BY <1>3, <2>2, <3>1 DEF DoWriteNew, TakeMessage, history
  <2>3. CASE ~writing /\ NothingToWrite(t)
    BY <1>0, <1>3, <2>3 DEF DoWriteNew, NothingToWrite, history
  <2>. QED  BY <1>3, <2>1, <2>2, <2>3 DEF DoWriteNew
<1>4. CASE DoWriteNext
  <2>1. ByHandler /\ ~broken /\ writing
    BY <1>4 DEF DoWriteNext
  <2>2. CASE TakeMessage(Io)
    <3>1. Taking' = {Io} /\ pc'[Io] # "completed"
      BY <1>0, <2>1, <2>2 DEF TakeMessage
    <3>. QED  BY <1>4, <2>1, <2>2, <3>1 DEF DoWriteNext, TakeMessage, history
  <2>3. CASE NothingToWrite(Io)
    BY <1>0, <1>4, <2>1, <2>3 DEF DoWriteNext, NothingToWrite, history
  <2>. QED  BY <1>4, <2>2, <2>3 DEF DoWriteNext
<1>5. ASSUME NEW t \in Threads, AsyncSend(t)
      PROVE  TokenInv'
  <2>1. ByThread(t) /\ ~broken /\ writing
    BY <1>5 DEF AsyncSend
  <2>2. Len(sending') = 1 /\ Taking' = {} /\ pc'[Io] # "completed"
    BY <1>0, <1>5, <2>1 DEF AsyncSend
  <2>. QED  BY <1>5, <2>1, <2>2 DEF AsyncSend, queue, history
<1>6. CASE SendCompletes
  <2>1. BySend /\ ~broken /\ writing
    BY <1>6 DEF SendCompletes
  <2>2. sending' = <<>> /\ Taking' = {} /\ pc'[Io] = "completed"
    BY <1>0, <1>6, <2>1 DEF SendCompletes
  <2>. QED  BY <1>6, <2>1, <2>2 DEF SendCompletes, queue
<1>7. CASE SendFails
  <2>1. BySend /\ ~broken /\ writing
    BY <1>7 DEF SendFails
  <2>2. sending' = <<>> /\ Taking' = {} /\ pc'[Io] # "completed"
    BY <1>0, <1>7, <2>1 DEF SendFails
  <2>. QED  BY <1>7, <2>1, <2>2 DEF SendFails, queue
<1>8. CASE UNCHANGED vars
  BY <1>8 DEF vars, queue, history
<1>. QED
  BY <1>1, <1>2, <1>3, <1>4, <1>5, <1>6, <1>7, <1>8 DEF Next

LEMMA TokenInvariant == Spec => [](TypeInv /\ TokenInv)
BY TypeInit, TypeStep, TokenInit, TokenStep, PTL DEF Spec

\* messageToWrite_ belongs to one send at a time.
THEOREM OneSendAlways == Spec => []OneSendAtATime
<1>1. TypeInv /\ TokenInv => OneSendAtATime
  <2>. SUFFICES ASSUME TypeInv, TokenInv PROVE OneSendAtATime
    OBVIOUS
  <2>1. sending \in Seq(Messages) /\ Js # Io
    BY DEF TypeInv, TypeOK, Js, Io
  <2>2. CASE Free
    BY <2>2 DEF Free, OneSendAtATime
  <2>3. CASE BySend
    BY <2>3 DEF BySend, OneSendAtATime
  <2>4. ASSUME NEW t \in Threads, ByThread(t)
        PROVE  OneSendAtATime
    BY <2>1, <2>4 DEF ByThread, OneSendAtATime
  <2>5. CASE ByHandler
    BY <2>5 DEF ByHandler, OneSendAtATime
  <2>. QED  BY <2>2, <2>3, <2>4, <2>5 DEF TokenInv
<1>. QED  BY TokenInvariant, <1>1, PTL

------------------------------------------------------------------------------
(* The pipe *)

\* What TcpConnection hides behind MessagePipe's `waiting`.
Waiting == OnTheWay \o outQueue

Msgs(w) == [i \in DOMAIN w |-> w[i].message]

LEMMA MsgsType ==
  ASSUME NEW w \in Seq(Sent)
  PROVE  /\ Msgs(w) \in Seq(Messages)
         /\ Len(Msgs(w)) = Len(w)
         /\ \A i \in 1 .. Len(w) : Msgs(w)[i] = w[i].message
<1>1. ASSUME NEW i \in 1 .. Len(w) PROVE w[i].message \in Messages
  <2>1. w[i] \in Sent
    OBVIOUS
  <2>. QED  BY <2>1 DEF Sent
<1>2. DOMAIN w = 1 .. Len(w) /\ Len(w) \in Nat
  OBVIOUS
<1>3. Msgs(w) \in [1 .. Len(w) -> Messages]
  BY <1>1, <1>2 DEF Msgs
<1>4. \A n \in Nat : \A f \in [1 .. n -> Messages] : f \in Seq(Messages) /\ Len(f) = n
  OBVIOUS
<1>5. Msgs(w) \in Seq(Messages) /\ Len(Msgs(w)) = Len(w)
  BY <1>2, <1>3, <1>4, Zenon
<1>. QED  BY <1>2, <1>5 DEF Msgs

LEMMA MsgsAppend ==
  ASSUME NEW w \in Seq(Sent), NEW e \in Sent
  PROVE  Msgs(Append(w, e)) = Append(Msgs(w), e.message)
<1>. DEFINE v == Append(w, e)
<1>1. /\ v \in Seq(Sent) /\ Len(v) = Len(w) + 1
      /\ \A i \in 1 .. Len(w) : v[i] = w[i]
      /\ v[Len(w) + 1] = e
  OBVIOUS
<1>. HIDE DEF v
<1>2. /\ Msgs(v) \in Seq(Messages) /\ Len(Msgs(v)) = Len(w) + 1
      /\ \A i \in 1 .. Len(w) + 1 : Msgs(v)[i] = v[i].message
  BY <1>1, MsgsType
<1>3. /\ Msgs(w) \in Seq(Messages) /\ Len(Msgs(w)) = Len(w)
      /\ \A i \in 1 .. Len(w) : Msgs(w)[i] = w[i].message
      /\ e.message \in Messages
  BY MsgsType DEF Sent
<1>4. /\ Append(Msgs(w), e.message) \in Seq(Messages)
      /\ Len(Append(Msgs(w), e.message)) = Len(w) + 1
      /\ \A i \in 1 .. Len(w) + 1 : Append(Msgs(w), e.message)[i] = Msgs(v)[i]
  BY <1>1, <1>2, <1>3
<1>5. Msgs(v) = Append(Msgs(w), e.message)
  BY <1>2, <1>4, SeqEqual
<1>. QED  BY <1>5 DEF v

LEMMA Singleton ==
  ASSUME NEW s \in Seq(Messages), Len(s) = 1
  PROVE  s = <<Head(s)>> /\ Head(s) \in Messages
<1>1. Head(s) \in Messages /\ s[1] = Head(s)
  OBVIOUS
<1>2. <<Head(s)>> \in Seq(Messages) /\ Len(<<Head(s)>>) = 1 /\ <<Head(s)>>[1] = Head(s)
  BY <1>1
<1>. QED  BY <1>1, <1>2, SeqEqual

\* The token's holder has the one message that is on the way.
LEMMA OnTheWayValue ==
  ASSUME TypeInv, TokenInv
  PROVE  /\ Free \/ ByHandler => OnTheWay = <<>>
         /\ BySend => OnTheWay = sending
         /\ \A t \in Threads : ByThread(t) => OnTheWay = <<local[t]>> /\ local[t] \in Messages
         /\ OnTheWay \in Seq(Messages)
         /\ Waiting \in Seq(Messages)
         /\ WireMessages \in Seq(Messages)
<1>. USE DEF Threads, Js, Io
<1>1. sending \in Seq(Messages) /\ outQueue \in Seq(Messages)
      /\ \A t \in Threads : pc[t] = "taken" => local[t] \in Messages
  BY DEF TypeInv, TypeOK
<1>2. Free \/ ByHandler => OnTheWay = <<>>
  BY <1>1 DEF Free, ByHandler, OnTheWay
<1>3. BySend => OnTheWay = sending
  BY <1>1, ConcatEmptySeq DEF BySend, OnTheWay
<1>4. ASSUME NEW t \in Threads, ByThread(t)
      PROVE  OnTheWay = <<local[t]>> /\ local[t] \in Messages
  <2>1. local[t] \in Messages /\ sending = <<>> /\ Taking = {t}
    BY <1>1, <1>4 DEF ByThread, Taking
  <2>2. <<>> \o <<local[t]>> = <<local[t]>> /\ <<local[t]>> \o <<>> = <<local[t]>>
        /\ <<>> \o <<>> = <<>>
    BY <2>1
  <2>. QED  BY <2>1, <2>2 DEF OnTheWay
<1>5. OnTheWay \in Seq(Messages)
  <2>1. \A t \in Threads : ByThread(t) => <<local[t]>> \in Seq(Messages)
    BY <1>4
  <2>2. Free \/ BySend \/ (\E t \in Threads : ByThread(t)) \/ ByHandler
    BY DEF TokenInv
  <2>3. <<>> \in Seq(Messages)
    OBVIOUS
  <2>. QED  BY <1>1, <1>2, <1>3, <1>4, <2>1, <2>2, <2>3, Zenon
<1>6. Waiting \in Seq(Messages)
  BY <1>1, <1>5, ConcatProperties DEF Waiting
<1>7. WireMessages \in Seq(Messages)
  BY MsgsType DEF TypeInv, TypeOK, WireMessages, Msgs
<1>. QED  BY <1>2, <1>3, <1>4, <1>5, <1>6, <1>7

\* What every step does to what is waiting and to what was delivered.
LEMMA PipeStep ==
  ASSUME TypeInv, TokenInv, TypeInv', TokenInv', [Next]_vars
  PROVE  \/ /\ Waiting' = Append(Waiting, accepted') /\ accepted' = accepted + 1
            /\ accepted' \in Messages
            /\ UNCHANGED <<WireMessages, broken>>
         \/ UNCHANGED <<Waiting, WireMessages, broken, accepted>>
         \/ /\ ~broken /\ Waiting # <<>>
            /\ WireMessages' = Append(WireMessages, Head(Waiting))
            /\ Waiting' = Tail(Waiting)
            /\ UNCHANGED <<broken, accepted>>
         \/ /\ Waiting # <<>> /\ Waiting' = Tail(Waiting) /\ broken'
            /\ UNCHANGED <<WireMessages, accepted>>
<1>. USE DEF Threads, Js, Io
<1>0. /\ sending \in Seq(Messages) /\ outQueue \in Seq(Messages)
      /\ OnTheWay \in Seq(Messages) /\ outQueue' \in Seq(Messages)
  BY OnTheWayValue DEF TypeInv, TypeOK
<1>1. CASE HandleAccept \/ ReadError \/ UNCHANGED vars
  BY <1>1 DEF HandleAccept, ReadError, queue, history, vars, Waiting, OnTheWay, Taking, WireMessages
<1>2. ASSUME NEW t \in Threads, WriteAsync(t)
      PROVE  /\ Waiting' = Append(Waiting, accepted') /\ accepted' = accepted + 1
             /\ accepted' \in Messages
             /\ UNCHANGED <<WireMessages, broken>>
  <2>1. accepted' = accepted + 1 /\ accepted' \in Messages
    BY <1>2, MaxMessagesAssumption DEF WriteAsync, TypeInv, TypeOK, Messages
  <2>2. OnTheWay' = OnTheWay
    <3>1. Taking' = Taking
      BY <1>2 DEF WriteAsync, Taking, TypeInv, TypeOK
    <3>. QED  BY <1>2, <3>1 DEF WriteAsync, OnTheWay
  <2>3. outQueue' = Append(outQueue, accepted')
    BY <1>2 DEF WriteAsync
  <2>4. OnTheWay \o Append(outQueue, accepted') = Append(OnTheWay \o outQueue, accepted')
    BY <1>0, <2>1
  <2>. QED  BY <1>2, <2>1, <2>2, <2>3, <2>4 DEF Waiting, WriteAsync, WireMessages
<1>3. ASSUME NEW t \in Threads, TakeMessage(t), Free \/ ByHandler, ByThread(t)'
      PROVE  Waiting' = Waiting
  <2>1. /\ outQueue # <<>> /\ outQueue' = Tail(outQueue) /\ local'[t] = Head(outQueue)
    BY <1>3 DEF TakeMessage, TypeInv, TypeOK
  <2>2. OnTheWay = <<>>
    BY <1>3, OnTheWayValue
  <2>3. OnTheWay' = <<local'[t]>>
    <3>1. sending' = <<>> /\ Taking' = {t} /\ local'[t] \in Messages
      BY <1>0, <1>3, <2>1 DEF ByThread
    <3>2. <<>> \o <<local'[t]>> = <<local'[t]>> /\ <<local'[t]>> \o <<>> = <<local'[t]>>
          /\ <<>> \o <<>> = <<>>
      BY <3>1
    <3>. QED  BY <3>1, <3>2 DEF OnTheWay
  <2>4. <<Head(outQueue)>> \o Tail(outQueue) = outQueue /\ <<>> \o outQueue = outQueue
    BY <1>0, <2>1
  <2>. QED  BY <2>1, <2>2, <2>3, <2>4 DEF Waiting
<1>4. ASSUME NEW t \in Threads, DoWriteNew(t)
      PROVE  UNCHANGED <<Waiting, WireMessages, broken, accepted>>
  <2>1. UNCHANGED <<sending, wire, broken, accepted>>
    BY <1>4 DEF DoWriteNew, history
  <2>2. CASE TakeMessage(t) /\ ~writing
    <3>1. Taking' = {t} /\ Free /\ ByThread(t)'
      BY <1>4, <2>1, <2>2
         DEF TakeMessage, TokenInv, Free, ByThread, Taking, TypeInv, TypeOK
    <3>. QED  BY <1>3, <2>1, <2>2, <3>1 DEF WireMessages
  <2>3. CASE (NothingToWrite(t) /\ outQueue' = outQueue) \/ AlreadyWriting(t)
    <3>1. outQueue' = outQueue /\ Taking' = Taking /\ local' = local
      BY <1>4, <2>3 DEF NothingToWrite, AlreadyWriting, DoWriteNew, Taking, TypeInv, TypeOK
    <3>. QED  BY <2>1, <3>1 DEF Waiting, OnTheWay, WireMessages
  <2>. QED  BY <1>4, <2>2, <2>3 DEF DoWriteNew, NothingToWrite
<1>5. CASE DoWriteNext
  <2>1. UNCHANGED <<sending, wire, broken, accepted>> /\ ByHandler
    BY <1>5 DEF DoWriteNext, history, TokenInv, Free, BySend, ByThread, ByHandler
  <2>2. CASE TakeMessage(Io)
    <3>1. ByThread(Io)'
      BY <2>1, <2>2 DEF TakeMessage, ByThread, ByHandler, Taking, TypeInv, TypeOK
    <3>2. Waiting' = Waiting
      BY <1>3, <2>1, <2>2, <3>1
    <3>. QED  BY <2>1, <3>2 DEF WireMessages
  <2>3. CASE NothingToWrite(Io)
    <3>1. outQueue' = outQueue /\ Taking' = Taking /\ local' = local
      BY <1>5, <2>3 DEF NothingToWrite, DoWriteNext, Taking, TypeInv, TypeOK
    <3>. QED  BY <2>1, <3>1 DEF Waiting, OnTheWay, WireMessages
  <2>. QED  BY <1>5, <2>2, <2>3 DEF DoWriteNext
<1>6. ASSUME NEW t \in Threads, AsyncSend(t)
      PROVE  UNCHANGED <<Waiting, WireMessages, broken, accepted>>
  <2>1. ByThread(t)
    BY <1>6 DEF AsyncSend, TokenInv, Free, BySend, ByThread, ByHandler, Taking
  <2>2. OnTheWay = <<local[t]>> /\ local[t] \in Messages
    BY <2>1, OnTheWayValue
  <2>3. Taking' = {} /\ sending' = <<local[t]>>
    BY <1>6, <2>1, <2>2 DEF AsyncSend, ByThread, Taking, TypeInv, TypeOK
  <2>4. OnTheWay' = <<local[t]>>
    BY <2>2, <2>3 DEF OnTheWay
  <2>. QED  BY <1>6, <2>2, <2>4 DEF AsyncSend, queue, history, Waiting, WireMessages
<1>7. ASSUME sending # <<>>, pc[Io] = "idle"
      PROVE  /\ BySend /\ ~broken /\ Len(sending) = 1
             /\ Waiting # <<>> /\ Head(Waiting) = Head(sending) /\ Tail(Waiting) = outQueue
  <2>1. BySend /\ ~broken
    BY <1>7 DEF TokenInv, Free, BySend, ByThread, ByHandler
  <2>2. sending = <<Head(sending)>> /\ Head(sending) \in Messages
    BY <1>0, <2>1, Singleton DEF BySend
  <2>3. Waiting = <<Head(sending)>> \o outQueue
    BY <2>1, <2>2, OnTheWayValue DEF Waiting
  <2>. DEFINE m == Head(sending)
  <2>. HIDE DEF m
  <2>4. /\ <<m>> \o outQueue # <<>>
        /\ Head(<<m>> \o outQueue) = m /\ Tail(<<m>> \o outQueue) = outQueue
    BY <1>0, <2>2 DEF m
  <2>. QED  BY <2>1, <2>3, <2>4 DEF m, BySend
<1>8. ASSUME sending # <<>>, pc[Io] = "idle", sending' = Tail(sending), outQueue' = outQueue,
             Taking' = Taking
      PROVE  Waiting' = Tail(Waiting)
  <2>1. sending' = <<>> /\ Taking' = {}
    BY <1>0, <1>7, <1>8 DEF BySend
  <2>2. OnTheWay' = <<>>
    BY <2>1 DEF OnTheWay
  <2>3. <<>> \o outQueue = outQueue
    BY <1>0
  <2>. QED  BY <1>7, <1>8, <2>2, <2>3 DEF Waiting
<1>9. CASE SendCompletes
  <2>1. /\ sending # <<>> /\ pc[Io] = "idle" /\ sending' = Tail(sending)
        /\ UNCHANGED <<outQueue, broken, accepted>>
    BY <1>9 DEF SendCompletes, queue
  <2>2. Taking' = Taking
    BY <1>9 DEF SendCompletes, Taking, TypeInv, TypeOK
  <2>3. WireMessages' = Append(WireMessages, Head(sending))
    <3>1. PICK w \in {"whole", "cut"} :
            wire' = Append(wire, [message |-> Head(sending), whole |-> w])
      BY <1>9 DEF SendCompletes
    <3>2. wire \in Seq(Sent) /\ Head(sending) \in Messages
      BY <1>0, <2>1 DEF TypeInv, TypeOK
    <3>3. [message |-> Head(sending), whole |-> w] \in Sent
      BY <3>2 DEF Sent
    <3>. DEFINE e == [message |-> Head(sending), whole |-> w]
    <3>4. e.message = Head(sending) /\ wire' = Append(wire, e)
      BY <3>1
    <3>. HIDE DEF e
    <3>5. Msgs(wire') = Append(Msgs(wire), Head(sending))
      BY <3>2, <3>3, <3>4, MsgsAppend DEF e
    <3>. QED  BY <3>5 DEF WireMessages, Msgs
  <2>. QED  BY <1>7, <1>8, <2>1, <2>2, <2>3
<1>10. CASE SendFails
  BY <1>7, <1>8, <1>10 DEF SendFails, queue, Taking, WireMessages
<1>. QED
  BY <1>1, <1>2, <1>4, <1>5, <1>6, <1>9, <1>10 DEF Next

\* TcpConnection implements the pipe: what two threads queue and two take
\* comes out in one order, each message at most once, and nothing comes out
\* of a broken connection.
THEOREM ImplementsPipe == Spec => PipeSpec
<1>1. Init => Pipe!Init
  <2>. SUFFICES ASSUME Init PROVE Pipe!Init
    OBVIOUS
  <2>1. OnTheWay = <<>> /\ outQueue = <<>> /\ WireMessages = <<>> /\ broken \in BOOLEAN
    BY DEF Init, OnTheWay, Taking, WireMessages, Threads, Js, Io
  <2>. QED  BY <2>1 DEF Pipe!Init
<1>2. TypeInv /\ TokenInv /\ TypeInv' /\ TokenInv' /\ [Next]_vars => [Pipe!Next]_(Pipe!vars)
  <2>. SUFFICES ASSUME TypeInv, TokenInv, TypeInv', TokenInv', [Next]_vars
                PROVE  [Pipe!Next]_(Pipe!vars)
    OBVIOUS
  <2>1. CASE /\ Waiting' = Append(Waiting, accepted') /\ accepted' \in Messages
             /\ UNCHANGED <<WireMessages, broken>>
    <3>1. Pipe!Accept(accepted')
      BY <2>1 DEF Pipe!Accept, Waiting
    <3>. QED  BY <2>1, <3>1 DEF Pipe!Next
  <2>2. CASE UNCHANGED <<Waiting, WireMessages, broken>>
    BY <2>2 DEF Pipe!vars, Waiting
  <2>3. CASE /\ ~broken /\ Waiting # <<>>
             /\ WireMessages' = Append(WireMessages, Head(Waiting))
             /\ Waiting' = Tail(Waiting)
             /\ UNCHANGED broken
    BY <2>3 DEF Pipe!Next, Pipe!Deliver, Waiting
  <2>4. CASE /\ Waiting # <<>> /\ Waiting' = Tail(Waiting) /\ broken'
             /\ UNCHANGED WireMessages
    BY <2>4 DEF Pipe!Next, Pipe!Break, Waiting
  <2>. QED  BY <2>1, <2>2, <2>3, <2>4, PipeStep
<1>. QED  BY TokenInvariant, <1>1, <1>2, PTL DEF Spec, PipeSpec, Pipe!Spec

------------------------------------------------------------------------------
(* Induction along a sequence *)

\* A non-empty set of natural numbers has a least element.
LEMMA LeastNatural ==
  ASSUME NEW S \in SUBSET Nat, S # {}
  PROVE  \E n \in S : \A m \in S : n <= m
<1>1. \E x \in S : \A y \in S : <<y, x>> \notin OpToRel(<, Nat)
  BY NatLessThanWellFounded, WFMin, Zenon
<1>2. \A x, y \in Nat : <<y, x>> \in OpToRel(<, Nat) <=> y < x
  BY DEF OpToRel
<1>. DEFINE R == OpToRel(<, Nat)
<1>. HIDE DEF R
<1>3. \A x \in S : (\A y \in S : <<y, x>> \notin R) => (\A y \in S : x <= y)
  <2>1. \A x, y \in Nat : <<y, x>> \in R <=> y < x
    BY <1>2 DEF R
  <2>2. ASSUME NEW x \in S, NEW y \in S, <<y, x>> \notin R
        PROVE  x <= y
    <3>1. ~(y < x)
      BY <2>1, <2>2, Zenon
    <3>. QED  BY <3>1
  <2>. QED  BY <2>2, Zenon
<1>. QED  BY <1>1, <1>3, Zenon DEF R

\* Induction along the turns of a loop, with a set in place of a predicate:
\* what holds before the first and is kept by each holds after the last.
LEMMA InductionTo ==
  ASSUME NEW N \in Nat, NEW S, 0 \in S,
         \A n \in 0 .. N - 1 : n \in S => n + 1 \in S
  PROVE  \A n \in 0 .. N : n \in S
<1>. SUFFICES ASSUME NEW n \in 0 .. N, n \notin S
              PROVE  FALSE
  OBVIOUS
<1>. DEFINE Out == {m \in 0 .. N : m \notin S}
<1>1. Out \in SUBSET Nat /\ Out # {}
  OBVIOUS
<1>2. PICK m \in Out : \A k \in Out : m <= k
  BY <1>1, LeastNatural
<1>3. m - 1 \in 0 .. N - 1 /\ m - 1 \notin Out /\ (m - 1) + 1 = m
  BY <1>2
<1>. QED  BY <1>2, <1>3

------------------------------------------------------------------------------
(* Recursive functions *)

\* f begins with a and takes its n-th step by g.
Runs(f, N, a, g) == f[0] = a /\ \A n \in 1 .. N : f[n] = g[<<n, f[n - 1]>>]

\* The loops of the codecs are recursive functions on 0 .. N: there are such.
LEMMA Recursion ==
  ASSUME NEW N \in Nat, NEW T, NEW a \in T, NEW g \in [(1 .. N) \X T -> T]
  PROVE  \E f \in [0 .. N -> T] : Runs(f, N, a, g)
<1>. DEFINE Solves(f, m) == f[0] = a /\ \A n \in 1 .. m : f[n] = g[<<n, f[n - 1]>>]
            S == {m \in 0 .. N : \E f \in [0 .. m -> T] : Solves(f, m)}
<1>1. 0 \in S
  <2>1. [n \in 0 .. 0 |-> a] \in [0 .. 0 -> T] /\ Solves([n \in 0 .. 0 |-> a], 0)
    OBVIOUS
  <2>2. \E f \in [0 .. 0 -> T] : Solves(f, 0)
    BY <2>1
  <2>3. 0 \in 0 .. N
    OBVIOUS
  <2>. HIDE DEF Solves
  <2>. QED  BY <2>2, <2>3
<1>2. ASSUME NEW m \in 0 .. N - 1, m \in S
      PROVE  m + 1 \in S
  <2>1. PICK f \in [0 .. m -> T] : Solves(f, m)
    BY <1>2
  <2>. DEFINE h == [n \in 0 .. m + 1 |-> IF n = m + 1 THEN g[<<m + 1, f[m]>>] ELSE f[n]]
  <2>2. m \in Nat /\ m + 1 \in 1 .. N /\ m \in 0 .. m
    OBVIOUS
  <2>3. g[<<m + 1, f[m]>>] \in T
    BY <2>2
  <2>4. \A n \in 0 .. m : n \in 0 .. m + 1 /\ n # m + 1 /\ h[n] = f[n]
    BY <2>2
  <2>5. h[m + 1] = g[<<m + 1, f[m]>>]
    BY <2>2
  <2>6. h \in [0 .. m + 1 -> T]
    BY <2>2, <2>3
  <2>. HIDE DEF h
  <2>7. ASSUME NEW n \in 1 .. m + 1
        PROVE  h[n] = g[<<n, h[n - 1]>>]
    <3>1. CASE n = m + 1
      <4>1. n - 1 = m
        BY <2>2, <3>1
      <4>2. h[m] = f[m]
        BY <2>2, <2>4
      <4>. QED  BY <2>5, <3>1, <4>1, <4>2
    <3>2. CASE n \in 1 .. m
      <4>1. n - 1 \in 0 .. m /\ n \in 0 .. m
        BY <2>2, <3>2
      <4>. QED  BY <2>1, <2>4, <3>2, <4>1
    <3>. QED  BY <2>2, <3>1, <3>2
  <2>8. 0 \in 0 .. m
    BY <2>2
  <2>9. Solves(h, m + 1)
    BY <2>1, <2>4, <2>7, <2>8
  <2>. QED  BY <2>2, <2>6, <2>9
<1>3. N \in S
  <2>1. \A m \in 0 .. N - 1 : m \in S => m + 1 \in S
    BY <1>2
  <2>. HIDE DEF S
  <2>. QED  BY <1>1, <2>1, InductionTo
<1>. QED  BY <1>3 DEF Runs

\* p takes its steps by g, as long as it stays in T.
Follows(p, N, T, g) == \A n \in 1 .. N : p[n - 1] \in T => p[n] = g[<<n, p[n - 1]>>]

\* And only one: what begins in the same way and takes the same steps is it.
LEMMA SameRun ==
  ASSUME NEW N \in Nat, NEW T, NEW g, NEW f \in [0 .. N -> T], Follows(f, N, T, g),
         NEW p, p[0] = f[0], Follows(p, N, T, g)
  PROVE  \A n \in 0 .. N : p[n] = f[n]
<1>. DEFINE S == {n \in 0 .. N : p[n] = f[n]}
<1>1. 0 \in S
  OBVIOUS
<1>2. ASSUME NEW n \in 0 .. N - 1, n \in S
      PROVE  n + 1 \in S
  <2>1. n + 1 \in 1 .. N /\ (n + 1) - 1 = n /\ p[n] = f[n] /\ n \in 0 .. N
    BY <1>2
  <2>2. f[n] \in T
    BY <2>1
  <2>3. f[n + 1] = g[<<n + 1, f[n]>>] /\ p[n + 1] = g[<<n + 1, p[n]>>]
    BY <2>1, <2>2 DEF Follows
  <2>. QED  BY <2>1, <2>3
<1>3. \A n \in 0 .. N - 1 : n \in S => n + 1 \in S
  BY <1>2
<1>4. \A n \in 0 .. N : n \in S
  <2>. HIDE DEF S
  <2>. QED  BY <1>1, <1>3, InductionTo
<1>. QED  BY <1>4

\* FlattenSeq appends one sequence after the other.
LEMMA FlattenSteps ==
  ASSUME NEW T, NEW seqs \in Seq(Seq(T))
  PROVE  \E f \in [0 .. Len(seqs) -> Seq(T)] :
           /\ f[0] = <<>>
           /\ \A n \in 1 .. Len(seqs) : f[n] = f[n - 1] \o seqs[n]
           /\ FlattenSeq(seqs) = f[Len(seqs)]
<1>. DEFINE N == Len(seqs)
            g == [x \in (1 .. N) \X Seq(T) |-> x[2] \o seqs[x[1]]]
<1>1. N \in Nat /\ \A n \in 1 .. N : seqs[n] \in Seq(T)
  OBVIOUS
<1>2. g \in [(1 .. N) \X Seq(T) -> Seq(T)]
  BY <1>1
<1>3. PICK f \in [0 .. N -> Seq(T)] : f[0] = <<>> /\ \A n \in 1 .. N : f[n] = g[<<n, f[n - 1]>>]
  <2>. DEFINE Q == Seq(T)
              a == <<>>
  <2>1. a \in Q
    OBVIOUS
  <2>2. N \in Nat
    BY <1>1
  <2>3. g \in [(1 .. N) \X Q -> Q]
    BY <1>2
  <2>. HIDE DEF N, g, Q, a
  <2>4. \E f \in [0 .. N -> Q] : Runs(f, N, a, g)
    BY <2>1, <2>2, <2>3, Recursion
  <2>. QED  BY <2>4 DEF Q, a, Runs
<1>4. ASSUME NEW n \in 1 .. N
      PROVE  n - 1 \in 0 .. N /\ f[n - 1] \in Seq(T) /\ f[n] = f[n - 1] \o seqs[n]
  <2>1. n - 1 \in 0 .. N
    BY <1>1
  <2>2. f[n - 1] \in Seq(T)
    BY <2>1
  <2>3. <<n, f[n - 1]>> \in (1 .. N) \X Seq(T)
    BY <2>2
  <2>4. g[<<n, f[n - 1]>>] = f[n - 1] \o seqs[n]
    BY <2>3
  <2>. QED  BY <1>3, <2>1, <2>2, <2>4
<1>5. FlattenSeq(seqs) = f[N]
  <2>1. CASE N = 0
    <3>1. FlattenSeq(seqs) = seqs /\ seqs = <<>>
      BY <2>1 DEF FlattenSeq
    <3>. QED  BY <1>3, <2>1, <3>1
  <2>2. CASE N # 0
    <3>. DEFINE Solves(h) == h = [i \in 1 .. N |-> IF i = 1 THEN seqs[i] ELSE h[i - 1] \o seqs[i]]
                h == [i \in 1 .. N |-> f[i]]
                p == CHOOSE q : Solves(q)
    <3>1. ASSUME NEW i \in 1 .. N
          PROVE  f[i] = IF i = 1 THEN seqs[i] ELSE h[i - 1] \o seqs[i]
      <4>1. CASE i = 1
        <5>1. f[1] = f[0] \o seqs[1] /\ seqs[1] \in Seq(T)
          <6>1. 1 \in 1 .. N /\ 1 - 1 = 0
            BY <4>1
          <6>2. f[1] = f[1 - 1] \o seqs[1]
            BY <1>4, <6>1
          <6>. QED  BY <1>1, <6>1, <6>2
        <5>. QED  BY <1>3, <4>1, <5>1
      <4>2. CASE i # 1
        <5>1. i - 1 \in 1 .. N
          BY <1>1, <4>2
        <5>. QED  BY <1>4, <4>2, <5>1
      <4>. QED  BY <4>1, <4>2
    <3>2. Solves(h)
      BY <3>1
    <3>3. Solves(p)
      BY <3>2
    <3>4. FlattenSeq(seqs) = p[N]
      BY <2>2 DEF FlattenSeq
    <3>. HIDE DEF p
    <3>5. ASSUME NEW n \in 1 .. N - 1, p[n] = f[n]
          PROVE  p[n + 1] = f[n + 1]
      <4>1. n + 1 \in 1 .. N /\ n + 1 # 1 /\ (n + 1) - 1 = n
        BY <1>1
      <4>2. p[n + 1] = p[n] \o seqs[n + 1]
        BY <3>3, <4>1
      <4>. QED  BY <1>4, <3>5, <4>1, <4>2
    <3>6. p[1] = f[1]
      <4>1. 1 \in 1 .. N
        BY <1>1, <2>2
      <4>. QED  BY <3>1, <3>3, <4>1
    <3>. DEFINE S == {n \in 0 .. N : n = 0 \/ p[n] = f[n]}
    <3>7. ASSUME NEW n \in 0 .. N - 1, n \in S
          PROVE  n + 1 \in S
      <4>1. CASE n = 0
        BY <1>1, <3>6, <4>1
      <4>2. CASE n # 0
        <5>1. n \in 1 .. N - 1 /\ p[n] = f[n]
          BY <1>1, <3>7, <4>2
        <5>2. p[n + 1] = f[n + 1]
          BY <3>5, <5>1
        <5>. QED  BY <1>1, <5>2
      <4>. QED  BY <4>1, <4>2
    <3>8. 0 \in S
      BY <1>1
    <3>9. \A n \in 0 .. N - 1 : n \in S => n + 1 \in S
      BY <3>7
    <3>10. N \in S
      <4>1. N \in Nat
        BY <1>1
      <4>2. N \in 0 .. N
        BY <4>1
      <4>. HIDE DEF S, N
      <4>. QED  BY <3>8, <3>9, <4>1, <4>2, InductionTo
    <3>. QED  BY <2>2, <3>4, <3>10
  <2>. QED  BY <2>1, <2>2
<1>. QED  BY <1>3, <1>4, <1>5

------------------------------------------------------------------------------
(* Delays *)

\* The remainder is the only number in range that is a multiple away.
LEMMA ModUnique ==
  ASSUME NEW m \in Nat \ {0}, NEW q \in Int, NEW r \in 0 .. m - 1
  PROVE  (q * m + r) % m = r
<1>. DEFINE x == q * m + r
            d == x \div m
            e == x % m
<1>1. x \in Int /\ d \in Int /\ e \in 0 .. m - 1 /\ x = m * d + e
  OBVIOUS
<1>. HIDE DEF d, e
<1>2. (q - d) * m = e - r
  BY <1>1
<1>3. CASE q - d = 0
  BY <1>1, <1>2, <1>3 DEF e
<1>4. CASE q - d >= 1
  <2>1. (q - d) * m >= m
    BY <1>1, <1>4
  <2>. QED BY <1>1, <1>2, <2>1
<1>5. CASE q - d <= -1
  <2>1. (q - d) * m <= -m
    BY <1>1, <1>5
  <2>. QED BY <1>1, <1>2, <2>1
<1>. QED BY <1>1, <1>3, <1>4, <1>5

\* A wrapped number is in range, and a multiple of 2 * Limit away from what it
\* was.
LEMMA WrapProperties ==
  ASSUME Limit \in Nat \ {0}, NEW n \in Int
  PROVE  /\ Wrap(n) \in -Limit .. Limit - 1
         /\ \E q \in Int : n = Wrap(n) + q * (2 * Limit)
<1>. DEFINE m == 2 * Limit
            w == (n + Limit) % m
            d == (n + Limit) \div m
<1>2. Wrap(n) = w - Limit
  BY DEF Wrap
<1>4. m \in Nat \ {0} /\ n + Limit \in Int
  OBVIOUS
<1>1. m \in Nat \ {0} /\ w \in 0 .. m - 1 /\ d \in Int /\ n + Limit = m * d + w
  <2>. HIDE DEF m
  <2>. QED  BY <1>4
<1>. HIDE DEF w, d
<1>3. n = (w - Limit) + d * m
  BY <1>1
<1>. QED BY <1>1, <1>2, <1>3

\* It is the only number in range that is.
LEMMA WrapUnique ==
  ASSUME Limit \in Nat \ {0}, NEW r \in -Limit .. Limit - 1, NEW q \in Int
  PROVE  Wrap(r + q * (2 * Limit)) = r
<1>. DEFINE m == 2 * Limit
            s == r + Limit
<1>1. m \in Nat \ {0} /\ s \in 0 .. m - 1
  OBVIOUS
<1>2. (q * m + s) % m = s
  BY <1>1, ModUnique
<1>3. (r + q * m) + Limit = q * m + s
  OBVIOUS
<1>. QED BY <1>2, <1>3 DEF Wrap

\* The inner one of two wraps changes nothing: the overflow of the product of
\* milliseconds and ticks is taken back by that of the sum.
LEMMA WrapTwice ==
  ASSUME Limit \in Nat \ {0}, NEW a \in Int, NEW b \in Int, a + b \in -Limit .. Limit - 1
  PROVE  Wrap(a + Wrap(b)) = a + b
<1>1. PICK q \in Int : b = Wrap(b) + q * (2 * Limit)
  BY WrapProperties
<1>. DEFINE w == Wrap(b)
<1>2. w \in Int
  BY WrapProperties
<1>. HIDE DEF w
<1>3. b = w + q * (2 * Limit)
  BY <1>1 DEF w
<1>4. a + w = (a + b) + (-q) * (2 * Limit)
  BY <1>2, <1>3
<1>6. -q \in Int
  OBVIOUS
<1>5. Wrap((a + b) + (-q) * (2 * Limit)) = a + b
  BY <1>6, WrapUnique, Zenon
<1>. QED BY <1>4, <1>5 DEF w

\* Whatever double a script passes to setTimeout or setInterval, and whatever
\* the widths: a delay that ends in the range of the clock is kept without its
\* fraction, also if milliseconds times ticks overflow on the way, and what is
\* no long long makes the timer due at once, not in the past or never
\* (scripthost.cpp:204 and the sum in eventloop.h:83).
THEOREM DelaysAlwaysKept ==
  ASSUME WidthsAssumption,
         NEW next \in LongLong, NEW ms \in Double
  PROVE  Kept(next, ms)
<1>. DEFINE n == Whole(ms[2])
            lost == ms[1] # "number" \/ n \notin LongLong
<1>1. Limit \in Nat \ {0} /\ Scale \in Nat \ {0} /\ Scale % 2 = 0 /\ next \in -Limit .. Limit - 1
  BY DEF WidthsAssumption, LongLong
<1>2. CASE lost
  <2>1. ToLongLong(ms) = -Limit
    BY <1>2 DEF ToLongLong
  <2>2. PICK h \in Nat : Scale = 2 * h
    BY <1>1
  <2>3. (-Limit) * Scale = 0 + (-h) * (2 * Limit)
    BY <1>1, <2>2
  <2>4. Wrap((-Limit) * Scale) = 0
    <3>1. 0 \in -Limit .. Limit - 1 /\ -h \in Int
      BY <1>1
    <3>2. Wrap(0 + (-h) * (2 * Limit)) = 0
      BY <1>1, <3>1, WrapUnique, Zenon
    <3>. QED  BY <2>3, <3>2
  <2>5. Wrap(next + 0) = next
    <3>1. next + 0 = next + 0 * (2 * Limit) /\ 0 \in Int
      BY <1>1
    <3>2. Wrap(next + 0 * (2 * Limit)) = next
      BY <1>1, <3>1, WrapUnique, Zenon
    <3>. QED  BY <3>1, <3>2
  <2>. QED  BY <1>2, <2>1, <2>4, <2>5 DEF Kept, Due
<1>3. CASE ~lost
  <2>1. ms[1] = "number" /\ ToLongLong(ms) = n /\ n \in LongLong
    BY <1>3 DEF ToLongLong
  <2>2. n \in Int /\ n * Scale \in Int /\ next \in Int
    BY <1>1, <2>1 DEF LongLong
  <2>. HIDE DEF n
  <2>3. ASSUME next + n * Scale \in LongLong
        PROVE  Due(next, ms) = next + n * Scale
    <3>1. next + n * Scale \in -Limit .. Limit - 1
      BY <2>3 DEF LongLong
    <3>. QED  BY <1>1, <2>1, <2>2, <3>1, WrapTwice DEF Due
  <2>. QED  BY <1>3, <2>3 DEF Kept, n
<1>. QED  BY <1>2, <1>3

\* Inputs tell which action made them.
LEMMA KindOfInput ==
  ASSUME CodecsNext
  PROVE  /\ input'[1] = "text" => ConvertText
         /\ input'[1] = "base64" => DecodeBase64
         /\ input'[1] = "frame" => DecodeFrame
         /\ input'[1] = "host" => AnswerHost
         /\ input'[1] = "headers" => FindHeader
         /\ input'[1] = "path" => AnswerPath
         /\ input'[1] = "delay" => AddTimer
<1>1. Forgotten => input'[1] = "none"
  BY DEF Forgotten, None
<1>2. ConvertText => input'[1] = "text"
  BY DEF ConvertText
<1>3. DecodeBase64 => input'[1] = "base64"
  <2>1. ASSUME NEW s, NEW d, NEW e, input' = <<"base64", s, d, e>>
        PROVE  input'[1] = "base64"
    BY <2>1
  <2>. QED  BY <2>1, Zenon DEF DecodeBase64
<1>4. DecodeFrame => input'[1] = "frame"
  <2>1. ASSUME NEW f, NEW size, input' = <<"frame", f, size>>
        PROVE  input'[1] = "frame"
    BY <2>1
  <2>2. ASSUME DecodeFrame
        PROVE  \E f, size : input' = <<"frame", f, size>>
    BY <2>2, SMT DEF DecodeFrame
  <2>. QED  BY <2>1, <2>2
<1>5. AnswerHost => input'[1] = "host"
  BY DEF AnswerHost
<1>6. FindHeader => input'[1] = "headers"
  BY DEF FindHeader
<1>7. AnswerPath => input'[1] = "path"
  <2>1. ASSUME NEW p, input' = <<"path", p>>
        PROVE  input'[1] = "path"
    BY <2>1
  <2>. QED  BY <2>1, Zenon DEF AnswerPath
<1>8. AddTimer => input'[1] = "delay"
  BY DEF AddTimer
<1>. QED  BY <1>1, <1>2, <1>3, <1>4, <1>5, <1>6, <1>7, <1>8 DEF CodecsNext, Pick

\* Every delay that Codecs tries is one of those, so that the invariant holds
\* for any widths, clocks and delays (scripthost.cpp:204, eventloop.h:83).
THEOREM DelaysSurviveAlways == CodecsSpec => []DelaysAreKept
<1>1. CodecsInit => DelaysAreKept
  BY DEF CodecsInit, None, DelaysAreKept
<1>2. DelaysAreKept /\ [CodecsNext]_input => DelaysAreKept'
  <2>1. CASE AddTimer
    <3>1. PICK next \in Clocks, ms \in Doubles : input' = <<"delay", next, ms>>
      BY <2>1 DEF AddTimer
    <3>2. next \in LongLong /\ ms \in Double
      <4>1. next \in LongLong /\ MaxDelay \in Nat
        BY BoundsAssumption, ClocksAssumption
      <4>2. ASSUME ms \in {<<"number", n>> : n \in -2 * MaxDelay .. 2 * MaxDelay}
            PROVE  ms \in {<<"number", h>> : h \in Int}
        BY <4>1, <4>2
      <4>. QED  BY <4>1, <4>2, Zenon DEF Doubles, Double
    <3>3. Kept(next, ms)
      BY <3>2, WidthsAssumption, DelaysAlwaysKept
    <3>. QED  BY <3>1, <3>3 DEF DelaysAreKept
  <2>2. CASE UNCHANGED input
    BY <2>2 DEF DelaysAreKept
  <2>3. CASE ~AddTimer /\ CodecsNext
    <3>1. input'[1] # "delay"
      BY <2>3, KindOfInput
    <3>. QED  BY <3>1 DEF DelaysAreKept
  <2>. QED  BY <2>1, <2>2, <2>3
<1>. QED  BY <1>1, <1>2, PTL DEF CodecsSpec

------------------------------------------------------------------------------
(* Frames *)

\* r[i] is n without its last i bytes.
Shortens(r, n, w) == r[0] = n /\ \A i \in 1 .. w : r[i] = r[i - 1] \div 256

\* The bytes taken off.
Bytes(r, w) == [i \in 1 .. w |-> r[w - i] % 256]

\* The bytes of BigEndian are bytes, and Number puts them together again.
LEMMA BytesFacts ==
  ASSUME NEW w \in Nat, NEW r \in [0 .. w -> Nat]
  PROVE  /\ Bytes(r, w) \in Seq(Nat) /\ Bytes(r, w) \in [1 .. w -> Nat]
         /\ Len(Bytes(r, w)) = w
<1>1. ASSUME NEW i \in 1 .. w
      PROVE  r[w - i] % 256 \in 0 .. 255 /\ r[w - i] % 256 \in Nat
  <2>. DEFINE m == r[w - i]
  <2>1. m \in Nat
    OBVIOUS
  <2>. HIDE DEF m
  <2>2. m % 256 \in 0 .. 255 /\ m % 256 \in Nat
    BY <2>1
  <2>. QED  BY <2>2 DEF m
<1>. QED  BY <1>1 DEF Bytes

\* BigEndian takes bytes off the end of the number.
LEMMA BigEndianSteps ==
  ASSUME NEW n \in Nat, NEW w \in Nat
  PROVE  \E r \in [0 .. w -> Nat] :
           Shortens(r, n, w) /\ BigEndian(n, w) = Bytes(r, w)
<1>. DEFINE g == [x \in (1 .. w) \X Nat |-> x[2] \div 256]
            Solves(h) == h = [i \in 0 .. w |-> IF i = 0 THEN n ELSE h[i - 1] \div 256]
            p == CHOOSE h : Solves(h)
<1>1. g \in [(1 .. w) \X Nat -> Nat]
  OBVIOUS
<1>2. PICK r \in [0 .. w -> Nat] : Runs(r, w, n, g)
  <2>. HIDE DEF g
  <2>. QED  BY <1>1, Recursion
<1>3. ASSUME NEW i \in 1 .. w
      PROVE  i - 1 \in 0 .. w /\ \A m \in Nat : g[<<i, m>>] = m \div 256
  OBVIOUS
<1>4. r[0] = n /\ \A i \in 1 .. w : r[i] = r[i - 1] \div 256
  <2>. HIDE DEF g
  <2>1. r[0] = n /\ \A i \in 1 .. w : r[i] = g[<<i, r[i - 1]>>]
    BY <1>2 DEF Runs
  <2>2. ASSUME NEW i \in 1 .. w
        PROVE  r[i] = r[i - 1] \div 256
    <3>1. r[i - 1] \in Nat
      BY <1>3
    <3>2. g[<<i, r[i - 1]>>] = r[i - 1] \div 256
      <4>1. \A m \in Nat : g[<<i, m>>] = m \div 256
        BY <1>3, Zenon
      <4>. QED  BY <3>1, <4>1, Zenon
    <3>. QED  BY <2>1, <3>2, Zenon
  <2>. QED  BY <2>1, <2>2
<1>5. Solves(r)
  BY <1>4
<1>6. Solves(p)
  <2>. HIDE DEF Solves
  <2>. QED  BY <1>5
<1>7. BigEndian(n, w) = [i \in 1 .. w |-> p[w - i] % 256]
  BY DEF BigEndian
<1>. HIDE DEF p
<1>8. p[0] = n /\ \A i \in 1 .. w : p[i] = p[i - 1] \div 256
  BY <1>6
<1>9. \A i \in 0 .. w : p[i] = r[i]
  <2>. HIDE DEF g
  <2>1. Follows(p, w, Nat, g)
    BY <1>3, <1>8 DEF Follows
  <2>2. Follows(r, w, Nat, g) /\ p[0] = r[0]
    BY <1>3, <1>4, <1>8 DEF Follows
  <2>. QED  BY <2>1, <2>2, SameRun
<1>10. \A i \in 1 .. w : w - i \in 0 .. w
  OBVIOUS
<1>11. [i \in 1 .. w |-> p[w - i] % 256] = [i \in 1 .. w |-> r[w - i] % 256]
  BY <1>9, <1>10
<1>. QED  BY <1>4, <1>7, <1>11 DEF Shortens, Bytes

\* v[i] is the number that the first i bytes make.
Lengthens(v, bytes, w) == v[0] = 0 /\ \A i \in 1 .. w : v[i] = v[i - 1] * 256 + bytes[i]

\* Number puts bytes at the end of a number.
LEMMA NumberSteps ==
  ASSUME NEW w \in Nat, NEW bytes \in [1 .. w -> Nat]
  PROVE  \E v \in [0 .. w -> Nat] : Lengthens(v, bytes, w) /\ Number(bytes) = v[w]
<1>. DEFINE g == [x \in (1 .. w) \X Nat |-> x[2] * 256 + bytes[x[1]]]
            Solves(h) == h = [i \in 0 .. w |-> IF i = 0 THEN 0 ELSE h[i - 1] * 256 + bytes[i]]
            p == CHOOSE h : Solves(h)
<1>0. Len(bytes) = w /\ \A i \in 1 .. w : bytes[i] \in Nat
  OBVIOUS
<1>1. g \in [(1 .. w) \X Nat -> Nat]
  BY <1>0
<1>2. PICK r \in [0 .. w -> Nat] : Runs(r, w, 0, g)
  <2>. HIDE DEF g
  <2>. QED  BY <1>1, Recursion
<1>3. ASSUME NEW i \in 1 .. w
      PROVE  i - 1 \in 0 .. w /\ \A m \in Nat : g[<<i, m>>] = m * 256 + bytes[i]
  BY <1>0
<1>4. r[0] = 0 /\ \A i \in 1 .. w : r[i] = r[i - 1] * 256 + bytes[i]
  <2>. HIDE DEF g
  <2>1. r[0] = 0 /\ \A i \in 1 .. w : r[i] = g[<<i, r[i - 1]>>]
    BY <1>2 DEF Runs
  <2>2. ASSUME NEW i \in 1 .. w
        PROVE  r[i] = r[i - 1] * 256 + bytes[i]
    <3>1. r[i - 1] \in Nat
      BY <1>3
    <3>2. g[<<i, r[i - 1]>>] = r[i - 1] * 256 + bytes[i]
      BY <1>3, <3>1, Zenon
    <3>. QED  BY <2>1, <3>2, Zenon
  <2>. QED  BY <2>1, <2>2
<1>5. Solves(r)
  BY <1>4
<1>6. Solves(p)
  <2>. HIDE DEF Solves
  <2>. QED  BY <1>5
<1>7. Number(bytes) = p[w]
  BY <1>0 DEF Number
<1>. HIDE DEF p
<1>8. p[0] = 0 /\ \A i \in 1 .. w : p[i] = p[i - 1] * 256 + bytes[i]
  <2>1. 0 \in 0 .. w /\ \A i \in 1 .. w : i \in 0 .. w /\ i # 0
    OBVIOUS
  <2>. QED  BY <1>6, <2>1
<1>9. \A i \in 0 .. w : p[i] = r[i]
  <2>. HIDE DEF g
  <2>1. Follows(p, w, Nat, g)
    BY <1>3, <1>8 DEF Follows
  <2>2. Follows(r, w, Nat, g) /\ p[0] = r[0]
    BY <1>3, <1>4, <1>8 DEF Follows
  <2>. QED  BY <2>1, <2>2, SameRun
<1>10. Lengthens(r, bytes, w)
  BY <1>4 DEF Lengthens
<1>11. Number(bytes) = r[w]
  <2>1. w \in 0 .. w
    OBVIOUS
  <2>. QED  BY <1>7, <1>9, <2>1
<1>. QED  BY <1>10, <1>11

\* A number that fits into w bytes is read as it was written.
LEMMA NumberOfBytes ==
  ASSUME NEW n \in Nat, NEW w \in Nat, NEW r \in [0 .. w -> Nat], Shortens(r, n, w), r[w] = 0
  PROVE  Number(Bytes(r, w)) = n
<1>. DEFINE bytes == Bytes(r, w)
<1>1. bytes \in [1 .. w -> Nat] /\ \A i \in 1 .. w : bytes[i] = r[w - i] % 256
  BY BytesFacts DEF Bytes
<1>. HIDE DEF bytes
<1>2. PICK v \in [0 .. w -> Nat] : Lengthens(v, bytes, w) /\ Number(bytes) = v[w]
  <2>1. bytes \in [1 .. w -> Nat]
    BY <1>1
  <2>. QED  BY <2>1, NumberSteps
<1>3. /\ v[0] = 0 /\ r[0] = n
      /\ \A i \in 1 .. w : v[i] = v[i - 1] * 256 + bytes[i]
      /\ \A i \in 1 .. w : r[i] = r[i - 1] \div 256
  BY <1>1, <1>2 DEF Lengthens, Shortens
<1>. DEFINE S == {i \in 0 .. w : v[i] = r[w - i]}
<1>4. 0 \in S
  BY <1>3
<1>5. ASSUME NEW i \in 0 .. w - 1, i \in S
      PROVE  i + 1 \in S
  <2>1. /\ i + 1 \in 1 .. w /\ (i + 1) - 1 = i /\ v[i] = r[w - i]
        /\ w - i \in 1 .. w /\ (w - i) - 1 = w - (i + 1) /\ w - (i + 1) \in 0 .. w
    BY <1>5
  <2>. DEFINE m == r[w - (i + 1)]
  <2>2. m \in Nat
    BY <2>1
  <2>3. r[w - i] = m \div 256
    <3>1. w - i \in 1 .. w /\ (w - i) - 1 = w - (i + 1)
      BY <2>1
    <3>. QED  BY <1>3, <3>1
  <2>4. bytes[i + 1] = m % 256
    BY <1>1, <2>1
  <2>5. v[i + 1] = v[i] * 256 + bytes[i + 1]
    <3>1. i + 1 \in 1 .. w /\ (i + 1) - 1 = i
      BY <2>1
    <3>2. v[i + 1] = v[(i + 1) - 1] * 256 + bytes[i + 1]
      BY <1>3, <3>1
    <3>. QED  BY <3>1, <3>2
  <2>6. v[i + 1] = (m \div 256) * 256 + (m % 256)
    BY <2>1, <2>3, <2>4, <2>5
  <2>. HIDE DEF m
  <2>7. (m \div 256) * 256 + (m % 256) = m
    BY <2>2, SMT
  <2>. QED  BY <2>1, <2>6, <2>7 DEF m
<1>6. \A i \in 0 .. w - 1 : i \in S => i + 1 \in S
  BY <1>5
<1>7. w \in S
  <2>1. w \in 0 .. w
    OBVIOUS
  <2>. HIDE DEF S
  <2>. QED  BY <1>4, <1>6, <2>1, InductionTo
<1>8. v[w] = r[0]
  BY <1>7
<1>. QED  BY <1>1, <1>2, <1>3, <1>8 DEF bytes

\* The three forms that a length has in a frame, and what is read from them;
\* the highest bit of the eight bytes is never set.
LEMMA LengthForms ==
  ASSUME NEW n \in Lengths
  PROVE  /\ n \in Nat
         /\ BigEndian(n, 0) = <<>>
         /\ n <= \hFFFF => /\ Len(BigEndian(n, 2)) = 2 /\ BigEndian(n, 2) \in Seq(Nat)
                           /\ Number(BigEndian(n, 2)) = n
         /\ Len(BigEndian(n, 8)) = 8 /\ BigEndian(n, 8) \in Seq(Nat)
         /\ BigEndian(n, 8)[1] \in 0 .. 127
         /\ Number(BigEndian(n, 8)) = n
<1>1. n \in Nat
  BY LengthsAssumption, SMT
<1>2. BigEndian(n, 0) = <<>>
  <2>1. PICK r : BigEndian(n, 0) = Bytes(r, 0)
    BY <1>1, BigEndianSteps
  <2>. QED  BY <2>1 DEF Bytes
<1>3. ASSUME n <= \hFFFF
      PROVE  /\ Len(BigEndian(n, 2)) = 2 /\ BigEndian(n, 2) \in Seq(Nat)
             /\ Number(BigEndian(n, 2)) = n
  <2>1. PICK r \in [0 .. 2 -> Nat] : Shortens(r, n, 2) /\ BigEndian(n, 2) = Bytes(r, 2)
    BY <1>1, BigEndianSteps
  <2>2. r[0] \in Nat /\ r[1] \in Nat /\ r[0] = n /\ r[1] = r[0] \div 256 /\ r[2] = r[1] \div 256
    BY <2>1 DEF Shortens
  <2>3. r[2] = 0
    BY <1>3, <2>2, SMT
  <2>4. Number(Bytes(r, 2)) = n
    BY <1>1, <2>1, <2>3, NumberOfBytes
  <2>5. Len(Bytes(r, 2)) = 2 /\ Bytes(r, 2) \in Seq(Nat)
    BY BytesFacts
  <2>. QED  BY <2>1, <2>4, <2>5
<1>4. PICK r \in [0 .. 8 -> Nat] : Shortens(r, n, 8) /\ BigEndian(n, 8) = Bytes(r, 8)
  BY <1>1, BigEndianSteps
<1>5. r[0] = n
  BY <1>4 DEF Shortens
<1>6. /\ r[1] = r[0] \div 256 /\ r[2] = r[1] \div 256 /\ r[3] = r[2] \div 256 /\ r[4] = r[3] \div 256
      /\ r[5] = r[4] \div 256 /\ r[6] = r[5] \div 256 /\ r[7] = r[6] \div 256 /\ r[8] = r[7] \div 256
  BY <1>4 DEF Shortens
<1>7. r[0] \in Nat /\ r[2] \in Nat /\ r[4] \in Nat /\ r[6] \in Nat
  BY <1>4
<1>8. r[6] < 32768
  <2>. DEFINE Byte(m) == m \div 256
              Two(m)  == m \div 65536
  <2>1. \A m \in Nat : Byte(Byte(m)) = Two(m)
    BY SMT
  <2>2. r[2] = Byte(Byte(r[0])) /\ r[4] = Byte(Byte(r[2])) /\ r[6] = Byte(Byte(r[4]))
    <3>1. /\ r[1] = Byte(r[0]) /\ r[2] = Byte(r[1]) /\ r[3] = Byte(r[2])
          /\ r[4] = Byte(r[3]) /\ r[5] = Byte(r[4]) /\ r[6] = Byte(r[5])
      BY <1>6
    <3>. HIDE DEF Byte
    <3>. QED  BY <3>1
  <2>3. r[6] = Two(Two(Two(r[0])))
    <3>. HIDE DEF Byte, Two
    <3>. QED  BY <1>7, <2>1, <2>2
  <2>4. Two(Two(Two(r[0]))) \div 32768 = 0
    BY <1>5, LengthsAssumption, SMT
  <2>5. r[6] \div 32768 = 0
    <3>. HIDE DEF Two
    <3>. QED  BY <2>3, <2>4
  <2>. DEFINE m == r[6]
  <2>6. m \in Nat /\ m \div 32768 = 0
    BY <1>7, <2>5
  <2>. HIDE DEF m
  <2>7. m < 32768
    BY <2>6, SMT
  <2>. QED  BY <2>7 DEF m
<1>9. r[7] \in 0 .. 127 /\ r[8] = 0
  <2>. DEFINE m == r[6]
  <2>1. m \in Nat /\ m < 32768
    BY <1>7, <1>8
  <2>2. r[7] = m \div 256 /\ r[8] = (m \div 256) \div 256
    <3>1. r[7] = m \div 256 /\ r[8] = r[7] \div 256
      BY <1>6
    <3>. QED  BY <3>1
  <2>. HIDE DEF m
  <2>3. m \div 256 \in 0 .. 127 /\ (m \div 256) \div 256 = 0
    BY <2>1, SMT
  <2>. QED  BY <2>2, <2>3
<1>10. Len(Bytes(r, 8)) = 8 /\ Bytes(r, 8) \in Seq(Nat)
  BY BytesFacts
<1>11. Bytes(r, 8)[1] \in 0 .. 127
  <2>1. Bytes(r, 8)[1] = r[8 - 1] % 256
    BY DEF Bytes
  <2>. QED  BY <1>9, <2>1
<1>12. Number(Bytes(r, 8)) = n
  BY <1>1, <1>4, <1>9, NumberOfBytes
<1>. QED  BY <1>1, <1>2, <1>3, <1>4, <1>10, <1>11, <1>12

\* A header is two bytes and those of the length.
LEMMA HeaderParts ==
  ASSUME NEW a \in Nat, NEW b \in Nat, NEW t \in Seq(Nat), NEW head, head = <<a, b>> \o t
  PROVE  /\ head \in Seq(Nat) /\ Len(head) = 2 + Len(t)
         /\ head[1] = a /\ head[2] = b
         /\ Len(t) > 0 => head[3] = t[1]
         /\ SubSeq(head, 3, 2 + Len(t)) = t
<1>1. <<a, b>> \in Seq(Nat) /\ Len(<<a, b>>) = 2
  OBVIOUS
<1>2. head \in Seq(Nat) /\ Len(head) = 2 + Len(t)
  BY <1>1, ConcatProperties
<1>3. \A i \in 1 .. Len(t) : head[i + 2] = t[i]
  BY <1>1, <1>2, ConcatProperties
<1>4. head[1] = a /\ head[2] = b
  BY <1>1, <1>2, ConcatProperties
<1>5. Len(t) > 0 => head[3] = t[1]
  <2>1. Len(t) > 0 => 1 \in 1 .. Len(t) /\ 1 + 2 = 3
    OBVIOUS
  <2>. QED  BY <1>3, <2>1
<1>6. SubSeq(head, 3, 2 + Len(t)) = t
  <2>. DEFINE n == Len(t)
              u == SubSeq(head, 3, 2 + n)
  <2>1. n \in Nat
    OBVIOUS
  <2>2. Len(u) = n /\ u \in Seq(Nat) /\ \A i \in 1 .. n : u[i] = head[i + 2]
    BY <1>2, <2>1
  <2>3. \A i \in 1 .. n : u[i] = t[i]
    BY <1>3, <2>2
  <2>. HIDE DEF u
  <2>4. u = t
    BY <2>2, <2>3, SeqEqual
  <2>. QED  BY <2>4 DEF u
<1>. QED  BY <1>2, <1>4, <1>5, <1>6

\* The number of bytes of the length.
Extended(length7) == IF length7 <= 125 THEN 0 ELSE IF length7 = 126 THEN 2 ELSE 8

\* The length that the second byte and those after it tell, and whether it is
\* over the maximum.
LengthOf(b, t) == IF Extended(b % 128) = 0 THEN b % 128 ELSE Number(t)
TooLong(b, t)  == Extended(b % 128) = 8 /\ t[1] >= 128

\* What decode_frame_hybi17 goes by: the first byte a, the second b, whether
\* the length is over the maximum, the length and the number of bytes there.
Decision(a, b, over, length, size) ==
  LET compressed == (a \div 64) % 2 = 1
  IN  IF size < 2 THEN Verdict("incomplete", FALSE)
      ELSE IF a < 128 \/ (a \div 16) % 4 # 0 \/ a % 16 \notin {1, 8} \/ b < 128
        THEN Verdict("error", compressed)
      ELSE IF size - 2 < Extended(b % 128) THEN Verdict("incomplete", compressed)
      ELSE IF over THEN Verdict("error", compressed)
      ELSE IF size >= 4 /\ size - 4 < length THEN Verdict("incomplete", compressed)
      ELSE [verdict    |-> IF a % 16 = 8 THEN "close" ELSE "ok",
            consumed   |-> AsInt(2 + Extended(b % 128) + 4 + length),
            length     |-> length,
            compressed |-> compressed]

\* What decode_frame_hybi17 answers, once what it has read is known
\* (inspector_socket.cc:256).
LEMMA Decided ==
  ASSUME NEW a \in Nat, NEW b \in Nat, NEW t \in Seq(Nat), Len(t) = Extended(b % 128),
         NEW size \in Nat
  PROVE  decode_frame_hybi17(<<a, b>> \o t, size)
           = Decision(a, b, TooLong(b, t), LengthOf(b, t), size)
<1>. DEFINE head    == <<a, b>> \o t
            packed  == (head[1] \div 64) % 2 = 1
            length7 == head[2] % 128
            ext     == CASE length7 <= 125 -> 0 [] length7 = 126 -> 2 [] OTHER -> 8
            len     == IF ext = 0 THEN length7 ELSE Number(SubSeq(head, 3, 2 + ext))
            l       == b % 128
            x       == Extended(l)
            over    == TooLong(b, t)
            length  == LengthOf(b, t)
<1>1. head[1] = a /\ head[2] = b /\ (Len(t) > 0 => head[3] = t[1]) /\ SubSeq(head, 3, 2 + Len(t)) = t
  BY HeaderParts
<1>. HIDE DEF head
<1>2. length7 = l
  BY <1>1
<1>3. ext = x
  BY <1>2 DEF Extended
<1>4. len = length
  <2>. HIDE DEF ext, length7
  <2>1. SubSeq(head, 3, 2 + ext) = t
    BY <1>1, <1>3
  <2>2. len = IF ext = 0 THEN length7 ELSE Number(t)
    BY <2>1
  <2>. QED  BY <1>2, <1>3, <2>2 DEF LengthOf
<1>5. (ext = 8 /\ head[3] >= 128) <=> over
  <2>1. CASE x = 8
    BY <1>1, <1>3, <2>1, SMTT(20) DEF TooLong
  <2>2. CASE x # 8
    BY <1>3, <2>2 DEF TooLong
  <2>. QED  BY <2>1, <2>2
<1>6. Refused(head) <=> a < 128 \/ (a \div 16) % 4 # 0 \/ a % 16 \notin {1, 8} \/ b < 128
  BY <1>1 DEF Refused, OpText, OpClose
<1>7. decode_frame_hybi17(head, size)
        = IF size < 2 THEN Verdict("incomplete", FALSE)
          ELSE IF Refused(head) THEN Verdict("error", packed)
          ELSE IF size - 2 < ext THEN Verdict("incomplete", packed)
          ELSE IF ext = 8 /\ head[3] >= 128 THEN Verdict("error", packed)
          ELSE IF size >= 4 /\ size - 4 < len THEN Verdict("incomplete", packed)
          ELSE [verdict    |-> IF head[1] % 16 = OpClose THEN "close" ELSE "ok",
                consumed   |-> AsInt(2 + ext + 4 + len),
                length     |-> len,
                compressed |-> packed]
  BY DEF decode_frame_hybi17
<1>8. over \in BOOLEAN
  BY DEF TooLong
<1>. HIDE DEF ext, len, length7, over, length
<1>9. decode_frame_hybi17(head, size) = Decision(a, b, over, length, size)
  BY <1>1, <1>3, <1>4, <1>5, <1>6, <1>7, <1>8, SMT DEF Decision, Verdict, OpClose
<1>. QED  BY <1>9 DEF head, over, length

\* The first byte of a client's frame.
First(final, rsv1, rsv23, op) == (IF final THEN 128 ELSE 0) + 64 * rsv1 + 16 * rsv23 + op

\* What a first byte says.
Tells(a, final, rsv1, rsv23, op) ==
  /\ a \in Nat /\ (a < 128 <=> ~final)
  /\ (a \div 16) % 4 = rsv23 /\ a % 16 = op /\ (a \div 64) % 2 = rsv1

\* The two header bytes of a client's frame tell its fields.
LEMMA FirstByte ==
  ASSUME NEW final \in BOOLEAN, NEW rsv1 \in {0, 1}, NEW rsv23 \in {0, 2}, NEW op \in 0 .. 9
  PROVE  Tells(First(final, rsv1, rsv23, op), final, rsv1, rsv23, op)
<1>1. CASE final /\ rsv1 = 0 /\ rsv23 = 0
  BY <1>1 DEF First, Tells
<1>2. CASE final /\ rsv1 = 0 /\ rsv23 = 2
  BY <1>2 DEF First, Tells
<1>3. CASE final /\ rsv1 = 1 /\ rsv23 = 0
  BY <1>3 DEF First, Tells
<1>4. CASE final /\ rsv1 = 1 /\ rsv23 = 2
  BY <1>4 DEF First, Tells
<1>5. CASE ~final /\ rsv1 = 0 /\ rsv23 = 0
  BY <1>5 DEF First, Tells
<1>6. CASE ~final /\ rsv1 = 0 /\ rsv23 = 2
  BY <1>6 DEF First, Tells
<1>7. CASE ~final /\ rsv1 = 1 /\ rsv23 = 0
  BY <1>7 DEF First, Tells
<1>8. CASE ~final /\ rsv1 = 1 /\ rsv23 = 2
  BY <1>8 DEF First, Tells
<1>. QED  BY <1>1, <1>2, <1>3, <1>4, <1>5, <1>6, <1>7, <1>8

\* The form can hold the length.
Fits(n, form) == (form = 0 => n <= 125) /\ (form = 2 => n <= \hFFFF)

\* The bytes of a length after the first two.
LEMMA TailFacts ==
  ASSUME NEW n \in Lengths, NEW form \in {0, 2, 8}, Fits(n, form)
  PROVE  /\ n \in Nat
         /\ BigEndian(n, form) \in Seq(Nat) /\ Len(BigEndian(n, form)) = form
         /\ form # 0 => Number(BigEndian(n, form)) = n
         /\ form = 8 => BigEndian(n, form)[1] \in 0 .. 127
<1>1. n \in Nat
  BY LengthForms, SMT
<1>2. CASE form = 0
  <2>1. BigEndian(n, 0) = <<>>
    BY LengthForms, SMT
  <2>2. <<>> \in Seq(Nat) /\ Len(<<>>) = 0
    OBVIOUS
  <2>3. form # 8
    BY <1>2
  <2>. QED  BY <1>1, <1>2, <2>1, <2>2, <2>3
<1>3. CASE form = 2
  BY <1>1, <1>3, LengthForms, SMT DEF Fits
<1>4. CASE form = 8
  BY <1>1, <1>4, LengthForms, SMT
<1>. QED  BY <1>2, <1>3, <1>4

\* What a client's frame is decoded by.
LEMMA ClientHeader ==
  ASSUME NEW f \in ClientFrame, NEW size \in Nat,
         Fits(f.length, f.form), f.over => f.form = 8
  PROVE  \E a, b, length :
           /\ a \in Nat /\ b \in Nat
           /\ decode_frame_hybi17(FrameHeader(f), size) = Decision(a, b, f.over, length, size)
           /\ (a < 128) <=> ~f.final
           /\ (a \div 16) % 4 = f.rsv23 /\ a % 16 = f.op /\ (a \div 64) % 2 = f.rsv1
           /\ (b < 128) <=> ~f.masked
           /\ Extended(b % 128) = f.form
           /\ ~f.over => length = f.length
<1>1. /\ f.length \in Lengths /\ f.form \in {0, 2, 8} /\ f.final \in BOOLEAN /\ f.masked \in BOOLEAN
      /\ f.over \in BOOLEAN /\ f.rsv1 \in {0, 1} /\ f.rsv23 \in {0, 2} /\ f.op \in {0, 1, 2, 8, 9}
  BY DEF ClientFrame
<1>. DEFINE n == f.length
            l == IF f.form = 0 THEN n ELSE IF f.form = 2 THEN 126 ELSE 127
            a == First(f.final, f.rsv1, f.rsv23, f.op)
            b == (IF f.masked THEN 128 ELSE 0) + l
            t == IF f.over THEN <<128, 0, 0, 0, 0, 0, 0, 0>> ELSE BigEndian(n, f.form)
<1>2. n \in Nat /\ (f.form = 0 => n <= 125)
  <2>1. n \in Nat
    BY <1>1, TailFacts
  <2>. QED  BY <2>1, SMT DEF Fits
<1>3. FrameHeader(f) = <<a, b>> \o t
  BY <1>1 DEF FrameHeader, First
<1>4. /\ a \in Nat /\ (a < 128 <=> ~f.final)
      /\ (a \div 16) % 4 = f.rsv23 /\ a % 16 = f.op /\ (a \div 64) % 2 = f.rsv1
  <2>1. f.op \in 0 .. 9
    BY <1>1
  <2>2. Tells(a, f.final, f.rsv1, f.rsv23, f.op)
    BY <1>1, <2>1, FirstByte
  <2>. HIDE DEF a
  <2>. QED  BY <2>2 DEF Tells
<1>5. b \in Nat /\ (b < 128 <=> ~f.masked) /\ b % 128 = l
  <2>1. l \in 0 .. 127
    BY <1>1, <1>2
  <2>. DEFINE k == l
  <2>. HIDE DEF k
  <2>2. /\ k \in Nat /\ 128 + k \in Nat /\ k < 128 /\ ~(128 + k < 128)
        /\ k % 128 = k /\ (128 + k) % 128 = k
    BY <2>1 DEF k
  <2>. QED  BY <1>1, <2>2 DEF k
<1>6. Extended(l) = f.form
  BY <1>1, <1>2 DEF Extended
<1>7. /\ ~f.over => t = BigEndian(n, f.form)
      /\ t \in Seq(Nat) /\ Len(t) = f.form
      /\ TooLong(b, t) <=> f.over
      /\ ~f.over => LengthOf(b, t) = n
  <2>1. Extended(b % 128) = f.form /\ (f.form = 0 => b % 128 = n)
    BY <1>5, <1>6
  <2>. HIDE DEF b, n
  <2>2. CASE f.over
    <3>1. t = <<128, 0, 0, 0, 0, 0, 0, 0>>
      BY <2>2
    <3>. HIDE DEF t
    <3>2. t \in Seq(Nat) /\ Len(t) = 8 /\ t[1] = 128
      BY <3>1
    <3>. QED  BY <2>1, <2>2, <3>2 DEF TooLong
  <2>3. CASE ~f.over
    <3>1. t = BigEndian(n, f.form)
      BY <2>3
    <3>. HIDE DEF t
    <3>2. /\ t \in Seq(Nat) /\ Len(t) = f.form
          /\ f.form # 0 => Number(t) = n
          /\ f.form = 8 => t[1] \in 0 .. 127
      <4>1. f.length \in Lengths /\ f.form \in {0, 2, 8} /\ Fits(f.length, f.form)
        BY <1>1
      <4>2. /\ BigEndian(f.length, f.form) \in Seq(Nat) /\ Len(BigEndian(f.length, f.form)) = f.form
            /\ f.form # 0 => Number(BigEndian(f.length, f.form)) = f.length
            /\ f.form = 8 => BigEndian(f.length, f.form)[1] \in 0 .. 127
        <5>. HIDE DEF n, l
        <5>. QED  BY <4>1, TailFacts, ZenonT(30)
      <4>3. n = f.length
        BY DEF n
      <4>. QED  BY <3>1, <4>2, <4>3
    <3>3. f.form = 8 => ~(t[1] >= 128)
      <4>. DEFINE m == t[1]
      <4>. HIDE DEF m
      <4>1. m \in 0 .. 127 => ~(m >= 128)
        OBVIOUS
      <4>. QED  BY <3>2, <4>1 DEF m
    <3>4. ~TooLong(b, t)
      BY <2>1, <3>3 DEF TooLong
    <3>5. LengthOf(b, t) = n
      BY <2>1, <3>2 DEF LengthOf
    <3>. QED  BY <2>3, <3>1, <3>2, <3>4, <3>5
  <2>. QED  BY <1>1, <2>2, <2>3
<1>8. Extended(b % 128) = f.form
  BY <1>5, <1>6
<1>. HIDE DEF a, b, t
<1>9. decode_frame_hybi17(<<a, b>> \o t, size) = Decision(a, b, TooLong(b, t), LengthOf(b, t), size)
  <2>1. Len(t) = Extended(b % 128)
    BY <1>7, <1>8
  <2>2. a \in Nat
    BY <1>4
  <2>3. b \in Nat
    BY <1>5
  <2>4. t \in Seq(Nat)
    BY <1>7
  <2>. QED  BY <2>1, <2>2, <2>3, <2>4, Decided
<1>10. TooLong(b, t) = f.over
  BY <1>1, <1>7 DEF TooLong
<1>11. decode_frame_hybi17(FrameHeader(f), size) = Decision(a, b, f.over, LengthOf(b, t), size)
  BY <1>3, <1>9, <1>10
<1>. DEFINE k == LengthOf(b, t)
<1>12. /\ a \in Nat /\ b \in Nat
       /\ decode_frame_hybi17(FrameHeader(f), size) = Decision(a, b, f.over, k, size)
       /\ (a < 128) <=> ~f.final
       /\ (a \div 16) % 4 = f.rsv23 /\ a % 16 = f.op /\ (a \div 64) % 2 = f.rsv1
       /\ (b < 128) <=> ~f.masked
       /\ Extended(b % 128) = f.form
       /\ ~f.over => k = f.length
  BY <1>4, <1>5, <1>7, <1>8, <1>11
<1>. HIDE DEF k
<1>. QED  BY <1>12, Zenon

\* A frame that an input may hold.
Sendable(f) == f \in ClientFrame /\ Fits(f.length, f.form) /\ (f.over => f.form = 8)

\* What the first two bytes show, compression apart.
Legal(f) == f.final /\ f.rsv23 = 0 /\ f.op \in {1, 8} /\ f.masked

\* What it is decoded to, told by its fields; c tells whether it is compressed.
Result(f, size, c) ==
  IF size < 2 THEN Verdict("incomplete", FALSE)
  ELSE IF ~Legal(f) THEN Verdict("error", c)
  ELSE IF size - 2 < f.form THEN Verdict("incomplete", c)
  ELSE IF f.over THEN Verdict("error", c)
  ELSE IF size >= 4 /\ size - 4 < f.length THEN Verdict("incomplete", c)
  ELSE [verdict    |-> IF f.op = 8 THEN "close" ELSE "ok",
        consumed   |-> AsInt(2 + f.form + 4 + f.length),
        length     |-> f.length,
        compressed |-> c]

\* An int counts what is below its limit, and nothing else.
LEMMA IntCounts ==
  ASSUME NEW n \in Nat
  PROVE  AsInt(n) = n <=> n < IntLimit
<1>. DEFINE m == 2 * IntLimit
            x == n + IntLimit
            w == x % m
<1>1. IntLimit \in Nat \ {0}
  BY IntAssumption
<1>2. m \in Nat \ {0} /\ x \in Nat /\ m = 2 * IntLimit
  BY <1>1
<1>3. AsInt(n) = w - IntLimit
  BY DEF AsInt
<1>4. w \in 0 .. m - 1
  <2>. HIDE DEF m, x
  <2>. QED  BY <1>2
<1>5. CASE n < IntLimit
  <2>1. x \in 0 .. m - 1
    BY <1>1, <1>5
  <2>2. (0 * m + x) % m = x
    <3>. HIDE DEF m, x
    <3>. QED  BY <1>2, <2>1, ModUnique
  <2>3. 0 * m + x = x
    <3>. HIDE DEF m, x
    <3>. QED  BY <1>2
  <2>4. w = x
    BY <2>2, <2>3
  <2>. QED  BY <1>1, <1>3, <1>5, <2>4
<1>6. CASE ~(n < IntLimit)
  <2>. HIDE DEF w
  <2>. QED  BY <1>1, <1>2, <1>3, <1>4, <1>6
<1>. QED  BY <1>5, <1>6

\* The whole answer to a client's frame.
LEMMA FrameResult ==
  ASSUME NEW f, Sendable(f), NEW size \in Nat
  PROVE  decode_frame_hybi17(FrameHeader(f), size) = Result(f, size, f.rsv1 = 1)
<1>1. f \in ClientFrame /\ Fits(f.length, f.form) /\ (f.over => f.form = 8)
  BY DEF Sendable
<1>2. PICK a, b, length :
           /\ a \in Nat /\ b \in Nat
           /\ decode_frame_hybi17(FrameHeader(f), size) = Decision(a, b, f.over, length, size)
           /\ (a < 128) <=> ~f.final
           /\ (a \div 16) % 4 = f.rsv23 /\ a % 16 = f.op /\ (a \div 64) % 2 = f.rsv1
           /\ (b < 128) <=> ~f.masked
           /\ Extended(b % 128) = f.form
           /\ ~f.over => length = f.length
  BY <1>1, ClientHeader
<1>3. (a < 128 \/ (a \div 16) % 4 # 0 \/ a % 16 \notin {1, 8} \/ b < 128) <=> ~Legal(f)
  BY <1>2 DEF Legal
<1>4. CASE f.over
  BY <1>2, <1>3, <1>4 DEF Decision, Result, Verdict
<1>5. CASE ~f.over
  BY <1>2, <1>3, <1>5 DEF Decision, Result, Verdict
<1>. QED  BY <1>4, <1>5

\* Frames are decoded for what they are.
LEMMA WholeFrames ==
  ASSUME NEW f, Sendable(f), NEW size \in Nat, input' = <<"frame", f, size>>
  PROVE  FramesDecode'
<1>. DEFINE c      == f.rsv1 = 1
            d      == Result(f, size, c)
            p      == ParseWsFrames(FrameHeader(f), size)
            begins == Legal(f) /\ f.rsv1 = 0
            legal  == begins /\ ~f.over
            total  == 2 + f.form + 4 + f.length
<1>1. /\ f.length \in Nat /\ f.form \in {0, 2, 8} /\ f.over \in BOOLEAN /\ f.rsv1 \in {0, 1}
      /\ f.over => f.form = 8
  <2>1. /\ f \in ClientFrame /\ f.length \in Lengths /\ f.form \in {0, 2, 8} /\ f.over \in BOOLEAN
        /\ f.rsv1 \in {0, 1}
    BY DEF Sendable, ClientFrame
  <2>2. f.length \in Nat
    BY <2>1, LengthForms, SMT
  <2>. QED  BY <2>1, <2>2 DEF Sendable
<1>2. decode_frame_hybi17(FrameHeader(f), size) = d
  BY FrameResult
<1>0. c \in BOOLEAN /\ (c <=> f.rsv1 = 1)
  OBVIOUS
<1>. HIDE DEF c
<1>3. TotalSize(f) = total
  BY DEF TotalSize
<1>4. /\ p.does = IF d.compressed \/ d.verdict = "error" THEN "ended" ELSE d.verdict
      /\ p.length = d.length /\ p.processed = IF p.does = "ok" THEN d.consumed ELSE 0
  <2>. HIDE DEF d
  <2>. QED  BY <1>2 DEF ParseWsFrames
<1>. DEFINE short == size < 2 \/ size - 2 < f.form \/ (size >= 4 /\ size - 4 < f.length)
<1>5. ASSUME legal, ~short
      PROVE  /\ p.does = IF f.op = 8 THEN "close" ELSE "ok"
             /\ p.length = f.length
             /\ size < 4 \/ size + 2 + f.form >= total
             /\ p.does = "ok" => (p.processed = total <=> total < IntLimit)
  <2>1. d = [verdict |-> IF f.op = 8 THEN "close" ELSE "ok", consumed |-> AsInt(total),
             length |-> f.length, compressed |-> FALSE]
    <3>1. c = FALSE
      BY <1>0, <1>1, <1>5
    <3>. QED  BY <1>5, <3>1 DEF Result
  <2>2. size < 4 \/ size + 2 + f.form >= total
    BY <1>1, <1>5
  <2>3. total \in Nat
    BY <1>1
  <2>4. AsInt(total) = total <=> total < IntLimit
    <3>. HIDE DEF total
    <3>. QED  BY <2>3, IntCounts
  <2>. HIDE DEF d, p, total
  <2>. QED  BY <1>4, <2>1, <2>2, <2>4
<1>6. ASSUME legal, short
      PROVE  p.does = "incomplete" /\ p.processed = 0 /\ size < total
  <2>1. d = Verdict("incomplete", FALSE)
    <3>1. c = FALSE
      BY <1>0, <1>1, <1>6
    <3>. QED  BY <1>6, <3>1 DEF Result
  <2>2. d.verdict = "incomplete" /\ d.compressed = FALSE
    BY <2>1 DEF Verdict
  <2>3. size < total
    BY <1>1, <1>6
  <2>. HIDE DEF d, p
  <2>. QED  BY <1>4, <2>2, <2>3
<1>7. ASSUME ~legal
      PROVE  /\ p.does \in {"incomplete", "ended"} /\ p.processed = 0
             /\ p.does = "ended" <=> size >= IF begins THEN 10 ELSE 2
  <2>1. CASE size < 2
    <3>1. d.verdict = "incomplete" /\ d.compressed = FALSE
      BY <2>1 DEF Result, Verdict
    <3>2. ~(size >= IF begins THEN 10 ELSE 2)
      BY <2>1
    <3>. HIDE DEF d, p, begins
    <3>. QED  BY <1>4, <3>1, <3>2
  <2>2. CASE size >= 2 /\ begins
    <3>1. f.over /\ f.form = 8
      BY <1>1, <1>7, <2>2
    <3>2. /\ size - 2 < 8 => d.verdict = "incomplete" /\ d.compressed = FALSE
          /\ ~(size - 2 < 8) => d.verdict = "error"
      <4>1. c = FALSE
        BY <1>0, <1>1, <2>2
      <4>. QED  BY <2>2, <3>1, <4>1 DEF Result, Verdict
    <3>3. size - 2 < 8 <=> ~(size >= 10)
      OBVIOUS
    <3>. HIDE DEF d, p, begins
    <3>. QED  BY <1>4, <2>2, <3>2, <3>3
  <2>3. CASE size >= 2 /\ ~begins
    <3>1. d.compressed \/ d.verdict = "error"
      <4>1. CASE ~Legal(f)
        BY <2>3, <4>1 DEF Result, Verdict
      <4>2. CASE Legal(f)
        <5>1. c = TRUE
          BY <1>0, <1>1, <2>3, <4>2
        <5>. QED  BY <2>3, <4>2, <5>1 DEF Result, Verdict
      <4>. QED  BY <4>1, <4>2
    <3>. HIDE DEF d, p, begins
    <3>. QED  BY <1>4, <2>3, <3>1
  <2>. QED  BY <2>1, <2>2, <2>3
<1>8. input'[1] = "frame" /\ input'[2] = f /\ input'[3] = size
  OBVIOUS
<1>9. begins <=> f.final /\ f.rsv1 = 0 /\ f.rsv23 = 0 /\ f.op \in {OpText, OpClose} /\ f.masked
  BY DEF Legal, OpText, OpClose
<1>. DEFINE Outcome(ok) ==
       IF ok /\ p.does # "incomplete"
         THEN /\ p.does = IF f.op = OpClose THEN "close" ELSE "ok"
              /\ p.length = f.length
              /\ size < 4 \/ size + 2 + f.form >= TotalSize(f)
              /\ p.does = "ok" => (p.processed = TotalSize(f) <=> TotalSize(f) < IntLimit)
         ELSE /\ p.does \in {"incomplete", "ended"} /\ p.processed = 0
              /\ ok => size < TotalSize(f)
              /\ p.does = "ended" <=> ~ok /\ size >= IF begins THEN 10 ELSE 2
<1>10. Outcome(legal)
  <2>. HIDE DEF p, begins, short, total
  <2>1. CASE legal /\ ~short
    <3>1. p.does # "incomplete"
      BY <1>5, <2>1
    <3>. QED  BY <1>3, <1>5, <2>1, <3>1 DEF OpClose
  <2>2. CASE legal /\ short
    BY <1>3, <1>6, <2>2
  <2>3. CASE ~legal
    BY <1>7, <2>3
  <2>. QED  BY <2>1, <2>2, <2>3
<1>. QED  BY <1>8, <1>9, <1>10 DEF FramesDecode

\* The headers of frames that are sent.
LEMMA HeaderForms ==
  ASSUME NEW n \in Nat
  PROVE  encode_frame_hybi17(n)
           = <<129>> \o (IF n <= 125 THEN <<n>> ELSE IF Fits(n, 2) THEN <<126>> \o BigEndian(n, 2)
                                                        ELSE <<127>> \o BigEndian(n, 8))
<1>1. Fits(n, 2) <=> n <= \hFFFF
  BY SMT DEF Fits
<1>. QED  BY <1>1, SMT DEF encode_frame_hybi17, OpText

\* A reader finds the length in the header that is sent.
LEMMA HeadersTell ==
  ASSUME NEW n \in Lengths
  PROVE  LET head == encode_frame_hybi17(n)
             d    == decode_frame_hybi17([head EXCEPT ![2] = @ + 128], Len(head) + 4 + n)
         IN  d.verdict = "ok" /\ ~d.compressed /\ d.length = n /\ d.consumed = AsInt(Len(head) + 4 + n)
<1>. DEFINE form == IF n <= 125 THEN 0 ELSE IF Fits(n, 2) THEN 2 ELSE 8
            l    == IF form = 0 THEN n ELSE IF form = 2 THEN 126 ELSE 127
            t    == BigEndian(n, form)
            head == encode_frame_hybi17(n)
            b    == l + 128
            size == Len(head) + 4 + n
<1>1. n \in Nat
  BY LengthForms, SMT
<1>2. form \in {0, 2, 8} /\ Fits(n, form) /\ l \in 0 .. 127
  <2>1. form = 0 => Fits(n, 0)
    BY SMT DEF Fits
  <2>2. Fits(n, 8)
    BY SMT DEF Fits
  <2>. QED  BY <1>1, <2>1, <2>2
<1>3. /\ t \in Seq(Nat) /\ Len(t) = form
      /\ form # 0 => Number(t) = n
      /\ form = 8 => t[1] \in 0 .. 127
  <2>. HIDE DEF form
  <2>. QED  BY <1>2, TailFacts
<1>4. head = <<129, l>> \o t
  <2>1. head = <<129>> \o (IF n <= 125 THEN <<n>> ELSE IF Fits(n, 2) THEN <<126>> \o BigEndian(n, 2)
                                                                   ELSE <<127>> \o BigEndian(n, 8))
    BY <1>1, HeaderForms
  <2>. HIDE DEF head
  <2>2. CASE n <= 125
    <3>1. BigEndian(n, 0) = <<>>
      BY LengthForms, SMT
    <3>. QED  BY <1>1, <2>1, <2>2, <3>1
  <2>3. CASE ~(n <= 125) /\ Fits(n, 2)
    <3>1. head = <<129>> \o (<<126>> \o t) /\ l = 126
      BY <2>1, <2>3
    <3>. QED  BY <1>3, <3>1
  <2>4. CASE ~(n <= 125) /\ ~Fits(n, 2)
    <3>1. head = <<129>> \o (<<127>> \o t) /\ l = 127
      BY <2>1, <2>4
    <3>. QED  BY <1>3, <3>1
  <2>. QED  BY <2>2, <2>3, <2>4
<1>. HIDE DEF form, t, head
<1>5. l \in Nat /\ b \in Nat /\ ~(b < 128) /\ b % 128 = l
  <2>. HIDE DEF l
  <2>. QED  BY <1>2
<1>6. Extended(l) = form /\ (form = 0 => l = n)
  <2>1. form = 0 => n <= 125
    BY DEF form
  <2>. QED  BY <1>1, <1>2, <2>1 DEF Extended
<1>. HIDE DEF l, b
<1>7. Len(head) = 2 + form /\ [head EXCEPT ![2] = @ + 128] = <<129, b>> \o t
  <2>1. <<129, l>> \in Seq(Nat) /\ <<129, b>> \in Seq(Nat)
    BY <1>5
  <2>2. b = l + 128
    BY DEF b
  <2>3. head \in Seq(Nat) /\ Len(head) = 2 + Len(t) /\ head[2] = l
    BY <1>3, <1>4, <1>5, HeaderParts
  <2>. DEFINE masked == [head EXCEPT ![2] = b]
              other  == <<129, b>> \o t
  <2>4. [head EXCEPT ![2] = @ + 128] = masked
    BY <2>2, <2>3
  <2>5. masked \in Seq(Nat) /\ Len(masked) = Len(head) /\ masked[2] = b
        /\ \A i \in 1 .. Len(head) : i # 2 => masked[i] = head[i]
    BY <1>5, <2>3
  <2>6. other \in Seq(Nat) /\ Len(other) = 2 + Len(t) /\ other[1] = 129 /\ other[2] = b
        /\ \A i \in 3 .. 2 + Len(t) : other[i] = t[i - 2]
    BY <1>3, <2>1
  <2>7. head[1] = 129 /\ \A i \in 3 .. 2 + Len(t) : head[i] = t[i - 2]
    BY <1>3, <1>4, <2>1
  <2>. HIDE DEF masked, other
  <2>8. \A i \in 1 .. Len(head) : masked[i] = other[i]
    <3>1. \A i \in 3 .. 2 + Len(t) : i \in 1 .. Len(head) /\ i # 2
      BY <2>3
    <3>2. \A i \in 3 .. 2 + Len(t) : masked[i] = other[i]
      BY <2>5, <2>6, <2>7, <3>1
    <3>3. 1 \in 1 .. Len(head) /\ 1 # 2
      BY <1>3, <2>3
    <3>4. masked[1] = other[1] /\ masked[2] = other[2]
      BY <2>5, <2>6, <2>7, <3>3
    <3>5. \A i \in 1 .. Len(head) : i = 1 \/ i = 2 \/ i \in 3 .. 2 + Len(t)
      BY <1>3, <2>3
    <3>. QED  BY <3>2, <3>4, <3>5
  <2>9. masked = other
    BY <2>3, <2>5, <2>6, <2>8, SeqEqual
  <2>. QED  BY <1>3, <2>3, <2>4, <2>9 DEF other
<1>8. TooLong(b, t) = FALSE
  <2>. DEFINE m == t[1]
  <2>1. form = 8 => m \in 0 .. 127
    BY <1>3
  <2>. HIDE DEF m
  <2>2. m \in 0 .. 127 => ~(m >= 128)
    OBVIOUS
  <2>. QED  BY <1>5, <1>6, <2>1, <2>2 DEF TooLong, m
<1>9. LengthOf(b, t) = n
  BY <1>3, <1>5, <1>6 DEF LengthOf
<1>10. size \in Nat
  BY <1>1, <1>2, <1>7
<1>11. decode_frame_hybi17(<<129, b>> \o t, size) = Decision(129, b, FALSE, n, size)
  <2>. HIDE DEF size
  <2>1. 129 \in Nat
    OBVIOUS
  <2>2. Len(t) = Extended(b % 128)
    BY <1>3, <1>5, <1>6
  <2>3. decode_frame_hybi17(<<129, b>> \o t, size) = Decision(129, b, TooLong(b, t), LengthOf(b, t), size)
    BY <1>3, <1>5, <1>10, <2>1, <2>2, Decided
  <2>. QED  BY <1>8, <1>9, <2>3
<1>12. Decision(129, b, FALSE, n, size)
         = [verdict |-> "ok", consumed |-> AsInt(2 + form + 4 + n), length |-> n, compressed |-> FALSE]
  <2>1. ~(129 < 128) /\ (129 \div 16) % 4 = 0 /\ 129 % 16 = 1 /\ (129 \div 64) % 2 = 0
    OBVIOUS
  <2>2. ~(size < 2) /\ ~(size - 2 < form) /\ ~(size >= 4 /\ size - 4 < n)
    BY <1>1, <1>2, <1>7
  <2>3. Extended(b % 128) = form
    BY <1>5, <1>6
  <2>4. 129 % 16 # 8 /\ ((129 \div 64) % 2 = 1) = FALSE
    BY <2>1
  <2>. HIDE DEF size
  <2>. QED  BY <1>5, <2>1, <2>2, <2>3, <2>4 DEF Decision
<1>13. 2 + form + 4 + n = Len(head) + 4 + n
  BY <1>7
<1>. DEFINE d == decode_frame_hybi17([head EXCEPT ![2] = @ + 128], size)
<1>14. d = [verdict |-> "ok", consumed |-> AsInt(2 + form + 4 + n), length |-> n, compressed |-> FALSE]
  <2>. HIDE DEF size
  <2>. QED  BY <1>7, <1>11, <1>12
<1>15. d.verdict = "ok" /\ ~d.compressed /\ d.length = n /\ d.consumed = AsInt(Len(head) + 4 + n)
  <2>. HIDE DEF d
  <2>. QED  BY <1>13, <1>14
<1>. QED  BY <1>15 DEF head

\* Frames are read and written as what they are, whatever their length and
\* however much of them is there (inspector_socket.cc:223 encode_frame_hybi17,
\* :313 decode_frame_hybi17, :467 ParseWsFrames): a whole frame that may be sent
\* is taken for what it is, and as much of the buffer as it has if that is an
\* int; a part of one is waited for unless hardly anything is missing, any other
\* ends the connection as soon as its first bytes show it, and a reader that
\* decodes so reads the header that the inspector writes.
THEOREM FramesSurviveAlways == CodecsSpec => []FramesSurvive
<1>1. CodecsInit => FramesSurvive
  BY DEF CodecsInit, None, FramesSurvive, FramesDecode, FramesEncode
<1>2. FramesSurvive /\ [CodecsNext]_input => FramesSurvive'
  <2>1. CASE DecodeFrame
    <3>1. PICK f \in ClientFrame, size \in Nat :
            Sendable(f) /\ input' = <<"frame", f, size>>
      <4>1. PICK f \in ClientFrame :
              /\ f.form = 0 => f.length <= 125
              /\ f.form = 2 => f.length <= \hFFFF
              /\ f.over => f.form = 8
              /\ \E size \in 0 .. 14 \cup TotalSize(f) - 15 .. TotalSize(f) + 2 :
                   size >= 0 /\ input' = <<"frame", f, size>>
        BY <2>1, SMT DEF DecodeFrame
      <4>2. PICK size \in 0 .. 14 \cup TotalSize(f) - 15 .. TotalSize(f) + 2 :
              size >= 0 /\ input' = <<"frame", f, size>>
        BY <4>1, SMT
      <4>3. size \in Nat
        BY <4>2
      <4>4. Sendable(f)
        BY <4>1, SMT DEF Sendable, Fits
      <4>. QED  BY <4>2, <4>3, <4>4
    <3>2. FramesDecode'
      BY <3>1, WholeFrames
    <3>3. f.length \in Lengths
      BY DEF ClientFrame
    <3>4. FramesEncode'
      <4>1. input'[2] = f
        BY <3>1
      <4>. QED  BY <3>3, <4>1, HeadersTell DEF FramesEncode
    <3>. QED  BY <3>2, <3>4 DEF FramesSurvive
  <2>2. CASE UNCHANGED input
    BY <2>2 DEF FramesSurvive, FramesDecode, FramesEncode
  <2>3. CASE ~DecodeFrame /\ CodecsNext
    <3>1. input'[1] # "frame"
      BY <2>3, KindOfInput
    <3>. QED  BY <3>1 DEF FramesSurvive, FramesDecode, FramesEncode
  <2>. QED  BY <2>1, <2>2, <2>3
<1>. QED  BY <1>1, <1>2, PTL DEF CodecsSpec

------------------------------------------------------------------------------
(* Requests *)

\* k is where the last c of s is, or 0.
LastAt(s, c, k) ==
  \/ k = 0 /\ \A i \in 1 .. Len(s) : s[i] # c
  \/ k \in 1 .. Len(s) /\ s[k] = c /\ \A i \in k + 1 .. Len(s) : s[i] # c

\* RFind finds the last one.
LEMMA RFindIsLast ==
  ASSUME NEW T, NEW s \in Seq(T), NEW c
  PROVE  LastAt(s, c, RFind(s, c))
<1>. DEFINE I == {i \in 1 .. Len(s) : s[i] = c}
            Out == {Len(s) - i : i \in I}
<1>0. Len(s) \in Nat
  OBVIOUS
<1>1. RFind(s, c) = IF I # {} THEN Max(I) ELSE 0
  BY DEF RFind, SelectLastInSeq
<1>2. CASE I = {}
  BY <1>1, <1>2 DEF LastAt
<1>3. CASE I # {}
  <2>1. Out \in SUBSET Nat /\ Out # {}
    BY <1>0, <1>3
  <2>2. PICK m \in Out : \A k \in Out : m <= k
    BY <2>1, LeastNatural
  <2>3. PICK i \in I : m = Len(s) - i
    BY <2>2
  <2>4. \A j \in I : i >= j
    <3>1. ASSUME NEW j \in I
          PROVE  i >= j
      <4>1. Len(s) - j \in Out
        OBVIOUS
      <4>2. Len(s) - i <= Len(s) - j
        BY <2>2, <2>3, <4>1
      <4>. QED  BY <1>0, <4>2
    <3>. QED  BY <3>1
  <2>. DEFINE k == Max(I)
  <2>5. k \in I /\ \A j \in I : k >= j
    BY <2>4 DEF Max
  <2>6. RFind(s, c) = k
    BY <1>1, <1>3
  <2>. HIDE DEF k
  <2>7. k \in 1 .. Len(s) /\ s[k] = c
    BY <2>5
  <2>8. ASSUME NEW i_1 \in k + 1 .. Len(s)
        PROVE  s[i_1] # c
    <3>1. i_1 \in 1 .. Len(s) /\ ~(k >= i_1)
      BY <1>0, <2>7
    <3>. QED  BY <2>5, <3>1
  <2>. QED  BY <2>6, <2>7, <2>8 DEF LastAt
<1>. QED  BY <1>2, <1>3

Words == {"/", "json", "list", "protocol", "version"}

\* Strings without a NUL, and these, which TLAPS does not know for strings.
Plain == (STRING \cup Words) \ {"NUL"}

\* S is of three positions up to n.
ThreeOf(S, n) == \E a, b, c \in 1 .. n : a < b /\ b < c /\ S = {a, b, c}

\* Three positions, in their order.
LEMMA ThreePositions ==
  ASSUME NEW n \in Nat, NEW S \in SUBSET (1 .. n)
  PROVE  Cardinality(S) = 3 <=> ThreeOf(S, n)
<1>1. IsFiniteSet(S)
  <2>1. IsFiniteSet(1 .. n)
    BY FS_Interval
  <2>. QED  BY <2>1, FS_Subset
<1>2. ASSUME NEW a \in 1 .. n, NEW b \in 1 .. n, NEW c \in 1 .. n, a < b, b < c, S = {a, b, c}
      PROVE  Cardinality(S) = 3
  <2>1. IsFiniteSet({a}) /\ Cardinality({a}) = 1
    BY FS_Singleton
  <2>2. b \notin {a} /\ c \notin {a} \cup {b}
    BY <1>2
  <2>3. IsFiniteSet({a} \cup {b}) /\ Cardinality({a} \cup {b}) = 2
    BY <2>1, <2>2, FS_AddElement
  <2>4. Cardinality(({a} \cup {b}) \cup {c}) = 3
    BY <2>2, <2>3, FS_AddElement
  <2>5. S = ({a} \cup {b}) \cup {c}
    BY <1>2
  <2>. QED  BY <2>4, <2>5
<1>3. ASSUME Cardinality(S) = 3
      PROVE  \E a, b, c \in 1 .. n : a < b /\ b < c /\ S = {a, b, c}
  <2>1. S # {}
    BY <1>3, FS_EmptySet
  <2>2. PICK x : x \in S
    BY <2>1
  <2>3. IsFiniteSet(S \ {x}) /\ Cardinality(S \ {x}) = 2
    BY <1>1, <1>3, <2>2, FS_RemoveElement
  <2>4. S \ {x} # {}
    BY <2>3, FS_EmptySet
  <2>5. PICK y : y \in S \ {x}
    BY <2>4
  <2>6. IsFiniteSet((S \ {x}) \ {y}) /\ Cardinality((S \ {x}) \ {y}) = 1
    BY <2>3, <2>5, FS_RemoveElement
  <2>7. PICK z : (S \ {x}) \ {y} = {z}
    BY <2>6, FS_Singleton
  <2>8. S = {x, y, z} /\ x # y /\ y # z /\ x # z
    BY <2>2, <2>5, <2>7
  <2>9. x \in 1 .. n /\ y \in 1 .. n /\ z \in 1 .. n
    BY <2>8
  <2>10. /\ S = {x, z, y} /\ S = {y, x, z} /\ S = {y, z, x} /\ S = {z, x, y} /\ S = {z, y, x}
    BY <2>8
  <2>11. \/ x < y /\ y < z
         \/ x < z /\ z < y
         \/ y < x /\ x < z
         \/ y < z /\ z < x
         \/ z < x /\ x < y
         \/ z < y /\ y < x
    <3>1. x # y /\ y # z /\ x # z
      BY <2>8
    <3>2. x \in Nat /\ y \in Nat /\ z \in Nat
      BY <2>9
    <3>3. (x < y \/ y < x) /\ (y < z \/ z < y) /\ (x < z \/ z < x)
      BY <3>1, <3>2
    <3>. QED  BY <3>2, <3>3
  <2>. QED  BY <2>8, <2>9, <2>10, <2>11
<1>. QED  BY <1>2, <1>3 DEF ThreeOf

\* A character of a string, the final NUL included.
Char(s, i) == IF i > Len(s) THEN "NUL" ELSE ToLower(s[i])

\* Only these three are changed by ToLower, or turn into localhost.
LEMMA LowerCase ==
  ASSUME NEW c \in Plain
  PROVE  /\ ToLower(c) # "NUL"
         /\ ToLower(c) = "localhost" <=> c \in {"localhost", "Localhost"}
         /\ ToLower(c) = "h" <=> c \in {"h", "H"}
         /\ \A x \in Words : ToLower(c) = x <=> c = x
  BY DEF Plain, ToLower, Words

\* What equals localhost but for case is one of two names.
LEMMA OnlyLocalhost ==
  ASSUME NEW t \in Seq(Plain)
  PROVE  StringEqualNoCase(t, <<"localhost">>) <=> Len(t) = 1 /\ t[1] \in {"localhost", "Localhost"}
<1>. DEFINE b == <<"localhost">>
            Ends(i) == Char(t, i) = "NUL" \/ Char(b, i) = "NUL" \/ Char(t, i) # Char(b, i)
            P(i) == Ends(i) /\ \A j \in 1 .. i - 1 : ~Ends(j)
            k == CHOOSE i \in 1 .. Len(t) + 1 : P(i)
<1>0. Len(t) \in Nat /\ \A i \in 1 .. Len(t) : t[i] \in Plain
  OBVIOUS
<1>1. StringEqualNoCase(t, b) <=> Char(t, k) = "NUL" /\ Char(b, k) = "NUL"
  BY DEF StringEqualNoCase, Char
<1>2. Char(b, 1) = "localhost" /\ Char(b, 2) = "NUL"
  BY DEF Char, ToLower
<1>3. ASSUME NEW i \in 1 .. Len(t) + 1, P(i)
      PROVE  k = i
  <2>1. k \in 1 .. Len(t) + 1 /\ P(k)
    BY <1>3
  <2>. HIDE DEF k, Ends
  <2>2. i < k => FALSE
    <3>1. i < k => i \in 1 .. k - 1
      BY <1>0, <2>1
    <3>. QED  BY <1>3, <2>1, <3>1
  <2>3. k < i => FALSE
    <3>1. k < i => k \in 1 .. i - 1
      BY <1>0, <2>1
    <3>. QED  BY <1>3, <2>1, <3>1
  <2>. QED  BY <1>0, <2>1, <2>2, <2>3
<1>. HIDE DEF k
<1>4. CASE t = <<>>
  <2>1. Char(t, 1) = "NUL"
    BY <1>4 DEF Char
  <2>2. P(1) /\ 1 \in 1 .. Len(t) + 1
    BY <1>4, <2>1
  <2>3. k = 1
    BY <1>3, <2>2
  <2>. QED  BY <1>1, <1>2, <1>4, <2>3
<1>5. CASE t # <<>>
  <2>1. Len(t) >= 1 /\ t[1] \in Plain /\ 1 \in 1 .. Len(t) + 1 /\ 2 \in 1 .. Len(t) + 1
    BY <1>5
  <2>2. Char(t, 1) = ToLower(t[1])
    BY <2>1 DEF Char
  <2>3. CASE ToLower(t[1]) # "localhost"
    <3>1. P(1)
      BY <1>2, <2>2, <2>3
    <3>2. k = 1
      BY <1>3, <2>1, <3>1
    <3>. QED  BY <1>1, <1>2, <2>1, <2>3, <3>2, LowerCase
  <2>4. CASE ToLower(t[1]) = "localhost"
    <3>1. ~Ends(1) /\ Ends(2)
      BY <1>2, <2>2, <2>4
    <3>2. P(2)
      <4>. HIDE DEF Ends
      <4>. QED  BY <3>1
    <3>3. k = 2
      <4>. HIDE DEF Ends
      <4>. QED  BY <1>3, <2>1, <3>2
    <3>4. Char(t, 2) = "NUL" <=> Len(t) = 1
      <4>1. CASE Len(t) = 1
        BY <4>1 DEF Char
      <4>2. CASE Len(t) > 1
        <5>1. t[2] \in Plain /\ ~(2 > Len(t))
          BY <4>2
        <5>. QED  BY <4>2, <5>1, LowerCase DEF Char
      <4>3. Len(t) = 1 \/ Len(t) > 1
        <5>. DEFINE m == Len(t)
        <5>1. m \in Nat /\ m >= 1
          BY <1>0, <2>1
        <5>. HIDE DEF m
        <5>2. m = 1 \/ m > 1
          BY <5>1
        <5>. QED  BY <5>2 DEF m
      <4>. QED  BY <4>1, <4>2, <4>3
    <3>5. t[1] \in {"localhost", "Localhost"}
      BY <2>1, <2>4, LowerCase
    <3>. QED  BY <1>1, <1>2, <3>3, <3>4, <3>5
  <2>. QED  BY <2>3, <2>4
<1>. QED  BY <1>4, <1>5

\* IsAllowedHost after the port has been taken off.
LEMMA HostsThatAreGood ==
  ASSUME NEW t \in Seq(Plain)
  PROVE  (t = <<>> \/ IsIPAddress(t) \/ StringEqualNoCase(t, <<"localhost">>)) <=> GoodHost(t)
<1>. DEFINE dots == {i \in 1 .. Len(t) : t[i] = "."}
<1>1. Cardinality(dots) = 3 <=> ThreeOf(dots, Len(t))
  <2>1. Len(t) \in Nat /\ dots \in SUBSET (1 .. Len(t))
    OBVIOUS
  <2>. HIDE DEF dots
  <2>. QED  BY <2>1, ThreePositions
<1>2. Len(t) >= 4 => Head(t) = t[1] /\ Last(t) = t[Len(t)]
  BY DEF Last
<1>3. IsIPAddress(t) <=> \/ Len(t) >= 4 /\ t[1] = "[" /\ t[Len(t)] = "]"
                         \/ (\A i \in 1 .. Len(t) : t[i] \in {".", "7"}) /\ Cardinality(dots) = 3
  BY <1>2 DEF IsIPAddress
<1>. HIDE DEF dots
<1>4. GoodHost(t) <=> \/ t = <<>>
                      \/ Len(t) >= 4 /\ t[1] = "[" /\ t[Len(t)] = "]"
                      \/ Len(t) = 1 /\ t[1] \in {"localhost", "Localhost"}
                      \/ /\ \A i \in 1 .. Len(t) : t[i] \in {".", "7"}
                         /\ \E a, b, c \in 1 .. Len(t) : a < b /\ b < c /\ dots = {a, b, c}
  BY DEF GoodHost, dots
<1>. QED  BY <1>1, <1>3, <1>4, OnlyLocalhost DEF ThreeOf

\* For one host: inspector_socket.cc:681.
LEMMA HostsAreAnswered ==
  ASSUME NEW s \in Seq(Plain), input' = <<"host", s>>
  PROVE  HostsAnswered'
<1>. DEFINE Port(i) == PortAfter(s, i)
            colon   == RFind(s, ":")
            bracket == RFind(s, "]")
<1>1. LastAt(s, ":", colon) /\ LastAt(s, "]", bracket)
  BY RFindIsLast
<1>2. TrimPort(s) = IF colon # 0 /\ (bracket = 0 \/ colon > bracket) THEN SubSeq(s, 1, colon - 1) ELSE s
  BY DEF TrimPort
<1>3. IsAllowedHost(s) <=> GoodHost(TrimPort(s))
  <2>1. TrimPort(s) \in Seq(Plain)
    <3>. HIDE DEF colon, bracket
    <3>1. CASE colon # 0 /\ (bracket = 0 \/ colon > bracket)
      <4>1. colon \in 1 .. Len(s)
        BY <1>1, <3>1 DEF LastAt
      <4>2. SubSeq(s, 1, colon - 1) \in Seq(Plain)
        BY <4>1, SubSeqProperties
      <4>. QED  BY <1>2, <3>1, <4>2
    <3>2. CASE ~(colon # 0 /\ (bracket = 0 \/ colon > bracket))
      BY <1>2, <3>2
    <3>. QED  BY <3>1, <3>2
  <2>. QED  BY <2>1, HostsThatAreGood DEF IsAllowedHost
<1>. HIDE DEF colon, bracket
<1>4. IF \E i \in 1 .. Len(s) : Port(i)
        THEN \A i \in 1 .. Len(s) : Port(i) => TrimPort(s) = SubSeq(s, 1, i - 1)
        ELSE TrimPort(s) = s
  <2>1. CASE colon # 0 /\ (bracket = 0 \/ colon > bracket)
    <3>1. colon \in 1 .. Len(s) /\ s[colon] = ":" /\ \A i \in colon + 1 .. Len(s) : s[i] # ":"
      BY <1>1, <2>1 DEF LastAt
    <3>2. \A i \in colon + 1 .. Len(s) : s[i] # "]"
      BY <1>1, <2>1, <3>1 DEF LastAt
    <3>3. Port(colon)
      BY <3>1, <3>2 DEF PortAfter
    <3>4. ASSUME NEW i \in 1 .. Len(s), Port(i)
          PROVE  i = colon
      <4>1. ~(i > colon)
        BY <3>1, <3>4 DEF PortAfter
      <4>2. ~(colon > i)
        BY <3>1, <3>4 DEF PortAfter
      <4>. QED  BY <3>1, <4>1, <4>2
    <3>. QED  BY <1>2, <2>1, <3>1, <3>3, <3>4
  <2>2. CASE ~(colon # 0 /\ (bracket = 0 \/ colon > bracket))
    <3>1. ASSUME NEW i \in 1 .. Len(s), Port(i)
          PROVE  FALSE
      <4>1. colon = i
        BY <1>1, <3>1 DEF LastAt, PortAfter
      <4>2. bracket # 0 /\ ~(colon > bracket)
        BY <2>2, <4>1
      <4>3. bracket \in 1 .. Len(s) /\ s[bracket] = "]"
        BY <1>1, <4>2 DEF LastAt
      <4>4. bracket \in i + 1 .. Len(s)
        <5>1. bracket # i
          BY <3>1, <4>3 DEF PortAfter
        <5>. QED  BY <3>1, <4>1, <4>2, <4>3, <5>1
      <4>. QED  BY <3>1, <4>3, <4>4 DEF PortAfter
    <3>. QED  BY <1>2, <2>2, <3>1
  <2>. QED  BY <2>1, <2>2
<1>5. IsAllowedHost(s) <=> IF \E i \in 1 .. Len(s) : Port(i)
                             THEN \E i \in 1 .. Len(s) : Port(i) /\ GoodHost(SubSeq(s, 1, i - 1))
                             ELSE GoodHost(s)
  <2>. HIDE DEF Port
  <2>1. CASE \E i \in 1 .. Len(s) : Port(i)
    BY <1>3, <1>4, <2>1
  <2>2. CASE ~\E i \in 1 .. Len(s) : Port(i)
    BY <1>3, <1>4, <2>2
  <2>. QED  BY <2>1, <2>2
<1>6. input'[1] = "host" /\ input'[2] = s
  OBVIOUS
<1>. QED  BY <1>5, <1>6, Zenon DEF HostsAnswered

\* FlattenSeq of one sequence among empty ones.
LEMMA FlattenOne ==
  ASSUME NEW T, NEW seqs \in Seq(Seq(T)), NEW k \in 1 .. Len(seqs),
         \A i \in 1 .. Len(seqs) : i # k => seqs[i] = <<>>
  PROVE  FlattenSeq(seqs) = seqs[k]
<1>. DEFINE N == Len(seqs)
<1>0. N \in Nat /\ seqs[k] \in Seq(T)
  OBVIOUS
<1>1. PICK out \in [0 .. N -> Seq(T)] :
        /\ out[0] = <<>>
        /\ \A n \in 1 .. N : out[n] = out[n - 1] \o seqs[n]
        /\ FlattenSeq(seqs) = out[N]
  BY FlattenSteps
<1>. DEFINE S == {m \in 0 .. N : out[m] = IF m < k THEN <<>> ELSE seqs[k]}
<1>2. 0 \in S
  BY <1>0, <1>1
<1>3. ASSUME NEW n \in 0 .. N - 1, n \in S
      PROVE  n + 1 \in S
  <2>1. n + 1 \in 1 .. N /\ n + 1 \in 0 .. N /\ (n + 1) - 1 = n
    BY <1>0
  <2>2. out[n + 1] = out[n] \o seqs[n + 1]
    BY <1>1, <2>1
  <2>3. CASE n + 1 < k
    <3>1. out[n] = <<>> /\ seqs[n + 1] = <<>>
      BY <1>3, <2>1, <2>3
    <3>. QED  BY <2>1, <2>2, <2>3, <3>1
  <2>4. CASE n + 1 = k
    <3>1. out[n] = <<>>
      BY <1>3, <2>4
    <3>. QED  BY <1>0, <2>1, <2>2, <2>4, <3>1
  <2>5. CASE n + 1 > k
    <3>1. out[n] = seqs[k] /\ seqs[n + 1] = <<>>
      BY <1>3, <2>1, <2>5
    <3>. QED  BY <1>0, <2>1, <2>2, <2>5, <3>1
  <2>. QED  BY <2>1, <2>3, <2>4, <2>5
<1>4. N \in S
  <2>1. \A n \in 0 .. N - 1 : n \in S => n + 1 \in S
    BY <1>3
  <2>2. N \in 0 .. N
    BY <1>0
  <2>. HIDE DEF S, N
  <2>. QED  BY <1>0, <1>2, <2>1, <2>2, InductionTo
<1>. QED  BY <1>0, <1>1, <1>4

\* The values of the fields that S has, end to end.
JoinedOf(fields, S) ==
  FlattenSeq([i \in 1 .. Len(fields) |-> IF i \in S THEN fields[i][2] ELSE <<>>])

\* headers_ has for each name the values of all fields of that name.
LEMMA HeadersJoin ==
  ASSUME NEW fields
  PROVE  LET names == {fields[i][1] : i \in 1 .. Len(fields)}
         IN  /\ DOMAIN Headers(fields) = names
             /\ \A n \in names :
                  Headers(fields)[n] = JoinedOf(fields, {i \in 1 .. Len(fields) : fields[i][1] = n})
<1>. DEFINE names == {fields[i][1] : i \in 1 .. Len(fields)}
<1>1. ASSUME NEW n
      PROVE  [i \in 1 .. Len(fields) |-> IF fields[i][1] = n THEN fields[i][2] ELSE <<>>]
               = [i \in 1 .. Len(fields) |->
                    IF i \in {k \in 1 .. Len(fields) : fields[k][1] = n} THEN fields[i][2] ELSE <<>>]
  OBVIOUS
<1>2. ASSUME NEW n \in names
      PROVE  Headers(fields)[n] = JoinedOf(fields, {i \in 1 .. Len(fields) : fields[i][1] = n})
  <2>1. Headers(fields)[n]
          = FlattenSeq([i \in 1 .. Len(fields) |-> IF fields[i][1] = n THEN fields[i][2] ELSE <<>>])
    BY DEF Headers
  <2>. QED  BY <1>1, <2>1 DEF JoinedOf
<1>3. DOMAIN Headers(fields) = names
  BY DEF Headers
<1>. QED  BY <1>2, <1>3

\* For the fields of one request: inspector_socket.cc:607, :648.
LEMMA HeadersAreFound ==
  ASSUME NEW fields \in Seq(FieldNames \X FieldValues), input' = <<"headers", fields>>
  PROVE  HostOfTheOnlyField'
<1>. DEFINE h     == Headers(fields)
            found == {n \in DOMAIN h : StringEqualNoCaseN(n, <<"H">>, Len(<<"H">>))}
            names == {n \in DOMAIN h : n # <<>> /\ n[1] \in {"h", "H"}}
            all   == {fields[i][1] : i \in 1 .. Len(fields)}
            hosts == {i \in 1 .. Len(fields) : fields[i][1] # <<>> /\ fields[i][1][1] \in {"h", "H"}}
            host  == HeaderValue(h, <<"H">>)
<1>0. /\ DOMAIN h = all
      /\ \A n \in all : h[n] = JoinedOf(fields, {i \in 1 .. Len(fields) : fields[i][1] = n})
      /\ \A i \in 1 .. Len(fields) : fields[i][1] \in FieldNames /\ fields[i][2] \in FieldValues
  <2>1. \A i \in 1 .. Len(fields) : fields[i][1] \in FieldNames /\ fields[i][2] \in FieldValues
    OBVIOUS
  <2>2. /\ DOMAIN h = all
        /\ \A n \in all : h[n] = JoinedOf(fields, {i \in 1 .. Len(fields) : fields[i][1] = n})
    BY HeadersJoin, Zenon
  <2>. QED  BY <2>1, <2>2, Zenon
<1>1. ASSUME NEW n \in DOMAIN h
      PROVE  StringEqualNoCaseN(n, <<"H">>, Len(<<"H">>)) <=> n # <<>> /\ n[1] \in {"h", "H"}
  <2>1. n \in Seq(Plain)
    BY <1>0, StringsAssumption DEF Plain
  <2>2. StringEqualNoCaseN(n, <<"H">>, Len(<<"H">>)) <=> Char(n, 1) = "h"
    BY DEF StringEqualNoCaseN, Char, ToLower
  <2>3. CASE n = <<>>
    BY <2>2, <2>3 DEF Char
  <2>4. CASE n # <<>>
    <3>1. n[1] \in Plain /\ ~(1 > Len(n))
      BY <2>1, <2>4
    <3>. QED  BY <2>2, <2>4, <3>1, LowerCase DEF Char
  <2>. QED  BY <2>3, <2>4
<1>2. found = names
  BY <1>1
<1>3. HeaderValue(h, <<"H">>) = IF \E n \in found : found = {n} THEN h[CHOOSE n \in found : TRUE] ELSE <<>>
  BY DEF HeaderValue
<1>4. names = {fields[i][1] : i \in hosts}
  BY <1>0
<1>. HIDE DEF h
<1>5. ASSUME NEW n \in FieldNames, hosts # {}, \A i \in hosts : fields[i][1] = n
      PROVE  host = JoinedOf(fields, hosts)
  <2>1. names = {n}
    BY <1>4, <1>5
  <2>2. n \in all /\ hosts = {i \in 1 .. Len(fields) : fields[i][1] = n}
    <3>1. n \in names
      BY <2>1
    <3>2. n \in all /\ n # <<>> /\ n[1] \in {"h", "H"}
      BY <1>0, <3>1
    <3>. QED  BY <1>5, <3>2
  <2>3. host = h[n]
    <3>. HIDE DEF found, names
    <3>. QED  BY <1>2, <1>3, <2>1
  <2>. QED  BY <1>0, <2>2, <2>3
<1>6. ASSUME ~\E n \in FieldNames : hosts # {} /\ \A i \in hosts : fields[i][1] = n
      PROVE  host = <<>>
  <2>1. ASSUME NEW n, names = {n}
        PROVE  FALSE
    <3>1. n \in {fields[i][1] : i \in hosts} /\ \A i \in hosts : fields[i][1] = n
      <4>. HIDE DEF names, hosts
      <4>. QED  BY <1>4, <2>1
    <3>2. PICK i \in hosts : n = fields[i][1]
      BY <3>1
    <3>3. n \in FieldNames /\ hosts # {}
      BY <1>0, <3>2
    <3>. QED  BY <1>6, <3>1, <3>3, Zenon
  <2>. HIDE DEF found, names
  <2>. QED  BY <1>2, <1>3, <2>1
<1>7. ASSUME NEW k \in hosts, hosts = {k}
      PROVE  host = fields[k][2]
  <2>. DEFINE seqs == [i \in 1 .. Len(fields) |-> IF i \in hosts THEN fields[i][2] ELSE <<>>]
  <2>1. fields[k][1] \in FieldNames /\ k \in 1 .. Len(fields)
    BY <1>0
  <2>2. host = FlattenSeq(seqs)
    <3>1. host = JoinedOf(fields, hosts)
      BY <1>5, <1>7, <2>1
    <3>. QED  BY <3>1 DEF JoinedOf
  <2>. DEFINE T == STRING \ {"NUL"}
  <2>3. seqs \in Seq(Seq(T)) /\ Len(seqs) = Len(fields)
    <3>1. \A i \in 1 .. Len(fields) : fields[i][2] \in Seq(T)
      BY <1>0, StringsAssumption
    <3>2. \A i \in 1 .. Len(fields) : (IF i \in hosts THEN fields[i][2] ELSE <<>>) \in Seq(T)
      <4>. HIDE DEF T, hosts
      <4>. QED  BY <3>1
    <3>. HIDE DEF T, hosts
    <3>. QED  BY <3>2
  <2>4. seqs[k] = fields[k][2] /\ \A i \in 1 .. Len(seqs) : i # k => seqs[i] = <<>>
    BY <1>7, <2>1, <2>3
  <2>5. FlattenSeq(seqs) = seqs[k]
    <3>. HIDE DEF seqs, T, hosts
    <3>. QED  BY <2>1, <2>3, <2>4, FlattenOne
  <2>. QED  BY <2>2, <2>4, <2>5
<1>8. input'[1] = "headers" /\ input'[2] = fields
  OBVIOUS
<1>9. /\ \A i \in hosts : hosts = {i} => host = fields[i][2]
      /\ IF \E n \in FieldNames : hosts # {} /\ \A i \in hosts : fields[i][1] = n
           THEN host = JoinedOf(fields, hosts)
           ELSE host = <<>>
  <2>. HIDE DEF hosts, host
  <2>. QED  BY <1>5, <1>6, <1>7
<1>10. HostOfTheFields(fields)
  BY <1>9, Zenon DEF HostOfTheFields, JoinedOf, h
<1>. QED  BY <1>8, <1>10, Zenon DEF HostOfTheOnlyField

\* The path begins with the segments of e, and nothing or a slash follows.
Leads(path, e) ==
  /\ Len(path) >= Len(e) /\ \A i \in 1 .. Len(e) : path[i] = e[i]
  /\ Len(path) = Len(e) \/ path[Len(e) + 1] = "/"

\* Characters compare as they are when one of them is a segment of these.
LEMMA SameCharacter ==
  ASSUME NEW path \in Seq(Plain), NEW i \in Nat \ {0}, NEW x \in Words
  PROVE  Char(path, i) = ToLower(x) <=> i <= Len(path) /\ path[i] = x
<1>1. ToLower(x) = x /\ x # "NUL"
  BY DEF Words, ToLower
<1>2. CASE i <= Len(path)
  <2>1. path[i] \in Plain /\ ~(i > Len(path))
    BY <1>2
  <2>2. ToLower(path[i]) = x <=> path[i] = x
    BY <2>1, LowerCase DEF Words
  <2>. QED  BY <1>1, <1>2, <2>1, <2>2 DEF Char
<1>3. CASE ~(i <= Len(path))
  <2>1. i > Len(path)
    BY <1>3
  <2>. QED  BY <1>1, <1>3, <2>1 DEF Char
<1>. QED  BY <1>2, <1>3

\* A segment is matched when the path leads with it.
LEMMA SegmentsMatch ==
  ASSUME NEW path \in Seq(Plain), NEW e \in Seq(Words), Len(e) \in 1 .. 2
  PROVE  MatchPathSegment(path, e)
           = IF Leads(path, e) THEN SubSeq(path, Len(e) + 2, Len(path)) ELSE NoMatch
<1>1. \A i \in 1 .. Len(e) : e[i] \in Words /\ Char(e, i) = ToLower(e[i])
  BY DEF Char
<1>2. ASSUME NEW i \in 1 .. Len(e)
      PROVE  Char(path, i) = Char(e, i) <=> i <= Len(path) /\ path[i] = e[i]
  BY <1>1, SameCharacter
<1>3. StringEqualNoCaseN(path, e, Len(e))
        <=> \A i \in 1 .. Len(e) : Char(path, i) = Char(e, i) \/ \E j \in 1 .. i - 1 : Char(path, j) = "NUL"
  BY DEF StringEqualNoCaseN, Char
<1>4. StringEqualNoCaseN(path, e, Len(e)) <=> \A i \in 1 .. Len(e) : Char(path, i) = Char(e, i)
  <2>1. ASSUME StringEqualNoCaseN(path, e, Len(e)), NEW i \in 1 .. Len(e)
        PROVE  Char(path, i) = Char(e, i)
    <3>1. 1 \in 1 .. Len(e) /\ ~\E j \in 1 .. 1 - 1 : TRUE
      OBVIOUS
    <3>2. Char(path, 1) = Char(e, 1)
      BY <1>3, <2>1, <3>1
    <3>3. Char(path, 1) # "NUL"
      <4>1. 1 <= Len(path) /\ path[1] \in Plain
        BY <1>2, <3>1, <3>2
      <4>2. ToLower(path[1]) # "NUL" /\ ~(1 > Len(path))
        BY <4>1, LowerCase
      <4>. QED  BY <4>2 DEF Char
    <3>4. CASE i = 1
      BY <3>2, <3>4
    <3>5. CASE i = 2
      <4>1. \A j \in 1 .. i - 1 : j = 1
        BY <3>5
      <4>2. Char(path, i) = Char(e, i) \/ \E j \in 1 .. i - 1 : Char(path, j) = "NUL"
        BY <1>3, <2>1
      <4>. QED  BY <3>3, <4>1, <4>2
    <3>6. i = 1 \/ i = 2
      <4>. DEFINE n == Len(e)
      <4>1. n \in 1 .. 2 /\ i \in 1 .. n
        OBVIOUS
      <4>. HIDE DEF n
      <4>. QED  BY <4>1
    <3>. QED  BY <3>4, <3>5, <3>6
  <2>. QED  BY <1>3, <2>1
<1>5. StringEqualNoCaseN(path, e, Len(e)) <=> Len(path) >= Len(e) /\ \A i \in 1 .. Len(e) : path[i] = e[i]
  <2>. DEFINE n == Len(e)
              m == Len(path)
  <2>1. n \in 1 .. 2 /\ m \in Nat /\ n \in 1 .. n
    <3>1. n \in 1 .. 2
      OBVIOUS
    <3>2. m \in Nat
      OBVIOUS
    <3>. HIDE DEF n, m
    <3>. QED  BY <3>1, <3>2
  <2>2. \A i \in 1 .. n : Char(path, i) = Char(e, i) <=> i <= m /\ path[i] = e[i]
    BY <1>2
  <2>3. StringEqualNoCaseN(path, e, n) <=> \A i \in 1 .. n : Char(path, i) = Char(e, i)
    BY <1>4
  <2>. HIDE DEF n, m
  <2>4. (\A i \in 1 .. n : Char(path, i) = Char(e, i)) => m >= n /\ \A i \in 1 .. n : path[i] = e[i]
    BY <2>1, <2>2
  <2>5. m >= n => \A i \in 1 .. n : i <= m
    BY <2>1
  <2>6. StringEqualNoCaseN(path, e, n) <=> m >= n /\ \A i \in 1 .. n : path[i] = e[i]
    BY <2>2, <2>3, <2>4, <2>5
  <2>. QED  BY <2>6 DEF n, m
<1>. QED  BY <1>5 DEF MatchPathSegment, Leads

\* c is what comes after /json in a path.
CommandOf(c, path) ==
  /\ c # NoMatch
  /\ c = <<>> <=> Len(path) <= 3
  /\ \A x \in Words : MatchPathSegment(c, <<x>>) # NoMatch
                        <=> Len(path) >= 4 /\ path[4] = x /\ (Len(path) = 4 \/ path[5] = "/")

\* What comes after /json, and what is answered to it.
LEMMA Commands ==
  ASSUME NEW T \in SUBSET (Plain \ {"nullptr"}), NEW path \in Seq(T),
         NEW c, c = SubSeq(path, 4, Len(path))
  PROVE  CommandOf(c, path)
<1>. DEFINE m == Len(path)
<1>0. m \in Nat
  OBVIOUS
<1>1. /\ c \in Seq(T) /\ Len(c) = IF 4 <= m THEN m - 3 ELSE 0
      /\ \A i \in 1 .. Len(c) : c[i] = path[i + 3]
  <2>1. \A i \in 4 .. m : path[i] \in T
    OBVIOUS
  <2>2. c = SubSeq(path, 4, m)
    OBVIOUS
  <2>3. c = [i \in 1 .. (IF 4 <= m THEN m - 3 ELSE 0) |-> path[i + 3]]
    BY <2>2
  <2>. HIDE DEF m
  <2>. QED  BY <1>0, <2>1, <2>3
<1>2. \A s \in Seq(T) : s # NoMatch
  <2>1. ASSUME NEW s \in Seq(T), s = <<"nullptr">>
        PROVE  FALSE
    <3>1. Len(s) = 1 /\ s[1] = "nullptr"
      BY <2>1
    <3>2. 1 \in 1 .. Len(s) /\ s[1] \in T
      BY <3>1
    <3>. QED  BY <3>1, <3>2
  <2>. QED  BY <2>1 DEF NoMatch
<1>3. c = <<>> <=> m <= 3
  <2>1. c = <<>> <=> Len(c) = 0
    BY <1>1, EmptySeq
  <2>. HIDE DEF m
  <2>2. (IF 4 <= m THEN m - 3 ELSE 0) = 0 <=> m <= 3
    BY <1>0
  <2>. QED  BY <1>1, <2>1, <2>2
<1>4. ASSUME NEW x \in Words
      PROVE  Leads(c, <<x>>) <=> m >= 4 /\ path[4] = x /\ (m = 4 \/ path[5] = "/")
  <2>1. Leads(c, <<x>>) <=> Len(c) >= 1 /\ c[1] = x /\ (Len(c) = 1 \/ c[2] = "/")
    <3>1. Len(<<x>>) = 1 /\ <<x>>[1] = x /\ 1 .. 1 = {1} /\ 1 + 1 = 2
      OBVIOUS
    <3>. QED  BY <3>1 DEF Leads
  <2>. HIDE DEF m
  <2>2. CASE m < 4
    BY <1>0, <1>1, <2>1, <2>2
  <2>3. CASE m = 4
    <3>1. Len(c) = 1 /\ 1 \in 1 .. Len(c) /\ 1 + 3 = 4
      BY <1>1, <2>3
    <3>. QED  BY <1>1, <2>1, <2>3, <3>1
  <2>4. CASE m > 4
    <3>1. /\ Len(c) = m - 3 /\ Len(c) > 1 /\ 1 \in 1 .. Len(c) /\ 1 + 3 = 4
          /\ 2 \in 1 .. Len(c) /\ 2 + 3 = 5
      BY <1>0, <1>1, <2>4
    <3>2. c[1] = path[4] /\ c[2] = path[5] /\ m >= 4 /\ m # 4
      BY <1>0, <1>1, <2>4, <3>1
    <3>. QED  BY <2>1, <3>1, <3>2
  <2>. QED  BY <1>0, <2>2, <2>3, <2>4
<1>5. ASSUME NEW x \in Words
      PROVE  MatchPathSegment(c, <<x>>) # NoMatch <=> Leads(c, <<x>>)
  <2>1. c \in Seq(Plain)
    BY <1>1
  <2>2. <<x>> \in Seq(Words) /\ Len(<<x>>) \in 1 .. 2 /\ Len(<<x>>) + 2 = 3
    OBVIOUS
  <2>3. MatchPathSegment(c, <<x>>) = IF Leads(c, <<x>>) THEN SubSeq(c, 3, Len(c)) ELSE NoMatch
    BY <2>1, <2>2, SegmentsMatch
  <2>4. SubSeq(c, 3, Len(c)) \in Seq(T)
    BY <1>1
  <2>. QED  BY <1>2, <2>3, <2>4
<1>. QED  BY <1>1, <1>2, <1>3, <1>4, <1>5 DEF CommandOf

\* For one path: inspector_socket_server.cpp:63.
LEMMA PathsAreAnswered ==
  ASSUME NEW T \in SUBSET (Plain \ {"nullptr"}), NEW path \in Seq(T), path # <<>>, path[1] = "/",
         input' = <<"path", path>>
  PROVE  PathsAnswered'
<1>. DEFINE m == Len(path)
            json == <<"/", "json">>
            Is(x) == m >= 4 /\ path[2] = "json" /\ path[3] = "/" /\ path[4] = x /\ (m = 4 \/ path[5] = "/")
            command == MatchPathSegment(path, json)
            c == SubSeq(path, 4, Len(path))
            short == path[2] = "json" /\ (m = 2 \/ (m = 3 /\ path[3] = "/"))
<1>0. m \in Nat /\ m >= 1 /\ \A i \in 1 .. m : path[i] \in T
  OBVIOUS
<1>1. ASSUME NEW x \in Words
      PROVE  AtOrBelow(path, <<"/", "json", "/", x>>) <=> Is(x)
  <2>. DEFINE q == <<"/", "json", "/", x>>
  <2>1. Len(q) = 4 /\ q[1] = "/" /\ q[2] = "json" /\ q[3] = "/" /\ q[4] = x
    OBVIOUS
  <2>2. m >= 4 => (SubSeq(path, 1, 4) = q <=> path[2] = "json" /\ path[3] = "/" /\ path[4] = x)
    <3>1. ASSUME m >= 4
          PROVE  SubSeq(path, 1, 4) = <<path[1], path[2], path[3], path[4]>>
      <4>. DEFINE u == SubSeq(path, 1, 4)
                  v == <<path[1], path[2], path[3], path[4]>>
      <4>1. u = [i \in 1 .. 4 |-> path[i]]
        BY <3>1
      <4>2. \A i \in 1 .. 4 : i \in 1 .. m
        BY <1>0, <3>1
      <4>3. path[1] \in T /\ path[2] \in T /\ path[3] \in T /\ path[4] \in T
        BY <1>0, <4>2
      <4>4. u \in Seq(T) /\ Len(u) = 4 /\ v \in Seq(T) /\ Len(v) = 4
        BY <1>0, <4>1, <4>2, <4>3
      <4>5. \A i \in 1 .. 4 : u[i] = v[i]
        BY <4>1
      <4>. HIDE DEF u, v
      <4>6. u = v
        BY <4>4, <4>5, SeqEqual
      <4>. QED  BY <4>6 DEF u, v
    <3>. QED  BY <3>1
  <2>. HIDE DEF q
  <2>3. AtOrBelow(path, q) <=> m >= 4 /\ SubSeq(path, 1, 4) = q /\ (m > 4 => path[5] = "/")
    BY <2>1 DEF AtOrBelow
  <2>4. m >= 4 => (m = 4 <=> ~(m > 4))
    <3>1. m \in Nat
      BY <1>0
    <3>. HIDE DEF m
    <3>. QED  BY <3>1
  <2>5. AtOrBelow(path, q) <=> Is(x)
    BY <2>2, <2>3, <2>4
  <2>. QED  BY <2>5 DEF q
<1>2. Leads(path, json) <=> m >= 2 /\ path[2] = "json" /\ (m = 2 \/ path[3] = "/")
  <2>1. Len(json) = 2 /\ json[1] = "/" /\ json[2] = "json" /\ 1 .. 2 = {1, 2} /\ 2 + 1 = 3
    OBVIOUS
  <2>. HIDE DEF json
  <2>. QED  BY <2>1 DEF Leads
<1>3. command = IF Leads(path, json) THEN c ELSE NoMatch
  <2>1. path \in Seq(Plain)
    OBVIOUS
  <2>2. json \in Seq(Words) /\ Len(json) \in 1 .. 2 /\ Len(json) + 2 = 4
    BY DEF Words
  <2>. HIDE DEF json
  <2>3. command = IF Leads(path, json) THEN SubSeq(path, Len(json) + 2, Len(path)) ELSE NoMatch
    BY <2>1, <2>2, SegmentsMatch
  <2>. QED  BY <2>2, <2>3
<1>4. /\ c # NoMatch
      /\ c = <<>> <=> m <= 3
      /\ \A x \in Words : MatchPathSegment(c, <<x>>) # NoMatch
                            <=> m >= 4 /\ path[4] = x /\ (m = 4 \/ path[5] = "/")
  <2>1. c = SubSeq(path, 4, Len(path))
    OBVIOUS
  <2>. HIDE DEF c
  <2>2. CommandOf(c, path)
    BY <2>1, Commands
  <2>. QED  BY <2>2 DEF CommandOf
<1>5. path \in {json, <<"/", "json", "/">>} <=> short
  <2>1. path = json <=> m = 2 /\ path[2] = "json"
    <3>1. Len(json) = 2 /\ json[1] = "/" /\ json[2] = "json"
      OBVIOUS
    <3>2. json \in Seq(Words \cup T)
      BY DEF Words
    <3>. HIDE DEF json
    <3>3. m = 2 /\ path[2] = "json" => path = json
      <4>1. path \in Seq(Words \cup T)
        OBVIOUS
      <4>2. m = 2 /\ path[2] = "json" => \A i \in 1 .. m : path[i] = json[i]
        BY <3>1
      <4>. QED  BY <3>1, <3>2, <4>1, <4>2, SeqEqual
    <3>. QED  BY <3>1, <3>3
  <2>2. path = <<"/", "json", "/">> <=> m = 3 /\ path[2] = "json" /\ path[3] = "/"
    <3>. DEFINE q == <<"/", "json", "/">>
    <3>1. Len(q) = 3 /\ q[1] = "/" /\ q[2] = "json" /\ q[3] = "/"
      OBVIOUS
    <3>2. q \in Seq(Words \cup T)
      BY DEF Words
    <3>. HIDE DEF q
    <3>3. m = 3 /\ path[2] = "json" /\ path[3] = "/" => path = q
      <4>1. path \in Seq(Words \cup T)
        OBVIOUS
      <4>2. m = 3 /\ path[2] = "json" /\ path[3] = "/" => \A i \in 1 .. m : path[i] = q[i]
        BY <3>1
      <4>. QED  BY <3>1, <3>2, <4>1, <4>2, SeqEqual
    <3>4. path = q <=> m = 3 /\ path[2] = "json" /\ path[3] = "/"
      BY <3>1, <3>3
    <3>. QED  BY <3>4 DEF q
  <2>. QED  BY <2>1, <2>2
<1>6. HandleGetRequest(path)
        = CASE Is("protocol") -> "protocol"
            [] Is("version") -> "version"
            [] Is("list") \/ short -> "list"
            [] OTHER -> "refused"
  <2>1. HandleGetRequest(path)
          = IF command = NoMatch THEN "refused"
            ELSE IF command = <<>> \/ MatchPathSegment(command, <<"list">>) # NoMatch THEN "list"
            ELSE IF MatchPathSegment(command, <<"protocol">>) # NoMatch THEN "protocol"
            ELSE IF MatchPathSegment(command, <<"version">>) # NoMatch THEN "version"
            ELSE "refused"
    BY DEF HandleGetRequest
  <2>2. "list" \in Words /\ "protocol" \in Words /\ "version" \in Words
    BY DEF Words
  <2>. HIDE DEF command, c
  <2>3. CASE ~Leads(path, json)
    <3>1. ~Is("protocol") /\ ~Is("version") /\ ~Is("list") /\ ~short
      <4>. HIDE DEF m
      <4>. QED  BY <1>0, <1>2, <2>3
    <3>. QED  BY <1>3, <2>1, <2>3, <3>1
  <2>4. CASE Leads(path, json)
    <3>1. command = c /\ command # NoMatch
      BY <1>3, <1>4, <2>4
    <3>2. command = <<>> <=> short
      <4>. HIDE DEF m
      <4>. QED  BY <1>0, <1>2, <1>4, <2>4, <3>1
    <3>3. ASSUME NEW x \in Words
          PROVE  MatchPathSegment(command, <<x>>) # NoMatch <=> Is(x)
      <4>. HIDE DEF m
      <4>1. m >= 4 => path[2] = "json" /\ path[3] = "/"
        BY <1>0, <1>2, <2>4
      <4>. QED  BY <1>4, <3>1, <4>1
    <3>4. ~(Is("list") /\ Is("protocol")) /\ ~(Is("list") /\ Is("version")) /\ ~(Is("version") /\ Is("protocol"))
          /\ ~(short /\ (Is("protocol") \/ Is("version")))
      <4>. HIDE DEF m
      <4>. QED  BY <1>0
    <3>. HIDE DEF Is, short
    <3>. QED  BY <2>1, <2>2, <3>1, <3>2, <3>3, <3>4
  <2>. QED  BY <2>3, <2>4
<1>7. input'[1] = "path" /\ input'[2] = path
  OBVIOUS
<1>8. HandleGetRequest(path)
        = CASE AtOrBelow(path, <<"/", "json", "/", "protocol">>) -> "protocol"
            [] AtOrBelow(path, <<"/", "json", "/", "version">>)  -> "version"
            [] \/ AtOrBelow(path, <<"/", "json", "/", "list">>)
               \/ path \in {<<"/", "json">>, <<"/", "json", "/">>} -> "list"
            [] OTHER -> "refused"
  <2>1. "list" \in Words /\ "protocol" \in Words /\ "version" \in Words
    BY DEF Words
  <2>2. /\ AtOrBelow(path, <<"/", "json", "/", "protocol">>) <=> Is("protocol")
        /\ AtOrBelow(path, <<"/", "json", "/", "version">>) <=> Is("version")
        /\ AtOrBelow(path, <<"/", "json", "/", "list">>) <=> Is("list")
    BY <1>1, <2>1
  <2>. HIDE DEF Is, short
  <2>. QED  BY <1>5, <1>6, <2>2
<1>. QED  BY <1>7, <1>8 DEF PathsAnswered

\* The requests that are meant to be answered are, and no others, however long
\* hosts, headers and paths are and however often a header field comes
\* (inspector_socket.cc:238, :607, :648, inspector_socket_server.cpp:94, :308).
THEOREM RequestsAlwaysAnswered == CodecsSpec => []RequestsAnswered
<1>1. CodecsInit => RequestsAnswered
  BY DEF CodecsInit, None, RequestsAnswered, HostsAnswered, HostOfTheOnlyField, PathsAnswered
<1>2. RequestsAnswered /\ [CodecsNext]_input => RequestsAnswered'
  <2>. SUFFICES ASSUME RequestsAnswered, [CodecsNext]_input
                PROVE  RequestsAnswered'
    OBVIOUS
  <2>1. CASE AnswerHost
    <3>1. PICK s \in SeqsUpTo(Characters, MaxHost) : input' = <<"host", s>>
      BY <2>1 DEF AnswerHost
    <3>2. s \in Seq(Plain)
      <4>1. PICK k \in 0 .. MaxHost : s \in [1 .. k -> Characters]
        BY DEF SeqsUpTo
      <4>2. MaxHost \in Nat /\ Characters \in SUBSET Plain
        BY BoundsAssumption, StringsAssumption DEF Plain
      <4>. QED  BY <4>1, <4>2
    <3>3. HostsAnswered'
      BY <3>1, <3>2, HostsAreAnswered
    <3>4. HostOfTheOnlyField' /\ PathsAnswered'
      BY <3>1 DEF HostOfTheOnlyField, PathsAnswered
    <3>. QED  BY <3>3, <3>4 DEF RequestsAnswered
  <2>2. CASE FindHeader
    <3>1. PICK s \in SeqsUpTo(FieldNames \X FieldValues, MaxFields) : input' = <<"headers", s>>
      BY <2>2 DEF FindHeader
    <3>2. s \in Seq(FieldNames \X FieldValues) /\ input' = <<"headers", s>>
      <4>1. PICK k \in 0 .. MaxFields : s \in [1 .. k -> FieldNames \X FieldValues]
        BY DEF SeqsUpTo
      <4>2. MaxFields \in Nat
        BY BoundsAssumption
      <4>. QED  BY <3>1, <4>1, <4>2
    <3>3. HostOfTheOnlyField'
      BY <3>2, HeadersAreFound
    <3>4. HostsAnswered' /\ PathsAnswered'
      BY <3>2 DEF HostsAnswered, PathsAnswered
    <3>. QED  BY <3>3, <3>4 DEF RequestsAnswered
  <2>3. CASE AnswerPath
    <3>1. PICK s \in SeqsUpTo(Segments, MaxPath) : input' = <<"path", <<"/">> \o s>>
      BY <2>3 DEF AnswerPath
    <3>. DEFINE T == Segments \cup {"/"}
                path == <<"/">> \o s
    <3>2. T \in SUBSET (Plain \ {"nullptr"})
      <4>1. Segments \in SUBSET (Plain \ {"nullptr"})
        BY StringsAssumption DEF Plain
      <4>2. "/" \in Plain \ {"nullptr"}
        BY DEF Plain, Words
      <4>. QED  BY <4>1, <4>2
    <3>3. path \in Seq(T) /\ path # <<>> /\ path[1] = "/"
      <4>1. PICK k \in 0 .. MaxPath : s \in [1 .. k -> Segments]
        BY DEF SeqsUpTo
      <4>2. MaxPath \in Nat
        BY BoundsAssumption
      <4>3. s \in Seq(T) /\ <<"/">> \in Seq(T)
        BY <4>1, <4>2
      <4>. QED  BY <4>3
    <3>. HIDE DEF T, path
    <3>4. input' = <<"path", path>>
      BY <3>1 DEF path
    <3>5. PathsAnswered'
      BY <3>2, <3>3, <3>4, PathsAreAnswered
    <3>6. HostsAnswered' /\ HostOfTheOnlyField'
      BY <3>4 DEF HostsAnswered, HostOfTheOnlyField
    <3>. QED  BY <3>5, <3>6 DEF RequestsAnswered
  <2>4. CASE UNCHANGED input
    BY <2>4 DEF RequestsAnswered, HostsAnswered, HostOfTheOnlyField, PathsAnswered
  <2>5. CASE CodecsNext /\ ~AnswerHost /\ ~FindHeader /\ ~AnswerPath
    <3>1. input'[1] # "host" /\ input'[1] # "headers" /\ input'[1] # "path"
      BY <2>5, KindOfInput
    <3>. QED  BY <3>1 DEF RequestsAnswered, HostsAnswered, HostOfTheOnlyField, PathsAnswered
  <2>. QED  BY <2>1, <2>2, <2>3, <2>4, <2>5
<1>. QED  BY <1>1, <1>2, PTL DEF CodecsSpec

------------------------------------------------------------------------------
(* Texts *)

\* A UTF-16 unit, and a text of them.
Unit(u) == u \in Nat /\ u <= \hFFFF
Text(s) == s \in Seq(Nat) /\ \A i \in 1 .. Len(s) : Unit(s[i])

\* The surrogates of a pair, by their bits.
HighOf(h, m, l) == \hD800 + 64 * h + 4 * m + l
LowOf(p, o)     == \hDC00 + 64 * p + o

PairOf(h, m, l, p, o) ==
  <<\hF0 + (h + 1) \div 4, \h80 + ((h + 1) % 4) * 16 + m, \h80 + l * 16 + p, \h80 + o>>

Bits(h, m, l, p, o) == h \in 0 .. 15 /\ m \in 0 .. 15 /\ l \in 0 .. 3 /\ p \in 0 .. 15 /\ o \in 0 .. 63

\* The bits of a pair, from both sides.
LEMMA PairBits ==
  ASSUME NEW h, NEW m, NEW l, NEW p, NEW o, Bits(h, m, l, p, o)
  PROVE  PairBytes(HighOf(h, m, l), LowOf(p, o)) = PairOf(h, m, l, p, o)
<1>0. h \in 0 .. 15 /\ m \in 0 .. 15 /\ l \in 0 .. 3 /\ p \in 0 .. 15 /\ o \in 0 .. 63
  BY DEF Bits
<1>. DEFINE ch  == HighOf(h, m, l)
            ch2 == LowOf(p, o)
            q   == ch \div 64
<1>1. q = 864 + h
  BY <1>0, SMT DEF HighOf
<1>2. q % 16 = h
  <2>. HIDE DEF q
  <2>. QED  BY <1>0, <1>1, SMT
<1>3. (ch \div 4) % 16 = m
  <2>1. ch \div 4 = 13824 + 16 * h + m
    BY <1>0, SMT DEF HighOf
  <2>. DEFINE d == ch \div 4
  <2>. HIDE DEF d
  <2>2. d % 16 = m
    BY <1>0, <2>1, SMT DEF d
  <2>. QED  BY <2>2 DEF d
<1>4. ch % 4 = l
  BY <1>0, SMT DEF HighOf
<1>5. (ch2 \div 64) % 16 = p
  <2>1. ch2 \div 64 = 880 + p
    BY <1>0, SMT DEF LowOf
  <2>. DEFINE d == ch2 \div 64
  <2>. HIDE DEF d
  <2>2. d % 16 = p
    BY <1>0, <2>1, SMT DEF d
  <2>. QED  BY <2>2 DEF d
<1>6. ch2 % 64 = o
  BY <1>0, SMT DEF LowOf
<1>. HIDE DEF ch, ch2
<1>7. PairBytes(ch, ch2) = <<\hF0 + (h + 1) \div 4, \h80 + ((h + 1) % 4) * 16 + m, \h80 + l * 16 + p, \h80 + o>>
  BY <1>2, <1>3, <1>4, <1>5, <1>6, SMT DEF PairBytes, q
<1>. QED  BY <1>7, SMT DEF ch, ch2, PairOf

\* The first half of PairBytes.
LEMMA HighBits ==
  ASSUME NEW u, Unit(u), HighSurrogate(u)
  PROVE  \E h \in 0 .. 15, m \in 0 .. 15, l \in 0 .. 3 : u = HighOf(h, m, l)
<1>. DEFINE a == u - \hD800
            h == a \div 64
            r == a % 64
            m == r \div 4
            l == r % 4
<1>1. a \in 0 .. 1023
  BY SMT DEF Unit, HighSurrogate
<1>. HIDE DEF a
<1>2. h \in 0 .. 15 /\ r \in 0 .. 63 /\ a = 64 * h + r
  BY <1>1, SMT
<1>. HIDE DEF h, r
<1>3. m \in 0 .. 15 /\ l \in 0 .. 3 /\ r = 4 * m + l
  BY <1>2, SMT
<1>. HIDE DEF m, l
<1>4. u = HighOf(h, m, l)
  BY <1>1, <1>2, <1>3, SMT DEF a, Unit, HighOf
<1>. QED  BY <1>2, <1>3, <1>4, SMT

\* Its second half.
LEMMA LowBits ==
  ASSUME NEW u, Unit(u), LowSurrogate(u)
  PROVE  \E p \in 0 .. 15, o \in 0 .. 63 : u = LowOf(p, o)
<1>. DEFINE a == u - \hDC00
            p == a \div 64
            o == a % 64
<1>1. a \in 0 .. 1023
  BY SMT DEF Unit, LowSurrogate
<1>. HIDE DEF a
<1>2. p \in 0 .. 15 /\ o \in 0 .. 63 /\ a = 64 * p + o
  BY <1>1, SMT
<1>. HIDE DEF p, o
<1>4. u = LowOf(p, o)
  BY <1>1, <1>2, SMT DEF a, Unit, LowOf
<1>. QED  BY <1>2, <1>4, SMT

\* What the bytes of one character are: of width w, for the code point c.
Spells(b, w, c) ==
  /\ b \in Seq(Nat) /\ Len(b) = w
  /\ Width(b[1]) = w /\ ~Continues(b[1])
  /\ \A k \in 2 .. w : Continues(b[k])
  /\ Scalar(b, 1) = c

\* A unit below 128 is its own byte.
LEMMA OneByte ==
  ASSUME NEW u \in Nat, u < \h80
  PROVE  Spells(<<u>>, 1, u)
<1>1. Width(u) = 1 /\ ~Continues(u)
  BY SMT DEF Width, Continues
<1>2. Scalar(<<u>>, 1) = u
  BY <1>1, SMT DEF Scalar
<1>3. \A k \in 2 .. 1 : Continues(<<u>>[k])
  OBVIOUS
<1>4. <<u>> \in Seq(Nat) /\ Len(<<u>>) = 1 /\ <<u>>[1] = u
  OBVIOUS
<1>. QED  BY <1>1, <1>2, <1>3, <1>4 DEF Spells

\* Two bytes spell a unit below 2048.
LEMMA TwoBytes ==
  ASSUME NEW u \in Nat, ~(u < \h80), u < \h800
  PROVE  Spells(<<\hC0 + u \div 64, \h80 + (u % 64)>>, 2, u)
<1>. DEFINE x == u \div 64
            y == u % 64
            b == <<\hC0 + x, \h80 + y>>
<1>1. x \in 2 .. 31 /\ y \in 0 .. 63 /\ u = 64 * x + y
  BY SMT
<1>. HIDE DEF x, y
<1>2. b \in Seq(Nat) /\ Len(b) = 2 /\ b[1] = \hC0 + x /\ b[2] = \h80 + y
  BY <1>1
<1>3. Width(\hC0 + x) = 2 /\ ~Continues(\hC0 + x) /\ Continues(\h80 + y)
  BY <1>1, SMT DEF Width, Continues
<1>4. (\hC0 + x) % 32 = x /\ (\h80 + y) % 64 = y
  BY <1>1, SMT
<1>. HIDE DEF b
<1>5. Scalar(b, 1) = x * 64 + y
  BY <1>1, <1>2, <1>3, <1>4, SMT DEF Scalar
<1>6. \A k \in 2 .. 2 : Continues(b[k])
  BY <1>2, <1>3
<1>7. Spells(b, 2, u)
  BY <1>1, <1>2, <1>3, <1>5, <1>6, SMT DEF Spells
<1>. QED  BY <1>7 DEF b, x, y

\* Three bytes spell any other unit.
LEMMA ThreeBytes ==
  ASSUME NEW u, Unit(u), ~(u < \h800)
  PROVE  Spells(<<\hE0 + u \div 4096, \h80 + ((u \div 64) % 64), \h80 + (u % 64)>>, 3, u)
<1>. DEFINE d == u \div 64
            x == u \div 4096
            y == d % 64
            z == u % 64
            b == <<\hE0 + x, \h80 + y, \h80 + z>>
<1>1. x \in 0 .. 15 /\ y \in 0 .. 63 /\ z \in 0 .. 63 /\ u = 4096 * x + 64 * y + z
  BY SMT DEF Unit
<1>. HIDE DEF x, y, z, d
<1>2. b \in Seq(Nat) /\ Len(b) = 3 /\ b[1] = \hE0 + x /\ b[2] = \h80 + y /\ b[3] = \h80 + z
  BY <1>1
<1>3. Width(\hE0 + x) = 3 /\ ~Continues(\hE0 + x) /\ Continues(\h80 + y) /\ Continues(\h80 + z)
  BY <1>1, SMT DEF Width, Continues
<1>4. (\hE0 + x) % 16 = x /\ (\h80 + y) % 64 = y /\ (\h80 + z) % 64 = z
  BY <1>1, SMT
<1>. HIDE DEF b
<1>5. Scalar(b, 1) = x * 4096 + y * 64 + z
  BY <1>1, <1>2, <1>3, <1>4, SMT DEF Scalar
<1>6. \A k \in 2 .. 3 : Continues(b[k])
  BY <1>2, <1>3
<1>7. Spells(b, 3, u)
  BY <1>1, <1>2, <1>3, <1>5, <1>6, SMT DEF Spells
<1>. QED  BY <1>7 DEF b, x, y, z, d

\* The code point of a pair.
PairPoint(ch, ch2) == \h10000 + (ch - \hD800) * \h400 + (ch2 - \hDC00)

\* Four bytes spell a pair.
LEMMA FourBytes ==
  ASSUME NEW ch, NEW ch2, Unit(ch), Unit(ch2), HighSurrogate(ch), LowSurrogate(ch2)
  PROVE  Spells(PairBytes(ch, ch2), 4, PairPoint(ch, ch2))
<1>1. PICK h \in 0 .. 15, m \in 0 .. 15, l \in 0 .. 3 : ch = HighOf(h, m, l)
  BY HighBits, SMT
<1>2. PICK p \in 0 .. 15, o \in 0 .. 63 : ch2 = LowOf(p, o)
  BY LowBits, SMT
<1>. DEFINE x == (h + 1) \div 4
            y == (h + 1) % 4
            b2 == y * 16 + m
            b3 == l * 16 + p
            b == <<\hF0 + x, \h80 + b2, \h80 + b3, \h80 + o>>
<1>3. PairBytes(ch, ch2) = b
  <2>1. PairBytes(ch, ch2) = <<\hF0 + (h + 1) \div 4, \h80 + ((h + 1) % 4) * 16 + m, \h80 + l * 16 + p, \h80 + o>>
    <3>1. PairBytes(HighOf(h, m, l), LowOf(p, o)) = PairOf(h, m, l, p, o)
      BY PairBits, SMT DEF Bits
    <3>. QED  BY <1>1, <1>2, <3>1, SMT DEF PairOf
  <2>2. \h80 + ((h + 1) % 4) * 16 + m = \h80 + b2 /\ \h80 + l * 16 + p = \h80 + b3
    BY SMT
  <2>. QED  BY <2>1, <2>2, SMT
<1>4. x \in 0 .. 4 /\ y \in 0 .. 3 /\ h + 1 = 4 * x + y
  BY SMT
<1>. HIDE DEF x, y
<1>5. b2 \in 0 .. 63 /\ b3 \in 0 .. 63
  BY <1>4, SMT
<1>6. PairPoint(ch, ch2) = x * 262144 + b2 * 4096 + b3 * 64 + o
  BY <1>1, <1>2, <1>4, SMT DEF PairPoint, HighOf, LowOf
<1>. HIDE DEF b2, b3
<1>7. b \in Seq(Nat) /\ Len(b) = 4 /\ b[1] = \hF0 + x /\ b[2] = \h80 + b2 /\ b[3] = \h80 + b3 /\ b[4] = \h80 + o
  BY <1>4, <1>5
<1>8. /\ Width(\hF0 + x) = 4 /\ ~Continues(\hF0 + x)
      /\ Continues(\h80 + b2) /\ Continues(\h80 + b3) /\ Continues(\h80 + o)
  BY <1>4, <1>5, SMT DEF Width, Continues
<1>9. (\hF0 + x) % 8 = x /\ (\h80 + b2) % 64 = b2 /\ (\h80 + b3) % 64 = b3 /\ (\h80 + o) % 64 = o
  BY <1>4, <1>5, SMT
<1>. HIDE DEF b
<1>10. Scalar(b, 1) = x * 262144 + b2 * 4096 + b3 * 64 + o
  BY <1>4, <1>5, <1>7, <1>8, <1>9, SMT DEF Scalar
<1>11. \A k \in 2 .. 4 : Continues(b[k])
  BY <1>7, <1>8
<1>. QED  BY <1>3, <1>6, <1>7, <1>8, <1>10, <1>11, SMT DEF Spells

\* The code point that is written for the unit at i.
Point(s, i) == IF StartsPair(s, i) THEN PairPoint(s[i], s[i + 1]) ELSE s[i]

\* A code point as it may be read.
Proper(c)   == (c < \hD800 \/ c > \hDFFF) /\ c <= \h10FFFF
Shortest(c, w) == c >= <<0, \h80, \h800, \h10000>>[w]

\* A pair's point takes four bytes.
LEMMA PairPoints ==
  ASSUME NEW ch, NEW ch2, Unit(ch), Unit(ch2), HighSurrogate(ch), LowSurrogate(ch2)
  PROVE  /\ PairPoint(ch, ch2) \in Nat
         /\ PairPoint(ch, ch2) >= \h10000 /\ PairPoint(ch, ch2) <= \h10FFFF
         /\ Units16(PairPoint(ch, ch2)) = <<ch, ch2>>
<1>. DEFINE a == ch - \hD800
            b == ch2 - \hDC00
            r == a * \h400 + b
            p == PairPoint(ch, ch2)
<1>1. a \in Nat /\ a <= 1023 /\ b \in Nat /\ b <= 1023 /\ ch = \hD800 + a /\ ch2 = \hDC00 + b
  BY SMT DEF Unit, HighSurrogate, LowSurrogate
<1>2. p = \h10000 + r
  BY <1>1, SMT DEF PairPoint
<1>. HIDE DEF a, b, p
<1>3. r \div \h400 = a /\ r % \h400 = b /\ r \in Nat /\ r <= \hFFFFF
  BY <1>1, SMT
<1>. HIDE DEF r
<1>4. p \in Nat /\ p >= \h10000 /\ p <= \h10FFFF /\ ~(p < \h10000) /\ p - \h10000 = r
  BY <1>2, <1>3, SMT
<1>5. Units16(p) = <<\hD800 + r \div \h400, \hDC00 + (r % \h400)>>
  BY <1>4, SMT DEF Units16
<1>. QED  BY <1>1, <1>3, <1>4, <1>5, SMT DEF p

\* What Written writes spells the point that starts there, in as many bytes
\* as BytesOf counts.
LEMMA BlocksSpell ==
  ASSUME NEW s, Text(s), NEW i \in 1 .. Len(s)
  PROVE  /\ EndsPair(s, i) => Written(s, i) = <<>> /\ BytesOf(s, i) = 0 /\ ~StartsPair(s, i)
         /\ ~EndsPair(s, i) => /\ BytesOf(s, i) \in 1 .. 4
                               /\ Spells(Written(s, i), BytesOf(s, i), Point(s, i))
                               /\ Shortest(Point(s, i), BytesOf(s, i))
                               /\ Point(s, i) \in Nat /\ Point(s, i) <= \h10FFFF
<1>1. Unit(s[i]) /\ s[i] \in Nat /\ s \in Seq(Nat)
  BY SMT DEF Text, Unit
<1>2. ASSUME EndsPair(s, i)
      PROVE  Written(s, i) = <<>> /\ BytesOf(s, i) = 0 /\ ~StartsPair(s, i)
  <2>1. LowSurrogate(s[i])
    <3>1. (i - 1) + 1 = i
      OBVIOUS
    <3>. QED  BY <1>2, <3>1, SMT DEF EndsPair, StartsPair
  <2>2. ~HighSurrogate(s[i])
    BY <1>1, <2>1, SMT DEF HighSurrogate, LowSurrogate
  <2>. QED  BY <1>2, <2>2, SMT DEF Written, BytesOf, StartsPair
<1>. DEFINE w == BytesOf(s, i)
            c == Point(s, i)
            Done == /\ w \in 1 .. 4 /\ Spells(Written(s, i), w, c) /\ Shortest(c, w)
                    /\ c \in Nat /\ c <= \h10FFFF
<1>3. ASSUME ~EndsPair(s, i)
      PROVE  Done
  <2>1. ASSUME s[i] < \h80
        PROVE  Done
    <3>1. ~StartsPair(s, i)
      BY <1>1, <2>1, SMT DEF StartsPair, HighSurrogate
    <3>2. w = 1 /\ c = s[i] /\ Written(s, i) = <<s[i]>>
      BY <1>3, <2>1, <3>1, SMT DEF BytesOf, Point, Written
    <3>3. Spells(<<s[i]>>, 1, s[i])
      BY <1>1, <2>1, OneByte, SMT
    <3>. HIDE DEF w, c
    <3>. QED  BY <1>1, <2>1, <3>2, <3>3, SMT DEF Shortest
  <2>2. ASSUME ~(s[i] < \h80), s[i] < \h800
        PROVE  Done
    <3>1. ~StartsPair(s, i)
      BY <1>1, <2>2, SMT DEF StartsPair, HighSurrogate
    <3>. DEFINE b == <<\hC0 + s[i] \div 64, \h80 + (s[i] % 64)>>
    <3>2. w = 2 /\ c = s[i] /\ Written(s, i) = b
      BY <1>3, <2>2, <3>1, SMT DEF BytesOf, Point, Written
    <3>3. Spells(b, 2, s[i])
      BY <1>1, <2>2, TwoBytes, SMT
    <3>. HIDE DEF w, c, b
    <3>. QED  BY <1>1, <2>2, <3>2, <3>3, SMT DEF Shortest
  <2>3. ASSUME ~(s[i] < \h80), ~(s[i] < \h800), StartsPair(s, i)
        PROVE  Done
    <3>1. i + 1 \in 1 .. Len(s)
      BY <1>1, <2>3, SMT DEF StartsPair
    <3>2. Unit(s[i + 1]) /\ HighSurrogate(s[i]) /\ LowSurrogate(s[i + 1])
      BY <2>3, <3>1, SMT DEF StartsPair, Text
    <3>3. w = 4 /\ c = PairPoint(s[i], s[i + 1]) /\ Written(s, i) = PairBytes(s[i], s[i + 1])
      BY <1>3, <2>3, SMT DEF BytesOf, Point, Written
    <3>4. Spells(PairBytes(s[i], s[i + 1]), 4, PairPoint(s[i], s[i + 1]))
      BY <1>1, <3>2, FourBytes, SMT
    <3>. DEFINE p == PairPoint(s[i], s[i + 1])
    <3>5. p \in Nat /\ p <= \h10FFFF /\ p >= \h10000
      BY <1>1, <3>2, PairPoints, SMT
    <3>. HIDE DEF w, c, p
    <3>6. Shortest(p, 4)
      BY <3>5, SMT DEF Shortest
    <3>7. Spells(Written(s, i), w, c)
      BY <3>3, <3>4, SMT DEF p
    <3>. QED  BY <3>3, <3>5, <3>6, <3>7, SMT DEF p
  <2>4. ASSUME ~(s[i] < \h80), ~(s[i] < \h800), ~StartsPair(s, i)
        PROVE  Done
    <3>. DEFINE b == <<\hE0 + s[i] \div 4096, \h80 + ((s[i] \div 64) % 64), \h80 + (s[i] % 64)>>
    <3>2. w = 3 /\ c = s[i] /\ Written(s, i) = b
      BY <1>3, <2>4, SMT DEF BytesOf, Point, Written
    <3>3. Spells(b, 3, s[i])
      BY <1>1, <2>4, ThreeBytes, SMT
    <3>. HIDE DEF w, c, b
    <3>. QED  BY <1>1, <2>4, <3>2, <3>3, SMT DEF Shortest, Unit
  <2>. QED  BY <2>1, <2>2, <2>3, <2>4
<1>. QED  BY <1>2, <1>3

\* A unit's code point is read as it is, unless it is a surrogate without the
\* other.
LEMMA UnpairedPoints ==
  ASSUME NEW s, Text(s), NEW i \in 1 .. Len(s), ~EndsPair(s, i)
  PROVE  Proper(Point(s, i)) <=> (HighSurrogate(s[i]) \/ LowSurrogate(s[i]) => StartsPair(s, i))
<1>1. Unit(s[i]) /\ s[i] \in Nat
  BY SMT DEF Text, Unit
<1>2. CASE StartsPair(s, i)
  <2>1. i + 1 \in 1 .. Len(s)
    BY <1>2, SMT DEF StartsPair, Text
  <2>2. Unit(s[i + 1]) /\ HighSurrogate(s[i]) /\ LowSurrogate(s[i + 1])
    BY <1>2, <2>1, SMT DEF StartsPair, Text
  <2>. DEFINE p == PairPoint(s[i], s[i + 1])
  <2>3. p \in Nat /\ p >= \h10000 /\ p <= \h10FFFF
    BY <1>1, <2>2, PairPoints, SMT
  <2>4. Point(s, i) = p
    BY <1>2, SMT DEF Point
  <2>. HIDE DEF p
  <2>. QED  BY <1>2, <2>3, <2>4, SMT DEF Proper
<1>3. CASE ~StartsPair(s, i)
  BY <1>1, <1>3, SMT DEF Proper, Point, Unit, HighSurrogate, LowSurrogate
<1>. QED  BY <1>2, <1>3, SMT

\* The units are what is read from the code point.
LEMMA UnitsOfPoints ==
  ASSUME NEW s, Text(s), NEW i \in 1 .. Len(s), ~EndsPair(s, i)
  PROVE  Units16(Point(s, i)) = IF StartsPair(s, i) THEN <<s[i], s[i + 1]>> ELSE <<s[i]>>
<1>1. Unit(s[i]) /\ s[i] \in Nat
  BY SMT DEF Text, Unit
<1>2. CASE StartsPair(s, i)
  <2>1. i + 1 \in 1 .. Len(s)
    BY <1>2, SMT DEF StartsPair, Text
  <2>2. Unit(s[i + 1]) /\ HighSurrogate(s[i]) /\ LowSurrogate(s[i + 1])
    BY <1>2, <2>1, SMT DEF StartsPair, Text
  <2>3. Units16(PairPoint(s[i], s[i + 1])) = <<s[i], s[i + 1]>>
    BY <1>1, <2>2, PairPoints, SMT
  <2>. QED  BY <1>2, <2>3, SMT DEF Point
<1>3. CASE ~StartsPair(s, i)
  BY <1>1, <1>3, SMT DEF Point, Units16, Unit
<1>. QED  BY <1>2, <1>3, SMT

\* out[n] is what the first n of the sequences make.
Joins(out, seqs) == out[0] = <<>> /\ \A n \in 1 .. Len(seqs) : out[n] = out[n - 1] \o seqs[n]

\* In out[m] every one of the first m has its place, and nothing else has.
InPlace(out, seqs, m) ==
  /\ \A n \in 1 .. m : \A k \in 1 .. Len(seqs[n]) :
       /\ Len(out[n - 1]) + k \in 1 .. Len(out[m])
       /\ out[m][Len(out[n - 1]) + k] = seqs[n][k]
  /\ \A j \in 1 .. Len(out[m]) : \E n \in 1 .. m : \E k \in 1 .. Len(seqs[n]) : j = Len(out[n - 1]) + k

\* The lengths add up.
Adds(out, seqs) == \A n \in 1 .. Len(seqs) : Len(out[n]) = Len(out[n - 1]) + Len(seqs[n])

\* The step from m sequences to one more.
LEMMA OneMoreInPlace ==
  ASSUME NEW T, NEW seqs \in Seq(Seq(T)), NEW out \in [0 .. Len(seqs) -> Seq(T)], Joins(out, seqs),
         NEW m \in Nat, m + 1 \in 1 .. Len(seqs), InPlace(out, seqs, m)
  PROVE  InPlace(out, seqs, m + 1)
<1>. DEFINE a == out[m]
            b == seqs[m + 1]
            c == out[m + 1]
<1>1. m \in 0 .. Len(seqs) /\ (m + 1) - 1 = m /\ \A n \in 1 .. Len(seqs) : n - 1 \in 0 .. Len(seqs)
  OBVIOUS
<1>2. a \in Seq(T) /\ b \in Seq(T) /\ c = a \o b
  <2>1. c = out[(m + 1) - 1] \o seqs[m + 1]
    BY DEF Joins
  <2>2. a \in Seq(T)
    BY <1>1
  <2>3. b \in Seq(T)
    OBVIOUS
  <2>4. c = a \o b
    BY <1>1, <2>1
  <2>5. c \in Seq(T)
    <3>. HIDE DEF a, b, c
    <3>. QED  BY <2>2, <2>3, <2>4
  <2>. QED  BY <2>2, <2>3, <2>4, <2>5
<1>3. /\ Len(c) = Len(a) + Len(b) /\ Len(a) \in Nat /\ Len(b) \in Nat
      /\ \A i \in 1 .. Len(a) : c[i] = a[i]
      /\ \A k \in 1 .. Len(b) : c[Len(a) + k] = b[k]
  <2>. HIDE DEF a, b, c
  <2>1. Len(c) = Len(a) + Len(b) /\ Len(a) \in Nat /\ Len(b) \in Nat
    BY <1>2
  <2>2. \A i \in 1 .. Len(a) : c[i] = a[i]
    BY <1>2
  <2>3. ASSUME NEW k \in 1 .. Len(b)
        PROVE  c[Len(a) + k] = b[k]
    <3>1. Len(a) + k \in 1 .. Len(a) + Len(b) /\ ~(Len(a) + k <= Len(a)) /\ (Len(a) + k) - Len(a) = k
      BY <2>1
    <3>. QED  BY <1>2, <3>1
  <2>. QED  BY <2>1, <2>2, <2>3
<1>4. ASSUME NEW n \in 1 .. m + 1, NEW k \in 1 .. Len(seqs[n])
      PROVE  /\ Len(out[n - 1]) + k \in 1 .. Len(c)
             /\ c[Len(out[n - 1]) + k] = seqs[n][k]
  <2>1. CASE n = m + 1
    <3>1. out[n - 1] = a /\ seqs[n] = b
      BY <1>1, <2>1
    <3>. HIDE DEF a, b, c
    <3>2. k \in 1 .. Len(b)
      BY <3>1
    <3>3. Len(a) + k \in 1 .. Len(c) /\ c[Len(a) + k] = b[k]
      BY <1>3, <3>2
    <3>. QED  BY <3>1, <3>3
  <2>2. CASE n # m + 1
    <3>. DEFINE i == Len(out[n - 1]) + k
    <3>1. n \in 1 .. m
      BY <2>2
    <3>2. i \in 1 .. Len(a) /\ a[i] = seqs[n][k]
      BY <3>1 DEF InPlace
    <3>. HIDE DEF a, b, c, i
    <3>3. i \in 1 .. Len(c) /\ c[i] = a[i]
      BY <1>3, <3>2
    <3>4. i \in 1 .. Len(c) /\ c[i] = seqs[n][k]
      BY <3>2, <3>3
    <3>. QED  BY <3>4 DEF i
  <2>. QED  BY <2>1, <2>2
<1>5. ASSUME NEW j \in 1 .. Len(c)
      PROVE  \E n \in 1 .. m + 1 : \E k \in 1 .. Len(seqs[n]) : j = Len(out[n - 1]) + k
  <2>1. CASE j \in 1 .. Len(a)
    <3>1. PICK n \in 1 .. m : \E k \in 1 .. Len(seqs[n]) : j = Len(out[n - 1]) + k
      BY <2>1 DEF InPlace
    <3>2. n \in 1 .. m + 1
      OBVIOUS
    <3>. QED  BY <3>1, <3>2
  <2>2. CASE j \notin 1 .. Len(a)
    <3>1. j - Len(a) \in 1 .. Len(b) /\ j = Len(a) + (j - Len(a))
      <4>. HIDE DEF a, b, c
      <4>. QED  BY <1>3, <2>2
    <3>2. m + 1 \in 1 .. m + 1 /\ out[(m + 1) - 1] = a
      BY <1>1
    <3>3. \E k \in 1 .. Len(seqs[m + 1]) : j = Len(out[(m + 1) - 1]) + k
      BY <3>1, <3>2
    <3>. QED  BY <3>2, <3>3
  <2>. QED  BY <2>1, <2>2
<1>. QED  BY <1>4, <1>5 DEF InPlace

\* FlattenSeq puts the sequences one after the other.
LEMMA FlattenParts ==
  ASSUME NEW T, NEW seqs \in Seq(Seq(T))
  PROVE  \E out \in [0 .. Len(seqs) -> Seq(T)] :
           /\ Joins(out, seqs) /\ Adds(out, seqs) /\ InPlace(out, seqs, Len(seqs))
           /\ FlattenSeq(seqs) = out[Len(seqs)]
<1>. DEFINE N == Len(seqs)
<1>0. N \in Nat
  OBVIOUS
<1>1. PICK out \in [0 .. N -> Seq(T)] :
        /\ out[0] = <<>>
        /\ \A n \in 1 .. N : out[n] = out[n - 1] \o seqs[n]
        /\ FlattenSeq(seqs) = out[N]
  BY FlattenSteps
<1>2. Joins(out, seqs)
  BY <1>1 DEF Joins
<1>3. Adds(out, seqs)
  <2>1. ASSUME NEW n \in 1 .. N
        PROVE  Len(out[n]) = Len(out[n - 1]) + Len(seqs[n])
    <3>1. n - 1 \in 0 .. N
      BY <1>0
    <3>. DEFINE a == out[n - 1]
                b == seqs[n]
    <3>2. a \in Seq(T) /\ b \in Seq(T) /\ out[n] = a \o b
      <4>1. a \in Seq(T)
        BY <3>1
      <4>2. b \in Seq(T)
        OBVIOUS
      <4>3. out[n] = a \o b
        BY <1>1
      <4>. QED  BY <4>1, <4>2, <4>3
    <3>. HIDE DEF a, b
    <3>3. Len(out[n]) = Len(a) + Len(b)
      BY <3>2
    <3>. QED  BY <3>3 DEF a, b
  <2>. QED  BY <2>1 DEF Adds
<1>. DEFINE S == {m \in 0 .. N : InPlace(out, seqs, m)}
<1>4. 0 \in S
  <2>1. Len(out[0]) = 0
    BY <1>1
  <2>. QED  BY <1>0, <2>1 DEF InPlace
<1>5. ASSUME NEW m \in 0 .. N - 1, m \in S
      PROVE  m + 1 \in S
  <2>1. m \in Nat /\ m + 1 \in 1 .. N /\ m + 1 \in 0 .. N
    BY <1>0
  <2>2. InPlace(out, seqs, m + 1)
    BY <1>2, <1>5, <2>1, OneMoreInPlace
  <2>. QED  BY <2>1, <2>2
<1>6. N \in S
  <2>1. \A m \in 0 .. N - 1 : m \in S => m + 1 \in S
    BY <1>5
  <2>2. N \in 0 .. N
    BY <1>0
  <2>. HIDE DEF S, N
  <2>. QED  BY <1>0, <1>4, <2>1, <2>2, InductionTo
<1>. QED  BY <1>1, <1>2, <1>3, <1>6

\* The bytes of a text, block after block.
Blocks(s) == [i \in 1 .. Len(s) |-> Written(s, i)]

\* Each block is as long as it was counted.
LEMMA BlocksOfText ==
  ASSUME NEW s, Text(s)
  PROVE  /\ Blocks(s) \in Seq(Seq(Nat)) /\ Len(Blocks(s)) = Len(s)
         /\ \A i \in 1 .. Len(s) : /\ Blocks(s)[i] = Written(s, i)
                                   /\ Len(Written(s, i)) = BytesOf(s, i)
                                   /\ BytesOf(s, i) \in 0 .. 4
<1>0. s \in Seq(Nat)
  BY SMT DEF Text
<1>1. ASSUME NEW i \in 1 .. Len(s)
      PROVE  Written(s, i) \in Seq(Nat) /\ Len(Written(s, i)) = BytesOf(s, i) /\ BytesOf(s, i) \in 0 .. 4
  <2>1. CASE EndsPair(s, i)
    <3>1. Written(s, i) = <<>> /\ BytesOf(s, i) = 0
      BY <2>1, BlocksSpell, SMT
    <3>2. <<>> \in Seq(Nat) /\ Len(<<>>) = 0
      OBVIOUS
    <3>. QED  BY <3>1, <3>2
  <2>2. CASE ~EndsPair(s, i)
    <3>1. Spells(Written(s, i), BytesOf(s, i), Point(s, i)) /\ BytesOf(s, i) \in 1 .. 4
      BY <2>2, BlocksSpell, SMT
    <3>. QED  BY <3>1 DEF Spells
  <2>. QED  BY <2>1, <2>2
<1>. QED  BY <1>0, <1>1 DEF Blocks

\* utf16toUTF8Length adds up what each unit takes.
LEMMA SizeSteps ==
  ASSUME NEW s, Text(s)
  PROVE  \E z \in [0 .. Len(s) -> Nat] :
           /\ z[0] = 0 /\ \A i \in 1 .. Len(s) : z[i] = z[i - 1] + BytesOf(s, i)
           /\ utf16toUTF8Length(s) = z[Len(s)]
<1>. DEFINE w == Len(s)
            g == [x \in (1 .. w) \X Nat |-> x[2] + BytesOf(s, x[1])]
            Solves(h) == h = [i \in 0 .. w |-> IF i = 0 THEN 0 ELSE h[i - 1] + BytesOf(s, i)]
            p == CHOOSE h : Solves(h)
<1>0. w \in Nat /\ \A i \in 1 .. w : BytesOf(s, i) \in Nat
  <2>1. s \in Seq(Nat)
    BY SMT DEF Text
  <2>2. \A i \in 1 .. w : BytesOf(s, i) \in 0 .. 4
    BY BlocksOfText
  <2>. QED  BY <2>1, <2>2
<1>1. g \in [(1 .. w) \X Nat -> Nat]
  BY <1>0
<1>2. PICK r \in [0 .. w -> Nat] : Runs(r, w, 0, g)
  <2>. HIDE DEF g
  <2>. QED  BY <1>0, <1>1, Recursion
<1>3. ASSUME NEW i \in 1 .. w
      PROVE  i - 1 \in 0 .. w /\ \A m \in Nat : g[<<i, m>>] = m + BytesOf(s, i)
  BY <1>0
<1>4. r[0] = 0 /\ \A i \in 1 .. w : r[i] = r[i - 1] + BytesOf(s, i)
  BY <1>2, <1>3 DEF Runs
<1>5. Solves(r)
  BY <1>4
<1>6. Solves(p)
  BY <1>5
<1>7. utf16toUTF8Length(s) = p[w]
  BY DEF utf16toUTF8Length
<1>. HIDE DEF p
<1>8. p[0] = 0 /\ \A i \in 1 .. w : p[i] = p[i - 1] + BytesOf(s, i)
  <2>1. 0 \in 0 .. w /\ \A i \in 1 .. w : i \in 0 .. w /\ i # 0
    BY <1>0
  <2>. QED  BY <1>6, <2>1
<1>9. \A i \in 0 .. w : p[i] = r[i]
  <2>1. Follows(p, w, Nat, g) /\ Follows(r, w, Nat, g)
    BY <1>3, <1>4, <1>8 DEF Follows
  <2>2. p[0] = r[0]
    BY <1>4, <1>8
  <2>. HIDE DEF g, w
  <2>. QED  BY <1>0, <2>1, <2>2, SameRun
<1>10. w \in 0 .. w
  BY <1>0
<1>. QED  BY <1>4, <1>7, <1>9, <1>10

\* As many bytes are written as were counted.
LEMMA AllCountedIsWritten ==
  ASSUME NEW s, Text(s)
  PROVE  Len(utf16toUTF8(s)) = utf16toUTF8Length(s)
<1>. DEFINE N == Len(s)
<1>0. N \in Nat
  <2>1. s \in Seq(Nat)
    BY SMT DEF Text
  <2>. QED  BY <2>1
<1>1. PICK out \in [0 .. N -> Seq(Nat)] :
        /\ Joins(out, Blocks(s)) /\ Adds(out, Blocks(s))
        /\ FlattenSeq(Blocks(s)) = out[N]
  BY BlocksOfText, FlattenParts
<1>2. PICK z \in [0 .. N -> Nat] :
        /\ z[0] = 0 /\ \A i \in 1 .. N : z[i] = z[i - 1] + BytesOf(s, i)
        /\ utf16toUTF8Length(s) = z[N]
  BY SizeSteps
<1>3. Len(out[0]) = 0 /\ \A i \in 1 .. N : Len(out[i]) = Len(out[i - 1]) + BytesOf(s, i)
  <2>1. Len(out[0]) = 0
    <3>1. out[0] = <<>> /\ Len(<<>>) = 0
      BY <1>1 DEF Joins
    <3>. QED  BY <3>1
  <2>2. ASSUME NEW i \in 1 .. N
        PROVE  Len(out[i]) = Len(out[i - 1]) + BytesOf(s, i)
    <3>1. /\ Len(Blocks(s)) = N /\ Blocks(s)[i] = Written(s, i)
          /\ Len(Written(s, i)) = BytesOf(s, i)
      BY BlocksOfText
    <3>2. Len(out[i]) = Len(out[i - 1]) + Len(Blocks(s)[i])
      BY <1>1, <3>1, Zenon DEF Adds
    <3>. QED  BY <3>1, <3>2, Zenon
  <2>. QED  BY <2>1, <2>2
<1>. DEFINE S == {n \in 0 .. N : Len(out[n]) = z[n]}
<1>4. 0 \in S
  BY <1>0, <1>2, <1>3
<1>5. ASSUME NEW n \in 0 .. N - 1, n \in S
      PROVE  n + 1 \in S
  <2>1. n + 1 \in 1 .. N /\ (n + 1) - 1 = n /\ n + 1 \in 0 .. N /\ Len(out[n]) = z[n]
    BY <1>0, <1>5
  <2>2. Len(out[n + 1]) = Len(out[(n + 1) - 1]) + BytesOf(s, n + 1) /\ z[n + 1] = z[(n + 1) - 1] + BytesOf(s, n + 1)
    BY <1>2, <1>3, <2>1
  <2>3. Len(out[n + 1]) = z[n + 1]
    BY <2>1, <2>2
  <2>. QED  BY <2>1, <2>3
<1>6. N \in S
  <2>1. \A n \in 0 .. N - 1 : n \in S => n + 1 \in S
    BY <1>5
  <2>2. N \in 0 .. N
    BY <1>0
  <2>. HIDE DEF S, N
  <2>. QED  BY <1>0, <1>4, <2>1, <2>2, InductionTo
<1>. QED  BY <1>1, <1>2, <1>6 DEF utf16toUTF8, Blocks

\* out[i] are the bytes of the first i units.
Laid(out, s) ==
  /\ out \in [0 .. Len(s) -> Seq(Nat)]
  /\ Joins(out, Blocks(s)) /\ Adds(out, Blocks(s)) /\ InPlace(out, Blocks(s), Len(s))
  /\ utf16toUTF8(s) = out[Len(s)]

\* What is written is the blocks, each in its place.
LEMMA TextsAreLaid ==
  ASSUME NEW s, Text(s)
  PROVE  \E out : Laid(out, s)
<1>1. /\ Blocks(s) \in Seq(Seq(Nat)) /\ Len(Blocks(s)) = Len(s)
  BY BlocksOfText
<1>2. PICK out \in [0 .. Len(s) -> Seq(Nat)] :
        /\ Joins(out, Blocks(s)) /\ Adds(out, Blocks(s)) /\ InPlace(out, Blocks(s), Len(s))
        /\ FlattenSeq(Blocks(s)) = out[Len(s)]
  BY <1>1, FlattenParts
<1>3. utf16toUTF8(s) = out[Len(s)]
  BY <1>2 DEF utf16toUTF8, Blocks
<1>. QED  BY <1>2, <1>3 DEF Laid

\* Where the bytes of each unit are.
Places(out, s, u) ==
  /\ Len(out[0]) = 0
  /\ \A i \in 1 .. Len(s) : Len(out[i]) = Len(out[i - 1]) + BytesOf(s, i)
  /\ \A i \in 1 .. Len(s) : \A k \in 1 .. BytesOf(s, i) :
       Len(out[i - 1]) + k \in 1 .. Len(u) /\ u[Len(out[i - 1]) + k] = Written(s, i)[k]
  /\ \A j \in 1 .. Len(u) : \E i \in 1 .. Len(s) : \E k \in 1 .. BytesOf(s, i) : j = Len(out[i - 1]) + k

\* So every byte belongs to one of them.
LEMMA LaidPlaces ==
  ASSUME NEW s, Text(s), NEW out, Laid(out, s)
  PROVE  Places(out, s, utf16toUTF8(s)) /\ utf16toUTF8(s) \in Seq(Nat) /\ Len(out[Len(s)]) = Len(utf16toUTF8(s))
<1>1. /\ Joins(out, Blocks(s)) /\ Adds(out, Blocks(s)) /\ InPlace(out, Blocks(s), Len(s))
      /\ utf16toUTF8(s) = out[Len(s)]
  BY DEF Laid
<1>2. /\ Len(Blocks(s)) = Len(s)
      /\ \A i \in 1 .. Len(s) : /\ Blocks(s)[i] = Written(s, i)
                                /\ Len(Written(s, i)) = BytesOf(s, i)
  BY BlocksOfText
<1>3. Len(out[0]) = 0
  BY <1>1 DEF Joins
<1>4. Len(s) \in 0 .. Len(s)
  <2>1. s \in Seq(Nat)
    BY SMT DEF Text
  <2>. QED  BY <2>1
<1>5. utf16toUTF8(s) \in Seq(Nat)
  BY <1>1, <1>4 DEF Laid
<1>6. Places(out, s, out[Len(s)])
  <2>1. ASSUME NEW i \in 1 .. Len(s)
        PROVE  Len(out[i]) = Len(out[i - 1]) + BytesOf(s, i)
    BY <1>1, <1>2 DEF Adds
  <2>2. ASSUME NEW i \in 1 .. Len(s), NEW k \in 1 .. BytesOf(s, i)
        PROVE  /\ Len(out[i - 1]) + k \in 1 .. Len(out[Len(s)])
               /\ out[Len(s)][Len(out[i - 1]) + k] = Written(s, i)[k]
    <3>1. k \in 1 .. Len(Blocks(s)[i])
      BY <1>2
    <3>. QED  BY <1>1, <1>2, <3>1 DEF InPlace
  <2>3. ASSUME NEW j \in 1 .. Len(out[Len(s)])
        PROVE  \E i \in 1 .. Len(s) : \E k \in 1 .. BytesOf(s, i) : j = Len(out[i - 1]) + k
    <3>1. PICK i \in 1 .. Len(s) : \E k \in 1 .. Len(Blocks(s)[i]) : j = Len(out[i - 1]) + k
      BY <1>1 DEF InPlace
    <3>2. Len(Blocks(s)[i]) = BytesOf(s, i)
      BY <1>2
    <3>. QED  BY <3>1, <3>2
  <2>. QED  BY <1>3, <2>1, <2>2, <2>3 DEF Places
<1>. QED  BY <1>1, <1>5, <1>6

\* A scalar is told by as many bytes as its first one says.
LEMMA ScalarMoves ==
  ASSUME NEW b, NEW u, NEW o \in Nat, Width(b[1]) \in 1 .. 4,
         \A k \in 1 .. Width(b[1]) : u[o + k] = b[k]
  PROVE  Scalar(u, o + 1) = Scalar(b, 1)
<1>. DEFINE w == Width(b[1])
<1>1. (o + 1) + 1 = o + 2 /\ (o + 1) + 2 = o + 3 /\ (o + 1) + 3 = o + 4 /\ 1 + 1 = 2 /\ 1 + 2 = 3 /\ 1 + 3 = 4
  OBVIOUS
<1>2. 1 \in 1 .. w /\ (w >= 2 => 2 \in 1 .. w) /\ (w >= 3 => 3 \in 1 .. w) /\ (w >= 4 => 4 \in 1 .. w)
  <2>. HIDE DEF w
  <2>1. w \in 1 .. 4
    BY DEF w
  <2>. QED  BY <2>1
<1>3. /\ u[o + 1] = b[1] /\ (w >= 2 => u[o + 2] = b[2])
      /\ (w >= 3 => u[o + 3] = b[3]) /\ (w >= 4 => u[o + 4] = b[4])
  BY <1>2
<1>. DEFINE v == Width(u[o + 1])
<1>4. v = w
  BY <1>3
<1>5. w = 1 \/ w = 2 \/ w = 3 \/ w = 4
  OBVIOUS
<1>. HIDE DEF w, v
<1>6. Scalar(b, 1) = IF w = 1 THEN b[1]
                     ELSE IF w = 2 THEN (b[1] % 32) * 64 + (b[2] % 64)
                     ELSE IF w = 3 THEN (b[1] % 16) * 4096 + (b[2] % 64) * 64 + (b[3] % 64)
                     ELSE (b[1] % 8) * 262144 + (b[2] % 64) * 4096 + (b[3] % 64) * 64 + (b[4] % 64)
  BY <1>1, <1>5, SMT DEF Scalar, w
<1>7. Scalar(u, o + 1)
        = IF v = 1 THEN u[o + 1]
          ELSE IF v = 2 THEN (u[o + 1] % 32) * 64 + (u[o + 2] % 64)
          ELSE IF v = 3 THEN (u[o + 1] % 16) * 4096 + (u[o + 2] % 64) * 64 + (u[o + 3] % 64)
          ELSE (u[o + 1] % 8) * 262144 + (u[o + 2] % 64) * 4096 + (u[o + 3] % 64) * 64 + (u[o + 4] % 64)
  BY <1>1, <1>4, <1>5, SMT DEF Scalar, v
<1>8. CASE w = 1
  BY <1>3, <1>4, <1>6, <1>7, <1>8, SMT
<1>9. CASE w = 2
  BY <1>3, <1>4, <1>6, <1>7, <1>9, SMT
<1>10. CASE w = 3
  BY <1>3, <1>4, <1>6, <1>7, <1>10, SMT
<1>11. CASE w = 4
  BY <1>3, <1>4, <1>6, <1>7, <1>11, SMT
<1>. QED  BY <1>5, <1>8, <1>9, <1>10, <1>11

\* What there is to the bytes of the unit at i, that begin after o others.
CharacterAt(u, o, w, c) ==
  /\ o \in Nat /\ w \in 1 .. 4 /\ o + w <= Len(u)
  /\ Width(u[o + 1]) = w /\ ~Continues(u[o + 1])
  /\ \A k \in 2 .. w : Continues(u[o + k])
  /\ Scalar(u, o + 1) = c
  /\ o + w + 1 <= Len(u) => ~Continues(u[o + w + 1])

\* A block starts with a byte that continues nothing.
LEMMA FirstBytes ==
  ASSUME NEW s, Text(s), NEW out, Laid(out, s), NEW i \in 1 .. Len(s), ~EndsPair(s, i),
         NEW u, u = utf16toUTF8(s)
  PROVE  Len(out[i - 1]) + 1 \in 1 .. Len(u) /\ ~Continues(u[Len(out[i - 1]) + 1])
<1>1. Places(out, s, u)
  BY LaidPlaces
<1>2. BytesOf(s, i) \in 1 .. 4 /\ Spells(Written(s, i), BytesOf(s, i), Point(s, i))
  BY BlocksSpell, SMT
<1>3. 1 \in 1 .. BytesOf(s, i) /\ ~Continues(Written(s, i)[1])
  BY <1>2 DEF Spells
<1>. QED  BY <1>1, <1>3 DEF Places

\* Every block is a character of the whole text.
LEMMA CharactersAreThere ==
  ASSUME NEW s, Text(s), NEW out, Laid(out, s), NEW i \in 1 .. Len(s), ~EndsPair(s, i)
  PROVE  CharacterAt(utf16toUTF8(s), Len(out[i - 1]), BytesOf(s, i), Point(s, i))
<1>. DEFINE u == utf16toUTF8(s)
            N == Len(s)
            o == Len(out[i - 1])
            w == BytesOf(s, i)
            b == Written(s, i)
            c == Point(s, i)
<1>0. N \in Nat /\ s \in Seq(Nat) /\ u \in Seq(Nat) /\ Len(out[N]) = Len(u)
  <2>1. s \in Seq(Nat)
    BY SMT DEF Text
  <2>. QED  BY <2>1, LaidPlaces
<1>1. Places(out, s, u)
  BY LaidPlaces
<1>2. w \in 1 .. 4 /\ Spells(b, w, c)
  BY BlocksSpell, SMT
<1>3. o \in Nat
  <2>1. i - 1 \in 0 .. N
    BY <1>0
  <2>. QED  BY <2>1 DEF Laid
<1>. HIDE DEF u
<1>4. \A k \in 1 .. w : o + k \in 1 .. Len(u) /\ u[o + k] = b[k]
  BY <1>1 DEF Places
<1>5. Len(out[i]) = o + w
  BY <1>1 DEF Places
<1>6. Width(b[1]) = w /\ ~Continues(b[1]) /\ (\A k \in 2 .. w : Continues(b[k])) /\ Scalar(b, 1) = c
  BY <1>2 DEF Spells
<1>7. o + w <= Len(u) /\ 1 \in 1 .. w /\ \A k \in 2 .. w : k \in 1 .. w
  <2>1. w \in 1 .. w
    BY <1>2
  <2>2. o + w \in 1 .. Len(u)
    BY <1>4, <2>1
  <2>. HIDE DEF o, w
  <2>. QED  BY <1>0, <1>2, <2>2
<1>8. Width(u[o + 1]) = w /\ ~Continues(u[o + 1]) /\ \A k \in 2 .. w : Continues(u[o + k])
  BY <1>4, <1>6, <1>7
<1>9. Scalar(u, o + 1) = c
  <2>. HIDE DEF o, w, b, c
  <2>. QED  BY <1>2, <1>3, <1>4, <1>6, ScalarMoves
<1>10. ASSUME o + w + 1 <= Len(u)
       PROVE  ~Continues(u[o + w + 1])
  <2>1. i # N
    <3>1. i = N => Len(u) = o + w
      BY <1>0, <1>5
    <3>. HIDE DEF o, w
    <3>. QED  BY <1>0, <1>2, <1>3, <1>10, <3>1
  <2>2. i + 1 \in 1 .. N /\ (i + 1) - 1 = i
    BY <1>0, <2>1
  <2>3. CASE ~EndsPair(s, i + 1)
    <3>1. ~Continues(u[Len(out[(i + 1) - 1]) + 1])
      BY <2>2, <2>3, FirstBytes DEF u
    <3>. QED  BY <1>5, <2>2, <3>1
  <2>4. CASE EndsPair(s, i + 1)
    <3>1. BytesOf(s, i + 1) = 0 /\ ~StartsPair(s, i + 1)
      BY <2>2, <2>4, BlocksSpell, SMT
    <3>2. Len(out[i + 1]) = o + w
      <4>1. Len(out[i + 1]) = Len(out[(i + 1) - 1]) + BytesOf(s, i + 1)
        BY <1>1, <2>2 DEF Places
      <4>2. Len(out[i + 1]) = (o + w) + 0
        BY <1>5, <2>2, <3>1, <4>1
      <4>. HIDE DEF o, w
      <4>. QED  BY <1>2, <1>3, <4>2
    <3>3. i + 1 # N
      <4>1. i + 1 = N => Len(u) = o + w
        BY <1>0, <3>2
      <4>. HIDE DEF o, w
      <4>. QED  BY <1>0, <1>2, <1>3, <1>10, <4>1
    <3>4. i + 2 \in 1 .. N /\ (i + 2) - 1 = i + 1
      BY <1>0, <2>2, <3>3
    <3>5. ~EndsPair(s, i + 2)
      BY <3>1, <3>4 DEF EndsPair
    <3>6. ~Continues(u[Len(out[(i + 2) - 1]) + 1])
      BY <3>4, <3>5, FirstBytes DEF u
    <3>. QED  BY <3>2, <3>4, <3>6
  <2>. QED  BY <2>3, <2>4
<1>11. CharacterAt(u, o, w, c)
  <2>. HIDE DEF o, w, c
  <2>. QED  BY <1>2, <1>3, <1>7, <1>8, <1>9, <1>10 DEF CharacterAt
<1>. QED  BY <1>11 DEF u

\* A character is valid if its code point may be read.
LEMMA ValidCharacters ==
  ASSUME NEW u \in Seq(Nat), NEW o, NEW w, NEW c \in Nat, CharacterAt(u, o, w, c), Shortest(c, w)
  PROVE  ValidAt(u, o + 1) <=> Proper(c)
<1>1. /\ o \in Nat /\ w \in 1 .. 4 /\ o + w <= Len(u)
      /\ Width(u[o + 1]) = w
      /\ \A k \in 2 .. w : Continues(u[o + k])
      /\ Scalar(u, o + 1) = c
      /\ o + w + 1 <= Len(u) => ~Continues(u[o + w + 1])
  BY DEF CharacterAt
<1>2. (o + 1) + w - 1 <= Len(u)
  BY <1>1
<1>3. ASSUME NEW j \in (o + 1) + 1 .. (o + 1) + w - 1
      PROVE  Continues(u[j])
  <2>1. j - o \in 2 .. w /\ o + (j - o) = j
    BY <1>1
  <2>. QED  BY <1>1, <2>1
<1>4. (o + 1) + w = o + w + 1
  BY <1>1
<1>5. (o + 1) + w <= Len(u) => ~Continues(u[(o + 1) + w])
  BY <1>1, <1>4
<1>6. c >= <<0, \h80, \h800, \h10000>>[w]
  BY DEF Shortest
<1>. DEFINE a == o + 1
            v == Width(u[a])
<1>7. ValidAt(u, a) <=> /\ a + v - 1 <= Len(u)
                        /\ \A j \in a + 1 .. a + v - 1 : Continues(u[j])
                        /\ a + v <= Len(u) => ~Continues(u[a + v])
                        /\ Scalar(u, a) >= <<0, \h80, \h800, \h10000>>[v]
                        /\ Scalar(u, a) <= \h10FFFF
                        /\ (Scalar(u, a) < \hD800 \/ Scalar(u, a) > \hDFFF)
  BY SMT DEF ValidAt
<1>8. v = w /\ Scalar(u, a) = c
  BY <1>1
<1>9. /\ a + w - 1 <= Len(u)
      /\ \A j \in a + 1 .. a + w - 1 : Continues(u[j])
      /\ a + w <= Len(u) => ~Continues(u[a + w])
  BY <1>2, <1>3, <1>5
<1>. HIDE DEF a, v
<1>10. ValidAt(u, a) <=> Proper(c)
  BY <1>6, <1>7, <1>8, <1>9, SMT DEF Proper
<1>. QED  BY <1>10 DEF a

\* Texts without unpaired surrogates, and only those, are valid.
LEMMA ValidTexts ==
  ASSUME NEW s, Text(s), s # <<>>
  PROVE  /\ utf16toUTF8(s) # <<>>
         /\ ValidUtf8(utf16toUTF8(s)) <=> \A i \in 1 .. Len(s) : ~EndsPair(s, i) => Proper(Point(s, i))
<1>. DEFINE u == utf16toUTF8(s)
            N == Len(s)
<1>1. PICK out : Laid(out, s)
  BY TextsAreLaid
<1>2. Places(out, s, u) /\ u \in Seq(Nat)
  BY <1>1, LaidPlaces
<1>3. N \in Nat /\ s \in Seq(Nat) /\ 1 \in 1 .. N
  <2>1. s \in Seq(Nat)
    BY SMT DEF Text
  <2>. QED  BY <2>1
<1>4. ~EndsPair(s, 1)
  BY DEF EndsPair
<1>5. 1 \in 1 .. Len(u) /\ ~Continues(u[1])
  <2>1. Len(out[1 - 1]) + 1 \in 1 .. Len(u) /\ ~Continues(u[Len(out[1 - 1]) + 1])
    BY <1>1, <1>3, <1>4, FirstBytes
  <2>2. Len(out[1 - 1]) + 1 = 1
    BY <1>2 DEF Places
  <2>. QED  BY <2>1, <2>2
<1>. HIDE DEF u
<1>6. u # <<>>
  BY <1>2, <1>5
<1>7. ASSUME NEW i \in 1 .. N, ~EndsPair(s, i)
      PROVE  /\ Len(out[i - 1]) + 1 \in 1 .. Len(u)
             /\ ~Continues(u[Len(out[i - 1]) + 1]) /\ Width(u[Len(out[i - 1]) + 1]) < 5
             /\ ValidAt(u, Len(out[i - 1]) + 1) <=> Proper(Point(s, i))
  <2>1. CharacterAt(u, Len(out[i - 1]), BytesOf(s, i), Point(s, i))
    BY <1>1, <1>7, CharactersAreThere DEF u
  <2>2. Shortest(Point(s, i), BytesOf(s, i)) /\ Point(s, i) \in Nat /\ BytesOf(s, i) \in 1 .. 4
    BY <1>7, BlocksSpell, SMT
  <2>3. ValidAt(u, Len(out[i - 1]) + 1) <=> Proper(Point(s, i))
    BY <1>2, <2>1, <2>2, ValidCharacters
  <2>4. Len(out[i - 1]) + 1 \in 1 .. Len(u)
    BY <1>1, <1>7, FirstBytes DEF u
  <2>5. ~Continues(u[Len(out[i - 1]) + 1]) /\ Width(u[Len(out[i - 1]) + 1]) = BytesOf(s, i)
    BY <2>1 DEF CharacterAt
  <2>6. Width(u[Len(out[i - 1]) + 1]) < 5
    BY <2>2, <2>5
  <2>. QED  BY <2>3, <2>4, <2>5, <2>6
<1>8. ASSUME NEW j \in 1 .. Len(u), ~Continues(u[j])
      PROVE  \E i \in 1 .. N : ~EndsPair(s, i) /\ j = Len(out[i - 1]) + 1
  <2>1. PICK i \in 1 .. N : \E k \in 1 .. BytesOf(s, i) : j = Len(out[i - 1]) + k
    BY <1>2 DEF Places
  <2>2. PICK k \in 1 .. BytesOf(s, i) : j = Len(out[i - 1]) + k
    BY <2>1
  <2>3. ~EndsPair(s, i)
    <3>1. EndsPair(s, i) => BytesOf(s, i) = 0
      BY BlocksSpell, SMT
    <3>2. BytesOf(s, i) # 0
      OBVIOUS
    <3>. QED  BY <3>1, <3>2
  <2>4. CharacterAt(u, Len(out[i - 1]), BytesOf(s, i), Point(s, i))
    BY <1>1, <2>3, CharactersAreThere DEF u
  <2>5. k = 1
    <3>1. k # 1 => k \in 2 .. BytesOf(s, i)
      BY <2>4 DEF CharacterAt
    <3>2. \A l \in 2 .. BytesOf(s, i) : Continues(u[Len(out[i - 1]) + l])
      BY <2>4 DEF CharacterAt
    <3>. QED  BY <1>8, <2>2, <3>1, <3>2
  <2>. QED  BY <2>2, <2>3, <2>5
<1>9. ValidUtf8(u) <=> \A i \in 1 .. N : ~EndsPair(s, i) => Proper(Point(s, i))
  <2>1. ASSUME ValidUtf8(u), NEW i \in 1 .. N, ~EndsPair(s, i)
        PROVE  Proper(Point(s, i))
    BY <1>7, <2>1 DEF ValidUtf8
  <2>2. ASSUME \A i \in 1 .. N : ~EndsPair(s, i) => Proper(Point(s, i))
        PROVE  ValidUtf8(u)
    <3>1. ASSUME NEW j \in 1 .. Len(u)
          PROVE  Continues(u[j]) \/ (Width(u[j]) < 5 /\ ValidAt(u, j))
      BY <1>7, <1>8, <2>2
    <3>. QED  BY <1>5, <3>1 DEF ValidUtf8
  <2>. QED  BY <2>1, <2>2
<1>. QED  BY <1>6, <1>9 DEF u

\* The units that the character at i stands for.
UnitsAt(s, i) == IF StartsPair(s, i) THEN <<s[i], s[i + 1]>> ELSE <<s[i]>>

\* The first byte of a block is read as the units it was made of, the others
\* as nothing.
LEMMA ReadsOfText ==
  ASSUME NEW s, Text(s), NEW out, Laid(out, s), NEW i \in 1 .. Len(s), ~EndsPair(s, i)
  PROVE  /\ ReadAt(utf16toUTF8(s), Len(out[i - 1]) + 1) = UnitsAt(s, i)
         /\ \A k \in 2 .. BytesOf(s, i) : ReadAt(utf16toUTF8(s), Len(out[i - 1]) + k) = <<>>
<1>. DEFINE u == utf16toUTF8(s)
            o == Len(out[i - 1])
<1>1. CharacterAt(u, o, BytesOf(s, i), Point(s, i))
  BY CharactersAreThere
<1>2. Units16(Point(s, i)) = UnitsAt(s, i)
  BY UnitsOfPoints, SMT DEF UnitsAt
<1>. HIDE DEF u, o
<1>3. ~Continues(u[o + 1]) /\ Scalar(u, o + 1) = Point(s, i)
      /\ \A k \in 2 .. BytesOf(s, i) : Continues(u[o + k])
  BY <1>1 DEF CharacterAt
<1>4. ReadAt(u, o + 1) = UnitsAt(s, i)
  BY <1>2, <1>3 DEF ReadAt
<1>5. \A k \in 2 .. BytesOf(s, i) : ReadAt(u, o + k) = <<>>
  BY <1>3 DEF ReadAt
<1>. QED  BY <1>4, <1>5 DEF u, o

\* How far a text has been read when the character at i has.
Past(s, i) == IF i \in 1 .. Len(s) /\ StartsPair(s, i) THEN i + 1 ELSE i

\* How far the units have been read after a block.
LEMMA ReadAhead ==
  ASSUME NEW s, Text(s), NEW i \in 1 .. Len(s)
  PROVE  IF EndsPair(s, i)
           THEN Past(s, i - 1) = i /\ Past(s, i) = i
           ELSE Past(s, i - 1) = i - 1
                /\ SubSeq(s, 1, i - 1) \o UnitsAt(s, i) = SubSeq(s, 1, Past(s, i))
<1>0. s \in Seq(Nat) /\ Len(s) \in Nat
  <2>1. s \in Seq(Nat)
    BY SMT DEF Text
  <2>. QED  BY <2>1
<1>1. CASE EndsPair(s, i)
  <2>1. i - 1 \in 1 .. Len(s) /\ (i - 1) + 1 = i /\ StartsPair(s, i - 1)
    BY <1>0, <1>1 DEF EndsPair
  <2>2. ~StartsPair(s, i)
    BY <1>1, BlocksSpell, SMT
  <2>. QED  BY <1>1, <2>1, <2>2 DEF Past
<1>2. CASE ~EndsPair(s, i)
  <2>1. Past(s, i - 1) = i - 1
    <3>1. ~(i - 1 \in 1 .. Len(s) /\ StartsPair(s, i - 1))
      BY <1>0, <1>2 DEF EndsPair
    <3>. QED  BY <3>1 DEF Past
  <2>2. CASE StartsPair(s, i)
    <3>1. i + 1 \in 1 .. Len(s)
      BY <1>0, <2>2 DEF StartsPair
    <3>2. UnitsAt(s, i) = <<s[i], s[i + 1]>> /\ Past(s, i) = i + 1
      BY <2>2 DEF UnitsAt, Past
    <3>3. SubSeq(s, 1, i - 1) \o <<s[i], s[i + 1]>> = SubSeq(s, 1, i + 1)
      BY <1>0, <3>1
    <3>. QED  BY <1>2, <2>1, <3>2, <3>3
  <2>3. CASE ~StartsPair(s, i)
    <3>2. UnitsAt(s, i) = <<s[i]>> /\ Past(s, i) = i
      BY <2>3 DEF UnitsAt, Past
    <3>3. SubSeq(s, 1, i - 1) \o <<s[i]>> = SubSeq(s, 1, i)
      BY <1>0
    <3>. QED  BY <1>2, <2>1, <3>2, <3>3
  <2>. QED  BY <2>2, <2>3
<1>. QED  BY <1>1, <1>2

\* dec[j] is what the first j bytes of u are read as.
ReadTo(dec, u) ==
  /\ dec \in [0 .. Len(u) -> Seq(Nat)] /\ dec[0] = <<>>
  /\ \A j \in 1 .. Len(u) : dec[j] = dec[j - 1] \o ReadAt(u, j)

\* The units of a text are read one character after the other.
LEMMA TextsAreRead ==
  ASSUME NEW s, Text(s), NEW out, Laid(out, s), NEW dec, ReadTo(dec, utf16toUTF8(s))
  PROVE  dec[Len(utf16toUTF8(s))] = s
<1>. DEFINE u == utf16toUTF8(s)
            N == Len(s)
<1>0. N \in Nat /\ s \in Seq(Nat) /\ N \in 0 .. N
  <2>1. s \in Seq(Nat)
    BY SMT DEF Text
  <2>. QED  BY <2>1
<1>1. Places(out, s, u) /\ u \in Seq(Nat) /\ Len(out[N]) = Len(u)
  BY LaidPlaces
<1>. HIDE DEF u
<1>2. /\ dec[0] = <<>> /\ \A j \in 1 .. Len(u) : dec[j] = dec[j - 1] \o ReadAt(u, j)
      /\ \A j \in 0 .. Len(u) : dec[j] \in Seq(Nat)
  BY DEF ReadTo, u
<1>. DEFINE S == {n \in 0 .. N : dec[Len(out[n])] = SubSeq(s, 1, Past(s, n))}
<1>3. 0 \in S
  <2>1. Len(out[0]) = 0
    BY <1>1 DEF Places
  <2>2. Past(s, 0) = 0
    BY DEF Past
  <2>3. SubSeq(s, 1, 0) = <<>>
    BY <1>0
  <2>. QED  BY <1>0, <1>2, <2>1, <2>2, <2>3
<1>4. ASSUME NEW n \in 0 .. N - 1, n \in S
      PROVE  n + 1 \in S
  <2>. DEFINE i == n + 1
              o == Len(out[n])
              w == BytesOf(s, i)
  <2>1. i \in 1 .. N /\ i - 1 = n /\ i \in 0 .. N /\ n \in 0 .. N
    BY <1>0
  <2>2. dec[o] = SubSeq(s, 1, Past(s, n))
    BY <1>4
  <2>3. Len(out[i]) = o + w
    BY <1>1, <2>1 DEF Places
  <2>4. o \in Nat
    BY <2>1 DEF Laid
  <2>. HIDE DEF i
  <2>5. CASE EndsPair(s, i)
    <3>1. w = 0
      BY <2>1, <2>5, BlocksSpell, SMT
    <3>2. Past(s, n) = i /\ Past(s, i) = i
      BY <2>1, <2>5, ReadAhead
    <3>3. Len(out[i]) = o
      <4>. HIDE DEF o, w
      <4>. QED  BY <2>3, <2>4, <3>1
    <3>. QED  BY <2>1, <2>2, <3>2, <3>3 DEF i
  <2>6. CASE ~EndsPair(s, i)
    <3>1. w \in 1 .. 4
      BY <2>1, <2>6, BlocksSpell, SMT
    <3>2. ReadAt(u, o + 1) = UnitsAt(s, i) /\ \A k \in 2 .. w : ReadAt(u, o + k) = <<>>
      BY <2>1, <2>6, ReadsOfText DEF u
    <3>3. Past(s, n) = n /\ SubSeq(s, 1, n) \o UnitsAt(s, i) = SubSeq(s, 1, Past(s, i))
      BY <2>1, <2>6, ReadAhead
    <3>4. \A k \in 1 .. w : o + k \in 1 .. Len(u)
      BY <1>1, <2>1 DEF Places
    <3>. HIDE DEF o, w
    <3>5. dec[o + 1] = SubSeq(s, 1, Past(s, i))
      <4>1. o + 1 \in 1 .. Len(u) /\ (o + 1) - 1 = o
        BY <2>4, <3>1, <3>4
      <4>2. dec[o + 1] = dec[(o + 1) - 1] \o ReadAt(u, o + 1)
        BY <1>2, <4>1
      <4>. QED  BY <2>2, <3>2, <3>3, <4>1, <4>2
    <3>6. ASSUME NEW k \in 2 .. w
          PROVE  dec[o + k] = dec[o + (k - 1)]
      <4>1. o + k \in 1 .. Len(u) /\ (o + k) - 1 = o + (k - 1) /\ o + (k - 1) \in 1 .. Len(u)
        <5>1. k \in 1 .. w /\ k - 1 \in 1 .. w
          BY <3>1
        <5>2. o + k \in 1 .. Len(u) /\ o + (k - 1) \in 1 .. Len(u)
          BY <3>4, <5>1
        <5>. QED  BY <2>4, <5>2
      <4>2. dec[o + k] = dec[(o + k) - 1] \o ReadAt(u, o + k)
        BY <1>2, <4>1
      <4>3. dec[o + (k - 1)] \in Seq(Nat)
        <5>1. o + (k - 1) \in 0 .. Len(u)
          BY <1>1, <4>1
        <5>. QED  BY <1>2, <5>1
      <4>4. dec[o + k] = dec[o + (k - 1)] \o <<>>
        BY <3>2, <4>1, <4>2
      <4>. QED  BY <4>3, <4>4
    <3>7. dec[o + w] = dec[o + 1]
      <4>1. 2 <= w => dec[o + 2] = dec[o + 1]
        <5>1. 2 <= w => 2 \in 2 .. w /\ 2 - 1 = 1
          BY <3>1
        <5>. QED  BY <3>6, <5>1
      <4>2. 3 <= w => dec[o + 3] = dec[o + 2]
        <5>1. 3 <= w => 3 \in 2 .. w /\ 3 - 1 = 2
          BY <3>1
        <5>. QED  BY <3>6, <5>1
      <4>3. 4 <= w => dec[o + 4] = dec[o + 3]
        <5>1. 4 <= w => 4 \in 2 .. w /\ 4 - 1 = 3
          BY <3>1
        <5>. QED  BY <3>6, <5>1
      <4>. QED  BY <3>1, <4>1, <4>2, <4>3
    <3>8. dec[Len(out[i])] = SubSeq(s, 1, Past(s, i))
      BY <2>3, <3>5, <3>7
    <3>. QED  BY <2>1, <3>8 DEF i
  <2>. QED  BY <2>5, <2>6
<1>5. N \in S
  <2>1. \A n \in 0 .. N - 1 : n \in S => n + 1 \in S
    BY <1>4
  <2>. HIDE DEF S, N
  <2>. QED  BY <1>0, <1>3, <2>1, InductionTo
<1>6. Past(s, N) = N
  BY <1>0 DEF Past, StartsPair
<1>7. SubSeq(s, 1, N) = s
  BY <1>0
<1>8. dec[Len(u)] = s
  BY <1>1, <1>5, <1>6, <1>7
<1>. QED  BY <1>8 DEF u

\* Reading is one run of FlattenSeq, if what is read are units.
LEMMA Reading ==
  ASSUME NEW u \in Seq(Nat), \A j \in 1 .. Len(u) : ReadAt(u, j) \in Seq(Nat)
  PROVE  \E dec : ReadTo(dec, u) /\ FlattenSeq([j \in 1 .. Len(u) |-> ReadAt(u, j)]) = dec[Len(u)]
<1>. DEFINE reads == [j \in 1 .. Len(u) |-> ReadAt(u, j)]
<1>1. reads \in Seq(Seq(Nat)) /\ Len(reads) = Len(u) /\ \A j \in 1 .. Len(u) : reads[j] = ReadAt(u, j)
  OBVIOUS
<1>. HIDE DEF reads
<1>2. PICK dec \in [0 .. Len(reads) -> Seq(Nat)] :
        Joins(dec, reads) /\ FlattenSeq(reads) = dec[Len(reads)]
  BY <1>1, FlattenParts
<1>3. ReadTo(dec, u)
  BY <1>1, <1>2 DEF Joins, ReadTo
<1>. QED  BY <1>1, <1>2, <1>3 DEF reads

\* A text is read as what it is, unless it has an unpaired surrogate.
LEMMA WideTexts ==
  ASSUME NEW s, Text(s)
  PROVE  Utf8ToUtf16(utf16toUTF8(s)) = s
           <=> \A i \in 1 .. Len(s) : HighSurrogate(s[i]) \/ LowSurrogate(s[i])
                                        => StartsPair(s, i) \/ EndsPair(s, i)
<1>. DEFINE u == utf16toUTF8(s)
            proper == \A i \in 1 .. Len(s) : ~EndsPair(s, i) => Proper(Point(s, i))
<1>0. s \in Seq(Nat)
  BY SMT DEF Text
<1>1. proper <=> \A i \in 1 .. Len(s) : HighSurrogate(s[i]) \/ LowSurrogate(s[i])
                                        => StartsPair(s, i) \/ EndsPair(s, i)
  <2>1. ASSUME NEW i \in 1 .. Len(s)
        PROVE  (~EndsPair(s, i) => Proper(Point(s, i)))
                 <=> (HighSurrogate(s[i]) \/ LowSurrogate(s[i]) => StartsPair(s, i) \/ EndsPair(s, i))
    <3>1. CASE EndsPair(s, i)
      BY <3>1
    <3>2. CASE ~EndsPair(s, i)
      <4>1. Proper(Point(s, i)) <=> (HighSurrogate(s[i]) \/ LowSurrogate(s[i]) => StartsPair(s, i))
        BY <3>2, UnpairedPoints, SMT
      <4>. QED  BY <3>2, <4>1
    <3>. QED  BY <3>1, <3>2
  <2>. QED  BY <2>1
<1>2. Utf8ToUtf16(u) = s <=> proper
  <2>1. CASE s = <<>>
    <3>1. Blocks(s) = <<>>
      BY <2>1 DEF Blocks
    <3>2. PICK out : Laid(out, s)
      BY TextsAreLaid
    <3>3. u = <<>>
      <4>1. u = out[Len(s)] /\ Len(s) = 0
        BY <2>1, <3>2 DEF Laid
      <4>2. out[0] = <<>>
        BY <3>2 DEF Laid, Joins
      <4>. QED  BY <4>1, <4>2
    <3>4. Utf8ToUtf16(u) = <<>>
      BY <3>3 DEF Utf8ToUtf16
    <3>5. proper
      BY <2>1
    <3>. QED  BY <2>1, <3>4, <3>5
  <2>2. CASE s # <<>>
    <3>1. u # <<>> /\ (ValidUtf8(u) <=> proper)
      BY <2>2, ValidTexts
    <3>. HIDE DEF u, proper
    <3>2. CASE ~proper
      <4>1. Utf8ToUtf16(u) = Throws
        BY <3>1, <3>2 DEF Utf8ToUtf16
      <4>2. Throws # s
        <5>1. s = <<-1>> => 1 \in 1 .. Len(s) /\ s[1] \notin Nat
          OBVIOUS
        <5>. QED  BY <1>0, <5>1 DEF Throws
      <4>. QED  BY <3>2, <4>1, <4>2
    <3>3. CASE proper
      <4>1. PICK out : Laid(out, s)
        BY TextsAreLaid
      <4>2. Places(out, s, u) /\ u \in Seq(Nat)
        BY <4>1, LaidPlaces DEF u
      <4>3. ASSUME NEW j \in 1 .. Len(u)
            PROVE  ReadAt(u, j) \in Seq(Nat)
        <5>1. PICK i \in 1 .. Len(s) : \E k \in 1 .. BytesOf(s, i) : j = Len(out[i - 1]) + k
          BY <4>2 DEF Places
        <5>2. PICK k \in 1 .. BytesOf(s, i) : j = Len(out[i - 1]) + k
          BY <5>1
        <5>3. ~EndsPair(s, i) /\ BytesOf(s, i) \in 1 .. 4
          <6>1. EndsPair(s, i) => BytesOf(s, i) = 0
            BY BlocksSpell, SMT
          <6>2. BytesOf(s, i) # 0
            OBVIOUS
          <6>3. ~EndsPair(s, i)
            BY <6>1, <6>2
          <6>4. BytesOf(s, i) \in 1 .. 4
            BY <6>3, BlocksSpell, SMT
          <6>. QED  BY <6>3, <6>4
        <5>4. /\ ReadAt(u, Len(out[i - 1]) + 1) = UnitsAt(s, i)
              /\ \A l \in 2 .. BytesOf(s, i) : ReadAt(u, Len(out[i - 1]) + l) = <<>>
          BY <4>1, <5>3, ReadsOfText DEF u
        <5>5. UnitsAt(s, i) \in Seq(Nat)
          BY <1>0 DEF UnitsAt, StartsPair
        <5>6. k = 1 \/ k \in 2 .. BytesOf(s, i)
          BY <5>3
        <5>7. <<>> \in Seq(Nat)
          OBVIOUS
        <5>. QED  BY <5>2, <5>4, <5>5, <5>6, <5>7
      <4>4. PICK dec : ReadTo(dec, u) /\ FlattenSeq([j \in 1 .. Len(u) |-> ReadAt(u, j)]) = dec[Len(u)]
        BY <4>2, <4>3, Reading
      <4>5. dec[Len(u)] = s
        BY <4>1, <4>4, TextsAreRead DEF u
      <4>6. Utf8ToUtf16(u) = FlattenSeq([j \in 1 .. Len(u) |-> ReadAt(u, j)])
        BY <3>1, <3>3 DEF Utf8ToUtf16
      <4>. QED  BY <3>3, <4>4, <4>5, <4>6
    <3>. QED  BY <3>2, <3>3
  <2>. QED  BY <2>1, <2>2
<1>. QED  BY <1>1, <1>2

\* What the conditions of ValidUtf8 say of the character that starts at j.
LEMMA ValidParts ==
  ASSUME NEW u \in Seq(Nat), NEW j \in 1 .. Len(u), ValidAt(u, j), NEW w, w = Width(u[j])
  PROVE  /\ j + w - 1 <= Len(u)
         /\ \A l \in j + 1 .. j + w - 1 : Continues(u[l])
         /\ j + w <= Len(u) => ~Continues(u[j + w])
  BY SMT DEF ValidAt

\* The widths that first bytes announce.
LEMMA WidthsOfBytes ==
  ASSUME NEW b \in Nat
  PROVE  /\ Width(b) \in 1 .. 5
         /\ Continues(b) => Width(b) = 5
         /\ Width(b) = 1 <=> b < \h80
         /\ b < \h80 => ~Continues(b)
  BY SMT DEF Width, Continues

\* A character of up to three bytes is one unit.
LEMMA ShortScalars ==
  ASSUME NEW u \in Seq(Nat), NEW j \in 1 .. Len(u), ValidAt(u, j), Width(u[j]) < 5
  PROVE  /\ ReadAt(u, j) \in Seq(Nat)
         /\ Len(ReadAt(u, j)) <= (IF Width(u[j]) = 4 THEN 2 ELSE 1)
<1>. DEFINE w == Width(u[j])
            c == Scalar(u, j)
            x == u[j]
            a == u[j + 1] % 64
            b == u[j + 2] % 64
            d == u[j + 3] % 64
<1>0. x \in Nat /\ Len(u) \in Nat /\ w \in 1 .. 4
  <2>1. x \in Nat
    OBVIOUS
  <2>2. Width(x) \in 1 .. 5
    BY <2>1, WidthsOfBytes
  <2>. QED  BY <2>1, <2>2
<1>1. j + w - 1 <= Len(u)
  BY ValidParts
<1>2. /\ w >= 2 => j + 1 \in 1 .. Len(u)
      /\ w >= 3 => j + 2 \in 1 .. Len(u)
      /\ w >= 4 => j + 3 \in 1 .. Len(u)
  <2>. HIDE DEF w
  <2>. QED  BY <1>0, <1>1
<1>3. \A n \in Nat : n % 64 \in Nat /\ n % 64 <= 63
  BY SMT
<1>4. /\ w >= 2 => a \in Nat /\ a <= 63
      /\ w >= 3 => b \in Nat /\ b <= 63
      /\ w >= 4 => d \in Nat /\ d <= 63
  <2>1. \A l \in 1 .. Len(u) : u[l] \in Nat /\ u[l] % 64 \in Nat /\ u[l] % 64 <= 63
    BY <1>3
  <2>2. w >= 2 => a \in Nat /\ a <= 63
    BY <1>2, <2>1
  <2>3. w >= 3 => b \in Nat /\ b <= 63
    BY <1>2, <2>1
  <2>4. w >= 4 => d \in Nat /\ d <= 63
    BY <1>2, <2>1
  <2>. QED  BY <2>2, <2>3, <2>4
<1>5. c = IF w = 1 THEN x ELSE IF w = 2 THEN (x % 32) * 64 + a
          ELSE IF w = 3 THEN (x % 16) * 4096 + a * 64 + b
          ELSE (x % 8) * 262144 + a * 4096 + b * 64 + d
  BY <1>0, SMT DEF Scalar
<1>6. w = 1 => x < \h80
  BY <1>0, WidthsOfBytes
<1>. HIDE DEF w, c, x, a, b, d
<1>7. x % 32 \in Nat /\ x % 32 <= 31 /\ x % 16 \in Nat /\ x % 16 <= 15 /\ x % 8 \in Nat
  BY <1>0, SMT
<1>8. c \in Nat /\ (w # 4 => c < \h10000)
  <2>. DEFINE p == x % 32
              q == x % 16
              r == x % 8
  <2>0. p \in Nat /\ p <= 31 /\ q \in Nat /\ q <= 15 /\ r \in Nat
    BY <1>7
  <2>1. CASE w = 1
    <3>1. c = x /\ x < \h80
      BY <1>5, <1>6, <2>1
    <3>. QED  BY <1>0, <2>1, <3>1, SMT
  <2>2. CASE w = 2
    <3>1. c = p * 64 + a /\ a \in Nat /\ a <= 63
      BY <1>4, <1>5, <2>2
    <3>. HIDE DEF p, q, r
    <3>. QED  BY <2>0, <2>2, <3>1, SMT
  <2>3. CASE w = 3
    <3>1. c = q * 4096 + a * 64 + b /\ a \in Nat /\ a <= 63 /\ b \in Nat /\ b <= 63
      BY <1>4, <1>5, <2>3, SMT
    <3>. HIDE DEF p, q, r
    <3>. QED  BY <2>0, <2>3, <3>1, SMT
  <2>4. CASE w = 4
    <3>1. c = r * 262144 + a * 4096 + b * 64 + d /\ a \in Nat /\ b \in Nat /\ d \in Nat
      BY <1>4, <1>5, <2>4, SMT
    <3>. HIDE DEF p, q, r
    <3>. QED  BY <2>0, <2>4, <3>1, SMT
  <2>. QED  BY <1>0, <2>1, <2>2, <2>3, <2>4
<1>9. /\ Units16(c) \in Seq(Nat)
      /\ Len(Units16(c)) = IF c < \h10000 THEN 1 ELSE 2
  <2>1. CASE c < \h10000
    BY <1>8, <2>1, SMT DEF Units16
  <2>2. CASE ~(c < \h10000)
    <3>. DEFINE r == c - \h10000
    <3>1. r \in Nat
      BY <1>8, <2>2, SMT
    <3>. HIDE DEF r
    <3>2. \hD800 + r \div \h400 \in Nat /\ \hDC00 + (r % \h400) \in Nat
      BY <3>1, SMT
    <3>3. Units16(c) = <<\hD800 + r \div \h400, \hDC00 + (r % \h400)>>
      BY <2>2, SMT DEF Units16, r
    <3>. QED  BY <2>2, <3>2, <3>3, SMT
  <2>. QED  BY <2>1, <2>2, SMT
<1>10. ReadAt(u, j) = <<>> \/ ReadAt(u, j) = Units16(c)
  BY DEF ReadAt, c
<1>11. <<>> \in Seq(Nat) /\ Len(<<>>) = 0
  OBVIOUS
<1>12. Len(Units16(c)) <= (IF w = 4 THEN 2 ELSE 1)
  BY <1>8, <1>9, SMT
<1>13. w = Width(u[j])
  BY DEF w
<1>14. CASE ReadAt(u, j) = <<>>
  BY <1>11, <1>13, <1>14
<1>15. CASE ReadAt(u, j) = Units16(c)
  <2>1. ReadAt(u, j) \in Seq(Nat)
    BY <1>9, <1>15
  <2>2. Len(ReadAt(u, j)) <= (IF w = 4 THEN 2 ELSE 1)
    BY <1>12, <1>15
  <2>. QED  BY <1>13, <2>1, <2>2
<1>. QED  BY <1>10, <1>14, <1>15

\* The bytes of a valid text, one at a time.
ValidBytes(u) ==
  \A j \in 1 .. Len(u) : Continues(u[j]) \/ (Width(u[j]) < 5 /\ ValidAt(u, j))

\* A character of four bytes is read as two units, one of them too early.
Ahead(u, j) == IF j \in 1 .. Len(u) /\ Width(u[j]) = 4 THEN 1 ELSE 0

\* How much longer the result gets with each byte.
LEMMA LengthsOfReads ==
  ASSUME NEW u \in Seq(Nat), ValidBytes(u), NEW dec, ReadTo(dec, u), NEW j \in 1 .. Len(u)
  PROVE  /\ Len(dec[j]) \in Nat /\ Len(dec[j - 1]) \in Nat
         /\ Continues(u[j]) => Len(dec[j]) = Len(dec[j - 1])
         /\ ~Continues(u[j]) => Len(dec[j]) <= Len(dec[j - 1]) + 1 + Ahead(u, j)
<1>. DEFINE a == dec[j - 1]
            b == ReadAt(u, j)
            c == dec[j]
<1>1. a \in Seq(Nat) /\ c \in Seq(Nat) /\ c = a \o b
  <2>1. j - 1 \in 0 .. Len(u) /\ j \in 0 .. Len(u)
    OBVIOUS
  <2>. QED  BY <2>1 DEF ReadTo
<1>2. ASSUME Continues(u[j])
      PROVE  b = <<>>
  BY <1>2 DEF ReadAt
<1>3. ASSUME ~Continues(u[j])
      PROVE  b \in Seq(Nat) /\ Len(b) <= 1 + Ahead(u, j)
  <2>1. ValidAt(u, j) /\ Width(u[j]) < 5
    BY <1>3 DEF ValidBytes
  <2>2. b \in Seq(Nat) /\ Len(b) <= (IF Width(u[j]) = 4 THEN 2 ELSE 1)
    BY <2>1, ShortScalars
  <2>. HIDE DEF b
  <2>3. Len(b) \in Nat
    BY <2>2
  <2>. QED  BY <2>2, <2>3 DEF Ahead
<1>4. Ahead(u, j) \in 0 .. 1
  BY DEF Ahead
<1>. HIDE DEF a, b, c
<1>5. CASE Continues(u[j])
  <2>1. c = a
    BY <1>1, <1>2, <1>5
  <2>. QED  BY <1>1, <1>5, <2>1 DEF a, c
<1>6. CASE ~Continues(u[j])
  <2>1. Len(c) = Len(a) + Len(b) /\ Len(a) \in Nat /\ Len(b) \in Nat /\ Len(b) <= 1 + Ahead(u, j)
    BY <1>1, <1>3, <1>6
  <2>2. Len(c) <= Len(a) + 1 + Ahead(u, j) /\ Len(c) \in Nat
    BY <1>4, <2>1
  <2>. QED  BY <1>6, <2>1, <2>2 DEF a, c
<1>. QED  BY <1>5, <1>6

\* What has been read never catches up with the bytes.
Behind(dec, u, j, c) == Len(dec[j]) <= j + c + Ahead(u, j)

\* It stays behind once it is.
LEMMA StaysBehind ==
  ASSUME NEW u \in Seq(Nat), ValidBytes(u), NEW dec, ReadTo(dec, u),
         NEW t \in 0 .. Len(u), NEW c \in Int, Behind(dec, u, t, c)
  PROVE  \A j \in t .. Len(u) : Behind(dec, u, j, c)
<1>. DEFINE N == Len(u)
            M == N - t
            S == {n \in 0 .. M : Behind(dec, u, t + n, c)}
<1>0. N \in Nat /\ t \in Nat /\ M \in Nat
  OBVIOUS
<1>1. 0 \in S
  BY <1>0
<1>2. ASSUME NEW n \in 0 .. M - 1, n \in S
      PROVE  n + 1 \in S
  <2>. DEFINE i == t + n
              j == t + (n + 1)
  <2>1. j \in 1 .. N /\ j - 1 = i /\ n + 1 \in 0 .. M /\ i \in Nat /\ i < N
    BY <1>0
  <2>2. Len(dec[i]) <= i + c + Ahead(u, i)
    BY <1>2 DEF Behind
  <2>. HIDE DEF i, j, M
  <2>3. /\ Len(dec[j]) \in Nat /\ Len(dec[i]) \in Nat
        /\ Continues(u[j]) => Len(dec[j]) = Len(dec[i])
        /\ ~Continues(u[j]) => Len(dec[j]) <= Len(dec[i]) + 1 + Ahead(u, j)
    BY <2>1, LengthsOfReads
  <2>4. Ahead(u, i) \in 0 .. 1 /\ Ahead(u, j) \in 0 .. 1
    BY DEF Ahead
  <2>5. ~Continues(u[j]) => Ahead(u, i) = 0
    <3>1. SUFFICES ASSUME i \in 1 .. N, Width(u[i]) = 4
                   PROVE  Continues(u[j])
      BY DEF Ahead
    <3>2. u[i] \in Nat
      BY <3>1
    <3>3. ~Continues(u[i])
      BY <3>1, <3>2, WidthsOfBytes
    <3>4. ValidAt(u, i)
      BY <3>1, <3>3 DEF ValidBytes
    <3>5. \A l \in i + 1 .. i + 4 - 1 : Continues(u[l])
      BY <3>1, <3>4, ValidParts
    <3>6. j \in i + 1 .. i + 4 - 1
      BY <2>1
    <3>. QED  BY <3>5, <3>6
  <2>6. Len(dec[j]) <= j + c + Ahead(u, j)
    <3>. DEFINE x == Len(dec[i])
                y == Len(dec[j])
                p == Ahead(u, i)
                q == Ahead(u, j)
    <3>1. x \in Nat /\ y \in Nat /\ x <= i + c + p /\ p \in 0 .. 1 /\ q \in 0 .. 1
      BY <2>2, <2>3, <2>4
    <3>2. CASE Continues(u[j])
      <4>1. y = x
        BY <2>3, <3>2
      <4>. HIDE DEF x, y, p, q
      <4>2. y <= j + c + q
        BY <2>1, <3>1, <4>1
      <4>. QED  BY <4>2 DEF y, q
    <3>3. CASE ~Continues(u[j])
      <4>1. y <= x + 1 + q /\ p = 0
        BY <2>3, <2>5, <3>3
      <4>. HIDE DEF x, y, p, q
      <4>2. y <= j + c + q
        BY <2>1, <3>1, <4>1
      <4>. QED  BY <4>2 DEF y, q
    <3>. QED  BY <3>2, <3>3
  <2>. QED  BY <2>1, <2>6 DEF Behind, j
<1>3. \A n \in 0 .. M : n \in S
  <2>1. \A n \in 0 .. M - 1 : n \in S => n + 1 \in S
    BY <1>2
  <2>. HIDE DEF S, M
  <2>. QED  BY <1>0, <1>1, <2>1, InductionTo
<1>4. ASSUME NEW j \in t .. N
      PROVE  Behind(dec, u, j, c)
  <2>1. j - t \in 0 .. M /\ t + (j - t) = j
    BY <1>0
  <2>2. j - t \in S
    BY <1>3, <2>1
  <2>. QED  BY <2>1, <2>2
<1>. QED  BY <1>4

\* A text of ASCII is read as it is.
LEMMA AsciiIsRead ==
  ASSUME NEW s \in Seq(Nat), s # <<>>, \A i \in 1 .. Len(s) : s[i] < \h80
  PROVE  Utf8ToUtf16(s) = s
<1>. DEFINE N == Len(s)
<1>0. N \in Nat /\ N \in 0 .. N /\ 1 \in 1 .. N
  OBVIOUS
<1>1. ASSUME NEW j \in 1 .. N
      PROVE  ~Continues(s[j]) /\ Width(s[j]) = 1 /\ Scalar(s, j) = s[j] /\ s[j] \in Nat /\ s[j] < \h80
  <2>1. s[j] \in Nat /\ s[j] < \h80
    OBVIOUS
  <2>2. Width(s[j]) = 1 /\ ~Continues(s[j])
    BY <2>1, WidthsOfBytes
  <2>. QED  BY <2>1, <2>2, SMT DEF Scalar
<1>2. ASSUME NEW j \in 1 .. N
      PROVE  ValidAt(s, j)
  <2>. DEFINE v == Width(s[j])
              c == Scalar(s, j)
  <2>1. ValidAt(s, j) <=> /\ j + v - 1 <= N
                          /\ \A l \in j + 1 .. j + v - 1 : Continues(s[l])
                          /\ j + v <= N => ~Continues(s[j + v])
                          /\ c >= <<0, \h80, \h800, \h10000>>[v]
                          /\ c <= \h10FFFF
                          /\ (c < \hD800 \/ c > \hDFFF)
    BY SMT DEF ValidAt
  <2>2. v = 1 /\ c \in Nat /\ c < \h80
    BY <1>1
  <2>3. j + 1 <= N => ~Continues(s[j + 1])
    <3>1. j + 1 <= N => j + 1 \in 1 .. N
      BY <1>0
    <3>. QED  BY <1>1, <3>1
  <2>4. j + 1 - 1 <= N /\ \A l \in j + 1 .. j + 1 - 1 : Continues(s[l])
    BY <1>0
  <2>. HIDE DEF v, c
  <2>. QED  BY <2>1, <2>2, <2>3, <2>4, SMT
<1>3. ValidUtf8(s)
  BY <1>0, <1>1, <1>2 DEF ValidUtf8
<1>4. ASSUME NEW j \in 1 .. N
      PROVE  ReadAt(s, j) = <<s[j]>>
  <2>1. ReadAt(s, j) = Units16(s[j])
    BY <1>1 DEF ReadAt
  <2>2. s[j] < \h10000
    BY <1>1, SMT
  <2>. QED  BY <2>1, <2>2, SMT DEF Units16
<1>5. PICK dec : ReadTo(dec, s) /\ FlattenSeq([j \in 1 .. N |-> ReadAt(s, j)]) = dec[N]
  <2>1. \A j \in 1 .. N : ReadAt(s, j) \in Seq(Nat)
    <3>1. ASSUME NEW j \in 1 .. N
          PROVE  <<s[j]>> \in Seq(Nat)
      BY <1>1
    <3>. QED  BY <1>4, <3>1
  <2>. QED  BY <2>1, Reading
<1>. DEFINE S == {n \in 0 .. N : dec[n] = SubSeq(s, 1, n)}
<1>6. 0 \in S
  <2>1. dec[0] = <<>>
    BY <1>5 DEF ReadTo
  <2>2. SubSeq(s, 1, 0) = <<>>
    OBVIOUS
  <2>3. 0 \in 0 .. N
    BY <1>0
  <2>. QED  BY <2>1, <2>2, <2>3
<1>7. ASSUME NEW n \in 0 .. N - 1, n \in S
      PROVE  n + 1 \in S
  <2>1. n + 1 \in 1 .. N /\ (n + 1) - 1 = n /\ n + 1 \in 0 .. N /\ dec[n] = SubSeq(s, 1, n)
    BY <1>0, <1>7
  <2>2. dec[n + 1] = dec[(n + 1) - 1] \o ReadAt(s, n + 1)
    BY <1>5, <2>1 DEF ReadTo
  <2>3. dec[n + 1] = SubSeq(s, 1, n) \o <<s[n + 1]>>
    BY <1>4, <2>1, <2>2
  <2>4. SubSeq(s, 1, n) \o <<s[n + 1]>> = SubSeq(s, 1, n + 1)
    BY <1>0, <2>1
  <2>. QED  BY <2>1, <2>3, <2>4
<1>8. N \in S
  <2>1. \A n \in 0 .. N - 1 : n \in S => n + 1 \in S
    BY <1>7
  <2>. HIDE DEF S, N
  <2>. QED  BY <1>0, <1>6, <2>1, InductionTo
<1>9. Utf8ToUtf16(s) = dec[N]
  BY <1>3, <1>5 DEF Utf8ToUtf16
<1>10. SubSeq(s, 1, N) = s
  BY <1>0
<1>. QED  BY <1>8, <1>9, <1>10

\* A valid text with other characters is read as a shorter one.
LEMMA OthersAreShorter ==
  ASSUME NEW s \in Seq(Nat), ValidUtf8(s), NEW n \in 1 .. Len(s), ~(s[n] < \h80),
         NEW dec, ReadTo(dec, s)
  PROVE  Len(dec[Len(s)]) < Len(s)
<1>. DEFINE N == Len(s)
            Others == {k \in 1 .. N : ~(s[k] < \h80)}
<1>0. N \in Nat /\ ValidBytes(s) /\ ~Continues(s[1]) /\ \A k \in 1 .. N : s[k] \in Nat
  BY DEF ValidUtf8, ValidBytes
<1>1. PICK i \in Others : \A k \in Others : i <= k
  <2>1. Others \in SUBSET Nat /\ Others # {}
    BY <1>0
  <2>. HIDE DEF Others
  <2>. QED  BY <2>1, LeastNatural
<1>2. i \in 1 .. N /\ ~(s[i] < \h80) /\ s[i] \in Nat
  BY <1>0
<1>3. i # 1 => i - 1 \in 1 .. N /\ s[i - 1] < \h80
  <2>1. ASSUME i # 1
        PROVE  i - 1 \in 1 .. N /\ ~(i <= i - 1)
    BY <1>0, <1>2, <2>1
  <2>. QED  BY <1>1, <2>1
<1>4. ~Continues(s[i])
  <2>1. CASE i = 1
    BY <1>0, <2>1
  <2>2. CASE i # 1
    <3>1. i - 1 \in 1 .. N /\ s[i - 1] < \h80 /\ s[i - 1] \in Nat
      BY <1>0, <1>3, <2>2
    <3>2. Width(s[i - 1]) = 1 /\ ~Continues(s[i - 1])
      BY <3>1, WidthsOfBytes
    <3>3. ValidAt(s, i - 1)
      BY <1>0, <3>1, <3>2 DEF ValidBytes
    <3>4. (i - 1) + 1 <= N => ~Continues(s[(i - 1) + 1])
      BY <3>1, <3>2, <3>3, ValidParts
    <3>5. (i - 1) + 1 = i /\ i <= N
      BY <1>0, <1>2
    <3>. QED  BY <3>4, <3>5
  <2>. QED  BY <2>1, <2>2
<1>. DEFINE w == Width(s[i])
<1>5. ValidAt(s, i) /\ w \in 2 .. 4
  <2>1. ValidAt(s, i) /\ w < 5
    BY <1>0, <1>2, <1>4 DEF ValidBytes
  <2>2. w \in 1 .. 5 /\ w # 1
    BY <1>2, WidthsOfBytes
  <2>. HIDE DEF w
  <2>. QED  BY <2>1, <2>2
<1>6. i + w - 1 <= N /\ \A l \in i + 1 .. i + w - 1 : Continues(s[l])
  BY <1>2, <1>5, ValidParts
<1>. DEFINE D(k) == Len(dec[k])
<1>7. D(i - 1) <= i - 1
  <2>1. Behind(dec, s, 0, 0)
    <3>1. dec[0] = <<>> /\ Len(<<>>) = 0 /\ Ahead(s, 0) = 0
      BY DEF ReadTo, Ahead
    <3>. QED  BY <3>1 DEF Behind
  <2>2. 0 \in 0 .. N /\ i - 1 \in 0 .. N
    BY <1>0, <1>2
  <2>3. Behind(dec, s, i - 1, 0)
    BY <1>0, <2>1, <2>2, StaysBehind
  <2>4. Ahead(s, i - 1) = 0
    <3>1. CASE i = 1
      BY <3>1 DEF Ahead
    <3>2. CASE i # 1
      <4>1. s[i - 1] \in Nat /\ s[i - 1] < \h80
        BY <1>0, <1>3, <3>2
      <4>2. Width(s[i - 1]) = 1
        BY <4>1, WidthsOfBytes
      <4>. QED  BY <4>2 DEF Ahead
    <3>. QED  BY <3>1, <3>2
  <2>5. D(i - 1) <= (i - 1) + 0 + 0
    BY <2>3, <2>4 DEF Behind
  <2>. HIDE DEF D
  <2>. QED  BY <1>2, <2>5
<1>8. /\ \A k \in 1 .. N : D(k) \in Nat /\ D(k - 1) \in Nat
      /\ \A k \in 1 .. N : Continues(s[k]) => D(k) = D(k - 1)
      /\ D(i) <= D(i - 1) + 1 + Ahead(s, i)
  BY <1>0, <1>2, <1>4, LengthsOfReads
<1>9. Ahead(s, i) = IF w = 4 THEN 1 ELSE 0
  BY <1>2 DEF Ahead
<1>. DEFINE t == IF w = 4 THEN i + 2 ELSE i + 1
<1>10. t \in 0 .. N /\ t \in 1 .. N /\ D(t) <= t - 1 /\ Continues(s[t])
  <2>. HIDE DEF w, D
  <2>1. i + 1 \in 1 .. N /\ (i + 1) - 1 = i /\ Continues(s[i + 1])
    <3>1. i + 1 \in 1 .. N /\ i + 1 \in i + 1 .. i + w - 1
      BY <1>0, <1>2, <1>5, <1>6
    <3>. QED  BY <1>2, <1>6, <3>1
  <2>2. D(i + 1) = D(i)
    BY <1>8, <2>1
  <2>3. D(i) \in Nat /\ D(i - 1) \in Nat
    BY <1>2, <1>8
  <2>4. CASE w = 4
    <3>1. i + 2 \in 1 .. N /\ (i + 2) - 1 = i + 1 /\ i + 2 \in i + 1 .. i + w - 1
      BY <1>0, <1>2, <1>6, <2>4
    <3>2. Continues(s[i + 2])
      BY <1>6, <3>1
    <3>3. D(i + 2) = D(i + 1)
      BY <1>8, <3>1, <3>2
    <3>4. D(i + 2) <= (i + 2) - 1
      BY <1>2, <1>7, <1>8, <1>9, <2>2, <2>3, <2>4, <3>3, SMTT(20)
    <3>5. i + 2 \in 0 .. N
      BY <3>1
    <3>. QED  BY <2>4, <3>1, <3>2, <3>4, <3>5
  <2>5. CASE w # 4
    <3>1. D(i + 1) <= (i + 1) - 1
      BY <1>2, <1>7, <1>8, <1>9, <2>2, <2>3, <2>5, SMTT(20)
    <3>2. i + 1 \in 0 .. N
      BY <2>1
    <3>. QED  BY <2>1, <2>5, <3>1, <3>2
  <2>. QED  BY <2>4, <2>5
<1>. HIDE DEF t
<1>11. Behind(dec, s, t, -1)
  <2>1. s[t] \in Nat
    BY <1>0, <1>10
  <2>2. Width(s[t]) = 5
    BY <1>10, <2>1, WidthsOfBytes
  <2>3. Ahead(s, t) = 0
    BY <2>2 DEF Ahead
  <2>4. D(t) <= t + (-1) + 0
    <3>1. D(t) \in Nat
      BY <1>8, <1>10
    <3>. HIDE DEF D
    <3>. QED  BY <1>10, <3>1
  <2>. QED  BY <2>3, <2>4 DEF Behind
<1>12. Behind(dec, s, N, -1)
  <2>1. N \in t .. N /\ -1 \in Int
    BY <1>0, <1>10
  <2>. QED  BY <1>0, <1>10, <1>11, <2>1, StaysBehind
<1>13. Ahead(s, N) = 0
  <2>1. SUFFICES ASSUME N \in 1 .. N, Width(s[N]) = 4
                 PROVE  FALSE
    BY DEF Ahead
  <2>2. ~Continues(s[N])
    BY <1>0, <2>1, WidthsOfBytes
  <2>3. ValidAt(s, N)
    BY <1>0, <2>1, <2>2 DEF ValidBytes
  <2>4. N + 4 - 1 <= N
    BY <2>1, <2>3, ValidParts
  <2>. HIDE DEF N
  <2>. QED  BY <1>0, <2>4
<1>14. D(N) <= N + (-1) + 0
  BY <1>12, <1>13 DEF Behind
<1>15. D(N) \in Nat
  BY <1>2, <1>8
<1>. HIDE DEF D, N
<1>16. D(N) < N
  BY <1>0, <1>14, <1>15
<1>. QED  BY <1>16 DEF D, N

\* A view of 8-bit characters is read as it is if all are ASCII.
LEMMA NarrowTexts ==
  ASSUME NEW s \in Seq(Nat)
  PROVE  Utf8ToUtf16(s) = s <=> \A i \in 1 .. Len(s) : s[i] < \h80
<1>1. CASE s = <<>>
  BY <1>1 DEF Utf8ToUtf16
<1>2. CASE s # <<>> /\ \A i \in 1 .. Len(s) : s[i] < \h80
  BY <1>2, AsciiIsRead
<1>3. CASE s # <<>> /\ ~\A i \in 1 .. Len(s) : s[i] < \h80
  <2>1. PICK n \in 1 .. Len(s) : ~(s[n] < \h80)
    BY <1>3
  <2>2. CASE ~ValidUtf8(s)
    <3>1. Utf8ToUtf16(s) = Throws
      BY <1>3, <2>2 DEF Utf8ToUtf16
    <3>2. s = <<-1>> => 1 \in 1 .. Len(s) /\ s[1] \notin Nat
      OBVIOUS
    <3>. QED  BY <1>3, <3>1, <3>2 DEF Throws
  <2>3. CASE ValidUtf8(s)
    <3>1. ASSUME NEW j \in 1 .. Len(s)
          PROVE  ReadAt(s, j) \in Seq(Nat)
      <4>1. CASE Continues(s[j])
        BY <4>1 DEF ReadAt
      <4>2. CASE ~Continues(s[j])
        <5>1. Width(s[j]) < 5 /\ ValidAt(s, j)
          BY <2>3, <4>2 DEF ValidUtf8
        <5>. QED  BY <5>1, ShortScalars
      <4>. QED  BY <4>1, <4>2
    <3>2. PICK dec : ReadTo(dec, s) /\ FlattenSeq([j \in 1 .. Len(s) |-> ReadAt(s, j)]) = dec[Len(s)]
      BY <3>1, Reading
    <3>3. Utf8ToUtf16(s) = dec[Len(s)]
      BY <1>3, <2>3, <3>2 DEF Utf8ToUtf16
    <3>4. Len(dec[Len(s)]) < Len(s)
      BY <2>1, <2>3, <3>2, OthersAreShorter
    <3>5. Utf8ToUtf16(s) # s
      <4>1. ~(Len(s) < Len(s))
        OBVIOUS
      <4>. QED  BY <3>3, <3>4, <4>1
    <3>. QED  BY <1>3, <3>5
  <2>. QED  BY <2>2, <2>3
<1>. QED  BY <1>1, <1>2, <1>3

\* What messages are made of are texts in the sense of these lemmas.
LEMMA TextsAreTexts ==
  ASSUME NEW s \in SeqsUpTo(Units, MaxUnits)
  PROVE  Text(s) /\ s \in Seq(Nat)
<1>1. PICK k \in 0 .. MaxUnits : s \in [1 .. k -> Units]
  BY DEF SeqsUpTo
<1>2. MaxUnits \in Nat /\ Units \in SUBSET Nat
  BY BoundsAssumption, TextsAssumption
<1>3. \A u \in Units : Unit(u)
  BY TextsAssumption, SMT DEF Unit
<1>4. s \in Seq(Nat)
  <2>1. k \in Nat
    BY <1>2
  <2>2. s \in [1 .. k -> Nat]
    BY <1>1, <1>2, Zenon
  <2>. QED  BY <2>1, <2>2
<1>5. \A i \in 1 .. Len(s) : s[i] \in Units
  BY <1>1, <1>2
<1>6. \A i \in 1 .. Len(s) : Unit(s[i])
  BY <1>3, <1>5
<1>. QED  BY <1>4, <1>6, SMT DEF Text

\* For one message: inspector_agent.cpp:120-218.
LEMMA MessagesSurvive ==
  ASSUME NEW s \in SeqsUpTo(Units, MaxUnits), NEW wide \in BOOLEAN,
         input' = <<"text", [wide |-> wide, units |-> s]>>
  PROVE  WritesWhatWasCounted' /\ ProperTextSurvives'
<1>1. Text(s) /\ s \in Seq(Nat)
  BY TextsAreTexts
<1>2. input'[2].units = s /\ input'[2].wide = wide
  OBVIOUS
<1>3. Len(utf16toUTF8(s)) = utf16toUTF8Length(s)
  BY <1>1, AllCountedIsWritten
<1>4. WritesWhatWasCounted'
  BY <1>2, <1>3 DEF WritesWhatWasCounted
<1>5. CASE wide = TRUE
  <2>1. StringViewToUtf8(input'[2]) = utf16toUTF8(s)
    BY <1>2, <1>5 DEF StringViewToUtf8
  <2>2. ProperTextSurvives'
    BY <1>1, <1>2, <1>5, <2>1, WideTexts DEF ProperTextSurvives
  <2>. QED  BY <1>4, <2>2
<1>6. CASE wide = FALSE
  <2>1. StringViewToUtf8(input'[2]) = s
    BY <1>2, <1>6 DEF StringViewToUtf8
  <2>2. ProperTextSurvives'
    BY <1>1, <1>2, <1>6, <2>1, NarrowTexts DEF ProperTextSurvives
  <2>. QED  BY <1>4, <2>2
<1>. QED  BY <1>5, <1>6

------------------------------------------------------------------------------
(* Base64 *)

Octets(s) == s \in Seq(Nat) /\ \A i \in 1 .. Len(s) : s[i] < 256

\* The q-th letter of the group after g whole ones.
Letter(s, g, q) ==
  LET x == s[3 * g + 1]
      y == IF 3 * g + 2 <= Len(s) THEN s[3 * g + 2] ELSE 0
      z == IF 3 * g + 3 <= Len(s) THEN s[3 * g + 3] ELSE 0
  IN  IF q = 1 THEN x \div 4
      ELSE IF q = 2 THEN (x % 4) * 16 + y \div 16
      ELSE IF 3 * g + q - 1 > Len(s) THEN Pad
      ELSE IF q = 3 THEN (y % 16) * 4 + z \div 64
      ELSE z % 64

Encodes(e, s) ==
  /\ e \in Seq(Nat) /\ Len(e) = 4 * ((Len(s) + 2) \div 3)
  /\ \A g \in Nat, q \in 1 .. 4 : 4 * g + q <= Len(e) => e[4 * g + q] = Letter(s, g, q)

\* base64_encode's loop over the whole groups.
Quads(s) == [g \in 1 .. Len(s) \div 3 |-> Quad(s[3 * g - 2], s[3 * g - 1], s[3 * g])]

\* They are the letters of those groups.
LEMMA QuadsOfOctets ==
  ASSUME NEW s, Octets(s)
  PROVE  /\ Quads(s) \in Seq(Seq(Nat)) /\ Len(Quads(s)) = Len(s) \div 3
         /\ \A g \in 1 .. Len(s) \div 3 : Len(Quads(s)[g]) = 4
         /\ \A g \in Nat, q \in 1 .. 4 : g + 1 <= Len(s) \div 3 => Quads(s)[g + 1][q] = Letter(s, g, q)
<1>. DEFINE G == Len(s) \div 3
<1>0. s \in Seq(Nat) /\ Len(s) \in Nat /\ G \in Nat /\ 3 * G <= Len(s)
  BY SMT DEF Octets
<1>. HIDE DEF G
<1>1. ASSUME NEW a \in Nat, NEW b \in Nat, NEW c \in Nat
      PROVE  Quad(a, b, c) \in Seq(Nat) /\ Len(Quad(a, b, c)) = 4
  <2>. DEFINE l1 == a \div 4
              l2 == (a % 4) * 16 + b \div 16
              l3 == (b % 16) * 4 + c \div 64
              l4 == c % 64
  <2>1. l1 \in Nat /\ l2 \in Nat /\ l3 \in Nat /\ l4 \in Nat
    BY SMT
  <2>2. Quad(a, b, c) = <<l1, l2, l3, l4>>
    BY DEF Quad
  <2>. HIDE DEF l1, l2, l3, l4
  <2>. QED  BY <2>1, <2>2
<1>2. ASSUME NEW g \in 1 .. G
      PROVE  Quads(s)[g] \in Seq(Nat) /\ Len(Quads(s)[g]) = 4
  <2>1. 3 * g - 2 \in 1 .. Len(s) /\ 3 * g - 1 \in 1 .. Len(s) /\ 3 * g \in 1 .. Len(s)
    BY <1>0
  <2>2. s[3 * g - 2] \in Nat /\ s[3 * g - 1] \in Nat /\ s[3 * g] \in Nat
    BY <1>0, <2>1, SMTT(20)
  <2>3. Quads(s)[g] = Quad(s[3 * g - 2], s[3 * g - 1], s[3 * g])
    BY DEF Quads, G
  <2>4. Quad(s[3 * g - 2], s[3 * g - 1], s[3 * g]) \in Seq(Nat) /\ Len(Quad(s[3 * g - 2], s[3 * g - 1], s[3 * g])) = 4
    BY <1>1, <2>2, Zenon
  <2>. QED  BY <2>3, <2>4
<1>3. Quads(s) \in Seq(Seq(Nat)) /\ Len(Quads(s)) = G
  <2>1. Quads(s) = [g \in 1 .. G |-> Quad(s[3 * g - 2], s[3 * g - 1], s[3 * g])]
    BY DEF Quads, G
  <2>. DEFINE F(g) == Quad(s[3 * g - 2], s[3 * g - 1], s[3 * g])
  <2>2. \A g \in 1 .. G : F(g) \in Seq(Nat)
    BY <1>2, <2>1
  <2>3. Quads(s) = [g \in 1 .. G |-> F(g)]
    BY <2>1
  <2>. HIDE DEF F
  <2>. QED  BY <1>0, <2>2, <2>3
<1>4. ASSUME NEW g \in Nat, NEW q \in 1 .. 4, g + 1 <= G
      PROVE  Quads(s)[g + 1][q] = Letter(s, g, q)
  <2>. DEFINE a == s[3 * g + 1]
              b == s[3 * g + 2]
              c == s[3 * g + 3]
  <2>1. g + 1 \in 1 .. G /\ 3 * (g + 1) - 2 = 3 * g + 1 /\ 3 * (g + 1) - 1 = 3 * g + 2 /\ 3 * (g + 1) = 3 * g + 3
    BY <1>0, <1>4
  <2>2. 3 * g + 2 <= Len(s) /\ 3 * g + 3 <= Len(s) /\ ~(3 * g + q - 1 > Len(s))
    BY <1>0, <1>4
  <2>3. Quads(s)[g + 1] = Quad(s[3 * (g + 1) - 2], s[3 * (g + 1) - 1], s[3 * (g + 1)])
    BY <2>1 DEF Quads, G
  <2>4. Quads(s)[g + 1] = <<a \div 4, (a % 4) * 16 + b \div 16, (b % 16) * 4 + c \div 64, c % 64>>
    BY <2>1, <2>3 DEF Quad
  <2>5. Letter(s, g, q) = IF q = 1 THEN a \div 4 ELSE IF q = 2 THEN (a % 4) * 16 + b \div 16
                          ELSE IF q = 3 THEN (b % 16) * 4 + c \div 64 ELSE c % 64
    BY <2>2, Zenon DEF Letter
  <2>. DEFINE l1 == a \div 4
              l2 == (a % 4) * 16 + b \div 16
              l3 == (b % 16) * 4 + c \div 64
              l4 == c % 64
  <2>6. Quads(s)[g + 1] = <<l1, l2, l3, l4>>
    BY <2>4
  <2>7. Letter(s, g, q) = IF q = 1 THEN l1 ELSE IF q = 2 THEN l2 ELSE IF q = 3 THEN l3 ELSE l4
    BY <2>5
  <2>. HIDE DEF l1, l2, l3, l4
  <2>. QED  BY <2>6, <2>7
<1>. QED  BY <1>2, <1>3, <1>4 DEF G

\* What comes after the whole groups.
LEMMA RestOfOctets ==
  ASSUME NEW s, Octets(s), NEW G, G = Len(s) \div 3
  PROVE  LET r == Rest(SubSeq(s, 3 * G + 1, Len(s)))
         IN  /\ r \in Seq(Nat)
             /\ Len(r) = 4 * ((Len(s) + 2) \div 3) - 4 * G
             /\ \A q \in 1 .. 4 : q <= Len(r) => r[q] = Letter(s, G, q)
<1>. DEFINE N == Len(s)
            p == SubSeq(s, 3 * G + 1, N)
            r == Rest(p)
<1>0. s \in Seq(Nat) /\ N \in Nat /\ G \in Nat /\ N \in {3 * G, 3 * G + 1, 3 * G + 2}
  BY SMT DEF Octets
<1>1. CASE N = 3 * G
  <2>1. p = <<>>
    BY <1>0, <1>1
  <2>2. Len(p) = 0
    BY <2>1
  <2>3. r = <<>>
    BY <2>2 DEF Rest
  <2>4. 4 * ((N + 2) \div 3) - 4 * G = 0
    BY <1>0, <1>1
  <2>5. r \in Seq(Nat) /\ Len(r) = 0
    <3>1. <<>> \in Seq(Nat) /\ Len(<<>>) = 0
      OBVIOUS
    <3>. QED  BY <2>3, <3>1, Zenon
  <2>. HIDE DEF r, N
  <2>6. \A q \in 1 .. 4 : ~(q <= Len(r))
    BY <2>5
  <2>. QED  BY <2>4, <2>5, <2>6 DEF r, N
<1>2. CASE N = 3 * G + 1
  <2>. DEFINE a == s[3 * G + 1]
              l1 == a \div 4
              l2 == (a % 4) * 16
  <2>1. p = <<a>>
    <3>1. 3 * G + 1 \in 1 .. N
      BY <1>0, <1>2
    <3>2. ASSUME NEW i \in 1 .. N
          PROVE  SubSeq(s, i, i) = <<s[i]>>
      <4>. DEFINE c == SubSeq(s, i, i)
      <4>1. c \in Seq(Nat) /\ Len(c) = 1 /\ c[1] = s[i]
        BY <1>0
      <4>. HIDE DEF c
      <4>2. c = <<s[i]>>
        BY <4>1
      <4>. QED  BY <4>2 DEF c
    <3>. QED  BY <1>2, <3>1, <3>2
  <2>2. Len(p) = 1 /\ p[1] = a
    <3>1. Len(<<a>>) = 1 /\ <<a>>[1] = a
      OBVIOUS
    <3>. QED  BY <2>1, <3>1, Zenon
  <2>3. r = <<l1, l2, Pad, Pad>>
    BY <2>2 DEF Rest
  <2>4. a \in Nat
    <3>1. 3 * G + 1 \in 1 .. N
      BY <1>0, <1>2
    <3>2. \A i \in 1 .. N : s[i] \in Nat
      BY <1>0
    <3>. QED  BY <3>1, <3>2
  <2>5. l1 \in Nat /\ l2 \in Nat /\ Pad \in Nat
    BY <2>4, SMT DEF Pad
  <2>6. 4 * ((N + 2) \div 3) - 4 * G = 4
    <3>1. \A n \in Nat : (3 * n + 1 + 2) \div 3 = n + 1
      BY SMT
    <3>2. (N + 2) \div 3 = G + 1
      BY <1>0, <1>2, <3>1
    <3>. QED  BY <1>0, <3>2
  <2>7. \A q \in 1 .. 4 : Letter(s, G, q) = IF q = 1 THEN l1 ELSE IF q = 2 THEN l2 ELSE Pad
    <3>1. ~(3 * G + 2 <= Len(s)) /\ \A q \in 1 .. 4 : q # 1 /\ q # 2 => 3 * G + q - 1 > Len(s)
      BY <1>0, <1>2
    <3>2. (a % 4) * 16 + 0 \div 16 = l2
      BY <2>4
    <3>. QED  BY <3>1, <3>2, Zenon DEF Letter
  <2>. HIDE DEF l1, l2, r, N
  <2>8. r \in Seq(Nat) /\ Len(r) = 4 /\ \A q \in 1 .. 4 : r[q] = Letter(s, G, q)
    BY <2>3, <2>5, <2>7
  <2>. QED  BY <2>6, <2>8 DEF r, N
<1>3. CASE N = 3 * G + 2
  <2>. DEFINE a == s[3 * G + 1]
              b == s[3 * G + 2]
              l1 == a \div 4
              l2 == (a % 4) * 16 + b \div 16
              l3 == (b % 16) * 4
  <2>1. p = <<a, b>>
    <3>1. 3 * G + 1 \in 1 .. N /\ 3 * G + 2 = (3 * G + 1) + 1 /\ (3 * G + 1) + 1 \in 1 .. N
      BY <1>0, <1>3
    <3>2. ASSUME NEW i \in 1 .. N, i + 1 \in 1 .. N
          PROVE  SubSeq(s, i, i + 1) = <<s[i], s[i + 1]>>
      <4>. DEFINE c == SubSeq(s, i, i + 1)
      <4>1. c \in Seq(Nat) /\ Len(c) = 2 /\ c[1] = s[i] /\ c[2] = s[i + 1]
        BY <1>0, <3>2
      <4>. HIDE DEF c
      <4>2. c = <<s[i], s[i + 1]>>
        BY <4>1
      <4>. QED  BY <4>2 DEF c
    <3>. QED  BY <1>3, <3>1, <3>2
  <2>2. Len(p) = 2 /\ p[1] = a /\ p[2] = b
    <3>1. Len(<<a, b>>) = 2 /\ <<a, b>>[1] = a /\ <<a, b>>[2] = b
      OBVIOUS
    <3>. QED  BY <2>1, <3>1, Zenon
  <2>3. r = <<l1, l2, l3, Pad>>
    BY <2>2, SMTT(20) DEF Rest
  <2>4. a \in Nat /\ b \in Nat
    <3>1. 3 * G + 1 \in 1 .. N /\ 3 * G + 2 \in 1 .. N
      BY <1>0, <1>3
    <3>2. \A i \in 1 .. N : s[i] \in Nat
      BY <1>0
    <3>. QED  BY <3>1, <3>2
  <2>5. l1 \in Nat /\ l2 \in Nat /\ l3 \in Nat /\ Pad \in Nat
    <3>1. \A x, y \in Nat : x \div 4 \in Nat /\ (x % 4) * 16 + y \div 16 \in Nat /\ (y % 16) * 4 \in Nat
      BY SMT
    <3>2. Pad \in Nat
      BY SMT DEF Pad
    <3>. QED  BY <2>4, <3>1, <3>2, Zenon
  <2>6. 4 * ((N + 2) \div 3) - 4 * G = 4
    <3>1. \A n \in Nat : (3 * n + 2 + 2) \div 3 = n + 1
      BY SMT
    <3>2. (N + 2) \div 3 = G + 1
      BY <1>0, <1>3, <3>1
    <3>. QED  BY <1>0, <3>2
  <2>7. \A q \in 1 .. 4 : Letter(s, G, q) = IF q = 1 THEN l1 ELSE IF q = 2 THEN l2 ELSE IF q = 3 THEN l3 ELSE Pad
    <3>1. /\ 3 * G + 2 <= Len(s) /\ ~(3 * G + 3 <= Len(s))
          /\ \A q \in 1 .. 4 : q # 1 /\ q # 2 => (3 * G + q - 1 > Len(s) <=> q # 3)
      BY <1>0, <1>3
    <3>2. (b % 16) * 4 + 0 \div 64 = l3
      BY <2>4
    <3>. QED  BY <3>1, <3>2, Zenon DEF Letter
  <2>. HIDE DEF l1, l2, l3, r, N
  <2>8. r \in Seq(Nat) /\ Len(r) = 4 /\ \A q \in 1 .. 4 : r[q] = Letter(s, G, q)
    BY <2>3, <2>5, <2>7
  <2>. QED  BY <2>6, <2>8 DEF r, N
<1>. QED  BY <1>0, <1>1, <1>2, <1>3

\* base64_encode (base64.h:136).
LEMMA Encoding ==
  ASSUME NEW s, Octets(s)
  PROVE  Encodes(base64_encode(s), s)
<1>. DEFINE N == Len(s)
            G == N \div 3
            r == Rest(SubSeq(s, 3 * G + 1, N))
            e == base64_encode(s)
<1>0. s \in Seq(Nat) /\ N \in Nat /\ G \in Nat
  BY SMT DEF Octets
<1>1. PICK out \in [0 .. Len(Quads(s)) -> Seq(Nat)] :
        /\ Joins(out, Quads(s)) /\ Adds(out, Quads(s)) /\ InPlace(out, Quads(s), Len(Quads(s)))
        /\ FlattenSeq(Quads(s)) = out[Len(Quads(s))]
  BY QuadsOfOctets, FlattenParts
<1>2. /\ Len(Quads(s)) = G
      /\ \A g \in 1 .. G : Len(Quads(s)[g]) = 4
      /\ \A g \in Nat, q \in 1 .. 4 : g + 1 <= G => Quads(s)[g + 1][q] = Letter(s, g, q)
  BY QuadsOfOctets
<1>3. /\ r \in Seq(Nat)
      /\ Len(r) = 4 * ((N + 2) \div 3) - 4 * G
      /\ \A q \in 1 .. 4 : q <= Len(r) => r[q] = Letter(s, G, q)
  BY RestOfOctets
<1>4. e = out[G] \o r
  BY <1>1, <1>2 DEF base64_encode, Quads
<1>. HIDE DEF r, e
<1>5. \A n \in 0 .. G : Len(out[n]) = 4 * n
  <2>. DEFINE S == {n \in 0 .. G : Len(out[n]) = 4 * n}
  <2>1. 0 \in S
    <3>1. out[0] = <<>>
      BY <1>1 DEF Joins
    <3>2. 0 \in 0 .. G /\ Len(<<>>) = 4 * 0
      BY <1>0
    <3>. QED  BY <3>1, <3>2
  <2>2. ASSUME NEW n \in 0 .. G - 1, n \in S
        PROVE  n + 1 \in S
    <3>1. n + 1 \in 1 .. G /\ n + 1 \in 0 .. G /\ (n + 1) - 1 = n /\ Len(out[n]) = 4 * n /\ n \in Nat
      BY <1>0, <2>2
    <3>2. Len(out[n + 1]) = Len(out[(n + 1) - 1]) + Len(Quads(s)[n + 1])
      BY <1>1, <1>2, <3>1 DEF Adds
    <3>3. Len(out[n + 1]) = 4 * n + 4
      BY <1>2, <3>1, <3>2
    <3>4. 4 * n + 4 = 4 * (n + 1)
      BY <3>1
    <3>. QED  BY <3>1, <3>3, <3>4
  <2>3. \A n \in 0 .. G - 1 : n \in S => n + 1 \in S
    BY <2>2
  <2>. HIDE DEF S, G
  <2>4. \A n \in 0 .. G : n \in S
    BY <1>0, <2>1, <2>3, InductionTo
  <2>. QED  BY <2>4 DEF S
<1>6. out[G] \in Seq(Nat) /\ Len(out[G]) = 4 * G
  <2>1. G \in 0 .. G
    BY <1>0
  <2>. QED  BY <1>1, <1>2, <1>5, <2>1
<1>7. ASSUME NEW g \in Nat, NEW q \in 1 .. 4, g + 1 <= G
      PROVE  4 * g + q \in 1 .. 4 * G /\ out[G][4 * g + q] = Letter(s, g, q)
  <2>1. g + 1 \in 1 .. G /\ (g + 1) - 1 = g /\ g \in 0 .. G /\ 4 * g + q \in 1 .. 4 * G
    BY <1>0, <1>7
  <2>2. q \in 1 .. Len(Quads(s)[g + 1])
    BY <1>2, <2>1
  <2>3. out[G][Len(out[(g + 1) - 1]) + q] = Quads(s)[g + 1][q]
    <3>. HIDE DEF G
    <3>1. InPlace(out, Quads(s), G)
      BY <1>1, <1>2
    <3>2. \A n \in 1 .. G : \A k \in 1 .. Len(Quads(s)[n]) :
            out[G][Len(out[n - 1]) + k] = Quads(s)[n][k]
      BY <3>1, Zenon DEF InPlace
    <3>. QED  BY <2>1, <2>2, <3>2, Zenon
  <2>. QED  BY <1>2, <1>5, <1>7, <2>1, <2>3
<1>8. e \in Seq(Nat) /\ Len(e) = 4 * ((N + 2) \div 3)
  <2>. DEFINE t == 4 * ((N + 2) \div 3)
              o == out[G]
  <2>1. t \in Nat
    BY <1>0
  <2>2. o \in Seq(Nat) /\ Len(o) = 4 * G /\ Len(r) = t - 4 * G /\ e = o \o r
    BY <1>3, <1>4, <1>6
  <2>. HIDE DEF t, o, G
  <2>3. e \in Seq(Nat) /\ Len(e) = t
    BY <1>0, <1>3, <2>1, <2>2
  <2>. QED  BY <2>3 DEF t
<1>9. ASSUME NEW g \in Nat, NEW q \in 1 .. 4, 4 * g + q <= Len(e)
      PROVE  e[4 * g + q] = Letter(s, g, q)
  <2>1. CASE g + 1 <= G
    <3>1. 4 * g + q \in 1 .. Len(out[G])
      BY <1>6, <1>7, <2>1
    <3>2. e[4 * g + q] = out[G][4 * g + q]
      <4>1. \A i \in 1 .. Len(out[G]) : (out[G] \o r)[i] = out[G][i]
        BY <1>3, <1>6
      <4>. QED  BY <1>4, <3>1, <4>1
    <3>. QED  BY <1>7, <2>1, <3>2
  <2>2. CASE g = G
    <3>1. q <= Len(r) /\ q \in 1 .. Len(r)
      <4>. DEFINE t == 4 * ((N + 2) \div 3)
      <4>1. t \in Nat /\ Len(r) = t - 4 * G /\ Len(e) = t
        BY <1>0, <1>3, <1>8
      <4>. HIDE DEF t, G, N
      <4>. QED  BY <1>0, <1>9, <2>2, <4>1
    <3>2. e[Len(out[G]) + q] = r[q]
      <4>1. \A i \in 1 .. Len(r) : (out[G] \o r)[Len(out[G]) + i] = r[i]
        <5>. DEFINE o == out[G]
        <5>1. o \in Seq(Nat)
          BY <1>6
        <5>. HIDE DEF o
        <5>2. \A i \in 1 .. Len(r) : (o \o r)[Len(o) + i] = r[i]
          BY <1>3, <5>1
        <5>. QED  BY <5>2 DEF o
      <4>. QED  BY <1>4, <3>1, <4>1
    <3>. QED  BY <1>3, <1>6, <2>2, <3>1, <3>2
  <2>3. ~(g > G)
    <3>1. (N + 2) \div 3 <= G + 1
      BY <1>0
    <3>. DEFINE t == (N + 2) \div 3
    <3>2. t \in Nat /\ t <= G + 1 /\ Len(e) = 4 * t
      BY <1>0, <1>8, <3>1
    <3>. HIDE DEF t, G
    <3>. QED  BY <1>0, <1>9, <3>2
  <2>4. g + 1 <= G \/ g = G \/ g > G
    BY <1>0
  <2>. QED  BY <2>1, <2>2, <2>3, <2>4
<1>. QED  BY <1>8, <1>9 DEF Encodes, e

\* Every letter below Pad but those that fill up the last group; what two
\* neighbours join to.
LEMMA Letters ==
  ASSUME NEW s, Octets(s), NEW g \in Nat, 3 * g + 1 <= Len(s), NEW q \in 1 .. 4
  PROVE  /\ Letter(s, g, q) \in Nat
         /\ q = 1 \/ 3 * g + q - 1 <= Len(s) => Letter(s, g, q) < Pad
         /\ ~(q = 1 \/ 3 * g + q - 1 <= Len(s)) => Letter(s, g, q) = Pad
         /\ q # 1 /\ 3 * g + q - 1 <= Len(s) => Joined(q, Letter(s, g, q - 1), Letter(s, g, q)) = s[3 * g + q - 1]
<1>. DEFINE x == s[3 * g + 1]
            y == IF 3 * g + 2 <= Len(s) THEN s[3 * g + 2] ELSE 0
            z == IF 3 * g + 3 <= Len(s) THEN s[3 * g + 3] ELSE 0
            l1 == x \div 4
            l2 == (x % 4) * 16 + y \div 16
            l3 == (y % 16) * 4 + z \div 64
            l4 == z % 64
<1>0. Len(s) \in Nat /\ \A i \in 1 .. Len(s) : s[i] \in Nat /\ s[i] < 256
  <2>1. s \in Seq(Nat) /\ \A i \in 1 .. Len(s) : s[i] < 256
    BY DEF Octets
  <2>. QED  BY <2>1
<1>1. x \in Nat /\ x < 256 /\ y \in Nat /\ y < 256 /\ z \in Nat /\ z < 256
  <2>1. /\ 3 * g + 1 \in 1 .. Len(s)
        /\ 3 * g + 2 <= Len(s) => 3 * g + 2 \in 1 .. Len(s)
        /\ 3 * g + 3 <= Len(s) => 3 * g + 3 \in 1 .. Len(s)
    BY <1>0
  <2>2. 0 \in Nat /\ 0 < 256
    OBVIOUS
  <2>3. x \in Nat /\ x < 256
    BY <1>0, <2>1, Zenon
  <2>4. y \in Nat /\ y < 256
    BY <1>0, <2>1, <2>2, Zenon
  <2>5. z \in Nat /\ z < 256
    BY <1>0, <2>1, <2>2, Zenon
  <2>. QED  BY <2>3, <2>4, <2>5, Zenon
<1>2. /\ Letter(s, g, 1) = l1
      /\ Letter(s, g, 2) = l2
      /\ Letter(s, g, 3) = IF 3 * g + 2 <= Len(s) THEN l3 ELSE Pad
      /\ Letter(s, g, 4) = IF 3 * g + 3 <= Len(s) THEN l4 ELSE Pad
  <2>1. /\ 3 * g + 3 - 1 > Len(s) <=> ~(3 * g + 2 <= Len(s))
        /\ 3 * g + 4 - 1 > Len(s) <=> ~(3 * g + 3 <= Len(s))
        /\ 1 # 2 /\ 2 # 1 /\ 3 # 1 /\ 3 # 2 /\ 4 # 1 /\ 4 # 2 /\ 4 # 3
        /\ 3 * g + 2 - 1 <= Len(s) /\ ~(3 * g + 2 - 1 > Len(s))
    BY <1>0
  <2>. QED  BY <2>1, Zenon DEF Letter
<1>3. /\ 3 * g + 2 <= Len(s) => y = s[3 * g + 2]
      /\ 3 * g + 3 <= Len(s) => z = s[3 * g + 3]
  OBVIOUS
<1>. HIDE DEF x, y, z
<1>4. l1 \in Nat /\ l1 < 64 /\ l2 \in Nat /\ l2 < 64 /\ l3 \in Nat /\ l3 < 64 /\ l4 \in Nat /\ l4 < 64
  <2>1. l1 \in Nat /\ l1 < 64
    BY <1>1, SMT
  <2>2. l2 \in Nat /\ l2 < 64
    BY <1>1, SMT
  <2>3. l3 \in Nat /\ l3 < 64
    BY <1>1, SMT
  <2>4. l4 \in Nat /\ l4 < 64
    BY <1>1, SMT
  <2>. QED  BY <2>1, <2>2, <2>3, <2>4
<1>5. l1 * 4 + l2 \div 16 = x
  BY <1>1, SMT
<1>6. (l2 % 16) * 16 + l3 \div 4 = y
  BY <1>1, SMT
<1>7. (l3 % 4) * 64 + l4 = z
  BY <1>1, SMT
<1>8. Pad = 64 /\ Pad \in Nat /\ ~(Pad < Pad)
  BY DEF Pad
<1>. HIDE DEF l1, l2, l3, l4
<1>9. CASE q = 1
  BY <1>2, <1>4, <1>8, <1>9
<1>10. CASE q = 2
  <2>1. 3 * g + 2 - 1 = 3 * g + 1 /\ 2 - 1 = 1 /\ 3 * g + 1 <= Len(s)
    BY <1>0
  <2>2. Joined(2, l1, l2) = x
    BY <1>5 DEF Joined
  <2>. QED  BY <1>2, <1>4, <1>8, <1>10, <2>1, <2>2 DEF x
<1>11. CASE q = 3
  <2>1. 3 * g + 3 - 1 = 3 * g + 2 /\ 3 - 1 = 2
    BY <1>0
  <2>2. Joined(3, l2, l3) = y
    BY <1>6 DEF Joined
  <2>. QED  BY <1>2, <1>3, <1>4, <1>8, <1>11, <2>1, <2>2
<1>12. CASE q = 4
  <2>1. 3 * g + 4 - 1 = 3 * g + 3 /\ 4 - 1 = 3 /\ (3 * g + 3 <= Len(s) => 3 * g + 2 <= Len(s))
    BY <1>0
  <2>2. Joined(4, l3, l4) = z
    BY <1>7 DEF Joined
  <2>. QED  BY <1>2, <1>3, <1>4, <1>8, <1>12, <2>1, <2>2
<1>. QED  BY <1>9, <1>10, <1>11, <1>12

\* A sequence in two parts.
LEMMA TwoParts ==
  ASSUME NEW a \in Seq(Nat), NEW b \in Seq(Nat)
  PROVE  /\ a \o b \in Seq(Nat) /\ Len(a \o b) = Len(a) + Len(b)
         /\ \A p \in 1 .. Len(a) : (a \o b)[p] = a[p]
         /\ \A p \in 1 .. Len(b) : (a \o b)[Len(a) + p] = b[p]
<1>1. a \o b \in Seq(Nat) /\ Len(a \o b) = Len(a) + Len(b)
  OBVIOUS
<1>2. \A p \in 1 .. Len(a) : (a \o b)[p] = a[p]
  OBVIOUS
<1>3. \A p \in 1 .. Len(b) : (a \o b)[Len(a) + p] = b[p]
  OBVIOUS
<1>. QED  BY <1>1, <1>2, <1>3

\* How long the text is that encodes s.
Size(s) == 4 * ((Len(s) + 2) \div 3)

\* Where the letter p of the text is when another character has been put in
\* as the at-th, if at is not 0.
Pos(at, p) == IF at = 0 \/ p < at THEN p ELSE p + 1

\* src is the text that encodes s, with another character as the at-th.
Carries(src, s, at) ==
  /\ Octets(s) /\ src \in Seq(Nat) /\ at \in Nat /\ at <= Size(s) + 1
  /\ Len(src) = IF at = 0 THEN Size(s) ELSE Size(s) + 1
  /\ \A g \in Nat, q \in 1 .. 4 : 4 * g + q <= Size(s) => src[Pos(at, 4 * g + q)] = Letter(s, g, q)
  /\ at # 0 => src[at] = Other

\* What Codecs decodes is such a text.
LEMMA Carrying ==
  ASSUME NEW s, Octets(s), NEW e, Encodes(e, s), NEW at \in 0 .. Len(e) + 1, NEW src,
         src = IF at = 0 THEN e ELSE InsertAt(e, at, Other)
  PROVE  Carries(src, s, at)
<1>. DEFINE N == Len(e)
<1>0. e \in Seq(Nat) /\ N \in Nat /\ N = Size(s) /\ at \in Nat /\ Other \in Nat
  <2>1. e \in Seq(Nat) /\ N = Size(s)
    BY DEF Encodes, Size
  <2>2. Other \in Nat
    BY SMT DEF Other
  <2>. QED  BY <2>1, <2>2
<1>1. /\ src \in Seq(Nat)
      /\ Len(src) = IF at = 0 THEN N ELSE N + 1
      /\ at # 0 => src[at] = Other
      /\ \A p \in 1 .. N : src[Pos(at, p)] = e[p]
  <2>1. CASE at = 0
    <3>1. src = e /\ \A p \in 1 .. N : Pos(at, p) = p
      BY <2>1 DEF Pos
    <3>. QED  BY <1>0, <2>1, <3>1
  <2>2. CASE at # 0
    <3>. DEFINE a == SubSeq(e, 1, at - 1)
                b == SubSeq(e, at, N)
    <3>1. src = (a \o <<Other>>) \o b
      BY <2>2 DEF InsertAt
    <3>2. /\ a \in Seq(Nat) /\ Len(a) = at - 1 /\ \A p \in 1 .. at - 1 : a[p] = e[p]
          /\ b \in Seq(Nat) /\ Len(b) = N + 1 - at /\ \A p \in 1 .. N + 1 - at : b[p] = e[at + p - 1]
      BY <1>0, <2>2, SMTT(20)
    <3>. HIDE DEF a, b
    <3>. DEFINE c == a \o <<Other>>
    <3>3. c \in Seq(Nat) /\ Len(c) = at /\ c[at] = Other /\ \A p \in 1 .. at - 1 : c[p] = e[p]
      <4>. DEFINE o == <<Other>>
      <4>1. o \in Seq(Nat) /\ Len(o) = 1 /\ o[1] = Other
        BY <1>0
      <4>. HIDE DEF o
      <4>2. /\ a \o o \in Seq(Nat) /\ Len(a \o o) = Len(a) + 1
            /\ \A p \in 1 .. Len(a) : (a \o o)[p] = a[p]
            /\ (a \o o)[Len(a) + 1] = o[1]
        <5>1. 1 \in 1 .. Len(o)
          BY <4>1
        <5>2. /\ a \o o \in Seq(Nat) /\ Len(a \o o) = Len(a) + Len(o)
              /\ \A p \in 1 .. Len(a) : (a \o o)[p] = a[p]
              /\ \A p \in 1 .. Len(o) : (a \o o)[Len(a) + p] = o[p]
          <6>1. a \in Seq(Nat) /\ o \in Seq(Nat)
            BY <3>2, <4>1
          <6>. QED  BY <6>1, TwoParts, Zenon
        <5>. QED  BY <4>1, <5>1, <5>2, Zenon
      <4>3. c = a \o o
        BY DEF o
      <4>4. Len(a) + 1 = at
        BY <1>0, <2>2, <3>2
      <4>. QED  BY <3>2, <4>1, <4>2, <4>3, <4>4
    <3>. HIDE DEF c, N
    <3>4. /\ src \in Seq(Nat) /\ Len(src) = at + (N + 1 - at)
          /\ \A p \in 1 .. at : src[p] = c[p]
          /\ \A p \in 1 .. N + 1 - at : src[at + p] = b[p]
      <4>1. src = c \o b
        BY <3>1 DEF c
      <4>2. c \in Seq(Nat) /\ b \in Seq(Nat)
        BY <3>2, <3>3
      <4>3. /\ c \o b \in Seq(Nat) /\ Len(c \o b) = Len(c) + Len(b)
            /\ \A p \in 1 .. Len(c) : (c \o b)[p] = c[p]
            /\ \A p \in 1 .. Len(b) : (c \o b)[Len(c) + p] = b[p]
        BY <4>2, TwoParts, Zenon
      <4>. QED  BY <3>2, <3>3, <4>1, <4>3, Zenon
    <3>5. Len(src) = N + 1
      BY <1>0, <2>2, <3>4
    <3>6. ASSUME NEW p \in at .. N
          PROVE  src[p + 1] = e[p]
      <4>1. p + 1 - at \in 1 .. N + 1 - at /\ at + (p + 1 - at) = p + 1 /\ at + (p + 1 - at) - 1 = p
        BY <1>0, <2>2
      <4>2. src[at + (p + 1 - at)] = b[p + 1 - at]
        BY <3>4, <4>1
      <4>3. b[p + 1 - at] = e[at + (p + 1 - at) - 1]
        BY <3>2, <4>1
      <4>. QED  BY <4>1, <4>2, <4>3
    <3>7. ASSUME NEW p \in 1 .. N
          PROVE  src[Pos(at, p)] = e[p]
      <4>1. CASE p < at
        <5>1. Pos(at, p) = p /\ p \in 1 .. at /\ p \in 1 .. at - 1
          BY <1>0, <4>1 DEF Pos
        <5>. QED  BY <3>3, <3>4, <5>1
      <4>2. CASE ~(p < at)
        <5>1. Pos(at, p) = p + 1 /\ p \in at .. N
          BY <1>0, <2>2, <4>2 DEF Pos
        <5>. QED  BY <3>6, <5>1
      <4>. QED  BY <4>1, <4>2
    <3>8. at \in 1 .. at
      BY <1>0, <2>2
    <3>. QED  BY <1>0, <2>2, <3>3, <3>4, <3>5, <3>7, <3>8 DEF N
  <2>. QED  BY <2>1, <2>2
<1>2. ASSUME NEW g \in Nat, NEW q \in 1 .. 4, 4 * g + q <= Size(s)
      PROVE  src[Pos(at, 4 * g + q)] = Letter(s, g, q)
  <2>1. 4 * g + q \in 1 .. N
    BY <1>0, <1>2
  <2>2. e[4 * g + q] = Letter(s, g, q)
    BY <1>0, <1>2 DEF Encodes
  <2>. QED  BY <1>1, <2>1, <2>2
<1>3. at <= Size(s) + 1
  BY <1>0
<1>. QED  BY <1>0, <1>1, <1>2, <1>3 DEF Carries

\* What V finds: the next letter of the encoding text.
LEMMA Finds ==
  ASSUME NEW s, NEW src, NEW at, Carries(src, s, at), NEW g \in Nat, NEW q \in 1 .. 4,
         4 * g + q - 1 <= Size(s)
  PROVE  NextLetter(src, Pos(at, 4 * g + q - 1))
           = IF 4 * g + q <= Size(s) /\ Letter(s, g, q) < Pad THEN {Pos(at, 4 * g + q)} ELSE {}
<1>. DEFINE M == Size(s)
            p == 4 * g + q
            i == Pos(at, p - 1)
            k == Pos(at, p)
            L == Letter(s, g, q)
            W == NextLetter(src, i)
<1>0. /\ M \in Nat /\ at \in Nat /\ at <= M + 1 /\ p \in Nat \ {0} /\ p <= M + 1
      /\ Len(src) = IF at = 0 THEN M ELSE M + 1
      /\ p <= M => src[k] = L
      /\ at # 0 => src[at] = Other
  <2>1. Octets(s) => M \in Nat
    <3>1. Octets(s) => Len(s) \in Nat
      BY DEF Octets
    <3>. QED  BY <3>1 DEF Size
  <2>2. p \in Nat \ {0} /\ p <= M + 1
    <3>1. Octets(s)
      BY DEF Carries
    <3>. QED  BY <2>1, <3>1
  <2>. QED  BY <2>1, <2>2 DEF Carries
<1>1. p <= M => L \in Nat /\ L <= Pad
  <2>1. SUFFICES ASSUME p <= M PROVE L \in Nat /\ L <= Pad
    OBVIOUS
  <2>2. Octets(s) /\ Len(s) \in Nat
    BY DEF Carries, Octets
  <2>3. 3 * g + 1 <= Len(s)
    <3>. DEFINE t == (Len(s) + 2) \div 3
    <3>1. t \in Nat /\ 3 * t <= Len(s) + 2
      BY <2>2
    <3>2. 4 * g + q <= 4 * t
      BY <2>1 DEF Size
    <3>. HIDE DEF t
    <3>3. g + 1 <= t
      BY <3>1, <3>2
    <3>. QED  BY <2>2, <3>1, <3>3
  <2>4. L \in Nat /\ (L < Pad \/ L = Pad)
    BY <2>2, <2>3, Letters
  <2>. HIDE DEF L
  <2>. QED  BY <2>4 DEF Pad
<1>2. Pad = 64 /\ Other = 65
  BY DEF Pad, Other
<1>3. W = {j \in i + 1 .. Len(src) : src[j] < Pad /\ \A l \in i + 1 .. j - 1 : src[l] = Other}
  BY DEF NextLetter
<1>4. /\ i \in Nat
      /\ k = i + 1 \/ (at = p /\ k = i + 2)
      /\ at = p => at = i + 1
      /\ p <= M => k \in i + 1 .. Len(src)
      /\ p > M => i = Len(src) \/ (i + 1 = Len(src) /\ at = i + 1)
  BY <1>0 DEF Pos
<1>. HIDE DEF M, p, i, k, L, W
<1>5. ASSUME NEW j \in W
      PROVE  p <= M /\ L < Pad /\ j = k
  <2>1. j \in i + 1 .. Len(src) /\ src[j] < Pad /\ \A l \in i + 1 .. j - 1 : src[l] = Other
    BY <1>3
  <2>2. j # at \/ at = 0
    <3>1. ~(Other < Pad)
      BY <1>2
    <3>. QED  BY <1>0, <2>1, <3>1
  <2>3. p <= M
    <3>1. SUFFICES ASSUME p > M PROVE FALSE
      BY <1>0
    <3>2. Len(src) \in Nat /\ j \in Int
      BY <1>0, <2>1
    <3>. QED  BY <1>4, <2>1, <2>2, <3>1, <3>2
  <2>4. ~(j < k)
    <3>1. SUFFICES ASSUME j < k PROVE FALSE
      OBVIOUS
    <3>. QED  BY <1>0, <1>4, <2>1, <2>2, <3>1
  <2>5. ~(j > k)
    <3>1. SUFFICES ASSUME j > k PROVE FALSE
      OBVIOUS
    <3>2. k \in i + 1 .. j - 1
      BY <1>4, <2>1, <2>3, <3>1
    <3>3. L = Other
      BY <1>0, <2>1, <2>3, <3>2
    <3>. QED  BY <1>1, <1>2, <2>3, <3>3
  <2>6. j = k
    BY <1>4, <2>1, <2>3, <2>4, <2>5
  <2>. QED  BY <1>0, <2>1, <2>3, <2>6
<1>6. ASSUME p <= M, L < Pad
      PROVE  k \in W
  <2>1. k \in i + 1 .. Len(src) /\ src[k] < Pad
    BY <1>0, <1>4, <1>6
  <2>2. ASSUME NEW l \in i + 1 .. k - 1
        PROVE  src[l] = Other
    <3>1. at = p /\ k = i + 2 /\ at = i + 1 /\ l = i + 1
      BY <1>4
    <3>2. at # 0
      BY <1>0, <3>1
    <3>. QED  BY <1>0, <3>1, <3>2
  <2>. QED  BY <1>3, <2>1, <2>2
<1>7. W = IF p <= M /\ L < Pad THEN {k} ELSE {}
  BY <1>5, <1>6
<1>8. p - 1 = 4 * g + q - 1
  BY DEF p
<1>. QED  BY <1>7, <1>8 DEF W, M, L, k, i, p

\* What decoding is to give: as much as there is room for.
Room(s, dstlen) == IF dstlen < Len(s) THEN dstlen ELSE Len(s)

\* How many bytes are there before the q-th letter after g groups.
Held(g, q) == IF q = 1 THEN 3 * g ELSE 3 * g + q - 2

Reader == [i : Nat, dst : Seq(Nat), hi : Nat, go : BOOLEAN]

\* V has taken what comes before that letter, and is to go on.
Going(st, s, at, dstlen, g, q) ==
  /\ st.go = TRUE
  /\ st.i = Pos(at, 4 * g + q - 1)
  /\ st.dst = SubSeq(s, 1, Held(g, q))
  /\ Held(g, q) <= Len(s) /\ Held(g, q) < dstlen
  /\ q # 1 => 4 * g + 4 <= Size(s) /\ st.hi = Letter(s, g, q - 1)

\* It has stopped, and everything that there is room for is there.
Finished(st, s, dstlen) == st.go = FALSE /\ st.dst = SubSeq(s, 1, Room(s, dstlen))

\* How the lengths of s and of its text go together.
LEMMA Sizes ==
  ASSUME NEW s, Octets(s), NEW g \in Nat
  PROVE  /\ s \in Seq(Nat) /\ Len(s) \in Nat /\ Size(s) \in Nat
         /\ 3 * g <= Len(s) => 4 * g <= Size(s)
         /\ 3 * g + 1 <= Len(s) <=> 4 * g + 4 <= Size(s)
         /\ \A q \in 1 .. 4 : 4 * g + q <= Size(s) <=> 4 * g + 4 <= Size(s)
         /\ 3 * g + 3 < Len(s) => 4 * g + 4 < Size(s)
         /\ 4 * g + 4 < Size(s) => 3 * g + 3 < Len(s)
<1>. DEFINE N == Len(s)
            t == (N + 2) \div 3
<1>0. s \in Seq(Nat) /\ N \in Nat
  BY DEF Octets
<1>1. t \in Nat /\ 3 * t <= N + 2 /\ N + 2 <= 3 * t + 2
  BY <1>0
<1>2. Size(s) = 4 * t
  BY DEF Size
<1>. HIDE DEF N, t
<1>3. Size(s) \in Nat
  BY <1>1, <1>2
<1>4. 3 * g <= N => g <= t
  BY <1>0, <1>1
<1>5. 3 * g + 1 <= N <=> g + 1 <= t
  BY <1>0, <1>1
<1>6. 3 * g + 3 < N <=> g + 1 < t
  BY <1>0, <1>1
<1>7. \A q \in 1 .. 4 : 4 * g + q <= 4 * t <=> g + 1 <= t
  BY <1>1
<1>8. 4 * g + 4 <= 4 * t <=> g + 1 <= t
  BY <1>1
<1>9. (4 * g <= 4 * t <=> g <= t) /\ (4 * g + 4 < 4 * t <=> g + 1 < t)
  BY <1>1
<1>. QED  BY <1>0, <1>2, <1>3, <1>4, <1>5, <1>6, <1>7, <1>8, <1>9 DEF N

\* What SubSeq makes of the beginning of a sequence.
LEMMA Beginnings ==
  ASSUME NEW s \in Seq(Nat), NEW n \in Nat, n <= Len(s)
  PROVE  /\ SubSeq(s, 1, n) \in Seq(Nat) /\ Len(SubSeq(s, 1, n)) = n
         /\ \A i \in 1 .. n : SubSeq(s, 1, n)[i] = s[i]
         /\ n + 1 <= Len(s) => Append(SubSeq(s, 1, n), s[n + 1]) = SubSeq(s, 1, n + 1)
<1>. DEFINE b == SubSeq(s, 1, n)
<1>1. b \in Seq(Nat) /\ Len(b) = n /\ \A i \in 1 .. n : b[i] = s[i]
  OBVIOUS
<1>2. ASSUME n + 1 <= Len(s)
      PROVE  Append(b, s[n + 1]) = SubSeq(s, 1, n + 1)
  <2>. DEFINE c == Append(b, s[n + 1])
              d == SubSeq(s, 1, n + 1)
  <2>1. s[n + 1] \in Nat
    BY <1>2
  <2>2. c \in Seq(Nat) /\ Len(c) = n + 1 /\ c[n + 1] = s[n + 1] /\ \A i \in 1 .. n : c[i] = s[i]
    <3>. HIDE DEF b
    <3>. QED  BY <1>1, <2>1
  <2>3. d \in Seq(Nat) /\ Len(d) = n + 1 /\ \A i \in 1 .. n + 1 : d[i] = s[i]
    BY <1>2
  <2>. HIDE DEF c, d
  <2>4. \A i \in 1 .. n + 1 : c[i] = d[i]
    <3>1. \A i \in 1 .. n + 1 : i = n + 1 \/ i \in 1 .. n
      OBVIOUS
    <3>. QED  BY <2>2, <2>3, <3>1
  <2>5. c = d
    BY <2>2, <2>3, <2>4, SeqEqual
  <2>. QED  BY <2>5 DEF c, d
<1>. QED  BY <1>1, <1>2

\* A use of V.
LEMMA VSteps ==
  ASSUME NEW s, NEW src, NEW at, Carries(src, s, at), NEW dstlen \in Nat, NEW g \in Nat, NEW q \in 1 .. 4,
         NEW st \in Reader, Going(st, s, at, dstlen, g, q)
  PROVE  LET w == V(src, dstlen, q, st)
         IN  w \in Reader /\ (Going(w, s, at, dstlen, g, q + 1) \/ Finished(w, s, dstlen))
<1>. DEFINE p == 4 * g + q
            k == Pos(at, p)
            L == Letter(s, g, q)
            W == NextLetter(src, st.i)
            h == Held(g, q)
            M == Size(s)
            N == Len(s)
            w == V(src, dstlen, q, st)
<1>0. /\ Octets(s) /\ src \in Seq(Nat) /\ at \in Nat /\ at <= M + 1
      /\ Len(src) = IF at = 0 THEN M ELSE M + 1
  BY DEF Carries
<1>1. /\ s \in Seq(Nat) /\ N \in Nat /\ M \in Nat
      /\ 3 * g <= N => 4 * g <= M
      /\ 3 * g + 1 <= N <=> 4 * g + 4 <= M
      /\ \A c \in 1 .. 4 : 4 * g + c <= M <=> 4 * g + 4 <= M
      /\ 3 * g + 3 < N => 4 * g + 4 < M
      /\ 4 * g + 4 < M => 3 * g + 3 < N
  BY <1>0, Sizes
<1>2. /\ st.go = TRUE /\ st.i = Pos(at, 4 * g + q - 1) /\ st.dst = SubSeq(s, 1, h) /\ h <= N /\ h < dstlen
      /\ q # 1 => 4 * g + 4 <= M /\ st.hi = Letter(s, g, q - 1)
  BY DEF Going
<1>3. h \in Nat /\ (q = 1 => h = 3 * g) /\ (q # 1 => h = 3 * g + q - 2)
  BY DEF Held
<1>4. 4 * g + q - 1 <= M
  <2>1. CASE q = 1
    BY <1>1, <1>2, <1>3, <2>1
  <2>2. CASE q # 1
    BY <1>1, <1>2, <2>2
  <2>. QED  BY <2>1, <2>2
<1>5. W = IF 4 * g + q <= M /\ L < Pad THEN {k} ELSE {}
  <2>1. 4 * g + q - 1 <= Size(s)
    BY <1>4
  <2>2. NextLetter(src, Pos(at, 4 * g + q - 1))
          = IF 4 * g + q <= Size(s) /\ Letter(s, g, q) < Pad THEN {Pos(at, 4 * g + q)} ELSE {}
    <3>. HIDE DEF w, W, L, k, h
    <3>. QED  BY <2>1, Finds, Zenon
  <2>3. st.i = Pos(at, 4 * g + q - 1)
    BY <1>2
  <2>. QED  BY <2>2, <2>3
<1>6. w = LET j   == CHOOSE j \in W : TRUE
              dst == IF q = 1 THEN st.dst ELSE Append(st.dst, Joined(q, st.hi, src[j]))
          IN  IF ~st.go \/ W = {} THEN [st EXCEPT !.go = FALSE]
              ELSE [i |-> j, dst |-> dst, hi |-> src[j], go |-> j < Len(src) /\ Len(dst) < dstlen]
  BY DEF V
<1>7. CASE ~(4 * g + q <= M /\ L < Pad)
  <2>1. w = [st EXCEPT !.go = FALSE]
    BY <1>5, <1>6, <1>7
  <2>2. w \in Reader /\ w.go = FALSE /\ w.dst = st.dst
    BY <2>1 DEF Reader
  <2>3. h = N
    <3>1. CASE ~(4 * g + q <= M)
      <4>1. ~(4 * g + 4 <= M)
        BY <1>1, <3>1
      <4>. QED  BY <1>1, <1>2, <1>3, <4>1
    <3>2. CASE 4 * g + q <= M /\ ~(L < Pad)
      <4>1. 4 * g + 4 <= M
        BY <1>1, <3>2
      <4>2. 3 * g + 1 <= N
        BY <1>1, <4>1
      <4>3. ~(q = 1 \/ 3 * g + q - 1 <= N)
        BY <1>0, <3>2, <4>2, Letters
      <4>. QED  BY <1>1, <1>2, <1>3, <4>3
    <3>. QED  BY <1>7, <3>1, <3>2
  <2>4. Room(s, dstlen) = h
    BY <1>1, <1>2, <2>3 DEF Room
  <2>5. Finished(w, s, dstlen)
    BY <1>2, <2>2, <2>4 DEF Finished
  <2>. QED  BY <2>2, <2>5
<1>8. CASE 4 * g + q <= M /\ L < Pad
  <2>. DEFINE dst == IF q = 1 THEN st.dst ELSE Append(st.dst, Joined(q, st.hi, src[k]))
              n == Held(g, q + 1)
  <2>0. (CHOOSE j \in {k} : TRUE) = k
    OBVIOUS
  <2>1. w = [i |-> k, dst |-> dst, hi |-> src[k], go |-> k < Len(src) /\ Len(dst) < dstlen]
    <3>1. W = {k} /\ W # {}
      BY <1>5, <1>8
    <3>. HIDE DEF k
    <3>. QED  BY <1>2, <1>6, <2>0, <3>1, Zenon
  <2>2. 4 * g + 4 <= M /\ 3 * g + 1 <= N /\ src[k] = L
    BY <1>1, <1>8 DEF Carries
  <2>3. /\ L \in Nat
        /\ ~(q = 1 \/ 3 * g + q - 1 <= N) => L = Pad
        /\ q # 1 /\ 3 * g + q - 1 <= N => Joined(q, Letter(s, g, q - 1), L) = s[3 * g + q - 1]
    BY <1>0, <2>2, Letters
  <2>4. q = 1 \/ 3 * g + q - 1 <= N
    <3>1. ~(Pad < Pad)
      BY DEF Pad
    <3>. QED  BY <1>8, <2>3, <3>1
  <2>5. n \in Nat /\ n = 3 * g + q - 1 /\ n <= N /\ (q # 1 => n = h + 1) /\ (q = 1 => n = h)
    <3>1. q + 1 # 1 /\ n = 3 * g + (q + 1) - 2
      BY DEF Held
    <3>. HIDE DEF h, n
    <3>. QED  BY <1>1, <1>2, <1>3, <2>4, <3>1
  <2>6. dst = SubSeq(s, 1, n) /\ Len(dst) = n /\ dst \in Seq(Nat)
    <3>1. CASE q = 1
      <4>1. dst = SubSeq(s, 1, n)
        BY <1>2, <2>5, <3>1
      <4>. HIDE DEF dst, n
      <4>. QED  BY <1>1, <2>5, <4>1, Beginnings
    <3>2. CASE q # 1
      <4>1. Joined(q, st.hi, src[k]) = s[n]
        BY <1>2, <2>2, <2>3, <2>4, <2>5, <3>2
      <4>2. dst = Append(SubSeq(s, 1, h), s[h + 1]) /\ n = h + 1
        BY <1>2, <2>5, <3>2, <4>1
      <4>. HIDE DEF dst, n, h
      <4>3. Append(SubSeq(s, 1, h), s[h + 1]) = SubSeq(s, 1, h + 1)
        <5>1. h \in Nat /\ h <= Len(s) /\ h + 1 <= Len(s)
          BY <1>2, <1>3, <2>5, <4>2
        <5>. QED  BY <1>1, <5>1, Beginnings, Zenon
      <4>4. dst = SubSeq(s, 1, n)
        BY <4>2, <4>3
      <4>. QED  BY <1>1, <2>5, <4>4, Beginnings
    <3>. QED  BY <3>1, <3>2
  <2>7. k \in Nat
    BY <1>0 DEF Pos
  <2>. HIDE DEF dst, n, w, k, L
  <2>8. w \in Reader /\ w.i = k /\ w.dst = dst /\ w.hi = L /\ w.go = (k < Len(src) /\ n < dstlen)
    <3>1. w.go = (k < Len(src) /\ Len(dst) < dstlen)
      BY <2>1, Zenon
    <3>2. w.go = (k < Len(src) /\ n < dstlen)
      BY <2>6, <3>1, Zenon
    <3>3. w.i = k /\ w.dst = dst /\ w.hi = L
      BY <2>1, <2>2
    <3>4. w \in Reader
      BY <2>1, <2>2, <2>3, <2>6, <2>7 DEF Reader
    <3>. QED  BY <3>2, <3>3, <3>4
  <2>9. CASE k < Len(src) /\ n < dstlen
    <3>1. w.go = TRUE
      BY <2>8, <2>9, Zenon
    <3>2. q + 1 # 1 /\ (q + 1) - 1 = q /\ 4 * g + (q + 1) - 1 = 4 * g + q
      OBVIOUS
    <3>3. Going(w, s, at, dstlen, g, q + 1)
      BY <2>2, <2>5, <2>6, <2>8, <2>9, <3>1, <3>2, Zenon DEF Going, k, L, n
    <3>. QED  BY <2>8, <3>3 DEF w
  <2>10. CASE ~(k < Len(src) /\ n < dstlen)
    <3>1. w.go = FALSE
      BY <2>8, <2>10, Zenon
    <3>2. n = Room(s, dstlen)
      <4>1. CASE ~(n < dstlen)
        <5>1. n = dstlen
          BY <1>2, <1>3, <2>5, <4>1
        <5>2. n <= N /\ N \in Nat /\ N = Len(s)
          BY <1>1, <2>5
        <5>. HIDE DEF N
        <5>3. dstlen < N => n = dstlen
          BY <5>1
        <5>4. ~(dstlen < N) => n = N
          BY <2>5, <5>1, <5>2
        <5>. QED  BY <5>2, <5>3, <5>4, Zenon DEF Room
      <4>2. CASE n < dstlen /\ ~(k < Len(src))
        <5>1. 4 * g + q <= k /\ Len(src) >= M
          BY <1>0, <1>1, SMTT(20) DEF k, Pos
        <5>2. 4 * g + q >= M
          <6>1. CASE at = 0 \/ 4 * g + q < at
            BY <1>0, <1>1, <4>2, <5>1, <6>1 DEF k, Pos
          <6>2. CASE ~(at = 0 \/ 4 * g + q < at)
            BY <1>0, <1>1, <4>2, <5>1, <6>2 DEF k, Pos
          <6>. QED  BY <6>1, <6>2
        <5>3. q = 4 /\ M = 4 * g + 4
          <6>1. M \in Nat /\ 4 * g + 4 <= M
            BY <1>1, <2>2
          <6>. HIDE DEF M
          <6>. QED  BY <5>2, <6>1
        <5>4. N <= 3 * g + 3
          BY <1>1, <5>3
        <5>5. n = N
          BY <1>1, <2>5, <5>3, <5>4
        <5>. QED  BY <1>1, <4>2, <5>5 DEF Room
      <4>. QED  BY <2>10, <4>1, <4>2
    <3>3. Finished(w, s, dstlen)
      BY <2>6, <2>8, <3>1, <3>2 DEF Finished
    <3>. QED  BY <2>8, <3>3 DEF w
  <2>. QED  BY <2>9, <2>10
<1>. QED  BY <1>7, <1>8

\* Once it has stopped, V changes nothing.
LEMMA VStops ==
  ASSUME NEW s, NEW src, NEW dstlen, NEW q, NEW st \in Reader, Finished(st, s, dstlen)
  PROVE  LET w == V(src, dstlen, q, st)
         IN  w \in Reader /\ Finished(w, s, dstlen)
<1>. DEFINE w == V(src, dstlen, q, st)
<1>1. st.go = FALSE /\ st.dst = SubSeq(s, 1, Room(s, dstlen))
  BY DEF Finished
<1>2. w = [st EXCEPT !.go = FALSE]
  BY <1>1 DEF V
<1>3. w \in Reader /\ w.go = FALSE /\ w.dst = st.dst
  BY <1>2 DEF Reader
<1>. HIDE DEF w
<1>4. Finished(w, s, dstlen)
  BY <1>1, <1>3 DEF Finished
<1>. QED  BY <1>3, <1>4 DEF w

\* The slow way through a group (base64.h:52-81).
LEMMA SlowGroups ==
  ASSUME NEW s, NEW src, NEW at, Carries(src, s, at), NEW dstlen \in Nat, NEW g \in Nat,
         3 * g <= Len(s), 3 * g < dstlen
  PROVE  LET w == DecodeGroupSlow(src, dstlen, Pos(at, 4 * g), SubSeq(s, 1, 3 * g))
         IN  w \in Reader /\ (Going(w, s, at, dstlen, g, 5) \/ Finished(w, s, dstlen))
<1>. DEFINE start == [i |-> Pos(at, 4 * g), dst |-> SubSeq(s, 1, 3 * g), hi |-> 0, go |-> TRUE]
            w1 == V(src, dstlen, 1, start)
            w2 == V(src, dstlen, 2, w1)
            w3 == V(src, dstlen, 3, w2)
            w4 == V(src, dstlen, 4, w3)
            OK(w, q) == w \in Reader /\ (Going(w, s, at, dstlen, g, q) \/ Finished(w, s, dstlen))
<1>0. Octets(s) /\ at \in Nat /\ s \in Seq(Nat) /\ Len(s) \in Nat
  <2>1. Octets(s) /\ at \in Nat
    BY DEF Carries
  <2>. QED  BY <2>1, Sizes
<1>1. OK(start, 1)
  <2>. DEFINE i == Pos(at, 4 * g)
              d == SubSeq(s, 1, 3 * g)
  <2>1. i \in Nat
    BY <1>0 DEF Pos
  <2>2. d \in Seq(Nat)
    BY <1>0
  <2>3. start = [i |-> i, dst |-> d, hi |-> 0, go |-> TRUE]
    OBVIOUS
  <2>4. 4 * g + 1 - 1 = 4 * g /\ Held(g, 1) = 3 * g
    BY DEF Held
  <2>. HIDE DEF i, d, start
  <2>5. start \in Reader /\ start.go = TRUE /\ start.i = i /\ start.dst = d
    BY <2>1, <2>2, <2>3 DEF Reader
  <2>6. Going(start, s, at, dstlen, g, 1)
    BY <2>4, <2>5 DEF Going, i, d
  <2>. QED  BY <2>5, <2>6
<1>2. ASSUME NEW q \in 1 .. 4, NEW w, OK(w, q)
      PROVE  OK(V(src, dstlen, q, w), q + 1)
  BY <1>2, VSteps, VStops
<1>. HIDE DEF OK, start
<1>3. OK(w1, 2)
  <2>1. 1 \in 1 .. 4 /\ 1 + 1 = 2
    OBVIOUS
  <2>. QED  BY <1>1, <1>2, <2>1
<1>. HIDE DEF w1
<1>4. OK(w2, 3)
  <2>1. 2 \in 1 .. 4 /\ 2 + 1 = 3
    OBVIOUS
  <2>. QED  BY <1>3, <1>2, <2>1
<1>. HIDE DEF w2
<1>5. OK(w3, 4)
  <2>1. 3 \in 1 .. 4 /\ 3 + 1 = 4
    OBVIOUS
  <2>. QED  BY <1>4, <1>2, <2>1
<1>. HIDE DEF w3
<1>6. OK(w4, 5)
  <2>1. 4 \in 1 .. 4 /\ 4 + 1 = 5
    OBVIOUS
  <2>. QED  BY <1>5, <1>2, <2>1
<1>. HIDE DEF w4
<1>7. w4 = DecodeGroupSlow(src, dstlen, Pos(at, 4 * g), SubSeq(s, 1, 3 * g))
  BY DEF DecodeGroupSlow, w4, w3, w2, w1, start
<1>. QED  BY <1>6, <1>7 DEF OK

Loop == [i : Nat, dst : Seq(Nat), stopped : BOOLEAN, max_i : Int]

\* The loop has decoded g groups.
Between(st, s, src, at, dstlen, g) ==
  /\ st.stopped = FALSE
  /\ st.i = Pos(at, 4 * g)
  /\ st.dst = SubSeq(s, 1, 3 * g)
  /\ 3 * g <= Len(s) /\ 3 * g <= dstlen
  /\ st.max_i = st.i + ((Len(src) - st.i) \div 4) * 4

\* It has returned, with everything that there is room for.
Over(st, s, dstlen) == st.stopped = TRUE /\ st.dst = SubSeq(s, 1, Room(s, dstlen))

Stuck(st, max_k) == st.i >= st.max_i \/ Len(st.dst) >= max_k

\* The bytes of four letters in a row.
GroupBytes(src, i) == [q \in 1 .. 3 |-> Joined(q + 1, src[i + q], src[i + q + 1])]

FourLetters(src, i) == i + 4 <= Len(src) /\ \A j \in i + 1 .. i + 4 : src[j] < Pad

\* The fast way takes three bytes from them (base64.h:90).
LEMMA FastGroups ==
  ASSUME NEW s, NEW src, NEW at, Carries(src, s, at), NEW g \in Nat, 4 * g <= Size(s),
         FourLetters(src, Pos(at, 4 * g))
  PROVE  /\ 3 * g + 3 <= Len(s) /\ Pos(at, 4 * g + 4) = Pos(at, 4 * g) + 4
         /\ SubSeq(s, 1, 3 * g) \o GroupBytes(src, Pos(at, 4 * g)) = SubSeq(s, 1, 3 * g + 3)
<1>. DEFINE M == Size(s)
            N == Len(s)
            i == Pos(at, 4 * g)
<1>0. /\ Octets(s) /\ at \in Nat /\ at <= M + 1
      /\ Len(src) = IF at = 0 THEN M ELSE M + 1
      /\ at # 0 => src[at] = Other
  BY DEF Carries
<1>1. /\ s \in Seq(Nat) /\ N \in Nat /\ M \in Nat
      /\ 3 * g + 1 <= N <=> 4 * g + 4 <= M
      /\ \A c \in 1 .. 4 : 4 * g + c <= M <=> 4 * g + 4 <= M
  BY <1>0, Sizes
<1>2. i \in Nat
  BY <1>0 DEF Pos
<1>3. at \notin i + 1 .. i + 4
  <2>0. \A j \in i + 1 .. i + 4 : src[j] < Pad
    BY DEF FourLetters
  <2>1. ~(Other < Pad)
    BY DEF Other, Pad
  <2>2. at \in i + 1 .. i + 4 => at # 0
    BY <1>2
  <2>. QED  BY <1>0, <2>0, <2>1, <2>2
<1>4. 4 * g + 4 <= M
  <2>1. SUFFICES ASSUME ~(4 * g + 4 <= M) PROVE FALSE
    OBVIOUS
  <2>2. ~(4 * g + 1 <= M)
    BY <1>1, <2>1
  <2>. HIDE DEF M
  <2>3. Len(src) <= i + 1
    BY <1>0, <1>1, <2>2 DEF Pos
  <2>4. i + 4 <= Len(src) /\ Len(src) \in Nat
    BY <1>0, <1>1 DEF FourLetters
  <2>. QED  BY <1>2, <2>3, <2>4
<1>5. \A q \in 1 .. 4 : Pos(at, 4 * g + q) = i + q
  BY <1>0, <1>3 DEF Pos
<1>6. ASSUME NEW q \in 1 .. 4
      PROVE  src[i + q] = Letter(s, g, q) /\ Letter(s, g, q) < Pad
  <2>1. 4 * g + q <= M
    BY <1>1, <1>4
  <2>2. src[Pos(at, 4 * g + q)] = Letter(s, g, q)
    BY <2>1 DEF Carries
  <2>3. i + q \in i + 1 .. i + 4
    BY <1>2
  <2>4. \A j \in i + 1 .. i + 4 : src[j] < Pad
    BY DEF FourLetters
  <2>. QED  BY <1>5, <2>2, <2>3, <2>4
<1>7. 3 * g + 1 <= N
  BY <1>1, <1>4
<1>8. 3 * g + 3 <= N
  <2>1. SUFFICES ASSUME ~(4 = 1 \/ 3 * g + 4 - 1 <= N) PROVE FALSE
    BY <1>1
  <2>2. Letter(s, g, 4) = Pad
    BY <1>0, <1>7, <2>1, Letters
  <2>3. ~(Pad < Pad)
    BY DEF Pad
  <2>. QED  BY <1>6, <2>2, <2>3
<1>9. ASSUME NEW q \in 1 .. 3
      PROVE  Joined(q + 1, src[i + q], src[i + q + 1]) = s[3 * g + q]
  <2>1. /\ q + 1 \in 1 .. 4 /\ q + 1 # 1 /\ (q + 1) - 1 = q /\ q \in 1 .. 4
        /\ 3 * g + (q + 1) - 1 = 3 * g + q /\ 3 * g + (q + 1) - 1 <= N /\ i + (q + 1) = i + q + 1
    <3>1. q + 1 \in 1 .. 4 /\ q + 1 # 1 /\ (q + 1) - 1 = q /\ q \in 1 .. 4 /\ i + (q + 1) = i + q + 1
      BY <1>2
    <3>2. 3 * g + (q + 1) - 1 = 3 * g + q /\ 3 * g + q <= N
      <4>1. N \in Nat
        BY <1>1
      <4>. HIDE DEF N
      <4>. QED  BY <1>8, <4>1
    <3>. QED  BY <3>1, <3>2
  <2>2. Joined(q + 1, Letter(s, g, (q + 1) - 1), Letter(s, g, q + 1)) = s[3 * g + (q + 1) - 1]
    BY <1>0, <1>7, <2>1, Letters
  <2>3. src[i + q] = Letter(s, g, q) /\ src[i + (q + 1)] = Letter(s, g, q + 1)
    BY <1>6, <2>1
  <2>. QED  BY <2>1, <2>2, <2>3
<1>. DEFINE a == SubSeq(s, 1, 3 * g)
            b == GroupBytes(src, i)
            c == SubSeq(s, 1, 3 * g + 3)
<1>10. a \in Seq(Nat) /\ Len(a) = 3 * g /\ \A l \in 1 .. 3 * g : a[l] = s[l]
  <2>1. 3 * g \in Nat /\ 3 * g <= N
    BY <1>1, <1>8
  <2>. QED  BY <1>1, <2>1, Beginnings
<1>11. c \in Seq(Nat) /\ Len(c) = 3 * g + 3 /\ \A l \in 1 .. 3 * g + 3 : c[l] = s[l]
  <2>1. 3 * g + 3 \in Nat
    OBVIOUS
  <2>. QED  BY <1>1, <1>8, <2>1, Beginnings
<1>12. b \in Seq(Nat) /\ Len(b) = 3 /\ \A q \in 1 .. 3 : b[q] = s[3 * g + q]
  <2>1. \A q \in 1 .. 3 : s[3 * g + q] \in Nat
    <3>1. \A q \in 1 .. 3 : 3 * g + q \in 1 .. N
      BY <1>1, <1>8
    <3>2. \A l \in 1 .. N : s[l] \in Nat
      BY <1>1
    <3>. QED  BY <3>1, <3>2
  <2>2. b = [q \in 1 .. 3 |-> s[3 * g + q]]
    BY <1>9 DEF GroupBytes
  <2>. HIDE DEF b
  <2>. QED  BY <2>1, <2>2
<1>. HIDE DEF a, b, c
<1>13. a \o b = c
  <2>1. /\ a \o b \in Seq(Nat) /\ Len(a \o b) = Len(a) + Len(b)
        /\ \A p \in 1 .. Len(a) : (a \o b)[p] = a[p]
        /\ \A p \in 1 .. Len(b) : (a \o b)[Len(a) + p] = b[p]
    BY <1>10, <1>12, TwoParts, Zenon
  <2>. DEFINE d == a \o b
  <2>2. ASSUME NEW l \in 1 .. 3 * g + 3
        PROVE  d[l] = c[l]
    <3>1. CASE l \in 1 .. 3 * g
      BY <1>10, <1>11, <2>1, <3>1
    <3>2. CASE ~(l \in 1 .. 3 * g)
      <4>1. l - 3 * g \in 1 .. 3 /\ 3 * g + (l - 3 * g) = l
        BY <3>2
      <4>2. d[3 * g + (l - 3 * g)] = b[l - 3 * g]
        BY <1>10, <1>12, <2>1, <4>1
      <4>3. b[l - 3 * g] = s[3 * g + (l - 3 * g)]
        BY <1>12, <4>1
      <4>. QED  BY <1>11, <4>1, <4>2, <4>3
    <3>. QED  BY <3>1, <3>2
  <2>3. d \in Seq(Nat) /\ Len(d) = 3 * g + 3
    BY <1>10, <1>12, <2>1
  <2>. HIDE DEF d
  <2>4. d = c
    BY <1>11, <2>2, <2>3, SeqEqual
  <2>. QED  BY <2>4 DEF d
<1>14. Pos(at, 4 * g + 4) = i + 4
  BY <1>5
<1>. QED  BY <1>8, <1>13, <1>14 DEF a, b, c

\* A turn of the loop.
LEMMA Turns ==
  ASSUME NEW s, NEW src, NEW at, Carries(src, s, at), NEW dstlen \in Nat, NEW g \in Nat,
         NEW max_k \in Nat, max_k <= dstlen, max_k % 3 = 0,
         NEW st \in Loop, Between(st, s, src, at, dstlen, g), ~Stuck(st, max_k)
  PROVE  LET w == Turn(src, dstlen, max_k, st)
         IN  w \in Loop /\ (Over(w, s, dstlen) \/ Between(w, s, src, at, dstlen, g + 1))
<1>. DEFINE M == Size(s)
            N == Len(s)
            R == Len(src)
            i == st.i
            w == Turn(src, dstlen, max_k, st)
            v == DecodeGroupSlow(src, dstlen, st.i, st.dst)
<1>0. /\ Octets(s) /\ at \in Nat /\ at <= M + 1
      /\ Len(src) = IF at = 0 THEN M ELSE M + 1
  BY DEF Carries
<1>1. /\ s \in Seq(Nat) /\ N \in Nat /\ M \in Nat
      /\ 3 * g <= N => 4 * g <= M
      /\ 3 * g + 1 <= N <=> 4 * g + 4 <= M
  BY <1>0, Sizes
<1>2. /\ st.stopped = FALSE /\ i = Pos(at, 4 * g) /\ st.dst = SubSeq(s, 1, 3 * g)
      /\ 3 * g <= N /\ 3 * g <= dstlen
      /\ st.max_i = i + ((R - i) \div 4) * 4
  BY DEF Between
<1>3. ~(i >= st.max_i) /\ ~(Len(st.dst) >= max_k)
  BY DEF Stuck
<1>4. i \in Nat /\ R \in Nat /\ i <= R /\ st.dst \in Seq(Nat) /\ Len(st.dst) = 3 * g
  <2>1. i \in Nat /\ R \in Nat /\ i <= R
    BY <1>0, <1>1, <1>2 DEF Pos
  <2>2. 3 * g \in Nat
    OBVIOUS
  <2>. QED  BY <1>1, <1>2, <2>1, <2>2, Beginnings
<1>5. 3 * g + 3 <= max_k /\ 3 * g < dstlen /\ i + 4 <= R
  <2>1. 3 * g < max_k
    BY <1>3, <1>4
  <2>2. 3 * g + 3 <= max_k
    BY <2>1
  <2>3. i + 4 <= R
    <3>. DEFINE c == (R - i) \div 4
    <3>1. c \in Nat /\ 4 * c <= R - i
      <4>. HIDE DEF i, R
      <4>. QED  BY <1>4
    <3>2. c # 0
      BY <1>2, <1>3, <1>4, <3>1
    <3>. HIDE DEF c, i, R
    <3>. QED  BY <1>4, <3>1, <3>2
  <2>. QED  BY <2>1, <2>2, <2>3
<1>6. w = IF \A j \in i + 1 .. i + 4 : src[j] < Pad
            THEN [st EXCEPT !.i = @ + 4,
                            !.dst = @ \o GroupBytes(src, i)]
            ELSE [i |-> v.i, dst |-> v.dst, stopped |-> ~v.go,
                  max_i |-> v.i + ((R - v.i) \div 4) * 4]
  BY <1>2, <1>3 DEF Turn, GroupBytes
<1>7. CASE \A j \in i + 1 .. i + 4 : src[j] < Pad
  <2>. DEFINE d == st.dst \o GroupBytes(src, i)
  <2>1. 3 * g + 3 <= N /\ Pos(at, 4 * g + 4) = i + 4 /\ d = SubSeq(s, 1, 3 * g + 3)
    <3>1. 4 * g <= Size(s)
      BY <1>1, <1>2
    <3>. HIDE DEF i
    <3>2. FourLetters(src, Pos(at, 4 * g))
      BY <1>2, <1>5, <1>7 DEF FourLetters
    <3>3. /\ 3 * g + 3 <= Len(s) /\ Pos(at, 4 * g + 4) = Pos(at, 4 * g) + 4
          /\ SubSeq(s, 1, 3 * g) \o GroupBytes(src, Pos(at, 4 * g)) = SubSeq(s, 1, 3 * g + 3)
      BY <3>1, <3>2, FastGroups
    <3>. QED  BY <1>2, <3>3
  <2>2. w = [st EXCEPT !.i = i + 4, !.dst = d]
    BY <1>6, <1>7
  <2>3. d \in Seq(Nat)
    <3>1. 3 * g + 3 \in Nat /\ 3 * g + 3 <= Len(s)
      BY <2>1
    <3>2. SubSeq(s, 1, 3 * g + 3) \in Seq(Nat)
      BY <1>1, <3>1, Beginnings
    <3>. QED  BY <2>1, <3>2, Zenon
  <2>. HIDE DEF d, w
  <2>4. w \in Loop /\ w.stopped = FALSE /\ w.i = i + 4 /\ w.dst = d /\ w.max_i = st.max_i
    <3>1. i + 4 \in Nat
      BY <1>4
    <3>. HIDE DEF i
    <3>. QED  BY <1>2, <2>2, <2>3, <3>1 DEF Loop
  <2>5. st.max_i = (i + 4) + ((R - (i + 4)) \div 4) * 4
    <3>. HIDE DEF i, R
    <3>1. (R - (i + 4)) \div 4 = (R - i) \div 4 - 1
      BY <1>4
    <3>. DEFINE c == (R - i) \div 4
    <3>2. c \in Int
      BY <1>4
    <3>3. st.max_i = i + c * 4
      BY <1>2
    <3>. HIDE DEF c
    <3>4. i + c * 4 = (i + 4) + (c - 1) * 4
      BY <1>4, <3>2
    <3>. QED  BY <3>1, <3>3, <3>4 DEF c
  <2>6. 4 * (g + 1) = 4 * g + 4 /\ 3 * (g + 1) = 3 * g + 3
    OBVIOUS
  <2>7. 3 * g + 3 <= dstlen
    BY <1>5
  <2>8. Between(w, s, src, at, dstlen, g + 1)
    BY <2>1, <2>4, <2>5, <2>6, <2>7, Zenon DEF Between
  <2>. QED  BY <2>4, <2>8 DEF w
<1>8. CASE ~\A j \in i + 1 .. i + 4 : src[j] < Pad
  <2>1. v \in Reader /\ (Going(v, s, at, dstlen, g, 5) \/ Finished(v, s, dstlen))
    BY <1>2, <1>5, SlowGroups
  <2>. HIDE DEF v
  <2>2. w = [i |-> v.i, dst |-> v.dst, stopped |-> ~v.go, max_i |-> v.i + ((R - v.i) \div 4) * 4]
    BY <1>6, <1>8
  <2>3. v.i \in Nat /\ v.dst \in Seq(Nat) /\ v.go \in BOOLEAN
    BY <2>1 DEF Reader
  <2>. HIDE DEF w
  <2>4. w.i = v.i /\ w.dst = v.dst /\ w.max_i = v.i + ((R - v.i) \div 4) * 4
    BY <2>2
  <2>5. w.stopped = ~v.go
    BY <2>2, Zenon
  <2>8. w \in Loop
    <3>. DEFINE m == v.i + ((R - v.i) \div 4) * 4
    <3>1. m \in Int
      BY <1>4, <2>3
    <3>2. w = [i |-> v.i, dst |-> v.dst, stopped |-> w.stopped, max_i |-> m]
      BY <2>2, <2>5, Zenon
    <3>3. w.stopped \in BOOLEAN
      BY <2>3, <2>5
    <3>. HIDE DEF m
    <3>. QED  BY <2>3, <3>1, <3>2, <3>3 DEF Loop
  <2>6. CASE Going(v, s, at, dstlen, g, 5)
    <3>1. /\ v.go = TRUE /\ v.i = Pos(at, 4 * g + 4) /\ v.dst = SubSeq(s, 1, 3 * g + 3)
          /\ 3 * g + 3 <= N /\ 3 * g + 3 < dstlen /\ 4 * g + 4 <= M
      <4>1. 4 * g + 5 - 1 = 4 * g + 4 /\ Held(g, 5) = 3 * g + 3 /\ 5 # 1
        BY DEF Held
      <4>. QED  BY <2>6, <4>1 DEF Going
    <3>2. w.stopped = FALSE
      BY <2>5, <3>1, Zenon
    <3>4. w \in Loop
      BY <2>8
    <3>5. 4 * (g + 1) = 4 * g + 4 /\ 3 * (g + 1) = 3 * g + 3
      OBVIOUS
    <3>6. 3 * g + 3 <= dstlen
      BY <3>1
    <3>7. Between(w, s, src, at, dstlen, g + 1)
      BY <2>4, <3>1, <3>2, <3>5, <3>6, Zenon DEF Between
    <3>. QED  BY <3>4, <3>7 DEF w
  <2>7. CASE Finished(v, s, dstlen)
    <3>1. v.go = FALSE /\ v.dst = SubSeq(s, 1, Room(s, dstlen))
      BY <2>7 DEF Finished
    <3>2. w.stopped = TRUE
      BY <2>5, <3>1, Zenon
    <3>3. Over(w, s, dstlen)
      BY <2>4, <3>1, <3>2 DEF Over
    <3>. QED  BY <2>8, <3>3 DEF w
  <2>. QED  BY <2>1, <2>6, <2>7
<1>. QED  BY <1>7, <1>8

\* A state after n turns, or one that turns change no more.
After(st, s, src, at, dstlen, max_k, n) ==
  \/ Over(st, s, dstlen)
  \/ \E g \in Nat : Between(st, s, src, at, dstlen, g) /\ (g >= n \/ Stuck(st, max_k))

\* A turn goes on, or ends the loop, or finds that it has ended.
LEMMA OneTurn ==
  ASSUME NEW s, NEW src, NEW at, Carries(src, s, at), NEW dstlen \in Nat,
         NEW max_k \in Nat, max_k <= dstlen, max_k % 3 = 0, NEW n \in Nat,
         NEW st \in Loop, After(st, s, src, at, dstlen, max_k, n)
  PROVE  /\ Turn(src, dstlen, max_k, st) \in Loop
         /\ After(Turn(src, dstlen, max_k, st), s, src, at, dstlen, max_k, n + 1)
<1>. DEFINE w == Turn(src, dstlen, max_k, st)
<1>1. CASE Over(st, s, dstlen)
  <2>1. st.stopped = TRUE
    BY <1>1 DEF Over
  <2>2. w = st
    BY <2>1 DEF Turn
  <2>. HIDE DEF w
  <2>3. w \in Loop /\ After(w, s, src, at, dstlen, max_k, n + 1)
    BY <1>1, <2>2 DEF After
  <2>. QED  BY <2>3 DEF w
<1>2. ASSUME NEW g \in Nat, Between(st, s, src, at, dstlen, g), Stuck(st, max_k)
      PROVE  w \in Loop /\ After(w, s, src, at, dstlen, max_k, n + 1)
  <2>1. st.i >= st.max_i \/ Len(st.dst) >= max_k
    BY <1>2 DEF Stuck
  <2>2. w = st
    BY <2>1 DEF Turn
  <2>. HIDE DEF w
  <2>. QED  BY <1>2, <2>2 DEF After
<1>3. ASSUME NEW g \in Nat, Between(st, s, src, at, dstlen, g), ~Stuck(st, max_k), g >= n
      PROVE  w \in Loop /\ After(w, s, src, at, dstlen, max_k, n + 1)
  <2>1. w \in Loop /\ (Over(w, s, dstlen) \/ Between(w, s, src, at, dstlen, g + 1))
    BY <1>3, Turns
  <2>2. g + 1 \in Nat /\ g + 1 >= n + 1
    BY <1>3
  <2>. HIDE DEF w
  <2>. QED  BY <2>1, <2>2 DEF After
<1>4. Over(st, s, dstlen) \/ \E g \in Nat : Between(st, s, src, at, dstlen, g) /\ (g >= n \/ Stuck(st, max_k))
  BY DEF After
<1>. HIDE DEF w
<1>5. w \in Loop /\ After(w, s, src, at, dstlen, max_k, n + 1)
  BY <1>1, <1>2, <1>3, <1>4 DEF w
<1>. QED  BY <1>5 DEF w

\* The most bytes that the loop writes.
MaxK(dstlen, decoded_size) == ((IF dstlen < decoded_size THEN dstlen ELSE decoded_size) \div 3) * 3

\* The loop ends in the state end, and what is done with that.
EndsIn(end, s, src, at, dstlen, size) ==
  /\ \/ Over(end, s, dstlen)
     \/ \E g \in Nat : /\ Between(end, s, src, at, dstlen, g)
                       /\ Stuck(end, MaxK(dstlen, size))
  /\ base64_decode_fast(src, dstlen, size)
       = IF ~end.stopped /\ end.i < Len(src) /\ Len(end.dst) < dstlen
           THEN DecodeGroupSlow(src, dstlen, end.i, end.dst).dst ELSE end.dst

\* The loop of base64_decode_fast ends, in one of these states (base64.h:86).
LEMMA Loops ==
  ASSUME NEW s, NEW src, NEW at, Carries(src, s, at), NEW dstlen \in Nat, NEW size \in Nat
  PROVE  \E end \in Loop : EndsIn(end, s, src, at, dstlen, size)
<1>. DEFINE N == Len(src)
            max_k == MaxK(dstlen, size)
            T == {st \in Loop : After(st, s, src, at, dstlen, max_k, 0)}
            start == [i |-> 0, dst |-> <<>>, stopped |-> FALSE, max_i |-> (N \div 4) * 4]
            g == [x \in (1 .. N) \X T |-> Turn(src, dstlen, max_k, x[2])]
            Solves(h) == h = [n \in 0 .. N |-> IF n = 0 THEN start ELSE Turn(src, dstlen, max_k, h[n - 1])]
            p == CHOOSE h : Solves(h)
<1>0. /\ Octets(s) /\ N \in Nat /\ at \in Nat
      /\ N = IF at = 0 THEN Size(s) ELSE Size(s) + 1
  BY DEF Carries
<1>1. max_k \in Nat /\ max_k <= dstlen /\ max_k % 3 = 0
  <2>. DEFINE a == IF dstlen < size THEN dstlen ELSE size
  <2>1. a \in Nat /\ a <= dstlen
    OBVIOUS
  <2>. HIDE DEF a
  <2>2. (a \div 3) * 3 \in Nat /\ (a \div 3) * 3 <= a /\ ((a \div 3) * 3) % 3 = 0
    BY <2>1
  <2>3. max_k = (a \div 3) * 3
    BY DEF MaxK, a
  <2>. HIDE DEF max_k
  <2>. QED  BY <2>1, <2>2, <2>3
<1>. HIDE DEF max_k
<1>2. start \in T
  <2>1. start \in Loop /\ start.stopped = FALSE /\ start.i = 0 /\ start.dst = <<>> /\ start.max_i = (N \div 4) * 4
    <3>. DEFINE m == (N \div 4) * 4
    <3>1. m \in Int
      BY <1>0
    <3>2. <<>> \in Seq(Nat)
      OBVIOUS
    <3>3. start = [i |-> 0, dst |-> <<>>, stopped |-> FALSE, max_i |-> m]
      OBVIOUS
    <3>. HIDE DEF m, start
    <3>4. start \in Loop /\ start.stopped = FALSE /\ start.i = 0 /\ start.dst = <<>> /\ start.max_i = m
      BY <3>1, <3>2, <3>3 DEF Loop
    <3>. QED  BY <3>4 DEF m
  <2>. HIDE DEF start
  <2>2. Pos(at, 4 * 0) = 0 /\ 3 * 0 = 0 /\ N - 0 = N
    BY <1>0 DEF Pos
  <2>3. s \in Seq(Nat) /\ Len(s) \in Nat /\ SubSeq(s, 1, 0) = <<>>
    BY <1>0, Sizes
  <2>4. Between(start, s, src, at, dstlen, 0)
    <3>1. 0 <= Len(s) /\ 0 <= dstlen
      BY <2>3
    <3>2. (N \div 4) * 4 = 0 + (N \div 4) * 4
      BY <1>0
    <3>. QED  BY <2>1, <2>2, <2>3, <3>1, <3>2, Zenon DEF Between
  <2>5. 0 \in Nat /\ 0 >= 0
    OBVIOUS
  <2>. QED  BY <2>1, <2>4, <2>5 DEF After
<1>3. ASSUME NEW st \in Loop, NEW n \in Nat, After(st, s, src, at, dstlen, max_k, n)
      PROVE  After(st, s, src, at, dstlen, max_k, 0)
  <2>1. \A c \in Nat : c >= 0
    OBVIOUS
  <2>. QED  BY <1>3, <2>1 DEF After
<1>4. ASSUME NEW st \in T, NEW n \in Nat, After(st, s, src, at, dstlen, max_k, n)
      PROVE  Turn(src, dstlen, max_k, st) \in T /\ After(Turn(src, dstlen, max_k, st), s, src, at, dstlen, max_k, n + 1)
  <2>. DEFINE w == Turn(src, dstlen, max_k, st)
  <2>1. w \in Loop /\ After(w, s, src, at, dstlen, max_k, n + 1)
    BY <1>1, <1>4, OneTurn
  <2>2. n + 1 \in Nat
    OBVIOUS
  <2>. HIDE DEF w
  <2>3. After(w, s, src, at, dstlen, max_k, 0)
    BY <1>3, <2>1, <2>2
  <2>. QED  BY <2>1, <2>3 DEF w
<1>5. g \in [(1 .. N) \X T -> T]
  <2>1. \A st \in T : Turn(src, dstlen, max_k, st) \in T
    BY <1>4
  <2>. DEFINE F(st) == Turn(src, dstlen, max_k, st)
  <2>2. g = [x \in (1 .. N) \X T |-> F(x[2])] /\ \A st \in T : F(st) \in T
    BY <2>1
  <2>. HIDE DEF F, T, g
  <2>. QED  BY <2>2
<1>6. ASSUME NEW n \in 1 .. N, NEW st \in T
      PROVE  g[<<n, st>>] = Turn(src, dstlen, max_k, st)
  <2>. DEFINE F(st1) == Turn(src, dstlen, max_k, st1)
  <2>1. g = [x \in (1 .. N) \X T |-> F(x[2])]
    OBVIOUS
  <2>. HIDE DEF F, T, g
  <2>2. g[<<n, st>>] = F(st)
    BY <2>1
  <2>. QED  BY <2>2 DEF F
<1>. HIDE DEF T, start, g
<1>7. PICK r \in [0 .. N -> T] : Runs(r, N, start, g)
  BY <1>0, <1>2, <1>5, Recursion
<1>8. r[0] = start /\ \A n \in 1 .. N : n - 1 \in 0 .. N /\ r[n] = Turn(src, dstlen, max_k, r[n - 1])
  <2>1. \A n \in 1 .. N : n - 1 \in 0 .. N
    BY <1>0
  <2>2. \A n \in 1 .. N : r[n - 1] \in T
    BY <2>1
  <2>. QED  BY <1>6, <1>7, <2>1, <2>2 DEF Runs
<1>9. Solves(p)
  <2>1. Solves(r)
    BY <1>8
  <2>. HIDE DEF Solves
  <2>. QED  BY <2>1
<1>10. base64_decode_fast(src, dstlen, size)
         = IF ~p[N].stopped /\ p[N].i < N /\ Len(p[N].dst) < dstlen
             THEN DecodeGroupSlow(src, dstlen, p[N].i, p[N].dst).dst ELSE p[N].dst
  BY Zenon DEF base64_decode_fast, max_k, MaxK, start
<1>. HIDE DEF p
<1>11. p[0] = start /\ \A n \in 1 .. N : p[n] = Turn(src, dstlen, max_k, p[n - 1])
  <2>1. 0 \in 0 .. N /\ \A n \in 1 .. N : n \in 0 .. N /\ n # 0
    BY <1>0
  <2>. QED  BY <1>9, <2>1
<1>12. \A n \in 0 .. N : p[n] = r[n]
  <2>1. Follows(p, N, T, g) /\ Follows(r, N, T, g)
    BY <1>6, <1>8, <1>11 DEF Follows
  <2>2. p[0] = r[0]
    BY <1>8, <1>11
  <2>. QED  BY <1>0, <2>1, <2>2, SameRun
<1>13. \A n \in 0 .. N : After(r[n], s, src, at, dstlen, max_k, n)
  <2>. DEFINE S == {n \in 0 .. N : After(r[n], s, src, at, dstlen, max_k, n)}
  <2>1. 0 \in S
    <3>1. After(start, s, src, at, dstlen, max_k, 0)
      BY <1>2 DEF T
    <3>. QED  BY <1>0, <1>8, <3>1
  <2>2. ASSUME NEW n \in 0 .. N - 1, n \in S
        PROVE  n + 1 \in S
    <3>1. n + 1 \in 1 .. N /\ (n + 1) - 1 = n /\ n + 1 \in 0 .. N /\ n \in 0 .. N /\ n \in Nat
      BY <1>0
    <3>2. r[n] \in T /\ After(r[n], s, src, at, dstlen, max_k, n)
      BY <2>2, <3>1
    <3>3. r[n + 1] = Turn(src, dstlen, max_k, r[n])
      BY <1>8, <3>1
    <3>4. After(r[n + 1], s, src, at, dstlen, max_k, n + 1)
      BY <1>4, <3>1, <3>2, <3>3
    <3>. QED  BY <3>1, <3>4
  <2>3. \A n \in 0 .. N - 1 : n \in S => n + 1 \in S
    BY <2>2
  <2>. HIDE DEF S, N
  <2>4. \A n \in 0 .. N : n \in S
    BY <1>0, <2>1, <2>3, InductionTo
  <2>. QED  BY <2>4 DEF S
<1>14. r[N] \in Loop /\ After(r[N], s, src, at, dstlen, max_k, N) /\ p[N] = r[N]
  <2>1. N \in 0 .. N
    BY <1>0
  <2>2. r[N] \in T
    BY <2>1
  <2>. QED  BY <1>12, <1>13, <2>1, <2>2 DEF T
<1>15. ASSUME NEW c \in Nat, Between(r[N], s, src, at, dstlen, c), c >= N
       PROVE  Stuck(r[N], max_k)
  <2>1. /\ r[N].i = Pos(at, 4 * c) /\ 3 * c <= Len(s)
        /\ r[N].max_i = r[N].i + ((N - r[N].i) \div 4) * 4
    BY <1>15 DEF Between
  <2>2. 4 * c <= Size(s) /\ Size(s) \in Nat
    BY <1>0, <2>1, Sizes
  <2>3. c = 0 /\ N = 0
    BY <1>0, <1>15, <2>2
  <2>4. at = 0
    BY <1>0, <2>2, <2>3
  <2>5. r[N].i = 0
    BY <2>1, <2>3, <2>4 DEF Pos
  <2>6. r[N].max_i = 0
    BY <2>1, <2>3, <2>5
  <2>. QED  BY <2>5, <2>6 DEF Stuck
<1>. DEFINE end == r[N]
<1>16. \/ Over(end, s, dstlen)
       \/ \E c \in Nat : Between(end, s, src, at, dstlen, c) /\ Stuck(end, max_k)
  BY <1>14, <1>15 DEF After
<1>17. base64_decode_fast(src, dstlen, size)
         = IF ~end.stopped /\ end.i < N /\ Len(end.dst) < dstlen
             THEN DecodeGroupSlow(src, dstlen, end.i, end.dst).dst ELSE end.dst
  BY <1>10, <1>14, Zenon
<1>. HIDE DEF end
<1>18. end \in Loop
  BY <1>14 DEF end
<1>19. EndsIn(end, s, src, at, dstlen, size)
  BY <1>16, <1>17, Zenon DEF EndsIn, max_k
<1>. QED  BY <1>18, <1>19, Zenon

\* What base64_decoded_size says for the length without padding.
LEMMA FastSizes ==
  ASSUME NEW t \in Nat, NEW n \in Nat, n <= 4 * t + 1
  PROVE  /\ base64_decoded_size_fast(n) \in Nat
         /\ n >= 4 * t => base64_decoded_size_fast(n) >= 3 * t
         /\ n = 4 * t - 1 => base64_decoded_size_fast(n) >= 3 * t - 1
         /\ n = 4 * t - 2 => base64_decoded_size_fast(n) >= 3 * t - 2
<1>. DEFINE f == base64_decoded_size_fast(n)
            d == n \div 4
            r == n % 4
<1>1. d \in Nat /\ r \in 0 .. 3 /\ n = 4 * d + r
  OBVIOUS
<1>2. f = IF r = 0 THEN d * 3 ELSE IF n = 1 THEN 0 ELSE d * 3 + (IF r = 3 THEN 2 ELSE 1)
  <2>1. r = 0 => n # 1
    BY <1>1
  <2>. QED  BY <2>1 DEF base64_decoded_size_fast
<1>. HIDE DEF f, d, r
<1>3. f \in Nat
  BY <1>1, <1>2
<1>4. n >= 4 * t => f >= 3 * t
  BY <1>1, <1>2
<1>5. n = 4 * t - 1 => f >= 3 * t - 1
  BY <1>1, <1>2
<1>6. n = 4 * t - 2 => f >= 3 * t - 2
  BY <1>1, <1>2
<1>. QED  BY <1>3, <1>4, <1>5, <1>6 DEF f

\* The end of a text: a letter below Pad, or padding that the length of s
\* calls for, or another character.
LEMMA Ends ==
  ASSUME NEW s, NEW src, NEW at, Carries(src, s, at), NEW t \in Nat, Size(s) = 4 * t
  PROVE  /\ src # <<>> /\ src[Len(src)] = Pad => Len(s) <= 3 * t - 1
         /\ /\ Len(src) >= 2 /\ src[Len(src)] = Pad /\ src[Len(src) - 1] = Pad
            => Len(s) <= 3 * t - 2
<1>. DEFINE R == Len(src)
            N == Len(s)
            g == t - 1
<1>0. /\ Octets(s) /\ src \in Seq(Nat) /\ R \in Nat /\ at \in Nat /\ at <= 4 * t + 1
      /\ R = IF at = 0 THEN 4 * t ELSE 4 * t + 1
      /\ at # 0 => src[at] = Other
      /\ \A c \in Nat, q \in 1 .. 4 : 4 * c + q <= 4 * t => src[Pos(at, 4 * c + q)] = Letter(s, c, q)
  BY DEF Carries
<1>1. N \in Nat /\ Pad # Other
  <2>1. N \in Nat
    BY <1>0, Sizes
  <2>. QED  BY <2>1 DEF Pad, Other
<1>2. ASSUME src # <<>>, src[R] = Pad
      PROVE  g \in Nat /\ 3 * g + 1 <= N /\ Letter(s, g, 4) = Pad /\ at # R
  <2>1. at # R
    <3>1. at = R => at # 0
      BY <1>0, <1>2
    <3>. QED  BY <1>0, <1>1, <1>2, <3>1
  <2>2. R > 0
    BY <1>0, <1>2
  <2>3. g \in Nat /\ 4 * g + 4 = 4 * t
    <3>1. t # 0
      BY <1>0, <2>1, <2>2
    <3>. QED  BY <3>1
  <2>4. Pos(at, 4 * g + 4) = R
    BY <1>0, <2>1, <2>3 DEF Pos
  <2>5. src[Pos(at, 4 * g + 4)] = Letter(s, g, 4)
    BY <1>0, <2>3, SMTT(20)
  <2>6. 3 * g + 1 <= N
    <3>1. 4 * g + 4 <= Size(s)
      BY <2>3
    <3>. QED  BY <1>0, <2>3, <3>1, Sizes
  <2>. QED  BY <1>2, <2>1, <2>3, <2>4, <2>5, <2>6
<1>3. \A q \in 1 .. 4 : g \in Nat /\ 3 * g + 1 <= N /\ (q = 1 \/ 3 * g + q - 1 <= N) => Letter(s, g, q) # Pad
  <2>1. SUFFICES ASSUME NEW q \in 1 .. 4, g \in Nat, 3 * g + 1 <= N, q = 1 \/ 3 * g + q - 1 <= N
                 PROVE  Letter(s, g, q) # Pad
    OBVIOUS
  <2>2. Letter(s, g, q) < Pad
    BY <1>0, <2>1, Letters
  <2>3. ~(Pad < Pad)
    BY DEF Pad
  <2>. QED  BY <2>2, <2>3
<1>4. src # <<>> /\ src[R] = Pad => N <= 3 * t - 1
  <2>1. SUFFICES ASSUME src # <<>>, src[R] = Pad PROVE N <= 3 * t - 1
    OBVIOUS
  <2>2. g \in Nat /\ 3 * g + 1 <= N /\ Letter(s, g, 4) = Pad
    BY <1>2, <2>1
  <2>3. ~(3 * g + 4 - 1 <= N)
    BY <1>3, <2>2
  <2>. HIDE DEF N
  <2>. QED  BY <1>1, <2>3
<1>5. R >= 2 /\ src[R] = Pad /\ src[R - 1] = Pad => N <= 3 * t - 2
  <2>1. SUFFICES ASSUME R >= 2, src[R] = Pad, src[R - 1] = Pad PROVE N <= 3 * t - 2
    OBVIOUS
  <2>2. src # <<>>
    BY <1>0, <2>1
  <2>3. g \in Nat /\ 3 * g + 1 <= N /\ at # R
    BY <1>2, <2>1, <2>2
  <2>4. at # R - 1
    <3>1. at = R - 1 => at # 0
      BY <1>0, <2>1
    <3>. QED  BY <1>0, <1>1, <2>1, <3>1
  <2>5. Pos(at, 4 * g + 3) = R - 1
    BY <1>0, <2>3, <2>4 DEF Pos
  <2>6. src[Pos(at, 4 * g + 3)] = Letter(s, g, 3)
    <3>1. 4 * g + 3 <= 4 * t
      BY <2>3
    <3>2. 3 \in 1 .. 4
      OBVIOUS
    <3>. QED  BY <1>0, <2>3, <3>1, <3>2, Zenon
  <2>7. ~(3 * g + 3 - 1 <= N)
    BY <1>3, <2>1, <2>3, <2>5, <2>6
  <2>. HIDE DEF N
  <2>. QED  BY <1>1, <2>7
<1>. QED  BY <1>4, <1>5

\* base64_decoded_size is enough for everything that was encoded.
LEMMA DecodedSizes ==
  ASSUME NEW s, NEW src, NEW at, Carries(src, s, at)
  PROVE  base64_decoded_size(src) \in Nat /\ base64_decoded_size(src) >= Len(s)
<1>. DEFINE t == (Len(s) + 2) \div 3
            Cut(a) == IF a # <<>> /\ Last(a) = Pad THEN Front(a) ELSE a
            n == Len(Cut(Cut(src)))
            R == Len(src)
<1>0. /\ Octets(s) /\ src \in Seq(Nat) /\ R \in Nat /\ Len(s) \in Nat
      /\ t \in Nat /\ Size(s) = 4 * t /\ Len(s) <= 3 * t
      /\ R = IF at = 0 THEN 4 * t ELSE 4 * t + 1
  <2>1. /\ Octets(s) /\ src \in Seq(Nat) /\ R \in Nat
        /\ R = IF at = 0 THEN Size(s) ELSE Size(s) + 1
    BY DEF Carries
  <2>2. Len(s) \in Nat
    BY <2>1, Sizes
  <2>3. t \in Nat /\ Len(s) <= 3 * t
    BY <2>2
  <2>4. Size(s) = 4 * t
    BY DEF Size
  <2>. QED  BY <2>1, <2>2, <2>3, <2>4
<1>1. base64_decoded_size(src) = base64_decoded_size_fast(n)
  BY Zenon DEF base64_decoded_size
<1>. HIDE DEF t
<1>2. /\ src # <<>> /\ src[R] = Pad => Len(s) <= 3 * t - 1
      /\ R >= 2 /\ src[R] = Pad /\ src[R - 1] = Pad => Len(s) <= 3 * t - 2
  BY <1>0, Ends
<1>3. ASSUME NEW a \in Seq(Nat)
      PROVE  /\ Cut(a) \in Seq(Nat)
             /\ a # <<>> /\ a[Len(a)] = Pad => /\ Len(Cut(a)) = Len(a) - 1
                                               /\ \A i \in 1 .. Len(a) - 1 : Cut(a)[i] = a[i]
             /\ ~(a # <<>> /\ a[Len(a)] = Pad) => Cut(a) = a
  <2>1. CASE a # <<>> /\ a[Len(a)] = Pad
    <3>1. Cut(a) = SubSeq(a, 1, Len(a) - 1)
      BY <2>1 DEF Last, Front
    <3>2. Len(a) - 1 \in Nat /\ Len(a) - 1 <= Len(a)
      BY <2>1
    <3>. HIDE DEF Cut
    <3>. DEFINE m == Len(a) - 1
    <3>3. /\ SubSeq(a, 1, m) \in Seq(Nat) /\ Len(SubSeq(a, 1, m)) = m
          /\ \A i \in 1 .. m : SubSeq(a, 1, m)[i] = a[i]
      BY <3>2, Beginnings, Zenon
    <3>. QED  BY <2>1, <3>1, <3>3, Zenon
  <2>2. CASE ~(a # <<>> /\ a[Len(a)] = Pad)
    <3>1. Cut(a) = a
      BY <2>2 DEF Last
    <3>. QED  BY <2>2, <3>1
  <2>. QED  BY <2>1, <2>2
<1>. HIDE DEF Cut
<1>. DEFINE b == Cut(src)
            c == Cut(b)
<1>4. n = Len(c) /\ b \in Seq(Nat) /\ c \in Seq(Nat) /\ Len(b) \in Nat /\ n \in Nat
  BY <1>0, <1>3
<1>. HIDE DEF n
<1>5. CASE ~(src # <<>> /\ src[R] = Pad)
  <2>1. b = src
    BY <1>0, <1>3, <1>5
  <2>2. c = src
    BY <1>0, <1>3, <1>5, <2>1
  <2>3. n = R /\ n <= 4 * t + 1 /\ n >= 4 * t
    BY <1>0, <1>4, <2>2
  <2>4. base64_decoded_size_fast(n) \in Nat /\ base64_decoded_size_fast(n) >= 3 * t
    BY <1>0, <1>4, <2>3, FastSizes
  <2>. QED  BY <1>0, <1>1, <2>4
<1>6. CASE src # <<>> /\ src[R] = Pad
  <2>1. Len(b) = R - 1 /\ \A i \in 1 .. R - 1 : b[i] = src[i]
    BY <1>0, <1>3, <1>6
  <2>2. CASE ~(b # <<>> /\ b[Len(b)] = Pad)
    <3>1. c = b
      BY <1>3, <1>4, <2>2
    <3>2. n = R - 1 /\ n <= 4 * t + 1 /\ (n >= 4 * t \/ n = 4 * t - 1)
      BY <1>0, <1>4, <2>1, <3>1
    <3>3. /\ base64_decoded_size_fast(n) \in Nat
          /\ n >= 4 * t => base64_decoded_size_fast(n) >= 3 * t
          /\ n = 4 * t - 1 => base64_decoded_size_fast(n) >= 3 * t - 1
      BY <1>0, <1>4, <3>2, FastSizes
    <3>. QED  BY <1>0, <1>1, <1>2, <1>6, <3>2, <3>3
  <2>3. CASE b # <<>> /\ b[Len(b)] = Pad
    <3>1. Len(c) = Len(b) - 1
      BY <1>3, <1>4, <2>3
    <3>2. R >= 2 /\ b[R - 1] = src[R - 1]
      <4>1. Len(b) # 0 /\ Len(b) \in Nat
        BY <1>4, <2>3
      <4>2. R >= 2
        <5>. HIDE DEF R
        <5>. QED  BY <1>0, <2>1, <4>1
      <4>3. R - 1 \in 1 .. R - 1
        BY <1>0, <4>2
      <4>. QED  BY <2>1, <4>2, <4>3
    <3>3. Len(s) <= 3 * t - 2
      BY <1>2, <1>6, <2>1, <2>3, <3>2
    <3>4. n = R - 2 /\ n <= 4 * t + 1 /\ (n >= 4 * t \/ n = 4 * t - 1 \/ n = 4 * t - 2)
      BY <1>0, <1>4, <2>1, <3>1
    <3>5. /\ base64_decoded_size_fast(n) \in Nat
          /\ n >= 4 * t => base64_decoded_size_fast(n) >= 3 * t
          /\ n = 4 * t - 1 => base64_decoded_size_fast(n) >= 3 * t - 1
          /\ n = 4 * t - 2 => base64_decoded_size_fast(n) >= 3 * t - 2
      BY <1>0, <1>4, <3>4, FastSizes
    <3>. QED  BY <1>0, <1>1, <3>3, <3>4, <3>5
  <2>. QED  BY <2>2, <2>3
<1>. QED  BY <1>5, <1>6

\* What has been sent in base64 is what comes out.
LEMMA Decoding ==
  ASSUME NEW s, NEW src, NEW at, Carries(src, s, at), NEW dstlen \in Nat
  PROVE  base64_decode(dstlen, src) = SubSeq(s, 1, Room(s, dstlen))
<1>. DEFINE size == base64_decoded_size(src)
            max_k == MaxK(dstlen, size)
            N == Len(s)
            M == Size(s)
            R == Len(src)
<1>0. /\ Octets(s) /\ at \in Nat /\ at <= M + 1 /\ R = IF at = 0 THEN M ELSE M + 1
      /\ s \in Seq(Nat) /\ N \in Nat /\ M \in Nat
  <2>1. Octets(s) /\ at \in Nat /\ at <= M + 1 /\ R = IF at = 0 THEN M ELSE M + 1
    BY DEF Carries
  <2>2. s \in Seq(Nat) /\ N \in Nat /\ M \in Nat
    BY <2>1, Sizes
  <2>. QED  BY <2>1, <2>2
<1>1. size \in Nat /\ size >= N
  BY DecodedSizes
<1>2. PICK end \in Loop : EndsIn(end, s, src, at, dstlen, size)
  <2>. HIDE DEF size
  <2>. QED  BY <1>1, Loops, Zenon
<1>. DEFINE d == base64_decode(dstlen, src)
<1>3. d = IF ~end.stopped /\ end.i < R /\ Len(end.dst) < dstlen
            THEN DecodeGroupSlow(src, dstlen, end.i, end.dst).dst ELSE end.dst
  BY <1>2, Zenon DEF EndsIn, base64_decode
<1>. HIDE DEF d, size
<1>4. CASE Over(end, s, dstlen)
  <2>1. end.stopped = TRUE /\ end.dst = SubSeq(s, 1, Room(s, dstlen))
    BY <1>4 DEF Over
  <2>2. d = end.dst
    BY <1>3, <2>1, Zenon
  <2>. QED  BY <2>1, <2>2 DEF d
<1>5. ASSUME NEW g \in Nat, Between(end, s, src, at, dstlen, g), Stuck(end, max_k)
      PROVE  d = SubSeq(s, 1, Room(s, dstlen))
  <2>1. /\ end.stopped = FALSE /\ end.i = Pos(at, 4 * g) /\ end.dst = SubSeq(s, 1, 3 * g)
        /\ 3 * g <= N /\ 3 * g <= dstlen
        /\ end.max_i = end.i + ((R - end.i) \div 4) * 4
    BY <1>5 DEF Between
  <2>2. 3 * g \in Nat /\ Len(end.dst) = 3 * g
    <3>1. 3 * g \in Nat
      OBVIOUS
    <3>2. Len(SubSeq(s, 1, 3 * g)) = 3 * g
      BY <1>0, <2>1, <3>1, Beginnings
    <3>. QED  BY <2>1, <3>1, <3>2
  <2>3. end.i \in Nat /\ R \in Nat
    BY <1>0, <2>1 DEF Pos
  <2>4. /\ 4 * g <= M
        /\ 3 * g + 1 <= N <=> 4 * g + 4 <= M
        /\ 3 * g + 3 < N => 4 * g + 4 < M
        /\ \A q \in 1 .. 4 : 4 * g + q <= M <=> 4 * g + 4 <= M
    BY <1>0, <2>1, Sizes
  <2>5. CASE end.i < R /\ 3 * g < dstlen
    <3>. DEFINE w == DecodeGroupSlow(src, dstlen, Pos(at, 4 * g), SubSeq(s, 1, 3 * g))
    <3>1. d = w.dst
      BY <1>3, <2>1, <2>2, <2>5, Zenon
    <3>2. Going(w, s, at, dstlen, g, 5) \/ Finished(w, s, dstlen)
      BY <2>1, <2>5, SlowGroups
    <3>. HIDE DEF w
    <3>3. CASE Finished(w, s, dstlen)
      BY <3>1, <3>3 DEF Finished
    <3>4. CASE Going(w, s, at, dstlen, g, 5)
      <4>1. w.dst = SubSeq(s, 1, 3 * g + 3) /\ 3 * g + 3 <= N /\ 3 * g + 3 < dstlen /\ 4 * g + 4 <= M
        <5>1. Held(g, 5) = 3 * g + 3 /\ 5 # 1
          BY DEF Held
        <5>. QED  BY <3>4, <5>1 DEF Going
      <4>2. ~(Len(end.dst) >= max_k)
        <5>. DEFINE a == IF dstlen < size THEN dstlen ELSE size
        <5>1. a \in Nat /\ 3 * g + 3 <= a
          BY <1>0, <1>1, <4>1
        <5>. HIDE DEF a
        <5>2. 3 * g < (a \div 3) * 3
          BY <5>1
        <5>3. max_k = (a \div 3) * 3 /\ max_k \in Int
          BY <5>1 DEF MaxK, a
        <5>. HIDE DEF max_k
        <5>. QED  BY <2>2, <5>2, <5>3
      <4>3. end.i >= end.max_i
        BY <1>5, <4>2 DEF Stuck
      <4>4. end.i + 4 <= R
        BY <1>0, <2>1, <4>1 DEF Pos
      <4>5. FALSE
        <5>. DEFINE i == end.i
                    c == (R - i) \div 4
        <5>1. c \in Int /\ c >= 1
          <6>. HIDE DEF i, R
          <6>. QED  BY <2>3, <4>4 DEF i
        <5>2. end.max_i = i + c * 4 /\ i \in Nat
          BY <2>1, <2>3
        <5>. HIDE DEF i, c
        <5>3. ~(i >= i + c * 4)
          BY <5>1, <5>2
        <5>. QED  BY <4>3, <5>2, <5>3 DEF i
      <4>. QED  BY <4>5
    <3>. QED  BY <3>2, <3>3, <3>4
  <2>6. CASE ~(end.i < R /\ 3 * g < dstlen)
    <3>1. d = end.dst
      BY <1>3, <2>2, <2>6, Zenon
    <3>2. Room(s, dstlen) = 3 * g
      <4>1. CASE ~(3 * g < dstlen)
        <5>1. dstlen = 3 * g
          BY <2>1, <4>1
        <5>2. dstlen < N => 3 * g = dstlen
          BY <5>1
        <5>3. ~(dstlen < N) => N = 3 * g
          BY <1>0, <2>1, <5>1
        <5>. QED  BY <5>2, <5>3, Zenon DEF Room
      <4>2. CASE ~(end.i < R)
        <5>1. 4 * g >= M
          BY <1>0, <2>1, <2>4, <4>2, SMTT(20) DEF Pos
        <5>2. ~(4 * g + 4 <= M)
          <6>. HIDE DEF M
          <6>. QED  BY <1>0, <5>1
        <5>3. N = 3 * g
          <6>1. ~(3 * g + 1 <= N)
            BY <2>4, <5>2
          <6>. HIDE DEF N
          <6>. QED  BY <1>0, <2>1, <6>1
        <5>4. ~(dstlen < N)
          BY <2>1, <5>3
        <5>. QED  BY <5>3, <5>4, Zenon DEF Room
      <4>. QED  BY <2>6, <4>1, <4>2
    <3>. QED  BY <2>1, <3>1, <3>2
  <2>. QED  BY <2>5, <2>6
<1>6. Over(end, s, dstlen) \/ \E g \in Nat : Between(end, s, src, at, dstlen, g) /\ Stuck(end, max_k)
  BY <1>2, Zenon DEF EndsIn, max_k
<1>. QED  BY <1>4, <1>5, <1>6, Zenon DEF d

\* What Codecs encodes are bytes.
LEMMA BytesAreOctets ==
  ASSUME NEW s \in SeqsUpTo(SomeBytes, MaxBytes)
  PROVE  Octets(s)
<1>1. PICK k \in 0 .. MaxBytes : s \in [1 .. k -> SomeBytes]
  BY DEF SeqsUpTo
<1>2. MaxBytes \in Nat /\ SomeBytes \in SUBSET Nat
  BY BoundsAssumption, TextsAssumption
<1>3. \A b \in SomeBytes : b < 256
  BY TextsAssumption, SMT
<1>4. s \in Seq(Nat)
  <2>1. k \in Nat
    BY <1>2
  <2>2. s \in [1 .. k -> Nat]
    BY <1>1, <1>2, Zenon
  <2>. QED  BY <2>1, <2>2
<1>5. \A i \in 1 .. Len(s) : s[i] \in SomeBytes
  BY <1>1, <1>2
<1>. QED  BY <1>3, <1>4, <1>5 DEF Octets

\* For one text and one size of the room for it.
LEMMA Base64Survives ==
  ASSUME NEW s \in SeqsUpTo(SomeBytes, MaxBytes), NEW dstlen \in Nat,
         NEW at \in 0 .. Len(base64_encode(s)) + 1, NEW src,
         src = (IF at = 0 THEN base64_encode(s) ELSE InsertAt(base64_encode(s), at, Other)),
         input' = <<"base64", s, dstlen, src>>
  PROVE  Base64Inverts'
<1>. DEFINE e == base64_encode(s)
<1>1. Octets(s)
  BY BytesAreOctets
<1>2. Encodes(e, s)
  BY <1>1, Encoding
<1>3. Carries(src, s, at)
  <2>. HIDE DEF e
  <2>1. at \in 0 .. Len(e) + 1 /\ src = IF at = 0 THEN e ELSE InsertAt(e, at, Other)
    BY DEF e
  <2>. QED  BY <1>1, <1>2, <2>1, Carrying
<1>4. base64_decode(dstlen, src) = SubSeq(s, 1, Room(s, dstlen))
  BY <1>3, Decoding
<1>5. Len(e) = base64_encoded_size(Len(s))
  <2>1. Len(e) = 4 * ((Len(s) + 2) \div 3) /\ Len(s) \in Nat
    BY <1>1, <1>2, Sizes DEF Encodes
  <2>. DEFINE n == Len(s) + 2
              a == n \div 3
              b == n % 3
              c == (n - b) \div 3
  <2>2. n \in Nat
    BY <2>1
  <2>. HIDE DEF n
  <2>3. n = 3 * a + b /\ a \in Nat /\ b \in 0 .. 2
    BY <2>2
  <2>. HIDE DEF a, b
  <2>4. c = a
    BY <2>2, <2>3
  <2>5. base64_encoded_size(Len(s)) = c * 4
    BY DEF base64_encoded_size, b, n
  <2>6. Len(e) = 4 * a
    BY <2>1 DEF a, n
  <2>. HIDE DEF c, e
  <2>. QED  BY <2>3, <2>4, <2>5, <2>6
<1>6. input'[2] = s /\ input'[3] = dstlen /\ input'[4] = src
  OBVIOUS
<1>. HIDE DEF e
<1>7. base64_decode(input'[3], input'[4]) = SubSeq(s, 1, IF input'[3] < Len(s) THEN input'[3] ELSE Len(s))
  BY <1>4, <1>6, Zenon DEF Room
<1>. QED  BY <1>5, <1>6, <1>7, Zenon DEF Base64Inverts, e

\* Text on its way through UTF-16, UTF-8 (inspector_agent.cpp:120-218) and
\* base64 (base64.h:36-160) is what it was: as many bytes as were counted are
\* written, proper text and no other reads the same at the other end, and what
\* base64 encodes comes out of it, as far as there is room, whatever other
\* character breaks the text.
THEOREM TextsSurviveAlways == CodecsSpec => []TextsSurvive
<1>1. CodecsInit => TextsSurvive
  BY DEF CodecsInit, None, TextsSurvive, WritesWhatWasCounted, ProperTextSurvives, Base64Inverts
<1>2. TextsSurvive /\ [CodecsNext]_input => TextsSurvive'
  <2>. SUFFICES ASSUME TextsSurvive, [CodecsNext]_input
                PROVE  TextsSurvive'
    OBVIOUS
  <2>1. CASE ConvertText
    <3>1. PICK s \in SeqsUpTo(Units, MaxUnits), wide \in BOOLEAN :
            input' = <<"text", [wide |-> wide, units |-> s]>>
      BY <2>1 DEF ConvertText
    <3>2. WritesWhatWasCounted' /\ ProperTextSurvives'
      BY <3>1, MessagesSurvive
    <3>3. Base64Inverts'
      BY <3>1 DEF Base64Inverts
    <3>. QED  BY <3>2, <3>3 DEF TextsSurvive
  <2>2. CASE DecodeBase64
    <3>1. PICK s \in SeqsUpTo(SomeBytes, MaxBytes), dstlen \in 0 .. MaxBytes + 1 :
            \E at \in 0 .. Len(base64_encode(s)) + 1 :
              input' = <<"base64", s, dstlen,
                         IF at = 0 THEN base64_encode(s) ELSE InsertAt(base64_encode(s), at, Other)>>
      BY <2>2, Zenon DEF DecodeBase64
    <3>2. PICK at \in 0 .. Len(base64_encode(s)) + 1 :
            input' = <<"base64", s, dstlen,
                       IF at = 0 THEN base64_encode(s) ELSE InsertAt(base64_encode(s), at, Other)>>
      BY <3>1, Zenon
    <3>. DEFINE src == IF at = 0 THEN base64_encode(s) ELSE InsertAt(base64_encode(s), at, Other)
    <3>3. input' = <<"base64", s, dstlen, src>>
      BY <3>2
    <3>4. dstlen \in Nat
      OBVIOUS
    <3>5. Base64Inverts'
      BY <3>3, <3>4, Base64Survives
    <3>. HIDE DEF src
    <3>6. input'[1] = "base64"
      BY <3>3
    <3>7. WritesWhatWasCounted' /\ ProperTextSurvives'
      BY <3>6 DEF WritesWhatWasCounted, ProperTextSurvives
    <3>. QED  BY <3>5, <3>7 DEF TextsSurvive
  <2>3. CASE UNCHANGED input
    BY <2>3 DEF TextsSurvive, WritesWhatWasCounted, ProperTextSurvives, Base64Inverts
  <2>4. CASE CodecsNext /\ ~ConvertText /\ ~DecodeBase64
    <3>1. input'[1] # "text" /\ input'[1] # "base64"
      BY <2>4, KindOfInput
    <3>. QED  BY <3>1 DEF TextsSurvive, WritesWhatWasCounted, ProperTextSurvives, Base64Inverts
  <2>. QED  BY <2>1, <2>2, <2>3, <2>4
<1>. QED  BY <1>1, <1>2, PTL DEF CodecsSpec
=============================================================================
