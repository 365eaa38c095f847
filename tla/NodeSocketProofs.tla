------------------------- MODULE NodeSocketProofs -------------------------
(***************************************************************************)
(* Proofs about NodeSocket: sessions and connections agree, clients are    *)
(* sent things in order, connections and the closer are freed once, and    *)
(* the delegate sees what NodeSessions promises.                           *)
(*                                                                         *)
(* The invariant says of each connection where it is in its life (ConnInv) *)
(* and needs the history `hasty` throughout: only what is read while a     *)
(* refusal is written brings a connection to a place where it is not       *)
(* expected.  A part of a frame that passes for the whole ends everything  *)
(* at once, with every connection still in its place.                      *)
(***************************************************************************)
EXTENDS NodeSocket, FiniteSetTheorems, TLAPS

Written == {"200", "400", "101", "message", "close"}

------------------------------------------------------------------------------
(* What a client is sent *)

\* Contains, by positions.
LEMMA ContainsAppend ==
  ASSUME NEW T, NEW w \in Seq(T), NEW e \in T, NEW x
  PROVE  Contains(Append(w, e), x) <=> Contains(w, x) \/ e = x
<1>1. /\ Append(w, e) \in Seq(T) /\ Len(Append(w, e)) = Len(w) + 1 /\ Len(w) \in Nat
      /\ \A i \in 1 .. Len(w) + 1 : Append(w, e)[i] = IF i <= Len(w) THEN w[i] ELSE e
  OBVIOUS
<1>2. Len(w) + 1 \in 1 .. Len(w) + 1 /\ ~(Len(w) + 1 <= Len(w))
  BY <1>1
<1>3. \A i \in 1 .. Len(w) : i \in 1 .. Len(w) + 1 /\ i <= Len(w)
  BY <1>1
<1>4. \A i \in 1 .. Len(w) + 1 : i \in 1 .. Len(w) \/ ~(i <= Len(w))
  BY <1>1
<1>. DEFINE u == Append(w, e)
            n == Len(w)
<1>5. /\ Len(u) = n + 1
      /\ \A i \in 1 .. n : u[i] = w[i]
      /\ u[n + 1] = e
      /\ \A i \in 1 .. n + 1 : i \in 1 .. n \/ u[i] = e
  BY <1>1, <1>2, <1>3, <1>4
<1>. HIDE DEF u, n
<1>6. Contains(u, x) <=> \E i \in 1 .. n + 1 : u[i] = x
  BY <1>5 DEF Contains
<1>7. Contains(w, x) <=> \E i \in 1 .. n : w[i] = x
  BY DEF Contains, n
<1>8. n + 1 \in 1 .. n + 1 /\ \A i \in 1 .. n : i \in 1 .. n + 1
  BY <1>1 DEF n
<1>. QED  BY <1>5, <1>6, <1>7, <1>8 DEF u

\* What InOrder asks of the entry j of w, B being the positions before it.
Fits(w, j, B) ==
  /\ \A i \in B : /\ w[i] = "close" => w[j] = "close"
                  /\ w[i] = "101" => w[j] \in {"message", "close"}
  /\ w[j] \in {"message", "close"} => \E i \in B : w[i] = "101"

\* One more entry is in order when it is for each of those before it.
LEMMA InOrderAppend ==
  ASSUME NEW w \in Seq(Written), NEW e \in Written, InOrder(w),
         Contains(w, "close") => e = "close",
         Contains(w, "101") => e \in {"message", "close"},
         e \in {"message", "close"} => Contains(w, "101")
  PROVE  Append(w, e) \in Seq(Written) /\ InOrder(Append(w, e))
<1>. DEFINE u == Append(w, e)
            n == Len(w)
<1>1. u \in Seq(Written) /\ Len(u) = n + 1 /\ n \in Nat
  OBVIOUS
<1>2. (\A i \in 1 .. n : u[i] = w[i]) /\ u[n + 1] = e
  OBVIOUS
<1>. HIDE DEF u
<1>3. DOMAIN u = 1 .. n + 1 /\ DOMAIN w = 1 .. n
  BY <1>1
<1>. HIDE DEF n
<1>4. ASSUME NEW j \in 1 .. n
      PROVE  Fits(u, j, 1 .. j - 1)
  <2>1. \A i \in 1 .. j - 1 : i \in 1 .. n
    BY <1>1
  <2>2. Fits(w, j, 1 .. j - 1)
    <3>1. \A i \in DOMAIN w : Fits(w, i, 1 .. i - 1)
      BY DEF InOrder, Fits
    <3>. QED  BY <1>3, <3>1, Zenon
  <2>. DEFINE before == 1 .. j - 1
  <2>3. \A i \in before : u[i] = w[i]
    BY <1>2, <2>1
  <2>. HIDE DEF before
  <2>4. u[j] = w[j]
    BY <1>2
  <2>5. Fits(w, j, before) => Fits(u, j, before)
    BY <2>3, <2>4 DEF Fits
  <2>. QED  BY <2>2, <2>5 DEF before
<1>5. Fits(u, n + 1, 1 .. n)
  <2>. DEFINE before == 1 .. n
  <2>1. \A i \in before : u[i] = w[i]
    BY <1>2
  <2>2. \A x : Contains(w, x) <=> \E i \in before : w[i] = x
    BY DEF Contains, n
  <2>. HIDE DEF before
  <2>3. Fits(u, n + 1, before)
    BY <1>2, <2>1, <2>2 DEF Fits
  <2>. QED  BY <2>3 DEF before
<1>6. \A j \in DOMAIN u : Fits(u, j, 1 .. j - 1)
  <2>1. \A j \in 1 .. n + 1 : j \in 1 .. n \/ (j = n + 1 /\ 1 .. j - 1 = 1 .. n)
    BY <1>1
  <2>. QED  BY <1>3, <1>4, <1>5, <2>1, Zenon
<1>7. InOrder(u)
  BY <1>6, Zenon DEF InOrder, Fits
<1>. QED  BY <1>1, <1>7 DEF u

\* Close frames after an upgrade.
LEMMA InOrderClose ==
  ASSUME NEW w \in Seq(Written), InOrder(w), Contains(w, "101")
  PROVE  LET u == Append(w, "close")
         IN  u \in Seq(Written) /\ InOrder(u) /\ Contains(u, "101")
BY InOrderAppend, ContainsAppend DEF Written

\* None, one or two of them: CloseFrames and what CloseFrame adds.
LEMMA InOrderCloses ==
  ASSUME NEW w \in Seq(Written), InOrder(w), Contains(w, "101"),
         NEW a \in {<<>>, <<"close">>}, NEW b \in {<<>>, <<"close">>}
  PROVE  LET u == w \o a \o b
         IN  u \in Seq(Written) /\ InOrder(u) /\ Contains(u, "101")
<1>1. \A v \in Seq(Written), d \in {<<>>, <<"close">>} :
        InOrder(v) /\ Contains(v, "101")
          => v \o d \in Seq(Written) /\ InOrder(v \o d) /\ Contains(v \o d, "101")
  <2>1. TAKE v \in Seq(Written), d \in {<<>>, <<"close">>}
  <2>2. HAVE InOrder(v) /\ Contains(v, "101")
  <2>3. CASE d = <<>>
    <3>1. v \o d = v
      BY <2>3
    <3>. QED  BY <2>2, <3>1
  <2>4. CASE d = <<"close">>
    <3>1. v \o d = Append(v, "close")
      BY <2>4 DEF Written
    <3>. QED  BY <2>2, <3>1, InOrderClose
  <2>. QED  BY <2>3, <2>4
<1>2. w \o a \in Seq(Written) /\ InOrder(w \o a) /\ Contains(w \o a, "101")
  BY <1>1
<1>. QED  BY <1>1, <1>2

\* Answers to requests.
LEMMA InOrderAnswer ==
  ASSUME NEW w \in Seq({"200", "400"}), NEW e \in {"200", "400", "101"}
  PROVE  /\ Append(w, e) \in Seq(Written) /\ InOrder(Append(w, e))
         /\ e # "101" => Append(w, e) \in Seq({"200", "400"})
         /\ ~Contains(Append(w, e), "close")
         /\ Contains(Append(w, "101"), "101")
<1>1. \A i \in 1 .. Len(w) : w[i] \in {"200", "400"}
  OBVIOUS
<1>2. w \in Seq(Written)
  BY DEF Written
<1>3. ~Contains(w, "close") /\ ~Contains(w, "101")
  BY <1>1 DEF Contains
<1>4. InOrder(w)
  BY <1>1 DEF InOrder
<1>. QED  BY <1>2, <1>3, <1>4, InOrderAppend, ContainsAppend DEF Written

------------------------------------------------------------------------------
(* The invariant *)

Started(c) == \E i \in DOMAIN calls : calls[i] = <<"start", c>>

\* Nothing has happened on a connection that is not accepted yet.
FreshInv(c) == k[c].session = "none" => k[c] = Fresh /\ out[c] = <<>>

\* What is read is open; requests are read until the upgrade, frames after it.
ReadInv(c) ==
  /\ k[c].reading # "no" => k[c].handle = "open"
  /\ k[c].reading = "http" => /\ k[c].parser # "none" /\ k[c].session \in {"http", "declined"}
                              /\ ~Contains(k[c].writes, "close") /\ k[c].onClose = "none"
                              /\ ~k[c].shuttingDown /\ ~k[c].hasCloser
  /\ k[c].reading = "ws" => /\ k[c].parser = "none" /\ k[c].session \in {"ws", "closing"}
                            /\ Contains(out[c], "101")
                            /\ k[c].readCb => c \in sessions
  /\ k[c].session = "gone" => k[c].handle = "closed"

\* A session has not begun to close, and its handle neither, unless a refusal
\* was still being written when it was upgraded.
ConnectedInv(c) ==
  c \in sessions =>
    /\ k[c].session = "ws" /\ k[c].parser = "none" /\ k[c].readCb
    /\ ~k[c].shuttingDown /\ ~k[c].hasCloser
    /\ ~Contains(k[c].writes, "close")
    /\ k[c].handle = "open" \/ (k[c].handle = "closing" /\ k[c].onClose = "report" /\ c \in hasty)
    /\ Contains(out[c], "101") /\ ~Contains(out[c], "close")

\* One refusal at a time is written, and nothing else is done then.
RefusalInv(c) ==
  /\ Contains(k[c].writes, "fail")
       => c \in hasty \/ (k[c].reading = "http" /\ k[c].writes = <<"fail">>)
  /\ k[c].session = "declined" => k[c].reading = "no" \/ Contains(k[c].writes, "fail")
  /\ k[c].onClose = "report" /\ k[c].parser = "none" => c \in hasty

\* Before the upgrade, there are only answers, and no session.
HandshakeInv(c) ==
  /\ k[c].parser # "none" => out[c] \in Seq({"200", "400"})
  /\ Started(c) => k[c].parser = "none" /\ k[c].session # "none"

ConnInv(c) == FreshInv(c) /\ ReadInv(c) /\ ConnectedInv(c) /\ RefusalInv(c) /\ HandshakeInv(c)

Alive == sessions = {open} \ {None} /\ \A c \in Conns : ConnInv(c)

IInv ==
  /\ TypeOK
  /\ NothingAfterClose
  /\ CloserIsNeeded
  /\ crashed => hasty # {} \/ Overrun
  /\ ~crashed => Alive

------------------------------------------------------------------------------
(* Helpers *)

\* Closing closes a handle that is open, and nothing else.
LEMMA ClosingFields ==
  ASSUME NEW s \in Connection, NEW callback \in {"dispose", "report"}
  PROVE  LET t == Closing(s, callback)
         IN  /\ t \in Connection
             /\ t.session = s.session /\ t.parser = s.parser /\ t.readCb = s.readCb
             /\ t.hasCloser = s.hasCloser /\ t.writes = s.writes /\ t.shuttingDown = s.shuttingDown
             /\ t.onClose \in {s.onClose, callback} /\ t.reading \in {"no", s.reading}
             /\ s.handle = "open" => t.handle = "closing" /\ t.onClose = callback /\ t.reading = "no"
<1>. DEFINE t == [s EXCEPT !.handle = "closing", !.onClose = callback, !.reading = "no"]
<1>1. CASE s.handle = "open"
  <2>1. Closing(s, callback) = t
    BY <1>1 DEF Closing
  <2>2. /\ t \in Connection
        /\ t.session = s.session /\ t.parser = s.parser /\ t.readCb = s.readCb
        /\ t.hasCloser = s.hasCloser /\ t.writes = s.writes /\ t.shuttingDown = s.shuttingDown
        /\ t.onClose = callback /\ t.handle = "closing" /\ t.reading = "no"
    BY DEF Connection
  <2>. HIDE DEF t
  <2>. QED  BY <2>1, <2>2
<1>2. CASE s.handle # "open"
  <2>1. Closing(s, callback) = s
    BY <1>2 DEF Closing
  <2>. QED  BY <1>2, <2>1
<1>. QED  BY <1>1, <1>2

\* A session that begins to close has no read callback, or is not read any more.
LEMMA InspectorCloseFields ==
  ASSUME NEW s \in Connection
  PROVE  LET t == inspector_close(s)
         IN  /\ t \in Connection
             /\ t.session = "closing" /\ t.parser = s.parser /\ t.hasCloser = s.hasCloser
             /\ t.writes \in {s.writes, Append(s.writes, "close")}
             /\ t.onClose \in {s.onClose, "dispose"}
             /\ s.handle = "open"
                  => t.reading = "no" \/ (t.reading = "ws" /\ t.handle = "open" /\ ~t.readCb)
<1>. DEFINE a == [s EXCEPT !.session = "closing", !.shuttingDown = TRUE]
            b == [a EXCEPT !.readCb = FALSE, !.closeSent = FALSE,
                           !.writes = Append(@, "close"), !.reading = "ws"]
<1>1. /\ a \in Connection /\ a.session = "closing" /\ a.parser = s.parser /\ a.hasCloser = s.hasCloser
      /\ a.writes = s.writes /\ a.onClose = s.onClose /\ a.handle = s.handle
  BY DEF Connection
<1>2. CASE s.eof
  <2>1. inspector_close(s) = Closing(a, "dispose")
    BY <1>2 DEF inspector_close
  <2>. HIDE DEF a
  <2>. QED  BY <1>1, <2>1, ClosingFields
<1>3. CASE ~s.eof
  <2>1. inspector_close(s) = b
    BY <1>3 DEF inspector_close
  <2>. HIDE DEF a
  <2>2. Append(a.writes, "close") \in Seq({"close", "fail"})
    BY <1>1 DEF Connection
  <2>3. /\ b \in Connection /\ b.session = a.session /\ b.parser = a.parser /\ b.hasCloser = a.hasCloser
        /\ b.writes = Append(a.writes, "close") /\ b.onClose = a.onClose
        /\ b.reading = "ws" /\ b.handle = a.handle /\ b.readCb = FALSE
    <3>. DEFINE more == Append(a.writes, "close")
                T    == Seq({"close", "fail"})
    <3>1. more \in T
      BY <2>2
    <3>. HIDE DEF more, T
    <3>2. b = [a EXCEPT !.readCb = FALSE, !.closeSent = FALSE, !.writes = more, !.reading = "ws"]
      BY DEF more, a
    <3>. HIDE DEF b
    <3>3. b \in Connection
      <4>1. a \in Connection
        BY <1>1
      <4>. QED  BY <3>1, <3>2, <4>1 DEF Connection, T
    <3>4. /\ b.session = a.session /\ b.parser = a.parser /\ b.hasCloser = a.hasCloser
          /\ b.writes = more /\ b.onClose = a.onClose
          /\ b.reading = "ws" /\ b.handle = a.handle /\ b.readCb = FALSE
      BY <1>1, <3>2 DEF Connection
    <3>. QED  BY <3>3, <3>4 DEF more
  <2>. HIDE DEF b
  <2>. QED  BY <1>1, <2>1, <2>3
<1>4. s.eof \in BOOLEAN
  BY DEF Connection
<1>. QED  BY <1>2, <1>3, <1>4

\* A call of the delegate starts a session when it says so.
LEMMA Told ==
  ASSUME calls \in Seq({"start", "message", "end"} \X Conns), NEW c \in Conns,
         NEW what \in {"start", "message", "end"}, Tell(what, c)
  PROVE  /\ calls' \in Seq({"start", "message", "end"} \X Conns)
         /\ \A d \in Conns : Started(d)' <=> Started(d) \/ (what = "start" /\ d = c)
<1>1. calls' = Append(calls, <<what, c>>)
  BY DEF Tell
<1>2. /\ calls' \in Seq({"start", "message", "end"} \X Conns)
      /\ DOMAIN calls' = 1 .. Len(calls) + 1 /\ DOMAIN calls = 1 .. Len(calls) /\ Len(calls) \in Nat
      /\ \A i \in 1 .. Len(calls) : calls'[i] = calls[i]
      /\ calls'[Len(calls) + 1] = <<what, c>>
  BY <1>1
<1>. DEFINE n == Len(calls)
<1>3. n \in Nat /\ n + 1 \in 1 .. n + 1 /\ \A i \in 1 .. n + 1 : i \in 1 .. n \/ i = n + 1
  BY <1>2
<1>4. \A i \in 1 .. n : i \in 1 .. n + 1
  BY <1>2
<1>. HIDE DEF n
<1>5. ASSUME NEW d \in Conns
      PROVE  Started(d)' <=> Started(d) \/ (what = "start" /\ d = c)
  <2>1. Started(d)' <=> \E i \in 1 .. n + 1 : calls'[i] = <<"start", d>>
    BY <1>2 DEF Started, n
  <2>2. Started(d) <=> \E i \in 1 .. n : calls[i] = <<"start", d>>
    BY <1>2 DEF Started, n
  <2>3. <<what, c>> = <<"start", d>> <=> what = "start" /\ d = c
    OBVIOUS
  <2>. QED  BY <1>2, <1>3, <1>4, <2>1, <2>2, <2>3 DEF n
<1>. QED  BY <1>2, <1>5

\* The closer waits for the same as before.
LEMMA CloserKept ==
  ASSUME CloserIsNeeded, UNCHANGED <<listening, closer>>,
         \A d \in Conns : /\ k'[d].hasCloser = k[d].hasCloser
                          /\ k'[d].session = "gone" <=> k[d].session = "gone"
  PROVE  CloserIsNeeded'
<1>1. Waiting' = Waiting
  BY DEF Waiting
<1>. QED  BY <1>1 DEF CloserIsNeeded

------------------------------------------------------------------------------
(* Steps of one connection *)

\* What a step of the connection c has to be for the invariant to be kept.
Step(c) ==
  /\ ~crashed
  /\ TypeOK'
  /\ \A d \in Conns \ {c} : /\ k'[d] = k[d] /\ out'[d] = out[d]
                            /\ d \in sessions' <=> d \in sessions
                            /\ Started(d)' => Started(d)
  /\ hasty \subseteq hasty'
  /\ InOrder(out'[c])
  /\ \/ CloserIsNeeded'
     \/ /\ UNCHANGED <<listening, closer>> /\ k'[c].hasCloser = k[c].hasCloser
        /\ k'[c].session # "gone" /\ k[c].session # "gone"
  /\ crashed' => hasty' # {} \/ Overrun'
  /\ ~crashed' => sessions' = {open'} \ {None} /\ ConnInv(c)'

\* The other connections are where they were.
LEMMA Bystanders ==
  ASSUME NEW d \in Conns, ConnInv(d), k'[d] = k[d], out'[d] = out[d],
         d \in sessions' <=> d \in sessions, Started(d)' => Started(d), hasty \subseteq hasty'
  PROVE  ConnInv(d)'
<1>1. FreshInv(d)'
  BY DEF ConnInv, FreshInv
<1>2. ReadInv(d)'
  BY DEF ConnInv, ReadInv
<1>3. ConnectedInv(d)'
  BY DEF ConnInv, ConnectedInv
<1>4. RefusalInv(d)'
  BY DEF ConnInv, RefusalInv
<1>5. HandshakeInv(d)'
  BY DEF ConnInv, HandshakeInv
<1>. QED  BY <1>1, <1>2, <1>3, <1>4, <1>5 DEF ConnInv

LEMMA StepInv ==
  ASSUME IInv, NEW c \in Conns, Step(c)
  PROVE  IInv'
<1>1. Alive
  BY DEF IInv, Step
<1>2. NothingAfterClose'
  BY DEF NothingAfterClose, IInv, Step
<1>3. CloserIsNeeded'
  <2>1. SUFFICES ASSUME ~CloserIsNeeded'
                 PROVE  CloserIsNeeded'
    OBVIOUS
  <2>2. \A d \in Conns : /\ k'[d].hasCloser = k[d].hasCloser
                         /\ k'[d].session = "gone" <=> k[d].session = "gone"
    BY <2>1 DEF Step
  <2>. QED  BY <2>1, <2>2, CloserKept DEF Step, IInv
<1>4. ASSUME ~crashed'
      PROVE  Alive'
  <2>1. \A d \in Conns \ {c} : ConnInv(d)'
    BY <1>1, Bystanders DEF Alive, Step
  <2>. QED  BY <1>4, <2>1 DEF Alive, Step
<1>. QED  BY <1>2, <1>3, <1>4 DEF IInv, Step

\* What is the same in every step of a connection: it becomes t.
LEMMA BecomesTypes ==
  ASSUME TypeOK, NEW c \in Conns, NEW t \in Connection, Becomes(c, t)
  PROVE  /\ k' \in [Conns -> Connection] /\ k'[c] = t
         /\ \A d \in Conns \ {c} : k'[d] = k[d]
BY DEF Becomes, TypeOK

\* One more thing is written to a client.
LEMMA WritesTypes ==
  ASSUME TypeOK, NEW c \in Conns, NEW what \in Written, Writes(c, what)
  PROVE  /\ out' \in [Conns -> Seq(Written)] /\ out'[c] = Append(out[c], what)
         /\ \A d \in Conns \ {c} : out'[d] = out[d]
<1>1. out \in [Conns -> Seq(Written)]
  BY DEF TypeOK, Written
<1>2. Append(out[c], what) \in Seq(Written)
  BY <1>1
<1>. QED  BY <1>1, <1>2 DEF Writes

\* A request is read; the connection is hasty if a refusal is being written.
LEMMA ReadHttpFacts ==
  ASSUME IInv, NEW c \in Conns, ReadHttp(c)
  PROVE  /\ ~crashed /\ Alive /\ TypeOK /\ ConnInv(c)
         /\ k[c] \in Connection /\ k[c].reading = "http" /\ k[c].handle = "open"
         /\ k[c].parser # "none" /\ k[c].session \in {"http", "declined"}
         /\ ~Contains(k[c].writes, "close") /\ k[c].onClose = "none"
         /\ ~k[c].shuttingDown /\ ~k[c].hasCloser
         /\ c \notin sessions /\ out[c] \in Seq({"200", "400"})
         /\ net' \in [Conns -> Seq(Items)]
         /\ hasty \subseteq hasty' /\ hasty' \subseteq Conns
         /\ Contains(k[c].writes, "fail") => c \in hasty'
         /\ UNCHANGED <<listening, closer, shut, sent>>
<1>1. ~crashed /\ Alive /\ TypeOK /\ ConnInv(c) /\ k[c].reading = "http" /\ net[c] # <<>>
  BY DEF ReadHttp, IInv, Alive
<1>2. k[c] \in Connection /\ net[c] \in Seq(Items) /\ hasty \subseteq Conns
  BY <1>1 DEF TypeOK
<1>3. /\ k[c].handle = "open" /\ k[c].parser # "none" /\ k[c].session \in {"http", "declined"}
      /\ ~Contains(k[c].writes, "close") /\ k[c].onClose = "none"
      /\ ~k[c].shuttingDown /\ ~k[c].hasCloser
      /\ c \notin sessions /\ out[c] \in Seq({"200", "400"})
  BY <1>1 DEF ConnInv, ReadInv, ConnectedInv, HandshakeInv
<1>4. net' \in [Conns -> Seq(Items)]
  <2>1. Tail(net[c]) \in Seq(Items)
    BY <1>1, <1>2
  <2>2. ASSUME NEW n \in 2 .. Len(net[c]), NEW left \in {<<>>} \cup {<<x>> : x \in Requests \cup Frames}
        PROVE  left \o SubSeq(net[c], n + 1, Len(net[c])) \in Seq(Items)
    <3>1. left \in Seq(Items)
      <4>1. <<>> \in Seq(Items) /\ \A x \in Items : <<x>> \in Seq(Items)
        OBVIOUS
      <4>. QED  BY <4>1 DEF Items
    <3>2. SubSeq(net[c], n + 1, Len(net[c])) \in Seq(Items)
      BY <1>2
    <3>. QED  BY <3>1, <3>2
  <2>3. \E rest \in Seq(Items) : net' = [net EXCEPT ![c] = rest]
    BY <2>1, <2>2 DEF ReadHttp
  <2>. QED  BY <1>1, <2>3 DEF TypeOK
<1>. QED  BY <1>1, <1>2, <1>3, <1>4 DEF ReadHttp

\* A close frame that is written is no refusal.
LEMMA CloseWritten ==
  ASSUME NEW w \in Seq({"close", "fail"}), NEW v \in {w, Append(w, "close")}
  PROVE  v \in Seq({"close", "fail"}) /\ (Contains(v, "fail") <=> Contains(w, "fail"))
<1>1. Append(w, "close") \in Seq({"close", "fail"})
  OBVIOUS
<1>2. Contains(Append(w, "close"), "fail") <=> Contains(w, "fail")
  BY ContainsAppend
<1>3. v = w \/ v = Append(w, "close")
  OBVIOUS
<1>. QED  BY <1>1, <1>2, <1>3

\* A step that calls and writes nothing and after which c is no session that is
\* read: what is left to show is where c is in its life.
LEMMA QuietStep ==
  ASSUME IInv, ~crashed, NEW c \in Conns, NEW t \in Connection, Becomes(c, t),
         hasty \subseteq hasty', hasty' \subseteq Conns,
         UNCHANGED <<listening, closer, sessions, open, calls, out, crashed>>,
         net' \in [Conns -> Seq(Items)], UNCHANGED <<shut, sent>>,
         t.hasCloser = k[c].hasCloser, t.session # "gone", k[c].session # "gone",
         (FreshInv(c) /\ ReadInv(c) /\ ConnectedInv(c) /\ RefusalInv(c) /\ HandshakeInv(c))'
  PROVE  IInv'
<1>1. TypeOK /\ Alive /\ NothingAfterClose
  BY DEF IInv
<1>2. /\ k' \in [Conns -> Connection] /\ k'[c] = t
      /\ \A d \in Conns \ {c} : k'[d] = k[d]
  BY <1>1, BecomesTypes
<1>3. TypeOK'
  BY <1>1, <1>2 DEF TypeOK
<1>4. \A d \in Conns : Started(d)' <=> Started(d)
  BY DEF Started
<1>5. InOrder(out'[c])
  BY <1>1 DEF NothingAfterClose
<1>6. ConnInv(c)' /\ sessions' = {open'} \ {None}
  BY <1>1 DEF ConnInv, Alive
<1>. QED  BY <1>2, <1>3, <1>4, <1>5, <1>6, StepInv DEF Step

LEMMA FreshConnection == Fresh \in Connection
<1>1. <<>> \in Seq({"close", "fail"})
  OBVIOUS
<1>. QED  BY <1>1 DEF Fresh, Connection

LEMMA SocketConnectedStep ==
  ASSUME IInv, NEW c \in Conns, SocketConnectedCallback(c)
  PROVE  IInv'
<1>. DEFINE t == [Fresh EXCEPT !.session = "http", !.handle = "open", !.reading = "http", !.parser = "ok"]
<1>1. ~crashed /\ TypeOK /\ Alive /\ ConnInv(c)
  BY DEF IInv, SocketConnectedCallback, Alive
<1>2. /\ t \in Connection /\ t.session = "http" /\ t.handle = "open" /\ t.reading = "http"
      /\ t.parser = "ok" /\ t.writes = <<>> /\ t.onClose = "none"
      /\ t.hasCloser = FALSE /\ t.shuttingDown = FALSE
  BY FreshConnection DEF Fresh, Connection
<1>3. k[c].session = "none" /\ k[c].hasCloser = FALSE
  BY DEF SocketConnectedCallback, Fresh
<1>4. /\ Becomes(c, t)
      /\ UNCHANGED <<listening, closer, net, shut, sent, sessions, open, calls, out, hasty, crashed>>
  BY DEF SocketConnectedCallback, clients, delegate
<1>. HIDE DEF t
<1>5. k'[c] = t
  BY <1>1, <1>2, <1>4, BecomesTypes
<1>6. c \notin sessions /\ out[c] = <<>> /\ ~Started(c)
  BY <1>1, <1>3 DEF ConnInv, ConnectedInv, FreshInv, HandshakeInv
<1>7. FreshInv(c)' /\ ReadInv(c)' /\ ConnectedInv(c)'
  <2>1. ~Contains(t.writes, "close")
    BY <1>2 DEF Contains
  <2>. QED  BY <1>2, <1>4, <1>5, <1>6, <2>1 DEF FreshInv, ReadInv, ConnectedInv
<1>8. RefusalInv(c)'
  <2>1. ~Contains(t.writes, "fail")
    BY <1>2 DEF Contains
  <2>. QED  BY <1>2, <1>5, <2>1 DEF RefusalInv
<1>9. HandshakeInv(c)'
  BY <1>4, <1>6 DEF HandshakeInv, Started
<1>10. net' \in [Conns -> Seq(Items)] /\ hasty' \subseteq Conns
  BY <1>1, <1>4 DEF TypeOK
<1>. QED  BY <1>1, <1>2, <1>3, <1>4, <1>7, <1>8, <1>9, <1>10, QuietStep

\* What clients do touches nothing but the network.
LEMMA NetworkStep ==
  ASSUME IInv, TypeOK',
         UNCHANGED <<listening, closer, k, sessions, open, calls, out, hasty, crashed>>
  PROVE  IInv'
<1>1. \A d \in Conns : Started(d)' <=> Started(d)
  BY DEF Started
<1>2. Alive => Alive'
  <2>1. \A d \in Conns : ConnInv(d) => ConnInv(d)'
    BY <1>1, Bystanders
  <2>. QED  BY <2>1 DEF Alive
<1>3. NothingAfterClose' /\ CloserIsNeeded'
  BY CloserKept DEF IInv, NothingAfterClose
<1>4. Overrun' <=> Overrun
  BY DEF Overrun
<1>. QED  BY <1>2, <1>3, <1>4 DEF IInv

LEMMA ClientSendsStep ==
  ASSUME IInv, NEW c \in Conns, NEW kind \in Sends[c], ClientSends(c, kind)
  PROVE  IInv'
<1>1. UNCHANGED <<listening, closer, k, shut, sessions, open, calls, out, hasty, crashed>>
  BY DEF ClientSends, delegate
<1>2. TypeOK /\ sent \in 0 .. MaxItems /\ MaxItems \in Nat
  BY NodeSocketAssumption DEF IInv, TypeOK
<1>3. kind \in Requests \cup Frames
  BY NodeSocketAssumption
<1>4. sent' \in 0 .. MaxItems
  BY <1>2 DEF ClientSends
<1>5. net' \in [Conns -> Seq(Items)]
  <2>1. Append(net[c], kind) \in Seq(Items)
    BY <1>2, <1>3 DEF TypeOK, Items
  <2>. QED  BY <1>2, <2>1 DEF ClientSends, TypeOK
<1>6. TypeOK'
  BY <1>1, <1>2, <1>4, <1>5 DEF TypeOK
<1>. QED  BY <1>1, <1>6, NetworkStep

LEMMA ClientClosesStep ==
  ASSUME IInv, NEW c \in Conns, ClientCloses(c)
  PROVE  IInv'
<1>1. UNCHANGED <<listening, closer, k, net, sent, sessions, open, calls, out, hasty, crashed>>
  BY DEF ClientCloses, delegate
<1>2. TypeOK'
  BY <1>1 DEF ClientCloses, IInv, TypeOK
<1>. QED  BY <1>1, <1>2, NetworkStep

------------------------------------------------------------------------------
(* Requests *)

\* Nothing but refusals is pending before the upgrade: one more is the first,
\* or the connection is hasty.
LEMMA FirstRefusal ==
  ASSUME NEW w \in Seq({"close", "fail"}), ~Contains(w, "close"), ~Contains(w, "fail")
  PROVE  w = <<>> /\ Append(w, "fail") = <<"fail">>
<1>1. w = <<>>
  <2>1. SUFFICES ASSUME w # <<>>
                 PROVE  FALSE
    OBVIOUS
  <2>2. 1 \in 1 .. Len(w) /\ w[1] \in {"close", "fail"}
    BY <2>1
  <2>. QED  BY <2>2 DEF Contains
<1>. QED  BY <1>1

\* An answer: the connection goes on reading requests.
LEMMA AnswerStep ==
  ASSUME IInv, NEW c \in Conns, ReadHttp(c),
         NEW t \in Connection, Becomes(c, t), NEW e \in {"200", "400"}, Writes(c, e),
         UNCHANGED <<sessions, open, calls, crashed>>,
         t.reading = "http", t.handle = "open", t.parser # "none",
         t.session \in {"http", "declined"}, t.hasCloser = k[c].hasCloser,
         t.onClose = k[c].onClose, t.shuttingDown = k[c].shuttingDown,
         \/ t.writes = k[c].writes /\ t.session = k[c].session
         \/ t.writes = Append(k[c].writes, "fail")
  PROVE  IInv'
<1>1. /\ ~crashed /\ Alive /\ TypeOK /\ ConnInv(c)
      /\ k[c] \in Connection /\ k[c].reading = "http" /\ k[c].session \in {"http", "declined"}
      /\ ~Contains(k[c].writes, "close") /\ k[c].parser # "none"
      /\ k[c].onClose = "none" /\ ~k[c].shuttingDown /\ ~k[c].hasCloser
      /\ c \notin sessions /\ out[c] \in Seq({"200", "400"})
      /\ net' \in [Conns -> Seq(Items)]
      /\ hasty \subseteq hasty' /\ hasty' \subseteq Conns
      /\ Contains(k[c].writes, "fail") => c \in hasty'
      /\ UNCHANGED <<listening, closer, shut, sent>>
  BY ReadHttpFacts
<1>2. /\ k' \in [Conns -> Connection] /\ k'[c] = t
      /\ \A d \in Conns \ {c} : k'[d] = k[d]
  BY <1>1, BecomesTypes
<1>3. /\ out' \in [Conns -> Seq(Written)] /\ out'[c] = Append(out[c], e)
      /\ \A d \in Conns \ {c} : out'[d] = out[d]
  BY <1>1, WritesTypes DEF Written
<1>4. out'[c] \in Seq({"200", "400"}) /\ InOrder(out'[c])
  BY <1>1, <1>3, InOrderAnswer
<1>5. TypeOK'
  BY <1>1, <1>2, <1>3 DEF TypeOK, Written
<1>6. \A d \in Conns : Started(d)' <=> Started(d)
  BY DEF Started
<1>7. k[c].writes \in Seq({"close", "fail"})
  BY <1>1 DEF Connection
<1>8. ~Contains(t.writes, "close")
  <2>1. ~Contains(Append(k[c].writes, "fail"), "close")
    BY <1>1, <1>7, ContainsAppend
  <2>2. t.writes = k[c].writes \/ t.writes = Append(k[c].writes, "fail")
    OBVIOUS
  <2>. QED  BY <1>1, <2>1, <2>2
<1>9. FreshInv(c)' /\ ReadInv(c)' /\ ConnectedInv(c)'
  BY <1>1, <1>2, <1>8 DEF FreshInv, ReadInv, ConnectedInv
<1>10. RefusalInv(c)'
  <2>1. CASE t.writes = k[c].writes /\ t.session = k[c].session
    <3>1. k[c].session = "declined" => Contains(k[c].writes, "fail")
      BY <1>1 DEF ConnInv, RefusalInv
    <3>. QED  BY <1>1, <1>2, <2>1, <3>1 DEF RefusalInv
  <2>2. CASE t.writes = Append(k[c].writes, "fail")
    <3>1. Contains(t.writes, "fail")
      BY <1>7, <2>2, ContainsAppend
    <3>2. c \in hasty' \/ t.writes = <<"fail">>
      BY <1>1, <1>7, <2>2, FirstRefusal
    <3>. QED  BY <1>2, <3>1, <3>2 DEF RefusalInv
  <2>. QED  BY <2>1, <2>2
<1>11. HandshakeInv(c)'
  <2>1. ~Started(c)
    BY <1>1 DEF ConnInv, HandshakeInv
  <2>. QED  BY <1>2, <1>4, <1>6, <2>1 DEF HandshakeInv
<1>12. ConnInv(c)' /\ sessions' = {open'} \ {None}
  BY <1>1, <1>9, <1>10, <1>11 DEF ConnInv, Alive
<1>. QED  BY <1>1, <1>2, <1>3, <1>4, <1>5, <1>6, <1>12, StepInv DEF Step

LEMMA RespondToGetStep ==
  ASSUME IInv, NEW c \in Conns, RespondToGet(c)
  PROVE  IInv'
<1>. DEFINE t == [k[c] EXCEPT !.parser = "ok"]
<1>1. /\ ReadHttp(c) /\ Becomes(c, t) /\ Writes(c, "200")
      /\ UNCHANGED <<sessions, open, calls, crashed>>
  BY DEF RespondToGet, delegate
<1>2. /\ k[c] \in Connection /\ k[c].reading = "http" /\ k[c].handle = "open"
      /\ k[c].session \in {"http", "declined"}
  BY <1>1, ReadHttpFacts
<1>3. /\ t \in Connection /\ t.parser = "ok" /\ t.reading = k[c].reading /\ t.handle = k[c].handle
      /\ t.session = k[c].session /\ t.hasCloser = k[c].hasCloser /\ t.writes = k[c].writes
      /\ t.onClose = k[c].onClose /\ t.shuttingDown = k[c].shuttingDown
  BY <1>2 DEF Connection
<1>. HIDE DEF t
<1>. QED  BY <1>1, <1>2, <1>3, AnswerStep

\* What Failed leaves, whatever becomes of the parser and the session.
LEMMA FailedFields ==
  ASSUME NEW s \in Connection
  PROVE  /\ Failed(s) \in Connection
         /\ Failed(s).reading = s.reading /\ Failed(s).handle = s.handle
         /\ Failed(s).session = s.session /\ Failed(s).hasCloser = s.hasCloser
         /\ Failed(s).writes = Append(s.writes, "fail")
         /\ Failed(s).onClose = s.onClose /\ Failed(s).shuttingDown = s.shuttingDown
<1>1. Append(s.writes, "fail") \in Seq({"close", "fail"})
  BY DEF Connection
<1>. QED  BY <1>1 DEF Failed, Connection

LEMMA HandshakeFailedStep ==
  ASSUME IInv, NEW c \in Conns, HandshakeFailed(c)
  PROVE  IInv'
<1>1. PICK p \in {"failed", "stale"} : Becomes(c, [Failed(k[c]) EXCEPT !.parser = p])
  BY DEF HandshakeFailed
<1>. DEFINE s == Failed(k[c])
            t == [s EXCEPT !.parser = p]
<1>2. /\ ReadHttp(c) /\ Writes(c, "400")
      /\ UNCHANGED <<sessions, open, calls, crashed>>
  BY DEF HandshakeFailed, delegate
<1>3. /\ k[c] \in Connection /\ k[c].reading = "http" /\ k[c].handle = "open"
      /\ k[c].session \in {"http", "declined"}
  BY <1>2, ReadHttpFacts
<1>4. /\ s \in Connection /\ s.reading = k[c].reading /\ s.handle = k[c].handle
      /\ s.session = k[c].session /\ s.hasCloser = k[c].hasCloser
      /\ s.writes = Append(k[c].writes, "fail")
      /\ s.onClose = k[c].onClose /\ s.shuttingDown = k[c].shuttingDown
  BY <1>3, FailedFields
<1>5. Becomes(c, t)
  BY <1>1
<1>. HIDE DEF s
<1>6. /\ t \in Connection /\ t.parser = p /\ t.reading = s.reading /\ t.handle = s.handle
      /\ t.session = s.session /\ t.hasCloser = s.hasCloser /\ t.writes = s.writes
      /\ t.onClose = s.onClose /\ t.shuttingDown = s.shuttingDown
  BY <1>4 DEF Connection
<1>. HIDE DEF t
<1>. QED  BY <1>2, <1>3, <1>4, <1>5, <1>6, AnswerStep

LEMMA DeclinedStep ==
  ASSUME IInv, NEW c \in Conns, Declined(c)
  PROVE  IInv'
<1>. DEFINE s == Failed(k[c])
            t == [s EXCEPT !.session = "declined", !.parser = "stale"]
<1>1. /\ ReadHttp(c) /\ Becomes(c, t) /\ Writes(c, "400")
      /\ UNCHANGED <<sessions, open, calls, crashed>>
  BY DEF Declined, delegate
<1>2. k[c] \in Connection /\ k[c].reading = "http" /\ k[c].handle = "open"
  BY <1>1, ReadHttpFacts
<1>3. /\ s \in Connection /\ s.reading = k[c].reading /\ s.handle = k[c].handle
      /\ s.hasCloser = k[c].hasCloser /\ s.writes = Append(k[c].writes, "fail")
      /\ s.onClose = k[c].onClose /\ s.shuttingDown = k[c].shuttingDown
  BY <1>2, FailedFields
<1>. HIDE DEF s
<1>4. /\ t \in Connection /\ t.parser = "stale" /\ t.session = "declined"
      /\ t.reading = s.reading /\ t.handle = s.handle
      /\ t.hasCloser = s.hasCloser /\ t.writes = s.writes
      /\ t.onClose = s.onClose /\ t.shuttingDown = s.shuttingDown
  BY <1>3 DEF Connection
<1>. HIDE DEF t
<1>. QED  BY <1>1, <1>2, <1>3, <1>4, AnswerStep

\* The upgrade.
LEMMA HandshakeCompleteStep ==
  ASSUME IInv, NEW c \in Conns, HandshakeComplete(c)
  PROVE  IInv'
<1>. DEFINE t == [k[c] EXCEPT !.session = "ws", !.reading = "ws", !.parser = "none", !.readCb = TRUE]
<1>1. /\ ReadHttp(c) /\ Becomes(c, t) /\ Writes(c, "101")
      /\ open = None /\ sessions' = sessions \cup {c} /\ open' = c /\ Tell("start", c)
      /\ crashed' = (k[c].session # "http")
  BY DEF HandshakeComplete, SessionStarted
<1>2. /\ ~crashed /\ Alive /\ TypeOK /\ ConnInv(c)
      /\ k[c] \in Connection /\ k[c].reading = "http" /\ k[c].session \in {"http", "declined"}
      /\ k[c].handle = "open" /\ k[c].parser # "none"
      /\ ~Contains(k[c].writes, "close") /\ k[c].onClose = "none"
      /\ ~k[c].shuttingDown /\ ~k[c].hasCloser
      /\ c \notin sessions /\ out[c] \in Seq({"200", "400"})
      /\ net' \in [Conns -> Seq(Items)]
      /\ hasty \subseteq hasty' /\ hasty' \subseteq Conns
      /\ Contains(k[c].writes, "fail") => c \in hasty'
      /\ UNCHANGED <<listening, closer, shut, sent>>
  BY <1>1, ReadHttpFacts
<1>3. /\ t \in Connection /\ t.session = "ws" /\ t.reading = "ws" /\ t.parser = "none"
      /\ t.readCb = TRUE /\ t.handle = k[c].handle /\ t.writes = k[c].writes
      /\ t.hasCloser = k[c].hasCloser /\ t.shuttingDown = k[c].shuttingDown
      /\ t.onClose = k[c].onClose
  BY <1>2 DEF Connection
<1>. HIDE DEF t
<1>4. /\ k' \in [Conns -> Connection] /\ k'[c] = t
      /\ \A d \in Conns \ {c} : k'[d] = k[d]
  BY <1>1, <1>2, <1>3, BecomesTypes
<1>5. /\ out' \in [Conns -> Seq(Written)] /\ out'[c] = Append(out[c], "101")
      /\ \A d \in Conns \ {c} : out'[d] = out[d]
  BY <1>1, <1>2, WritesTypes DEF Written
<1>6. InOrder(out'[c]) /\ Contains(out'[c], "101") /\ ~Contains(out'[c], "close")
  BY <1>2, <1>5, InOrderAnswer
<1>7. /\ calls' \in Seq({"start", "message", "end"} \X Conns)
      /\ \A d \in Conns : Started(d)' <=> Started(d) \/ d = c
  BY <1>1, <1>2, Told DEF TypeOK
<1>8. sessions = {} /\ sessions' = {c} /\ sessions' = {open'} \ {None}
  BY <1>1, <1>2, NodeSocketAssumption DEF Alive
<1>9. TypeOK'
  BY <1>1, <1>2, <1>4, <1>5, <1>7, <1>8 DEF TypeOK, Written
<1>10. ConnInv(c)'
  <2>2. FreshInv(c)' /\ ReadInv(c)' /\ HandshakeInv(c)'
    BY <1>2, <1>3, <1>4, <1>6, <1>8 DEF FreshInv, ReadInv, HandshakeInv
  <2>3. ConnectedInv(c)'
    BY <1>2, <1>3, <1>4, <1>6 DEF ConnectedInv
  <2>4. RefusalInv(c)'
    BY <1>2, <1>3, <1>4 DEF RefusalInv, ConnInv
  <2>. QED  BY <2>2, <2>3, <2>4 DEF ConnInv
<1>11. crashed' => hasty' # {}
  BY <1>1, <1>2 DEF ConnInv, RefusalInv
<1>. QED  BY <1>2, <1>3, <1>4, <1>5, <1>6, <1>7, <1>8, <1>9, <1>10, <1>11, StepInv DEF Step

LEMMA EofInHandshakeStep ==
  ASSUME IInv, NEW c \in Conns, EofInHandshake(c)
  PROVE  IInv'
<1>. DEFINE t == Closing(k[c], "report")
<1>1. /\ ~crashed /\ TypeOK /\ Alive /\ ConnInv(c)
      /\ k[c].reading = "http" /\ Becomes(c, t)
      /\ hasty' = IF Contains(k[c].writes, "fail") THEN hasty \cup {c} ELSE hasty
      /\ UNCHANGED <<listening, closer, net, shut, sent, sessions, open, calls, out, crashed>>
  BY DEF EofInHandshake, IInv, Alive, clients, delegate
<1>2. /\ k[c] \in Connection /\ k[c].handle = "open" /\ k[c].parser # "none"
      /\ k[c].session \in {"http", "declined"}
      /\ c \notin sessions /\ out[c] \in Seq({"200", "400"}) /\ ~Started(c)
  BY <1>1 DEF TypeOK, ConnInv, ReadInv, ConnectedInv, HandshakeInv
<1>3. /\ t \in Connection /\ t.session = k[c].session /\ t.parser = k[c].parser
      /\ t.hasCloser = k[c].hasCloser /\ t.writes = k[c].writes /\ t.reading = "no"
  BY <1>2, ClosingFields
<1>. HIDE DEF t
<1>4. k'[c] = t
  BY <1>1, <1>3, BecomesTypes
<1>5. FreshInv(c)' /\ ReadInv(c)' /\ ConnectedInv(c)' /\ RefusalInv(c)'
  BY <1>1, <1>2, <1>3, <1>4 DEF FreshInv, ReadInv, ConnectedInv, RefusalInv
<1>6. HandshakeInv(c)'
  BY <1>1, <1>2, <1>4 DEF HandshakeInv, Started
<1>7. hasty \subseteq hasty' /\ hasty' \subseteq Conns /\ net' \in [Conns -> Seq(Items)]
  BY <1>1 DEF TypeOK
<1>. QED  BY <1>1, <1>2, <1>3, <1>5, <1>6, <1>7, QuietStep

------------------------------------------------------------------------------
(* Frames *)

\* What is known of a connection whose frames are read.
LEMMA SessionFacts ==
  ASSUME IInv, ~crashed, NEW c \in Conns, k[c].reading = "ws"
  PROVE  /\ TypeOK /\ Alive /\ ConnInv(c) /\ NothingAfterClose
         /\ k[c] \in Connection /\ k[c].handle = "open" /\ k[c].parser = "none"
         /\ k[c].session \in {"ws", "closing"}
         /\ out[c] \in Seq(Written) /\ InOrder(out[c]) /\ Contains(out[c], "101")
         /\ Contains(k[c].writes, "fail") => c \in hasty
         /\ k[c].writes \in Seq({"close", "fail"})
         /\ k[c].readCb => c \in sessions /\ sessions = {c} /\ open = c
<1>1. TypeOK /\ Alive /\ ConnInv(c) /\ NothingAfterClose
  BY DEF IInv, Alive
<1>2. k[c] \in Connection /\ out[c] \in Seq(Written)
  BY <1>1 DEF TypeOK, Written
<1>3. /\ k[c].handle = "open" /\ k[c].parser = "none" /\ k[c].session \in {"ws", "closing"}
      /\ Contains(out[c], "101") /\ (k[c].readCb => c \in sessions)
      /\ Contains(k[c].writes, "fail") => c \in hasty
  BY <1>1 DEF ConnInv, ReadInv, RefusalInv
<1>4. c \in sessions => sessions = {c} /\ open = c
  BY <1>1 DEF Alive
<1>5. InOrder(out[c])
  BY <1>1 DEF NothingAfterClose
<1>6. k[c].writes \in Seq({"close", "fail"})
  BY <1>2 DEF Connection
<1>. QED  BY <1>1, <1>2, <1>3, <1>4, <1>5, <1>6

LEMMA ReadWsFacts ==
  ASSUME IInv, NEW c \in Conns, ReadWs(c) \/ ReadPart(c)
  PROVE  /\ ~crashed /\ k[c].reading = "ws"
         /\ net' \in [Conns -> Seq(Items)]
         /\ UNCHANGED <<listening, closer, shut, sent, hasty>>
<1>1. net[c] \in Seq(Items) /\ net[c] # <<>> /\ TypeOK
  BY DEF ReadWs, ReadPart, IInv, TypeOK
<1>2. /\ Tail(net[c]) \in Seq(Items)
      /\ \A n \in 2 .. Len(net[c]) : SubSeq(net[c], n + 1, Len(net[c])) \in Seq(Items)
  BY <1>1
<1>3. <<"rest">> \o Tail(net[c]) \in Seq(Items)
  <2>1. <<"rest">> \in Seq(Items)
    BY DEF Items
  <2>. QED  BY <1>2, <2>1
<1>4. \E left \in Seq(Items) : net' = [net EXCEPT ![c] = left]
  <2>1. CASE ReadWs(c)
    BY <1>2, <2>1 DEF ReadWs
  <2>2. CASE ReadPart(c)
    BY <1>3, <2>2 DEF ReadPart
  <2>. QED  BY <2>1, <2>2
<1>5. net' \in [Conns -> Seq(Items)]
  BY <1>1, <1>4 DEF TypeOK
<1>. QED  BY <1>5 DEF ReadWs, ReadPart

\* The end of a session: its data has ended, or has been found to.
LEMMA EndStep ==
  ASSUME IInv, ~crashed, NEW c \in Conns, k[c].reading = "ws", k[c].readCb,
         NEW s \in Connection, s.session = k[c].session, s.hasCloser = k[c].hasCloser,
         s.handle = k[c].handle, s.shuttingDown = k[c].shuttingDown,
         NEW then \in Connection, NEW frames \in {<<>>, <<"close">>},
         EndOfData(c, s, then, frames),
         then.session = "closing", then.parser = "none", then.hasCloser = k[c].hasCloser,
         then.onClose \in {k[c].onClose, "dispose"},
         then.reading = "no" \/ (then.reading = "ws" /\ then.handle = "open" /\ ~then.readCb),
         Contains(then.writes, "fail") => Contains(k[c].writes, "fail"),
         net' \in [Conns -> Seq(Items)],
         UNCHANGED <<listening, closer, shut, sent, hasty>>
  PROVE  IInv'
<1>1. /\ TypeOK /\ Alive /\ ConnInv(c)
      /\ k[c].handle = "open" /\ k[c].parser = "none" /\ k[c].session \in {"ws", "closing"}
      /\ out[c] \in Seq(Written) /\ InOrder(out[c]) /\ Contains(out[c], "101")
      /\ Contains(k[c].writes, "fail") => c \in hasty
      /\ c \in sessions /\ sessions = {c} /\ open = c
  BY SessionFacts
<1>2. sessions' = {} /\ open' = None /\ Tell("end", c)
  BY <1>1 DEF EndOfData, SessionTerminated
<1>3. /\ calls' \in Seq({"start", "message", "end"} \X Conns)
      /\ \A d \in Conns : Started(d)' <=> Started(d)
  BY <1>1, <1>2, Told DEF TypeOK
<1>4. /\ k' \in [Conns -> Connection] /\ k'[c] = then
      /\ \A d \in Conns \ {c} : k'[d] = k[d]
  BY <1>1, BecomesTypes DEF EndOfData
<1>5. CloseFrames(s) \in {<<>>, <<"close">>}
  BY DEF CloseFrames
<1>6. /\ out' \in [Conns -> Seq(Written)] /\ InOrder(out'[c]) /\ Contains(out'[c], "101")
      /\ \A d \in Conns \ {c} : out'[d] = out[d]
  <2>. DEFINE u == out[c] \o CloseFrames(s) \o frames
  <2>1. u \in Seq(Written) /\ InOrder(u) /\ Contains(u, "101")
    BY <1>1, <1>5, InOrderCloses
  <2>2. out' = [out EXCEPT ![c] = u]
    BY DEF EndOfData
  <2>. HIDE DEF u
  <2>. QED  BY <1>1, <2>1, <2>2 DEF TypeOK, Written
<1>7. crashed' = (then.buf = "overrun")
  BY <1>1 DEF EndOfData, MayClose, ConnInv, ConnectedInv
<1>8. TypeOK'
  BY <1>1, <1>2, <1>3, <1>4, <1>6, <1>7 DEF TypeOK, Written
<1>9. FreshInv(c)' /\ ReadInv(c)' /\ ConnectedInv(c)' /\ HandshakeInv(c)'
  BY <1>2, <1>4, <1>6 DEF FreshInv, ReadInv, ConnectedInv, HandshakeInv
<1>10. RefusalInv(c)'
  BY <1>1, <1>4 DEF RefusalInv, ConnInv
<1>11. ConnInv(c)' /\ sessions' = {open'} \ {None}
  BY <1>2, <1>9, <1>10 DEF ConnInv
<1>12. crashed' => Overrun'
  BY <1>4, <1>7 DEF Overrun
<1>. QED  BY <1>1, <1>2, <1>3, <1>4, <1>6, <1>8, <1>11, <1>12, StepInv DEF Step

\* A frame that leaves its connection where it was: only the buffer changes.
LEMMA BufferStep ==
  ASSUME IInv, ~crashed, NEW c \in Conns, k[c].reading = "ws",
         NEW x \in Frames \cup {"none", "stuck", "overrun"}, Becomes(c, [k[c] EXCEPT !.buf = x]),
         net' \in [Conns -> Seq(Items)],
         UNCHANGED <<listening, closer, shut, sent, hasty, sessions, open, out>>,
         Tell("message", c) \/ UNCHANGED calls,
         crashed' \in BOOLEAN, crashed' => x = "overrun"
  PROVE  IInv'
<1>. DEFINE t == [k[c] EXCEPT !.buf = x]
<1>1. /\ TypeOK /\ Alive /\ ConnInv(c) /\ k[c] \in Connection /\ InOrder(out[c])
      /\ k[c].session \in {"ws", "closing"}
  BY SessionFacts
<1>2. /\ t \in Connection /\ t.buf = x
      /\ t.session = k[c].session /\ t.handle = k[c].handle /\ t.onClose = k[c].onClose
      /\ t.reading = k[c].reading /\ t.parser = k[c].parser /\ t.readCb = k[c].readCb
      /\ t.shuttingDown = k[c].shuttingDown /\ t.hasCloser = k[c].hasCloser
      /\ t.writes = k[c].writes
  BY <1>1 DEF Connection
<1>. HIDE DEF t
<1>3. /\ k' \in [Conns -> Connection] /\ k'[c] = t
      /\ \A d \in Conns \ {c} : k'[d] = k[d]
  BY <1>1, <1>2, BecomesTypes DEF t
<1>4. /\ calls' \in Seq({"start", "message", "end"} \X Conns)
      /\ \A d \in Conns : Started(d)' <=> Started(d)
  <2>1. CASE Tell("message", c)
    BY <1>1, <2>1, Told DEF TypeOK
  <2>2. CASE UNCHANGED calls
    BY <1>1, <2>2 DEF TypeOK, Started
  <2>. QED  BY <2>1, <2>2
<1>5. TypeOK'
  BY <1>1, <1>3, <1>4 DEF TypeOK
<1>6. FreshInv(c)' /\ ReadInv(c)' /\ ConnectedInv(c)' /\ RefusalInv(c)' /\ HandshakeInv(c)'
  BY <1>1, <1>2, <1>3, <1>4
     DEF ConnInv, FreshInv, ReadInv, ConnectedInv, RefusalInv, HandshakeInv
<1>7. ConnInv(c)' /\ sessions' = {open'} \ {None}
  BY <1>1, <1>6 DEF ConnInv, Alive
<1>8. crashed' => Overrun'
  BY <1>2, <1>3 DEF Overrun
<1>9. k'[c].hasCloser = k[c].hasCloser /\ k'[c].session # "gone" /\ k[c].session # "gone"
  BY <1>1, <1>2, <1>3
<1>. QED  BY <1>1, <1>3, <1>4, <1>5, <1>7, <1>8, <1>9, StepInv DEF Step

LEMMA PartOfFrameStep ==
  ASSUME IInv, NEW c \in Conns, PartOfFrame(c)
  PROVE  IInv'
<1>1. /\ ~crashed /\ k[c].reading = "ws"
      /\ net' \in [Conns -> Seq(Items)]
      /\ UNCHANGED <<listening, closer, shut, sent, hasty>>
      /\ UNCHANGED <<sessions, open, calls, out, crashed>>
      /\ Becomes(c, [k[c] EXCEPT !.buf = Kind(c)])
  BY ReadWsFacts DEF PartOfFrame, delegate
<1>2. Kind(c) \in Frames
  <2>1. k[c].buf = "none" /\ Head(net[c]) # "rest" /\ net[c] # <<>> /\ net[c] \in Seq(Items)
    BY DEF PartOfFrame, ReadPart, IInv, TypeOK
  <2>2. Head(net[c]) \in Requests \cup Frames
    BY <2>1 DEF Items
  <2>. QED  BY <2>1, <2>2 DEF Kind, Frames
<1>3. crashed \in BOOLEAN
  BY DEF IInv, TypeOK
<1>. QED  BY <1>1, <1>2, <1>3, BufferStep

LEMMA TextFrameStep ==
  ASSUME IInv, NEW c \in Conns, TextFrame(c)
  PROVE  IInv'
<1>1. /\ ~crashed /\ k[c].reading = "ws"
      /\ net' \in [Conns -> Seq(Items)]
      /\ UNCHANGED <<listening, closer, shut, sent, hasty>>
      /\ UNCHANGED <<sessions, open, out, crashed>>
      /\ Becomes(c, [k[c] EXCEPT !.buf = "none"])
      /\ Tell("message", c) \/ UNCHANGED calls
  BY ReadWsFacts DEF TextFrame
<1>2. crashed \in BOOLEAN
  BY DEF IInv, TypeOK
<1>. QED  BY <1>1, <1>2, BufferStep

LEMMA CutTextFrameStep ==
  ASSUME IInv, NEW c \in Conns, CutTextFrame(c)
  PROVE  IInv'
<1>1. /\ ~crashed /\ k[c].reading = "ws"
      /\ net' \in [Conns -> Seq(Items)]
      /\ UNCHANGED <<listening, closer, shut, sent, hasty>>
      /\ UNCHANGED <<sessions, open, out>>
      /\ Becomes(c, [k[c] EXCEPT !.buf = "overrun"])
      /\ Tell("message", c) \/ UNCHANGED calls
      /\ crashed' = TRUE
  BY ReadWsFacts DEF CutTextFrame
<1>. QED  BY <1>1, BufferStep

LEMMA EmptyFrameStep ==
  ASSUME IInv, NEW c \in Conns, EmptyFrame(c)
  PROVE  IInv'
<1>0. PICK left \in {"none", "overrun"} :
        /\ IF left = "none" THEN ReadWs(c) ELSE ReadPart(c)
        /\ k[c].readCb
        /\ EndOfData(c, k[c], [inspector_close(k[c]) EXCEPT !.buf = left], <<>>)
  BY DEF EmptyFrame
<1>. DEFINE s == inspector_close(k[c])
            t == [s EXCEPT !.buf = left]
<1>1. /\ ~crashed /\ k[c].reading = "ws" /\ k[c].readCb
      /\ net' \in [Conns -> Seq(Items)]
      /\ UNCHANGED <<listening, closer, shut, sent, hasty>>
      /\ EndOfData(c, k[c], t, <<>>)
  BY <1>0, ReadWsFacts
<1>2. /\ k[c] \in Connection /\ k[c].handle = "open" /\ k[c].parser = "none"
      /\ k[c].writes \in Seq({"close", "fail"})
  BY <1>1, SessionFacts
<1>3. /\ t \in Connection /\ t.session = "closing" /\ t.parser = k[c].parser
      /\ t.hasCloser = k[c].hasCloser
      /\ t.writes \in {k[c].writes, Append(k[c].writes, "close")}
      /\ t.onClose \in {k[c].onClose, "dispose"}
      /\ t.reading = "no" \/ (t.reading = "ws" /\ t.handle = "open" /\ ~t.readCb)
  <2>1. /\ s \in Connection /\ s.session = "closing" /\ s.parser = k[c].parser
        /\ s.hasCloser = k[c].hasCloser
        /\ s.writes \in {k[c].writes, Append(k[c].writes, "close")}
        /\ s.onClose \in {k[c].onClose, "dispose"}
        /\ s.reading = "no" \/ (s.reading = "ws" /\ s.handle = "open" /\ ~s.readCb)
    BY <1>2, InspectorCloseFields
  <2>. HIDE DEF s
  <2>2. /\ t \in Connection /\ t.session = s.session /\ t.parser = s.parser
        /\ t.hasCloser = s.hasCloser /\ t.writes = s.writes /\ t.onClose = s.onClose
        /\ t.reading = s.reading /\ t.handle = s.handle /\ t.readCb = s.readCb
    BY <2>1 DEF Connection
  <2>. HIDE DEF t
  <2>. QED  BY <2>1, <2>2
<1>. HIDE DEF t, s
<1>4. Contains(t.writes, "fail") => Contains(k[c].writes, "fail")
  BY <1>2, <1>3, CloseWritten
<1>. QED  BY <1>1, <1>2, <1>3, <1>4, EndStep

LEMMA BadFrameStep ==
  ASSUME IInv, NEW c \in Conns, BadFrame(c)
  PROVE  IInv'
<1>1. /\ ~crashed /\ k[c].reading = "ws"
      /\ net' \in [Conns -> Seq(Items)]
      /\ UNCHANGED <<listening, closer, shut, sent, hasty>>
  BY ReadWsFacts DEF BadFrame
<1>2. /\ TypeOK /\ Alive /\ ConnInv(c)
      /\ k[c] \in Connection /\ k[c].handle = "open" /\ k[c].parser = "none"
      /\ k[c].session \in {"ws", "closing"}
      /\ Contains(k[c].writes, "fail") => c \in hasty
      /\ k[c].writes \in Seq({"close", "fail"})
      /\ k[c].readCb => c \in sessions
  BY <1>1, SessionFacts
<1>3. CASE k[c].readCb
  <2>. DEFINE s == inspector_close(k[c])
              t == Closing(s, "dispose")
  <2>1. EndOfData(c, k[c], t, <<>>)
    BY <1>3 DEF BadFrame
  <2>2. /\ s \in Connection /\ s.session = "closing" /\ s.parser = k[c].parser
        /\ s.hasCloser = k[c].hasCloser
        /\ s.writes \in {k[c].writes, Append(k[c].writes, "close")}
        /\ s.onClose \in {k[c].onClose, "dispose"}
        /\ s.reading = "no" \/ (s.reading = "ws" /\ s.handle = "open" /\ ~s.readCb)
    BY <1>2, InspectorCloseFields
  <2>3. Contains(s.writes, "fail") => Contains(k[c].writes, "fail")
    BY <1>2, <2>2, CloseWritten
  <2>. HIDE DEF s
  <2>4. /\ t \in Connection /\ t.session = s.session /\ t.parser = s.parser
        /\ t.hasCloser = s.hasCloser /\ t.writes = s.writes
        /\ t.onClose \in {s.onClose, "dispose"} /\ t.reading = "no"
    BY <2>2, ClosingFields
  <2>. HIDE DEF t
  <2>. QED  BY <1>1, <1>2, <1>3, <2>1, <2>2, <2>3, <2>4, EndStep
<1>4. CASE ~k[c].readCb
  <2>. DEFINE t == Closing(k[c], "dispose")
  <2>1. Becomes(c, t) /\ UNCHANGED <<sessions, open, calls, out, crashed>>
    BY <1>4 DEF BadFrame, delegate
  <2>2. /\ t \in Connection /\ t.session = k[c].session /\ t.parser = k[c].parser
        /\ t.hasCloser = k[c].hasCloser /\ t.writes = k[c].writes /\ t.reading = "no"
        /\ t.onClose \in {k[c].onClose, "dispose"}
    BY <1>2, ClosingFields
  <2>. HIDE DEF t
  <2>3. k'[c] = t
    BY <1>2, <2>1, <2>2, BecomesTypes
  <2>4. c \notin sessions
    BY <1>2, <1>4 DEF ConnInv, ConnectedInv
  <2>5. FreshInv(c)' /\ ReadInv(c)' /\ ConnectedInv(c)' /\ RefusalInv(c)'
    BY <1>1, <1>2, <2>1, <2>2, <2>3, <2>4 DEF FreshInv, ReadInv, ConnectedInv, RefusalInv, ConnInv
  <2>6. HandshakeInv(c)'
    BY <1>2, <2>1, <2>2, <2>3 DEF HandshakeInv, Started
  <2>. QED  BY <1>1, <1>2, <2>1, <2>2, <2>5, <2>6, QuietStep DEF TypeOK
<1>. QED  BY <1>3, <1>4

LEMMA CloseFrameStep ==
  ASSUME IInv, NEW c \in Conns, CloseFrame(c)
  PROVE  IInv'
<1>. DEFINE met      == [k[c] EXCEPT !.receivedClose = TRUE, !.buf = "stuck"]
            Reply(s) == [s EXCEPT !.writes = Append(@, "close")]
<1>1. /\ ~crashed /\ k[c].reading = "ws"
      /\ net' \in [Conns -> Seq(Items)]
      /\ UNCHANGED <<listening, closer, shut, sent, hasty>>
  BY ReadWsFacts DEF CloseFrame
<1>2. /\ TypeOK /\ Alive /\ ConnInv(c)
      /\ k[c] \in Connection /\ k[c].handle = "open" /\ k[c].parser = "none"
      /\ k[c].session \in {"ws", "closing"}
      /\ out[c] \in Seq(Written) /\ InOrder(out[c]) /\ Contains(out[c], "101")
      /\ Contains(k[c].writes, "fail") => c \in hasty
      /\ k[c].writes \in Seq({"close", "fail"})
      /\ k[c].readCb => c \in sessions
  BY <1>1, SessionFacts
<1>3. /\ k[c].readCb => EndOfData(c, k[c], Reply(inspector_close(met)), <<"close">>)
      /\ ~k[c].readCb =>
           /\ IF k[c].closeSent THEN Becomes(c, Closing(met, "dispose")) /\ UNCHANGED out
              ELSE Becomes(c, Reply(met)) /\ Writes(c, "close")
           /\ UNCHANGED <<sessions, open, calls, crashed>>
  BY DEF CloseFrame, delegate
<1>4. /\ met \in Connection /\ met.session = k[c].session /\ met.parser = k[c].parser
      /\ met.hasCloser = k[c].hasCloser /\ met.writes = k[c].writes
      /\ met.onClose = k[c].onClose /\ met.handle = k[c].handle /\ met.reading = k[c].reading
      /\ met.readCb = k[c].readCb
  BY <1>2 DEF Connection
<1>. HIDE DEF met
<1>5. ASSUME NEW s \in Connection
      PROVE  /\ Reply(s) \in Connection /\ Reply(s).session = s.session /\ Reply(s).parser = s.parser
             /\ Reply(s).hasCloser = s.hasCloser /\ Reply(s).writes = Append(s.writes, "close")
             /\ Reply(s).onClose = s.onClose /\ Reply(s).handle = s.handle
             /\ Reply(s).reading = s.reading /\ Reply(s).readCb = s.readCb
             /\ Contains(Reply(s).writes, "fail") <=> Contains(s.writes, "fail")
  <2>1. s.writes \in Seq({"close", "fail"})
    BY DEF Connection
  <2>2. /\ Append(s.writes, "close") \in Seq({"close", "fail"})
        /\ Contains(Append(s.writes, "close"), "fail") <=> Contains(s.writes, "fail")
    BY <2>1, CloseWritten
  <2>. QED  BY <2>2 DEF Connection
<1>. HIDE DEF Reply
<1>6. CASE k[c].readCb
  <2>. DEFINE s == inspector_close(met)
              t == Reply(s)
  <2>1. /\ s \in Connection /\ s.session = "closing" /\ s.parser = met.parser
        /\ s.hasCloser = met.hasCloser
        /\ s.writes \in {met.writes, Append(met.writes, "close")}
        /\ s.onClose \in {met.onClose, "dispose"}
        /\ s.reading = "no" \/ (s.reading = "ws" /\ s.handle = "open" /\ ~s.readCb)
    BY <1>2, <1>4, InspectorCloseFields
  <2>2. Contains(s.writes, "fail") => Contains(k[c].writes, "fail")
    <3>1. s.writes \in {k[c].writes, Append(k[c].writes, "close")}
      BY <1>4, <2>1
    <3>. QED  BY <1>2, <3>1, CloseWritten
  <2>3. EndOfData(c, k[c], t, <<"close">>)
    BY <1>3, <1>6
  <2>. HIDE DEF s
  <2>4. /\ t \in Connection /\ t.session = s.session /\ t.parser = s.parser
        /\ t.hasCloser = s.hasCloser /\ t.onClose = s.onClose /\ t.handle = s.handle
        /\ t.reading = s.reading /\ t.readCb = s.readCb
        /\ Contains(t.writes, "fail") <=> Contains(s.writes, "fail")
    BY <1>5, <2>1
  <2>. HIDE DEF t
  <2>. QED  BY <1>1, <1>2, <1>4, <1>6, <2>1, <2>2, <2>3, <2>4, EndStep, ZenonT(40)
<1>7. ASSUME ~k[c].readCb
      PROVE  c \notin sessions
  BY <1>2, <1>7 DEF ConnInv, ConnectedInv
<1>8. CASE ~k[c].readCb /\ k[c].closeSent
  <2>. DEFINE t == Closing(met, "dispose")
  <2>1. Becomes(c, t) /\ UNCHANGED <<sessions, open, calls, out, crashed>>
    BY <1>3, <1>8
  <2>2. /\ t \in Connection /\ t.session = k[c].session /\ t.parser = k[c].parser
        /\ t.hasCloser = k[c].hasCloser /\ t.writes = k[c].writes /\ t.reading = "no"
        /\ t.onClose \in {k[c].onClose, "dispose"}
    BY <1>2, <1>4, ClosingFields
  <2>. HIDE DEF t
  <2>3. k'[c] = t
    BY <1>2, <2>1, <2>2, BecomesTypes
  <2>4. FreshInv(c)' /\ ReadInv(c)' /\ ConnectedInv(c)' /\ RefusalInv(c)'
    BY <1>1, <1>2, <1>7, <1>8, <2>1, <2>2, <2>3
       DEF FreshInv, ReadInv, ConnectedInv, RefusalInv, ConnInv
  <2>5. HandshakeInv(c)'
    BY <1>2, <2>1, <2>2, <2>3 DEF HandshakeInv, Started
  <2>. QED  BY <1>1, <1>2, <2>1, <2>2, <2>4, <2>5, QuietStep DEF TypeOK
<1>9. CASE ~k[c].readCb /\ ~k[c].closeSent
  <2>. DEFINE t == Reply(met)
  <2>1. Becomes(c, t) /\ Writes(c, "close") /\ UNCHANGED <<sessions, open, calls, crashed>>
    BY <1>3, <1>9
  <2>2. /\ t \in Connection /\ t.session = k[c].session /\ t.parser = k[c].parser
        /\ t.hasCloser = k[c].hasCloser /\ t.reading = "ws" /\ t.handle = "open"
        /\ t.onClose = k[c].onClose /\ ~t.readCb
        /\ Contains(t.writes, "fail") <=> Contains(k[c].writes, "fail")
    BY <1>1, <1>2, <1>4, <1>5, <1>9
  <2>. HIDE DEF t
  <2>3. /\ k' \in [Conns -> Connection] /\ k'[c] = t
        /\ \A d \in Conns \ {c} : k'[d] = k[d]
    BY <1>2, <2>1, <2>2, BecomesTypes
  <2>4. /\ out' \in [Conns -> Seq(Written)] /\ out'[c] = Append(out[c], "close")
        /\ \A d \in Conns \ {c} : out'[d] = out[d]
    BY <1>2, <2>1, WritesTypes DEF Written
  <2>5. InOrder(out'[c]) /\ Contains(out'[c], "101")
    BY <1>2, <2>4, InOrderClose
  <2>6. TypeOK'
    BY <1>1, <1>2, <2>1, <2>3, <2>4 DEF TypeOK, Written
  <2>7. \A d \in Conns : Started(d)' <=> Started(d)
    BY <2>1 DEF Started
  <2>8. FreshInv(c)' /\ ReadInv(c)' /\ ConnectedInv(c)' /\ HandshakeInv(c)'
    BY <1>2, <1>7, <1>9, <2>1, <2>2, <2>3, <2>5
       DEF FreshInv, ReadInv, ConnectedInv, HandshakeInv
  <2>9. RefusalInv(c)'
    BY <1>1, <1>2, <2>2, <2>3 DEF RefusalInv, ConnInv
  <2>10. ConnInv(c)' /\ sessions' = {open'} \ {None}
    BY <1>2, <2>1, <2>8, <2>9 DEF ConnInv, Alive
  <2>. QED  BY <1>1, <1>2, <2>1, <2>2, <2>3, <2>4, <2>5, <2>6, <2>7, <2>10, StepInv DEF Step
<1>. QED  BY <1>6, <1>8, <1>9

LEMMA EofInSessionStep ==
  ASSUME IInv, NEW c \in Conns, EofInSession(c)
  PROVE  IInv'
<1>. DEFINE met == [k[c] EXCEPT !.eof = TRUE, !.reading = "no"]
<1>1. /\ ~crashed /\ k[c].reading = "ws"
      /\ UNCHANGED <<listening, closer, net, shut, sent, hasty>>
      /\ IF ~k[c].shuttingDown /\ k[c].readCb
           THEN EndOfData(c, met, inspector_close(met), <<>>)
           ELSE Becomes(c, met) /\ UNCHANGED <<sessions, open, calls, out, crashed>>
  BY DEF EofInSession, clients, delegate
<1>2. /\ TypeOK /\ Alive /\ ConnInv(c)
      /\ k[c] \in Connection /\ k[c].handle = "open" /\ k[c].parser = "none"
      /\ k[c].session \in {"ws", "closing"}
      /\ Contains(k[c].writes, "fail") => c \in hasty
      /\ k[c].writes \in Seq({"close", "fail"})
      /\ k[c].readCb => c \in sessions
  BY <1>1, SessionFacts
<1>3. /\ met \in Connection /\ met.session = k[c].session /\ met.parser = k[c].parser
      /\ met.hasCloser = k[c].hasCloser /\ met.writes = k[c].writes
      /\ met.onClose = k[c].onClose /\ met.handle = k[c].handle /\ met.reading = "no"
      /\ met.readCb = k[c].readCb /\ met.shuttingDown = k[c].shuttingDown
  BY <1>2 DEF Connection
<1>4. net' \in [Conns -> Seq(Items)] /\ hasty' \subseteq Conns
  BY <1>1, <1>2 DEF TypeOK
<1>. HIDE DEF met
<1>5. CASE ~k[c].shuttingDown /\ k[c].readCb
  <2>. DEFINE t == inspector_close(met)
  <2>1. EndOfData(c, met, t, <<>>)
    BY <1>1, <1>5
  <2>2. /\ t \in Connection /\ t.session = "closing" /\ t.parser = met.parser
        /\ t.hasCloser = met.hasCloser
        /\ t.writes \in {met.writes, Append(met.writes, "close")}
        /\ t.onClose \in {met.onClose, "dispose"}
        /\ t.reading = "no" \/ (t.reading = "ws" /\ t.handle = "open" /\ ~t.readCb)
    BY <1>2, <1>3, InspectorCloseFields
  <2>3. Contains(t.writes, "fail") => Contains(k[c].writes, "fail")
    <3>1. t.writes \in {k[c].writes, Append(k[c].writes, "close")}
      BY <1>3, <2>2
    <3>. QED  BY <1>2, <3>1, CloseWritten
  <2>. HIDE DEF t
  <2>. QED  BY <1>1, <1>2, <1>3, <1>4, <1>5, <2>1, <2>2, <2>3, EndStep
<1>6. CASE ~(~k[c].shuttingDown /\ k[c].readCb)
  <2>1. Becomes(c, met) /\ UNCHANGED <<sessions, open, calls, out, crashed>>
    BY <1>1, <1>6
  <2>2. k'[c] = met
    BY <1>2, <1>3, <2>1, BecomesTypes
  <2>3. c \notin sessions
    BY <1>2, <1>6 DEF ConnInv, ConnectedInv
  <2>4. FreshInv(c)' /\ ReadInv(c)' /\ ConnectedInv(c)' /\ RefusalInv(c)'
    BY <1>1, <1>2, <1>3, <2>1, <2>2, <2>3
       DEF FreshInv, ReadInv, ConnectedInv, RefusalInv, ConnInv
  <2>5. HandshakeInv(c)'
    BY <1>2, <1>3, <2>1, <2>2 DEF HandshakeInv, Started
  <2>. QED  BY <1>1, <1>2, <1>3, <1>4, <2>1, <2>4, <2>5, QuietStep
<1>. QED  BY <1>5, <1>6

\* A message of the agent's: to a session that is connected.
LEMMA SendStep ==
  ASSUME IInv, NEW c \in Conns, Send(c)
  PROVE  IInv'
<1>1. /\ ~crashed /\ c \in sessions /\ Writes(c, "message")
      /\ UNCHANGED <<listening, closer, k, net, shut, sent, sessions, open, calls, hasty, crashed>>
  BY DEF Send, clients, delegate
<1>2. TypeOK /\ Alive /\ ConnInv(c) /\ NothingAfterClose
  BY <1>1 DEF IInv, Alive
<1>3. /\ k[c].session = "ws" /\ k[c].parser = "none"
      /\ Contains(out[c], "101") /\ ~Contains(out[c], "close")
  BY <1>1, <1>2 DEF ConnInv, ConnectedInv
<1>4. out[c] \in Seq(Written) /\ InOrder(out[c])
  BY <1>2 DEF TypeOK, NothingAfterClose, Written
<1>5. /\ out' \in [Conns -> Seq(Written)] /\ out'[c] = Append(out[c], "message")
      /\ \A d \in Conns \ {c} : out'[d] = out[d]
  BY <1>1, <1>2, WritesTypes DEF Written
<1>6. InOrder(out'[c])
  BY <1>3, <1>4, <1>5, InOrderAppend DEF Written
<1>7. Contains(out'[c], "101") /\ ~Contains(out'[c], "close")
  BY <1>3, <1>4, <1>5, ContainsAppend DEF Written
<1>8. TypeOK'
  BY <1>1, <1>2, <1>5 DEF TypeOK, Written
<1>9. \A d \in Conns : Started(d)' <=> Started(d)
  BY <1>1 DEF Started
<1>10. FreshInv(c)' /\ ReadInv(c)' /\ ConnectedInv(c)' /\ HandshakeInv(c)'
  BY <1>1, <1>2, <1>3, <1>7, <1>9
     DEF ConnInv, FreshInv, ReadInv, ConnectedInv, HandshakeInv
<1>11. RefusalInv(c)'
  BY <1>1, <1>2 DEF ConnInv, RefusalInv
<1>. QED  BY <1>1, <1>2, <1>3, <1>5, <1>6, <1>8, <1>9, <1>10, <1>11, StepInv DEF Step, Alive, ConnInv

------------------------------------------------------------------------------
(* Completions *)

\* A write is done.  The last refusal closes the connection; a close frame
\* does when the client's has come.
LEMMA WriteDoneStep ==
  ASSUME IInv, NEW c \in Conns, WriteDone(c)
  PROVE  IInv'
<1>. DEFINE s == [k[c] EXCEPT !.writes = Tail(@)]
            r == [s EXCEPT !.closeSent = TRUE]
<1>1. /\ ~crashed /\ k[c].handle = "open" /\ k[c].writes # <<>>
      /\ UNCHANGED <<listening, closer, net, shut, sent, sessions, open, calls, out, hasty, crashed>>
  BY DEF WriteDone, clients, delegate
<1>2. TypeOK /\ Alive /\ ConnInv(c) /\ k[c] \in Connection
  BY <1>1 DEF IInv, Alive, TypeOK
<1>3. /\ k[c].writes \in Seq({"close", "fail"}) /\ Head(k[c].writes) = k[c].writes[1]
      /\ Tail(k[c].writes) \in Seq({"close", "fail"})
      /\ Head(k[c].writes) \in {"close", "fail"}
      /\ \A x : Contains(Tail(k[c].writes), x) => Contains(k[c].writes, x)
      /\ Contains(k[c].writes, Head(k[c].writes))
      /\ k[c].writes = <<"fail">> => Tail(k[c].writes) = <<>>
  <2>. DEFINE w == k[c].writes
  <2>1. w \in Seq({"close", "fail"}) /\ w # <<>>
    BY <1>1, <1>2 DEF Connection
  <2>. HIDE DEF w
  <2>2. /\ Len(w) \in Nat \ {0} /\ Head(w) = w[1] /\ Head(w) \in {"close", "fail"}
        /\ Tail(w) \in Seq({"close", "fail"}) /\ Len(Tail(w)) = Len(w) - 1
        /\ \A i \in 1 .. Len(w) - 1 : Tail(w)[i] = w[i + 1]
    BY <2>1
  <2>3. \A i \in 1 .. Len(w) - 1 : i + 1 \in 1 .. Len(w)
    BY <2>2
  <2>4. 1 \in 1 .. Len(w)
    BY <2>2
  <2>5. \A x : Contains(Tail(w), x) => Contains(w, x)
    BY <2>2, <2>3 DEF Contains
  <2>6. Contains(w, Head(w))
    BY <2>2, <2>4 DEF Contains
  <2>7. w = <<"fail">> => Tail(w) = <<>>
    OBVIOUS
  <2>. QED  BY <2>1, <2>2, <2>5, <2>6, <2>7 DEF w
<1>4. /\ s \in Connection /\ s.session = k[c].session /\ s.parser = k[c].parser
      /\ s.hasCloser = k[c].hasCloser /\ s.writes = Tail(k[c].writes)
      /\ s.onClose = k[c].onClose /\ s.handle = "open" /\ s.reading = k[c].reading
      /\ s.readCb = k[c].readCb /\ s.shuttingDown = k[c].shuttingDown
  BY <1>1, <1>2, <1>3 DEF Connection
<1>5. PICK t : /\ Becomes(c, t)
               /\ \/ Head(k[c].writes) = "fail" /\ t = Closing(s, "report")
                  \/ Head(k[c].writes) = "close" /\ t \in {Closing(r, "dispose"), r}
  <2>1. CASE Head(k[c].writes) = "fail"
    BY <2>1 DEF WriteDone
  <2>2. CASE Head(k[c].writes) = "close"
    BY <2>2 DEF WriteDone
  <2>. QED  BY <1>3, <2>1, <2>2
<1>. HIDE DEF s
<1>6. /\ r \in Connection /\ r.session = k[c].session /\ r.parser = k[c].parser
      /\ r.hasCloser = k[c].hasCloser /\ r.writes = Tail(k[c].writes)
      /\ r.onClose = k[c].onClose /\ r.handle = "open" /\ r.reading = k[c].reading
      /\ r.readCb = k[c].readCb /\ r.shuttingDown = k[c].shuttingDown
  BY <1>4 DEF Connection
<1>. HIDE DEF r
<1>7. /\ t \in Connection /\ t.session = k[c].session /\ t.parser = k[c].parser
      /\ t.hasCloser = k[c].hasCloser /\ t.writes = Tail(k[c].writes)
      /\ t.readCb = k[c].readCb /\ t.shuttingDown = k[c].shuttingDown
      /\ \/ /\ Head(k[c].writes) = "fail" /\ t.reading = "no"
            /\ t.onClose = "report" /\ t.handle = "closing"
         \/ /\ Head(k[c].writes) = "close" /\ t.onClose \in {k[c].onClose, "dispose"}
            /\ t.reading = "no" \/ (t.reading = k[c].reading /\ t.handle = "open" /\ t.onClose = k[c].onClose)
  BY <1>4, <1>5, <1>6, ClosingFields
<1>8. k'[c] = t
  BY <1>2, <1>5, <1>7, BecomesTypes
<1>9. k[c].session # "gone" /\ k[c].session # "none"
  BY <1>1, <1>2 DEF ConnInv, ReadInv, FreshInv, Fresh
<1>10. Head(k[c].writes) = "fail" => c \in hasty \/ (k[c].reading = "http" /\ t.writes = <<>>)
  BY <1>2, <1>3, <1>7 DEF ConnInv, RefusalInv
<1>11. FreshInv(c)'
  BY <1>7, <1>8, <1>9 DEF FreshInv
<1>12. ReadInv(c)'
  BY <1>1, <1>2, <1>3, <1>7, <1>8, <1>9 DEF ReadInv, ConnInv
<1>13. ConnectedInv(c)'
  <2>1. SUFFICES ASSUME c \in sessions
                 PROVE  ConnectedInv(c)'
    BY <1>1 DEF ConnectedInv
  <2>2. /\ k[c].session = "ws" /\ k[c].parser = "none" /\ k[c].readCb
        /\ ~k[c].shuttingDown /\ ~k[c].hasCloser
        /\ ~Contains(k[c].writes, "close")
        /\ Contains(out[c], "101") /\ ~Contains(out[c], "close")
        /\ k[c].reading # "http"
    BY <1>2, <2>1 DEF ConnInv, ConnectedInv, ReadInv
  <2>3. Head(k[c].writes) = "fail" /\ c \in hasty /\ ~Contains(t.writes, "close")
    BY <1>3, <1>7, <1>10, <2>2
  <2>. QED  BY <1>1, <1>7, <1>8, <2>2, <2>3 DEF ConnectedInv
<1>14. RefusalInv(c)'
  <2>1. Contains(t.writes, "fail") => c \in hasty
    <3>1. ~Contains(<<>>, "fail")
      BY DEF Contains
    <3>2. ASSUME Contains(t.writes, "fail"), c \notin hasty
          PROVE  FALSE
      <4>1. k[c].writes = <<"fail">>
        BY <1>2, <1>3, <1>7, <3>2 DEF ConnInv, RefusalInv
      <4>. QED  BY <1>3, <1>7, <3>1, <3>2, <4>1
    <3>. QED  BY <3>2
  <2>2. k[c].session = "declined" => t.reading = "no"
    <3>1. k[c].session = "declined" => k[c].reading \in {"no", "http"}
      BY <1>2 DEF ConnInv, ReadInv, Connection
    <3>2. k[c].reading = "http" => Head(k[c].writes) # "close"
      BY <1>2, <1>3 DEF ConnInv, ReadInv
    <3>. QED  BY <1>3, <1>7, <3>1, <3>2
  <2>3. t.onClose = "report" /\ t.parser = "none" => c \in hasty
    <3>1. t.onClose = "report" => k[c].onClose = "report" \/ Head(k[c].writes) = "fail"
      BY <1>7
    <3>2. k[c].reading = "http" => k[c].parser # "none"
      BY <1>2 DEF ConnInv, ReadInv
    <3>3. k[c].onClose = "report" /\ k[c].parser = "none" => c \in hasty
      BY <1>2 DEF ConnInv, RefusalInv
    <3>. QED  BY <1>7, <1>10, <3>1, <3>2, <3>3
  <2>. QED  BY <1>1, <1>7, <1>8, <2>1, <2>2, <2>3 DEF RefusalInv
<1>15. HandshakeInv(c)'
  BY <1>1, <1>2, <1>7, <1>8 DEF HandshakeInv, ConnInv, Started
<1>16. net' \in [Conns -> Seq(Items)] /\ hasty' \subseteq Conns
  BY <1>1, <1>2 DEF TypeOK
<1>. QED  BY <1>1, <1>5, <1>7, <1>9, <1>11, <1>12, <1>13, <1>14, <1>15, <1>16, QuietStep

\* Sets of connections are finite, so that they can be counted.
LEMMA Counted ==
  ASSUME NEW W \in SUBSET Conns
  PROVE  /\ IsFiniteSet(W) /\ Cardinality(W) \in Nat
         /\ Cardinality(Conns) \in Nat /\ Cardinality(W) <= Cardinality(Conns)
         /\ \A c \in W : Cardinality(W \ {c}) = Cardinality(W) - 1 /\ Cardinality(W) >= 1
         /\ \A c \in Conns \ W : Cardinality(W \cup {c}) = Cardinality(W) + 1
<1>1. IsFiniteSet(Conns)
  BY NodeSocketAssumption
<1>2. IsFiniteSet(W) /\ Cardinality(W) <= Cardinality(Conns)
  BY <1>1, FS_Subset
<1>3. Cardinality(W) \in Nat /\ Cardinality(Conns) \in Nat
  BY <1>1, <1>2, FS_CardinalityType
<1>4. ASSUME NEW c \in W
      PROVE  Cardinality(W \ {c}) = Cardinality(W) - 1 /\ Cardinality(W) >= 1
  <2>1. Cardinality(W \ {c}) = Cardinality(W) - 1
    BY <1>2, FS_RemoveElement
  <2>2. Cardinality(W) # 0
    BY <1>2, FS_EmptySet
  <2>. QED  BY <1>3, <2>1, <2>2
<1>5. ASSUME NEW c \in Conns \ W
      PROVE  Cardinality(W \cup {c}) = Cardinality(W) + 1
  BY <1>2, FS_AddElement
<1>. QED  BY <1>2, <1>3, <1>4, <1>5

\* The closer, as CloserIsNeeded has it, in terms of how many it waits for.
Expected(waiting, l) == Cardinality(waiting) + (IF l = "closing" THEN 1 ELSE 0)
CloserFor(n) == IF n = 0 THEN -1 ELSE n

LEMMA CloserInRange ==
  ASSUME NEW W \in SUBSET Conns, NEW l
  PROVE  Expected(W, l) \in Nat /\ CloserFor(Expected(W, l)) \in -1 .. Cardinality(Conns) + 1
BY Counted DEF Expected, CloserFor

LEMMA CloserDown ==
  ASSUME NEW n \in Nat \ {0}, closer = CloserFor(n), CountDown
  PROVE  closer' = CloserFor(n - 1)
BY DEF CountDown, CloserFor

\* uv_close is done and the connection is freed.
LEMMA CloseDoneStep ==
  ASSUME IInv, NEW c \in Conns, CloseDone(c)
  PROVE  IInv'
<1>. DEFINE t == [k[c] EXCEPT !.handle = "closed", !.session = "gone", !.writes = <<>>]
<1>1. /\ ~crashed /\ k[c].handle = "closing" /\ Becomes(c, t)
      /\ crashed' = (Contains(k[c].writes, "fail") \/ (k[c].onClose = "report" /\ k[c].parser = "none"))
      /\ IF k[c].hasCloser THEN CountDown ELSE UNCHANGED closer
      /\ UNCHANGED <<listening, net, shut, sent, sessions, open, calls, out, hasty>>
  BY DEF CloseDone, clients, delegate
<1>2. TypeOK /\ Alive /\ ConnInv(c) /\ NothingAfterClose /\ CloserIsNeeded /\ k[c] \in Connection
  BY <1>1 DEF IInv, Alive, TypeOK
<1>3. /\ t \in Connection /\ t.handle = "closed" /\ t.session = "gone" /\ t.writes = <<>>
      /\ t.parser = k[c].parser /\ t.hasCloser = k[c].hasCloser /\ t.onClose = k[c].onClose
      /\ t.reading = k[c].reading
  <2>1. <<>> \in Seq({"close", "fail"})
    OBVIOUS
  <2>. QED  BY <1>2, <2>1 DEF Connection
<1>. HIDE DEF t
<1>4. /\ k' \in [Conns -> Connection] /\ k'[c] = t
      /\ \A d \in Conns \ {c} : k'[d] = k[d]
  BY <1>1, <1>2, <1>3, BecomesTypes
<1>5. k[c].reading = "no" /\ k[c].session \notin {"gone", "none"}
  BY <1>1, <1>2 DEF ConnInv, ReadInv, FreshInv, Fresh
<1>6. CloserIsNeeded' /\ closer' \in -1 .. Cardinality(Conns) + 1
  <2>1. closer = CloserFor(Expected(Waiting, listening))
    BY <1>2 DEF CloserIsNeeded, CloserFor, Expected
  <2>2. Waiting \in SUBSET Conns /\ Waiting' \in SUBSET Conns
    BY DEF Waiting
  <2>3. closer' = CloserFor(Expected(Waiting', listening'))
    <3>1. CASE k[c].hasCloser
      <4>1. c \in Waiting /\ Waiting' = Waiting \ {c}
        BY <1>3, <1>4, <1>5, <3>1 DEF Waiting
      <4>2. Expected(Waiting', listening') = Expected(Waiting, listening) - 1
            /\ Expected(Waiting, listening) \in Nat \ {0}
        BY <1>1, <2>2, <4>1, Counted DEF Expected
      <4>. QED  BY <1>1, <2>1, <3>1, <4>2, CloserDown
    <3>2. CASE ~k[c].hasCloser
      <4>1. Waiting' = Waiting
        BY <1>3, <1>4, <3>2 DEF Waiting
      <4>. QED  BY <1>1, <2>1, <3>2, <4>1
    <3>. QED  BY <3>1, <3>2
  <2>. QED  BY <2>2, <2>3, CloserInRange DEF CloserIsNeeded, CloserFor, Expected
<1>7. crashed' \in BOOLEAN
  BY <1>1
<1>8. TypeOK'
  BY <1>1, <1>2, <1>4, <1>6, <1>7 DEF TypeOK
<1>9. crashed' => hasty' # {}
  BY <1>1, <1>2, <1>5 DEF ConnInv, RefusalInv
<1>10. ASSUME ~crashed'
       PROVE  ConnInv(c)' /\ sessions' = {open'} \ {None}
  <2>1. c \notin sessions
    BY <1>1, <1>2, <1>10 DEF ConnInv, ConnectedInv
  <2>2. ~Contains(t.writes, "fail")
    BY <1>3 DEF Contains
  <2>3. FreshInv(c)' /\ ReadInv(c)' /\ ConnectedInv(c)'
    BY <1>1, <1>3, <1>4, <1>5, <2>1 DEF FreshInv, ReadInv, ConnectedInv
  <2>4. RefusalInv(c)'
    BY <1>1, <1>3, <1>4, <1>10, <2>2 DEF RefusalInv
  <2>5. HandshakeInv(c)'
    BY <1>1, <1>2, <1>3, <1>4 DEF HandshakeInv, ConnInv, Started
  <2>. QED  BY <1>1, <1>2, <2>3, <2>4, <2>5 DEF ConnInv, Alive
<1>11. \A d \in Conns : Started(d)' <=> Started(d)
  BY <1>1 DEF Started
<1>12. InOrder(out'[c])
  BY <1>1, <1>2 DEF NothingAfterClose
<1>. QED  BY <1>1, <1>4, <1>6, <1>8, <1>9, <1>10, <1>11, <1>12, StepInv DEF Step

------------------------------------------------------------------------------
(* The server *)

\* The listening socket begins to close, or is closed: one more or one less to
\* wait for.
LEMMA ListeningStep ==
  ASSUME IInv, Stop \/ ServerClosedCallback
  PROVE  IInv'
<1>1. /\ ~crashed
      /\ UNCHANGED <<k, net, shut, sent, sessions, open, calls, out, hasty, crashed>>
  BY DEF Stop, ServerClosedCallback, clients, delegate
<1>2. TypeOK /\ Alive /\ NothingAfterClose /\ CloserIsNeeded
  BY <1>1 DEF IInv
<1>3. closer = CloserFor(Expected(Waiting, listening)) /\ Waiting \in SUBSET Conns
  BY <1>2 DEF CloserIsNeeded, CloserFor, Expected, Waiting
<1>4. Waiting' = Waiting
  BY <1>1 DEF Waiting
<1>5. Cardinality(Waiting) \in Nat
  BY <1>3, Counted
<1>6. /\ listening' \in {"closing", "closed"}
      /\ closer' = CloserFor(Expected(Waiting', listening'))
  <2>1. CASE Stop
    <3>1. /\ listening = "open" /\ listening' = "closing"
          /\ closer' = IF closer = -1 THEN 1 ELSE closer + 1
      BY <2>1 DEF Stop
    <3>. QED  BY <1>3, <1>4, <1>5, <3>1 DEF CloserFor, Expected
  <2>2. CASE ServerClosedCallback
    <3>1. listening = "closing" /\ listening' = "closed" /\ CountDown
      BY <2>2 DEF ServerClosedCallback
    <3>2. Expected(Waiting, listening) \in Nat \ {0}
          /\ Expected(Waiting', listening') = Expected(Waiting, listening) - 1
      BY <1>4, <1>5, <3>1 DEF Expected
    <3>. QED  BY <1>3, <3>1, <3>2, CloserDown
  <2>. QED  BY <2>1, <2>2
<1>7. CloserIsNeeded' /\ closer' \in -1 .. Cardinality(Conns) + 1
  BY <1>3, <1>4, <1>6, CloserInRange DEF CloserIsNeeded, CloserFor, Expected
<1>8. TypeOK'
  BY <1>1, <1>2, <1>6, <1>7 DEF TypeOK
<1>9. Alive'
  <2>1. \A d \in Conns : Started(d)' <=> Started(d)
    BY <1>1 DEF Started
  <2>2. \A d \in Conns : ConnInv(d) => ConnInv(d)'
    BY <1>1, <2>1, Bystanders
  <2>. QED  BY <1>1, <1>2, <2>2 DEF Alive
<1>10. NothingAfterClose'
  BY <1>1, <1>2 DEF NothingAfterClose
<1>. QED  BY <1>1, <1>7, <1>8, <1>9, <1>10 DEF IInv

\* The session that there is begins to close, and the closer waits for it.
LEMMA TerminateConnectionsStep ==
  ASSUME IInv, TerminateConnections
  PROVE  IInv'
<1>1. /\ ~crashed /\ sessions # {} /\ sessions' = {} /\ open' = None
      /\ UNCHANGED <<listening, net, shut, sent, hasty>>
  BY DEF TerminateConnections, clients
<1>2. TypeOK /\ Alive /\ NothingAfterClose /\ CloserIsNeeded
  BY <1>1 DEF IInv
<1>3. PICK c \in Conns : sessions = {c} /\ open = c
  BY <1>1, <1>2 DEF Alive, TypeOK
<1>. DEFINE s == inspector_close(k[c])
            t == [s EXCEPT !.hasCloser = TRUE]
<1>4. (CHOOSE d \in sessions : TRUE) = c
  BY <1>3
<1>5. /\ Becomes(c, t)
      /\ out' = [out EXCEPT ![c] = @ \o CloseFrames(k[c])]
      /\ Tell("end", c)
      /\ crashed' = ~MayClose(k[c])
      /\ closer' = (IF closer = -1 THEN 0 ELSE closer) + Cardinality(sessions)
  <2>1. k' = [d \in Conns |-> IF d = c THEN t ELSE k[d]]
    BY <1>3 DEF TerminateConnections
  <2>2. out' = [d \in Conns |-> IF d = c THEN out[d] \o CloseFrames(k[d]) ELSE out[d]]
    BY <1>3 DEF TerminateConnections
  <2>3. k \in [Conns -> Connection] /\ DOMAIN out = Conns
    BY <1>2 DEF TypeOK
  <2>4. Becomes(c, t) /\ out' = [out EXCEPT ![c] = @ \o CloseFrames(k[c])]
    <3>. HIDE DEF t
    <3>. QED  BY <1>2, <1>3, <2>1, <2>2, <2>3 DEF Becomes, TypeOK
  <2>5. crashed' = ~MayClose(k[c])
    BY <1>3 DEF TerminateConnections
  <2>6. Tell("end", c)
    BY <1>4 DEF TerminateConnections
  <2>. QED  BY <2>4, <2>5, <2>6 DEF TerminateConnections
<1>6. /\ ConnInv(c) /\ k[c] \in Connection
      /\ k[c].session = "ws" /\ k[c].parser = "none" /\ k[c].readCb
      /\ ~k[c].shuttingDown /\ ~k[c].hasCloser
      /\ k[c].handle = "open" \/ (k[c].handle = "closing" /\ c \in hasty)
      /\ Contains(out[c], "101")
      /\ Contains(k[c].writes, "fail") => c \in hasty
      /\ k[c].writes \in Seq({"close", "fail"})
      /\ out[c] \in Seq(Written) /\ InOrder(out[c])
  <2>1. ConnInv(c) /\ k[c] \in Connection /\ out[c] \in Seq(Written) /\ InOrder(out[c]) /\ c \in sessions
    BY <1>2, <1>3 DEF Alive, TypeOK, Written, NothingAfterClose
  <2>. QED  BY <2>1 DEF ConnInv, ConnectedInv, RefusalInv, ReadInv, Connection
<1>7. /\ s \in Connection /\ s.session = "closing" /\ s.parser = k[c].parser
      /\ s.writes \in {k[c].writes, Append(k[c].writes, "close")}
      /\ s.onClose \in {k[c].onClose, "dispose"}
      /\ k[c].handle = "open"
           => s.reading = "no" \/ (s.reading = "ws" /\ s.handle = "open" /\ ~s.readCb)
  BY <1>6, InspectorCloseFields
<1>8. Contains(s.writes, "fail") => c \in hasty
  BY <1>6, <1>7, CloseWritten
<1>. HIDE DEF s
<1>9. /\ t \in Connection /\ t.session = s.session /\ t.parser = s.parser /\ t.hasCloser = TRUE
      /\ t.writes = s.writes /\ t.onClose = s.onClose /\ t.reading = s.reading
      /\ t.handle = s.handle /\ t.readCb = s.readCb
  BY <1>7 DEF Connection
<1>. HIDE DEF t
<1>10. /\ k' \in [Conns -> Connection] /\ k'[c] = t
       /\ \A d \in Conns \ {c} : k'[d] = k[d]
  BY <1>2, <1>3, <1>5, <1>9, BecomesTypes
<1>11. /\ out' \in [Conns -> Seq(Written)] /\ InOrder(out'[c]) /\ Contains(out'[c], "101")
       /\ \A d \in Conns \ {c} : out'[d] = out[d]
  <2>. DEFINE u == out[c] \o CloseFrames(k[c])
  <2>1. CloseFrames(k[c]) \in {<<>>, <<"close">>}
    BY DEF CloseFrames
  <2>2. u \o <<>> \in Seq(Written) /\ InOrder(u \o <<>>) /\ Contains(u \o <<>>, "101")
    BY <1>6, <2>1, InOrderCloses
  <2>3. u \in Seq(Written)
    <3>1. <<>> \in Seq(Written) /\ <<"close">> \in Seq(Written)
      BY DEF Written
    <3>2. \A a, b \in Seq(Written) : a \o b \in Seq(Written)
      OBVIOUS
    <3>3. CloseFrames(k[c]) \in Seq(Written)
      BY <2>1, <3>1
    <3>. QED  BY <1>6, <3>2, <3>3
  <2>4. u \o <<>> = u
    BY <2>3
  <2>5. out' = [out EXCEPT ![c] = u]
    BY <1>5
  <2>. HIDE DEF u
  <2>. QED  BY <1>2, <1>3, <2>2, <2>3, <2>4, <2>5 DEF TypeOK, Written
<1>12. /\ calls' \in Seq({"start", "message", "end"} \X Conns)
       /\ \A d \in Conns : Started(d)' <=> Started(d)
  BY <1>2, <1>3, <1>5, Told DEF TypeOK
<1>13. crashed' \in BOOLEAN /\ (crashed' <=> k[c].handle # "open")
  BY <1>5, <1>6 DEF MayClose
<1>14. CloserIsNeeded' /\ closer' \in -1 .. Cardinality(Conns) + 1
  <2>1. closer = CloserFor(Expected(Waiting, listening)) /\ Waiting \in SUBSET Conns
    BY <1>2 DEF CloserIsNeeded, CloserFor, Expected, Waiting
  <2>2. Waiting' = Waiting \cup {c} /\ c \in Conns \ Waiting /\ Waiting' \in SUBSET Conns
    BY <1>3, <1>6, <1>7, <1>9, <1>10 DEF Waiting
  <2>3. Cardinality(sessions) = 1
    BY <1>3, FS_Singleton
  <2>4. Expected(Waiting', listening') = Expected(Waiting, listening) + 1
        /\ Expected(Waiting, listening) \in Nat
    BY <1>1, <2>1, <2>2, Counted DEF Expected
  <2>5. closer' = CloserFor(Expected(Waiting', listening'))
    BY <1>5, <2>1, <2>3, <2>4 DEF CloserFor
  <2>. QED  BY <2>2, <2>5, CloserInRange DEF CloserIsNeeded, CloserFor, Expected
<1>15. TypeOK'
  BY <1>1, <1>2, <1>10, <1>11, <1>12, <1>13, <1>14 DEF TypeOK, Written
<1>16. crashed' => hasty' # {}
  BY <1>1, <1>6, <1>13
<1>17. ASSUME ~crashed'
       PROVE  ConnInv(c)'
  <2>1. FreshInv(c)' /\ ReadInv(c)' /\ ConnectedInv(c)' /\ HandshakeInv(c)'
    BY <1>1, <1>6, <1>7, <1>9, <1>10, <1>11, <1>13, <1>17
       DEF FreshInv, ReadInv, ConnectedInv, HandshakeInv
  <2>2. RefusalInv(c)'
    BY <1>1, <1>6, <1>7, <1>8, <1>9, <1>10 DEF RefusalInv, ConnInv
  <2>. QED  BY <2>1, <2>2 DEF ConnInv
<1>. QED  BY <1>1, <1>3, <1>10, <1>11, <1>12, <1>14, <1>15, <1>16, <1>17, StepInv DEF Step

------------------------------------------------------------------------------
(* Invariance *)

LEMMA InitInv == Init => IInv
<1>. SUFFICES ASSUME Init
              PROVE  IInv
  OBVIOUS
<1>1. \A c \in Conns : k[c] = Fresh /\ out[c] = <<>> /\ ~Started(c)
  BY DEF Init, Started
<1>2. Waiting = {}
  BY <1>1 DEF Waiting, Fresh
<1>3. closer = -1 /\ listening = "open" /\ Cardinality(Conns) \in Nat
  BY Counted DEF Init
<1>4. TypeOK
  <2>1. k \in [Conns -> Connection]
    BY FreshConnection DEF Init
  <2>2. out \in [Conns -> Seq({"200", "400", "101", "message", "close"})]
    BY DEF Init
  <2>3. net \in [Conns -> Seq(Items)]
    BY DEF Init
  <2>4. calls \in Seq({"start", "message", "end"} \X Conns)
    BY DEF Init
  <2>5. sent \in 0 .. MaxItems /\ closer \in -1 .. Cardinality(Conns) + 1
    BY <1>3, NodeSocketAssumption DEF Init
  <2>6. shut \in [Conns -> BOOLEAN]
    BY DEF Init
  <2>. QED  BY <2>1, <2>2, <2>3, <2>4, <2>5, <2>6 DEF Init, TypeOK
<1>5. NothingAfterClose
  BY <1>1 DEF NothingAfterClose, InOrder
<1>6. CloserIsNeeded
  <2>1. Cardinality(Waiting) = 0
    BY <1>2, FS_EmptySet
  <2>. QED  BY <1>3, <2>1 DEF CloserIsNeeded
<1>7. Alive
  <2>1. \A c \in Conns : ~Contains(k[c].writes, "fail")
    BY <1>1 DEF Fresh, Contains
  <2>2. ASSUME NEW c \in Conns
        PROVE  ConnInv(c)
    BY <1>1, <2>1
       DEF ConnInv, FreshInv, ReadInv, ConnectedInv, RefusalInv, HandshakeInv, Init, Fresh
  <2>. QED  BY <2>2 DEF Alive, Init
<1>. QED  BY <1>4, <1>5, <1>6, <1>7 DEF IInv, Init

LEMMA NextInv == IInv /\ [Next]_vars => IInv'
<1>. SUFFICES ASSUME IInv, [Next]_vars
              PROVE  IInv'
  OBVIOUS
<1>1. ASSUME NEW c \in Conns, Client(c)
      PROVE  IInv'
  <2>1. CASE SocketConnectedCallback(c)
    BY <2>1, SocketConnectedStep
  <2>2. CASE \E kind \in Sends[c] : ClientSends(c, kind)
    BY <2>2, ClientSendsStep
  <2>3. CASE ClientCloses(c)
    BY <2>3, ClientClosesStep
  <2>. QED  BY <1>1, <2>1, <2>2, <2>3 DEF Client
<1>2. ASSUME NEW c \in Conns, Callback(c)
      PROVE  IInv'
  BY <1>2, RespondToGetStep, HandshakeFailedStep, DeclinedStep, HandshakeCompleteStep,
     EofInHandshakeStep, PartOfFrameStep, TextFrameStep, CutTextFrameStep, EmptyFrameStep, BadFrameStep, CloseFrameStep,
     EofInSessionStep, WriteDoneStep, CloseDoneStep DEF Callback
<1>3. ASSUME UNCHANGED vars
      PROVE  IInv'
  <2>1. UNCHANGED <<listening, closer, k, net, shut, sent, sessions, open, calls, out, hasty, crashed>>
    BY <1>3 DEF vars, clients, delegate
  <2>2. TypeOK'
    BY <2>1 DEF IInv, TypeOK
  <2>. QED  BY <2>1, <2>2, NetworkStep
<1>. QED  BY <1>1, <1>2, <1>3, SendStep, ListeningStep, TerminateConnectionsStep DEF Next

LEMMA Invariance == Spec => []IInv
BY InitInv, NextInv, PTL DEF Spec

\* Every variable keeps its type, with any number of clients and messages.
THEOREM TypeCorrect == Spec => []TypeOK
<1>1. IInv => TypeOK
  BY DEF IInv
<1>. QED  BY <1>1, Invariance, PTL

\* connected_sessions_ has the delegate's session and no other, and unless it
\* was upgraded behind a refusal its connection is open and read.
THEOREM AlwaysConnected == Spec => []ConnectedIsConnected
<1>1. IInv => ConnectedIsConnected
  BY DEF IInv, Alive, ConnInv, ConnectedInv, ConnectedIsConnected, TypeOK
<1>. QED  BY <1>1, Invariance, PTL

\* No client is sent anything behind a close frame, or session traffic before
\* its upgrade, whoever writes to it.
THEOREM AlwaysInOrder == Spec => []NothingAfterClose
<1>1. IInv => NothingAfterClose
  BY DEF IInv
<1>. QED  BY <1>1, Invariance, PTL

\* Only a client that went on while a refusal was written to it, or a part of a
\* frame that passed for the whole, can make the server use what is not there;
\* the closer is there while it is needed.
THEOREM OnlyHasteOrCutsKill == Spec => []DiesOfHasteOrCut
<1>1. IInv => DiesOfHasteOrCut
  BY DEF IInv, DiesOfHasteOrCut
<1>. QED  BY <1>1, Invariance, PTL

------------------------------------------------------------------------------
(* NodeSessions *)

\* Before a session is started, it never was.
LEMMA NotStarted ==
  ASSUME IInv, NEW c \in Conns, HandshakeComplete(c)
  PROVE  <<"start", c>> \notin {calls[i] : i \in DOMAIN calls}
<1>1. ReadHttp(c)
  BY DEF HandshakeComplete
<1>2. ConnInv(c) /\ k[c].parser # "none"
  BY <1>1, ReadHttpFacts
<1>3. ~Started(c)
  BY <1>2 DEF ConnInv, HandshakeInv
<1>. QED  BY <1>3 DEF Started

\* The end of a session, from a connection.
LEMMA EndIsEnd ==
  ASSUME IInv, ~crashed, NEW c \in Conns, k[c].reading = "ws", k[c].readCb,
         NEW s, NEW then, NEW frames, EndOfData(c, s, then, frames)
  PROVE  Delegate!EndSession(c)
<1>1. c \in sessions /\ open = c
  BY SessionFacts
<1>. QED  BY <1>1 DEF EndOfData, SessionTerminated, Tell, Delegate!EndSession

\* A callback starts, continues or ends a session, or the delegate hears nothing.
LEMMA CallbackIsCall ==
  ASSUME IInv, NEW c \in Conns, Callback(c)
  PROVE  Delegate!Next \/ UNCHANGED <<open, calls>>
<1>1. CASE HandshakeComplete(c)
  <2>1. Delegate!StartSession(c)
    BY <1>1, NotStarted DEF HandshakeComplete, SessionStarted, Tell, Delegate!StartSession
  <2>. QED  BY <2>1 DEF Delegate!Next
<1>2. CASE TextFrame(c) \/ CutTextFrame(c)
  <2>1. ~crashed /\ k[c].reading = "ws"
    BY <1>2, ReadWsFacts DEF TextFrame, CutTextFrame
  <2>2. CASE k[c].readCb
    <3>1. open = c
      BY <2>1, <2>2, SessionFacts
    <3>2. Delegate!MessageReceived(c)
      BY <1>2, <2>2, <3>1 DEF TextFrame, CutTextFrame, Tell, Delegate!MessageReceived
    <3>. QED  BY <3>2 DEF Delegate!Next
  <2>3. CASE ~k[c].readCb
    BY <1>2, <2>3 DEF TextFrame, CutTextFrame
  <2>. QED  BY <2>2, <2>3
<1>3. CASE EmptyFrame(c)
  <2>1. ~crashed /\ k[c].reading = "ws"
    BY <1>3, ReadWsFacts DEF EmptyFrame
  <2>2. Delegate!EndSession(c)
    BY <1>3, <2>1, EndIsEnd DEF EmptyFrame
  <2>. QED  BY <2>2 DEF Delegate!Next
<1>4. CASE BadFrame(c)
  <2>1. ~crashed /\ k[c].reading = "ws"
    BY <1>4, ReadWsFacts DEF BadFrame
  <2>2. k[c].readCb => Delegate!EndSession(c)
    BY <1>4, <2>1, EndIsEnd DEF BadFrame
  <2>. QED  BY <1>4, <2>2 DEF BadFrame, delegate, Delegate!Next
<1>5. CASE CloseFrame(c)
  <2>1. ~crashed /\ k[c].reading = "ws"
    BY <1>5, ReadWsFacts DEF CloseFrame
  <2>2. k[c].readCb => Delegate!EndSession(c)
    BY <1>5, <2>1, EndIsEnd DEF CloseFrame
  <2>. QED  BY <1>5, <2>2 DEF CloseFrame, delegate, Delegate!Next
<1>6. CASE EofInSession(c)
  <2>1. ~crashed /\ k[c].reading = "ws"
    BY <1>6 DEF EofInSession
  <2>2. CASE ~k[c].shuttingDown /\ k[c].readCb
    <3>1. Delegate!EndSession(c)
      BY <1>6, <2>1, <2>2, EndIsEnd DEF EofInSession
    <3>. QED  BY <3>1 DEF Delegate!Next
  <2>3. CASE ~(~k[c].shuttingDown /\ k[c].readCb)
    BY <1>6, <2>3 DEF EofInSession, delegate
  <2>. QED  BY <2>2, <2>3
<1>7. CASE \/ PartOfFrame(c) \/ RespondToGet(c) \/ HandshakeFailed(c) \/ Declined(c) \/ EofInHandshake(c)
           \/ WriteDone(c) \/ CloseDone(c)
  BY <1>7 DEF PartOfFrame, RespondToGet, HandshakeFailed, Declined, EofInHandshake, WriteDone, CloseDone, delegate
<1>. QED  BY <1>1, <1>2, <1>3, <1>4, <1>5, <1>6, <1>7 DEF Callback

LEMMA TerminationIsEnd ==
  ASSUME IInv, TerminateConnections
  PROVE  Delegate!Next
<1>1. ~crashed /\ sessions # {}
  BY DEF TerminateConnections
<1>2. PICK c \in Conns : sessions = {c} /\ open = c
  BY <1>1 DEF IInv, Alive, TypeOK
<1>3. (CHOOSE d \in sessions : TRUE) = c
  BY <1>2
<1>4. Delegate!EndSession(c)
  BY <1>2, <1>3 DEF TerminateConnections, Tell, Delegate!EndSession
<1>. QED  BY <1>4 DEF Delegate!Next

LEMMA NextIsCall == IInv /\ [Next]_vars => [Delegate!Next]_Delegate!vars
<1>. SUFFICES ASSUME IInv, [Next]_vars
              PROVE  Delegate!Next \/ UNCHANGED <<open, calls>>
  BY DEF Delegate!vars
<1>1. ASSUME NEW c \in Conns, Client(c)
      PROVE  UNCHANGED <<open, calls>>
  BY <1>1 DEF Client, SocketConnectedCallback, ClientSends, ClientCloses, delegate
<1>2. ASSUME NEW c \in Conns, Send(c)
      PROVE  UNCHANGED <<open, calls>>
  BY <1>2 DEF Send, delegate
<1>3. ASSUME Stop \/ ServerClosedCallback
      PROVE  UNCHANGED <<open, calls>>
  BY <1>3 DEF Stop, ServerClosedCallback, delegate
<1>4. ASSUME UNCHANGED vars
      PROVE  UNCHANGED <<open, calls>>
  BY <1>4 DEF vars, delegate
<1>. QED  BY <1>1, <1>2, <1>3, <1>4, CallbackIsCall, TerminationIsEnd DEF Next

\* The delegate sees one session at a time, each started once, with its
\* messages and one end, from whichever of the five places it is ended.
THEOREM ImplementsSessions == Spec => SessionsSpec
<1>1. Init => Delegate!Init
  BY DEF Init, Delegate!Init
<1>. QED  BY <1>1, Invariance, NextIsCall, PTL DEF Spec, SessionsSpec, Delegate!Spec

=============================================================================
