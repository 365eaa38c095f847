------------------------ MODULE InspectorAgentProofs ------------------------
(***************************************************************************)
(* Proofs about InspectorAgent, for any number of messages.  The           *)
(* JavaScript thread has a bottom frame and, above it, calls that come and *)
(* go; what is on the stack is related to the flags by what a push or a    *)
(* pop does to the kinds of frames there are.  The messages are related to *)
(* the state of the session by one log: all messages ever posted, whoever  *)
(* holds them now, in the order of posting.                                *)
(***************************************************************************)
EXTENDS InspectorAgent, SequenceTheorems, TLAPS

------------------------------------------------------------------------------
(* A sequence as a stack: a call pushes an entry, a return pops the last. *)

\* The stack s has an entry of the kinds K; it has one at most.
Has(s, K)  == \E i \in 1 .. Len(s) : s[i] \in K
Once(s, K) == \A i, j \in 1 .. Len(s) : s[i] \in K /\ s[j] \in K => i = j

\* A call (Push).
LEMMA PushProperties ==
  ASSUME NEW T, NEW s \in Seq(T), NEW f \in T
  PROVE  /\ Append(s, f) \in Seq(T)
         /\ Append(s, f) # <<>>
         /\ Len(Append(s, f)) = Len(s) + 1
         /\ \A i \in 1 .. Len(s) + 1 : Append(s, f)[i] = IF i <= Len(s) THEN s[i] ELSE f
  OBVIOUS

\* A return.
LEMMA PopProperties ==
  ASSUME NEW T, NEW s \in Seq(T), s # <<>>
  PROVE  /\ Front(s) \in Seq(T)
         /\ Len(Front(s)) = Len(s) - 1
         /\ \A i \in 1 .. Len(s) - 1 : Front(s)[i] = s[i]
         /\ Last(s) = s[Len(s)]
         /\ Last(s) \in T
<1>1. Len(s) \in Nat /\ Len(s) >= 1
  OBVIOUS
<1>2. \A i \in 1 .. Len(s) : s[i] \in T
  OBVIOUS
<1>. DEFINE n == Len(s) - 1
<1>3. n \in 0 .. Len(s)
  BY <1>1
<1>4. /\ SubSeq(s, 1, n) \in Seq(T)
      /\ Len(SubSeq(s, 1, n)) = n
      /\ \A i \in 1 .. n : SubSeq(s, 1, n)[i] = s[i]
  <2>. HIDE DEF n
  <2>. QED  BY <1>3
<1>. QED  BY <1>1, <1>2, <1>4 DEF Front, Last

\* What a call does to the kinds of entries there are.
LEMMA PushKinds ==
  ASSUME NEW T, NEW s \in Seq(T), NEW f \in T, NEW K
  PROVE  /\ Has(Append(s, f), K) <=> Has(s, K) \/ f \in K
         /\ Once(s, K) /\ (f \notin K \/ ~Has(s, K)) => Once(Append(s, f), K)
  BY PushProperties DEF Has, Once

\* What a return does to them.
LEMMA PopKinds ==
  ASSUME NEW T, NEW s \in Seq(T), s # <<>>, NEW K
  PROVE  /\ Last(s) \notin K => (Has(Front(s), K) <=> Has(s, K))
         /\ Last(s) \in K => Has(s, K)
         /\ Last(s) \in K /\ Once(s, K) => ~Has(Front(s), K)
         /\ Once(s, K) => Once(Front(s), K)
<1>. DEFINE n == Len(s)
            u == Front(s)
<1>1. n \in Nat /\ n >= 1 /\ Last(s) = s[n]
  BY DEF Last
<1>2. Len(u) = n - 1 /\ \A i \in 1 .. n - 1 : u[i] = s[i]
  BY PopProperties
<1>. HIDE DEF n, u
<1>3. \A i \in 1 .. n : i \in 1 .. n - 1 \/ i = n
  BY <1>1
<1>4. \A i \in 1 .. n - 1 : i \in 1 .. n /\ i # n
  BY <1>1
<1>5. n \in 1 .. n
  BY <1>1
<1>6. Has(s, K) <=> \E i \in 1 .. n : s[i] \in K
  BY DEF Has, n
<1>7. Has(u, K) <=> \E i \in 1 .. n - 1 : s[i] \in K
  BY <1>2 DEF Has
<1>8. Once(s, K) <=> \A i, j \in 1 .. n : s[i] \in K /\ s[j] \in K => i = j
  BY DEF Once, n
<1>9. Once(u, K) <=> \A i, j \in 1 .. n - 1 : s[i] \in K /\ s[j] \in K => i = j
  BY <1>2 DEF Once
<1>10. /\ s[n] \notin K => (Has(u, K) <=> Has(s, K))
       /\ s[n] \in K => Has(s, K)
  BY <1>3, <1>4, <1>5, <1>6, <1>7
<1>11. s[n] \in K /\ Once(s, K) => ~Has(u, K)
  BY <1>4, <1>5, <1>7, <1>8
<1>12. Once(s, K) => Once(u, K)
  BY <1>4, <1>8, <1>9
<1>. QED  BY <1>1, <1>10, <1>11, <1>12 DEF u

------------------------------------------------------------------------------
(* Two sequences as one queue: what is left of a batch, then what came in. *)

\* An arrival, and what is at the head of a batch, seen from the whole queue
\* (incoming_message_queue_ and the local `tasks` of DispatchMessages).
LEMMA QueueInTwoParts ==
  ASSUME NEW T, NEW a \in Seq(T), NEW b \in Seq(T), NEW e \in T
  PROVE  /\ a \o b \in Seq(T)
         /\ a \o Append(b, e) = Append(a \o b, e)
         /\ <<>> \o b = b /\ b \o <<>> = b
         /\ a # <<>> => /\ a \o b # <<>>
                        /\ Head(a \o b) = Head(a)
                        /\ Tail(a \o b) = Tail(a) \o b
<1>1. a \o b \in Seq(T) /\ Len(a \o b) = Len(a) + Len(b)
  OBVIOUS
<1>2. a \o Append(b, e) = Append(a \o b, e)
  OBVIOUS
<1>3. <<>> \o b = b /\ b \o <<>> = b
  OBVIOUS
<1>4. ASSUME a # <<>>
      PROVE  a \o b # <<>> /\ Head(a \o b) = Head(a) /\ Tail(a \o b) = Tail(a) \o b
  <2>1. Len(a) \in Nat \ {0} /\ Len(b) \in Nat
    BY <1>4
  <2>2. a \o b # <<>> /\ Head(a \o b) = Head(a)
    BY <1>1, <2>1
  <2>3. Tail(a \o b) = Tail(a) \o b
    BY <1>1, <1>4, <2>1
  <2>. QED  BY <2>2, <2>3
<1>. QED  BY <1>1, <1>2, <1>3, <1>4

\* What is handed over stays in the log of what was done and what is left.
LEMMA LogOfQueue ==
  ASSUME NEW T, NEW h \in Seq(T), NEW w \in Seq(T), w # <<>>
  PROVE  Append(h, Head(w)) \o Tail(w) = h \o w
  OBVIOUS


Bottom == {"start", "spin", "loop"}
D      == {"dispatch"}
P      == {"pause", "serve"}
W      == {"script", "evaluate", "dispatch", "pause", "serve"}

\* A stack the JavaScript thread can have: one bottom frame, at the bottom,
\* and at most one dispatch and one pause.
Good(s) ==
  /\ s \in Seq(Frames) /\ s # <<>>
  /\ s[1] \in Bottom
  /\ Once(s, Bottom) /\ Once(s, D) /\ Once(s, P)

\* t has the bottom of s, and the same kinds of calls.
Alike(s, t) ==
  /\ t[1] = s[1]
  /\ Has(t, D) <=> Has(s, D)
  /\ Has(t, P) <=> Has(s, P)

------------------------------------------------------------------------------
(* Calls and returns *)

LEMMA FramesFacts ==
  /\ Bottom \subseteq Frames /\ D \subseteq W /\ P \subseteq W /\ W \subseteq Frames
  /\ W \cap Bottom = {} /\ D \cap P = {}
BY DEF Bottom, D, P, W, Frames

\* A call of anything but a second dispatch or a second pause.
LEMMA Push ==
  ASSUME NEW s, Good(s), NEW f \in Frames \ Bottom,
         f \in D => ~Has(s, D), f \in P => ~Has(s, P)
  PROVE  /\ Good(Append(s, f))
         /\ Append(s, f)[1] = s[1]
         /\ Has(Append(s, f), D) <=> Has(s, D) \/ f \in D
         /\ Has(Append(s, f), P) <=> Has(s, P) \/ f \in P
         /\ Has(Append(s, f), W) <=> Has(s, W) \/ f \in W
<1>1. s \in Seq(Frames) /\ f \in Frames /\ Len(s) >= 1
  BY DEF Good
<1>2. /\ Append(s, f) \in Seq(Frames) /\ Append(s, f) # <<>>
      /\ Append(s, f)[1] = s[1]
  BY <1>1, PushProperties
<1>3. /\ Once(Append(s, f), Bottom)
      /\ Once(Append(s, f), D)
      /\ Once(Append(s, f), P)
  BY <1>1, PushKinds DEF Good
<1>. QED  BY <1>1, <1>2, <1>3, PushKinds DEF Good

\* The bottom frame never returns, so a stack whose innermost call is not the
\* bottom frame has two entries at least.
LEMMA Return ==
  ASSUME NEW s, Good(s), Last(s) \notin Bottom
  PROVE  /\ Good(Front(s))
         /\ Front(s)[1] = s[1]
         /\ Last(s) \notin D => (Has(Front(s), D) <=> Has(s, D))
         /\ Last(s) \notin P => (Has(Front(s), P) <=> Has(s, P))
         /\ Last(s) \notin W => (Has(Front(s), W) <=> Has(s, W))
         /\ Last(s) \in D => ~Has(Front(s), D)
         /\ Last(s) \in P => ~Has(Front(s), P)
         /\ Last(s) \in W => Has(s, W)
         /\ Has(Front(s), W) => Has(s, W)
<1>1. s \in Seq(Frames) /\ s # <<>> /\ Len(s) \in Nat
  BY DEF Good
<1>2. Len(s) >= 2
  BY <1>1, PopProperties DEF Good
<1>3. /\ Front(s) \in Seq(Frames) /\ Front(s) # <<>>
      /\ Front(s)[1] = s[1]
  BY <1>1, <1>2, PopProperties
<1>4. Once(Front(s), Bottom) /\ Once(Front(s), D) /\ Once(Front(s), P)
  BY <1>1, PopKinds DEF Good
<1>5. Has(Front(s), W) => Has(s, W)
  BY <1>1, PopKinds
<1>. QED  BY <1>1, <1>3, <1>4, <1>5, PopKinds DEF Good

\* The bottom frame is alone on the stack when it is the innermost.
LEMMA Alone ==
  ASSUME NEW s, Good(s), Last(s) \in Bottom
  PROVE  /\ Len(s) = 1 /\ s[1] = Last(s) /\ Front(s) = <<>>
         /\ ~Has(s, W)
<1>1. s \in Seq(Frames) /\ s # <<>> /\ Len(s) \in Nat /\ Len(s) >= 1
  BY DEF Good
<1>2. Len(s) = 1 /\ s[1] = Last(s)
  <2>1. Last(s) = s[Len(s)]
    BY <1>1, PopProperties
  <2>2. 1 \in 1 .. Len(s) /\ Len(s) \in 1 .. Len(s)
    BY <1>1
  <2>3. s[1] \in Bottom /\ \A i, j \in 1 .. Len(s) : s[i] \in Bottom /\ s[j] \in Bottom => i = j
    BY DEF Good, Once
  <2>4. 1 = Len(s)
    BY <2>1, <2>2, <2>3, Zenon
  <2>. QED  BY <2>1, <2>4
<1>3. Front(s) = <<>>
  BY <1>1, <1>2, PopProperties
<1>. QED  BY <1>1, <1>2, <1>3, FramesFacts DEF Has

\* Start moves on: the bottom frame becomes another.
LEMMA BottomMoves ==
  ASSUME NEW s, Good(s), Last(s) \in Bottom, NEW f \in Bottom
  PROVE  /\ Good(Append(Front(s), f))
         /\ Append(Front(s), f)[1] = f
         /\ ~Has(Append(Front(s), f), W)
         /\ ~Has(Append(Front(s), f), D)
         /\ ~Has(Append(Front(s), f), P)
<1>1. Append(Front(s), f) = <<f>>
  <2>1. Front(s) = <<>>
    BY Alone
  <2>. QED  BY <2>1
<1>2. <<f>> \in Seq(Frames) /\ Len(<<f>>) = 1 /\ <<f>>[1] = f
  BY FramesFacts
<1>3. f \notin W /\ f \notin D /\ f \notin P
  BY FramesFacts
<1>. QED  BY <1>1, <1>2, <1>3 DEF Good, Once, Has

------------------------------------------------------------------------------
(* The types *)

\* TypeOK without the stack, which Good describes.
DataOK ==
  /\ incoming \in Seq(Message) /\ batch \in Seq(Message) /\ handled \in Seq(Message)
  /\ io \in {"idle", "interrupt", "task", "notify"}
  /\ interrupts \in Nat /\ loopTasks \in Nat
  /\ posted \in 0 .. MaxMessages
  /\ state \in {"new", "accepting", "connected"}
  /\ dispatching \in BOOLEAN /\ waiting \in BOOLEAN /\ terminated \in BOOLEAN
  /\ nested \in BOOLEAN /\ session \in BOOLEAN /\ lost \in BOOLEAN /\ crashed \in BOOLEAN

LEMMA DataInit == Init => DataOK
<1>. SUFFICES ASSUME Init
              PROVE  DataOK
  OBVIOUS
<1>1. 0 \in Nat /\ 0 \in 0 .. MaxMessages /\ <<>> \in Seq(Message)
  BY ConstantsAssumption
<1>2. /\ dispatching \in BOOLEAN /\ waiting \in BOOLEAN /\ terminated \in BOOLEAN
      /\ nested \in BOOLEAN /\ session \in BOOLEAN /\ lost \in BOOLEAN /\ crashed \in BOOLEAN
  BY DEF Init
<1>3. /\ incoming \in Seq(Message) /\ batch \in Seq(Message) /\ handled \in Seq(Message)
      /\ interrupts \in Nat /\ loopTasks \in Nat /\ posted \in 0 .. MaxMessages
  BY <1>1, Zenon DEF Init
<1>. QED  BY <1>2, <1>3 DEF DataOK, Init

LEMMA CallKeepsTypes ==
  ASSUME DataOK, NEW s, CallDispatch(s)
  PROVE  incoming' \in Seq(Message) /\ batch' \in Seq(Message) /\ dispatching' \in BOOLEAN
<1>1. CASE dispatching \/ incoming = <<>>
  BY <1>1 DEF DataOK, CallDispatch
<1>2. CASE ~(dispatching \/ incoming = <<>>)
  <2>1. dispatching' = TRUE /\ batch' = incoming /\ incoming' = <<>>
    BY <1>2 DEF CallDispatch
  <2>2. <<>> \in Seq(Message)
    OBVIOUS
  <2>. QED  BY <2>1, <2>2 DEF DataOK
<1>. QED  BY <1>1, <1>2

LEMMA DataStep == DataOK /\ [Next]_vars => DataOK'
<1>. SUFFICES ASSUME DataOK, [Next]_vars
              PROVE  DataOK'
  OBVIOUS
<1>. USE DEF DataOK, ioVars, engine
<1>1. CASE AppendMessage
  <2>1. PICK kind \in Kinds \cup {"connect"} :
          incoming' = Append(incoming, [id |-> posted + 1, kind |-> kind])
    BY <1>1 DEF AppendMessage
  <2>2. posted + 1 \in 1 .. MaxMessages
    BY <1>1, ConstantsAssumption DEF AppendMessage
  <2>3. [id |-> posted + 1, kind |-> kind] \in Message
    BY <2>2 DEF Message
  <2>4. incoming' \in Seq(Message)
    BY <2>1, <2>3
  <2>. QED  BY <1>1, <2>2, <2>4 DEF AppendMessage
<1>2. CASE Post
  <2>1. CASE RequestInterrupt
    BY <2>1 DEF RequestInterrupt
  <2>2. CASE AddTask
    BY <2>2 DEF AddTask
  <2>3. CASE RacyAddTask
    BY <2>3 DEF RacyAddTask
  <2>4. CASE NotifyMessageReceived
    BY <2>4 DEF NotifyMessageReceived
  <2>. QED  BY <1>2, <2>1, <2>2, <2>3, <2>4 DEF Post
<1>3. CASE Wait \/ WakeSpuriously
  BY <1>3 DEF Wait, LookAtQueue, FallAsleep, WakeSpuriously
<1>4. CASE DispatchMessage
  <2>1. /\ Head(batch) \in Message /\ Tail(batch) \in Seq(Message)
        /\ Append(handled, Head(batch)) \in Seq(Message)
    BY <1>4 DEF DispatchMessage
  <2>2. CASE Connect(Head(batch))
    BY <1>4, <2>1, <2>2 DEF DispatchMessage, Connect
  <2>3. CASE Disconnect(Head(batch))
    BY <1>4, <2>1, <2>3 DEF DispatchMessage, Disconnect
  <2>4. CASE ToFrontendSession(Head(batch))
    BY <1>4, <2>1, <2>4 DEF DispatchMessage, ToFrontendSession
  <2>. QED  BY <1>4, <2>2, <2>3, <2>4 DEF DispatchMessage
<1>5. CASE DispatchAgain
  BY <1>5 DEF DispatchAgain
<1>6. CASE PauseWaits \/ PauseEnds
  BY <1>6 DEF PauseWaits, PauseEnds
<1>7. CASE PauseServes
  BY <1>7, CallKeepsTypes DEF PauseServes
<1>8. CASE StartAccepting \/ StartReturns
  BY <1>8 DEF StartAccepting, StartReturns
<1>9. CASE StartSpins
  BY <1>9, CallKeepsTypes DEF StartSpins
<1>10. CASE RunDispatchTask
  BY <1>10, CallKeepsTypes DEF RunDispatchTask
<1>11. CASE RunScript \/ JavaScriptReturns \/ RunMessageLoopOnPause
  BY <1>11 DEF RunScript, JavaScriptReturns, RunMessageLoopOnPause
<1>12. CASE InterruptCallback
  BY <1>12, CallKeepsTypes DEF InterruptCallback
<1>13. CASE UNCHANGED vars
  BY <1>13 DEF vars
<1>. QED
  BY <1>1, <1>2, <1>3, <1>4, <1>5, <1>6, <1>7, <1>8, <1>9, <1>10, <1>11, <1>12, <1>13
  DEF Next, Serve, Start

------------------------------------------------------------------------------
(* The stack and the flags *)

ThreadInv ==
  /\ Good(stack)
  /\ dispatching <=> Has(stack, D)
  /\ nested <=> Has(stack, P)
  /\ batch # <<>> => dispatching

\* Until Start has the first message, nothing but its wait is on the stack.
StartInv ==
  /\ stack[1] = "start" <=> state = "new"
  /\ state = "new" => ~Has(stack, W)

LEMMA ThreadInit == Init => ThreadInv /\ StartInv
<1>. SUFFICES ASSUME Init
              PROVE  ThreadInv /\ StartInv
  OBVIOUS
<1>1. stack = <<"start", "look">> /\ Len(stack) = 2
      /\ stack[1] = "start" /\ stack[2] = "look"
  BY DEF Init
<1>2. stack \in Seq(Frames) /\ stack # <<>>
  BY <1>1 DEF Frames
<1>3. \A i \in 1 .. Len(stack) : i = 1 \/ i = 2
  BY <1>1
<1>4. /\ stack[1] \in Bottom /\ stack[2] \notin Bottom
      /\ \A i \in 1 .. Len(stack) : stack[i] \notin W /\ stack[i] \notin D /\ stack[i] \notin P
  BY <1>1, <1>3 DEF Bottom, W, D, P
<1>5. Once(stack, Bottom) /\ Once(stack, D) /\ Once(stack, P)
  BY <1>3, <1>4 DEF Once
<1>6. ~Has(stack, W) /\ ~Has(stack, D) /\ ~Has(stack, P)
  BY <1>4 DEF Has
<1>. QED  BY <1>1, <1>2, <1>4, <1>5, <1>6 DEF ThreadInv, StartInv, Good, Init

\* A call of DispatchMessages, from a stack that is like the present one.
LEMMA CallOfDispatch ==
  ASSUME ThreadInv, NEW s, Good(s), Alike(stack, s), CallDispatch(s)
  PROVE  /\ Good(stack')
         /\ dispatching' <=> Has(stack', D)
         /\ Has(stack', P) <=> Has(stack, P)
         /\ Has(stack', W) => Has(s, W) \/ incoming # <<>>
         /\ stack'[1] = stack[1]
         /\ batch' # <<>> => dispatching'
<1>1. CASE dispatching \/ incoming = <<>>
  BY <1>1 DEF ThreadInv, Alike, CallDispatch
<1>2. CASE ~dispatching /\ incoming # <<>>
  <2>1. "dispatch" \in Frames \ Bottom /\ "dispatch" \in D /\ "dispatch" \notin P
    BY DEF Frames, Bottom, D, P
  <2>2. ~Has(s, D)
    BY <1>2 DEF ThreadInv, Alike
  <2>3. stack' = Append(s, "dispatch") /\ dispatching'
    BY <1>2 DEF CallDispatch
  <2>. QED  BY <1>2, <2>1, <2>2, <2>3, Push DEF Alike, ThreadInv
<1>. QED  BY <1>1, <1>2

\* What the innermost call tells about the whole stack.
LEMMA TopFacts ==
  ASSUME Good(stack), DataOK, StartInv
  PROVE  /\ Top \in W => Has(stack, W) /\ state # "new"
         /\ Top \in D => Has(stack, D)
         /\ Top \in P => Has(stack, P)
         /\ Top \in Bottom => stack[1] = Top /\ ~Has(stack, W)
<1>1. stack \in Seq(Frames) /\ stack # <<>>
  BY DEF Good
<1>2. /\ Last(stack) \in W => Has(stack, W)
      /\ Last(stack) \in D => Has(stack, D)
      /\ Last(stack) \in P => Has(stack, P)
  BY <1>1, PopKinds
<1>3. Last(stack) \in Bottom => stack[1] = Last(stack) /\ ~Has(stack, W)
  BY Alone
<1>. QED  BY <1>2, <1>3 DEF Top, StartInv

LEMMA ThreadStep ==
  DataOK /\ ThreadInv /\ StartInv /\ [Next]_vars => ThreadInv' /\ StartInv'
<1>. SUFFICES ASSUME DataOK, ThreadInv, StartInv, [Next]_vars
              PROVE  ThreadInv' /\ StartInv'
  OBVIOUS
<1>. DEFINE Kept(s) == /\ Good(s) /\ Alike(stack, s)
                       /\ Has(s, W) => state # "new"
            Plain    == Frames \ (Bottom \cup D \cup P)
<1>0. /\ Good(stack) /\ Kept(stack)
      /\ Top = Last(stack)
      /\ Top \in W => state # "new"
      /\ Top \in P => nested
  BY TopFacts DEF ThreadInv, StartInv, Alike, Top
\* Steps that change the stack, if at all, by calls that no flag counts.
<1>1. ASSUME Kept(stack'), UNCHANGED <<batch, dispatching, nested, state>>
      PROVE  ThreadInv' /\ StartInv'
  BY <1>1 DEF ThreadInv, StartInv, Alike
\* The calls of DispatchMessages.
<1>2. ASSUME NEW s, Kept(s), CallDispatch(s), state # "new",
             UNCHANGED <<nested, state>>
      PROVE  ThreadInv' /\ StartInv'
  BY <1>2, CallOfDispatch DEF ThreadInv, StartInv, Alike
\* Calls that no flag counts come and go.
<1>3. ASSUME Top \in Plain
      PROVE  Kept(Returned)
  BY <1>0, <1>3, Return DEF Alike, Returned, StartInv
<1>4. ASSUME NEW s, Kept(s), NEW f \in Plain, f \in W => state # "new"
      PROVE  Kept(Append(s, f))
  BY <1>4, Push DEF Alike
<1>5. /\ {"look", "falling", "asleep", "script", "evaluate"} \subseteq Plain
      /\ {"look", "falling", "asleep"} \cap W = {}
      /\ {"script", "evaluate"} \subseteq W
  BY DEF Frames, Bottom, D, P, W
<1>. HIDE DEF Kept, Plain
<1>6. CASE AppendMessage
  BY <1>0, <1>1, <1>6 DEF AppendMessage, engine
<1>7. CASE Post
  <2>1. CASE RequestInterrupt
    BY <1>0, <1>1, <2>1 DEF RequestInterrupt, engine
  <2>2. CASE AddTask
    BY <1>0, <1>1, <2>2 DEF AddTask, engine
  <2>3. CASE RacyAddTask
    BY <1>0, <1>1, <2>3 DEF RacyAddTask, engine
  <2>4. CASE NotifyMessageReceived
    BY <1>0, <1>1, <1>3, <1>5, <2>4 DEF NotifyMessageReceived, engine
  <2>. QED  BY <1>7, <2>1, <2>2, <2>3, <2>4 DEF Post
<1>8. CASE Wait \/ WakeSpuriously
  <2>1. CASE LookAtQueue
    <3>1. Kept(Returned) /\ Kept(Append(Returned, "falling"))
      BY <1>3, <1>4, <1>5, <2>1 DEF LookAtQueue
    <3>. QED  BY <1>1, <2>1, <3>1 DEF LookAtQueue, engine, Becomes, Returned
  <2>2. CASE FallAsleep
    <3>1. Kept(Append(Returned, "asleep"))
      BY <1>3, <1>4, <1>5, <2>2 DEF FallAsleep
    <3>. QED  BY <1>1, <2>2, <3>1 DEF FallAsleep, engine, Becomes, Returned
  <2>3. CASE WakeSpuriously
    BY <1>1, <1>3, <1>5, <2>3 DEF WakeSpuriously, engine
  <2>. QED  BY <1>8, <2>1, <2>2, <2>3 DEF Wait
<1>9. CASE DispatchMessage
  <2>1. Top \in W /\ Top \in D
    BY <1>9 DEF DispatchMessage, W, D
  <2>2. state # "new" /\ dispatching
    BY <2>1, TopFacts DEF ThreadInv
  <2>3. Kept(Append(stack, "evaluate"))
    BY <1>0, <1>4, <1>5, <2>2
  <2>4. Kept(stack')
    BY <1>0, <1>9, <2>3 DEF DispatchMessage, Connect, Disconnect, ToFrontendSession
  <2>5. state' # "new" /\ UNCHANGED <<dispatching, nested>>
    BY <1>9, <2>2 DEF DispatchMessage, Connect, Disconnect, ToFrontendSession
  <2>. QED  BY <2>2, <2>4, <2>5 DEF ThreadInv, StartInv, Kept, Alike
<1>10. CASE DispatchAgain
  <2>1. Top \in W /\ Top \in D /\ Top \notin Bottom /\ Top \notin P
    BY <1>10 DEF DispatchAgain, W, D, Bottom, P
  <2>2. state # "new" /\ dispatching
    BY <2>1, TopFacts DEF ThreadInv
  <2>3. CASE incoming = <<>>
    <3>1. stack' = Front(stack) /\ ~dispatching' /\ batch' = <<>> /\ UNCHANGED <<nested, state>>
      BY <1>10, <2>3 DEF DispatchAgain, Returned, engine
    <3>. QED  BY <1>0, <2>1, <2>2, <3>1, Return DEF ThreadInv, StartInv
  <2>4. CASE incoming # <<>>
    BY <1>10, <2>2, <2>4 DEF DispatchAgain, engine, ThreadInv, StartInv
  <2>. QED  BY <2>3, <2>4
<1>11. CASE PauseWaits \/ PauseServes \/ PauseEnds
  <2>1. Top \in W /\ Top \in P /\ Top \notin Bottom /\ Top \notin D
    BY <1>11 DEF PauseWaits, PauseServes, PauseEnds, W, D, Bottom, P
  <2>2. state # "new" /\ nested
    BY <1>0, <2>1
  <2>3. /\ Good(Front(stack)) /\ Front(stack)[1] = stack[1]
        /\ Has(Front(stack), D) <=> Has(stack, D)
        /\ ~Has(Front(stack), P)
    BY <1>0, <2>1, Return
  <2>4. ASSUME NEW f \in P
        PROVE  Kept(Becomes(f))
    <3>1. f \in Frames \ Bottom /\ f \notin D
      BY DEF P, D, Frames, Bottom
    <3>. QED  BY <2>2, <2>3, <3>1, Push DEF Kept, Alike, Becomes, ThreadInv
  <2>5. CASE PauseWaits
    <3>1. Kept(Append(Becomes("serve"), "look"))
      BY <1>4, <1>5, <2>4 DEF P
    <3>2. Becomes("serve") \o <<"look">> = Append(Becomes("serve"), "look")
      BY <2>4 DEF Kept, Good, P
    <3>. QED  BY <1>1, <2>5, <3>1, <3>2 DEF PauseWaits, engine
  <2>6. CASE PauseServes
    <3>1. Kept(Becomes("pause"))
      BY <2>4 DEF P
    <3>. QED  BY <1>2, <2>2, <2>6, <3>1 DEF PauseServes, engine
  <2>7. CASE PauseEnds
    BY <2>2, <2>3, <2>7 DEF PauseEnds, Returned, ThreadInv, StartInv
  <2>. QED  BY <1>11, <2>5, <2>6, <2>7
<1>12. CASE Start
  <2>1. Top \in Bottom /\ stack[1] = Top /\ ~Has(stack, W)
    BY <1>0, <1>12, TopFacts DEF Start, StartAccepting, StartSpins, StartReturns, Bottom
  <2>2. ~dispatching /\ ~nested /\ batch = <<>>
    BY <2>1, FramesFacts DEF ThreadInv, Has
  <2>3. ASSUME NEW f \in Bottom
        PROVE  /\ Good(Becomes(f)) /\ Becomes(f)[1] = f
               /\ ~Has(Becomes(f), W) /\ ~Has(Becomes(f), D) /\ ~Has(Becomes(f), P)
    BY <1>0, <2>1, BottomMoves DEF Becomes
  <2>4. CASE StartAccepting
    BY <2>2, <2>3, <2>4 DEF StartAccepting, ThreadInv, StartInv, Bottom
  <2>5. CASE StartReturns
    BY <2>1, <2>2, <2>3, <2>5 DEF StartReturns, ThreadInv, StartInv, Bottom, engine
  <2>6. CASE StartSpins
    BY <1>0, <1>2, <2>1, <2>6 DEF StartSpins, StartInv, engine
  <2>. QED  BY <1>12, <2>4, <2>5, <2>6 DEF Start
<1>13. CASE RunDispatchTask \/ RunScript
  <2>1. Top = "loop" /\ stack[1] = Top /\ state # "new"
    BY <1>0, <1>13, TopFacts DEF RunDispatchTask, RunScript, Bottom, StartInv
  <2>2. CASE RunDispatchTask
    BY <1>0, <1>2, <2>1, <2>2 DEF RunDispatchTask, engine
  <2>3. CASE RunScript
    BY <1>0, <1>1, <1>4, <1>5, <2>1, <2>3 DEF RunScript, engine
  <2>. QED  BY <1>13, <2>2, <2>3
<1>14. CASE JavaScriptReturns \/ InterruptCallback
  <2>1. Top \in Plain /\ state # "new"
    BY <1>0, <1>5, <1>14 DEF JavaScriptReturns, InterruptCallback, InJavaScript
  <2>2. CASE JavaScriptReturns
    BY <1>1, <1>3, <2>1, <2>2 DEF JavaScriptReturns, engine
  <2>3. CASE InterruptCallback
    BY <1>0, <1>2, <2>1, <2>3 DEF InterruptCallback, engine
  <2>. QED  BY <1>14, <2>2, <2>3
<1>15. CASE RunMessageLoopOnPause
  <2>1. state # "new" /\ ~Has(stack, P)
    BY <1>0, <1>5, <1>15 DEF RunMessageLoopOnPause, InJavaScript, ThreadInv
  <2>2. "pause" \in Frames \ Bottom /\ "pause" \in P /\ "pause" \notin D
    BY DEF Frames, Bottom, P, D
  <2>3. /\ stack' = Append(stack, "pause") /\ nested'
        /\ UNCHANGED <<batch, dispatching, state>>
    BY <1>15 DEF RunMessageLoopOnPause
  <2>. QED  BY <1>0, <2>1, <2>2, <2>3, Push DEF ThreadInv, StartInv
<1>16. CASE UNCHANGED vars
  BY <1>16 DEF vars, engine, ThreadInv, StartInv
<1>. QED
  BY <1>6, <1>7, <1>8, <1>9, <1>10, <1>11, <1>12, <1>13, <1>14, <1>15, <1>16
  DEF Next, Serve
------------------------------------------------------------------------------
(* The messages: three ways in which a step can touch them *)

Waiting == batch \o incoming

Still == UNCHANGED <<Waiting, handled, posted>>

Arrives(m) ==
  /\ m.id = posted + 1
  /\ posted = 0 => m.kind = "connect"
  /\ Waiting' = Append(Waiting, m)
  /\ posted' = posted + 1
  /\ UNCHANGED handled

Leaves ==
  /\ Waiting # <<>>
  /\ handled' = Append(handled, Head(Waiting))
  /\ Waiting' = Tail(Waiting)
  /\ UNCHANGED posted

\* A dispatch takes the queue as it is: there was no batch before.
LEMMA CallTakesQueue ==
  ASSUME DataOK, ThreadInv, NEW s, CallDispatch(s), UNCHANGED <<handled, posted>>
  PROVE  Still
<1>1. CASE dispatching \/ incoming = <<>>
  BY <1>1 DEF CallDispatch, Still, Waiting
<1>2. CASE ~(dispatching \/ incoming = <<>>)
  <2>1. batch = <<>> /\ batch' = incoming /\ incoming' = <<>>
    BY <1>2 DEF ThreadInv, CallDispatch
  <2>2. batch' \o incoming' = batch \o incoming
    BY <2>1 DEF DataOK
  <2>. QED  BY <2>2 DEF Still, Waiting
<1>. QED  BY <1>1, <1>2

LEMMA MessagesMove ==
  DataOK /\ ThreadInv /\ [Next]_vars => Still \/ (\E m \in Message : Arrives(m)) \/ Leaves
<1>. SUFFICES ASSUME DataOK, ThreadInv, [Next]_vars
              PROVE  Still \/ (\E m \in Message : Arrives(m)) \/ Leaves
  OBVIOUS
<1>0. incoming \in Seq(Message) /\ batch \in Seq(Message)
  BY DEF DataOK
<1>1. ASSUME UNCHANGED <<incoming, batch, handled, posted>>
      PROVE  Still
  BY <1>1 DEF Still, Waiting
<1>2. CASE AppendMessage
  <2>1. PICK kind \in IF posted = 0 THEN {"connect"} ELSE Kinds :
          incoming' = Append(incoming, [id |-> posted + 1, kind |-> kind])
    BY <1>2 DEF AppendMessage
  <2>. DEFINE m == [id |-> posted + 1, kind |-> kind]
  <2>2. kind \in Kinds \cup {"connect"} /\ (posted = 0 => kind = "connect")
    BY <2>1
  <2>3. posted + 1 \in 1 .. MaxMessages
    BY <1>2, ConstantsAssumption DEF AppendMessage, DataOK
  <2>4. m \in Message /\ m.id = posted + 1 /\ m.kind = kind
    BY <2>2, <2>3 DEF Message
  <2>5. UNCHANGED <<batch, handled>> /\ posted' = posted + 1
    BY <1>2 DEF AppendMessage, engine
  <2>. HIDE DEF m
  <2>6. batch \o Append(incoming, m) = Append(batch \o incoming, m)
    BY <1>0, <2>4, QueueInTwoParts
  <2>7. Arrives(m)
    BY <2>1, <2>2, <2>4, <2>5, <2>6 DEF Arrives, Waiting, m
  <2>. QED  BY <2>4, <2>7
<1>3. CASE DispatchMessage
  <2>1. /\ batch # <<>> /\ batch' = Tail(batch) /\ handled' = Append(handled, Head(batch))
        /\ UNCHANGED <<incoming, posted>>
    BY <1>3 DEF DispatchMessage, ioVars
  <2>2. /\ batch \o incoming # <<>> /\ Head(batch \o incoming) = Head(batch)
        /\ Tail(batch \o incoming) = Tail(batch) \o incoming
    <3>1. Head(batch) \in Message
      BY <1>0, <2>1
    <3>. QED  BY <1>0, <2>1, <3>1, QueueInTwoParts
  <2>. QED  BY <2>1, <2>2 DEF Leaves, Waiting
<1>4. CASE DispatchAgain
  <2>1. batch = <<>> /\ batch' = incoming /\ incoming' = <<>> /\ UNCHANGED <<handled, posted>>
    BY <1>4 DEF DispatchAgain, engine, ioVars
  <2>2. batch' \o incoming' = batch \o incoming
    BY <1>0, <2>1
  <2>. QED  BY <2>1, <2>2 DEF Still, Waiting
<1>5. CASE StartSpins
  BY <1>5, CallTakesQueue DEF StartSpins, ioVars, engine
<1>6. CASE RunDispatchTask
  BY <1>6, CallTakesQueue DEF RunDispatchTask, engine
<1>7. CASE InterruptCallback
  BY <1>7, CallTakesQueue DEF InterruptCallback, engine
<1>8. CASE PauseServes
  BY <1>8, CallTakesQueue DEF PauseServes, ioVars, engine
<1>9. CASE Post
  BY <1>1, <1>9 DEF Post, RequestInterrupt, AddTask, RacyAddTask, NotifyMessageReceived, engine
<1>10. CASE Wait \/ WakeSpuriously
  BY <1>1, <1>10 DEF Wait, LookAtQueue, FallAsleep, WakeSpuriously, ioVars, engine
<1>11. CASE PauseWaits \/ PauseEnds
  BY <1>1, <1>11 DEF PauseWaits, PauseEnds, ioVars, engine
<1>12. CASE StartAccepting \/ StartReturns
  BY <1>1, <1>12 DEF StartAccepting, StartReturns, ioVars, engine
<1>13. CASE RunScript \/ JavaScriptReturns \/ RunMessageLoopOnPause
  BY <1>1, <1>13 DEF RunScript, JavaScriptReturns, RunMessageLoopOnPause, ioVars, engine
<1>14. CASE UNCHANGED vars
  BY <1>1, <1>14 DEF vars, ioVars, engine
<1>. QED
  BY <1>2, <1>3, <1>4, <1>5, <1>6, <1>7, <1>8, <1>9, <1>10, <1>11, <1>12, <1>13, <1>14
  DEF Next, Serve, Start

------------------------------------------------------------------------------
(* The log of the session, and what the session's state says of it *)

Log == handled \o Waiting

\* Every message posted is in the log, at its place; the first is the server's
\* TAG_CONNECT.
LogInv ==
  /\ Len(Log) = posted
  /\ \A i \in 1 .. posted : Log[i].id = i /\ (i = 1 => Log[i].kind = "connect")

LEMMA LogInit == Init => LogInv
<1>. SUFFICES ASSUME Init
              PROVE  LogInv
  OBVIOUS
<1>1. posted = 0 /\ Log = <<>>
  BY DEF Init, Log, Waiting
<1>. QED  BY <1>1 DEF LogInv

LEMMA LogStep == DataOK /\ ThreadInv /\ LogInv /\ [Next]_vars => LogInv'
<1>. SUFFICES ASSUME DataOK, ThreadInv, LogInv, [Next]_vars
              PROVE  LogInv'
  OBVIOUS
<1>1. handled \in Seq(Message) /\ Waiting \in Seq(Message) /\ posted \in Nat
  BY ConcatProperties DEF DataOK, Waiting
<1>2. Log \in Seq(Message)
  BY <1>1 DEF Log
<1>3. CASE Still
  BY <1>3 DEF Still, LogInv, Log
<1>4. ASSUME NEW m \in Message, Arrives(m)
      PROVE  LogInv'
  <2>1. Log' = Append(Log, m)
    BY <1>1, <1>4, QueueInTwoParts DEF Arrives, Log
  <2>2. Len(Log') = posted' /\ posted' = posted + 1
    <3>1. Len(Log) = posted /\ posted' = posted + 1
      BY <1>4 DEF Arrives, LogInv
    <3>2. Len(Append(Log, m)) = Len(Log) + 1
      BY <1>2, PushProperties
    <3>. QED  BY <2>1, <3>1, <3>2
  <2>3. /\ \A i \in 1 .. posted : Log'[i] = Log[i]
        /\ Log'[posted + 1] = m
    <3>1. Len(Log) = posted
      BY DEF LogInv
    <3>2. \A i \in 1 .. Len(Log) + 1 : Append(Log, m)[i] = IF i <= Len(Log) THEN Log[i] ELSE m
      BY <1>2, PushProperties
    <3>. QED  BY <1>1, <2>1, <3>1, <3>2
  <2>. QED  BY <1>1, <1>4, <2>2, <2>3 DEF LogInv, Arrives
<1>5. CASE Leaves
  <2>1. Log' = Log
    BY <1>1, <1>5, LogOfQueue DEF Leaves, Log
  <2>. QED  BY <1>5, <2>1 DEF LogInv, Leaves
<1>. QED  BY <1>3, <1>4, <1>5, MessagesMove

\* A frontend's message had the text of a tag.
TagForged == \E i \in DOMAIN handled : Forged(handled[i])

\* Until that happens, state_ and session_ tell that TAG_CONNECT was handled,
\* and no CHECK has failed.
Unforged ==
  /\ state = "connected" <=> session
  /\ session <=> handled # <<>>
  /\ ~waiting => session
  /\ crashed => lost

SessionInv == TagForged \/ Unforged

LEMMA SessionInit == Init => SessionInv
BY DEF Init, SessionInv, Unforged

\* The message that is handled next: the first one is the server's TAG_CONNECT,
\* and any other tag is a frontend's.
LEMMA NextHandled ==
  ASSUME DataOK, LogInv, batch # <<>>
  PROVE  /\ handled = <<>> => Head(batch).kind = "connect"
         /\ handled # <<>> /\ Head(batch).kind \in Tags => Forged(Head(batch))
<1>1. /\ handled \in Seq(Message) /\ batch \in Seq(Message) /\ incoming \in Seq(Message)
      /\ Waiting \in Seq(Message) /\ Head(batch) \in Message
  BY ConcatProperties DEF DataOK, Waiting
<1>2. Waiting # <<>> /\ Head(Waiting) = Head(batch)
  BY <1>1, QueueInTwoParts DEF Waiting
<1>3. Len(handled) + 1 \in 1 .. Len(Log) /\ Log[Len(handled) + 1] = Waiting[1]
  BY <1>1, <1>2 DEF Log
<1>4. Log[Len(handled) + 1] = Head(batch)
  BY <1>1, <1>2, <1>3
<1>5. /\ Head(batch).id = Len(handled) + 1
      /\ Len(handled) + 1 = 1 => Head(batch).kind = "connect"
  BY <1>3, <1>4 DEF LogInv
<1>6. Len(handled) \in Nat /\ (Len(handled) = 0 <=> handled = <<>>)
  BY <1>1
<1>. QED  BY <1>5, <1>6 DEF Forged

\* A tag that was forged stays in the record.
LEMMA ForgedGrows ==
  ASSUME DataOK, NEW m \in Message, handled' = Append(handled, m)
  PROVE  /\ TagForged => TagForged'
         /\ Forged(m) => TagForged'
         /\ handled' # <<>>
<1>1. /\ Len(handled') = Len(handled) + 1 /\ DOMAIN handled' = 1 .. Len(handled) + 1
      /\ handled'[Len(handled) + 1] = m
      /\ \A i \in 1 .. Len(handled) : handled'[i] = handled[i]
      /\ Len(handled) \in Nat /\ DOMAIN handled = 1 .. Len(handled)
  BY PushProperties DEF DataOK
<1>2. TagForged => TagForged'
  BY <1>1 DEF TagForged, Forged
<1>3. Forged(m) => TagForged'
  <2>1. Len(handled) + 1 \in DOMAIN handled'
    BY <1>1
  <2>. QED  BY <1>1, <2>1 DEF TagForged, Forged
<1>. QED  BY <1>1, <1>2, <1>3

LEMMA SessionStep ==
  DataOK /\ ThreadInv /\ StartInv /\ LogInv /\ SessionInv /\ [Next]_vars => SessionInv'
<1>. SUFFICES ASSUME DataOK, ThreadInv, StartInv, LogInv, SessionInv, [Next]_vars
              PROVE  SessionInv'
  OBVIOUS
<1>0. Good(stack)
  BY DEF ThreadInv
<1>1. ASSUME UNCHANGED <<waiting, state, session, handled, crashed>>, lost => lost'
      PROVE  SessionInv'
  BY <1>1 DEF SessionInv, Unforged, TagForged, Forged
<1>2. CASE RacyAddTask
  BY <1>2 DEF RacyAddTask, SessionInv, Unforged, TagForged, Forged, engine
<1>3. CASE DispatchMessage
  <2>. DEFINE m == Head(batch)
  <2>1. /\ batch # <<>> /\ ~crashed /\ handled' = Append(handled, m)
        /\ UNCHANGED lost /\ m \in Message
    BY <1>3 DEF DispatchMessage, ioVars, DataOK
  <2>2. /\ TagForged => TagForged'
        /\ Forged(m) => TagForged'
        /\ handled' # <<>>
    BY <2>1, ForgedGrows
  <2>3. state # "new"
    BY <1>0, <1>3, TopFacts DEF DispatchMessage, W
  <2>4. /\ handled = <<>> => m.kind = "connect"
        /\ handled # <<>> /\ m.kind \in Tags => Forged(m)
    BY <2>1, NextHandled
  <2>5. CASE TagForged \/ Forged(m)
    BY <2>2, <2>5 DEF SessionInv
  <2>6. CASE Unforged /\ ~Forged(m)
    <3>. HIDE DEF m
    <3>1. CASE Connect(m)
      <4>1. handled = <<>>
        BY <2>4, <2>6, <3>1 DEF Connect, Tags
      <4>2. state = "accepting"
        BY <2>3, <2>6, <4>1 DEF Unforged, DataOK
      <4>. QED  BY <2>1, <2>2, <3>1, <4>2 DEF Connect, SessionInv, Unforged
    <3>2. CASE Disconnect(m)
      BY <2>4, <2>6, <3>2 DEF Disconnect, Tags
    <3>3. CASE ToFrontendSession(m)
      <4>1. session
        BY <2>4, <2>6, <3>3 DEF ToFrontendSession, Tags, Unforged
      <4>. QED  BY <2>1, <2>2, <2>6, <3>3, <4>1 DEF ToFrontendSession, SessionInv, Unforged
    <3>. QED  BY <1>3, <3>1, <3>2, <3>3 DEF DispatchMessage, m
  <2>. QED  BY <2>5, <2>6 DEF SessionInv
<1>4. CASE StartAccepting
  <2>1. state = "new"
    BY <1>0, <1>4, TopFacts DEF StartAccepting, StartInv, Bottom
  <2>2. UNCHANGED <<handled, waiting, session, crashed, lost>> /\ state' = "accepting"
    BY <1>4 DEF StartAccepting, ioVars
  <2>. QED  BY <2>1, <2>2 DEF SessionInv, Unforged, TagForged, Forged
<1>5. CASE StartReturns
  <2>1. /\ UNCHANGED <<handled, waiting, session, state, lost>>
        /\ ~waiting /\ crashed' = ~session
    BY <1>5 DEF StartReturns, engine, ioVars
  <2>. QED  BY <2>1 DEF SessionInv, Unforged, TagForged, Forged
<1>6. CASE AppendMessage \/ RequestInterrupt \/ AddTask \/ NotifyMessageReceived
  BY <1>1, <1>6 DEF AppendMessage, RequestInterrupt, AddTask, NotifyMessageReceived, engine
<1>7. CASE Wait \/ WakeSpuriously
  BY <1>1, <1>7 DEF Wait, LookAtQueue, FallAsleep, WakeSpuriously, ioVars, engine
<1>8. CASE DispatchAgain \/ StartSpins
  BY <1>1, <1>8 DEF DispatchAgain, StartSpins, ioVars, engine
<1>9. CASE PauseWaits \/ PauseServes \/ PauseEnds
  BY <1>1, <1>9 DEF PauseWaits, PauseServes, PauseEnds, ioVars, engine
<1>10. CASE RunDispatchTask \/ RunScript \/ JavaScriptReturns
  BY <1>1, <1>10 DEF RunDispatchTask, RunScript, JavaScriptReturns, ioVars, engine
<1>11. CASE InterruptCallback \/ RunMessageLoopOnPause
  BY <1>1, <1>11 DEF InterruptCallback, RunMessageLoopOnPause, ioVars, engine
<1>12. CASE UNCHANGED vars
  BY <1>1, <1>12 DEF vars, ioVars, engine
<1>. QED
  BY <1>2, <1>3, <1>4, <1>5, <1>6, <1>7, <1>8, <1>9, <1>10, <1>11, <1>12
  DEF Next, Post, Serve, Start

------------------------------------------------------------------------------
(* Theorems *)

IInv == DataOK /\ ThreadInv /\ StartInv /\ LogInv /\ SessionInv

\* The conjunction is inductive: each part needs those before it.
LEMMA Invariance == Spec => []IInv
<1>1. Init => IInv
  BY DataInit, ThreadInit, LogInit, SessionInit DEF IInv
<1>2. IInv /\ [Next]_vars => IInv'
  BY DataStep, ThreadStep, LogStep, SessionStep DEF IInv
<1>. QED  BY <1>1, <1>2, PTL DEF Spec

\* Every variable of the agent has its type, for any number of messages.
THEOREM TypeCorrect == Spec => []TypeOK
<1>1. IInv => TypeOK
  BY DEF IInv, DataOK, ThreadInv, Good, TypeOK
<1>. QED  BY <1>1, Invariance, PTL

\* The flags of AgentImpl tell what is on the JavaScript thread's stack, and
\* neither DispatchMessages nor the nested loop is ever on it twice.
THEOREM FlagsAlwaysMatch == Spec => []FlagsMatchStack
<1>1. IInv => FlagsMatchStack
  <2>. SUFFICES ASSUME IInv
                PROVE  FlagsMatchStack
    OBVIOUS
  <2>1. stack \in Seq(Frames) /\ DOMAIN stack = 1 .. Len(stack)
    BY DEF IInv, ThreadInv, Good
  <2>2. ASSUME NEW K
        PROVE  /\ Calls(K) # {} <=> Has(stack, K)
               /\ Once(stack, K) => \A i, j \in Calls(K) : i = j
    BY <2>1 DEF Calls, Has, Once
  <2>. QED  BY <2>2 DEF IInv, ThreadInv, Good, FlagsMatchStack, D, P
<1>. QED  BY <1>1, Invariance, PTL

\* The CHECK_EQs of both tags hold and session_ is never used while it is not
\* set, unless a frontend sent the text of a tag: otherwise the process dies of
\* the unsynchronised push alone.
THEOREM ChecksAlwaysHold == Spec => []ChecksHold
<1>1. IInv => ChecksHold
  BY DEF IInv, SessionInv, Unforged, TagForged, ChecksHold
<1>. QED  BY <1>1, Invariance, PTL

\* A message in the queue always has a dispatch on its way, although only the
\* message that found the queue empty asked for one.
THEOREM DispatchAlwaysComing == Spec => []DispatchIsComing
<1>1. Init => DispatchIsComing
  BY DEF Init, DispatchIsComing
<1>2. DataOK /\ DispatchIsComing /\ [Next]_vars => DispatchIsComing'
  <2>. SUFFICES ASSUME DataOK, DispatchIsComing, [Next]_vars
                PROVE  DispatchIsComing'
    OBVIOUS
  <2>. USE DEF DispatchIsComing
  <2>1. ASSUME NEW s, CallDispatch(s)
        PROVE  incoming' = <<>> \/ dispatching'
    BY <2>1 DEF CallDispatch
  <2>2. CASE AppendMessage
    BY <2>2 DEF AppendMessage
  <2>3. CASE RequestInterrupt
    BY <2>3 DEF RequestInterrupt, DataOK
  <2>4. CASE AddTask
    BY <2>4 DEF AddTask, DataOK
  <2>5. CASE RacyAddTask \/ NotifyMessageReceived
    BY <2>5 DEF RacyAddTask, NotifyMessageReceived
  <2>6. CASE Wait \/ WakeSpuriously
    BY <2>6 DEF Wait, LookAtQueue, FallAsleep, WakeSpuriously, ioVars
  <2>7. CASE DispatchMessage
    BY <2>7 DEF DispatchMessage, ioVars
  <2>8. CASE DispatchAgain
    BY <2>8 DEF DispatchAgain
  <2>9. CASE PauseWaits \/ PauseEnds
    BY <2>9 DEF PauseWaits, PauseEnds, ioVars
  <2>10. CASE StartSpins \/ PauseServes \/ RunDispatchTask \/ InterruptCallback
    BY <2>1, <2>10 DEF StartSpins, PauseServes, RunDispatchTask, InterruptCallback
  <2>11. CASE StartAccepting \/ StartReturns
    BY <2>11 DEF StartAccepting, StartReturns, ioVars
  <2>12. CASE RunScript \/ JavaScriptReturns \/ RunMessageLoopOnPause
    BY <2>12 DEF RunScript, JavaScriptReturns, RunMessageLoopOnPause, ioVars
  <2>13. CASE UNCHANGED vars
    BY <2>13 DEF vars, ioVars
  <2>. QED
    BY <2>2, <2>3, <2>4, <2>5, <2>6, <2>7, <2>8, <2>9, <2>10, <2>11, <2>12, <2>13
    DEF Next, Post, Serve, Start
<1>3. IInv => DataOK
  BY DEF IInv
<1>. QED  BY <1>1, <1>2, <1>3, Invariance, PTL DEF Spec

\* The agent is a pipe that does not break: what is in the queue and in the
\* batch comes out in the order in which it was posted, each message once.
THEOREM AgentIsPipe == Spec => PipeSpec
<1>1. Init => Pipe!Init
  BY DEF Init, Pipe!Init
<1>2. IInv /\ [Next]_vars => [Pipe!Next]_(Pipe!vars)
  <2>. SUFFICES ASSUME IInv, [Next]_vars
                PROVE  [Pipe!Next]_(Pipe!vars)
    OBVIOUS
  <2>1. CASE Still
    BY <2>1 DEF Still, Waiting, Pipe!vars
  <2>2. ASSUME NEW m \in Message, Arrives(m)
        PROVE  Pipe!Next
    BY <2>2 DEF Arrives, Waiting, Pipe!Next, Pipe!Accept
  <2>3. CASE Leaves
    BY <2>3 DEF Leaves, Waiting, Pipe!Next, Pipe!Deliver
  <2>. QED  BY <2>1, <2>2, <2>3, MessagesMove DEF IInv
<1>. QED  BY <1>1, <1>2, Invariance, PTL DEF Spec, PipeSpec, Pipe!Spec
=============================================================================
