--------------------------- MODULE PromisesProofs ---------------------------
(***************************************************************************)
(* Proofs about Promises, for any number of promises, frames and calls.    *)
(*                                                                         *)
(* A promise that Then or Catch made is in one place at a time: among the  *)
(* reactions of its source, in a microtask, or in a frame of its callback. *)
(* What each place says of it is WaitOK, JobOK and FrameOK; that it is in  *)
(* one at most follows from them, because a source that is waited for is   *)
(* pending, one with a microtask is settled, and a callback was called.    *)
(***************************************************************************)
EXTENDS Promises, SequenceTheorems, TLAPS

\* What is below the top of the stack stays when the top is taken off.
LEMMA PopProperties ==
  ASSUME NEW T, NEW s \in Seq(T), s # <<>>
  PROVE  /\ Front(s) \in Seq(T)
         /\ Len(Front(s)) = Len(s) - 1
         /\ \A i \in 1 .. Len(s) - 1 : Front(s)[i] = s[i]
         /\ Last(s) = s[Len(s)]
         /\ Last(s) \in T
<1>1. Len(s) \in Nat /\ Len(s) >= 1
  OBVIOUS
<1>2. \A i \in 1 .. Len(s) : s[i] \in T
  OBVIOUS
<1>. DEFINE n == Len(s) - 1
<1>3. n \in 0 .. Len(s)
  BY <1>1
<1>4. /\ SubSeq(s, 1, n) \in Seq(T)
      /\ Len(SubSeq(s, 1, n)) = n
      /\ \A i \in 1 .. n : SubSeq(s, 1, n)[i] = s[i]
  <2>. HIDE DEF n
  <2>. QED  BY <1>3
<1>. QED  BY <1>1, <1>2, <1>4 DEF Front, Last

\* p waits among the reactions of q.
WaitOK(q, p) ==
  /\ state[q] = "pending" /\ state[p] = "pending"
  /\ Derived(p) /\ reg[p].src = q /\ ~reg[p].late
  /\ reg[p].kind # "follow" => calls[p] = 0

\* A microtask has the result v for p.
JobOK(p, v) ==
  /\ Source(p) = v /\ state[p] = "pending"
  /\ Derived(p) /\ ~reg[p].late
  /\ reg[p].kind # "follow" => calls[p] = 0

\* The frame f, when it is of a callback of promise f.for.  V8 has made the
\* promise already, Then and Catch have not.
FrameOK(f) ==
  f.for # 0 =>
    /\ f.kind = "callback" /\ f.for \in P
    /\ reg[f.for].kind \in {"then", "catch"} /\ calls[f.for] = 1 /\ Applies(f.for)
    /\ f.via = "job" => state[f.for] = "pending" /\ ~reg[f.for].late
    /\ f.via # "job" => state[f.for] = "none"

\* p and q are different, and of the same source first come, first served.
Ordered(p, q) ==
  /\ p # q
  /\ reg[p].src = reg[q].src /\ reg[p].kind # "follow" /\ reg[q].kind # "follow" => p < q

KnownOK(p) ==
  /\ p > made => state[p] = "none" /\ reg[p] = NoReg /\ calls[p] = 0
  /\ p \in resolvers => p <= made /\ reg[p] = NoReg
  /\ Derived(p) => /\ reg[p].src \in P /\ Source(p) # "none"
                   /\ reg[p].late => reg[p].kind # "follow" /\ Source(p) \in Settled
KnownInv == \A p \in P : KnownOK(p)

WaitInv ==
  \A q \in P :
    /\ \A i \in 1 .. Len(reactions[q]) : WaitOK(q, reactions[q][i])
    /\ \A i, j \in 1 .. Len(reactions[q]) : i < j => Ordered(reactions[q][i], reactions[q][j])

JobInv ==
  /\ \A i \in 1 .. Len(jobs) : JobOK(jobs[i].for, jobs[i].v)
  /\ \A i, j \in 1 .. Len(jobs) : i < j => Ordered(jobs[i].for, jobs[j].for)

FrameInv ==
  /\ \A i \in 1 .. Len(stack) : FrameOK(stack[i])
  /\ \A i, j \in 1 .. Len(stack) : stack[i].for # 0 /\ stack[i].for = stack[j].for => i = j

\* What is called by what.
Shape(s) ==
  \A i \in 1 .. Len(s) :
    /\ s[i].kind \in {"task", "script"} => i = 1
    /\ s[i].kind = "host" => i > 1 /\ s[i - 1].kind \in JavaScript
    /\ s[i].kind = "callback" /\ s[i].via # "job" /\ i > 1 => s[i - 1].kind \in {"task", "host"}

\* The exception of the host function at height h has JavaScript to return to.
Caught(s, h) == h \in 2 .. Len(s) /\ s[h].kind = "host" /\ s[h - 1].kind \in JavaScript

StackInv == Shape(stack) /\ (scheduled # 0 => Caught(stack, scheduled))

\* The three places, in one word each.
Waiting(p) == \E i \in 1 .. Len(reactions[reg[p].src]) : reactions[reg[p].src][i] = p
Queued(p)  == \E i \in 1 .. Len(jobs) : jobs[i].for = p
Running(p) == \E i \in 1 .. Len(stack) : stack[i].kind = "callback" /\ stack[i].for = p

ReasonOK(p) ==
  state[p] = "pending" /\ Derived(p) =>
    (Source(p) = "pending" /\ Waiting(p)) \/ Queued(p) \/ Running(p) \/ Orphan(p)
ReasonInv == \A p \in P : ReasonOK(p)

OutcomeOK(p) ==
  /\ calls[p] <= 1
  /\ reg[p].kind \in {"then", "catch"} /\ calls[p] = 1 => Applies(p)
  /\ Derived(p) /\ state[p] \in Settled /\ (calls[p] = 0 \/ reg[p].kind = "follow")
       => state[p] = Source(p)
OutcomeInv == \A p \in P : OutcomeOK(p)

IInv ==
  TypeOK /\ KnownInv /\ WaitInv /\ JobInv /\ FrameInv /\ StackInv /\ ReasonInv /\ OutcomeInv


------------------------------------------------------------------------------
(* Sequences of jobs and frames *)

\* The microtasks that a result makes of the reactions.
LEMMA JobsProperties ==
  ASSUME reactions \in [P -> Seq(P)], NEW p \in P, NEW v \in Settled
  PROVE  /\ Jobs(p, v) \in Seq(Microtasks)
         /\ Len(Jobs(p, v)) = Len(reactions[p])
         /\ \A i \in 1 .. Len(reactions[p]) : Jobs(p, v)[i] = [for |-> reactions[p][i], v |-> v]
<1>. DEFINE r == reactions[p]
<1>1. r \in Seq(P) /\ Len(r) \in Nat /\ DOMAIN r = 1 .. Len(r) /\ \A i \in 1 .. Len(r) : r[i] \in P
  BY LenProperties, ElementOfSeq
<1>2. Jobs(p, v) = [i \in 1 .. Len(r) |-> [for |-> r[i], v |-> v]]
  BY <1>1 DEF Jobs
<1>. HIDE DEF r
<1>3. Jobs(p, v) \in [1 .. Len(r) -> Microtasks]
  BY <1>1, <1>2 DEF Microtasks
<1>4. \A n \in Nat : \A f \in [1 .. n -> Microtasks] : f \in Seq(Microtasks) /\ Len(f) = n
  OBVIOUS
<1>5. Jobs(p, v) \in Seq(Microtasks) /\ Len(Jobs(p, v)) = Len(r)
  BY <1>1, <1>3, <1>4, Zenon
<1>. QED  BY <1>2, <1>5 DEF r

\* A promise gets its result: what becomes of the three variables.
LEMMA SettleTypes ==
  ASSUME TypeOK, NEW p \in P, NEW v \in Settled, NEW todo \in Seq(Microtasks), Settle(p, v, todo)
  PROVE  /\ state' \in [P -> {"none", "pending"} \union Settled]
         /\ jobs' \in Seq(Microtasks)
         /\ reactions' \in [P -> Seq(P)]
<1>1. jobs' \in Seq(Microtasks)
  BY JobsProperties, ConcatProperties DEF Settle, TypeOK
<1>2. <<>> \in Seq(P)
  OBVIOUS
<1>. QED  BY <1>1, <1>2 DEF Settle, TypeOK

LEMMA InitTypes == Init => TypeOK
<1>. SUFFICES ASSUME Init PROVE TypeOK
  OBVIOUS
<1>1. NoReg \in Registrations
  BY PromisesAssumption DEF NoReg, Registrations
<1>2. /\ state \in [P -> {"none", "pending"} \union Settled]
      /\ reg \in [P -> Registrations] /\ calls \in [P -> Nat]
  BY <1>1 DEF Init
<1>3. reactions \in [P -> Seq(P)]
  BY DEF Init
<1>4. jobs \in Seq(Microtasks) /\ stack \in Seq(Frames) /\ bgQueue \in Seq(P)
  BY DEF Init
<1>5. made = 0 /\ roots = 0 /\ hostCalls = 0
  BY DEF Init
<1>6. scheduled \in Nat /\ resolvers \subseteq P
  BY DEF Init
<1>. QED  BY <1>2, <1>3, <1>4, <1>5, <1>6, PromisesAssumption DEF TypeOK

\* A frame is pushed or popped.
LEMMA StackTypes ==
  ASSUME stack \in Seq(Frames)
  PROVE  /\ \A f \in Frames : Push(f) => stack' \in Seq(Frames)
         /\ stack # <<>> /\ Pop => stack' \in Seq(Frames) /\ Top \in Frames
  BY PopProperties DEF Push, Pop, Top

LEMMA FrameTypes ==
  ASSUME NEW k \in {"task", "host", "script", "callback"}, NEW p \in 0 .. MaxPromises,
         NEW via \in {"loop", "run", "call", "job"}
  PROVE  Frame(k, p, via) \in Frames
  BY DEF Frame, Frames, JavaScript

LEMMA TypeStep == TypeOK /\ Next => TypeOK'
<1>. SUFFICES ASSUME TypeOK, Next PROVE TypeOK'
  OBVIOUS
<1>. USE PromisesAssumption
<1>0. 0 \in 0 .. MaxPromises /\ \A p \in P : p \in 0 .. MaxPromises
  BY DEF P
<1>1. CASE RunTask \/ EvaluateJavaScript \/ CallTimer \/ CallHost
  <2>1. stack' \in Seq(Frames)
    BY <1>0, <1>1, StackTypes, FrameTypes
       DEF RunTask, EvaluateJavaScript, CallTimer, CallHost, TypeOK
  <2>. QED  BY <1>1, <2>1
       DEF RunTask, EvaluateJavaScript, CallTimer, CallHost, CanStart, TypeOK, promiseVars, counters
<1>2. CASE TaskReturns \/ HostReturns \/ ScriptEnds
  <2>1. stack' \in Seq(Frames)
    BY <1>2, StackTypes DEF TaskReturns, HostReturns, ScriptEnds, NativeTop, JsTop, TypeOK
  <2>. QED  BY <1>2, <2>1 DEF TaskReturns, HostReturns, ScriptEnds, TypeOK, promiseVars, counters
<1>3. ASSUME made < MaxPromises, made' = made + 1
      PROVE  made' \in P /\ made' \in 0 .. MaxPromises
  BY <1>3 DEF TypeOK, P
<1>4. CASE CreatePromiseResolver
  BY <1>3, <1>4 DEF CreatePromiseResolver, TypeOK, counters
<1>5. CASE GetDataAsync
  BY <1>3, <1>5 DEF GetDataAsync, AddBgTask, TypeOK, counters
<1>6. ASSUME NEW p \in P, Resolve(p) \/ Reject(p)
      PROVE  TypeOK'
  <2>1. CASE state[p] = "pending"
    <3>1. \E v \in Settled : Settle(p, v, jobs)
      BY <1>6, <2>1 DEF Resolve, Reject, Settled, Fulfilled
    <3>2. jobs \in Seq(Microtasks)
      BY DEF TypeOK
    <3>. QED  BY <1>6, <3>1, <3>2, SettleTypes DEF Resolve, Reject, TypeOK, counters
  <2>2. CASE state[p] # "pending"
    BY <1>6, <2>2 DEF Resolve, Reject, TypeOK, counters
  <2>. QED  BY <2>1, <2>2
<1>7. ASSUME NEW p \in P, NEW kind \in {"then", "catch"}, NEW late \in BOOLEAN, Derive(p, kind, late)
      PROVE  made' \in P /\ made' \in 0 .. MaxPromises /\ reg' \in [P -> Registrations]
  <2>1. [src |-> p, kind |-> kind, late |-> late] \in Registrations
    BY <1>0 DEF Registrations
  <2>. QED  BY <1>3, <1>7, <2>1 DEF Derive, TypeOK
<1>8. ASSUME NEW p \in P, NEW kind \in {"then", "catch"},
             RegisterWithV8(p, kind) \/ MakeOrphan(p, kind)
      PROVE  TypeOK'
  <2>. DEFINE n == made'
  <2>1. n \in P /\ n \in 0 .. MaxPromises /\ reg' \in [P -> Registrations]
    BY <1>7, <1>8 DEF RegisterWithV8, MakeOrphan
  <2>2. reactions' = reactions \/ reactions' = [reactions EXCEPT ![p] = Append(@, n)]
    BY <1>8 DEF RegisterWithV8, MakeOrphan
  <2>3. state' = [state EXCEPT ![n] = "pending"]
    BY <1>8 DEF RegisterWithV8, MakeOrphan
  <2>4. UNCHANGED <<jobs, resolvers, bgQueue, stack, scheduled, calls, roots, hostCalls>>
    BY <1>8 DEF RegisterWithV8, MakeOrphan, counters
  <2>5. made' = n
    OBVIOUS
  <2>. HIDE DEF n
  <2>6. reactions' \in [P -> Seq(P)]
    <3>1. reactions[p] \in Seq(P) /\ Append(reactions[p], n) \in Seq(P)
      BY <2>1, AppendProperties DEF TypeOK
    <3>. QED  BY <2>2, <3>1 DEF TypeOK
  <2>7. state' \in [P -> {"none", "pending"} \union Settled]
    BY <2>1, <2>3 DEF TypeOK
  <2>. QED  BY <2>1, <2>4, <2>5, <2>6, <2>7 DEF TypeOK
<1>9. ASSUME NEW p \in P, NEW kind \in {"then", "catch"}, CallAtOnce(p, kind)
      PROVE  TypeOK'
  <2>1. made' \in P /\ made' \in 0 .. MaxPromises /\ reg' \in [P -> Registrations]
    BY <1>7, <1>9 DEF CallAtOnce
  <2>2. stack' \in Seq(Frames)
    BY <1>9, <2>1, StackTypes, FrameTypes DEF CallAtOnce, TypeOK
  <2>3. calls' \in [P -> Nat]
    BY <1>9, <2>1 DEF CallAtOnce, TypeOK
  <2>. QED  BY <1>9, <2>1, <2>2, <2>3 DEF CallAtOnce, TypeOK, counters
<1>10. ASSUME jobs # <<>>
       PROVE  Head(jobs).for \in P /\ Head(jobs).v \in Settled /\ Tail(jobs) \in Seq(Microtasks)
  <2>1. Head(jobs) \in Microtasks /\ Tail(jobs) \in Seq(Microtasks)
    BY <1>10, HeadTailProperties DEF TypeOK
  <2>. QED  BY <2>1 DEF Microtasks
<1>11. CASE RunMicrotask
  <2>. DEFINE j == Head(jobs)
  <2>1. j.for \in P /\ j.v \in Settled /\ Tail(jobs) \in Seq(Microtasks)
    BY <1>10, <1>11 DEF RunMicrotask
  <2>2. CASE Handles(reg[j.for].kind, j.v)
    <3>1. stack' \in Seq(Frames)
      BY <1>0, <1>11, <2>1, <2>2, StackTypes, FrameTypes DEF RunMicrotask, TypeOK
    <3>2. calls' = [calls EXCEPT ![j.for] = @ + 1] /\ jobs' = Tail(jobs)
          /\ UNCHANGED <<state, reactions>>
      BY <1>11, <2>2 DEF RunMicrotask
    <3>. HIDE DEF j
    <3>. QED  BY <1>11, <2>1, <3>1, <3>2 DEF RunMicrotask, TypeOK, counters
  <2>3. CASE ~Handles(reg[j.for].kind, j.v)
    <3>1. Settle(j.for, j.v, Tail(jobs)) /\ UNCHANGED <<stack, calls>>
      BY <1>11, <2>3 DEF RunMicrotask
    <3>. HIDE DEF j
    <3>. QED  BY <1>11, <2>1, <3>1, SettleTypes DEF RunMicrotask, TypeOK, counters
  <2>. QED  BY <2>2, <2>3
<1>12. ASSUME CallbackTop /\ Pop
       PROVE  stack' \in Seq(Frames) /\ (Top.for # 0 => Top.for \in P)
  <2>1. stack # <<>>
    BY <1>12 DEF CallbackTop, JsTop
  <2>2. stack' \in Seq(Frames) /\ Top \in Frames
    BY <1>12, <2>1, StackTypes DEF TypeOK
  <2>. QED  BY <2>2 DEF Frames, P
<1>13. CASE CallbackReturns \/ CallbackThrows
  <2>1. stack' \in Seq(Frames) /\ (Top.for # 0 => Top.for \in P)
    BY <1>12, <1>13 DEF CallbackReturns, CallbackThrows
  <2>2. CASE Top.for = 0
    BY <1>13, <2>1, <2>2 DEF CallbackReturns, CallbackThrows, TypeOK, counters
  <2>3. CASE Top.for # 0
    <3>1. \E v \in Settled : Settle(Top.for, v, jobs)
      BY <1>13, <2>3 DEF CallbackReturns, CallbackThrows, Settled, Fulfilled
    <3>2. jobs \in Seq(Microtasks)
      BY DEF TypeOK
    <3>3. PICK v \in Settled : Settle(Top.for, v, jobs)
      BY <3>1
    <3>4. /\ state' \in [P -> {"none", "pending"} \union Settled]
          /\ jobs' \in Seq(Microtasks) /\ reactions' \in [P -> Seq(P)]
      BY <2>1, <2>3, <3>2, <3>3, SettleTypes
    <3>. QED  BY <1>13, <2>1, <3>4 DEF CallbackReturns, CallbackThrows, TypeOK, counters
  <2>. QED  BY <2>2, <2>3
<1>14. ASSUME NEW q \in P, CallbackReturnsPromise(q)
       PROVE  TypeOK'
  <2>1. stack' \in Seq(Frames) /\ Top.for \in P
    BY <1>12, <1>14 DEF CallbackReturnsPromise
  <2>2. reg' \in [P -> Registrations]
    <3>1. reg[Top.for] \in Registrations
      BY <2>1 DEF TypeOK
    <3>2. [reg[Top.for] EXCEPT !.src = q, !.kind = "follow"] \in Registrations
      BY <1>0, <3>1 DEF Registrations
    <3>. QED  BY <1>14, <2>1, <3>2 DEF CallbackReturnsPromise, TypeOK
  <2>3. reactions' \in [P -> Seq(P)] /\ jobs' \in Seq(Microtasks)
    <3>. DEFINE p == Top.for
    <3>1. CASE Top.via = "job" /\ state[q] = "pending"
      <4>1. reactions' = [reactions EXCEPT ![q] = Append(@, p)] /\ jobs' = jobs
        BY <1>14, <3>1 DEF CallbackReturnsPromise
      <4>2. p \in P
        BY <2>1
      <4>. HIDE DEF p
      <4>. QED  BY <4>1, <4>2 DEF TypeOK
    <3>2. CASE Top.via = "job" /\ state[q] # "pending"
      <4>1. state[q] \in Settled
        BY <1>14, <3>2 DEF CallbackReturnsPromise, TypeOK
      <4>2. [for |-> Top.for, v |-> state[q]] \in Microtasks
        BY <2>1, <4>1 DEF Microtasks
      <4>3. jobs' = Append(jobs, [for |-> Top.for, v |-> state[q]]) /\ reactions' = reactions
        BY <1>14, <3>2 DEF CallbackReturnsPromise
      <4>. QED  BY <4>2, <4>3, AppendProperties DEF TypeOK
    <3>3. CASE Top.via # "job"
      BY <1>14, <3>3 DEF CallbackReturnsPromise, TypeOK
    <3>. QED  BY <3>1, <3>2, <3>3
  <2>. QED  BY <1>14, <2>1, <2>2, <2>3 DEF CallbackReturnsPromise, TypeOK, counters
<1>. QED  BY <1>1, <1>2, <1>4, <1>5, <1>6, <1>8, <1>9, <1>11, <1>13, <1>14
     DEF Next, Progress, Then, Catch

------------------------------------------------------------------------------
(* The stack *)

\* A call that fits what is on the stack.
LEMMA ShapePush ==
  ASSUME NEW s \in Seq(Frames), Shape(s), NEW f \in Frames,
         f.kind \in {"task", "script"} => s = <<>>,
         f.kind = "host" => s # <<>> /\ Last(s).kind \in JavaScript,
         f.kind = "callback" /\ f.via # "job" /\ s # <<>> => Last(s).kind \in {"task", "host"}
  PROVE  /\ Shape(Append(s, f))
         /\ \A h \in Nat : Caught(s, h) => Caught(Append(s, f), h)
<1>. DEFINE u == Append(s, f)
            n == Len(s)
<1>1. /\ Len(u) = n + 1 /\ n \in Nat /\ u[n + 1] = f
      /\ \A i \in 1 .. n : u[i] = s[i]
      /\ s = <<>> <=> n = 0
      /\ n > 0 => Last(s) = u[n]
  BY AppendProperties, EmptySeq DEF Last
<1>2. \A i \in 1 .. n + 1 : i \in 1 .. n \/ i = n + 1
  BY <1>1
<1>3. \A i \in 1 .. n : i > 1 => i - 1 \in 1 .. n
  BY <1>1
<1>. HIDE DEF u
<1>4. \A i \in 1 .. n :
        /\ u[i].kind \in {"task", "script"} => i = 1
        /\ u[i].kind = "host" => i > 1 /\ u[i - 1].kind \in JavaScript
        /\ u[i].kind = "callback" /\ u[i].via # "job" /\ i > 1 => u[i - 1].kind \in {"task", "host"}
  BY <1>1, <1>3 DEF Shape
<1>5. /\ f.kind \in {"task", "script"} => n + 1 = 1
      /\ f.kind = "host" => n + 1 > 1 /\ u[n + 1 - 1].kind \in JavaScript
      /\ f.kind = "callback" /\ f.via # "job" /\ n + 1 > 1 => u[n + 1 - 1].kind \in {"task", "host"}
  BY <1>1
<1>6. Shape(u)
  BY <1>1, <1>2, <1>4, <1>5 DEF Shape
<1>7. ASSUME NEW h \in Nat, Caught(s, h)
      PROVE  Caught(u, h)
  <2>1. h \in 1 .. n /\ h - 1 \in 1 .. n /\ h \in 2 .. n + 1
    BY <1>1, <1>7 DEF Caught
  <2>. QED  BY <1>1, <1>7, <2>1 DEF Caught
<1>. QED  BY <1>6, <1>7 DEF u

\* A return.
LEMMA ShapePop ==
  ASSUME NEW s \in Seq(Frames), Shape(s), s # <<>>
  PROVE  /\ Shape(Front(s))
         /\ \A h \in Nat : Caught(s, h) /\ Last(s).kind # "host" => Caught(Front(s), h)
<1>. DEFINE u == Front(s)
            n == Len(s)
<1>1. /\ n \in Nat /\ n >= 1 /\ Len(u) = n - 1 /\ Last(s) = s[n]
      /\ \A i \in 1 .. n - 1 : u[i] = s[i]
  BY PopProperties
<1>2. \A i \in 1 .. n - 1 : i \in 1 .. n /\ (i > 1 => i - 1 \in 1 .. n - 1)
  BY <1>1
<1>3. \A i \in 1 .. n : i \in 1 .. n - 1 \/ i = n
  BY <1>1
<1>. HIDE DEF u
<1>4. Shape(u)
  BY <1>1, <1>2 DEF Shape
<1>5. ASSUME NEW h \in Nat, Caught(s, h), s[n].kind # "host"
      PROVE  Caught(u, h)
  <2>1. h \in 1 .. n /\ h # n
    BY <1>1, <1>5 DEF Caught
  <2>2. h \in 1 .. n - 1 /\ h - 1 \in 1 .. n - 1 /\ h \in 2 .. n - 1
    BY <1>1, <1>5, <2>1 DEF Caught
  <2>. QED  BY <1>1, <1>5, <2>2 DEF Caught
<1>. QED  BY <1>1, <1>4, <1>5 DEF u

\* A frame is pushed: the frames, and the callbacks that run.
LEMMA FramesPush ==
  ASSUME TypeOK, FrameInv, NEW f \in Frames, stack' = Append(stack, f),
         \A g \in Frames : FrameOK(g) => FrameOK(g)',
         FrameOK(f)',
         f.for # 0 => \A i \in 1 .. Len(stack) : stack[i].for # f.for
  PROVE  /\ FrameInv'
         /\ \A p \in P : Running(p) \/ (f.kind = "callback" /\ f.for = p) => Running(p)'
<1>. DEFINE n == Len(stack)
<1>1. /\ Len(stack') = n + 1 /\ n \in Nat /\ stack'[n + 1] = f
      /\ \A i \in 1 .. n : stack'[i] = stack[i]
  BY AppendProperties, EmptySeq DEF TypeOK
<1>2. \A i \in 1 .. n + 1 : i \in 1 .. n \/ i = n + 1
  BY <1>1
<1>3. ASSUME NEW i \in 1 .. n + 1
      PROVE  FrameOK(stack[i])'
  <2>1. CASE i = n + 1
    BY <1>1, <2>1 DEF FrameOK, Applies, Source, Handles
  <2>2. CASE i # n + 1
    <3>1. i \in 1 .. n /\ stack'[i] = stack[i] /\ stack[i] \in Frames /\ FrameOK(stack[i])
      BY <1>1, <1>2, <2>2, ElementOfSeq DEF TypeOK, FrameInv
    <3>2. PICK g \in Frames : g = stack[i] /\ FrameOK(g)
      BY <3>1
    <3>3. FrameOK(g)' /\ stack'[i] = g
      BY <3>1, <3>2
    <3>. QED  BY <3>3 DEF FrameOK, Applies, Source, Handles
  <2>. QED  BY <2>1, <2>2
<1>4. \A i, j \in 1 .. n + 1 : stack'[i].for # 0 /\ stack'[i].for = stack'[j].for => i = j
  BY <1>1, <1>2 DEF FrameInv
<1>5. \A p \in P : Running(p) \/ (f.kind = "callback" /\ f.for = p) => Running(p)'
  <2>1. \A i \in 1 .. n : i \in 1 .. n + 1
    BY <1>1
  <2>2. n + 1 \in 1 .. n + 1
    BY <1>1
  <2>. QED  BY <1>1, <2>1, <2>2 DEF Running
<1>. QED  BY <1>1, <1>3, <1>4, <1>5 DEF FrameInv

\* The last frame is popped.
LEMMA FramesPop ==
  ASSUME TypeOK, FrameInv, stack # <<>>, Pop,
         \A g \in Frames : FrameOK(g) /\ (g.for # 0 => g.for # Top.for) => FrameOK(g)'
  PROVE  /\ FrameInv'
         /\ \A p \in P : Running(p) /\ p # Top.for => Running(p)'
<1>. DEFINE n == Len(stack)
<1>0. stack \in Seq(Frames) /\ n \in Nat /\ n >= 1
  BY EmptySeq DEF TypeOK
<1>1. /\ n \in Nat /\ n >= 1 /\ Len(stack') = n - 1 /\ Top = stack[n]
      /\ \A i \in 1 .. n - 1 : stack'[i] = stack[i]
  <2>. HIDE DEF n
  <2>1. /\ Len(Front(stack)) = Len(stack) - 1 /\ Last(stack) = stack[Len(stack)]
        /\ \A i \in 1 .. Len(stack) - 1 : Front(stack)[i] = stack[i]
    BY <1>0, PopProperties
  <2>. QED  BY <1>0, <2>1 DEF Pop, Top, n
<1>2. \A i \in 1 .. n - 1 : i \in 1 .. n
  BY <1>1
<1>3. \A i \in 1 .. n : i \in 1 .. n - 1 \/ i = n
  BY <1>1
<1>4. ASSUME NEW i \in 1 .. n - 1
      PROVE  FrameOK(stack[i])'
  <2>1. i \in 1 .. n /\ i # n /\ n \in 1 .. n
    BY <1>1
  <2>2. stack'[i] = stack[i] /\ stack[i] \in Frames /\ FrameOK(stack[i])
    BY <1>0, <1>1, <2>1, ElementOfSeq DEF FrameInv
  <2>3. stack[i].for # 0 => stack[i].for # Top.for
    BY <1>1, <2>1 DEF FrameInv
  <2>4. PICK g \in Frames : g = stack[i] /\ FrameOK(g) /\ (g.for # 0 => g.for # Top.for)
    BY <2>2, <2>3
  <2>5. FrameOK(g)' /\ stack'[i] = g
    BY <2>2, <2>4
  <2>. QED  BY <2>5 DEF FrameOK, Applies, Source, Handles
<1>6. FrameInv'
  <2>1. \A i, j \in 1 .. n - 1 : stack'[i].for # 0 /\ stack'[i].for = stack'[j].for => i = j
    BY <1>1, <1>2 DEF FrameInv
  <2>. QED  BY <1>1, <1>4, <2>1 DEF FrameInv
<1>5. \A p \in P : Running(p) /\ p # Top.for => Running(p)'
  BY <1>1, <1>3 DEF Running
<1>. QED  BY <1>5, <1>6

\* The frame on top, and that no other is of the same callback.
LEMMA TopFrame ==
  ASSUME TypeOK, FrameInv, stack # <<>>
  PROVE  /\ Top \in Frames /\ FrameOK(Top)
         /\ Top.for # 0 => /\ Top.for \in P
                           /\ \A i \in 1 .. Len(stack) - 1 : stack[i].for # Top.for
<1>1. /\ Len(stack) \in Nat /\ Len(stack) >= 1 /\ Top = stack[Len(stack)] /\ Top \in Frames
  BY PopProperties DEF TypeOK, Top
<1>2. Len(stack) \in 1 .. Len(stack) /\ \A i \in 1 .. Len(stack) - 1 : i \in 1 .. Len(stack) /\ i # Len(stack)
  BY <1>1
<1>. QED  BY <1>1, <1>2 DEF FrameInv, FrameOK

------------------------------------------------------------------------------
(* A promise is made *)

\* What there was is as it was.
LEMMA NewKeeps ==
  ASSUME TypeOK, KnownInv, NEW n \in P, n = made + 1, made' = n,
         \A p \in P \ {n} : state'[p] = state[p] /\ reg'[p] = reg[p] /\ calls'[p] = calls[p],
         resolvers' \subseteq resolvers \union {n}
  PROVE  /\ \A p, q \in P : WaitOK(q, p) => p # n /\ q # n /\ WaitOK(q, p)'
         /\ \A p \in P, v \in Settled : JobOK(p, v) => p # n /\ JobOK(p, v)'
         /\ \A f \in Frames : FrameOK(f) => f.for # n /\ FrameOK(f)'
         /\ \A p, q \in P \ {n} : Ordered(p, q) => Ordered(p, q)'
         /\ \A p \in P \ {n} : Derived(p) => reg[p].src \in P \ {n} /\ Source(p)' = Source(p)
         /\ \A p \in P \ {n} : KnownOK(p)'
         /\ \A p \in P \ {n} : OutcomeOK(p) => OutcomeOK(p)'
<1>0. n > made
  BY DEF TypeOK
<1>1. state[n] = "none" /\ reg[n] = NoReg /\ ~Derived(n)
  BY <1>0 DEF KnownInv, KnownOK, Derived, NoReg
<1>2. \A p \in P : Derived(p) => p # n /\ reg[p].src \in P \ {n}
  BY <1>1 DEF KnownInv, KnownOK, Source
<1>3. ASSUME NEW p \in P, Derived(p)
      PROVE  Source(p)' = Source(p)
  BY <1>2, <1>3 DEF Source
<1>4. ASSUME NEW p \in P, NEW q \in P, WaitOK(q, p)
      PROVE  p # n /\ q # n /\ WaitOK(q, p)'
  BY <1>1, <1>4 DEF WaitOK, Derived
<1>5. ASSUME NEW p \in P, NEW v \in Settled, JobOK(p, v)
      PROVE  p # n /\ JobOK(p, v)'
  <2>1. Derived(p) /\ p # n
    BY <1>2, <1>5 DEF JobOK
  <2>. QED  BY <1>3, <1>5, <2>1 DEF JobOK, Derived
<1>6. ASSUME NEW f \in Frames, FrameOK(f)
      PROVE  f.for # n /\ FrameOK(f)'
  <2>1. CASE f.for = 0
    BY <2>1 DEF FrameOK, P
  <2>2. CASE f.for # 0
    <3>1. f.for \in P /\ Derived(f.for)
      BY <1>6, <2>2 DEF FrameOK, Derived
    <3>2. f.for # n /\ Source(f.for)' = Source(f.for)
      BY <1>2, <1>3, <3>1
    <3>. QED  BY <1>6, <3>1, <3>2 DEF FrameOK, Applies, Handles
  <2>. QED  BY <2>1, <2>2
<1>7. \A p, q \in P \ {n} : Ordered(p, q) => Ordered(p, q)'
  BY DEF Ordered
<1>8. ASSUME NEW p \in P \ {n}
      PROVE  KnownOK(p)'
  <2>1. p > made' => p > made
    BY DEF TypeOK, P
  <2>2. KnownOK(p) /\ (p \in resolvers' => p \in resolvers) /\ (p <= made => p <= made')
    BY DEF KnownInv, TypeOK, P
  <2>3. Derived(p) => Source(p)' = Source(p)
    BY <1>3
  <2>. QED  BY <2>1, <2>2, <2>3 DEF KnownOK, Derived
<1>9. ASSUME NEW p \in P \ {n}, OutcomeOK(p)
      PROVE  OutcomeOK(p)'
  <2>1. Derived(p) => Source(p)' = Source(p)
    BY <1>3
  <2>. QED  BY <1>9, <2>1 DEF OutcomeOK, Applies, Handles, Derived
<1>. QED  BY <1>2, <1>3, <1>4, <1>5, <1>6, <1>7, <1>8, <1>9

\* A promise that is where it was has the reason it had.
LEMMA SameReason ==
  ASSUME NEW p \in P, ReasonOK(p),
         reg'[p] = reg[p], state'[p] = state[p], Derived(p) => Source(p)' = Source(p),
         Waiting(p) => Waiting(p)', Queued(p) => Queued(p)', Running(p) => Running(p)'
  PROVE  ReasonOK(p)'
BY DEF ReasonOK, Orphan, Applies, Handles, Derived

\* Nobody new waits.
LEMMA WaitUnchanged ==
  ASSUME TypeOK, WaitInv, reactions' = reactions, NEW X \in SUBSET P,
         \A p, q \in P : WaitOK(q, p) => p \in X /\ WaitOK(q, p)',
         \A p, q \in X : Ordered(p, q) => Ordered(p, q)'
  PROVE  WaitInv'
<1>. SUFFICES ASSUME NEW q \in P
              PROVE  /\ \A i \in 1 .. Len(reactions[q]) : WaitOK(q, reactions[q][i])'
                     /\ \A i, j \in 1 .. Len(reactions[q]) : i < j => Ordered(reactions[q][i], reactions[q][j])'
  BY DEF WaitInv
<1>. DEFINE r == reactions[q]
<1>1. r \in Seq(P) /\ \A i \in 1 .. Len(r) : r[i] \in P
  BY ElementOfSeq DEF TypeOK
<1>. QED  BY <1>1 DEF WaitInv

\* The microtasks stay.
LEMMA JobsUnchanged ==
  ASSUME TypeOK, JobInv, jobs' = jobs, NEW X \in SUBSET P,
         \A p \in P, v \in Settled : JobOK(p, v) => p \in X /\ JobOK(p, v)',
         \A p, q \in X : Ordered(p, q) => Ordered(p, q)'
  PROVE  JobInv'
<1>1. \A i \in 1 .. Len(jobs) : jobs[i].for \in P /\ jobs[i].v \in Settled
  <2>1. \A i \in 1 .. Len(jobs) : jobs[i] \in Microtasks
    BY ElementOfSeq DEF TypeOK
  <2>. QED  BY <2>1 DEF Microtasks
<1>. QED  BY <1>1 DEF JobInv

\* The frames stay.
LEMMA FramesUnchanged ==
  ASSUME TypeOK, FrameInv, stack' = stack,
         \A g \in Frames : FrameOK(g) => FrameOK(g)'
  PROVE  FrameInv'
<1>1. \A i \in 1 .. Len(stack) : stack[i] \in Frames
  BY ElementOfSeq DEF TypeOK
<1>. QED  BY <1>1 DEF FrameInv

\* What IInv says of promises and their places.
PlacesInv == KnownInv /\ WaitInv /\ JobInv /\ FrameInv /\ ReasonInv /\ OutcomeInv

\* A promise of the program's own.
LEMMA NewPromise ==
  ASSUME TypeOK, PlacesInv, CreatePromiseResolver \/ GetDataAsync
  PROVE  PlacesInv'
<1>0. made + 1 \in P
  BY PromisesAssumption DEF CreatePromiseResolver, GetDataAsync, TypeOK, P
<1>1. PICK n \in P :
        /\ n = made + 1 /\ made' = n
        /\ state' = [state EXCEPT ![n] = "pending"]
        /\ UNCHANGED <<reg, reactions, jobs, stack, calls>> /\ resolvers' \subseteq resolvers \union {n}
  BY <1>0 DEF CreatePromiseResolver, GetDataAsync, counters
<1>2. made' = n
  BY <1>1
<1>3. \A p \in P \ {n} : state'[p] = state[p] /\ reg'[p] = reg[p] /\ calls'[p] = calls[p]
  BY <1>1 DEF TypeOK
<1>4. KnownOK(n) /\ n > made
  BY <1>1 DEF PlacesInv, KnownInv, TypeOK
<1>5. state'[n] = "pending" /\ reg'[n] = NoReg /\ calls'[n] = 0 /\ ~(n > made')
  BY <1>1, <1>2, <1>4 DEF KnownOK, TypeOK
<1>6. /\ \A p, q \in P : WaitOK(q, p) => p # n /\ q # n /\ WaitOK(q, p)'
      /\ \A p \in P, v \in Settled : JobOK(p, v) => p # n /\ JobOK(p, v)'
      /\ \A f \in Frames : FrameOK(f) => f.for # n /\ FrameOK(f)'
      /\ \A p, q \in P \ {n} : Ordered(p, q) => Ordered(p, q)'
      /\ \A p \in P \ {n} : Derived(p) => reg[p].src \in P \ {n} /\ Source(p)' = Source(p)
      /\ \A p \in P \ {n} : KnownOK(p)'
      /\ \A p \in P \ {n} : OutcomeOK(p) => OutcomeOK(p)'
  BY <1>1, <1>2, <1>3, NewKeeps DEF PlacesInv
<1>7. KnownInv'
  <2>1. KnownOK(n)'
    BY <1>1, <1>2, <1>5, PromisesAssumption DEF KnownOK, Derived, NoReg, P
  <2>. QED  BY <1>6, <2>1 DEF KnownInv
<1>8. WaitInv'
  <2>1. \A p, q \in P : WaitOK(q, p) => p \in P \ {n} /\ WaitOK(q, p)'
    BY <1>6
  <2>. QED  BY <1>1, <1>6, <2>1, WaitUnchanged DEF PlacesInv
<1>9. JobInv'
  <2>1. \A p \in P, v \in Settled : JobOK(p, v) => p \in P \ {n} /\ JobOK(p, v)'
    BY <1>6
  <2>. QED  BY <1>1, <1>6, <2>1, JobsUnchanged DEF PlacesInv
<1>10. FrameInv'
  BY <1>1, <1>6, FramesUnchanged DEF PlacesInv
<1>11. ReasonInv'
  <2>1. ReasonOK(n)'
    BY <1>5 DEF ReasonOK, Derived, NoReg
  <2>2. ASSUME NEW p \in P \ {n}
        PROVE  ReasonOK(p)'
    <3>1. ReasonOK(p) /\ reg'[p] = reg[p] /\ state'[p] = state[p] /\ (Derived(p) => Source(p)' = Source(p))
      BY <1>3, <1>6 DEF PlacesInv, ReasonInv
    <3>2. (Waiting(p) => Waiting(p)') /\ (Queued(p) => Queued(p)') /\ (Running(p) => Running(p)')
      BY <1>1, <1>3 DEF Waiting, Queued, Running
    <3>. QED  BY <3>1, <3>2, SameReason
  <2>. QED  BY <2>1, <2>2 DEF ReasonInv
<1>12. OutcomeInv'
  <2>1. OutcomeOK(n)'
    BY <1>5 DEF OutcomeOK, Derived, NoReg
  <2>. QED  BY <1>6, <2>1 DEF PlacesInv, OutcomeInv
<1>. QED  BY <1>7, <1>8, <1>9, <1>10, <1>11, <1>12 DEF PlacesInv

\* The promise that Then and Catch make: what its registration says of it.
LEMMA DerivedPromise ==
  ASSUME TypeOK, PlacesInv, NEW p \in P, NEW kind \in {"then", "catch"}, NEW late \in BOOLEAN,
         state[p] # "none", Derive(p, kind, late)
  PROVE  \E n \in P :
           /\ n = made + 1 /\ made' = n /\ n # p
           /\ state[n] = "none" /\ reg[n] = NoReg /\ calls[n] = 0
           /\ reg' = [reg EXCEPT ![n] = [src |-> p, kind |-> kind, late |-> late]]
           /\ reg'[n] = [src |-> p, kind |-> kind, late |-> late]
           /\ \A q \in P \ {n} : reg'[q] = reg[q]
           /\ \A q \in P : state[q] # "none" => q < n
<1>1. made + 1 \in P
  BY PromisesAssumption DEF Derive, TypeOK, P
<1>2. PICK n \in P : n = made + 1
  BY <1>1
<1>3. KnownOK(n) /\ n > made
  BY <1>2 DEF PlacesInv, KnownInv, TypeOK
<1>4. made' = n /\ reg' = [reg EXCEPT ![n] = [src |-> p, kind |-> kind, late |-> late]]
  BY <1>2 DEF Derive
<1>5. state[n] = "none" /\ reg[n] = NoReg /\ calls[n] = 0
  BY <1>3 DEF KnownOK
<1>6. reg'[n] = [src |-> p, kind |-> kind, late |-> late] /\ \A q \in P \ {n} : reg'[q] = reg[q]
  BY <1>4 DEF TypeOK
<1>7. ASSUME NEW q \in P, state[q] # "none"
      PROVE  q < n
  <2>1. KnownOK(q)
    BY DEF PlacesInv, KnownInv
  <2>. QED  BY <1>2, <1>7, <2>1, PromisesAssumption DEF KnownOK, TypeOK, P
<1>. QED  BY <1>2, <1>4, <1>5, <1>6, <1>7

LEMMA RegisterPlaces ==
  ASSUME TypeOK, PlacesInv, NEW p \in P, NEW kind \in {"then", "catch"}, RegisterWithV8(p, kind)
  PROVE  PlacesInv'
<1>1. PICK n \in P :
        /\ n = made + 1 /\ made' = n /\ n # p
        /\ state[n] = "none" /\ reg[n] = NoReg /\ calls[n] = 0
        /\ reg'[n] = [src |-> p, kind |-> kind, late |-> FALSE]
        /\ \A q \in P \ {n} : reg'[q] = reg[q]
        /\ \A q \in P : state[q] # "none" => q < n
  BY DerivedPromise DEF RegisterWithV8
<1>2. /\ state' = [state EXCEPT ![n] = "pending"] /\ state[p] = "pending"
      /\ reactions' = [reactions EXCEPT ![p] = Append(@, n)]
      /\ UNCHANGED <<jobs, stack, calls, resolvers>>
  BY <1>1 DEF RegisterWithV8
<1>3. /\ \A q \in P \ {n} : state'[q] = state[q] /\ reg'[q] = reg[q] /\ calls'[q] = calls[q]
      /\ resolvers' \subseteq resolvers \union {n}
  BY <1>1, <1>2 DEF TypeOK
<1>5. /\ state'[n] = "pending" /\ calls'[n] = 0 /\ reg'[n].src = p /\ reg'[n].kind = kind
      /\ reg'[n].late = FALSE
  BY <1>1, <1>2 DEF TypeOK
<1>6. /\ \A q, r \in P : WaitOK(r, q) => q # n /\ r # n /\ WaitOK(r, q)'
      /\ \A q \in P, v \in Settled : JobOK(q, v) => q # n /\ JobOK(q, v)'
      /\ \A f \in Frames : FrameOK(f) => f.for # n /\ FrameOK(f)'
      /\ \A q, r \in P \ {n} : Ordered(q, r) => Ordered(q, r)'
      /\ \A q \in P \ {n} : Derived(q) => reg[q].src \in P \ {n} /\ Source(q)' = Source(q)
      /\ \A q \in P \ {n} : KnownOK(q)'
      /\ \A q \in P \ {n} : OutcomeOK(q) => OutcomeOK(q)'
  BY <1>1, <1>3, NewKeeps DEF PlacesInv
<1>7. KnownInv'
  <2>1. KnownOK(n)'
    <3>1. n \notin resolvers
      BY <1>1 DEF PlacesInv, KnownInv, KnownOK, TypeOK
    <3>. QED  BY <1>1, <1>2, <1>5, <3>1, PromisesAssumption DEF KnownOK, Derived, Source, P, TypeOK
  <2>. QED  BY <1>6, <2>1 DEF KnownInv
<1>8. WaitInv'
  <2>1. ASSUME NEW q \in P
        PROVE  /\ \A i \in 1 .. Len(reactions[q]) : reactions[q][i] \in P \ {n} /\ WaitOK(q, reactions[q][i])
               /\ reactions[q] \in Seq(P)
    <3>1. \A i \in 1 .. Len(reactions[q]) : reactions[q][i] \in P /\ WaitOK(q, reactions[q][i])
      BY ElementOfSeq DEF TypeOK, PlacesInv, WaitInv
    <3>. QED  BY <1>6, <3>1 DEF TypeOK
  <2>2. ASSUME NEW q \in P \ {p}
        PROVE  /\ \A i \in 1 .. Len(reactions[q]) : WaitOK(q, reactions[q][i])'
               /\ \A i, j \in 1 .. Len(reactions[q]) : i < j => Ordered(reactions[q][i], reactions[q][j])'
    <3>1. reactions'[q] = reactions[q]
      BY <1>2 DEF TypeOK
    <3>. QED  BY <1>6, <2>1, <3>1 DEF PlacesInv, WaitInv
  <2>. DEFINE r == reactions[p]
              m == Len(r)
  <2>3. /\ Len(reactions'[p]) = m + 1 /\ m \in Nat /\ reactions'[p][m + 1] = n
        /\ \A i \in 1 .. m : reactions'[p][i] = r[i]
    BY <1>2, <2>1, AppendProperties, EmptySeq DEF TypeOK
  <2>4. \A i \in 1 .. m + 1 : i \in 1 .. m \/ i = m + 1
    BY <2>3
  <2>5. WaitOK(p, n)'
    BY <1>1, <1>2, <1>3, <1>5 DEF WaitOK, Derived
  <2>5a. \A i \in 1 .. m : r[i] \in P /\ r[i] # n /\ r[i] < n
    <3>1. ASSUME NEW i \in 1 .. m
          PROVE  r[i] \in P /\ r[i] # n /\ r[i] < n
      <4>1. r[i] \in P \ {n} /\ WaitOK(p, r[i])
        BY <2>1
      <4>2. state[r[i]] # "none"
        BY <4>1 DEF WaitOK
      <4>. QED  BY <1>1, <4>1, <4>2
    <3>. QED  BY <3>1
  <2>6. \A q \in P : q # n /\ q < n => Ordered(q, n)'
    BY DEF Ordered
  <2>7. ASSUME NEW i \in 1 .. m + 1
        PROVE  WaitOK(p, reactions[p][i])'
    <3>1. CASE i = m + 1
      BY <2>3, <2>5, <3>1
    <3>2. CASE i # m + 1
      BY <1>6, <2>1, <2>3, <2>4, <3>2
    <3>. QED  BY <3>1, <3>2
  <2>8. ASSUME NEW i \in 1 .. m + 1, NEW j \in 1 .. m + 1, i < j
        PROVE  Ordered(reactions[p][i], reactions[p][j])'
    <3>1. i \in 1 .. m
      BY <2>3, <2>8
    <3>2. CASE j = m + 1
      BY <2>3, <2>5a, <2>6, <3>1, <3>2
    <3>3. CASE j # m + 1
      <4>1. j \in 1 .. m
        BY <2>4, <3>3
      <4>2. Ordered(r[i], r[j])
        BY <2>8, <3>1, <4>1 DEF PlacesInv, WaitInv
      <4>. QED  BY <1>6, <2>1, <2>3, <3>1, <4>1, <4>2
    <3>. QED  BY <3>2, <3>3
  <2>9. Len(reactions[p])' = m + 1
    BY <2>3
  <2>10. \A i, j \in 1 .. m + 1 : i < j => Ordered(reactions[p][i], reactions[p][j])'
    BY <2>8
  <2>11. ASSUME NEW q \in P
         PROVE  /\ \A i \in 1 .. Len(reactions[q])' : WaitOK(q, reactions[q][i])'
                /\ \A i, j \in 1 .. Len(reactions[q])' : i < j => Ordered(reactions[q][i], reactions[q][j])'
    <3>1. CASE q = p
      BY <2>7, <2>9, <2>10, <3>1
    <3>2. CASE q # p
      <4>1. Len(reactions[q])' = Len(reactions[q])
        BY <1>2, <3>2 DEF TypeOK
      <4>. QED  BY <2>2, <3>2, <4>1
    <3>. QED  BY <3>1, <3>2
  <2>. QED  BY <2>11 DEF WaitInv
<1>9. JobInv'
  <2>1. \A q \in P, v \in Settled : JobOK(q, v) => q \in P \ {n} /\ JobOK(q, v)'
    BY <1>6
  <2>. QED  BY <1>2, <1>6, <2>1, JobsUnchanged DEF PlacesInv
<1>10. FrameInv'
  BY <1>2, <1>6, FramesUnchanged DEF PlacesInv
<1>11. ReasonInv'
  <2>. DEFINE m == Len(reactions[p])
  <2>0. /\ reactions[p] \in Seq(P) /\ m \in Nat
        /\ Len(reactions'[p]) = m + 1 /\ reactions'[p][m + 1] = n
        /\ \A i \in 1 .. m : reactions'[p][i] = reactions[p][i]
    BY <1>2, AppendProperties, EmptySeq DEF TypeOK
  <2>1. ReasonOK(n)'
    <3>1. Waiting(n)'
      BY <1>5, <2>0 DEF Waiting
    <3>2. Source(n)' = "pending"
      BY <1>1, <1>2, <1>3, <1>5 DEF Source
    <3>. QED  BY <3>1, <3>2 DEF ReasonOK
  <2>2. ASSUME NEW q \in P \ {n}
        PROVE  ReasonOK(q)'
    <3>1. ReasonOK(q) /\ reg'[q] = reg[q] /\ state'[q] = state[q] /\ (Derived(q) => Source(q)' = Source(q))
      BY <1>3, <1>6 DEF PlacesInv, ReasonInv
    <3>2. (Queued(q) => Queued(q)') /\ (Running(q) => Running(q)')
      BY <1>2, <1>3 DEF Queued, Running
    <3>3. CASE Derived(q)
      <4>1. CASE reg[q].src = p
        <5>1. Waiting(q) => Waiting(q)'
          BY <2>0, <3>1, <4>1 DEF Waiting
        <5>. QED  BY <3>1, <3>2, <5>1, SameReason
      <4>2. CASE reg[q].src # p
        <5>1. reactions'[reg[q].src] = reactions[reg[q].src]
          BY <1>2, <1>6, <3>3, <4>2 DEF TypeOK
        <5>2. Waiting(q) => Waiting(q)'
          BY <3>1, <5>1 DEF Waiting
        <5>. QED  BY <3>1, <3>2, <5>2, SameReason
      <4>. QED  BY <4>1, <4>2
    <3>4. CASE ~Derived(q)
      BY <3>1, <3>4 DEF ReasonOK, Derived
    <3>. QED  BY <3>3, <3>4
  <2>. QED  BY <2>1, <2>2 DEF ReasonInv
<1>12. OutcomeInv'
  <2>1. OutcomeOK(n)'
    BY <1>5 DEF OutcomeOK, Settled, Fulfilled
  <2>. QED  BY <1>6, <2>1 DEF PlacesInv, OutcomeInv
<1>. QED  BY <1>7, <1>8, <1>9, <1>10, <1>11, <1>12 DEF PlacesInv

\* Then and Catch of a settled promise.
LEMMA LatePlaces ==
  ASSUME TypeOK, PlacesInv, NEW p \in P, NEW kind \in {"then", "catch"},
         CallAtOnce(p, kind) \/ MakeOrphan(p, kind)
  PROVE  PlacesInv'
<1>0. state[p] \in Settled
  BY DEF CallAtOnce, MakeOrphan, Handles, Settled, Fulfilled
<1>1. PICK n \in P :
        /\ n = made + 1 /\ made' = n /\ n # p
        /\ state[n] = "none" /\ reg[n] = NoReg /\ calls[n] = 0
        /\ reg'[n] = [src |-> p, kind |-> kind, late |-> TRUE]
        /\ \A q \in P \ {n} : reg'[q] = reg[q]
        /\ \A q \in P : state[q] # "none" => q < n
  <2>1. Derive(p, kind, TRUE) /\ state[p] # "none"
    BY <1>0 DEF CallAtOnce, MakeOrphan, Settled, Fulfilled
  <2>. QED  BY <2>1, DerivedPromise
<1>2. /\ UNCHANGED <<jobs, reactions, resolvers>>
      /\ \/ /\ Handles(kind, state[p]) /\ state' = state
            /\ calls' = [calls EXCEPT ![n] = @ + 1]
            /\ stack' = Append(stack, Frame("callback", n, "call"))
         \/ /\ ~Handles(kind, state[p]) /\ state' = [state EXCEPT ![n] = "pending"]
            /\ calls' = calls /\ stack' = stack
  BY <1>1 DEF CallAtOnce, MakeOrphan, Push
<1>3. /\ \A q \in P \ {n} : state'[q] = state[q] /\ reg'[q] = reg[q] /\ calls'[q] = calls[q]
      /\ resolvers' \subseteq resolvers \union {n}
  BY <1>1, <1>2 DEF TypeOK
<1>4. /\ reg'[n].src = p /\ reg'[n].kind = kind /\ reg'[n].late = TRUE
      /\ Source(n)' = state[p] /\ state[p] \in Settled
  BY <1>0, <1>1, <1>3 DEF Source
<1>5. \/ Handles(kind, state[p]) /\ state'[n] = "none" /\ calls'[n] = 1
      \/ ~Handles(kind, state[p]) /\ state'[n] = "pending" /\ calls'[n] = 0
  BY <1>1, <1>2 DEF TypeOK
<1>6. /\ \A q, r \in P : WaitOK(r, q) => q # n /\ r # n /\ WaitOK(r, q)'
      /\ \A q \in P, v \in Settled : JobOK(q, v) => q # n /\ JobOK(q, v)'
      /\ \A f \in Frames : FrameOK(f) => f.for # n /\ FrameOK(f)'
      /\ \A q, r \in P \ {n} : Ordered(q, r) => Ordered(q, r)'
      /\ \A q \in P \ {n} : Derived(q) => reg[q].src \in P \ {n} /\ Source(q)' = Source(q)
      /\ \A q \in P \ {n} : KnownOK(q)'
      /\ \A q \in P \ {n} : OutcomeOK(q) => OutcomeOK(q)'
  BY <1>1, <1>3, NewKeeps DEF PlacesInv
<1>7. KnownInv'
  <2>1. KnownOK(n)'
    <3>1. n \notin resolvers
      BY <1>1 DEF PlacesInv, KnownInv, KnownOK, TypeOK
    <3>. QED  BY <1>1, <1>2, <1>4, <1>5, <3>1, PromisesAssumption
         DEF KnownOK, Derived, Settled, Fulfilled, P, TypeOK
  <2>. QED  BY <1>6, <2>1 DEF KnownInv
<1>8. WaitInv'
  <2>1. \A q, r \in P : WaitOK(r, q) => q \in P \ {n} /\ WaitOK(r, q)'
    BY <1>6
  <2>. QED  BY <1>2, <1>6, <2>1, WaitUnchanged DEF PlacesInv
<1>9. JobInv'
  <2>1. \A q \in P, v \in Settled : JobOK(q, v) => q \in P \ {n} /\ JobOK(q, v)'
    BY <1>6
  <2>. QED  BY <1>2, <1>6, <2>1, JobsUnchanged DEF PlacesInv
<1>10. FrameInv' /\ \A q \in P \ {n} : Running(q) => Running(q)'
  <2>1. CASE stack' = stack
    BY <1>6, <2>1, FramesUnchanged DEF PlacesInv, Running
  <2>2. CASE stack' # stack
    <3>. DEFINE f == Frame("callback", n, "call")
    <3>1a. n \in 0 .. MaxPromises
      BY PromisesAssumption DEF P
    <3>1b. f \in Frames
      BY <3>1a, FrameTypes
    <3>1. f \in Frames /\ f.for = n /\ f.kind = "callback" /\ f.via = "call"
      BY <3>1b DEF Frame
    <3>2. Handles(kind, state[p]) /\ state'[n] = "none" /\ calls'[n] = 1 /\ stack' = Append(stack, f)
      BY <1>2, <1>5, <2>2
    <3>. HIDE DEF f
    <3>3. FrameOK(f)'
      BY <1>4, <3>1, <3>2 DEF FrameOK, Applies
    <3>4. \A i \in 1 .. Len(stack) : stack[i].for # f.for
      <4>1. \A i \in 1 .. Len(stack) : stack[i] \in Frames /\ FrameOK(stack[i])
        BY ElementOfSeq DEF TypeOK, PlacesInv, FrameInv
      <4>. QED  BY <1>6, <3>1, <4>1
    <3>. QED  BY <1>6, <3>1, <3>2, <3>3, <3>4, FramesPush DEF PlacesInv
  <2>. QED  BY <2>1, <2>2
<1>11. ReasonInv'
  <2>1. ReasonOK(n)'
    BY <1>4, <1>5 DEF ReasonOK, Orphan, Applies, Handles
  <2>2. ASSUME NEW q \in P \ {n}
        PROVE  ReasonOK(q)'
    <3>1. ReasonOK(q) /\ reg'[q] = reg[q] /\ state'[q] = state[q] /\ (Derived(q) => Source(q)' = Source(q))
      BY <1>3, <1>6 DEF PlacesInv, ReasonInv
    <3>2. (Waiting(q) => Waiting(q)') /\ (Queued(q) => Queued(q)')
      BY <1>2, <1>3 DEF Waiting, Queued
    <3>. QED  BY <1>10, <3>1, <3>2, SameReason
  <2>. QED  BY <2>1, <2>2 DEF ReasonInv
<1>12. OutcomeInv'
  <2>1. OutcomeOK(n)'
    BY <1>4, <1>5 DEF OutcomeOK, Applies, Handles, Settled, Fulfilled
  <2>. QED  BY <1>6, <2>1 DEF PlacesInv, OutcomeInv
<1>. QED  BY <1>7, <1>8, <1>9, <1>10, <1>11, <1>12 DEF PlacesInv

------------------------------------------------------------------------------
(* A promise gets its result *)

\* What is not about p is as it was.
LEMMA SettleKeeps ==
  ASSUME TypeOK, KnownInv, NEW p \in P, NEW v \in Settled, state[p] \notin Settled,
         state' = [state EXCEPT ![p] = v], UNCHANGED <<reg, calls, made>>,
         resolvers' \subseteq resolvers,
         state[p] = "none" => p <= made
  PROVE  /\ \A q, r \in P : WaitOK(r, q) /\ r # p /\ q # p => WaitOK(r, q)'
         /\ \A q \in P, w \in Settled : JobOK(q, w) /\ q # p => JobOK(q, w)'
         /\ \A q \in P : WaitOK(p, q) /\ q # p => JobOK(q, v)'
         /\ \A f \in Frames : FrameOK(f) /\ (f.for # 0 => f.for # p) => FrameOK(f)'
         /\ \A q, r \in P : Ordered(q, r) => Ordered(q, r)'
         /\ \A q \in P : KnownOK(q)'
         /\ \A q \in P \ {p} : OutcomeOK(q) => OutcomeOK(q)'
         /\ \A q \in P : Source(q) \in Settled /\ Derived(q) => Source(q)' = Source(q)
<1>1. state'[p] = v /\ \A q \in P \ {p} : state'[q] = state[q]
  BY DEF TypeOK
<1>2. "none" \notin Settled /\ "pending" \notin Settled
  BY DEF Settled, Fulfilled
<1>3. \A q \in P : Derived(q) => reg[q].src \in P
  BY DEF KnownInv, KnownOK
<1>4. ASSUME NEW q \in P, Derived(q)
      PROVE  /\ Source(q) \in Settled => Source(q)' = Source(q)
             /\ Source(q)' \in {Source(q), v}
  BY <1>1, <1>3, <1>4 DEF Source
<1>5. ASSUME NEW q \in P, NEW r \in P, WaitOK(r, q), r # p, q # p
      PROVE  WaitOK(r, q)'
  BY <1>1, <1>5 DEF WaitOK, Derived
<1>6. ASSUME NEW q \in P, NEW w \in Settled, JobOK(q, w), q # p
      PROVE  JobOK(q, w)'
  BY <1>1, <1>4, <1>6 DEF JobOK, Derived
<1>7. ASSUME NEW q \in P, WaitOK(p, q), q # p
      PROVE  JobOK(q, v)'
  BY <1>1, <1>7 DEF WaitOK, JobOK, Derived, Source
<1>8. ASSUME NEW f \in Frames, FrameOK(f), f.for # 0 => f.for # p
      PROVE  FrameOK(f)'
  <2>1. CASE f.for = 0
    BY <2>1 DEF FrameOK
  <2>2. CASE f.for # 0
    <3>1. f.for \in P /\ f.for # p /\ Derived(f.for) /\ Source(f.for) \in Settled
      BY <1>8, <2>2 DEF FrameOK, Derived, Applies, Handles, Settled, Fulfilled
    <3>2. Source(f.for)' = Source(f.for) /\ state'[f.for] = state[f.for]
      BY <1>1, <1>4, <3>1
    <3>. QED  BY <1>8, <3>1, <3>2 DEF FrameOK, Applies, Handles
  <2>. QED  BY <2>1, <2>2
<1>9. \A q, r \in P : Ordered(q, r) => Ordered(q, r)'
  BY DEF Ordered
<1>10. ASSUME NEW q \in P
       PROVE  KnownOK(q)'
  <2>1. KnownOK(q)
    BY DEF KnownInv
  <2>2. q > made => q # p
    BY <1>2, <2>1 DEF KnownOK, TypeOK, P
  <2>3. Derived(q) => /\ Source(q)' # "none"
                      /\ Source(q) \in Settled => Source(q)' \in Settled
    BY <1>2, <1>4, <2>1 DEF KnownOK
  <2>. QED  BY <1>1, <2>1, <2>2, <2>3 DEF KnownOK, Derived
<1>11. ASSUME NEW q \in P \ {p}, OutcomeOK(q)
       PROVE  OutcomeOK(q)'
  <2>1. state'[q] = state[q]
    BY <1>1
  <2>2. Applies(q) /\ Derived(q) => Applies(q)'
    BY <1>4 DEF Applies, Handles, Settled, Fulfilled
  <2>. QED  BY <1>4, <1>11, <2>1, <2>2 DEF OutcomeOK, Derived
<1>. QED  BY <1>4, <1>5, <1>6, <1>7, <1>8, <1>9, <1>10, <1>11

\* The reactions become microtasks behind those that are there: those are for
\* promises whose source is settled, these for promises whose source was not.
LEMMA SettleQueues ==
  ASSUME TypeOK, KnownInv, WaitInv, NEW p \in P, NEW v \in Settled, NEW todo \in Seq(Microtasks),
         Settle(p, v, todo), UNCHANGED <<reg, calls>>,
         \A q, r \in P : WaitOK(r, q) => q # p,
         \A i \in 1 .. Len(todo) : JobOK(todo[i].for, todo[i].v)
                                   /\ JobOK(todo[i].for, todo[i].v)',
         \A i, j \in 1 .. Len(todo) : i < j => Ordered(todo[i].for, todo[j].for),
         \A q \in P : WaitOK(p, q) => JobOK(q, v)',
         \A q, r \in P : Ordered(q, r) => Ordered(q, r)'
  PROVE  /\ JobInv'
         /\ \A i \in 1 .. Len(todo) : Queued(todo[i].for)'
         /\ \A q \in P : (\E i \in 1 .. Len(reactions[p]) : reactions[p][i] = q) => Queued(q)'
<1>. DEFINE r == reactions[p]
            n == Len(todo)
            m == Len(r)
<1>1. r \in Seq(P) /\ m \in Nat /\ n \in Nat /\ \A i \in 1 .. m : r[i] \in P
  BY ElementOfSeq DEF TypeOK
<1>2. PICK new \in Seq(Microtasks) :
        new = Jobs(p, v) /\ Len(new) = m /\ \A i \in 1 .. m : new[i] = [for |-> r[i], v |-> v]
  BY JobsProperties DEF TypeOK
<1>3. jobs' = todo \o new
  BY <1>2 DEF Settle
<1>4. /\ Len(jobs') = n + m
      /\ \A i \in 1 .. n + m : jobs'[i] = IF i <= n THEN todo[i] ELSE new[i - n]
  <2>1. Len(todo \o new) = Len(todo) + Len(new)
    BY ConcatProperties
  <2>2. \A i \in 1 .. Len(todo) + Len(new) :
           (todo \o new)[i] = IF i <= Len(todo) THEN todo[i] ELSE new[i - Len(todo)]
    BY ConcatProperties
  <2>. QED  BY <1>2, <1>3, <2>1, <2>2
<1>5. \A i \in 1 .. n : i \in 1 .. n + m /\ i <= n
  BY <1>1
<1>6. \A i \in 1 .. m : \E k \in 1 .. n + m : ~(k <= n) /\ k - n = i
  <2>1. \A i \in 1 .. m : i + n \in 1 .. n + m /\ ~(i + n <= n) /\ (i + n) - n = i
    BY <1>1
  <2>. QED  BY <2>1
<1>7. \A i \in 1 .. n + m : i \in 1 .. n \/ (i - n \in 1 .. m /\ ~(i <= n))
  BY <1>1
<1>8. \A i \in 1 .. n : todo[i].for \in P /\ todo[i].v \in Settled
  <2>1. \A i \in 1 .. n : todo[i] \in Microtasks
    BY ElementOfSeq
  <2>. QED  BY <2>1 DEF Microtasks
<1>9. \A i \in 1 .. n : jobs'[i] = todo[i]
  BY <1>4, <1>5
<1>10. \A i \in 1 .. n + m : i \notin 1 .. n =>
          jobs'[i].for = r[i - n] /\ jobs'[i].v = v /\ i - n \in 1 .. m
  <2>1. ASSUME NEW i \in 1 .. n + m, i \notin 1 .. n
        PROVE  jobs'[i].for = r[i - n] /\ jobs'[i].v = v /\ i - n \in 1 .. m
    <3>1. i - n \in 1 .. m /\ ~(i <= n)
      BY <1>7, <2>1
    <3>2. jobs'[i] = new[i - n]
      BY <1>4, <3>1
    <3>3. new[i - n] = [for |-> r[i - n], v |-> v]
      BY <1>2, <3>1
    <3>. QED  BY <3>1, <3>2, <3>3
  <2>. QED  BY <2>1
<1>11. \A i \in 1 .. m : WaitOK(p, r[i])
  BY DEF WaitInv
<1>12. \A i, j \in 1 .. m : i < j => Ordered(r[i], r[j])
  BY DEF WaitInv
<1>. HIDE DEF r, n, m
<1>13. ASSUME NEW i \in 1 .. n + m
       PROVE  JobOK(jobs[i].for, jobs[i].v)'
  <2>1. CASE i \in 1 .. n
    <3>1. PICK q \in P, w \in Settled : q = todo[i].for /\ w = todo[i].v
      BY <1>8, <2>1
    <3>2. JobOK(todo[i].for, todo[i].v)'
      BY <2>1 DEF n
    <3>. QED  BY <1>9, <2>1, <3>2 DEF JobOK, Source, Derived
  <2>2. CASE i \notin 1 .. n
    <3>1. PICK q \in P : q = r[i - n] /\ WaitOK(p, q)
      BY <1>1, <1>10, <1>11, <2>2
    <3>2. JobOK(q, v)' /\ jobs'[i].for = q /\ jobs'[i].v = v
      BY <1>10, <2>2, <3>1
    <3>. QED  BY <3>2 DEF JobOK, Source, Derived
  <2>. QED  BY <2>1, <2>2
<1>14. ASSUME NEW i \in 1 .. n + m, NEW j \in 1 .. n + m, i < j
       PROVE  Ordered(jobs[i].for, jobs[j].for)'
  <2>. DEFINE a == jobs'[i].for
              b == jobs'[j].for
  <2>1. Ordered(a, b) /\ a \in P /\ b \in P
    <3>1. CASE i \in 1 .. n /\ j \in 1 .. n
      BY <1>8, <1>9, <1>14, <3>1 DEF n
    <3>2. CASE i \in 1 .. n /\ j \notin 1 .. n
      <4>1. a = todo[i].for /\ a \in P /\ JobOK(a, todo[i].v) /\ todo[i].v \in Settled
        BY <1>8, <1>9, <3>2 DEF n
      <4>2. b = r[j - n] /\ b \in P /\ WaitOK(p, b)
        BY <1>1, <1>10, <1>11, <3>2
      <4>3. "pending" \notin Settled
        BY DEF Settled, Fulfilled
      <4>. HIDE DEF a, b
      <4>4. Source(a) \in Settled /\ Source(b) = "pending"
        BY <4>1, <4>2 DEF JobOK, WaitOK, Source
      <4>5. a # b /\ reg[a].src # reg[b].src
        BY <4>3, <4>4 DEF Source
      <4>. QED  BY <4>1, <4>2, <4>5 DEF Ordered
    <3>3. CASE i \notin 1 .. n
      <4>1. i - n \in 1 .. m /\ j - n \in 1 .. m /\ i - n < j - n /\ j \notin 1 .. n
        BY <1>1, <1>7, <1>14, <3>3
      <4>2. a = r[i - n] /\ b = r[j - n]
        BY <1>10, <3>3, <4>1
      <4>. QED  BY <1>1, <1>12, <4>1, <4>2
    <3>. QED  BY <3>1, <3>2, <3>3
  <2>2. PICK x \in P, y \in P : x = a /\ y = b /\ Ordered(x, y)
    BY <2>1
  <2>3. Ordered(x, y)'
    BY <2>2
  <2>. QED  BY <2>2, <2>3 DEF Ordered
<1>15. Len(jobs)' = n + m
  BY <1>4
<1>16. JobInv'
  <2>1. \A i, j \in 1 .. n + m : i < j => Ordered(jobs[i].for, jobs[j].for)'
    BY <1>14
  <2>2. \A i \in 1 .. n + m : JobOK(jobs[i].for, jobs[i].v)'
    BY <1>13
  <2>. QED  BY <1>15, <2>1, <2>2 DEF JobInv
<1>17. \A i \in 1 .. n : Queued(todo[i].for)'
  BY <1>5, <1>9, <1>15 DEF Queued
<1>18. ASSUME NEW q \in P, NEW i \in 1 .. m, r[i] = q
       PROVE  Queued(q)'
  <2>1. PICK k \in 1 .. n + m : ~(k <= n) /\ k - n = i
    BY <1>6
  <2>2. jobs'[k] = new[i]
    BY <1>4, <2>1
  <2>3. jobs'[k].for = q
    BY <1>2, <1>18, <2>2
  <2>. QED  BY <1>15, <2>3 DEF Queued
<1>. QED  BY <1>16, <1>17, <1>18 DEF r, n, m

\* Whoever does not wait for p waits on.
LEMMA SettleWaits ==
  ASSUME TypeOK, WaitInv, NEW p \in P, NEW v \in Settled, NEW todo, Settle(p, v, todo),
         UNCHANGED reg,
         \A q, r \in P : WaitOK(r, q) => q # p,
         \A q, r \in P : WaitOK(r, q) /\ r # p /\ q # p => WaitOK(r, q)',
         \A q, r \in P : Ordered(q, r) => Ordered(q, r)'
  PROVE  /\ WaitInv'
         /\ \A q \in P : reg[q].src \in P \ {p} /\ Waiting(q) => Waiting(q)'
<1>1. /\ reactions'[p] = <<>>
      /\ \A r \in P \ {p} : reactions'[r] = reactions[r]
  BY DEF Settle, TypeOK
<1>2. \A r \in P : reactions[r] \in Seq(P) /\ \A i \in 1 .. Len(reactions[r]) : reactions[r][i] \in P
  BY ElementOfSeq DEF TypeOK
<1>3. ASSUME NEW r \in P
      PROVE  /\ \A i \in 1 .. Len(reactions[r])' : WaitOK(r, reactions[r][i])'
             /\ \A i, j \in 1 .. Len(reactions[r])' : i < j => Ordered(reactions[r][i], reactions[r][j])'
  <2>1. CASE r = p
    <3>1. Len(reactions[r])' = 0
      BY <1>1, <2>1
    <3>. QED  BY <3>1
  <2>2. CASE r # p
    <3>1. reactions'[r] = reactions[r] /\ Len(reactions[r])' = Len(reactions[r])
      BY <1>1, <2>2
    <3>2. \A i \in 1 .. Len(reactions[r]) : reactions[r][i] \in P /\ WaitOK(r, reactions[r][i])
      BY <1>2 DEF WaitInv
    <3>3. \A i, j \in 1 .. Len(reactions[r]) : i < j => Ordered(reactions[r][i], reactions[r][j])
      BY DEF WaitInv
    <3>. QED  BY <2>2, <3>1, <3>2, <3>3
  <2>. QED  BY <2>1, <2>2
<1>4. \A q \in P : reg[q].src \in P \ {p} /\ Waiting(q) => Waiting(q)'
  BY <1>1 DEF Waiting
<1>. QED  BY <1>3, <1>4 DEF WaitInv

\* Whatever settles p keeps what holds of all promises and their places.
LEMMA SettlePlaces ==
  ASSUME TypeOK, PlacesInv, NEW p \in P, NEW v \in Settled, NEW todo \in Seq(Microtasks),
         Settle(p, v, todo), UNCHANGED <<reg, calls, made>>, resolvers' \subseteq resolvers,
         state[p] \notin Settled, state[p] = "none" => p <= made,
         \A q, r \in P : WaitOK(r, q) => q # p,
         \A i \in 1 .. Len(todo) : todo[i].for # p /\ JobOK(todo[i].for, todo[i].v),
         \A i, j \in 1 .. Len(todo) : i < j => Ordered(todo[i].for, todo[j].for),
         Derived(p) /\ (calls[p] = 0 \/ reg[p].kind = "follow") => Source(p) = v,
         \A q \in P \ {p} : Queued(q) => \E i \in 1 .. Len(todo) : todo[i].for = q,
         \A q \in P \ {p} : Running(q) => Running(q)',
         (\A f \in Frames : FrameOK(f) /\ (f.for # 0 => f.for # p) => FrameOK(f)') => FrameInv'
  PROVE  PlacesInv'
<1>0. state' = [state EXCEPT ![p] = v]
  BY DEF Settle
<1>1. /\ \A q, r \in P : WaitOK(r, q) /\ r # p /\ q # p => WaitOK(r, q)'
      /\ \A q \in P, w \in Settled : JobOK(q, w) /\ q # p => JobOK(q, w)'
      /\ \A q \in P : WaitOK(p, q) /\ q # p => JobOK(q, v)'
      /\ \A f \in Frames : FrameOK(f) /\ (f.for # 0 => f.for # p) => FrameOK(f)'
      /\ \A q, r \in P : Ordered(q, r) => Ordered(q, r)'
      /\ \A q \in P : KnownOK(q)'
      /\ \A q \in P \ {p} : OutcomeOK(q) => OutcomeOK(q)'
      /\ \A q \in P : Source(q) \in Settled /\ Derived(q) => Source(q)' = Source(q)
  BY <1>0, SettleKeeps DEF PlacesInv
<1>2. state'[p] = v /\ \A q \in P \ {p} : state'[q] = state[q]
  BY <1>0 DEF TypeOK
<1>3. \A i \in 1 .. Len(todo) : todo[i].for \in P /\ todo[i].v \in Settled
  <2>1. \A i \in 1 .. Len(todo) : todo[i] \in Microtasks
    BY ElementOfSeq
  <2>. QED  BY <2>1 DEF Microtasks
<1>4. /\ JobInv'
      /\ \A i \in 1 .. Len(todo) : Queued(todo[i].for)'
      /\ \A q \in P : (\E i \in 1 .. Len(reactions[p]) : reactions[p][i] = q) => Queued(q)'
  <2>1. \A i \in 1 .. Len(todo) : JobOK(todo[i].for, todo[i].v) /\ JobOK(todo[i].for, todo[i].v)'
    BY <1>1, <1>3
  <2>2. \A q \in P : WaitOK(p, q) => JobOK(q, v)'
    BY <1>1
  <2>. QED  BY <1>1, <2>1, <2>2, SettleQueues DEF PlacesInv
<1>5. WaitInv' /\ \A q \in P : reg[q].src \in P \ {p} /\ Waiting(q) => Waiting(q)'
  BY <1>1, SettleWaits DEF PlacesInv
<1>6. KnownInv' /\ FrameInv'
  BY <1>1 DEF KnownInv
<1>7. ReasonInv'
  <2>1. ASSUME NEW q \in P, state'[q] = "pending", Derived(q)
        PROVE  \/ Source(q)' = "pending" /\ Waiting(q)'
               \/ Queued(q)' \/ Running(q)' \/ Orphan(q)'
    <3>1. q # p /\ state[q] = "pending"
      BY <1>2, <2>1 DEF Settled, Fulfilled
    <3>2. (Source(q) = "pending" /\ Waiting(q)) \/ Queued(q) \/ Running(q) \/ Orphan(q)
      BY <2>1, <3>1 DEF PlacesInv, ReasonInv, ReasonOK
    <3>3. reg[q].src \in P /\ (reg[q].late => Source(q) \in Settled)
      BY <2>1 DEF PlacesInv, KnownInv, KnownOK
    <3>4. CASE Source(q) = "pending" /\ Waiting(q) /\ reg[q].src = p
      BY <1>4, <3>4 DEF Waiting
    <3>5. CASE Source(q) = "pending" /\ Waiting(q) /\ reg[q].src # p
      <4>1. Source(q)' = "pending"
        BY <1>2, <3>3, <3>5 DEF Source
      <4>. QED  BY <1>5, <3>3, <3>5, <4>1
    <3>6. CASE Queued(q)
      <4>1. PICK i \in 1 .. Len(todo) : todo[i].for = q
        BY <3>1, <3>6
      <4>2. Queued(todo[i].for)'
        BY <1>4
      <4>. QED  BY <4>1, <4>2 DEF Queued
    <3>7. CASE Running(q)
      BY <3>1, <3>7
    <3>8. CASE Orphan(q)
      <4>1. Source(q)' = Source(q)
        BY <1>1, <2>1, <3>3, <3>8 DEF Orphan
      <4>. QED  BY <3>8, <4>1 DEF Orphan, Applies, Handles
    <3>. QED  BY <3>2, <3>4, <3>5, <3>6, <3>7, <3>8
  <2>. QED  BY <2>1 DEF ReasonInv, ReasonOK, Derived
<1>8. OutcomeInv'
  <2>1. OutcomeOK(p) /\ KnownOK(p)
    BY DEF PlacesInv, OutcomeInv, KnownInv
  <2>2. Applies(p) /\ Derived(p) => Applies(p)'
    <3>1. Applies(p) => Source(p) \in Settled
      BY DEF Applies, Handles, Settled, Fulfilled
    <3>. QED  BY <1>1, <3>1 DEF Applies, Handles
  <2>3. OutcomeOK(p)'
    BY <1>1, <1>2, <2>1, <2>2 DEF OutcomeOK, Derived
  <2>. QED  BY <1>1, <2>3 DEF PlacesInv, OutcomeInv
<1>. QED  BY <1>4, <1>5, <1>6, <1>7, <1>8 DEF PlacesInv

\* A step that touches no promise.
LEMMA SamePlaces ==
  ASSUME TypeOK, PlacesInv, UNCHANGED <<state, made, reg, reactions, jobs, calls>>,
         resolvers' \subseteq resolvers,
         \A q \in P : state[q] = "pending" /\ Running(q) => Running(q)',
         (\A f \in Frames : FrameOK(f) => FrameOK(f)') => FrameInv'
  PROVE  PlacesInv'
<1>1. \A f \in Frames : FrameOK(f) => FrameOK(f)'
  BY DEF FrameOK, Applies, Source, Handles
<1>2. KnownInv'
  BY DEF PlacesInv, KnownInv, KnownOK, Derived, Source
<1>3. WaitInv'
  BY DEF PlacesInv, WaitInv, WaitOK, Ordered, Derived
<1>4. JobInv'
  BY DEF PlacesInv, JobInv, JobOK, Ordered, Derived, Source
<1>5. ReasonInv'
  <2>1. ASSUME NEW q \in P
        PROVE  ReasonOK(q)'
    <3>1. ReasonOK(q)
      BY DEF PlacesInv, ReasonInv
    <3>. QED  BY <3>1 DEF ReasonOK, Waiting, Queued, Orphan, Applies, Source, Handles, Derived
  <2>. QED  BY <2>1 DEF ReasonInv
<1>6. OutcomeInv'
  BY DEF PlacesInv, OutcomeInv, OutcomeOK, Applies, Source, Handles, Derived
<1>. QED  BY <1>1, <1>2, <1>3, <1>4, <1>5, <1>6 DEF PlacesInv

\* PromiseResolver: p is nobody's registration.
LEMMA ResolvePlaces ==
  ASSUME TypeOK, PlacesInv, NEW p \in P, Resolve(p) \/ Reject(p)
  PROVE  PlacesInv'
<1>1. /\ p \in resolvers /\ resolvers' \subseteq resolvers
      /\ UNCHANGED <<reg, calls, made, stack>>
  BY DEF Resolve, Reject, counters
<1>2. \A q \in P : Running(q) => Running(q)'
  BY <1>1 DEF Running
<1>3. CASE state[p] # "pending"
  <2>1. UNCHANGED <<state, jobs, reactions>>
    BY <1>3 DEF Resolve, Reject
  <2>2. (\A f \in Frames : FrameOK(f) => FrameOK(f)') => FrameInv'
    BY <1>1, FramesUnchanged DEF PlacesInv
  <2>. QED  BY <1>1, <1>2, <2>1, <2>2, SamePlaces
<1>4. CASE state[p] = "pending"
  <2>1. PICK v \in Settled : Settle(p, v, jobs)
    BY <1>4 DEF Resolve, Reject, Settled, Fulfilled
  <2>2. reg[p] = NoReg /\ ~Derived(p)
    BY <1>1 DEF PlacesInv, KnownInv, KnownOK, Derived, NoReg
  <2>3. state[p] \notin Settled /\ state[p] # "none"
    BY <1>4 DEF Settled, Fulfilled
  <2>4. \A q, r \in P : WaitOK(r, q) => q # p
    BY <2>2 DEF WaitOK
  <2>5. \A i \in 1 .. Len(jobs) : JobOK(jobs[i].for, jobs[i].v)
    BY DEF PlacesInv, JobInv
  <2>6. \A i \in 1 .. Len(jobs) : jobs[i].for # p
    BY <2>2, <2>5 DEF JobOK
  <2>7. \A i, j \in 1 .. Len(jobs) : i < j => Ordered(jobs[i].for, jobs[j].for)
    BY DEF PlacesInv, JobInv
  <2>8. \A f \in Frames : FrameOK(f) => (f.for # 0 => f.for # p)
    BY <2>2 DEF FrameOK, Derived
  <2>9. (\A f \in Frames : FrameOK(f) /\ (f.for # 0 => f.for # p) => FrameOK(f)') => FrameInv'
    <3>. SUFFICES ASSUME \A f \in Frames : FrameOK(f) /\ (f.for # 0 => f.for # p) => FrameOK(f)'
                  PROVE  FrameInv'
      OBVIOUS
    <3>1. \A f \in Frames : FrameOK(f) => FrameOK(f)'
      BY <2>8
    <3>. QED  BY <1>1, <3>1, FramesUnchanged DEF PlacesInv
  <2>10. jobs \in Seq(Microtasks)
    BY DEF TypeOK
  <2>11. \A q \in P \ {p} : Queued(q) => \E i \in 1 .. Len(jobs) : jobs[i].for = q
    BY DEF Queued
  <2>. QED  BY <1>1, <1>2, <2>1, <2>2, <2>3, <2>4, <2>5, <2>6, <2>7, <2>9, <2>10, <2>11, SettlePlaces
<1>. QED  BY <1>3, <1>4

\* A frame of p's callback returns: p has a microtask no more, and waits for
\* nothing.
LEMMA CalledIsNowhereElse ==
  ASSUME TypeOK, PlacesInv, NEW f \in Frames, f.for # 0, FrameOK(f)
  PROVE  /\ \A q, r \in P : WaitOK(r, q) => q # f.for
         /\ \A i \in 1 .. Len(jobs) : jobs[i].for # f.for
         /\ state[f.for] = "none" => f.for <= made
         /\ state[f.for] \in {"none", "pending"}
<1>1. f.for \in P /\ reg[f.for].kind # "follow" /\ calls[f.for] = 1
  BY DEF FrameOK
<1>2. \A q, r \in P : WaitOK(r, q) => q # f.for
  BY <1>1 DEF WaitOK
<1>3. \A i \in 1 .. Len(jobs) : jobs[i].for # f.for
  BY <1>1 DEF PlacesInv, JobInv, JobOK
<1>4. KnownOK(f.for)
  BY <1>1 DEF PlacesInv, KnownInv
<1>5. f.for <= made
  BY <1>1, <1>4, PromisesAssumption DEF KnownOK, TypeOK, P
<1>6. state[f.for] \in {"none", "pending"}
  BY DEF FrameOK
<1>. QED  BY <1>2, <1>3, <1>5, <1>6

\* A callback returns or throws.
LEMMA ReturnPlaces ==
  ASSUME TypeOK, PlacesInv, CallbackReturns \/ CallbackThrows
  PROVE  PlacesInv'
<1>1. stack # <<>> /\ Pop /\ UNCHANGED <<made, reg, resolvers, calls>>
  BY DEF CallbackReturns, CallbackThrows, CallbackTop, JsTop
<1>2. Top \in Frames /\ FrameOK(Top) /\ (Top.for # 0 => Top.for \in P)
  BY <1>1, TopFrame DEF PlacesInv
<1>3. /\ (\A g \in Frames : FrameOK(g) /\ (g.for # 0 => g.for # Top.for) => FrameOK(g)') => FrameInv'
      /\ (\A g \in Frames : FrameOK(g) /\ (g.for # 0 => g.for # Top.for) => FrameOK(g)')
           => \A q \in P : Running(q) /\ q # Top.for => Running(q)'
  BY <1>1, FramesPop DEF PlacesInv
<1>4. CASE Top.for = 0
  <2>1. UNCHANGED <<state, jobs, reactions>>
    BY <1>4 DEF CallbackReturns, CallbackThrows
  <2>2. \A f \in Frames : FrameOK(f) => FrameOK(f)'
    BY <1>1, <2>1 DEF FrameOK, Applies, Source, Handles
  <2>3. \A q \in P : q # Top.for
    BY <1>4 DEF P
  <2>. QED  BY <1>1, <1>3, <2>1, <2>2, <2>3, SamePlaces
<1>5. CASE Top.for # 0
  <2>1. PICK p \in P : p = Top.for
    BY <1>2, <1>5
  <2>2. PICK v \in Settled : Settle(p, v, jobs)
    <3>1. \E v \in Settled : Settle(Top.for, v, jobs)
      BY <1>5 DEF CallbackReturns, CallbackThrows, Settled, Fulfilled
    <3>. QED  BY <2>1, <3>1
  <2>3. /\ \A q, r \in P : WaitOK(r, q) => q # p
        /\ \A i \in 1 .. Len(jobs) : jobs[i].for # p
        /\ state[p] = "none" => p <= made
        /\ state[p] \notin Settled
    BY <1>2, <1>5, <2>1, CalledIsNowhereElse DEF Settled, Fulfilled
  <2>4. /\ \A i \in 1 .. Len(jobs) : JobOK(jobs[i].for, jobs[i].v)
        /\ \A i, j \in 1 .. Len(jobs) : i < j => Ordered(jobs[i].for, jobs[j].for)
    BY DEF PlacesInv, JobInv
  <2>5. ~(calls[p] = 0 \/ reg[p].kind = "follow")
    BY <1>2, <1>5, <2>1 DEF FrameOK
  <2>6. \A q \in P \ {p} : Queued(q) => \E i \in 1 .. Len(jobs) : jobs[i].for = q
    BY DEF Queued
  <2>7. jobs \in Seq(Microtasks)
    BY DEF TypeOK
  <2>8. \A f \in Frames : FrameOK(f) /\ (f.for # 0 => f.for # p) => FrameOK(f)'
    <3>1. state' = [state EXCEPT ![p] = v]
      BY <2>2 DEF Settle
    <3>. QED  BY <1>1, <2>3, <3>1, SettleKeeps DEF PlacesInv
  <2>9. FrameInv' /\ \A q \in P \ {p} : Running(q) => Running(q)'
    BY <1>3, <2>1, <2>8
  <2>. QED  BY <1>1, <2>2, <2>3, <2>4, <2>5, <2>6, <2>7, <2>9, SettlePlaces
<1>. QED  BY <1>4, <1>5

\* The first microtask is taken.
LEMMA FirstJob ==
  ASSUME TypeOK, PlacesInv, jobs # <<>>
  PROVE  \E p \in P, v \in Settled :
           /\ p = Head(jobs).for /\ v = Head(jobs).v /\ JobOK(p, v) /\ Tail(jobs) \in Seq(Microtasks)
           /\ \A i \in 1 .. Len(Tail(jobs)) :
                Tail(jobs)[i].for # p /\ JobOK(Tail(jobs)[i].for, Tail(jobs)[i].v)
           /\ \A i, j \in 1 .. Len(Tail(jobs)) : i < j => Ordered(Tail(jobs)[i].for, Tail(jobs)[j].for)
           /\ \A q \in P \ {p} : Queued(q) => \E i \in 1 .. Len(Tail(jobs)) : Tail(jobs)[i].for = q
<1>. DEFINE t == Tail(jobs)
            n == Len(jobs)
<1>1. jobs \in Seq(Microtasks) /\ n \in Nat /\ n >= 1
  BY EmptySeq DEF TypeOK
<1>2. /\ Head(jobs) = jobs[1] /\ Head(jobs) \in Microtasks
      /\ t \in Seq(Microtasks) /\ Len(t) = n - 1
      /\ \A i \in 1 .. n - 1 : t[i] = jobs[i + 1]
  BY <1>1, HeadTailProperties
<1>3. PICK p \in P, v \in Settled : p = Head(jobs).for /\ v = Head(jobs).v
  BY <1>2 DEF Microtasks
<1>. HIDE DEF t
<1>4. 1 \in 1 .. n /\ \A i \in 1 .. n - 1 : i + 1 \in 1 .. n /\ 1 < i + 1
  BY <1>1
<1>5. JobOK(p, v)
  BY <1>2, <1>3, <1>4 DEF PlacesInv, JobInv
<1>6. ASSUME NEW i \in 1 .. n - 1
      PROVE  t[i].for # p /\ JobOK(t[i].for, t[i].v)
  <2>1. PICK k \in 1 .. n : k = i + 1 /\ 1 < k
    BY <1>4
  <2>2. t[i] = jobs[k] /\ Ordered(jobs[1].for, jobs[k].for) /\ JobOK(jobs[k].for, jobs[k].v)
    BY <1>2, <1>4, <2>1 DEF PlacesInv, JobInv
  <2>. QED  BY <1>2, <1>3, <2>2 DEF Ordered
<1>7. ASSUME NEW i \in 1 .. n - 1, NEW j \in 1 .. n - 1, i < j
      PROVE  Ordered(t[i].for, t[j].for)
  <2>1. PICK k \in 1 .. n, l \in 1 .. n : k = i + 1 /\ l = j + 1 /\ k < l
    BY <1>4, <1>7
  <2>. QED  BY <1>2, <2>1 DEF PlacesInv, JobInv
<1>8. ASSUME NEW q \in P \ {p}, Queued(q)
      PROVE  \E i \in 1 .. n - 1 : t[i].for = q
  <2>1. PICK k \in 1 .. n : jobs[k].for = q
    BY <1>8 DEF Queued
  <2>2. k # 1
    BY <1>2, <1>3, <2>1
  <2>3. k - 1 \in 1 .. n - 1 /\ (k - 1) + 1 = k
    BY <1>1, <2>2
  <2>4. t[k - 1] = jobs[k]
    BY <1>2, <2>3
  <2>. QED  BY <2>1, <2>3, <2>4
<1>. QED  BY <1>2, <1>3, <1>5, <1>6, <1>7, <1>8 DEF t

LEMMA MicrotaskPlaces ==
  ASSUME TypeOK, PlacesInv, RunMicrotask
  PROVE  PlacesInv'
<1>0. jobs # <<>> /\ UNCHANGED <<made, reg, resolvers>>
  BY DEF RunMicrotask
<1>1. PICK p \in P, v \in Settled :
        /\ p = Head(jobs).for /\ v = Head(jobs).v /\ JobOK(p, v) /\ Tail(jobs) \in Seq(Microtasks)
        /\ \A i \in 1 .. Len(Tail(jobs)) :
             Tail(jobs)[i].for # p /\ JobOK(Tail(jobs)[i].for, Tail(jobs)[i].v)
        /\ \A i, j \in 1 .. Len(Tail(jobs)) : i < j => Ordered(Tail(jobs)[i].for, Tail(jobs)[j].for)
        /\ \A q \in P \ {p} : Queued(q) => \E i \in 1 .. Len(Tail(jobs)) : Tail(jobs)[i].for = q
  BY <1>0, FirstJob
<1>2. state[p] = "pending" /\ Source(p) = v /\ Derived(p)
  BY <1>1 DEF JobOK
<1>3. \A q, r \in P : WaitOK(r, q) => q # p
  BY <1>2 DEF WaitOK, Source, Settled, Fulfilled
<1>4. \A f \in Frames : FrameOK(f) => (f.for # 0 => f.for # p)
  BY <1>1 DEF FrameOK, JobOK
<1>5. CASE ~Handles(reg[p].kind, v)
  <2>1. Settle(p, v, Tail(jobs)) /\ UNCHANGED <<stack, calls>>
    BY <1>1, <1>5 DEF RunMicrotask
  <2>2. \A q \in P : Running(q) => Running(q)'
    BY <2>1 DEF Running
  <2>3. (\A f \in Frames : FrameOK(f) /\ (f.for # 0 => f.for # p) => FrameOK(f)') => FrameInv'
    <3>. SUFFICES ASSUME \A f \in Frames : FrameOK(f) /\ (f.for # 0 => f.for # p) => FrameOK(f)'
                  PROVE  FrameInv'
      OBVIOUS
    <3>1. \A f \in Frames : FrameOK(f) => FrameOK(f)'
      BY <1>4
    <3>. QED  BY <2>1, <3>1, FramesUnchanged DEF PlacesInv
  <2>4. state[p] \notin Settled /\ state[p] # "none"
    BY <1>2 DEF Settled, Fulfilled
  <2>. QED  BY <1>0, <1>1, <1>2, <1>3, <2>1, <2>2, <2>3, <2>4, SettlePlaces
<1>6. CASE Handles(reg[p].kind, v)
  <2>1. /\ stack' = Append(stack, Frame("callback", p, "job")) /\ jobs' = Tail(jobs)
        /\ calls' = [calls EXCEPT ![p] = @ + 1] /\ UNCHANGED <<state, reactions>>
    BY <1>1, <1>6 DEF RunMicrotask, Push
  <2>2. /\ reg[p].kind \in {"then", "catch"} /\ calls[p] = 0 /\ ~reg[p].late /\ Applies(p)
        /\ calls'[p] = 1 /\ \A q \in P \ {p} : calls'[q] = calls[q]
    BY <1>1, <1>2, <1>6, <2>1 DEF JobOK, Handles, Applies, TypeOK
  <2>3. KnownInv'
    <3>1. p <= made
      BY <1>2, PromisesAssumption DEF PlacesInv, KnownInv, KnownOK, TypeOK, P
    <3>2. ASSUME NEW q \in P
          PROVE  KnownOK(q)'
      <4>1. KnownOK(q)
        BY DEF PlacesInv, KnownInv
      <4>2. q > made => q # p
        BY <3>1, PromisesAssumption DEF TypeOK, P
      <4>. QED  BY <1>0, <2>1, <2>2, <4>1, <4>2 DEF KnownOK, Derived, Source
    <3>. QED  BY <3>2 DEF KnownInv
  <2>4. WaitInv'
    <3>1. \A q, r \in P : WaitOK(r, q) => q \in P \ {p} /\ WaitOK(r, q)'
      BY <1>0, <1>3, <2>1, <2>2 DEF WaitOK, Derived
    <3>2. \A q, r \in P \ {p} : Ordered(q, r) => Ordered(q, r)'
      BY <1>0 DEF Ordered
    <3>. QED  BY <2>1, <3>1, <3>2, WaitUnchanged DEF PlacesInv
  <2>. DEFINE t == Tail(jobs)
  <2>5. t \in Seq(Microtasks) /\ \A i \in 1 .. Len(t) : t[i].for \in P \ {p} /\ t[i].v \in Settled
    <3>1. \A i \in 1 .. Len(t) : t[i] \in Microtasks
      BY <1>1, ElementOfSeq
    <3>. QED  BY <1>1, <3>1 DEF Microtasks
  <2>6. JobInv'
    <3>1. \A q \in P \ {p}, w \in Settled : JobOK(q, w) => JobOK(q, w)'
      BY <1>0, <2>1, <2>2 DEF JobOK, Source, Derived
    <3>2. \A q, r \in P : Ordered(q, r) => Ordered(q, r)'
      BY <1>0 DEF Ordered
    <3>3. \A i \in 1 .. Len(t) : JobOK(t[i].for, t[i].v)
      BY <1>1
    <3>4. \A i, j \in 1 .. Len(t) : i < j => Ordered(t[i].for, t[j].for)
      BY <1>1
    <3>5. jobs' = t
      BY <2>1
    <3>. HIDE DEF t
    <3>6. ASSUME NEW i \in 1 .. Len(t)
          PROVE  JobOK(jobs[i].for, jobs[i].v)'
      <4>1. PICK q \in P \ {p}, w \in Settled : q = t[i].for /\ w = t[i].v
        BY <2>5
      <4>2. JobOK(q, w)'
        BY <3>1, <3>3, <4>1
      <4>. QED  BY <3>5, <4>1, <4>2 DEF JobOK, Source, Derived
    <3>7. ASSUME NEW i \in 1 .. Len(t), NEW j \in 1 .. Len(t), i < j
          PROVE  Ordered(jobs[i].for, jobs[j].for)'
      <4>1. PICK q \in P, r \in P : q = t[i].for /\ r = t[j].for
        BY <2>5
      <4>2. Ordered(q, r)'
        BY <3>2, <3>4, <3>7, <4>1
      <4>. QED  BY <3>5, <4>1, <4>2 DEF Ordered
    <3>8. Len(jobs)' = Len(t)
      BY <3>5
    <3>. QED  BY <3>6, <3>7, <3>8 DEF JobInv
  <2>7. FrameInv' /\ (\A q \in P : Running(q) => Running(q)') /\ Running(p)'
    <3>1. PICK f \in Frames : f = Frame("callback", p, "job")
      <4>1. p \in 0 .. MaxPromises
        BY PromisesAssumption DEF P
      <4>. QED  BY <4>1, FrameTypes
    <3>2. f.kind = "callback" /\ f.for = p /\ f.via = "job"
      BY <3>1 DEF Frame
    <3>3. ASSUME NEW g \in Frames, FrameOK(g)
          PROVE  FrameOK(g)'
      <4>1. g.for # 0 => g.for \in P \ {p}
        BY <1>4, <3>3 DEF FrameOK
      <4>. QED  BY <1>0, <2>1, <2>2, <3>3, <4>1 DEF FrameOK, Applies, Source, Handles
    <3>4. FrameOK(f)'
      BY <1>0, <1>2, <2>1, <2>2, <3>2 DEF FrameOK, Applies, Source, Handles
    <3>5. \A i \in 1 .. Len(stack) : stack[i].for # f.for
      <4>1. \A i \in 1 .. Len(stack) : stack[i] \in Frames /\ FrameOK(stack[i])
        BY ElementOfSeq DEF TypeOK, PlacesInv, FrameInv
      <4>2. p # 0
        BY DEF P
      <4>. QED  BY <1>4, <3>2, <4>1, <4>2
    <3>. QED  BY <2>1, <3>1, <3>2, <3>3, <3>4, <3>5, FramesPush DEF PlacesInv
  <2>8. ReasonInv'
    <3>1. ReasonOK(p)'
      BY <2>7 DEF ReasonOK
    <3>2. ASSUME NEW q \in P \ {p}
          PROVE  ReasonOK(q)'
      <4>1. ReasonOK(q)
        BY DEF PlacesInv, ReasonInv
      <4>2. Queued(q) => Queued(q)'
        BY <1>1, <2>1 DEF Queued
      <4>3. Waiting(q) => Waiting(q)'
        BY <1>0, <2>1 DEF Waiting
      <4>4. Source(q)' = Source(q)
        BY <1>0, <2>1 DEF Source
      <4>. QED  BY <1>0, <2>1, <2>7, <4>1, <4>2, <4>3, <4>4, SameReason
    <3>. QED  BY <3>1, <3>2 DEF ReasonInv
  <2>9. OutcomeInv'
    <3>1. ASSUME NEW q \in P
          PROVE  OutcomeOK(q)'
      <4>1. OutcomeOK(q)
        BY DEF PlacesInv, OutcomeInv
      <4>2. (Applies(q) => Applies(q)') /\ Source(q)' = Source(q)
        BY <1>0, <2>1 DEF Applies, Handles, Source
      <4>3. CASE q = p
        BY <1>0, <1>2, <2>1, <2>2, <4>1, <4>2, <4>3 DEF OutcomeOK, Derived, Settled, Fulfilled
      <4>4. CASE q # p
        BY <1>0, <2>1, <2>2, <4>1, <4>2, <4>4 DEF OutcomeOK, Derived
      <4>. QED  BY <4>3, <4>4
    <3>. QED  BY <3>1 DEF OutcomeInv
  <2>. QED  BY <2>3, <2>4, <2>6, <2>7, <2>8, <2>9 DEF PlacesInv
<1>. QED  BY <1>5, <1>6

\* A callback returns a promise: in a microtask, V8 makes the derived promise
\* wait for it.
LEMMA FollowPlaces ==
  ASSUME TypeOK, PlacesInv, NEW q \in P, CallbackReturnsPromise(q)
  PROVE  PlacesInv'
<1>1. /\ stack # <<>> /\ Pop /\ Top.for # 0 /\ Top.for # q /\ state[q] # "none"
      /\ UNCHANGED <<state, made, resolvers, calls>>
  BY DEF CallbackReturnsPromise, CallbackTop, JsTop
<1>2. Top \in Frames /\ FrameOK(Top) /\ Top.for \in P
  BY <1>1, TopFrame DEF PlacesInv
<1>3. /\ (\A g \in Frames : FrameOK(g) /\ (g.for # 0 => g.for # Top.for) => FrameOK(g)') => FrameInv'
      /\ (\A g \in Frames : FrameOK(g) /\ (g.for # 0 => g.for # Top.for) => FrameOK(g)')
           => \A x \in P : Running(x) /\ x # Top.for => Running(x)'
  BY <1>1, FramesPop DEF PlacesInv
<1>4. CASE Top.via # "job"
  <2>1. UNCHANGED <<reg, reactions, jobs>>
    BY <1>4 DEF CallbackReturnsPromise
  <2>2. \A f \in Frames : FrameOK(f) => FrameOK(f)'
    BY <1>1, <2>1 DEF FrameOK, Applies, Source, Handles
  <2>3. state[Top.for] # "pending"
    BY <1>1, <1>2, <1>4 DEF FrameOK
  <2>4. \A x \in P : state[x] = "pending" /\ Running(x) => Running(x)'
    BY <1>3, <2>2, <2>3
  <2>. QED  BY <1>1, <1>3, <2>1, <2>2, <2>4, SamePlaces
<1>5. CASE Top.via = "job"
  <2>1. PICK p \in P : p = Top.for
    BY <1>2
  <2>2. /\ p # q /\ state[p] = "pending" /\ reg[p].kind \in {"then", "catch"}
        /\ calls[p] = 1 /\ ~reg[p].late
    BY <1>1, <1>2, <1>5, <2>1 DEF FrameOK
  <2>3. /\ \A x, r \in P : WaitOK(r, x) => x # p
        /\ \A i \in 1 .. Len(jobs) : jobs[i].for # p
        /\ p <= made
    <3>1. KnownOK(p)
      BY DEF PlacesInv, KnownInv
    <3>2. p <= made
      BY <2>2, <3>1, PromisesAssumption DEF KnownOK, TypeOK, P
    <3>. QED  BY <1>1, <1>2, <2>1, <3>2, CalledIsNowhereElse
  <2>4. reg' = [reg EXCEPT ![p] = [@ EXCEPT !.src = q, !.kind = "follow"]]
    BY <1>5, <2>1 DEF CallbackReturnsPromise
  <2>5. /\ reg'[p].src = q /\ reg'[p].kind = "follow" /\ ~reg'[p].late
        /\ \A x \in P \ {p} : reg'[x] = reg[x]
    <3>1. reg[p] \in Registrations
      BY DEF TypeOK
    <3>2. reg'[p] = [reg[p] EXCEPT !.src = q, !.kind = "follow"]
      BY <2>4 DEF TypeOK
    <3>3. reg'[p].late = reg[p].late
      BY <3>1, <3>2 DEF Registrations
    <3>. QED  BY <2>2, <2>4, <3>1, <3>2, <3>3 DEF TypeOK, Registrations
  <2>6. \A x \in P \ {p} : Source(x)' = Source(x)
    BY <1>1, <2>5 DEF Source
  <2>7. Source(p)' = state[q]
    BY <1>1, <2>5 DEF Source
  <2>8. \A x, r \in P : WaitOK(r, x) => x \in P \ {p} /\ WaitOK(r, x)'
    BY <1>1, <2>3, <2>5 DEF WaitOK, Derived
  <2>9. \A x, r \in P \ {p} : Ordered(x, r) => Ordered(x, r)'
    BY <2>5 DEF Ordered
  <2>10. \A x \in P \ {p} : Ordered(x, p)'
    BY <2>5 DEF Ordered
  <2>11. \A x \in P \ {p}, w \in Settled : JobOK(x, w) => JobOK(x, w)'
    BY <1>1, <2>5, <2>6 DEF JobOK, Derived
  <2>12. \A f \in Frames : FrameOK(f) /\ (f.for # 0 => f.for # p) => FrameOK(f)'
    <3>1. ASSUME NEW f \in Frames, FrameOK(f), f.for # 0 => f.for # p
          PROVE  FrameOK(f)'
      <4>1. CASE f.for = 0
        BY <4>1 DEF FrameOK
      <4>2. CASE f.for # 0
        <5>1. f.for \in P \ {p}
          BY <3>1, <4>2 DEF FrameOK
        <5>. QED  BY <1>1, <2>5, <2>6, <3>1, <5>1 DEF FrameOK, Applies, Handles
      <4>. QED  BY <4>1, <4>2
    <3>. QED  BY <3>1
  <2>13. FrameInv' /\ \A x \in P \ {p} : Running(x) => Running(x)'
    BY <1>3, <2>1, <2>12
  <2>14. KnownInv'
    <3>1. ASSUME NEW x \in P
          PROVE  KnownOK(x)'
      <4>1. KnownOK(x)
        BY DEF PlacesInv, KnownInv
      <4>2. CASE x = p
        <5>1. p \notin resolvers
          BY <2>2, <4>1, <4>2 DEF KnownOK, NoReg
        <5>2. ~(p > made)
          BY <2>3, PromisesAssumption DEF TypeOK, P
        <5>. QED  BY <1>1, <2>5, <2>7, <4>2, <5>1, <5>2 DEF KnownOK
      <4>3. CASE x # p
        BY <1>1, <2>5, <2>6, <4>1, <4>3 DEF KnownOK, Derived
      <4>. QED  BY <4>2, <4>3
    <3>. QED  BY <3>1 DEF KnownInv
  <2>15. OutcomeInv'
    <3>1. ASSUME NEW x \in P
          PROVE  OutcomeOK(x)'
      <4>1. OutcomeOK(x)
        BY DEF PlacesInv, OutcomeInv
      <4>2. CASE x = p
        BY <1>1, <2>2, <2>5, <4>2 DEF OutcomeOK, Settled, Fulfilled
      <4>3. CASE x # p
        BY <1>1, <2>5, <2>6, <4>1, <4>3 DEF OutcomeOK, Derived, Applies, Handles
      <4>. QED  BY <4>2, <4>3
    <3>. QED  BY <3>1 DEF OutcomeInv
  <2>16. ASSUME (Source(p)' = "pending" /\ Waiting(p)') \/ Queued(p)',
                \A x \in P \ {p} : Derived(x) => (Waiting(x) => Waiting(x)') /\ (Queued(x) => Queued(x)')
         PROVE  ReasonInv'
    <3>1. ReasonOK(p)'
      BY <2>16 DEF ReasonOK
    <3>2. ASSUME NEW x \in P \ {p}
          PROVE  ReasonOK(x)'
      <4>1. ReasonOK(x)
        BY DEF PlacesInv, ReasonInv
      <4>2. CASE Derived(x)
        BY <1>1, <2>5, <2>6, <2>13, <2>16, <4>1, <4>2, SameReason
      <4>3. CASE ~Derived(x)
        BY <2>5, <4>3 DEF ReasonOK, Derived
      <4>. QED  BY <4>2, <4>3
    <3>. QED  BY <3>1, <3>2 DEF ReasonInv
  <2>17. CASE state[q] = "pending"
    <3>1. reactions' = [reactions EXCEPT ![q] = Append(@, p)] /\ jobs' = jobs
      BY <1>5, <2>1, <2>17 DEF CallbackReturnsPromise
    <3>2. JobInv'
      <4>1. \A x \in P, w \in Settled : (\E i \in 1 .. Len(jobs) : jobs[i].for = x) => x # p
        BY <2>3
      <4>2. \A i \in 1 .. Len(jobs) : jobs[i].for \in P \ {p} /\ jobs[i].v \in Settled
        <5>1. \A i \in 1 .. Len(jobs) : jobs[i] \in Microtasks
          BY ElementOfSeq DEF TypeOK
        <5>. QED  BY <2>3, <5>1 DEF Microtasks
      <4>. QED  BY <2>9, <2>11, <3>1, <4>2 DEF PlacesInv, JobInv
    <3>. DEFINE m == Len(reactions[q])
    <3>3. /\ reactions[q] \in Seq(P) /\ m \in Nat /\ Len(reactions'[q]) = m + 1
          /\ reactions'[q][m + 1] = p
          /\ \A i \in 1 .. m : reactions'[q][i] = reactions[q][i]
          /\ \A r \in P \ {q} : reactions'[r] = reactions[r]
      BY <3>1, AppendProperties, EmptySeq DEF TypeOK
    <3>4. \A i \in 1 .. m + 1 : i \in 1 .. m \/ i = m + 1
      BY <3>3
    <3>5. WaitOK(q, p)'
      BY <1>1, <2>2, <2>5, <2>17 DEF WaitOK, Derived
    <3>6. \A r \in P : \A i \in 1 .. Len(reactions[r]) : reactions[r][i] \in P \ {p} /\ WaitOK(r, reactions[r][i])
      <4>1. \A r \in P : \A i \in 1 .. Len(reactions[r]) : reactions[r][i] \in P /\ WaitOK(r, reactions[r][i])
        BY ElementOfSeq DEF TypeOK, PlacesInv, WaitInv
      <4>. QED  BY <2>8, <4>1
    <3>7. \A r \in P : \A i, j \in 1 .. Len(reactions[r]) : i < j => Ordered(reactions[r][i], reactions[r][j])
      BY DEF PlacesInv, WaitInv
    <3>8. ASSUME NEW i \in 1 .. m + 1
          PROVE  WaitOK(q, reactions[q][i])'
      <4>1. CASE i = m + 1
        BY <3>3, <3>5, <4>1
      <4>2. CASE i # m + 1
        BY <2>8, <3>3, <3>4, <3>6, <4>2
      <4>. QED  BY <4>1, <4>2
    <3>9. ASSUME NEW i \in 1 .. m + 1, NEW j \in 1 .. m + 1, i < j
          PROVE  Ordered(reactions[q][i], reactions[q][j])'
      <4>1. i \in 1 .. m
        BY <3>3, <3>9
      <4>2. reactions[q][i] \in P \ {p} /\ reactions'[q][i] = reactions[q][i]
        BY <3>3, <3>6, <4>1
      <4>3. CASE j = m + 1
        BY <2>10, <3>3, <4>2, <4>3
      <4>4. CASE j # m + 1
        <5>1. j \in 1 .. m
          BY <3>4, <4>4
        <5>2. Ordered(reactions[q][i], reactions[q][j]) /\ reactions[q][j] \in P \ {p}
          BY <3>6, <3>7, <3>9, <4>1, <5>1
        <5>. QED  BY <2>9, <3>3, <4>2, <5>1, <5>2
      <4>. QED  BY <4>3, <4>4
    <3>10. WaitInv'
      <4>1. Len(reactions[q])' = m + 1
        BY <3>3
      <4>2. \A i, j \in 1 .. m + 1 : i < j => Ordered(reactions[q][i], reactions[q][j])'
        BY <3>9
      <4>3. ASSUME NEW r \in P
            PROVE  /\ \A i \in 1 .. Len(reactions[r])' : WaitOK(r, reactions[r][i])'
                   /\ \A i, j \in 1 .. Len(reactions[r])' : i < j => Ordered(reactions[r][i], reactions[r][j])'
        <5>1. CASE r = q
          BY <3>8, <4>1, <4>2, <5>1
        <5>2. CASE r # q
          <6>1. reactions'[r] = reactions[r] /\ Len(reactions[r])' = Len(reactions[r])
            BY <3>3, <5>2
          <6>2. \A i \in 1 .. Len(reactions[r]) : reactions[r][i] \in P \ {p} /\ WaitOK(r, reactions[r][i])
            BY <3>6
          <6>3. \A i, j \in 1 .. Len(reactions[r]) : i < j => Ordered(reactions[r][i], reactions[r][j])
            BY <3>7
          <6>. QED  BY <2>8, <2>9, <6>1, <6>2, <6>3
        <5>. QED  BY <5>1, <5>2
      <4>. QED  BY <4>3 DEF WaitInv
    <3>11. Waiting(p)' /\ Source(p)' = "pending"
      <4>1. m + 1 \in 1 .. m + 1
        BY <3>3
      <4>. QED  BY <2>5, <2>7, <2>17, <3>3, <4>1 DEF Waiting
    <3>12. ASSUME NEW x \in P \ {p}, Derived(x)
           PROVE  (Waiting(x) => Waiting(x)') /\ (Queued(x) => Queued(x)')
      <4>1. Queued(x) => Queued(x)'
        BY <3>1 DEF Queued
      <4>2. Waiting(x) => Waiting(x)'
        <5>1. \A i \in 1 .. m : i \in 1 .. m + 1
          BY <3>3
        <5>2. CASE reg[x].src = q
          BY <2>5, <3>3, <5>1, <5>2 DEF Waiting
        <5>3. CASE reg[x].src # q
          <6>1. reg[x].src \in P /\ reg'[x].src = reg[x].src
            BY <2>5, <3>12 DEF PlacesInv, KnownInv, KnownOK
          <6>2. reactions'[reg[x].src] = reactions[reg[x].src]
            BY <3>3, <5>3, <6>1
          <6>. QED  BY <6>1, <6>2 DEF Waiting
        <5>. QED  BY <5>2, <5>3
      <4>. QED  BY <4>1, <4>2
    <3>13. ReasonInv'
      BY <2>16, <3>11, <3>12
    <3>. QED  BY <2>13, <2>14, <2>15, <3>2, <3>10, <3>13 DEF PlacesInv
  <2>18. CASE state[q] # "pending"
    <3>1. /\ jobs' = Append(jobs, [for |-> p, v |-> state[q]]) /\ reactions' = reactions
      BY <1>5, <2>1, <2>18 DEF CallbackReturnsPromise
    <3>2. state[q] \in Settled
      BY <1>1, <2>18 DEF TypeOK
    <3>3. PICK e \in Microtasks : e = [for |-> p, v |-> state[q]] /\ e.for = p /\ e.v = state[q]
      <4>1. [for |-> p, v |-> state[q]] \in Microtasks
        BY <3>2 DEF Microtasks
      <4>. QED  BY <4>1
    <3>. DEFINE m == Len(jobs)
    <3>4. /\ Len(jobs') = m + 1 /\ m \in Nat /\ jobs'[m + 1] = e
          /\ \A i \in 1 .. m : jobs'[i] = jobs[i]
      BY <3>1, <3>3, AppendProperties, EmptySeq DEF TypeOK
    <3>5. \A i \in 1 .. m + 1 : i \in 1 .. m \/ i = m + 1
      BY <3>4
    <3>6. JobOK(p, state[q])'
      BY <1>1, <2>2, <2>5, <2>7 DEF JobOK, Derived
    <3>7. \A i \in 1 .. m : /\ jobs[i].for \in P \ {p} /\ jobs[i].v \in Settled
                            /\ JobOK(jobs[i].for, jobs[i].v)
      <4>1. \A i \in 1 .. m : jobs[i] \in Microtasks
        BY ElementOfSeq DEF TypeOK
      <4>. QED  BY <2>3, <4>1 DEF Microtasks, PlacesInv, JobInv
    <3>8. ASSUME NEW i \in 1 .. m + 1
          PROVE  JobOK(jobs[i].for, jobs[i].v)'
      <4>1. CASE i = m + 1
        BY <1>1, <3>3, <3>4, <3>6, <4>1 DEF JobOK, Source, Derived
      <4>2. CASE i # m + 1
        <5>1. PICK x \in P \ {p}, w \in Settled : x = jobs'[i].for /\ w = jobs'[i].v /\ JobOK(x, w)
          BY <3>4, <3>5, <3>7, <4>2
        <5>2. JobOK(x, w)'
          BY <2>11, <5>1
        <5>. QED  BY <5>1, <5>2 DEF JobOK, Source, Derived
      <4>. QED  BY <4>1, <4>2
    <3>9. ASSUME NEW i \in 1 .. m + 1, NEW j \in 1 .. m + 1, i < j
          PROVE  Ordered(jobs[i].for, jobs[j].for)'
      <4>1. i \in 1 .. m
        BY <3>4, <3>9
      <4>2. PICK x \in P \ {p} : x = jobs[i].for /\ x = jobs'[i].for
        BY <3>4, <3>7, <4>1
      <4>3. CASE j = m + 1
        <5>1. jobs'[j].for = p /\ Ordered(x, p)'
          BY <2>10, <3>3, <3>4, <4>3
        <5>. QED  BY <4>2, <5>1 DEF Ordered
      <4>4. CASE j # m + 1
        <5>1. j \in 1 .. m
          BY <3>5, <4>4
        <5>2. PICK y \in P \ {p} : y = jobs[j].for /\ y = jobs'[j].for
          BY <3>4, <3>7, <5>1
        <5>3. Ordered(x, y)
          BY <3>9, <4>1, <4>2, <5>1, <5>2 DEF PlacesInv, JobInv
        <5>4. Ordered(x, y)'
          BY <2>9, <5>3
        <5>. QED  BY <4>2, <5>2, <5>4 DEF Ordered
      <4>. QED  BY <4>3, <4>4
    <3>10. JobInv'
      <4>1. Len(jobs)' = m + 1
        BY <3>4
      <4>2. \A i, j \in 1 .. m + 1 : i < j => Ordered(jobs[i].for, jobs[j].for)'
        BY <3>9
      <4>3. \A i \in 1 .. m + 1 : JobOK(jobs[i].for, jobs[i].v)'
        BY <3>8
      <4>. QED  BY <4>1, <4>2, <4>3 DEF JobInv
    <3>11. WaitInv'
      BY <2>8, <2>9, <3>1, WaitUnchanged DEF PlacesInv
    <3>12. Queued(p)' /\ \A x \in P : Queued(x) => Queued(x)'
      <4>1. m + 1 \in 1 .. m + 1 /\ \A i \in 1 .. m : i \in 1 .. m + 1
        BY <3>4
      <4>. QED  BY <3>3, <3>4, <4>1 DEF Queued
    <3>13. \A x \in P \ {p} : Waiting(x) => Waiting(x)'
      BY <2>5, <3>1 DEF Waiting
    <3>14. ReasonInv'
      BY <2>16, <3>12, <3>13
    <3>. QED  BY <2>13, <2>14, <2>15, <3>10, <3>11, <3>14 DEF PlacesInv
  <2>. QED  BY <2>17, <2>18
<1>. QED  BY <1>4, <1>5

\* Calls and returns that are about no promise.
LEMMA CallPlaces ==
  ASSUME TypeOK, PlacesInv,
         \/ RunTask \/ EvaluateJavaScript \/ CallTimer \/ CallHost
         \/ TaskReturns \/ HostReturns \/ ScriptEnds
  PROVE  PlacesInv'
<1>1. UNCHANGED <<state, made, reg, reactions, jobs, calls, resolvers>>
  BY DEF RunTask, EvaluateJavaScript, CallTimer, CallHost, TaskReturns, HostReturns, ScriptEnds,
         promiseVars
<1>2. \A f \in Frames : FrameOK(f) => FrameOK(f)'
  BY <1>1 DEF FrameOK, Applies, Source, Handles
<1>3. CASE RunTask \/ EvaluateJavaScript \/ CallTimer \/ CallHost
  <2>1. PICK k \in {"task", "host", "script", "callback"}, via \in {"loop", "run", "call", "job"} :
          stack' = Append(stack, Frame(k, 0, via))
    BY <1>3 DEF RunTask, EvaluateJavaScript, CallTimer, CallHost, Push
  <2>2. Frame(k, 0, via) \in Frames
    <3>1. 0 \in 0 .. MaxPromises
      BY PromisesAssumption
    <3>. QED  BY <3>1, FrameTypes
  <2>3. PICK f \in Frames : f = Frame(k, 0, via) /\ f.for = 0
    BY <2>2 DEF Frame
  <2>4. FrameOK(f)'
    BY <2>3 DEF FrameOK
  <2>5. FrameInv' /\ \A q \in P : Running(q) => Running(q)'
    BY <1>2, <2>1, <2>3, <2>4, FramesPush DEF PlacesInv
  <2>. QED  BY <1>1, <2>5, SamePlaces
<1>4. CASE TaskReturns \/ HostReturns \/ ScriptEnds
  <2>1. stack # <<>> /\ Pop /\ Top.kind # "callback"
    BY <1>4 DEF TaskReturns, HostReturns, ScriptEnds, NativeTop, JsTop
  <2>2. Top.for = 0
    BY <2>1, TopFrame DEF FrameOK, PlacesInv
  <2>3. FrameInv' /\ \A q \in P : Running(q) /\ q # Top.for => Running(q)'
    BY <1>2, <2>1, FramesPop DEF PlacesInv
  <2>4. \A q \in P : q # Top.for
    BY <2>2 DEF P
  <2>. QED  BY <1>1, <2>3, <2>4, SamePlaces
<1>. QED  BY <1>3, <1>4

LEMMA PlacesStep == TypeOK /\ PlacesInv /\ Next => PlacesInv'
<1>. SUFFICES ASSUME TypeOK, PlacesInv, Next PROVE PlacesInv'
  OBVIOUS
<1>1. CASE RunTask \/ EvaluateJavaScript \/ CallTimer \/ CallHost
           \/ TaskReturns \/ HostReturns \/ ScriptEnds
  BY <1>1, CallPlaces
<1>2. CASE CreatePromiseResolver \/ GetDataAsync
  BY <1>2, NewPromise
<1>3. CASE RunMicrotask
  BY <1>3, MicrotaskPlaces
<1>4. CASE CallbackReturns \/ CallbackThrows
  BY <1>4, ReturnPlaces
<1>5. ASSUME NEW q \in P, CallbackReturnsPromise(q)
      PROVE  PlacesInv'
  BY <1>5, FollowPlaces
<1>6. ASSUME NEW p \in P, Resolve(p) \/ Reject(p)
      PROVE  PlacesInv'
  BY <1>6, ResolvePlaces
<1>7. ASSUME NEW p \in P, NEW kind \in {"then", "catch"},
             RegisterWithV8(p, kind) \/ CallAtOnce(p, kind) \/ MakeOrphan(p, kind)
      PROVE  PlacesInv'
  BY <1>7, RegisterPlaces, LatePlaces
<1>. QED  BY <1>1, <1>2, <1>3, <1>4, <1>5, <1>6, <1>7 DEF Next, Progress, Then, Catch

------------------------------------------------------------------------------
(* The exception that V8 has scheduled *)

\* An exception that leaves a callback of V8Runtime::call, with JavaScript
\* below: a host function made the call.
LEMMA ThrownIntoHost ==
  ASSUME NEW s \in Seq(Frames), Shape(s), s # <<>>, Last(s).kind = "callback", Last(s).via # "job",
         InJs(Front(s))
  PROVE  Caught(Front(s), Len(Front(s)))
<1>. DEFINE u == Front(s)
            n == Len(s)
<1>1. /\ n \in Nat /\ n >= 1 /\ u \in Seq(Frames) /\ Len(u) = n - 1 /\ Last(s) = s[n]
      /\ \A i \in 1 .. n - 1 : u[i] = s[i]
  BY PopProperties
<1>2. DOMAIN u = 1 .. n - 1
  BY <1>1, LenProperties
<1>3. PICK i \in 1 .. n - 1 : u[i].kind \in JavaScript
  BY <1>2 DEF InJs
<1>4. n > 1 /\ n \in 1 .. n /\ n - 1 \in 1 .. n /\ n - 1 \in 1 .. n - 1
  BY <1>1
<1>5. s[n - 1].kind \in {"task", "host"}
  BY <1>1, <1>4 DEF Shape
<1>6. CASE s[n - 1].kind = "task"
  <2>1. n - 1 = 1
    BY <1>4, <1>6 DEF Shape
  <2>2. i = n - 1
    BY <1>1, <2>1
  <2>. QED  BY <1>1, <1>3, <1>6, <2>2 DEF JavaScript
<1>7. CASE s[n - 1].kind = "host"
  <2>1. n - 1 > 1 /\ s[(n - 1) - 1].kind \in JavaScript
    BY <1>4, <1>7 DEF Shape
  <2>2. (n - 1) - 1 \in 1 .. n - 1
    BY <1>1, <2>1
  <2>3. u[n - 1].kind = "host" /\ u[(n - 1) - 1].kind \in JavaScript
    BY <1>1, <1>4, <1>7, <2>1, <2>2
  <2>. HIDE DEF u
  <2>4. Caught(u, n - 1)
    BY <1>1, <2>1, <2>3 DEF Caught
  <2>. QED  BY <1>1, <2>4 DEF u
<1>. QED  BY <1>5, <1>6, <1>7

LEMMA StackStep == TypeOK /\ StackInv /\ Next => StackInv'
<1>. SUFFICES ASSUME TypeOK, StackInv, Next PROVE StackInv'
  OBVIOUS
<1>0. stack \in Seq(Frames) /\ scheduled \in Nat /\ 0 \in 0 .. MaxPromises
      /\ \A p \in P : p \in 0 .. MaxPromises
  BY PromisesAssumption DEF TypeOK, P
<1>1. ASSUME NEW f \in Frames, stack' = Append(stack, f), scheduled' = scheduled,
             f.kind \in {"task", "script"} => stack = <<>>,
             f.kind = "host" => stack # <<>> /\ Last(stack).kind \in JavaScript,
             f.kind = "callback" /\ f.via # "job" /\ stack # <<>> => Last(stack).kind \in {"task", "host"}
      PROVE  StackInv'
  <2>1. /\ Shape(Append(stack, f))
        /\ Caught(stack, scheduled) => Caught(Append(stack, f), scheduled)
    BY <1>0, <1>1, ShapePush DEF StackInv
  <2>. QED  BY <1>1, <2>1 DEF StackInv, Shape, Caught
<1>2. ASSUME stack # <<>>, Pop,
             scheduled' = 0 \/ (scheduled' = scheduled /\ Last(stack).kind # "host")
      PROVE  StackInv'
  <2>1. /\ Shape(Front(stack))
        /\ Caught(stack, scheduled) /\ Last(stack).kind # "host" => Caught(Front(stack), scheduled)
    BY <1>0, <1>2, ShapePop DEF StackInv
  <2>. QED  BY <1>2, <2>1 DEF StackInv, Shape, Caught, Pop
<1>3. CASE RunTask
  <2>1. stack' = Append(stack, Frame("task", 0, "loop")) /\ stack = <<>> /\ scheduled' = scheduled
    BY <1>3 DEF RunTask, CanStart, Push
  <2>2. PICK f \in Frames : f = Frame("task", 0, "loop") /\ f.kind = "task"
    BY <1>0, FrameTypes DEF Frame
  <2>. QED  BY <1>1, <2>1, <2>2
<1>4. CASE EvaluateJavaScript
  <2>1. stack' = Append(stack, Frame("script", 0, "run")) /\ stack = <<>> /\ scheduled' = scheduled
    BY <1>4 DEF EvaluateJavaScript, CanStart, Push
  <2>2. PICK f \in Frames : f = Frame("script", 0, "run") /\ f.kind = "script"
    BY <1>0, FrameTypes DEF Frame
  <2>. QED  BY <1>1, <2>1, <2>2
<1>5. CASE CallTimer
  <2>1. stack' = Append(stack, Frame("callback", 0, "call")) /\ stack = <<>> /\ scheduled' = scheduled
    BY <1>5 DEF CallTimer, CanStart, Push
  <2>2. PICK f \in Frames : f = Frame("callback", 0, "call") /\ f.kind = "callback"
    BY <1>0, FrameTypes DEF Frame
  <2>. QED  BY <1>1, <2>1, <2>2
<1>6. CASE CallHost
  <2>1. /\ stack' = Append(stack, Frame("host", 0, "call")) /\ scheduled' = scheduled
        /\ stack # <<>> /\ Last(stack).kind \in JavaScript
    BY <1>6 DEF CallHost, JsTop, Push, Top
  <2>2. PICK f \in Frames : f = Frame("host", 0, "call") /\ f.kind = "host"
    BY <1>0, FrameTypes DEF Frame
  <2>. QED  BY <1>1, <2>1, <2>2
<1>7. ASSUME NEW p \in P, NEW kind \in {"then", "catch"}, CallAtOnce(p, kind)
      PROVE  StackInv'
  <2>1. /\ stack' = Append(stack, Frame("callback", made', "call")) /\ scheduled' = scheduled
        /\ Last(stack).kind \in {"task", "host"}
        /\ made' = made + 1 /\ made < MaxPromises
    BY <1>7 DEF CallAtOnce, Derive, NativeTop, Push, Top
  <2>2. made' \in 0 .. MaxPromises
    BY <2>1, PromisesAssumption DEF TypeOK
  <2>3. PICK f \in Frames : f = Frame("callback", made', "call") /\ f.kind = "callback"
    BY <2>2, FrameTypes DEF Frame
  <2>. QED  BY <1>1, <2>1, <2>3
<1>8. CASE RunMicrotask
  <2>1. CASE UNCHANGED stack
    BY <1>8, <2>1 DEF RunMicrotask, StackInv, Shape, Caught
  <2>2. CASE ~UNCHANGED stack
    <3>1. stack' = Append(stack, Frame("callback", Head(jobs).for, "job")) /\ scheduled' = scheduled
          /\ jobs # <<>>
      BY <1>8, <2>2 DEF RunMicrotask, Push
    <3>2. Head(jobs).for \in P
      <4>1. Head(jobs) \in Microtasks
        BY <3>1, HeadTailProperties DEF TypeOK
      <4>. QED  BY <4>1 DEF Microtasks
    <3>3. PICK f \in Frames :
            f = Frame("callback", Head(jobs).for, "job") /\ f.kind = "callback" /\ f.via = "job"
      BY <1>0, <3>2, FrameTypes DEF Frame
    <3>. QED  BY <1>1, <3>1, <3>3
  <2>. QED  BY <2>1, <2>2
<1>9. CASE TaskReturns \/ ScriptEnds \/ HostReturns \/ CallbackReturns
           \/ \E q \in P : CallbackReturnsPromise(q)
  <2>1. stack # <<>> /\ Pop
    BY <1>9 DEF TaskReturns, ScriptEnds, HostReturns, CallbackReturns, CallbackReturnsPromise,
                NativeTop, CallbackTop, JsTop
  <2>2. scheduled' = 0 \/ (scheduled' = scheduled /\ Last(stack).kind # "host")
    BY <1>9 DEF TaskReturns, ScriptEnds, HostReturns, CallbackReturns, CallbackReturnsPromise,
                NativeTop, CallbackTop, JsTop, Top, JavaScript
  <2>. QED  BY <1>2, <2>1, <2>2
<1>10. CASE CallbackThrows
  <2>1. /\ stack # <<>> /\ stack' = Front(stack) /\ Last(stack).kind = "callback"
        /\ scheduled' = IF Last(stack).via # "job" /\ InJs(stack') THEN Len(stack') ELSE scheduled
    BY <1>10 DEF CallbackThrows, CallbackTop, JsTop, Pop, Top
  <2>2. Shape(Front(stack)) /\ (Caught(stack, scheduled) => Caught(Front(stack), scheduled))
    BY <1>0, <2>1, ShapePop DEF StackInv
  <2>3. Last(stack).via # "job" /\ InJs(Front(stack)) => Caught(Front(stack), Len(Front(stack)))
    BY <1>0, <2>1, ThrownIntoHost DEF StackInv
  <2>4. scheduled' # 0 => Caught(Front(stack), scheduled')
    BY <1>0, <2>1, <2>2, <2>3 DEF StackInv
  <2>. QED  BY <2>1, <2>2, <2>4 DEF StackInv, Shape, Caught
<1>11. CASE stack' = stack /\ scheduled' = scheduled
  BY <1>11 DEF StackInv, Shape, Caught
<1>12. \/ CreatePromiseResolver \/ GetDataAsync
       \/ \E p \in P : Resolve(p) \/ Reject(p)
       \/ \E p \in P, kind \in {"then", "catch"} : RegisterWithV8(p, kind) \/ MakeOrphan(p, kind)
       => stack' = stack /\ scheduled' = scheduled
  BY DEF CreatePromiseResolver, GetDataAsync, Resolve, Reject, RegisterWithV8, MakeOrphan
<1>. QED  BY <1>3, <1>4, <1>5, <1>6, <1>7, <1>8, <1>9, <1>10, <1>11, <1>12
     DEF Next, Progress, Then, Catch

------------------------------------------------------------------------------
(* The theorems *)

LEMMA InitIInv == Init => IInv
<1>. SUFFICES ASSUME Init PROVE IInv
  OBVIOUS
<1>1. TypeOK
  BY InitTypes
<1>2. /\ jobs = <<>> /\ stack = <<>> /\ scheduled = 0 /\ resolvers = {} /\ made = 0
      /\ \A p \in P : /\ state[p] = "none" /\ reg[p] = NoReg /\ reactions[p] = <<>> /\ calls[p] = 0
  BY DEF Init
<1>3. Len(jobs) = 0 /\ Len(stack) = 0 /\ \A p \in P : Len(reactions[p]) = 0
  BY <1>2
<1>4. \A p \in P : ~Derived(p)
  BY <1>2 DEF Derived, NoReg
<1>5. KnownInv
  BY <1>2, <1>4 DEF KnownInv, KnownOK
<1>6. WaitInv /\ JobInv /\ FrameInv
  BY <1>3 DEF WaitInv, JobInv, FrameInv
<1>7. StackInv
  BY <1>2, <1>3 DEF StackInv, Shape
<1>8. ReasonInv /\ OutcomeInv
  BY <1>2, <1>4 DEF ReasonInv, ReasonOK, OutcomeInv, OutcomeOK, NoReg
<1>. QED  BY <1>1, <1>5, <1>6, <1>7, <1>8 DEF IInv

LEMMA IInvStep == IInv /\ [Next]_vars => IInv'
<1>. SUFFICES ASSUME IInv, [Next]_vars PROVE IInv'
  OBVIOUS
<1>1. CASE Next
  BY <1>1, TypeStep, PlacesStep, StackStep DEF IInv, PlacesInv
<1>2. CASE UNCHANGED vars
  <2>1. UNCHANGED <<state, made, reg, reactions, jobs, resolvers, bgQueue, stack, scheduled, calls,
                    roots, hostCalls>>
    BY <1>2 DEF vars, promiseVars, counters
  <2>2. TypeOK' /\ StackInv'
    BY <2>1 DEF IInv, TypeOK, StackInv, Shape, Caught
  <2>3. FrameInv'
    <3>1. \A f \in Frames : FrameOK(f) => FrameOK(f)'
      BY <2>1 DEF FrameOK, Applies, Source, Handles
    <3>. QED  BY <2>1, <3>1, FramesUnchanged DEF IInv
  <2>4. \A q \in P : Running(q) => Running(q)'
    BY <2>1 DEF Running
  <2>5. PlacesInv'
    BY <2>1, <2>3, <2>4, SamePlaces DEF IInv, PlacesInv
  <2>. QED  BY <2>2, <2>5 DEF IInv, PlacesInv
<1>. QED  BY <1>1, <1>2

LEMMA Invariance == Spec => []IInv
BY InitIInv, IInvStep, PTL DEF Spec

\* Every variable has its type, whatever V8, the scripts and the host functions
\* do.
THEOREM TypeCorrect == Spec => []TypeOK
<1>1. IInv => TypeOK
  BY DEF IInv
<1>. QED  BY <1>1, Invariance, PTL

\* No resolution is lost: a promise of Then or Catch (V8Runtime.cpp:955, 1021)
\* that is pending waits for its source, or is on its way, or is the orphan that
\* V8Runtime.cpp's TODO speaks of.
THEOREM AlwaysForAReason == Spec => []PendingForAReason
<1>1. IInv => PendingForAReason
  <2>. SUFFICES ASSUME IInv PROVE PendingForAReason
    OBVIOUS
  <2>1. /\ DOMAIN jobs = 1 .. Len(jobs) /\ DOMAIN stack = 1 .. Len(stack)
    BY DEF IInv, TypeOK
  <2>2. ASSUME NEW p \in P, state[p] = "pending", Derived(p)
        PROVE  \/ Source(p) = "pending" /\ Contains(reactions[reg[p].src], p)
               \/ InFlight(p) \/ Orphan(p)
    <3>1. (Source(p) = "pending" /\ Waiting(p)) \/ Queued(p) \/ Running(p) \/ Orphan(p)
      BY <2>2 DEF IInv, ReasonInv, ReasonOK
    <3>. QED  BY <2>1, <3>1 DEF Waiting, Queued, Running, InFlight, Contains
  <2>. QED  BY <2>2 DEF IInv, PendingForAReason
<1>. QED  BY <1>1, Invariance, PTL

\* A callback is called at most once and for its outcome, a result that has no
\* callback is handed on as it is, and an exception that V8 has scheduled does not
\* outlive the host function in which it came up, which JavaScript called and to
\* which it returns (V8Runtime::call, HostFunctionCallback).
THEOREM AlwaysForItsOutcome == Spec => []CalledForItsOutcome
<1>1. IInv => CalledForItsOutcome
  <2>. SUFFICES ASSUME IInv PROVE CalledForItsOutcome
    OBVIOUS
  <2>1. DOMAIN stack = 1 .. Len(stack)
    BY DEF IInv, TypeOK
  <2>2. ScheduledHasCatcher
    BY <2>1 DEF IInv, StackInv, Caught, ScheduledHasCatcher
  <2>3. \A p \in P : OutcomeOK(p)
    BY DEF IInv, OutcomeInv
  <2>. QED  BY <2>2, <2>3 DEF CalledForItsOutcome, OutcomeOK
<1>. QED  BY <1>1, Invariance, PTL

\* A registration whose callback is due has a microtask.
LEMMA DueIsQueued ==
  ASSUME IInv, NEW q \in P, calls[q] = 0, state[q] = "pending", reg[q].kind \in {"then", "catch"},
         Applies(q)
  PROVE  Queued(q)
<1>1. Derived(q) /\ Source(q) # "pending" /\ ~Orphan(q)
  BY DEF Derived, Applies, Handles, Orphan, Fulfilled
<1>2. ~Running(q)
  <2>1. ASSUME NEW i \in 1 .. Len(stack), stack[i].kind = "callback", stack[i].for = q
        PROVE  FALSE
    <3>1. FrameOK(stack[i])
      BY DEF IInv, FrameInv
    <3>. QED  BY <2>1, <3>1 DEF FrameOK, P
  <2>. QED  BY <2>1 DEF Running
<1>. QED  BY <1>1, <1>2 DEF IInv, ReasonInv, ReasonOK

\* Callbacks of one promise are called in the order in which they were
\* registered; only Then and Catch in a host function call one ahead of those
\* that wait for JavaScript to return (V8Runtime.cpp:955).
THEOREM NoOvertaking == Spec => OvertakesOnlyInHostFunctions
<1>. DEFINE InTurn(p, q) ==
       (/\ calls'[p] > calls[p] /\ q < p /\ calls[q] = 0 /\ state[q] = "pending"
        /\ reg'[q].src = reg'[p].src /\ reg[q].kind \in {"then", "catch"} /\ Applies(q))
       => reg'[p].late /\ InJs(stack)
<1>1. IInv /\ [Next]_vars => [\A p, q \in P : InTurn(p, q)]_vars
  <2>. SUFFICES ASSUME IInv, Next, NEW p \in P, NEW q \in P,
                       calls'[p] > calls[p], q < p, calls[q] = 0, state[q] = "pending",
                       reg'[q].src = reg'[p].src, reg[q].kind \in {"then", "catch"}, Applies(q)
                PROVE  reg'[p].late /\ InJs(stack)
    OBVIOUS
  <2>0. TypeOK /\ PlacesInv
    BY DEF IInv, PlacesInv
  <2>1. Queued(q)
    BY DueIsQueued
  <2>2. p # q /\ calls' # calls
    BY <2>0, PromisesAssumption DEF TypeOK, P
  <2>3. jobs # <<>>
    BY <2>1 DEF Queued
  <2>4. CASE RunMicrotask
    <3>1. PICK h \in P : h = Head(jobs).for
      BY <2>0, <2>3, FirstJob
    <3>2. h = p
      <4>1. calls' = [calls EXCEPT ![h] = @ + 1]
        BY <2>2, <2>4, <3>1 DEF RunMicrotask
      <4>. QED  BY <2>0, <4>1 DEF TypeOK
    <3>3. reg' = reg
      BY <2>4 DEF RunMicrotask
    <3>4. PICK k \in 1 .. Len(jobs) : jobs[k].for = q
      BY <2>1 DEF Queued
    <3>5. Head(jobs) = jobs[1] /\ Len(jobs) \in Nat
      BY <2>0, <2>3, HeadTailProperties DEF TypeOK
    <3>6. k # 1
      BY <2>2, <3>1, <3>2, <3>4, <3>5
    <3>7. 1 \in 1 .. Len(jobs) /\ 1 < k
      BY <3>5, <3>6
    <3>8. Ordered(p, q)
      BY <3>1, <3>2, <3>4, <3>5, <3>7 DEF IInv, JobInv
    <3>9. reg[p].kind # "follow"
      BY <2>4, <2>2, <2>3, <3>1, <3>2 DEF RunMicrotask, Handles
    <3>10. p < q
      BY <3>3, <3>8, <3>9 DEF Ordered
    <3>. QED  BY <3>10, PromisesAssumption DEF P
  <2>5. ASSUME NEW s \in P, NEW kind \in {"then", "catch"}, CallAtOnce(s, kind)
        PROVE  reg'[p].late /\ InJs(stack)
    <3>1. InJs(stack)
      BY <2>3, <2>5 DEF CallAtOnce, Derive, NativeTop
    <3>2. /\ reg' = [reg EXCEPT ![made'] = [src |-> s, kind |-> kind, late |-> TRUE]]
          /\ calls' = [calls EXCEPT ![made'] = @ + 1]
      BY <2>5 DEF CallAtOnce, Derive
    <3>3. p = made'
      BY <2>0, <3>2 DEF TypeOK
    <3>4. reg'[p].late = TRUE
      BY <2>0, <3>2, <3>3 DEF TypeOK
    <3>. QED  BY <3>1, <3>4
  <2>6. CASE calls' = calls
    BY <2>2, <2>6
  <2>. QED  BY <2>4, <2>5, <2>6
       DEF Next, Progress, Then, Catch, RunTask, EvaluateJavaScript, CallTimer, CallHost, TaskReturns,
           HostReturns, ScriptEnds, CreatePromiseResolver, GetDataAsync, Resolve, Reject,
           RegisterWithV8, MakeOrphan, CallbackReturns, CallbackThrows, CallbackReturnsPromise
<1>. HIDE DEF InTurn
<1>2. Spec => [][\A p, q \in P : InTurn(p, q)]_vars
  BY <1>1, Invariance, PTL DEF Spec
<1>. QED  BY <1>2 DEF InTurn, OvertakesOnlyInHostFunctions

=============================================================================
