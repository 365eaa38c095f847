-------------------------- MODULE NodeAgentProofs --------------------------
(***************************************************************************)
(* Proofs about NodeAgent, for any number of sessions and calls.  Three    *)
(* things are related: the shape of the main thread's stack, the log of    *)
(* the delegate's calls, and how far V8 has got in that log.               *)
(***************************************************************************)
EXTENDS NodeAgent, SequenceTheorems, TLAPS

------------------------------------------------------------------------------
(* A sequence as a stack: a call pushes an entry, a return pops the last. *)

\* The stack s has an entry of the kinds K; it has one at most.
Has(s, K)  == \E i \in 1 .. Len(s) : s[i] \in K
Once(s, K) == \A i, j \in 1 .. Len(s) : s[i] \in K /\ s[j] \in K => i = j

\* A call (Push).
LEMMA PushProperties ==
  ASSUME NEW T, NEW s \in Seq(T), NEW f \in T
  PROVE  /\ Append(s, f) \in Seq(T)
         /\ Append(s, f) # <<>>
         /\ Len(Append(s, f)) = Len(s) + 1
         /\ \A i \in 1 .. Len(s) + 1 : Append(s, f)[i] = IF i <= Len(s) THEN s[i] ELSE f
  OBVIOUS

\* A return.
LEMMA PopProperties ==
  ASSUME NEW T, NEW s \in Seq(T), s # <<>>
  PROVE  /\ Front(s) \in Seq(T)
         /\ Len(Front(s)) = Len(s) - 1
         /\ \A i \in 1 .. Len(s) - 1 : Front(s)[i] = s[i]
         /\ Last(s) = s[Len(s)]
         /\ Last(s) \in T
<1>1. Len(s) \in Nat /\ Len(s) >= 1
  OBVIOUS
<1>2. \A i \in 1 .. Len(s) : s[i] \in T
  OBVIOUS
<1>. DEFINE n == Len(s) - 1
<1>3. n \in 0 .. Len(s)
  BY <1>1
<1>4. /\ SubSeq(s, 1, n) \in Seq(T)
      /\ Len(SubSeq(s, 1, n)) = n
      /\ \A i \in 1 .. n : SubSeq(s, 1, n)[i] = s[i]
  <2>. HIDE DEF n
  <2>. QED  BY <1>3
<1>. QED  BY <1>1, <1>2, <1>4 DEF Front, Last

\* What a call does to the kinds of entries there are.
LEMMA PushKinds ==
  ASSUME NEW T, NEW s \in Seq(T), NEW f \in T, NEW K
  PROVE  /\ Has(Append(s, f), K) <=> Has(s, K) \/ f \in K
         /\ Once(s, K) /\ (f \notin K \/ ~Has(s, K)) => Once(Append(s, f), K)
  BY PushProperties DEF Has, Once

\* What a return does to them.
LEMMA PopKinds ==
  ASSUME NEW T, NEW s \in Seq(T), s # <<>>, NEW K
  PROVE  /\ Last(s) \notin K => (Has(Front(s), K) <=> Has(s, K))
         /\ Last(s) \in K => Has(s, K)
         /\ Last(s) \in K /\ Once(s, K) => ~Has(Front(s), K)
         /\ Once(s, K) => Once(Front(s), K)
<1>. DEFINE n == Len(s)
            u == Front(s)
<1>1. n \in Nat /\ n >= 1 /\ Last(s) = s[n]
  BY DEF Last
<1>2. Len(u) = n - 1 /\ \A i \in 1 .. n - 1 : u[i] = s[i]
  BY PopProperties
<1>. HIDE DEF n, u
<1>3. \A i \in 1 .. n : i \in 1 .. n - 1 \/ i = n
  BY <1>1
<1>4. \A i \in 1 .. n - 1 : i \in 1 .. n /\ i # n
  BY <1>1
<1>5. n \in 1 .. n
  BY <1>1
<1>6. Has(s, K) <=> \E i \in 1 .. n : s[i] \in K
  BY DEF Has, n
<1>7. Has(u, K) <=> \E i \in 1 .. n - 1 : s[i] \in K
  BY <1>2 DEF Has
<1>8. Once(s, K) <=> \A i, j \in 1 .. n : s[i] \in K /\ s[j] \in K => i = j
  BY DEF Once, n
<1>9. Once(u, K) <=> \A i, j \in 1 .. n - 1 : s[i] \in K /\ s[j] \in K => i = j
  BY <1>2 DEF Once
<1>10. /\ s[n] \notin K => (Has(u, K) <=> Has(s, K))
       /\ s[n] \in K => Has(s, K)
  BY <1>3, <1>4, <1>5, <1>6, <1>7
<1>11. s[n] \in K /\ Once(s, K) => ~Has(u, K)
  BY <1>4, <1>5, <1>7, <1>8
<1>12. Once(s, K) => Once(u, K)
  BY <1>4, <1>8, <1>9
<1>. QED  BY <1>1, <1>10, <1>11, <1>12 DEF u

------------------------------------------------------------------------------
(* Two sequences as one queue: what is left of a batch, then what came in. *)

\* An arrival, and what is at the head of a batch, seen from the whole queue
\* (what the delegate posts, and what DispatchMessages has swapped out).
LEMMA QueueInTwoParts ==
  ASSUME NEW T, NEW a \in Seq(T), NEW b \in Seq(T), NEW e \in T
  PROVE  /\ a \o b \in Seq(T)
         /\ a \o Append(b, e) = Append(a \o b, e)
         /\ <<>> \o b = b /\ b \o <<>> = b
         /\ a # <<>> => /\ a \o b # <<>>
                        /\ Head(a \o b) = Head(a)
                        /\ Tail(a \o b) = Tail(a) \o b
<1>1. a \o b \in Seq(T) /\ Len(a \o b) = Len(a) + Len(b)
  OBVIOUS
<1>2. a \o Append(b, e) = Append(a \o b, e)
  OBVIOUS
<1>3. <<>> \o b = b /\ b \o <<>> = b
  OBVIOUS
<1>4. ASSUME a # <<>>
      PROVE  a \o b # <<>> /\ Head(a \o b) = Head(a) /\ Tail(a \o b) = Tail(a) \o b
  <2>1. Len(a) \in Nat \ {0} /\ Len(b) \in Nat
    BY <1>4
  <2>2. a \o b # <<>> /\ Head(a \o b) = Head(a)
    BY <1>1, <2>1
  <2>3. Tail(a \o b) = Tail(a) \o b
    BY <1>1, <1>4, <2>1
  <2>. QED  BY <2>2, <2>3
<1>. QED  BY <1>1, <1>2, <1>3, <1>4

\* What is handed over stays in the log of what was done and what is left.
LEMMA LogOfQueue ==
  ASSUME NEW T, NEW h \in Seq(T), NEW w \in Seq(T), w # <<>>
  PROVE  Append(h, Head(w)) \o Tail(w) = h \o w
  OBVIOUS


Bottom == {"start", "loop", "leaving", "exit"}
T      == {"test", "asleep", "pump"}
D      == {"dispatch"}
N      == {"paused", "leaving"}

\* A stack the main thread can have: something at the bottom; nothing above
\* Start and the end; a script above the event loop only; the three places of
\* the nested loop right above what has called it; one dispatch and one nested
\* loop at most.
Shape(s) ==
  /\ s \in Seq(Frames) /\ s # <<>>
  /\ s[1] \in Bottom
  /\ s[1] \in {"start", "exit"} => Len(s) = 1
  /\ \A i \in 2 .. Len(s) : s[i] \notin Bottom
  /\ \A i \in 2 .. Len(s) : s[i] \in T => s[i - 1] \in N
  /\ \A i \in 2 .. Len(s) : s[i] = "script" => i = 2 /\ s[1] = "loop"
  /\ \A i \in 2 .. Len(s) : s[i] \in {"evaluate", "paused"} => i >= 3
  /\ Once(s, D) /\ Once(s, N)

\* The event loop is idle or runs a script.
Settled(s) == s[1] = "loop" /\ (Len(s) = 1 \/ s[2] = "script")

------------------------------------------------------------------------------
(* Calls and returns *)

\* A dispatch, a script or an evaluation is called.
LEMMA Push ==
  ASSUME NEW s, Shape(s), NEW f \in {"dispatch", "script", "evaluate"},
         s[1] \notin {"start", "exit"},
         f = "dispatch" => ~Has(s, D),
         f = "script" => s[1] = "loop" /\ Len(s) = 1,
         f = "evaluate" => Len(s) >= 2
  PROVE  /\ Shape(Append(s, f))
         /\ Append(s, f)[1] = s[1]
         /\ Has(Append(s, f), D) <=> Has(s, D) \/ f = "dispatch"
         /\ Has(Append(s, f), N) <=> Has(s, N)
         /\ Settled(Append(s, f)) => Settled(s)
<1>1. s \in Seq(Frames) /\ f \in Frames /\ Len(s) \in Nat /\ Len(s) >= 1
  BY DEF Shape, Frames
<1>2. f \notin Bottom /\ f \notin T /\ f \notin N /\ f # "paused"
  BY DEF Bottom, T, N
<1>3. /\ Append(s, f) \in Seq(Frames) /\ Append(s, f) # <<>>
      /\ Len(Append(s, f)) = Len(s) + 1
      /\ \A i \in 1 .. Len(s) + 1 : Append(s, f)[i] = IF i <= Len(s) THEN s[i] ELSE f
  BY <1>1, PushProperties
<1>4. Append(s, f)[1] = s[1]
  BY <1>1, <1>3
<1>5. /\ Has(Append(s, f), D) <=> Has(s, D) \/ f = "dispatch"
      /\ Has(Append(s, f), N) <=> Has(s, N)
      /\ Once(Append(s, f), D) /\ Once(Append(s, f), N)
  BY <1>1, <1>2, PushKinds DEF Shape, D
<1>6. \A i \in 2 .. Len(s) + 1 : Append(s, f)[i] \notin Bottom
  BY <1>1, <1>2, <1>3 DEF Shape
<1>7. \A i \in 2 .. Len(s) + 1 : Append(s, f)[i] \in T => Append(s, f)[i - 1] \in N
  BY <1>1, <1>2, <1>3 DEF Shape
<1>8. \A i \in 2 .. Len(s) + 1 : Append(s, f)[i] = "script" => i = 2 /\ Append(s, f)[1] = "loop"
  BY <1>1, <1>3, <1>4 DEF Shape
<1>9. \A i \in 2 .. Len(s) + 1 : Append(s, f)[i] \in {"evaluate", "paused"} => i >= 3
  BY <1>1, <1>2, <1>3 DEF Shape
<1>10. Settled(Append(s, f)) => Settled(s)
  BY <1>1, <1>3, <1>4 DEF Settled
<1>11. Shape(Append(s, f))
  BY <1>3, <1>4, <1>5, <1>6, <1>7, <1>8, <1>9 DEF Shape
<1>. QED  BY <1>4, <1>5, <1>10, <1>11

\* A dispatch, a script or an evaluation returns.
LEMMA Pop ==
  ASSUME NEW s, Shape(s), Last(s) \in {"dispatch", "script", "evaluate"}
  PROVE  /\ Shape(Front(s))
         /\ Front(s)[1] = s[1] /\ s[1] \notin {"start", "exit"} /\ Len(s) >= 2
         /\ Last(s) = "dispatch" => ~Has(Front(s), D)
         /\ Last(s) # "dispatch" => (Has(Front(s), D) <=> Has(s, D))
         /\ Has(Front(s), N) <=> Has(s, N)
         /\ Last(s) # "dispatch" /\ Settled(Front(s)) => Settled(s)
<1>1. s \in Seq(Frames) /\ s # <<>> /\ Len(s) \in Nat /\ Len(s) >= 1
  BY DEF Shape
<1>2. /\ Front(s) \in Seq(Frames)
      /\ Len(Front(s)) = Len(s) - 1
      /\ \A i \in 1 .. Len(s) - 1 : Front(s)[i] = s[i]
      /\ Last(s) = s[Len(s)]
  BY <1>1, PopProperties
<1>3. Len(s) >= 2
  BY <1>1, <1>2 DEF Shape, Bottom
<1>4. /\ Front(s) # <<>> /\ Front(s)[1] = s[1] /\ s[1] \notin {"start", "exit"}
  BY <1>1, <1>2, <1>3 DEF Shape
<1>5. Last(s) \notin N
  BY DEF N
<1>6. Once(Front(s), D) /\ Once(Front(s), N)
  BY <1>1, PopKinds DEF Shape
<1>7. /\ Last(s) = "dispatch" => ~Has(Front(s), D)
      /\ Last(s) # "dispatch" => (Has(Front(s), D) <=> Has(s, D))
      /\ Has(Front(s), N) <=> Has(s, N)
  BY <1>1, <1>5, PopKinds DEF Shape, D
<1>8. Shape(Front(s))
  <2>1. s[1] \in Bottom /\ \A i \in 2 .. Len(s) : s[i] \notin Bottom
    BY DEF Shape
  <2>2. \A i \in 2 .. Len(s) : s[i] \in T => s[i - 1] \in N
    BY DEF Shape
  <2>3. \A i \in 2 .. Len(s) : s[i] = "script" => i = 2 /\ s[1] = "loop"
    BY DEF Shape
  <2>4. \A i \in 2 .. Len(s) : s[i] \in {"evaluate", "paused"} => i >= 3
    BY DEF Shape
  <2>5. \A i \in 2 .. Len(s) - 1 : Front(s)[i] = s[i] /\ Front(s)[i - 1] = s[i - 1] /\ i \in 2 .. Len(s)
    BY <1>1, <1>2
  <2>. QED  BY <1>2, <1>4, <1>6, <2>1, <2>2, <2>3, <2>4, <2>5 DEF Shape
<1>9. Last(s) # "dispatch" /\ Settled(Front(s)) => Settled(s)
  BY <1>1, <1>2, <1>3, <1>4 DEF Settled, Shape
<1>. QED  BY <1>3, <1>4, <1>7, <1>8, <1>9

\* The nested loop goes from one of its places to the next.
LEMMA Turn ==
  ASSUME NEW s, Shape(s), Last(s) \in T, NEW f \in T
  PROVE  /\ Shape(Append(Front(s), f))
         /\ Append(Front(s), f)[1] = s[1] /\ s[1] \notin {"start", "exit"}
         /\ Has(Append(Front(s), f), D) <=> Has(s, D)
         /\ Has(Append(Front(s), f), N) <=> Has(s, N)
         /\ Settled(Append(Front(s), f)) => Settled(s)
<1>1. s \in Seq(Frames) /\ s # <<>> /\ Len(s) \in Nat /\ Len(s) >= 1 /\ f \in Frames
  BY DEF Shape, T, Frames
<1>2. /\ Front(s) \in Seq(Frames)
      /\ Len(Front(s)) = Len(s) - 1
      /\ \A i \in 1 .. Len(s) - 1 : Front(s)[i] = s[i]
      /\ Last(s) = s[Len(s)]
  BY <1>1, PopProperties
<1>3. Len(s) >= 2 /\ s[1] \notin {"start", "exit"}
  BY <1>1, <1>2 DEF Shape, Bottom, T
<1>4. f \notin Bottom /\ f \notin D /\ f \notin N /\ f \notin {"script", "evaluate", "paused"}
      /\ Last(s) \notin D /\ Last(s) \notin N
  BY DEF Bottom, D, N, T
<1>. DEFINE r == Append(Front(s), f)
<1>5. /\ r \in Seq(Frames) /\ r # <<>> /\ Len(r) = Len(s)
      /\ \A i \in 1 .. Len(s) - 1 : r[i] = s[i]
      /\ r[Len(s)] = f
  BY <1>1, <1>2
<1>6. /\ Has(r, D) <=> Has(s, D)
      /\ Has(r, N) <=> Has(s, N)
      /\ Once(r, D) /\ Once(r, N)
  BY <1>1, <1>2, <1>4, PushKinds, PopKinds DEF Shape
<1>. HIDE DEF r
<1>7. r[1] = s[1]
  BY <1>3, <1>5
<1>8. Shape(r)
  <2>1. s[1] \in Bottom /\ \A i \in 2 .. Len(s) : s[i] \notin Bottom
    BY DEF Shape
  <2>2. \A i \in 2 .. Len(s) : s[i] \in T => s[i - 1] \in N
    BY DEF Shape
  <2>3. \A i \in 2 .. Len(s) : s[i] = "script" => i = 2 /\ s[1] = "loop"
    BY DEF Shape
  <2>4. \A i \in 2 .. Len(s) : s[i] \in {"evaluate", "paused"} => i >= 3
    BY DEF Shape
  <2>5. \A i \in 2 .. Len(s) : r[i - 1] = s[i - 1] /\ (r[i] = s[i] \/ (i = Len(s) /\ r[i] = f /\ s[i] \in T))
    BY <1>1, <1>2, <1>5
  <2>6. \A i \in 2 .. Len(s) : r[i] \in T => r[i - 1] \in N
    BY <2>2, <2>5
  <2>. QED  BY <1>3, <1>4, <1>5, <1>6, <1>7, <2>1, <2>3, <2>4, <2>5, <2>6 DEF Shape
<1>9. Settled(r) => Settled(s)
  BY <1>1, <1>3, <1>4, <1>5, <1>7 DEF Settled
<1>. QED  BY <1>3, <1>6, <1>7, <1>8, <1>9 DEF r

\* JavaScript pauses.
LEMMA PushPause ==
  ASSUME NEW s, Shape(s), Last(s) \in {"script", "evaluate"}, ~Has(s, N)
  PROVE  /\ Shape(s \o <<"paused", "test">>)
         /\ (s \o <<"paused", "test">>)[1] = s[1]
         /\ Has(s \o <<"paused", "test">>, D) <=> Has(s, D)
         /\ Has(s \o <<"paused", "test">>, N)
         /\ Settled(s \o <<"paused", "test">>) => Settled(s)
<1>. DEFINE p == Append(s, "paused")
            r == Append(p, "test")
<1>1. s \in Seq(Frames) /\ Len(s) \in Nat /\ Len(s) >= 2 /\ "paused" \in Frames /\ "test" \in Frames
  BY Pop DEF Shape, Frames
<1>2. s \o <<"paused", "test">> = r
  BY <1>1
<1>3. /\ p \in Seq(Frames) /\ r \in Seq(Frames) /\ r # <<>> /\ Len(r) = Len(s) + 2
      /\ \A i \in 1 .. Len(s) : r[i] = s[i]
      /\ r[Len(s) + 1] = "paused" /\ r[Len(s) + 2] = "test"
  BY <1>1
<1>4. /\ Has(p, D) <=> Has(s, D)
      /\ Has(p, N)
      /\ Once(p, D) /\ Once(p, N)
  BY <1>1, PushKinds DEF Shape, D, N
<1>. HIDE DEF p
<1>5. /\ Has(r, D) <=> Has(s, D)
      /\ Has(r, N)
      /\ Once(r, D) /\ Once(r, N)
  BY <1>1, <1>3, <1>4, PushKinds DEF D, N
<1>. HIDE DEF r
<1>6. \A i \in 2 .. Len(r) : i \in 2 .. Len(s) \/ i = Len(s) + 1 \/ i = Len(s) + 2
  BY <1>1, <1>3
<1>7. \A i \in 2 .. Len(r) : r[i] \notin Bottom
  BY <1>3, <1>6 DEF Shape, Bottom
<1>8. \A i \in 2 .. Len(r) : r[i] \in T => r[i - 1] \in N
  <2>1. \A i \in 2 .. Len(s) : r[i] = s[i] /\ r[i - 1] = s[i - 1]
    BY <1>1, <1>3
  <2>. QED  BY <1>1, <1>3, <1>6, <2>1 DEF Shape, T, N
<1>9. \A i \in 2 .. Len(r) : r[i] = "script" => i = 2 /\ r[1] = "loop"
  BY <1>1, <1>3, <1>6 DEF Shape
<1>10. \A i \in 2 .. Len(r) : r[i] \in {"evaluate", "paused"} => i >= 3
  BY <1>1, <1>3, <1>6 DEF Shape
<1>11. r[1] = s[1] /\ s[1] \in Bottom /\ r[1] \notin {"start", "exit"}
  BY <1>1, <1>3 DEF Shape
<1>12. Settled(r) => Settled(s)
  BY <1>1, <1>3 DEF Settled
<1>. QED  BY <1>2, <1>3, <1>5, <1>7, <1>8, <1>9, <1>10, <1>11, <1>12 DEF Shape

\* The nested loop ends: right above the frame that has called it.
LEMMA PopPause ==
  ASSUME NEW s, Shape(s), Last(s) = "test"
  PROVE  /\ s[1] = "leaving" => ~Has(s, D)
         /\ s[1] # "leaving" =>
              /\ Shape(Front(Front(s)))
              /\ Front(Front(s))[1] = s[1] /\ s[1] \notin {"start", "exit"}
              /\ Has(Front(Front(s)), D) <=> Has(s, D)
              /\ ~Has(Front(Front(s)), N)
              /\ Settled(Front(Front(s))) => Settled(s)
<1>1. s \in Seq(Frames) /\ s # <<>> /\ Len(s) \in Nat /\ Len(s) >= 1
  BY DEF Shape
<1>2. Last(s) = s[Len(s)]
  BY <1>1, PopProperties
<1>3. Len(s) >= 2 /\ s[Len(s) - 1] \in N /\ s[1] \notin {"start", "exit"}
  BY <1>1, <1>2 DEF Shape, Bottom, T
<1>4. CASE s[1] = "leaving"
  <2>1. Len(s) - 1 = 1
    <3>1. s[1] \in N /\ 1 \in 1 .. Len(s) /\ Len(s) - 1 \in 1 .. Len(s)
      BY <1>1, <1>3, <1>4 DEF N
    <3>. QED  BY <1>3, <3>1 DEF Shape, Once
  <2>2. ~Has(s, D)
    <3>1. Len(s) = 2
      BY <1>1, <2>1
    <3>2. s[1] \notin D /\ s[2] \notin D
      BY <1>2, <1>4, <3>1 DEF D
    <3>. QED  BY <3>1, <3>2 DEF Has
  <2>. QED  BY <1>4, <2>2
<1>5. CASE s[1] # "leaving"
  <2>. DEFINE p == Front(s)
              r == Front(p)
  <2>1. /\ p \in Seq(Frames) /\ p # <<>> /\ Len(p) = Len(s) - 1
        /\ \A i \in 1 .. Len(s) - 1 : p[i] = s[i]
    BY <1>1, <1>3, PopProperties
  <2>2. /\ Has(p, D) <=> Has(s, D)
        /\ Once(p, D) /\ Once(p, N)
    BY <1>1, PopKinds DEF Shape, D
  <2>. HIDE DEF p
  <2>3. Last(p) = s[Len(s) - 1]
    <3>1. Last(p) = p[Len(p)]
      BY <2>1, PopProperties
    <3>. QED  BY <1>1, <1>3, <2>1, <3>1
  <2>4. Last(p) = "paused" /\ Len(s) >= 4
    <3>1. s[Len(s) - 1] \in N /\ (Len(s) - 1 = 1 => s[1] \in N)
      BY <1>3
    <3>2. Len(s) - 1 \in 2 .. Len(s)
      BY <1>1, <1>3, <1>5, <3>1 DEF Shape, N, Bottom
    <3>3. s[Len(s) - 1] = "paused"
      BY <1>3, <3>2 DEF Shape, N, Bottom
    <3>. QED  BY <2>3, <3>2, <3>3 DEF Shape
  <2>5. /\ r \in Seq(Frames) /\ Len(r) = Len(s) - 2
        /\ \A i \in 1 .. Len(s) - 2 : r[i] = s[i]
    <3>1. /\ r \in Seq(Frames) /\ Len(r) = Len(p) - 1
          /\ \A i \in 1 .. Len(p) - 1 : r[i] = p[i]
      BY <2>1, PopProperties
    <3>. QED  BY <1>1, <1>3, <2>1, <3>1
  <2>6. /\ Has(r, D) <=> Has(s, D)
        /\ ~Has(r, N)
        /\ Once(r, D) /\ Once(r, N)
    <3>1. Last(p) \in N /\ Last(p) \notin D
      BY <2>4 DEF N, D
    <3>. QED  BY <2>1, <2>2, <3>1, PopKinds
  <2>. HIDE DEF r
  <2>7. r # <<>> /\ r[1] = s[1]
    BY <2>4, <2>5
  <2>8. Shape(r)
    <3>1. s[1] \in Bottom /\ \A i \in 2 .. Len(s) : s[i] \notin Bottom
      BY DEF Shape
    <3>2. \A i \in 2 .. Len(s) : s[i] \in T => s[i - 1] \in N
      BY DEF Shape
    <3>3. \A i \in 2 .. Len(s) : s[i] = "script" => i = 2 /\ s[1] = "loop"
      BY DEF Shape
    <3>4. \A i \in 2 .. Len(s) : s[i] \in {"evaluate", "paused"} => i >= 3
      BY DEF Shape
    <3>5. \A i \in 2 .. Len(r) : r[i] = s[i] /\ r[i - 1] = s[i - 1] /\ i \in 2 .. Len(s)
      BY <1>1, <2>4, <2>5
    <3>. QED  BY <1>3, <2>5, <2>6, <2>7, <3>1, <3>2, <3>3, <3>4, <3>5 DEF Shape
  <2>9. Settled(r) => Settled(s)
    BY <1>1, <2>4, <2>5, <2>7 DEF Settled
  <2>. QED  BY <1>3, <1>5, <2>6, <2>7, <2>8, <2>9 DEF p, r
<1>. QED  BY <1>4, <1>5

\* A frame that is alone on the stack.
LEMMA Single ==
  ASSUME NEW f \in Bottom
  PROVE  /\ Shape(<<f>>) /\ <<f>>[1] = f /\ Len(<<f>>) = 1
         /\ ~Has(<<f>>, D)
         /\ Has(<<f>>, N) <=> f = "leaving"
<1>1. /\ <<f>> \in Seq(Frames) /\ <<f>> # <<>> /\ Len(<<f>>) = 1 /\ <<f>>[1] = f
      /\ f \notin D /\ f \in Frames /\ (f \in N <=> f = "leaving")
  BY DEF Bottom, Frames, D, N
<1>2. \A i \in 1 .. Len(<<f>>) : i = 1
  BY <1>1
<1>3. 2 .. Len(<<f>>) = {}
  BY <1>1
<1>4. Once(<<f>>, D) /\ Once(<<f>>, N)
  BY <1>2 DEF Once
<1>5. ~Has(<<f>>, D) /\ (Has(<<f>>, N) <=> f = "leaving")
  BY <1>1, <1>2 DEF Has
<1>. QED  BY <1>1, <1>3, <1>4, <1>5 DEF Shape

\* The main thread waits for the frontend to leave.
LEMMA Leaving ==
  /\ Shape(<<"leaving", "test">>) /\ <<"leaving", "test">>[1] = "leaving"
  /\ ~Has(<<"leaving", "test">>, D) /\ Has(<<"leaving", "test">>, N)
<1>. DEFINE s == <<"leaving", "test">>
<1>1. /\ s \in Seq(Frames) /\ s # <<>> /\ Len(s) = 2 /\ s[1] = "leaving" /\ s[2] = "test"
  BY DEF Frames
<1>. HIDE DEF s
<1>2. /\ \A i \in 1 .. Len(s) : i = 1 \/ i = 2
      /\ \A i \in 2 .. Len(s) : i = 2
  BY <1>1
<1>3. Once(s, D) /\ Once(s, N) /\ ~Has(s, D) /\ Has(s, N)
  BY <1>1, <1>2 DEF Once, Has, D, N
<1>. QED  BY <1>1, <1>2, <1>3 DEF Shape, Bottom, T, N, s

------------------------------------------------------------------------------
(* The inductive invariant *)

\* The types; and no more tasks are asked for than the delegate was called.
DataOK ==
  /\ wait \in BOOLEAN /\ start \in BOOLEAN /\ interrupt \in BOOLEAN /\ listening \in BOOLEAN
  /\ waiting \in BOOLEAN /\ dispatching \in BOOLEAN /\ terminated \in BOOLEAN
  /\ nested \in BOOLEAN /\ shuttingDown \in BOOLEAN /\ crashed \in BOOLEAN
  /\ io \in {"starting", "ended", "idle", "resumed", "trigger", "notify"}
  /\ next \in 0 .. MaxSessions /\ accepted \subseteq Ids
  /\ open \in Ids \cup {None} /\ session \in Ids \cup {None}
  /\ calls \in Seq(Call) /\ incoming \in Seq(Call) /\ batch \in Seq(Call) /\ handled \in Seq(Call)
  /\ tasks \in Nat /\ Len(calls) <= MaxCalls
  /\ tasks + (IF io = "trigger" THEN 1 ELSE 0) <= Len(calls)
  /\ outgoing \in Seq(Write)
  /\ state \in {"new", "accepting", "connected", "done", "error"}

\* The flags tell what the stack holds.
ThreadInv ==
  /\ Shape(stack)
  /\ dispatching <=> Has(stack, D)
  /\ nested <=> Has(stack, N)
  /\ batch # <<>> => dispatching

\* What is true before Start returns, and when it gives up.
StartInv ==
  /\ io = "starting" => state = "new" /\ ~start
  /\ io = "ended" => state = "error"
  /\ ~start => stack[1] = "start"
  /\ state \in {"new", "error"} => stack[1] \in {"start", "exit"}
  /\ stack[1] = "start" => state \in {"new", "error"} /\ ~crashed /\ handled = <<>>

Waiting == batch \o incoming
Log     == handled \o Waiting

\* The session that is there after the calls s.
Now(s) == IF s = <<>> THEN None
          ELSE IF s[Len(s)].kind = "disconnect" THEN None ELSE s[Len(s)].id

\* Calls as they follow on each other.
Orderly(s) ==
  /\ \A i \in 1 .. Len(s) :
       IF s[i].kind = "connect" THEN i = 1 \/ s[i - 1].kind = "disconnect"
       ELSE i > 1 /\ s[i - 1].kind # "disconnect" /\ s[i].id = s[i - 1].id
  /\ \A i, j \in 1 .. Len(s) :
       s[i].kind = "connect" /\ s[j].kind = "connect" /\ s[i].id = s[j].id => i = j

\* The delegate's calls are in the log, and follow on each other; sessions to
\* come have other ids.
LogInv ==
  /\ Log = calls
  /\ Orderly(calls) /\ open = Now(calls)
  /\ \A id \in accepted : id < next
  /\ \A i \in 1 .. Len(calls) :
       calls[i].kind = "connect" => calls[i].id < next /\ calls[i].id \notin accepted

\* The main thread has got as far as `handled`; a tag that a frontend has sent
\* may have ended V8's session early, and begun it again.
SessionInv ==
  /\ session # None <=> state = "connected"
  /\ ~crashed => session \in {None, Now(handled)}
  /\ ~crashed /\ ~Forged => session = Now(handled)
  /\ ChecksHold
  /\ \A i \in 1 .. Len(outgoing) : outgoing[i].to = outgoing[i].for

\* The first i calls ask to run nothing.
Before(s, i) == \A j \in 1 .. i : s[j].kind # "run"

\* A program that waits for the frontend takes what came before the run when
\* Start returns, and has handled it when the event loop gets to run.
RunInv ==
  wait =>
    /\ start => ~waiting \/ io = "ended"
    /\ ~waiting => io = "resumed" \/ ~Before(calls, Len(calls))
    /\ stack[1] \notin {"start", "exit"} =>
         \A i \in 1 .. Len(calls) : Before(calls, i) => i <= Len(handled) + Len(batch)
    /\ Settled(stack) => \A i \in 1 .. Len(calls) : Before(calls, i) => i <= Len(handled)

IInv == DataOK /\ ThreadInv /\ StartInv /\ LogInv /\ SessionInv /\ RunInv

------------------------------------------------------------------------------
(* Types *)

LEMMA DataInit == Init => DataOK
<1>. SUFFICES ASSUME Init
              PROVE  DataOK
  OBVIOUS
<1>1. 0 \in Nat /\ 0 \in 0 .. MaxSessions /\ {} \subseteq Ids /\ Len(<<>>) <= MaxCalls /\ 0 <= Len(<<>>)
  BY NodeAgentAssumption
<1>2. <<>> \in Seq(Call) /\ <<>> \in Seq(Write)
  OBVIOUS
<1>3. /\ wait \in BOOLEAN /\ start \in BOOLEAN /\ interrupt \in BOOLEAN /\ listening \in BOOLEAN
      /\ waiting \in BOOLEAN /\ dispatching \in BOOLEAN /\ terminated \in BOOLEAN
      /\ nested \in BOOLEAN /\ shuttingDown \in BOOLEAN /\ crashed \in BOOLEAN
  BY DEF Init
<1>4. /\ calls \in Seq(Call) /\ incoming \in Seq(Call) /\ batch \in Seq(Call) /\ handled \in Seq(Call)
      /\ outgoing \in Seq(Write)
  BY <1>2, Zenon DEF Init
<1>5. /\ next \in 0 .. MaxSessions /\ accepted \subseteq Ids
      /\ open \in Ids \cup {None} /\ session \in Ids \cup {None}
      /\ tasks \in Nat /\ Len(calls) <= MaxCalls
      /\ tasks + (IF io = "trigger" THEN 1 ELSE 0) <= Len(calls)
  BY <1>1 DEF Init
<1>. QED  BY <1>3, <1>4, <1>5 DEF DataOK, Init

LEMMA CallKeepsTypes ==
  ASSUME DataOK, NEW s, CallDispatch(s)
  PROVE  incoming' \in Seq(Call) /\ batch' \in Seq(Call) /\ dispatching' \in BOOLEAN
<1>1. CASE dispatching \/ incoming = <<>>
  BY <1>1 DEF DataOK, CallDispatch
<1>2. CASE ~(dispatching \/ incoming = <<>>)
  <2>1. dispatching' = TRUE /\ batch' = incoming /\ incoming' = <<>>
    BY <1>2 DEF CallDispatch
  <2>2. <<>> \in Seq(Call)
    OBVIOUS
  <2>. QED  BY <2>1, <2>2 DEF DataOK
<1>. QED  BY <1>1, <1>2

\* What AppendMessage does to the types.
LEMMA PostKeepsTypes ==
  ASSUME DataOK, NEW m \in Call, AppendMessage(m), io # "trigger"
  PROVE  /\ calls' \in Seq(Call) /\ incoming' \in Seq(Call)
         /\ Len(calls') = Len(calls) + 1 /\ Len(calls') <= MaxCalls
         /\ io' \in {"trigger", "notify"}
         /\ tasks' = tasks /\ tasks + (IF io' = "trigger" THEN 1 ELSE 0) <= Len(calls')
<1>1. /\ calls \in Seq(Call) /\ incoming \in Seq(Call) /\ Len(calls) \in Nat /\ tasks \in Nat
      /\ tasks <= Len(calls) /\ MaxCalls \in Nat
  BY NodeAgentAssumption DEF DataOK
<1>2. /\ calls' = Append(calls, m) /\ incoming' = Append(incoming, m) /\ Len(calls) < MaxCalls
      /\ io' \in {"trigger", "notify"} /\ tasks' = tasks
  BY DEF AppendMessage
<1>3. calls' \in Seq(Call) /\ incoming' \in Seq(Call) /\ Len(calls') = Len(calls) + 1
  BY <1>1, <1>2
<1>. QED  BY <1>1, <1>2, <1>3

LEMMA WrittenHasType ==
  ASSUME outgoing \in Seq(Write), NEW to \in Ids \cup {None}, NEW for \in Ids \cup {None},
         Written(to, for)
  PROVE  outgoing' \in Seq(Write)
<1>. DEFINE w == [to |-> to, for |-> for]
<1>1. w \in Write
  BY DEF Write
<1>2. outgoing' = Append(outgoing, w)
  BY DEF Written
<1>. HIDE DEF w
<1>. QED  BY <1>1, <1>2

LEMMA DataStep == DataOK /\ [Next]_vars => DataOK'
<1>. SUFFICES ASSUME DataOK, [Next]_vars
              PROVE  DataOK'
  OBVIOUS
<1>. USE NodeAgentAssumption DEF DataOK, delegateVars, trigger, server, engine, main
<1>1. CASE WorkerRunIO
  <2>1. /\ io' \in {"idle", "ended"} /\ listening' \in BOOLEAN /\ start' \in BOOLEAN
        /\ state' \in {state, "error"} /\ io # "trigger"
        /\ UNCHANGED <<wait, delegateVars, incoming, tasks, interrupt, next, accepted, outgoing,
                       batch, dispatching, terminated, nested, session, shuttingDown, handled, crashed>>
    BY <1>1 DEF WorkerRunIO
  <2>. QED  BY <2>1
<1>2. CASE Accept
  <2>1. next \in Ids /\ next + 1 \in 0 .. MaxSessions
    BY <1>2 DEF Accept, Ids
  <2>. QED  BY <1>2, <2>1 DEF Accept
<1>3. ASSUME NEW id \in Ids, StartSession(id)
      PROVE  DataOK'
  <2>1. [kind |-> "connect", id |-> id] \in Call /\ io # "trigger"
    BY <1>3 DEF StartSession, Idle, Call
  <2>. QED  BY <1>3, <2>1, PostKeepsTypes DEF StartSession, AppendMessage
<1>4. ASSUME NEW kind \in Kinds, MessageReceived(kind)
      PROVE  DataOK'
  <2>1. [kind |-> kind, id |-> open] \in Call /\ io # "trigger"
    BY <1>4 DEF MessageReceived, Call
  <2>. QED  BY <1>4, <2>1, PostKeepsTypes DEF MessageReceived, AppendMessage
<1>5. CASE ResumeStartup
  BY <1>5 DEF ResumeStartup, Idle
<1>6. CASE EndSession
  <2>1. [kind |-> "disconnect", id |-> open] \in Call /\ io # "trigger"
    BY <1>6 DEF EndSession, Idle, Call
  <2>. QED  BY <1>6, <2>1, PostKeepsTypes DEF EndSession, AppendMessage
<1>7. CASE RequestDispatch
  BY <1>7 DEF RequestDispatch
<1>8. CASE NotifyMessageReceived
  BY <1>8 DEF NotifyMessageReceived
<1>9. CASE WriteCbIO
  <2>1. <<>> \in Seq(Write) /\ listening' \in BOOLEAN
    BY <1>9 DEF WriteCbIO
  <2>. QED  BY <1>9, <2>1 DEF WriteCbIO
<1>10. CASE DispatchMessage
  <2>1. /\ Head(batch) \in Call /\ Tail(batch) \in Seq(Call)
        /\ Append(handled, Head(batch)) \in Seq(Call)
    BY <1>10 DEF DispatchMessage
  <2>2. Head(batch).id \in Ids
    BY <2>1 DEF Call
  <2>. DEFINE Rest == UNCHANGED <<wait, start, delegateVars, incoming, trigger, server, dispatching,
                                  nested, shuttingDown>>
  <2>0. Rest /\ handled' = Append(handled, Head(batch)) /\ batch' = Tail(batch)
    BY <1>10 DEF DispatchMessage
  <2>3. CASE Connect(Head(batch))
    <3>1. /\ state' \in {state, "connected"} /\ session' \in {session, Head(batch).id}
          /\ crashed' \in BOOLEAN /\ UNCHANGED <<terminated, outgoing>>
      BY <2>3 DEF Connect
    <3>. QED  BY <2>1, <2>2, <2>0, <3>1
  <2>4. CASE Disconnect(Head(batch))
    <3>1. /\ state' \in {state, "done", "accepting"} /\ session' \in {session, None}
          /\ crashed' \in BOOLEAN /\ terminated' \in BOOLEAN /\ UNCHANGED outgoing
      BY <2>4 DEF Disconnect
    <3>. QED  BY <2>1, <2>0, <3>1
  <2>5. CASE ToFrontendSession(Head(batch))
    <3>1. outgoing' = outgoing \/ Written(session, Head(batch).id)
      BY <2>5 DEF ToFrontendSession
    <3>2. Head(batch).id \in Ids \cup {None} /\ session \in Ids \cup {None} /\ outgoing \in Seq(Write)
      BY <2>2
    <3>3. outgoing' \in Seq(Write)
      BY <3>1, <3>2, WrittenHasType
    <3>4. crashed' \in BOOLEAN /\ terminated' \in BOOLEAN /\ UNCHANGED <<state, session>>
      BY <2>5 DEF ToFrontendSession
    <3>. QED  BY <2>1, <2>0, <3>3, <3>4
  <2>. QED  BY <1>10, <2>3, <2>4, <2>5 DEF DispatchMessage
<1>11. CASE DispatchAgain
  <2>1. <<>> \in Seq(Call) /\ dispatching' \in BOOLEAN
    BY <1>11 DEF DispatchAgain
  <2>2. /\ batch' = incoming /\ incoming' = <<>>
        /\ UNCHANGED <<wait, start, delegateVars, trigger, server, outgoing, engine, crashed>>
    BY <1>11 DEF DispatchAgain
  <2>. QED  BY <2>1, <2>2
<1>12. CASE StartReturns
  <2>1. \/ \E s : CallDispatch(s)
        \/ UNCHANGED <<incoming, batch, dispatching>>
    BY <1>12 DEF StartReturns
  <2>2. incoming' \in Seq(Call) /\ batch' \in Seq(Call) /\ dispatching' \in BOOLEAN
    BY <2>1, CallKeepsTypes
  <2>. QED  BY <1>12, <2>2 DEF StartReturns
<1>13. CASE RunTask
  BY <1>13, CallKeepsTypes DEF RunTask
<1>14. CASE RunScript \/ JavaScriptReturns
  BY <1>14 DEF RunScript, JavaScriptReturns
<1>15. CASE InterruptCallback
  <2>1. incoming' \in Seq(Call) /\ batch' \in Seq(Call) /\ dispatching' \in BOOLEAN
    BY <1>15, CallKeepsTypes DEF InterruptCallback
  <2>2. /\ interrupt' \in BOOLEAN
        /\ UNCHANGED <<wait, start, delegateVars, io, tasks, server, outgoing, engine, crashed>>
    BY <1>15 DEF InterruptCallback
  <2>. QED  BY <2>1, <2>2
<1>16. CASE Pause
  <2>1. /\ terminated' \in BOOLEAN /\ nested' \in BOOLEAN
        /\ UNCHANGED <<wait, start, delegateVars, incoming, trigger, server, outgoing, batch, dispatching,
                       state, session, shuttingDown, handled, crashed>>
    BY <1>16 DEF Pause
  <2>. QED  BY <2>1
<1>17. CASE WaitForDisconnect
  <2>1. outgoing' = outgoing \/ Written(None, None)
    BY <1>17 DEF WaitForDisconnect
  <2>2. outgoing' \in Seq(Write)
    BY <2>1, WrittenHasType
  <2>3. shuttingDown' \in BOOLEAN /\ terminated' \in BOOLEAN /\ nested' \in BOOLEAN
    BY <1>17 DEF WaitForDisconnect
  <2>4. UNCHANGED <<wait, start, delegateVars, incoming, trigger, server, batch, dispatching,
                   state, session, handled, crashed>>
    BY <1>17 DEF WaitForDisconnect
  <2>. QED  BY <2>2, <2>3, <2>4
<1>18. CASE WaitForFrontendMessage \/ WakeSpuriously \/ Pumped
  BY <1>18 DEF WaitForFrontendMessage, WakeSpuriously, Pumped
<1>19. CASE LoopEnds
  <2>1. /\ terminated' \in BOOLEAN /\ nested' \in BOOLEAN
        /\ UNCHANGED <<wait, start, delegateVars, incoming, trigger, server, outgoing, batch, dispatching,
                       state, session, shuttingDown, handled, crashed>>
    BY <1>19 DEF LoopEnds
  <2>. QED  BY <2>1
<1>20. CASE UNCHANGED vars
  BY <1>20 DEF vars
<1>. QED
  BY <1>1, <1>2, <1>3, <1>4, <1>5, <1>6, <1>7, <1>8, <1>9, <1>10, <1>11, <1>12, <1>13, <1>14,
     <1>15, <1>16, <1>17, <1>18, <1>19, <1>20
  DEF Next, Post, Serve

------------------------------------------------------------------------------
(* The stack and what the flags and the state tell of it *)

\* The same to the flags, and nothing that the event loop waits for is gone.
Alike(s, r) ==
  /\ r[1] = s[1]
  /\ Has(r, D) <=> Has(s, D)
  /\ Has(r, N) <=> Has(s, N)
  /\ Settled(r) => Settled(s)

\* The event loop gets to run when Start or a dispatch is through.
Onwards ==
  /\ stack[1] \in {"start", "exit"} => stack'[1] \in {"start", "exit"} \/ StartReturns
  /\ Settled(stack') => Settled(stack) \/ batch = <<>> \/ StartReturns

LEMMA ThreadInit == Init => ThreadInv /\ StartInv
<1>. SUFFICES ASSUME Init
              PROVE  ThreadInv /\ StartInv
  OBVIOUS
<1>1. stack = <<"start">> /\ "start" \in Bottom
  BY DEF Init, Bottom
<1>2. Shape(stack) /\ stack[1] = "start" /\ ~Has(stack, D) /\ ~Has(stack, N)
  BY <1>1, Single
<1>3. /\ ~dispatching /\ ~nested /\ batch = <<>> /\ io = "starting" /\ state = "new" /\ ~start
      /\ ~crashed /\ handled = <<>>
  BY DEF Init
<1>. QED  BY <1>2, <1>3 DEF ThreadInv, StartInv

\* What the innermost call tells about the whole stack.
LEMMA TopFacts ==
  ASSUME NEW s, Shape(s)
  PROVE  /\ s \in Seq(Frames) /\ s # <<>> /\ Len(s) \in Nat /\ Len(s) >= 1
         /\ Last(s) = s[Len(s)]
         /\ Last(s) \in Bottom => /\ Len(s) = 1 /\ s[1] = Last(s)
                                  /\ ~Has(s, D)
                                  /\ Last(s) # "leaving" => ~Has(s, N)
         /\ Last(s) \notin Bottom => s[1] \notin {"start", "exit"}
         /\ Last(s) \in D => Has(s, D)
         /\ Last(s) \in T => Has(s, N)
<1>0. \A n \in Nat : n >= 1 /\ n # 1 => n \in 2 .. n
  OBVIOUS
<1>1. s \in Seq(Frames) /\ s # <<>> /\ Len(s) \in Nat /\ Len(s) >= 1
  BY DEF Shape
<1>2. Last(s) = s[Len(s)]
  BY <1>1, PopProperties
<1>3. ASSUME Last(s) \in Bottom
      PROVE  /\ Len(s) = 1 /\ s[1] = Last(s)
             /\ ~Has(s, D)
             /\ Last(s) # "leaving" => ~Has(s, N)
  <2>1. Len(s) = 1
    <3>1. Len(s) # 1 => Len(s) \in 2 .. Len(s)
      BY <1>0, <1>1, Zenon
    <3>. QED  BY <1>2, <1>3, <3>1 DEF Shape
  <2>2. s[1] \notin D /\ (s[1] # "leaving" => s[1] \notin N)
    BY <1>2, <1>3, <2>1 DEF D, N, Bottom
  <2>. QED  BY <1>2, <2>1, <2>2 DEF Has
<1>4. ASSUME Last(s) \notin Bottom
      PROVE  s[1] \notin {"start", "exit"}
  <2>1. Len(s) # 1
    BY <1>2, <1>4 DEF Shape
  <2>. QED  BY <2>1 DEF Shape
<1>5. Last(s) \in D => Has(s, D)
  BY <1>1, PopKinds
<1>6. ASSUME Last(s) \in T
      PROVE  Has(s, N)
  <2>1. Len(s) \in 2 .. Len(s)
    <3>1. Len(s) # 1
      BY <1>2, <1>6 DEF Shape, T, Bottom
    <3>. QED  BY <1>0, <1>1, <3>1, Zenon
  <2>2. s[Len(s) - 1] \in N /\ Len(s) - 1 \in 1 .. Len(s)
    BY <1>1, <1>2, <1>6, <2>1 DEF Shape
  <2>. QED  BY <2>2 DEF Has
<1>. QED  BY <1>1, <1>2, <1>3, <1>4, <1>5, <1>6

\* dispatching_messages_ tells whether s holds a dispatch.
Flagged(s) == (dispatching <=> Has(s, D)) /\ (batch # <<>> => dispatching)

\* A call of DispatchMessages, which goes on with s.
LEMMA CallOfDispatch ==
  ASSUME NEW s, Shape(s), s[1] \notin {"start", "exit"}, Flagged(s), CallDispatch(s)
  PROVE  /\ Shape(stack') /\ stack'[1] = s[1]
         /\ dispatching' <=> Has(stack', D)
         /\ Has(stack', N) <=> Has(s, N)
         /\ Settled(stack') => Settled(s)
         /\ batch' # <<>> => dispatching'
<1>1. CASE dispatching \/ incoming = <<>>
  BY <1>1 DEF CallDispatch, Flagged
<1>2. CASE ~dispatching /\ incoming # <<>>
  <2>1. stack' = Append(s, "dispatch") /\ dispatching'
    BY <1>2 DEF CallDispatch
  <2>. QED  BY <1>2, <2>1, Push DEF Flagged
<1>. QED  BY <1>1, <1>2

LEMMA ThreadStep ==
  DataOK /\ ThreadInv /\ StartInv /\ [Next]_vars => ThreadInv' /\ StartInv' /\ Onwards
<1>. SUFFICES ASSUME DataOK, ThreadInv, StartInv, [Next]_vars
              PROVE  ThreadInv' /\ StartInv' /\ Onwards
  OBVIOUS
<1>. DEFINE Kept(s) == Shape(s) /\ Alike(stack, s)
            Aside   == UNCHANGED <<start, state, crashed, handled>> /\ io' \in {io, "resumed", "trigger", "notify", "idle"}
<1>0. /\ Shape(stack) /\ Kept(stack) /\ Top = Last(stack)
      /\ dispatching <=> Has(stack, D)
      /\ nested <=> Has(stack, N)
      /\ batch # <<>> => dispatching
  BY DEF ThreadInv, Alike, Top, DataOK
\* Steps that change the stack, if at all, by calls that no flag counts.
<1>1. ASSUME Kept(stack'), UNCHANGED <<batch, dispatching, nested>>, Aside
      PROVE  ThreadInv' /\ StartInv' /\ Onwards
  BY <1>1 DEF ThreadInv, StartInv, Alike, Onwards
\* The calls of DispatchMessages.
<1>2. ASSUME CallDispatch(stack), stack[1] \notin {"start", "exit"}, UNCHANGED nested, Aside
      PROVE  ThreadInv' /\ StartInv' /\ Onwards
  <2>1. /\ Shape(stack') /\ stack'[1] = stack[1]
        /\ dispatching' <=> Has(stack', D)
        /\ Has(stack', N) <=> Has(stack, N)
        /\ Settled(stack') => Settled(stack)
        /\ batch' # <<>> => dispatching'
    <3>1. Flagged(stack)
      BY <1>0 DEF Flagged
    <3>. QED  BY <1>0, <1>2, <3>1, CallOfDispatch
  <2>. QED  BY <1>0, <1>2, <2>1 DEF ThreadInv, StartInv, Onwards
<1>3. ASSUME Top \in {"script", "evaluate"}
      PROVE  Kept(Returned)
  BY <1>0, <1>3, Pop DEF Alike, Returned
<1>4. ASSUME Top \in T, NEW f \in T
      PROVE  Kept(Becomes(f))
  BY <1>0, <1>4, Turn DEF Alike, Becomes
<1>. HIDE DEF Kept
\* The server, the delegate and the platform.
<1>5. CASE WorkerRunIO
  <2>1. /\ UNCHANGED <<stack, batch, dispatching, nested, crashed, handled>>
        /\ io = "starting" /\ io' \in {"idle", "ended"}
        /\ io' = "idle" => state' = state
        /\ io' = "ended" => state' = "error" /\ start'
        /\ start' \in BOOLEAN
    BY <1>5 DEF WorkerRunIO, DataOK
  <2>2. state = "new" /\ stack[1] \in {"start", "exit"}
    BY <2>1 DEF StartInv
  <2>3. ~start' => stack[1] = "start"
    BY <2>1 DEF StartInv
  <2>. QED  BY <2>1, <2>2, <2>3 DEF ThreadInv, StartInv, Onwards
<1>6. CASE Accept
  BY <1>0, <1>1, <1>6 DEF Accept, trigger, main, engine
<1>7. ASSUME NEW m, AppendMessage(m), UNCHANGED start
      PROVE  ThreadInv' /\ StartInv' /\ Onwards
  BY <1>0, <1>1, <1>7 DEF AppendMessage, main, engine
<1>8. ASSUME NEW id \in Ids, StartSession(id)
      PROVE  ThreadInv' /\ StartInv' /\ Onwards
  BY <1>7, <1>8 DEF StartSession
<1>9. ASSUME NEW kind \in Kinds, MessageReceived(kind)
      PROVE  ThreadInv' /\ StartInv' /\ Onwards
  BY <1>7, <1>9 DEF MessageReceived
<1>10. CASE EndSession
  BY <1>7, <1>10 DEF EndSession
<1>11. CASE ResumeStartup
  <2>1. /\ io = "idle" /\ io' = "resumed" /\ start'
        /\ UNCHANGED <<stack, batch, dispatching, nested, state, crashed, handled>>
    BY <1>11 DEF ResumeStartup, Idle, main, engine
  <2>. QED  BY <2>1 DEF ThreadInv, StartInv, Onwards
<1>12. CASE RequestDispatch
  BY <1>0, <1>1, <1>12 DEF RequestDispatch, main, engine
<1>13. CASE NotifyMessageReceived
  <2>1. Top = "asleep" => Kept(Becomes("pump"))
    BY <1>4 DEF T
  <2>. QED  BY <1>0, <1>1, <1>13, <2>1 DEF NotifyMessageReceived, engine
<1>14. CASE WriteCbIO
  BY <1>0, <1>1, <1>14 DEF WriteCbIO, trigger, main, engine
\* DispatchMessages.
<1>15. CASE DispatchMessage
  <2>1. Top = "dispatch" /\ ~crashed
    BY <1>15 DEF DispatchMessage
  <2>2. stack[1] \notin {"start", "exit"} /\ dispatching /\ Len(stack) >= 2
    BY <1>0, <2>1, TopFacts, Pop DEF D, Bottom
  <2>3. state \notin {"new", "error"} /\ start
    BY <2>2 DEF StartInv, DataOK
  <2>4. Kept(Append(stack, "evaluate"))
    BY <1>0, <2>2, Push DEF Kept, Alike
  <2>5. /\ stack' \in {stack, Append(stack, "evaluate")}
        /\ state' \notin {"new", "error"}
    BY <1>15, <2>3 DEF DispatchMessage, Connect, Disconnect, ToFrontendSession
  <2>6. UNCHANGED <<start, io, dispatching, nested>>
    BY <1>15 DEF DispatchMessage, trigger
  <2>7. Kept(stack')
    BY <1>0, <2>4, <2>5
  <2>. QED  BY <2>2, <2>3, <2>5, <2>6, <2>7 DEF Kept, Alike, ThreadInv, StartInv, Onwards
<1>16. CASE DispatchAgain
  <2>1. Top = "dispatch" /\ batch = <<>>
    BY <1>16 DEF DispatchAgain
  <2>2. stack[1] \notin {"start", "exit"} /\ dispatching
    BY <1>0, <2>1, TopFacts DEF D, Bottom
  <2>3. Aside /\ UNCHANGED nested
    BY <1>16 DEF DispatchAgain, delegateVars, trigger, engine
  <2>4. CASE incoming = <<>>
    <3>1. stack' = Front(stack) /\ ~dispatching' /\ batch' = <<>>
      BY <1>16, <2>4 DEF DispatchAgain, Returned
    <3>2. /\ Shape(Front(stack)) /\ Front(stack)[1] = stack[1]
          /\ ~Has(Front(stack), D)
          /\ Has(Front(stack), N) <=> Has(stack, N)
      BY <1>0, <2>1, Pop
    <3>. QED  BY <1>0, <2>1, <2>2, <2>3, <3>1, <3>2 DEF ThreadInv, StartInv, Onwards
  <2>5. CASE incoming # <<>>
    BY <1>0, <1>16, <2>2, <2>3, <2>5 DEF DispatchAgain, ThreadInv, StartInv, Onwards
  <2>. QED  BY <2>4, <2>5
\* From Start to the end.
<1>17. CASE StartReturns
  <2>1. stack[1] = "start" /\ ~dispatching /\ ~nested /\ batch = <<>>
    <3>1. stack[1] = "start" /\ ~Has(stack, D) /\ ~Has(stack, N)
      BY <1>0, <1>17, TopFacts DEF StartReturns, Bottom
    <3>. QED  BY <1>0, <3>1, Zenon
  <2>2. start /\ ~crashed /\ handled = <<>> /\ io # "starting"
    BY <1>17, <2>1 DEF StartReturns, StartInv
  <2>3. UNCHANGED <<start, io, nested, crashed, handled>>
    BY <1>17 DEF StartReturns, trigger
  <2>4. ASSUME NEW f \in {"loop", "exit"}
        PROVE  /\ Shape(<<f>>) /\ <<f>>[1] = f /\ ~Has(<<f>>, D) /\ ~Has(<<f>>, N)
    BY Single DEF Bottom
  <2>5. CASE state = "error"
    <3>1. stack' = <<"exit">> /\ state' = "error" /\ UNCHANGED <<batch, dispatching>>
      BY <1>17, <2>5 DEF StartReturns
    <3>. QED  BY <1>17, <2>1, <2>2, <2>3, <2>4, <3>1 DEF ThreadInv, StartInv, Onwards
  <2>6. CASE state # "error" /\ ~wait
    <3>1. stack' = <<"loop">> /\ state' = "accepting" /\ UNCHANGED <<batch, dispatching>>
      BY <1>17, <2>6 DEF StartReturns
    <3>. QED  BY <1>17, <2>1, <2>2, <2>3, <2>4, <2>6, <3>1 DEF ThreadInv, StartInv, Onwards
  <2>7. CASE state # "error" /\ wait
    <3>1. CallDispatch(<<"loop">>) /\ state' = "accepting"
      BY <1>17, <2>7 DEF StartReturns
    <3>. DEFINE s == <<"loop">>
    <3>3. /\ Shape(s) /\ s[1] = "loop" /\ ~Has(s, D) /\ ~Has(s, N)
          /\ CallDispatch(s)
      BY <2>4, <3>1
    <3>4. Flagged(s)
      BY <2>1, <3>3, Zenon DEF Flagged
    <3>. HIDE DEF s
    <3>2. /\ Shape(stack') /\ stack'[1] = "loop"
          /\ dispatching' <=> Has(stack', D)
          /\ ~Has(stack', N)
          /\ batch' # <<>> => dispatching'
      BY <3>3, <3>4, CallOfDispatch
    <3>. QED  BY <1>17, <2>1, <2>2, <2>3, <2>7, <3>1, <3>2 DEF ThreadInv, StartInv, Onwards
  <2>. QED  BY <2>5, <2>6, <2>7 DEF DataOK
<1>18. CASE RunTask
  <2>1. stack[1] \notin {"start", "exit"}
    BY <1>0, <1>18, TopFacts DEF RunTask, Bottom
  <2>. QED  BY <1>2, <1>18, <2>1 DEF RunTask, server, engine
<1>19. CASE RunScript
  <2>1. Len(stack) = 1 /\ stack[1] = "loop"
    BY <1>0, <1>19, TopFacts DEF RunScript, Bottom
  <2>2. Kept(Append(stack, "script"))
    BY <1>0, <2>1, Push DEF Kept, Alike
  <2>. QED  BY <1>1, <1>19, <2>2 DEF RunScript, trigger, engine
<1>20. CASE JavaScriptReturns
  BY <1>1, <1>3, <1>20 DEF JavaScriptReturns, InJavaScript, trigger, engine
<1>21. CASE InterruptCallback
  <2>1. stack[1] \notin {"start", "exit"}
    BY <1>0, <1>21, TopFacts DEF InterruptCallback, InJavaScript, Bottom
  <2>. QED  BY <1>2, <1>21, <2>1 DEF InterruptCallback, engine
\* The pauses.
<1>22. CASE Pause
  <2>1. Top \in {"script", "evaluate"} /\ ~Has(stack, N)
    BY <1>0, <1>22 DEF Pause, InJavaScript
  <2>2. stack' = stack \o <<"paused", "test">> /\ nested' /\ UNCHANGED <<batch, dispatching>> /\ Aside
    BY <1>22 DEF Pause, trigger
  <2>. QED  BY <1>0, <2>1, <2>2, PushPause DEF ThreadInv, StartInv, Onwards
<1>23. CASE WaitForDisconnect
  <2>1. stack[1] = "loop" /\ ~Has(stack, D) /\ ~Has(stack, N)
    <3>1. stack = <<"loop">> \/ stack = <<"loop", "script">>
      BY <1>23 DEF WaitForDisconnect
    <3>2. \A i \in 1 .. Len(stack) : stack[i] \in {"loop", "script"}
      BY <3>1
    <3>. QED  BY <3>1, <3>2 DEF Has, D, N
  <2>2. ~dispatching /\ ~nested /\ batch = <<>>
    BY <1>0, <2>1, Zenon
  <2>3. UNCHANGED <<batch, dispatching>> /\ Aside
    BY <1>23 DEF WaitForDisconnect, trigger
  <2>4. \/ stack' = <<"leaving", "test">> /\ nested'
        \/ stack' = <<"exit">> /\ nested' = nested
    BY <1>23 DEF WaitForDisconnect
  <2>5. Shape(<<"exit">>) /\ <<"exit">>[1] = "exit" /\ ~Has(<<"exit">>, D) /\ ~Has(<<"exit">>, N)
    BY Single DEF Bottom
  <2>6. /\ Shape(stack') /\ stack'[1] \in {"leaving", "exit"}
        /\ ~Has(stack', D) /\ (nested' <=> Has(stack', N))
    BY <2>2, <2>4, <2>5, Leaving
  <2>. QED  BY <2>1, <2>2, <2>3, <2>6 DEF ThreadInv, StartInv, Onwards
<1>24. CASE WaitForFrontendMessage \/ WakeSpuriously \/ Pumped
  <2>1. Top \in T /\ \E f \in T : stack' = Becomes(f)
    BY <1>24 DEF WaitForFrontendMessage, WakeSpuriously, Pumped, T
  <2>2. UNCHANGED <<batch, dispatching, nested>> /\ Aside
    BY <1>24 DEF WaitForFrontendMessage, WakeSpuriously, Pumped, trigger, engine
  <2>. QED  BY <1>1, <1>4, <2>1, <2>2
<1>25. CASE LoopEnds
  <2>1. Top = "test" /\ ~nested' /\ UNCHANGED <<batch, dispatching>> /\ Aside
    BY <1>25 DEF LoopEnds, trigger
  <2>2. CASE stack[1] = "leaving"
    <3>1. stack' = <<"exit">> /\ ~Has(stack, D)
      BY <1>0, <1>25, <2>1, <2>2, PopPause DEF LoopEnds
    <3>2. Shape(stack') /\ stack'[1] = "exit" /\ ~Has(stack', D) /\ ~Has(stack', N)
      BY <3>1, Single DEF Bottom
    <3>. QED  BY <1>0, <2>1, <2>2, <3>1, <3>2 DEF ThreadInv, StartInv, Onwards
  <2>3. CASE stack[1] # "leaving"
    <3>1. stack' = Front(Front(stack))
      BY <1>25, <2>3 DEF LoopEnds, Returned
    <3>2. /\ Shape(stack') /\ stack'[1] = stack[1]
          /\ Has(stack', D) <=> Has(stack, D)
          /\ ~Has(stack', N)
          /\ Settled(stack') => Settled(stack)
      BY <1>0, <2>1, <2>3, <3>1, PopPause
    <3>. QED  BY <1>0, <2>1, <3>2 DEF ThreadInv, StartInv, Onwards
  <2>. QED  BY <2>2, <2>3
<1>26. CASE UNCHANGED vars
  BY <1>0, <1>1, <1>26 DEF vars, trigger, main, engine
<1>. QED
  BY <1>5, <1>6, <1>8, <1>9, <1>10, <1>11, <1>12, <1>13, <1>14, <1>15, <1>16, <1>17, <1>18,
     <1>19, <1>20, <1>21, <1>22, <1>23, <1>24, <1>25, <1>26
  DEF Next, Post, Serve

------------------------------------------------------------------------------
(* Calls that follow on each other *)

LEMMA NoneIsNoId == None \notin Ids /\ \A m \in Call : m.id \in Ids /\ m.id # None
<1>1. None \notin Ids
  BY NodeAgentAssumption DEF Ids
<1>. QED  BY <1>1 DEF Call

LEMMA NowOfAppend ==
  ASSUME NEW s \in Seq(Call), NEW m \in Call
  PROVE  Now(Append(s, m)) = IF m.kind = "disconnect" THEN None ELSE m.id
<1>. DEFINE r == Append(s, m)
<1>1. r # <<>> /\ r[Len(r)] = m
  OBVIOUS
<1>. HIDE DEF r
<1>. QED  BY <1>1 DEF Now, r

\* One more call.
LEMMA OneMore ==
  ASSUME NEW s \in Seq(Call), NEW m \in Call, Orderly(s),
         m.kind = "connect" => /\ Now(s) = None
                               /\ \A i \in 1 .. Len(s) : s[i].kind = "connect" => s[i].id # m.id,
         m.kind # "connect" => Now(s) = m.id
  PROVE  Orderly(Append(s, m))
<1>. DEFINE r == Append(s, m)
<1>1. Len(r) = Len(s) + 1 /\ r[Len(s) + 1] = m /\ Len(s) \in Nat
      /\ \A i \in 1 .. Len(s) : r[i] = s[i]
  BY PushProperties
<1>. HIDE DEF r
<1>2. \A i \in 1 .. Len(r) : i \in 1 .. Len(s) \/ i = Len(s) + 1
  BY <1>1
<1>3. s = <<>> \/ Len(s) \in 1 .. Len(s)
  OBVIOUS
<1>4. ASSUME m.kind = "connect"
      PROVE  s = <<>> \/ s[Len(s)].kind = "disconnect"
  <2>1. ASSUME s # <<>>, s[Len(s)].kind # "disconnect"
        PROVE  FALSE
    <3>1. Now(s) = s[Len(s)].id
      BY <2>1 DEF Now
    <3>2. s[Len(s)] \in Call
      BY <1>3, <2>1
    <3>. QED  BY <1>4, <3>1, <3>2, NoneIsNoId
  <2>. QED  BY <2>1
<1>5. ASSUME m.kind # "connect"
      PROVE  s # <<>> /\ s[Len(s)].kind # "disconnect" /\ s[Len(s)].id = m.id
  <2>1. Now(s) = m.id /\ m.id # None
    BY <1>5, NoneIsNoId
  <2>. QED  BY <2>1 DEF Now
<1>6. ASSUME NEW i \in 1 .. Len(r)
      PROVE  IF r[i].kind = "connect" THEN i = 1 \/ r[i - 1].kind = "disconnect"
             ELSE i > 1 /\ r[i - 1].kind # "disconnect" /\ r[i].id = r[i - 1].id
  <2>1. CASE i \in 1 .. Len(s)
    <3>1. i = 1 \/ i - 1 \in 1 .. Len(s)
      BY <1>1, <2>1
    <3>. QED  BY <1>1, <2>1, <3>1 DEF Orderly
  <2>2. CASE i = Len(s) + 1
    <3>1. r[i] = m /\ (s = <<>> => i = 1) /\ (s # <<>> => i > 1 /\ r[i - 1] = s[Len(s)])
      BY <1>1, <1>3, <2>2
    <3>. QED  BY <1>4, <1>5, <3>1
  <2>. QED  BY <1>2, <2>1, <2>2
<1>7. ASSUME NEW i \in 1 .. Len(r), NEW j \in 1 .. Len(r),
             r[i].kind = "connect", r[j].kind = "connect", r[i].id = r[j].id
      PROVE  i = j
  <2>1. ASSUME NEW k \in 1 .. Len(s), m.kind = "connect", s[k].kind = "connect"
        PROVE  s[k].id # m.id
    BY <2>1
  <2>. QED  BY <1>1, <1>2, <1>7, <2>1 DEF Orderly
<1>. QED  BY <1>6, <1>7 DEF Orderly, r

\* The call that comes after the calls h in the calls c.
LEMMA NextOne ==
  ASSUME NEW c \in Seq(Call), Orderly(c), NEW h \in Seq(Call), Len(h) + 1 \in 1 .. Len(c),
         \A i \in 1 .. Len(h) : h[i] = c[i], NEW m, m = c[Len(h) + 1]
  PROVE  /\ m.kind = "connect" => /\ Now(h) = None
                                  /\ \A i \in 1 .. Len(h) : h[i].kind = "connect" => h[i].id # m.id
         /\ m.kind # "connect" => Now(h) = m.id
<1>. DEFINE k == Len(h) + 1
<1>1. /\ Len(h) \in Nat /\ k \in 1 .. Len(c) /\ m = c[k]
      /\ h # <<>> => Len(h) \in 1 .. Len(h) /\ h[Len(h)] = c[k - 1]
      /\ h = <<>> => k = 1
      /\ h # <<>> => k > 1
  OBVIOUS
<1>2. ASSUME NEW i \in 1 .. Len(h)
      PROVE  i \in 1 .. Len(c) /\ i # k
  OBVIOUS
<1>. HIDE DEF k
<1>3. ASSUME m.kind = "connect"
      PROVE  Now(h) = None
  BY <1>1, <1>3 DEF Orderly, Now
<1>4. ASSUME m.kind = "connect", NEW i \in 1 .. Len(h), h[i].kind = "connect"
      PROVE  h[i].id # m.id
  BY <1>1, <1>2, <1>4 DEF Orderly
<1>5. ASSUME m.kind # "connect"
      PROVE  Now(h) = m.id
  BY <1>1, <1>5 DEF Orderly, Now
<1>. QED  BY <1>3, <1>4, <1>5

------------------------------------------------------------------------------
(* The messages: three ways in which a step can touch them *)

Still ==
  /\ UNCHANGED <<Waiting, handled, calls, open>>
  /\ \/ UNCHANGED <<next, accepted>>
     \/ next' = next + 1 /\ accepted' = accepted \cup {next}

Arrives(m) ==
  /\ Waiting' = Append(Waiting, m)
  /\ calls' = Append(calls, m)
  /\ UNCHANGED <<handled, next, batch>>
  /\ \/ /\ m.kind = "connect" /\ open = None /\ m.id \in accepted
        /\ open' = m.id /\ accepted' = accepted \ {m.id}
     \/ /\ m.kind = "disconnect" /\ m.id = open
        /\ open' = None /\ UNCHANGED accepted
     \/ /\ m.kind \in Kinds /\ m.id = open
        /\ UNCHANGED <<open, accepted>>

Leaves ==
  /\ Waiting # <<>>
  /\ handled' = Append(handled, Head(Waiting))
  /\ Waiting' = Tail(Waiting)
  /\ UNCHANGED <<calls, open, next, accepted>>

\* A dispatch takes the queue as it is: there was no batch before.
LEMMA CallTakesQueue ==
  ASSUME DataOK, ThreadInv, NEW s, CallDispatch(s)
  PROVE  UNCHANGED Waiting
<1>1. CASE dispatching \/ incoming = <<>>
  BY <1>1 DEF CallDispatch, Waiting
<1>2. CASE ~(dispatching \/ incoming = <<>>)
  <2>1. batch = <<>> /\ batch' = incoming /\ incoming' = <<>>
    BY <1>2 DEF ThreadInv, CallDispatch
  <2>2. batch' \o incoming' = batch \o incoming
    BY <2>1 DEF DataOK
  <2>. QED  BY <2>2 DEF Waiting
<1>. QED  BY <1>1, <1>2

LEMMA MessagesMove ==
  DataOK /\ ThreadInv /\ [Next]_vars =>
    Still \/ (\E m \in Call : Arrives(m)) \/ (Leaves /\ DispatchMessage)
<1>. SUFFICES ASSUME DataOK, ThreadInv, [Next]_vars
              PROVE  Still \/ (\E m \in Call : Arrives(m)) \/ (Leaves /\ DispatchMessage)
  OBVIOUS
<1>0. incoming \in Seq(Call) /\ batch \in Seq(Call)
  BY DEF DataOK
<1>1. ASSUME UNCHANGED <<incoming, batch, handled, calls, open, next, accepted>>
      PROVE  Still
  BY <1>1 DEF Still, Waiting
<1>2. ASSUME NEW m \in Call, AppendMessage(m)
      PROVE  /\ Waiting' = Append(Waiting, m) /\ calls' = Append(calls, m)
             /\ UNCHANGED <<handled, next, batch>>
  <2>1. incoming' = Append(incoming, m) /\ calls' = Append(calls, m) /\ UNCHANGED <<handled, next, batch>>
    BY <1>2 DEF AppendMessage, main, engine
  <2>2. batch \o Append(incoming, m) = Append(batch \o incoming, m)
    BY <1>0, QueueInTwoParts
  <2>. QED  BY <2>1, <2>2 DEF Waiting
<1>3. ASSUME NEW s, CallDispatch(s), UNCHANGED <<handled, calls, open, next, accepted>>
      PROVE  Still
  BY <1>3, CallTakesQueue DEF Still
<1>4. ASSUME NEW id \in Ids, StartSession(id)
      PROVE  \E m \in Call : Arrives(m)
  <2>. DEFINE m == [kind |-> "connect", id |-> id]
  <2>1. m \in Call /\ m.kind = "connect" /\ m.id = id
    BY DEF Call
  <2>2. AppendMessage(m) /\ open = None /\ id \in accepted /\ open' = id /\ accepted' = accepted \ {id}
    BY <1>4 DEF StartSession
  <2>. HIDE DEF m
  <2>3. Arrives(m)
    BY <1>2, <2>1, <2>2 DEF Arrives
  <2>. QED  BY <2>1, <2>3
<1>5. ASSUME NEW kind \in Kinds, MessageReceived(kind)
      PROVE  \E m \in Call : Arrives(m)
  <2>. DEFINE m == [kind |-> kind, id |-> open]
  <2>1. m \in Call /\ m.kind = kind /\ m.id = open
    BY <1>5 DEF Call, MessageReceived, DataOK
  <2>2. AppendMessage(m) /\ UNCHANGED <<open, accepted>>
    BY <1>5 DEF MessageReceived
  <2>. HIDE DEF m
  <2>3. Arrives(m)
    BY <1>2, <2>1, <2>2 DEF Arrives
  <2>. QED  BY <2>1, <2>3
<1>6. ASSUME EndSession
      PROVE  \E m \in Call : Arrives(m)
  <2>. DEFINE m == [kind |-> "disconnect", id |-> open]
  <2>1. m \in Call /\ m.kind = "disconnect" /\ m.id = open
    BY <1>6 DEF Call, EndSession, DataOK
  <2>2. AppendMessage(m) /\ open' = None /\ UNCHANGED accepted
    BY <1>6 DEF EndSession
  <2>. HIDE DEF m
  <2>3. Arrives(m)
    BY <1>2, <2>1, <2>2 DEF Arrives
  <2>. QED  BY <2>1, <2>3
<1>7. CASE Accept
  BY <1>7 DEF Accept, Still, Waiting, delegateVars, main, engine
<1>8. CASE DispatchMessage
  <2>1. /\ batch # <<>> /\ batch' = Tail(batch) /\ handled' = Append(handled, Head(batch))
        /\ UNCHANGED <<incoming, calls, open, next, accepted>>
    BY <1>8 DEF DispatchMessage, delegateVars, server
  <2>2. /\ batch \o incoming # <<>> /\ Head(batch \o incoming) = Head(batch)
        /\ Tail(batch \o incoming) = Tail(batch) \o incoming
    <3>1. Head(batch) \in Call
      BY <1>0, <2>1
    <3>. QED  BY <1>0, <2>1, <3>1, QueueInTwoParts
  <2>. QED  BY <1>8, <2>1, <2>2 DEF Leaves, Waiting
<1>9. CASE DispatchAgain
  <2>1. /\ batch = <<>> /\ batch' = incoming /\ incoming' = <<>>
        /\ UNCHANGED <<handled, calls, open, next, accepted>>
    BY <1>9 DEF DispatchAgain, delegateVars, server, engine
  <2>2. batch' \o incoming' = batch \o incoming
    BY <1>0, <2>1
  <2>. QED  BY <2>1, <2>2 DEF Still, Waiting
<1>10. CASE StartReturns
  BY <1>1, <1>3, <1>10 DEF StartReturns, delegateVars, server
<1>11. CASE RunTask
  BY <1>3, <1>11 DEF RunTask, delegateVars, server, engine
<1>12. CASE InterruptCallback
  BY <1>3, <1>12 DEF InterruptCallback, delegateVars, server, engine
<1>13. CASE WorkerRunIO
  BY <1>1, <1>13 DEF WorkerRunIO, delegateVars
<1>14. CASE WriteCbIO
  BY <1>1, <1>14 DEF WriteCbIO, delegateVars, main, engine
<1>15. CASE Post \/ ResumeStartup
  BY <1>1, <1>15 DEF Post, RequestDispatch, NotifyMessageReceived, ResumeStartup, delegateVars, server,
                     main, engine
<1>16. CASE RunScript \/ JavaScriptReturns
  BY <1>1, <1>16 DEF RunScript, JavaScriptReturns, delegateVars, server, engine
<1>17. CASE Pause \/ WaitForDisconnect \/ LoopEnds
  BY <1>1, <1>17 DEF Pause, WaitForDisconnect, LoopEnds, delegateVars, server
<1>18. CASE WaitForFrontendMessage \/ WakeSpuriously \/ Pumped
  BY <1>1, <1>18 DEF WaitForFrontendMessage, WakeSpuriously, Pumped, delegateVars, server, engine
<1>19. CASE UNCHANGED vars
  BY <1>1, <1>19 DEF vars, delegateVars, server, main, engine
<1>. QED
  BY <1>4, <1>5, <1>6, <1>7, <1>8, <1>9, <1>10, <1>11, <1>12, <1>13, <1>14, <1>15, <1>16, <1>17,
     <1>18, <1>19
  DEF Next, Serve

------------------------------------------------------------------------------
(* The log *)

LEMMA LogInit == Init => LogInv
<1>. SUFFICES ASSUME Init
              PROVE  LogInv
  OBVIOUS
<1>1. calls = <<>> /\ Log = <<>> /\ Len(<<>>) = 0 /\ accepted = {} /\ open = None
  BY DEF Init, Log, Waiting
<1>2. Orderly(<<>>) /\ Now(<<>>) = None
  BY DEF Orderly, Now
<1>. QED  BY <1>1, <1>2 DEF LogInv

LEMMA LogStep == DataOK /\ ThreadInv /\ LogInv /\ [Next]_vars => LogInv'
<1>. SUFFICES ASSUME DataOK, ThreadInv, LogInv, [Next]_vars
              PROVE  LogInv'
  OBVIOUS
<1>1. /\ handled \in Seq(Call) /\ Waiting \in Seq(Call) /\ calls \in Seq(Call)
      /\ next \in Nat /\ accepted \subseteq Ids
  BY ConcatProperties, NodeAgentAssumption DEF DataOK, Waiting
<1>2. ASSUME NEW i \in 1 .. Len(calls)
      PROVE  calls[i].id \in Int
  <2>1. calls[i] \in Call
    BY <1>1
  <2>. QED  BY <2>1 DEF Call, Ids
<1>3. CASE Still
  <2>1. Log' = Log /\ calls' = calls /\ open' = open
    BY <1>3 DEF Still, Log
  <2>2. CASE UNCHANGED <<next, accepted>>
    BY <2>1, <2>2 DEF LogInv
  <2>3. CASE next' = next + 1 /\ accepted' = accepted \cup {next}
    <3>1. \A id \in accepted' : id < next'
      BY <1>1, <2>3 DEF LogInv, Ids
    <3>2. ASSUME NEW i \in 1 .. Len(calls), calls[i].kind = "connect"
          PROVE  calls[i].id < next' /\ calls[i].id \notin accepted'
      BY <1>1, <1>2, <2>3, <3>2 DEF LogInv
    <3>. QED  BY <2>1, <3>1, <3>2 DEF LogInv
  <2>. QED  BY <1>3, <2>2, <2>3 DEF Still
<1>4. ASSUME NEW m \in Call, Arrives(m)
      PROVE  LogInv'
  <2>1. Log' = Append(Log, m) /\ calls' = Append(calls, m)
    BY <1>1, <1>4, QueueInTwoParts DEF Arrives, Log
  <2>2. \/ m.kind = "connect" /\ open = None /\ m.id \in accepted
        \/ m.kind # "connect" /\ m.id = open
    BY <1>4, NodeAgentAssumption DEF Arrives, Tags
  <2>3. Orderly(calls')
    <3>1. \A i \in 1 .. Len(calls) : calls[i].kind = "connect" /\ m.kind = "connect" => calls[i].id # m.id
      BY <2>2 DEF LogInv
    <3>. QED  BY <1>1, <2>1, <2>2, <3>1, OneMore DEF LogInv
  <2>4. open' = Now(calls')
    <3>1. Now(calls') = IF m.kind = "disconnect" THEN None ELSE m.id
      BY <1>1, <2>1, NowOfAppend
    <3>. QED  BY <1>4, <3>1, NodeAgentAssumption DEF Arrives, Tags
  <2>5. accepted' \subseteq accepted /\ next' = next /\ (m.kind = "connect" => m.id \notin accepted')
    BY <1>4, NodeAgentAssumption DEF Arrives, Tags
  <2>6. ASSUME NEW i \in 1 .. Len(calls'), calls'[i].kind = "connect"
        PROVE  calls'[i].id < next' /\ calls'[i].id \notin accepted'
    <3>1. (i \in 1 .. Len(calls) /\ calls'[i] = calls[i]) \/ calls'[i] = m
      BY <1>1, <2>1, PushProperties
    <3>. QED  BY <2>2, <2>5, <2>6, <3>1 DEF LogInv
  <2>. QED  BY <2>1, <2>3, <2>4, <2>5, <2>6 DEF LogInv
<1>5. CASE Leaves
  <2>1. Log' = Log
    BY <1>1, <1>5, LogOfQueue DEF Leaves, Log
  <2>. QED  BY <1>5, <2>1 DEF LogInv, Leaves
<1>. QED  BY <1>3, <1>4, <1>5, MessagesMove

------------------------------------------------------------------------------
(* The session *)

LEMMA SessionInit == Init => SessionInv
<1>. SUFFICES ASSUME Init
              PROVE  SessionInv
  OBVIOUS
<1>1. /\ session = None /\ state = "new" /\ ~crashed /\ handled = <<>>
      /\ outgoing = <<>> /\ Len(<<>>) = 0
  BY DEF Init
<1>. QED  BY <1>1 DEF SessionInv, Now, ChecksHold, Forged

\* The call to be dispatched is the one that comes next in the log.
LEMMA NextInLog ==
  ASSUME DataOK, LogInv, batch # <<>>
  PROVE  /\ Head(batch) \in Call
         /\ Head(batch).kind = "connect" =>
              /\ Now(handled) = None
              /\ \A i \in 1 .. Len(handled) : handled[i].kind = "connect" => handled[i].id # Head(batch).id
         /\ Head(batch).kind # "connect" => Now(handled) = Head(batch).id
<1>1. /\ handled \in Seq(Call) /\ batch \in Seq(Call) /\ incoming \in Seq(Call)
      /\ Waiting \in Seq(Call) /\ Head(batch) \in Call /\ calls \in Seq(Call)
  BY ConcatProperties DEF DataOK, Waiting
<1>2. Waiting # <<>> /\ Head(Waiting) = Head(batch)
  BY <1>1, QueueInTwoParts DEF Waiting
<1>3. /\ Len(handled) + 1 \in 1 .. Len(Log) /\ Log[Len(handled) + 1] = Waiting[1]
      /\ \A i \in 1 .. Len(handled) : handled[i] = Log[i]
  BY <1>1, <1>2 DEF Log
<1>4. Log[Len(handled) + 1] = Head(batch)
  BY <1>1, <1>2, <1>3
<1>5. /\ Orderly(calls) /\ Len(handled) + 1 \in 1 .. Len(calls)
      /\ Head(batch) = calls[Len(handled) + 1]
      /\ \A i \in 1 .. Len(handled) : handled[i] = calls[i]
  BY <1>3, <1>4 DEF LogInv
<1>6. calls \in Seq(Call) /\ handled \in Seq(Call) /\ Head(batch) \in Call
  BY <1>1
<1>. DEFINE m == Head(batch)
<1>. HIDE DEF m
<1>7. /\ m.kind = "connect" =>
           /\ Now(handled) = None
           /\ \A i \in 1 .. Len(handled) : handled[i].kind = "connect" => handled[i].id # m.id
      /\ m.kind # "connect" => Now(handled) = m.id
  BY <1>5, <1>6, NextOne DEF m
<1>. QED  BY <1>6, <1>7 DEF m

\* What DispatchMessages makes of a call is what the delegate meant, or the
\* frontend's text is a tag.
LEMMA Meaning ==
  ASSUME NEW m \in Call
  PROVE  /\ Text(m) = "#connect" => m.kind = "connect" \/ m.kind \in Tags
         /\ Text(m) = "#disconnect" => m.kind = "disconnect" \/ m.kind \in Tags
         /\ m.kind \in {"connect", "disconnect"} => Text(m) \in Tags
         /\ Text(m) \notin Tags => m.kind \notin {"connect", "disconnect"} /\ m.kind \notin Tags
  BY DEF Text, Tags

\* Whether a tag was among the calls handled, when one more is.
LEMMA ForgedGrows ==
  ASSUME NEW m \in Call, handled \in Seq(Call), handled' = Append(handled, m)
  PROVE  Forged' <=> Forged \/ m.kind \in Tags
<1>1. DOMAIN handled = 1 .. Len(handled) /\ DOMAIN handled' = 1 .. Len(handled) + 1 /\ Len(handled) \in Nat
  OBVIOUS
<1>2. /\ \A i \in 1 .. Len(handled) : handled'[i] = handled[i]
      /\ handled'[Len(handled) + 1] = m
  OBVIOUS
<1>3. \A i \in 1 .. Len(handled) + 1 : i \in 1 .. Len(handled) \/ i = Len(handled) + 1
  BY <1>1
<1>4. Len(handled) + 1 \in 1 .. Len(handled) + 1 /\ \A i \in 1 .. Len(handled) : i \in 1 .. Len(handled) + 1
  BY <1>1
<1>. QED  BY <1>1, <1>2, <1>3, <1>4 DEF Forged

LEMMA SessionStep ==
  DataOK /\ ThreadInv /\ StartInv /\ LogInv /\ SessionInv /\ [Next]_vars => SessionInv'
<1>. SUFFICES ASSUME DataOK, ThreadInv, StartInv, LogInv, SessionInv, [Next]_vars
              PROVE  SessionInv'
  OBVIOUS
<1>0. Shape(stack) /\ outgoing \in Seq(Write)
  BY DEF ThreadInv, DataOK
<1>1. ASSUME UNCHANGED <<state, session, handled, crashed>>, outgoing' \in {outgoing, <<>>}
      PROVE  SessionInv'
  <2>1. Len(<<>>) = 0
    OBVIOUS
  <2>2. Forged' <=> Forged
    BY <1>1 DEF Forged
  <2>. QED  BY <1>1, <2>1, <2>2 DEF SessionInv, ChecksHold
\* What is written is addressed to whom it is for.
<1>2. ASSUME NEW id, Written(id, id)
      PROVE  \A i \in 1 .. Len(outgoing') : outgoing'[i].to = outgoing'[i].for
  <2>. DEFINE w == [to |-> id, for |-> id]
  <2>1. outgoing' = Append(outgoing, w) /\ w.to = w.for
    BY <1>2 DEF Written
  <2>. HIDE DEF w
  <2>2. \A i \in 1 .. Len(outgoing') : (i \in 1 .. Len(outgoing) /\ outgoing'[i] = outgoing[i]) \/ outgoing'[i] = w
    BY <1>0, <2>1
  <2>. QED  BY <2>1, <2>2 DEF SessionInv
<1>3. CASE DispatchMessage
  <2>. DEFINE m == Head(batch)
  <2>1. /\ Top = "dispatch" /\ batch # <<>> /\ ~crashed /\ handled' = Append(handled, m)
    BY <1>3 DEF DispatchMessage
  <2>2. state \notin {"new", "error"}
    <3>1. stack[1] \notin {"start", "exit"}
      BY <1>0, <2>1, TopFacts DEF Top, Bottom
    <3>. QED  BY <3>1 DEF StartInv
  <2>3. /\ m \in Call /\ m.id # None /\ handled \in Seq(Call)
        /\ m.kind = "connect" => Now(handled) = None
        /\ m.kind # "connect" => Now(handled) = m.id
    BY <2>1, NextInLog, NoneIsNoId DEF DataOK
  <2>. HIDE DEF m
  <2>4. /\ Now(handled') = (IF m.kind = "disconnect" THEN None ELSE m.id)
        /\ handled' \in Seq(Call) /\ handled' # <<>> /\ Last(handled') = m
    <3>1. Append(handled, m) # <<>> /\ Last(Append(handled, m)) = m
      BY <2>3 DEF Last
    <3>. QED  BY <2>1, <2>3, <3>1, NowOfAppend
  <2>5. /\ session \in {None, Now(handled)}
        /\ ~Forged => session = Now(handled)
        /\ session # None <=> state = "connected"
    BY <2>1 DEF SessionInv
  <2>9. /\ Forged' <=> Forged \/ m.kind \in Tags
        /\ Text(m) = "#connect" => m.kind = "connect" \/ m.kind \in Tags
        /\ Text(m) = "#disconnect" => m.kind = "disconnect" \/ m.kind \in Tags
        /\ Text(m) \notin Tags => m.kind \notin {"connect", "disconnect"} /\ m.kind \notin Tags
    BY <2>1, <2>3, Meaning, ForgedGrows
  <2>10. m.kind \in Tags => m.kind \notin {"connect", "disconnect"}
    BY DEF Tags
  <2>11. \A i \in 1 .. Len(outgoing) : outgoing[i].to = outgoing[i].for
    BY DEF SessionInv
  <2>6. CASE Connect(m)
    <3>1. Text(m) = "#connect" /\ UNCHANGED outgoing
      BY <2>6 DEF Connect
    <3>2. CASE state = "accepting"
      <4>1. state' = "connected" /\ session' = m.id /\ ~crashed'
        BY <2>1, <2>6, <3>2 DEF Connect
      <4>2. Now(handled') = m.id
        BY <2>4, <2>9, <2>10, <3>1
      <4>. QED  BY <2>3, <2>11, <3>1, <4>1, <4>2 DEF SessionInv, ChecksHold
    <3>3. CASE state # "accepting"
      <4>1. state' = state /\ session' = session /\ crashed'
        BY <2>6, <3>3 DEF Connect
      <4>2. ~Forged' => state = "done" /\ m.kind = "connect"
        <5>1. ASSUME ~Forged'
              PROVE  state = "done" /\ m.kind = "connect"
          <6>1. m.kind = "connect" /\ ~Forged
            BY <2>9, <3>1, <5>1
          <6>2. session = None
            BY <2>3, <2>5, <6>1
          <6>. QED  BY <2>2, <2>5, <3>3, <6>1, <6>2 DEF DataOK
        <5>. QED  BY <5>1
      <4>. QED  BY <2>4, <2>5, <2>11, <3>1, <4>1, <4>2 DEF SessionInv, ChecksHold
    <3>. QED  BY <3>2, <3>3
  <2>7. CASE Disconnect(m)
    <3>1. Text(m) = "#disconnect" /\ UNCHANGED outgoing
      BY <2>7 DEF Disconnect
    <3>2. CASE state = "connected"
      <4>1. state' \in {"done", "accepting"} /\ session' = None /\ ~crashed'
        BY <2>1, <2>7, <3>2 DEF Disconnect
      <4>2. ~Forged' => Now(handled') = None
        BY <2>4, <2>9, <3>1
      <4>. QED  BY <2>11, <3>1, <4>1, <4>2 DEF SessionInv, ChecksHold
    <3>3. CASE state # "connected"
      <4>1. state' = state /\ session' = session /\ crashed'
        BY <2>7, <3>3 DEF Disconnect
      <4>2. Forged'
        <5>1. ASSUME ~Forged'
              PROVE  FALSE
          <6>1. m.kind = "disconnect" /\ ~Forged
            BY <2>9, <3>1, <5>1
          <6>2. session = m.id
            BY <2>3, <2>5, <6>1
          <6>. QED  BY <2>3, <2>5, <3>3, <6>2
        <5>. QED  BY <5>1
      <4>. QED  BY <2>5, <2>11, <3>1, <4>1, <4>2 DEF SessionInv, ChecksHold
    <3>. QED  BY <3>2, <3>3
  <2>8. CASE ToFrontendSession(m)
    <3>1. Text(m) \notin Tags /\ UNCHANGED <<state, session>> /\ crashed' = (session = None)
      BY <2>8 DEF ToFrontendSession
    <3>2. m.kind \notin {"connect", "disconnect"} /\ Now(handled) = m.id /\ Now(handled') = m.id
      BY <2>3, <2>4, <2>9, <3>1
    <3>3. Forged' <=> Forged
      BY <2>9, <3>1
    <3>4. CASE session = None
      <4>1. Forged' /\ crashed' /\ UNCHANGED outgoing
        BY <2>3, <2>5, <2>8, <3>1, <3>2, <3>3, <3>4 DEF ToFrontendSession
      <4>. QED  BY <2>5, <2>11, <3>1, <4>1 DEF SessionInv, ChecksHold
    <3>5. CASE session # None
      <4>1. session = m.id /\ Written(m.id, m.id) /\ ~crashed'
        BY <2>5, <2>8, <3>1, <3>2, <3>5 DEF ToFrontendSession
      <4>2. \A i \in 1 .. Len(outgoing') : outgoing'[i].to = outgoing'[i].for
        BY <1>2, <4>1
      <4>. QED  BY <2>5, <3>1, <3>2, <4>1, <4>2 DEF SessionInv, ChecksHold
    <3>. QED  BY <3>4, <3>5
  <2>. QED  BY <1>3, <2>6, <2>7, <2>8 DEF DispatchMessage, m
<1>4. CASE WorkerRunIO
  <2>1. state = "new" /\ state' \in {"new", "error"} /\ UNCHANGED <<session, handled, crashed, outgoing>>
    BY <1>4 DEF WorkerRunIO, StartInv
  <2>. QED  BY <2>1 DEF SessionInv, ChecksHold, Forged
<1>5. CASE StartReturns
  <2>1. state \in {"new", "error"}
    <3>1. stack[1] = "start"
      BY <1>0, <1>5, TopFacts DEF StartReturns, Top, Bottom
    <3>. QED  BY <3>1 DEF StartInv
  <2>2. state' \in {"error", "accepting"} /\ ~crashed /\ UNCHANGED <<session, handled, crashed, outgoing>>
    BY <1>5, <2>1 DEF StartReturns
  <2>. QED  BY <2>1, <2>2 DEF SessionInv, ChecksHold, Forged
<1>6. CASE WaitForDisconnect
  <2>1. UNCHANGED <<state, session, handled, crashed>> /\ (Written(None, None) \/ UNCHANGED outgoing)
    BY <1>6 DEF WaitForDisconnect
  <2>. QED  BY <1>1, <1>2, <2>1 DEF SessionInv, ChecksHold, Forged
<1>7. CASE Accept
  BY <1>1, <1>7 DEF Accept, main, engine
<1>8. ASSUME NEW m, AppendMessage(m)
      PROVE  SessionInv'
  BY <1>1, <1>8 DEF AppendMessage, main, engine
<1>9. CASE EndSession \/ (\E id \in Ids : StartSession(id)) \/ (\E kind \in Kinds : MessageReceived(kind))
  <2>1. \E m : AppendMessage(m)
    BY <1>9 DEF EndSession, StartSession, MessageReceived
  <2>. QED  BY <1>8, <2>1
<1>10. CASE WriteCbIO
  BY <1>1, <1>10 DEF WriteCbIO, main, engine
<1>11. CASE Post \/ ResumeStartup
  BY <1>1, <1>11 DEF Post, RequestDispatch, NotifyMessageReceived, ResumeStartup, main, engine
<1>12. CASE DispatchAgain \/ RunTask \/ InterruptCallback
  BY <1>1, <1>12 DEF DispatchAgain, RunTask, InterruptCallback, engine
<1>13. CASE RunScript \/ JavaScriptReturns
  BY <1>1, <1>13 DEF RunScript, JavaScriptReturns, engine
<1>14. CASE Pause \/ LoopEnds
  BY <1>1, <1>14 DEF Pause, LoopEnds
<1>15. CASE WaitForFrontendMessage \/ WakeSpuriously \/ Pumped
  BY <1>1, <1>15 DEF WaitForFrontendMessage, WakeSpuriously, Pumped, engine
<1>16. CASE UNCHANGED vars
  BY <1>1, <1>16 DEF vars, main, engine
<1>. QED
  BY <1>3, <1>4, <1>5, <1>6, <1>7, <1>9, <1>10, <1>11, <1>12, <1>13, <1>14, <1>15, <1>16
  DEF Next, Serve

------------------------------------------------------------------------------
(* What comes before the run *)

LEMMA RunInit == Init => RunInv
<1>. SUFFICES ASSUME Init
              PROVE  RunInv
  OBVIOUS
<1>1. ~start /\ waiting = wait /\ calls = <<>> /\ Len(<<>>) = 0
  BY DEF Init
<1>. QED  BY <1>1 DEF RunInv

\* When Start returns with an empty queue, nothing has been called.
LEMMA RunStep ==
  DataOK /\ ThreadInv /\ StartInv /\ LogInv /\ RunInv /\ Onwards /\ [Next]_vars => RunInv'
<1>. SUFFICES ASSUME DataOK, ThreadInv, StartInv, LogInv, RunInv, Onwards, [Next]_vars, wait'
              PROVE  RunInv'
  BY DEF RunInv
<1>0. /\ calls \in Seq(Call) /\ handled \in Seq(Call) /\ batch \in Seq(Call) /\ incoming \in Seq(Call)
      /\ Len(handled) \in Nat /\ Len(batch) \in Nat /\ Len(calls) \in Nat
      /\ Len(calls) = Len(handled) + Len(batch) + Len(incoming)
  <2>1. /\ calls \in Seq(Call) /\ handled \in Seq(Call) /\ batch \in Seq(Call) /\ incoming \in Seq(Call)
    BY DEF DataOK
  <2>2. Len(handled \o (batch \o incoming)) = Len(handled) + Len(batch) + Len(incoming)
    BY <2>1, ConcatProperties
  <2>. QED  BY <2>1, <2>2 DEF LogInv, Log, Waiting
<1>1. wait
  BY DEF Next, WorkerRunIO, WriteCbIO, Post, RequestDispatch, NotifyMessageReceived, Accept, StartSession,
         AppendMessage, MessageReceived, ResumeStartup, EndSession, StartReturns, RunTask, RunScript,
         JavaScriptReturns, InterruptCallback, Pause, WaitForDisconnect, Serve, DispatchMessage,
         DispatchAgain, WaitForFrontendMessage, Pumped, LoopEnds, WakeSpuriously, vars
\* Steps that leave the calls alone.
<1>2. ASSUME ~StartReturns, UNCHANGED <<calls, start, waiting>>,
             io = "resumed" => io' = "resumed", io = "ended" => io' = "ended",
             Len(handled') \in Nat, Len(batch') \in Nat, Len(handled') >= Len(handled),
             Len(handled') + Len(batch') >= Len(handled) + Len(batch)
      PROVE  RunInv'
  <2>1. \A i \in 1 .. Len(calls) : Before(calls', i) <=> Before(calls, i)
    BY <1>2 DEF Before
  <2>2. Before(calls', Len(calls')) <=> Before(calls, Len(calls))
    BY <1>2 DEF Before
  <2>3. ASSUME stack'[1] \notin {"start", "exit"}, NEW i \in 1 .. Len(calls), Before(calls, i)
        PROVE  i <= Len(handled') + Len(batch')
    BY <1>0, <1>1, <1>2, <2>3 DEF RunInv, Onwards
  <2>4. ASSUME Settled(stack'), NEW i \in 1 .. Len(calls), Before(calls, i)
        PROVE  i <= Len(handled')
    <3>1. CASE Settled(stack)
      BY <1>0, <1>1, <1>2, <2>4, <3>1 DEF RunInv
    <3>2. CASE ~Settled(stack)
      <4>1. batch = <<>> /\ stack[1] \notin {"start", "exit"}
        BY <1>2, <2>4, <3>2 DEF Onwards, Settled
      <4>2. i <= Len(handled) + Len(batch) /\ Len(batch) = 0
        BY <1>1, <2>4, <4>1 DEF RunInv
      <4>. QED  BY <1>0, <1>2, <4>2
    <3>. QED  BY <3>1, <3>2
  <2>. QED  BY <1>1, <1>2, <2>1, <2>2, <2>3, <2>4 DEF RunInv
<1>3. CASE StartReturns
  <2>1. /\ stack[1] = "start" /\ batch = <<>> /\ ~dispatching /\ start
        /\ UNCHANGED <<start, waiting, io, calls, handled>>
    <3>1. stack[1] = "start" /\ ~Has(stack, D)
      BY <1>3, TopFacts DEF StartReturns, Top, Bottom, ThreadInv
    <3>2. ~dispatching /\ batch = <<>>
      BY <3>1, Zenon DEF ThreadInv
    <3>. QED  BY <1>3, <3>1, <3>2 DEF StartReturns, delegateVars, trigger
  <2>2. Before(calls', Len(calls')) <=> Before(calls, Len(calls))
    BY <2>1 DEF Before
  <2>3. CASE stack' = <<"exit">>
    <3>1. stack'[1] = "exit" /\ ~Settled(stack')
      BY <2>3 DEF Settled
    <3>. QED  BY <1>1, <2>1, <2>2, <3>1 DEF RunInv
  <2>4. CASE CallDispatch(<<"loop">>)
    <3>1. /\ Len(calls) = Len(handled') + Len(batch')
          /\ Settled(stack') => Len(calls) = Len(handled')
      <4>1. CASE incoming = <<>>
        <5>1. Len(incoming) = 0 /\ Len(batch) = 0 /\ UNCHANGED batch
          BY <2>1, <2>4, <4>1 DEF CallDispatch
        <5>. QED  BY <1>0, <2>1, <5>1
      <4>2. CASE incoming # <<>>
        <5>1. stack' = Append(<<"loop">>, "dispatch") /\ batch' = incoming /\ Len(batch) = 0
          BY <2>1, <2>4, <4>2 DEF CallDispatch
        <5>2. ~Settled(stack')
          BY <5>1 DEF Settled
        <5>. QED  BY <1>0, <2>1, <5>1, <5>2
      <4>. QED  BY <4>1, <4>2
    <3>2. \A i \in 1 .. Len(calls') : i <= Len(calls)
      BY <1>0, <2>1
    <3>. QED  BY <1>1, <2>1, <2>2, <3>1, <3>2 DEF RunInv
  <2>. QED  BY <1>1, <1>3, <2>3, <2>4 DEF StartReturns
<1>4. ASSUME NEW m \in Call, AppendMessage(m), UNCHANGED <<start, waiting>>, io # "ended",
             io = "resumed" => m.kind = "run"
      PROVE  RunInv'
  <2>1. /\ calls' = Append(calls, m) /\ io' \in {"trigger", "notify"}
        /\ UNCHANGED <<stack, handled, batch>>
    BY <1>4 DEF AppendMessage, main, engine
  <2>2. /\ Len(calls') = Len(calls) + 1 /\ calls'[Len(calls) + 1] = m
        /\ \A i \in 1 .. Len(calls) : calls'[i] = calls[i]
    <3>1. calls \in Seq(Call) /\ m \in Call
      BY <1>0, <1>4
    <3>2. /\ Len(Append(calls, m)) = Len(calls) + 1 /\ Append(calls, m)[Len(calls) + 1] = m
          /\ \A i \in 1 .. Len(calls) : Append(calls, m)[i] = calls[i]
      BY <3>1, AppendProperties
    <3>. QED  BY <2>1, <3>2
  <2>3. ASSUME NEW i \in 1 .. Len(calls)
        PROVE  Before(calls', i) <=> Before(calls, i)
    <3>1. \A j \in 1 .. i : calls'[j] = calls[j]
      BY <1>0, <2>2
    <3>. QED  BY <3>1 DEF Before
  <2>4. ~waiting => ~Before(calls', Len(calls'))
    <3>1. ASSUME m.kind = "run"
          PROVE  ~Before(calls', Len(calls'))
      BY <1>0, <2>2, <3>1 DEF Before
    <3>2. ASSUME ~Before(calls, Len(calls))
          PROVE  ~Before(calls', Len(calls'))
      BY <1>0, <2>2, <3>2 DEF Before
    <3>. QED  BY <1>1, <1>4, <3>1, <3>2 DEF RunInv
  <2>5. ASSUME start, NEW i \in 1 .. Len(calls'), Before(calls', i)
        PROVE  i \in 1 .. Len(calls) /\ Before(calls, i)
    <3>1. ~waiting
      BY <1>1, <1>4, <2>5 DEF RunInv
    <3>2. i # Len(calls')
      BY <2>4, <2>5, <3>1
    <3>. DEFINE n == Len(calls)
    <3>0. n \in Nat /\ i \in 1 .. n + 1 /\ i # n + 1
      BY <1>0, <2>2, <3>2
    <3>3. i \in 1 .. n
      <4>. HIDE DEF n
      <4>. QED  BY <3>0
    <3>. QED  BY <2>3, <2>5, <3>3
  <2>6. stack[1] \notin {"start", "exit"} \/ Settled(stack) => start
    BY DEF StartInv, Settled
  <2>7. start => ~waiting
    BY <1>1, <1>4 DEF RunInv
  <2>. QED  BY <1>1, <1>4, <2>1, <2>4, <2>5, <2>6, <2>7 DEF RunInv
<1>5. ASSUME NEW id \in Ids, StartSession(id)
      PROVE  RunInv'
  <2>. DEFINE m == [kind |-> "connect", id |-> id]
  <2>1. m \in Call
    BY DEF Call
  <2>2. AppendMessage(m) /\ UNCHANGED <<start, waiting>> /\ io = "idle"
    BY <1>5 DEF StartSession, Idle
  <2>. HIDE DEF m
  <2>. QED  BY <1>4, <2>1, <2>2
<1>6. ASSUME NEW kind \in Kinds, MessageReceived(kind)
      PROVE  RunInv'
  <2>. DEFINE m == [kind |-> kind, id |-> open]
  <2>1. m \in Call /\ m.kind = kind
    BY <1>6 DEF Call, MessageReceived, DataOK
  <2>2. AppendMessage(m) /\ UNCHANGED <<start, waiting>> /\ io = (IF kind = "run" THEN "resumed" ELSE "idle")
    BY <1>6 DEF MessageReceived
  <2>. HIDE DEF m
  <2>. QED  BY <1>4, <2>1, <2>2
<1>7. CASE EndSession
  <2>. DEFINE m == [kind |-> "disconnect", id |-> open]
  <2>1. m \in Call
    BY <1>7 DEF Call, EndSession, DataOK
  <2>2. AppendMessage(m) /\ UNCHANGED <<start, waiting>> /\ io = "idle"
    BY <1>7 DEF EndSession, Idle
  <2>. HIDE DEF m
  <2>. QED  BY <1>4, <2>1, <2>2
\* The thread that starts the program.
<1>8. CASE ResumeStartup \/ WorkerRunIO
  <2>1. /\ UNCHANGED <<calls, stack, handled, batch>>
        /\ start' => ~waiting' \/ io' = "ended"
        /\ ~waiting' => io' = "resumed" \/ UNCHANGED <<waiting, io>> \/ (UNCHANGED waiting /\ io # "resumed")
    BY <1>1, <1>8 DEF ResumeStartup, WorkerRunIO, delegateVars, main, engine
  <2>2. \A i : Before(calls', i) <=> Before(calls, i)
    BY <2>1 DEF Before
  <2>. QED  BY <1>1, <2>1, <2>2 DEF RunInv
<1>. HIDE DEF Next
<1>9. CASE DispatchMessage
  <2>1. /\ batch # <<>> /\ batch' = Tail(batch) /\ handled' = Append(handled, Head(batch))
        /\ UNCHANGED <<calls, start, waiting, io>>
    BY <1>9 DEF DispatchMessage, delegateVars, trigger
  <2>2. Len(batch') = Len(batch) - 1 /\ Len(batch) >= 1 /\ Len(handled') = Len(handled) + 1
    BY <1>0, <2>1
  <2>3. CASE ~StartReturns
    BY <1>0, <1>2, <2>1, <2>2, <2>3
  <2>. QED  BY <1>3, <2>3
<1>10. ASSUME UNCHANGED <<calls, start, waiting, handled>>,
              io' = io \/ io \notin {"resumed", "ended"},
              batch' = batch \/ (batch = <<>> /\ batch' = incoming)
       PROVE  RunInv'
  <2>1. Len(batch') \in Nat /\ Len(batch') >= Len(batch)
    <3>1. Len(<<>>) = 0 /\ Len(incoming) \in Nat
      BY <1>0
    <3>. QED  BY <1>0, <1>10, <3>1
  <2>2. CASE ~StartReturns
    BY <1>0, <1>2, <1>10, <2>1, <2>2
  <2>. QED  BY <1>3, <2>2
<1>11. CASE DispatchAgain
  BY <1>10, <1>11 DEF DispatchAgain, delegateVars, trigger, engine
<1>12. CASE RunTask \/ InterruptCallback
  <2>1. /\ \E s : CallDispatch(s)
        /\ UNCHANGED <<calls, start, waiting, handled, io>>
    BY <1>12 DEF RunTask, InterruptCallback, delegateVars, trigger, engine
  <2>2. batch' = batch \/ (batch = <<>> /\ batch' = incoming)
    BY <2>1 DEF CallDispatch, ThreadInv
  <2>. QED  BY <1>10, <2>1, <2>2
<1>13. CASE RequestDispatch \/ NotifyMessageReceived
  BY <1>10, <1>13 DEF RequestDispatch, NotifyMessageReceived, delegateVars, main, engine
<1>14. CASE Accept \/ WriteCbIO
  BY <1>10, <1>14 DEF Accept, WriteCbIO, delegateVars, trigger, main, engine
<1>15. CASE RunScript \/ JavaScriptReturns
  BY <1>10, <1>15 DEF RunScript, JavaScriptReturns, delegateVars, trigger, engine
<1>16. CASE Pause \/ WaitForDisconnect \/ LoopEnds
  BY <1>10, <1>16 DEF Pause, WaitForDisconnect, LoopEnds, delegateVars, trigger
<1>17. CASE WaitForFrontendMessage \/ WakeSpuriously \/ Pumped
  BY <1>10, <1>17 DEF WaitForFrontendMessage, WakeSpuriously, Pumped, delegateVars, trigger, engine
<1>18. CASE UNCHANGED vars
  <2>1. UNCHANGED <<calls, start, waiting, handled, io, batch>>
    BY <1>18 DEF vars, delegateVars, trigger, main, engine
  <2>. QED  BY <1>10, <2>1
<1>. QED
  BY <1>3, <1>5, <1>6, <1>7, <1>8, <1>9, <1>11, <1>12, <1>13, <1>14, <1>15, <1>16, <1>17, <1>18
  DEF Next, Post, Serve

------------------------------------------------------------------------------
(* Theorems *)

\* The conjunction is inductive: each part needs those before it.
LEMMA Invariance == Spec => []IInv
<1>1. Init => IInv
  BY DataInit, ThreadInit, LogInit, SessionInit, RunInit DEF IInv
<1>2. IInv /\ [Next]_vars => IInv'
  BY DataStep, ThreadStep, LogStep, SessionStep, RunStep DEF IInv
<1>. QED  BY <1>1, <1>2, PTL DEF Spec

\* Every variable of the agent has its type; of tasks, that no more are asked
\* for than the delegate was called.
THEOREM TypeCorrect == Spec => []TypeOK
<1>1. IInv => TypeOK
  <2>. SUFFICES ASSUME IInv
                PROVE  TypeOK
    OBVIOUS
  <2>1. tasks \in 0 .. MaxCalls
    BY NodeAgentAssumption DEF IInv, DataOK
  <2>2. stack \in Seq(Frames)
    BY DEF IInv, ThreadInv, Shape
  <2>. QED  BY <2>1, <2>2 DEF IInv, DataOK, TypeOK
<1>. QED  BY <1>1, Invariance, PTL

\* Every call of the delegate reaches V8 once and in order, and every answer
\* is addressed to the session that asked, for any number of sessions.
THEOREM AlwaysInOrder == Spec => []InOrder
<1>1. IInv /\ TypeOK => InOrder
  <2>. SUFFICES ASSUME IInv, TypeOK
                PROVE  InOrder
    OBVIOUS
  <2>1. (handled \o batch) \o incoming = calls
    <3>1. handled \in Seq(Call) /\ batch \in Seq(Call) /\ incoming \in Seq(Call)
      BY DEF IInv, DataOK
    <3>2. (handled \o batch) \o incoming = handled \o (batch \o incoming)
      BY <3>1, ConcatAssociative
    <3>. QED  BY <3>2 DEF IInv, LogInv, Log, Waiting
  <2>2. DOMAIN outgoing = 1 .. Len(outgoing)
    BY DEF IInv, DataOK
  <2>. QED  BY <2>1, <2>2 DEF IInv, SessionInv, InOrder
<1>. QED  BY <1>1, Invariance, TypeCorrect, PTL

\* The CHECKs of DispatchMessages hold, except when a session starts after the
\* last one has ended in a process that is leaving, and except after a frontend
\* has sent the text of a tag.
THEOREM ChecksAlwaysHold == Spec => []ChecksHold
<1>1. IInv => ChecksHold
  BY DEF IInv, SessionInv
<1>. QED  BY <1>1, Invariance, PTL

\* What the frontend sent before the run has reached V8 when the first script
\* starts, although Start is let go before the run is in the queue.
THEOREM RunAlwaysLast == Spec => []RunComesLast
<1>1. IInv => RunComesLast
  <2>. SUFFICES ASSUME IInv, wait, Running("script")
                PROVE  /\ ~waiting
                       /\ \A i \in DOMAIN calls :
                            (\A j \in 1 .. i : calls[j].kind # "run") => Len(handled) >= i
    BY DEF RunComesLast
  <2>1. Shape(stack) /\ stack \in Seq(Frames)
    BY DEF IInv, ThreadInv, Shape
  <2>2. PICK i \in 1 .. Len(stack) : stack[i] = "script"
    BY <2>1 DEF Running, Contains
  <2>3. i \in 2 .. Len(stack)
    <3>1. stack[1] # "script" /\ Len(stack) \in Nat
      BY <2>1 DEF Shape, Bottom
    <3>. QED  BY <2>2, <3>1
  <2>4. Settled(stack)
    BY <2>1, <2>2, <2>3 DEF Shape, Settled
  <2>5. start /\ io # "ended"
    BY <2>4 DEF IInv, StartInv, Settled
  <2>6. DOMAIN calls = 1 .. Len(calls) /\ handled \in Seq(Call) /\ Len(handled) \in Nat
    BY DEF IInv, DataOK
  <2>. QED  BY <2>4, <2>5, <2>6 DEF IInv, RunInv, Before
<1>. QED  BY <1>1, Invariance, PTL

\* The abstract log, of the calls h that V8 has seen.
Seen(h) == [i \in DOMAIN h |-> V8Sees(h[i])]
Marks   == {"start", "message", "end"} \X Ids

LEMMA SeenOfAppend ==
  ASSUME NEW h \in Seq(Call), NEW m \in Call
  PROVE  Seen(Append(h, m)) = Append(Seen(h), V8Sees(m))
<1>1. ASSUME NEW c \in Call
      PROVE  V8Sees(c) \in Marks
  <2>1. c.id \in Ids
    BY DEF Call
  <2>. QED  BY <2>1 DEF V8Sees, Marks
<1>2. ASSUME NEW q \in Seq(Call)
      PROVE  /\ Seen(q) \in Seq(Marks) /\ Len(Seen(q)) = Len(q)
             /\ \A i \in 1 .. Len(q) : Seen(q)[i] = V8Sees(q[i])
  <2>1. Seen(q) = [i \in 1 .. Len(q) |-> V8Sees(q[i])] /\ Len(q) \in Nat
    BY DEF Seen
  <2>2. \A i \in 1 .. Len(q) : V8Sees(q[i]) \in Marks
    BY <1>1
  <2>. QED  BY <2>1, <2>2
<1>. DEFINE f == Seen(h)
            g == Append(h, m)
            v == V8Sees(m)
<1>3. /\ g \in Seq(Call) /\ Len(g) = Len(h) + 1 /\ Len(h) \in Nat
      /\ \A i \in 1 .. Len(h) : g[i] = h[i]
      /\ g[Len(h) + 1] = m
  OBVIOUS
<1>4. /\ f \in Seq(Marks) /\ Len(f) = Len(h) /\ v \in Marks
      /\ \A i \in 1 .. Len(h) : f[i] = V8Sees(h[i])
  BY <1>1, <1>2
<1>5. /\ Seen(g) \in Seq(Marks) /\ Len(Seen(g)) = Len(h) + 1
      /\ \A i \in 1 .. Len(h) + 1 : Seen(g)[i] = V8Sees(g[i])
  <2>. HIDE DEF g
  <2>. QED  BY <1>2, <1>3
<1>. HIDE DEF f, g, v
<1>6. /\ Append(f, v) \in Seq(Marks) /\ Len(Append(f, v)) = Len(h) + 1
      /\ \A i \in 1 .. Len(h) : Append(f, v)[i] = f[i]
      /\ Append(f, v)[Len(h) + 1] = v
  BY <1>4, AppendProperties
<1>7. ASSUME NEW i \in 1 .. Len(h) + 1
      PROVE  Seen(g)[i] = Append(f, v)[i]
  <2>1. CASE i \in 1 .. Len(h)
    BY <1>3, <1>4, <1>5, <1>6, <2>1
  <2>2. CASE i = Len(h) + 1
    BY <1>3, <1>5, <1>6, <2>2 DEF v
  <2>3. \A n \in Nat : \A j \in 1 .. n + 1 : j \in 1 .. n \/ j = n + 1
    OBVIOUS
  <2>4. i \in 1 .. Len(h) \/ i = Len(h) + 1
    BY <1>3, <2>3, Zenon
  <2>. QED  BY <2>1, <2>2, <2>4, Zenon
<1>8. Seen(g) = Append(f, v)
  BY <1>5, <1>6, <1>7, SeqEqual
<1>. QED  BY <1>8 DEF f, g, v

\* V8, behind the queue, sees what the delegate sees: one session at a time,
\* each with a start, its messages and one end, as long as no CHECK fails and no
\* frontend has sent the text of a tag.
THEOREM V8SeesSessions == Spec => V8SessionsSpec
<1>1. IInv /\ [Next]_vars => [~crashed' /\ ~Forged' => V8Sessions!Next]_<<session, handled>>
  <2>. SUFFICES ASSUME IInv, [Next]_vars, ~crashed', ~Forged', ~UNCHANGED <<session, handled>>
                PROVE  V8Sessions!Next
    OBVIOUS
  <2>1. DispatchMessage
    BY DEF Next, WorkerRunIO, WriteCbIO, Post, RequestDispatch, NotifyMessageReceived, Accept, StartSession,
           AppendMessage, MessageReceived, ResumeStartup, EndSession, StartReturns, RunTask, RunScript,
           JavaScriptReturns, InterruptCallback, Pause, WaitForDisconnect, Serve, DispatchMessage,
           DispatchAgain, WaitForFrontendMessage, Pumped, LoopEnds, WakeSpuriously, vars, main, engine
  <2>. DEFINE m == Head(batch)
  <2>2. /\ ~crashed /\ batch # <<>> /\ handled' = Append(handled, m) /\ handled \in Seq(Call)
    BY <2>1 DEF DispatchMessage, IInv, DataOK
  <2>3. /\ m \in Call /\ m.id \in Ids /\ m.id # None
        /\ m.kind = "connect" =>
             /\ Now(handled) = None
             /\ \A i \in 1 .. Len(handled) : handled[i].kind = "connect" => handled[i].id # m.id
        /\ m.kind # "connect" => Now(handled) = m.id
    BY <2>2, NextInLog, NoneIsNoId DEF IInv
  <2>8. ~Forged /\ m.kind \notin Tags
    BY <2>2, <2>3, ForgedGrows
  <2>9. session = Now(handled)
    BY <2>2, <2>8 DEF IInv, SessionInv
  <2>10. /\ Text(m) = "#connect" => m.kind = "connect"
         /\ Text(m) = "#disconnect" => m.kind = "disconnect"
         /\ Text(m) \notin Tags => m.kind \notin {"connect", "disconnect"}
    BY <2>3, <2>8, Meaning
  <2>. HIDE DEF m
  <2>4. Seen(handled') = Append(Seen(handled), V8Sees(m))
    BY <2>2, <2>3, SeenOfAppend
  <2>5. CASE Connect(m)
    <3>0. Text(m) = "#connect"
      BY <2>5 DEF Connect
    <3>1. m.kind = "connect" /\ session = None /\ session' = m.id
      BY <2>1, <2>2, <2>3, <2>5, <2>9, <2>10, <3>0 DEF Connect
    <3>2. V8Sees(m) = <<"start", m.id>>
      BY <3>0 DEF V8Sees
    <3>3. ASSUME NEW i \in DOMAIN handled, Seen(handled)[i] = <<"start", m.id>>
          PROVE  FALSE
      <4>1. handled[i] \in Call /\ i \in 1 .. Len(handled) /\ Seen(handled)[i] = V8Sees(handled[i])
        BY <2>2, <3>3 DEF Seen
      <4>2. handled[i].kind \notin Tags
        BY <2>2, <2>8, <3>3 DEF Forged
      <4>3. Text(handled[i]) = "#connect" /\ handled[i].id = m.id
        BY <3>3, <4>1 DEF V8Sees
      <4>4. handled[i].kind = "connect" /\ handled[i].id = m.id
        BY <4>1, <4>2, <4>3, Meaning
      <4>. QED  BY <2>3, <3>1, <4>1, <4>4
    <3>4. <<"start", m.id>> \notin {Seen(handled)[i] : i \in DOMAIN Seen(handled)}
      BY <3>3 DEF Seen
    <3>5. V8Sessions!StartSession(m.id)
      BY <2>4, <3>1, <3>2, <3>4 DEF V8Sessions!StartSession, Seen
    <3>. QED  BY <2>3, <3>5 DEF V8Sessions!Next
  <2>6. CASE Disconnect(m)
    <3>0. Text(m) = "#disconnect"
      BY <2>6 DEF Disconnect
    <3>1. m.kind = "disconnect" /\ session = m.id /\ session' = None
      BY <2>2, <2>3, <2>6, <2>9, <2>10, <3>0 DEF Disconnect
    <3>2. V8Sees(m) = <<"end", m.id>>
      BY <3>0 DEF V8Sees
    <3>3. V8Sessions!EndSession(m.id)
      BY <2>4, <3>1, <3>2 DEF V8Sessions!EndSession, Seen
    <3>. QED  BY <2>3, <3>3 DEF V8Sessions!Next
  <2>7. CASE ToFrontendSession(m)
    <3>0. Text(m) \notin Tags
      BY <2>7 DEF ToFrontendSession
    <3>1. m.kind \notin {"connect", "disconnect"} /\ session = m.id /\ session' = session
      BY <2>3, <2>7, <2>9, <2>10, <3>0 DEF ToFrontendSession
    <3>2. V8Sees(m) = <<"message", m.id>>
      BY <3>0 DEF V8Sees, Tags
    <3>3. V8Sessions!MessageReceived(m.id)
      BY <2>4, <3>1, <3>2 DEF V8Sessions!MessageReceived, Seen
    <3>. QED  BY <2>3, <3>3 DEF V8Sessions!Next
  <2>. QED  BY <2>1, <2>5, <2>6, <2>7 DEF DispatchMessage, m
<1>. QED  BY <1>1, Invariance, PTL DEF Spec, V8SessionsSpec

=============================================================================
