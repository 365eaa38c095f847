------------------------ MODULE InspectorSocketProofs ------------------------
(***************************************************************************)
(* Proofs about InspectorSocket, for any clients, any number of items and  *)
(* any cut of the stream into reads.                                       *)
(*                                                                         *)
(* The halves of the items are numbered along the stream.  What has not    *)
(* been read is the end of the stream, and what WsHandler has not decoded  *)
(* comes just before it, so that every item can be placed by how much of   *)
(* the stream has been taken: an event or a post by the half that          *)
(* completed it.                                                           *)
(***************************************************************************)
EXTENDS InspectorSocket, SequenceTheorems, WellFoundedInduction, TLAPS

------------------------------------------------------------------------------
(* Induction along a sequence *)

\* A non-empty set of natural numbers has a least element.
LEMMA LeastNatural ==
  ASSUME NEW S \in SUBSET Nat, S # {}
  PROVE  \E n \in S : \A m \in S : n <= m
<1>1. \E x \in S : \A y \in S : <<y, x>> \notin OpToRel(<, Nat)
  BY NatLessThanWellFounded, WFMin, Zenon
<1>2. \A x, y \in Nat : <<y, x>> \in OpToRel(<, Nat) <=> y < x
  BY DEF OpToRel
<1>. DEFINE R == OpToRel(<, Nat)
<1>. HIDE DEF R
<1>3. \A x \in S : (\A y \in S : <<y, x>> \notin R) => (\A y \in S : x <= y)
  <2>1. \A x, y \in Nat : <<y, x>> \in R <=> y < x
    BY <1>2 DEF R
  <2>2. ASSUME NEW x \in S, NEW y \in S, <<y, x>> \notin R
        PROVE  x <= y
    <3>1. ~(y < x)
      BY <2>1, <2>2, Zenon
    <3>. QED  BY <3>1
  <2>. QED  BY <2>2, Zenon
<1>. QED  BY <1>1, <1>3, Zenon DEF R

\* Induction along a sequence, with a set in place of a predicate: what holds
\* before the first entry and is kept by each holds after the last (the parser
\* of inspector_socket.cc:561, which is fed one half of an item after another).
LEMMA InductionTo ==
  ASSUME NEW N \in Nat, NEW S, 0 \in S,
         \A n \in 0 .. N - 1 : n \in S => n + 1 \in S
  PROVE  \A n \in 0 .. N : n \in S
<1>. SUFFICES ASSUME NEW n \in 0 .. N, n \notin S
              PROVE  FALSE
  OBVIOUS
<1>. DEFINE Out == {m \in 0 .. N : m \notin S}
<1>1. Out \in SUBSET Nat /\ Out # {}
  OBVIOUS
<1>2. PICK m \in Out : \A k \in Out : m <= k
  BY <1>1, LeastNatural
<1>3. m - 1 \in 0 .. N - 1 /\ m - 1 \notin Out /\ (m - 1) + 1 = m
  BY <1>2
<1>. QED  BY <1>2, <1>3

------------------------------------------------------------------------------
(* The parser *)

Parsers ==
  [begun : Items \cup {NoRequest}, failed : BOOLEAN, complete : Seq(Items), paused : BOOLEAN]

\* The parser before the first half of a read.
Before ==
  [begun |-> parser.begun, failed |-> parser.failed, complete |-> <<>>, paused |-> FALSE]

\* The recursion that defines Parse has a solution: Parse is what one gets by
\* taking the halves one by one.
LEMMA ParseSteps ==
  ASSUME NEW data \in Seq(Half)
  PROVE  \E p : /\ p[0] = Before
                /\ \A n \in 1 .. Len(data) : p[n] = ParseHalf(p[n - 1], data[n])
                /\ Parse(data) = p[Len(data)]
<1>. DEFINE N == Len(data)
            After(g, n)  == IF n = 0 THEN Before ELSE ParseHalf(g[n - 1], data[n])
            Solves(g, m) == g = [n \in 0 .. m |-> After(g, n)]
            S == {m \in 0 .. N : \E g : Solves(g, m)}
<1>1. N \in Nat
  OBVIOUS
<1>2. 0 \in S
  <2>1. Solves([n \in 0 .. 0 |-> Before], 0)
    OBVIOUS
  <2>2. \E g : Solves(g, 0)
    BY <2>1
  <2>3. 0 \in 0 .. N
    BY <1>1
  <2>. QED  BY <2>2, <2>3
<1>3. ASSUME NEW m \in 0 .. N - 1, m \in S
      PROVE  m + 1 \in S
  <2>1. PICK g : Solves(g, m)
    BY <1>3
  <2>. DEFINE h == [n \in 0 .. m + 1 |-> IF n = m + 1 THEN ParseHalf(g[m], data[m + 1]) ELSE g[n]]
  <2>2. \A n \in 0 .. m : h[n] = g[n] /\ g[n] = After(g, n)
    BY <1>1, <2>1
  <2>3. ASSUME NEW n \in 0 .. m + 1
        PROVE  h[n] = After(h, n)
    <3>1. CASE n = m + 1
      <4>1. h[n] = ParseHalf(g[m], data[m + 1]) /\ n - 1 = m /\ m \in 0 .. m /\ n # 0
        BY <1>1, <3>1
      <4>2. h[n - 1] = g[m]
        BY <2>2, <4>1
      <4>. QED  BY <3>1, <4>1, <4>2
    <3>2. CASE n = 0
      <4>1. 0 \in 0 .. m
        BY <1>1
      <4>. QED  BY <2>2, <3>2, <4>1
    <3>3. CASE n \in 1 .. m
      <4>1. n \in 0 .. m /\ n - 1 \in 0 .. m /\ n # 0
        BY <1>1, <3>3
      <4>. QED  BY <2>2, <4>1
    <3>. QED  BY <1>1, <3>1, <3>2, <3>3
  <2>4. Solves(h, m + 1)
    BY <2>3
  <2>5. m + 1 \in 0 .. N
    BY <1>1
  <2>. QED  BY <2>4, <2>5
<1>4. \E g : Solves(g, N)
  <2>1. \A m \in 0 .. N - 1 : m \in S => m + 1 \in S
    BY <1>3
  <2>. HIDE DEF S
  <2>2. \A m \in 0 .. N : m \in S
    BY <1>1, <1>2, <2>1, InductionTo
  <2>3. N \in S
    BY <1>1, <2>2
  <2>. QED  BY <2>3 DEF S
<1>. DEFINE p == CHOOSE g : Solves(g, N)
<1>5. Parse(data) = p[N]
  BY DEF Parse, Before
<1>6. Solves(p, N)
  BY <1>4
<1>. HIDE DEF p
<1>7. p[0] = Before
  BY <1>1, <1>6
<1>8. ASSUME NEW n \in 1 .. N
      PROVE  p[n] = ParseHalf(p[n - 1], data[n])
  BY <1>1, <1>6
<1>. QED  BY <1>5, <1>7, <1>8

\* Where a half is in the stream.
Place(x) == 2 * x.item + x.half - 2

\* Requests after which the parser pauses.
Upgrading == {"nokey", "upgrade"}

\* What the parser has found when it has taken R halves of the stream: whole
\* requests, in order, with one for an upgrade only at the end.
Found(p, R) ==
  /\ p \in Parsers
  /\ \A i \in 1 .. Len(p.complete) :
       /\ 2 * p.complete[i] <= R
       /\ \A j \in 1 .. i - 1 : p.complete[j] < p.complete[i]
       /\ sent[p.complete[i]] \in Upgrading => i = Len(p.complete) /\ p.paused

\* The requests of a well-behaved client before the upgrade.
Courteous ==
  \A i \in 1 .. Len(sent) : /\ sent[i] \in {"get", "stray", "upgrade"}
                            /\ sent[i] = "upgrade" => i = Len(sent)

\* What it has found of those, b of them having been found in earlier reads.
FoundAll(p, R, b) ==
  /\ ~p.failed
  /\ p.begun = IF R % 2 = 0 THEN NoRequest ELSE (R + 1) \div 2
  /\ p.paused => R = 2 * Len(sent)
  /\ b + Len(p.complete) = R \div 2
  /\ \A i \in 1 .. Len(p.complete) : p.complete[i] = b + i

\* One half: what it can do to the parser.
LEMMA ParseHalfCases ==
  ASSUME NEW p \in Parsers, NEW x \in Half
  PROVE  LET q == ParseHalf(p, x)
         IN  /\ q \in Parsers
             /\ \/ q = p /\ (p.failed \/ p.paused)
                \/ /\ ~p.failed /\ ~p.paused
                   /\ x.half = 1 /\ p.begun = NoRequest /\ Kind(x) \in Requests
                   /\ q.begun = x.item /\ ~q.failed /\ ~q.paused /\ q.complete = p.complete
                \/ /\ ~p.failed /\ ~p.paused
                   /\ x.half = 2 /\ p.begun = x.item
                   /\ q.begun = NoRequest /\ ~q.failed
                   /\ q.complete = Append(p.complete, x.item)
                   /\ q.paused = (Kind(x) \in Upgrading)
                \/ /\ ~p.failed /\ ~p.paused
                   /\ ~(x.half = 1 /\ p.begun = NoRequest /\ Kind(x) \in Requests)
                   /\ ~(x.half = 2 /\ p.begun = x.item)
                   /\ q.failed /\ q.begun = p.begun /\ q.paused = p.paused /\ q.complete = p.complete
<1>. DEFINE q == ParseHalf(p, x)
<1>1. x.item \in Items /\ x.half \in {1, 2}
  BY DEF Half
<1>2. /\ p.begun \in Items \cup {NoRequest} /\ p.failed \in BOOLEAN
      /\ p.complete \in Seq(Items) /\ p.paused \in BOOLEAN
  BY DEF Parsers
<1>3. CASE p.failed \/ p.paused
  BY <1>3 DEF ParseHalf
<1>4. CASE ~p.failed /\ ~p.paused /\ x.half = 1 /\ p.begun = NoRequest /\ Kind(x) \in Requests
  <2>1. q = [p EXCEPT !.begun = x.item]
    BY <1>4 DEF ParseHalf
  <2>. QED  BY <1>1, <1>2, <1>4, <2>1 DEF Parsers
<1>5. CASE ~p.failed /\ ~p.paused /\ x.half = 2 /\ p.begun = x.item
  <2>1. q = [p EXCEPT !.begun = NoRequest, !.complete = Append(p.complete, x.item),
                      !.paused = Kind(x) \in Upgrading]
    BY <1>5 DEF ParseHalf, Upgrading
  <2>2. Append(p.complete, x.item) \in Seq(Items)
    BY <1>1, <1>2
  <2>3. /\ q.begun = NoRequest /\ q.failed = p.failed
        /\ q.complete = Append(p.complete, x.item)
        /\ q.paused = (Kind(x) \in Upgrading)
    BY <2>1 DEF Parsers
  <2>4. q \in Parsers
    <3>. DEFINE u == Kind(x) \in Upgrading
    <3>1. u \in BOOLEAN
      OBVIOUS
    <3>2. q = [p EXCEPT !.begun = NoRequest, !.complete = Append(p.complete, x.item), !.paused = u]
      BY <2>1
    <3>. HIDE DEF u
    <3>. QED  BY <1>2, <2>2, <3>1, <3>2 DEF Parsers
  <2>. QED  BY <1>5, <2>3, <2>4, Zenon
<1>6. CASE /\ ~p.failed /\ ~p.paused
           /\ ~(x.half = 1 /\ p.begun = NoRequest /\ Kind(x) \in Requests)
           /\ ~(x.half = 2 /\ p.begun = x.item)
  <2>1. q = [p EXCEPT !.failed = TRUE]
    BY <1>6 DEF ParseHalf
  <2>. QED  BY <1>1, <1>2, <1>6, <2>1 DEF Parsers
<1>. QED  BY <1>3, <1>4, <1>5, <1>6

\* A further half keeps the requests in order and an upgrade last.
LEMMA FoundStep ==
  ASSUME NEW R \in Nat, NEW p, Found(p, R), NEW x \in Half, Place(x) = R + 1
  PROVE  Found(ParseHalf(p, x), R + 1)
<1>. DEFINE q == ParseHalf(p, x)
            c == p.complete
<1>1. /\ p \in Parsers /\ c \in Seq(Items) /\ Len(c) \in Nat
      /\ \A i \in 1 .. Len(c) : c[i] \in Items
  BY DEF Found, Parsers
<1>2. \A i \in 1 .. Len(c) :
        /\ 2 * c[i] <= R
        /\ \A j \in 1 .. i - 1 : c[j] < c[i]
        /\ sent[c[i]] \in Upgrading => i = Len(c) /\ p.paused
  BY DEF Found
<1>3. x.item \in Nat /\ x.half \in {1, 2} /\ x.item \in Items
  BY DEF Half, Items
<1>4. q \in Parsers
  BY <1>1, ParseHalfCases
<1>5. CASE q.complete = c /\ (q.paused \/ ~p.paused)
  <2>1. \A i \in 1 .. Len(c) : 2 * c[i] <= R + 1
    BY <1>1, <1>2 DEF Items
  <2>. QED  BY <1>2, <1>4, <1>5, <2>1 DEF Found
<1>6. CASE /\ ~p.paused /\ x.half = 2 /\ q.complete = Append(c, x.item)
           /\ q.paused = (Kind(x) \in Upgrading)
  <2>1. 2 * x.item = R + 1
    BY <1>3, <1>6 DEF Place
  <2>2. ASSUME NEW i \in 1 .. Len(c) + 1
        PROVE  /\ 2 * q.complete[i] <= R + 1
               /\ \A j \in 1 .. i - 1 : q.complete[j] < q.complete[i]
               /\ sent[q.complete[i]] \in Upgrading => i = Len(c) + 1 /\ q.paused
    <3>1. CASE i \in 1 .. Len(c)
      <4>1. q.complete[i] = c[i] /\ \A j \in 1 .. i - 1 : q.complete[j] = c[j]
        BY <1>1, <1>3, <1>6, <3>1
      <4>. QED  BY <1>1, <1>2, <1>6, <3>1, <4>1 DEF Items
    <3>2. CASE i = Len(c) + 1
      <4>1. q.complete[i] = x.item /\ \A j \in 1 .. Len(c) : q.complete[j] = c[j]
        BY <1>1, <1>3, <1>6, <3>2
      <4>2. \A j \in 1 .. Len(c) : c[j] < x.item
        BY <1>1, <1>2, <1>3, <2>1 DEF Items
      <4>3. \A j \in 1 .. i - 1 : q.complete[j] < q.complete[i]
        BY <1>1, <3>2, <4>1, <4>2
      <4>4. sent[q.complete[i]] \in Upgrading => q.paused
        BY <1>6, <4>1 DEF Kind
      <4>. QED  BY <2>1, <3>2, <4>1, <4>3, <4>4
    <3>. QED  BY <1>1, <3>1, <3>2
  <2>3. Len(q.complete) = Len(c) + 1
    BY <1>1, <1>3, <1>6
  <2>. QED  BY <1>4, <2>2, <2>3 DEF Found
<1>. QED  BY <1>1, <1>5, <1>6, ParseHalfCases

\* A further half of a well-behaved client's requests is no error, and
\* completes the next one or begins one.
LEMMA FoundAllStep ==
  ASSUME NEW R \in Nat, NEW b \in Nat, NEW p \in Parsers, FoundAll(p, R, b),
         NEW x \in Half, Place(x) = R + 1, R < 2 * Len(sent), sent \in Seq(Kinds), Courteous
  PROVE  FoundAll(ParseHalf(p, x), R + 1, b)
<1>. DEFINE q == ParseHalf(p, x)
            c == p.complete
<1>1. /\ c \in Seq(Items) /\ Len(c) \in Nat /\ Len(sent) \in Nat
      /\ \A i \in 1 .. Len(c) : c[i] \in Items
  BY DEF Parsers
<1>2. /\ ~p.failed /\ ~p.paused
      /\ p.begun = IF R % 2 = 0 THEN NoRequest ELSE (R + 1) \div 2
      /\ b + Len(c) = R \div 2
      /\ \A i \in 1 .. Len(c) : c[i] = b + i
  BY <1>1 DEF FoundAll
<1>3. x.item \in Nat /\ x.item >= 1 /\ x.half \in {1, 2} /\ x.item \in Items
  BY DEF Half, Items
<1>4. x.item \in 1 .. Len(sent) /\ Kind(x) \in {"get", "stray", "upgrade"}
      /\ (Kind(x) = "upgrade" => x.item = Len(sent))
  <2>1. x.item <= Len(sent)
    BY <1>1, <1>3 DEF Place
  <2>. QED  BY <1>1, <1>3, <2>1 DEF Kind, Courteous
<1>5. CASE x.half = 1
  <2>1. R % 2 = 0 /\ (R + 1) % 2 = 1 /\ (R + 1) \div 2 = R \div 2 /\ x.item = (R + 2) \div 2
    BY <1>3, <1>5 DEF Place
  <2>2. /\ ~q.failed /\ ~q.paused /\ q.begun = x.item /\ q.complete = c
    BY <1>2, <1>4, <1>5, <2>1, ParseHalfCases DEF Requests
  <2>. QED  BY <1>2, <2>1, <2>2 DEF FoundAll
<1>6. CASE x.half = 2
  <2>1. R % 2 = 1 /\ (R + 1) % 2 = 0 /\ x.item = (R + 1) \div 2 /\ (R + 1) \div 2 = R \div 2 + 1
        /\ 2 * x.item = R + 1
    BY <1>3, <1>6 DEF Place
  <2>2. /\ ~q.failed /\ q.paused = (Kind(x) \in Upgrading) /\ q.begun = NoRequest
        /\ q.complete = Append(c, x.item)
    BY <1>2, <1>6, <2>1, ParseHalfCases
  <2>7. x.item = b + (Len(c) + 1) /\ (R + 1) \div 2 = b + (Len(c) + 1)
    <3>. DEFINE h == R \div 2
                n == Len(c)
    <3>3. h \in Nat
      OBVIOUS
    <3>4. n \in Nat /\ b + n = h
      BY <1>1, <1>2
    <3>5. x.item = h + 1 /\ (R + 1) \div 2 = h + 1
      BY <2>1
    <3>1. h \in Nat /\ n \in Nat /\ x.item = h + 1 /\ b + n = h /\ (R + 1) \div 2 = h + 1
      BY <3>3, <3>4, <3>5, Zenon
    <3>. HIDE DEF h, n
    <3>2. h + 1 = b + (n + 1)
      BY <3>1
    <3>. QED  BY <3>1, <3>2, Zenon DEF n
  <2>3. q.paused => R + 1 = 2 * Len(sent)
    BY <1>1, <1>3, <1>4, <2>1, <2>2 DEF Upgrading
  <2>4. Len(q.complete) = Len(c) + 1
    BY <1>1, <1>3, <2>2
  <2>5. ASSUME NEW i \in 1 .. Len(c) + 1
        PROVE  q.complete[i] = b + i
    <3>1. CASE i \in 1 .. Len(c)
      BY <1>1, <1>2, <1>3, <2>2, <3>1
    <3>2. CASE i = Len(c) + 1
      <4>1. q.complete[i] = x.item
        BY <1>1, <1>3, <2>2, <3>2
      <4>. QED  BY <2>7, <3>2, <4>1, Zenon
    <3>. QED  BY <1>1, <3>1, <3>2
  <2>6. b + Len(q.complete) = (R + 1) \div 2
    BY <2>4, <2>7, Zenon
  <2>. QED  BY <2>1, <2>2, <2>3, <2>4, <2>5, <2>6 DEF FoundAll
<1>. QED  BY <1>3, <1>5, <1>6

\* What a read hands to the parser leaves what Found says.
LEMMA ParseFound ==
  ASSUME parser \in [begun : Items \cup {NoRequest}, failed : BOOLEAN],
         NEW R \in Nat, NEW data \in Seq(Half),
         \A n \in 1 .. Len(data) : Place(data[n]) = R + n
  PROVE  Found(Parse(data), R + Len(data))
<1>. DEFINE N == Len(data)
<1>1. N \in Nat /\ \A n \in 1 .. N : data[n] \in Half
  OBVIOUS
<1>2. PICK p : /\ p[0] = Before
               /\ \A n \in 1 .. N : p[n] = ParseHalf(p[n - 1], data[n])
               /\ Parse(data) = p[N]
  BY ParseSteps
<1>. DEFINE S == {n \in 0 .. N : Found(p[n], R + n)}
<1>3. 0 \in S
  <2>1. Before \in Parsers /\ Len(Before.complete) = 0
    BY DEF Before, Parsers
  <2>2. Found(Before, R)
    BY <2>1 DEF Found
  <2>. QED  BY <1>1, <1>2, <2>2
<1>4. ASSUME NEW n \in 0 .. N - 1, n \in S
      PROVE  n + 1 \in S
  <2>1. n + 1 \in 1 .. N /\ (n + 1) - 1 = n /\ R + n \in Nat /\ (R + n) + 1 = R + (n + 1)
        /\ n + 1 \in 0 .. N
    BY <1>1
  <2>2. Place(data[n + 1]) = (R + n) + 1 /\ data[n + 1] \in Half
    BY <1>1, <2>1
  <2>3. p[n + 1] = ParseHalf(p[n], data[n + 1])
    BY <1>2, <2>1
  <2>4. Found(p[n + 1], (R + n) + 1)
    BY <1>4, <2>1, <2>2, <2>3, FoundStep
  <2>. QED  BY <2>1, <2>4
<1>5. \A n \in 0 .. N - 1 : n \in S => n + 1 \in S
  BY <1>4
<1>. HIDE DEF S
<1>6. \A n \in 0 .. N : n \in S
  BY <1>1, <1>3, <1>5, InductionTo
<1>7. N \in S
  BY <1>1, <1>6
<1>. QED  BY <1>2, <1>7 DEF S

\* And of a well-behaved client's requests what FoundAll says.
LEMMA ParseFoundAll ==
  ASSUME parser \in [begun : Items \cup {NoRequest}, failed : BOOLEAN],
         sent \in Seq(Kinds), Courteous,
         NEW R \in Nat, NEW b \in Nat, NEW data \in Seq(Half),
         \A n \in 1 .. Len(data) : Place(data[n]) = R + n,
         R + Len(data) <= 2 * Len(sent),
         FoundAll(Before, R, b)
  PROVE  FoundAll(Parse(data), R + Len(data), b)
<1>. DEFINE N == Len(data)
<1>1. N \in Nat /\ (\A n \in 1 .. N : data[n] \in Half) /\ Len(sent) \in Nat
  OBVIOUS
<1>2. PICK p : /\ p[0] = Before
               /\ \A n \in 1 .. N : p[n] = ParseHalf(p[n - 1], data[n])
               /\ Parse(data) = p[N]
  BY ParseSteps
<1>. DEFINE S == {n \in 0 .. N : p[n] \in Parsers /\ FoundAll(p[n], R + n, b)}
<1>3. 0 \in S
  <2>1. Before \in Parsers
    BY DEF Before, Parsers
  <2>. QED  BY <1>1, <1>2, <2>1
<1>4. ASSUME NEW n \in 0 .. N - 1, n \in S
      PROVE  n + 1 \in S
  <2>1. n + 1 \in 1 .. N /\ (n + 1) - 1 = n /\ R + n \in Nat /\ (R + n) + 1 = R + (n + 1)
        /\ n + 1 \in 0 .. N /\ R + n < 2 * Len(sent)
    BY <1>1
  <2>2. Place(data[n + 1]) = (R + n) + 1 /\ data[n + 1] \in Half
    BY <1>1, <2>1
  <2>3. p[n + 1] = ParseHalf(p[n], data[n + 1])
    BY <1>2, <2>1
  <2>4. p[n] \in Parsers /\ FoundAll(p[n], R + n, b)
    BY <1>4
  <2>5. FoundAll(p[n + 1], (R + n) + 1, b)
    BY <2>1, <2>2, <2>3, <2>4, FoundAllStep
  <2>6. p[n + 1] \in Parsers
    BY <2>2, <2>3, <2>4, ParseHalfCases
  <2>. QED  BY <2>1, <2>5, <2>6
<1>5. \A n \in 0 .. N - 1 : n \in S => n + 1 \in S
  BY <1>4
<1>. HIDE DEF S
<1>6. \A n \in 0 .. N : n \in S
  BY <1>1, <1>3, <1>5, InductionTo
<1>7. N \in S
  BY <1>1, <1>6
<1>. QED  BY <1>2, <1>7 DEF S

------------------------------------------------------------------------------
(* The inductive invariant *)

\* How many halves have been read.
Taken == 2 * Len(sent) - Len(net)

\* The rest of the stream, and before it what WsHandler has not decoded.
StreamInv ==
  /\ Len(buf) <= Taken
  /\ \A i \in 1 .. Len(net) : Place(net[i]) = Taken + i
  /\ \A i \in 1 .. Len(buf) : Place(buf[i]) = Taken - Len(buf) + i

\* Replies, the one 101, and then the session's traffic.
Handshaken(o) ==
  \E u \in 1 .. Len(o) :
    /\ o[u] = "101"
    /\ \A i \in 1 .. u - 1 : o[i] \in {"200", "400"}
    /\ \A i \in u + 1 .. Len(o) : o[i] \in {"message", "close"}

\* Which of the two handlers there is shows in everything else.
PhaseInv ==
  /\ handler = "http" => /\ buf = <<>> /\ posts = <<>> /\ tcp
                         /\ \A i \in 1 .. Len(out) : out[i] \in {"200", "400"}
  /\ handler = "ws" => events = <<>> /\ posts # <<>> /\ Handshaken(out)

\* The events of a read are in order, with an upgrade only at the end.
EventsInv ==
  \A i \in 1 .. Len(events) :
    /\ 2 * events[i] <= Taken
    /\ \A j \in 1 .. i - 1 : events[j] < events[i]
    /\ sent[events[i]] \in Upgrading => i = Len(events)

\* What was posted is the upgrade, frames or junk, in order, and was decoded.
PostsInv ==
  \A i \in 1 .. Len(posts) : posts[i] # Junk =>
    /\ 2 * posts[i] <= Taken - Len(buf)
    /\ sent[posts[i]] = IF i = 1 THEN "upgrade" ELSE "text"
    /\ \A j \in 1 .. i - 1 : posts[j] < posts[i]

\* Without a cut, WsHandler meets whole items only.
CutInv ==
  /\ DiesOfCutResetOrGarble
  /\ ~cut /\ handler = "ws" => Taken % 2 = 0 /\ Len(buf) % 2 = 0
  /\ ~cut => \A i \in 1 .. Len(events) : sent[events[i]] = "upgrade" => Taken % 2 = 0

\* Of a well-behaved client's requests, those completed are answered or events,
\* and the next one is begun if half of it was read.
PoliteInv ==
  ~rude /\ handler = "http" =>
    /\ Courteous
    /\ ~parser.failed
    /\ parser.begun = IF Taken % 2 = 0 THEN NoRequest ELSE (Taken + 1) \div 2
    /\ Len(out) + Len(events) = Taken \div 2
    /\ \A i \in 1 .. Len(events) : events[i] = Len(out) + i

IInv ==
  /\ TypeOK /\ StreamInv /\ PhaseInv /\ EventsInv /\ PostsInv
  /\ CutInv /\ PoliteInv /\ AnsweredInOrder

------------------------------------------------------------------------------
(* Steps *)

LEMMA Lengths ==
  ASSUME TypeOK
  PROVE  /\ Len(sent) \in Nat /\ Len(net) \in Nat /\ Len(events) \in Nat
         /\ Len(buf) \in Nat /\ Len(out) \in Nat /\ Len(posts) \in Nat
         /\ Taken \in Int
         /\ \A i \in 1 .. Len(net) : net[i] \in Half
         /\ \A i \in 1 .. Len(buf) : buf[i] \in Half
         /\ \A i \in 1 .. Len(events) : events[i] \in Items
         /\ \A i \in 1 .. Len(posts) : posts[i] \in Items \cup {Junk}
BY DEF TypeOK, Taken

LEMMA InitInv == Init => IInv
<1>. SUFFICES ASSUME Init PROVE IInv
  OBVIOUS
<1>1. /\ sent = <<>> /\ net = <<>> /\ events = <<>> /\ buf = <<>> /\ out = <<>> /\ posts = <<>>
      /\ handler = "http" /\ tcp /\ ~cut /\ ~crashed /\ ~rude
      /\ parser = [begun |-> NoRequest, failed |-> FALSE]
  BY DEF Init
<1>2. TypeOK
  <2>1. parser \in [begun : Items \cup {NoRequest}, failed : BOOLEAN]
    BY <1>1
  <2>2. 0 <= MaxItems
    BY ConstantsAssumption
  <2>3. /\ sent \in Seq(Kinds) /\ Len(sent) = 0 /\ net \in Seq(Half) /\ events \in Seq(Items)
        /\ buf \in Seq(Half) /\ out \in Seq(Replies \cup {"message", "close"})
        /\ posts \in Seq(Items \cup {Junk})
    BY <1>1
  <2>4. /\ handler \in {"http", "ws"}
        /\ tcp \in BOOLEAN /\ rude \in BOOLEAN /\ cut \in BOOLEAN /\ crashed \in BOOLEAN
    BY DEF Init
  <2>. QED  BY <2>1, <2>2, <2>3, <2>4 DEF TypeOK
<1>3. Taken = 0
  BY <1>1 DEF Taken
<1>4. PoliteInv
  BY <1>1, <1>3 DEF PoliteInv, Courteous
<1>. QED  BY <1>1, <1>2, <1>3, <1>4
          DEF IInv, StreamInv, PhaseInv, EventsInv, PostsInv, CutInv, DiesOfCutResetOrGarble, AnsweredInOrder

\* An item is sent: nothing is read, and the stream becomes two halves longer.
LEMMA ClientSendsStep ==
  ASSUME IInv, NEW k \in Kinds, ClientSends(k)
  PROVE  IInv'
<1>. DEFINE new == Len(sent) + 1
            one == [item |-> new, half |-> 1]
            two == [item |-> new, half |-> 2]
<1>1. /\ sent' = Append(sent, k) /\ net' = net \o <<one, two>> /\ Len(sent) < MaxItems
      /\ ~crashed /\ rude' = (rude \/ ~Proper(k))
      /\ UNCHANGED <<handler, tcp, parser, events, buf, out, posts, cut, crashed>>
  BY DEF ClientSends
<1>2. TypeOK /\ Len(sent) \in Nat /\ Len(net) \in Nat /\ Len(buf) \in Nat /\ Len(out) \in Nat
  BY Lengths DEF IInv
<1>3. /\ sent' \in Seq(Kinds) /\ Len(sent') = Len(sent) + 1
      /\ \A i \in 1 .. Len(sent) : sent'[i] = sent[i]
      /\ sent'[new] = k
  BY <1>1, <1>2 DEF TypeOK
<1>4. one \in Half /\ two \in Half
  BY <1>1, <1>2, ConstantsAssumption DEF Half, Items
<1>5. /\ net' \in Seq(Half) /\ Len(net') = Len(net) + 2
      /\ \A i \in 1 .. Len(net) : net'[i] = net[i]
      /\ net'[Len(net) + 1] = one /\ net'[Len(net) + 2] = two
  <2>1. net \in Seq(Half) /\ <<one, two>> \in Seq(Half) /\ Len(<<one, two>>) = 2
    BY <1>2, <1>4 DEF TypeOK
  <2>. QED  BY <1>1, <1>2, <2>1, ConcatProperties
<1>6. Taken' = Taken
  BY <1>2, <1>3, <1>5 DEF Taken
<1>7. TypeOK'
  BY <1>1, <1>2, <1>3, <1>5, ConstantsAssumption DEF TypeOK
<1>8. StreamInv'
  <2>1. ASSUME NEW i \in 1 .. Len(net) + 2
        PROVE  Place(net'[i]) = Taken + i
    <3>1. CASE i \in 1 .. Len(net)
      BY <1>5, <3>1 DEF IInv, StreamInv
    <3>2. CASE i = Len(net) + 1
      BY <1>2, <1>5, <3>2 DEF Place, Taken
    <3>3. CASE i = Len(net) + 2
      BY <1>2, <1>5, <3>3 DEF Place, Taken
    <3>. QED  BY <1>2, <3>1, <3>2, <3>3
  <2>. QED  BY <1>1, <1>5, <1>6, <2>1 DEF IInv, StreamInv, Place
<1>9. PhaseInv'
  BY <1>1 DEF IInv, PhaseInv, Handshaken
<1>10. \A n \in Int : 2 * n <= Taken => n <= Len(sent)
  BY <1>2 DEF Taken
<1>11. EventsInv'
  <2>1. \A i \in 1 .. Len(events) : events[i] \in 1 .. Len(sent)
    BY <1>2, <1>10, Lengths DEF IInv, EventsInv, Items
  <2>. QED  BY <1>1, <1>3, <1>6, <2>1 DEF IInv, EventsInv
<1>12. PostsInv'
  <2>1. \A i \in 1 .. Len(posts) : posts[i] # Junk => posts[i] \in 1 .. Len(sent)
    <3>1. ASSUME NEW i \in 1 .. Len(posts), posts[i] # Junk
          PROVE  posts[i] \in 1 .. Len(sent)
      <4>1. posts[i] \in Items /\ 2 * posts[i] <= Taken - Len(buf)
        BY <1>2, <3>1, Lengths DEF IInv, PostsInv
      <4>. QED  BY <1>2, <1>10, <4>1, Lengths DEF Items
    <3>. QED  BY <3>1
  <2>. QED  BY <1>1, <1>3, <1>6, <2>1 DEF IInv, PostsInv
<1>13. CutInv'
  <2>1. \A i \in 1 .. Len(events) : events[i] \in 1 .. Len(sent)
    BY <1>2, <1>10, Lengths DEF IInv, EventsInv, Items
  <2>. QED  BY <1>1, <1>3, <1>6, <2>1 DEF IInv, CutInv, DiesOfCutResetOrGarble
<1>14. PoliteInv'
  <2>. SUFFICES ASSUME ~rude', handler' = "http"
                PROVE  PoliteInv'
    BY DEF PoliteInv
  <2>1. ~rude /\ handler = "http" /\ Proper(k)
    BY <1>1
  <2>2. k \in {"get", "stray", "upgrade"} /\ ~Contains(sent, "upgrade")
    BY <2>1 DEF Proper, Contains, IInv, PhaseInv
  <2>3. Courteous'
    BY <1>2, <1>3, <2>1, <2>2 DEF IInv, PoliteInv, Courteous, Contains
  <2>. QED  BY <1>1, <1>6, <2>1, <2>3 DEF IInv, PoliteInv
<1>15. AnsweredInOrder'
  <2>. SUFFICES ASSUME ~rude', NEW i \in 1 .. Len(out), out[i] \in Replies
                PROVE  i <= Len(sent') /\ sent'[i] \in Requests /\ out[i] = Answer(sent'[i])
    BY <1>1 DEF AnsweredInOrder
  <2>1. i <= Len(sent) /\ sent[i] \in Requests /\ out[i] = Answer(sent[i])
    BY <1>1 DEF IInv, AnsweredInOrder
  <2>2. i \in 1 .. Len(sent)
    BY <1>2, <2>1
  <2>. QED  BY <1>2, <1>3, <2>1, <2>2
<1>. QED  BY <1>7, <1>8, <1>9, <1>11, <1>12, <1>13, <1>14, <1>15 DEF IInv

\* What a read takes is the next part of the stream.
LEMMA ReadFacts ==
  ASSUME IInv, NEW data \in Reads, Read(data), UNCHANGED sent
  PROVE  /\ data \in Seq(Half) /\ Len(data) \in 1 .. Len(net)
         /\ \A i \in 1 .. Len(data) : data[i] \in Half /\ Place(data[i]) = Taken + i
         /\ Last(data) = data[Len(data)]
         /\ net' \in Seq(Half) /\ Len(net') = Len(net) - Len(data)
         /\ Taken \in Nat /\ Taken' = Taken + Len(data)
         /\ \A i \in 1 .. Len(net') : Place(net'[i]) = Taken' + i
         /\ events = <<>> /\ buf = <<>> /\ Len(buf) = 0 /\ ~crashed
<1>1. PICK n \in 1 .. Len(net) : data = SubSeq(net, 1, n)
  BY DEF Reads
<1>2. TypeOK /\ net \in Seq(Half) /\ Len(net) \in Nat /\ Taken \in Int /\ Len(sent) \in Nat
  BY Lengths DEF IInv, TypeOK
<1>3. /\ data \in Seq(Half) /\ Len(data) = n
      /\ \A i \in 1 .. n : data[i] = net[i]
  BY <1>1, <1>2
<1>4. /\ net' = SubSeq(net, n + 1, Len(net)) /\ events = <<>> /\ buf = <<>> /\ ~crashed
  BY <1>3 DEF Read
<1>5. /\ net' \in Seq(Half) /\ Len(net') = Len(net) - n
      /\ \A i \in 1 .. Len(net) - n : net'[i] = net[n + i]
  BY <1>2, <1>4
<1>6. Len(buf) = 0 /\ Taken \in Nat
  BY <1>2, <1>4 DEF IInv, StreamInv
<1>7. Taken' = Taken + n
  BY <1>2, <1>5 DEF Taken
<1>8. \A i \in 1 .. Len(net') : Place(net'[i]) = Taken' + i
  <2>1. ASSUME NEW i \in 1 .. Len(net) - n
        PROVE  Place(net'[i]) = Taken + n + i
    <3>1. n + i \in 1 .. Len(net)
      BY <1>2
    <3>2. Place(net[n + i]) = Taken + (n + i)
      BY <3>1 DEF IInv, StreamInv
    <3>. QED  BY <1>2, <1>5, <3>2
  <2>. QED  BY <1>2, <1>5, <1>7, <2>1
<1>9. \A i \in 1 .. n : data[i] \in Half /\ Place(data[i]) = Taken + i
  BY <1>2, <1>3 DEF IInv, StreamInv
<1>10. Last(data) = data[Len(data)]
  BY DEF Last
<1>. QED  BY <1>2, <1>3, <1>4, <1>5, <1>6, <1>7, <1>8, <1>9, <1>10

\* A read that ends with a whole item leaves an even number of halves taken.
LEMMA WholeItems ==
  ASSUME NEW x \in Half, NEW R \in Nat, Place(x) = R
  PROVE  x.half = 1 \/ R % 2 = 0
BY DEF Half, Items, Place

\* A read is parsed: what it completes are the events.
LEMMA HttpOnDataStep ==
  ASSUME IInv, HttpOnData
  PROVE  IInv'
<1>1. PICK data \in Reads :
        /\ Read(data)
        /\ parser' = Keep(Parse(data))
        /\ events' = Parse(data).complete
        /\ out' = IF Parse(data).failed THEN Append(out, "400") ELSE out
        /\ cut' = (cut \/ (Parse(data).paused /\ Last(data).half = 1))
  BY DEF HttpOnData
<1>. DEFINE q == Parse(data)
            N == Len(data)
<1>2. handler = "http" /\ UNCHANGED <<client, handler, tcp, buf, posts, crashed>>
  BY DEF HttpOnData
<1>3. UNCHANGED <<sent, rude>>
  BY <1>2 DEF client
<1>4. /\ data \in Seq(Half) /\ N \in 1 .. Len(net)
      /\ \A i \in 1 .. N : data[i] \in Half /\ Place(data[i]) = Taken + i
      /\ Last(data) = data[N]
      /\ net' \in Seq(Half) /\ Len(net') = Len(net) - N
      /\ Taken \in Nat /\ Taken' = Taken + N
      /\ \A i \in 1 .. Len(net') : Place(net'[i]) = Taken' + i
      /\ events = <<>> /\ buf = <<>> /\ Len(buf) = 0 /\ ~crashed
  BY <1>1, <1>3, ReadFacts
<1>5. TypeOK /\ Len(sent) \in Nat /\ Len(net) \in Nat /\ Len(out) \in Nat
  BY Lengths DEF IInv
<1>6. Found(q, Taken')
  BY <1>4, <1>5, ParseFound DEF TypeOK
<1>7. /\ q \in Parsers /\ q.complete \in Seq(Items) /\ Len(q.complete) \in Nat
      /\ \A i \in 1 .. Len(q.complete) : q.complete[i] \in Items
  BY <1>6 DEF Found, Parsers
<1>. HIDE DEF q, N
<1>8. TypeOK'
  <2>1. parser' \in [begun : Items \cup {NoRequest}, failed : BOOLEAN]
    BY <1>1, <1>7 DEF Keep, Parsers, q
  <2>2. out' \in Seq(Replies \cup {"message", "close"})
    BY <1>1, <1>5 DEF TypeOK, Replies
  <2>3. cut' \in BOOLEAN
    BY <1>1, <1>5, <1>7 DEF TypeOK, Parsers, q
  <2>. QED  BY <1>1, <1>2, <1>3, <1>4, <1>5, <1>7, <2>1, <2>2, <2>3 DEF TypeOK, q
<1>9. StreamInv'
  <2>1. Len(buf') <= Taken' /\ Len(buf') = 0
    BY <1>2, <1>4, <1>5
  <2>. QED  BY <1>4, <2>1 DEF StreamInv, Place
<1>10. PhaseInv'
  BY <1>1, <1>2, <1>5 DEF IInv, PhaseInv
<1>11. EventsInv'
  BY <1>1, <1>3, <1>6 DEF Found, EventsInv, q
<1>12. PostsInv'
  <2>1. posts = <<>> /\ Len(posts') = 0
    BY <1>2 DEF IInv, PhaseInv
  <2>. QED  BY <2>1 DEF PostsInv
<1>13. CutInv'
  <2>1. Last(data) \in Half /\ Place(Last(data)) = Taken'
    BY <1>4
  <2>2. Last(data).half = 1 \/ Taken' % 2 = 0
    <3>1. Taken' \in Nat
      BY <1>4, <1>5
    <3>. QED  BY <2>1, <3>1, WholeItems, Zenon
  <2>3. ASSUME ~cut', NEW i \in 1 .. Len(events'), sent'[events'[i]] = "upgrade"
        PROVE  Taken' % 2 = 0
    <3>1. q.paused
      BY <1>1, <1>3, <1>6, <2>3 DEF Found, Upgrading, q
    <3>. QED  BY <1>1, <2>2, <2>3, <3>1 DEF q
  <2>. QED  BY <1>2, <1>4, <2>3 DEF CutInv, DiesOfCutResetOrGarble
<1>14. ASSUME ~rude
       PROVE  FoundAll(q, Taken', Len(out))
  <2>1. Courteous
    BY <1>2, <1>14 DEF IInv, PoliteInv
  <2>2. FoundAll(Before, Taken, Len(out))
    <3>1. /\ ~Before.failed /\ ~Before.paused /\ Len(Before.complete) = 0
          /\ Before.begun = parser.begun /\ Before.failed = parser.failed
      BY <1>2, <1>14 DEF Before, IInv, PoliteInv
    <3>2. Len(out) = Taken \div 2
      BY <1>2, <1>4, <1>5, <1>14 DEF IInv, PoliteInv
    <3>. QED  BY <1>2, <1>5, <1>14, <3>1, <3>2 DEF IInv, PoliteInv, FoundAll
  <2>3. Taken + N <= 2 * Len(sent)
    BY <1>4, <1>5 DEF Taken
  <2>. QED  BY <1>4, <1>5, <2>1, <2>2, <2>3, ParseFoundAll DEF TypeOK, q, N
<1>15. ASSUME ~rude
       PROVE  out' = out
  BY <1>1, <1>14, <1>15 DEF FoundAll, q
<1>16. PoliteInv'
  <2>. SUFFICES ASSUME ~rude'
                PROVE  PoliteInv'
    BY DEF PoliteInv
  <2>1. ~rude /\ Courteous /\ FoundAll(q, Taken', Len(out))
    BY <1>2, <1>3, <1>14 DEF IInv, PoliteInv
  <2>2. Courteous'
    BY <1>3, <2>1 DEF Courteous
  <2>3. ~parser'.failed /\ parser'.begun = q.begun
    BY <1>1, <2>1 DEF FoundAll, Keep, q
  <2>4. out' = out /\ events' = q.complete
    BY <1>1, <1>15, <2>1 DEF q
  <2>. QED  BY <2>1, <2>2, <2>3, <2>4 DEF PoliteInv, FoundAll
<1>17. AnsweredInOrder'
  BY <1>3, <1>15 DEF IInv, AnsweredInOrder
<1>. QED  BY <1>8, <1>9, <1>10, <1>11, <1>12, <1>13, <1>16, <1>17 DEF IInv

\* There are events before the upgrade only; a well-behaved client's first one
\* is the request whose turn it is.
LEMMA EventFacts ==
  ASSUME IInv, NEW kinds, Event(kinds)
  PROVE  /\ handler = "http" /\ buf = <<>> /\ Len(buf) = 0 /\ posts = <<>> /\ tcp /\ ~crashed
         /\ Head(events) = events[1] /\ Len(events) \in Nat \ {0}
         /\ Tail(events) \in Seq(Items) /\ Len(Tail(events)) = Len(events) - 1
         /\ \A i \in 1 .. Len(events) - 1 : Tail(events)[i] = events[i + 1]
         /\ events[1] \in Items /\ events[1] \in 1 .. Len(sent)
         /\ sent[events[1]] \in kinds
         /\ ~rude => events[1] = Len(out) + 1 /\ sent[events[1]] \in {"get", "stray", "upgrade"}
<1>1. events # <<>> /\ ~crashed /\ sent[Head(events)] \in kinds
  BY DEF Event
<1>2. TypeOK /\ events \in Seq(Items) /\ Len(sent) \in Nat /\ Len(net) \in Nat /\ Taken \in Int
  BY Lengths DEF IInv, TypeOK
<1>3. /\ Head(events) = events[1] /\ Len(events) \in Nat \ {0} /\ events[1] \in Items
      /\ Tail(events) \in Seq(Items) /\ Len(Tail(events)) = Len(events) - 1
      /\ \A i \in 1 .. Len(events) - 1 : Tail(events)[i] = events[i + 1]
  BY <1>1, <1>2
<1>4. handler = "http" /\ buf = <<>> /\ posts = <<>> /\ tcp
  BY <1>1, <1>2 DEF IInv, PhaseInv, TypeOK
<1>5. 2 * events[1] <= Taken
  <2>1. 1 \in 1 .. Len(events)
    BY <1>3
  <2>. QED  BY <2>1, Zenon DEF IInv, EventsInv
<1>6. events[1] \in 1 .. Len(sent)
  BY <1>2, <1>3, <1>5 DEF Taken, Items
<1>7. ASSUME ~rude
      PROVE  events[1] = Len(out) + 1 /\ sent[events[1]] \in {"get", "stray", "upgrade"}
  BY <1>3, <1>4, <1>6, <1>7 DEF IInv, PoliteInv, Courteous
<1>. QED  BY <1>1, <1>3, <1>4, <1>6, <1>7

\* A request is answered: it was the first event.
LEMMA OnHttpGetStep ==
  ASSUME IInv, OnHttpGet
  PROVE  IInv'
<1>. DEFINE x == events[1]
            a == IF sent[x] = "get" THEN "200" ELSE "400"
<1>1. /\ handler = "http" /\ buf = <<>> /\ Len(buf) = 0 /\ posts = <<>> /\ tcp /\ ~crashed
      /\ Head(events) = x /\ Len(events) \in Nat \ {0}
      /\ Tail(events) \in Seq(Items) /\ Len(Tail(events)) = Len(events) - 1
      /\ \A i \in 1 .. Len(events) - 1 : Tail(events)[i] = events[i + 1]
      /\ x \in Items /\ x \in 1 .. Len(sent)
      /\ sent[x] \in {"get", "stray"}
      /\ ~rude => x = Len(out) + 1 /\ sent[x] \in {"get", "stray", "upgrade"}
  BY EventFacts DEF OnHttpGet
<1>2. /\ out' = Append(out, a) /\ events' = Tail(events)
      /\ UNCHANGED <<sent, rude, net, handler, tcp, parser, buf, posts, cut, crashed>>
  BY <1>1 DEF OnHttpGet, client
<1>3. TypeOK /\ Len(sent) \in Nat /\ Len(net) \in Nat /\ Len(out) \in Nat /\ Taken' = Taken /\ Taken \in Int
  BY <1>2, Lengths DEF IInv, Taken
<1>. HIDE DEF x, a
<1>4. a \in {"200", "400"}
  BY DEF a
<1>5. /\ out' \in Seq(Replies \cup {"message", "close"}) /\ Len(out') = Len(out) + 1
      /\ \A i \in 1 .. Len(out) : out'[i] = out[i]
      /\ out'[Len(out) + 1] = a
  BY <1>2, <1>3, <1>4 DEF TypeOK, Replies
<1>6. TypeOK'
  BY <1>1, <1>2, <1>3, <1>5 DEF TypeOK
<1>7. StreamInv'
  BY <1>2, <1>3 DEF IInv, StreamInv, Place
<1>8. PhaseInv'
  <2>1. \A i \in 1 .. Len(out) + 1 : out'[i] \in {"200", "400"}
    BY <1>1, <1>3, <1>4, <1>5 DEF IInv, PhaseInv
  <2>. QED  BY <1>1, <1>2, <1>5, <2>1 DEF PhaseInv
<1>9. \A i \in 1 .. Len(events') : i + 1 \in 1 .. Len(events) /\ events'[i] = events[i + 1]
  BY <1>1, <1>2
<1>10. EventsInv'
  <2>1. ASSUME NEW i \in 1 .. Len(events')
        PROVE  /\ 2 * events'[i] <= Taken
               /\ \A j \in 1 .. i - 1 : events'[j] < events'[i]
               /\ sent[events'[i]] \in Upgrading => i = Len(events')
    <3>1. /\ 2 * events[i + 1] <= Taken
          /\ \A j \in 1 .. (i + 1) - 1 : events[j] < events[i + 1]
          /\ sent[events[i + 1]] \in Upgrading => i + 1 = Len(events)
      BY <1>9, <2>1 DEF IInv, EventsInv
    <3>2. \A j \in 1 .. i - 1 : events'[j] = events[j + 1] /\ j + 1 \in 1 .. (i + 1) - 1
      BY <1>1, <1>2, <1>9, <2>1
    <3>3. events'[i] = events[i + 1] /\ Len(events') = Len(events) - 1
      BY <1>1, <1>2, <1>9, <2>1
    <3>4. i + 1 = Len(events) => i = Len(events')
      <4>1. i \in Nat /\ Len(events) \in Nat
        BY <1>1
      <4>. QED  BY <3>3, <4>1
    <3>5. \A j \in 1 .. i - 1 : events'[j] < events'[i]
      BY <3>1, <3>2, <3>3
    <3>. QED  BY <3>1, <3>3, <3>4, <3>5
  <2>. QED  BY <1>2, <1>3, <2>1 DEF EventsInv
<1>11. PostsInv'
  BY <1>2, <1>3 DEF IInv, PostsInv
<1>12. CutInv'
  BY <1>1, <1>2, <1>3, <1>9 DEF IInv, CutInv, DiesOfCutResetOrGarble
<1>13. PoliteInv'
  <2>. SUFFICES ASSUME ~rude'
                PROVE  PoliteInv'
    BY DEF PoliteInv
  <2>1. /\ Courteous /\ ~parser.failed
        /\ parser.begun = IF Taken % 2 = 0 THEN NoRequest ELSE (Taken + 1) \div 2
        /\ Len(out) + Len(events) = Taken \div 2
        /\ \A i \in 1 .. Len(events) : events[i] = Len(out) + i
    BY <1>1, <1>2 DEF IInv, PoliteInv
  <2>2. Len(out') + Len(events') = Len(out) + Len(events)
    BY <1>1, <1>2, <1>3, <1>5
  <2>3. \A i \in 1 .. Len(events') : events'[i] = Len(out') + i
    BY <1>1, <1>2, <1>3, <1>5, <1>9, <2>1
  <2>. QED  BY <1>2, <1>3, <2>1, <2>2, <2>3 DEF PoliteInv, Courteous
<1>14. AnsweredInOrder'
  <2>. SUFFICES ASSUME ~rude, NEW i \in 1 .. Len(out) + 1, out'[i] \in Replies
                PROVE  i <= Len(sent) /\ sent[i] \in Requests /\ out'[i] = Answer(sent[i])
    BY <1>2, <1>5 DEF AnsweredInOrder
  <2>1. CASE i \in 1 .. Len(out)
    BY <1>5, <2>1 DEF IInv, AnsweredInOrder
  <2>2. CASE i = Len(out) + 1
    <3>1. i = x /\ out'[i] = a
      BY <1>1, <1>5, <2>2
    <3>2. a = Answer(sent[x]) /\ sent[x] \in Requests
      BY <1>1 DEF a, Answer, Requests
    <3>. QED  BY <1>1, <1>3, <3>1, <3>2
  <2>. QED  BY <1>3, <2>1, <2>2
<1>. QED  BY <1>6, <1>7, <1>8, <1>10, <1>11, <1>12, <1>13, <1>14 DEF IInv

\* A request is refused, and the events are dropped: the client is not one of
\* the well-behaved.
LEMMA RefuseStep ==
  ASSUME IInv, Refuse
  PROVE  IInv'
<1>1. /\ handler = "http" /\ ~crashed
      /\ sent[events[1]] \in {"refused", "nokey"}
      /\ ~rude => sent[events[1]] \in {"get", "stray", "upgrade"}
  BY EventFacts DEF Refuse
<1>2. /\ out' = Append(out, "400") /\ events' = <<>> /\ Len(events') = 0
      /\ UNCHANGED <<sent, rude, net, handler, tcp, parser, buf, posts, cut, crashed>>
  BY DEF Refuse, client
<1>3. TypeOK /\ Len(sent) \in Nat /\ Len(net) \in Nat /\ Len(out) \in Nat /\ Taken' = Taken
  BY <1>2, Lengths DEF IInv, Taken
<1>4. rude
  BY <1>1
<1>5. /\ out' \in Seq(Replies \cup {"message", "close"}) /\ Len(out') = Len(out) + 1
      /\ \A i \in 1 .. Len(out) : out'[i] = out[i]
      /\ out'[Len(out) + 1] = "400"
  BY <1>2, <1>3 DEF TypeOK, Replies
<1>6. TypeOK'
  BY <1>2, <1>3, <1>5 DEF TypeOK
<1>7. StreamInv'
  BY <1>2, <1>3 DEF IInv, StreamInv, Place
<1>8. PhaseInv'
  <2>1. \A i \in 1 .. Len(out) + 1 : out'[i] \in {"200", "400"}
    BY <1>1, <1>3, <1>5 DEF IInv, PhaseInv
  <2>. QED  BY <1>1, <1>2, <1>5, <2>1 DEF IInv, PhaseInv
<1>9. EventsInv'
  BY <1>2 DEF EventsInv
<1>10. PostsInv'
  BY <1>2, <1>3 DEF IInv, PostsInv
<1>11. CutInv'
  BY <1>1, <1>2 DEF CutInv, DiesOfCutResetOrGarble
<1>12. PoliteInv' /\ AnsweredInOrder'
  BY <1>2, <1>4 DEF PoliteInv, AnsweredInOrder
<1>. QED  BY <1>6, <1>7, <1>8, <1>9, <1>10, <1>11, <1>12 DEF IInv

\* The upgrade is the only event left, and the first post.
LEMMA OnSocketUpgradeStep ==
  ASSUME IInv, OnSocketUpgrade
  PROVE  IInv'
<1>. DEFINE x == events[1]
<1>1. /\ handler = "http" /\ buf = <<>> /\ Len(buf) = 0 /\ posts = <<>> /\ tcp /\ ~crashed
      /\ Head(events) = x /\ Len(events) \in Nat \ {0}
      /\ Tail(events) \in Seq(Items) /\ Len(Tail(events)) = Len(events) - 1
      /\ x \in Items /\ x \in 1 .. Len(sent)
      /\ sent[x] = "upgrade"
      /\ ~rude => x = Len(out) + 1
  BY EventFacts DEF OnSocketUpgrade
<1>2. /\ out' = Append(out, "101") /\ handler' = "ws" /\ posts' = <<x>>
      /\ events' = <<>> /\ Len(events') = 0 /\ crashed' = (Tail(events) # <<>>)
      /\ UNCHANGED <<sent, rude, net, tcp, parser, buf, cut>>
  BY <1>1 DEF OnSocketUpgrade, client
<1>3. TypeOK /\ Len(sent) \in Nat /\ Len(out) \in Nat /\ Taken' = Taken /\ Taken \in Int
  BY <1>2, Lengths DEF IInv, Taken
<1>4. 1 \in 1 .. Len(events)
  BY <1>1
<1>. HIDE DEF x
<1>5. 2 * x <= Taken /\ 1 = Len(events)
  BY <1>1, <1>4 DEF IInv, EventsInv, Upgrading, x
<1>6. crashed' = FALSE
  <2>1. events \in Seq(Items) /\ Len(events) = 1
    BY <1>3, <1>5 DEF TypeOK
  <2>2. events # <<>>
    BY <2>1
  <2>3. Tail(events) \in Seq(Items) /\ Len(Tail(events)) = Len(events) - 1
    BY <2>1, <2>2, HeadTailProperties
  <2>4. Len(Tail(events)) = 0
    BY <2>1, <2>3
  <2>5. Tail(events) = <<>>
    BY <2>3, <2>4, EmptySeq, Zenon
  <2>. QED  BY <1>2, <2>5
<1>7. /\ out' \in Seq(Replies \cup {"message", "close"}) /\ Len(out') = Len(out) + 1
      /\ \A i \in 1 .. Len(out) : out'[i] = out[i]
      /\ out'[Len(out) + 1] = "101"
  BY <1>2, <1>3 DEF TypeOK, Replies
<1>8. posts' \in Seq(Items \cup {Junk}) /\ Len(posts') = 1 /\ posts'[1] = x
  BY <1>1, <1>2
<1>9. TypeOK'
  <2>1. handler' \in {"http", "ws"} /\ crashed' \in BOOLEAN /\ events' \in Seq(Items)
    BY <1>2, <1>6
  <2>. QED  BY <1>2, <1>3, <1>7, <1>8, <2>1 DEF TypeOK
<1>10. StreamInv'
  BY <1>2, <1>3 DEF IInv, StreamInv, Place
<1>11. PhaseInv'
  <2>1. \A i \in 1 .. Len(out) : out'[i] \in {"200", "400"}
    BY <1>1, <1>7 DEF IInv, PhaseInv
  <2>2. Handshaken(out')
    <3>. DEFINE u == Len(out) + 1
    <3>1. u \in 1 .. Len(out') /\ out'[u] = "101"
      BY <1>3, <1>7
    <3>2. \A i \in 1 .. u - 1 : out'[i] \in {"200", "400"}
      BY <1>3, <2>1
    <3>3. \A i \in u + 1 .. Len(out') : out'[i] \in {"message", "close"}
      BY <1>3, <1>7
    <3>. QED  BY <3>1, <3>2, <3>3 DEF Handshaken
  <2>3. posts' # <<>>
    BY <1>8
  <2>. QED  BY <1>2, <2>2, <2>3 DEF PhaseInv
<1>12. EventsInv'
  BY <1>2 DEF EventsInv
<1>13. PostsInv'
  BY <1>1, <1>2, <1>3, <1>5, <1>8 DEF PostsInv
<1>14. CutInv'
  <2>1. ~cut => Taken % 2 = 0
    BY <1>1, <1>4 DEF IInv, CutInv, x
  <2>. QED  BY <1>1, <1>2, <1>3, <1>6, <2>1 DEF CutInv, DiesOfCutResetOrGarble
<1>15. PoliteInv'
  BY <1>2 DEF PoliteInv
<1>16. AnsweredInOrder'
  <2>. SUFFICES ASSUME ~rude, NEW i \in 1 .. Len(out) + 1, out'[i] \in Replies
                PROVE  i <= Len(sent) /\ sent[i] \in Requests /\ out'[i] = Answer(sent[i])
    BY <1>2, <1>7 DEF AnsweredInOrder
  <2>1. CASE i \in 1 .. Len(out)
    BY <1>7, <2>1 DEF IInv, AnsweredInOrder
  <2>2. CASE i = Len(out) + 1
    BY <1>1, <1>3, <1>7, <2>2 DEF Answer, Requests
  <2>. QED  BY <1>3, <2>1, <2>2
<1>. QED  BY <1>9, <1>10, <1>11, <1>12, <1>13, <1>14, <1>15, <1>16 DEF IInv

\* Frames are read when the last ones were decoded.
LEMMA WsOnDataStep ==
  ASSUME IInv, WsOnData
  PROVE  IInv'
<1>1. PICK data \in Reads : Read(data) /\ buf' = data /\ cut' = (cut \/ Last(data).half = 1)
  BY DEF WsOnData
<1>2. /\ handler = "ws"
      /\ UNCHANGED <<sent, rude, handler, tcp, parser, events, out, posts, crashed>>
  BY DEF WsOnData, client
<1>. DEFINE N == Len(data)
<1>3. /\ data \in Seq(Half) /\ N \in 1 .. Len(net)
      /\ \A i \in 1 .. N : data[i] \in Half /\ Place(data[i]) = Taken + i
      /\ Last(data) = data[N]
      /\ net' \in Seq(Half)
      /\ Taken \in Nat /\ Taken' = Taken + N
      /\ \A i \in 1 .. Len(net') : Place(net'[i]) = Taken' + i
      /\ events = <<>> /\ Len(buf) = 0 /\ ~crashed
  BY <1>1, <1>2, ReadFacts
<1>4. TypeOK /\ Len(net) \in Nat /\ \A i \in 1 .. Len(posts) : posts[i] \in Items \cup {Junk}
  BY Lengths DEF IInv
<1>5. Len(buf') = N /\ N \in Nat /\ Taken' \in Nat /\ Taken' - Len(buf') = Taken - Len(buf)
  BY <1>1, <1>3, <1>4
<1>6. TypeOK'
  <2>1. cut' \in BOOLEAN /\ buf' \in Seq(Half)
    BY <1>1, <1>3, <1>4 DEF TypeOK
  <2>. QED  BY <1>2, <1>3, <1>4, <2>1 DEF TypeOK
<1>7. StreamInv'
  <2>1. \A i \in 1 .. Len(buf') : Place(buf'[i]) = Taken' - Len(buf') + i
    BY <1>1, <1>3, <1>5
  <2>. QED  BY <1>3, <1>5, <2>1 DEF StreamInv, Place
<1>8. PhaseInv'
  BY <1>2 DEF IInv, PhaseInv, Handshaken
<1>9. EventsInv'
  BY <1>2, <1>3 DEF EventsInv
<1>10. PostsInv'
  BY <1>2, <1>5 DEF IInv, PostsInv
<1>11. CutInv'
  <2>1. Last(data) \in Half /\ Place(Last(data)) = Taken'
    BY <1>3
  <2>2. Last(data).half = 1 \/ Taken' % 2 = 0
    BY <1>5, <2>1, WholeItems, Zenon
  <2>3. ASSUME ~cut'
        PROVE  Taken' % 2 = 0 /\ N % 2 = 0
    <3>1. Taken' % 2 = 0
      BY <1>1, <2>2, <2>3
    <3>2. Taken % 2 = 0
      BY <1>1, <1>2, <2>3 DEF IInv, CutInv
    <3>3. \A a, b \in Nat : a % 2 = 0 /\ (a + b) % 2 = 0 => b % 2 = 0
      OBVIOUS
    <3>. QED  BY <1>3, <1>5, <3>1, <3>2, <3>3
  <2>. QED  BY <1>2, <1>3, <1>5, <2>3 DEF CutInv, DiesOfCutResetOrGarble
<1>12. PoliteInv'
  BY <1>2 DEF PoliteInv
<1>13. AnsweredInOrder'
  BY <1>2 DEF IInv, AnsweredInOrder
<1>. QED  BY <1>6, <1>7, <1>8, <1>9, <1>10, <1>11, <1>12, <1>13 DEF IInv

\* What the session's steps have in common: they drop some of what was read,
\* write session traffic, and post a frame that they have dropped, or junk.
SessionStep ==
  /\ handler = "ws"
  /\ UNCHANGED <<sent, rude, net, handler, parser, events, cut>>
  /\ tcp' \in BOOLEAN /\ crashed' \in BOOLEAN
  /\ crashed' => cut \/ ~tcp' \/ Garbled'
  /\ buf' \in Seq(Half) /\ Len(buf') <= Len(buf)
  /\ \A i \in 1 .. Len(buf') : buf'[i] = buf[Len(buf) - Len(buf') + i]
  /\ ~cut => Len(buf') % 2 = 0
  /\ out' \in {out, Append(out, "message"), Append(out, "close")}
  /\ \/ posts' = posts
     \/ posts' = Append(posts, Junk)
     \/ \E v \in Items :
          /\ posts' = Append(posts, v)
          /\ sent[v] = "text"
          /\ Taken - Len(buf) < 2 * v /\ 2 * v <= Taken - Len(buf')

LEMMA SessionStepInv ==
  ASSUME IInv, SessionStep
  PROVE  IInv'
<1>1. /\ TypeOK /\ Len(sent) \in Nat /\ Len(out) \in Nat /\ Len(buf) \in Nat /\ Len(posts) \in Nat
      /\ Taken \in Int /\ \A i \in 1 .. Len(posts) : posts[i] \in Items \cup {Junk}
  BY Lengths DEF IInv
<1>2. Taken' = Taken /\ Len(buf') \in Nat /\ events = <<>> /\ Len(events) = 0 /\ posts # <<>>
  BY DEF SessionStep, Taken, IInv, PhaseInv
<1>3. /\ out' \in Seq(Replies \cup {"message", "close"})
      /\ Len(out') \in {Len(out), Len(out) + 1}
      /\ \A i \in 1 .. Len(out) : out'[i] = out[i]
      /\ \A i \in Len(out) + 1 .. Len(out') : out'[i] \in {"message", "close"}
  <2>1. out \in Seq(Replies \cup {"message", "close"})
    BY <1>1 DEF TypeOK
  <2>2. CASE out' = out
    BY <1>1, <2>1, <2>2
  <2>3. ASSUME NEW e \in {"message", "close"}, out' = Append(out, e)
        PROVE  <1>3!:
    BY <1>1, <2>1, <2>3
  <2>. QED  BY <2>2, <2>3 DEF SessionStep
<1>4. PICK v \in Items \cup {Junk} :
        /\ posts' \in {posts, Append(posts, v)}
        /\ v # Junk => /\ sent[v] = "text"
                       /\ Taken - Len(buf) < 2 * v /\ 2 * v <= Taken - Len(buf')
  BY DEF SessionStep
<1>5. /\ posts' \in Seq(Items \cup {Junk})
      /\ Len(posts') \in {Len(posts), Len(posts) + 1}
      /\ \A i \in 1 .. Len(posts) : posts'[i] = posts[i]
      /\ \A i \in Len(posts) + 1 .. Len(posts') : posts'[i] = v
  <2>1. posts \in Seq(Items \cup {Junk})
    BY <1>1 DEF TypeOK
  <2>2. CASE posts' = posts
    BY <1>1, <2>1, <2>2
  <2>3. CASE posts' = Append(posts, v)
    BY <1>1, <2>1, <2>3
  <2>. QED  BY <1>4, <2>2, <2>3
<1>6. TypeOK'
  BY <1>1, <1>3, <1>5 DEF SessionStep, TypeOK
<1>7. StreamInv'
  <2>1. ASSUME NEW i \in 1 .. Len(buf')
        PROVE  Place(buf'[i]) = Taken - Len(buf') + i
    <3>. DEFINE j == Len(buf) - Len(buf') + i
    <3>1. j \in 1 .. Len(buf) /\ buf'[i] = buf[j]
      BY <1>1, <1>2 DEF SessionStep
    <3>2. Place(buf[j]) = Taken - Len(buf) + j
      BY <3>1 DEF IInv, StreamInv
    <3>. QED  BY <1>1, <1>2, <3>1, <3>2
  <2>2. Len(buf') <= Taken
    BY <1>1, <1>2 DEF SessionStep, IInv, StreamInv
  <2>. QED  BY <1>2, <2>1, <2>2 DEF SessionStep, IInv, StreamInv, Place
<1>8. PhaseInv'
  <2>1. PICK u \in 1 .. Len(out) :
          /\ out[u] = "101"
          /\ \A i \in 1 .. u - 1 : out[i] \in {"200", "400"}
          /\ \A i \in u + 1 .. Len(out) : out[i] \in {"message", "close"}
    BY DEF SessionStep, IInv, PhaseInv, Handshaken
  <2>2. u \in 1 .. Len(out') /\ out'[u] = "101"
    BY <1>1, <1>3, <2>1
  <2>3. \A i \in 1 .. u - 1 : out'[i] \in {"200", "400"}
    BY <1>1, <1>3, <2>1
  <2>4. \A i \in u + 1 .. Len(out') : out'[i] \in {"message", "close"}
    BY <1>1, <1>3, <2>1
  <2>5. Handshaken(out')
    BY <2>2, <2>3, <2>4 DEF Handshaken
  <2>6. posts' # <<>>
    BY <1>1, <1>2, <1>5 DEF TypeOK
  <2>. QED  BY <1>2, <2>5, <2>6 DEF SessionStep, PhaseInv
<1>9. EventsInv'
  BY <1>2 DEF SessionStep, EventsInv
<1>10. PostsInv'
  <2>1. ASSUME NEW i \in 1 .. Len(posts'), posts'[i] # Junk
        PROVE  /\ 2 * posts'[i] <= Taken - Len(buf')
               /\ sent[posts'[i]] = IF i = 1 THEN "upgrade" ELSE "text"
               /\ \A j \in 1 .. i - 1 : posts'[j] < posts'[i]
    <3>1. CASE i \in 1 .. Len(posts)
      <4>1. /\ 2 * posts[i] <= Taken - Len(buf)
            /\ sent[posts[i]] = IF i = 1 THEN "upgrade" ELSE "text"
            /\ \A j \in 1 .. i - 1 : posts[j] < posts[i]
        BY <1>5, <2>1, <3>1 DEF IInv, PostsInv
      <4>2. posts'[i] = posts[i] /\ posts[i] \in Int
        BY <1>1, <1>5, <3>1 DEF Items, Junk
      <4>3. 2 * posts[i] <= Taken - Len(buf')
        BY <1>1, <1>2, <4>1, <4>2 DEF SessionStep
      <4>4. \A j \in 1 .. i - 1 : posts'[j] = posts[j]
        BY <1>1, <1>5, <3>1
      <4>. QED  BY <4>1, <4>2, <4>3, <4>4
    <3>2. CASE i = Len(posts) + 1
      <4>1. posts'[i] = v /\ i # 1
        BY <1>1, <1>2, <1>5, <2>1, <3>2 DEF TypeOK
      <4>2. v \in Items /\ sent[v] = "text" /\ Taken - Len(buf) < 2 * v /\ 2 * v <= Taken - Len(buf')
        BY <1>4, <2>1, <4>1
      <4>3. ASSUME NEW j \in 1 .. Len(posts)
            PROVE  posts'[j] < v
        <5>1. posts'[j] = posts[j] /\ posts[j] \in Items \cup {Junk} /\ v \in Int /\ v > 0
          BY <1>1, <1>5, <4>2 DEF Items
        <5>2. CASE posts[j] = Junk
          BY <5>1, <5>2 DEF Junk
        <5>3. CASE posts[j] # Junk
          <6>1. 2 * posts[j] <= Taken - Len(buf) /\ posts[j] \in Int
            BY <5>1, <5>3 DEF IInv, PostsInv, Items
          <6>. QED  BY <1>1, <4>2, <5>1, <6>1
        <5>. QED  BY <5>2, <5>3
      <4>4. \A j \in 1 .. i - 1 : posts'[j] < posts'[i]
        BY <1>1, <3>2, <4>1, <4>3
      <4>. QED  BY <4>1, <4>2, <4>4
    <3>. QED  BY <1>1, <1>5, <2>1, <3>1, <3>2
  <2>. QED  BY <1>2, <2>1 DEF SessionStep, PostsInv
<1>11. CutInv'
  BY <1>2 DEF SessionStep, IInv, CutInv, DiesOfCutResetOrGarble
<1>12. PoliteInv'
  BY DEF SessionStep, PoliteInv
<1>13. AnsweredInOrder'
  <2>. SUFFICES ASSUME ~rude, NEW i \in 1 .. Len(out'), out'[i] \in Replies
                PROVE  i <= Len(sent) /\ sent[i] \in Requests /\ out'[i] = Answer(sent[i])
    BY DEF SessionStep, AnsweredInOrder
  <2>1. i \in 1 .. Len(out) /\ out'[i] = out[i]
    BY <1>1, <1>3 DEF Replies
  <2>. QED  BY <2>1 DEF IInv, AnsweredInOrder
<1>. QED  BY <1>6, <1>7, <1>8, <1>9, <1>10, <1>11, <1>12, <1>13 DEF IInv

\* Frames are decoded by WsHandler; without a cut, from their beginnings.
LEMMA FrameFacts ==
  ASSUME IInv, NEW result, Frame(result)
  PROVE  /\ TypeOK /\ handler = "ws" /\ ~crashed /\ posts # <<>>
         /\ Head(buf) = buf[1] /\ buf[1] \in Half /\ Len(buf) \in Nat \ {0} /\ Taken \in Int
         /\ Place(buf[1]) = Taken - Len(buf) + 1
         /\ ~cut => buf[1].half = 1 /\ Len(buf) % 2 = 0
         /\ result \in Decode(buf)
<1>1. ~crashed /\ buf # <<>> /\ result \in Decode(buf)
  BY DEF Frame
<1>2. TypeOK /\ buf \in Seq(Half) /\ Taken \in Int
  BY Lengths DEF IInv, TypeOK
<1>3. Head(buf) = buf[1] /\ buf[1] \in Half /\ Len(buf) \in Nat \ {0} /\ 1 \in 1 .. Len(buf)
  BY <1>1, <1>2
<1>4. handler = "ws" /\ posts # <<>>
  BY <1>1, <1>2 DEF IInv, PhaseInv, TypeOK
<1>5. Place(buf[1]) = Taken - Len(buf) + 1 /\ Len(buf) <= Taken
  BY <1>3 DEF IInv, StreamInv
<1>6. ASSUME ~cut
      PROVE  buf[1].half = 1 /\ Len(buf) % 2 = 0
  <2>1. Taken % 2 = 0 /\ Len(buf) % 2 = 0
    BY <1>4, <1>6 DEF IInv, CutInv
  <2>2. \A a, b \in Nat : a % 2 = 0 /\ b % 2 = 0 /\ b <= a => (a - b + 1) % 2 = 1
    OBVIOUS
  <2>3. (Taken - Len(buf) + 1) % 2 = 1 /\ Taken - Len(buf) + 1 \in Nat
    BY <1>2, <1>3, <1>5, <2>1, <2>2
  <2>4. buf[1].half = 1 \/ (Taken - Len(buf) + 1) % 2 = 0
    BY <1>3, <1>5, <2>3, WholeItems, Zenon
  <2>. QED  BY <2>1, <2>3, <2>4
<1>. QED  BY <1>1, <1>2, <1>3, <1>4, <1>5, <1>6

\* A frame is posted: the item whose halves were next in the stream, if its
\* beginning was not lost.
LEMMA FrameOkStep ==
  ASSUME IInv, FrameOk
  PROVE  IInv'
<1>. DEFINE h == buf[1]
<1>1. /\ TypeOK /\ handler = "ws" /\ Head(buf) = h /\ h \in Half /\ Len(buf) \in Nat \ {0}
      /\ Taken \in Int /\ Place(h) = Taken - Len(buf) + 1
      /\ ~cut => h.half = 1 /\ Len(buf) % 2 = 0
      /\ "ok" \in Decode(buf)
  BY FrameFacts DEF FrameOk
<1>2. /\ posts' = IF tcp THEN Append(posts, IF h.half = 1 THEN h.item ELSE Junk) ELSE posts
      /\ crashed' = ~tcp
      /\ UNCHANGED <<sent, rude, net, handler, tcp, parser, events, out, cut>>
  BY <1>1 DEF FrameOk, client
<1>3. PICK n \in Consumed(buf) : buf' = SubSeq(buf, n + 1, Len(buf))
  BY DEF FrameOk
<1>. HIDE DEF h
<1>4. h.half \in {1, 2} /\ h.item \in Items
  BY <1>1 DEF Half
<1>5. ASSUME h.half = 1
      PROVE  n = 2 /\ Len(buf) >= 2 /\ sent[h.item] = "text" /\ 2 * h.item = Taken - Len(buf) + 2
  <2>1. n = 2
    BY <1>1, <1>3, <1>5 DEF Consumed
  <2>2. Len(buf) # 1 /\ Kind(h) = "text"
    BY <1>1, <1>5 DEF Decode, FrameOk, Texts
  <2>3. 2 * h.item - 1 = Taken - Len(buf) + 1 /\ h.item \in Int
    BY <1>1, <1>4, <1>5 DEF Place, Items
  <2>4. 2 * h.item = Taken - Len(buf) + 2
    <3>. DEFINE t == Taken
                l == Len(buf)
                v == h.item
    <3>1. t \in Int /\ l \in Int /\ v \in Int /\ 2 * v - 1 = t - l + 1
      BY <1>1, <2>3
    <3>. HIDE DEF t, l, v
    <3>2. 2 * v = t - l + 2
      BY <3>1
    <3>. QED  BY <3>2 DEF t, l, v
  <2>5. Len(buf) >= 2
    <3>. DEFINE l == Len(buf)
    <3>1. l \in Nat \ {0} /\ l # 1
      BY <1>1, <2>2
    <3>. HIDE DEF l
    <3>2. l >= 2
      BY <3>1
    <3>. QED  BY <3>2 DEF l
  <2>6. sent[h.item] = "text"
    BY <2>2 DEF Kind
  <2>. QED  BY <2>1, <2>4, <2>5, <2>6
<1>6. n \in 1 .. Len(buf)
  BY <1>1, <1>3, <1>4, <1>5 DEF Consumed
<1>7. /\ buf' \in Seq(Half) /\ Len(buf') = Len(buf) - n
      /\ \A i \in 1 .. Len(buf) - n : buf'[i] = buf[n + i]
  <2>1. buf \in Seq(Half)
    BY <1>1 DEF TypeOK
  <2>. QED  BY <1>1, <1>3, <1>6, <2>1
<1>8. /\ Len(buf') <= Len(buf)
      /\ \A i \in 1 .. Len(buf') : buf'[i] = buf[Len(buf) - Len(buf') + i]
  BY <1>1, <1>6, <1>7
<1>9. ~cut => Len(buf') % 2 = 0
  <2>1. \A a \in Nat : a >= 2 /\ a % 2 = 0 => (a - 2) % 2 = 0
    OBVIOUS
  <2>. QED  BY <1>1, <1>5, <1>7, <2>1
<1>10. \/ posts' = posts
       \/ posts' = Append(posts, Junk)
       \/ \E v \in Items :
            /\ posts' = Append(posts, v)
            /\ sent[v] = "text"
            /\ Taken - Len(buf) < 2 * v /\ 2 * v <= Taken - Len(buf')
  <2>1. CASE h.half = 1
    <3>1. Taken - Len(buf) < 2 * h.item /\ 2 * h.item <= Taken - Len(buf')
      BY <1>1, <1>5, <1>7, <2>1
    <3>. QED  BY <1>2, <1>4, <1>5, <2>1, <3>1
  <2>2. CASE h.half = 2
    BY <1>2, <2>2
  <2>. QED  BY <1>4, <2>1, <2>2
<1>11. tcp' \in BOOLEAN /\ crashed' \in BOOLEAN /\ (crashed' => ~tcp')
  BY <1>1, <1>2 DEF TypeOK
<1>12. SessionStep
  BY <1>1, <1>2, <1>7, <1>8, <1>9, <1>10, <1>11 DEF SessionStep
<1>. QED  BY <1>12, SessionStepInv

\* The steps after which nothing of the read is left.
LEMMA RestDropped ==
  ASSUME IInv, buf' = <<>>
  PROVE  /\ buf' \in Seq(Half) /\ Len(buf') <= Len(buf)
         /\ \A i \in 1 .. Len(buf') : buf'[i] = buf[Len(buf) - Len(buf') + i]
         /\ Len(buf') % 2 = 0
<1>1. Len(buf) \in Nat
  BY Lengths DEF IInv
<1>2. Len(buf') = 0
  OBVIOUS
<1>. QED  BY <1>1, <1>2

\* The conversion of a frame's text throws.
LEMMA FrameThrowsStep ==
  ASSUME IInv, FrameThrows
  PROVE  IInv'
<1>1. /\ TypeOK /\ handler = "ws" /\ Head(buf) = buf[1] /\ buf[1] \in Half /\ Len(buf) \in Nat \ {0}
      /\ ~cut => buf[1].half = 1 /\ Len(buf) % 2 = 0
  BY FrameFacts DEF FrameThrows
<1>2. /\ crashed' \in BOOLEAN
      /\ UNCHANGED <<sent, rude, net, handler, tcp, parser, events, buf, out, posts, cut>>
  BY DEF FrameThrows, client
<1>3. cut \/ Garbled'
  <2>1. ~cut => Kind(Head(buf)) = "garbled"
    BY <1>1 DEF FrameThrows
  <2>2. buf # <<>> /\ Kind(Head(buf))' = Kind(Head(buf))
    BY <1>1, <1>2 DEF Kind
  <2>. QED  BY <1>2, <2>1, <2>2 DEF Garbled
<1>4. buf' \in Seq(Half) /\ tcp' \in BOOLEAN
  BY <1>1, <1>2 DEF TypeOK
<1>5. /\ Len(buf') <= Len(buf)
      /\ \A i \in 1 .. Len(buf') : buf'[i] = buf[Len(buf) - Len(buf') + i]
  BY <1>1, <1>2
<1>6. SessionStep
  BY <1>1, <1>2, <1>3, <1>4, <1>5 DEF SessionStep
<1>. QED  BY <1>6, SessionStepInv

LEMMA FrameIncompleteStep ==
  ASSUME IInv, FrameIncomplete
  PROVE  IInv'
<1>1. TypeOK /\ handler = "ws" /\ ~crashed
  BY FrameFacts DEF FrameIncomplete
<1>2. SessionStep
  BY <1>1, RestDropped DEF FrameIncomplete, SessionStep, TypeOK, client
<1>. QED  BY <1>2, SessionStepInv

\* Payload is read beyond the end of the data, which a cut has put there.
LEMMA FrameOverreadStep ==
  ASSUME IInv, FrameOverread
  PROVE  IInv'
<1>1. /\ TypeOK /\ handler = "ws" /\ Head(buf) = buf[1] /\ buf[1] \in Half /\ Len(buf) \in Nat \ {0}
      /\ ~cut => buf[1].half = 1 /\ Len(buf) % 2 = 0
      /\ "overread" \in Decode(buf)
  BY FrameFacts DEF FrameOverread
<1>2. cut
  <2>1. ASSUME buf[1].half = 1
        PROVE  Len(buf) = 1
    BY <1>1, <2>1 DEF Decode
  <2>2. ASSUME ~cut
        PROVE  FALSE
    <3>1. Len(buf) = 1
      BY <1>1, <2>1, <2>2
    <3>2. Len(buf) % 2 = 0
      BY <1>1, <2>2
    <3>3. 1 % 2 = 1
      OBVIOUS
    <3>. QED  BY <3>1, <3>2, <3>3
  <2>. QED  BY <2>2
<1>3. buf' = buf /\ buf' \in Seq(Half) /\ Len(buf) \in Nat
  BY <1>1 DEF FrameOverread, TypeOK
<1>4. /\ Len(buf') <= Len(buf)
      /\ \A i \in 1 .. Len(buf') : buf'[i] = buf[Len(buf) - Len(buf') + i]
  BY <1>3
<1>5. crashed' \in BOOLEAN /\ tcp' \in BOOLEAN
  BY <1>1 DEF FrameOverread, TypeOK
<1>6. posts' = posts \/ posts' = Append(posts, Junk)
  BY DEF FrameOverread
<1>7. UNCHANGED <<sent, rude, net, handler, parser, events, cut, out>>
  BY DEF FrameOverread, client
<1>8. SessionStep
  BY <1>1, <1>2, <1>3, <1>4, <1>5, <1>6, <1>7 DEF SessionStep
<1>. QED  BY <1>8, SessionStepInv

LEMMA FrameCloseStep ==
  ASSUME IInv, FrameClose
  PROVE  IInv'
<1>1. TypeOK /\ handler = "ws" /\ ~crashed
  BY FrameFacts DEF FrameClose
<1>2. /\ tcp' \in BOOLEAN /\ crashed' \in BOOLEAN /\ (crashed' => ~tcp')
      /\ out' \in {out, Append(out, "close")}
      /\ UNCHANGED <<sent, rude, net, handler, parser, events, posts, cut>>
  BY <1>1 DEF FrameClose, TypeOK, client
<1>3. SessionStep
  BY <1>1, <1>2, RestDropped DEF FrameClose, SessionStep
<1>. QED  BY <1>3, SessionStepInv

LEMMA FrameErrorStep ==
  ASSUME IInv, FrameError
  PROVE  IInv'
<1>1. TypeOK /\ handler = "ws" /\ ~crashed
  BY FrameFacts DEF FrameError
<1>2. SessionStep
  BY <1>1, RestDropped DEF FrameError, SessionStep, TypeOK, client
<1>. QED  BY <1>2, SessionStepInv

\* The agent writes: it does so when it has a session, that is after the
\* upgrade.
LEMMA SendStep ==
  ASSUME IInv, Send
  PROVE  IInv'
<1>1. TypeOK /\ handler = "ws"
  BY DEF Send, IInv, PhaseInv, TypeOK
<1>2. /\ tcp' \in BOOLEAN /\ crashed' \in BOOLEAN /\ (crashed' => ~tcp')
      /\ out' \in {out, Append(out, "message")}
      /\ UNCHANGED <<sent, rude, net, handler, parser, events, buf, posts, cut>>
  BY <1>1 DEF Send, TypeOK, client
<1>3. buf' \in Seq(Half) /\ Len(buf) \in Nat
  BY <1>1, <1>2 DEF TypeOK
<1>4. /\ Len(buf') <= Len(buf)
      /\ \A i \in 1 .. Len(buf') : buf'[i] = buf[Len(buf) - Len(buf') + i]
  BY <1>2, <1>3
<1>5. ~cut => Len(buf') % 2 = 0
  BY <1>1, <1>2 DEF IInv, CutInv
<1>6. SessionStep
  BY <1>1, <1>2, <1>3, <1>4, <1>5 DEF SessionStep
<1>. QED  BY <1>6, SessionStepInv

LEMMA NextInv == IInv /\ [Next]_vars => IInv'
<1>. SUFFICES ASSUME IInv, [Next]_vars PROVE IInv'
  OBVIOUS
<1>1. CASE \E k \in Kinds : ClientSends(k)
  BY <1>1, ClientSendsStep
<1>2. CASE HttpOnData
  BY <1>2, HttpOnDataStep
<1>3. CASE HandleEvent
  BY <1>3, OnHttpGetStep, RefuseStep, OnSocketUpgradeStep DEF HandleEvent
<1>4. CASE WsOnData
  BY <1>4, WsOnDataStep
<1>5. CASE ParseWsFrames
  BY <1>5, FrameOkStep, FrameThrowsStep, FrameIncompleteStep, FrameOverreadStep, FrameCloseStep, FrameErrorStep
     DEF ParseWsFrames
<1>6. CASE Send
  BY <1>6, SendStep
<1>7. CASE UNCHANGED vars
  BY <1>7 DEF vars, client, IInv, TypeOK, StreamInv, Place, PhaseInv, Handshaken, EventsInv, PostsInv,
              CutInv, DiesOfCutResetOrGarble, Garbled, Kind, PoliteInv, Courteous, AnsweredInOrder, Taken
<1>. QED  BY <1>1, <1>2, <1>3, <1>4, <1>5, <1>6, <1>7 DEF Next, OnData

LEMMA Invariance == Spec => []IInv
BY InitInv, NextInv, PTL DEF Spec

------------------------------------------------------------------------------
(* Theorems *)

\* Every variable has its type, whatever clients send and however reads cut
\* the stream (Seq and record bounds included: no post is of an item that was
\* not sent).
THEOREM TypeCorrect == Spec => []TypeOK
BY Invariance, PTL DEF IInv

\* The switch of HttpHandler for WsHandler is seen in the same place by client
\* and agent: replies come before the 101 and the session's traffic after it,
\* and what is posted to the agent is one start and then frames in order.
THEOREM SwitchSeenByBoth == Spec => []SessionThenFramesInOrder
<1>1. ASSUME IInv
      PROVE  HandshakeComesFirst
  <2>1. TypeOK /\ Len(out) \in Nat
    BY <1>1, Lengths DEF IInv
  <2>2. CASE handler = "http"
    BY <1>1, <2>2 DEF IInv, PhaseInv, HandshakeComesFirst, Replies
  <2>3. CASE handler = "ws"
    <3>1. PICK u \in 1 .. Len(out) :
            /\ out[u] = "101"
            /\ \A i \in 1 .. u - 1 : out[i] \in {"200", "400"}
            /\ \A i \in u + 1 .. Len(out) : out[i] \in {"message", "close"}
      BY <1>1, <2>3 DEF IInv, PhaseInv, Handshaken
    <3>2. \A i \in 1 .. Len(out) : i \in 1 .. u - 1 \/ i = u \/ i \in u + 1 .. Len(out)
      BY <2>1
    <3>3. ASSUME NEW i \in 1 .. Len(out), out[i] \in {"message", "close"}
          PROVE  u \in 1 .. i - 1
      BY <2>1, <3>1, <3>2, <3>3
    <3>4. ASSUME NEW i \in 1 .. Len(out), out[i] = "101"
          PROVE  i = u
      BY <3>1, <3>2, <3>4
    <3>. QED  BY <2>3, <3>1, <3>3, <3>4 DEF HandshakeComesFirst, Replies
  <2>. QED  BY <2>1, <2>2, <2>3 DEF TypeOK
<1>2. ASSUME IInv
      PROVE  PostsInOrder
  <2>1. (posts # <<>>) = (handler = "ws")
    BY <1>2 DEF IInv, PhaseInv, TypeOK
  <2>. QED  BY <1>2, <2>1 DEF IInv, PostsInv, PostsInOrder
<1>3. IInv => SessionThenFramesInOrder
  BY <1>1, <1>2 DEF IInv, SessionThenFramesInOrder
<1>. QED  BY <1>3, Invariance, PTL

\* A well-behaved client's i-th reply answers its i-th request, pipelined or
\* not, wherever reads end.
THEOREM AnswersInOrder == Spec => []AnsweredInOrder
BY Invariance, PTL DEF IInv

\* The process dies only of a cut frame, a reset handler or a text that is no
\* UTF-8; in particular the
\* loop in HttpHandler::OnData never goes on with a handler it has deleted.
THEOREM DiesForAReason == Spec => []DiesOfCutResetOrGarble
BY Invariance, PTL DEF IInv, CutInv

=============================================================================
