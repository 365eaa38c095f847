-------------------------- MODULE EventLoopProofs --------------------------
(***************************************************************************)
(* Proofs about EventLoop, for every set of delays and every bound.  The   *)
(* order of the timer queue rests on the search of std::multiset for an    *)
(* insertion point (UpperBound), the rest on an inductive invariant that   *)
(* ties the queue to the timer whose handler runs.                         *)
(***************************************************************************)
EXTENDS EventLoop, SequenceTheorems, WellFoundedInduction, TLAPS

------------------------------------------------------------------------------
(* Positions in sequences: what InsertAt and RemoveAt return *)

\* A non-empty set of natural numbers has a least element.  The loops that
\* look for the first entry with some property rest on it (std::find_if in
\* eventloop.cpp:126, the search of std::multiset for an insertion point).
LEMMA LeastNatural ==
  ASSUME NEW S \in SUBSET Nat, S # {}
  PROVE  \E n \in S : \A m \in S : n <= m
<1>1. \E x \in S : \A y \in S : <<y, x>> \notin OpToRel(<, Nat)
  BY NatLessThanWellFounded, WFMin, Zenon
<1>2. \A x, y \in Nat : <<y, x>> \in OpToRel(<, Nat) <=> y < x
  BY DEF OpToRel
<1>. DEFINE R == OpToRel(<, Nat)
<1>. HIDE DEF R
<1>3. \A x \in S : (\A y \in S : <<y, x>> \notin R) => (\A y \in S : x <= y)
  <2>1. \A x, y \in Nat : <<y, x>> \in R <=> y < x
    BY <1>2 DEF R
  <2>2. ASSUME NEW x \in S, NEW y \in S, <<y, x>> \notin R
        PROVE  x <= y
    <3>1. ~(y < x)
      BY <2>1, <2>2, Zenon
    <3>. QED  BY <3>1
  <2>. QED  BY <2>2, Zenon
<1>. QED  BY <1>1, <1>3, Zenon DEF R

\* What is at position i of s after e was put in at position k.
Inserted(s, k, e, i) == IF i < k THEN s[i] ELSE IF i = k THEN e ELSE s[i - 1]

\* An insertion makes the sequence one longer, leaves the entries before the
\* position where they were and moves the others up by one (the entries of a
\* multiset around an element that is emplaced, eventloop.cpp:75, 106, 113).
LEMMA InsertAtProperties ==
  ASSUME NEW T, NEW s \in Seq(T), NEW e \in T, NEW k \in 1 .. Len(s) + 1
  PROVE  /\ InsertAt(s, k, e) \in Seq(T)
         /\ Len(InsertAt(s, k, e)) = Len(s) + 1
         /\ \A i \in 1 .. Len(s) + 1 : InsertAt(s, k, e)[i] = Inserted(s, k, e, i)
<1>. DEFINE front == SubSeq(s, 1, k - 1)
            back == SubSeq(s, k, Len(s))
<1>1. /\ front \in Seq(T)
      /\ Len(front) = k - 1
      /\ \A i \in 1 .. k - 1 : front[i] = s[i]
  OBVIOUS
<1>2. /\ back \in Seq(T)
      /\ Len(back) = Len(s) + 1 - k
      /\ \A i \in 1 .. Len(s) + 1 - k : back[i] = s[k + i - 1]
  OBVIOUS
<1>3. InsertAt(s, k, e) = (front \o <<e>>) \o back
  BY DEF InsertAt
<1>. HIDE DEF front, back
<1>4. /\ front \o <<e>> \in Seq(T)
      /\ Len(front \o <<e>>) = k
      /\ \A i \in 1 .. k : (front \o <<e>>)[i] = IF i < k THEN s[i] ELSE e
  BY <1>1
<1>. DEFINE head == front \o <<e>>
<1>. HIDE DEF head
<1>5. /\ head \o back \in Seq(T)
      /\ Len(head \o back) = Len(s) + 1
      /\ \A i \in 1 .. Len(s) + 1 :
           (head \o back)[i] = IF i <= k THEN head[i] ELSE back[i - k]
  <2>1. Len(head) = k /\ head \in Seq(T)
    BY <1>4 DEF head
  <2>2. /\ head \o back \in Seq(T)
        /\ Len(head \o back) = Len(head) + Len(back)
        /\ \A i \in 1 .. Len(head) + Len(back) :
             (head \o back)[i] = IF i <= Len(head) THEN head[i]
                                 ELSE back[i - Len(head)]
    BY <1>2, <2>1, ConcatProperties, Zenon
  <2>3. Len(head) + Len(back) = Len(s) + 1
    BY <1>2, <2>1
  <2>. QED  BY <2>1, <2>2, <2>3, Zenon
<1>6. ASSUME NEW i \in 1 .. Len(s) + 1, i > k
      PROVE  back[i - k] = s[i - 1]
  BY <1>2, <1>6
<1>. QED  BY <1>3, <1>4, <1>5, <1>6 DEF head, Inserted

\* A removal makes the sequence one shorter and moves the entries behind the
\* position down by one (multiset::erase in eventloop.cpp:69 and 129).
LEMMA RemoveAtProperties ==
  ASSUME NEW T, NEW s \in Seq(T), NEW k \in 1 .. Len(s)
  PROVE  /\ RemoveAt(s, k) \in Seq(T)
         /\ Len(RemoveAt(s, k)) = Len(s) - 1
         /\ \A i \in 1 .. Len(s) - 1 :
              RemoveAt(s, k)[i] = IF i < k THEN s[i] ELSE s[i + 1]
<1>. DEFINE front == SubSeq(s, 1, k - 1)
            back == SubSeq(s, k + 1, Len(s))
<1>1. /\ front \in Seq(T)
      /\ Len(front) = k - 1
      /\ \A i \in 1 .. k - 1 : front[i] = s[i]
  OBVIOUS
<1>2. /\ back \in Seq(T)
      /\ Len(back) = Len(s) - k
      /\ \A i \in 1 .. Len(s) - k : back[i] = s[k + i]
  OBVIOUS
<1>3. RemoveAt(s, k) = front \o back
  BY DEF RemoveAt
<1>. HIDE DEF front, back
<1>4. /\ front \o back \in Seq(T)
      /\ Len(front \o back) = Len(s) - 1
      /\ \A i \in 1 .. Len(s) - 1 :
           (front \o back)[i] = IF i < k THEN front[i] ELSE back[i - k + 1]
  <2>1. /\ front \o back \in Seq(T)
        /\ Len(front \o back) = Len(front) + Len(back)
        /\ \A i \in 1 .. Len(front) + Len(back) :
             (front \o back)[i] = IF i <= Len(front) THEN front[i]
                                  ELSE back[i - Len(front)]
    BY <1>1, <1>2, ConcatProperties, Zenon
  <2>2. Len(front) + Len(back) = Len(s) - 1
    BY <1>1, <1>2
  <2>3. ASSUME NEW i \in 1 .. Len(s) - 1
        PROVE  /\ i <= Len(front) <=> i < k
               /\ i - Len(front) = i - k + 1
    BY <1>1
  <2>. QED  BY <2>1, <2>2, <2>3
<1>5. ASSUME NEW i \in 1 .. Len(s) - 1, ~(i < k)
      PROVE  back[i - k + 1] = s[i + 1]
  BY <1>2, <1>5
<1>6. ASSUME NEW i \in 1 .. Len(s) - 1
      PROVE  (front \o back)[i] = IF i < k THEN s[i] ELSE s[i + 1]
  <2>1. CASE i < k
    <3>1. i \in 1 .. k - 1
      BY <2>1
    <3>. QED  BY <1>1, <1>4, <2>1, <3>1, Zenon
  <2>2. CASE ~(i < k)
    BY <1>4, <1>5, <2>2, Zenon
  <2>. QED  BY <2>1, <2>2, Zenon
<1>. QED  BY <1>3, <1>4, <1>6, Zenon

------------------------------------------------------------------------------
(* The timer queue *)

LEMMA DueInt == ASSUME NEW t \in Timer PROVE Due(t) \in Int
<1>1. t.next \in Int /\ t.delay \in Delays
  BY DEF Timer
<1>2. t.delay \in Int
  BY <1>1, ConstantsAssumption
<1>. QED  BY <1>1, <1>2 DEF Due

\* There is a place behind every entry that is due no later: emplace into
\* the multiset of eventloop.h:108 finds an upper bound.
LEMMA UpperBoundExists ==
  ASSUME NEW s \in Seq(Timer), NEW t \in Timer
  PROVE  /\ UpperBound(s, t) \in 1 .. Len(s) + 1
         /\ IsUpperBound(s, t, UpperBound(s, t))
<1>. DEFINE later == {k \in 1 .. Len(s) + 1 : k <= Len(s) => Due(t) < Due(s[k])}
<1>1. Due(t) \in Int /\ \A i \in 1 .. Len(s) : Due(s[i]) \in Int
  BY DueInt
<1>2. later \in SUBSET Nat /\ later # {}
  <2>1. Len(s) + 1 \in later
    OBVIOUS
  <2>. QED  BY <2>1
<1>3. PICK k \in later : \A m \in later : k <= m
  <2>. HIDE DEF later
  <2>. QED  BY <1>2, LeastNatural
<1>4. ASSUME NEW i \in 1 .. k - 1
      PROVE  Due(s[i]) <= Due(t)
  <2>1. i \in 1 .. Len(s) /\ i \notin later
    BY <1>3
  <2>. QED  BY <1>1, <2>1
<1>5. k \in 1 .. Len(s) + 1 /\ IsUpperBound(s, t, k)
  BY <1>4 DEF IsUpperBound
<1>. QED  BY <1>5 DEF UpperBound

\* What emplace leaves: the old entries in their order, with the new one
\* behind those due no later and before those due later.
LEMMA EmplaceProperties ==
  ASSUME NEW s \in Seq(Timer), NEW t \in Timer
  PROVE  /\ Emplace(s, t) \in Seq(Timer)
         /\ \E k \in 1 .. Len(s) + 1 :
              /\ IsUpperBound(s, t, k)
              /\ Len(Emplace(s, t)) = Len(s) + 1
              /\ \A i \in 1 .. Len(s) + 1 :
                   Emplace(s, t)[i] = IF i < k THEN s[i]
                                      ELSE IF i = k THEN t ELSE s[i - 1]
<1>. DEFINE k == UpperBound(s, t)
<1>1. k \in 1 .. Len(s) + 1 /\ IsUpperBound(s, t, k)
  BY UpperBoundExists
<1>2. Emplace(s, t) = InsertAt(s, k, t)
  BY DEF Emplace
<1>. HIDE DEF k
<1>3. k \in 1 .. Len(s) + 1
  BY <1>1
<1>4. /\ InsertAt(s, k, t) \in Seq(Timer)
      /\ Len(InsertAt(s, k, t)) = Len(s) + 1
      /\ \A i \in 1 .. Len(s) + 1 : InsertAt(s, k, t)[i] = Inserted(s, k, t, i)
  BY <1>3, InsertAtProperties, Zenon
<1>. QED  BY <1>1, <1>2, <1>4, Zenon DEF Inserted

\* cancel() takes out the entry of the timer, if there is one, and no other
\* (eventloop.cpp:126-130).
LEMMA EraseProperties ==
  ASSUME NEW s \in Seq(Timer), NEW id
  PROVE  /\ EraseTimer(s, id) \in Seq(Timer)
         /\ \/ /\ \A i \in 1 .. Len(s) : s[i].id # id
               /\ EraseTimer(s, id) = s
            \/ \E k \in 1 .. Len(s) :
                 /\ s[k].id = id
                 /\ Len(EraseTimer(s, id)) = Len(s) - 1
                 /\ \A i \in 1 .. Len(s) - 1 :
                      EraseTimer(s, id)[i] = IF i < k THEN s[i] ELSE s[i + 1]
<1>. DEFINE at == {i \in DOMAIN s : s[i].id = id}
<1>1. CASE at = {}
  BY <1>1 DEF EraseTimer
<1>2. CASE at # {}
  <2>. DEFINE k == CHOOSE i \in at : \A j \in at : i <= j
  <2>1. at \in SUBSET Nat
    OBVIOUS
  <2>2. k \in at
    <3>. HIDE DEF at
    <3>. QED  BY <1>2, <2>1, LeastNatural
  <2>3. k \in 1 .. Len(s) /\ s[k].id = id
    BY <2>2
  <2>4. EraseTimer(s, id) = RemoveAt(s, k)
    BY <1>2 DEF EraseTimer
  <2>. HIDE DEF k
  <2>. QED  BY <2>3, <2>4, RemoveAtProperties
<1>. QED  BY <1>1, <1>2

LEMMA TailProperties ==
  ASSUME NEW s \in Seq(Timer), s # <<>>
  PROVE  /\ Tail(s) \in Seq(Timer)
         /\ Len(Tail(s)) = Len(s) - 1
         /\ \A i \in 1 .. Len(s) - 1 : Tail(s)[i] = s[i + 1]
         /\ Len(s) \in Nat /\ Len(s) >= 1 /\ Head(s) = s[1] /\ s[1] \in Timer
OBVIOUS

\* The ids in a queue, and that no timer is in it twice.
Ids(s) == {s[i].id : i \in DOMAIN s}

Distinct(s) == \A i, j \in DOMAIN s : s[i].id = s[j].id => i = j

\* What a queue holds after an insertion, without the order.
LEMMA EmplaceIds ==
  ASSUME NEW s \in Seq(Timer), NEW t \in Timer
  PROVE  /\ Ids(Emplace(s, t)) = Ids(s) \cup {t.id}
         /\ Range(Emplace(s, t)) = Range(s) \cup {t}
         /\ Distinct(s) /\ t.id \notin Ids(s) => Distinct(Emplace(s, t))
<1>. DEFINE e == Emplace(s, t)
<1>1. PICK k \in 1 .. Len(s) + 1 :
        /\ Len(e) = Len(s) + 1
        /\ \A i \in 1 .. Len(s) + 1 :
             e[i] = IF i < k THEN s[i] ELSE IF i = k THEN t ELSE s[i - 1]
  BY EmplaceProperties, Zenon
<1>2. e \in Seq(Timer)
  BY EmplaceProperties
<1>. HIDE DEF e
<1>3. DOMAIN e = 1 .. Len(s) + 1 /\ DOMAIN s = 1 .. Len(s)
  BY <1>1, <1>2
<1>4. ASSUME NEW j \in 1 .. Len(s)
      PROVE  \E i \in DOMAIN e : e[i] = s[j]
  <2>1. CASE j < k
    BY <1>1, <1>3, <2>1
  <2>2. CASE j >= k
    <3>1. j + 1 \in 1 .. Len(s) + 1 /\ e[j + 1] = s[j]
      BY <1>1, <2>2
    <3>. QED  BY <1>3, <3>1
  <2>. QED  BY <2>1, <2>2
<1>5. e[k] = t /\ k \in DOMAIN e
  BY <1>1, <1>3
<1>6. ASSUME NEW i \in DOMAIN e, i # k
      PROVE  \E j \in 1 .. Len(s) : e[i] = s[j] /\ j = (IF i < k THEN i ELSE i - 1)
  <2>. DEFINE j == IF i < k THEN i ELSE i - 1
  <2>1. j \in 1 .. Len(s) /\ e[i] = s[j]
    BY <1>1, <1>3, <1>6
  <2>. QED  BY <2>1
<1>7. Range(e) = Range(s) \cup {t}
  BY <1>3, <1>4, <1>5, <1>6 DEF Range
<1>8. Ids(e) = Ids(s) \cup {t.id}
  <2>1. ASSUME NEW x \in Ids(e) PROVE x \in Ids(s) \cup {t.id}
    BY <1>3, <1>5, <1>6 DEF Ids
  <2>2. ASSUME NEW x \in Ids(s) \cup {t.id} PROVE x \in Ids(e)
    BY <1>3, <1>4, <1>5 DEF Ids
  <2>. QED  BY <2>1, <2>2
<1>9. ASSUME Distinct(s), t.id \notin Ids(s)
      PROVE  Distinct(e)
  <2>1. ASSUME NEW i \in DOMAIN e, NEW j \in DOMAIN e, e[i].id = e[j].id
        PROVE  i = j
    <3>1. CASE i = k \/ j = k
      BY <1>3, <1>5, <1>6, <1>9, <2>1, <3>1 DEF Ids
    <3>2. CASE i # k /\ j # k
      <4>1. /\ (IF i < k THEN i ELSE i - 1) \in 1 .. Len(s)
            /\ (IF j < k THEN j ELSE j - 1) \in 1 .. Len(s)
            /\ s[IF i < k THEN i ELSE i - 1].id = s[IF j < k THEN j ELSE j - 1].id
        BY <1>6, <2>1, <3>2
      <4>2. (IF i < k THEN i ELSE i - 1) = (IF j < k THEN j ELSE j - 1)
        BY <1>3, <1>9, <4>1 DEF Distinct
      <4>. QED  BY <1>3, <3>2, <4>2
    <3>. QED  BY <3>1, <3>2
  <2>. QED  BY <2>1 DEF Distinct
<1>. QED  BY <1>7, <1>8, <1>9 DEF e

\* What a queue holds after the entry at position k has been taken out.
LEMMA RemovalIds ==
  ASSUME NEW s \in Seq(Timer), Distinct(s), NEW r \in Seq(Timer),
         NEW k \in 1 .. Len(s), Len(r) = Len(s) - 1,
         \A i \in 1 .. Len(s) - 1 : r[i] = IF i < k THEN s[i] ELSE s[i + 1]
  PROVE  /\ Ids(r) = Ids(s) \ {s[k].id}
         /\ Range(r) \subseteq Range(s)
         /\ Distinct(r)
<1>1. DOMAIN r = 1 .. Len(s) - 1 /\ DOMAIN s = 1 .. Len(s)
  OBVIOUS
<1>2. ASSUME NEW i \in DOMAIN r
      PROVE  \E j \in DOMAIN s : r[i] = s[j] /\ j # k /\ j = (IF i < k THEN i ELSE i + 1)
  BY <1>1
<1>3. ASSUME NEW j \in DOMAIN s, j # k
      PROVE  \E i \in DOMAIN r : r[i] = s[j]
  <2>1. CASE j < k
    BY <1>1, <2>1
  <2>2. CASE j > k
    <3>1. j - 1 \in DOMAIN r /\ r[j - 1] = s[j]
      BY <1>1, <2>2
    <3>. QED  BY <3>1
  <2>. QED  BY <1>1, <1>3, <2>1, <2>2
<1>4. \A j \in DOMAIN s : j # k <=> s[j].id # s[k].id
  BY <1>1 DEF Distinct
<1>5. Ids(r) = Ids(s) \ {s[k].id}
  BY <1>2, <1>3, <1>4 DEF Ids
<1>6. Range(r) \subseteq Range(s)
  BY <1>2 DEF Range
<1>7. Distinct(r)
  <2>1. ASSUME NEW i \in DOMAIN r, NEW j \in DOMAIN r, r[i].id = r[j].id
        PROVE  i = j
    <3>1. /\ (IF i < k THEN i ELSE i + 1) \in DOMAIN s
          /\ (IF j < k THEN j ELSE j + 1) \in DOMAIN s
          /\ s[IF i < k THEN i ELSE i + 1].id = s[IF j < k THEN j ELSE j + 1].id
      BY <1>2, <2>1
    <3>2. (IF i < k THEN i ELSE i + 1) = (IF j < k THEN j ELSE j + 1)
      BY <3>1 DEF Distinct
    <3>. QED  BY <1>1, <3>2
  <2>. QED  BY <2>1 DEF Distinct
<1>. QED  BY <1>5, <1>6, <1>7

\* Clearing a timer takes its id out of the queue and no other.
LEMMA EraseIds ==
  ASSUME NEW s \in Seq(Timer), Distinct(s), NEW id
  PROVE  /\ Ids(EraseTimer(s, id)) = Ids(s) \ {id}
         /\ Range(EraseTimer(s, id)) \subseteq Range(s)
         /\ Distinct(EraseTimer(s, id))
<1>. DEFINE r == EraseTimer(s, id)
<1>1. CASE (\A i \in 1 .. Len(s) : s[i].id # id) /\ r = s
  <2>. HIDE DEF r
  <2>1. id \notin Ids(s)
    BY <1>1 DEF Ids
  <2>. QED  BY <1>1, <2>1 DEF r
<1>2. ASSUME NEW k \in 1 .. Len(s), s[k].id = id, Len(r) = Len(s) - 1,
             \A i \in 1 .. Len(s) - 1 : r[i] = IF i < k THEN s[i] ELSE s[i + 1]
      PROVE  Ids(r) = Ids(s) \ {id} /\ Range(r) \subseteq Range(s) /\ Distinct(r)
  <2>1. r \in Seq(Timer)
    BY EraseProperties
  <2>. HIDE DEF r
  <2>. QED  BY <1>2, <2>1, RemovalIds
<1>3. CASE \E k \in 1 .. Len(s) :
             /\ s[k].id = id
             /\ Len(r) = Len(s) - 1
             /\ \A i \in 1 .. Len(s) - 1 : r[i] = IF i < k THEN s[i] ELSE s[i + 1]
  BY <1>2, <1>3
<1>. QED  BY <1>1, <1>3, EraseProperties

\* The first entry leaves when its handler starts.
LEMMA TailIds ==
  ASSUME NEW s \in Seq(Timer), s # <<>>, Distinct(s)
  PROVE  /\ Ids(Tail(s)) = Ids(s) \ {Head(s).id}
         /\ Range(Tail(s)) \subseteq Range(s)
         /\ Distinct(Tail(s))
         /\ Head(s) \in Range(s)
<1>1. /\ Tail(s) \in Seq(Timer)
      /\ Len(Tail(s)) = Len(s) - 1
      /\ \A i \in 1 .. Len(s) - 1 : Tail(s)[i] = IF i < 1 THEN s[i] ELSE s[i + 1]
  BY TailProperties
<1>2. 1 \in 1 .. Len(s) /\ Head(s) = s[1]
  BY TailProperties
<1>3. /\ Ids(Tail(s)) = Ids(s) \ {s[1].id}
      /\ Range(Tail(s)) \subseteq Range(s)
      /\ Distinct(Tail(s))
  <2>. DEFINE r == Tail(s)
  <2>. HIDE DEF r
  <2>. QED  BY <1>1, <1>2, RemovalIds DEF r
<1>. QED  BY <1>2, <1>3 DEF Range

------------------------------------------------------------------------------
(* Types *)

\* next + delay is a time.
LEMMA NextIsInt == frame.next \in Int /\ frame.delay \in Int => NextOfInterval \in Int
<1>1. frame.next \in Int /\ frame.delay \in Int => frame.next + frame.delay \in Int
  OBVIOUS
<1>. QED  BY <1>1, Zenon DEF NextOfInterval

\* The frame that TimerReturns puts back is an interval's.
TypeInv ==
  /\ TypeOK
  /\ frame.kind = "interval" => frame.delay \in Delays

LEMMA TypeInit == Init => TypeInv
BY ConstantsAssumption DEF Init, TypeInv, TypeOK, NoFrame, TimerIds, Kinds

LEMMA TypeStep == TypeInv /\ [Next]_vars => TypeInv'
<1>. SUFFICES ASSUME TypeInv, [Next]_vars
              PROVE  TypeInv'
  OBVIOUS
<1>. USE ConstantsAssumption DEF TypeInv, TypeOK, Kinds
<1>1. CASE Tick
  BY <1>1 DEF Tick, loopVars, history
<1>2. CASE PushTask
  <2>1. posted + 1 \in 1 .. MaxTasks
    BY <1>2 DEF PushTask
  <2>2. taskQueue' \in Seq(1 .. MaxTasks)
    BY <1>2, <2>1 DEF PushTask
  <2>. QED  BY <1>2, <2>1, <2>2 DEF PushTask, loopVars, history
<1>3. CASE RacyPush
  BY <1>3 DEF RacyPush, loopVars, history
<1>4. CASE RunTask
  <2>1. taskQueue' \in Seq(1 .. MaxTasks)
    BY <1>4 DEF RunTask
  <2>. QED  BY <1>4, <2>1 DEF RunTask, loopVars, history
<1>5. CASE TaskReturns \/ TasksDrained \/ NoTimerDue
  BY <1>5 DEF TaskReturns, TasksDrained, NoTimerDue, loopVars, history
<1>6. CASE FireTimer
  <2>1. Head(timers) \in Timer /\ timers' \in Seq(Timer)
    BY <1>6, TailProperties DEF FireTimer
  <2>2. PICK t \in Timer : /\ currentTimerId' = t.id
                           /\ frame' = [next |-> t.next, delay |-> t.delay, kind |-> t.kind]
                           /\ fires' = IF MovesOn(t) THEN [fires EXCEPT ![t.id] = @ + 1]
                                       ELSE fires
    BY <1>6, <2>1 DEF FireTimer
  <2>3. t.id \in TimerIds /\ t.next \in Int /\ t.delay \in Delays /\ t.kind \in Kinds
    BY DEF Timer
  <2>4. fires' \in [TimerIds -> Nat]
    BY <2>2, <2>3
  <2>5. currentTimerId' \in 0 .. MaxTimers
    BY <2>2, <2>3 DEF TimerIds
  <2>6. /\ frame' \in [next : Int, delay : Delays \cup {0}, kind : Kinds]
        /\ frame'.delay \in Delays
    BY <2>2, <2>3
  <2>. QED  BY <1>6, <2>1, <2>4, <2>5, <2>6 DEF FireTimer
<1>7. CASE TimerReturns
  <2>. DEFINE t == [id |-> currentTimerId, next |-> NextOfInterval,
                    delay |-> frame.delay, kind |-> frame.kind]
  <2>1. timers' \in Seq(Timer)
    <3>1. CASE frame.kind = "interval" /\ currentTimerId > 0
      <4>1. t \in Timer
        <5>1. currentTimerId \in TimerIds
          BY <3>1 DEF TimerIds
        <5>2. NextOfInterval \in Int
          <6>1. frame.next \in Int /\ frame.delay \in Delays \cup {0}
            OBVIOUS
          <6>2. \A d \in Delays \cup {0} : d \in Int
            OBVIOUS
          <6>3. frame.delay \in Int
            BY <6>1, <6>2, Zenon
          <6>. QED  BY <6>1, <6>3, NextIsInt
        <5>. QED  BY <3>1, <5>1, <5>2 DEF Timer
      <4>. HIDE DEF t
      <4>2. Emplace(timers, t) \in Seq(Timer)
        BY <4>1, EmplaceProperties
      <4>. QED  BY <1>7, <3>1, <4>2 DEF TimerReturns, HandlerReturns, t
    <3>2. CASE ~(frame.kind = "interval" /\ currentTimerId > 0)
      BY <1>7, <3>2 DEF TimerReturns, HandlerReturns
    <3>. QED  BY <3>1, <3>2
  <2>. QED  BY <1>7, <2>1 DEF TimerReturns, HandlerReturns, NoFrame, history
<1>8. ASSUME NEW delay \in Delays, NEW p \in Kinds, AddTimer(delay, p)
      PROVE  TypeInv'
  <2>. DEFINE t == [id |-> nextTimerId, next |-> now, delay |-> delay, kind |-> p]
  <2>1. nextTimerId \in TimerIds
    BY <1>8 DEF AddTimer, TimerIds
  <2>2. t \in Timer
    BY <2>1 DEF Timer
  <2>3. timers' \in Seq(Timer)
    <3>. HIDE DEF t
    <3>1. Emplace(timers, t) \in Seq(Timer)
      BY <2>2, EmplaceProperties
    <3>. QED  BY <1>8, <3>1 DEF AddTimer, t
  <2>. QED  BY <1>8, <2>1, <2>3 DEF AddTimer, TimerIds
<1>9. ASSUME NEW id \in 0 .. MaxTimers, ClearTimeout(id)
      PROVE  TypeInv'
  <2>1. timers' \in Seq(Timer) /\ currentTimerId' \in 0 .. MaxTimers
    BY <1>9, EraseProperties DEF ClearTimeout
  <2>2. cancelled' \subseteq TimerIds
    <3>1. ASSUME NEW i \in DOMAIN timers PROVE timers[i].id \in TimerIds
      <4>1. timers[i] \in Timer
        OBVIOUS
      <4>. QED  BY <4>1 DEF Timer
    <3>2. Pending \subseteq TimerIds /\ {currentTimerId} \ {0} \subseteq TimerIds
      BY <3>1 DEF Pending, TimerIds
    <3>. QED  BY <1>9, <3>2 DEF ClearTimeout
  <2>. QED  BY <1>9, <2>1, <2>2 DEF ClearTimeout
<1>10. CASE UNCHANGED vars
  BY <1>10 DEF vars, loopVars, history
<1>. QED
  BY <1>1, <1>2, <1>3, <1>4, <1>5, <1>6, <1>7, <1>8, <1>9, <1>10
     DEF Next, LoopStep, Script, SetTimeout, SetInterval

\* Every reachable state of the loop has the types the code declares.
THEOREM TypeCorrect == Spec => []TypeOK
<1>1. TypeInv => TypeOK
  BY DEF TypeInv
<1>. QED  BY TypeInit, TypeStep, <1>1, PTL DEF Spec

------------------------------------------------------------------------------
(* Which timers are alive *)

\* Ids are given out in order, and a timer that was never created never ran.
GivenOut ==
  /\ \A id \in Ids(timers) \cup cancelled : id < nextTimerId
  /\ currentTimerId < nextTimerId
  /\ \A id \in TimerIds : id >= nextTimerId => fires[id] = 0

\* _currentTimerId is set exactly while a handler may be put back.
Idle == pc # "handler" => currentTimerId = 0 /\ frame = NoFrame

\* A one-shot has not run while it is queued, and has run once afterwards.
OneShots ==
  /\ \A t \in Range(timers) : t.kind = "timeout" => fires[t.id] = 0
  /\ currentTimerId > 0 /\ frame.kind = "timeout" => fires[currentTimerId] = 1

\* Stronger than its three last conjuncts, which say which timers live: a
\* handler's return needs to know what its start has recorded.
LoopInv ==
  /\ TypeInv
  /\ GivenOut
  /\ Idle
  /\ OneShots
  /\ OneEntryPerTimer
  /\ ClearedStaysCleared
  /\ NoTimerLost

\* The two readings of the queue's ids.
LEMMA QueuedIds ==
  /\ Pending = Ids(timers)
  /\ OneEntryPerTimer <=> Distinct(timers) /\ currentTimerId \notin Ids(timers)
BY DEF Pending, Ids, OneEntryPerTimer, Distinct

LEMMA LoopInit == Init => LoopInv
<1>. SUFFICES ASSUME Init PROVE LoopInv
  OBVIOUS
<1>1. TypeInv
  BY TypeInit
<1>2. Ids(timers) = {} /\ Range(timers) = {} /\ Pending = {}
  BY DEF Init, Ids, Range, Pending
<1>. QED
  BY <1>1, <1>2, ConstantsAssumption
     DEF Init, LoopInv, GivenOut, Idle, OneShots, OneEntryPerTimer, ClearedStaysCleared,
         NoTimerLost, TimerIds, NoFrame

\* Every step keeps LoopInv: the start of a handler moves its timer from the
\* queue to _currentTimerId, the return moves an interval back, and clearing
\* drops it from whichever of the two it is in.
LEMMA LoopInvStep == LoopInv /\ [Next]_vars => LoopInv'
<1>. SUFFICES ASSUME LoopInv, [Next]_vars
              PROVE  LoopInv'
  OBVIOUS
<1>0. TypeInv'
  BY TypeStep DEF LoopInv
<1>. DEFINE Rest == /\ GivenOut
                    /\ Idle
                    /\ OneShots
                    /\ Distinct(timers) /\ currentTimerId \notin Ids(timers)
                    /\ cancelled \cap Ids(timers) = {}
                    /\ currentTimerId \notin cancelled
                    /\ \A id \in 1 .. nextTimerId - 1 :
                         \/ id \in Ids(timers) \cup {currentTimerId} \cup cancelled
                         \/ fires[id] = 1
<1>1. Rest
  BY QueuedIds DEF LoopInv, ClearedStaysCleared, NoTimerLost
<1>2. SUFFICES Rest'
  <2>1. /\ Pending' = Ids(timers)'
        /\ OneEntryPerTimer' <=> (Distinct(timers) /\ currentTimerId \notin Ids(timers))'
    BY DEF Pending, Ids, OneEntryPerTimer, Distinct
  <2>. QED  BY <1>0, <2>1 DEF LoopInv, ClearedStaysCleared, NoTimerLost
<1>3. /\ timers \in Seq(Timer)
      /\ \A t \in Range(timers) : t \in Timer
      /\ currentTimerId \in 0 .. MaxTimers
      /\ nextTimerId \in 1 .. MaxTimers + 1
      /\ fires \in [TimerIds -> Nat]
      /\ frame.next \in Int /\ frame.delay \in Delays \cup {0} /\ frame.kind \in Kinds
      /\ frame.kind = "interval" => frame.delay \in Delays
      /\ cancelled \subseteq TimerIds
      /\ MaxTimers \in Nat
  BY ConstantsAssumption DEF LoopInv, TypeInv, TypeOK, Range
<1>4. Ids(timers) \subseteq TimerIds /\ 0 \notin Ids(timers) /\ 0 \notin cancelled
  <2>1. ASSUME NEW i \in DOMAIN timers PROVE timers[i].id \in TimerIds
    <3>1. timers[i] \in Timer
      BY <1>3
    <3>. QED  BY <3>1 DEF Timer
  <2>. QED  BY <1>3, <2>1 DEF Ids, TimerIds
<1>5. ASSUME UNCHANGED <<loopVars, history>>,
             pc = "handler" => pc' = "handler"
      PROVE  Rest'
  BY <1>1, <1>5 DEF loopVars, history, GivenOut, Idle, OneShots
<1>6. CASE Tick \/ PushTask \/ RacyPush \/ RunTask \/ TaskReturns \/ TasksDrained \/ NoTimerDue
  BY <1>5, <1>6
     DEF Tick, PushTask, RacyPush, RunTask, TaskReturns, TasksDrained, NoTimerDue
<1>7. CASE FireTimer
  <2>. DEFINE t == Head(timers)
  <2>1. /\ Ids(timers') = Ids(timers) \ {t.id}
        /\ Range(timers') \subseteq Range(timers)
        /\ Distinct(timers')
        /\ t \in Range(timers)
        /\ currentTimerId = 0
    BY <1>1, <1>3, <1>7, TailIds DEF FireTimer, Idle
  <2>2. t.id \in Ids(timers) /\ t.id \in TimerIds /\ t \in Timer /\ t.kind \in Kinds
    BY <1>3, <2>1 DEF Ids, Range, Timer
  <2>3. /\ currentTimerId' = t.id
        /\ frame'.kind = t.kind
        /\ nextTimerId' = nextTimerId /\ cancelled' = cancelled
        /\ pc' = "handler"
        /\ \A id \in TimerIds : id # t.id => fires'[id] = fires[id]
        /\ t.kind = "timeout" => fires'[t.id] = fires[t.id] + 1
    BY <1>3, <1>7, <2>2 DEF FireTimer, MovesOn
  <2>. HIDE DEF t
  <2>4. GivenOut'
    BY <1>1, <1>3, <2>1, <2>2, <2>3 DEF GivenOut, TimerIds
  <2>5. OneShots'
    <3>1. ASSUME NEW u \in Range(timers')
          PROVE  u \in Range(timers) /\ u.id \in TimerIds /\ u.id # t.id
      <4>1. u.id \in Ids(timers')
        BY DEF Range, Ids
      <4>. QED  BY <1>3, <2>1, <4>1 DEF Timer
    <3>2. t.kind = "timeout" => fires'[t.id] = 1
      BY <1>1, <2>1, <2>3 DEF OneShots
    <3>. QED  BY <1>1, <2>3, <3>1, <3>2 DEF OneShots
  <2>6. \A id \in 1 .. nextTimerId - 1 :
          \/ id \in Ids(timers') \cup {currentTimerId'} \cup cancelled'
          \/ fires'[id] = 1
    BY <1>1, <1>3, <2>1, <2>2, <2>3 DEF TimerIds
  <2>. QED  BY <1>1, <2>1, <2>2, <2>3, <2>4, <2>5, <2>6 DEF Idle
<1>8. CASE TimerReturns
  <2>1. /\ currentTimerId' = 0 /\ frame' = NoFrame /\ pc' = "poll"
        /\ nextTimerId' = nextTimerId /\ cancelled' = cancelled /\ fires' = fires
    BY <1>8 DEF TimerReturns, HandlerReturns, history
  <2>2. Idle' /\ 0 \notin cancelled /\ 0 \notin Ids(timers)
    BY <1>4, <2>1 DEF Idle
  <2>3. CASE frame.kind = "interval" /\ currentTimerId > 0
    <3>. DEFINE t == [id |-> currentTimerId, next |-> NextOfInterval,
                      delay |-> frame.delay, kind |-> frame.kind]
    <3>1. t \in Timer
      <4>1. \A d \in Delays : d \in Int
        BY ConstantsAssumption
      <4>2. currentTimerId \in TimerIds /\ NextOfInterval \in Int
        BY <1>3, <2>3, <4>1, NextIsInt DEF TimerIds
      <4>. QED  BY <1>3, <2>3, <4>2 DEF Timer
    <3>2. timers' = Emplace(timers, t) /\ t.id = currentTimerId /\ t.kind = "interval"
      BY <1>8, <2>3 DEF TimerReturns, HandlerReturns
    <3>. HIDE DEF t
    <3>3. /\ Ids(timers') = Ids(timers) \cup {currentTimerId}
          /\ Range(timers') = Range(timers) \cup {t}
          /\ Distinct(timers')
      BY <1>1, <1>3, <3>1, <3>2, EmplaceIds
    <3>4. GivenOut' /\ OneShots'
      BY <1>1, <1>3, <2>1, <3>2, <3>3 DEF GivenOut, OneShots, NoFrame
    <3>5. 0 \notin Ids(timers')
      BY <2>2, <2>3, <3>3
    <3>. QED  BY <1>1, <2>1, <2>2, <3>3, <3>4, <3>5
  <2>4. CASE ~(frame.kind = "interval" /\ currentTimerId > 0)
    <3>1. timers' = timers
      BY <1>8, <2>4 DEF TimerReturns, HandlerReturns
    <3>2. currentTimerId = 0 \/ fires[currentTimerId] = 1
      BY <1>1, <1>3, <2>4 DEF OneShots, Kinds
    <3>3. GivenOut' /\ OneShots'
      BY <1>1, <1>3, <2>1, <3>1 DEF GivenOut, OneShots, NoFrame
    <3>. QED  BY <1>1, <2>1, <2>2, <3>1, <3>2, <3>3
  <2>. QED  BY <2>3, <2>4
<1>9. ASSUME NEW delay \in Delays, NEW kind \in Kinds, AddTimer(delay, kind)
      PROVE  Rest'
  <2>. DEFINE t == [id |-> nextTimerId, next |-> now, delay |-> delay, kind |-> kind]
  <2>1. nextTimerId \in TimerIds /\ now \in Int
    BY <1>3, <1>9 DEF AddTimer, TimerIds, LoopInv, TypeInv, TypeOK
  <2>2. t \in Timer /\ t.id = nextTimerId
    BY <2>1 DEF Timer
  <2>3. /\ timers' = Emplace(timers, t)
        /\ currentTimerId' = currentTimerId /\ frame' = frame /\ pc' = pc
        /\ nextTimerId' = nextTimerId + 1 /\ cancelled' = cancelled /\ fires' = fires
    BY <1>9 DEF AddTimer
  <2>. HIDE DEF t
  <2>4. nextTimerId \notin Ids(timers) /\ nextTimerId \notin cancelled
    BY <1>1, <1>3 DEF GivenOut
  <2>5. /\ Ids(timers') = Ids(timers) \cup {nextTimerId}
        /\ Range(timers') = Range(timers) \cup {t}
        /\ Distinct(timers')
    BY <1>1, <1>3, <2>2, <2>3, <2>4, EmplaceIds
  <2>6. fires[nextTimerId] = 0 /\ nextTimerId # currentTimerId
    BY <1>1, <1>3, <2>1 DEF GivenOut
  <2>7. GivenOut'
    <3>1. \A id \in Ids(timers) \cup cancelled : id \in Int
      <4>1. Ids(timers) \cup cancelled \subseteq TimerIds
        BY <1>3, <1>4, Zenon
      <4>2. TimerIds \subseteq Int
        BY DEF TimerIds
      <4>. QED  BY <4>1, <4>2, Zenon
    <3>2. \A id \in Ids(timers') \cup cancelled' : id < nextTimerId'
      BY <1>1, <1>3, <2>3, <2>5, <3>1 DEF GivenOut
    <3>3. currentTimerId' < nextTimerId'
      BY <1>1, <1>3, <2>3 DEF GivenOut
    <3>4. \A id \in TimerIds : id >= nextTimerId' => fires'[id] = 0
      BY <1>1, <1>3, <2>3 DEF GivenOut, TimerIds
    <3>. QED  BY <3>2, <3>3, <3>4 DEF GivenOut
  <2>8. OneShots'
    BY <1>1, <2>2, <2>3, <2>5, <2>6 DEF OneShots
  <2>9. Idle'
    BY <1>1, <2>3 DEF Idle
  <2>. QED  BY <1>1, <1>3, <2>3, <2>4, <2>5, <2>6, <2>7, <2>8, <2>9
<1>10. ASSUME NEW id \in 0 .. MaxTimers, ClearTimeout(id)
      PROVE  Rest'
  <2>1. /\ nextTimerId' = nextTimerId /\ fires' = fires /\ frame' = frame /\ pc' = pc
        /\ cancelled' = cancelled \cup ({id} \cap (Ids(timers) \cup ({currentTimerId} \ {0})))
    BY <1>10, QueuedIds DEF ClearTimeout
  <2>2. 0 \notin cancelled /\ 0 \notin Ids(timers)
    BY <1>4
  <2>3. CASE currentTimerId = id
    <3>1. timers' = timers /\ currentTimerId' = 0
      BY <1>10, <2>3 DEF ClearTimeout
    <3>2. GivenOut' /\ Idle' /\ OneShots'
      BY <1>1, <1>3, <2>1, <2>3, <3>1 DEF GivenOut, Idle, OneShots
    <3>. QED  BY <1>1, <2>1, <2>2, <2>3, <3>1, <3>2
  <2>4. CASE currentTimerId # id
    <3>1. timers' = EraseTimer(timers, id) /\ currentTimerId' = currentTimerId
      BY <1>10, <2>4 DEF ClearTimeout
    <3>2. /\ Ids(timers') = Ids(timers) \ {id}
          /\ Range(timers') \subseteq Range(timers)
          /\ Distinct(timers')
      BY <1>1, <1>3, <3>1, EraseIds
    <3>3. GivenOut' /\ Idle' /\ OneShots'
      BY <1>1, <2>1, <3>1, <3>2 DEF GivenOut, Idle, OneShots
    <3>. QED  BY <1>1, <2>1, <2>4, <3>1, <3>2, <3>3
  <2>. QED  BY <2>3, <2>4
<1>11. CASE UNCHANGED vars
  BY <1>5, <1>11 DEF vars
<1>. QED
  BY <1>6, <1>7, <1>8, <1>9, <1>10, <1>11
     DEF Next, LoopStep, Script, SetTimeout, SetInterval, Kinds

LEMMA LoopInvariant == Spec => []LoopInv
BY LoopInit, LoopInvStep, PTL DEF Spec

\* No timer is queued twice, and none is queued while its handler runs.
THEOREM OneEntryAlways == Spec => []OneEntryPerTimer
<1>1. LoopInv => OneEntryPerTimer
  BY DEF LoopInv
<1>. QED  BY LoopInvariant, <1>1, PTL

\* clearTimeout is final, whoever calls it and when: the queue never holds a
\* cleared timer again, not even an interval that cleared itself.
THEOREM ClearedForGood == Spec => []ClearedStaysCleared
<1>1. LoopInv => ClearedStaysCleared
  BY DEF LoopInv
<1>. QED  BY LoopInvariant, <1>1, PTL

\* Every timer a script creates stays accounted for.
THEOREM NoTimerEverLost == Spec => []NoTimerLost
<1>1. LoopInv => NoTimerLost
  BY DEF LoopInv
<1>. QED  BY LoopInvariant, <1>1, PTL

------------------------------------------------------------------------------
(* The order of the queue *)

\* a may stand before b.
Before(a, b) ==
  \/ Due(a) < Due(b)
  \/ /\ Due(a) = Due(b)
     /\ a.kind = "timeout" /\ b.kind = "timeout" => a.id < b.id

Ordered(s) == \A i, j \in DOMAIN s : i < j => Before(s[i], s[j])

LEMMA QueueOrdered == FirstDueFirst <=> Ordered(timers)
BY DEF FirstDueFirst, Ordered, Before

\* The upper bound keeps the order: what stands before it is due no later,
\* what stands behind it is due strictly later.  A one-shot is newer than
\* every queued timer; an interval may stand anywhere among equals.
LEMMA EmplaceOrdered ==
  ASSUME NEW s \in Seq(Timer), Ordered(s), NEW t \in Timer,
         t.kind = "timeout" => \A i \in DOMAIN s : s[i].id < t.id
  PROVE  Ordered(Emplace(s, t))
<1>. DEFINE e == Emplace(s, t)
<1>1. PICK k \in 1 .. Len(s) + 1 :
        /\ IsUpperBound(s, t, k)
        /\ Len(e) = Len(s) + 1
        /\ \A i \in 1 .. Len(s) + 1 :
             e[i] = IF i < k THEN s[i] ELSE IF i = k THEN t ELSE s[i - 1]
  BY EmplaceProperties, Zenon
<1>2. e \in Seq(Timer)
  BY EmplaceProperties
<1>. HIDE DEF e
<1>3. DOMAIN e = 1 .. Len(s) + 1 /\ DOMAIN s = 1 .. Len(s)
  BY <1>1, <1>2
<1>4. Due(t) \in Int /\ \A i \in DOMAIN s : Due(s[i]) \in Int
  BY DueInt
<1>5. ASSUME NEW i \in DOMAIN s, i < k
      PROVE  Before(s[i], t)
  <2>1. Due(s[i]) <= Due(t)
    BY <1>1, <1>3, <1>5 DEF IsUpperBound
  <2>2. t.kind = "timeout" => s[i].id < t.id
    OBVIOUS
  <2>. QED  BY <1>4, <2>1, <2>2 DEF Before
<1>6. ASSUME NEW j \in DOMAIN s, j >= k
      PROVE  Before(t, s[j])
  <2>1. k \in DOMAIN s /\ Due(t) < Due(s[k])
    BY <1>1, <1>3, <1>6 DEF IsUpperBound
  <2>2. CASE j = k
    BY <2>1, <2>2 DEF Before
  <2>3. CASE j > k
    <3>1. Before(s[k], s[j])
      BY <2>1, <2>3 DEF Ordered
    <3>2. Due(s[k]) <= Due(s[j])
      BY <1>4, <2>1, <3>1 DEF Before
    <3>. QED  BY <1>4, <2>1, <3>2 DEF Before
  <2>. QED  BY <1>3, <1>6, <2>2, <2>3
<1>7. ASSUME NEW i \in DOMAIN e, NEW j \in DOMAIN e, i < j
      PROVE  Before(e[i], e[j])
  <2>1. CASE i < k /\ j < k
    <3>1. i \in DOMAIN s /\ j \in DOMAIN s /\ e[i] = s[i] /\ e[j] = s[j]
      BY <1>1, <1>3, <2>1
    <3>. QED  BY <1>7, <3>1 DEF Ordered
  <2>2. CASE i < k /\ j = k
    <3>1. i \in DOMAIN s /\ e[i] = s[i] /\ e[j] = t
      BY <1>1, <1>3, <2>2
    <3>. QED  BY <1>5, <2>2, <3>1
  <2>3. CASE i < k /\ j > k
    <3>1. i \in DOMAIN s /\ j - 1 \in DOMAIN s /\ e[i] = s[i] /\ e[j] = s[j - 1] /\ i < j - 1
      BY <1>1, <1>3, <2>3
    <3>. QED  BY <3>1 DEF Ordered
  <2>4. CASE i = k
    <3>1. j - 1 \in DOMAIN s /\ e[i] = t /\ e[j] = s[j - 1] /\ j - 1 >= k
      BY <1>1, <1>3, <1>7, <2>4
    <3>. QED  BY <1>6, <3>1
  <2>5. CASE i > k
    <3>1. /\ i - 1 \in DOMAIN s /\ j - 1 \in DOMAIN s /\ i - 1 < j - 1
          /\ e[i] = s[i - 1] /\ e[j] = s[j - 1]
      BY <1>1, <1>3, <1>7, <2>5
    <3>. QED  BY <3>1 DEF Ordered
  <2>. QED  BY <1>3, <1>7, <2>1, <2>2, <2>3, <2>4, <2>5
<1>. QED  BY <1>7 DEF Ordered, e

\* A removal keeps the order.
LEMMA RemovalOrdered ==
  ASSUME NEW s \in Seq(Timer), Ordered(s), NEW r \in Seq(Timer),
         NEW k \in 1 .. Len(s), Len(r) = Len(s) - 1,
         \A i \in 1 .. Len(s) - 1 : r[i] = IF i < k THEN s[i] ELSE s[i + 1]
  PROVE  Ordered(r)
<1>. DEFINE at(i) == IF i < k THEN i ELSE i + 1
<1>1. ASSUME NEW i \in DOMAIN r, NEW j \in DOMAIN r, i < j
      PROVE  Before(r[i], r[j])
  <2>1. /\ at(i) \in DOMAIN s /\ at(j) \in DOMAIN s /\ at(i) < at(j)
        /\ r[i] = s[at(i)] /\ r[j] = s[at(j)]
    BY <1>1
  <2>. HIDE DEF at
  <2>. QED  BY <2>1 DEF Ordered
<1>. QED  BY <1>1 DEF Ordered

LEMMA EraseOrdered ==
  ASSUME NEW s \in Seq(Timer), Ordered(s), NEW id
  PROVE  Ordered(EraseTimer(s, id))
<1>. DEFINE r == EraseTimer(s, id)
<1>1. CASE r = s
  BY <1>1
<1>2. ASSUME NEW k \in 1 .. Len(s), Len(r) = Len(s) - 1,
             \A i \in 1 .. Len(s) - 1 : r[i] = IF i < k THEN s[i] ELSE s[i + 1]
      PROVE  Ordered(r)
  <2>1. r \in Seq(Timer)
    BY EraseProperties
  <2>. HIDE DEF r
  <2>. QED  BY <1>2, <2>1, RemovalOrdered
<1>. QED  BY <1>1, <1>2, EraseProperties

LEMMA TailOrdered ==
  ASSUME NEW s \in Seq(Timer), s # <<>>, Ordered(s)
  PROVE  Ordered(Tail(s))
<1>. DEFINE r == Tail(s)
<1>1. /\ r \in Seq(Timer)
      /\ Len(r) = Len(s) - 1
      /\ \A i \in 1 .. Len(s) - 1 : r[i] = IF i < 1 THEN s[i] ELSE s[i + 1]
      /\ 1 \in 1 .. Len(s)
  BY TailProperties
<1>. HIDE DEF r
<1>2. Ordered(r)
  BY <1>1, RemovalOrdered
<1>. QED  BY <1>2 DEF r

LEMMA OrderStep == LoopInv /\ Ordered(timers) /\ [Next]_vars => Ordered(timers)'
<1>. SUFFICES ASSUME LoopInv, Ordered(timers), [Next]_vars
              PROVE  Ordered(timers')
  BY DEF Ordered, Before, Due
<1>1. /\ timers \in Seq(Timer) /\ now \in Int
      /\ currentTimerId \in 0 .. MaxTimers /\ nextTimerId \in 1 .. MaxTimers + 1
      /\ frame.next \in Int /\ frame.kind \in Kinds
      /\ frame.kind = "interval" => frame.delay \in Delays
      /\ \A i \in DOMAIN timers : timers[i].id < nextTimerId
  BY ConstantsAssumption DEF LoopInv, TypeInv, TypeOK, GivenOut, Ids
<1>2. CASE timers' = timers
  BY <1>2
<1>3. CASE FireTimer
  BY <1>1, <1>3, TailOrdered DEF FireTimer
<1>4. CASE TimerReturns
  <2>1. CASE frame.kind = "interval" /\ currentTimerId > 0
    <3>. DEFINE t == [id |-> currentTimerId, next |-> NextOfInterval,
                      delay |-> frame.delay, kind |-> frame.kind]
    <3>1. t \in Timer
      <4>1. \A d \in Delays : d \in Int
        BY ConstantsAssumption
      <4>2. currentTimerId \in TimerIds /\ NextOfInterval \in Int
        BY <1>1, <2>1, <4>1, NextIsInt DEF TimerIds
      <4>. QED  BY <1>1, <2>1, <4>2 DEF Timer
    <3>2. timers' = Emplace(timers, t) /\ t.kind # "timeout"
      BY <1>4, <2>1 DEF TimerReturns, HandlerReturns
    <3>. HIDE DEF t
    <3>. QED  BY <1>1, <3>1, <3>2, EmplaceOrdered
  <2>2. CASE ~(frame.kind = "interval" /\ currentTimerId > 0)
    BY <1>4, <2>2 DEF TimerReturns, HandlerReturns
  <2>. QED  BY <2>1, <2>2
<1>5. ASSUME NEW delay \in Delays, NEW kind \in Kinds, AddTimer(delay, kind)
      PROVE  Ordered(timers')
  <2>. DEFINE t == [id |-> nextTimerId, next |-> now, delay |-> delay, kind |-> kind]
  <2>1. nextTimerId \in TimerIds
    BY <1>1, <1>5 DEF AddTimer, TimerIds
  <2>2. t \in Timer /\ t.id = nextTimerId
    BY <1>1, <2>1 DEF Timer
  <2>3. timers' = Emplace(timers, t)
    BY <1>5 DEF AddTimer
  <2>. HIDE DEF t
  <2>. QED  BY <1>1, <2>2, <2>3, EmplaceOrdered
<1>6. ASSUME NEW id \in 0 .. MaxTimers, ClearTimeout(id)
      PROVE  Ordered(timers')
  BY <1>1, <1>6, EraseOrdered DEF ClearTimeout
<1>7. CASE Tick \/ PushTask \/ RacyPush \/ RunTask \/ TaskReturns \/ TasksDrained \/ NoTimerDue
            \/ UNCHANGED vars
  BY <1>2, <1>7 DEF Tick, PushTask, RacyPush, RunTask, TaskReturns, TasksDrained, NoTimerDue,
                    loopVars, vars
<1>. QED
  BY <1>3, <1>4, <1>5, <1>6, <1>7
     DEF Next, LoopStep, Script, SetTimeout, SetInterval, Kinds

\* The first entry is always one of those due first, and one-shots due at the
\* same instant start in the order of their creation.
THEOREM OrderedAlways == Spec => []FirstDueFirst
<1>1. Init => Ordered(timers)
  BY DEF Init, Ordered
<1>. QED  BY LoopInvariant, <1>1, OrderStep, QueueOrdered, PTL DEF Spec

------------------------------------------------------------------------------
(* The schedule of an interval *)

\* The timer whose handler runs is on schedule too: `next + delay`, the next_
\* it will be put back with, is one delay before the due time of its next start.
ScheduleInv ==
  /\ \A t \in Range(timers) : Due(t) = origin[t.id] + (fires[t.id] + 1) * t.delay
  /\ currentTimerId > 0 /\ frame.kind = "interval"
       => NextOfInterval = origin[currentTimerId] + fires[currentTimerId] * frame.delay

\* The start of a handler counts exactly when its timer will move on.
LEMMA FrameOfTimer ==
  ASSUME NEW t, frame' = [next |-> t.next, delay |-> t.delay, kind |-> t.kind]
  PROVE  NextOfInterval' = IF MovesOn(t) THEN t.next + t.delay ELSE t.next
<1>1. frame'.next = t.next /\ frame'.delay = t.delay /\ frame'.kind = t.kind
  OBVIOUS
<1>. HIDE DEF NextOfInterval
<1>2. MovesOn(frame)' <=> MovesOn(t)
  BY <1>1 DEF MovesOn, Due
<1>. QED  BY <1>1, <1>2, Zenon DEF NextOfInterval

\* One period more.
LEMMA NextPeriod == \A n, d \in Int : (n + 1) * d = n * d + d /\ n * d \in Int
OBVIOUS

LEMMA ScheduleStep == LoopInv /\ ScheduleInv /\ [Next]_vars => ScheduleInv'
<1>. SUFFICES ASSUME LoopInv, ScheduleInv, [Next]_vars
              PROVE  ScheduleInv'
  OBVIOUS
<1>1. /\ timers \in Seq(Timer) /\ now \in Int
      /\ currentTimerId \in 0 .. MaxTimers /\ nextTimerId \in 1 .. MaxTimers + 1
      /\ frame.next \in Int /\ frame.delay \in Int /\ frame.kind \in Kinds
      /\ frame.kind = "interval" => frame.delay \in Delays
      /\ origin \in [TimerIds -> Int] /\ fires \in [TimerIds -> Nat]
      /\ \A d \in Delays : d \in Int
      /\ Distinct(timers) /\ currentTimerId \notin Ids(timers)
  <2>1. \A d \in Delays \cup {0} : d \in Int
    BY ConstantsAssumption
  <2>2. frame.delay \in Delays \cup {0} /\ frame.next \in Int /\ frame.kind \in Kinds
    BY DEF LoopInv, TypeInv, TypeOK
  <2>3. frame.delay \in Int
    BY <2>1, <2>2, Zenon
  <2>. QED
    BY <2>1, <2>2, <2>3, ConstantsAssumption, QueuedIds DEF LoopInv, TypeInv, TypeOK
<1>2. ASSUME NEW t \in Range(timers)
      PROVE  t \in Timer /\ t.id \in Ids(timers) /\ t.id \in TimerIds /\ t.next \in Int
             /\ t.delay \in Int /\ t.kind \in Kinds /\ t.id < nextTimerId
  <2>1. PICK i \in DOMAIN timers : t = timers[i]
    BY DEF Range
  <2>2. t \in Timer /\ t.id \in Ids(timers)
    BY <1>1, <2>1 DEF Ids
  <2>3. t.delay \in Int
    BY <1>1, <2>2 DEF Timer
  <2>. QED  BY <2>2, <2>3 DEF Timer, LoopInv, GivenOut
<1>3. ASSUME UNCHANGED <<timers, origin, fires>>,
             \/ UNCHANGED <<currentTimerId, frame>>
             \/ currentTimerId' = 0
      PROVE  ScheduleInv'
  BY <1>3 DEF ScheduleInv, Due, NextOfInterval, MovesOn
<1>4. CASE FireTimer
  <2>. DEFINE t == Head(timers)
  <2>1. /\ Ids(timers') = Ids(timers) \ {t.id}
        /\ Range(timers') \subseteq Range(timers)
        /\ t \in Range(timers)
    BY <1>1, <1>4, TailIds DEF FireTimer
  <2>2. /\ currentTimerId' = t.id /\ origin' = origin
        /\ frame' = [next |-> t.next, delay |-> t.delay, kind |-> t.kind]
        /\ fires' = IF MovesOn(t) THEN [fires EXCEPT ![t.id] = @ + 1] ELSE fires
    BY <1>4 DEF FireTimer
  <2>. HIDE DEF t
  <2>3. ASSUME NEW u \in Range(timers')
        PROVE  Due(u) = origin'[u.id] + (fires'[u.id] + 1) * u.delay
    <3>1. u.id \in Ids(timers') /\ u \in Range(timers) /\ u.id \in TimerIds
      BY <1>2, <2>1 DEF Range, Ids
    <3>2. fires'[u.id] = fires[u.id]
      BY <1>1, <2>1, <2>2, <3>1
    <3>. QED  BY <2>2, <3>1, <3>2 DEF ScheduleInv
  <2>4. t.next + t.delay = origin[t.id] + (fires[t.id] + 1) * t.delay
    BY <2>1 DEF ScheduleInv, Due
  <2>5. NextOfInterval' = origin[t.id] + fires'[t.id] * t.delay
    <3>1. /\ t.id \in TimerIds /\ origin[t.id] \in Int /\ fires[t.id] \in Int
          /\ t.next \in Int /\ t.delay \in Int
      BY <1>1, <1>2, <2>1
    <3>2. NextOfInterval' = IF MovesOn(t) THEN t.next + t.delay ELSE t.next
      BY <2>2, FrameOfTimer
    <3>3. CASE ~MovesOn(t)
      <4>1. fires'[t.id] = fires[t.id] /\ NextOfInterval' = t.next
        BY <2>2, <3>2, <3>3
      <4>2. /\ (fires[t.id] + 1) * t.delay = fires[t.id] * t.delay + t.delay
            /\ fires[t.id] * t.delay \in Int
        BY <3>1, NextPeriod, Zenon
      <4>3. t.next = origin[t.id] + fires[t.id] * t.delay
        <5>. DEFINE with == (fires[t.id] + 1) * t.delay
                    without == fires[t.id] * t.delay
        <5>1. with = without + t.delay /\ without \in Int /\ t.next + t.delay = origin[t.id] + with
          BY <2>4, <4>2, Zenon
        <5>. HIDE DEF with, without
        <5>2. t.next = origin[t.id] + without
          BY <3>1, <5>1
        <5>. QED  BY <5>2 DEF without
      <4>4. fires'[t.id] * t.delay = fires[t.id] * t.delay
        BY <4>1, Zenon
      <4>. QED  BY <4>1, <4>3, <4>4, Zenon
    <3>4. CASE MovesOn(t)
      <4>1. fires'[t.id] = fires[t.id] + 1 /\ NextOfInterval' = t.next + t.delay
        BY <1>1, <2>2, <3>1, <3>2, <3>4
      <4>. QED  BY <2>4, <4>1
    <3>. QED  BY <3>3, <3>4
  <2>. QED  BY <2>2, <2>3, <2>5 DEF ScheduleInv, Due
<1>5. CASE TimerReturns
  <2>1. CASE frame.kind = "interval" /\ currentTimerId > 0
    <3>. DEFINE t == [id |-> currentTimerId, next |-> NextOfInterval,
                      delay |-> frame.delay, kind |-> frame.kind]
    <3>1. /\ t \in Timer /\ currentTimerId \in TimerIds
          /\ t.id = currentTimerId /\ t.delay = frame.delay
          /\ Due(t) = NextOfInterval + frame.delay /\ NextOfInterval \in Int
      <4>1. currentTimerId \in TimerIds /\ NextOfInterval \in Int
        BY <1>1, <2>1, NextIsInt DEF TimerIds
      <4>. QED  BY <1>1, <2>1, <4>1 DEF Timer, Due
    <3>2. timers' = Emplace(timers, t) /\ currentTimerId' = 0 /\ UNCHANGED <<origin, fires>>
      BY <1>5, <2>1 DEF TimerReturns, HandlerReturns, history
    <3>. HIDE DEF t
    <3>3. Range(timers') = Range(timers) \cup {t}
      BY <1>1, <3>1, <3>2, EmplaceIds
    <3>4. Due(t) = origin[t.id] + (fires[t.id] + 1) * t.delay
      <4>1. origin[t.id] \in Int /\ fires[t.id] \in Int
        BY <1>1, <3>1
      <4>2. NextOfInterval = origin[t.id] + fires[t.id] * frame.delay
        BY <2>1, <3>1 DEF ScheduleInv
      <4>3. NextOfInterval \in Int /\ frame.delay \in Int
        BY <1>1, <3>1
      <4>4. /\ (fires[t.id] + 1) * frame.delay = fires[t.id] * frame.delay + frame.delay
            /\ fires[t.id] * frame.delay \in Int
        BY <4>1, <4>3, NextPeriod, Zenon
      <4>5. NextOfInterval + frame.delay = origin[t.id] + (fires[t.id] + 1) * frame.delay
        BY <4>1, <4>2, <4>3, <4>4
      <4>. QED  BY <3>1, <4>5
    <3>. QED  BY <3>2, <3>3, <3>4 DEF ScheduleInv, Due
  <2>2. CASE ~(frame.kind = "interval" /\ currentTimerId > 0)
    BY <1>3, <1>5, <2>2 DEF TimerReturns, HandlerReturns, history
  <2>. QED  BY <2>1, <2>2
<1>6. ASSUME NEW delay \in Delays, NEW kind \in Kinds, AddTimer(delay, kind)
      PROVE  ScheduleInv'
  <2>. DEFINE t == [id |-> nextTimerId, next |-> now, delay |-> delay, kind |-> kind]
  <2>1. nextTimerId \in TimerIds
    BY <1>1, <1>6 DEF AddTimer, TimerIds
  <2>2. t \in Timer /\ t.id = nextTimerId /\ t.delay = delay /\ Due(t) = now + delay /\ delay \in Int
    BY <1>1, <2>1 DEF Timer, Due
  <2>3. timers' = Emplace(timers, t) /\ origin' = [origin EXCEPT ![nextTimerId] = now]
        /\ UNCHANGED <<fires, currentTimerId, frame>>
    BY <1>6 DEF AddTimer
  <2>. HIDE DEF t
  <2>4. Range(timers') = Range(timers) \cup {t}
    BY <1>1, <2>2, <2>3, EmplaceIds
  <2>5. fires[nextTimerId] = 0 /\ currentTimerId < nextTimerId
    BY <1>1, <2>1 DEF LoopInv, GivenOut
  <2>6. Due(t) = origin'[t.id] + (fires[t.id] + 1) * t.delay
    BY <1>1, <2>1, <2>2, <2>3, <2>5
  <2>7. ASSUME NEW u \in Range(timers)
        PROVE  Due(u) = origin'[u.id] + (fires[u.id] + 1) * u.delay
    <3>1. u.id # nextTimerId /\ u.id \in TimerIds
      BY <1>1, <1>2 DEF TimerIds
    <3>2. origin'[u.id] = origin[u.id]
      BY <1>1, <2>3, <3>1
    <3>. QED  BY <3>2 DEF ScheduleInv
  <2>8. currentTimerId > 0 => origin'[currentTimerId] = origin[currentTimerId]
    BY <1>1, <2>3, <2>5 DEF TimerIds
  <2>. QED  BY <2>3, <2>4, <2>6, <2>7, <2>8 DEF ScheduleInv, Due, NextOfInterval, MovesOn
<1>7. ASSUME NEW id \in 0 .. MaxTimers, ClearTimeout(id)
      PROVE  ScheduleInv'
  <2>1. UNCHANGED <<origin, fires, frame>> /\ currentTimerId' \in {0, currentTimerId}
    BY <1>7 DEF ClearTimeout
  <2>2. Range(timers') \subseteq Range(timers)
    BY <1>1, <1>7, EraseIds DEF ClearTimeout
  <2>. QED  BY <2>1, <2>2 DEF ScheduleInv, Due, NextOfInterval, MovesOn
<1>8. CASE Tick \/ PushTask \/ RacyPush \/ RunTask \/ TaskReturns \/ TasksDrained \/ NoTimerDue
            \/ UNCHANGED vars
  BY <1>3, <1>8 DEF Tick, PushTask, RacyPush, RunTask, TaskReturns, TasksDrained, NoTimerDue,
                    loopVars, history, vars
<1>. QED
  BY <1>4, <1>5, <1>6, <1>7, <1>8
     DEF Next, LoopStep, Script, SetTimeout, SetInterval, Kinds

\* An interval never drifts and never skips a period, and a queued one-shot
\* has never run, whatever delays the handlers ran with.
THEOREM OnScheduleAlways == Spec => []OnSchedule
<1>1. Init => ScheduleInv
  BY DEF Init, ScheduleInv, Range
<1>2. LoopInv /\ ScheduleInv => OnSchedule
  BY DEF LoopInv, OneShots, ScheduleInv, OnSchedule, Range
<1>. QED  BY LoopInvariant, <1>1, ScheduleStep, <1>2, PTL DEF Spec
============================================================================
