-------------------------- MODULE JsiHandlesProofs --------------------------
(***************************************************************************)
(* Proofs about JsiHandles, for any number of variables, JavaScript        *)
(* objects, host objects and PointerValues.  Every operation of jsi.h is   *)
(* one of a few moves of handles: a handle is made, cloned, passed on or   *)
(* given up.  So ownership is proved of the moves, and each operation is   *)
(* shown to be one.                                                        *)
(***************************************************************************)
EXTENDS JsiHandles, TLAPS

Types == {"none", "pointer", "value"}
Kinds == {"none", "undefined", "string", "object", "name"}
Refs  == Objs \union {Str, Name}

HandleType == [type : Types, kind : Kinds, ptr : PVs \union {Null}]

\* The variables and the PointerValues, by themselves.
SlotsOK(sl, v) ==
  /\ sl \in [Slots -> HandleType]
  /\ v \in [PVs -> Refs \union {Null}]
  /\ \A s \in Slots : sl[s].type = "none" => sl[s].ptr = Null
  /\ \A s \in Slots : sl[s].ptr # Null => v[sl[s].ptr] # Null
  /\ \A s, t \in Slots : sl[s].ptr = sl[t].ptr /\ s # t => sl[s].ptr = Null
  /\ \A p \in PVs : v[p] # Null => \E s \in Slots : sl[s].ptr = p
  /\ \A s \in Slots : sl[s].ptr # Null => sl[s].kind = KindOf(v[sl[s].ptr])

------------------------------------------------------------------------------
(* The moves of handles *)

\* Null is no PointerValue and nothing one refers to; kinds are of no use for it.
LEMMA NullFacts ==
  /\ Null \notin PVs /\ Null \notin Refs
  /\ \A r \in Refs : KindOf(r) \in Kinds /\ KindOf(r) # "none" /\ KindOf(r) # "undefined"
BY HandlesAssumption DEF Refs, Objs, Hosts, KindOf, Kinds

\* Variables that own nothing change to what owns nothing.
LEMMA NothingMoves ==
  ASSUME NEW sl, NEW v, NEW sl2, SlotsOK(sl, v), sl2 \in [Slots -> HandleType],
         \A s \in Slots : sl2[s] = sl[s] \/ (sl[s].ptr = Null /\ sl2[s].ptr = Null)
  PROVE  SlotsOK(sl2, v)
BY DEF SlotsOK

\* A new PointerValue, or a clone, in a variable that owned nothing.
LEMMA Gives ==
  ASSUME NEW sl, NEW v, SlotsOK(sl, v),
         NEW s \in Slots, sl[s].ptr = Null,
         NEW p \in PVs, v[p] = Null, NEW r \in Refs,
         NEW type \in Types \ {"none"}
  PROVE  SlotsOK([sl EXCEPT ![s] = [type |-> type, kind |-> KindOf(r), ptr |-> p]],
                 [v EXCEPT ![p] = r])
<1>. DEFINE sl2 == [sl EXCEPT ![s] = [type |-> type, kind |-> KindOf(r), ptr |-> p]]
            v2  == [v EXCEPT ![p] = r]
<1>1. [type |-> type, kind |-> KindOf(r), ptr |-> p] \in HandleType
  BY NullFacts DEF HandleType
<1>2. sl2 \in [Slots -> HandleType] /\ v2 \in [PVs -> Refs \union {Null}]
  BY <1>1 DEF SlotsOK
<1>3. /\ sl2[s] = [type |-> type, kind |-> KindOf(r), ptr |-> p]
      /\ \A t \in Slots : t # s => sl2[t] = sl[t]
  BY DEF SlotsOK
<1>4. v2[p] = r /\ \A q \in PVs : q # p => v2[q] = v[q]
  BY DEF SlotsOK
<1>5. p # Null /\ r # Null
  BY NullFacts
<1>6. \A t \in Slots : sl[t].ptr \in PVs \union {Null} /\ sl[t].ptr # p
  BY <1>5 DEF SlotsOK, HandleType
<1>7. sl2[s].ptr = p /\ sl2[s].kind = KindOf(r) /\ sl2[s].type # "none"
  BY <1>3
<1>. HIDE DEF sl2, v2
<1>8. \A t \in Slots : sl2[t].type = "none" => sl2[t].ptr = Null
  BY <1>3, <1>7 DEF SlotsOK
<1>9. \A t \in Slots : sl2[t].ptr # Null => v2[sl2[t].ptr] # Null /\ sl2[t].kind = KindOf(v2[sl2[t].ptr])
  <2>1. v2[sl2[s].ptr] # Null /\ sl2[s].kind = KindOf(v2[sl2[s].ptr])
    BY <1>4, <1>5, <1>7
  <2>2. ASSUME NEW t \in Slots, t # s, sl2[t].ptr # Null
        PROVE  v2[sl2[t].ptr] # Null /\ sl2[t].kind = KindOf(v2[sl2[t].ptr])
    <3>1. sl2[t] = sl[t] /\ sl[t].ptr \in PVs /\ sl[t].ptr # p
      BY <1>3, <1>6, <2>2
    <3>2. v2[sl[t].ptr] = v[sl[t].ptr]
      BY <1>4, <3>1
    <3>. QED  BY <2>2, <3>1, <3>2 DEF SlotsOK
  <2>. QED  BY <2>1, <2>2
<1>10. \A t, u \in Slots : sl2[t].ptr = sl2[u].ptr /\ t # u => sl2[t].ptr = Null
  <2>1. \A t \in Slots : t # s => sl2[t].ptr = sl[t].ptr /\ sl2[t].ptr # sl2[s].ptr
    BY <1>3, <1>6, <1>7
  <2>2. \A t, u \in Slots : sl[t].ptr = sl[u].ptr /\ t # u => sl[t].ptr = Null
    BY DEF SlotsOK
  <2>. QED  BY <2>1, <2>2
<1>11. ASSUME NEW q \in PVs, v2[q] # Null
       PROVE  \E t \in Slots : sl2[t].ptr = q
  <2>1. CASE q = p
    BY <1>7, <2>1
  <2>2. CASE q # p
    <3>1. v[q] # Null
      BY <1>4, <1>11, <2>2
    <3>2. PICK t \in Slots : sl[t].ptr = q
      BY <3>1 DEF SlotsOK
    <3>3. t # s
      BY <3>2, NullFacts
    <3>. QED  BY <1>3, <3>2, <3>3
  <2>. QED  BY <2>1, <2>2
<1>. QED  BY <1>2, <1>8, <1>9, <1>10, <1>11 DEF SlotsOK, sl2, v2

\* The handle of t goes to s, which owned nothing, and t is left with none.
LEMMA Passes ==
  ASSUME NEW sl, NEW v, NEW sl2, SlotsOK(sl, v), sl2 \in [Slots -> HandleType],
         NEW s \in Slots, NEW t \in Slots, s # t, sl[s].ptr = Null,
         sl2[s].ptr = sl[t].ptr, sl2[s].kind = sl[t].kind, sl2[s].type # "none",
         sl2[t].ptr = Null,
         \A u \in Slots : u # s /\ u # t => sl2[u] = sl[u]
  PROVE  SlotsOK(sl2, v)
<1>1. \A u \in Slots : sl2[u].type = "none" => sl2[u].ptr = Null
  BY DEF SlotsOK
<1>2. \A u \in Slots : sl2[u].ptr # Null => v[sl2[u].ptr] # Null /\ sl2[u].kind = KindOf(v[sl2[u].ptr])
  BY DEF SlotsOK
<1>3. \A u, w \in Slots : sl2[u].ptr = sl2[w].ptr /\ u # w => sl2[u].ptr = Null
  BY DEF SlotsOK
<1>4. \A q \in PVs : v[q] # Null => \E u \in Slots : sl2[u].ptr = q
  BY NullFacts DEF SlotsOK
<1>. QED  BY <1>1, <1>2, <1>3, <1>4 DEF SlotsOK

\* The variables X give up what they own, and it is deleted.
GiveUp(X, sl, v, sl2, v2) ==
  /\ X \in SUBSET Slots
  /\ sl2 \in [Slots -> HandleType] /\ v2 \in [PVs -> Refs \union {Null}]
  /\ \A s \in X : sl2[s].ptr = Null
  /\ \A s \in Slots \ X : sl2[s] = sl[s]
  /\ \A p \in PVs : v2[p] = IF \E s \in X : sl[s].ptr = p THEN Null ELSE v[p]

LEMMA Releases ==
  ASSUME NEW X, NEW sl, NEW v, NEW sl2, NEW v2, SlotsOK(sl, v), GiveUp(X, sl, v, sl2, v2)
  PROVE  SlotsOK(sl2, v2)
<1>2. \A s \in Slots \ X : sl[s].ptr # Null => v2[sl[s].ptr] = v[sl[s].ptr]
  BY DEF SlotsOK, GiveUp, HandleType
<1>3. \A s \in Slots : sl2[s].ptr # Null => s \in Slots \ X /\ sl2[s] = sl[s]
  BY DEF GiveUp
<1>4. \A p \in PVs : v2[p] # Null => v[p] # Null /\ \A s \in X : sl[s].ptr # p
  BY DEF GiveUp
<1>5. \A p \in PVs : v2[p] # Null => \E s \in Slots : sl2[s].ptr = p
  BY <1>4 DEF SlotsOK, GiveUp
<1>6. \A s \in Slots : sl2[s].type = "none" => sl2[s].ptr = Null
  BY DEF SlotsOK, GiveUp
<1>7. \A s \in Slots : sl2[s].ptr # Null => v2[sl2[s].ptr] # Null /\ sl2[s].kind = KindOf(v2[sl2[s].ptr])
  BY <1>2, <1>3 DEF SlotsOK, GiveUp
<1>8. \A s, t \in Slots : sl2[s].ptr = sl2[t].ptr /\ s # t => sl2[s].ptr = Null
  BY <1>3 DEF SlotsOK, GiveUp
<1>. QED  BY <1>5, <1>6, <1>7, <1>8 DEF SlotsOK, GiveUp

------------------------------------------------------------------------------
(* Every operation is made of moves *)

Owned == SlotsOK(slot, pv)

LEMMA OwnedInit == Init => Owned
<1>1. None \in HandleType /\ None.ptr = Null
  BY DEF None, HandleType, Types, Kinds
<1>. QED  BY <1>1 DEF Init, Owned, SlotsOK

\* What a variable may own, and the types of what operations write to it.
LEMMA HandleFacts ==
  ASSUME Owned
  PROVE  /\ \A s \in Slots : /\ slot[s] \in HandleType
                             /\ slot[s].type \in Types /\ slot[s].kind \in Kinds
                             /\ slot[s].ptr \in PVs \union {Null}
                             /\ slot[s].type = "none" => slot[s].ptr = Null
         /\ \A s \in Slots : slot[s].ptr # Null => pv[slot[s].ptr] \in Refs
         /\ \A s \in Slots : slot[s].ptr # Null => slot[s].kind = KindOf(pv[slot[s].ptr])
         /\ \A type \in Types, kind \in Kinds, ptr \in PVs \union {Null} :
              [type |-> type, kind |-> kind, ptr |-> ptr] \in HandleType
         /\ None \in HandleType /\ Undefined \in HandleType
         /\ None.ptr = Null /\ Undefined.ptr = Null /\ Undefined.type = "value"
BY DEF Owned, SlotsOK, HandleType, None, Undefined, ValueOf, Types, Kinds

LEMMA MakeGives ==
  ASSUME Owned, NEW s \in Slots, slot[s].ptr = Null, NEW type \in {"pointer", "value"},
         NEW ref \in Refs, Make(s, type, ref)
  PROVE  Owned'
<1>1. PICK p \in Unused :
        /\ pv' = [pv EXCEPT ![p] = ref]
        /\ slot' = [slot EXCEPT ![s] = [type |-> type, kind |-> KindOf(ref), ptr |-> p]]
  BY DEF Make
<1>2. p \in PVs /\ pv[p] = Null /\ type \in Types \ {"none"}
  BY DEF Unused, Types
<1>. QED  BY <1>1, <1>2, Gives DEF Owned

LEMMA CopyGives ==
  ASSUME Owned, NEW s \in Slots, NEW t \in Slots, slot[s].ptr = Null,
         NEW type \in {"pointer", "value"}, Copy(s, t, type)
  PROVE  Owned'
<1>1. PICK q \in PVs \union {Null} :
        /\ Clone(slot[t].ptr, q)
        /\ slot' = [slot EXCEPT ![s] = [type |-> type, kind |-> slot[t].kind, ptr |-> q]]
  BY DEF Copy
<1>2. type \in Types \ {"none"} /\ slot[t].kind \in Kinds
  BY HandleFacts DEF Types
<1>3. CASE slot[t].ptr = Null
  <2>1. q = Null /\ pv' = pv
    BY <1>1, <1>3 DEF Clone
  <2>2. [type |-> type, kind |-> slot[t].kind, ptr |-> q] \in HandleType
    BY <1>2, HandleFacts
  <2>. DEFINE new == [type |-> type, kind |-> slot[t].kind, ptr |-> q]
  <2>3. new.ptr = Null /\ new \in HandleType /\ slot' = [slot EXCEPT ![s] = new]
    BY <1>1, <2>1, <2>2
  <2>. HIDE DEF new
  <2>4. /\ slot' \in [Slots -> HandleType]
        /\ \A u \in Slots : slot'[u] = slot[u] \/ (slot[u].ptr = Null /\ slot'[u].ptr = Null)
    BY <2>3 DEF Owned, SlotsOK
  <2>5. SlotsOK(slot', pv)
    BY <2>4, NothingMoves DEF Owned
  <2>. QED  BY <2>1, <2>5 DEF Owned
<1>4. CASE slot[t].ptr # Null
  <2>1. q \in PVs /\ pv[q] = Null /\ pv' = [pv EXCEPT ![q] = pv[slot[t].ptr]]
    BY <1>1, <1>4 DEF Clone, Unused
  <2>2. pv[slot[t].ptr] \in Refs /\ slot[t].kind = KindOf(pv[slot[t].ptr])
    BY <1>4, HandleFacts
  <2>. QED  BY <1>1, <1>2, <2>1, <2>2, Gives DEF Owned
<1>. QED  BY <1>3, <1>4

LEMMA DestructReleases ==
  ASSUME Owned, NEW H, Destruct(H)
  PROVE  Owned'
<1>. DEFINE X == MembersOf(H)
<1>1. X \in SUBSET Slots
  BY DEF MembersOf, Slots
<1>2. /\ slot' \in [Slots -> HandleType]
      /\ \A s \in X : slot'[s].ptr = Null
      /\ \A s \in Slots \ X : slot'[s] = slot[s]
  BY <1>1, HandleFacts DEF Destruct
<1>3. /\ pv' \in [PVs -> Refs \union {Null}]
      /\ \A p \in PVs : pv'[p] = IF \E s \in X : slot[s].ptr = p THEN Null ELSE pv[p]
  BY DEF Destruct, Invalidate, Owned, SlotsOK
<1>4. GiveUp(X, slot, pv, slot', pv')
  BY <1>1, <1>2, <1>3 DEF GiveUp
<1>. QED  BY <1>4, Releases DEF Owned

\* The variable s gives up what it owns and then takes what t has, which is
\* left with nothing: the two assignment operators.
LEMMA AssignMoves ==
  ASSUME Owned, NEW s \in Slots, NEW t \in Slots,
         pv' = Invalidate({slot[s].ptr}), slot' \in [Slots -> HandleType],
         slot'[t].ptr = Null,
         s # t => /\ slot'[s].ptr = slot[t].ptr /\ slot'[s].kind = slot[t].kind
                  /\ slot'[s].type # "none",
         \A u \in Slots : u # s /\ u # t => slot'[u] = slot[u]
  PROVE  Owned'
<1>. DEFINE sl == [slot EXCEPT ![s] = Undefined]
<1>1. /\ sl \in [Slots -> HandleType] /\ sl[s].ptr = Null
      /\ \A u \in Slots : u # s => sl[u] = slot[u]
  BY HandleFacts DEF Owned, SlotsOK
<1>2. /\ pv' \in [PVs -> Refs \union {Null}]
      /\ \A p \in PVs : pv'[p] = IF slot[s].ptr = p THEN Null ELSE pv[p]
  BY DEF Invalidate, Owned, SlotsOK
<1>. HIDE DEF sl
<1>3. CASE s = t
  <2>1. GiveUp({s}, slot, pv, slot', pv')
    BY <1>2, <1>3 DEF GiveUp
  <2>. QED  BY <2>1, Releases DEF Owned
<1>4. CASE s # t
  <2>1. SlotsOK(sl, pv')
    <3>1. GiveUp({s}, slot, pv, sl, pv')
      BY <1>1, <1>2 DEF GiveUp
    <3>. QED  BY <3>1, Releases DEF Owned
  <2>2. /\ slot'[s].ptr = sl[t].ptr /\ slot'[s].kind = sl[t].kind
        /\ \A u \in Slots : u # s /\ u # t => slot'[u] = sl[u]
    BY <1>1, <1>4
  <2>. QED  BY <1>1, <1>4, <2>1, <2>2, Passes DEF Owned
<1>. QED  BY <1>3, <1>4

\* The handle of t goes to s, as the moves and the getters pass it on.
LEMMA MovePasses ==
  ASSUME Owned, NEW s \in Slots, NEW t \in Slots, s # t, slot[s].ptr = Null,
         slot' \in [Slots -> HandleType], UNCHANGED pv,
         slot'[s].ptr = slot[t].ptr, slot'[s].kind = slot[t].kind, slot'[s].type # "none",
         slot'[t].ptr = Null,
         \A u \in Slots : u # s /\ u # t => slot'[u] = slot[u]
  PROVE  Owned'
BY Passes DEF Owned

LEMMA SlotStepOwned ==
  ASSUME Owned, prop \in [Objs -> Objs \union {Null}], SlotStep
  PROVE  Owned'
<1>. PICK s \in Slots :
       \/ NewString(s) \/ NewPropNameID(s) \/ NewObject(s) \/ GlobalObject(s) \/ NewScalar(s) \/ Destroy(s)
       \/ \E t \in Slots :
            \/ MovePointer(s, t) \/ AssignPointer(s, t) \/ PointerToValue(s, t)
            \/ MoveValue(s, t) \/ AssignValue(s, t)
            \/ CopyValue(s, t) \/ CopyToValue(s, t) \/ CopyToPointer(s, t)
            \/ CopyPointer(s, t) \/ StealPointer(s, t)
            \/ GetProperty(s, t) \/ GetPropertyAsObject(s, t) \/ SetProperty(s, t)
  BY DEF SlotStep
<1>1. slot \in [Slots -> HandleType]
  BY DEF Owned, SlotsOK
<1>2. Str \in Refs /\ Name \in Refs /\ Global \in Refs /\ Plain \subseteq Refs /\ Objs \subseteq Refs
  BY DEF Refs, Objs
<1>3. IsFree(s) => slot[s].type = "none" /\ slot[s].ptr = Null
  BY HandleFacts DEF IsFree
<1>4. CASE NewString(s) \/ NewPropNameID(s) \/ NewObject(s) \/ GlobalObject(s)
  BY <1>2, <1>3, <1>4, MakeGives DEF NewString, NewPropNameID, CreateString, NewObject, GlobalObject
<1>5. CASE NewScalar(s)
  <2>1. /\ slot' \in [Slots -> HandleType] /\ UNCHANGED pv
        /\ \A u \in Slots : slot'[u] = slot[u] \/ (slot[u].ptr = Null /\ slot'[u].ptr = Null)
    BY <1>1, <1>3, <1>5, HandleFacts DEF NewScalar
  <2>. QED  BY <2>1, NothingMoves DEF Owned
<1>6. CASE Destroy(s)
  <2>1. GiveUp({s}, slot, pv, slot', pv')
    BY <1>1, <1>6, HandleFacts DEF Destroy, Invalidate, GiveUp, Owned, SlotsOK
  <2>. QED  BY <2>1, Releases DEF Owned
<1>7. ASSUME NEW t \in Slots,
             MovePointer(s, t) \/ PointerToValue(s, t) \/ MoveValue(s, t) \/ StealPointer(s, t)
      PROVE  Owned'
  <2>1. s # t /\ slot[s].ptr = Null /\ UNCHANGED pv
    BY <1>3, <1>7 DEF MovePointer, PointerToValue, MoveValue, StealPointer, IsFree, IsPointer, IsValue
  <2>2. CASE MovePointer(s, t)
    <3>1. /\ slot' \in [Slots -> HandleType]
          /\ slot'[s].ptr = slot[t].ptr /\ slot'[s].kind = slot[t].kind /\ slot'[s].type # "none"
          /\ slot'[t].ptr = Null
          /\ \A u \in Slots : u # s /\ u # t => slot'[u] = slot[u]
      BY <1>1, <2>1, <2>2 DEF MovePointer, IsPointer, HandleType
    <3>. QED  BY <2>1, <3>1, MovePasses
  <2>3. CASE PointerToValue(s, t)
    <3>1. /\ slot' \in [Slots -> HandleType]
          /\ slot'[s].ptr = slot[t].ptr /\ slot'[s].kind = slot[t].kind /\ slot'[s].type # "none"
          /\ slot'[t].ptr = Null
          /\ \A u \in Slots : u # s /\ u # t => slot'[u] = slot[u]
      BY <1>1, <2>1, <2>3 DEF PointerToValue, ValueOf, HandleType, Types
    <3>. QED  BY <2>1, <3>1, MovePasses
  <2>4. CASE MoveValue(s, t)
    <3>1. /\ slot' \in [Slots -> HandleType]
          /\ slot'[s].ptr = slot[t].ptr /\ slot'[s].kind = slot[t].kind /\ slot'[s].type # "none"
          /\ slot'[t].ptr = Null
          /\ \A u \in Slots : u # s /\ u # t => slot'[u] = slot[u]
      BY <1>1, <2>1, <2>4, HandleFacts DEF MoveValue, IsValue
    <3>. QED  BY <2>1, <3>1, MovePasses
  <2>5. CASE StealPointer(s, t)
    <3>1. /\ slot' \in [Slots -> HandleType]
          /\ slot'[s].ptr = slot[t].ptr /\ slot'[s].kind = slot[t].kind /\ slot'[s].type # "none"
          /\ slot'[t].ptr = Null
          /\ \A u \in Slots : u # s /\ u # t => slot'[u] = slot[u]
      BY <1>1, <2>1, <2>5 DEF StealPointer, PointerTo, HandleType, Types
    <3>. QED  BY <2>1, <3>1, MovePasses
  <2>. QED  BY <1>7, <2>2, <2>3, <2>4, <2>5
<1>8. ASSUME NEW t \in Slots, AssignPointer(s, t)
      PROVE  Owned'
  <2>1. /\ pv' = Invalidate({slot[s].ptr}) /\ slot' \in [Slots -> HandleType]
        /\ slot'[t].ptr = Null
        /\ s # t => /\ slot'[s].ptr = slot[t].ptr /\ slot'[s].kind = slot[t].kind
                    /\ slot'[s].type # "none"
        /\ \A u \in Slots : u # s /\ u # t => slot'[u] = slot[u]
    BY <1>1, <1>8 DEF AssignPointer, IsPointer, HandleType
  <2>. QED  BY <2>1, AssignMoves
<1>9. ASSUME NEW t \in Slots, AssignValue(s, t)
      PROVE  Owned'
  <2>1. /\ pv' = Invalidate({slot[s].ptr}) /\ slot' \in [Slots -> HandleType]
        /\ slot'[t].ptr = Null
        /\ s # t => /\ slot'[s].ptr = slot[t].ptr /\ slot'[s].kind = slot[t].kind
                    /\ slot'[s].type # "none"
        /\ \A u \in Slots : u # s /\ u # t => slot'[u] = slot[u]
    BY <1>1, <1>9, HandleFacts DEF AssignValue, IsValue
  <2>. QED  BY <2>1, AssignMoves
<1>10. ASSUME NEW t \in Slots,
              CopyValue(s, t) \/ CopyToValue(s, t) \/ CopyToPointer(s, t) \/ CopyPointer(s, t)
       PROVE  Owned'
  <2>1. PICK type \in {"pointer", "value"} : Copy(s, t, type)
    BY <1>10 DEF CopyValue, CopyToValue, CopyToPointer, CopyPointer
  <2>2. slot[s].ptr = Null
    BY <1>3, <2>1 DEF Copy
  <2>. QED  BY <2>1, <2>2, CopyGives
<1>11. ASSUME NEW t \in Slots, GetProperty(s, t) \/ GetPropertyAsObject(s, t)
       PROVE  Owned'
  <2>1. slot[s].ptr = Null
    BY <1>3, <1>11 DEF GetProperty, GetPropertyAsObject
  <2>2. Answers(pv[slot[t].ptr]) \subseteq Refs \union {Null}
    <3>1. pv[slot[t].ptr] \in Objs
      BY <1>11 DEF GetProperty, GetPropertyAsObject, Refers
    <3>2. \A m \in Member : slot[m].ptr # Null => pv[slot[m].ptr] \in Refs
      BY HandleFacts DEF Slots
    <3>. QED  BY <1>2, <3>1, <3>2 DEF Answers, HostAnswers, Refs
  <2>3. ASSUME slot' = [slot EXCEPT ![s] = Undefined], pv' = pv
        PROVE  Owned'
    <3>1. /\ slot' \in [Slots -> HandleType]
          /\ \A u \in Slots : slot'[u] = slot[u] \/ (slot[u].ptr = Null /\ slot'[u].ptr = Null)
      BY <1>1, <2>1, <2>3, HandleFacts
    <3>. QED  BY <2>3, <3>1, NothingMoves DEF Owned
  <2>4. ASSUME NEW a \in Answers(pv[slot[t].ptr]), a # Null, NEW type \in {"pointer", "value"},
               Make(s, type, a)
        PROVE  Owned'
    BY <2>1, <2>2, <2>4, MakeGives
  <2>5. CASE GetProperty(s, t)
    BY <2>3, <2>4, <2>5 DEF GetProperty
  <2>6. CASE GetPropertyAsObject(s, t)
    BY <2>4, <2>6, <1>2, NullFacts DEF GetPropertyAsObject
  <2>. QED  BY <1>11, <2>5, <2>6
<1>12. ASSUME NEW t \in Slots, SetProperty(s, t)
       PROVE  Owned'
  BY <1>12 DEF SetProperty, Owned
<1>. QED
  BY <1>4, <1>5, <1>6, <1>7, <1>8, <1>9, <1>10, <1>11, <1>12

------------------------------------------------------------------------------
(* The heap and the host objects *)

\* While the runtime lives, the heap is closed: what handles and properties
\* refer to is in it.  What is not in the heap has no property.
HeapInv ==
  /\ heap \subseteq Objs /\ prop \in [Objs -> Objs \union {Null}]
  /\ \A o \in Objs \ heap : prop[o] = Null
  /\ runtime = "live" =>
       /\ Global \in heap
       /\ \A p \in PVs : pv[p] \in Objs => pv[p] \in heap
       /\ \A o \in heap : prop[o] \in heap \union {Null}

\* Tracker and proxy of a host object agree, and the wrapper of a host object
\* that was given up is not in the heap.
HostInv ==
  /\ proxy \in [Hosts -> {"none", "holds", "leaked", "reset"}]
  /\ tracker \in [Hosts -> {"none", "armed", "reset"}]
  /\ held \subseteq Hosts /\ destroyed \in [Hosts -> Nat]
  /\ runtime \in {"live", "gone"}
  /\ \A h \in Hosts : /\ tracker[h] = "armed" <=> proxy[h] = "holds"
                      /\ tracker[h] = "reset" <=> proxy[h] = "reset"
                      /\ destroyed[h] = IF tracker[h] = "reset" THEN 1 ELSE 0
  /\ runtime = "live" => \A h \in heap \intersect Hosts : tracker[h] = "armed"

\* ~V8Runtime has taken everything with it.
GoneInv ==
  runtime = "gone" =>
    /\ \A p \in PVs : pv[p] = Null
    /\ \A h \in Hosts : tracker[h] # "armed"

LEMMA HeapInit == Init => HeapInv /\ HostInv /\ GoneInv
BY HandlesAssumption, NullFacts DEF Init, HeapInv, HostInv, GoneInv, Refs, Objs

\* Where the handles come from that an operation makes, and the properties.
LEMMA Origins ==
  ASSUME Owned, HeapInv, HostInv, GoneInv, SlotStep
  PROVE  /\ UNCHANGED hostVars
         /\ heap \subseteq heap' /\ heap' \subseteq heap \union Plain
         /\ \A p \in PVs : \/ pv'[p] = Null
                           \/ \E q \in PVs : pv'[p] = pv[q]
                           \/ runtime = "live" /\ pv'[p] \in heap' \union {Str, Name}
         /\ prop' \in [Objs -> Objs \union {Null}]
         /\ \A o \in Objs : \/ prop'[o] = prop[o] \/ prop'[o] = Null
                            \/ o \in heap /\ \E q \in PVs : prop'[o] = pv[q]
<1>. PICK s \in Slots :
       \/ NewString(s) \/ NewPropNameID(s) \/ NewObject(s) \/ GlobalObject(s) \/ NewScalar(s) \/ Destroy(s)
       \/ \E t \in Slots :
            \/ MovePointer(s, t) \/ AssignPointer(s, t) \/ PointerToValue(s, t)
            \/ MoveValue(s, t) \/ AssignValue(s, t)
            \/ CopyValue(s, t) \/ CopyToValue(s, t) \/ CopyToPointer(s, t)
            \/ CopyPointer(s, t) \/ StealPointer(s, t)
            \/ GetProperty(s, t) \/ GetPropertyAsObject(s, t) \/ SetProperty(s, t)
  BY DEF SlotStep
<1>1. pv \in [PVs -> Refs \union {Null}]
  BY DEF Owned, SlotsOK
<1>2. HeapInv
  OBVIOUS
\* Handles that are made, given up or cloned, in terms of pv.
<1>3. ASSUME NEW type, NEW ref, Make(s, type, ref)
      PROVE  runtime = "live" /\ \A p \in PVs : pv'[p] = pv[p] \/ pv'[p] = ref
  BY <1>1, <1>3 DEF Make, Unused
<1>4. ASSUME NEW P, pv' = Invalidate(P)
      PROVE  \A p \in PVs : pv'[p] = pv[p] \/ pv'[p] = Null
  BY <1>4 DEF Invalidate
<1>5. ASSUME NEW t \in Slots, NEW type, Copy(s, t, type)
      PROVE  \A p \in PVs : \E q \in PVs : pv'[p] = pv[q]
  <2>1. PICK q \in PVs \union {Null} : Clone(slot[t].ptr, q)
    BY <1>5 DEF Copy
  <2>2. slot[t].ptr \in PVs \union {Null}
    BY HandleFacts
  <2>. QED  BY <1>1, <2>1, <2>2 DEF Clone, Unused
<1>6. CASE NewString(s) \/ NewPropNameID(s)
  BY <1>2, <1>3, <1>6 DEF NewString, NewPropNameID, CreateString, HeapInv
<1>7. CASE NewObject(s)
  <2>1. PICK o \in Plain : heap' = heap \union {o} /\ Make(s, "pointer", o) /\ UNCHANGED <<prop, hostVars>>
    BY <1>7 DEF NewObject
  <2>. QED  BY <1>2, <1>3, <2>1 DEF HeapInv
<1>8. CASE GlobalObject(s)
  BY <1>2, <1>3, <1>8 DEF GlobalObject, HeapInv
<1>9. CASE NewScalar(s)
  BY <1>2, <1>9 DEF NewScalar, HeapInv
<1>10. CASE Destroy(s)
  BY <1>2, <1>4, <1>10 DEF Destroy, HeapInv
<1>11. ASSUME NEW t \in Slots,
              MovePointer(s, t) \/ PointerToValue(s, t) \/ MoveValue(s, t) \/ StealPointer(s, t)
       PROVE  UNCHANGED <<pv, heap, prop, hostVars>>
  BY <1>11 DEF MovePointer, PointerToValue, MoveValue, StealPointer
<1>12. ASSUME NEW t \in Slots, AssignPointer(s, t) \/ AssignValue(s, t)
       PROVE  pv' = Invalidate({slot[s].ptr}) /\ UNCHANGED <<heap, prop, hostVars>>
  BY <1>12 DEF AssignPointer, AssignValue
<1>13. ASSUME NEW t \in Slots,
              CopyValue(s, t) \/ CopyToValue(s, t) \/ CopyToPointer(s, t) \/ CopyPointer(s, t)
       PROVE  /\ \A p \in PVs : \E q \in PVs : pv'[p] = pv[q]
              /\ UNCHANGED <<heap, prop, hostVars>>
  BY <1>5, <1>13 DEF CopyValue, CopyToValue, CopyToPointer, CopyPointer, Copy
<1>14. ASSUME NEW t \in Slots, GetProperty(s, t) \/ GetPropertyAsObject(s, t)
       PROVE  /\ \A p \in PVs : \/ pv'[p] = pv[p]
                                \/ \E q \in PVs : pv'[p] = pv[q]
                                \/ runtime = "live" /\ pv'[p] \in heap \union {Str, Name}
              /\ UNCHANGED <<heap, prop, hostVars>>
  <2>1. UNCHANGED <<heap, prop, hostVars>>
    BY <1>14 DEF GetProperty, GetPropertyAsObject
  <2>2. slot[t].ptr \in PVs /\ pv[slot[t].ptr] \in Objs
    BY <1>14, HandleFacts DEF GetProperty, GetPropertyAsObject, Refers
  <2>3. ASSUME NEW a \in Answers(pv[slot[t].ptr]), a # Null, runtime = "live"
        PROVE  a \in heap \union {Str, Name} \/ \E q \in PVs : a = pv[q]
    <3>1. CASE pv[slot[t].ptr] \in HostObjects
      <4>1. PICK m \in Member : slot[m].ptr # Null /\ a = pv[slot[m].ptr]
        BY <2>3, <3>1 DEF Answers, HostAnswers
      <4>2. slot[m].ptr \in PVs
        BY <4>1, HandleFacts DEF Slots
      <4>. QED  BY <4>1, <4>2
    <3>2. CASE pv[slot[t].ptr] \notin HostObjects
      <4>1. a = Str \/ a = prop[pv[slot[t].ptr]]
        BY <2>3, <3>2 DEF Answers
      <4>2. prop[pv[slot[t].ptr]] \in heap \union {Null}
        BY <1>2, <2>2, <2>3 DEF HeapInv
      <4>. QED  BY <2>3, <4>1, <4>2
    <3>. QED  BY <3>1, <3>2
  <2>4. \/ pv' = pv
        \/ \E a \in Answers(pv[slot[t].ptr]), type \in {"value", "pointer"} : a # Null /\ Make(s, type, a)
    BY <1>14, NullFacts DEF GetProperty, GetPropertyAsObject, Refs
  <2>5. ASSUME NEW a \in Answers(pv[slot[t].ptr]), NEW type, a # Null, Make(s, type, a)
        PROVE  \A p \in PVs : \/ pv'[p] = pv[p]
                              \/ \E q \in PVs : pv'[p] = pv[q]
                              \/ runtime = "live" /\ pv'[p] \in heap \union {Str, Name}
    BY <1>3, <2>3, <2>5
  <2>. QED  BY <2>1, <2>4, <2>5
<1>15. ASSUME NEW t \in Slots, SetProperty(s, t)
       PROVE  /\ UNCHANGED <<pv, heap, hostVars>>
              /\ prop' \in [Objs -> Objs \union {Null}]
              /\ \A o \in Objs : \/ prop'[o] = prop[o] \/ prop'[o] = Null
                                 \/ o \in heap /\ \E q \in PVs : prop'[o] = pv[q]
  <2>1. slot[s].ptr \in PVs /\ pv[slot[s].ptr] \in Objs
    BY <1>15, HandleFacts, HandlesAssumption DEF SetProperty, Refers
  <2>2. Refers(t, Objs) => slot[t].ptr \in PVs /\ pv[slot[t].ptr] \in Objs
    BY HandleFacts DEF Refers
  <2>3. UNCHANGED <<pv, heap, hostVars>>
    BY <1>15 DEF SetProperty
  <2>4. PICK x \in Objs \union {Null} : prop' = [prop EXCEPT ![pv[slot[s].ptr]] = x]
                                     /\ (x = Null \/ \E q \in PVs : x = pv[q])
    BY <1>15, <2>2 DEF SetProperty
  <2>5. pv[slot[s].ptr] \in heap
    BY <2>1, NullFacts DEF HeapInv, GoneInv, HostInv, Refs
  <2>. QED  BY <1>2, <2>1, <2>3, <2>4, <2>5 DEF HeapInv
<1>. QED
  BY <1>2, <1>4, <1>6, <1>7, <1>8, <1>9, <1>10, <1>11, <1>12, <1>13, <1>14, <1>15 DEF HeapInv

LEMMA SlotStepKeeps ==
  ASSUME Owned, HeapInv, HostInv, GoneInv, SlotStep
  PROVE  HeapInv' /\ HostInv' /\ GoneInv'
<1>1. pv \in [PVs -> Refs \union {Null}] /\ pv' \in [PVs -> Refs \union {Null}]
  BY SlotStepOwned DEF Owned, SlotsOK, HeapInv
<1>2. {Str, Name} \intersect Objs = {} /\ Null \notin Objs /\ Plain \subseteq Objs /\ Plain \intersect Hosts = {}
  BY HandlesAssumption DEF Objs
<1>3. HeapInv'
  <2>1. heap' \subseteq Objs /\ prop' \in [Objs -> Objs \union {Null}]
    BY <1>2, Origins DEF HeapInv
  <2>2. \A o \in Objs \ heap' : prop'[o] = Null
    BY Origins DEF HeapInv
  <2>3. ASSUME runtime' = "live"
        PROVE  /\ Global \in heap'
               /\ \A p \in PVs : pv'[p] \in Objs => pv'[p] \in heap'
               /\ \A o \in heap' : prop'[o] \in heap' \union {Null}
    <3>1. runtime = "live" /\ heap \subseteq heap'
      BY <2>3, Origins DEF hostVars
    <3>2. /\ Global \in heap
          /\ \A q \in PVs : pv[q] \in Objs => pv[q] \in heap'
          /\ \A o \in heap : prop[o] \in heap' \union {Null}
          /\ \A o \in Objs \ heap : prop[o] = Null
      BY <3>1 DEF HeapInv
    <3>3. \A p \in PVs : pv'[p] \in Objs => pv'[p] \in heap'
      BY <1>2, <3>2, Origins
    <3>4. ASSUME NEW o \in heap'
          PROVE  prop'[o] \in heap' \union {Null}
      <4>1. o \in Objs /\ prop[o] \in heap' \union {Null} /\ prop'[o] \in Objs \union {Null}
        BY <2>1, <3>2
      <4>. QED  BY <3>2, <4>1, Origins
    <3>. QED  BY <3>1, <3>2, <3>3, <3>4
  <2>. QED  BY <2>1, <2>2, <2>3 DEF HeapInv
<1>4. HostInv'
  <2>1. UNCHANGED <<proxy, tracker, held, destroyed, runtime>>
    BY Origins DEF hostVars
  <2>2. heap' \intersect Hosts \subseteq heap \intersect Hosts
    BY <1>2, Origins
  <2>. QED  BY <2>1, <2>2 DEF HostInv
<1>5. GoneInv'
  <2>1. UNCHANGED <<tracker, runtime>>
    BY Origins DEF hostVars
  <2>. QED  BY <2>1, Origins DEF GoneInv
<1>. QED  BY <1>3, <1>4, <1>5

\* A host object is made or dropped by the embedder, or wrapped.
LEMMA EmbedderKeeps ==
  ASSUME Owned, HeapInv, HostInv, GoneInv, NEW h \in Hosts,
         EmbedderMakes(h) \/ EmbedderDrops(h) \/ \E s \in Slots : Wrap(s, h)
  PROVE  Owned' /\ HeapInv' /\ HostInv' /\ GoneInv'
<1>1. pv \in [PVs -> Refs \union {Null}] /\ h \in Objs /\ h \in Refs
  BY DEF Owned, SlotsOK, Refs, Objs
<1>2. Null \notin Objs
  BY NullFacts DEF Refs
<1>3. CASE EmbedderMakes(h)
  <2>1. /\ UNCHANGED <<slot, pv, heap, prop, proxy, tracker, destroyed, runtime>>
        /\ held' \subseteq Hosts
    BY <1>3 DEF EmbedderMakes, HostInv
  <2>. QED  BY <2>1 DEF Owned, HeapInv, HostInv, GoneInv
<1>4. CASE EmbedderDrops(h)
  <2>1. PICK H : Destruct(H)
    BY <1>4 DEF EmbedderDrops
  <2>2. Owned'
    BY <2>1, DestructReleases
  <2>3. \A p \in PVs : pv'[p] = pv[p] \/ pv'[p] = Null
    BY <2>1 DEF Destruct, Invalidate
  <2>4. UNCHANGED <<heap, prop, proxy, tracker, destroyed, runtime>> /\ held' \subseteq Hosts
    BY <1>4 DEF EmbedderDrops, HostInv
  <2>5. HeapInv' /\ GoneInv'
    BY <1>2, <2>3, <2>4 DEF HeapInv, GoneInv
  <2>. QED  BY <2>2, <2>4, <2>5 DEF HostInv
<1>5. ASSUME NEW s \in Slots, Wrap(s, h)
      PROVE  Owned' /\ HeapInv' /\ HostInv' /\ GoneInv'
  <2>1. slot[s].ptr = Null
    BY <1>5, HandleFacts DEF Wrap, IsFree
  <2>2. UNCHANGED <<prop, held, destroyed, runtime>> /\ proxy[h] = "none" /\ runtime = "live"
    BY <1>5 DEF Wrap, Make
  <2>3. tracker[h] = "none" /\ destroyed[h] = 0
    BY <2>2 DEF HostInv
  <2>4. CASE /\ heap' = heap \union {h} /\ Make(s, "pointer", h)
             /\ proxy' = [proxy EXCEPT ![h] = "holds"]
             /\ tracker' = [tracker EXCEPT ![h] = "armed"]
    <3>1. Owned'
      BY <1>1, <2>1, <2>4, MakeGives
    <3>2. \A p \in PVs : pv'[p] = pv[p] \/ pv'[p] = h
      BY <1>1, <2>4 DEF Make, Unused
    <3>3. HeapInv'
      BY <1>1, <1>2, <2>2, <2>4, <3>2 DEF HeapInv
    <3>4. HostInv'
      BY <2>2, <2>3, <2>4 DEF HostInv
    <3>. QED  BY <2>2, <3>1, <3>3, <3>4 DEF GoneInv
  <2>5. CASE /\ proxy' = [proxy EXCEPT ![h] = "leaked"]
             /\ UNCHANGED <<slot, pv, heap, tracker>>
    <3>1. Owned' /\ HeapInv'
      BY <2>2, <2>5 DEF Owned, HeapInv
    <3>2. HostInv'
      BY <2>2, <2>3, <2>5 DEF HostInv
    <3>. QED  BY <2>2, <3>1, <3>2 DEF GoneInv
  <2>. QED  BY <1>5, <2>4, <2>5 DEF Wrap
<1>. QED  BY <1>3, <1>4, <1>5

\* A host object whose tracker is armed is given up once.
LEMMA ResetKeeps ==
  ASSUME Owned, HostInv, NEW H \in SUBSET Hosts, ResetHostObject(H)
  PROVE  /\ Owned'
         /\ proxy' \in [Hosts -> {"none", "holds", "leaked", "reset"}]
         /\ tracker' \in [Hosts -> {"none", "armed", "reset"}]
         /\ destroyed' \in [Hosts -> Nat]
         /\ \A h \in Hosts : /\ tracker'[h] = "armed" <=> proxy'[h] = "holds"
                             /\ tracker'[h] = "reset" <=> proxy'[h] = "reset"
                             /\ destroyed'[h] = IF tracker'[h] = "reset" THEN 1 ELSE 0
         /\ \A h \in Hosts : h \notin H => tracker'[h] = tracker[h]
         /\ \A h \in H : tracker'[h] # "armed"
         /\ \A p \in PVs : pv'[p] = pv[p] \/ pv'[p] = Null
<1>. DEFINE R == {h \in H : tracker[h] = "armed"}
<1>1. /\ tracker' = [h \in Hosts |-> IF h \in R THEN "reset" ELSE tracker[h]]
      /\ proxy' = [h \in Hosts |-> IF h \in R THEN "reset" ELSE proxy[h]]
      /\ destroyed' = [h \in Hosts |-> destroyed[h] + IF h \in R THEN 1 ELSE 0]
      /\ Destruct(R \ held)
  BY DEF ResetHostObject
<1>2. \A h \in Hosts : h \in R <=> h \in H /\ tracker[h] = "armed"
  OBVIOUS
<1>. HIDE DEF R
<1>3. Owned'
  BY <1>1, DestructReleases
<1>4. \A p \in PVs : pv'[p] = pv[p] \/ pv'[p] = Null
  BY <1>1 DEF Destruct, Invalidate
<1>5. destroyed' \in [Hosts -> Nat]
  BY <1>1 DEF HostInv
<1>6. ASSUME NEW h \in Hosts
      PROVE  /\ tracker'[h] = "armed" <=> proxy'[h] = "holds"
             /\ tracker'[h] = "reset" <=> proxy'[h] = "reset"
             /\ destroyed'[h] = IF tracker'[h] = "reset" THEN 1 ELSE 0
  <2>1. CASE h \in R
    BY <1>1, <1>2, <2>1 DEF HostInv
  <2>2. CASE h \notin R
    BY <1>1, <2>2 DEF HostInv
  <2>. QED  BY <2>1, <2>2
<1>7. /\ proxy' \in [Hosts -> {"none", "holds", "leaked", "reset"}]
      /\ tracker' \in [Hosts -> {"none", "armed", "reset"}]
  BY <1>1 DEF HostInv
<1>8. /\ \A h \in Hosts : h \notin H => tracker'[h] = tracker[h]
      /\ \A h \in H : tracker'[h] # "armed"
  BY <1>1, <1>2
<1>. QED  BY <1>3, <1>4, <1>5, <1>6, <1>7, <1>8

\* What the collector leaves is closed, and it is the least such set.
LEMMA ReachableIsLeast ==
  ASSUME prop \in [Objs -> Objs \union {Null}]
  PROVE  /\ Reachable \subseteq Objs
         /\ Roots \intersect Objs \subseteq Reachable
         /\ \A o \in Reachable : prop[o] \in Reachable \union {Null}
         /\ \A S \in SUBSET Objs : Closed(S) => Reachable \subseteq S
<1>1. Reachable \subseteq Objs /\ \A S \in SUBSET Objs : Closed(S) => Reachable \subseteq S
  BY DEF Reachable
<1>2. Roots \intersect Objs \subseteq Reachable
  BY DEF Reachable, Closed
<1>3. ASSUME NEW o \in Reachable, prop[o] # Null
      PROVE  prop[o] \in Reachable
  <2>1. prop[o] \in Objs
    BY <1>1, <1>3
  <2>2. ASSUME NEW S \in SUBSET Objs, Closed(S)
        PROVE  prop[o] \in S
    BY <1>1, <1>3, <2>2 DEF Closed
  <2>. QED  BY <2>1, <2>2 DEF Reachable
<1>. QED  BY <1>1, <1>2, <1>3

\* While the runtime lives, the heap is closed, so what is reachable is in it.
LEMMA HeapIsClosed ==
  ASSUME HeapInv, runtime = "live"
  PROVE  Reachable \subseteq heap
<1>1. Closed(heap)
  BY DEF HeapInv, Closed, Roots
<1>. QED  BY <1>1, ReachableIsLeast DEF HeapInv

LEMMA CollectKeeps ==
  ASSUME Owned, HeapInv, HostInv, GoneInv, CollectGarbage
  PROVE  Owned' /\ HeapInv' /\ HostInv' /\ GoneInv'
<1>. DEFINE dead == heap \ Reachable
<1>1. /\ runtime = "live" /\ heap' = heap \ dead
      /\ prop' = [o \in Objs |-> IF o \in dead THEN Null ELSE prop[o]]
      /\ ResetHostObject(dead \intersect Hosts)
      /\ UNCHANGED <<held, runtime>>
  BY DEF CollectGarbage
<1>2. heap' = Reachable /\ \A o \in Objs : o \in dead <=> o \in heap /\ o \notin Reachable
  BY <1>1, HeapIsClosed
<1>3. dead \intersect Hosts \in SUBSET Hosts /\ heap' \intersect dead = {}
  BY <1>1
<1>. HIDE DEF dead
<1>4. pv \in [PVs -> Refs \union {Null}] /\ Null \notin Objs
  BY NullFacts DEF Owned, SlotsOK, Refs
<1>5. Owned' /\ \A p \in PVs : pv'[p] = pv[p] \/ pv'[p] = Null
  BY <1>1, <1>3, ResetKeeps
<1>6. HeapInv'
  <2>1. heap' \subseteq Objs /\ prop' \in [Objs -> Objs \union {Null}]
    BY <1>1, <1>2, ReachableIsLeast DEF HeapInv
  <2>2. \A o \in Objs \ heap' : prop'[o] = Null
    BY <1>1, <1>2 DEF HeapInv
  <2>3. Global \in heap'
    BY <1>2, ReachableIsLeast DEF HeapInv, Roots, Objs
  <2>4. \A p \in PVs : pv'[p] \in Objs => pv'[p] \in heap'
    BY <1>2, <1>4, <1>5, ReachableIsLeast DEF HeapInv, Roots
  <2>5. \A o \in heap' : prop'[o] \in heap' \union {Null}
    BY <1>1, <1>2, ReachableIsLeast DEF HeapInv
  <2>. QED  BY <2>1, <2>2, <2>3, <2>4, <2>5 DEF HeapInv
<1>7. HostInv'
  <2>1. \A h \in heap' \intersect Hosts : tracker'[h] = "armed"
    <3>1. \A h \in heap' \intersect Hosts : h \in heap \intersect Hosts /\ h \notin dead \intersect Hosts
      BY <1>1, <1>3
    <3>. QED  BY <1>1, <1>3, <3>1, ResetKeeps DEF HostInv
  <2>. QED  BY <1>1, <1>3, <2>1, ResetKeeps DEF HostInv
<1>. QED  BY <1>1, <1>5, <1>6, <1>7 DEF GoneInv

LEMMA DestroyKeeps ==
  ASSUME Owned, HeapInv, HostInv, GoneInv, DestroyRuntime
  PROVE  Owned' /\ HeapInv' /\ HostInv' /\ GoneInv'
<1>1. /\ runtime' = "gone" /\ heap' = {} /\ prop' = [o \in Objs |-> Null]
      /\ ResetHostObject(Hosts) /\ UNCHANGED held /\ MayDestroyRuntime
  BY DEF DestroyRuntime
<1>2. Owned' /\ HostInv'
  BY <1>1, ResetKeeps DEF HostInv
<1>3. HeapInv'
  BY <1>1 DEF HeapInv
<1>4. \A s \in Slots : slot'[s].ptr = Null
  <2>1. Destruct({h \in Hosts : tracker[h] = "armed"} \ held)
    BY <1>1 DEF ResetHostObject
  <2>2. ASSUME NEW s \in Slots, slot[s].ptr # Null
        PROVE  s \in MembersOf({h \in Hosts : tracker[h] = "armed"} \ held)
    BY <1>1, <2>2, HandlesAssumption DEF MayDestroyRuntime, MembersOf
  <2>. QED  BY <2>1, <2>2, HandleFacts DEF Destruct
<1>5. GoneInv'
  <2>1. \A p \in PVs : pv'[p] = Null
    BY <1>2, <1>4, NullFacts DEF Owned, SlotsOK
  <2>. QED  BY <1>1, <2>1, ResetKeeps DEF GoneInv
<1>. QED  BY <1>2, <1>3, <1>5

------------------------------------------------------------------------------
(* Theorems *)

IInv == Owned /\ HeapInv /\ HostInv /\ GoneInv

LEMMA Invariance == Spec => []IInv
<1>1. Init => IInv
  BY OwnedInit, HeapInit DEF IInv
<1>2. IInv /\ [Next]_vars => IInv'
  <2>. SUFFICES ASSUME IInv, [Next]_vars
                PROVE  IInv'
    OBVIOUS
  <2>1. Owned /\ HeapInv /\ HostInv /\ GoneInv
    BY DEF IInv
  <2>2. CASE SlotStep
    <3>1. prop \in [Objs -> Objs \union {Null}]
      BY <2>1 DEF HeapInv
    <3>. QED  BY <2>1, <2>2, <3>1, SlotStepOwned, SlotStepKeeps DEF IInv
  <2>3. CASE HostStep
    <3>1. ASSUME NEW h \in Hosts, EmbedderMakes(h) \/ EmbedderDrops(h) \/ \E s \in Slots : Wrap(s, h)
          PROVE  IInv'
      BY <2>1, <3>1, EmbedderKeeps DEF IInv
    <3>2. CASE CollectGarbage \/ DestroyRuntime
      BY <2>1, <3>2, CollectKeeps, DestroyKeeps DEF IInv
    <3>3. HostObjects \subseteq Hosts /\ HostFunctions \subseteq Hosts
      BY DEF Hosts
    <3>. QED  BY <2>3, <3>1, <3>2, <3>3 DEF HostStep, CreateHostObject, CreateHostFunction
  <2>4. CASE UNCHANGED vars
    BY <2>1, <2>4 DEF vars, IInv, Owned, HeapInv, HostInv, GoneInv
  <2>. QED  BY <2>2, <2>3, <2>4 DEF Next
<1>. QED  BY <1>1, <1>2, PTL DEF Spec

\* However handles are made, moved, assigned, copied, stolen and destroyed,
\* each PointerValue has exactly one owner, and the casts of V8Runtime are right.
THEOREM HandlesAlwaysSound == Spec => []HandlesAreSound
<1>1. IInv => HandlesAreSound
  <2>. SUFFICES ASSUME IInv
                PROVE  HandlesAreSound
    OBVIOUS
  <2>1. TypeOK
    BY DEF IInv, Owned, SlotsOK, HeapInv, HostInv, TypeOK, HandleType, Types, Kinds, Refs
  <2>2. OneOwner /\ CastsAreRight
    BY DEF IInv, Owned, SlotsOK, OneOwner, CastsAreRight
  <2>. QED  BY <2>1, <2>2 DEF HandlesAreSound
<1>. QED  BY <1>1, Invariance, PTL

\* The collector takes nothing that is in use, and a wrapper that JavaScript
\* can reach has its host object.
THEOREM ReachableAlwaysThere == Spec => []ReachableIsThere
<1>1. IInv => ReachableIsThere
  BY HeapIsClosed DEF IInv, HostInv, ReachableIsThere
<1>. QED  BY <1>1, Invariance, PTL

\* The collector and ~V8Runtime between them give up a host object once.
THEOREM AlwaysReleasedOnce == Spec => []ReleasedOnce
<1>1. IInv => ReleasedOnce
  BY DEF IInv, HostInv, ReleasedOnce
<1>. QED  BY <1>1, Invariance, PTL

\* No handle survives the runtime, and no host object but the embedder's.
THEOREM NothingEverOutlives == Spec => []NothingOutlivesTheRuntime
<1>1. IInv => NothingOutlivesTheRuntime
  BY DEF IInv, HostInv, GoneInv, NothingOutlivesTheRuntime, Alive
<1>. QED  BY <1>1, Invariance, PTL
=============================================================================
