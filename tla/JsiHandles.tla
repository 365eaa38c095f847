----------------------------- MODULE JsiHandles -----------------------------
(***************************************************************************)
(* The lifetime of what C++ holds of the JavaScript heap: jsi::Pointer and *)
(* jsi::Value (jsi.h, jsi.cpp, jsi-inl.h), the PointerValues and host      *)
(* object proxies of V8Runtime.cpp, V8's collector and the destructor of   *)
(* the runtime.                                                            *)
(*                                                                         *)
(* A slot is a C++ variable: a local of the embedder or a member of a host *)
(* object.  It holds a Pointer (String, Object and the classes derived     *)
(* from it) or a Value.  A PointerValue owns a v8::Persistent, so what it  *)
(* refers to is a root of the collector.  A JavaScript object has one      *)
(* property.  A host object, or the closure of a host function, is named   *)
(* by the JavaScript object that wraps it.                                 *)
(***************************************************************************)
EXTENDS FiniteSets, Integers

CONSTANTS Native,        \* variables of the embedder
          Member,        \* member variables of host objects
          Plain,         \* ordinary JavaScript objects
          HostObjects,   \* objects made by createFromHostObject
          HostFunctions, \* functions made by createFromHostFunction
          Global,        \* the global object
          Holders,       \* bound: the objects whose property is assigned to
          Str, Name,     \* any JavaScript string, any property name
          PVs,           \* addresses of PointerValues
          Null,          \* nullptr, and the absence of a property
          OwnerOf(_)     \* the host object a member variable belongs to

Slots == Native \union Member
Hosts == HostObjects \union HostFunctions
Objs  == {Global} \union Plain \union Hosts

ASSUME HandlesAssumption ==
  /\ \A s \in Member : OwnerOf(s) \in Hosts
  /\ Native \intersect Member = {}
  /\ Plain \intersect Hosts = {} /\ Global \notin Plain \union Hosts
  /\ HostObjects \intersect HostFunctions = {} /\ Holders \subseteq Objs
  /\ {Str, Name} \intersect Objs = {} /\ Str # Name
  /\ Null \notin Objs \union PVs \union {Str, Name}

VARIABLES slot,     \* what each C++ variable holds
          pv,       \* what each PointerValue refers to; Null: not allocated
          heap,     \* the JavaScript objects the collector has not reclaimed
          prop,     \* the object each object's property refers to, or Null
          proxy,    \* what each IHostProxy does with its host object
          tracker,  \* the HostObjectLifetimeTracker of each host object
          held,     \* host objects a shared_ptr of the embedder keeps alive
          destroyed,\* how often IHostProxy::destroy was called
          runtime   \* "live", or "gone" after ~V8Runtime

vars == <<slot, pv, heap, prop, proxy, tracker, held, destroyed, runtime>>
hostVars == <<proxy, tracker, held, destroyed, runtime>>

None           == [type |-> "none", kind |-> "none", ptr |-> Null]
PointerTo(k,p) == [type |-> "pointer", kind |-> k, ptr |-> p]
ValueOf(k, p)  == [type |-> "value", kind |-> k, ptr |-> p]
Undefined      == ValueOf("undefined", Null)

\* kindOf(const String&), kindOf(const Object&); a PropNameID has no kind_
\* since it is no Value: "name".
KindOf(ref)  == IF ref = Str THEN "string" ELSE IF ref = Name THEN "name" ELSE "object"
Alive(h)     == proxy[h] \in {"holds", "leaked"} \/ h \in held
\* The variables that exist: a member exists as long as its host object.
Live(s)      == s \in Native \/ Alive(OwnerOf(s))
IsPointer(s) == Live(s) /\ slot[s].type = "pointer"
IsValue(s)   == Live(s) /\ slot[s].type = "value"
IsFree(s)    == Live(s) /\ slot[s].type = "none"
\* A pointer that was not moved from: the others may only be assigned to,
\* copied and destroyed, everything else reads through the null ptr_.
Refers(s, O) == slot[s].ptr # Null /\ pv[slot[s].ptr] \in O

(* The collector.                                                          *)

\* The v8::Persistent of a V8StringValue or V8ObjectValue is a strong handle.
Roots     == {Global} \union {pv[p] : p \in PVs}
Closed(S) == Roots \intersect Objs \subseteq S /\ \A o \in S : prop[o] \in S \union {Null}
Reachable == {o \in Objs : \A S \in SUBSET Objs : Closed(S) => o \in S}

-----------------------------------------------------------------------------
(* PointerValues: new V8StringValue, new V8ObjectValue, delete this.       *)

Unused        == {p \in PVs : pv[p] = Null}
\* ptr_->invalidate(), for the non-null pointers among P.
Invalidate(P) == [p \in PVs |-> IF p \in P THEN Null ELSE pv[p]]
\* cloneString and cloneObject: a null pointer is cloned to a null pointer.
Clone(p, q)   == IF p = Null THEN q = Null /\ pv' = pv
                 ELSE q \in Unused /\ pv' = [pv EXCEPT ![q] = pv[p]]
\* A new PointerValue for ref, in slot s.
Make(s, type, ref) ==
  /\ runtime = "live"
  /\ \E p \in Unused :
       /\ pv' = [pv EXCEPT ![p] = ref]
       /\ slot' = [slot EXCEPT ![s] = [type |-> type, kind |-> KindOf(ref), ptr |-> p]]

\* createString..., createPropNameID...: V8 makes the string, or a JSError is
\* thrown and nothing changes.
CreateString(s, ref) ==
  /\ IsFree(s) /\ Make(s, "pointer", ref)
  /\ UNCHANGED <<heap, prop>> /\ UNCHANGED hostVars

\* String::createFromAscii, createFromUtf8
NewString(s) == CreateString(s, Str)

\* PropNameID::forAscii, forUtf8, forString
NewPropNameID(s) == CreateString(s, Name)

\* Object(Runtime&), Array(Runtime&, size_t): a new JavaScript object.
NewObject(s) ==
  /\ IsFree(s)
  /\ \E o \in Plain \ heap :
       heap' = heap \union {o} /\ Make(s, "pointer", o)
  /\ UNCHANGED prop /\ UNCHANGED hostVars

\* Runtime::global()
GlobalObject(s) ==
  /\ IsFree(s) /\ Make(s, "pointer", Global)
  /\ UNCHANGED <<heap, prop>> /\ UNCHANGED hostVars

-----------------------------------------------------------------------------
(* Moving, copying and destroying what the slots hold.                     *)

\* Mutant of MovePointer: the pointer moved from is not nulled.
MovePointerKeepsOther(s, t) ==
  /\ IsFree(s) /\ IsPointer(t)
  /\ slot' = [slot EXCEPT ![s] = slot[t]]
  /\ UNCHANGED <<pv, heap, prop>> /\ UNCHANGED hostVars

\* Pointer(Pointer&&), and Object::getArray, getFunction, getPromise... &&
MovePointer(s, t) ==
  /\ IsFree(s) /\ IsPointer(t)
  /\ slot' = [slot EXCEPT ![s] = slot[t], ![t].ptr = Null]
  /\ UNCHANGED <<pv, heap, prop>> /\ UNCHANGED hostVars

\* Pointer::operator=(Pointer&&): invalidates its own, takes the other's and
\* nulls the other, in that order, so p = std::move(p) ends with null.  Both
\* are of the same class.
AssignPointer(s, t) ==
  /\ IsPointer(s) /\ IsPointer(t) /\ slot[s].kind = slot[t].kind
  /\ pv' = Invalidate({slot[s].ptr})
  /\ slot' = [slot EXCEPT ![s].ptr = slot[t].ptr, ![t].ptr = Null]
  /\ UNCHANGED <<heap, prop>> /\ UNCHANGED hostVars

\* Value(T&&): a String or Object moved into a new Value.
PointerToValue(s, t) ==
  /\ IsFree(s) /\ IsPointer(t) /\ slot[t].kind # "name"
  /\ slot' = [slot EXCEPT ![s] = ValueOf(slot[t].kind, slot[t].ptr), ![t].ptr = Null]
  /\ UNCHANGED <<pv, heap, prop>> /\ UNCHANGED hostVars

\* Value(), and the Values of scalars: nothing to own.
NewScalar(s) ==
  /\ IsFree(s) /\ slot' = [slot EXCEPT ![s] = Undefined]
  /\ UNCHANGED <<pv, heap, prop>> /\ UNCHANGED hostVars

\* Value(Value&&): the other becomes undefined.
MoveValue(s, t) ==
  /\ IsFree(s) /\ IsValue(t)
  /\ slot' = [slot EXCEPT ![s] = slot[t], ![t] = Undefined]
  /\ UNCHANGED <<pv, heap, prop>> /\ UNCHANGED hostVars

\* Value::operator=(Value&&): ~Value(), then Value(Value&&) in its place; the
\* value is lost in v = std::move(v).
AssignValue(s, t) ==
  /\ IsValue(s) /\ IsValue(t)
  /\ pv' = Invalidate({slot[s].ptr})
  /\ slot' = [slot EXCEPT ![s] = slot[t], ![t] = Undefined]
  /\ UNCHANGED <<heap, prop>> /\ UNCHANGED hostVars

\* A new handle on what t refers to.
Copy(s, t, type) ==
  /\ IsFree(s)
  /\ \E q \in PVs \union {Null} :
       /\ Clone(slot[t].ptr, q)
       /\ slot' = [slot EXCEPT ![s] = [type |-> type, kind |-> slot[t].kind, ptr |-> q]]
  /\ UNCHANGED <<heap, prop>> /\ UNCHANGED hostVars

\* Value(Runtime&, const Value&)
CopyValue(s, t) == IsValue(t) /\ Copy(s, t, "value")

\* detail::toValue: Value(Runtime&, const String&), Value(Runtime&, const Object&)
CopyToValue(s, t) == IsPointer(t) /\ slot[t].kind # "name" /\ Copy(s, t, "value")

\* Value::getString, getObject, asString and asObject, const&
CopyToPointer(s, t) == IsValue(t) /\ slot[t].kind # "undefined" /\ Copy(s, t, "pointer")

\* PropNameID(Runtime&, const PropNameID&), and Object::getArray, getFunction,
\* getPromise... const&
CopyPointer(s, t) == IsPointer(t) /\ slot[t].kind # "string" /\ Copy(s, t, "pointer")

\* The getters of a Value steal from an rvalue: it keeps its kind_
\* and is left with a null pointer.
StealPointer(s, t) ==
  /\ IsFree(s) /\ IsValue(t) /\ slot[t].kind # "undefined"
  /\ slot' = [slot EXCEPT ![s] = PointerTo(slot[t].kind, slot[t].ptr), ![t].ptr = Null]
  /\ UNCHANGED <<pv, heap, prop>> /\ UNCHANGED hostVars

\* ~Pointer, ~Value
Destroy(s) ==
  /\ Live(s) /\ slot[s].type # "none"
  /\ pv' = Invalidate({slot[s].ptr}) /\ slot' = [slot EXCEPT ![s] = None]
  /\ UNCHANGED <<heap, prop>> /\ UNCHANGED hostVars

-----------------------------------------------------------------------------
(* Properties of JavaScript objects.                                       *)

\* What HostObjectProxy::Get gives V8: undefined, as HostObject::get, or what
\* the host object has a handle to.
HostAnswers(h) ==
  {Null} \union {pv[slot[m].ptr] : m \in {m \in Member : OwnerOf(m) = h /\ slot[m].ptr # Null}}

\* What V8Runtime::getProperty makes a Value of.
Answers(o) == IF o \in HostObjects THEN HostAnswers(o) \ {Name} ELSE {prop[o], Str}

\* Object::getProperty, Array::getValueAtIndex
GetProperty(s, t) ==
  /\ IsFree(s) /\ IsPointer(t) /\ Refers(t, Objs)
  /\ \E a \in Answers(pv[slot[t].ptr]) :
       \/ a # Null /\ Make(s, "value", a)
       \/ a = Null /\ slot' = [slot EXCEPT ![s] = Undefined] /\ pv' = pv
  /\ UNCHANGED <<heap, prop>> /\ UNCHANGED hostVars

\* Object::getPropertyAsObject, getPropertyAsFunction: a JSError if the property
\* is no object.
GetPropertyAsObject(s, t) ==
  /\ IsFree(s) /\ IsPointer(t) /\ Refers(t, Objs)
  /\ \E a \in Answers(pv[slot[t].ptr]) \intersect Objs : Make(s, "pointer", a)
  /\ UNCHANGED <<heap, prop>> /\ UNCHANGED hostVars

\* Object::setProperty, Array::setValueAtIndex.  valueRef clones the handle and drops the clone again.
\* Assigning to a host object ends the program in HostObjectProxy::Set, which
\* takes the callback's undefined data for its proxy: there is no such step.
SetProperty(t, s) ==
  /\ IsPointer(t) /\ Refers(t, Holders \ HostObjects)
  /\ IsValue(s) /\ (slot[s].kind # "undefined" => Refers(s, Objs \union {Str}))
  /\ prop' = [prop EXCEPT ![pv[slot[t].ptr]] =
                IF Refers(s, Objs) THEN pv[slot[s].ptr] ELSE Null]
  /\ UNCHANGED <<slot, pv, heap>> /\ UNCHANGED hostVars

-----------------------------------------------------------------------------
(* Host objects.                                                           *)

MembersOf(D) == {m \in Member : OwnerOf(m) \in D}
\* The host objects D are destructed, and with them what they hold.
Destruct(D) ==
  /\ slot' = [s \in Slots |-> IF s \in MembersOf(D) THEN None ELSE slot[s]]
  /\ pv' = Invalidate({slot[m].ptr : m \in MembersOf(D)})

\* std::make_shared of a class derived from HostObject
EmbedderMakes(h) ==
  /\ runtime = "live" /\ proxy[h] = "none" /\ h \notin held
  /\ held' = held \union {h}
  /\ UNCHANGED <<slot, pv, heap, prop, proxy, tracker, destroyed, runtime>>

\* A proxy that holds the host object, the wrapper, the tracker with its weak
\* handle, and a Pointer to the wrapper.  When V8 makes no object the proxy is
\* lost with its reference, and the call throws.
Wrap(s, h) ==
  /\ IsFree(s) /\ proxy[h] = "none"
  /\ \/ /\ heap' = heap \union {h} /\ Make(s, "pointer", h)
        /\ proxy' = [proxy EXCEPT ![h] = "holds"]
        /\ tracker' = [tracker EXCEPT ![h] = "armed"]
     \/ /\ runtime = "live" /\ proxy' = [proxy EXCEPT ![h] = "leaked"]
        /\ UNCHANGED <<slot, pv, heap, tracker>>
  /\ UNCHANGED <<prop, held, destroyed, runtime>>

\* createObject(shared_ptr<HostObject>)
CreateHostObject(s, h) == h \in held /\ Wrap(s, h)

\* createFunctionFromHostFunction: the proxy has the only copy of the closure.
CreateHostFunction(s, h) == Wrap(s, h)

\* Mutant of EmbedderDrops: the proxy has no reference of its own.
EmbedderDropsAll(h) ==
  /\ h \in held /\ held' = held \ {h}
  /\ proxy' = [proxy EXCEPT ![h] = IF @ = "holds" THEN "reset" ELSE @]
  /\ Destruct(IF proxy[h] = "leaked" THEN {} ELSE {h})
  /\ UNCHANGED <<heap, prop, tracker, destroyed, runtime>>

\* The embedder's last shared_ptr goes out of scope.
EmbedderDrops(h) ==
  /\ h \in held /\ held' = held \ {h}
  /\ Destruct(IF proxy[h] \in {"holds", "leaked"} THEN {} ELSE {h})
  /\ UNCHANGED <<heap, prop, proxy, tracker, destroyed, runtime>>

\* Mutant of ResetHostObject: isReset_ is not looked at.
ResetWithoutFlag(H) ==
  LET R == {h \in H : tracker[h] # "none"}
  IN /\ tracker' = [h \in Hosts |-> IF h \in R THEN "reset" ELSE tracker[h]]
     /\ proxy' = [h \in Hosts |-> IF h \in R THEN "reset" ELSE proxy[h]]
     /\ destroyed' = [h \in Hosts |-> destroyed[h] + IF h \in R THEN 1 ELSE 0]
     /\ Destruct(R \ held)

\* HostObjectLifetimeTracker::ResetHostObject, for each of H: once, by the
\* collector or by the runtime's destructor, whichever comes first.  The proxy
\* drops its reference; the host object is destructed if it was the last.
ResetHostObject(H) ==
  LET R == {h \in H : tracker[h] = "armed"}
  IN /\ tracker' = [h \in Hosts |-> IF h \in R THEN "reset" ELSE tracker[h]]
     /\ proxy' = [h \in Hosts |-> IF h \in R THEN "reset" ELSE proxy[h]]
     /\ destroyed' = [h \in Hosts |-> destroyed[h] + IF h \in R THEN 1 ELSE 0]
     /\ Destruct(R \ held)

\* A full collection, with the finalizers it calls.  A tracker that is reset
\* has no weak handle left to be called through.
CollectGarbage ==
  LET dead == heap \ Reachable
  IN /\ runtime = "live" /\ dead # {}
     /\ heap' = heap \ dead
     /\ prop' = [o \in Objs |-> IF o \in dead THEN Null ELSE prop[o]]
     /\ ResetHostObject(dead \intersect Hosts)
     /\ UNCHANGED <<held, runtime>>

\* What jsi.h asks of the embedder before it destroys the runtime: handles are
\* left only in host objects that nothing but the runtime keeps alive.
MayDestroyRuntime ==
  \A s \in Slots : slot[s].ptr # Null =>
    s \in Member /\ tracker[OwnerOf(s)] = "armed" /\ OwnerOf(s) \notin held

\* Mutant of DestroyRuntime: the trackers' list is not walked.
DestroyIsolateOnly ==
  /\ runtime = "live" /\ MayDestroyRuntime /\ runtime' = "gone"
  /\ heap' = {} /\ prop' = [o \in Objs |-> Null]
  /\ UNCHANGED <<slot, pv, proxy, tracker, held, destroyed>>

\* ~V8Runtime: resets the trackers that the collector did not, while the
\* isolate is there, then disposes of the isolate.
DestroyRuntime ==
  /\ runtime = "live" /\ MayDestroyRuntime /\ runtime' = "gone"
  /\ ResetHostObject(Hosts)
  /\ heap' = {} /\ prop' = [o \in Objs |-> Null]
  /\ UNCHANGED held

-----------------------------------------------------------------------------
Init ==
  /\ slot = [s \in Slots |-> None] /\ pv = [p \in PVs |-> Null]
  /\ heap = {Global} /\ prop = [o \in Objs |-> Null]
  /\ proxy = [h \in Hosts |-> "none"] /\ tracker = [h \in Hosts |-> "none"]
  /\ held = {} /\ destroyed = [h \in Hosts |-> 0] /\ runtime = "live"

SlotStep ==
  \E s \in Slots :
    \/ NewString(s) \/ NewPropNameID(s) \/ NewObject(s) \/ GlobalObject(s) \/ NewScalar(s) \/ Destroy(s)
    \/ \E t \in Slots :
         \/ MovePointer(s, t) \/ AssignPointer(s, t) \/ PointerToValue(s, t)
         \/ MoveValue(s, t) \/ AssignValue(s, t)
         \/ CopyValue(s, t) \/ CopyToValue(s, t) \/ CopyToPointer(s, t)
         \/ CopyPointer(s, t) \/ StealPointer(s, t)
         \/ GetProperty(s, t) \/ GetPropertyAsObject(s, t) \/ SetProperty(s, t)

HostStep ==
  \/ \E h \in HostObjects : EmbedderMakes(h) \/ EmbedderDrops(h)
  \/ \E s \in Slots, h \in HostObjects : CreateHostObject(s, h)
  \/ \E s \in Slots, h \in HostFunctions : CreateHostFunction(s, h)
  \/ CollectGarbage \/ DestroyRuntime

Next == SlotStep \/ HostStep
Spec == Init /\ [][Next]_vars

-----------------------------------------------------------------------------
\* Every variable has its type.
TypeOK ==
  /\ slot \in [Slots -> [type : {"none", "pointer", "value"},
                         kind : {"none", "undefined", "string", "object", "name"},
                         ptr  : PVs \union {Null}]]
  /\ pv \in [PVs -> Objs \union {Str, Name, Null}]
  /\ heap \subseteq Objs /\ prop \in [Objs -> Objs \union {Null}]
  /\ proxy \in [Hosts -> {"none", "holds", "leaked", "reset"}]
  /\ tracker \in [Hosts -> {"none", "armed", "reset"}]
  /\ held \subseteq Hosts /\ destroyed \in [Hosts -> Nat]
  /\ runtime \in {"live", "gone"}

\* Whatever is moved, assigned (to itself too), copied, stolen and destroyed,
\* every allocated PointerValue is owned by exactly one variable and no variable
\* holds a deleted one: nothing leaks, nothing is deleted twice.
OneOwner ==
  /\ \A s \in Slots : slot[s].ptr # Null => pv[slot[s].ptr] # Null
  /\ \A s, t \in Slots : slot[s].ptr = slot[t].ptr /\ s # t => slot[s].ptr = Null
  /\ \A p \in PVs : pv[p] # Null => \E s \in Slots : slot[s].ptr = p

\* The unchecked casts of stringRef and objectRef are right: what a variable
\* of kind string or name owns is a V8StringValue, of kind object a V8ObjectValue, and
\* a variable of another kind owns nothing.
CastsAreRight ==
  \A s \in Slots : slot[s].ptr # Null => slot[s].kind = KindOf(pv[slot[s].ptr])

\* Handles are sound: each variable has its type, is the one owner of what it
\* holds, and holds what its kind says.
HandlesAreSound == TypeOK /\ OneOwner /\ CastsAreRight

\* The collector takes nothing that C++ or a live object refers to, and as long
\* as JavaScript can reach a wrapper its proxy holds the host object:
\* HostObjectProxy::Get never finds a null hostObject_.
ReachableIsThere ==
  runtime = "live" =>
    /\ Reachable \subseteq heap
    /\ \A h \in Hosts \intersect Reachable : proxy[h] = "holds"

\* A host object is given up once, by the collector or by ~V8Runtime, never by
\* both, and a proxy whose tracker is reset holds nothing.
ReleasedOnce ==
  \A h \in Hosts :
    /\ destroyed[h] = IF tracker[h] = "reset" THEN 1 ELSE 0
    /\ tracker[h] = "reset" <=> proxy[h] = "reset"

\* After ~V8Runtime no handle is left that would reach into the isolate, and of
\* the host objects it tracked only those live that the embedder holds.
NothingOutlivesTheRuntime ==
  runtime = "gone" =>
    /\ \A p \in PVs : pv[p] = Null
    /\ \A h \in Hosts : tracker[h] # "none" => (Alive(h) <=> h \in held)

=============================================================================
