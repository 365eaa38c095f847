------------------------- MODULE ValueConversions -------------------------
(***************************************************************************)
(* The conversions between JavaScript's values and folly::dynamic, as      *)
(* operators (src/jsiapp/JSIDynamic.cpp).                                  *)
(*                                                                         *)
(* A value is a tuple of its type and its content; arrays hold sequences,  *)
(* objects functions.  Numbers are integers.  A text is a sequence of its  *)
(* characters, "NUL" being U+0000; surrogates that stand alone are "D800"  *)
(* and "DBFF" in JavaScript and three bytes each in a dynamic.  No name is *)
(* __proto__, setting which does not make a property.                      *)
(***************************************************************************)
EXTENDS Integers, SequencesExt

CONSTANT
  Precision  \* 2^53: the integers below are doubles

ASSUME PrecisionAssumption == Precision \in Nat \ {0}

RECURSIVE valueFromDynamic(_), dynamicFromValue(_)

------------------------------------------------------------------------------
(* folly::dynamic *)

Undefined == <<"undefined">>
Null      == <<"null">>
Function  == <<"function">>

\* In place of a result: a JSError is thrown; the assertion in getString fails,
\* without which a number is taken for a pointer.
JSError     == <<"JSError">>
AssertFails == <<"assert">>
Failures    == {JSError, AssertFails}

\* (double) of an int64_t; of two doubles equally near, the even one.
ToDouble(n) ==
  LET m    == IF n < 0 THEN -n ELSE n
      even == (m \div 4) * 4 + (IF m % 4 = 3 THEN 4 ELSE IF m % 4 = 2 THEN 2 ELSE 0)
  IN  IF m <= Precision THEN n ELSE IF n < 0 THEN -even ELSE even

\* JSStringToSTLString.  WriteUtf8 writes a surrogate that stands alone as if it
\* were a character, which is no UTF-8.
WriteUtf8(text) ==
  FlattenSeq([i \in 1 .. Len(text) |-> CASE text[i] = "D800" -> <<"ED", "A0", "80">>
                                         [] text[i] = "DBFF" -> <<"ED", "AF", "BF">>
                                         [] OTHER            -> <<text[i]>>])

\* createStringFromUtf8: NewFromUtf8 makes U+FFFD of every byte of these.
NewFromUtf8(utf8) ==
  [i \in 1 .. Len(utf8) |-> IF utf8[i] \in {"ED", "A0", "AF", "80", "BF"} THEN "FFFD" ELSE utf8[i]]

\* asString().c_str(): the text ends at the first U+0000.  The only number that
\* keys are is 7.
CString(key) ==
  LET text == IF key[1] = "string" THEN key[2] ELSE <<"7">>
      nul  == SelectInSeq(text, LAMBDA c : c = "NUL")
  IN  IF nul = 0 THEN text ELSE SubSeq(text, 1, nul - 1)

\* The property that an entry of an object becomes; entries with other keys
\* are left out.
Named(key)  == key[1] \in {"int64", "double", "string"}
NameOf(key) == NewFromUtf8(CString(key))

\* Of entries with the same name the last one stays, in the order of a hash map.
valueFromDynamic(d) ==
  CASE d[1] \in {"null", "bool"} -> d
    [] d[1] = "string"   -> <<"string", NewFromUtf8(d[2])>>
    [] d[1] = "int64"    -> <<"number", ToDouble(d[2])>>
    [] d[1] = "double"   -> <<"number", d[2]>>
    [] d[1] = "array"    -> <<"array", [i \in DOMAIN d[2] |-> valueFromDynamic(d[2][i])]>>
    [] d[1] = "object"   ->
         LET keys == {k \in DOMAIN d[2] : Named(k)}
         IN  <<"object", [p \in {NameOf(k) : k \in keys} |->
                            valueFromDynamic(d[2][CHOOSE k \in keys : NameOf(k) = p])]>>

\* Mutant of PropertyOf: functions are converted like other properties.
PropertyAsItIs(p) == p

\* What a property is converted as.
PropertyOf(p) == IF p = Function THEN Null ELSE p

\* An array index: getPropertyNames has the number for it.
IsIndex(name) == name # <<>> /\ \A i \in 1 .. Len(name) : name[i] = "7"

\* Indices come first among an object's names.  An array fails as its first item
\* that does; an object as one of its properties, whichever was made first.
dynamicFromValue(v) ==
  CASE v \in {Undefined, Null} -> Null
    [] v[1] = "bool"    -> v
    [] v[1] = "string"  -> <<"string", WriteUtf8(v[2])>>
    [] v[1] = "number"  -> <<"double", v[2]>>
    [] v = Function     -> JSError
    [] v[1] = "array"   ->
         LET items == [i \in DOMAIN v[2] |-> dynamicFromValue(v[2][i])]
             fails == SelectInSeq(items, LAMBDA d : d \in Failures)
         IN  IF fails # 0 THEN items[fails] ELSE <<"array", items>>
    [] v[1] = "object"  ->
         LET names  == {p \in DOMAIN v[2] : v[2][p] # Undefined}
             values == [p \in names |-> dynamicFromValue(PropertyOf(v[2][p]))]
             fails  == {p \in names : values[p] \in Failures}
         IN  IF \E p \in DOMAIN v[2] : IsIndex(p) THEN AssertFails
             ELSE IF fails # {} THEN values[CHOOSE p \in fails : TRUE]
             ELSE <<"object", [k \in {<<"string", WriteUtf8(p)>> : p \in names} |->
                                values[CHOOSE p \in names : WriteUtf8(p) = k[2]]]>>
============================================================================
