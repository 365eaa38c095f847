---------------------------- MODULE Conversions ----------------------------
(***************************************************************************)
(* Codecs, and what ValueConversions promises in the same form: a state    *)
(* may also be a value or a dynamic to convert.                            *)
(***************************************************************************)
EXTENDS Codecs, ValueConversions

Trees(leaves, keys) ==
  leaves \cup {<<"array", s>> : s \in SeqsUpTo(leaves, 2)}
         \cup {<<"object", f>> : f \in UNION {[K -> leaves] : K \in SUBSET keys}}

A == <<"a">>

\* Dynamics as dynamicFromValue makes them, and others.
PlainLeaves == {Null, <<"bool", TRUE>>, <<"double", 1>>, <<"string", A>>}
OddLeaves   == {Null, <<"int64", Precision + 1>>, <<"int64", -Precision - 2>>, <<"int64", Precision - 1>>,
                <<"string", A>>, <<"string", <<"a", "ED", "A0", "80", "NUL">>>>}
PlainKeys   == {<<"string", A>>, <<"string", <<"b">>>>}

\* Keys of every kind, some of which become the same name.
OddKeys ==
  {<<"int64", 7>>, <<"double", 7>>, <<"bool", TRUE>>, <<"string", <<"FFFD", "FFFD", "FFFD">>>>}
    \cup {<<"string", WriteUtf8(s)>> : s \in SeqsUpTo({"a", "7", "NUL", "D800"}, 2)}

ConvertDynamic ==
  \/ \E d \in Trees(Trees(PlainLeaves, {<<"string", A>>}), PlainKeys) : input' = <<"dynamic", d>>
  \/ \E d \in Trees(OddLeaves, {<<"string", A>>, <<"int64", 7>>, <<"bool", TRUE>>}) : input' = <<"dynamic", d>>
  \/ \E j, k \in OddKeys, w \in {Null, <<"int64", 1>>} :
       input' = <<"dynamic", <<"array", << <<"object", (j :> <<"bool", TRUE>>) @@ (k :> w)>> >> >> >>

ValueLeaves == {Undefined, Null, Function, <<"number", 1>>}
Names       == SeqsUpTo({"a", "7", "NUL", "D800", "DBFF"}, 2)

ConvertValue ==
  \/ \E v \in Trees(Trees(ValueLeaves, {A}), {A, <<"b">>}) : input' = <<"value", v>>
  \/ \E p, q \in Names, w \in ValueLeaves :
       input' = <<"value", <<"array", <<Null, <<"object", (p :> <<"string", q>>) @@ (q :> w)>> >> >> >>

Next == CodecsNext \/ (input = None /\ (ConvertDynamic \/ ConvertValue))

Spec == CodecsInit /\ [][Next]_input

------------------------------------------------------------------------------
(* Properties *)

Parts(v) ==
  LET Below(w) == CASE w[1] \in {"array", "object"} -> {w[2][i] : i \in DOMAIN w[2]}
                    [] OTHER -> {}
  IN  {v} \cup Below(v) \cup UNION {Below(w) : w \in Below(v)}

Strings(v) == {w[2] : w \in {w \in Parts(v) : w[1] = "string"}}
Keys(v)    == UNION {DOMAIN w[2] : w \in {w \in Parts(v) : w[1] = "object"}}

\* No surrogate stands alone in the text, in JavaScript or in a dynamic.
Proper(text) == ToSet(text) \cap {"D800", "DBFF", "ED", "A0", "80", "AF", "BF"} = {}

\* A dynamic comes back from JavaScript as it was exactly if it has no int64, no
\* surrogate stands alone in its strings and keys, and its keys are strings that
\* have no U+0000 and are no array indices.  What comes back of one with a key
\* that becomes an index is a failed assertion (JSIDynamic.cpp:79); of any other,
\* converting it once more loses nothing more.  Large integers are rounded.
DynamicsSurvive ==
  input[1] = "dynamic" =>
    LET d    == input[2]
        v    == valueFromDynamic(d)
        back == dynamicFromValue(v)
    IN  /\ back = d <=>
             /\ \A w \in Parts(d) : w[1] # "int64"
             /\ \A s \in Strings(d) : Proper(s)
             /\ \A k \in Keys(d) :
                  k[1] = "string" /\ Proper(k[2]) /\ "NUL" \notin ToSet(k[2]) /\ ~IsIndex(k[2])
        /\ IF \E k \in Keys(d) : Named(k) /\ IsIndex(CString(k))
             THEN back = AssertFails
             ELSE back \notin Failures /\ valueFromDynamic(back) = v
        /\ d[1] = "int64" => /\ v[2] - d[2] \in {-1, 0, 1}
                             /\ d[2] \in -Precision .. Precision => v[2] = d[2]

\* dynamicFromValue throws for a function that is converted or an item of an
\* array, and trips over a property that is an array index, and fails for
\* nothing else.  The functions that objects have become null, and what is
\* undefined null or nothing; a value comes back as it was exactly if it has
\* none of these, no surrogate stands alone in it and no name has a U+0000.
FunctionsAreNullOrRefused ==
  input[1] = "value" =>
    LET v       == input[2]
        d       == dynamicFromValue(v)
        refused == \/ v = Function
                   \/ \E w \in Parts(v) : w[1] = "array" /\ Function \in Range(w[2])
        trips   == \E p \in Keys(v) : IsIndex(p)
    IN  /\ d \in Failures <=> refused \/ trips
        /\ d = JSError => refused
        /\ d = AssertFails => trips
        /\ d \notin Failures =>
             LET back == valueFromDynamic(d)
             IN  /\ Parts(back) \cap {Undefined, Function} = {}
                 /\ back = v <=> /\ Parts(v) \cap {Undefined, Function} = {}
                                 /\ \A s \in Strings(v) : Proper(s)
                                 /\ \A p \in Keys(v) : Proper(p) /\ "NUL" \notin ToSet(p)

\* Values converted to dynamics and back are what they were, but for what the
\* two conversions are said to lose, and lose no more.
ValuesSurvive == DynamicsSurvive /\ FunctionsAreNullOrRefused
============================================================================
