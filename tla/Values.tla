------------------------------- MODULE Values -------------------------------
(***************************************************************************)
(* internal/core/value.go: Go values, Convex values and the JSON trees that *)
(* stand for them on the wire.  All three are tagged tuples <<kind, data>>; *)
(* a text is <<"plain", s>> or base64, <<"std", bytes>> or <<"url", bytes>>.*)
(* A word has ByteCount bytes of ByteSize values (8 and 256 in the code) and *)
(* a float is its bit pattern, so widths, signs and special floats are kept. *)
(***************************************************************************)
EXTENDS Integers, Sequences, TLC, SequencesExt, Functions

CONSTANTS
  ByteCount, ByteSize,
  MantissaSize,  \* how many bit patterns share a sign and an exponent
  BadFields      \* field names that are too long or not plain ASCII

ASSUME WordAssumption ==
  /\ ByteCount \in Nat \ {0} /\ ByteSize \in Nat \ {0, 1}
  /\ MantissaSize \in Nat \ {0, 1}
  /\ (ByteSize ^ ByteCount) % (2 * MantissaSize) = 0

Error == << "error" >>
Ok(r) == r[1] # "error"

-----------------------------------------------------------------------------
(* Words *)

WordSize == ByteSize ^ ByteCount
SignBit == WordSize \div 2
MaxInt64 == SignBit - 1

PutUint64(u) == [i \in 1 .. ByteCount |-> (u \div ByteSize ^ (i - 1)) % ByteSize]
Uint64(bytes) == SumFunction([i \in DOMAIN bytes |-> bytes[i] * ByteSize ^ (i - 1)])
AsInt64(u) == IF u > MaxInt64 THEN u - WordSize ELSE u

Base64(bytes) == << "string", << "std", bytes >> >>
encodeWord(n) == Base64(PutUint64(n % WordSize))

\* The standard alphabet, or failing that the URL one.
decodeBase64Compat(text) ==
  IF text[1] \in {"std", "url"} THEN << "bytes", text[2] >> ELSE Error

decodeWord(text) ==
  LET data == decodeBase64Compat(text)
  IN  IF Ok(data) /\ Len(data[2]) = ByteCount THEN << "word", Uint64(data[2]) >> ELSE Error

\* NaN, the infinities and minus zero.
NotFinite(f) == (f % SignBit) \div MantissaSize = SignBit \div MantissaSize - 1
isSpecialFloat(f) == NotFinite(f) \/ f = SignBit
Huge == WordSize   \* a JSON number that no float can hold

-----------------------------------------------------------------------------
(* Objects and arrays: one bad member spoils the whole *)

ReservedFields == {"$integer", "$float", "$bytes", "$set", "$map", "$other"}
validateObjectField(k) == k \notin ReservedFields \union BadFields

Sequenced(kind, s) == IF \A i \in DOMAIN s : Ok(s[i]) THEN << kind, s >> ELSE Error

Mapped(kind, m) ==
  IF \A k \in DOMAIN m : validateObjectField(k) /\ Ok(m[k]) THEN << kind, m >> ELSE Error

Null == << "null" >>
NilMap == << "nilmap" >>   \* a nil map[string]any inside an interface
EmptyObject == << "object", << >> >>
Tagged(key, w) == << "object", key :> w >>
Plain(s) == << "string", << "plain", s >> >>
InvalidText == Plain("invalid")    \* a Go string that is not UTF-8
ReplacedText == Plain("replaced")

encodedInt64(n) == Tagged("$integer", encodeWord(n))
encodedBytes(data) == Tagged("$bytes", Base64(data))

encodedFloat64AsIs(f) == << "number", f >>
encodedFloat64(f) == IF isSpecialFloat(f) THEN Tagged("$float", encodeWord(f)) ELSE << "number", f >>

\* json.Marshal, and the decoder that reads its text back: a nil map is written as
\* null, what is not UTF-8 is replaced, and there is no text for NaN and the infinities.
RECURSIVE Marshal(_)
Marshal(w) ==
  CASE w[1] = "number" -> IF NotFinite(w[2]) THEN Error ELSE w
    [] w = InvalidText -> ReplacedText
    [] w = NilMap -> Null
    [] w[1] = "array" -> Sequenced("array", [i \in DOMAIN w[2] |-> Marshal(w[2][i])])
    [] w[1] = "object" ->
         LET m == [k \in DOMAIN w[2] |-> Marshal(w[2][k])]
         IN  IF \A k \in DOMAIN m : Ok(m[k]) THEN << "object", m >> ELSE Error
    [] OTHER -> w

-----------------------------------------------------------------------------
(* Convex values *)

RECURSIVE ConvexJSON(_)
ConvexJSON(v) ==
  CASE v[1] = "int64" -> encodedInt64(v[2])
    [] v[1] = "float64" -> encodedFloat64(v[2])
    [] v[1] = "bytes" -> encodedBytes(v[2])
    [] v[1] = "array" -> Sequenced("array", [i \in DOMAIN v[2] |-> ConvexJSON(v[2][i])])
    [] v[1] = "object" -> Mapped("object", [k \in DOMAIN v[2] |-> ConvexJSON(v[2][k])])
    [] OTHER -> v   \* null, booleans and strings

\* A $float that an ordinary number could express is refused.
valueFromWireSingleton(key, w) ==
  LET word == IF w[1] = "string" THEN decodeWord(w[2]) ELSE Error
      data == IF w[1] = "string" THEN decodeBase64Compat(w[2]) ELSE Error
  IN  CASE key = "$bytes" -> data
        [] key = "$integer" -> IF Ok(word) THEN << "int64", AsInt64(word[2]) >> ELSE Error
        [] key = "$float" -> IF Ok(word) /\ isSpecialFloat(word[2]) THEN << "float64", word[2] >>
                             ELSE Error
        [] OTHER -> Error   \* $set, $map

Singleton(m) ==
  \E k \in {"$bytes", "$integer", "$float", "$set", "$map"} : DOMAIN m = {k}

RECURSIVE valueFromWire(_)
valueFromWire(w) ==
  CASE w[1] = "number" -> IF w[2] = Huge THEN Error ELSE << "float64", w[2] >>
    [] w = NilMap -> EmptyObject
    [] w[1] = "array" -> Sequenced("array", [i \in DOMAIN w[2] |-> valueFromWire(w[2][i])])
    [] w[1] = "object" ->
         IF Singleton(w[2])
         THEN LET key == CHOOSE k \in DOMAIN w[2] : TRUE IN valueFromWireSingleton(key, w[2][key])
         ELSE Mapped("object", [k \in DOMAIN w[2] |-> valueFromWire(w[2][k])])
    [] OTHER -> w

\* Value.MarshalJSON and Value.UnmarshalJSON.
MarshalJSON(v) == LET w == ConvexJSON(v) IN IF Ok(w) THEN Marshal(w) ELSE Error
ParseValueJSON(w) == valueFromWire(w)

RECURSIVE GoValue(_)
GoValue(v) ==
  CASE v = Null -> << "nil" >>
    [] v[1] = "int64" -> << "int", v[2] >>
    [] v[1] = "float64" -> << "float", v[2] >>
    [] v[1] = "boolean" -> v
    [] v[1] = "array" -> << "slice", [i \in DOMAIN v[2] |-> GoValue(v[2][i])] >>
    [] v[1] = "object" -> << "map", [k \in DOMAIN v[2] |-> GoValue(v[2][k])] >>
    [] OTHER -> v   \* strings and bytes

\* DecodeValue reads a tree without building a Convex value; a $float may hold any float.
decodeWireSingleton(key, w) ==
  LET word == IF w[1] = "string" THEN decodeWord(w[2]) ELSE Error
      data == IF w[1] = "string" THEN decodeBase64Compat(w[2]) ELSE Error
  IN  CASE key = "$bytes" -> data
        [] key = "$integer" -> IF Ok(word) THEN << "int", AsInt64(word[2]) >> ELSE Error
        [] key = "$float" -> IF Ok(word) THEN << "float", word[2] >> ELSE Error
        [] OTHER -> Error

RECURSIVE decodeValue(_)
decodeValue(w) ==
  CASE w = Null -> << "nil" >>
    [] w[1] = "number" -> IF w[2] = Huge THEN Error ELSE << "float", w[2] >>
    [] w = NilMap -> << "map", << >> >>
    [] w[1] = "array" -> Sequenced("slice", [i \in DOMAIN w[2] |-> decodeValue(w[2][i])])
    [] w[1] = "object" ->
         IF Singleton(w[2])
         THEN LET key == CHOOSE k \in DOMAIN w[2] : TRUE IN decodeWireSingleton(key, w[2][key])
         ELSE Mapped("map", [k \in DOMAIN w[2] |-> decodeValue(w[2][k])])
    [] OTHER -> w

-----------------------------------------------------------------------------
(* Go values: nil, bool, string, int, uint, float, bytes, a Convex value, a  *)
(* json.Number, a pointer, a slice, a map, a struct, or something else.      *)

\* A json.Number is written as an integer, with a fraction or an exponent, in words
\* (NaN, Inf), or as what is no number or beyond every float ("garbage"); an integer
\* that overflows becomes a float, here any finite one.
encodeJSONNumber(form, n) ==
  CASE form = "integer" /\ n \in -SignBit .. MaxInt64 -> encodedInt64(n)
    [] form = "integer" -> << "number", SignBit \div 2 >>
    [] form = "decimal" -> IF n = Huge THEN Error ELSE encodedFloat64(n)
    [] form = "words" -> << "number", n >>
    [] form = "garbage" -> Error

isEmptyValue(g) ==
  \/ g[1] \in {"nil", "nilmap"}
  \/ g[1] = "boolean" /\ ~g[2]
  \/ g[1] \in {"int", "uint"} /\ g[2] = 0
  \/ g[1] = "float" /\ g[2] \in {0, SignBit}
  \/ g[1] \in {"slice", "map", "bytes"} /\ DOMAIN g[2] = {}
  \/ g = Plain("")

RECURSIVE encodeValue(_)

\* A field: its Go name, the name in its json tag ("" if there is none), whether the
\* tag says "-" or omitempty, whether it is exported and whether it is embedded.  An
\* embedded value that encodes to an object lends its fields to the struct.
encodeStructField(out, field) ==
  LET encoded == encodeValue(field.value)
      name == IF field.tag = "" THEN field.name ELSE field.tag
      skipped == \/ ~field.exported /\ ~field.anonymous
                 \/ field.tag = "-"
                 \/ field.omitEmpty /\ isEmptyValue(field.value)
  IN  CASE ~Ok(out) \/ skipped -> out
        [] OTHER ->
             IF ~Ok(encoded) THEN Error
             ELSE IF field.anonymous /\ field.tag = "" /\ encoded = NilMap THEN out
             ELSE IF field.anonymous /\ field.tag = "" /\ encoded[1] = "object"
                  THEN << "object", encoded[2] @@ out[2] >>
             ELSE IF ~validateObjectField(name) THEN Error
             ELSE << "object", (name :> encoded) @@ out[2] >>

encodeValue(g) ==
  CASE g[1] = "nil" -> Null
    [] g[1] = "pointer" -> encodeValue(g[2])
    [] g[1] = "Value" -> ConvexJSON(g[2])
    [] g[1] \in {"boolean", "string", "nilmap"} -> g
    [] g[1] = "int" -> encodedInt64(g[2])
    [] g[1] = "uint" -> IF g[2] > MaxInt64 THEN Error ELSE encodedInt64(g[2])
    [] g[1] = "float" -> encodedFloat64(g[2])
    [] g[1] = "bytes" -> encodedBytes(g[2])
    [] g[1] = "json.Number" -> encodeJSONNumber(g[2], g[3])
    [] g[1] = "slice" -> Sequenced("array", [i \in DOMAIN g[2] |-> encodeValue(g[2][i])])
    [] g[1] = "map" -> Mapped("object", [k \in DOMAIN g[2] |-> encodeValue(g[2][k])])
    [] g[1] = "struct" -> FoldLeft(encodeStructField, EmptyObject, g[2])
    [] OTHER -> Error   \* channels, functions, maps whose keys are not strings

\* EncodeJSON, ValueFromGo.
EncodeJSON(g) == LET w == encodeValue(g) IN IF Ok(w) THEN Marshal(w) ELSE Error

ValueFromGo(g) ==
  IF g[1] = "Value" THEN g[2]
  ELSE LET w == encodeValue(g) IN IF Ok(w) THEN valueFromWire(w) ELSE Error

\* The arguments of a call: nil is the empty object, and what encodes to a map is let
\* through.  HTTP sends the tree, a realtime call the value it reads from its text.
encodeArgs(g) ==
  LET w == IF g = << "nil" >> THEN EmptyObject ELSE encodeValue(g)
  IN  IF w[1] \in {"object", "nilmap"} THEN w ELSE Error

syncQueryArgValue(g) ==
  LET w == encodeArgs(g)
      text == IF Ok(w) THEN Marshal(w) ELSE Error
  IN  IF Ok(text) THEN ParseValueJSON(text) ELSE Error

=============================================================================
