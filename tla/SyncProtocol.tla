---------------------------- MODULE SyncProtocol ----------------------------
(***************************************************************************)
(* internal/syncprotocol: the messages of the sync protocol and their JSON. *)
(* A message is <<"message", type, fields>>; its JSON is an object of Values.*)
(* What the code repeats for every field of every message is a table here:  *)
(* each field has a type and a rule, which says when it is written and what  *)
(* a missing or a null one is read as.                                       *)
(***************************************************************************)
EXTENDS Values

CONSTANT MaxUint32

Nil == << "nil" >>         \* a nil pointer or slice
Absent == << "absent" >>   \* a field that is missing, an optional one without a value

\* Rules.  always: written whatever it is.  omitEmpty, pointer: written unless zero,
\* unless nil.  optional: missing, null and present are told apart.  required: the same,
\* and it must not be missing.  flagged: optional, and written only if it was read from
\* a message (a private field says so), not if a program set it: <<"set", x>>.
Field(type, rule) == [type |-> type, rule |-> rule]
String == Field("string", "always")
Uint32 == Field("uint32", "always")

-----------------------------------------------------------------------------
(* Messages *)

ConnectMessage ==
  [sessionId |-> String, connectionCount |-> Uint32, clientTs |-> Field("int64", "pointer"),
   maxObservedTimestamp |-> Field("timestamp", "pointer"), lastCloseReason |-> Field("string", "reason")]

ModifyQuerySetMessage ==
  [baseVersion |-> Uint32, newVersion |-> Uint32,
   modifications |-> Field("querySetModifications", "nonNull")]

QuerySetAdd ==
  [queryId |-> Uint32, udfPath |-> String, args |-> Field("values", "always"),
   componentPath |-> Field("string", "omitEmpty"), journal |-> Field("string", "optional")]

QuerySetRemove == [queryId |-> Uint32]

MutationMessage ==
  [requestId |-> Uint32, udfPath |-> String, args |-> Field("values", "always"),
   componentPath |-> Field("string", "omitEmpty")]

ActionMessage == MutationMessage

AuthenticateMessage ==
  [baseVersion |-> Uint32, tokenType |-> String, value |-> Field("string", "omitEmpty"),
   impersonating |-> Field("identity", "pointer")]

EventMessage == [eventType |-> String, event |-> Field("raw", "raw")]

StateVersion == [querySet |-> Uint32, identity |-> Uint32, ts |-> Field("timestamp", "always")]

TransitionMessage ==
  [startVersion |-> Field("version", "always"), endVersion |-> Field("version", "always"),
   modifications |-> Field("stateModifications", "always"),
   clientClockSkew |-> Field("number", "flagged"), serverTs |-> Field("int64", "flagged")]

QueryUpdated ==
  [queryId |-> Uint32, value |-> Field("value", "always"), logLines |-> Field("strings", "always"),
   journal |-> Field("string", "required")]

QueryFailed ==
  [queryId |-> Uint32, errorMessage |-> String, logLines |-> Field("strings", "always"),
   journal |-> Field("string", "required"), errorData |-> Field("value", "optional")]

QueryRemoved == [queryId |-> Uint32]

ActionResponseMessage ==
  [requestId |-> Uint32, success |-> Field("bool", "always"), logLines |-> Field("strings", "always"),
   errorData |-> Field("value", "errorData"), result |-> Field("value", "result")]

MutationResponseMessage == ActionResponseMessage @@ [ts |-> Field("timestamp", "optional")]

AuthErrorMessage ==
  [error |-> String, baseVersion |-> Field("uint32", "optional"),
   authUpdateAttempted |-> Field("bool", "pointer")]

FatalErrorMessage == [error |-> String]
PingMessage == << >>

TransitionChunkMessage ==
  [chunk |-> String, partNumber |-> Uint32, totalParts |-> Uint32, transitionId |-> String]

Fields ==
  [Connect |-> ConnectMessage, ModifyQuerySet |-> ModifyQuerySetMessage, Add |-> QuerySetAdd,
   Remove |-> QuerySetRemove, Mutation |-> MutationMessage, Action |-> ActionMessage,
   Authenticate |-> AuthenticateMessage, Event |-> EventMessage, Version |-> StateVersion,
   Transition |-> TransitionMessage, QueryUpdated |-> QueryUpdated, QueryFailed |-> QueryFailed,
   QueryRemoved |-> QueryRemoved, MutationResponse |-> MutationResponseMessage,
   ActionResponse |-> ActionResponseMessage, AuthError |-> AuthErrorMessage,
   FatalError |-> FatalErrorMessage, Ping |-> PingMessage, TransitionChunk |-> TransitionChunkMessage]

ClientMessages == {"Connect", "ModifyQuerySet", "Mutation", "Action", "Authenticate", "Event"}
ServerMessages == {"Transition", "TransitionChunk", "MutationResponse", "ActionResponse", "AuthError",
                   "FatalError", "Ping"}
QuerySetModifications == {"Add", "Remove"}
StateModifications == {"QueryUpdated", "QueryFailed", "QueryRemoved"}

-----------------------------------------------------------------------------
(* Identities: claims, three of which have a field of their own *)

Names == {"tokenIdentifier", "issuer", "subject"}
Get(raw, field) == IF field \in DOMAIN raw THEN raw[field] ELSE Absent

\* issuer|subject stands in for a missing token identifier.
Completed(id) ==
  IF id.tokenIdentifier # Plain("") \/ Plain("") \in {id.issuer, id.subject} THEN id
  ELSE [id EXCEPT !.tokenIdentifier = << "string", << "joined", id.issuer, id.subject >> >>]

IdentityJSON(i) ==
  LET id == Completed(i[2])
      claims == Restrict(id, {n \in Names : id[n] # Plain("")}) @@ i[3]
  IN  IF \A k \in DOMAIN claims : Ok(claims[k]) THEN << "object", claims >> ELSE Error

IdentityFrom(w) ==
  LET claim(n) == LET c == Get(w[2], n) IN IF c[1] = "string" THEN c ELSE Plain("")
      id == Completed([n \in Names |-> claim(n)])
  IN  IF w[1] # "object" THEN Error
      ELSE IF id.tokenIdentifier = Plain("") THEN Error ELSE << "identity", id, w[2] >>

-----------------------------------------------------------------------------
(* Writing *)

RECURSIVE Encode(_)

JSON(type, x) ==
  CASE x = Nil -> Null
    [] type = "timestamp" -> IF x[2] > MaxInt64 THEN Error ELSE encodeWord(x[2])
    [] type = "values" -> Sequenced("array", [i \in DOMAIN x[2] |-> MarshalJSON(x[2][i])])
    [] type = "value" -> MarshalJSON(x)
    [] type = "version" -> Encode(x)
    [] type \in {"querySetModifications", "stateModifications"} ->
         Sequenced("array", [i \in DOMAIN x[2] |-> Encode(x[2][i])])
    [] type = "identity" -> IdentityJSON(x)
    [] OTHER -> x

Zero(type) ==
  CASE type = "string" -> Plain("")
    [] type \in {"uint32", "int64", "number", "timestamp"} -> << "number", 0 >>
    [] type = "bool" -> << "boolean", FALSE >>
    [] type = "value" -> Null
    [] type = "version" -> << "message", "Version",
                              [f \in DOMAIN StateVersion |-> << "number", 0 >>] >>
    [] type = "stateModifications" -> << "array", << >> >>
    [] OTHER -> Nil

OmittedNull(field, x, m) ==
  \/ field.rule \in {"omitEmpty", "reason"} /\ x = Zero(field.type)
  \/ field.rule = "pointer" /\ x = Nil
  \/ field.rule \in {"optional", "flagged", "errorData"} /\ x \in {Absent, Null}
  \/ field.rule = "flagged" /\ x[1] = "set"
  \/ field.rule = "errorData" /\ m.success[2]

Omitted(field, x, m) ==
  \/ field.rule \in {"omitEmpty", "reason"} /\ x = Zero(field.type)
  \/ field.rule = "pointer" /\ x = Nil
  \/ field.rule \in {"optional", "flagged", "errorData"} /\ x = Absent
  \/ field.rule = "flagged" /\ x[1] = "set"
  \/ field.rule = "errorData" /\ m.success[2]

Written(field, x) ==
  CASE x \in {Absent, Null} -> Null
    [] field.rule = "result" -> MarshalJSON(x)   \* a message is a string
    [] OTHER -> JSON(field.type, x)

\* EncodeClientMessage, EncodeServerMessage and the MarshalJSON methods.
Encode(message) ==
  LET type == message[2]
      m == message[3]
      wire == [f \in {g \in DOMAIN m : ~Omitted(Fields[type][g], m[g], m)} |-> Written(Fields[type][f], m[f])]
      tag == IF type = "Version" THEN << >> ELSE [type |-> Plain(type)]
  IN  IF \A f \in DOMAIN wire : Ok(wire[f]) THEN << "object", tag @@ wire >> ELSE Error

-----------------------------------------------------------------------------
(* Reading *)

RECURSIVE Decode(_, _)

\* The discriminator picks the message.
Discriminated(types, w) ==
  IF w[1] # "object" THEN Error
  ELSE LET matching == {t \in types : Get(w[2], "type") = Plain(t)}
       IN  IF matching = {} THEN Error ELSE Decode(CHOOSE t \in matching : TRUE, w[2])

Elements(w, Op(_)) ==
  IF w[1] = "array" THEN Sequenced("array", [i \in DOMAIN w[2] |-> Op(w[2][i])]) ELSE Error

Is(kind, w) == IF w[1] = kind THEN w ELSE Error

\* A number in an integer field is its value; one with a fraction stands beyond the range.
Read(type, w) ==
  CASE type = "string" -> Is("string", w)
    [] type = "uint32" -> IF w[1] = "number" /\ w[2] \in 0 .. MaxUint32 THEN w ELSE Error
    [] type = "int64" -> IF w[1] = "number" /\ w[2] \in -SignBit .. MaxInt64 THEN w ELSE Error
    [] type = "number" -> IF w[1] = "number" /\ w[2] # Huge THEN w ELSE Error
    [] type = "bool" -> Is("boolean", w)
    [] type = "timestamp" ->
         LET word == IF w[1] = "string" THEN decodeWord(w[2]) ELSE Error
         IN  IF Ok(word) /\ word[2] <= MaxInt64 THEN << "number", word[2] >> ELSE Error
    [] type = "strings" -> Elements(w, LAMBDA x : IF x = Null THEN Plain("") ELSE Is("string", x))
    [] type = "values" -> Elements(w, valueFromWire)
    [] type = "value" -> valueFromWire(w)
    [] type = "version" -> IF w[1] = "object" THEN Decode("Version", w[2]) ELSE Error
    [] type = "querySetModifications" -> Elements(w, LAMBDA x : Discriminated(QuerySetModifications, x))
    [] type = "stateModifications" -> Elements(w, LAMBDA x : Discriminated(StateModifications, x))
    [] type = "identity" -> IdentityFrom(w)
    [] OTHER -> w

\* unmarshalExactField and the optional...FromRaw functions.
ReadField(field, w) ==
  LET rule == field.rule
  IN  CASE rule \in {"always", "omitEmpty"} /\ w = Absent -> Zero(field.type)
        [] rule \in {"always", "omitEmpty"} /\ w = Null ->
             IF field.type = "timestamp" THEN Error ELSE Zero(field.type)
        [] rule = "pointer" /\ w \in {Absent, Null} -> Nil
        [] rule \in {"optional", "flagged", "errorData", "raw"} /\ w \in {Absent, Null} -> w
        [] rule \in {"required", "nonNull"} /\ w = Absent -> Error
        [] rule = "required" /\ w = Null -> Null
        [] rule = "nonNull" /\ w = Null -> Error
        [] rule = "reason" /\ w = Null -> Null
        [] rule = "reason" /\ w \in {Absent, Plain("")} -> Plain("unknown")
        [] OTHER -> Read(field.type, w)

\* The result of a call is a value or, if it failed, a message.
ReadResult(raw) ==
  LET w == Get(raw, "result")
  IN  CASE w = Absent -> Error
        [] Get(raw, "success") = << "boolean", TRUE >> -> valueFromWire(w)
        [] w = Null -> Plain("")
        [] OTHER -> Is("string", w)

\* actingAs, even if it is null, hides impersonating.
Source(raw, f) ==
  IF f = "impersonating" /\ "actingAs" \in DOMAIN raw THEN raw["actingAs"] ELSE Get(raw, f)

Decode(type, raw) ==
  LET m == [f \in DOMAIN Fields[type] |->
              IF f = "result" THEN ReadResult(raw) ELSE ReadField(Fields[type][f], Source(raw, f))]
  IN  IF \A f \in DOMAIN m : Ok(m[f]) THEN << "message", type, m >> ELSE Error

DecodeClientMessage(w) == Discriminated(ClientMessages, w)
DecodeServerMessage(w) == Discriminated(ServerMessages, w)

=============================================================================
