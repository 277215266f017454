------------------------------- MODULE Codec -------------------------------
(***************************************************************************)
(* What a program hands to the client and what the other side makes of it:  *)
(* a Go value, a query (a name and arguments) or a message is encoded and    *)
(* sent, and what arrives is decoded.  The JSON of another implementation    *)
(* starts at the second step.  Function results and the replies of the HTTP  *)
(* interface are read here too.                                              *)
(***************************************************************************)
EXTENDS FunctionPaths, SyncProtocol

CONSTANTS
  GoValues,   \* Go values that a program may pass
  Queries,    \* [name, args, function]: a name, and the function it is a spelling of
  Subscribed, \* some of them, which subscribers of the client hold already
  Messages,   \* messages that a program may build
  Trees,      \* JSON that stands, or fails to stand, for a value
  Texts       \* JSON that stands, or fails to stand, for a message

VARIABLES stage, item, wire, got

vars == <<stage, item, wire, got>>

-----------------------------------------------------------------------------
(* internal/core/function_result.go, baseclient/client_receive.go *)

FunctionResult(value, message, convexError) ==
  [value |-> value, errorMessage |-> message, convexError |-> convexError]

ValueResult(value) == FunctionResult(value, Plain(""), Nil)
ErrorMessageResult(message) == FunctionResult(Null, message, Nil)
ConvexErrorResult(message, data) == FunctionResult(Null, Plain(""), << "convexError", message, data >>)

IsValue(r) == r.errorMessage = Plain("") /\ r.convexError = Nil

FailureWithoutNull(message, data) ==
  IF data \notin {Absent, Null} THEN ConvexErrorResult(message, data) ELSE ErrorMessageResult(message)

\* A ConvexError if there is data, even null, and a plain error otherwise.
Failure(message, data) ==
  IF data # Absent THEN ConvexErrorResult(message, data) ELSE ErrorMessageResult(message)

functionResultFromResponse(m) ==
  IF m.success[2] THEN ValueResult(m.result) ELSE Failure(m.result, m.errorData)

queryFailedResult(m) == Failure(m.errorMessage, m.errorData)

\* doFunctionRequest: the status is a success or the one for a failed function ("ok"),
\* or another.
doFunctionRequest(code, body) ==
  LET value == valueFromWire(Get(body, "value"))
      data == valueFromWire(Get(body, "errorData"))
  IN  CASE code = "other" -> Error
        [] Get(body, "status") = Plain("success") ->
             IF "value" \in DOMAIN body THEN value ELSE Error
        [] Get(body, "status") = Plain("error") ->
             IF Ok(data) THEN << "functionError", Get(body, "errorMessage"), data >> ELSE Error
        [] OTHER -> Error

-----------------------------------------------------------------------------
(* Sending and receiving *)

Sent(kind, values) == [kind : {kind}, value : values]

Init ==
  /\ \/ /\ item \in Sent("value", GoValues) \union Sent("query", Queries) \union Sent("message", Messages)
        /\ stage = "made"
        /\ wire = Error
     \/ /\ item \in Sent("tree", Trees) \union Sent("text", Texts)
        /\ stage = "sent"
        /\ wire = item.value
  /\ got = Error

\* An encoding that fails sends nothing: the program gets an error.
Sends(w) ==
  /\ stage = "made"
  /\ stage' = IF Ok(w) THEN "sent" ELSE "failed"
  /\ wire' = w
  /\ UNCHANGED <<item, got>>

SendValue == item.kind = "value" /\ Sends(EncodeJSON(item.value))

\* BaseClient.Subscribe: the first query of a session is added.
Subscribe(query) ==
  LET add == << "message", "Add",
                [queryId |-> << "number", 0 >>, udfPath |-> << "string", query[2] >>,
                 args |-> << "array", query[3] >>, componentPath |-> Plain(""), journal |-> Absent] >>
  IN  << "message", "ModifyQuerySet",
         [baseVersion |-> << "number", 0 >>, newVersion |-> << "number", 1 >>,
          modifications |-> << "array", << add >> >>] >>

SendQuery ==
  /\ item.kind = "query"
  /\ LET query == canonicalQuery(item.value.name, item.value.args)
     IN  Sends(IF Ok(query) THEN Encode(Subscribe(query)) ELSE Error)

SendMessage == item.kind = "message" /\ Sends(Encode(item.value))

\* Each side knows its messages.
DecodeMessage(w) == LET m == DecodeClientMessage(w) IN IF Ok(m) THEN m ELSE DecodeServerMessage(w)

Receives(r) ==
  /\ stage = "sent"
  /\ stage' = IF Ok(r) THEN "received" ELSE "refused"
  /\ got' = r
  /\ UNCHANGED <<item, wire>>

ReceiveValue == item.kind \in {"value", "tree"} /\ Receives(ParseValueJSON(wire))

ReceiveMessage ==
  /\ item.kind \in {"query", "message", "text"}
  /\ Receives(DecodeMessage(wire))

Next == SendValue \/ SendQuery \/ SendMessage \/ ReceiveValue \/ ReceiveMessage

Spec == Init /\ [][Next]_vars

-----------------------------------------------------------------------------
(* Properties *)

RECURSIVE Subtrees(_)
Subtrees(w) ==
  {w} \union (IF w[1] \in {"array", "object"} THEN UNION {Subtrees(w[2][i]) : i \in DOMAIN w[2]} ELSE {})

RECURSIVE Parts(_)
Parts(g) ==
  {g} \union CASE g[1] = "pointer" -> Parts(g[2])
               [] g[1] \in {"slice", "map"} -> UNION {Parts(g[2][i]) : i \in DOMAIN g[2]}
               [] g[1] = "struct" -> UNION {Parts(g[2][i].value) : i \in DOMAIN g[2]}
               [] OTHER -> {}

HoldsNaNNumber(g) == \E p \in Parts(g) : p[1] = "json.Number" /\ p[2] = "words"

\* What stands beside a reserved key: a struct that embeds an Int64 or Bytes gives it
\* to its object, next to its other fields.
MixedObject(w) ==
  /\ w[1] = "object"
  /\ DOMAIN w[2] \intersect ReservedFields # {} /\ ~Singleton(w[2])

RoundTrips(v) ==
  /\ Ok(MarshalJSON(v)) /\ ParseValueJSON(MarshalJSON(v)) = v
  /\ ValueFromGo(GoValue(v)) = v

\* EncodeJSON writes whatever ValueFromGo takes, but for a json.Number that spells NaN
\* or Inf.  What EncodeJSON writes, ParseValueJSON reads, unless a struct embeds a value that is
\* written with a $ key; and it reads what ValueFromGo makes of the same Go value, unless
\* a nil map is in it, which is null for one and an empty object for the other, or a
\* string that is not UTF-8, which only the text repairs.  A value
\* that was read survives its own JSON and its own Go value: every bit of an integer or
\* a float, minus zero and NaN included.  DecodeValue reads what DecodeJSON reads, and
\* beyond that only ordinary floats in the wrapping of special ones.
ValuesSurvive ==
  /\ item.kind = "value" =>
       LET v == ValueFromGo(item.value)
           w == encodeValue(item.value)
       IN  /\ stage = "received" => /\ RoundTrips(got)
                                     /\ Ok(v) /\ (got = v <=> {NilMap, InvalidText} \intersect Subtrees(w) = {})
           /\ stage = "refused" => \E t \in Subtrees(w) : MixedObject(t)
           /\ stage = "failed" /\ Ok(v) => HoldsNaNNumber(item.value)
  /\ item.kind = "tree" =>
       /\ stage = "received" => RoundTrips(got) /\ decodeValue(wire) = GoValue(got)
       /\ stage = "refused" /\ Ok(decodeValue(wire)) =>
            \E t \in Subtrees(wire) : t[1] = "object" /\ DOMAIN t[2] = {"$float"}

\* What arguments mean: their value, where no arguments are an empty object, a nil map is
\* null and a string is the text that json.Marshal makes of it.
RECURSIVE AsText(_)
AsText(g) ==
  CASE g = NilMap -> << "nil" >>
    [] g = InvalidText -> ReplacedText
    [] g[1] = "pointer" -> << "pointer", AsText(g[2]) >>
    [] g[1] \in {"slice", "map"} -> << g[1], [i \in DOMAIN g[2] |-> AsText(g[2][i])] >>
    [] OTHER -> g

Meaning(args) == IF args = << "nil" >> THEN EmptyObject ELSE ValueFromGo(AsText(args))

\* Integers, bytes and special floats are written as objects with a $ key.
WrittenAsObject(v) ==
  \/ v[1] \in {"object", "int64", "bytes"}
  \/ v[1] = "float64" /\ isSpecialFloat(v[2])

AcceptedArgs(g) ==
  /\ g = << "nil" >> \/ WrittenAsObject(ValueFromGo(g))
  /\ ~HoldsNaNNumber(g)

\* Whatever spelling of a function a program subscribes to, with extensions, dots and
\* detours, the server is asked for that function and no other, and with arguments that
\* mean what the program gave.  A query is refused exactly if it names no function, if
\* its arguments have no value or one that is not written as an object (a pointer to a
\* map is; so, by their $ keys, are an integer, bytes, minus zero and NaN), or if they hold a
\* json.Number that spells NaN or Inf, which has a value but no text.
QueriesKeepTheirMeaning ==
  item.kind = "query" =>
    LET q == item.value
        add == got[3].modifications[2][1][3]
    IN  /\ stage # "refused"
        /\ stage = "failed" <=> stage # "made" /\ (q.function = Error \/ ~AcceptedArgs(q.args))
        /\ stage = "received" =>
             add.udfPath = << "string", q.function >> /\ add.args[2] = << Meaning(q.args) >>

\* Two subscriptions share a query, because canonicalQuery gives them one token, if and
\* only if they ask for the same function with arguments of the same meaning, whatever
\* their spellings: 1 and 1.0, 0.0 and -0.0, nil and a nil map are told apart, "a:f", "./a.js:f" and
\* "api.a.f" are not.
TokensTellQueriesApart ==
  item.kind = "query" /\ stage = "sent" =>
    LET q == item.value
        mine == canonicalQuery(q.name, q.args)
        meaning == Meaning(q.args)
    IN  \A other \in Subscribed :
          LET theirs == canonicalQuery(other.name, other.args)
          IN  Ok(theirs) =>
                (theirs[4] = mine[4] <=> other.function = q.function /\ Meaning(other.args) = meaning)

\* What has no text: a timestamp beyond the signed range, an event that is not JSON, a
\* claim that cannot be marshalled.
RECURSIVE Unsendable(_)
Unsendable(message) ==
  \E f \in DOMAIN message[3] :
    LET x == message[3][f]
        type == Fields[message[2]][f].type
    IN  CASE type = "timestamp" -> x[1] = "number" /\ x[2] > MaxInt64
          [] type = "version" -> Unsendable(x)
          [] type = "raw" -> x = Error
          [] type = "identity" -> x # Nil /\ Error \in Range(x[3])
          [] OTHER -> FALSE

RECURSIVE Normal(_)
Normal(message) ==
  LET m == message[3]
      Each(f) ==
        CASE f = "lastCloseReason" /\ m[f] = Plain("") -> Plain("unknown")
          [] f = "journal" /\ message[2] \in StateModifications /\ m[f] = Absent -> Null
          [] f = "event" /\ m[f] = Absent -> Null
          [] f \in {"clientClockSkew", "serverTs"} /\ m[f][1] = "set" -> Absent
          [] f = "errorData" /\ message[2] \notin StateModifications /\ m.success[2] -> Absent
          [] f = "modifications" /\ m[f] = Nil -> << "array", << >> >>
          [] f = "modifications" /\ m[f] # Nil -> << "array", [i \in DOMAIN m[f][2] |-> Normal(m[f][2][i])] >>
          [] f = "impersonating" /\ m[f] # Nil -> IdentityFrom(IdentityJSON(m[f]))
          [] OTHER -> m[f]
  IN  << "message", message[2], [f \in DOMAIN m |-> Each(f)] >>

\* A message arrives as it was built, missing and null fields told apart where the
\* protocol tells them apart.  The exceptions are all: an empty close reason arrives as
\* "unknown", a missing journal and a missing event as null; the data of an error is
\* dropped from a success and the clocks that a program sets in a Transition are
\* dropped; an identity is completed.  Only a query set change without a list and an
\* identity without a name are sent and then refused.  A message is not sent exactly if a
\* timestamp in it is too large, its event is not JSON or a claim cannot be marshalled.
\* A message that was read, from any JSON, survives being sent on.
MessagesSurvive ==
  item.kind \in {"message", "text"} =>
    /\ stage = "received" => /\ item.kind = "message" => got = Normal(item.value)
                              /\ DecodeMessage(Encode(got)) = Normal(got)
    /\ item.kind = "message" /\ stage # "made" => (stage = "failed" <=> Unsendable(item.value))
    /\ stage = "refused" /\ item.kind = "message" =>
         LET m == item.value[3]
         IN  \/ item.value[2] = "ModifyQuerySet" /\ m.modifications = Nil
             \/ item.value[2] = "Authenticate" /\ ~Ok(IdentityFrom(IdentityJSON(m.impersonating)))

\* The reply of the HTTP interface that says the same as a response.
Reply(m) ==
  IF m.success[2] THEN [status |-> Plain("success"), value |-> MarshalJSON(m.result)]
  ELSE [status |-> Plain("error"), errorMessage |-> m.result]
       @@ (IF m.errorData = Absent THEN << >> ELSE [errorData |-> MarshalJSON(m.errorData)])

\* A response that reports a failure becomes an error, with its data if it has any, and
\* one that reports a success becomes its value; and the same reply over HTTP ends in
\* the same way.  The one exception: over the sync protocol a failure with an empty
\* message and no data is taken for a success without a value.
FailuresStayFailures ==
  stage = "received" /\ item.kind = "text" =>
    LET m == got[3]
        Outcome(r, message, data) ==
          IF data # Absent THEN r.convexError = << "convexError", message, data >>
          ELSE r.convexError = Nil /\ r.errorMessage = message /\ (IsValue(r) <=> message = Plain(""))
    IN  /\ got[2] \in {"MutationResponse", "ActionResponse"} =>
             LET r == functionResultFromResponse(m)
                 reply == doFunctionRequest("ok", Reply(m))
             IN  /\ m.success[2] => IsValue(r) /\ r.value = m.result /\ reply = m.result
                 /\ ~m.success[2] => /\ Outcome(r, m.result, m.errorData)
                                      /\ reply = << "functionError", m.result, m.errorData >>
        /\ got[2] = "Transition" =>
             \A i \in DOMAIN m.modifications[2] :
               LET mod == m.modifications[2][i]
               IN  mod[2] = "QueryFailed" =>
                     Outcome(queryFailedResult(mod[3]), mod[3].errorMessage, mod[3].errorData)

=============================================================================
