------------------------------ MODULE MCCodec ------------------------------
(* Finite inputs for Codec: words of two bytes of four values, floats with    *)
(* two bits of exponent and one of mantissa.                                  *)
EXTENDS Codec

Objects(keys, S) == UNION {[ks -> S] : ks \in SUBSET keys}

\* Go values.
MCScalars ==
  {<< "nil" >>, << "nilmap" >>, << "chan" >>, << "boolean", FALSE >>, Plain(""), Plain("x"), InvalidText}
  \union ({"int"} \X {-8, -1, 0, 7}) \union ({"uint"} \X {0, 7, 8}) \union ({"float"} \X (0 .. 15))
  \union ({"bytes"} \X {<< >>, << 3 >>, << 0, 3 >>})
  \union ({"json.Number"} \X {"integer"} \X {-8, 7, 8}) \union ({"json.Number"} \X {"decimal"} \X {3, 8, Huge})
  \union {<< "json.Number", "words", 7 >>, << "json.Number", "garbage", 0 >>}
MCFew == {<< "nil" >>, << "nilmap" >>, << "int", -1 >>, << "float", 8 >>, << "bytes", << >> >>, << "chan" >>}
MCFields ==
  [name : {"A"}, tag : {"", "a", "-"}, omitEmpty : BOOLEAN, exported : BOOLEAN, anonymous : BOOLEAN,
   value : MCFew \union {<< "map", [a |-> << "int", 7 >>] >>}]
MCLater == [name : {"B"}, tag : {"", "a", "$other"}, omitEmpty : {FALSE}, exported : {TRUE}, anonymous : {FALSE},
            value : {<< "int", 0 >>}]
MCGoValues ==
  MCScalars
  \union ({"pointer"} \X MCFew)
  \union ({"slice"} \X ({<< >>} \union (MCFew \X MCScalars)))
  \union ({"map"} \X (Objects({"a", "b"}, MCFew) \union Objects({"a", "$integer"}, MCFew)))
  \union ({"slice"} \X {<< << "map", m >> >> : m \in Objects({"a"}, MCScalars)})
  \union ({"struct"} \X ({<< f >> : f \in MCFields} \union (MCFields \X MCLater)))
  \union ({"Value"} \X {Null, << "int64", -8 >>, << "object", [a |-> << "float64", 7 >>] >>})

\* JSON for values.
MCLeaves ==
  {Null, NilMap, << "boolean", TRUE >>, << "number", 3 >>, << "number", Huge >>, Plain("x"),
   << "string", << "std", << 3 >> >> >>}
  \union ({"string"} \X ({"std", "url"} \X {<< 0, 0 >>, << 3, 3 >>, << 0, 2 >>, << 1, 0 >>}))
MCTrees ==
  LET objects == {"object"} \X (UNION {[{k} -> MCLeaves] : k \in ReservedFields \union {"a"}}
                                \union Objects({"a", "$bytes", "bad"}, {Null, Plain("x")}))
  IN  MCLeaves \union objects \union ({"array"} \X {<< o >> : o \in MCLeaves \union objects})
      \union ({"object"} \X [{"a", "b"} -> {<< "number", 3 >>} \union objects])

\* The functions a:f, a:default, a/b:f and a/b:default, all their spellings, and names
\* of no function.
Name(segs, colon, blanks, export) == [segs |-> segs, colon |-> colon, blanks |-> blanks, export |-> export]

Detours(segs) ==
  {segs, << Dot >> \o segs, << << "x" >>, DotDot >> \o segs, << segs[1], Nothing >> \o Tail(segs)}
  \union {Append(segs, DotDot) \o << Last(segs) >>}

Suffixed(segs, exts) == MapLast(LAMBDA seg : seg \o exts, segs)
Dotted(segs, export) == << << "api" >> \o [i \in DOMAIN segs |-> segs[i][1]] \o << export >> >>

Spellings(segs, export) ==
  {Name(Suffixed(d, exts), TRUE, blanks, export) :
     d \in {e \in Detours(segs) : Last(e) = Last(segs)},
     exts \in {<< >>, << "js" >>, << "ts" >>, << "js", "tsx" >>}, blanks \in BOOLEAN}
  \union {Name(Suffixed(d, << "ts" >>), colon, FALSE, "") :
            d \in {e \in Detours(segs) : export = "default" /\ Last(e) = Last(segs)}, colon \in BOOLEAN}
  \union {Name(Dotted(segs, export), FALSE, FALSE, "")}

MCModules == {<< << "a" >> >>, << << "a" >>, << "b" >> >>}

MCNameless ==
  [segs : {<< Nothing, << "a" >> >>, << DotDot, << "a" >> >>, << Nothing >>, << Dot >>, << << "a", "css" >> >>,
           << << "?" >> >>, << << "_" >> >>, << << "a", "" >> >>, << << "a" >>, DotDot >>},
   colon : {TRUE}, blanks : BOOLEAN, export : {"f"}]
  \union [segs : {<< << "a" >> >>}, colon : {TRUE}, blanks : BOOLEAN, export : {"_", "?"}]
  \union [segs : {<< << "api", "a" >> >>, << << "api", "a" >>, << "f" >> >>, << << "api", "", "f" >> >>},
          colon : BOOLEAN, blanks : {FALSE}, export : {""}]

MCArgs == MCFew \union {<< "map", << >> >>, << "slice", << >> >>, Plain("x"), << "map", [a |-> << "float", 7 >>] >>,
                       << "struct", << >> >>, << "map", [a |-> << "nilmap" >>] >>}
  \union {<< "map", [a |-> g] >> :
            g \in {<< "int", 0 >>, << "float", 0 >>, << "float", 8 >>, InvalidText, << "json.Number", "words", 7 >>,
                  << "json.Number", "garbage", 0 >>, << "json.Number", "integer", 0 >>}}
  \union {<< "pointer", g >> : g \in {<< "nil" >>, << "map", << >> >>, << "int", -1 >>}}
  \union {<< "map", [bad |-> << "nil" >>] >>, << "float", 3 >>, << "float", 7 >>, << "Value", << "int64", -1 >> >>}

MCQueries ==
  UNION {[name : Spellings(segs, export), args : MCArgs, function : {<< "function", segs, export >>}] :
           segs \in MCModules, export \in {"f", "default"}}
  \union [name : MCNameless, args : {<< "nil" >>}, function : {Error}]

\* One query of each meaning, so that every two are compared through one of them.
MCSubscribed ==
  {[name |-> Name(Suffixed(segs, << "js", "tsx" >>), TRUE, FALSE, export), args |-> args,
    function |-> << "function", segs, export >>] :
     segs \in MCModules, export \in {"f", "default"}, args \in MCArgs}

\* Messages, one for every choice of a value for each field.
RECURSIVE Combinations(_)
Combinations(dom) ==
  IF DOMAIN dom = {} THEN {<< >>}
  ELSE LET f == CHOOSE g \in DOMAIN dom : TRUE
       IN  {(f :> x) @@ m : x \in dom[f], m \in Combinations(Restrict(dom, DOMAIN dom \ {f}))}

Identity(t, i, s) == [tokenIdentifier |-> Plain(t), issuer |-> Plain(i), subject |-> Plain(s)]
MCIdentities ==
  {<< "identity", id, claims >> : id \in {Identity(t, i, s) : t \in {"", "t"}, i \in {"", "i"}, s \in {"", "s"}},
                                  claims \in {<< >>, [email |-> Plain("e"), issuer |-> Plain("j")], [email |-> Error]}}

MCVersion(n, ts) ==
  << "message", "Version", [querySet |-> << "number", n >>, identity |-> << "number", n >>, ts |-> << "number", ts >>] >>

Domain(field) ==
  CASE field.rule = "flagged" -> {Absent, Null, << "number", 3 >>, << "set", << "number", 3 >> >>}
    [] field.rule = "raw" -> {Absent, Null, Plain("x"), Error}
    [] field.type = "string" -> {Plain(""), Plain("x")}
    [] field.type \in {"uint32", "int64", "number"} -> {<< "number", 3 >>}
    [] field.type = "timestamp" -> {<< "number", 7 >>, << "number", 8 >>}
    [] field.type = "bool" -> {<< "boolean", b >> : b \in BOOLEAN}
    [] field.type = "values" -> {Nil, << "array", << Null, << "float64", 7 >> >> >>}
    [] field.type = "value" -> {Null, << "int64", -8 >>, Plain("")}
    [] field.type = "strings" -> {Nil, << "array", << Plain("x") >> >>}
    [] field.type = "identity" -> MCIdentities
    [] field.type = "version" -> {MCVersion(0, 0), MCVersion(7, 7), MCVersion(3, 8)}

Built(type, more) ==
  {<< "message", type, m >> :
     m \in Combinations([f \in DOMAIN Fields[type] |->
                     LET field == Fields[type][f]
                     IN  IF f \in DOMAIN more THEN more[f]
                         ELSE Domain(field)
                              \union (IF field.rule = "pointer" THEN {Nil} ELSE {})
                              \union (IF field.rule \in {"optional", "errorData", "required"} THEN {Absent, Null}
                                      ELSE {})])}

Lists(S) == {Nil, << "array", << >> >>} \union {<< "array", << x >> >> : x \in S}
MCEdits == UNION {Built(t, << >>) : t \in QuerySetModifications}
MCUpdates == UNION {Built(t, << >>) : t \in StateModifications}

MCMessages ==
  UNION {Built(t, << >>) : t \in (ClientMessages \union ServerMessages)
           \ {"ModifyQuerySet", "Transition", "MutationResponse", "ActionResponse"}}
  \union Built("ModifyQuerySet", [modifications |-> Lists(MCEdits)])
  \union Built("Transition", [modifications |-> Lists(MCUpdates)])
  \union UNION {Built(t, [success |-> {<< "boolean", FALSE >>}, result |-> {Plain(""), Plain("x")}]) :
                  t \in {"MutationResponse", "ActionResponse"}}
  \union UNION {Built(t, [success |-> {<< "boolean", TRUE >>}]) : t \in {"MutationResponse", "ActionResponse"}}

\* JSON for messages: every field missing, null, as it should be, or not.
Good(field) ==
  CASE field.type = "string" -> {Plain(""), Plain("x")}
    [] field.type \in {"uint32", "int64", "number"} -> {<< "number", 3 >>}
    [] field.type = "timestamp" -> {Base64(<< 3, 1 >>)}
    [] field.type = "bool" -> {<< "boolean", b >> : b \in BOOLEAN}
    [] field.type \in {"values", "querySetModifications", "stateModifications"} -> {<< "array", << >> >>}
    [] field.type = "value" -> {Plain(""), Tagged("$integer", Base64(<< 3, 1 >>))}
    [] field.type = "strings" -> {<< "array", << Plain("x"), Null >> >>}
    [] field.type = "identity" -> {<< "object", [subject |-> Plain("s")] >>,
                                   << "object", [subject |-> Plain("s"), issuer |-> Plain("i")] >>}
    [] field.type = "version" -> {EmptyObject, << "object", [ts |-> Base64(<< 3, 3 >>)] >>}
    [] OTHER -> {Plain("x")}

Bad(field) == << "number", IF field.type = "number" THEN Huge ELSE 8 >>

\* The fields in varying vary, the others are as they should be.
Arriving(type, varying, more) ==
  {<< "object", Restrict(m, {f \in DOMAIN m : m[f] # Absent}) @@ [type |-> Plain(type)] >> :
     m \in Combinations([f \in DOMAIN Fields[type] \union {"actingAs"} |->
                          IF f = "actingAs" THEN IF type = "Authenticate" THEN {Absent, Null} ELSE {Absent}
                          ELSE IF f \in DOMAIN more THEN more[f]
                          ELSE IF f \in varying THEN {Absent, Null, Bad(Fields[type][f])} \union Good(Fields[type][f])
                          ELSE {CHOOSE x \in Good(Fields[type][f]) : TRUE}])}

MCTexts ==
  UNION {Arriving(t, DOMAIN Fields[t], << >>) : t \in (ClientMessages \union ServerMessages) \ {"MutationResponse"}}
  \union Arriving("MutationResponse", {"success", "result", "errorData", "ts"}, << >>)
  \union UNION {Arriving("Transition", {}, [modifications |-> {<< "array", << mod >> >> :
                    mod \in Arriving(t, DOMAIN Fields[t], << >>)}]) : t \in StateModifications}
  \union UNION {Arriving("ModifyQuerySet", {}, [modifications |-> {<< "array", << mod >> >> :
                    mod \in Arriving(t, DOMAIN Fields[t], << >>)}]) : t \in QuerySetModifications}
  \union {<< "object", << >> >>, << "object", [type |-> Null] >>, Null, Plain("x")}

=============================================================================
