---------------------------- MODULE FunctionPaths ----------------------------
(***************************************************************************)
(* internal/core/path.go and baseclient/canonical.go: the spellings of a     *)
(* function's name and the one a realtime request carries.  A name is        *)
(* [segs, colon, blanks, export]: the part before the colon, split at slashes *)
(* and each segment at dots, so that "./a.ts" is <<Dot, <<"a", "ts">>>> and a *)
(* leading slash shows as a first segment Nothing; whether there is a colon;  *)
(* whether blanks surround the export; and the export without them.          *)
(***************************************************************************)
EXTENDS Values

CONSTANTS
  BadWords,       \* words with other characters, or too long
  BadIdentifiers  \* words that are not identifiers

Nothing == << "" >>
Dot == << "", "" >>
DotDot == << "", "", "" >>

validatePathComponent(seg) ==
  /\ \A i \in DOMAIN seg : seg[i] \notin BadWords
  /\ \E i \in DOMAIN seg : seg[i] \notin {"", "_"}

\* path.Clean on a relative path.
CleanStep(done, seg) ==
  CASE seg \in {Nothing, Dot} -> done
    [] seg = DotDot /\ done # << >> /\ Last(done) # DotDot -> Front(done)
    [] OTHER -> Append(done, seg)

Clean(segs) == FoldLeft(CleanStep, << >>, segs)

\* The module path of the segments, or Error.
ParseModulePath(segs) ==
  LET cleaned == Clean(segs)
  IN  IF /\ segs # << >> /\ segs[1] # Nothing   \* empty, or absolute
         /\ cleaned # << >> /\ cleaned[1] # DotDot
         /\ \A i \in DOMAIN cleaned : validatePathComponent(cleaned[i])
         /\ Len(Last(cleaned)) = 1 \/ Last(Last(cleaned)) = "js"
      THEN << "module", cleaned >>
      ELSE Error

MapLast(Op(_), segs) == Append(Front(segs), Op(Last(segs)))

Canonicalize(segs) ==
  MapLast(LAMBDA seg : IF Len(seg) = 1 THEN Append(seg, "js") ELSE seg, segs)

\* A TrimSuffix for each extension of a source file, in this order.
SourceExtensions == << "ts", "tsx", "jsx", "mts", "mjs", "cts", "cjs" >>

TrimExtension(seg, ext) == IF Len(seg) > 1 /\ Last(seg) = ext THEN Front(seg) ELSE seg

ParseUDFPath(segs, export) ==
  LET module == ParseModulePath(segs)
  IN  IF Ok(module) /\ export \notin BadIdentifiers
      THEN << "function", module[2], export >> ELSE Error

\* "api.foo.bar" and "internal.foo.bar", with no colon.
IsReference(name) == Len(name.segs[1]) > 1 /\ name.segs[1][1] \in {"api", "internal"}

ParseReference(name) ==
  LET parts == Tail(FlattenSeq(name.segs))
      dots == FlattenSeq([i \in DOMAIN name.segs |-> Tail(name.segs[i])])
  IN  IF name.colon \/ Len(dots) < 2 \/ Len(Last(name.segs)) = 1 THEN Error
      ELSE ParseUDFPath([i \in DOMAIN Front(parts) |-> << parts[i] >>], Last(parts))

\* Blanks around the export do not count, and without one it is the default.
ParseFunctionPathExact(name) ==
  IF IsReference(name) THEN ParseReference(name)
  ELSE ParseUDFPath(name.segs, IF name.export = "" THEN "default" ELSE name.export)

ParseFunctionPath(name) ==
  IF IsReference(name) THEN ParseReference(name)
  ELSE ParseUDFPath(MapLast(LAMBDA seg : FoldLeft(TrimExtension, seg, SourceExtensions), name.segs),
                    IF name.export = "" THEN "default" ELSE name.export)

\* canonicalQueryPath: the extension is made explicit and then dropped again.
syncWireUDFPath(segs, export) ==
  << "function", MapLast(LAMBDA seg : TrimExtension(seg, "js"), Canonicalize(segs)), export >>

canonicalQueryPath(name) ==
  LET parsed == ParseFunctionPath(name)
  IN  IF Ok(parsed) THEN syncWireUDFPath(parsed[2], parsed[3]) ELSE Error

\* The token is stableJSON of the path and the arguments: a tree, whose text has the
\* fields sorted.
canonicalQueryAsParsed(name, args) ==
  LET path == canonicalQueryPath(name)
      arg == syncQueryArgValue(args)
      wire == IF Ok(arg) THEN MarshalJSON(arg) ELSE Error
  IN  IF Ok(path) /\ Ok(wire)
      THEN << "query", path, << arg >>, << ParseFunctionPath(name), << wire >> >> >> ELSE Error

canonicalQuery(name, args) ==
  LET path == canonicalQueryPath(name)
      arg == syncQueryArgValue(args)
      wire == IF Ok(arg) THEN MarshalJSON(arg) ELSE Error
  IN  IF Ok(path) /\ Ok(wire)
      THEN << "query", path, << arg >>, << path, << wire >> >> >> ELSE Error

=============================================================================
