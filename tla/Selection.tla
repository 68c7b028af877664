----------------------------- MODULE Selection -----------------------------
(***************************************************************************)
(* From one MLX header to the C functions of one generated module: what    *)
(* the parser keeps of the clang AST (internal/mlxcgen/parser), which      *)
(* overload gets which C name (variants, generators), and which C          *)
(* declaration each selected overload becomes (generators, types, hooks).  *)
(*                                                                         *)
(* Names are sequences of words, so that the function `as` with the suffix *)
(* `strided` has the C name of the function `as_strided`, as it has in the *)
(* program.  A C++ type as the AST spells it is <<type, qualifiers>>.      *)
(***************************************************************************)
EXTENDS Naturals, Sequences, FiniteSets, SequencesExt

(***************************************************************************)
(* types.Registry: for each C++ type the C parameters it becomes as an     *)
(* argument (args), those it becomes as a result (outs), and what the      *)
(* wrapper's body then does: "calls" the C++ function and hands over its   *)
(* result, "nothing" (no assignment is registered, so no call is written), *)
(* or "broken" (the text it writes does not compile).                      *)
(***************************************************************************)
Mapping(args, outs, body) == [args |-> args, outs |-> outs, body |-> body]
Handle(c)            == Mapping(<<c>>, <<c \o "*">>, "calls")
RawVector(e)         == Mapping(<<e \o "*", "size_t">>, << >>, "broken")
OptionalPrimitive(c) == Mapping(<<c>>, << >>, "nothing")
OptionalHandle(c)    == Mapping(<<c>>, << >>, "broken")
ReturnTuple(cs)      == Mapping(<< >>, [i \in DOMAIN cs |-> cs[i] \o "*"], "calls")
EnumType(c)          == Mapping(<<c>>, <<c \o "*">>, "broken")

Registry ==
  [t \in {"array", "Group"} |-> Handle(t)]
    @@ "Shape"                  :> RawVector("int")
    @@ "std::vector<int>"       :> RawVector("int")
    @@ "std::pair<array,array>" :> ReturnTuple(<<"array", "array">>)
    @@ "void"                   :> Mapping(<< >>, << >>, "calls")
    @@ "Dtype"                  :> EnumType("mlx_dtype")
    @@ "std::string"            :> Mapping(<<"char*">>, <<"char**">>, "calls")
    @@ "io::Reader"             :> Mapping(<<"mlx_io_reader">>, << >>, "nothing")
    @@ [t \in {"int", "float"}  |-> Mapping(<<t>>, <<t \o "*">>, "calls")]
    @@ "std::optional<float>"   :> OptionalPrimitive("mlx_optional_float")
    @@ "std::optional<array>"   :> OptionalHandle("array")

(***************************************************************************)
(* parser: what is kept of the AST.  A node says how its name looks, what  *)
(* it declares and whether it lies in the header that is parsed; `alias`   *)
(* is what the included headers say a return type stands for.              *)
(***************************************************************************)
normalizeNamespace(ns) == IF ns # << >> /\ Head(ns) = "core" THEN <<"mlx">> \o ns ELSE ns

normalizeType(t) == t[1]

\* The function that the node at a place of the AST of a file declares.  The place
\* stands for line and column; no variant has given it a suffix yet.
extractFunction(node, place, file, alias) ==
  [ns |-> normalizeNamespace(node.ns), name |-> node.name,
   ret |-> IF normalizeType(node.ret) \in DOMAIN alias
           THEN alias[normalizeType(node.ret)] ELSE normalizeType(node.ret),
   params |-> [i \in DOMAIN node.params |-> normalizeType(node.params[i])],
   doc |-> node.doc, file |-> file, line |-> place, suffix |-> << >>]

isTemplateFunction(f) == "T" \in {f.ret} \cup ToSet(f.params)

\* Why walkAST leaves a function out, and the reason it gives; "none" is the empty text
\* of the program: the function is kept, or there is no reason.
walkSkip(node, f) ==
  CASE node.how = "operator" -> "skip_operator"
    [] node.how = "builtin"  -> "skip_builtin"
    [] node.how = "untyped"  -> "skip_missing_type"
    [] node.how = "unparsed" -> "skip_unparsed_function"
    [] f.ret = "Stream"      -> "skip_stream_return"
    [] isTemplateFunction(f) -> "skip_template_function"
    [] OTHER                 -> "none"

diagnosticReason(code) ==
  CASE code \in {"skip_operator", "skip_builtin"} -> "not_c_api"
    [] code = "skip_template_function" -> "template_function"
    [] code \in {"skip_missing_type", "skip_stream_return", "skip_unparsed_function"} -> "unsupported_type"
    [] OTHER -> "none"

\* A parse result: functions by their places in the source, enums (one per name) and
\* diagnostics.
walkAST(nodes, file, alias) ==
  LET here  == {i \in DOMAIN nodes : nodes[i].here}
      fns   == {i \in here : nodes[i].kind = "function"}
      fn(i) == extractFunction(nodes[i], i, file, alias)
      code(i) == walkSkip(nodes[i], fn(i))
      named == {i \in here : /\ nodes[i].kind = "enum" /\ nodes[i].name # << >>
                             /\ nodes[i].ns = << >> \/ Head(nodes[i].ns) # "std"}
  IN  [functions   |-> [i \in {i \in fns : code(i) = "none"} |-> fn(i)],
       enums       |-> {[ns |-> normalizeNamespace(nodes[i].ns), name |-> nodes[i].name] : i \in named},
       diagnostics |-> {[code |-> code(i), reason |-> diagnosticReason(code(i)), fn |-> fn(i)] :
                          i \in {i \in fns : code(i) # "none"}}]

\* The results of the headers of a module as one; a place is then <<header, place in it>>.
mergeParseResult(parts) ==
  [functions   |-> [p \in UNION {{h} \X DOMAIN parts[h].functions : h \in DOMAIN parts} |->
                      parts[p[1]].functions[p[2]]],
   enums       |-> UNION {parts[h].enums : h \in DOMAIN parts},
   diagnostics |-> UNION {parts[h].diagnostics : h \in DOMAIN parts}]

Signature(f) == <<f.ret, f.params>>
Key(f)       == <<f.ns, f.name>>

Earlier(p, q) == p[1] < q[1] \/ (p[1] = q[1] /\ p[2] < q[2])

\* Where functions are declared, redeclarations dropped.
deduplicateFunctions(fs) ==
  {p \in DOMAIN fs : \A q \in DOMAIN fs :
     Earlier(q, p) => <<Key(fs[q]), Signature(fs[q])>> # <<Key(fs[p]), Signature(fs[p])>>}

\* The overloads of one function; the one with most parameters comes first.
Overloads(result, key) ==
  {p \in deduplicateFunctions(result.functions) : Key(result.functions[p]) = key}
Before(result, p, q) ==
  LET n(x) == Len(result.functions[x].params)
  IN  n(p) > n(q) \/ (n(p) = n(q) /\ Earlier(p, q))
FirstOf(result, defs) == CHOOSE p \in defs : \A q \in defs \ {p} : Before(result, p, q)

FunctionsAt(result, places) == {result.functions[p] : p \in places}
Keys(result) == {Key(f) : f \in FunctionsAt(result, DOMAIN result.functions)}

(***************************************************************************)
(* variants: which overloads are emitted, under which suffix.              *)
(***************************************************************************)
DetailNamespace == <<"mlx", "core", "detail">>

Rules(manifest, key) == IF key \in DOMAIN manifest.variants THEN manifest.variants[key] ELSE << >>
RuleFor(manifest, f) == CHOOSE r \in ToSet(Rules(manifest, Key(f))) : r.sig = Signature(f)

\* unmappedOverloadError, unmappedSignatureError, missingSignatureError.
SelectionFails(manifest, result, key) ==
  LET defs  == Overloads(result, key)
      ruled == {r.sig : r \in ToSet(Rules(manifest, key))}
      found == {Signature(f) : f \in FunctionsAt(result, defs)}
  IN  /\ key[1] # DetailNamespace
      /\ IF key \in DOMAIN manifest.variants THEN ruled # found ELSE Cardinality(defs) > 1

\* With the suffix and the documentation of its rule, if it has one.
Ruled(manifest, f) == f.ns # DetailNamespace /\ Key(f) \in DOMAIN manifest.variants
Chosen(manifest, f) ==
  IF Ruled(manifest, f)
  THEN [f EXCEPT !.suffix = RuleFor(manifest, f).suffix, !.doc = @ \/ RuleFor(manifest, f).doc] ELSE f

\* Which overloads are emitted.
selectVariants(manifest, result, key) ==
  LET defs == Overloads(result, key)
  IN  IF key[1] = DetailNamespace
      THEN IF key[2] \in manifest.detail THEN {FirstOf(result, defs)} ELSE {}
      ELSE IF key \notin DOMAIN manifest.variants THEN {FirstOf(result, defs)}
      ELSE {p \in defs : ~RuleFor(manifest, result.functions[p]).skip}

SelectionDiagnostics(manifest, result, key) ==
  LET defs == Overloads(result, key)
      diag(code, reason, fs) == {[code |-> code, reason |-> reason, fn |-> f] : f \in fs}
  IN  IF key[1] = DetailNamespace
      THEN IF key[2] \in manifest.detail
           THEN diag("skip_allowed_detail_overload", "covered_by_other_variant",
                     FunctionsAt(result, defs \ {FirstOf(result, defs)}))
           ELSE diag("skip_unallowed_detail_function", "internal_namespace", FunctionsAt(result, defs))
      ELSE IF key \notin DOMAIN manifest.variants
      THEN diag("emit_implicit_single_overload", "none", FunctionsAt(result, defs))
      ELSE UNION {diag("skip_variant_mapping", RuleFor(manifest, f).reason, {f}) :
                    f \in {f \in FunctionsAt(result, defs) : RuleFor(manifest, f).skip}}

(***************************************************************************)
(* generators: selectFunctions over a parse result.                        *)
(***************************************************************************)
FailedKeys(manifest, result) == {k \in Keys(result) : SelectionFails(manifest, result, k)}

\* The first overload of each suffix; a later one with the same suffix is dropped.
Emitted(manifest, result, key) ==
  LET sel == selectVariants(manifest, result, key)
      fn(p) == Chosen(manifest, result.functions[p])
  IN  {fn(p) : p \in {p \in sel : \A q \in sel : Before(result, q, p) => fn(q).suffix # fn(p).suffix}}
selectFunctions(manifest, result) ==
  UNION {Emitted(manifest, result, k) : k \in Keys(result) \ FailedKeys(manifest, result)}

cNamespace(ns) ==
  IF Len(ns) >= 2 /\ ns[1] = "mlx" /\ ns[2] = "core"
  THEN IF ns = <<"mlx", "core", "cu">> THEN <<"mlx", "cuda">> ELSE <<"mlx">> \o SubSeq(ns, 3, Len(ns))
  ELSE ns

cFuncName(ns, name, suffix) == cNamespace(ns) \o name \o suffix
CName(f) == cFuncName(f.ns, f.name, f.suffix)

\* hooks.go: the functions whose C text is written by hand, with the names that text
\* declares.  One hook and two of its names stand for the six hooks of the program.
Hooks == [h \in {<<"mlx", "export", "to", "dot">>} |->
            {<<"mlx", "export", "to", "dot">>, <<"mlx", "node", "namer", "new">>}]
HasHook(cname) == cname \in DOMAIN Hooks

unsupportedTypes(f) ==
  IF f.ret \notin DOMAIN Registry THEN {"skip_unsupported_return_type"}
  ELSE IF \E i \in DOMAIN f.params : f.params[i] \notin DOMAIN Registry
  THEN {"skip_unsupported_param_type"} ELSE {}

Diagnostics(manifest, result) ==
  LET picked == UNION {SelectionDiagnostics(manifest, result, k) :
                         k \in Keys(result) \ FailedKeys(manifest, result)}
  IN  picked \cup
      IF FailedKeys(manifest, result) # {}
      THEN {[code |-> "variant_selection_error", reason |-> "none", fn |-> << >>]}
      ELSE UNION {{[code |-> c, reason |-> "unsupported_type", fn |-> f] : c \in unsupportedTypes(f)} :
                    f \in {f \in selectFunctions(manifest, result) : ~HasHook(CName(f))}}

SelectedGeneratedIR(manifest, result) ==
  {f \in selectFunctions(manifest, result) : ~HasHook(CName(f))}

CSignature(f) == Registry[f.ret].outs \o FlattenSeq([i \in DOMAIN f.params |-> Registry[f.params[i]].args])

\* The C declarations one selected function becomes: none when a type has no mapping.
writeFunction(f) ==
  IF HasHook(CName(f))
  THEN {[name |-> n, sig |-> << >>, of |-> <<Key(f), Signature(f)>>, body |-> "calls"] : n \in Hooks[CName(f)]}
  ELSE IF unsupportedTypes(f) # {} THEN {}
  ELSE {[name |-> CName(f), sig |-> CSignature(f), of |-> <<Key(f), Signature(f)>>,
         body |-> Registry[f.ret].body]}

\* The content of a module's header and implementation.  Enums are written in
\* the order in which Go walks the map of the parse result: any order.
Generate(manifest, result, enums) ==
  [functions |-> UNION {writeFunction(f) : f \in selectFunctions(manifest, result)},
   enums |-> enums, includes |-> {}, formatted |-> FALSE]
=============================================================================
