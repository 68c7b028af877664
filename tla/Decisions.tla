----------------------------- MODULE Decisions -----------------------------
(***************************************************************************)
(* What `mlx-c-gen parse` decides about every declaration of MLX, and the  *)
(* checks of those decisions against the manifest (tools/mlx-c-gen, and    *)
(* the packages plan, ir, types, doccoverage and hooks it calls).          *)
(*                                                                         *)
(* A manifest has the modules [name, headers], the rules of Selection      *)
(* (variants, detail), the custom hooks it declares (hooks), the names     *)
(* each hook publishes (api), the type policy (types) and the items of its *)
(* custom specs (spec).  `results` gives the parse result of each module.  *)
(***************************************************************************)
EXTENDS Selection

variantSkipReasons ==
  {"backend_not_supported", "covered_by_other_variant", "internal_namespace", "manual_wrapper",
   "name_collision", "not_c_api", "template_function", "unstable_upstream_api", "unsupported_type"}

\* The manifest and the custom specs can be loaded at all.
validate(manifest) ==
  /\ manifest.modules # << >>
  /\ \A i, j \in DOMAIN manifest.modules :
        manifest.modules[i].name = manifest.modules[j].name => i = j
  /\ \A i \in DOMAIN manifest.modules : manifest.modules[i].headers # << >>
  /\ \A k \in DOMAIN manifest.variants :
        LET rs == manifest.variants[k]
        IN  /\ rs # << >>
            /\ \A i, j \in DOMAIN rs : rs[i].sig = rs[j].sig => i = j
            /\ \A i \in DOMAIN rs : IF rs[i].skip THEN rs[i].reason \in variantSkipReasons
                                                  ELSE rs[i].reason = "none"
  /\ \A h \in DOMAIN manifest.api : manifest.api[h] # {}
validateSpec(spec) == \A a, b \in spec : a.kind = b.kind /\ a.name = b.name => a = b

Modules(manifest) == {m.name : m \in ToSet(manifest.modules)}

(***************************************************************************)
(* ir: declarations and their identities.                                  *)
(***************************************************************************)
NoId == << >>
declID(module, f) == <<module, f.file, Key(f), Signature(f)>>

FromParseResult(module, result) ==
  {[id |-> declID(module, f), fn |-> f] : 
     f \in FunctionsAt(result, deduplicateFunctions(result.functions))}

parseIR(results) == UNION {FromParseResult(m, results[m]) : m \in DOMAIN results}
typePolicyIR(manifest, results) ==
  UNION {{[id |-> declID(m, f), fn |-> f] : f \in SelectedGeneratedIR(manifest, results[m])} :
           m \in {m \in DOMAIN results : FailedKeys(manifest, results[m]) = {}}}

\* declIDsByDecisionKey and declIDsByLocation keep one declaration of each key: the
\* last in the order of the identities.  Which one it is changes no verdict.
AnId(decls) == IF decls = {} THEN NoId ELSE (CHOOSE d \in decls : TRUE).id
declIDFor(parsed, key, sig) == AnId({d \in parsed : Key(d.fn) = key /\ Signature(d.fn) = sig})
declIDAt(parsed, f) == AnId({d \in parsed : d.fn.file = f.file /\ d.fn.line = f.line})

(***************************************************************************)
(* The decisions.  `at` keeps two decisions apart that the list of the     *)
(* program holds twice.                                                    *)
(***************************************************************************)
Decision(source, id, action, cname, at) ==
  [source |-> source, id |-> id, action |-> action, cname |-> cname, at |-> at]

variantAction(rule, cname) ==
  IF rule.skip THEN "skip" ELSE IF HasHook(cname) THEN "hook" ELSE "emit"

parseVariantDecisions(manifest, parsed) ==
  LET ruled  == UNION {{<<k, r>> : r \in ToSet(manifest.variants[k])} : k \in DOMAIN manifest.variants}
      cname(k, r) == cFuncName(k[1], k[2], r.suffix)
      seen   == {cname(x[1], x[2]) : x \in {x \in ruled : ~x[2].skip}}
  IN  {Decision("variant_mapping", declIDFor(parsed, x[1], x[2].sig),
                variantAction(x[2], cname(x[1], x[2])), cname(x[1], x[2]), x) : x \in ruled}
        \cup {Decision(IF h \in manifest.hooks THEN "custom_hook" ELSE "hook_registry",
                       NoId, "hook", h, h) : h \in DOMAIN Hooks \ seen}

parseDetailDecisions(selected) ==
  {Decision("allowed_detail_function", d.id, "emit", cFuncName(d.fn.ns, d.fn.name, << >>), d.id) :
     d \in {d \in selected : d.fn.ns = DetailNamespace}}

\* Every diagnostic of a run, with the module it comes from.
AllDiagnostics(manifest, results) ==
  UNION {{<<m, d>> : d \in results[m].diagnostics \cup Diagnostics(manifest, results[m])} :
           m \in DOMAIN results}

detailDiagnosticSource(code) ==
  CASE code = "skip_allowed_detail_overload"  -> "allowed_detail_overload"
    [] code = "skip_unallowed_detail_function" -> "unallowed_detail_function"
    [] OTHER                                   -> "none"

parseDiagnosticDecisions(parsed, diags) ==
  {Decision(detailDiagnosticSource(x[2].code), declIDAt(parsed, x[2].fn), "skip", << >>, x) :
     x \in {x \in diags : detailDiagnosticSource(x[2].code) # "none" /\ declIDAt(parsed, x[2].fn) # NoId}}
  \cup {Decision("parser_diagnostic", NoId, "skip", << >>, x) :
          x \in {x \in diags : x[2].code \in {"skip_operator", "skip_builtin", "skip_missing_type",
                   "skip_stream_return", "skip_template_function", "skip_unparsed_function"}}}

EmitDecisions(manifest, results) ==
  parseVariantDecisions(manifest, parseIR(results))
    \cup parseDetailDecisions(typePolicyIR(manifest, results))
AllDecisions(manifest, results) ==
  EmitDecisions(manifest, results)
    \cup parseDiagnosticDecisions(parseIR(results), AllDiagnostics(manifest, results))

\* Mutant of checkDecisionDeclIDs: a rule that names no declaration is let through.
MissingIDsPass(decisions) == TRUE

checkDecisionDeclIDs(decisions) ==
  \A d \in decisions :
     d.source \in {"variant_mapping", "allowed_detail_function", "allowed_detail_overload",
                   "unallowed_detail_function"} => d.id # NoId

checkDecisionCoverage(parsed, decisions) ==
  /\ \A d \in decisions : d.id = NoId \/ \E x \in parsed : x.id = d.id
  /\ \A x \in parsed : Cardinality({d \in decisions : d.id = x.id}) = 1

\* Owners of public C names: what is emitted, what the hooks publish, the custom specs.
EmitOwners(decisions) == {<<d.cname, d.at>> : d \in {d \in decisions : d.action = "emit"}}
HookOwners(manifest)  == UNION {{<<n, <<h>>>> : n \in manifest.api[h]} : h \in DOMAIN manifest.api}
SpecOwners(manifest)  == {<<i.name, <<"custom", "spec", i.kind>>>> : i \in manifest.spec}
OneOwnerEach(owners)  == \A a, b \in owners : a[1] = b[1] => a = b

\* Mutant of checkCNameUniqueness: what the hooks publish is not counted.
HookAPIUnowned(manifest, decisions) == OneOwnerEach(EmitOwners(decisions) \cup SpecOwners(manifest))

\* Mutant of checkCNameUniqueness: a declaration is known by the source of its decision,
\* so that two of one source are one owner.
OwnedBySource(manifest, decisions) ==
  OneOwnerEach({<<d.cname, <<"decision", d.source>>>> : d \in {d \in decisions : d.action = "emit"}}
                 \cup HookOwners(manifest) \cup SpecOwners(manifest))

checkCNameUniqueness(manifest, decisions) ==
  OneOwnerEach(EmitOwners(decisions) \cup HookOwners(manifest) \cup SpecOwners(manifest))

(***************************************************************************)
(* The report's policy: documentation, types, reasons, explicit variants.  *)
(***************************************************************************)
supported(f) == unsupportedTypes(f) = {}

\* doccoverage.Analyze: the selected declarations nothing documents.
MissingDocs(manifest, parsed) ==
  {d \in parsed : \E r \in ToSet(Rules(manifest, Key(d.fn))) :
     /\ ~r.skip /\ r.sig = Signature(d.fn)
     /\ HasHook(cFuncName(d.fn.ns, d.fn.name, r.suffix)) \/ supported(d.fn)
     /\ ~r.doc /\ ~d.fn.doc}

CheckRegistry(manifest) == manifest.types = DOMAIN Registry
MissingIRTypes(manifest, selected) ==
  UNION {{t \in {d.fn.ret} \cup ToSet(d.fn.params) : t \notin manifest.types} : d \in selected}

checkTypeCoverage(missing, diags) ==
  /\ missing = {}
  /\ \A x \in diags : x[2].code \notin {"skip_unsupported_param_type", "skip_unsupported_return_type"}

Unskipped == {"emit_implicit_single_overload", "variant_selection_error"}
checkDiagnosticReasons(diags) == \A x \in diags : x[2].code \in Unskipped \/ x[2].reason # "none"
checkExplicitVariants(diags)  == \A x \in diags : x[2].code # "emit_implicit_single_overload"

ReportPolicy(manifest, results, selected) ==
  LET diags == AllDiagnostics(manifest, results)
  IN  /\ MissingDocs(manifest, parseIR(results)) = {}
      /\ checkTypeCoverage(MissingIRTypes(manifest, selected), diags)
      /\ checkDiagnosticReasons(diags)
      /\ checkExplicitVariants(diags)

\* Each registered hook is declared, and publishes what hook_api says.
checkHookManifestPolicy(manifest) ==
  LET ruled    == UNION {{cFuncName(k[1], k[2], r.suffix) :
                            r \in {r \in ToSet(manifest.variants[k]) : ~r.skip}} :
                           k \in DOMAIN manifest.variants}
      declared == {h \in ruled : HasHook(h)} \cup {h \in manifest.hooks : HasHook(h)}
  IN  /\ \A h \in manifest.hooks : HasHook(h)
      /\ \A h \in DOMAIN manifest.api : HasHook(h) /\ h \in declared /\ manifest.api[h] = Hooks[h]
      /\ \A h \in DOMAIN Hooks : h \in declared /\ h \in DOMAIN manifest.api
=============================================================================
