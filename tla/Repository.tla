----------------------------- MODULE Repository -----------------------------
(***************************************************************************)
(* A checkout of this repository beside a checkout of MLX, and the tools   *)
(* that are run on the two: mlx-c-gen generate, parse and check, which     *)
(* share the cache of parsed headers, mlx-c-lock, the build,               *)
(* mlx-c-gen-purego-jaccl and its -check.  Sources and hand-kept files are *)
(* edited between and, for MLX, during runs; a run may be killed anywhere. *)
(*                                                                         *)
(* A parse result is kept as the revision of the text it was made from:    *)
(* walkAST is a function of the AST that clang prints, and that one of the *)
(* text: where a header does not compile, clang still prints what it       *)
(* recovered, and that is taken for the header.                            *)
(***************************************************************************)
EXTENDS Artifacts

CONSTANTS Proc,       \* runs that may go on at once: the user's and, in some worlds, another
          user,
          World,      \* the repositories to choose from
          MaxEdits    \* bound on the edits of a behaviour

Base == "base"                      \* a header that every other one includes

\* The revisions of MLX: no header comes that the first one has not.  A header is a list of
\* declarations (text), its AST has in their places the nodes that clang prints (ast); the
\* same header under the same Base has the same AST.
Texts(w) ==
  /\ 1 \in DOMAIN w.text /\ 0 \notin DOMAIN w.text
  /\ \A r \in DOMAIN w.text :
       /\ Base \notin DOMAIN w.text[r] /\ DOMAIN w.text[r] \subseteq DOMAIN w.text[1]
       /\ \A f \in DOMAIN w.text[r] :
            LET nodes == w.ast[r][f]
            IN  /\ nodes \in Seq(ToSet(nodes)) /\ DOMAIN nodes = DOMAIN w.text[r][f]
                /\ \A s \in DOMAIN w.text :
                     /\ f \in DOMAIN w.text[s]
                     /\ w.text[r][f] = w.text[s][f] /\ w.alias[r] = w.alias[s]
                     => nodes = w.ast[s][f]
                /\ \A n \in ToSet(nodes) : n.kind = "function" =>
                     n.name \in Seq(ToSet(n.name)) /\ n.params \in Seq(ToSet(n.params))

\* The policies: the files that no tool writes are mlx.h and jaccl.cpp, and no module
\* takes a name that is in use.
Policies(w) ==
  /\ 1 \in DOMAIN w.policy
  /\ \A i \in DOMAIN w.policy :
       /\ Modules(w.policy[i]) \cap ({"mlx", "jaccl"} \cup Standalone) = {}
       /\ w.policy[i].modules \in Seq(ToSet(w.policy[i].modules))
       /\ \A m \in ToSet(w.policy[i].modules) :
             Base \notin ToSet(m.headers) /\ m.headers \in Seq(ToSet(m.headers))
       /\ \A p \in DOMAIN w.policy[i].inventory :
            \/ w.policy[i].inventory[p].kind \in GeneratedKinds
            \/ p \in {mlx_h, jaccl_cpp} \cup GeneratedHeaders(w.policy[i])

ASSUME RepositoryAssumption ==
  user \in Proc /\ MaxEdits \in Nat /\ \A w \in World : Texts(w) /\ Policies(w)

VARIABLES world,      \* the repository: its texts, manifests and tools
          head, work, \* revision checked out of MLX, revision of its working tree
          pol,        \* the hand-kept files in force
          stamp,      \* time and size of each MLX header, as the number of the edit that set them
          edits,
          tree,       \* mlx/c
          lock, tu,   \* codegen/mlxc-capi.lock.json and codegen/lock.c
          lib,        \* defined symbols of the built libraries
          bind,       \* names that functions.gen.go calls and lib.gen.go registers
          adata, ameta, \* the AST cache: parse result and dependency stats of each header
          torn,       \* headers whose cached stats are not those of the text that was parsed
          run, passed

sources == <<world, head, work, pol, stamp, edits>>
products == <<tree, lock, tu, lib, bind>>
cache == <<adata, ameta, torn>>
vars == <<sources, products, cache, run, passed>>

Manifest == world.policy[pol]
\* Mutant of Deps: a header depends on itself only.
DepsAlone(f) == {f}

Deps(f) == {f, Base}
Missing(f) == f # Base /\ f \notin DOMAIN world.text[work]
Stamps(f) == [d \in {d \in Deps(f) : ~Missing(d)} |-> stamp[d]]
ParsedAt(rev, f) == walkAST(world.ast[rev][f], f, world.alias[rev])

ModuleNamed(manifest, m) == CHOOSE x \in ToSet(manifest.modules) : x.name = m

\* ParseFiles: the headers of one module, in order, each from the text of revs[i].
ParseFiles(headers, revs) == mergeParseResult([i \in DOMAIN headers |-> ParsedAt(revs[i], headers[i])])
Results(manifest, parsed) ==
  [m \in DOMAIN parsed |-> ParseFiles(ModuleNamed(manifest, m).headers, parsed[m])]

(***************************************************************************)
(* Runs.                                                                   *)
(***************************************************************************)
Idle == [tool |-> "idle"]
NoDeps == << >>

NewRun(tool) ==
  [tool |-> tool, pc |-> "lookup", mod |-> 1, revs |-> << >>, got |-> 0, read |-> NoDeps,
   deps |-> NoDeps, parsed |-> << >>, out |-> << >>, ok |-> TRUE, clean |-> TRUE]

At(p, pc) == run[p].tool # "idle" /\ run[p].pc = pc
Module(p) == Manifest.modules[run[p].mod]
CurrentFile(p) == Module(p).headers[Len(run[p].revs) + 1]

\* The run goes on with the next module, or with what comes after the last one.
NextModule(r) ==
  IF r.mod < Len(Manifest.modules)
  THEN [r EXCEPT !.mod = @ + 1, !.revs = << >>, !.pc = "lookup"]
  ELSE [r EXCEPT !.revs = << >>, !.pc = IF r.tool = "parse" THEN "gates" ELSE "support"]

\* A header's result is merged into its module's; the last one completes the module.
TakeResult(r, rev) ==
  LET m    == Manifest.modules[r.mod]
      next == [r EXCEPT !.revs = Append(@, rev)]
      full == [next EXCEPT !.parsed = [n \in {m.name} |-> next.revs] ++ @]
  IN  IF Len(next.revs) < Len(m.headers) THEN [next EXCEPT !.pc = "lookup"]
      ELSE IF r.tool = "parse" THEN NextModule(full) ELSE [full EXCEPT !.pc = "header"]

\* A module that cannot be parsed: generate goes on with the next, parse gives up.
ModuleFails(r) == IF r.tool = "parse" THEN Idle ELSE NextModule([r EXCEPT !.ok = FALSE])

Disturb(runs) == [p \in Proc |-> IF runs[p].tool = "idle" THEN Idle ELSE [runs[p] EXCEPT !.clean = FALSE]]
Becomes(p, r) == run' = [run EXCEPT ![p] = r]

\* What a run starts from; the program returns before it has changed anything otherwise.
Loads(manifest) == validate(manifest) /\ validateSpec(manifest.spec)
Accepts(tool, manifest) ==
  /\ Loads(manifest)
  /\ tool \in {"parse", "check"} => CheckCMakeMLXRef(manifest)
  /\ tool = "check" => /\ CheckRegistry(manifest)
                       /\ CheckInventory(tree, manifest)
                       /\ CheckInventoryWithGenerated(manifest)
                       /\ head = manifest.ref

Start(p, tool) ==
  /\ run[p].tool = "idle"
  /\ tool \in IF p = user THEN world.tools ELSE world.others
  /\ Accepts(tool, Manifest)
  /\ Becomes(p, NewRun(tool))
  /\ UNCHANGED <<sources, products, cache, passed>>

astCacheDepsFresh(f) ==
  LET deps == ameta[f].deps
  IN  deps # NoDeps /\ \A d \in DOMAIN deps : ~Missing(d) /\ deps[d] = stamp[d]
Raced(f) == adata[f].by # ameta[f].by       \* two runs wrote the two files of one entry
Hit(f) == astCacheDepsFresh(f) /\ adata[f].rev # 0

HeaderMissing(p) ==
  /\ At(p, "lookup") /\ Missing(CurrentFile(p))
  /\ Becomes(p, ModuleFails(run[p]))
  /\ UNCHANGED <<sources, products, cache, passed>>

readCachedParseResult(p) ==
  LET f == CurrentFile(p)
  IN  /\ At(p, "lookup") /\ ~Missing(f)
      /\ Becomes(p, IF Hit(f)
                    THEN TakeResult([run[p] EXCEPT !.clean = @ /\ f \notin torn /\ ~Raced(f)], adata[f].rev)
                    ELSE [run[p] EXCEPT !.pc = "clang"])
      /\ UNCHANGED <<sources, products, cache, passed>>

\* clang reads the header and all it includes, and prints an AST, of what it recovered when
\* it failed; or it prints nothing.  Its exit status is not looked at when there is output.
runClangAST(p) ==
  LET f == CurrentFile(p)
  IN  /\ At(p, "clang")
      /\ \/ /\ ~Missing(f)
            /\ Becomes(p, [run[p] EXCEPT !.got = work, !.read = Stamps(f), !.pc = "stat"])
         \/ Becomes(p, ModuleFails(run[p]))
      /\ UNCHANGED <<sources, products, cache, passed>>

\* Only then are the dependencies stat'd, those that are still there; without their list
\* nothing is cached.
statASTCacheDeps(p) ==
  /\ At(p, "stat")
  /\ \/ Becomes(p, [run[p] EXCEPT !.deps = Stamps(CurrentFile(p)), !.pc = "data"])
     \/ Becomes(p, TakeResult(run[p], run[p].got))
  /\ UNCHANGED <<sources, products, cache, passed>>

\* writeCachedParseResult: two files, each replaced atomically, the result first.
WriteData(p) ==
  /\ At(p, "data")
  /\ adata' = [adata EXCEPT ![CurrentFile(p)] = [rev |-> run[p].got, by |-> p]]
  /\ Becomes(p, [run[p] EXCEPT !.pc = "meta"])
  /\ UNCHANGED <<sources, products, ameta, torn, passed>>

WriteMeta(p) ==
  LET f == CurrentFile(p)
  IN  /\ At(p, "meta")
      /\ ameta' = [ameta EXCEPT ![f] = [deps |-> run[p].deps, by |-> p]]
      /\ torn' = IF run[p].deps = run[p].read THEN torn \ {f} ELSE torn \cup {f}
      /\ Becomes(p, TakeResult(run[p], run[p].got))
      /\ UNCHANGED <<sources, products, adata, passed>>

(***************************************************************************)
(* Writing: into the tree, or into the scratch tree of check.              *)
(***************************************************************************)
Put(p, files, r) ==
  IF r.tool = "check"
  THEN /\ run' = [run EXCEPT ![p] = [r EXCEPT !.out = files ++ @]]
       /\ UNCHANGED <<tree, passed>>
  ELSE /\ tree' = files ++ tree
       /\ run' = [Disturb(run) EXCEPT ![p] = r]
       /\ passed' = IF tree' = tree THEN passed ELSE {}

Written(r) == IF r.tool = "check" THEN r.out ELSE tree
Orders(result) == {e \in [1..Cardinality(result.enums) -> result.enums] :
                     \A i, j \in DOMAIN e : e[i] = e[j] => i = j}

WriteHeader(p) ==
  LET result == ParseFiles(Module(p).headers, run[p].revs)
  IN  /\ At(p, "header")
      /\ IF FailedKeys(Manifest, result) # {}
         THEN Becomes(p, NextModule([run[p] EXCEPT !.ok = FALSE])) /\ UNCHANGED <<tree, passed>>
         ELSE \E order \in Orders(result) :
                Put(p, [h \in {HeaderOf(Module(p).name)} |-> Generate(Manifest, result, order)],
                    [run[p] EXCEPT !.pc = "impl"])
      /\ UNCHANGED <<sources, lock, tu, lib, bind, cache>>

WriteImpl(p) ==
  /\ At(p, "impl")
  /\ Put(p, [h \in {ImplOf(Module(p).name)} |->
              Generate(Manifest, ParseFiles(Module(p).headers, run[p].revs), << >>)],
         NextModule(run[p]))
  /\ UNCHANGED <<sources, lock, tu, lib, bind, cache>>

\* The standalone modules and the custom headers: texts that do not depend on MLX.
WriteSupport(p) ==
  /\ At(p, "support")
  /\ Put(p, [h \in {HeaderOf(m) : m \in Standalone} \cup {ImplOf(m) : m \in Standalone}
                |-> standaloneGenerators]
              ++ [h \in GeneratedHeaders(Manifest) |-> RenderHeader(Manifest.spec)],
         IF run[p].ok THEN [run[p] EXCEPT !.pc = "format"] ELSE Idle)
  /\ UNCHANGED <<sources, lock, tu, lib, bind, cache>>

\* clang-format on every output: one that fails is left as it was written, with a warning.
Format(p) ==
  LET outputs == generatedOutputs(Manifest) \cap DOMAIN Written(run[p])
  IN  /\ At(p, "format")
      /\ \E failed \in {{}} \cup {{h} : h \in outputs} :
           Put(p, [h \in outputs \ failed |-> Formatted(Written(run[p])[h])],
               IF run[p].tool = "check" THEN [run[p] EXCEPT !.pc = "gates"] ELSE Idle)
      /\ UNCHANGED <<sources, lock, tu, lib, bind, cache>>

(***************************************************************************)
(* Verdicts.                                                               *)
(***************************************************************************)
Selected(manifest, results, tool) ==
  LET selected == typePolicyIR(manifest, results)
  IN  IF tool = "check" /\ selected = {} THEN parseIR(results) ELSE selected

ParseAccepts(r) ==
  LET results   == Results(Manifest, r.parsed)
      decisions == AllDecisions(Manifest, results)
  IN  /\ CheckRegistry(Manifest)
      /\ checkDecisionDeclIDs(decisions)
      /\ checkDecisionCoverage(parseIR(results), decisions)
      /\ checkCNameUniqueness(Manifest, decisions)
      /\ CheckInventory(tree, Manifest)
      /\ CheckInventoryWithGenerated(Manifest)
      /\ ReportPolicy(Manifest, results, Selected(Manifest, results, "parse"))

checkAPILock(results) ==
  /\ ~LockFails(tree)
  /\ checkLockedNames(Manifest, results, GenerateLock(tree))
  /\ lock = GenerateLock(tree)
  /\ checkCustomSpecs(tree, GenerateLock(tree), Manifest.spec)
  /\ tu = GenerateLock(tree)

Built == lib # << >>
SymbolsAgree == \A t \in Targets : checkTarget(lock, t, lib[t])

CheckAccepts(r) ==
  LET results == Results(Manifest, r.parsed)
  IN  /\ checkCNameUniqueness(Manifest, EmitDecisions(Manifest, results))
      /\ checkAPILock(results)
      /\ Built => SymbolsAgree
      /\ Clean(tree, r.out, generatedOutputs(Manifest))
      /\ ReportPolicy(Manifest, results, Selected(Manifest, results, "check"))
      /\ checkHookManifestPolicy(Manifest)

\* The symbols are checked when check is given the libraries.
Verdict(p) ==
  LET r      == run[p]
      earned == CASE r.tool = "parse" /\ ParseAccepts(r) -> {"parse"}
                  [] r.tool = "check" /\ CheckAccepts(r) ->
                       {"check"} \cup (IF Built THEN {"symbols"} ELSE {})
                  [] OTHER -> {}
  IN  /\ At(p, "gates")
      /\ passed' = passed \cup (IF r.clean THEN earned ELSE {})
      /\ Becomes(p, Idle)
      /\ UNCHANGED <<sources, products, cache>>

Kill(p) ==
  /\ run[p].tool # "idle"
  /\ Becomes(p, Idle)
  /\ UNCHANGED <<sources, products, cache, passed>>

(***************************************************************************)
(* The other tools, each one step over files no other tool writes then.    *)
(***************************************************************************)
Quiet == \A p \in Proc : run[p].tool = "idle"
Offers(tool) == run[user].tool = "idle" /\ tool \in world.tools

\* mlx-c-lock writes the lock, then lock.c: a failure in between leaves the old one.
WriteLock ==
  /\ Offers("lock") /\ ~LockFails(tree)
  /\ lock' = GenerateLock(tree)
  /\ tu' \in {tu, lock'}
  /\ passed' = IF <<lock', tu'>> = <<lock, tu>> THEN passed ELSE passed \cap {"parse"}
  /\ UNCHANGED <<sources, tree, lib, bind, cache, run>>

Build ==
  /\ Offers("build") /\ ~BuildFails(tree, Manifest)
  /\ lib' = [t \in Targets |-> Library(tree, Manifest, t)]
  /\ passed' = IF lib' = lib THEN passed ELSE passed \ {"symbols"}
  /\ UNCHANGED <<sources, tree, lock, tu, bind, cache, run>>

Bindings(locked) == {f.name : f \in locked["jacclc"].functions}

\* mlx-c-gen-purego-jaccl writes functions.gen.go before lib.gen.go.
Generate_purego ==
  /\ Offers("purego")
  /\ \E registered \in {bind.registered, Bindings(lock)} :
       bind' = [called |-> Bindings(lock), registered |-> registered]
  /\ passed' = IF bind' = bind THEN passed ELSE passed \ {"bind"}
  /\ UNCHANGED <<sources, tree, lock, tu, lib, cache, run>>

\* Mutant of checkDir: lib.gen.go is not compared.
checkCallsOnly ==
  /\ Offers("purego")
  /\ bind.called = Bindings(lock)
  /\ passed' = passed \cup {"bind"}
  /\ UNCHANGED <<sources, products, cache, run>>

checkDir ==
  /\ Offers("purego")
  /\ bind = [called |-> Bindings(lock), registered |-> Bindings(lock)]
  /\ passed' = passed \cup {"bind"}
  /\ UNCHANGED <<sources, products, cache, run>>

(***************************************************************************)
(* Edits.                                                                  *)
(***************************************************************************)
Edit(kind) == edits < MaxEdits /\ kind \in world.edits /\ edits' = edits + 1
Files == DOMAIN stamp
TextAt(rev, f) == IF f = Base THEN world.alias[rev]
                  ELSE IF f \in DOMAIN world.text[rev] THEN world.text[rev][f] ELSE << >>
Touch(rev) == stamp' = [f \in Files |-> IF TextAt(rev, f) = TextAt(work, f) THEN stamp[f] ELSE edits + 1]

\* git checkout in MLX, or an edit of its working tree that leaves HEAD alone.
Checkout(rev) ==
  /\ Edit("checkout") /\ rev # work
  /\ work' = rev /\ Touch(rev)
  /\ head' \in {rev} \cup (IF "dirty" \in world.edits THEN {head} ELSE {})
  /\ run' = Disturb(run) /\ passed' = {}
  /\ UNCHANGED <<world, pol, products, cache>>

HandKept(manifest) ==
  [h \in {mlx_h} |-> HandWritten(manifest.umbrella, {})]
    ++ [h \in {jaccl_cpp} |-> HandWritten({}, manifest.implementation)]

EditPolicy(i) ==
  /\ Edit("policy") /\ Quiet /\ i # pol
  /\ pol' = i
  /\ tree' = HandKept(world.policy[i]) ++ tree
  /\ passed' = {}
  /\ UNCHANGED <<world, head, work, stamp, lock, tu, lib, bind, cache, run>>

\* A generated file is edited or removed by hand.
HandEdit(h) ==
  /\ Edit("hand") /\ Quiet /\ h \in generatedOutputs(Manifest) \cap DOMAIN tree
  /\ tree' \in {[tree EXCEPT ![h].functions = {}], [x \in DOMAIN tree \ {h} |-> tree[x]]}
  /\ passed' = {}
  /\ UNCHANGED <<world, head, work, pol, stamp, lock, tu, lib, bind, cache, run>>

(***************************************************************************)
(* What the tree should be, said without runs, caches or gates.            *)
(***************************************************************************)
ModuleResult(manifest, rev, m) ==
  LET headers == ModuleNamed(manifest, m).headers
  IN  ParseFiles(headers, [i \in DOMAIN headers |-> rev])
\* The content of a path; order(m) is the one in which the enums of m are written.
Render(manifest, rev, order(_), p) ==
  LET generated(enums) == Formatted(Generate(manifest, ModuleResult(manifest, rev, p[1]), enums))
  IN  CASE p[1] \in Modules(manifest) /\ p[2] = "h"   -> generated(order(p[1]))
        [] p[1] \in Modules(manifest) /\ p[2] = "cpp" -> generated(<< >>)
        [] p[1] \in Standalone                        -> Formatted(standaloneGenerators)
        [] p \in GeneratedHeaders(manifest)           -> Formatted(RenderHeader(manifest.spec))
        [] OTHER                                      -> HandKept(manifest)[p]
Rendered(manifest, rev, order(_)) ==
  [p \in generatedOutputs(manifest) \cup DOMAIN HandKept(manifest) |-> Render(manifest, rev, order, p)]

Init ==
  /\ world \in World
  /\ head = 1 /\ work = 1 /\ pol = 1 /\ edits = 0
  /\ stamp = [f \in {Base} \cup DOMAIN world.text[1] |-> 0]
  /\ tree = Rendered(world.policy[1], 1,
                     LAMBDA m : SetToSeq(ModuleResult(world.policy[1], 1, m).enums))
  /\ lock = GenerateLock(tree) /\ tu = lock
  /\ lib = << >>
  /\ bind = [called |-> Bindings(lock), registered |-> Bindings(lock)]
  /\ adata = [f \in DOMAIN world.text[1] |-> [rev |-> 0, by |-> user]]
  /\ ameta = [f \in DOMAIN world.text[1] |-> [deps |-> NoDeps, by |-> user]]
  /\ torn = {} /\ passed = {}
  /\ run = [p \in Proc |-> Idle]

Next ==
  \/ \E p \in Proc :
       \/ \E tool \in {"generate", "parse", "check"} : Start(p, tool)
       \/ HeaderMissing(p) \/ readCachedParseResult(p) \/ runClangAST(p) \/ statASTCacheDeps(p)
       \/ WriteData(p) \/ WriteMeta(p) \/ WriteHeader(p) \/ WriteImpl(p) \/ WriteSupport(p)
       \/ Format(p) \/ Verdict(p) \/ Kill(p)
  \/ WriteLock \/ Build \/ Generate_purego \/ checkDir
  \/ \E rev \in DOMAIN world.text : Checkout(rev)
  \/ \E i \in DOMAIN world.policy : EditPolicy(i)
  \/ \E h \in generatedOutputs(Manifest) : HandEdit(h)

Spec == Init /\ [][Next]_vars

(***************************************************************************)
(* Properties.  `passed` names the gates that the present files have been  *)
(* through, in runs that nothing disturbed.                                *)
(***************************************************************************)
Passed(gates) == gates \subseteq passed

\* The declarations of a header that clang dropped, or printed as something else, where it
\* went on after an error.
Misread(f) == {i \in DOMAIN world.text[work][f] : world.ast[work][f][i] # world.text[work][f][i]}

\* The MLX functions in the headers of the modules that a C API can express at all, but for
\* those misread.
Expressible(node, fn) ==
  node.kind = "function" /\ node.here /\ node.how = "function" /\ fn.ret # "Stream" /\ ~isTemplateFunction(fn)
Bindable ==
  UNION {LET nodes == TextAt(work, f)
             fn(i) == extractFunction(nodes[i], i, f, world.alias[work])
         IN  {fn(i) : i \in {i \in DOMAIN nodes : i \notin Misread(f) /\ Expressible(nodes[i], fn(i))}} :
           f \in UNION {ToSet(m.headers) : m \in ToSet(Manifest.modules)}}

Declared == UNION {{<<h, f>> : f \in tree[h].functions} :
                     h \in {HeaderOf(m) : m \in Modules(Manifest)} \cap DOMAIN tree}
DeclarationsOf(fn) == {d \in Declared : d[2].of = <<Key(fn), Signature(fn)>>}

Refused(fn) ==
  \/ \E r \in ToSet(Rules(Manifest, Key(fn))) : r.sig = Signature(fn) /\ r.skip /\ r.reason # "none"
  \/ fn.ns = DetailNamespace

\* Each hook stands for one rule.  No gate asks for it: checkCNameUniqueness counts what is
\* emitted, and a rule with the name of a hook is decided to be a hook.
HooksNamedOnce ==
  LET cname(k, r) == cFuncName(k[1], k[2], r.suffix)
      let(k) == {r \in ToSet(Manifest.variants[k]) : ~r.skip}
  IN  \A k, l \in DOMAIN Manifest.variants : \A r \in let(k), s \in let(l) :
         HasHook(cname(k, r)) /\ cname(k, r) = cname(l, s) => k = l /\ r = s

\* When parse and check have passed, no function that clang printed has been lost on the
\* way: each one has its one C function, or the text that stands for it in the hooks, or a
\* rule that refuses it with a reason, or is internal (runParse and runCheck).  A function
\* that clang's error recovery dropped is lost and no gate sees it, since runClangAST takes
\* any output: hence Misread.
EveryDeclDecided ==
  Passed({"parse", "check"}) /\ HooksNamedOnce =>
    \A fn \in Bindable :
       LET ds == DeclarationsOf(fn)
       IN  IF Refused(fn) THEN fn.ns # DetailNamespace => ds = {}
           ELSE Cardinality(ds) = 1 \/ \E h \in DOMAIN Hooks : {d[2].name : d \in ds} = Hooks[h]

\* When they have passed, no C name of the headers generated from MLX or from the
\* custom specs is declared for two things (checkCNameUniqueness).
NamesUnique ==
  Passed({"parse", "check"}) /\ HooksNamedOnce =>
    LET all == Declared \cup UNION {{<<h, f>> : f \in tree[h].functions} : h \in GeneratedHeaders(Manifest)}
    IN  \A a, b \in all : a[2].name = b[2].name => a = b

\* When check has passed, mlx/c is what the generator makes of the present headers of
\* MLX, as clang prints them, and the present manifest, up to the order of the enums and to clang-format,
\* with nothing left over, and the two lock files describe that tree (regenreport.Clean).
Content(c) == [c EXCEPT !.enums = ToSet(@), !.formatted = TRUE]
TreeIsGenerated ==
  Passed({"check"}) =>
    LET expected == Rendered(Manifest, work,
                             LAMBDA m : SetToSeq(ModuleResult(Manifest, work, m).enums))
    IN  /\ DOMAIN tree = DOMAIN expected
        /\ \A h \in DOMAIN tree : Content(tree[h]) = Content(expected[h])
        /\ lock = GenerateLock(tree) /\ tu = lock

\* A hit of the AST cache gives what parsing the header now would give, when its
\* dependencies did not change under clang and one run wrote both files of the entry
\* (readCachedParseResult, astCacheDepsFresh).
CacheFresh ==
  \A f \in DOMAIN adata :
     ~Missing(f) /\ Hit(f) /\ f \notin torn /\ ~Raced(f) => ParsedAt(adata[f].rev, f) = ParsedAt(work, f)

\* When check with the libraries and the -check of the purego generator have passed,
\* every C function the Go wrapper calls is registered, and found in the library that
\* was built (symbols.Report, checkDir).
BindingsResolve ==
  Passed({"check", "symbols", "bind"}) =>
    bind.called \subseteq bind.registered /\ bind.registered \subseteq lib["jacclc"]

\* When parse has passed, the selection of generate fails in no module; overloads that
\* are spread over two modules apart, which parse counts as one set and generate as two
\* (checkDecisionCoverage, selectVariantsWithPolicy).
OneModuleEach ==
  \A m, n \in Modules(Manifest) :
     m # n => Keys(ModuleResult(Manifest, work, m)) \cap Keys(ModuleResult(Manifest, work, n)) = {}
ParsePredicts ==
  Passed({"parse"}) /\ OneModuleEach =>
    \A m \in Modules(Manifest) : FailedKeys(Manifest, ModuleResult(Manifest, work, m)) = {}
=============================================================================
