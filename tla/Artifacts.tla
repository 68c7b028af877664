----------------------------- MODULE Artifacts -----------------------------
(***************************************************************************)
(* What is kept beside the generator's sources and must agree with them:   *)
(* the C files of mlx/c, the API lock taken from their headers, the custom *)
(* specs, the file inventory, the built libraries and their symbols        *)
(* (packages apilock, customspec, inventory, plan, symbols, regenreport).  *)
(*                                                                         *)
(* A path is <<stem, "h">> or <<stem, "cpp">>.  A tree maps the paths that *)
(* exist to their contents.  The manifest's record of Decisions also holds *)
(* the hand-kept files: what mlx.h includes (umbrella), the functions      *)
(* jaccl.cpp defines (implementation), the inventory [path -> kind,        *)
(* target], the sources of CMakeLists.txt and the revision it fetches.     *)
(***************************************************************************)
EXTENDS Decisions

\* The files of `new` in a place where those of `old` are.
new ++ old == [p \in DOMAIN new \cup DOMAIN old |-> IF p \in DOMAIN new THEN new[p] ELSE old[p]]

mlx_h     == <<"mlx", "h">>
jaccl_h   == <<"jaccl", "h">>
jaccl_cpp == <<"jaccl", "cpp">>
HeaderOf(m) == <<m, "h">>
ImplOf(m)   == <<m, "cpp">>

\* The text of a template: the standalone modules are vector, map and closure.
Standalone == {"vector"}
standaloneGenerators ==
  [functions |-> {[name |-> <<"mlx", "vector", "new">>, sig |-> << >>, of |-> << >>, body |-> "calls"]},
   enums |-> << >>, includes |-> {}, formatted |-> FALSE]

\* A custom spec's header: one declaration for each of its items.
RenderHeader(spec) ==
  [functions |-> {[name |-> i.name, sig |-> i.sig, of |-> << >>, body |-> "calls"] :
                    i \in {i \in spec : i.kind = "function"}},
   enums |-> SetToSeq({i.name : i \in {i \in spec : i.kind = "enum"}}), includes |-> {}, formatted |-> FALSE]

HandWritten(includes, functions) ==
  [functions |-> functions, enums |-> << >>, includes |-> includes, formatted |-> TRUE]
\* clang-format's result is cached under the content, the style and the version: a
\* hit is what clang-format would write.
Formatted(content) == [content EXCEPT !.formatted = TRUE]

\* plan.GeneratedOutputs and customspec.GeneratedHeaders.
PlannedOutputs(manifest) ==
  {HeaderOf(m) : m \in Modules(manifest) \cup Standalone}
    \cup {ImplOf(m) : m \in Modules(manifest) \cup Standalone}
GeneratedHeaders(manifest) == IF manifest.spec = {} THEN {} ELSE {jaccl_h}
generatedOutputs(manifest) == PlannedOutputs(manifest) \cup GeneratedHeaders(manifest)

(***************************************************************************)
(* apilock: the public declarations of each library, read from the tree.   *)
(***************************************************************************)
IsJaccl(name) == Len(name) > 2 /\ name[1] = "mlx" /\ name[2] = "jaccl"

collectHeaders(tree) == {mlx_h} \cup (tree[mlx_h].includes \ {jaccl_h})

LockedHeaders(tree, target) == IF target = "jacclc" THEN {jaccl_h} ELSE collectHeaders(tree)
LockedFunctions(tree, target) ==
  UNION {{[name |-> f.name, sig |-> f.sig, header |-> h] : f \in tree[h].functions} :
           h \in LockedHeaders(tree, target)}
\* The C name of an enum: a custom spec's is one, that of an enum of MLX is made of its name.
EnumName(h, enum) == IF h = jaccl_h THEN enum ELSE <<"mlx">> \o enum.name
LockedEnums(tree, target) ==
  UNION {{[name |-> EnumName(h, e), header |-> h] : e \in ToSet(tree[h].enums)} : h \in LockedHeaders(tree, target)}

validateTarget(tree, target) ==
  \A f \in LockedFunctions(tree, target) : IsJaccl(f.name) = (target = "jacclc")

Targets == {"mlxc", "jacclc"}
LockFails(tree) ==
  \/ ~({mlx_h, jaccl_h} \cup collectHeaders(tree) \subseteq DOMAIN tree)
  \/ \E t \in Targets : ~validateTarget(tree, t)
GenerateLock(tree) ==
  [t \in Targets |-> [functions |-> LockedFunctions(tree, t), enums |-> LockedEnums(tree, t)]]

customHookLockTarget(name) == IF IsJaccl(name) THEN "jacclc" ELSE "mlxc"
lockTargetHasFunction(lock, name) == \E f \in lock[customHookLockTarget(name)].functions : f.name = name
lockTargetHasName(lock, name) ==
  \/ lockTargetHasFunction(lock, name)
  \/ \E e \in lock[customHookLockTarget(name)].enums : e.name = name

\* checkCustomHooksLocked, checkHookAPILocked and checkEmittedAPILocked.
checkLockedNames(manifest, results, lock) ==
  /\ \A h \in manifest.hooks : lockTargetHasName(lock, h)
  /\ \A h \in DOMAIN manifest.api : \A n \in manifest.api[h] : lockTargetHasName(lock, n)
  /\ \A d \in EmitDecisions(manifest, results) :
        d.action = "emit" => lockTargetHasFunction(lock, d.cname)

(***************************************************************************)
(* customspec: a spec accounts for exactly what its header locks, and its  *)
(* implementation defines exactly its functions.                           *)
(***************************************************************************)
lockedItems(lock) ==
  {[kind |-> "function", name |-> f.name, sig |-> f.sig] :
     f \in {f \in lock["jacclc"].functions : f.header = jaccl_h}}
    \cup {[kind |-> "enum", name |-> e.name, sig |-> << >>] :
            e \in {e \in lock["jacclc"].enums : e.header = jaccl_h}}
CheckLock(lock, spec) == spec = {} \/ spec = lockedItems(lock)

specFunctions(spec) == {i.name : i \in {i \in spec : i.kind = "function"}}
CheckImplementations(tree, spec) ==
  \/ specFunctions(spec) = {}
  \/ /\ jaccl_cpp \in DOMAIN tree
     /\ {f.name : f \in tree[jaccl_cpp].functions} = specFunctions(spec)

checkCustomSpecs(tree, lock, spec) ==
  /\ CheckLock(lock, spec)
  /\ CheckImplementations(tree, spec)
  /\ spec = {} \/ (jaccl_h \in DOMAIN tree /\ tree[jaccl_h] = Formatted(RenderHeader(spec)))

(***************************************************************************)
(* inventory and plan: every file is classified, and classified as what    *)
(* the plan makes of it.                                                   *)
(***************************************************************************)
TargetOf(path) == IF path[1] = "jaccl" THEN "jacclc" ELSE "mlxc"
GeneratedKinds == {"generated_header_api", "generated_support"}

checkUmbrella(tree, inventory) ==
  LET includes == tree[mlx_h].includes
  IN  /\ \A p \in includes : p \in DOMAIN inventory /\ inventory[p].target = "mlxc"
      /\ jaccl_h \notin includes
      /\ \A p \in DOMAIN inventory :
            inventory[p].target = "mlxc" /\ p[2] = "h" /\ p # mlx_h => p \in includes

\* Mutant of CheckInventory: files that are not in the inventory are let through.
OrphansPass(tree, manifest) ==
  /\ DOMAIN manifest.inventory \subseteq DOMAIN tree
  /\ \A p \in manifest.sources : p \in DOMAIN manifest.inventory
  /\ checkUmbrella(tree, manifest.inventory)

CheckInventory(tree, manifest) ==
  LET inv == manifest.inventory
  IN  /\ DOMAIN inv \subseteq DOMAIN tree
      /\ \A p \in DOMAIN inv : (inv[p].target = "jacclc") = (p[1] = "jaccl")
      /\ DOMAIN tree \subseteq DOMAIN inv
      /\ \A p \in manifest.sources : p \in DOMAIN inv /\ inv[p].target = TargetOf(p)
      /\ checkUmbrella(tree, inv)

CheckInventoryWithGenerated(manifest) ==
  LET inv     == manifest.inventory
      planned == PlannedOutputs(manifest)
  IN  /\ \A p \in planned \cup GeneratedHeaders(manifest) : p \in DOMAIN inv
      /\ \A p \in planned \cup GeneratedHeaders(manifest) :
            inv[p].kind \in (IF p \in planned THEN GeneratedKinds ELSE {})
                              \cup (IF p \in GeneratedHeaders(manifest) THEN {"custom_spec_generated"} ELSE {})
      /\ \A p \in DOMAIN inv : inv[p].kind \in GeneratedKinds => p \in planned

CheckCMakeMLXRef(manifest) == manifest.cmake = manifest.ref

(***************************************************************************)
(* What cmake and the compiler make of the tree, and what is read of it.   *)
(***************************************************************************)
SourcesOf(manifest, target) == {p \in manifest.sources : TargetOf(p) = target}
Library(tree, manifest, target) ==
  UNION {{f.name : f \in tree[p].functions} : p \in SourcesOf(manifest, target)}

BuildFails(tree, manifest) ==
  \/ ~(manifest.sources \subseteq DOMAIN tree)
  \/ \E p \in manifest.sources :
        \/ p # jaccl_cpp /\ <<p[1], "h">> \notin DOMAIN tree
        \/ \E f \in tree[p].functions :
              \/ f.body = "broken"
              \/ \E q \in SourcesOf(manifest, TargetOf(p)) : \E g \in tree[q].functions :
                    g.name = f.name /\ <<q, g>> # <<p, f>>

isPublicCAPISymbol(name) == name[1] = "mlx"
checkTarget(lock, target, syms) ==
  /\ {f.name : f \in lock[target].functions} \subseteq syms
  /\ \A s \in syms : isPublicCAPISymbol(s) =>
        s \in {f.name : f \in lock[target].functions} /\ IsJaccl(s) = (target = "jacclc")

(***************************************************************************)
(* regenreport.Compare: the scratch tree against the checked-in one.       *)
(***************************************************************************)
compareOne(tree, scratch, path) ==
  LET both == DOMAIN tree \cap DOMAIN scratch
  IN  CASE path \notin DOMAIN tree                       -> "missing_checked_in"
        [] path \in DOMAIN tree \ DOMAIN scratch         -> "missing_generated"
        [] path \in both /\ tree[path] = scratch[path]   -> "equal"
        [] OTHER                                         -> "different"
generatedOnlyFiles(scratch, outputs) == DOMAIN scratch \ outputs
Clean(tree, scratch, outputs) ==
  /\ \A p \in outputs : compareOne(tree, scratch, p) = "equal"
  /\ generatedOnlyFiles(scratch, outputs) = {}
=============================================================================
