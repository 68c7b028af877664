-------------------------- MODULE RepositoryProofs --------------------------
(***************************************************************************)
(* Proofs about Repository: its state keeps its type (RepositoryTypes), a  *)
(* run that nobody disturbs is given the texts of now by the AST cache     *)
(* (CacheIsFresh), every binding of a written file is declared by some     *)
(* header (EveryBindingResolves), a tree that check passes is the one      *)
(* generate would write (CheckedTreeIsGenerated), parse alone says what    *)
(* generate will refuse (ParseForesees), and after parse and check no name *)
(* is declared twice (NamesStayUnique) and every declaration of MLX is     *)
(* bound or refused by a rule (EveryDeclStaysDecided).                     *)
(*                                                                         *)
(* The first half is about the steps: StateInv says how far each run has   *)
(* come, what the AST cache may hold, and what a run that saw no edit      *)
(* knows.  The second half is about one state, in which parse and check    *)
(* have just passed: what their gates compare and what the selection of    *)
(* functions makes of it.                                                  *)
(***************************************************************************)
EXTENDS Repository, SequenceTheorems, FiniteSetTheorems, WellFoundedInduction, TLAPS

(***************************************************************************)
(* The shape of the state.                                                 *)
(***************************************************************************)
Revisions == DOMAIN world.text
Headers == DOMAIN world.text[1]

WorldOK ==
  /\ world \in World
  /\ pol \in DOMAIN world.policy
  /\ work \in Revisions
  /\ edits \in Nat
  /\ stamp \in [{Base} \cup Headers -> Nat]
  /\ \A f \in {Base} \cup Headers : stamp[f] <= edits

Fields == {"tool", "pc", "mod", "revs", "got", "read", "deps", "parsed", "out", "ok", "clean"}
Parsing == {"lookup", "clang", "stat", "data", "meta"}
Filling == {"clang", "stat", "data", "meta"}
Writing == {"header", "impl"}
Ending  == {"support", "format", "gates"}

HeadersOf(r) == Manifest.modules[r.mod].headers

\* A run under way: where it may be, and how far it has come in its module.
Underway(r) ==
  /\ DOMAIN r = Fields
  /\ r.tool \in {"generate", "parse", "check"}
  /\ r.pc \in Parsing \cup Writing \cup Ending
  /\ r.tool = "parse" => r.pc \in Parsing \cup {"gates"}
  /\ r.ok \in BOOLEAN /\ r.clean \in BOOLEAN
  /\ r.mod \in 1..Len(Manifest.modules)
  /\ r.revs \in Seq(Revisions)
  /\ r.pc \in Parsing => Len(r.revs) < Len(HeadersOf(r))
  /\ r.pc \in Writing => Len(r.revs) = Len(HeadersOf(r))
  /\ r.pc \in Filling => HeadersOf(r)[Len(r.revs) + 1] \in Headers
  /\ r.pc \in Filling \ {"clang"} => r.got \in Revisions

RunsOK ==
  /\ run = [p \in Proc |-> run[p]]
  /\ \A p \in Proc : run[p] = Idle \/ (Loads(Manifest) /\ Underway(run[p]))

CacheOK ==
  /\ adata \in [Headers -> [rev : {0} \cup Revisions, by : Proc]]
  /\ ameta = [f \in Headers |-> ameta[f]]

TypeInv == WorldOK /\ RunsOK /\ CacheOK

(***************************************************************************)
(* Lemmas about one run.                                                   *)
(***************************************************************************)

LEMMA WorldFacts ==
  ASSUME WorldOK
  PROVE  /\ Texts(world)
         /\ Policies(world)
         /\ Manifest.modules \in Seq(ToSet(Manifest.modules))
         /\ 1 \in Revisions /\ 0 \notin Revisions
         /\ \A r \in Revisions : DOMAIN world.text[r] \subseteq Headers /\ Base \notin DOMAIN world.text[r]
         /\ Base \notin Headers
         /\ \A i \in DOMAIN Manifest.modules :
               /\ Manifest.modules[i].headers \in Seq(ToSet(Manifest.modules[i].headers))
               /\ Base \notin ToSet(Manifest.modules[i].headers)
  <1>1. Texts(world) /\ Policies(world)
    BY RepositoryAssumption DEF WorldOK
  <1>2. \A i \in DOMAIN Manifest.modules : Manifest.modules[i] \in ToSet(Manifest.modules)
    BY DEF ToSet
  <1>. QED
    BY <1>1, <1>2 DEF WorldOK, Texts, Policies, Revisions, Headers, Manifest

\* What Underway says of a run wherever it is.
Started(r) ==
  /\ DOMAIN r = Fields
  /\ r.tool \in {"generate", "parse", "check"}
  /\ r.ok \in BOOLEAN /\ r.clean \in BOOLEAN
  /\ r.mod \in 1..Len(Manifest.modules)

LEMMA NextModuleRuns ==
  ASSUME WorldOK, Loads(Manifest), NEW r, Started(r)
  PROVE  Underway(NextModule(r))
  <1>. DEFINE s == NextModule(r)
  <1>0. Len(Manifest.modules) \in Nat /\ DOMAIN Manifest.modules = 1..Len(Manifest.modules)
    BY WorldFacts, LenProperties
  <1>1. CASE r.mod < Len(Manifest.modules)
    <2>1. s = [r EXCEPT !.mod = @ + 1, !.revs = << >>, !.pc = "lookup"]
      BY <1>1 DEF NextModule
    <2>2. DOMAIN s = Fields /\ s.tool = r.tool /\ s.ok = r.ok /\ s.clean = r.clean
            /\ s.mod = r.mod + 1 /\ s.revs = << >> /\ s.pc = "lookup"
      BY <2>1 DEF Started, Fields
    <2>3. r.mod + 1 \in DOMAIN Manifest.modules
      BY <1>0, <1>1 DEF Started
    <2>4. Len(HeadersOf(s)) > 0
      <3>1. Manifest.modules[r.mod + 1].headers # << >>
        BY <2>3 DEF Loads, validate
      <3>. QED
        BY <2>2, <2>3, <3>1, WorldFacts, EmptySeq, LenProperties DEF HeadersOf
    <2>. QED
      BY <1>0, <2>2, <2>3, <2>4 DEF Underway, Started, Parsing, Filling, Writing, Ending
  <1>2. CASE ~(r.mod < Len(Manifest.modules))
    <2>1. s = [r EXCEPT !.revs = << >>, !.pc = IF r.tool = "parse" THEN "gates" ELSE "support"]
      BY <1>2 DEF NextModule
    <2>2. DOMAIN s = Fields /\ s.tool = r.tool /\ s.ok = r.ok /\ s.clean = r.clean
            /\ s.mod = r.mod /\ s.revs = << >>
            /\ s.pc = IF r.tool = "parse" THEN "gates" ELSE "support"
      BY <2>1 DEF Started, Fields
    <2>. QED
      BY <2>2 DEF Underway, Started, Parsing, Filling, Writing, Ending
  <1>. QED
    BY <1>1, <1>2

LEMMA TakeResultRuns ==
  ASSUME WorldOK, Loads(Manifest), NEW r, Started(r), r.revs \in Seq(Revisions),
         Len(r.revs) < Len(HeadersOf(r)), NEW rev \in Revisions
  PROVE  Underway(TakeResult(r, rev))
  <1>. DEFINE m    == Manifest.modules[r.mod]
              next == [r EXCEPT !.revs = Append(@, rev)]
              full == [next EXCEPT !.parsed = [n \in {m.name} |-> next.revs] ++ @]
  <1>0. Len(Manifest.modules) \in Nat /\ DOMAIN Manifest.modules = 1..Len(Manifest.modules)
    BY WorldFacts, LenProperties
  <1>1. DOMAIN next = Fields /\ next.tool = r.tool /\ next.ok = r.ok /\ next.clean = r.clean
          /\ next.mod = r.mod /\ next.revs = Append(r.revs, rev)
    BY DEF Started, Fields
  <1>2. next.revs \in Seq(Revisions) /\ Len(next.revs) = Len(r.revs) + 1
    BY <1>1, AppendProperties
  <1>3. Started(full) /\ full.revs = next.revs /\ full.mod = r.mod /\ full.tool = r.tool
    BY <1>1 DEF Started, Fields
  <1>4. Len(m.headers) \in Nat /\ Len(r.revs) \in Nat
    BY <1>0, WorldFacts, LenProperties DEF Started
  <1>5. CASE Len(next.revs) < Len(m.headers)
    <2>1. TakeResult(r, rev) = [next EXCEPT !.pc = "lookup"]
      BY <1>5 DEF TakeResult
    <2>. DEFINE s == [next EXCEPT !.pc = "lookup"]
    <2>2. DOMAIN s = Fields /\ s.tool = r.tool /\ s.ok = r.ok /\ s.clean = r.clean
            /\ s.mod = r.mod /\ s.revs = next.revs /\ s.pc = "lookup"
      BY <1>1 DEF Fields
    <2>3. Underway(s)
      BY <2>2, <1>2, <1>5 DEF Underway, Started, Parsing, Filling, Writing, Ending, HeadersOf
    <2>. QED
      BY <2>1, <2>3
  <1>6. CASE ~(Len(next.revs) < Len(m.headers)) /\ r.tool = "parse"
    <2>1. TakeResult(r, rev) = NextModule(full)
      BY <1>6 DEF TakeResult
    <2>. QED
      BY <2>1, <1>3, NextModuleRuns
  <1>7. CASE ~(Len(next.revs) < Len(m.headers)) /\ r.tool # "parse"
    <2>1. TakeResult(r, rev) = [full EXCEPT !.pc = "header"]
      BY <1>7 DEF TakeResult
    <2>. DEFINE s == [full EXCEPT !.pc = "header"]
    <2>2. DOMAIN s = Fields /\ s.tool = r.tool /\ s.ok = full.ok /\ s.clean = full.clean
            /\ s.mod = r.mod /\ s.revs = next.revs /\ s.pc = "header"
      BY <1>3 DEF Fields, Started
    <2>3. Len(next.revs) = Len(m.headers)
      BY <1>2, <1>4, <1>7 DEF HeadersOf
    <2>4. Underway(s)
      BY <2>2, <2>3, <1>2, <1>3, <1>7 DEF Underway, Started, Parsing, Filling, Writing, Ending, HeadersOf
    <2>. QED
      BY <2>1, <2>4
  <1>. QED
    BY <1>5, <1>6, <1>7

LEMMA ModuleFailsRuns ==
  ASSUME WorldOK, Loads(Manifest), NEW r, Started(r)
  PROVE  ModuleFails(r) = Idle \/ Underway(ModuleFails(r))
  <1>. DEFINE s == [r EXCEPT !.ok = FALSE]
  <1>1. Started(s)
    BY DEF Started, Fields
  <1>. QED
    BY <1>1, NextModuleRuns DEF ModuleFails

(***************************************************************************)
(* The shape of the state is kept by every step.                           *)
(***************************************************************************)

LEMMA OneRunMoves ==
  ASSUME TypeInv, UNCHANGED sources, CacheOK', NEW p \in Proc, NEW r,
         r = Idle \/ (Loads(Manifest) /\ Underway(r)),
         run' = [run EXCEPT ![p] = r] \/ run' = [Disturb(run) EXCEPT ![p] = r]
  PROVE  TypeInv'
  <1>1. WorldOK'
    BY DEF TypeInv, WorldOK, sources, Headers, Revisions
  <1>2. Manifest' = Manifest /\ Revisions' = Revisions /\ Headers' = Headers
    BY DEF sources, Manifest, Revisions, Headers
  <1>3. Loads(Manifest)' <=> Loads(Manifest)
    BY <1>2
  <1>4. ASSUME NEW s, Underway(s) PROVE Underway(s)'
    BY <1>2, <1>4 DEF Underway, HeadersOf
  <1>5. ASSUME NEW q \in Proc PROVE Disturb(run)[q] = Idle \/ (Loads(Manifest) /\ Underway(Disturb(run)[q]))
    <2>1. CASE run[q].tool = "idle"
      BY <2>1 DEF Disturb
    <2>2. CASE run[q].tool # "idle"
      <3>1. Loads(Manifest) /\ Underway(run[q])
        BY <2>2 DEF TypeInv, RunsOK, Idle
      <3>. DEFINE s == [run[q] EXCEPT !.clean = FALSE]
      <3>2. Disturb(run)[q] = s
        BY <2>2 DEF Disturb
      <3>3. /\ DOMAIN s = Fields /\ s.tool = run[q].tool /\ s.pc = run[q].pc /\ s.ok = run[q].ok
            /\ s.mod = run[q].mod /\ s.revs = run[q].revs /\ s.clean = FALSE /\ s.got = run[q].got
        BY <3>1 DEF Underway, Fields
      <3>4. HeadersOf(s) = HeadersOf(run[q])
        BY <3>3 DEF HeadersOf
      <3>5. Underway(s)
        BY <3>1, <3>3, <3>4 DEF Underway
      <3>. QED
        BY <3>1, <3>2, <3>5
    <2>. QED
      BY <2>1, <2>2
  <1>6. ASSUME NEW q \in Proc PROVE run'[q] = Idle \/ (Loads(Manifest) /\ Underway(run'[q]))
    BY <1>5 DEF TypeInv, RunsOK, Disturb
  <1>7. run' = [q \in Proc |-> run'[q]]
    BY DEF TypeInv, RunsOK, Disturb
  <1>8. RunsOK'
    BY <1>3, <1>4, <1>6, <1>7 DEF RunsOK
  <1>. QED
    BY <1>1, <1>8 DEF TypeInv

LEMMA RunsStay ==
  ASSUME TypeInv, UNCHANGED <<sources, run, cache>>
  PROVE  TypeInv'
  <1>1. WorldOK'
    BY DEF TypeInv, WorldOK, sources, Headers, Revisions
  <1>2. RunsOK'
    BY DEF TypeInv, RunsOK, sources, Loads, Manifest, Underway, HeadersOf, Revisions, Headers
  <1>3. CacheOK'
    BY DEF TypeInv, CacheOK, sources, cache, Revisions, Headers
  <1>. QED
    BY <1>1, <1>2, <1>3 DEF TypeInv

\* A run that is at a place is under way.
LEMMA AtRuns ==
  ASSUME TypeInv, NEW p \in Proc, run[p].tool # "idle"
  PROVE  Loads(Manifest) /\ Underway(run[p]) /\ Started(run[p])
  BY DEF TypeInv, RunsOK, Idle, Underway, Started

LEMMA MovesOn ==
  ASSUME NEW r, Underway(r), NEW pc \in {"clang", "impl", "format", "gates"},
         pc = "clang" => r.pc = "lookup" /\ HeadersOf(r)[Len(r.revs) + 1] \in Headers,
         pc = "impl" => r.pc = "header",
         pc = "format" => r.pc = "support",
         pc = "gates" => r.pc = "format"
  PROVE  Underway([r EXCEPT !.pc = pc])
  <1>. DEFINE s == [r EXCEPT !.pc = pc]
  <1>1. /\ DOMAIN s = Fields /\ s.tool = r.tool /\ s.pc = pc /\ s.ok = r.ok
        /\ s.mod = r.mod /\ s.revs = r.revs /\ s.clean = r.clean
    BY DEF Underway, Fields
  <1>2. HeadersOf(s) = HeadersOf(r)
    BY <1>1 DEF HeadersOf
  <1>. QED
    BY <1>1, <1>2 DEF Underway, Parsing, Filling, Writing, Ending

LEMMA NewRunRuns ==
  ASSUME WorldOK, Loads(Manifest), NEW tool \in {"generate", "parse", "check"}
  PROVE  Underway(NewRun(tool))
  <1>0. Len(Manifest.modules) \in Nat /\ DOMAIN Manifest.modules = 1..Len(Manifest.modules)
    BY WorldFacts, LenProperties
  <1>1. Manifest.modules # << >>
    BY DEF Loads, validate
  <1>2. 1 \in DOMAIN Manifest.modules
    BY <1>0, <1>1, WorldFacts, EmptySeq, LenProperties
  <1>3. Manifest.modules[1].headers # << >>
    BY <1>2 DEF Loads, validate
  <1>4. Len(Manifest.modules[1].headers) > 0
    BY <1>2, <1>3, WorldFacts, EmptySeq, LenProperties
  <1>. QED
    BY <1>0, <1>2, <1>4 DEF NewRun, Underway, Fields, Parsing, Filling, Writing, Ending, HeadersOf

\* The header that a run is at.
LEMMA FileFacts ==
  ASSUME TypeInv, NEW p \in Proc, run[p].tool # "idle", run[p].pc \in Parsing
  PROVE  /\ CurrentFile(p) = HeadersOf(run[p])[Len(run[p].revs) + 1]
         /\ CurrentFile(p) \in ToSet(HeadersOf(run[p]))
         /\ CurrentFile(p) # Base
         /\ ~Missing(CurrentFile(p)) => CurrentFile(p) \in DOMAIN world.text[work] /\ CurrentFile(p) \in Headers
         /\ run[p].pc \in Filling => CurrentFile(p) \in Headers
  <1>1. Underway(run[p])
    BY AtRuns
  <1>2. CurrentFile(p) = HeadersOf(run[p])[Len(run[p].revs) + 1]
    BY DEF CurrentFile, Module, HeadersOf
  <1>3. WorldOK
    BY DEF TypeInv
  <1>4. Len(Manifest.modules) \in Nat /\ DOMAIN Manifest.modules = 1..Len(Manifest.modules)
    BY <1>3, WorldFacts, LenProperties
  <1>5. run[p].mod \in DOMAIN Manifest.modules
    BY <1>1, <1>4 DEF Underway
  <1>6. Len(HeadersOf(run[p])) \in Nat /\ DOMAIN HeadersOf(run[p]) = 1..Len(HeadersOf(run[p]))
    BY <1>3, <1>5, WorldFacts, LenProperties DEF HeadersOf
  <1>7. Len(run[p].revs) \in Nat /\ Len(run[p].revs) < Len(HeadersOf(run[p]))
    BY <1>1, LenProperties DEF Underway
  <1>8. Len(run[p].revs) + 1 \in DOMAIN HeadersOf(run[p])
    BY <1>6, <1>7
  <1>9. CurrentFile(p) \in ToSet(HeadersOf(run[p]))
    BY <1>2, <1>8 DEF ToSet
  <1>10. CurrentFile(p) # Base
    BY <1>3, <1>5, <1>9, WorldFacts DEF HeadersOf
  <1>. QED
    BY <1>1, <1>2, <1>3, <1>9, <1>10, WorldFacts DEF Underway, Missing, WorldOK

LEMMA CacheStays ==
  ASSUME TypeInv, UNCHANGED <<sources, cache>>
  PROVE  CacheOK'
  BY DEF TypeInv, CacheOK, sources, cache, Revisions, Headers

\* What a run becomes by the steps that read a header.
LEMMA ReadingRuns ==
  ASSUME TypeInv, NEW p \in Proc, run[p].tool # "idle", run[p].pc \in Parsing
  PROVE  /\ ModuleFails(run[p]) = Idle \/ Underway(ModuleFails(run[p]))
         /\ \A rev \in Revisions : Underway(TakeResult(run[p], rev))
         /\ \A rev \in Revisions, b \in BOOLEAN : Underway(TakeResult([run[p] EXCEPT !.clean = b], rev))
  <1>1. Loads(Manifest) /\ Underway(run[p]) /\ Started(run[p]) /\ WorldOK
    BY AtRuns DEF TypeInv
  <1>2. ASSUME NEW b \in BOOLEAN
        PROVE  LET s == [run[p] EXCEPT !.clean = b]
               IN  Started(s) /\ s.revs = run[p].revs /\ HeadersOf(s) = HeadersOf(run[p])
    BY <1>1 DEF Started, Fields, HeadersOf
  <1>3. run[p].revs \in Seq(Revisions) /\ Len(run[p].revs) < Len(HeadersOf(run[p]))
    BY <1>1 DEF Underway
  <1>4. ASSUME NEW rev \in Revisions, NEW b \in BOOLEAN PROVE Underway(TakeResult([run[p] EXCEPT !.clean = b], rev))
    BY <1>1, <1>2, <1>3, <1>4, TakeResultRuns
  <1>. QED
    BY <1>1, <1>3, <1>4, TakeResultRuns, ModuleFailsRuns

LEMMA TypeStep ==
  ASSUME TypeInv, Next
  PROVE  TypeInv'
  <1>0. WorldOK /\ RunsOK /\ CacheOK
    BY DEF TypeInv
  <1>1. ASSUME NEW p \in Proc, NEW tool \in {"generate", "parse", "check"}, Start(p, tool) PROVE TypeInv'
    <2>1. Loads(Manifest) /\ Underway(NewRun(tool))
      BY <1>0, <1>1, NewRunRuns DEF Start, Accepts
    <2>. QED
      BY <1>1, <2>1, CacheStays, OneRunMoves DEF Start, Becomes
  <1>2. ASSUME NEW p \in Proc, HeaderMissing(p) PROVE TypeInv'
    <2>1. run[p].tool # "idle" /\ run[p].pc \in Parsing
      BY <1>2 DEF HeaderMissing, At, Parsing
    <2>. QED
      BY <1>2, <2>1, AtRuns, ReadingRuns, CacheStays, OneRunMoves DEF HeaderMissing, Becomes
  <1>3. ASSUME NEW p \in Proc, readCachedParseResult(p) PROVE TypeInv'
    <2>. DEFINE f == CurrentFile(p)
    <2>1. run[p].tool # "idle" /\ run[p].pc = "lookup" /\ run[p].pc \in Parsing /\ ~Missing(f)
      BY <1>3 DEF readCachedParseResult, At, Parsing
    <2>2. Loads(Manifest) /\ Underway(run[p])
      BY <2>1, AtRuns
    <2>3. CASE Hit(f)
      <3>1. f \in Headers
        BY <2>1, FileFacts
      <3>2. adata[f].rev \in Revisions
        BY <1>0, <2>3, <3>1 DEF Hit, CacheOK
      <3>3. (run[p].clean /\ f \notin torn /\ ~Raced(f)) \in BOOLEAN
        OBVIOUS
      <3>4. Becomes(p, TakeResult([run[p] EXCEPT !.clean = run[p].clean /\ f \notin torn /\ ~Raced(f)], adata[f].rev))
        BY <1>3, <2>3 DEF readCachedParseResult
      <3>5. Underway(TakeResult([run[p] EXCEPT !.clean = run[p].clean /\ f \notin torn /\ ~Raced(f)], adata[f].rev))
        BY <2>1, <3>2, <3>3, ReadingRuns
      <3>. QED
        BY <1>3, <2>2, <3>4, <3>5, CacheStays, OneRunMoves DEF readCachedParseResult, Becomes
    <2>4. CASE ~Hit(f)
      <3>1. HeadersOf(run[p])[Len(run[p].revs) + 1] \in Headers
        BY <2>1, FileFacts
      <3>2. Underway([run[p] EXCEPT !.pc = "clang"])
        BY <2>1, <2>2, <3>1, MovesOn
      <3>. QED
        BY <1>3, <2>2, <2>4, <3>2, CacheStays, OneRunMoves DEF readCachedParseResult, Becomes
    <2>. QED
      BY <2>3, <2>4
  <1>4. ASSUME NEW p \in Proc, runClangAST(p) PROVE TypeInv'
    <2>. DEFINE s == [run[p] EXCEPT !.got = work, !.read = Stamps(CurrentFile(p)), !.pc = "stat"]
    <2>1. run[p].tool # "idle" /\ run[p].pc = "clang" /\ run[p].pc \in Parsing
      BY <1>4 DEF runClangAST, At, Parsing
    <2>2. Loads(Manifest) /\ Underway(run[p])
      BY <2>1, AtRuns
    <2>3. /\ DOMAIN s = Fields /\ s.tool = run[p].tool /\ s.ok = run[p].ok /\ s.clean = run[p].clean
          /\ s.mod = run[p].mod /\ s.revs = run[p].revs /\ s.got = work /\ s.pc = "stat"
      BY <2>2 DEF Underway, Fields
    <2>4. HeadersOf(s) = HeadersOf(run[p])
      BY <2>3 DEF HeadersOf
    <2>5. Underway(s)
      BY <1>0, <2>1, <2>2, <2>3, <2>4 DEF Underway, Parsing, Filling, Writing, Ending, WorldOK
    <2>6. run' = [run EXCEPT ![p] = s] \/ run' = [run EXCEPT ![p] = ModuleFails(run[p])]
      BY <1>4 DEF runClangAST, Becomes
    <2>7. UNCHANGED <<sources, cache>>
      BY <1>4 DEF runClangAST
    <2>. QED
      BY <2>1, <2>2, <2>5, <2>6, <2>7, ReadingRuns, CacheStays, OneRunMoves
  <1>5. ASSUME NEW p \in Proc, statASTCacheDeps(p) PROVE TypeInv'
    <2>. DEFINE s == [run[p] EXCEPT !.deps = Stamps(CurrentFile(p)), !.pc = "data"]
    <2>1. run[p].tool # "idle" /\ run[p].pc = "stat" /\ run[p].pc \in Parsing
      BY <1>5 DEF statASTCacheDeps, At, Parsing
    <2>2. Loads(Manifest) /\ Underway(run[p])
      BY <2>1, AtRuns
    <2>3. /\ DOMAIN s = Fields /\ s.tool = run[p].tool /\ s.ok = run[p].ok /\ s.clean = run[p].clean
          /\ s.mod = run[p].mod /\ s.revs = run[p].revs /\ s.got = run[p].got /\ s.pc = "data"
      BY <2>2 DEF Underway, Fields
    <2>4. HeadersOf(s) = HeadersOf(run[p])
      BY <2>3 DEF HeadersOf
    <2>5. run[p].got \in Revisions
      BY <2>1, <2>2 DEF Underway, Filling
    <2>6. Underway(s)
      BY <2>1, <2>2, <2>3, <2>4 DEF Underway, Parsing, Filling, Writing, Ending
    <2>7. run' = [run EXCEPT ![p] = s] \/ run' = [run EXCEPT ![p] = TakeResult(run[p], run[p].got)]
      BY <1>5 DEF statASTCacheDeps, Becomes
    <2>8. UNCHANGED <<sources, cache>>
      BY <1>5 DEF statASTCacheDeps
    <2>. QED
      BY <2>1, <2>2, <2>5, <2>6, <2>7, <2>8, ReadingRuns, CacheStays, OneRunMoves
  <1>6. ASSUME NEW p \in Proc, WriteData(p) PROVE TypeInv'
    <2>. DEFINE s == [run[p] EXCEPT !.pc = "meta"]
    <2>1. run[p].tool # "idle" /\ run[p].pc = "data" /\ run[p].pc \in Parsing
      BY <1>6 DEF WriteData, At, Parsing
    <2>2. Loads(Manifest) /\ Underway(run[p])
      BY <2>1, AtRuns
    <2>3. /\ DOMAIN s = Fields /\ s.tool = run[p].tool /\ s.ok = run[p].ok /\ s.clean = run[p].clean
          /\ s.mod = run[p].mod /\ s.revs = run[p].revs /\ s.got = run[p].got /\ s.pc = "meta"
      BY <2>2 DEF Underway, Fields
    <2>4. HeadersOf(s) = HeadersOf(run[p])
      BY <2>3 DEF HeadersOf
    <2>5. run[p].got \in Revisions
      BY <2>1, <2>2 DEF Underway, Filling
    <2>6. Underway(s)
      BY <2>1, <2>2, <2>3, <2>4 DEF Underway, Parsing, Filling, Writing, Ending
    <2>7. CacheOK'
      BY <1>0, <1>6, <2>5 DEF WriteData, CacheOK, sources, Revisions, Headers
    <2>. QED
      BY <1>6, <2>2, <2>6, <2>7, OneRunMoves DEF WriteData, Becomes
  <1>7. ASSUME NEW p \in Proc, WriteMeta(p) PROVE TypeInv'
    <2>1. run[p].tool # "idle" /\ run[p].pc = "meta" /\ run[p].pc \in Parsing
      BY <1>7 DEF WriteMeta, At, Parsing
    <2>2. Loads(Manifest) /\ Underway(run[p])
      BY <2>1, AtRuns
    <2>3. run[p].got \in Revisions
      BY <2>1, <2>2 DEF Underway, Filling
    <2>4. CacheOK'
      BY <1>0, <1>7 DEF WriteMeta, CacheOK, sources, Revisions, Headers
    <2>. QED
      BY <1>7, <2>1, <2>2, <2>3, <2>4, ReadingRuns, OneRunMoves DEF WriteMeta, Becomes
  <1>8. ASSUME NEW p \in Proc, NEW files, NEW r, r = Idle \/ (Loads(Manifest) /\ Underway(r)),
               Put(p, files, r), UNCHANGED <<sources, cache>>
        PROVE  TypeInv'
    <2>1. \/ run' = [Disturb(run) EXCEPT ![p] = r]
          \/ r.tool = "check" /\ run' = [run EXCEPT ![p] = [r EXCEPT !.out = files ++ @]]
      <3>1. CASE r.tool = "check"
        BY <1>8, <3>1 DEF Put
      <3>2. CASE r.tool # "check"
        BY <1>8, <3>2 DEF Put
      <3>. QED
        BY <3>1, <3>2
    <2>2. ASSUME r.tool = "check" PROVE Loads(Manifest) /\ Underway([r EXCEPT !.out = files ++ @])
      <3>. DEFINE s == [r EXCEPT !.out = files ++ @]
      <3>1. Loads(Manifest) /\ Underway(r)
        BY <1>8, <2>2 DEF Idle
      <3>2. /\ DOMAIN s = Fields /\ s.tool = r.tool /\ s.ok = r.ok /\ s.clean = r.clean
            /\ s.mod = r.mod /\ s.revs = r.revs /\ s.got = r.got /\ s.pc = r.pc
        BY <3>1 DEF Underway, Fields
      <3>3. HeadersOf(s) = HeadersOf(r)
        BY <3>2 DEF HeadersOf
      <3>. QED
        BY <3>1, <3>2, <3>3 DEF Underway
    <2>. QED
      BY <1>8, <2>1, <2>2, CacheStays, OneRunMoves
  <1>9. ASSUME NEW p \in Proc, WriteHeader(p) PROVE TypeInv'
    <2>1. run[p].tool # "idle" /\ run[p].pc = "header"
      BY <1>9 DEF WriteHeader, At
    <2>2. Loads(Manifest) /\ Underway(run[p]) /\ Started(run[p])
      BY <2>1, AtRuns
    <2>3. Started([run[p] EXCEPT !.ok = FALSE])
      BY <2>2 DEF Started, Fields
    <2>4. Underway(NextModule([run[p] EXCEPT !.ok = FALSE]))
      BY <1>0, <2>2, <2>3, NextModuleRuns
    <2>5. Underway([run[p] EXCEPT !.pc = "impl"])
      BY <2>1, <2>2, MovesOn
    <2>6. UNCHANGED <<sources, cache>>
      BY <1>9 DEF WriteHeader
    <2>7. \/ run' = [run EXCEPT ![p] = NextModule([run[p] EXCEPT !.ok = FALSE])]
          \/ \E files : Put(p, files, [run[p] EXCEPT !.pc = "impl"])
      BY <1>9 DEF WriteHeader, Becomes
    <2>. QED
      BY <1>8, <2>2, <2>4, <2>5, <2>6, <2>7, CacheStays, OneRunMoves
  <1>10. ASSUME NEW p \in Proc, WriteImpl(p) PROVE TypeInv'
    <2>1. run[p].tool # "idle"
      BY <1>10 DEF WriteImpl, At
    <2>2. Loads(Manifest) /\ Underway(NextModule(run[p]))
      BY <1>0, <2>1, AtRuns, NextModuleRuns
    <2>3. \E files : Put(p, files, NextModule(run[p]))
      BY <1>10 DEF WriteImpl
    <2>. QED
      BY <1>8, <1>10, <2>2, <2>3 DEF WriteImpl
  <1>11. ASSUME NEW p \in Proc, WriteSupport(p) PROVE TypeInv'
    <2>1. run[p].tool # "idle" /\ run[p].pc = "support"
      BY <1>11 DEF WriteSupport, At
    <2>2. Loads(Manifest) /\ Underway([run[p] EXCEPT !.pc = "format"])
      BY <2>1, AtRuns, MovesOn
    <2>3. \E files : Put(p, files, IF run[p].ok THEN [run[p] EXCEPT !.pc = "format"] ELSE Idle)
      BY <1>11 DEF WriteSupport
    <2>4. UNCHANGED <<sources, cache>>
      BY <1>11 DEF WriteSupport
    <2>. QED
      BY <1>8, <2>2, <2>3, <2>4
  <1>12. ASSUME NEW p \in Proc, Format(p) PROVE TypeInv'
    <2>1. run[p].tool # "idle" /\ run[p].pc = "format"
      BY <1>12 DEF Format, At
    <2>2. Loads(Manifest) /\ Underway([run[p] EXCEPT !.pc = "gates"])
      BY <2>1, AtRuns, MovesOn
    <2>3. \E files : Put(p, files, IF run[p].tool = "check" THEN [run[p] EXCEPT !.pc = "gates"] ELSE Idle)
      BY <1>12 DEF Format
    <2>4. UNCHANGED <<sources, cache>>
      BY <1>12 DEF Format
    <2>. QED
      BY <1>8, <2>2, <2>3, <2>4
  <1>13. ASSUME NEW p \in Proc, Verdict(p) \/ Kill(p) PROVE TypeInv'
    BY <1>13, CacheStays, OneRunMoves DEF Verdict, Kill, Becomes
  <1>14. ASSUME WriteLock \/ Build \/ Generate_purego \/ checkDir PROVE TypeInv'
    BY <1>14, RunsStay DEF WriteLock, Build, Generate_purego, checkDir
  <1>15. ASSUME NEW rev \in DOMAIN world.text, Checkout(rev) PROVE TypeInv'
    <2>1. WorldOK'
      <3>1. stamp' \in [{Base} \cup Headers -> Nat] /\ \A f \in {Base} \cup Headers : stamp'[f] <= edits'
        BY <1>0, <1>15 DEF Checkout, Edit, Touch, Files, WorldOK
      <3>. QED
        BY <1>0, <1>15, <3>1 DEF Checkout, Edit, WorldOK, Revisions, Headers
    <2>2. CacheOK'
      BY <1>0, <1>15 DEF Checkout, CacheOK, cache, Revisions, Headers
    <2>3. UNCHANGED <<world, pol>> /\ run' = Disturb(run)
      BY <1>15 DEF Checkout
    <2>4. RunsOK'
      <3>1. Manifest' = Manifest /\ Revisions' = Revisions /\ Headers' = Headers
        BY <2>3 DEF Manifest, Revisions, Headers
      <3>2. ASSUME NEW q \in Proc, run[q].tool # "idle" PROVE Loads(Manifest)' /\ Underway(run[q])'
        <4>. DEFINE s == [run[q] EXCEPT !.clean = FALSE]
        <4>1. Loads(Manifest) /\ Underway(run[q])
          BY <3>2, AtRuns
        <4>2. run'[q] = s
          BY <2>3, <3>2 DEF Disturb
        <4>3. /\ DOMAIN s = Fields /\ s.tool = run[q].tool /\ s.pc = run[q].pc /\ s.ok = run[q].ok
              /\ s.mod = run[q].mod /\ s.revs = run[q].revs /\ s.clean = FALSE /\ s.got = run[q].got
          BY <4>1 DEF Underway, Fields
        <4>. HIDE DEF s
        <4>4. Underway(s)
          BY <4>1, <4>3 DEF Underway, HeadersOf
        <4>5. Underway(run[q])'
          BY <3>1, <4>4, <4>2 DEF Underway, HeadersOf
        <4>. QED
          BY <3>1, <4>1, <4>2, <4>5
      <3>3. ASSUME NEW q \in Proc, run[q].tool = "idle" PROVE run[q]' = Idle
        BY <2>3, <3>3 DEF Disturb
      <3>4. run' = [q \in Proc |-> run[q]']
        BY <2>3 DEF Disturb
      <3>. QED
        BY <3>2, <3>3, <3>4 DEF RunsOK
    <2>. QED
      BY <2>1, <2>2, <2>4 DEF TypeInv
  <1>16. ASSUME UNCHANGED <<world, head, work, stamp, cache, run>>, Quiet, edits' = edits + 1, pol' \in DOMAIN world.policy
         PROVE  TypeInv'
    <2>1. WorldOK'
      BY <1>0, <1>16 DEF WorldOK, Revisions, Headers
    <2>2. CacheOK'
      BY <1>0, <1>16 DEF CacheOK, cache, Revisions, Headers
    <2>3. \A q \in Proc : run[q] = Idle
      BY <1>0, <1>16, AtRuns DEF Quiet, RunsOK, Idle, Underway
    <2>4. RunsOK'
      BY <1>0, <1>16, <2>3 DEF RunsOK
    <2>. QED
      BY <2>1, <2>2, <2>4 DEF TypeInv
  <1>17. ASSUME NEW i \in DOMAIN world.policy, EditPolicy(i) PROVE TypeInv'
    BY <1>16, <1>17 DEF EditPolicy, Edit
  <1>18. ASSUME NEW h, HandEdit(h) PROVE TypeInv'
    BY <1>0, <1>16, <1>18 DEF HandEdit, Edit, WorldOK
  <1>. QED
    BY <1>1, <1>2, <1>3, <1>4, <1>5, <1>6, <1>7, <1>9, <1>10, <1>11, <1>12, <1>13, <1>14, <1>15, <1>17, <1>18
    DEF Next

LEMMA TypeInit == ASSUME Init PROVE TypeInv
  <1>1. \A w \in World : Texts(w) /\ Policies(w)
    BY RepositoryAssumption
  <1>2. WorldOK
    BY <1>1 DEF Init, WorldOK, Texts, Policies, Revisions, Headers
  <1>3. RunsOK
    BY DEF Init, RunsOK
  <1>4. CacheOK
    BY RepositoryAssumption DEF Init, CacheOK, Headers
  <1>. QED
    BY <1>2, <1>3, <1>4 DEF TypeInv

\* Every run is somewhere in its program, with a module and a header to work on, and
\* the entries of the AST cache are of revisions that exist (main, ParseFiles).
THEOREM RepositoryTypes == Spec => []TypeInv
  <1>1. TypeInv /\ UNCHANGED vars => TypeInv'
    BY RunsStay DEF vars
  <1>. QED
    BY TypeInit, TypeStep, <1>1, PTL DEF Spec

(***************************************************************************)
(* The AST cache.  An entry that one run wrote is either stale, and stays  *)
(* so, since no stamp is ever set twice, or what it was made from is what  *)
(* the stamps it records stand for.                                        *)
(***************************************************************************)
\* Stats of a header and of the one it includes, none of a later time than now.
Stats(deps, f) ==
  /\ DOMAIN deps \subseteq {f, Base}
  /\ \A d \in DOMAIN deps : deps[d] \in Nat /\ deps[d] <= stamp[d]
Stale(deps) == deps = NoDeps \/ \E d \in DOMAIN deps : deps[d] # stamp[d]

\* A text was read at a revision, and deps are the stats it had.
Knows(rev, deps, f) ==
  /\ rev \in Revisions /\ f \in DOMAIN world.text[rev] /\ {f, Base} \subseteq DOMAIN deps
  /\ \A d \in {f, Base} : deps[d] = stamp[d] => TextAt(rev, d) = TextAt(work, d)

EntryOK(f) ==
  /\ Stats(ameta[f].deps, f)
  /\ adata[f].rev = 0 => ameta[f].deps = NoDeps
  /\ f \notin torn /\ ~Raced(f) => Stale(ameta[f].deps) \/ Knows(adata[f].rev, ameta[f].deps, f)

\* What a run that fills an entry knows.  What it finds in the entry of its own is stale.
Filler(q, f) ==
  /\ ameta[f].by = q => Stale(ameta[f].deps)
  /\ run[q].pc # "clang" => Stats(run[q].read, f) /\ Knows(run[q].got, run[q].read, f)
  /\ run[q].pc \in {"data", "meta"} => Stats(run[q].deps, f) /\ run[q].deps # NoDeps
  /\ run[q].pc = "meta" => adata[f].rev # 0 /\ (adata[f].by = q => adata[f].rev = run[q].got)

Filled(q) == run[q].tool # "idle" /\ run[q].pc \in Filling => Filler(q, CurrentFile(q))

CacheInv ==
  /\ \A f \in Headers : EntryOK(f)
  /\ \A q \in Proc : Filled(q)

LEMMA StaleStays ==
  ASSUME TypeInv, NEW f \in Headers, NEW deps, Stats(deps, f),
         \A d \in {Base} \cup Headers : stamp'[d] = stamp[d] \/ stamp'[d] = edits + 1
  PROVE  Stats(deps, f)' /\ (Stale(deps) => Stale(deps)')
  <1>1. \A d \in DOMAIN deps : d \in {Base} \cup Headers /\ deps[d] \in Nat /\ deps[d] <= stamp[d]
    BY DEF Stats
  <1>2. \A d \in DOMAIN deps : stamp[d] \in Nat /\ edits \in Nat /\ stamp[d] <= edits
    BY <1>1 DEF TypeInv, WorldOK
  <1>. QED
    BY <1>1, <1>2 DEF Stats, Stale

LEMMA KnowsStays ==
  ASSUME TypeInv, NEW f \in Headers, NEW deps, Stats(deps, f), NEW rev, Knows(rev, deps, f),
         world' = world,
         \A d \in {Base} \cup Headers :
            (stamp'[d] = stamp[d] /\ TextAt(work, d)' = TextAt(work, d)) \/ stamp'[d] = edits + 1
  PROVE  Knows(rev, deps, f)'
  <1>1. \A d \in {f, Base} : d \in {Base} \cup Headers /\ deps[d] \in Nat /\ deps[d] <= stamp[d]
    BY DEF Stats, Knows
  <1>2. \A d \in {f, Base} : stamp[d] \in Nat /\ edits \in Nat /\ stamp[d] <= edits
    BY <1>1 DEF TypeInv, WorldOK
  <1>3. \A d \in {f, Base} : TextAt(rev, d)' = TextAt(rev, d)
    BY DEF TextAt
  <1>4. ASSUME NEW d \in {f, Base}, deps[d] = stamp'[d] PROVE TextAt(rev, d)' = TextAt(work, d)'
    <2>1. stamp'[d] # edits + 1
      BY <1>1, <1>2, <1>4
    <2>2. stamp'[d] = stamp[d] /\ TextAt(work, d)' = TextAt(work, d)
      BY <1>1, <2>1
    <2>3. TextAt(rev, d) = TextAt(work, d)
      BY <1>4, <2>2 DEF Knows
    <2>. QED
      BY <1>3, <2>2, <2>3
  <1>. QED
    BY <1>4 DEF Knows, Revisions

\* What is in front of another run does not change under it.
LEMMA FillerStays ==
  ASSUME TypeInv, UNCHANGED sources, NEW q \in Proc, Filled(q),
         \A f \in Headers :
            /\ ameta'[f] = ameta[f] \/ ameta'[f].by # q
            /\ adata'[f] = adata[f] \/ (adata'[f].by # q /\ adata'[f].rev # 0),
         run'[q] = run[q] \/ (run[q].tool # "idle" /\ run'[q] = [run[q] EXCEPT !.clean = FALSE])
  PROVE  Filled(q)'
  <1>. SUFFICES ASSUME run'[q].tool # "idle", run'[q].pc \in Filling
                PROVE  Filler(q, CurrentFile(q))'
    BY DEF Filled, Filling
  <1>1. /\ run[q].tool # "idle" /\ run[q].pc = run'[q].pc /\ run[q].mod = run'[q].mod
        /\ run[q].revs = run'[q].revs /\ run[q].got = run'[q].got
        /\ run[q].read = run'[q].read /\ run[q].deps = run'[q].deps
    <2>1. CASE run'[q] = run[q]
      BY <2>1
    <2>2. CASE run[q].tool # "idle" /\ run'[q] = [run[q] EXCEPT !.clean = FALSE]
      <3>1. DOMAIN run[q] = Fields
        BY <2>2, AtRuns DEF Underway
      <3>. QED
        BY <2>2, <3>1 DEF Fields
    <2>. QED
      BY <2>1, <2>2
  <1>2. CurrentFile(q) \in Headers
    BY <1>1, FileFacts DEF Parsing, Filling
  <1>3. PICK f \in Headers : f = CurrentFile(q)
    BY <1>2
  <1>4. Filler(q, f) /\ CurrentFile(q)' = f
    BY <1>1, <1>3 DEF Filled, CurrentFile, Module, Manifest, sources
  <1>5. \A deps : (Stats(deps, f)' <=> Stats(deps, f)) /\ (Stale(deps)' <=> Stale(deps))
    BY DEF Stats, Stale, sources
  <1>6. \A rev, deps : Knows(rev, deps, f)' <=> Knows(rev, deps, f)
    BY DEF Knows, sources, TextAt, Revisions
  <1>7. Filler(q, f)'
    BY <1>1, <1>4, <1>5, <1>6 DEF Filler
  <1>. QED
    BY <1>4, <1>7

LEMMA LeavesFilling ==
  ASSUME NEW r, Started(r), NEW rev, NEW b
  PROVE  /\ NextModule(r).pc \notin Filling
         /\ ModuleFails(r).tool = "idle" \/ ModuleFails(r).pc \notin Filling
         /\ TakeResult(r, rev).pc \notin Filling
         /\ TakeResult([r EXCEPT !.clean = b], rev).pc \notin Filling
  <1>1. ASSUME NEW s, DOMAIN s = Fields PROVE NextModule(s).pc \notin Filling
    BY <1>1 DEF NextModule, Filling, Fields
  <1>2. ASSUME NEW s, DOMAIN s = Fields PROVE TakeResult(s, rev).pc \notin Filling
    <2>. DEFINE m    == Manifest.modules[s.mod]
                next == [s EXCEPT !.revs = Append(@, rev)]
                full == [next EXCEPT !.parsed = [n \in {m.name} |-> next.revs] ++ @]
    <2>1. DOMAIN next = Fields /\ DOMAIN full = Fields
      BY <1>2
    <2>2. [next EXCEPT !.pc = "lookup"].pc = "lookup" /\ [full EXCEPT !.pc = "header"].pc = "header"
      BY <2>1 DEF Fields
    <2>3. NextModule(full).pc \notin Filling
      BY <1>1, <2>1
    <2>4. TakeResult(s, rev) \in {[next EXCEPT !.pc = "lookup"], [full EXCEPT !.pc = "header"], NextModule(full)}
      BY DEF TakeResult
    <2>. QED
      BY <2>2, <2>3, <2>4 DEF Filling
  <1>3. DOMAIN [r EXCEPT !.ok = FALSE] = Fields /\ DOMAIN [r EXCEPT !.clean = b] = Fields /\ DOMAIN r = Fields
    BY DEF Started
  <1>. QED
    BY <1>1, <1>2, <1>3 DEF ModuleFails, Idle

LEMMA EntriesStay ==
  ASSUME UNCHANGED <<sources, cache>>, NEW f, EntryOK(f)
  PROVE  EntryOK(f)'
  BY DEF EntryOK, Stats, Stale, Knows, Raced, TextAt, Revisions, sources, cache

\* A step that touches neither the sources nor the cache, and starts no filling.
LEMMA CacheUnmoved ==
  ASSUME TypeInv, CacheInv, UNCHANGED <<sources, cache>>,
         \A q \in Proc : \/ run'[q] = run[q] 
                         \/ run[q].tool # "idle" /\ run'[q] = [run[q] EXCEPT !.clean = FALSE]
                         \/ run'[q].tool = "idle" \/ run'[q].pc \notin Filling
  PROVE  CacheInv'
  <1>1. \A f \in Headers : EntryOK(f)'
    BY EntriesStay DEF CacheInv
  <1>2. Headers' = Headers
    BY DEF Headers, sources
  <1>3. ASSUME NEW q \in Proc PROVE Filled(q)'
    <2>1. CASE run'[q] = run[q] \/ (run[q].tool # "idle" /\ run'[q] = [run[q] EXCEPT !.clean = FALSE])
      BY <2>1, FillerStays DEF CacheInv, cache
    <2>2. CASE run'[q].tool = "idle" \/ run'[q].pc \notin Filling
      BY <2>2 DEF Filled
    <2>. QED
      BY <2>1, <2>2
  <1>. QED
    BY <1>1, <1>2, <1>3 DEF CacheInv

\* A step of one run that touches neither the sources nor the cache.
LEMMA OneFills ==
  ASSUME TypeInv, CacheInv, UNCHANGED <<sources, cache>>, NEW p \in Proc,
         \A q \in Proc \ {p} : run'[q] = run[q],
         Filled(p)'
  PROVE  CacheInv'
  <1>1. \A f \in Headers : EntryOK(f)'
    BY EntriesStay DEF CacheInv
  <1>2. Headers' = Headers
    BY DEF Headers, sources
  <1>3. \A q \in Proc \ {p} : Filled(q)'
    BY FillerStays DEF CacheInv, cache
  <1>. QED
    BY <1>1, <1>2, <1>3 DEF CacheInv

\* The stats that are taken of a header and of the one it includes.
LEMMA StampsFacts ==
  ASSUME TypeInv, NEW f \in Headers
  PROVE  /\ Stats(Stamps(f), f) /\ Stamps(f) # NoDeps
         /\ ~Missing(f) => Knows(work, Stamps(f), f)
         /\ ~Stale(Stamps(f))
  <1>1. WorldOK /\ f # Base /\ ~Missing(Base)
    BY WorldFacts DEF TypeInv, Missing
  <1>2. DOMAIN Stamps(f) \subseteq {f, Base} /\ Base \in DOMAIN Stamps(f)
          /\ \A d \in DOMAIN Stamps(f) : Stamps(f)[d] = stamp[d] /\ d \in {Base} \cup Headers
    BY <1>1 DEF Stamps, Deps
  <1>3. Stamps(f) # NoDeps
    BY <1>2 DEF NoDeps
  <1>4. ASSUME ~Missing(f) PROVE Knows(work, Stamps(f), f)
    BY <1>1, <1>2, <1>4 DEF Knows, Missing, Stamps, Deps, WorldOK, Revisions
  <1>. QED
    BY <1>1, <1>2, <1>3, <1>4 DEF Stats, Stale, WorldOK

LEMMA CacheStep ==
  ASSUME TypeInv, CacheInv, Next
  PROVE  CacheInv'
  <1>0. WorldOK /\ RunsOK /\ CacheOK
    BY DEF TypeInv
  <1>a. ASSUME NEW p \in Proc, NEW r, run' = [run EXCEPT ![p] = r] \/ run' = [Disturb(run) EXCEPT ![p] = r],
               r.tool = "idle" \/ r.pc \notin Filling, UNCHANGED <<sources, cache>>
        PROVE  CacheInv'
    <2>1. run'[p] = r /\ \A q \in Proc \ {p} :
             \/ run'[q] = run[q]
             \/ run[q].tool # "idle" /\ run'[q] = [run[q] EXCEPT !.clean = FALSE]
             \/ run'[q].tool = "idle"
      <3>1. CASE run' = [run EXCEPT ![p] = r]
        BY <1>0, <3>1 DEF RunsOK
      <3>2. CASE run' = [Disturb(run) EXCEPT ![p] = r]
        <4>1. run'[p] = r /\ \A q \in Proc \ {p} : run'[q] = Disturb(run)[q]
          BY <3>2 DEF Disturb
        <4>2. \A q \in Proc : IF run[q].tool = "idle" THEN Disturb(run)[q] = Idle
                              ELSE Disturb(run)[q] = [run[q] EXCEPT !.clean = FALSE]
          BY DEF Disturb
        <4>. QED
          BY <4>1, <4>2 DEF Idle
      <3>. QED
        BY <1>a, <3>1, <3>2
    <2>. QED
      BY <1>a, <2>1, CacheUnmoved
  <1>1. ASSUME NEW p \in Proc, NEW tool \in {"generate", "parse", "check"}, Start(p, tool) PROVE CacheInv'
    BY <1>a, <1>1 DEF Start, Becomes, NewRun, Filling
  <1>2. ASSUME NEW p \in Proc, HeaderMissing(p) PROVE CacheInv'
    <2>1. Started(run[p])
      BY <1>2, AtRuns DEF HeaderMissing, At
    <2>. QED
      BY <1>a, <1>2, <2>1, LeavesFilling DEF HeaderMissing, Becomes
  <1>3. ASSUME NEW p \in Proc, readCachedParseResult(p) PROVE CacheInv'
    <2>. DEFINE b == run[p].clean /\ CurrentFile(p) \notin torn /\ ~Raced(CurrentFile(p))
    <2>1. run[p].tool # "idle" /\ run[p].pc = "lookup" /\ run[p].pc \in Parsing /\ ~Missing(CurrentFile(p))
      BY <1>3 DEF readCachedParseResult, At, Parsing
    <2>2. Started(run[p])
      BY <2>1, AtRuns
    <2>3. UNCHANGED <<sources, cache>>
      BY <1>3 DEF readCachedParseResult
    <2>4. CASE Hit(CurrentFile(p))
      <3>1. run' = [run EXCEPT ![p] = TakeResult([run[p] EXCEPT !.clean = b], adata[CurrentFile(p)].rev)]
        BY <1>3, <2>4 DEF readCachedParseResult, Becomes
      <3>. QED
        BY <1>a, <2>2, <2>3, <3>1, LeavesFilling
    <2>5. CASE ~Hit(CurrentFile(p))
      <3>1. run' = [run EXCEPT ![p] = [run[p] EXCEPT !.pc = "clang"]]
        BY <1>3, <2>5 DEF readCachedParseResult, Becomes
      <3>2. CurrentFile(p) \in Headers
        BY <2>1, FileFacts
      <3>3. PICK f \in Headers : f = CurrentFile(p)
        BY <3>2
      <3>4. run'[p] = [run[p] EXCEPT !.pc = "clang"] /\ \A q \in Proc \ {p} : run'[q] = run[q]
        BY <1>0, <3>1 DEF RunsOK
      <3>5. run'[p].pc = "clang" /\ run'[p].mod = run[p].mod /\ run'[p].revs = run[p].revs
        BY <2>2, <3>4 DEF Started, Fields
      <3>6. CurrentFile(p)' = f
        BY <2>3, <3>3, <3>5 DEF CurrentFile, Module, Manifest, sources
      <3>7. Stale(ameta[f].deps)
        <4>1. EntryOK(f)
          BY DEF CacheInv
        <4>2. ~Missing(f) /\ ~Missing(Base)
          BY <2>1, <3>3 DEF Missing
        <4>3. ~astCacheDepsFresh(f) \/ adata[f].rev = 0
          BY <2>5, <3>3 DEF Hit
        <4>4. \A d \in DOMAIN ameta[f].deps : ~Missing(d)
          BY <4>1, <4>2 DEF EntryOK, Stats
        <4>. QED
          BY <4>1, <4>3, <4>4 DEF EntryOK, astCacheDepsFresh, Stale
      <3>8. Filler(p, f)'
        BY <2>3, <3>5, <3>7 DEF Filler, Stale, sources, cache
      <3>9. Filled(p)'
        BY <3>6, <3>8 DEF Filled
      <3>. QED
        BY <2>3, <3>4, <3>9, OneFills
    <2>. QED
      BY <2>4, <2>5
  <1>4. ASSUME NEW p \in Proc, runClangAST(p) PROVE CacheInv'
    <2>. DEFINE s == [run[p] EXCEPT !.got = work, !.read = Stamps(CurrentFile(p)), !.pc = "stat"]
    <2>1. run[p].tool # "idle" /\ run[p].pc = "clang" /\ run[p].pc \in Parsing /\ run[p].pc \in Filling
      BY <1>4 DEF runClangAST, At, Parsing, Filling
    <2>2. Started(run[p])
      BY <2>1, AtRuns
    <2>3. UNCHANGED <<sources, cache>>
      BY <1>4 DEF runClangAST
    <2>4. CASE run' = [run EXCEPT ![p] = ModuleFails(run[p])]
      BY <1>a, <2>2, <2>3, <2>4, LeavesFilling
    <2>5. CASE ~Missing(CurrentFile(p)) /\ run' = [run EXCEPT ![p] = s]
      <3>1. PICK f \in Headers : f = CurrentFile(p)
        BY <2>1, FileFacts
      <3>2. run'[p] = s /\ \A q \in Proc \ {p} : run'[q] = run[q]
        BY <1>0, <2>5 DEF RunsOK
      <3>3. /\ run'[p].pc = "stat" /\ run'[p].mod = run[p].mod /\ run'[p].revs = run[p].revs
            /\ run'[p].got = work /\ run'[p].read = Stamps(f)
        BY <2>2, <3>1, <3>2 DEF Started, Fields
      <3>4. CurrentFile(p)' = f
        BY <2>3, <3>1, <3>3 DEF CurrentFile, Module, Manifest, sources
      <3>5. Stale(ameta[f].deps) \/ ameta[f].by # p
        BY <2>1, <3>1 DEF CacheInv, Filled, Filler
      <3>6. Stats(Stamps(f), f) /\ Knows(work, Stamps(f), f)
        BY <2>5, <3>1, StampsFacts
      <3>7. Stats(run'[p].read, f) /\ Knows(run'[p].got, run'[p].read, f)
        BY <3>3, <3>6
      <3>8. Filler(p, f)'
        BY <2>3, <3>3, <3>5, <3>7 DEF Filler, Stale, Stats, Knows, TextAt, Revisions, sources, cache
      <3>9. Filled(p)'
        BY <3>4, <3>8 DEF Filled
      <3>. QED
        BY <2>3, <3>2, <3>9, OneFills
    <2>. QED
      BY <1>4, <2>4, <2>5 DEF runClangAST, Becomes
  <1>5. ASSUME NEW p \in Proc, statASTCacheDeps(p) PROVE CacheInv'
    <2>. DEFINE s == [run[p] EXCEPT !.deps = Stamps(CurrentFile(p)), !.pc = "data"]
    <2>1. run[p].tool # "idle" /\ run[p].pc = "stat" /\ run[p].pc \in Parsing /\ run[p].pc \in Filling
      BY <1>5 DEF statASTCacheDeps, At, Parsing, Filling
    <2>2. Started(run[p])
      BY <2>1, AtRuns
    <2>3. UNCHANGED <<sources, cache>>
      BY <1>5 DEF statASTCacheDeps
    <2>4. CASE run' = [run EXCEPT ![p] = TakeResult(run[p], run[p].got)]
      BY <1>a, <2>2, <2>3, <2>4, LeavesFilling
    <2>5. CASE run' = [run EXCEPT ![p] = s]
      <3>1. PICK f \in Headers : f = CurrentFile(p)
        BY <2>1, FileFacts
      <3>2. run'[p] = s /\ \A q \in Proc \ {p} : run'[q] = run[q]
        BY <1>0, <2>5 DEF RunsOK
      <3>3. /\ run'[p].pc = "data" /\ run'[p].mod = run[p].mod /\ run'[p].revs = run[p].revs
            /\ run'[p].got = run[p].got /\ run'[p].read = run[p].read /\ run'[p].deps = Stamps(f)
        BY <2>2, <3>1, <3>2 DEF Started, Fields
      <3>4. CurrentFile(p)' = f
        BY <2>3, <3>1, <3>3 DEF CurrentFile, Module, Manifest, sources
      <3>5. Filler(p, f)
        BY <2>1, <3>1 DEF CacheInv, Filled
      <3>6. Stats(Stamps(f), f) /\ Stamps(f) # NoDeps
        BY <3>1, StampsFacts
      <3>7. Stats(run'[p].deps, f) /\ run'[p].deps # NoDeps
        BY <3>3, <3>6
      <3>8. Filler(p, f)'
        BY <2>1, <2>3, <3>3, <3>5, <3>7 DEF Filler, Stale, Stats, Knows, TextAt, Revisions, sources, cache
      <3>9. Filled(p)'
        BY <3>4, <3>8 DEF Filled
      <3>. QED
        BY <2>3, <3>2, <3>9, OneFills
    <2>. QED
      BY <1>5, <2>4, <2>5 DEF statASTCacheDeps, Becomes
  <1>6. ASSUME NEW p \in Proc, WriteData(p) PROVE CacheInv'
    <2>1. run[p].tool # "idle" /\ run[p].pc = "data" /\ run[p].pc \in Parsing /\ run[p].pc \in Filling
      BY <1>6 DEF WriteData, At, Parsing, Filling
    <2>2. Started(run[p]) /\ run[p].got \in Revisions
      BY <2>1, AtRuns DEF Underway, Filling
    <2>3. UNCHANGED <<sources, ameta, torn>>
      BY <1>6 DEF WriteData
    <2>4. PICK f \in Headers : f = CurrentFile(p)
      BY <2>1, FileFacts
    <2>5. Filler(p, f)
      BY <2>1, <2>4 DEF CacheInv, Filled
    <2>6. run'[p] = [run[p] EXCEPT !.pc = "meta"] /\ \A q \in Proc \ {p} : run'[q] = run[q]
      BY <1>0, <1>6 DEF WriteData, Becomes, RunsOK
    <2>7. /\ run'[p].pc = "meta" /\ run'[p].mod = run[p].mod /\ run'[p].revs = run[p].revs
          /\ run'[p].got = run[p].got /\ run'[p].read = run[p].read /\ run'[p].deps = run[p].deps
      BY <2>2, <2>6 DEF Started, Fields
    <2>8. CurrentFile(p)' = f
      BY <2>3, <2>4, <2>7 DEF CurrentFile, Module, Manifest, sources
    <2>9. adata'[f] = [rev |-> run[p].got, by |-> p] /\ \A g \in Headers \ {f} : adata'[g] = adata[g]
      BY <1>0, <1>6, <2>4 DEF WriteData, CacheOK
    <2>10. run[p].got # 0
      BY <1>0, <2>2, WorldFacts
    <2>11. ASSUME NEW g \in Headers PROVE EntryOK(g)'
      <3>1. EntryOK(g)
        BY DEF CacheInv
      <3>2. CASE g # f
        BY <2>3, <2>9, <3>1, <3>2 DEF EntryOK, Stats, Stale, Knows, Raced, TextAt, Revisions, sources
      <3>3. CASE g = f
        <4>1. adata'[f].by = p /\ adata'[f].rev # 0
          BY <2>9, <2>10
        <4>2. ameta[f].by = p => Stale(ameta[f].deps)
          BY <2>5 DEF Filler
        <4>. QED
          BY <2>3, <3>1, <3>3, <4>1, <4>2 DEF EntryOK, Stats, Stale, Raced, sources
      <3>. QED
        BY <3>2, <3>3
    <2>12. Filled(p)'
      <3>1. Filler(p, f)'
        BY <2>1, <2>3, <2>5, <2>7, <2>9, <2>10 DEF Filler, Stale, Stats, Knows, TextAt, Revisions, sources
      <3>. QED
        BY <2>8, <3>1 DEF Filled
    <2>13. ASSUME NEW q \in Proc \ {p} PROVE Filled(q)'
      <3>1. \A g \in Headers : adata'[g] = adata[g] \/ (adata'[g].by # q /\ adata'[g].rev # 0)
        BY <2>9, <2>10
      <3>. QED
        BY <2>3, <2>6, <3>1, FillerStays DEF CacheInv
    <2>. QED
      BY <2>3, <2>11, <2>12, <2>13 DEF CacheInv, Headers, sources
  <1>7. ASSUME NEW p \in Proc, WriteMeta(p) PROVE CacheInv'
    <2>1. run[p].tool # "idle" /\ run[p].pc = "meta" /\ run[p].pc \in Parsing /\ run[p].pc \in Filling
      BY <1>7 DEF WriteMeta, At, Parsing, Filling
    <2>2. Started(run[p])
      BY <2>1, AtRuns
    <2>3. UNCHANGED <<sources, adata>>
      BY <1>7 DEF WriteMeta
    <2>4. PICK f \in Headers : f = CurrentFile(p)
      BY <2>1, FileFacts
    <2>5. Filler(p, f)
      BY <2>1, <2>4 DEF CacheInv, Filled
    <2>6. run'[p] = TakeResult(run[p], run[p].got) /\ \A q \in Proc \ {p} : run'[q] = run[q]
      BY <1>0, <1>7 DEF WriteMeta, Becomes, RunsOK
    <2>7. run'[p].pc \notin Filling
      BY <2>2, <2>6, LeavesFilling
    <2>8. ameta'[f] = [deps |-> run[p].deps, by |-> p] /\ \A g \in Headers \ {f} : ameta'[g] = ameta[g]
      BY <1>0, <1>7, <2>4 DEF WriteMeta, CacheOK
    <2>9. torn' = IF run[p].deps = run[p].read THEN torn \ {f} ELSE torn \cup {f}
      BY <1>7, <2>4 DEF WriteMeta
    <2>10. ASSUME NEW g \in Headers PROVE EntryOK(g)'
      <3>1. EntryOK(g)
        BY DEF CacheInv
      <3>2. CASE g # f
        BY <2>3, <2>8, <2>9, <3>1, <3>2 DEF EntryOK, Stats, Stale, Knows, Raced, TextAt, Revisions, sources
      <3>3. CASE g = f
        <4>1. Stats(run[p].deps, f) /\ adata[f].rev # 0 /\ Knows(run[p].got, run[p].read, f)
              /\ (adata[f].by = p => adata[f].rev = run[p].got)
          BY <2>1, <2>5 DEF Filler
        <4>2. ASSUME f \notin torn', ~Raced(f)' PROVE Knows(adata[f].rev, ameta'[f].deps, f)
          BY <2>3, <2>8, <2>9, <4>1, <4>2 DEF Raced
        <4>. QED
          BY <2>3, <2>8, <3>3, <4>1, <4>2 DEF EntryOK, Stats, Knows, TextAt, Revisions, sources
      <3>. QED
        BY <3>2, <3>3
    <2>11. ASSUME NEW q \in Proc PROVE Filled(q)'
      <3>1. CASE q = p
        BY <2>7, <3>1 DEF Filled
      <3>2. CASE q # p
        <4>1. \A g \in Headers : ameta'[g] = ameta[g] \/ ameta'[g].by # q
          BY <2>8, <3>2
        <4>. QED
          BY <2>3, <2>6, <3>2, <4>1, FillerStays DEF CacheInv
      <3>. QED
        BY <3>1, <3>2
    <2>. QED
      BY <2>3, <2>10, <2>11 DEF CacheInv, Headers, sources
  <1>8. ASSUME NEW p \in Proc, NEW files, NEW r, r.tool = "idle" \/ r.pc \notin Filling,
               r = Idle \/ DOMAIN r = Fields,
               Put(p, files, r), UNCHANGED <<sources, cache>>
        PROVE  CacheInv'
    <2>1. \/ run' = [Disturb(run) EXCEPT ![p] = r]
          \/ r.tool = "check" /\ run' = [run EXCEPT ![p] = [r EXCEPT !.out = files ++ @]]
      <3>1. CASE r.tool = "check"
        BY <1>8, <3>1 DEF Put
      <3>2. CASE r.tool # "check"
        BY <1>8, <3>2 DEF Put
      <3>. QED
        BY <3>1, <3>2
    <2>2. ASSUME r.tool = "check" PROVE [r EXCEPT !.out = files ++ @].pc \notin Filling
      <3>1. DOMAIN r = Fields
        BY <1>8, <2>2 DEF Idle
      <3>2. [r EXCEPT !.out = files ++ @].pc = r.pc
        BY <3>1 DEF Fields
      <3>. QED
        BY <1>8, <2>2, <3>2
    <2>. QED
      BY <1>8, <1>a, <2>1, <2>2
  <1>9. ASSUME NEW p \in Proc, WriteHeader(p) PROVE CacheInv'
    <2>1. Started(run[p])
      BY <1>9, AtRuns DEF WriteHeader, At
    <2>2. Started([run[p] EXCEPT !.ok = FALSE])
      BY <2>1 DEF Started, Fields
    <2>3. [run[p] EXCEPT !.pc = "impl"].pc \notin Filling /\ DOMAIN [run[p] EXCEPT !.pc = "impl"] = Fields
      BY <2>1 DEF Started, Fields, Filling
    <2>4. UNCHANGED <<sources, cache>>
      BY <1>9 DEF WriteHeader
    <2>5. \/ run' = [run EXCEPT ![p] = NextModule([run[p] EXCEPT !.ok = FALSE])]
          \/ \E files : Put(p, files, [run[p] EXCEPT !.pc = "impl"])
      BY <1>9 DEF WriteHeader, Becomes
    <2>. QED
      BY <1>a, <1>8, <2>2, <2>3, <2>4, <2>5, LeavesFilling
  <1>10. ASSUME NEW p \in Proc, WriteImpl(p) PROVE CacheInv'
    <2>1. Started(run[p]) /\ Loads(Manifest)
      BY <1>10, AtRuns DEF WriteImpl, At
    <2>2. \E files : Put(p, files, NextModule(run[p]))
      BY <1>10 DEF WriteImpl
    <2>3. DOMAIN NextModule(run[p]) = Fields
      BY <1>0, <2>1, NextModuleRuns DEF Underway
    <2>4. UNCHANGED <<sources, cache>>
      BY <1>10 DEF WriteImpl
    <2>. QED
      BY <1>8, <2>1, <2>2, <2>3, <2>4, LeavesFilling
  <1>11. ASSUME NEW p \in Proc, WriteSupport(p) PROVE CacheInv'
    <2>1. Started(run[p])
      BY <1>11, AtRuns DEF WriteSupport, At
    <2>2. [run[p] EXCEPT !.pc = "format"].pc \notin Filling /\ DOMAIN [run[p] EXCEPT !.pc = "format"] = Fields
      BY <2>1 DEF Started, Fields, Filling
    <2>3. \E files : Put(p, files, IF run[p].ok THEN [run[p] EXCEPT !.pc = "format"] ELSE Idle)
      BY <1>11 DEF WriteSupport
    <2>4. UNCHANGED <<sources, cache>>
      BY <1>11 DEF WriteSupport
    <2>. QED
      BY <1>8, <2>2, <2>3, <2>4 DEF Idle
  <1>12. ASSUME NEW p \in Proc, Format(p) PROVE CacheInv'
    <2>1. Started(run[p])
      BY <1>12, AtRuns DEF Format, At
    <2>2. [run[p] EXCEPT !.pc = "gates"].pc \notin Filling /\ DOMAIN [run[p] EXCEPT !.pc = "gates"] = Fields
      BY <2>1 DEF Started, Fields, Filling
    <2>3. \E files : Put(p, files, IF run[p].tool = "check" THEN [run[p] EXCEPT !.pc = "gates"] ELSE Idle)
      BY <1>12 DEF Format
    <2>4. UNCHANGED <<sources, cache>>
      BY <1>12 DEF Format
    <2>. QED
      BY <1>8, <2>2, <2>3, <2>4 DEF Idle
  <1>13. ASSUME NEW p \in Proc, Verdict(p) \/ Kill(p) PROVE CacheInv'
    BY <1>13, <1>a DEF Verdict, Kill, Becomes, Idle
  <1>14. ASSUME WriteLock \/ Build \/ Generate_purego \/ checkDir PROVE CacheInv'
    BY <1>14, CacheUnmoved DEF WriteLock, Build, Generate_purego, checkDir
  <1>15. ASSUME NEW rev \in DOMAIN world.text, Checkout(rev) PROVE CacheInv'
    <2>1. world' = world /\ pol' = pol /\ UNCHANGED cache /\ run' = Disturb(run) /\ work' = rev
      BY <1>15 DEF Checkout
    <2>2. \A d \in {Base} \cup Headers :
            (stamp'[d] = stamp[d] /\ TextAt(work, d)' = TextAt(work, d)) \/ stamp'[d] = edits + 1
      <3>1. DOMAIN stamp = {Base} \cup Headers
        BY <1>0 DEF WorldOK
      <3>. QED
        BY <1>15, <2>1, <3>1 DEF Checkout, Touch, Files, TextAt
    <2>3. \A f \in Headers : \A deps : Stats(deps, f) => Stats(deps, f)' /\ (Stale(deps) => Stale(deps)')
      BY <2>2, StaleStays
    <2>4. \A f \in Headers : \A deps, r : Stats(deps, f) /\ Knows(r, deps, f) => Knows(r, deps, f)'
      BY <2>1, <2>2, KnowsStays
    <2>5. ASSUME NEW f \in Headers PROVE EntryOK(f)'
      <3>1. EntryOK(f)
        BY DEF CacheInv
      <3>. QED
        BY <2>1, <2>3, <2>4, <3>1 DEF EntryOK, Raced, cache
    <2>6. ASSUME NEW q \in Proc, run'[q].tool # "idle", run'[q].pc \in Filling PROVE Filler(q, CurrentFile(q))'
      <3>1. run[q].tool # "idle" /\ run'[q] = [run[q] EXCEPT !.clean = FALSE]
        BY <2>1, <2>6 DEF Disturb, Idle
      <3>2. DOMAIN run[q] = Fields
        BY <3>1, AtRuns DEF Underway
      <3>3. /\ run[q].pc = run'[q].pc /\ run[q].mod = run'[q].mod
            /\ run[q].revs = run'[q].revs /\ run[q].got = run'[q].got
            /\ run[q].read = run'[q].read /\ run[q].deps = run'[q].deps
        BY <3>1, <3>2 DEF Fields
      <3>4. PICK f \in Headers : f = CurrentFile(q)
        BY <2>6, <3>1, <3>3, FileFacts DEF Parsing, Filling
      <3>5. CurrentFile(q)' = f
        BY <2>1, <3>3, <3>4 DEF CurrentFile, Module, Manifest
      <3>6. Filler(q, f)
        BY <2>6, <3>1, <3>3, <3>4 DEF CacheInv, Filled
      <3>7. Stats(ameta[f].deps, f)
        BY DEF CacheInv, EntryOK
      <3>8. Filler(q, f)'
        BY <2>1, <2>3, <2>4, <2>6, <3>3, <3>6, <3>7 DEF Filler, cache
      <3>. QED
        BY <3>5, <3>8
    <2>. QED
      BY <2>1, <2>5, <2>6 DEF CacheInv, Filled, Headers
  <1>16. ASSUME UNCHANGED <<world, work, stamp, cache, run>>, Quiet PROVE CacheInv'
    <2>1. \A f \in Headers : EntryOK(f)'
      BY <1>16 DEF CacheInv, EntryOK, Stats, Stale, Knows, Raced, TextAt, Revisions, cache
    <2>2. \A q \in Proc : Filled(q)'
      BY <1>16 DEF Quiet, Filled
    <2>. QED
      BY <1>16, <2>1, <2>2 DEF CacheInv, Headers
  <1>17. ASSUME NEW i \in DOMAIN world.policy, EditPolicy(i) PROVE CacheInv'
    BY <1>16, <1>17 DEF EditPolicy
  <1>18. ASSUME NEW h, HandEdit(h) PROVE CacheInv'
    BY <1>16, <1>18 DEF HandEdit
  <1>. QED
    BY <1>1, <1>2, <1>3, <1>4, <1>5, <1>6, <1>7, <1>9, <1>10, <1>11, <1>12, <1>13, <1>14, <1>15, <1>17, <1>18
    DEF Next

LEMMA CacheInit == ASSUME Init PROVE CacheInv
  <1>1. TypeInv
    BY TypeInit
  <1>2. \A f \in Headers : EntryOK(f)
    BY DEF Init, Headers, EntryOK, Stats, Stale, NoDeps
  <1>3. \A q \in Proc : ~(run[q].tool # "idle")
    BY DEF Init, Idle
  <1>. QED
    BY <1>2, <1>3 DEF CacheInv, Filled

LEMMA RepositoryCache == Spec => [](TypeInv /\ CacheInv)
  <1>1. TypeInv /\ CacheInv /\ UNCHANGED vars => CacheInv'
    BY CacheUnmoved DEF vars
  <1>. QED
    BY TypeInit, TypeStep, CacheInit, CacheStep, <1>1, RepositoryTypes, PTL DEF Spec

LEMMA FreshEntries == ASSUME TypeInv, CacheInv PROVE CacheFresh
  <1>. SUFFICES ASSUME NEW f \in DOMAIN adata, ~Missing(f), Hit(f), f \notin torn, ~Raced(f)
                PROVE  ParsedAt(adata[f].rev, f) = ParsedAt(work, f)
    BY DEF CacheFresh
  <1>1. f \in Headers /\ f # Base /\ f \in DOMAIN world.text[work]
    BY WorldFacts DEF TypeInv, CacheOK, Missing
  <1>2. ~Stale(ameta[f].deps)
    BY DEF Hit, astCacheDepsFresh, Stale
  <1>3. Knows(adata[f].rev, ameta[f].deps, f)
    BY <1>1, <1>2 DEF CacheInv, EntryOK
  <1>4. \A d \in {f, Base} : TextAt(adata[f].rev, d) = TextAt(work, d)
    BY <1>2, <1>3 DEF Knows, Stale
  <1>5. world.text[adata[f].rev][f] = world.text[work][f] /\ world.alias[adata[f].rev] = world.alias[work]
    BY <1>1, <1>3, <1>4 DEF TextAt, Knows
  <1>6. world.ast[adata[f].rev][f] = world.ast[work][f]
    <2>1. Texts(world) /\ work \in DOMAIN world.text
      BY WorldFacts DEF TypeInv, WorldOK, Revisions
    <2>2. adata[f].rev \in DOMAIN world.text /\ f \in DOMAIN world.text[adata[f].rev]
      BY <1>3 DEF Knows, Revisions
    <2>. QED
      BY <1>1, <1>5, <2>1, <2>2 DEF Texts
  <1>. QED
    BY <1>5, <1>6 DEF ParsedAt

\* A hit of the AST cache gives what parsing the header would give now, for any
\* number of concurrent runs, edits between and during them and kills anywhere, when
\* the stats are of the text that was parsed and one run wrote both files of the entry
\* (readCachedParseResult, astCacheDepsFresh).
THEOREM CacheIsFresh == Spec => []CacheFresh
  BY RepositoryCache, FreshEntries, PTL

(***************************************************************************)
(* What has passed is about files that have not changed since.             *)
(***************************************************************************)
BothBound == bind = [called |-> Bindings(lock), registered |-> Bindings(lock)]

\* What a step that gives no verdict leaves of what has passed.
PassedKept ==
  /\ "check" \in passed' => "check" \in passed /\ UNCHANGED <<world, pol, work, tree, lock, tu>>
  /\ "parse" \in passed' => "parse" \in passed /\ UNCHANGED <<world, pol, work>>
  /\ "symbols" \in passed' => "symbols" \in passed /\ UNCHANGED <<lock, lib>>
  /\ "bind" \in passed' => ("bind" \in passed \/ BothBound) /\ UNCHANGED <<lock, bind>>

LEMMA PassedSteps ==
  ASSUME Next
  PROVE  PassedKept \/ \E p \in Proc : Verdict(p)
  <1>1. ASSUME NEW p, NEW files, NEW r, Put(p, files, r), UNCHANGED <<sources, lock, tu, lib, bind>>
        PROVE  PassedKept
    <2>1. (tree' = tree /\ passed' = passed) \/ passed' = {}
      <3>1. CASE r.tool = "check"
        BY <1>1, <3>1 DEF Put
      <3>2. CASE r.tool # "check"
        BY <1>1, <3>2 DEF Put
      <3>. QED
        BY <3>1, <3>2
    <2>. QED
      BY <1>1, <2>1 DEF PassedKept, sources
  <1>2. ASSUME UNCHANGED <<sources, products, passed>> PROVE PassedKept
    BY <1>2 DEF PassedKept, sources, products
  <1>3. ASSUME NEW p \in Proc, NEW tool, Start(p, tool) PROVE PassedKept
    BY <1>2, <1>3 DEF Start
  <1>4. ASSUME NEW p \in Proc, HeaderMissing(p) \/ readCachedParseResult(p) \/ runClangAST(p) \/ statASTCacheDeps(p)
                                 \/ WriteData(p) \/ WriteMeta(p) \/ Kill(p)
        PROVE  PassedKept
    <2>1. UNCHANGED <<sources, products, passed>>
      BY <1>4 DEF HeaderMissing, readCachedParseResult, runClangAST, statASTCacheDeps, WriteData, WriteMeta, Kill
    <2>. QED
      BY <1>2, <2>1
  <1>5. ASSUME NEW p \in Proc, WriteHeader(p) PROVE PassedKept
    <2>1. UNCHANGED <<sources, lock, tu, lib, bind>>
      BY <1>5 DEF WriteHeader
    <2>2. UNCHANGED <<tree, passed>> \/ \E files, r : Put(p, files, r)
      BY <1>5 DEF WriteHeader
    <2>. QED
      BY <1>1, <1>2, <2>1, <2>2 DEF products
  <1>6. ASSUME NEW p \in Proc, WriteImpl(p) \/ WriteSupport(p) \/ Format(p) PROVE PassedKept
    <2>1. UNCHANGED <<sources, lock, tu, lib, bind>>
      BY <1>6 DEF WriteImpl, WriteSupport, Format
    <2>2. \E files, r : Put(p, files, r)
      <3>1. CASE WriteImpl(p)
        BY <3>1 DEF WriteImpl
      <3>2. CASE WriteSupport(p)
        BY <3>2 DEF WriteSupport
      <3>3. CASE Format(p)
        BY <3>3 DEF Format
      <3>. QED
        BY <1>6, <3>1, <3>2, <3>3
    <2>. QED
      BY <1>1, <2>1, <2>2
  <1>7. ASSUME WriteLock PROVE PassedKept
    BY <1>7 DEF WriteLock, PassedKept, sources
  <1>8. ASSUME Build \/ Generate_purego \/ checkDir PROVE PassedKept
    BY <1>8 DEF Build, Generate_purego, checkDir, BothBound, PassedKept, sources, products
  <1>9. ASSUME passed' = {} PROVE PassedKept
    BY <1>9 DEF PassedKept
  <1>10. ASSUME NEW rev, Checkout(rev) PROVE passed' = {}
    BY <1>10 DEF Checkout
  <1>11. ASSUME NEW i, EditPolicy(i) PROVE passed' = {}
    BY <1>11 DEF EditPolicy
  <1>12. ASSUME NEW h, HandEdit(h) PROVE passed' = {}
    BY <1>12 DEF HandEdit
  <1>. QED
    BY <1>3, <1>4, <1>5, <1>6, <1>7, <1>8, <1>9, <1>10, <1>11, <1>12 DEF Next

(***************************************************************************)
(* The bindings of the Go wrapper and the symbols of the library.          *)
(***************************************************************************)
BindInv ==
  /\ "bind" \in passed => BothBound
  /\ "symbols" \in passed => Built /\ SymbolsAgree

LEMMA BindStep ==
  ASSUME BindInv, [Next]_vars
  PROVE  BindInv'
  <1>1. CASE PassedKept
    BY <1>1 DEF BindInv, PassedKept, BothBound, Built, SymbolsAgree
  <1>2. ASSUME NEW p \in Proc, Verdict(p) PROVE BindInv'
    <2>1. "bind" \in passed' => "bind" \in passed
      BY <1>2 DEF Verdict
    <2>2. "symbols" \in passed' => "symbols" \in passed \/ (Built /\ SymbolsAgree)
      BY <1>2 DEF Verdict, CheckAccepts
    <2>3. UNCHANGED <<lock, lib, bind>>
      BY <1>2 DEF Verdict, products
    <2>. QED
      BY <2>1, <2>2, <2>3 DEF BindInv, BothBound, Built, SymbolsAgree
  <1>3. CASE UNCHANGED vars
    BY <1>3 DEF BindInv, BothBound, Built, SymbolsAgree, vars, products
  <1>. QED
    BY <1>1, <1>2, <1>3, PassedSteps

LEMMA BoundNames ==
  ASSUME BindInv
  PROVE  BindingsResolve
  <1>. SUFFICES ASSUME Passed({"check", "symbols", "bind"})
                PROVE  bind.called \subseteq bind.registered /\ bind.registered \subseteq lib["jacclc"]
    BY DEF BindingsResolve
  <1>1. BothBound /\ SymbolsAgree
    BY DEF BindInv, Passed
  <1>2. {f.name : f \in lock["jacclc"].functions} \subseteq lib["jacclc"]
    BY <1>1 DEF SymbolsAgree, Targets, checkTarget
  <1>. QED
    BY <1>1, <1>2 DEF BothBound, Bindings

\* Whatever is edited, generated, locked or built in between: when check with the
\* libraries and the -check of the purego generator have passed, every C function that
\* the Go wrapper calls is registered and is a symbol of the library that was built
\* (symbols.Report, checkDir).
THEOREM EveryBindingResolves == Spec => []BindingsResolve
  <1>1. Init => BindInv
    BY DEF Init, BindInv
  <1>. QED
    BY <1>1, BindStep, BoundNames, PTL DEF Spec

(***************************************************************************)
(* What the generator makes of the present headers.                        *)
(***************************************************************************)
Present(m) == ModuleResult(Manifest, work, m)
Expected == Rendered(Manifest, work, LAMBDA m : SetToSeq(ModuleResult(Manifest, work, m).enums))
Kept(p) == HandKept(Manifest)[p]

LEMMA HandKeptAt ==
  ASSUME NEW manifest
  PROVE  /\ DOMAIN HandKept(manifest) = {mlx_h, jaccl_cpp}
         /\ HandKept(manifest)[mlx_h] = HandWritten(manifest.umbrella, {})
         /\ HandKept(manifest)[jaccl_cpp] = HandWritten({}, manifest.implementation)
  BY DEF HandKept, ++, mlx_h, jaccl_cpp

LEMMA ExpectedAt ==
  ASSUME WorldOK
  PROVE  /\ DOMAIN Expected = generatedOutputs(Manifest) \cup {mlx_h, jaccl_cpp}
         /\ \A m \in Modules(Manifest) :
              /\ Expected[HeaderOf(m)] = Formatted(Generate(Manifest, Present(m), SetToSeq(Present(m).enums)))
              /\ Expected[ImplOf(m)] = Formatted(Generate(Manifest, Present(m), << >>))
         /\ \A m \in Standalone : /\ Expected[HeaderOf(m)] = Formatted(standaloneGenerators)
                                  /\ Expected[ImplOf(m)] = Formatted(standaloneGenerators)
         /\ \A p \in GeneratedHeaders(Manifest) : Expected[p] = Formatted(RenderHeader(Manifest.spec))
         /\ \A p \in {mlx_h, jaccl_cpp} : Expected[p] = Kept(p)
  <1>. DEFINE At1(p) == CASE p[1] \in Modules(Manifest) /\ p[2] = "h" ->
                               Formatted(Generate(Manifest, Present(p[1]), SetToSeq(Present(p[1]).enums)))
                          [] p[1] \in Modules(Manifest) /\ p[2] = "cpp" ->
                               Formatted(Generate(Manifest, Present(p[1]), << >>))
                          [] p[1] \in Standalone -> Formatted(standaloneGenerators)
                          [] p \in GeneratedHeaders(Manifest) -> Formatted(RenderHeader(Manifest.spec))
                          [] OTHER -> HandKept(Manifest)[p]
  <1>1. Modules(Manifest) \cap ({"mlx", "jaccl"} \cup Standalone) = {}
    BY WorldFacts DEF Policies, WorldOK, Manifest
  <1>2. Expected = [p \in generatedOutputs(Manifest) \cup DOMAIN HandKept(Manifest) |-> At1(p)]
    BY DEF Expected, Rendered, Render, Present
  <1>. HIDE DEF At1
  <1>3. DOMAIN HandKept(Manifest) = {mlx_h, jaccl_cpp}
    BY HandKeptAt
  <1>4. DOMAIN Expected = generatedOutputs(Manifest) \cup {mlx_h, jaccl_cpp}
    BY <1>2, <1>3
  <1>5. ASSUME NEW m \in Modules(Manifest)
        PROVE  /\ Expected[HeaderOf(m)] = Formatted(Generate(Manifest, Present(m), SetToSeq(Present(m).enums)))
               /\ Expected[ImplOf(m)] = Formatted(Generate(Manifest, Present(m), << >>))
    <2>1. HeaderOf(m) \in DOMAIN Expected /\ ImplOf(m) \in DOMAIN Expected
      BY <1>4 DEF generatedOutputs, PlannedOutputs
    <2>2. m \notin Standalone
      BY <1>1
    <2>3. HeaderOf(m) \notin GeneratedHeaders(Manifest) /\ ImplOf(m) \notin GeneratedHeaders(Manifest)
      BY <1>1 DEF GeneratedHeaders, jaccl_h, HeaderOf, ImplOf
    <2>4. /\ HeaderOf(m)[1] = m /\ HeaderOf(m)[2] = "h" /\ ImplOf(m)[1] = m /\ ImplOf(m)[2] = "cpp"
          /\ "h" # "cpp"
      BY DEF HeaderOf, ImplOf
    <2>5. At1(HeaderOf(m)) = Formatted(Generate(Manifest, Present(m), SetToSeq(Present(m).enums)))
      BY <2>2, <2>3, <2>4 DEF At1
    <2>6. At1(ImplOf(m)) = Formatted(Generate(Manifest, Present(m), << >>))
      BY <2>2, <2>3, <2>4 DEF At1
    <2>. QED
      BY <1>2, <1>4, <2>1, <2>5, <2>6
  <1>6. ASSUME NEW m \in Standalone
        PROVE  /\ Expected[HeaderOf(m)] = Formatted(standaloneGenerators)
               /\ Expected[ImplOf(m)] = Formatted(standaloneGenerators)
    <2>1. HeaderOf(m) \in DOMAIN Expected /\ ImplOf(m) \in DOMAIN Expected
      BY <1>4 DEF generatedOutputs, PlannedOutputs
    <2>2. m \notin Modules(Manifest)
      BY <1>1
    <2>3. HeaderOf(m) \notin GeneratedHeaders(Manifest) /\ ImplOf(m) \notin GeneratedHeaders(Manifest)
      BY DEF GeneratedHeaders, jaccl_h, HeaderOf, ImplOf, Standalone
    <2>4. HeaderOf(m)[1] = m /\ ImplOf(m)[1] = m
      BY DEF HeaderOf, ImplOf
    <2>5. At1(HeaderOf(m)) = Formatted(standaloneGenerators) /\ At1(ImplOf(m)) = Formatted(standaloneGenerators)
      BY <2>2, <2>3, <2>4 DEF At1
    <2>. QED
      BY <1>2, <1>4, <2>1, <2>5
  <1>7. ASSUME NEW p \in GeneratedHeaders(Manifest)
        PROVE  Expected[p] = Formatted(RenderHeader(Manifest.spec))
    <2>1. p \in DOMAIN Expected
      BY <1>4 DEF generatedOutputs
    <2>2. p[1] = "jaccl" /\ "jaccl" \notin Standalone
      BY DEF GeneratedHeaders, jaccl_h, Standalone
    <2>3. p[1] \notin Modules(Manifest) /\ p[1] \notin Standalone
      BY <1>1, <2>2
    <2>4. At1(p) = Formatted(RenderHeader(Manifest.spec))
      BY <2>3 DEF At1
    <2>. QED
      BY <1>2, <1>4, <2>1, <2>4
  <1>8. ASSUME NEW p \in {mlx_h, jaccl_cpp} PROVE Expected[p] = Kept(p)
    <2>1. p[1] \in {"mlx", "jaccl"} /\ {"mlx", "jaccl"} \cap Standalone = {}
      BY DEF mlx_h, jaccl_cpp, Standalone
    <2>2. p[1] \notin Modules(Manifest) /\ p[1] \notin Standalone
      BY <1>1, <2>1
    <2>3. p \notin GeneratedHeaders(Manifest)
      BY DEF GeneratedHeaders, jaccl_h, mlx_h, jaccl_cpp
    <2>4. At1(p) = Kept(p)
      BY <2>2, <2>3 DEF At1, Kept
    <2>. QED
      BY <1>2, <1>4, <2>4
  <1>. QED
    BY <1>4, <1>5, <1>6, <1>7, <1>8

\* Two contents are alike whatever the order of the enums and the formatting.
LEMMA ContentFormatted == ASSUME NEW c PROVE Content(Formatted(c)) = Content(c)
  BY DEF Content, Formatted

LEMMA ContentAt ==
  ASSUME NEW c
  PROVE  Content(c) = [x \in DOMAIN c |-> IF x = "formatted" THEN TRUE
                                          ELSE IF x = "enums" THEN ToSet(c.enums) ELSE c[x]]
  BY DEF Content

LEMMA ContentGenerated ==
  ASSUME NEW manifest, NEW result, NEW e, NEW f, ToSet(e) = ToSet(f)
  PROVE  Content(Generate(manifest, result, e)) = Content(Generate(manifest, result, f))
  <1>. DEFINE g(x) == Generate(manifest, result, x)
              fs == UNION {writeFunction(h) : h \in selectFunctions(manifest, result)}
  <1>1. \A x : g(x) = [functions |-> fs, enums |-> x, includes |-> {}, formatted |-> FALSE]
    BY DEF Generate
  <1>. HIDE DEF g, fs
  <1>2. /\ DOMAIN g(e) = DOMAIN g(f) /\ g(e).enums = e /\ g(f).enums = f
        /\ \A x \in DOMAIN g(e) : x # "enums" => g(e)[x] = g(f)[x]
    <2>1. \A x : /\ DOMAIN g(x) = {"functions", "enums", "includes", "formatted"}
                 /\ g(x)["functions"] = fs /\ g(x)["enums"] = x
                 /\ g(x)["includes"] = {} /\ g(x)["formatted"] = FALSE
      BY <1>1
    <2>. QED
      BY <2>1
  <1>3. Content(g(e)) = Content(g(f))
    BY <1>2, ContentAt
  <1>. QED
    BY <1>3 DEF g

\* Every order of a finite set has all of its elements.
LEMMA OrdersHaveAll ==
  ASSUME NEW S, IsFiniteSet(S)
  PROVE  /\ ToSet(SetToSeq(S)) = S
         /\ \A e \in [1..Cardinality(S) -> S] : (\A i, j \in DOMAIN e : e[i] = e[j] => i = j) => ToSet(e) = S
  <1>1. Cardinality(S) \in Nat /\ ExistsBijection(1..Cardinality(S), S)
    BY FS_CardinalityType
  <1>2. PICK f \in Bijection(1..Cardinality(S), S) : TRUE
    BY <1>1 DEF ExistsBijection
  <1>3. f \in [1..Cardinality(S) -> S] /\ IsInjective(f)
    BY <1>2 DEF Bijection, Injection, IsInjective
  <1>4. SetToSeq(S) \in [1..Cardinality(S) -> S] /\ IsInjective(SetToSeq(S))
    BY <1>3 DEF SetToSeq
  <1>5. ASSUME NEW e \in [1..Cardinality(S) -> S], \A i, j \in DOMAIN e : e[i] = e[j] => i = j
        PROVE  ToSet(e) = S
    <2>1. IsFiniteSet(1..Cardinality(S)) /\ Cardinality(1..Cardinality(S)) = Cardinality(S)
      <3>1. 1 \in Int /\ Cardinality(S) \in Nat
        BY <1>1
      <3>. QED
        BY <3>1, FS_Interval
    <2>2. e \in Injection(1..Cardinality(S), S)
      BY <1>5 DEF Injection, IsInjective
    <2>3. e \in Surjection(1..Cardinality(S), S)
      BY <2>1, <2>2, FS_Injection
    <2>. QED
      BY <2>3 DEF Surjection, ToSet
  <1>. QED
    BY <1>4, <1>5 DEF IsInjective

\* A sequence has finitely many places.
LEMMA PlacesFinite == ASSUME NEW s, s \in Seq(ToSet(s)) PROVE IsFiniteSet(DOMAIN s)
  <1>1. Len(s) \in Nat /\ DOMAIN s = 1..Len(s)
    BY LenProperties
  <1>2. IsFiniteSet(1..Len(s))
    <2>1. 1 \in Int /\ Len(s) \in Int
      BY <1>1
    <2>. QED
      BY <2>1, FS_Interval, Zenon
  <1>. QED
    BY <1>1, <1>2, Zenon

\* A module has as many enums as its headers, which are finite, hold.
LEMMA EnumsFinite ==
  ASSUME WorldOK, NEW headers, headers \in Seq(ToSet(headers)), ToSet(headers) \subseteq DOMAIN world.text[work]
  PROVE  IsFiniteSet(ParseFiles(headers, [i \in DOMAIN headers |-> work]).enums)
  <1>. DEFINE Part(i) == ParsedAt(work, headers[i]).enums
              Parts == {Part(i) : i \in DOMAIN headers}
  <1>1. ASSUME NEW f \in DOMAIN world.text[work] PROVE IsFiniteSet(ParsedAt(work, f).enums)
    <2>. DEFINE nodes == world.ast[work][f]
                S == {i \in {i \in DOMAIN nodes : nodes[i].here} :
                        /\ nodes[i].kind = "enum" /\ nodes[i].name # << >>
                        /\ nodes[i].ns = << >> \/ Head(nodes[i].ns) # "std"}
                g == [i \in S |-> [ns |-> normalizeNamespace(nodes[i].ns), name |-> nodes[i].name]]
                T == {[ns |-> normalizeNamespace(nodes[i].ns), name |-> nodes[i].name] : i \in S}
    <2>1. IsFiniteSet(DOMAIN nodes)
      <3>1. nodes \in Seq(ToSet(nodes))
        BY WorldFacts DEF Texts, WorldOK, Revisions
      <3>. QED
        BY <3>1, PlacesFinite
    <2>2. IsFiniteSet(S)
      BY <2>1, FS_Subset
    <2>3. ParsedAt(work, f).enums = T
      BY DEF ParsedAt, walkAST
    <2>4. g \in Surjection(S, T)
      BY DEF Surjection
    <2>. QED
      BY <2>2, <2>3, <2>4, FS_Surjection
  <1>2. IsFiniteSet(DOMAIN headers)
    BY PlacesFinite
  <1>3. [i \in DOMAIN headers |-> Part(i)] \in Surjection(DOMAIN headers, Parts)
    BY DEF Surjection
  <1>4. IsFiniteSet(Parts)
    BY <1>2, <1>3, FS_Surjection
  <1>5. \A P \in Parts : IsFiniteSet(P)
    BY <1>1 DEF ToSet
  <1>6. ParseFiles(headers, [i \in DOMAIN headers |-> work]).enums = UNION Parts
    BY DEF ParseFiles, mergeParseResult
  <1>. QED
    BY <1>4, <1>5, <1>6, FS_UNION

(***************************************************************************)
(* What an undisturbed run has found out is so now.                        *)
(***************************************************************************)
AsNow(headers, revs) ==
  \A i \in DOMAIN revs : /\ headers[i] \in DOMAIN world.text[work]
                         /\ ParsedAt(revs[i], headers[i]) = ParsedAt(work, headers[i])

\* The results of the first n modules, and that their functions can be selected.
Known(n, parsed) ==
  /\ DOMAIN parsed = {Manifest.modules[i].name : i \in 1..n}
  /\ \A i \in 1..n : /\ ToSet(Manifest.modules[i].headers) \subseteq DOMAIN world.text[work]
                     /\ ParseFiles(Manifest.modules[i].headers, parsed[Manifest.modules[i].name])
                          = Present(Manifest.modules[i].name)
Fits(n) == \A i \in 1..n : FailedKeys(Manifest, Present(Manifest.modules[i].name)) = {}

Checking(r) ==
  /\ CheckInventory(tree, Manifest) /\ CheckInventoryWithGenerated(Manifest)
  /\ \A p \in DOMAIN r.out : Content(r.out[p]) = Content(Expected[p])

\* A run that has parsed n modules and written the headers of k.
Come(r, n, k) ==
  /\ r.ok => Known(n, r.parsed)
  /\ r.tool = "check" => Checking(r) /\ (r.ok => Fits(k))
  /\ r.tool = "parse" => r.ok

Sound(r) ==
  /\ r.pc \in Filling \ {"clang"} =>
       r.got = work /\ HeadersOf(r)[Len(r.revs) + 1] \in DOMAIN world.text[work]
  /\ r.pc \in Parsing \cup Writing => AsNow(HeadersOf(r), r.revs)
  /\ Come(r, IF r.pc \in Parsing THEN r.mod - 1 ELSE r.mod,
             IF r.pc \in Parsing \cup {"header"} THEN r.mod - 1 ELSE r.mod)
  /\ r.pc \in {"format", "gates"} => r.ok
  /\ r.pc \in Ending => r.mod = Len(Manifest.modules)

SoundInv == \A q \in Proc : run[q].tool # "idle" /\ run[q].clean => Sound(run[q])

LEMMA ModuleAt ==
  ASSUME WorldOK, Loads(Manifest), NEW i \in 1..Len(Manifest.modules)
  PROVE  /\ ModuleNamed(Manifest, Manifest.modules[i].name) = Manifest.modules[i]
         /\ Manifest.modules[i].name \in Modules(Manifest)
         /\ \A j \in 1..Len(Manifest.modules) : Manifest.modules[j].name = Manifest.modules[i].name => j = i
  <1>1. DOMAIN Manifest.modules = 1..Len(Manifest.modules)
    BY WorldFacts, LenProperties
  <1>2. \A j \in DOMAIN Manifest.modules : Manifest.modules[j].name = Manifest.modules[i].name => j = i
    BY <1>1 DEF Loads, validate
  <1>3. \A x \in ToSet(Manifest.modules) : x.name = Manifest.modules[i].name => x = Manifest.modules[i]
    BY <1>2 DEF ToSet
  <1>4. Manifest.modules[i] \in ToSet(Manifest.modules)
    BY <1>1 DEF ToSet
  <1>. QED
    BY <1>1, <1>2, <1>3, <1>4 DEF ModuleNamed, Modules

\* A module whose headers have all been read as they are now has the result of now.
LEMMA ModuleRead ==
  ASSUME WorldOK, Loads(Manifest), NEW i \in 1..Len(Manifest.modules), NEW revs \in Seq(Revisions),
         Len(revs) = Len(Manifest.modules[i].headers), AsNow(Manifest.modules[i].headers, revs)
  PROVE  /\ ToSet(Manifest.modules[i].headers) \subseteq DOMAIN world.text[work]
         /\ ParseFiles(Manifest.modules[i].headers, revs) = Present(Manifest.modules[i].name)
         /\ IsFiniteSet(Present(Manifest.modules[i].name).enums)
  <1>. DEFINE headers == Manifest.modules[i].headers
  <1>1. headers \in Seq(ToSet(headers))
    BY WorldFacts, LenProperties
  <1>2. DOMAIN headers = DOMAIN revs
    BY <1>1, LenProperties
  <1>3. ToSet(headers) \subseteq DOMAIN world.text[work]
    BY <1>2 DEF AsNow, ToSet
  <1>4. Present(Manifest.modules[i].name) = ParseFiles(headers, [j \in DOMAIN headers |-> work])
    BY ModuleAt DEF Present, ModuleResult
  <1>5. [j \in DOMAIN headers |-> ParsedAt(revs[j], headers[j])]
          = [j \in DOMAIN headers |-> ParsedAt([k \in DOMAIN headers |-> work][j], headers[j])]
    BY <1>2 DEF AsNow
  <1>6. ParseFiles(headers, revs) = ParseFiles(headers, [j \in DOMAIN headers |-> work])
    BY <1>5 DEF ParseFiles
  <1>. QED
    BY <1>1, <1>3, <1>4, <1>6, EnumsFinite

LEMMA NextModuleSound ==
  ASSUME WorldOK, Loads(Manifest), NEW r, Started(r), Come(r, r.mod, r.mod)
  PROVE  Sound(NextModule(r))
  <1>. DEFINE s == NextModule(r)
  <1>1. s = IF r.mod < Len(Manifest.modules)
            THEN [r EXCEPT !.mod = @ + 1, !.revs = << >>, !.pc = "lookup"]
            ELSE [r EXCEPT !.revs = << >>, !.pc = IF r.tool = "parse" THEN "gates" ELSE "support"]
    BY DEF NextModule
  <1>2. /\ s.tool = r.tool /\ s.ok = r.ok /\ s.revs = << >> /\ s.parsed = r.parsed /\ s.out = r.out
        /\ \/ s.pc = "lookup" /\ s.mod = r.mod + 1
           \/ s.pc = (IF r.tool = "parse" THEN "gates" ELSE "support") /\ s.mod = r.mod
                /\ ~(r.mod < Len(Manifest.modules))
    BY <1>1 DEF Started, Fields
  <1>. SUFFICES Sound(s)
    OBVIOUS
  <1>. HIDE DEF s
  <1>3. AsNow(HeadersOf(s), s.revs)
    BY <1>2 DEF AsNow
  <1>4. r.mod \in Int
    BY DEF Started
  <1>5. CASE s.pc = "lookup" /\ s.mod = r.mod + 1
    <2>1. s.mod - 1 = r.mod
      BY <1>4, <1>5
    <2>2. Come(s, s.mod - 1, s.mod - 1)
      BY <1>2, <2>1 DEF Come, Checking
    <2>3. s.pc = "lookup"
      BY <1>5
    <2>. QED
      BY <1>3, <2>2, <2>3 DEF Sound, Parsing, Filling, Ending
  <1>6. CASE s.pc = (IF r.tool = "parse" THEN "gates" ELSE "support") /\ s.mod = r.mod
               /\ ~(r.mod < Len(Manifest.modules))
    <2>1. Come(s, s.mod, s.mod)
      BY <1>2, <1>6 DEF Come, Checking
    <2>2. s.pc \in {"support", "gates"} /\ (s.pc = "gates" => s.ok)
      BY <1>2, <1>6, <2>1 DEF Come
    <2>3. s.mod = Len(Manifest.modules)
      <3>1. Len(Manifest.modules) \in Nat /\ r.mod \in 1..Len(Manifest.modules)
        BY WorldFacts, LenProperties DEF Started
      <3>. QED
        BY <1>6, <3>1
    <2>. QED
      BY <2>1, <2>2, <2>3 DEF Sound, Parsing, Filling, Writing, Ending
  <1>. QED
    BY <1>2, <1>5, <1>6

LEMMA ModuleFailsSound ==
  ASSUME WorldOK, Loads(Manifest), NEW r, Started(r), r.tool # "parse", r.tool = "check" => Checking(r)
  PROVE  Sound(NextModule([r EXCEPT !.ok = FALSE]))
  <1>. DEFINE s == [r EXCEPT !.ok = FALSE]
  <1>1. Started(s) /\ s.tool = r.tool /\ s.ok = FALSE /\ s.out = r.out
    BY DEF Started, Fields
  <1>. HIDE DEF s
  <1>2. Come(s, s.mod, s.mod)
    BY <1>1 DEF Come, Checking
  <1>3. Sound(NextModule(s))
    BY <1>1, <1>2, NextModuleSound
  <1>. QED
    BY <1>3 DEF s

LEMMA KnownNext ==
  ASSUME WorldOK, Loads(Manifest), NEW n \in 1..Len(Manifest.modules), NEW parsed, Known(n - 1, parsed),
         NEW revs \in Seq(Revisions), Len(revs) = Len(Manifest.modules[n].headers),
         AsNow(Manifest.modules[n].headers, revs)
  PROVE  Known(n, [x \in {Manifest.modules[n].name} |-> revs] ++ parsed)
  <1>. DEFINE name(i) == Manifest.modules[i].name
              more == [x \in {name(n)} |-> revs] ++ parsed
  <1>0. Len(Manifest.modules) \in Nat
    BY WorldFacts, LenProperties
  <1>1. DOMAIN more = {name(n)} \cup DOMAIN parsed /\ more[name(n)] = revs
          /\ \A x \in DOMAIN parsed : x # name(n) => more[x] = parsed[x]
    BY DEF ++
  <1>2. DOMAIN parsed = {name(i) : i \in 1..(n - 1)} /\ 1..n = (1..(n - 1)) \cup {n}
    BY <1>0 DEF Known
  <1>. HIDE DEF more
  <1>3. DOMAIN more = {name(i) : i \in 1..n}
    BY <1>1, <1>2
  <1>4. ASSUME NEW i \in 1..(n - 1)
        PROVE  /\ ToSet(Manifest.modules[i].headers) \subseteq DOMAIN world.text[work]
               /\ ParseFiles(Manifest.modules[i].headers, more[name(i)]) = Present(name(i))
    <2>1. i \in 1..Len(Manifest.modules) /\ i # n
      BY <1>0
    <2>2. name(i) # name(n)
      BY <2>1, ModuleAt
    <2>3. more[name(i)] = parsed[name(i)]
      BY <1>1, <1>2, <2>2
    <2>. QED
      BY <2>3 DEF Known
  <1>5. /\ ToSet(Manifest.modules[n].headers) \subseteq DOMAIN world.text[work]
        /\ ParseFiles(Manifest.modules[n].headers, more[name(n)]) = Present(name(n))
    BY <1>1, ModuleRead
  <1>6. Known(n, more)
    BY <1>2, <1>3, <1>4, <1>5 DEF Known
  <1>. QED
    BY <1>6 DEF more

LEMMA TakeResultSound ==
  ASSUME WorldOK, Loads(Manifest), NEW r, Underway(r), r.pc \in Parsing, Sound(r), NEW rev \in Revisions,
         HeadersOf(r)[Len(r.revs) + 1] \in DOMAIN world.text[work],
         ParsedAt(rev, HeadersOf(r)[Len(r.revs) + 1]) = ParsedAt(work, HeadersOf(r)[Len(r.revs) + 1])
  PROVE  Sound(TakeResult(r, rev))
  <1>. DEFINE m    == Manifest.modules[r.mod]
              next == [r EXCEPT !.revs = Append(@, rev)]
              full == [next EXCEPT !.parsed = [n \in {m.name} |-> next.revs] ++ @]
  <1>0. Len(Manifest.modules) \in Nat /\ DOMAIN Manifest.modules = 1..Len(Manifest.modules)
    BY WorldFacts, LenProperties
  <1>1. /\ DOMAIN next = Fields /\ next.tool = r.tool /\ next.ok = r.ok /\ next.clean = r.clean
        /\ next.mod = r.mod /\ next.revs = Append(r.revs, rev) /\ next.parsed = r.parsed /\ next.out = r.out
        /\ next.pc = r.pc
    BY DEF Underway, Fields
  <1>2. /\ next.revs \in Seq(Revisions) /\ Len(next.revs) = Len(r.revs) + 1
        /\ DOMAIN next.revs = 1..(Len(r.revs) + 1) /\ next.revs[Len(r.revs) + 1] = rev
        /\ \A i \in 1..Len(r.revs) : next.revs[i] = r.revs[i]
        /\ DOMAIN r.revs = 1..Len(r.revs) /\ Len(r.revs) \in Nat
    BY <1>1, AppendProperties, LenProperties DEF Underway
  <1>3. AsNow(m.headers, next.revs)
    BY <1>2 DEF AsNow, Sound, HeadersOf
  <1>4. Come(r, r.mod - 1, r.mod - 1) /\ r.mod \in 1..Len(Manifest.modules) /\ Len(m.headers) \in Nat
          /\ Len(r.revs) < Len(m.headers)
    BY <1>0, WorldFacts, LenProperties DEF Sound, Underway, HeadersOf
  <1>5. /\ full.tool = r.tool /\ full.ok = r.ok /\ full.revs = next.revs /\ full.mod = r.mod /\ full.out = r.out
        /\ full.parsed = [n \in {m.name} |-> next.revs] ++ r.parsed
        /\ DOMAIN full = Fields /\ full.clean = r.clean /\ full.pc = r.pc
    BY <1>1 DEF Fields
  <1>. HIDE DEF next, full
  <1>6. Len(next.revs) = Len(m.headers) /\ r.ok => Known(r.mod, full.parsed)
    BY <1>2, <1>3, <1>4, <1>5, KnownNext DEF Come
  <1>7. CASE Len(next.revs) < Len(m.headers)
    <2>. DEFINE s == [next EXCEPT !.pc = "lookup"]
    <2>1. TakeResult(r, rev) = s
      BY <1>7 DEF TakeResult, next
    <2>2. /\ s.tool = r.tool /\ s.ok = r.ok /\ s.mod = r.mod /\ s.revs = next.revs
          /\ s.parsed = r.parsed /\ s.out = r.out /\ s.pc = "lookup"
      BY <1>1 DEF Fields
    <2>. HIDE DEF s
    <2>3. Come(s, s.mod - 1, s.mod - 1)
      BY <1>4, <2>2 DEF Come, Checking
    <2>4. AsNow(HeadersOf(s), s.revs)
      BY <1>3, <2>2 DEF HeadersOf
    <2>. QED
      BY <2>1, <2>2, <2>3, <2>4 DEF Sound, Parsing, Filling, Ending
  <1>8. CASE ~(Len(next.revs) < Len(m.headers)) /\ r.tool = "parse"
    <2>1. TakeResult(r, rev) = NextModule(full)
      BY <1>8 DEF TakeResult, next, full
    <2>2. Len(next.revs) = Len(m.headers)
      BY <1>2, <1>4, <1>8
    <2>3. Come(full, full.mod, full.mod)
      BY <1>4, <1>5, <1>6, <1>8, <2>2 DEF Come
    <2>4. Started(full)
      BY <1>5 DEF Started, Underway
    <2>. QED
      BY <2>1, <2>3, <2>4, NextModuleSound
  <1>9. CASE ~(Len(next.revs) < Len(m.headers)) /\ r.tool # "parse"
    <2>. DEFINE s == [full EXCEPT !.pc = "header"]
    <2>1. TakeResult(r, rev) = s
      BY <1>9 DEF TakeResult, next, full
    <2>2. Len(next.revs) = Len(m.headers)
      BY <1>2, <1>4, <1>9
    <2>3. /\ s.tool = r.tool /\ s.ok = r.ok /\ s.mod = r.mod /\ s.revs = next.revs
          /\ s.parsed = full.parsed /\ s.out = r.out /\ s.pc = "header"
      BY <1>5 DEF Fields
    <2>. HIDE DEF s
    <2>4. Come(s, s.mod, s.mod - 1)
      BY <1>4, <1>6, <1>9, <2>2, <2>3 DEF Come, Checking
    <2>5. AsNow(HeadersOf(s), s.revs)
      BY <1>3, <2>3 DEF HeadersOf
    <2>. QED
      BY <2>1, <2>3, <2>4, <2>5 DEF Sound, Parsing, Filling, Ending
  <1>. QED
    BY <1>7, <1>8, <1>9

LEMMA SoundKept ==
  ASSUME UNCHANGED <<world, pol, work>>, NEW r, Sound(r), r.tool = "check" => UNCHANGED tree
  PROVE  Sound(r)'
  <1>1. Manifest' = Manifest
    BY DEF Manifest
  <1>2. \A m : Present(m)' = Present(m)
    BY <1>1 DEF Present, ModuleResult, ParseFiles, ParsedAt
  <1>3. Expected' = Expected
    BY <1>1 DEF Expected, Rendered, Render, ModuleResult, ParseFiles, ParsedAt
  <1>4. \A headers, revs : AsNow(headers, revs) => AsNow(headers, revs)'
    BY DEF AsNow, ParsedAt
  <1>5. \A n, parsed : Known(n, parsed) => Known(n, parsed)'
    BY <1>1, <1>2 DEF Known, ParseFiles, ParsedAt
  <1>6. \A n : Fits(n) => Fits(n)'
    BY <1>1, <1>2 DEF Fits
  <1>7. r.tool = "check" /\ Checking(r) => Checking(r)'
    BY <1>1, <1>3 DEF Checking
  <1>8. \A n, k : Come(r, n, k) => Come(r, n, k)'
    BY <1>5, <1>6, <1>7 DEF Come
  <1>9. HeadersOf(r)' = HeadersOf(r)
    BY <1>1 DEF HeadersOf
  <1>. QED
    BY <1>1, <1>4, <1>8, <1>9 DEF Sound

LEMMA OneSound ==
  ASSUME TypeInv, SoundInv, UNCHANGED <<world, pol, work>>, NEW p \in Proc, NEW r,
         r.tool # "idle" /\ r.clean => Sound(r),
         \/ UNCHANGED tree /\ run' = [run EXCEPT ![p] = r]
         \/ (r.tool = "check" => UNCHANGED tree) /\ run' = [Disturb(run) EXCEPT ![p] = r]
  PROVE  SoundInv'
  <1>. SUFFICES ASSUME NEW q \in Proc, run'[q].tool # "idle", run'[q].clean
                PROVE  Sound(run[q])'
    BY DEF SoundInv
  <1>1. run = [x \in Proc |-> run[x]]
    BY DEF TypeInv, RunsOK
  <1>2. CASE q = p
    <2>1. run'[q] = r
      BY <1>1, <1>2 DEF Disturb
    <2>2. Sound(r) /\ (r.tool = "check" => UNCHANGED tree)
      BY <2>1
    <2>3. Sound(r)'
      BY <2>2, SoundKept
    <2>. QED
      BY <2>1, <2>3
  <1>3. CASE q # p
    <2>1. run[q].tool # "idle" => ~[run[q] EXCEPT !.clean = FALSE].clean
      BY AtRuns DEF Underway, Fields
    <2>2. run'[q] = run[q] /\ UNCHANGED tree
      <3>1. CASE UNCHANGED tree /\ run' = [run EXCEPT ![p] = r]
        BY <1>1, <1>3, <3>1
      <3>2. CASE run' = [Disturb(run) EXCEPT ![p] = r]
        <4>1. run'[q] = Disturb(run)[q]
          BY <1>3, <3>2 DEF Disturb
        <4>2. Disturb(run)[q] = IF run[q].tool = "idle" THEN Idle ELSE [run[q] EXCEPT !.clean = FALSE]
          BY DEF Disturb
        <4>3. Idle.tool = "idle"
          BY DEF Idle
        <4>. QED
          BY <2>1, <4>1, <4>2, <4>3
      <3>. QED
        BY <3>1, <3>2
    <2>3. ASSUME NEW s, s = run[q] PROVE Sound(s)'
      BY <2>2, <2>3, SoundKept DEF SoundInv
    <2>. QED
      BY <2>2, <2>3
  <1>. QED
    BY <1>2, <1>3

\* What a run writes is what is expected, so far as anyone compares it.
LEMMA OutSound ==
  ASSUME NEW r, DOMAIN r = Fields, Sound(r), NEW files, \A h \in DOMAIN files : Content(files[h]) = Content(Expected[h])
  PROVE  Sound([r EXCEPT !.out = files ++ @])
  <1>. DEFINE s == [r EXCEPT !.out = files ++ @]
  <1>1. /\ s.tool = r.tool /\ s.pc = r.pc /\ s.ok = r.ok /\ s.mod = r.mod /\ s.revs = r.revs
        /\ s.got = r.got /\ s.parsed = r.parsed /\ s.out = files ++ r.out
    BY DEF Fields
  <1>. SUFFICES Sound(s)
    OBVIOUS
  <1>. HIDE DEF s
  <1>2. HeadersOf(s) = HeadersOf(r)
    BY <1>1 DEF HeadersOf
  <1>3. Checking(r) => Checking(s)
    BY <1>1 DEF Checking, ++
  <1>4. \A n, k : Come(r, n, k) => Come(s, n, k)
    BY <1>1, <1>3 DEF Come
  <1>. QED
    BY <1>1, <1>2, <1>4 DEF Sound

LEMMA PutSound ==
  ASSUME TypeInv, SoundInv, UNCHANGED <<world, pol, work>>, NEW p \in Proc, NEW files, NEW r, Put(p, files, r),
         r.tool # "idle" => DOMAIN r = Fields,
         r.tool # "idle" /\ r.clean => Sound(r),
         r.tool = "check" /\ r.clean => \A h \in DOMAIN files : Content(files[h]) = Content(Expected[h])
  PROVE  SoundInv'
  <1>1. CASE r.tool = "check"
    <2>. DEFINE s == [r EXCEPT !.out = files ++ @]
    <2>1. s.tool = r.tool /\ s.clean = r.clean
      BY <1>1 DEF Fields
    <2>2. s.clean => Sound(s)
      BY <1>1, <2>1, OutSound
    <2>3. UNCHANGED tree /\ run' = [run EXCEPT ![p] = s]
      BY <1>1 DEF Put
    <2>. HIDE DEF s
    <2>. QED
      BY <2>2, <2>3, OneSound
  <1>2. CASE r.tool # "check"
    <2>1. run' = [Disturb(run) EXCEPT ![p] = r]
      BY <1>2 DEF Put
    <2>. QED
      BY <1>2, <2>1, OneSound
  <1>. QED
    BY <1>1, <1>2

\* A run that goes on within one header.
LEMMA ReadingSound ==
  ASSUME NEW r, NEW s, Sound(r), r.pc \in Parsing, s.pc \in Parsing,
         s.tool = r.tool, s.ok = r.ok, s.mod = r.mod, s.revs = r.revs, s.parsed = r.parsed, s.out = r.out,
         s.pc \in Filling \ {"clang"} =>
           s.got = work /\ HeadersOf(s)[Len(s.revs) + 1] \in DOMAIN world.text[work]
  PROVE  Sound(s)
  <1>1. HeadersOf(s) = HeadersOf(r)
    BY DEF HeadersOf
  <1>2. Come(r, r.mod - 1, r.mod - 1)
    BY DEF Sound
  <1>3. Come(s, s.mod - 1, s.mod - 1)
    BY <1>2 DEF Come, Checking
  <1>4. AsNow(HeadersOf(s), s.revs)
    BY <1>1 DEF Sound
  <1>. QED
    BY <1>3, <1>4 DEF Sound, Parsing, Ending

\* No step of a run makes it clean.
LEMMA CleanStays ==
  ASSUME NEW r, DOMAIN r = Fields
  PROVE  /\ NextModule(r).clean = r.clean
         /\ NextModule([r EXCEPT !.ok = FALSE]).clean = r.clean
         /\ \A rev : TakeResult(r, rev).clean = r.clean
  <1>1. ASSUME NEW s, DOMAIN s = Fields PROVE NextModule(s).clean = s.clean
    BY <1>1 DEF NextModule, Fields
  <1>2. DOMAIN [r EXCEPT !.ok = FALSE] = Fields /\ [r EXCEPT !.ok = FALSE].clean = r.clean
    BY DEF Fields
  <1>3. ASSUME NEW rev PROVE TakeResult(r, rev).clean = r.clean
    <2>. DEFINE m    == Manifest.modules[r.mod]
                next == [r EXCEPT !.revs = Append(@, rev)]
                full == [next EXCEPT !.parsed = [n \in {m.name} |-> next.revs] ++ @]
    <2>1. DOMAIN next = Fields /\ next.clean = r.clean
      BY DEF Fields
    <2>2. DOMAIN full = Fields /\ full.clean = r.clean
      BY <2>1 DEF Fields
    <2>3. NextModule(full).clean = r.clean
      BY <1>1, <2>2
    <2>4. [next EXCEPT !.pc = "lookup"].clean = r.clean /\ [full EXCEPT !.pc = "header"].clean = r.clean
      BY <2>1, <2>2 DEF Fields
    <2>5. TakeResult(r, rev) \in {[next EXCEPT !.pc = "lookup"], NextModule(full), [full EXCEPT !.pc = "header"]}
      BY DEF TakeResult
    <2>. QED
      BY <2>3, <2>4, <2>5
  <1>. QED
    BY <1>1, <1>2, <1>3

LEMMA FailsSound ==
  ASSUME TypeInv, SoundInv, NEW p \in Proc, run[p].tool # "idle"
  PROVE  LET r == ModuleFails(run[p]) IN r.tool # "idle" /\ r.clean => Sound(r)
  <1>1. Loads(Manifest) /\ Underway(run[p]) /\ Started(run[p]) /\ WorldOK
    BY AtRuns DEF TypeInv
  <1>2. CASE run[p].tool = "parse"
    BY <1>2 DEF ModuleFails, Idle
  <1>3. CASE run[p].tool # "parse"
    <2>1. ModuleFails(run[p]) = NextModule([run[p] EXCEPT !.ok = FALSE])
      BY <1>3 DEF ModuleFails
    <2>2. run[p].clean /\ run[p].tool = "check" => Checking(run[p])
      BY <1>1 DEF SoundInv, Sound, Come
    <2>3. ModuleFails(run[p]).clean = run[p].clean
      BY <1>1, <2>1, CleanStays DEF Underway
    <2>. QED
      BY <1>1, <1>3, <2>1, <2>2, <2>3, ModuleFailsSound
  <1>. QED
    BY <1>2, <1>3

LEMMA TakesSound ==
  ASSUME TypeInv, SoundInv, NEW p \in Proc, run[p].tool # "idle", run[p].pc \in Filling \ {"clang"}
  PROVE  TakeResult(run[p], run[p].got).clean => Sound(TakeResult(run[p], run[p].got))
  <1>1. Loads(Manifest) /\ Underway(run[p]) /\ WorldOK
    BY AtRuns DEF TypeInv
  <1>2. TakeResult(run[p], run[p].got).clean = run[p].clean
    BY <1>1, CleanStays DEF Underway
  <1>3. run[p].pc \in Parsing
    BY DEF Parsing, Filling
  <1>4. run[p].clean => /\ Sound(run[p]) /\ run[p].got = work
                        /\ HeadersOf(run[p])[Len(run[p].revs) + 1] \in DOMAIN world.text[work]
    BY DEF SoundInv, Sound
  <1>5. work \in Revisions
    BY <1>1 DEF WorldOK
  <1>. QED
    BY <1>1, <1>2, <1>3, <1>4, <1>5, TakeResultSound

\* What the writing steps of check write.
LEMMA ExpectedHeader ==
  ASSUME WorldOK, Loads(Manifest), NEW i \in 1..Len(Manifest.modules), NEW revs \in Seq(Revisions),
         Len(revs) = Len(Manifest.modules[i].headers), AsNow(Manifest.modules[i].headers, revs)
  PROVE  LET m      == Manifest.modules[i]
             result == ParseFiles(m.headers, revs)
         IN  /\ result = Present(m.name)
             /\ \A e \in Orders(result) :
                  Content(Generate(Manifest, result, e)) = Content(Expected[HeaderOf(m.name)])
             /\ Content(Generate(Manifest, result, << >>)) = Content(Expected[ImplOf(m.name)])
  <1>. DEFINE name   == Manifest.modules[i].name
              result == Present(name)
  <1>1. ParseFiles(Manifest.modules[i].headers, revs) = result /\ IsFiniteSet(result.enums)
    BY ModuleRead
  <1>2. name \in Modules(Manifest)
    BY ModuleAt
  <1>3. /\ Expected[HeaderOf(name)] = Formatted(Generate(Manifest, result, SetToSeq(result.enums)))
        /\ Expected[ImplOf(name)] = Formatted(Generate(Manifest, result, << >>))
    BY <1>2, ExpectedAt
  <1>. HIDE DEF result
  <1>4. ASSUME NEW e \in Orders(result)
        PROVE  Content(Generate(Manifest, result, e)) = Content(Expected[HeaderOf(name)])
    <2>1. ToSet(e) = ToSet(SetToSeq(result.enums))
      BY <1>1, <1>4, OrdersHaveAll DEF Orders
    <2>. QED
      BY <1>3, <2>1, ContentGenerated, ContentFormatted
  <1>5. Content(Generate(Manifest, result, << >>)) = Content(Expected[ImplOf(name)])
    BY <1>3, ContentFormatted
  <1>. QED
    BY <1>1, <1>4, <1>5 DEF result

LEMMA SoundStep ==
  ASSUME TypeInv, CacheInv, SoundInv, Next
  PROVE  SoundInv'
  <1>0. WorldOK /\ RunsOK /\ CacheOK
    BY DEF TypeInv
  <1>a. Len(Manifest.modules) \in Nat
    BY <1>0, WorldFacts, LenProperties
  <1>1. ASSUME NEW p \in Proc, NEW tool \in {"generate", "parse", "check"}, Start(p, tool) PROVE SoundInv'
    <2>. DEFINE s == NewRun(tool)
    <2>1. /\ s.tool = tool /\ s.pc = "lookup" /\ s.mod = 1 /\ s.revs = << >> /\ s.parsed = << >>
          /\ s.out = << >> /\ s.ok = TRUE
      BY DEF NewRun
    <2>2. run' = [run EXCEPT ![p] = s] /\ UNCHANGED tree /\ UNCHANGED <<world, pol, work>>
      BY <1>1 DEF Start, Becomes, sources, products
    <2>3. tool = "check" => CheckInventory(tree, Manifest) /\ CheckInventoryWithGenerated(Manifest)
      BY <1>1 DEF Start, Accepts
    <2>. HIDE DEF s
    <2>4. DOMAIN s.parsed = {} /\ DOMAIN s.out = {} /\ DOMAIN s.revs = {} /\ 1..(s.mod - 1) = {}
      BY <2>1
    <2>5. Known(s.mod - 1, s.parsed) /\ Fits(s.mod - 1)
      BY <2>4 DEF Known, Fits
    <2>6. Come(s, s.mod - 1, s.mod - 1)
      BY <2>1, <2>3, <2>4, <2>5 DEF Come, Checking
    <2>7. AsNow(HeadersOf(s), s.revs)
      BY <2>4 DEF AsNow
    <2>8. Sound(s)
      BY <2>1, <2>6, <2>7 DEF Sound, Parsing, Filling, Ending
    <2>. QED
      BY <2>2, <2>8, OneSound
  <1>2. ASSUME NEW p \in Proc, HeaderMissing(p) PROVE SoundInv'
    BY <1>2, FailsSound, OneSound DEF HeaderMissing, At, Becomes, sources, products
  <1>3. ASSUME NEW p \in Proc, readCachedParseResult(p) PROVE SoundInv'
    <2>1. run[p].tool # "idle" /\ run[p].pc = "lookup" /\ run[p].pc \in Parsing /\ ~Missing(CurrentFile(p))
      BY <1>3 DEF readCachedParseResult, At, Parsing
    <2>2. Loads(Manifest) /\ Underway(run[p])
      BY <2>1, AtRuns
    <2>3. UNCHANGED <<world, pol, work, tree>>
      BY <1>3 DEF readCachedParseResult, sources, products
    <2>4. PICK f \in Headers : f = CurrentFile(p)
      BY <2>1, FileFacts
    <2>5. f = HeadersOf(run[p])[Len(run[p].revs) + 1] /\ f \in DOMAIN world.text[work]
      BY <2>1, <2>4, FileFacts
    <2>6. CASE Hit(f)
      <3>. DEFINE b == run[p].clean /\ f \notin torn /\ ~Raced(f)
                  s == [run[p] EXCEPT !.clean = b]
                  t == TakeResult(s, adata[f].rev)
      <3>1. run' = [run EXCEPT ![p] = t]
        BY <1>3, <2>4, <2>6 DEF readCachedParseResult, Becomes
      <3>2. DOMAIN s = Fields /\ s.clean = b /\ b \in BOOLEAN
        BY <2>2 DEF Underway, Fields
      <3>3. t.clean = b
        BY <3>2, CleanStays
      <3>4. ASSUME b PROVE Sound(t)
        <4>1. /\ s.tool = run[p].tool /\ s.ok = run[p].ok /\ s.mod = run[p].mod /\ s.revs = run[p].revs
              /\ s.parsed = run[p].parsed /\ s.out = run[p].out /\ s.pc = run[p].pc /\ s.clean = b /\ s.got = run[p].got
          BY <2>2 DEF Underway, Fields
        <4>2. HeadersOf(s) = HeadersOf(run[p])
          BY <4>1 DEF HeadersOf
        <4>3. Underway(s)
          BY <2>2, <3>2, <4>1, <4>2 DEF Underway
        <4>4. Sound(run[p]) /\ s.pc \notin Filling
          BY <2>1, <3>4, <4>1 DEF SoundInv, Filling
        <4>5. Sound(s)
          BY <2>1, <4>1, <4>4, ReadingSound
        <4>6. ParsedAt(adata[f].rev, f) = ParsedAt(work, f) /\ adata[f].rev \in Revisions
          BY <1>0, <2>1, <2>4, <2>6, <3>4, FreshEntries DEF CacheFresh, CacheOK, Hit
        <4>. QED
          BY <1>0, <2>1, <2>2, <2>5, <4>1, <4>2, <4>3, <4>5, <4>6, TakeResultSound
      <3>. HIDE DEF b, s, t
      <3>. QED
        BY <2>3, <3>1, <3>3, <3>4, OneSound
    <2>7. CASE ~Hit(f)
      <3>. DEFINE s == [run[p] EXCEPT !.pc = "clang"]
      <3>1. run' = [run EXCEPT ![p] = s]
        BY <1>3, <2>4, <2>7 DEF readCachedParseResult, Becomes
      <3>2. /\ s.tool = run[p].tool /\ s.ok = run[p].ok /\ s.mod = run[p].mod /\ s.revs = run[p].revs
            /\ s.parsed = run[p].parsed /\ s.out = run[p].out /\ s.pc = "clang" /\ s.clean = run[p].clean
        BY <2>2 DEF Underway, Fields
      <3>. HIDE DEF s
      <3>3. s.clean => Sound(s)
        BY <2>1, <3>2, ReadingSound DEF SoundInv, Parsing
      <3>. QED
        BY <2>3, <3>1, <3>3, OneSound
    <2>. QED
      BY <2>6, <2>7
  <1>4. ASSUME NEW p \in Proc, runClangAST(p) PROVE SoundInv'
    <2>. DEFINE f == CurrentFile(p)
                s == [run[p] EXCEPT !.got = work, !.read = Stamps(f), !.pc = "stat"]
    <2>1. run[p].tool # "idle" /\ run[p].pc = "clang" /\ run[p].pc \in Parsing
      BY <1>4 DEF runClangAST, At, Parsing
    <2>2. Underway(run[p])
      BY <2>1, AtRuns
    <2>3. UNCHANGED <<world, pol, work, tree>>
      BY <1>4 DEF runClangAST, sources, products
    <2>4. \/ ~Missing(f) /\ run' = [run EXCEPT ![p] = s]
          \/ run' = [run EXCEPT ![p] = ModuleFails(run[p])]
      BY <1>4 DEF runClangAST, Becomes
    <2>5. ASSUME ~Missing(f), s.clean PROVE Sound(s)
      <3>1. /\ s.tool = run[p].tool /\ s.ok = run[p].ok /\ s.mod = run[p].mod /\ s.revs = run[p].revs
            /\ s.parsed = run[p].parsed /\ s.out = run[p].out /\ s.pc = "stat" /\ s.clean = run[p].clean /\ s.got = work
        BY <2>2 DEF Underway, Fields
      <3>2. HeadersOf(s)[Len(s.revs) + 1] \in DOMAIN world.text[work]
        BY <2>1, <2>5, <3>1, FileFacts DEF HeadersOf
      <3>3. Sound(run[p])
        BY <2>1, <2>5, <3>1 DEF SoundInv
      <3>. HIDE DEF s
      <3>. QED
        BY <2>1, <3>1, <3>2, <3>3, ReadingSound DEF Parsing
    <2>. HIDE DEF s
    <2>. QED
      BY <2>1, <2>3, <2>4, <2>5, FailsSound, OneSound
  <1>5. ASSUME NEW p \in Proc, NEW s, run[p].tool # "idle", run[p].pc \in Filling \ {"clang"},
               s.pc \in Filling \ {"clang"}, s.tool = run[p].tool, s.ok = run[p].ok, s.mod = run[p].mod,
               s.revs = run[p].revs, s.parsed = run[p].parsed, s.out = run[p].out, s.got = run[p].got, s.clean = run[p].clean
        PROVE  s.clean => Sound(s)
    <2>1. run[p].clean => Sound(run[p])
      BY <1>5 DEF SoundInv
    <2>2. HeadersOf(s) = HeadersOf(run[p])
      BY <1>5 DEF HeadersOf
    <2>3. run[p].pc \in Parsing /\ s.pc \in Parsing
      BY <1>5 DEF Filling, Parsing
    <2>4. run[p].clean => s.got = work /\ HeadersOf(s)[Len(s.revs) + 1] \in DOMAIN world.text[work]
      BY <1>5, <2>1, <2>2 DEF Sound
    <2>. QED
      BY <1>5, <2>1, <2>3, <2>4, ReadingSound
  <1>6. ASSUME NEW p \in Proc, statASTCacheDeps(p) PROVE SoundInv'
    <2>. DEFINE s == [run[p] EXCEPT !.deps = Stamps(CurrentFile(p)), !.pc = "data"]
    <2>1. run[p].tool # "idle" /\ run[p].pc = "stat" /\ run[p].pc \in Filling \ {"clang"}
      BY <1>6 DEF statASTCacheDeps, At, Filling
    <2>2. Underway(run[p])
      BY <2>1, AtRuns
    <2>3. UNCHANGED <<world, pol, work, tree>>
      BY <1>6 DEF statASTCacheDeps, sources, products
    <2>4. run' = [run EXCEPT ![p] = s] \/ run' = [run EXCEPT ![p] = TakeResult(run[p], run[p].got)]
      BY <1>6 DEF statASTCacheDeps, Becomes
    <2>5. /\ s.tool = run[p].tool /\ s.ok = run[p].ok /\ s.mod = run[p].mod /\ s.revs = run[p].revs
          /\ s.parsed = run[p].parsed /\ s.out = run[p].out /\ s.pc = "data" /\ s.clean = run[p].clean /\ s.got = run[p].got
      BY <2>2 DEF Underway, Fields
    <2>. HIDE DEF s
    <2>6. s.clean => Sound(s)
      BY <1>5, <2>1, <2>5 DEF Filling
    <2>. QED
      BY <2>1, <2>3, <2>4, <2>6, TakesSound, OneSound
  <1>7. ASSUME NEW p \in Proc, WriteData(p) PROVE SoundInv'
    <2>. DEFINE s == [run[p] EXCEPT !.pc = "meta"]
    <2>1. run[p].tool # "idle" /\ run[p].pc = "data" /\ run[p].pc \in Filling \ {"clang"}
      BY <1>7 DEF WriteData, At, Filling
    <2>2. Underway(run[p])
      BY <2>1, AtRuns
    <2>3. UNCHANGED <<world, pol, work, tree>> /\ run' = [run EXCEPT ![p] = s]
      BY <1>7 DEF WriteData, sources, products, Becomes
    <2>4. /\ s.tool = run[p].tool /\ s.ok = run[p].ok /\ s.mod = run[p].mod /\ s.revs = run[p].revs
          /\ s.parsed = run[p].parsed /\ s.out = run[p].out /\ s.pc = "meta" /\ s.clean = run[p].clean /\ s.got = run[p].got
      BY <2>2 DEF Underway, Fields
    <2>. HIDE DEF s
    <2>5. s.clean => Sound(s)
      BY <1>5, <2>1, <2>4 DEF Filling
    <2>. QED
      BY <2>3, <2>5, OneSound
  <1>8. ASSUME NEW p \in Proc, WriteMeta(p) PROVE SoundInv'
    <2>1. run[p].tool # "idle" /\ run[p].pc \in Filling \ {"clang"}
      BY <1>8 DEF WriteMeta, At, Filling
    <2>2. UNCHANGED <<world, pol, work, tree>> /\ run' = [run EXCEPT ![p] = TakeResult(run[p], run[p].got)]
      BY <1>8 DEF WriteMeta, sources, products, Becomes
    <2>. QED
      BY <2>1, <2>2, TakesSound, OneSound
  <1>9. ASSUME NEW p \in Proc, run[p].tool # "idle", run[p].pc \in Writing, run[p].clean
        PROVE  LET m      == Manifest.modules[run[p].mod]
                   result == ParseFiles(m.headers, run[p].revs)
               IN  /\ result = Present(m.name)
                   /\ \A e \in Orders(result) :
                        Content(Generate(Manifest, result, e)) = Content(Expected[HeaderOf(m.name)])
                   /\ Content(Generate(Manifest, result, << >>)) = Content(Expected[ImplOf(m.name)])
    <2>1. Loads(Manifest) /\ Underway(run[p]) /\ Sound(run[p])
      BY <1>9, AtRuns DEF SoundInv
    <2>. QED
      BY <1>0, <1>9, <2>1, ExpectedHeader DEF Sound, Underway, HeadersOf
  <1>10. ASSUME NEW p \in Proc, WriteHeader(p) PROVE SoundInv'
    <2>. DEFINE m      == Manifest.modules[run[p].mod]
                result == ParseFiles(m.headers, run[p].revs)
                s      == [run[p] EXCEPT !.pc = "impl"]
    <2>1. run[p].tool # "idle" /\ run[p].pc = "header" /\ run[p].pc \in Writing
      BY <1>10 DEF WriteHeader, At, Writing
    <2>2. Loads(Manifest) /\ Underway(run[p]) /\ Started(run[p])
      BY <2>1, AtRuns
    <2>3. UNCHANGED <<world, pol, work>>
      BY <1>10 DEF WriteHeader, sources
    <2>4. CASE FailedKeys(Manifest, result) # {}
      <3>1. UNCHANGED tree /\ run' = [run EXCEPT ![p] = NextModule([run[p] EXCEPT !.ok = FALSE])]
        BY <1>10, <2>4 DEF WriteHeader, Module, Becomes
      <3>2. run[p].clean => Sound(run[p])
        BY <2>1 DEF SoundInv
      <3>3. run[p].tool # "parse"
        BY <2>1, <2>2 DEF Underway, Parsing
      <3>4. run[p].clean => Sound(NextModule([run[p] EXCEPT !.ok = FALSE]))
        BY <1>0, <2>2, <3>2, <3>3, ModuleFailsSound DEF Sound, Come
      <3>5. NextModule([run[p] EXCEPT !.ok = FALSE]).clean = run[p].clean
        BY <2>2, CleanStays DEF Underway
      <3>. QED
        BY <2>3, <3>1, <3>4, <3>5, OneSound
    <2>5. CASE FailedKeys(Manifest, result) = {}
      <3>1. PICK e \in Orders(result) : Put(p, [h \in {HeaderOf(m.name)} |-> Generate(Manifest, result, e)], s)
        BY <1>10, <2>5 DEF WriteHeader, Module
      <3>2. /\ s.tool = run[p].tool /\ s.ok = run[p].ok /\ s.mod = run[p].mod /\ s.revs = run[p].revs
            /\ s.parsed = run[p].parsed /\ s.out = run[p].out /\ s.pc = "impl" /\ s.clean = run[p].clean
            /\ DOMAIN s = Fields
        BY <2>2 DEF Underway, Fields
      <3>3. run[p].clean => Content(Generate(Manifest, result, e)) = Content(Expected[HeaderOf(m.name)])
                              /\ result = Present(m.name)
        BY <1>9, <2>1
      <3>. HIDE DEF s, result
      <3>4. ASSUME s.clean PROVE Sound(s)
        <4>1. Sound(run[p])
          BY <2>1, <3>2, <3>4 DEF SoundInv
        <4>2. AsNow(HeadersOf(s), s.revs)
          BY <2>1, <3>2, <4>1 DEF Sound, HeadersOf
        <4>3. Come(run[p], run[p].mod, run[p].mod - 1)
          BY <2>1, <4>1 DEF Sound, Parsing, Ending
        <4>4. Fits(run[p].mod - 1) => Fits(run[p].mod)
          <5>1. 1..run[p].mod = (1..(run[p].mod - 1)) \cup {run[p].mod}
            BY <1>a, <2>2 DEF Underway
          <5>2. FailedKeys(Manifest, Present(m.name)) = {}
            BY <2>5, <3>2, <3>3, <3>4
          <5>. QED
            BY <5>1, <5>2 DEF Fits
        <4>5. Come(s, s.mod, s.mod)
          BY <3>2, <4>3, <4>4 DEF Come, Checking
        <4>. QED
          BY <3>2, <4>2, <4>5 DEF Sound, Parsing, Filling, Ending
      <3>5. s.clean => \A h \in {HeaderOf(m.name)} :
                         Content([x \in {HeaderOf(m.name)} |-> Generate(Manifest, result, e)][h]) = Content(Expected[h])
        BY <3>2, <3>3
      <3>. DEFINE files == [h \in {HeaderOf(m.name)} |-> Generate(Manifest, result, e)]
      <3>6. DOMAIN files = {HeaderOf(m.name)}
        OBVIOUS
      <3>. HIDE DEF files
      <3>. QED
        BY <2>3, <3>1, <3>2, <3>4, <3>5, <3>6, PutSound DEF files
    <2>. QED
      BY <2>4, <2>5
  <1>11. ASSUME NEW p \in Proc, WriteImpl(p) PROVE SoundInv'
    <2>. DEFINE m      == Manifest.modules[run[p].mod]
                result == ParseFiles(m.headers, run[p].revs)
                files  == [h \in {ImplOf(m.name)} |-> Generate(Manifest, result, << >>)]
                s      == NextModule(run[p])
    <2>1. run[p].tool # "idle" /\ run[p].pc = "impl" /\ run[p].pc \in Writing
      BY <1>11 DEF WriteImpl, At, Writing
    <2>2. Loads(Manifest) /\ Underway(run[p]) /\ Started(run[p])
      BY <2>1, AtRuns
    <2>3. UNCHANGED <<world, pol, work>> /\ Put(p, files, s)
      BY <1>11 DEF WriteImpl, Module, sources
    <2>4. DOMAIN s = Fields /\ s.clean = run[p].clean
      BY <1>0, <2>2, NextModuleRuns, CleanStays DEF Underway
    <2>5. run[p].clean => Sound(s)
      <3>1. run[p].clean => Come(run[p], run[p].mod, run[p].mod)
        BY <2>1 DEF SoundInv, Sound, Parsing
      <3>. QED
        BY <1>0, <2>2, <3>1, NextModuleSound
    <2>6. run[p].clean => Content(Generate(Manifest, result, << >>)) = Content(Expected[ImplOf(m.name)])
      BY <1>9, <2>1
    <2>7. DOMAIN files = {ImplOf(m.name)} /\ files[ImplOf(m.name)] = Generate(Manifest, result, << >>)
      OBVIOUS
    <2>. HIDE DEF files, s, result
    <2>. QED
      BY <2>3, <2>4, <2>5, <2>6, <2>7, PutSound
  <1>12. ASSUME NEW p \in Proc, WriteSupport(p) PROVE SoundInv'
    <2>. DEFINE support == {HeaderOf(m) : m \in Standalone} \cup {ImplOf(m) : m \in Standalone}
                files   == [h \in support |-> standaloneGenerators]
                             ++ [h \in GeneratedHeaders(Manifest) |-> RenderHeader(Manifest.spec)]
                s       == [run[p] EXCEPT !.pc = "format"]
                r       == IF run[p].ok THEN s ELSE Idle
    <2>1. run[p].tool # "idle" /\ run[p].pc = "support"
      BY <1>12 DEF WriteSupport, At
    <2>2. Underway(run[p])
      BY <2>1, AtRuns
    <2>3. UNCHANGED <<world, pol, work>> /\ Put(p, files, r)
      BY <1>12 DEF WriteSupport, sources
    <2>4. /\ s.tool = run[p].tool /\ s.ok = run[p].ok /\ s.mod = run[p].mod /\ s.revs = run[p].revs
          /\ s.parsed = run[p].parsed /\ s.out = run[p].out /\ s.pc = "format" /\ s.clean = run[p].clean
          /\ DOMAIN s = Fields
      BY <2>2 DEF Underway, Fields
    <2>5. /\ DOMAIN files = support \cup GeneratedHeaders(Manifest)
          /\ \A h \in support : files[h] = standaloneGenerators
          /\ \A h \in GeneratedHeaders(Manifest) \ support : files[h] = RenderHeader(Manifest.spec)
      BY DEF ++
    <2>. HIDE DEF files
    <2>6. \A h \in DOMAIN files : Content(files[h]) = Content(Expected[h])
      <3>1. \A h \in support : Expected[h] = Formatted(standaloneGenerators)
        BY <1>0, ExpectedAt
      <3>2. \A h \in GeneratedHeaders(Manifest) : Expected[h] = Formatted(RenderHeader(Manifest.spec))
        BY <1>0, ExpectedAt
      <3>. QED
        BY <2>5, <3>1, <3>2, ContentFormatted
    <2>. HIDE DEF s
    <2>7. ASSUME run[p].ok, run[p].clean PROVE Sound(s)
      <3>1. Come(run[p], run[p].mod, run[p].mod) /\ run[p].mod = Len(Manifest.modules)
        BY <2>1, <2>7 DEF SoundInv, Sound, Parsing, Ending
      <3>2. Come(s, s.mod, s.mod)
        BY <2>4, <3>1 DEF Come, Checking
      <3>. QED
        BY <2>4, <2>7, <3>1, <3>2 DEF Sound, Parsing, Filling, Writing, Ending
    <2>8. r.tool # "idle" => r = s
      BY DEF Idle
    <2>9. r.tool # "idle" => run[p].ok
      BY DEF Idle
    <2>. HIDE DEF r
    <2>. QED
      BY <2>3, <2>4, <2>6, <2>7, <2>8, <2>9, PutSound
  <1>13. ASSUME NEW p \in Proc, Format(p) PROVE SoundInv'
    <2>. DEFINE outputs == generatedOutputs(Manifest) \cap DOMAIN Written(run[p])
                s       == [run[p] EXCEPT !.pc = "gates"]
                r       == IF run[p].tool = "check" THEN s ELSE Idle
                files(failed) == [h \in outputs \ failed |-> Formatted(Written(run[p])[h])]
    <2>1. run[p].tool # "idle" /\ run[p].pc = "format"
      BY <1>13 DEF Format, At
    <2>2. Underway(run[p])
      BY <2>1, AtRuns
    <2>3. UNCHANGED <<world, pol, work>> /\ \E failed : Put(p, files(failed), r)
      BY <1>13 DEF Format, sources
    <2>4. /\ s.tool = run[p].tool /\ s.ok = run[p].ok /\ s.mod = run[p].mod /\ s.revs = run[p].revs
          /\ s.parsed = run[p].parsed /\ s.out = run[p].out /\ s.pc = "gates" /\ s.clean = run[p].clean
          /\ DOMAIN s = Fields
      BY <2>2 DEF Underway, Fields
    <2>5. PICK failed : Put(p, files(failed), r)
      BY <2>3
    <2>. DEFINE put == files(failed)
    <2>6. DOMAIN put = outputs \ failed /\ \A h \in DOMAIN put : put[h] = Formatted(Written(run[p])[h])
      OBVIOUS
    <2>. HIDE DEF put, s
    <2>7. ASSUME run[p].clean, run[p].tool = "check" PROVE Sound(s)
      <3>1. Come(run[p], run[p].mod, run[p].mod) /\ run[p].ok /\ run[p].mod = Len(Manifest.modules)
        BY <2>1, <2>7 DEF SoundInv, Sound, Parsing, Ending
      <3>2. Come(s, s.mod, s.mod)
        BY <2>4, <3>1 DEF Come, Checking
      <3>. QED
        BY <2>4, <3>1, <3>2 DEF Sound, Parsing, Filling, Writing, Ending
    <2>8. ASSUME run[p].clean, run[p].tool = "check" PROVE \A h \in DOMAIN put : Content(put[h]) = Content(Expected[h])
      <3>1. Written(run[p]) = run[p].out
        BY <2>8 DEF Written
      <3>2. \A h \in DOMAIN run[p].out : Content(run[p].out[h]) = Content(Expected[h])
        BY <2>1, <2>8 DEF SoundInv, Sound, Come, Checking
      <3>. QED
        BY <2>6, <3>1, <3>2, ContentFormatted
    <2>9. r.tool # "idle" => r = s /\ run[p].tool = "check"
      BY DEF Idle
    <2>10. Put(p, put, r)
      BY <2>5 DEF put
    <2>. HIDE DEF r
    <2>. QED
      BY <2>3, <2>4, <2>7, <2>8, <2>9, <2>10, PutSound
  <1>14. ASSUME NEW p \in Proc, Verdict(p) \/ Kill(p) PROVE SoundInv'
    <2>1. UNCHANGED <<world, pol, work, tree>> /\ run' = [run EXCEPT ![p] = Idle]
      BY <1>14 DEF Verdict, Kill, Becomes, sources, products
    <2>2. ~(Idle.tool # "idle")
      BY DEF Idle
    <2>. QED
      BY <2>1, <2>2, OneSound
  <1>15. ASSUME UNCHANGED <<world, pol, work, tree, run>> PROVE SoundInv'
    <2>1. ASSUME NEW q \in Proc, run[q].tool # "idle", run[q].clean PROVE Sound(run[q])'
      <3>1. ASSUME NEW s, s = run[q] PROVE Sound(s)'
        BY <1>15, <2>1, <3>1, SoundKept DEF SoundInv
      <3>. QED
        BY <1>15, <3>1
    <2>. QED
      BY <1>15, <2>1 DEF SoundInv
  <1>16. ASSUME WriteLock \/ Build \/ Generate_purego \/ checkDir PROVE SoundInv'
    BY <1>15, <1>16 DEF WriteLock, Build, Generate_purego, checkDir, sources, products
  <1>17. ASSUME NEW rev \in DOMAIN world.text, Checkout(rev) PROVE SoundInv'
    <2>1. run' = Disturb(run)
      BY <1>17 DEF Checkout
    <2>2. ASSUME NEW q \in Proc, run[q].tool # "idle" PROVE ~[run[q] EXCEPT !.clean = FALSE].clean
      BY <2>2, AtRuns DEF Underway, Fields
    <2>3. \A q \in Proc : run'[q].tool # "idle" => ~run'[q].clean
      BY <2>1, <2>2 DEF Disturb, Idle
    <2>. QED
      BY <2>3 DEF SoundInv
  <1>18. ASSUME UNCHANGED run, Quiet PROVE SoundInv'
    BY <1>18 DEF SoundInv, Quiet
  <1>19. ASSUME NEW i \in DOMAIN world.policy, EditPolicy(i) PROVE SoundInv'
    BY <1>18, <1>19 DEF EditPolicy
  <1>20. ASSUME NEW h, HandEdit(h) PROVE SoundInv'
    BY <1>18, <1>20 DEF HandEdit
  <1>. QED
    BY <1>1, <1>2, <1>3, <1>4, <1>6, <1>7, <1>8, <1>10, <1>11, <1>12, <1>13, <1>14, <1>16, <1>17, <1>19, <1>20
    DEF Next

(***************************************************************************)
(* The files that no tool writes.                                          *)
(***************************************************************************)
HandInv == \A p \in {mlx_h, jaccl_cpp} : p \in DOMAIN tree /\ tree[p] = Kept(p)

LEMMA HandKeptApart ==
  ASSUME WorldOK
  PROVE  mlx_h \notin generatedOutputs(Manifest) /\ jaccl_cpp \notin generatedOutputs(Manifest)
  <1>1. Modules(Manifest) \cap ({"mlx", "jaccl"} \cup Standalone) = {}
    BY WorldFacts DEF Policies, WorldOK, Manifest
  <1>2. \A m \in Modules(Manifest) \cup Standalone :
           /\ HeaderOf(m) # mlx_h /\ ImplOf(m) # mlx_h /\ HeaderOf(m) # jaccl_cpp /\ ImplOf(m) # jaccl_cpp
    BY <1>1 DEF HeaderOf, ImplOf, mlx_h, jaccl_cpp, Standalone
  <1>3. mlx_h \notin GeneratedHeaders(Manifest) /\ jaccl_cpp \notin GeneratedHeaders(Manifest)
    BY DEF GeneratedHeaders, mlx_h, jaccl_cpp, jaccl_h
  <1>. QED
    BY <1>2, <1>3 DEF generatedOutputs, PlannedOutputs

LEMMA HandStep ==
  ASSUME TypeInv, HandInv, Next
  PROVE  HandInv'
  <1>0. WorldOK
    BY DEF TypeInv
  <1>1. ASSUME UNCHANGED <<world, pol, tree>> PROVE HandInv'
    BY <1>1 DEF HandInv, Kept, Manifest
  <1>2. ASSUME NEW p, NEW files, NEW r, Put(p, files, r), UNCHANGED sources,
               DOMAIN files \subseteq generatedOutputs(Manifest)
        PROVE  HandInv'
    <2>1. tree' = tree \/ tree' = files ++ tree
      <3>1. CASE r.tool = "check"
        BY <1>2, <3>1 DEF Put
      <3>2. CASE r.tool # "check"
        BY <1>2, <3>2 DEF Put
      <3>. QED
        BY <3>1, <3>2
    <2>2. CASE tree' = tree
      BY <1>1, <1>2, <2>2 DEF sources
    <2>3. CASE tree' = files ++ tree
      <3>1. ASSUME NEW q \in {mlx_h, jaccl_cpp} PROVE q \in DOMAIN tree' /\ tree'[q] = tree[q]
        BY <1>0, <1>2, <2>3, HandKeptApart DEF ++, HandInv
      <3>2. Manifest' = Manifest
        BY <1>2 DEF Manifest, sources
      <3>. QED
        BY <3>1, <3>2 DEF HandInv, Kept
    <2>. QED
      BY <2>1, <2>2, <2>3
  <1>3. ASSUME NEW p \in Proc, run[p].tool # "idle"
        PROVE  {HeaderOf(Module(p).name), ImplOf(Module(p).name)} \subseteq generatedOutputs(Manifest)
    <2>1. Module(p).name \in Modules(Manifest)
      BY <1>0, <1>3, AtRuns, ModuleAt DEF Underway, Module
    <2>. QED
      BY <2>1 DEF generatedOutputs, PlannedOutputs
  <1>4. ASSUME NEW p \in Proc, WriteHeader(p) PROVE HandInv'
    <2>. DEFINE result == ParseFiles(Module(p).headers, run[p].revs)
                files(e) == [h \in {HeaderOf(Module(p).name)} |-> Generate(Manifest, result, e)]
    <2>1. UNCHANGED sources /\ run[p].tool # "idle"
      BY <1>4 DEF WriteHeader, At
    <2>2. UNCHANGED tree \/ \E e : Put(p, files(e), [run[p] EXCEPT !.pc = "impl"])
      BY <1>4 DEF WriteHeader
    <2>3. \A e : DOMAIN files(e) \subseteq generatedOutputs(Manifest)
      BY <1>3, <2>1
    <2>. HIDE DEF files
    <2>. QED
      BY <1>1, <1>2, <2>1, <2>2, <2>3 DEF sources
  <1>5. ASSUME NEW p \in Proc, WriteImpl(p) PROVE HandInv'
    <2>. DEFINE files == [h \in {ImplOf(Module(p).name)} |->
                            Generate(Manifest, ParseFiles(Module(p).headers, run[p].revs), << >>)]
    <2>1. UNCHANGED sources /\ run[p].tool # "idle" /\ Put(p, files, NextModule(run[p]))
      BY <1>5 DEF WriteImpl, At
    <2>2. DOMAIN files \subseteq generatedOutputs(Manifest)
      BY <1>3, <2>1
    <2>. HIDE DEF files
    <2>. QED
      BY <1>2, <2>1, <2>2
  <1>6. ASSUME NEW p \in Proc, WriteSupport(p) PROVE HandInv'
    <2>. DEFINE support == {HeaderOf(m) : m \in Standalone} \cup {ImplOf(m) : m \in Standalone}
                files   == [h \in support |-> standaloneGenerators]
                             ++ [h \in GeneratedHeaders(Manifest) |-> RenderHeader(Manifest.spec)]
    <2>1. UNCHANGED sources /\ \E r : Put(p, files, r)
      BY <1>6 DEF WriteSupport
    <2>2. DOMAIN files \subseteq generatedOutputs(Manifest)
      BY DEF ++, generatedOutputs, PlannedOutputs
    <2>. HIDE DEF files
    <2>. QED
      BY <1>2, <2>1, <2>2
  <1>7. ASSUME NEW p \in Proc, Format(p) PROVE HandInv'
    <2>. DEFINE outputs == generatedOutputs(Manifest) \cap DOMAIN Written(run[p])
                files(failed) == [h \in outputs \ failed |-> Formatted(Written(run[p])[h])]
    <2>1. UNCHANGED sources /\ \E failed, r : Put(p, files(failed), r)
      BY <1>7 DEF Format
    <2>2. \A failed : DOMAIN files(failed) \subseteq generatedOutputs(Manifest)
      OBVIOUS
    <2>. HIDE DEF files
    <2>. QED
      BY <1>2, <2>1, <2>2
  <1>8. ASSUME NEW p \in Proc, \/ HeaderMissing(p) \/ readCachedParseResult(p) \/ runClangAST(p) \/ statASTCacheDeps(p)
                               \/ WriteData(p) \/ WriteMeta(p) \/ Verdict(p) \/ Kill(p)
        PROVE  HandInv'
    <2>1. UNCHANGED <<sources, products>>
      BY <1>8 DEF HeaderMissing, readCachedParseResult, runClangAST, statASTCacheDeps, WriteData, WriteMeta, Verdict, Kill
    <2>. QED
      BY <1>1, <2>1 DEF sources, products
  <1>9. ASSUME NEW p \in Proc, NEW tool, Start(p, tool) PROVE HandInv'
    BY <1>1, <1>9 DEF Start, sources, products
  <1>10. ASSUME WriteLock \/ Build \/ Generate_purego \/ checkDir PROVE HandInv'
    BY <1>1, <1>10 DEF WriteLock, Build, Generate_purego, checkDir, sources, products
  <1>11. ASSUME NEW rev, Checkout(rev) PROVE HandInv'
    BY <1>1, <1>11 DEF Checkout, products
  <1>12. ASSUME NEW i \in DOMAIN world.policy, EditPolicy(i) PROVE HandInv'
    <2>1. Manifest' = world.policy[i] /\ tree' = HandKept(world.policy[i]) ++ tree
      BY <1>12 DEF EditPolicy, Manifest
    <2>. QED
      BY <2>1, HandKeptAt DEF HandInv, Kept, ++
  <1>13. ASSUME NEW h, HandEdit(h) PROVE HandInv'
    <2>1. h # mlx_h /\ h # jaccl_cpp /\ Manifest' = Manifest
      BY <1>0, <1>13, HandKeptApart DEF HandEdit, Manifest
    <2>2. \/ tree' = [tree EXCEPT ![h].functions = {}]
          \/ tree' = [x \in DOMAIN tree \ {h} |-> tree[x]]
      BY <1>13 DEF HandEdit
    <2>3. \A q \in {mlx_h, jaccl_cpp} : q \in DOMAIN tree' /\ tree'[q] = tree[q]
      BY <2>1, <2>2 DEF HandInv
    <2>. QED
      BY <2>1, <2>3 DEF HandInv, Kept
  <1>. QED
    BY <1>4, <1>5, <1>6, <1>7, <1>8, <1>9, <1>10, <1>11, <1>12, <1>13 DEF Next

LEMMA HandInit == ASSUME Init PROVE HandInv
  <1>1. WorldOK
    BY TypeInit DEF TypeInv
  <1>2. tree = Expected
    BY DEF Init, Expected, Manifest
  <1>3. {mlx_h, jaccl_cpp} \subseteq DOMAIN Expected
    BY <1>1, ExpectedAt
  <1>4. \A p \in {mlx_h, jaccl_cpp} : Expected[p] = Kept(p)
    BY <1>1, ExpectedAt
  <1>. QED
    BY <1>2, <1>3, <1>4 DEF HandInv

(***************************************************************************)
(* What a verdict of parse or of check has found.                          *)
(***************************************************************************)
Now == [m \in Modules(Manifest) |-> Present(m)]

\* Every header of every module is there.
AllThere ==
  /\ Loads(Manifest)
  /\ \A i \in 1..Len(Manifest.modules) : ToSet(Manifest.modules[i].headers) \subseteq DOMAIN world.text[work]

AsExpected ==
  /\ DOMAIN tree = DOMAIN Expected
  /\ \A h \in DOMAIN tree : Content(tree[h]) = Content(Expected[h])
  /\ lock = GenerateLock(tree) /\ tu = lock

CheckFound ==
  /\ AllThere
  /\ AsExpected
  /\ Fits(Len(Manifest.modules))
  /\ checkCNameUniqueness(Manifest, EmitDecisions(Manifest, Now))
  /\ checkHookManifestPolicy(Manifest)
  /\ ReportPolicy(Manifest, Now, Selected(Manifest, Now, "check"))

ParseFound ==
  /\ AllThere
  /\ checkDecisionDeclIDs(AllDecisions(Manifest, Now))
  /\ checkDecisionCoverage(parseIR(Now), AllDecisions(Manifest, Now))
  /\ checkCNameUniqueness(Manifest, AllDecisions(Manifest, Now))
  /\ ReportPolicy(Manifest, Now, Selected(Manifest, Now, "parse"))

FoundInv ==
  /\ "check" \in passed => CheckFound
  /\ "parse" \in passed => ParseFound

\* The results of a run at its end are those of now.
LEMMA ResultsNow ==
  ASSUME TypeInv, SoundInv, NEW p \in Proc, At(p, "gates"), run[p].clean
  PROVE  /\ AllThere
         /\ Results(Manifest, run[p].parsed) = Now
         /\ run[p].tool = "check" => Checking(run[p]) /\ Fits(Len(Manifest.modules))
  <1>1. /\ WorldOK /\ Loads(Manifest) /\ Sound(run[p])
        /\ run[p].tool # "idle" /\ run[p].pc = "gates"
    BY AtRuns DEF At, TypeInv, SoundInv
  <1>2. run[p].ok /\ run[p].mod = Len(Manifest.modules) /\ Come(run[p], run[p].mod, run[p].mod)
    BY <1>1 DEF Sound, Parsing, Ending
  <1>3. Known(Len(Manifest.modules), run[p].parsed)
    BY <1>2 DEF Come
  <1>4. DOMAIN run[p].parsed = Modules(Manifest)
    <2>1. DOMAIN Manifest.modules = 1..Len(Manifest.modules)
      BY <1>1, WorldFacts, LenProperties
    <2>2. ToSet(Manifest.modules) = {Manifest.modules[i] : i \in 1..Len(Manifest.modules)}
      BY <2>1 DEF ToSet
    <2>. QED
      BY <1>3, <2>2 DEF Known, Modules
  <1>5. ASSUME NEW m \in Modules(Manifest)
        PROVE  ParseFiles(ModuleNamed(Manifest, m).headers, run[p].parsed[m]) = Present(m)
    <2>1. PICK i \in 1..Len(Manifest.modules) : m = Manifest.modules[i].name
      BY <1>3, <1>4 DEF Known
    <2>2. ModuleNamed(Manifest, m) = Manifest.modules[i]
      BY <1>1, <2>1, ModuleAt
    <2>. QED
      BY <1>3, <2>1, <2>2 DEF Known
  <1>6. Results(Manifest, run[p].parsed) = Now
    BY <1>4, <1>5 DEF Results, Now
  <1>. QED
    BY <1>1, <1>2, <1>3, <1>6 DEF AllThere, Known, Come

LEMMA CompareEqual ==
  ASSUME NEW t, NEW s, NEW path, compareOne(t, s, path) = "equal"
  PROVE  path \in DOMAIN t /\ path \in DOMAIN s /\ t[path] = s[path]
  BY DEF compareOne

\* A scratch tree that is clean against mlx/c: mlx/c has what is expected.
LEMMA CleanTree ==
  ASSUME TypeInv, HandInv, NEW r, Checking(r), Clean(tree, r.out, generatedOutputs(Manifest))
  PROVE  /\ DOMAIN tree = DOMAIN Expected
         /\ \A h \in DOMAIN tree : Content(tree[h]) = Content(Expected[h])
  <1>0. WorldOK
    BY DEF TypeInv
  <1>1. DOMAIN Expected = generatedOutputs(Manifest) \cup {mlx_h, jaccl_cpp}
    BY <1>0, ExpectedAt
  <1>2. DOMAIN tree = DOMAIN Manifest.inventory
    BY DEF Checking, CheckInventory
  <1>3. generatedOutputs(Manifest) \cup {mlx_h, jaccl_cpp} \subseteq DOMAIN tree
    BY <1>2 DEF Checking, CheckInventoryWithGenerated, generatedOutputs, HandInv
  <1>4. DOMAIN Manifest.inventory \subseteq generatedOutputs(Manifest) \cup {mlx_h, jaccl_cpp}
    <2>1. Policies(world) /\ pol \in DOMAIN world.policy
      BY <1>0, WorldFacts DEF WorldOK
    <2>2. \A p \in DOMAIN Manifest.inventory :
            \/ Manifest.inventory[p].kind \in GeneratedKinds
            \/ p \in {mlx_h, jaccl_cpp} \cup GeneratedHeaders(Manifest)
      BY <2>1 DEF Policies, Manifest
    <2>3. \A p \in DOMAIN Manifest.inventory : Manifest.inventory[p].kind \in GeneratedKinds => p \in PlannedOutputs(Manifest)
      BY DEF Checking, CheckInventoryWithGenerated
    <2>. QED
      BY <2>2, <2>3 DEF generatedOutputs
  <1>5. ASSUME NEW h \in generatedOutputs(Manifest) PROVE Content(tree[h]) = Content(Expected[h])
    <2>1. h \in DOMAIN r.out /\ tree[h] = r.out[h]
      BY CompareEqual DEF Clean
    <2>. QED
      BY <2>1 DEF Checking
  <1>6. ASSUME NEW h \in {mlx_h, jaccl_cpp} PROVE tree[h] = Expected[h]
    BY <1>0, ExpectedAt DEF HandInv
  <1>. QED
    BY <1>1, <1>2, <1>3, <1>4, <1>5, <1>6

LEMMA FoundKept ==
  ASSUME UNCHANGED <<world, pol, work>>
  PROVE  /\ CheckFound /\ UNCHANGED <<tree, lock, tu>> => CheckFound'
         /\ ParseFound => ParseFound'
  <1>1. Manifest' = Manifest
    BY DEF Manifest
  <1>2. \A m : Present(m)' = Present(m)
    BY <1>1 DEF Present, ModuleResult, ParseFiles, ParsedAt
  <1>3. Expected' = Expected
    BY <1>1 DEF Expected, Rendered, Render, ModuleResult, ParseFiles, ParsedAt
  <1>4. Now' = Now
    BY <1>1, <1>2 DEF Now
  <1>5. AllThere' <=> AllThere
    BY <1>1 DEF AllThere
  <1>6. \A n : Fits(n)' <=> Fits(n)
    BY <1>1, <1>2 DEF Fits
  <1>7. UNCHANGED <<tree, lock, tu>> => (AsExpected' <=> AsExpected)
    BY <1>3 DEF AsExpected
  <1>. QED
    BY <1>1, <1>4, <1>5, <1>6, <1>7 DEF CheckFound, ParseFound

LEMMA FoundStep ==
  ASSUME TypeInv, SoundInv, HandInv, FoundInv, Next
  PROVE  FoundInv'
  <1>1. CASE PassedKept
    BY <1>1, FoundKept DEF FoundInv, PassedKept
  <1>2. ASSUME NEW p \in Proc, Verdict(p) PROVE FoundInv'
    <2>. DEFINE r == run[p]
    <2>1. UNCHANGED <<world, pol, work, tree, lock, tu>> /\ At(p, "gates")
      BY <1>2 DEF Verdict, sources, products
    <2>2. "check" \in passed' => "check" \in passed \/ (r.clean /\ r.tool = "check" /\ CheckAccepts(r))
      BY <1>2 DEF Verdict
    <2>3. "parse" \in passed' => "parse" \in passed \/ (r.clean /\ r.tool = "parse" /\ ParseAccepts(r))
      BY <1>2 DEF Verdict
    <2>4. ASSUME r.clean, r.tool = "check", CheckAccepts(r) PROVE CheckFound
      <3>1. AllThere /\ Results(Manifest, r.parsed) = Now /\ Checking(r) /\ Fits(Len(Manifest.modules))
        BY <2>1, <2>4, ResultsNow
      <3>2. AsExpected
        <4>1. lock = GenerateLock(tree) /\ tu = lock
          BY <2>4 DEF CheckAccepts, checkAPILock
        <4>. QED
          BY <2>4, <3>1, <4>1, CleanTree DEF CheckAccepts, AsExpected
      <3>. QED
        BY <2>4, <3>1, <3>2 DEF CheckAccepts, CheckFound
    <2>5. ASSUME r.clean, r.tool = "parse", ParseAccepts(r) PROVE ParseFound
      <3>1. AllThere /\ Results(Manifest, r.parsed) = Now
        BY <2>1, <2>5, ResultsNow
      <3>. QED
        BY <2>5, <3>1 DEF ParseAccepts, ParseFound
    <2>6. "check" \in passed' => CheckFound
      BY <2>2, <2>4 DEF FoundInv
    <2>7. "parse" \in passed' => ParseFound
      BY <2>3, <2>5 DEF FoundInv
    <2>. QED
      BY <2>1, <2>6, <2>7, FoundKept DEF FoundInv
  <1>. QED
    BY <1>1, <1>2, PassedSteps

\* All that is known of a state of the checkout.
StateInv == TypeInv /\ CacheInv /\ SoundInv /\ HandInv /\ FoundInv

LEMMA RepositoryState == Spec => []StateInv
  <1>1. Init => StateInv
    <2>1. Init => SoundInv
      BY DEF Init, SoundInv, Idle
    <2>2. Init => FoundInv
      BY DEF Init, FoundInv
    <2>. QED
      BY <2>1, <2>2, TypeInit, CacheInit, HandInit DEF StateInv
  <1>2. StateInv /\ Next => StateInv'
    BY TypeStep, CacheStep, SoundStep, HandStep, FoundStep DEF StateInv
  <1>3. StateInv /\ UNCHANGED vars => StateInv'
    <2>. SUFFICES ASSUME StateInv, UNCHANGED vars PROVE StateInv'
      OBVIOUS
    <2>1. TypeInv' /\ CacheInv'
      BY RunsStay, CacheUnmoved DEF vars, StateInv
    <2>2. SoundInv'
      <3>1. UNCHANGED <<world, pol, work, tree, run>>
        BY DEF vars, sources, products
      <3>2. ASSUME NEW q \in Proc, run[q].tool # "idle", run[q].clean PROVE Sound(run[q])'
        <4>1. ASSUME NEW s, s = run[q] PROVE Sound(s)'
          BY <3>1, <3>2, <4>1, SoundKept DEF SoundInv, StateInv
        <4>. QED
          BY <3>1, <4>1
      <3>. QED
        BY <3>1, <3>2 DEF SoundInv
    <2>3. HandInv'
      BY DEF vars, sources, products, HandInv, Kept, Manifest, StateInv
    <2>4. FoundInv'
      <3>1. UNCHANGED <<world, pol, work, tree, lock, tu, passed>>
        BY DEF vars, sources, products
      <3>. QED
        BY <3>1, FoundKept DEF FoundInv, StateInv
    <2>. QED
      BY <2>1, <2>2, <2>3, <2>4 DEF StateInv
  <1>. QED
    BY <1>1, <1>2, <1>3, PTL DEF Spec

LEMMA FoundTree == ASSUME FoundInv PROVE TreeIsGenerated
  BY DEF TreeIsGenerated, Passed, FoundInv, CheckFound, AsExpected, Expected

\* When check has passed and nothing was edited, generated or locked since, mlx/c is
\* what the generator makes of the present headers of MLX and the present manifest,
\* whatever the other runs, the hits of the AST cache, the edits and the kills before
\* were, up to the order of the enums and to clang-format (regenreport.Clean).
THEOREM CheckedTreeIsGenerated == Spec => []TreeIsGenerated
  <1>1. StateInv => TreeIsGenerated
    BY FoundTree DEF StateInv
  <1>. QED
    BY <1>1, RepositoryState, PTL

(***************************************************************************)
(* What parse decides about a declaration.                                 *)
(***************************************************************************)
AllFunctions(results) == UNION {FunctionsAt(results[m], DOMAIN results[m].functions) : m \in DOMAIN results}

\* A place of a file holds one function.
Located(results) ==
  \A f, g \in AllFunctions(results) : f.file = g.file /\ f.line = g.line => f = g

WalkCodes == {"skip_operator", "skip_builtin", "skip_missing_type", "skip_unparsed_function",
              "skip_stream_return", "skip_template_function", "none"}
Walked(results) == \A m \in DOMAIN results : \A d \in results[m].diagnostics : d.code \in WalkCodes

\* Where a function of a parse result comes from.
LEMMA FunctionFrom ==
  ASSUME NEW m, NEW p \in DOMAIN Present(m).functions
  PROVE  LET headers == ModuleNamed(Manifest, m).headers
             f       == Present(m).functions[p]
             nodes   == world.ast[work][headers[p[1]]]
         IN  /\ p[1] \in DOMAIN headers /\ p[2] \in DOMAIN nodes
             /\ f = extractFunction(nodes[p[2]], p[2], headers[p[1]], world.alias[work])
             /\ f.file = headers[p[1]] /\ f.line = p[2] /\ f.suffix = << >>
             /\ nodes[p[2]].here /\ nodes[p[2]].kind = "function" /\ walkSkip(nodes[p[2]], f) = "none"
  <1>. DEFINE headers == ModuleNamed(Manifest, m).headers
              parts   == [i \in DOMAIN headers |-> ParsedAt(work, headers[i])]
              nodes   == world.ast[work][headers[p[1]]]
              fn(i)   == extractFunction(nodes[i], i, headers[p[1]], world.alias[work])
  <1>1. Present(m) = mergeParseResult(parts)
    BY DEF Present, ModuleResult, ParseFiles
  <1>. HIDE DEF parts
  <1>2. Present(m).functions = [q \in UNION {{h} \X DOMAIN parts[h].functions : h \in DOMAIN parts} |->
                                  parts[q[1]].functions[q[2]]]
    BY <1>1 DEF mergeParseResult
  <1>3. PICK h \in DOMAIN parts : p \in {h} \X DOMAIN parts[h].functions
    BY <1>2
  <1>4. p = <<p[1], p[2]>> /\ p[1] = h /\ p[2] \in DOMAIN parts[h].functions
    BY <1>3
  <1>5. h \in DOMAIN headers /\ parts[h] = ParsedAt(work, headers[h])
    BY DEF parts
  <1>6. ParsedAt(work, headers[h]).functions
          = [i \in {i \in {i \in {i \in DOMAIN nodes : nodes[i].here} : nodes[i].kind = "function"} :
                      walkSkip(nodes[i], fn(i)) = "none"} |-> fn(i)]
    BY <1>4 DEF ParsedAt, walkAST
  <1>7. Present(m).functions[p] = parts[h].functions[p[2]]
    BY <1>2, <1>4
  <1>8. Present(m).functions[p] = fn(p[2]) /\ p[2] \in DOMAIN nodes /\ nodes[p[2]].here
          /\ nodes[p[2]].kind = "function" /\ walkSkip(nodes[p[2]], fn(p[2])) = "none"
    BY <1>4, <1>5, <1>6, <1>7
  <1>9. fn(p[2]).file = headers[p[1]] /\ fn(p[2]).line = p[2] /\ fn(p[2]).suffix = << >>
    BY DEF extractFunction
  <1>. HIDE DEF fn
  <1>10. Present(m).functions[p].file = headers[p[1]] /\ Present(m).functions[p].line = p[2]
           /\ Present(m).functions[p].suffix = << >>
    BY <1>8, <1>9
  <1>. QED
    BY <1>4, <1>5, <1>8, <1>10 DEF fn

LEMMA NowLocated == Located(Now) /\ Walked(Now)
  <1>1. ASSUME NEW m \in DOMAIN Now, NEW p \in DOMAIN Now[m].functions
        PROVE  LET f == Now[m].functions[p]
               IN  f = extractFunction(world.ast[work][f.file][f.line], f.line, f.file, world.alias[work])
    <2>1. Now[m] = Present(m)
      BY DEF Now
    <2>. DEFINE f == Present(m).functions[p]
                file == ModuleNamed(Manifest, m).headers[p[1]]
    <2>2. f.file = file /\ f.line = p[2]
            /\ f = extractFunction(world.ast[work][file][p[2]], p[2], file, world.alias[work])
      <3>1. p \in DOMAIN Present(m).functions
        BY <1>1, <2>1
      <3>. QED
        BY <3>1, FunctionFrom
    <2>. HIDE DEF f, file
    <2>3. f = extractFunction(world.ast[work][f.file][f.line], f.line, f.file, world.alias[work])
      BY <2>2
    <2>. QED
      BY <2>1, <2>3 DEF f
  <1>2. \A f \in AllFunctions(Now) :
          f = extractFunction(world.ast[work][f.file][f.line], f.line, f.file, world.alias[work])
    BY <1>1 DEF AllFunctions, FunctionsAt
  <1>3. Located(Now)
    <2>. SUFFICES ASSUME NEW f \in AllFunctions(Now), NEW g \in AllFunctions(Now), f.file = g.file, f.line = g.line
                  PROVE  f = g
      BY DEF Located
    <2>. QED
      BY <1>2
  <1>4. ASSUME NEW m \in DOMAIN Now, NEW d \in Now[m].diagnostics PROVE d.code \in WalkCodes
    <2>. DEFINE headers == ModuleNamed(Manifest, m).headers
                parts   == [i \in DOMAIN headers |-> ParsedAt(work, headers[i])]
    <2>1. Now[m] = mergeParseResult(parts)
      BY DEF Now, Present, ModuleResult, ParseFiles
    <2>. HIDE DEF parts
    <2>2. PICK h \in DOMAIN parts : d \in parts[h].diagnostics
      BY <1>4, <2>1 DEF mergeParseResult
    <2>3. d \in ParsedAt(work, headers[h]).diagnostics
      BY <2>2 DEF parts
    <2>4. \A node, f : walkSkip(node, f) \in WalkCodes
      BY DEF walkSkip, WalkCodes
    <2>5. ASSUME NEW nodes, NEW file, NEW alias, NEW e \in walkAST(nodes, file, alias).diagnostics
          PROVE  \E node, f : e.code = walkSkip(node, f)
      <3>. DEFINE fn(i) == extractFunction(nodes[i], i, file, alias)
                  code(i) == walkSkip(nodes[i], fn(i))
                  S == {i \in {i \in {i \in DOMAIN nodes : nodes[i].here} : nodes[i].kind = "function"} : code(i) # "none"}
      <3>1. walkAST(nodes, file, alias).diagnostics
              = {[code |-> code(i), reason |-> diagnosticReason(code(i)), fn |-> fn(i)] : i \in S}
        BY DEF walkAST
      <3>. HIDE DEF fn, S
      <3>2. PICK i \in S : e.code = walkSkip(nodes[i], fn(i))
        BY <3>1
      <3>. QED
        BY <3>2
    <2>. QED
      BY <2>3, <2>4, <2>5 DEF ParsedAt
  <1>. QED
    BY <1>3, <1>4 DEF Walked

\* An identity says which function is meant.
LEMMA SameId ==
  ASSUME NEW results, NEW x \in parseIR(results), NEW y \in parseIR(results), x.id = y.id
  PROVE  Key(x.fn) = Key(y.fn) /\ Signature(x.fn) = Signature(y.fn) /\ x.id # NoId
  <1>1. \A z \in parseIR(results) : \E m : z.id = <<m, z.fn.file, Key(z.fn), Signature(z.fn)>>
    BY DEF parseIR, FromParseResult, declID
  <1>. QED
    BY <1>1 DEF NoId

LEMMA DeclarationOf ==
  ASSUME NEW results, NEW key, NEW sig
  PROVE  \/ declIDFor(parseIR(results), key, sig) = NoId
         \/ \E y \in parseIR(results) : /\ Key(y.fn) = key /\ Signature(y.fn) = sig
                                        /\ declIDFor(parseIR(results), key, sig) = y.id
  <1>. DEFINE S == {d \in parseIR(results) : Key(d.fn) = key /\ Signature(d.fn) = sig}
  <1>1. declIDFor(parseIR(results), key, sig) = IF S = {} THEN NoId ELSE (CHOOSE d \in S : TRUE).id
    BY DEF declIDFor, AnId
  <1>2. S # {} => (CHOOSE d \in S : TRUE) \in S
    OBVIOUS
  <1>. QED
    BY <1>1, <1>2

LEMMA DeclarationAt ==
  ASSUME NEW results, NEW f
  PROVE  \/ declIDAt(parseIR(results), f) = NoId
         \/ \E y \in parseIR(results) : /\ y.fn.file = f.file /\ y.fn.line = f.line
                                        /\ declIDAt(parseIR(results), f) = y.id
  <1>. DEFINE S == {d \in parseIR(results) : d.fn.file = f.file /\ d.fn.line = f.line}
  <1>1. declIDAt(parseIR(results), f) = IF S = {} THEN NoId ELSE (CHOOSE d \in S : TRUE).id
    BY DEF declIDAt, AnId
  <1>2. S # {} => (CHOOSE d \in S : TRUE) \in S
    OBVIOUS
  <1>. QED
    BY <1>1, <1>2

\* The function of a declaration is one that was parsed.
LEMMA DeclaredFunction ==
  ASSUME NEW results, NEW y \in parseIR(results)
  PROVE  y.fn \in AllFunctions(results)
  <1>1. PICK m \in DOMAIN results : y \in FromParseResult(m, results[m])
    BY DEF parseIR
  <1>2. y.fn \in FunctionsAt(results[m], deduplicateFunctions(results[m].functions))
    BY <1>1 DEF FromParseResult
  <1>3. deduplicateFunctions(results[m].functions) \subseteq DOMAIN results[m].functions
    BY DEF deduplicateFunctions
  <1>. QED
    BY <1>2, <1>3 DEF AllFunctions, FunctionsAt

\* The diagnostics that are counted as decisions about a declaration are about functions
\* of the detail namespace.
LEMMA DetailDiagnostics ==
  ASSUME NEW manifest, NEW results, Walked(results), NEW x \in AllDiagnostics(manifest, results),
         detailDiagnosticSource(x[2].code) # "none"
  PROVE  x[2].fn.ns = DetailNamespace /\ x[2].fn \in AllFunctions(results)
  <1>1. PICK m \in DOMAIN results :
           \E d \in results[m].diagnostics \cup Diagnostics(manifest, results[m]) : x = <<m, d>>
    BY DEF AllDiagnostics
  <1>. DEFINE result == results[m]
  <1>2. PICK d \in result.diagnostics \cup Diagnostics(manifest, result) : x = <<m, d>>
    BY <1>1
  <1>3. x[2] = d /\ d.code \in {"skip_allowed_detail_overload", "skip_unallowed_detail_function"}
    BY <1>2 DEF detailDiagnosticSource
  <1>4. d \in Diagnostics(manifest, result)
    BY <1>2, <1>3 DEF Walked, WalkCodes
  <1>5. \E k \in Keys(result) : d \in SelectionDiagnostics(manifest, result, k)
    <2>. DEFINE picked == UNION {SelectionDiagnostics(manifest, result, k) :
                                   k \in Keys(result) \ FailedKeys(manifest, result)}
                failing == {[code |-> "variant_selection_error", reason |-> "none", fn |-> << >>]}
                untyped == UNION {{[code |-> c, reason |-> "unsupported_type", fn |-> f] : c \in unsupportedTypes(f)} :
                                    f \in {f \in selectFunctions(manifest, result) : ~HasHook(CName(f))}}
    <2>1. Diagnostics(manifest, result) = picked \cup IF FailedKeys(manifest, result) # {} THEN failing ELSE untyped
      BY DEF Diagnostics
    <2>2. \A f, c : c \in unsupportedTypes(f) => c \in {"skip_unsupported_return_type", "skip_unsupported_param_type"}
      BY DEF unsupportedTypes
    <2>3. \A e \in untyped : e.code \in {"skip_unsupported_return_type", "skip_unsupported_param_type"}
      BY <2>2
    <2>4. \A e \in failing : e.code = "variant_selection_error"
      OBVIOUS
    <2>. HIDE DEF failing, untyped
    <2>. QED
      BY <1>3, <1>4, <2>1, <2>3, <2>4
  <1>6. PICK k \in Keys(result) : d \in SelectionDiagnostics(manifest, result, k)
    BY <1>5
  <1>. DEFINE defs == Overloads(result, k)
              diag(code, reason, fs) == {[code |-> code, reason |-> reason, fn |-> f] : f \in fs}
  <1>7. k[1] = DetailNamespace /\ \E p \in defs : d.fn = result.functions[p]
    <2>. DEFINE allowed == diag("skip_allowed_detail_overload", "covered_by_other_variant",
                                FunctionsAt(result, defs \ {FirstOf(result, defs)}))
                refused == diag("skip_unallowed_detail_function", "internal_namespace", FunctionsAt(result, defs))
                single  == diag("emit_implicit_single_overload", "none", FunctionsAt(result, defs))
                mapped  == UNION {diag("skip_variant_mapping", RuleFor(manifest, f).reason, {f}) :
                                    f \in {f \in FunctionsAt(result, defs) : RuleFor(manifest, f).skip}}
    <2>1. SelectionDiagnostics(manifest, result, k)
            = IF k[1] = DetailNamespace THEN IF k[2] \in manifest.detail THEN allowed ELSE refused
              ELSE IF k \notin DOMAIN manifest.variants THEN single ELSE mapped
      BY DEF SelectionDiagnostics
    <2>2. \A e \in single : e.code = "emit_implicit_single_overload"
      OBVIOUS
    <2>3. \A e \in mapped : e.code = "skip_variant_mapping"
      OBVIOUS
    <2>4. \A e \in allowed \cup refused : \E p \in defs : e.fn = result.functions[p]
      BY DEF FunctionsAt
    <2>. HIDE DEF allowed, refused, single, mapped
    <2>. QED
      BY <1>3, <1>6, <2>1, <2>2, <2>3, <2>4
  <1>8. PICK p \in defs : d.fn = result.functions[p]
    BY <1>7
  <1>9. p \in DOMAIN result.functions /\ Key(result.functions[p]) = k
    BY DEF Overloads, deduplicateFunctions
  <1>10. d.fn.ns = k[1]
    BY <1>8, <1>9 DEF Key
  <1>. QED
    BY <1>3, <1>7, <1>8, <1>9, <1>10 DEF AllFunctions, FunctionsAt

\* The one decision about a declaration that is not internal is its rule.
LEMMA WhichDecision ==
  ASSUME NEW manifest, NEW results, Located(results), Walked(results),
         NEW d \in AllDecisions(manifest, results), NEW x \in parseIR(results), d.id = x.id,
         x.fn.ns # DetailNamespace
  PROVE  /\ d.id = declIDFor(parseIR(results), Key(x.fn), Signature(x.fn))
         /\ Key(x.fn) \in DOMAIN manifest.variants
         /\ \E r \in ToSet(manifest.variants[Key(x.fn)]) :
              LET cname == cFuncName(x.fn.ns, x.fn.name, r.suffix)
              IN  /\ r.sig = Signature(x.fn)
                  /\ d = Decision("variant_mapping", d.id, variantAction(r, cname), cname, <<Key(x.fn), r>>)
  <1>. DEFINE parsed == parseIR(results)
  <1>0. x.id # NoId
    BY SameId
  <1>1. ASSUME d \in parseDetailDecisions(typePolicyIR(manifest, results)) PROVE FALSE
    <2>1. PICK y \in typePolicyIR(manifest, results) : y.fn.ns = DetailNamespace /\ d.id = y.id
      BY <1>1 DEF parseDetailDecisions, Decision
    <2>2. \E m : y.id = <<m, y.fn.file, Key(y.fn), Signature(y.fn)>>
      BY DEF typePolicyIR, declID
    <2>3. \E m : x.id = <<m, x.fn.file, Key(x.fn), Signature(x.fn)>>
      BY DEF parseIR, FromParseResult, declID
    <2>a. PICK m : y.id = <<m, y.fn.file, Key(y.fn), Signature(y.fn)>>
      BY <2>2
    <2>b. PICK n : x.id = <<n, x.fn.file, Key(x.fn), Signature(x.fn)>>
      BY <2>3
    <2>4. Key(y.fn) = Key(x.fn)
      <3>1. y.id = x.id
        BY <2>1
      <3>2. y.id[3] = Key(y.fn)
        BY ONLY <2>a
      <3>3. x.id[3] = Key(x.fn)
        BY ONLY <2>b
      <3>. QED
        BY <3>1, <3>2, <3>3
    <2>. QED
      BY <2>1, <2>4 DEF Key
  <1>2. ASSUME d \in parseDiagnosticDecisions(parsed, AllDiagnostics(manifest, results)) PROVE FALSE
    <2>. DEFINE diags == AllDiagnostics(manifest, results)
                A == {Decision(detailDiagnosticSource(e[2].code), declIDAt(parsed, e[2].fn), "skip", << >>, e) :
                        e \in {e \in diags : detailDiagnosticSource(e[2].code) # "none" /\ declIDAt(parsed, e[2].fn) # NoId}}
    <2>1. d.id = NoId \/ \E e \in diags : detailDiagnosticSource(e[2].code) # "none" /\ d.id = declIDAt(parsed, e[2].fn)
      BY <1>2 DEF parseDiagnosticDecisions, Decision
    <2>2. PICK e \in diags : detailDiagnosticSource(e[2].code) # "none" /\ d.id = declIDAt(parsed, e[2].fn)
      BY <1>0, <2>1
    <2>3. e[2].fn.ns = DetailNamespace /\ e[2].fn \in AllFunctions(results)
      BY <2>2, DetailDiagnostics
    <2>4. PICK y \in parsed : y.fn.file = e[2].fn.file /\ y.fn.line = e[2].fn.line /\ d.id = y.id
      BY <1>0, <2>2, DeclarationAt
    <2>5. y.fn = e[2].fn
      BY <2>3, <2>4, DeclaredFunction DEF Located
    <2>6. Key(y.fn) = Key(x.fn)
      BY <2>4, SameId
    <2>. QED
      BY <2>3, <2>5, <2>6 DEF Key
  <1>3. d \in parseVariantDecisions(manifest, parsed)
    BY <1>1, <1>2 DEF AllDecisions, EmitDecisions
  <1>. DEFINE cname(k, r) == cFuncName(k[1], k[2], r.suffix)
              about(k, r) == Decision("variant_mapping", declIDFor(parsed, k, r.sig),
                                      variantAction(r, cname(k, r)), cname(k, r), <<k, r>>)
  <1>4. \E k \in DOMAIN manifest.variants : \E r \in ToSet(manifest.variants[k]) : d = about(k, r)
    <2>. DEFINE ruled == UNION {{<<k, r>> : r \in ToSet(manifest.variants[k])} : k \in DOMAIN manifest.variants}
    <2>1. \A z \in ruled : \E k \in DOMAIN manifest.variants : \E r \in ToSet(manifest.variants[k]) : z = <<k, r>>
      OBVIOUS
    <2>2. d.id = NoId \/ \E z \in ruled : d = Decision("variant_mapping", declIDFor(parsed, z[1], z[2].sig),
                variantAction(z[2], cname(z[1], z[2])), cname(z[1], z[2]), z)
      BY <1>3 DEF parseVariantDecisions, Decision
    <2>3. PICK z \in ruled : d = Decision("variant_mapping", declIDFor(parsed, z[1], z[2].sig),
                variantAction(z[2], cname(z[1], z[2])), cname(z[1], z[2]), z)
      BY <1>0, <2>2
    <2>4. PICK k \in DOMAIN manifest.variants : \E r \in ToSet(manifest.variants[k]) : z = <<k, r>>
      BY <2>1
    <2>a. PICK r \in ToSet(manifest.variants[k]) : z = <<k, r>>
      BY <2>4
    <2>5. z[1] = k /\ z[2] = r
      BY <2>a
    <2>. HIDE DEF ruled
    <2>6. d = about(k, r)
      BY <2>3, <2>4, <2>5
    <2>. QED
      BY <2>6
  <1>b. PICK k \in DOMAIN manifest.variants : \E r \in ToSet(manifest.variants[k]) : d = about(k, r)
    BY <1>4
  <1>c. PICK r \in ToSet(manifest.variants[k]) : d = about(k, r)
    BY <1>b
  <1>5. d.id = declIDFor(parsed, k, r.sig)
    BY <1>c DEF Decision
  <1>6. PICK y \in parsed : Key(y.fn) = k /\ Signature(y.fn) = r.sig /\ d.id = y.id
    BY <1>0, <1>5, DeclarationOf
  <1>7. Key(x.fn) = k /\ Signature(x.fn) = r.sig
    BY <1>6, SameId
  <1>8. x.fn.ns = k[1] /\ x.fn.name = k[2]
    BY <1>7 DEF Key
  <1>9. d = Decision("variant_mapping", d.id, variantAction(r, cname(k, r)), cname(k, r), <<k, r>>)
    BY <1>c, <1>5
  <1>. QED
    BY <1>5, <1>7, <1>8, <1>9

\* Whatever is parsed is declared by some overload that is kept.
LEMMA DecidedOnce ==
  ASSUME NEW decisions, NEW parsed, checkDecisionCoverage(parsed, decisions), NEW x \in parsed
  PROVE  \E d \in decisions : d.id = x.id
  <1>. DEFINE S == {d \in decisions : d.id = x.id}
  <1>1. Cardinality(S) = 1
    BY DEF checkDecisionCoverage
  <1>2. S # {}
    BY <1>1, FS_EmptySet
  <1>. QED
    BY <1>2

\* An overload of a module is a declaration of the parse.
LEMMA OverloadDeclared ==
  ASSUME NEW m \in DOMAIN Now, NEW k, NEW p \in Overloads(Now[m], k)
  PROVE  /\ Key(Now[m].functions[p]) = k
         /\ \E x \in parseIR(Now) : x.fn = Now[m].functions[p] /\ x.id = declID(m, Now[m].functions[p])
  <1>. DEFINE x == [id |-> declID(m, Now[m].functions[p]), fn |-> Now[m].functions[p]]
  <1>1. p \in deduplicateFunctions(Now[m].functions) /\ Key(Now[m].functions[p]) = k
    BY DEF Overloads
  <1>2. x \in FromParseResult(m, Now[m])
    BY <1>1 DEF FromParseResult, FunctionsAt
  <1>3. x \in parseIR(Now)
    BY <1>2 DEF parseIR
  <1>4. x.fn = Now[m].functions[p] /\ x.id = declID(m, Now[m].functions[p])
    OBVIOUS
  <1>. HIDE DEF x
  <1>. QED
    BY <1>1, <1>3, <1>4

\* A declaration of the parse is an overload of its module.
LEMMA DeclarationOverload ==
  ASSUME NEW x \in parseIR(Now)
  PROVE  \E m \in DOMAIN Now : /\ Key(x.fn) \in Keys(Now[m])
                               /\ \E p \in Overloads(Now[m], Key(x.fn)) : x.fn = Now[m].functions[p]
  <1>1. PICK m \in DOMAIN Now : x \in FromParseResult(m, Now[m])
    BY DEF parseIR
  <1>2. PICK p \in deduplicateFunctions(Now[m].functions) : x.fn = Now[m].functions[p]
    BY <1>1 DEF FromParseResult, FunctionsAt
  <1>3. p \in DOMAIN Now[m].functions
    BY <1>2 DEF deduplicateFunctions
  <1>4. Key(x.fn) \in Keys(Now[m])
    BY <1>2, <1>3 DEF Keys, FunctionsAt
  <1>5. p \in Overloads(Now[m], Key(x.fn))
    BY <1>2 DEF Overloads
  <1>. QED
    BY <1>2, <1>4, <1>5

\* What the parse decides about an overload that is not internal is its rule.
LEMMA OverloadRuled ==
  ASSUME checkDecisionCoverage(parseIR(Now), AllDecisions(Manifest, Now)),
         NEW m \in DOMAIN Now, NEW k, k[1] # DetailNamespace, NEW p \in Overloads(Now[m], k)
  PROVE  /\ k \in DOMAIN Manifest.variants
         /\ \E r \in ToSet(Manifest.variants[k]) : r.sig = Signature(Now[m].functions[p])
  <1>1. Key(Now[m].functions[p]) = k
    BY OverloadDeclared
  <1>2. PICK x \in parseIR(Now) : x.fn = Now[m].functions[p]
    BY OverloadDeclared
  <1>3. PICK d \in AllDecisions(Manifest, Now) : d.id = x.id
    BY DecidedOnce
  <1>4. x.fn.ns = k[1]
    BY <1>1, <1>2 DEF Key
  <1>5. Located(Now) /\ Walked(Now)
    BY NowLocated
  <1>6. Key(x.fn) \in DOMAIN Manifest.variants
          /\ \E r \in ToSet(Manifest.variants[Key(x.fn)]) : r.sig = Signature(x.fn)
    BY <1>3, <1>4, <1>5, WhichDecision
  <1>. QED
    BY <1>1, <1>2, <1>6

\* A rule that is let through names a declaration.
LEMMA RuleDeclared ==
  ASSUME checkDecisionDeclIDs(AllDecisions(Manifest, Now)),
         NEW k \in DOMAIN Manifest.variants, NEW r \in ToSet(Manifest.variants[k])
  PROVE  \E x \in parseIR(Now) : Key(x.fn) = k /\ Signature(x.fn) = r.sig
  <1>. DEFINE parsed == parseIR(Now)
              cname(q, s) == cFuncName(q[1], q[2], s.suffix)
              ruled == UNION {{<<q, s>> : s \in ToSet(Manifest.variants[q])} : q \in DOMAIN Manifest.variants}
              about(z) == Decision("variant_mapping", declIDFor(parsed, z[1], z[2].sig),
                                   variantAction(z[2], cname(z[1], z[2])), cname(z[1], z[2]), z)
              z0 == <<k, r>>
  <1>1. z0 \in ruled
    OBVIOUS
  <1>2. {about(z) : z \in ruled} \subseteq parseVariantDecisions(Manifest, parsed)
    BY DEF parseVariantDecisions
  <1>3. about(z0).source = "variant_mapping" /\ about(z0).id = declIDFor(parsed, z0[1], z0[2].sig)
    BY DEF Decision
  <1>. HIDE DEF about, ruled
  <1>4. about(z0) \in AllDecisions(Manifest, Now)
    BY <1>1, <1>2 DEF AllDecisions, EmitDecisions
  <1>5. about(z0).id # NoId
    BY <1>3, <1>4 DEF checkDecisionDeclIDs
  <1>6. declIDFor(parsed, k, r.sig) # NoId
    BY <1>3, <1>5
  <1>. QED
    BY <1>6, DeclarationOf

\* The selection of a module that parse has found in order does not fail.
LEMMA SelectionOfParsed ==
  ASSUME ParseFound, OneModuleEach, NEW m \in Modules(Manifest), NEW k \in Keys(Present(m))
  PROVE  ~SelectionFails(Manifest, Present(m), k)
  <1>1. m \in DOMAIN Now /\ Now[m] = Present(m) /\ DOMAIN Now = Modules(Manifest)
    BY DEF Now
  <1>2. /\ checkDecisionDeclIDs(AllDecisions(Manifest, Now))
        /\ checkDecisionCoverage(parseIR(Now), AllDecisions(Manifest, Now))
    BY DEF ParseFound
  <1>. DEFINE defs  == Overloads(Present(m), k)
              ruled == {r.sig : r \in ToSet(Rules(Manifest, k))}
              found == {Signature(f) : f \in FunctionsAt(Present(m), defs)}
  <1>. SUFFICES ASSUME k[1] # DetailNamespace,
                       IF k \in DOMAIN Manifest.variants THEN ruled # found ELSE Cardinality(defs) > 1
                PROVE  FALSE
    BY DEF SelectionFails
  <1>3. \A p \in defs : k \in DOMAIN Manifest.variants
                          /\ \E r \in ToSet(Manifest.variants[k]) : r.sig = Signature(Present(m).functions[p])
    BY <1>1, <1>2, OverloadRuled
  <1>4. k \in DOMAIN Manifest.variants
    <2>. SUFFICES ASSUME k \notin DOMAIN Manifest.variants PROVE FALSE
      OBVIOUS
    <2>1. Cardinality(defs) > 1
      OBVIOUS
    <2>2. defs # {}
      <3>. SUFFICES ASSUME defs = {} PROVE FALSE
        OBVIOUS
      <3>1. Cardinality(defs) = 0
        BY FS_EmptySet
      <3>. QED
        BY <2>1, <3>1
    <2>. QED
      BY <2>2, <1>3
  <1>5. Rules(Manifest, k) = Manifest.variants[k]
    BY <1>4 DEF Rules
  <1>6. ASSUME NEW s \in found PROVE s \in ruled
    <2>1. PICK p \in defs : s = Signature(Present(m).functions[p])
      BY <1>6 DEF FunctionsAt
    <2>2. PICK r \in ToSet(Manifest.variants[k]) : r.sig = Signature(Present(m).functions[p])
      BY <1>3
    <2>. QED
      BY <1>5, <2>1, <2>2
  <1>7. ASSUME NEW r \in ToSet(Manifest.variants[k]) PROVE r.sig \in found
    <2>1. PICK x \in parseIR(Now) : Key(x.fn) = k /\ Signature(x.fn) = r.sig
      BY <1>2, <1>4, RuleDeclared
    <2>2. PICK n \in DOMAIN Now : /\ Key(x.fn) \in Keys(Now[n])
                                  /\ \E p \in Overloads(Now[n], Key(x.fn)) : x.fn = Now[n].functions[p]
      BY DeclarationOverload
    <2>3. n = m
      <3>1. k \in Keys(Present(n)) /\ n \in Modules(Manifest)
        BY <2>1, <2>2 DEF Now
      <3>2. n # m => Keys(Present(n)) \cap Keys(Present(m)) = {}
        BY <3>1 DEF OneModuleEach, Present
      <3>. QED
        BY <3>1, <3>2
    <2>4. PICK p \in defs : x.fn = Present(m).functions[p]
      BY <1>1, <2>1, <2>2, <2>3
    <2>. QED
      BY <2>1, <2>4 DEF FunctionsAt
  <1>8. ruled = found
    BY <1>5, <1>6, <1>7
  <1>. QED
    BY <1>4, <1>8

LEMMA FoundSelection == ASSUME FoundInv PROVE ParsePredicts
  <1>. SUFFICES ASSUME Passed({"parse"}), OneModuleEach, NEW m \in Modules(Manifest)
                PROVE  FailedKeys(Manifest, Present(m)) = {}
    BY DEF ParsePredicts, Present
  <1>1. ParseFound
    BY DEF Passed, FoundInv
  <1>. QED
    BY <1>1, SelectionOfParsed DEF FailedKeys

\* When parse has passed, in whatever history of runs, edits and kills, and no overloads
\* of a name are spread over two modules, the selection of generate fails in no module
\* (checkDecisionCoverage and checkDecisionDeclIDs against selectVariantsWithPolicy).
THEOREM ParseForesees == Spec => []ParsePredicts
  <1>1. StateInv => ParsePredicts
    BY FoundSelection DEF StateInv
  <1>. QED
    BY <1>1, RepositoryState, PTL

(***************************************************************************)
(* Overloads are in order.                                                 *)
(***************************************************************************)

\* A strict order of a finite set has a least element.
LEMMA LeastOf ==
  ASSUME NEW S, IsFiniteSet(S), S # {}, NEW below \in [S -> SUBSET S],
         \A x \in S : x \notin below[x] /\ \A y \in below[x] : below[y] \subseteq below[x]
  PROVE  \E x \in S : below[x] = {}
  <1>. DEFINE C == {Cardinality(below[x]) : x \in S}
  <1>1. \A x \in S : IsFiniteSet(below[x]) /\ Cardinality(below[x]) \in Nat
    <2>. TAKE x \in S
    <2>1. below[x] \in SUBSET S
      OBVIOUS
    <2>2. IsFiniteSet(below[x])
      BY <2>1, FS_Subset
    <2>. QED
      BY <2>2, FS_CardinalityType
  <1>2. C \subseteq Nat /\ C # {}
    BY <1>1
  <1>3. PICK n \in C : \A j \in C : ~ (<<j, n>> \in OpToRel(<, Nat))
    BY <1>2, NatLessThanWellFounded, WFMin, Zenon
  <1>4. \A j \in C : ~ (j < n)
    BY <1>2, <1>3 DEF OpToRel
  <1>5. PICK x \in S : n = Cardinality(below[x])
    BY <1>3
  <1>6. ASSUME NEW y \in below[x] PROVE FALSE
    <2>1. y \in S /\ below[y] \in SUBSET below[x] /\ below[y] # below[x]
      BY <1>6
    <2>2. Cardinality(below[y]) <= Cardinality(below[x]) /\ Cardinality(below[x]) # Cardinality(below[y])
      BY <1>1, <2>1, FS_Subset
    <2>3. Cardinality(below[y]) \in C
      BY <2>1
    <2>. HIDE DEF C
    <2>. QED
      BY <1>1, <1>4, <1>5, <2>1, <2>2, <2>3
  <1>. QED
    BY <1>6

LEMMA PlacesOrdered ==
  ASSUME NEW p \in Nat \X Nat, NEW q \in Nat \X Nat
  PROVE  /\ p = q \/ Earlier(p, q) \/ Earlier(q, p)
         /\ ~Earlier(p, p)
         /\ \A r \in Nat \X Nat : Earlier(p, q) /\ Earlier(q, r) => Earlier(p, r)
  BY DEF Earlier

\* A module has finitely many functions, each at a place of its headers.
LEMMA Places ==
  ASSUME WorldOK, AllThere, NEW m \in Modules(Manifest)
  PROVE  /\ IsFiniteSet(DOMAIN Present(m).functions)
         /\ DOMAIN Present(m).functions \subseteq Nat \X Nat
         /\ \A p \in DOMAIN Present(m).functions :
              LET f == Present(m).functions[p]
              IN  /\ DOMAIN f = {"ns", "name", "ret", "params", "doc", "file", "line", "suffix"}
                  /\ Len(f.params) \in Nat /\ f.suffix = << >>
                  /\ f.name \in Seq(ToSet(f.name))
  <1>. DEFINE headers == ModuleNamed(Manifest, m).headers
              nodes(h) == world.ast[work][headers[h]]
              parts   == [i \in DOMAIN headers |-> ParsedAt(work, headers[i])]
              box(h)  == {h} \X DOMAIN parts[h].functions
              Boxes   == {box(h) : h \in DOMAIN parts}
  <1>1. PICK i \in 1..Len(Manifest.modules) : m = Manifest.modules[i].name
    <2>1. DOMAIN Manifest.modules = 1..Len(Manifest.modules)
      BY WorldFacts, LenProperties
    <2>. QED
      BY <2>1 DEF Modules, ToSet
  <1>2. ModuleNamed(Manifest, m) = Manifest.modules[i] /\ i \in DOMAIN Manifest.modules
    <2>1. DOMAIN Manifest.modules = 1..Len(Manifest.modules)
      BY WorldFacts, LenProperties
    <2>. QED
      BY <1>1, <2>1, ModuleAt DEF AllThere
  <1>3. headers \in Seq(ToSet(headers)) /\ ToSet(headers) \subseteq DOMAIN world.text[work]
    BY <1>2, WorldFacts DEF AllThere
  <1>4. \A h \in DOMAIN headers :
          /\ nodes(h) \in Seq(ToSet(nodes(h)))
          /\ \A n \in ToSet(nodes(h)) : n.kind = "function" =>
                n.name \in Seq(ToSet(n.name)) /\ n.params \in Seq(ToSet(n.params))
    <2>1. Texts(world) /\ work \in DOMAIN world.text
      BY WorldFacts DEF WorldOK, Revisions
    <2>2. \A h \in DOMAIN headers : headers[h] \in DOMAIN world.text[work]
      BY <1>3 DEF ToSet
    <2>. QED
      BY <2>1, <2>2 DEF Texts
  <1>5. \A h \in DOMAIN headers : DOMAIN nodes(h) = 1..Len(nodes(h)) /\ Len(nodes(h)) \in Nat
    BY <1>4, LenProperties
  <1>6. DOMAIN headers = 1..Len(headers) /\ Len(headers) \in Nat /\ DOMAIN parts = DOMAIN headers
    BY <1>3, LenProperties
  <1>7. ASSUME NEW h \in DOMAIN headers PROVE DOMAIN parts[h].functions \subseteq DOMAIN nodes(h)
    <2>1. parts[h] = ParsedAt(work, headers[h])
      BY <1>7
    <2>2. DOMAIN ParsedAt(work, headers[h]).functions \subseteq DOMAIN nodes(h)
      BY DEF ParsedAt, walkAST
    <2>. HIDE DEF parts
    <2>. QED
      BY <2>1, <2>2
  <1>8. ASSUME NEW h \in DOMAIN headers PROVE IsFiniteSet(box(h)) /\ box(h) \subseteq Nat \X Nat
    <2>. DEFINE D == DOMAIN parts[h].functions
    <2>1. D \subseteq 1..Len(nodes(h)) /\ Len(nodes(h)) \in Nat
      BY <1>5, <1>7
    <2>. HIDE DEF D
    <2>a. IsFiniteSet(1..Len(nodes(h)))
      <3>1. 1 \in Int /\ Len(nodes(h)) \in Int
        BY <2>1
      <3>. QED
        BY <3>1, FS_Interval, Zenon
    <2>b. IsFiniteSet(D)
      <3>1. D \in SUBSET (1..Len(nodes(h)))
        BY <2>1
      <3>. QED
        BY <3>1, <2>a, FS_Subset, Zenon
    <2>c. 1..Len(nodes(h)) \subseteq Nat
      BY <2>1
    <2>2. IsFiniteSet(D) /\ D \subseteq Nat
      BY <2>1, <2>b, <2>c, Zenon
    <2>3. h \in Nat
      BY <1>6
    <2>4. IsFiniteSet({h} \X D) /\ {h} \X D \subseteq Nat \X Nat
      BY <2>2, <2>3, FS_Singleton, FS_Product
    <2>. QED
      BY <2>4 DEF D
  <1>9. DOMAIN Present(m).functions = UNION Boxes
    BY DEF Present, ModuleResult, ParseFiles, mergeParseResult
  <1>10. IsFiniteSet(Boxes)
    <2>1. IsFiniteSet(DOMAIN headers)
      BY <1>3, PlacesFinite
    <2>. HIDE DEF box
    <2>2. [h \in DOMAIN parts |-> box(h)] \in Surjection(DOMAIN parts, Boxes)
      BY DEF Surjection
    <2>. QED
      BY <1>6, <2>1, <2>2, FS_Surjection
  <1>11. \A B \in Boxes : IsFiniteSet(B) /\ B \subseteq Nat \X Nat
    BY <1>6, <1>8
  <1>12. IsFiniteSet(DOMAIN Present(m).functions) /\ DOMAIN Present(m).functions \subseteq Nat \X Nat
    <2>. HIDE DEF Boxes
    <2>1. IsFiniteSet(UNION Boxes)
      BY <1>10, <1>11, FS_UNION
    <2>2. UNION Boxes \subseteq Nat \X Nat
      BY <1>11
    <2>. QED
      BY <1>9, <2>1, <2>2
  <1>13. ASSUME NEW p \in DOMAIN Present(m).functions
         PROVE  LET f == Present(m).functions[p]
                IN  /\ DOMAIN f = {"ns", "name", "ret", "params", "doc", "file", "line", "suffix"}
                    /\ Len(f.params) \in Nat /\ f.suffix = << >>
                    /\ f.name \in Seq(ToSet(f.name))
    <2>. DEFINE f == Present(m).functions[p]
                ns == nodes(p[1])
                node == ns[p[2]]
    <2>1. /\ p[1] \in DOMAIN headers /\ p[2] \in DOMAIN ns /\ node.kind = "function"
          /\ f = extractFunction(node, p[2], headers[p[1]], world.alias[work]) /\ f.suffix = << >>
      BY FunctionFrom
    <2>2. node \in ToSet(ns)
      BY <2>1 DEF ToSet
    <2>3. node.name \in Seq(ToSet(node.name)) /\ node.params \in Seq(ToSet(node.params))
      BY <1>4, <2>1, <2>2
    <2>. HIDE DEF f, node
    <2>4. /\ DOMAIN f = {"ns", "name", "ret", "params", "doc", "file", "line", "suffix"}
          /\ f.name = node.name /\ f.params = [j \in DOMAIN node.params |-> normalizeType(node.params[j])]
      BY <2>1 DEF extractFunction
    <2>5. Len(node.params) \in Nat /\ DOMAIN f.params = 1..Len(node.params)
      BY <2>3, <2>4, LenProperties
    <2>6. f.params \in Seq({f.params[j] : j \in DOMAIN f.params})
      BY <2>4, <2>5, SeqDef
    <2>7. Len(f.params) \in Nat
      BY <2>6, LenProperties
    <2>. QED
      BY <2>1, <2>3, <2>4, <2>7 DEF f
  <1>. QED
    BY <1>12, <1>13

\* Of the declarations of one overload, one is kept.
LEMMA OverloadKept ==
  ASSUME WorldOK, AllThere, NEW m \in Modules(Manifest), NEW p \in DOMAIN Present(m).functions
  PROVE  LET fs == Present(m).functions
         IN  \E q \in Overloads(Present(m), Key(fs[p])) : Signature(fs[q]) = Signature(fs[p])
  <1>. DEFINE fs == Present(m).functions
              S == {q \in DOMAIN fs : Key(fs[q]) = Key(fs[p]) /\ Signature(fs[q]) = Signature(fs[p])}
              below == [x \in S |-> {y \in S : Earlier(y, x)}]
  <1>1. IsFiniteSet(DOMAIN fs) /\ DOMAIN fs \subseteq Nat \X Nat
    BY Places
  <1>2. S \in SUBSET (DOMAIN fs) /\ p \in S
    OBVIOUS
  <1>3. IsFiniteSet(S) /\ S # {} /\ S \subseteq Nat \X Nat
    BY <1>1, <1>2, FS_Subset
  <1>. HIDE DEF S, fs
  <1>4. \A x \in S : x \notin below[x] /\ \A y \in below[x] : below[y] \subseteq below[x]
    BY <1>3, PlacesOrdered
  <1>5. PICK q \in S : below[q] = {}
    BY <1>3, <1>4, LeastOf
  <1>6. \A y \in S : ~Earlier(y, q)
    BY <1>5
  <1>7. q \in deduplicateFunctions(fs)
    BY <1>6 DEF deduplicateFunctions, S
  <1>. QED
    BY <1>7 DEF Overloads, S, fs

\* Two overloads that are kept differ in their parameters or in what they return.
LEMMA OverloadsDiffer ==
  ASSUME WorldOK, AllThere, NEW m \in Modules(Manifest), NEW k,
         NEW p \in Overloads(Present(m), k), NEW q \in Overloads(Present(m), k),
         Signature(Present(m).functions[p]) = Signature(Present(m).functions[q])
  PROVE  p = q
  <1>. DEFINE fs == Present(m).functions
  <1>1. /\ p \in deduplicateFunctions(fs) /\ q \in deduplicateFunctions(fs)
        /\ Key(fs[p]) = k /\ Key(fs[q]) = k
    BY DEF Overloads
  <1>2. p \in DOMAIN fs /\ q \in DOMAIN fs /\ ~Earlier(p, q) /\ ~Earlier(q, p)
    BY <1>1 DEF deduplicateFunctions
  <1>3. p \in Nat \X Nat /\ q \in Nat \X Nat
    BY <1>2, Places
  <1>. QED
    BY <1>2, <1>3, PlacesOrdered

\* The first overload of a function is one of them.
LEMMA FirstOfDefs ==
  ASSUME WorldOK, AllThere, NEW m \in Modules(Manifest), NEW k \in Keys(Present(m))
  PROVE  FirstOf(Present(m), Overloads(Present(m), k)) \in Overloads(Present(m), k)
  <1>. DEFINE result == Present(m)
              defs   == Overloads(result, k)
              n(x)   == Len(result.functions[x].params)
              below  == [x \in defs |-> {y \in defs : Before(result, y, x)}]
  <1>1. /\ IsFiniteSet(DOMAIN result.functions) /\ DOMAIN result.functions \subseteq Nat \X Nat
        /\ \A p \in DOMAIN result.functions : n(p) \in Nat
    BY Places
  <1>2. defs \in SUBSET (DOMAIN result.functions)
    BY DEF Overloads, deduplicateFunctions
  <1>3. defs # {}
    <2>1. PICK p \in DOMAIN result.functions : k = Key(result.functions[p])
      BY DEF Keys, FunctionsAt
    <2>. QED
      BY <2>1, OverloadKept
  <1>4. IsFiniteSet(defs) /\ defs \subseteq Nat \X Nat /\ \A p \in defs : n(p) \in Nat
    BY <1>1, <1>2, FS_Subset
  <1>5. \A x, y : Before(result, x, y) <=> n(x) > n(y) \/ (n(x) = n(y) /\ Earlier(x, y))
    BY DEF Before
  <1>. HIDE DEF defs, n
  <1>6. \A x \in defs : x \notin below[x] /\ \A y \in below[x] : below[y] \subseteq below[x]
    <2>1. \A x \in defs : ~Before(result, x, x)
      BY <1>4, <1>5, PlacesOrdered
    <2>2. ASSUME NEW x \in defs, NEW y \in defs, NEW z \in defs, Before(result, z, y), Before(result, y, x)
          PROVE  Before(result, z, x)
      <3>1. n(x) \in Nat /\ n(y) \in Nat /\ n(z) \in Nat /\ x \in Nat \X Nat /\ y \in Nat \X Nat /\ z \in Nat \X Nat
        BY <1>4
      <3>2. Earlier(z, y) /\ Earlier(y, x) => Earlier(z, x)
        BY <3>1, PlacesOrdered
      <3>. QED
        BY <1>5, <2>2, <3>1, <3>2
    <2>. QED
      BY <2>1, <2>2
  <1>7. PICK p \in defs : below[p] = {}
    BY <1>3, <1>4, <1>6, LeastOf
  <1>8. \A q \in defs \ {p} : Before(result, p, q)
    <2>. SUFFICES ASSUME NEW q \in defs \ {p} PROVE Before(result, p, q)
      OBVIOUS
    <2>1. ~Before(result, q, p)
      BY <1>7
    <2>2. p \in Nat \X Nat /\ q \in Nat \X Nat /\ n(p) \in Nat /\ n(q) \in Nat
      BY <1>4
    <2>3. Earlier(p, q) \/ Earlier(q, p)
      BY <2>2, PlacesOrdered
    <2>. QED
      BY <1>5, <2>1, <2>2, <2>3
  <1>9. (CHOOSE x \in defs : \A q \in defs \ {x} : Before(result, x, q)) \in defs
    BY <1>8
  <1>. QED
    BY <1>9 DEF FirstOf, defs

(***************************************************************************)
(* The functions a module emits, and the decisions about them.             *)
(***************************************************************************)
CName0(k, r) == cFuncName(k[1], k[2], r.suffix)
Identity(m, g) == <<m, g.file, Key(g), Signature(g)>>

\* A verdict of parse and one of check that are still good.
BothFound == WorldOK /\ CheckFound /\ ParseFound

LEMMA NoneFails ==
  ASSUME BothFound, NEW m \in Modules(Manifest)
  PROVE  FailedKeys(Manifest, Present(m)) = {} /\ AllThere
  <1>1. DOMAIN Manifest.modules = 1..Len(Manifest.modules)
    BY WorldFacts, LenProperties DEF BothFound
  <1>2. PICK i \in 1..Len(Manifest.modules) : m = Manifest.modules[i].name
    BY <1>1 DEF Modules, ToSet
  <1>. QED
    BY <1>2 DEF BothFound, CheckFound, Fits

\* Two rules of one function are about different overloads.
LEMMA OneRule ==
  ASSUME Loads(Manifest), NEW k \in DOMAIN Manifest.variants,
         NEW r \in ToSet(Manifest.variants[k]), NEW s \in ToSet(Manifest.variants[k]), r.sig = s.sig
  PROVE  r = s
  <1>. DEFINE rs == Manifest.variants[k]
  <1>1. PICK i \in DOMAIN rs : r = rs[i]
    BY DEF ToSet
  <1>2. PICK j \in DOMAIN rs : s = rs[j]
    BY DEF ToSet
  <1>3. \A a, b \in DOMAIN rs : rs[a].sig = rs[b].sig => a = b
    BY DEF Loads, validate
  <1>. QED
    BY <1>1, <1>2, <1>3

\* An overload that is not internal has one rule, the one RuleFor finds.
LEMMA RuleOf ==
  ASSUME BothFound, NEW m \in Modules(Manifest), NEW k, k[1] # DetailNamespace, NEW p \in Overloads(Present(m), k)
  PROVE  LET f == Present(m).functions[p]
         IN  /\ Key(f) = k /\ k \in DOMAIN Manifest.variants
             /\ RuleFor(Manifest, f) \in ToSet(Manifest.variants[k])
             /\ RuleFor(Manifest, f).sig = Signature(f)
             /\ \A r \in ToSet(Manifest.variants[k]) : r.sig = Signature(f) => r = RuleFor(Manifest, f)
  <1>. DEFINE f == Present(m).functions[p]
  <1>1. m \in DOMAIN Now /\ Now[m] = Present(m)
    BY DEF Now
  <1>2. checkDecisionCoverage(parseIR(Now), AllDecisions(Manifest, Now)) /\ Loads(Manifest)
    BY DEF BothFound, ParseFound, AllThere
  <1>3. Key(f) = k
    BY DEF Overloads
  <1>4. k \in DOMAIN Manifest.variants /\ \E r \in ToSet(Manifest.variants[k]) : r.sig = Signature(f)
    BY <1>1, <1>2, OverloadRuled
  <1>5. RuleFor(Manifest, f) = CHOOSE r \in ToSet(Manifest.variants[k]) : r.sig = Signature(f)
    BY <1>3, <1>4 DEF RuleFor, Rules
  <1>6. RuleFor(Manifest, f) \in ToSet(Manifest.variants[k]) /\ RuleFor(Manifest, f).sig = Signature(f)
    BY <1>4, <1>5
  <1>. QED
    BY <1>2, <1>3, <1>4, <1>6, OneRule

\* Where a function that is emitted comes from.
LEMMA EmittedFrom ==
  ASSUME BothFound, NEW m \in Modules(Manifest), NEW g \in selectFunctions(Manifest, Present(m))
  PROVE  \E p \in Overloads(Present(m), Key(g)) :
           LET f == Present(m).functions[p]
           IN  /\ Key(f) = Key(g) /\ Signature(f) = Signature(g) /\ f.file = g.file
               /\ g.ns # DetailNamespace => ~RuleFor(Manifest, f).skip /\ g.suffix = RuleFor(Manifest, f).suffix
               /\ g.ns = DetailNamespace => g.suffix = << >> /\ g.name \in Seq(ToSet(g.name))
  <1>. DEFINE result == Present(m)
  <1>1. PICK k \in Keys(result) : g \in Emitted(Manifest, result, k)
    BY DEF selectFunctions
  <1>2. PICK p \in selectVariants(Manifest, result, k) : g = Chosen(Manifest, result.functions[p])
    BY <1>1 DEF Emitted
  <1>. DEFINE f == result.functions[p]
  <1>3. WorldOK /\ AllThere
    BY NoneFails DEF BothFound
  <1>4. k[1] # DetailNamespace => k \in DOMAIN Manifest.variants
    BY <1>3, FirstOfDefs, RuleOf
  <1>5. p \in Overloads(result, k) /\ (k[1] # DetailNamespace => ~RuleFor(Manifest, f).skip)
    <2>1. CASE k[1] = DetailNamespace
      <3>1. p = FirstOf(result, Overloads(result, k))
        BY <1>2, <2>1 DEF selectVariants
      <3>. QED
        BY <1>3, <2>1, <3>1, FirstOfDefs
    <2>2. CASE k[1] # DetailNamespace
      BY <1>2, <1>4, <2>2 DEF selectVariants
    <2>. QED
      BY <2>1, <2>2
  <1>6. Key(f) = k /\ p \in DOMAIN result.functions
    BY <1>5 DEF Overloads, deduplicateFunctions
  <1>7. /\ DOMAIN f = {"ns", "name", "ret", "params", "doc", "file", "line", "suffix"} /\ f.suffix = << >>
        /\ f.name \in Seq(ToSet(f.name))
    BY <1>3, <1>6, Places
  <1>8. f.ns = k[1]
    BY <1>6 DEF Key
  <1>. DEFINE rule == RuleFor(Manifest, f)
  <1>9. CASE k[1] = DetailNamespace
    <2>1. g = f
      BY <1>2, <1>8, <1>9 DEF Chosen, Ruled
    <2>. QED
      BY <1>5, <1>6, <1>7, <1>8, <1>9, <2>1
  <1>10. CASE k[1] # DetailNamespace
    <2>1. g = [f EXCEPT !.suffix = rule.suffix, !.doc = @ \/ rule.doc]
      BY <1>2, <1>4, <1>6, <1>8, <1>10 DEF Chosen, Ruled
    <2>. HIDE DEF f, rule
    <2>2. /\ g.ns = f.ns /\ g.name = f.name /\ g.ret = f.ret /\ g.params = f.params /\ g.file = f.file
          /\ g.suffix = rule.suffix
      BY <1>7, <2>1
    <2>3. Key(g) = Key(f) /\ Signature(g) = Signature(f) /\ g.ns # DetailNamespace
      BY <1>8, <1>10, <2>2 DEF Key, Signature
    <2>. QED
      BY <1>5, <1>6, <1>10, <2>2, <2>3 DEF f, rule
  <1>. QED
    BY <1>9, <1>10

\* One overload is parsed in one module only.
LEMMA OneModule ==
  ASSUME BothFound, NEW m \in Modules(Manifest), NEW n \in Modules(Manifest), NEW k, k[1] # DetailNamespace,
         NEW p \in Overloads(Present(m), k), NEW q \in Overloads(Present(n), k),
         Signature(Present(m).functions[p]) = Signature(Present(n).functions[q])
  PROVE  m = n
  <1>1. m \in DOMAIN Now /\ n \in DOMAIN Now /\ Now[m] = Present(m) /\ Now[n] = Present(n)
    BY DEF Now
  <1>2. checkDecisionCoverage(parseIR(Now), AllDecisions(Manifest, Now))
    BY DEF BothFound, ParseFound
  <1>3. Located(Now) /\ Walked(Now)
    BY NowLocated
  <1>4. ASSUME NEW o \in DOMAIN Now, NEW s \in Overloads(Now[o], k)
        PROVE  declID(o, Now[o].functions[s]) = declIDFor(parseIR(Now), k, Signature(Now[o].functions[s]))
    <2>1. Key(Now[o].functions[s]) = k
      BY <1>4, OverloadDeclared
    <2>2. PICK x \in parseIR(Now) : x.fn = Now[o].functions[s] /\ x.id = declID(o, Now[o].functions[s])
      BY <1>4, OverloadDeclared
    <2>3. PICK d \in AllDecisions(Manifest, Now) : d.id = x.id
      BY <1>2, DecidedOnce
    <2>4. x.fn.ns # DetailNamespace
      BY <2>1, <2>2 DEF Key
    <2>5. d.id = declIDFor(parseIR(Now), Key(x.fn), Signature(x.fn))
      BY <1>3, <2>3, <2>4, WhichDecision
    <2>. QED
      BY <2>1, <2>2, <2>3, <2>5
  <1>5. declID(m, Present(m).functions[p]) = declID(n, Present(n).functions[q])
    BY <1>1, <1>4
  <1>6. declID(m, Present(m).functions[p])[1] = m /\ declID(n, Present(n).functions[q])[1] = n
    BY DEF declID
  <1>. QED
    BY <1>5, <1>6

\* What is decided for a rule that is not skipped.
LEMMA RuleDecided ==
  ASSUME NEW k \in DOMAIN Manifest.variants, NEW r \in ToSet(Manifest.variants[k]), ~r.skip, ~HasHook(CName0(k, r))
  PROVE  \E d \in EmitDecisions(Manifest, Now) : d.action = "emit" /\ d.cname = CName0(k, r) /\ d.at = <<k, r>>
  <1>. DEFINE parsed == parseIR(Now)
              cname(q, s) == cFuncName(q[1], q[2], s.suffix)
              ruled == UNION {{<<q, s>> : s \in ToSet(Manifest.variants[q])} : q \in DOMAIN Manifest.variants}
              about(z) == Decision("variant_mapping", declIDFor(parsed, z[1], z[2].sig),
                                   variantAction(z[2], cname(z[1], z[2])), cname(z[1], z[2]), z)
              z0 == <<k, r>>
  <1>1. z0 \in ruled
    OBVIOUS
  <1>2. {about(z) : z \in ruled} \subseteq parseVariantDecisions(Manifest, parsed)
    BY DEF parseVariantDecisions
  <1>3. about(z0).action = variantAction(r, CName0(k, r)) /\ about(z0).cname = CName0(k, r) /\ about(z0).at = z0
    BY DEF Decision, CName0
  <1>. HIDE DEF about, ruled
  <1>4. about(z0) \in EmitDecisions(Manifest, Now)
    BY <1>1, <1>2 DEF EmitDecisions
  <1>5. variantAction(r, CName0(k, r)) = "emit"
    BY DEF variantAction
  <1>. QED
    BY <1>3, <1>4, <1>5

\* No hook stands for an internal function.
LEMMA DetailNotHooked ==
  ASSUME NEW name, name \in Seq(ToSet(name))
  PROVE  ~HasHook(cFuncName(DetailNamespace, name, << >>))
  <1>. DEFINE ns == cNamespace(DetailNamespace)
              all == ns \o name \o << >>
              T == {"mlx", "detail"} \cup ToSet(name)
  <1>1. ns \in Seq({"mlx", "detail"}) /\ Len(ns) = 2 /\ ns[2] = "detail"
    <2>. DEFINE d == <<"mlx", "core", "detail">>
                e == <<"mlx", "core", "cu">>
                tail == SubSeq(d, 3, 3)
                first == <<"mlx">>
                S == {"mlx", "detail"}
    <2>1. Len(d) = 3 /\ d[1] = "mlx" /\ d[2] = "core" /\ d[3] = "detail" /\ e[3] = "cu"
      OBVIOUS
    <2>2. first \in Seq(S) /\ Len(first) = 1
      OBVIOUS
    <2>4. DetailNamespace = d
      BY DEF DetailNamespace
    <2>5. ns = IF Len(d) >= 2 /\ d[1] = "mlx" /\ d[2] = "core"
               THEN IF d = e THEN <<"mlx", "cuda">> ELSE first \o SubSeq(d, 3, Len(d)) ELSE d
      BY <2>4 DEF cNamespace
    <2>. HIDE DEF d, e, ns, first, S
    <2>6. d # e
      BY <2>1
    <2>7. ns = first \o tail
      BY <2>1, <2>5, <2>6
    <2>8. \A i \in 3..3 : d[i] \in S
      BY <2>1 DEF S
    <2>9. tail \in Seq(S) /\ Len(tail) = 1 /\ tail[1] = "detail"
      <3>1. \A i \in 1..3-3+1 : SubSeq(d, 3, 3)[i] = d[3 + i - 1]
        BY <2>8, SubSeqProperties
      <3>2. SubSeq(d, 3, 3) \in Seq(S) /\ Len(SubSeq(d, 3, 3)) = 1
        BY <2>8, SubSeqProperties
      <3>. QED
        BY <2>1, <3>1, <3>2
    <2>. HIDE DEF tail
    <2>10. first \o tail \in Seq(S) /\ Len(first \o tail) = 2
      BY <2>2, <2>9, ConcatProperties
    <2>11. (first \o tail)[2] = "detail"
      <3>1. \A i \in 1..Len(first) + Len(tail) :
               (first \o tail)[i] = IF i <= Len(first) THEN first[i] ELSE tail[i - Len(first)]
        BY <2>2, <2>9, ConcatProperties
      <3>2. 2 \in 1..Len(first) + Len(tail) /\ ~(2 <= Len(first)) /\ 2 - Len(first) = 1
        BY <2>2, <2>9
      <3>. QED
        BY <2>9, <3>1, <3>2
    <2>. QED
      BY <2>7, <2>10, <2>11 DEF S
  <1>2. ns \in Seq(T) /\ Len(ns) = 2 /\ ns[2] = "detail" /\ name \in Seq(T)
    <2>1. name \in Seq(T) /\ (ns \in Seq({"mlx", "detail"}) => ns \in Seq(T))
      BY SeqMonotonic
    <2>. QED
      BY <1>1, <2>1
  <1>. HIDE DEF ns, T
  <1>3. ns \o name \in Seq(T) /\ (ns \o name)[2] = "detail"
    <2>1. Len(name) \in Nat
      BY <1>2, LenProperties
    <2>2. \A i \in 1..Len(ns) + Len(name) : (ns \o name)[i] = IF i <= Len(ns) THEN ns[i] ELSE name[i - Len(ns)]
      BY <1>2, ConcatProperties
    <2>3. 2 \in 1..Len(ns) + Len(name) /\ 2 <= Len(ns)
      BY <1>2, <2>1
    <2>4. ns \o name \in Seq(T)
      BY <1>2, ConcatProperties
    <2>5. (ns \o name)[2] = ns[2]
      BY <2>2, <2>3
    <2>. QED
      BY <1>2, <2>4, <2>5
  <1>4. all[2] = "detail"
    BY <1>3, ConcatEmptySeq
  <1>5. DOMAIN Hooks = {<<"mlx", "export", "to", "dot">>}
    BY DEF Hooks
  <1>6. cFuncName(DetailNamespace, name, << >>) = all
    BY DEF cFuncName, ns
  <1>. HIDE DEF all
  <1>7. all \notin {<<"mlx", "export", "to", "dot">>}
    BY <1>4
  <1>. QED
    BY <1>5, <1>6, <1>7 DEF HasHook

\* What is decided for an internal function that is emitted.
LEMMA DetailDecided ==
  ASSUME BothFound, NEW m \in Modules(Manifest), NEW g \in selectFunctions(Manifest, Present(m)), g.ns = DetailNamespace
  PROVE  /\ ~HasHook(CName(g))
         /\ \E d \in EmitDecisions(Manifest, Now) : d.action = "emit" /\ d.cname = CName(g) /\ d.at = Identity(m, g)
  <1>1. g.suffix = << >> /\ g.name \in Seq(ToSet(g.name))
    BY EmittedFrom
  <1>2. ~HasHook(CName(g)) /\ CName(g) = cFuncName(g.ns, g.name, << >>)
    BY <1>1, DetailNotHooked DEF CName
  <1>3. m \in DOMAIN Now /\ Now[m] = Present(m) /\ FailedKeys(Manifest, Now[m]) = {}
    BY NoneFails DEF Now
  <1>. DEFINE x == [id |-> declID(m, g), fn |-> g]
              selected == typePolicyIR(Manifest, Now)
              about(d) == Decision("allowed_detail_function", d.id, "emit", cFuncName(d.fn.ns, d.fn.name, << >>), d.id)
  <1>4. g \in SelectedGeneratedIR(Manifest, Now[m])
    BY <1>2, <1>3 DEF SelectedGeneratedIR
  <1>5. x \in selected
    BY <1>3, <1>4 DEF typePolicyIR
  <1>6. about(x) \in parseDetailDecisions(selected)
    BY <1>5 DEF parseDetailDecisions
  <1>7. about(x).action = "emit" /\ about(x).cname = CName(g) /\ about(x).at = Identity(m, g)
    BY <1>2 DEF Decision, declID, Identity
  <1>. HIDE DEF about, x
  <1>8. about(x) \in EmitDecisions(Manifest, Now)
    BY <1>6 DEF EmitDecisions
  <1>. QED
    BY <1>2, <1>7, <1>8

(***************************************************************************)
(* Names.                                                                  *)
(***************************************************************************)

\* What is written for a function depends on its name, its types and its suffix.
LEMMA WrittenAlike ==
  ASSUME NEW g, NEW h, Key(g) = Key(h), Signature(g) = Signature(h), g.suffix = h.suffix
  PROVE  CName(g) = CName(h) /\ writeFunction(g) = writeFunction(h)
  <1>1. g.ns = h.ns /\ g.name = h.name /\ g.ret = h.ret /\ g.params = h.params
    BY DEF Key, Signature
  <1>2. CName(g) = CName(h) /\ CSignature(g) = CSignature(h) /\ unsupportedTypes(g) = unsupportedTypes(h)
    BY <1>1 DEF CName, CSignature, unsupportedTypes
  <1>. QED
    BY <1>1, <1>2 DEF writeFunction

LEMMA WrittenOf ==
  ASSUME NEW g, NEW a \in writeFunction(g)
  PROVE  /\ a.of = <<Key(g), Signature(g)>>
         /\ IF HasHook(CName(g)) THEN a.name \in Hooks[CName(g)] ELSE a.name = CName(g)
         /\ \A b \in writeFunction(g) : a.name = b.name => a = b
  <1>1. CASE HasHook(CName(g))
    <2>. DEFINE rec(n) == [name |-> n, sig |-> << >>, of |-> <<Key(g), Signature(g)>>, body |-> "calls"]
    <2>1. writeFunction(g) = {rec(n) : n \in Hooks[CName(g)]}
      BY <1>1 DEF writeFunction
    <2>2. \A n : rec(n).name = n /\ rec(n).of = <<Key(g), Signature(g)>>
      OBVIOUS
    <2>. HIDE DEF rec
    <2>. QED
      BY <1>1, <2>1, <2>2
  <1>2. CASE ~HasHook(CName(g))
    <2>. DEFINE rec == [name |-> CName(g), sig |-> CSignature(g), of |-> <<Key(g), Signature(g)>>,
                        body |-> Registry[g.ret].body]
    <2>1. writeFunction(g) \subseteq {rec}
      BY <1>2 DEF writeFunction
    <2>2. rec.name = CName(g) /\ rec.of = <<Key(g), Signature(g)>>
      OBVIOUS
    <2>. HIDE DEF rec
    <2>. QED
      BY <1>2, <2>1, <2>2
  <1>. QED
    BY <1>1, <1>2

\* What check has found in the headers.
LEMMA HeaderHas ==
  ASSUME BothFound
  PROVE  /\ \A m \in Modules(Manifest) :
              /\ HeaderOf(m) \in DOMAIN tree
              /\ tree[HeaderOf(m)].functions
                   = UNION {writeFunction(g) : g \in selectFunctions(Manifest, Present(m))}
         /\ \A h \in GeneratedHeaders(Manifest) : tree[h].functions = RenderHeader(Manifest.spec).functions
  <1>1. WorldOK /\ AsExpected
    BY DEF BothFound, CheckFound
  <1>2. \A h \in DOMAIN tree : Content(tree[h]) = Content(Expected[h]) /\ h \in DOMAIN Expected
    BY <1>1 DEF AsExpected
  <1>3. \A c, e : Content(c) = Content(e) /\ "functions" \in DOMAIN e => c.functions = e.functions
    <2>. SUFFICES ASSUME NEW c, NEW e, Content(c) = Content(e), "functions" \in DOMAIN e
                  PROVE  c.functions = e.functions
      OBVIOUS
    <2>1. DOMAIN Content(c) = DOMAIN c /\ DOMAIN Content(e) = DOMAIN e
      BY ContentAt
    <2>2. "functions" # "formatted" /\ "functions" # "enums"
      OBVIOUS
    <2>3. Content(c)["functions"] = c["functions"] /\ Content(e)["functions"] = e["functions"]
      BY <2>1, <2>2, ContentAt
    <2>. QED
      BY <2>3
  <1>4. ASSUME NEW m \in Modules(Manifest)
        PROVE  /\ HeaderOf(m) \in DOMAIN tree
               /\ tree[HeaderOf(m)].functions = UNION {writeFunction(g) : g \in selectFunctions(Manifest, Present(m))}
    <2>. DEFINE written == UNION {writeFunction(g) : g \in selectFunctions(Manifest, Present(m))}
                c == Generate(Manifest, Present(m), SetToSeq(Present(m).enums))
    <2>1. HeaderOf(m) \in DOMAIN tree
      BY <1>1, ExpectedAt DEF AsExpected, generatedOutputs, PlannedOutputs
    <2>2. Expected[HeaderOf(m)] = Formatted(c)
      BY <1>1, ExpectedAt
    <2>3. DOMAIN c = {"functions", "enums", "includes", "formatted"} /\ c.functions = written
      BY DEF Generate
    <2>. HIDE DEF c, written
    <2>4. Content(tree[HeaderOf(m)]) = Content(c)
      BY <1>2, <2>1, <2>2, ContentFormatted
    <2>5. tree[HeaderOf(m)].functions = c.functions
      BY <1>3, <2>3, <2>4
    <2>. QED
      BY <2>1, <2>3, <2>5 DEF written
  <1>5. ASSUME NEW h \in GeneratedHeaders(Manifest) PROVE tree[h].functions = RenderHeader(Manifest.spec).functions
    <2>. DEFINE c == RenderHeader(Manifest.spec)
    <2>1. h \in DOMAIN tree
      BY <1>1, <1>5, ExpectedAt DEF AsExpected, generatedOutputs
    <2>2. Expected[h] = Formatted(c)
      BY <1>1, <1>5, ExpectedAt
    <2>3. "functions" \in DOMAIN c
      BY DEF RenderHeader
    <2>. HIDE DEF c
    <2>4. Content(tree[h]) = Content(c)
      BY <1>2, <2>1, <2>2, ContentFormatted
    <2>5. tree[h].functions = c.functions
      BY <1>3, <2>3, <2>4
    <2>. QED
      BY <2>5 DEF c
  <1>. QED
    BY <1>4, <1>5

\* Who owns the names of what a module writes for a function: a hook, an internal
\* declaration, or a rule.
Owner(m, g) ==
  IF HasHook(CName(g)) THEN <<CName(g)>>
  ELSE IF g.ns = DetailNamespace THEN Identity(m, g) ELSE <<Key(g), RuleFor(Manifest, g)>>
Owners == EmitOwners(EmitDecisions(Manifest, Now)) \cup HookOwners(Manifest) \cup SpecOwners(Manifest)

LEMMA SpecOwned == ASSUME NEW item \in Manifest.spec PROVE <<item.name, <<"custom", "spec", item.kind>>>> \in Owners
  <1>1. <<item.name, <<"custom", "spec", item.kind>>>> \in SpecOwners(Manifest)
    BY Zenon DEF SpecOwners
  <1>. QED
    BY <1>1 DEF Owners

LEMMA OneOwner ==
  ASSUME BothFound, NEW name, NEW x, NEW y, <<name, x>> \in Owners, <<name, y>> \in Owners
  PROVE  x = y
  <1>1. \A a, b \in Owners : a[1] = b[1] => a = b
    BY DEF BothFound, CheckFound, checkCNameUniqueness, OneOwnerEach, Owners
  <1>. DEFINE a == <<name, x>>
              b == <<name, y>>
  <1>2. a[1] = name /\ a[2] = x /\ b[1] = name /\ b[2] = y /\ a \in Owners /\ b \in Owners
    OBVIOUS
  <1>. HIDE DEF a, b
  <1>3. a = b
    BY <1>1, <1>2
  <1>. QED
    BY <1>2, <1>3

\* The rule of a function that is emitted.
LEMMA EmittedRule ==
  ASSUME BothFound, NEW m \in Modules(Manifest), NEW g \in selectFunctions(Manifest, Present(m)), g.ns # DetailNamespace
  PROVE  LET r == RuleFor(Manifest, g)
         IN  /\ Key(g) \in DOMAIN Manifest.variants /\ r \in ToSet(Manifest.variants[Key(g)])
             /\ r.sig = Signature(g) /\ ~r.skip /\ g.suffix = r.suffix /\ CName(g) = CName0(Key(g), r)
             /\ \A s \in ToSet(Manifest.variants[Key(g)]) : s.sig = Signature(g) => s = r
  <1>1. PICK p \in Overloads(Present(m), Key(g)) :
           LET f == Present(m).functions[p]
           IN  /\ Key(f) = Key(g) /\ Signature(f) = Signature(g)
               /\ ~RuleFor(Manifest, f).skip /\ g.suffix = RuleFor(Manifest, f).suffix
    BY EmittedFrom
  <1>. DEFINE f == Present(m).functions[p]
  <1>2. RuleFor(Manifest, f) = RuleFor(Manifest, g)
    BY <1>1 DEF RuleFor
  <1>3. Key(g)[1] = g.ns /\ Key(g)[2] = g.name
    BY DEF Key
  <1>4. /\ Key(g) \in DOMAIN Manifest.variants /\ RuleFor(Manifest, f) \in ToSet(Manifest.variants[Key(g)])
        /\ RuleFor(Manifest, f).sig = Signature(f)
        /\ \A r \in ToSet(Manifest.variants[Key(g)]) : r.sig = Signature(f) => r = RuleFor(Manifest, f)
    BY <1>3, RuleOf
  <1>5. CName(g) = CName0(Key(g), RuleFor(Manifest, g))
    BY <1>1, <1>2, <1>3 DEF CName, CName0
  <1>. QED
    BY <1>1, <1>2, <1>4, <1>5

LEMMA FunctionOwned ==
  ASSUME BothFound, NEW m \in Modules(Manifest), NEW g \in selectFunctions(Manifest, Present(m)),
         NEW a \in writeFunction(g)
  PROVE  <<a.name, Owner(m, g)>> \in Owners
  <1>1. CASE HasHook(CName(g))
    <2>1. CName(g) \in DOMAIN Hooks /\ a.name \in Hooks[CName(g)]
      BY <1>1, WrittenOf DEF HasHook
    <2>2. CName(g) \in DOMAIN Manifest.api /\ Manifest.api[CName(g)] = Hooks[CName(g)]
      BY <2>1 DEF BothFound, CheckFound, checkHookManifestPolicy
    <2>3. Owner(m, g) = <<CName(g)>>
      BY <1>1 DEF Owner
    <2>4. <<a.name, <<CName(g)>>>> \in {<<n, <<CName(g)>>>> : n \in Manifest.api[CName(g)]}
      BY <2>1, <2>2
    <2>5. {<<n, <<CName(g)>>>> : n \in Manifest.api[CName(g)]} \subseteq Owners
      BY <2>2, Zenon DEF Owners, EmitOwners, HookOwners
    <2>. QED
      BY <2>3, <2>4, <2>5
  <1>2. CASE ~HasHook(CName(g)) /\ g.ns = DetailNamespace
    <2>1. PICK d \in EmitDecisions(Manifest, Now) : d.action = "emit" /\ d.cname = CName(g) /\ d.at = Identity(m, g)
      BY <1>2, DetailDecided
    <2>2. a.name = CName(g) /\ Owner(m, g) = Identity(m, g)
      BY <1>2, WrittenOf DEF Owner
    <2>3. <<d.cname, d.at>> \in Owners
      BY <2>1 DEF Owners, EmitOwners, HookOwners
    <2>. QED
      BY <2>1, <2>2, <2>3
  <1>3. CASE ~HasHook(CName(g)) /\ g.ns # DetailNamespace
    <2>. DEFINE r == RuleFor(Manifest, g)
    <2>1. /\ Key(g) \in DOMAIN Manifest.variants /\ r \in ToSet(Manifest.variants[Key(g)])
          /\ ~r.skip /\ CName(g) = CName0(Key(g), r)
      BY <1>3, EmittedRule
    <2>2. PICK d \in EmitDecisions(Manifest, Now) : d.action = "emit" /\ d.cname = CName(g) /\ d.at = <<Key(g), r>>
      BY <1>3, <2>1, RuleDecided
    <2>3. a.name = CName(g) /\ Owner(m, g) = <<Key(g), r>>
      BY <1>3, WrittenOf DEF Owner
    <2>4. <<d.cname, d.at>> \in Owners
      BY <2>2 DEF Owners, EmitOwners, HookOwners
    <2>. QED
      BY <2>2, <2>3, <2>4
  <1>. QED
    BY <1>1, <1>2, <1>3

\* One owner stands for one function of one module.
LEMMA OwnersDiffer ==
  ASSUME BothFound, HooksNamedOnce, NEW m \in Modules(Manifest), NEW n \in Modules(Manifest),
         NEW g \in selectFunctions(Manifest, Present(m)), NEW h \in selectFunctions(Manifest, Present(n)),
         Owner(m, g) = Owner(n, h)
  PROVE  m = n /\ Key(g) = Key(h) /\ Signature(g) = Signature(h) /\ g.suffix = h.suffix
  <1>1. /\ \A c : Len(<<c>>) = 1
        /\ \A c, d : Len(<<c, d>>) = 2
        /\ Len(Identity(m, g)) = 4 /\ Len(Identity(n, h)) = 4
    BY DEF Identity
  <1>2. /\ Len(Owner(m, g)) = IF HasHook(CName(g)) THEN 1 ELSE IF g.ns = DetailNamespace THEN 4 ELSE 2
        /\ Len(Owner(n, h)) = IF HasHook(CName(h)) THEN 1 ELSE IF h.ns = DetailNamespace THEN 4 ELSE 2
    BY <1>1 DEF Owner
  <1>3. (HasHook(CName(g)) <=> HasHook(CName(h))) /\ (~HasHook(CName(g)) => (g.ns = DetailNamespace <=> h.ns = DetailNamespace))
    BY <1>2
  <1>4. CASE g.ns = DetailNamespace /\ h.ns = DetailNamespace
    <2>1. ~HasHook(CName(g)) /\ ~HasHook(CName(h))
      BY <1>4, DetailDecided
    <2>2. Identity(m, g) = Identity(n, h)
      BY <1>4, <2>1 DEF Owner
    <2>3. m = n /\ Key(g) = Key(h) /\ Signature(g) = Signature(h)
      BY <2>2 DEF Identity
    <2>4. g.suffix = << >> /\ h.suffix = << >>
      BY <1>4, EmittedFrom
    <2>. QED
      BY <2>3, <2>4
  <1>5. CASE g.ns # DetailNamespace /\ h.ns # DetailNamespace
    <2>. DEFINE r == RuleFor(Manifest, g)
                s == RuleFor(Manifest, h)
    <2>1. /\ Key(g) \in DOMAIN Manifest.variants /\ r \in ToSet(Manifest.variants[Key(g)])
          /\ r.sig = Signature(g) /\ ~r.skip /\ g.suffix = r.suffix /\ CName(g) = CName0(Key(g), r)
      BY <1>5, EmittedRule
    <2>2. /\ Key(h) \in DOMAIN Manifest.variants /\ s \in ToSet(Manifest.variants[Key(h)])
          /\ s.sig = Signature(h) /\ ~s.skip /\ h.suffix = s.suffix /\ CName(h) = CName0(Key(h), s)
      BY <1>5, EmittedRule
    <2>. HIDE DEF r, s
    <2>3. Key(g) = Key(h) /\ r = s
      <3>1. CASE HasHook(CName(g))
        <4>1. CName(g) = CName(h)
          BY <1>3, <3>1 DEF Owner
        <4>2. r \in {t \in ToSet(Manifest.variants[Key(g)]) : ~t.skip}
                /\ s \in {t \in ToSet(Manifest.variants[Key(h)]) : ~t.skip}
          BY <2>1, <2>2
        <4>3. HasHook(CName0(Key(g), r)) /\ CName0(Key(g), r) = CName0(Key(h), s)
          BY <2>1, <2>2, <3>1, <4>1
        <4>4. \A k, l \in DOMAIN Manifest.variants :
                 \A x \in {t \in ToSet(Manifest.variants[k]) : ~t.skip},
                    y \in {t \in ToSet(Manifest.variants[l]) : ~t.skip} :
                   HasHook(CName0(k, x)) /\ CName0(k, x) = CName0(l, y) => k = l /\ x = y
          BY Zenon DEF HooksNamedOnce, CName0
        <4>. QED
          BY <2>1, <2>2, <4>2, <4>3, <4>4, Zenon
      <3>2. CASE ~HasHook(CName(g))
        <4>1. <<Key(g), r>> = <<Key(h), s>>
          BY <1>3, <1>5, <3>2 DEF Owner, r, s
        <4>. QED
          BY <4>1
      <3>. QED
        BY <3>1, <3>2
    <2>4. Signature(g) = Signature(h) /\ g.suffix = h.suffix
      BY <2>1, <2>2, <2>3
    <2>5. PICK p \in Overloads(Present(m), Key(g)) : Signature(Present(m).functions[p]) = Signature(g)
      BY EmittedFrom
    <2>6. PICK q \in Overloads(Present(n), Key(h)) : Signature(Present(n).functions[q]) = Signature(h)
      BY EmittedFrom
    <2>7. Key(g)[1] # DetailNamespace
      BY <1>5 DEF Key
    <2>8. m = n
      BY <2>3, <2>4, <2>5, <2>6, <2>7, OneModule
    <2>. QED
      BY <2>3, <2>4, <2>8
  <1>6. CASE (g.ns = DetailNamespace) # (h.ns = DetailNamespace)
    <2>1. ~HasHook(CName(g))
      BY <1>3, <1>6, DetailDecided
    <2>. QED
      BY <1>3, <1>6, <2>1
  <1>. QED
    BY <1>4, <1>5, <1>6

LEMMA DeclaredAre ==
  ASSUME BothFound, NEW d \in Declared
  PROVE  \E m \in Modules(Manifest) : \E g \in selectFunctions(Manifest, Present(m)) :
            \E a \in writeFunction(g) : d = <<HeaderOf(m), a>>
  <1>1. PICK h \in {HeaderOf(m) : m \in Modules(Manifest)} \cap DOMAIN tree : d \in {<<h, f>> : f \in tree[h].functions}
    BY DEF Declared
  <1>2. PICK m \in Modules(Manifest) : h = HeaderOf(m)
    BY <1>1
  <1>3. PICK a \in tree[HeaderOf(m)].functions : d = <<HeaderOf(m), a>>
    BY <1>1, <1>2
  <1>4. a \in UNION {writeFunction(g) : g \in selectFunctions(Manifest, Present(m))}
    BY <1>3, HeaderHas
  <1>. QED
    BY <1>3, <1>4

LEMMA FoundUnique == ASSUME WorldOK, FoundInv PROVE NamesUnique
  <1>. DEFINE extra == UNION {{<<h, f>> : f \in tree[h].functions} : h \in GeneratedHeaders(Manifest)}
              all == Declared \cup extra
  <1>. SUFFICES ASSUME Passed({"parse", "check"}), HooksNamedOnce, NEW d \in all, NEW e \in all, d[2].name = e[2].name
                PROVE  d = e
    BY DEF NamesUnique
  <1>1. BothFound
    BY DEF Passed, FoundInv, BothFound
  <1>2. ASSUME NEW x \in extra
        PROVE  \E i \in Manifest.spec : /\ i.kind = "function"
                                        /\ x = <<jaccl_h, [name |-> i.name, sig |-> i.sig, of |-> << >>, body |-> "calls"]>>
    <2>1. PICK h \in GeneratedHeaders(Manifest) : x \in {<<h, f>> : f \in tree[h].functions}
      BY <1>2
    <2>2. h = jaccl_h
      BY DEF GeneratedHeaders
    <2>3. x \in {<<jaccl_h, f>> : f \in RenderHeader(Manifest.spec).functions}
      BY <1>1, <2>1, <2>2, HeaderHas
    <2>. DEFINE rec(i) == [name |-> i.name, sig |-> i.sig, of |-> << >>, body |-> "calls"]
    <2>4. RenderHeader(Manifest.spec).functions = {rec(i) : i \in {i \in Manifest.spec : i.kind = "function"}}
      BY DEF RenderHeader
    <2>. QED
      BY <2>3, <2>4
  <1>3. ASSUME NEW x \in extra
        PROVE  <<x[2].name, <<"custom", "spec", "function">>>> \in Owners
    <2>1. PICK i \in Manifest.spec : /\ i.kind = "function"
                                     /\ x = <<jaccl_h, [name |-> i.name, sig |-> i.sig, of |-> << >>, body |-> "calls"]>>
      BY <1>2, <1>3
    <2>2. x[2].name = i.name
      BY <2>1
    <2>3. <<i.name, <<"custom", "spec", i.kind>>>> \in Owners
      BY SpecOwned
    <2>. QED
      BY <2>1, <2>2, <2>3
  <1>4. ASSUME NEW m \in Modules(Manifest), NEW g
        PROVE  Owner(m, g) # <<"custom", "spec", "function">>
    <2>1. Len(<<"custom", "spec", "function">>) = 3
      OBVIOUS
    <2>2. Len(Owner(m, g)) \in {1, 2, 4}
      BY DEF Owner, Identity
    <2>. QED
      BY <2>1, <2>2
  <1>. HIDE DEF extra
  <1>5. ASSUME NEW x \in Declared, NEW y \in extra, x[2].name = y[2].name PROVE FALSE
    <2>1. PICK m \in Modules(Manifest) : \E g \in selectFunctions(Manifest, Present(m)) :
             \E a \in writeFunction(g) : x = <<HeaderOf(m), a>>
      BY <1>1, <1>5, DeclaredAre
    <2>2. PICK g \in selectFunctions(Manifest, Present(m)) : \E a \in writeFunction(g) : x = <<HeaderOf(m), a>>
      BY <2>1
    <2>3. PICK a \in writeFunction(g) : x = <<HeaderOf(m), a>>
      BY <2>2
    <2>4. <<x[2].name, Owner(m, g)>> \in Owners
      BY <1>1, <2>3, FunctionOwned
    <2>. QED
      BY <1>1, <1>3, <1>4, <1>5, <2>4, OneOwner
  <1>6. ASSUME d \in Declared, e \in Declared PROVE d = e
    <2>1. PICK m \in Modules(Manifest) : \E g \in selectFunctions(Manifest, Present(m)) :
             \E a \in writeFunction(g) : d = <<HeaderOf(m), a>>
      BY <1>1, <1>6, DeclaredAre
    <2>2. PICK g \in selectFunctions(Manifest, Present(m)) : \E a \in writeFunction(g) : d = <<HeaderOf(m), a>>
      BY <2>1
    <2>3. PICK a \in writeFunction(g) : d = <<HeaderOf(m), a>>
      BY <2>2
    <2>4. PICK n \in Modules(Manifest) : \E h \in selectFunctions(Manifest, Present(n)) :
             \E b \in writeFunction(h) : e = <<HeaderOf(n), b>>
      BY <1>1, <1>6, DeclaredAre
    <2>5. PICK h \in selectFunctions(Manifest, Present(n)) : \E b \in writeFunction(h) : e = <<HeaderOf(n), b>>
      BY <2>4
    <2>6. PICK b \in writeFunction(h) : e = <<HeaderOf(n), b>>
      BY <2>5
    <2>7. a.name = b.name
      BY <2>3, <2>6
    <2>8. <<a.name, Owner(m, g)>> \in Owners /\ <<a.name, Owner(n, h)>> \in Owners
      BY <1>1, <2>7, FunctionOwned
    <2>9. Owner(m, g) = Owner(n, h)
      BY <1>1, <2>8, OneOwner
    <2>10. m = n /\ Key(g) = Key(h) /\ Signature(g) = Signature(h) /\ g.suffix = h.suffix
      BY <1>1, <2>9, OwnersDiffer
    <2>11. b \in writeFunction(g)
      BY <2>10, WrittenAlike
    <2>12. a = b
      BY <2>7, <2>11, WrittenOf
    <2>. QED
      BY <2>3, <2>6, <2>10, <2>12
  <1>7. ASSUME d \in extra, e \in extra PROVE d = e
    <2>1. PICK i \in Manifest.spec : /\ i.kind = "function"
             /\ d = <<jaccl_h, [name |-> i.name, sig |-> i.sig, of |-> << >>, body |-> "calls"]>>
      BY <1>2, <1>7
    <2>2. PICK j \in Manifest.spec : /\ j.kind = "function"
             /\ e = <<jaccl_h, [name |-> j.name, sig |-> j.sig, of |-> << >>, body |-> "calls"]>>
      BY <1>2, <1>7
    <2>3. i.name = j.name
      BY <2>1, <2>2
    <2>4. i = j
      BY <1>1, <2>1, <2>2, <2>3 DEF BothFound, CheckFound, AllThere, Loads, validateSpec
    <2>. QED
      BY <2>1, <2>2, <2>4
  <1>. QED
    BY <1>5, <1>6, <1>7

\* When parse and check have passed, no C name is declared for two things, in whatever
\* history of runs, edits and kills, if each hook stands for one rule
\* (checkCNameUniqueness, checkDecisionCoverage and checkHookManifestPolicy together).
THEOREM NamesStayUnique == Spec => []NamesUnique
  <1>1. StateInv => NamesUnique
    BY FoundUnique DEF StateInv, TypeInv
  <1>. QED
    BY <1>1, RepositoryState, PTL

(***************************************************************************)
(* No function is lost.                                                    *)
(***************************************************************************)

\* What a module's result has at each place.
LEMMA MergedFunctions ==
  ASSUME NEW m
  PROVE  LET headers == ModuleNamed(Manifest, m).headers
             parts   == [i \in DOMAIN headers |-> ParsedAt(work, headers[i])]
         IN  Present(m).functions = [q \in UNION {{h} \X DOMAIN parts[h].functions : h \in DOMAIN parts} |->
                                       parts[q[1]].functions[q[2]]]
  <1>. DEFINE headers == ModuleNamed(Manifest, m).headers
              parts   == [i \in DOMAIN headers |-> ParsedAt(work, headers[i])]
  <1>1. Present(m) = mergeParseResult(parts)
    BY DEF Present, ModuleResult, ParseFiles
  <1>. HIDE DEF parts
  <1>2. Present(m).functions = [q \in UNION {{h} \X DOMAIN parts[h].functions : h \in DOMAIN parts} |->
                                  parts[q[1]].functions[q[2]]]
    BY <1>1 DEF mergeParseResult
  <1>. QED
    BY <1>2 DEF parts

\* A function that a C API can express is one that was parsed.
LEMMA BindableParsed ==
  ASSUME WorldOK, AllThere, NEW fn \in Bindable
  PROVE  \E m \in Modules(Manifest) : \E p \in DOMAIN Present(m).functions : Present(m).functions[p] = fn
  <1>. DEFINE Fns(file) == LET nodes == TextAt(work, file)
                               at(i) == extractFunction(nodes[i], i, file, world.alias[work])
                           IN  {at(i) : i \in {i \in DOMAIN nodes : i \notin Misread(file) /\ Expressible(nodes[i], at(i))}}
  <1>1. PICK file \in UNION {ToSet(m.headers) : m \in ToSet(Manifest.modules)} : fn \in Fns(file)
    BY DEF Bindable
  <1>. HIDE DEF Fns
  <1>2. PICK e \in ToSet(Manifest.modules) : file \in ToSet(e.headers)
    BY <1>1
  <1>3. PICK i \in 1..Len(Manifest.modules) : e = Manifest.modules[i]
    <2>1. DOMAIN Manifest.modules = 1..Len(Manifest.modules)
      BY WorldFacts, LenProperties
    <2>. QED
      BY <1>2, <2>1 DEF ToSet
  <1>. DEFINE m == e.name
              headers == ModuleNamed(Manifest, m).headers
              text == world.text[work][file]
              nodes == world.ast[work][file]
              at(j) == extractFunction(nodes[j], j, file, world.alias[work])
              parts == [j \in DOMAIN headers |-> ParsedAt(work, headers[j])]
  <1>4. ModuleNamed(Manifest, m) = e /\ m \in Modules(Manifest)
    BY <1>3, ModuleAt DEF AllThere
  <1>5. PICK h \in DOMAIN headers : headers[h] = file
    BY <1>2, <1>4 DEF ToSet
  <1>6. file # Base /\ file \in DOMAIN world.text[work]
    <2>1. i \in DOMAIN Manifest.modules
      BY <1>3, WorldFacts, LenProperties
    <2>2. ToSet(e.headers) \subseteq DOMAIN world.text[work]
      BY <1>3 DEF AllThere
    <2>. QED
      BY <1>2, <1>3, <2>1, <2>2, WorldFacts
  <1>7. TextAt(work, file) = text
    BY <1>6 DEF TextAt
  <1>8. PICK j \in DOMAIN text : /\ j \notin Misread(file)
                                 /\ Expressible(text[j], extractFunction(text[j], j, file, world.alias[work]))
                                 /\ fn = extractFunction(text[j], j, file, world.alias[work])
    BY <1>1, <1>7 DEF Fns
  <1>9. j \in DOMAIN nodes /\ Expressible(nodes[j], at(j)) /\ fn = at(j)
    <2>1. nodes[j] = text[j]
      BY <1>8 DEF Misread
    <2>2. DOMAIN nodes = DOMAIN text
      <3>1. Texts(world) /\ work \in DOMAIN world.text
        BY WorldFacts DEF WorldOK, Revisions
      <3>. QED
        BY <1>6, <3>1 DEF Texts
    <2>. QED
      BY <1>8, <2>1, <2>2
  <1>10. nodes[j].here /\ nodes[j].kind = "function" /\ walkSkip(nodes[j], at(j)) = "none"
    <2>. DEFINE f == at(j)
    <2>1. /\ nodes[j].kind = "function" /\ nodes[j].here /\ nodes[j].how = "function"
          /\ f.ret # "Stream" /\ ~isTemplateFunction(f)
      BY <1>9 DEF Expressible
    <2>. HIDE DEF f
    <2>2. walkSkip(nodes[j], f) = "none"
      BY <2>1 DEF walkSkip
    <2>. QED
      BY <2>1, <2>2 DEF f
  <1>11. j \in DOMAIN ParsedAt(work, file).functions /\ ParsedAt(work, file).functions[j] = at(j)
    <2>1. ParsedAt(work, file).functions
            = [x \in {x \in {x \in {x \in DOMAIN nodes : nodes[x].here} : nodes[x].kind = "function"} :
                        walkSkip(nodes[x], at(x)) = "none"} |-> at(x)]
      BY DEF ParsedAt, walkAST
    <2>. HIDE DEF at
    <2>. QED
      BY <1>9, <1>10, <2>1
  <1>12. h \in DOMAIN parts /\ parts[h] = ParsedAt(work, file)
    BY <1>5
  <1>13. Present(m).functions = [q \in UNION {{b} \X DOMAIN parts[b].functions : b \in DOMAIN parts} |->
                                   parts[q[1]].functions[q[2]]]
    BY MergedFunctions
  <1>. HIDE DEF parts, at
  <1>. DEFINE p == <<h, j>>
  <1>14. p[1] = h /\ p[2] = j /\ p \in {h} \X DOMAIN parts[h].functions
    BY <1>11, <1>12
  <1>. HIDE DEF p
  <1>15. p \in DOMAIN Present(m).functions /\ Present(m).functions[p] = fn
    BY <1>9, <1>11, <1>12, <1>13, <1>14
  <1>. QED
    BY <1>4, <1>15

\* The choice of a suffix does not change which overload it is.
LEMMA ChosenAs ==
  ASSUME BothFound, NEW m \in Modules(Manifest), NEW k, k[1] # DetailNamespace, NEW p \in Overloads(Present(m), k)
  PROVE  LET f == Present(m).functions[p]
         IN  /\ Key(Chosen(Manifest, f)) = k /\ Signature(Chosen(Manifest, f)) = Signature(f)
             /\ Chosen(Manifest, f).suffix = RuleFor(Manifest, f).suffix
  <1>. DEFINE f == Present(m).functions[p]
              rule == RuleFor(Manifest, f)
              g == [f EXCEPT !.suffix = rule.suffix, !.doc = @ \/ rule.doc]
  <1>1. Key(f) = k /\ k \in DOMAIN Manifest.variants
    BY RuleOf
  <1>2. p \in DOMAIN Present(m).functions /\ WorldOK /\ AllThere
    BY NoneFails DEF Overloads, deduplicateFunctions, BothFound
  <1>3. DOMAIN f = {"ns", "name", "ret", "params", "doc", "file", "line", "suffix"}
    BY <1>2, Places
  <1>4. f.ns = k[1]
    BY <1>1 DEF Key
  <1>5. Chosen(Manifest, f) = g
    BY <1>1, <1>4 DEF Chosen, Ruled
  <1>. HIDE DEF f, rule
  <1>6. g.ns = f.ns /\ g.name = f.name /\ g.ret = f.ret /\ g.params = f.params /\ g.suffix = rule.suffix
    BY <1>3
  <1>. HIDE DEF g
  <1>7. Key(g) = Key(f) /\ Signature(g) = Signature(f)
    BY <1>6 DEF Key, Signature
  <1>. QED
    BY <1>1, <1>5, <1>6, <1>7 DEF f, rule

\* Two rules of one function that are not skipped have two suffixes.
LEMMA SuffixesDiffer ==
  ASSUME BothFound, HooksNamedOnce, NEW k \in DOMAIN Manifest.variants,
         NEW r \in ToSet(Manifest.variants[k]), NEW s \in ToSet(Manifest.variants[k]),
         ~r.skip, ~s.skip, r.suffix = s.suffix
  PROVE  r = s
  <1>1. CName0(k, r) = CName0(k, s)
    BY DEF CName0
  <1>2. CASE HasHook(CName0(k, r))
    <2>1. \A j, l \in DOMAIN Manifest.variants :
             \A x \in {t \in ToSet(Manifest.variants[j]) : ~t.skip},
                y \in {t \in ToSet(Manifest.variants[l]) : ~t.skip} :
               HasHook(CName0(j, x)) /\ CName0(j, x) = CName0(l, y) => j = l /\ x = y
      BY Zenon DEF HooksNamedOnce, CName0
    <2>2. r \in {t \in ToSet(Manifest.variants[k]) : ~t.skip} /\ s \in {t \in ToSet(Manifest.variants[k]) : ~t.skip}
      OBVIOUS
    <2>. QED
      BY <1>1, <1>2, <2>1, <2>2, Zenon
  <1>3. CASE ~HasHook(CName0(k, r))
    <2>1. ASSUME NEW t \in ToSet(Manifest.variants[k]), ~t.skip, ~HasHook(CName0(k, t))
          PROVE  <<CName0(k, t), <<k, t>>>> \in Owners
      <3>1. PICK d \in EmitDecisions(Manifest, Now) : d.action = "emit" /\ d.cname = CName0(k, t) /\ d.at = <<k, t>>
        BY <2>1, RuleDecided
      <3>2. <<d.cname, d.at>> \in EmitOwners(EmitDecisions(Manifest, Now))
        BY <3>1 DEF EmitOwners
      <3>. QED
        BY <3>1, <3>2 DEF Owners
    <2>2. <<k, r>> = <<k, s>>
      BY <1>1, <1>3, <2>1, OneOwner
    <2>. QED
      BY <2>2
  <1>. QED
    BY <1>2, <1>3

\* An overload whose rule is not to skip it is emitted.
LEMMA OverloadEmitted ==
  ASSUME BothFound, HooksNamedOnce, NEW m \in Modules(Manifest), NEW k, k[1] # DetailNamespace,
         NEW p \in Overloads(Present(m), k), ~RuleFor(Manifest, Present(m).functions[p]).skip
  PROVE  \E g \in selectFunctions(Manifest, Present(m)) :
            Key(g) = k /\ Signature(g) = Signature(Present(m).functions[p])
  <1>. DEFINE result == Present(m)
              fn(x) == Chosen(Manifest, result.functions[x])
              sel == selectVariants(Manifest, result, k)
              rule(x) == RuleFor(Manifest, result.functions[x])
  <1>1. WorldOK /\ AllThere /\ FailedKeys(Manifest, result) = {}
    BY NoneFails DEF BothFound
  <1>2. k \in DOMAIN Manifest.variants
    BY RuleOf
  <1>3. sel = {x \in Overloads(result, k) : ~rule(x).skip}
    BY <1>2 DEF selectVariants
  <1>. HIDE DEF sel
  <1>4. p \in sel
    BY <1>3
  <1>5. ASSUME NEW q \in sel, Before(result, q, p) PROVE fn(q).suffix # fn(p).suffix
    <2>. SUFFICES ASSUME fn(q).suffix = fn(p).suffix PROVE FALSE
      OBVIOUS
    <2>1. q \in Overloads(result, k) /\ ~rule(q).skip
      BY <1>3
    <2>2. /\ rule(p) \in ToSet(Manifest.variants[k]) /\ rule(p).sig = Signature(result.functions[p])
          /\ rule(q) \in ToSet(Manifest.variants[k]) /\ rule(q).sig = Signature(result.functions[q])
      BY <2>1, RuleOf
    <2>3. rule(q).suffix = rule(p).suffix
      BY <2>1, ChosenAs
    <2>4. rule(q) = rule(p)
      BY <1>2, <2>1, <2>2, <2>3, SuffixesDiffer
    <2>5. q = p
      BY <1>1, <2>1, <2>2, <2>4, OverloadsDiffer
    <2>6. p \in DOMAIN result.functions
      BY DEF Overloads, deduplicateFunctions
    <2>7. p \in Nat \X Nat /\ Len(result.functions[p].params) \in Nat
      BY <1>1, <2>6, Places
    <2>8. ~Before(result, p, p)
      BY <2>7, PlacesOrdered DEF Before
    <2>. QED
      BY <1>5, <2>5, <2>8
  <1>6. fn(p) \in Emitted(Manifest, result, k)
    BY <1>4, <1>5 DEF Emitted, sel
  <1>7. k \in Keys(result)
    BY DEF Keys, FunctionsAt, Overloads, deduplicateFunctions
  <1>8. fn(p) \in selectFunctions(Manifest, result)
    BY <1>1, <1>6, <1>7 DEF selectFunctions
  <1>9. Key(fn(p)) = k /\ Signature(fn(p)) = Signature(result.functions[p])
    BY ChosenAs
  <1>. QED
    BY <1>8, <1>9

\* What is emitted has types that the generator knows.
LEMMA EmittedSupported ==
  ASSUME BothFound, NEW m \in Modules(Manifest), NEW g \in selectFunctions(Manifest, Present(m)), ~HasHook(CName(g))
  PROVE  unsupportedTypes(g) = {}
  <1>. SUFFICES ASSUME NEW c \in unsupportedTypes(g) PROVE FALSE
    OBVIOUS
  <1>1. c \in {"skip_unsupported_return_type", "skip_unsupported_param_type"}
    BY DEF unsupportedTypes
  <1>2. m \in DOMAIN Now /\ Now[m] = Present(m) /\ FailedKeys(Manifest, Now[m]) = {}
    BY NoneFails DEF Now
  <1>. DEFINE result == Now[m]
              rec == [code |-> c, reason |-> "unsupported_type", fn |-> g]
              about(f) == {[code |-> x, reason |-> "unsupported_type", fn |-> f] : x \in unsupportedTypes(f)}
              all == UNION {about(f) : f \in {f \in selectFunctions(Manifest, result) : ~HasHook(CName(f))}}
  <1>3. rec \in about(g)
    OBVIOUS
  <1>4. all \subseteq Diagnostics(Manifest, result)
    BY <1>2 DEF Diagnostics
  <1>5. rec.code = c
    OBVIOUS
  <1>. HIDE DEF rec, about
  <1>6. rec \in Diagnostics(Manifest, result)
    BY <1>2, <1>3, <1>4
  <1>7. <<m, rec>> \in AllDiagnostics(Manifest, Now)
    BY <1>2, <1>6 DEF AllDiagnostics
  <1>8. \A x \in AllDiagnostics(Manifest, Now) :
           x[2].code \notin {"skip_unsupported_param_type", "skip_unsupported_return_type"}
    BY DEF BothFound, ParseFound, ReportPolicy, checkTypeCoverage
  <1>9. <<m, rec>>[2] = rec
    OBVIOUS
  <1>10. rec.code \notin {"skip_unsupported_param_type", "skip_unsupported_return_type"}
    BY <1>7, <1>8, <1>9
  <1>. QED
    BY <1>1, <1>5, <1>10

\* The declarations of a function that is not internal are those of one overload.
LEMMA DeclarationsAre ==
  ASSUME BothFound, NEW m \in Modules(Manifest), NEW g \in selectFunctions(Manifest, Present(m)), g.ns # DetailNamespace,
         NEW fn, Key(fn) = Key(g), Signature(fn) = Signature(g)
  PROVE  DeclarationsOf(fn) = {<<HeaderOf(m), a>> : a \in writeFunction(g)}
  <1>1. ASSUME NEW d \in DeclarationsOf(fn) PROVE d \in {<<HeaderOf(m), a>> : a \in writeFunction(g)}
    <2>1. d \in Declared /\ d[2].of = <<Key(fn), Signature(fn)>>
      BY DEF DeclarationsOf
    <2>2. PICK n \in Modules(Manifest) : \E h \in selectFunctions(Manifest, Present(n)) :
             \E a \in writeFunction(h) : d = <<HeaderOf(n), a>>
      BY <2>1, DeclaredAre
    <2>3. PICK h \in selectFunctions(Manifest, Present(n)) : \E a \in writeFunction(h) : d = <<HeaderOf(n), a>>
      BY <2>2
    <2>4. PICK a \in writeFunction(h) : d = <<HeaderOf(n), a>>
      BY <2>3
    <2>5. a.of = <<Key(h), Signature(h)>> /\ d[2] = a
      BY <2>4, WrittenOf
    <2>6. Key(h) = Key(g) /\ Signature(h) = Signature(g)
      BY <2>1, <2>5
    <2>7. h.ns # DetailNamespace /\ Key(g)[1] # DetailNamespace
      BY <2>6 DEF Key
    <2>8. h.suffix = g.suffix
      <3>1. RuleFor(Manifest, h) = RuleFor(Manifest, g)
        BY <2>6 DEF RuleFor
      <3>. QED
        BY <2>7, <3>1, EmittedRule
    <2>9. PICK p \in Overloads(Present(m), Key(g)) : Signature(Present(m).functions[p]) = Signature(g)
      BY EmittedFrom
    <2>10. PICK q \in Overloads(Present(n), Key(h)) : Signature(Present(n).functions[q]) = Signature(h)
      BY EmittedFrom
    <2>11. m = n
      BY <2>6, <2>7, <2>9, <2>10, OneModule
    <2>12. a \in writeFunction(g)
      BY <2>6, <2>8, WrittenAlike
    <2>. QED
      BY <2>4, <2>11, <2>12
  <1>2. ASSUME NEW a \in writeFunction(g) PROVE <<HeaderOf(m), a>> \in DeclarationsOf(fn)
    <2>. DEFINE d == <<HeaderOf(m), a>>
    <2>1. HeaderOf(m) \in DOMAIN tree /\ a \in tree[HeaderOf(m)].functions
      BY HeaderHas
    <2>2. d \in {<<HeaderOf(m), f>> : f \in tree[HeaderOf(m)].functions}
      BY <2>1
    <2>3. d \in Declared
      BY <2>1, <2>2 DEF Declared
    <2>4. d[2].of = <<Key(fn), Signature(fn)>>
      BY WrittenOf
    <2>. QED
      BY <2>3, <2>4 DEF DeclarationsOf
  <1>. QED
    BY <1>1, <1>2

LEMMA FoundDecided == ASSUME WorldOK, FoundInv PROVE EveryDeclDecided
  <1>. SUFFICES ASSUME Passed({"parse", "check"}), HooksNamedOnce, NEW fn \in Bindable
                PROVE  LET ds == DeclarationsOf(fn)
                       IN  IF Refused(fn) THEN fn.ns # DetailNamespace => ds = {}
                           ELSE Cardinality(ds) = 1 \/ \E h \in DOMAIN Hooks : {d[2].name : d \in ds} = Hooks[h]
    BY DEF EveryDeclDecided
  <1>. DEFINE ds == DeclarationsOf(fn)
  <1>1. BothFound /\ AllThere
    BY DEF Passed, FoundInv, BothFound, ParseFound
  <1>2. PICK m \in Modules(Manifest) : \E p \in DOMAIN Present(m).functions : Present(m).functions[p] = fn
    BY <1>1, BindableParsed
  <1>3. PICK q \in Overloads(Present(m), Key(fn)) : Signature(Present(m).functions[q]) = Signature(fn)
    BY <1>1, <1>2, OverloadKept
  <1>. DEFINE f == Present(m).functions[q]
              k == Key(fn)
              r == RuleFor(Manifest, f)
  <1>4. k[1] = fn.ns
    BY DEF Key
  <1>5. ASSUME fn.ns # DetailNamespace
        PROVE  /\ k \in DOMAIN Manifest.variants /\ r \in ToSet(Manifest.variants[k]) /\ r.sig = Signature(fn)
               /\ \A s \in ToSet(Manifest.variants[k]) : s.sig = Signature(fn) => s = r
    BY <1>1, <1>3, <1>4, <1>5, RuleOf
  <1>6. CASE Refused(fn)
    <2>. SUFFICES ASSUME fn.ns # DetailNamespace, NEW d \in ds PROVE FALSE
      BY <1>6
    <2>1. PICK s \in ToSet(Rules(Manifest, k)) : s.sig = Signature(fn) /\ s.skip
      BY <1>6 DEF Refused
    <2>2. s \in ToSet(Manifest.variants[k]) /\ k \in DOMAIN Manifest.variants
      BY <1>5, <2>1 DEF Rules
    <2>3. d \in Declared /\ d[2].of = <<k, Signature(fn)>>
      BY DEF DeclarationsOf
    <2>4. PICK n \in Modules(Manifest) : \E g \in selectFunctions(Manifest, Present(n)) :
             \E a \in writeFunction(g) : d = <<HeaderOf(n), a>>
      BY <1>1, <2>3, DeclaredAre
    <2>5. PICK g \in selectFunctions(Manifest, Present(n)) : \E a \in writeFunction(g) : d = <<HeaderOf(n), a>>
      BY <2>4
    <2>6. PICK a \in writeFunction(g) : d = <<HeaderOf(n), a>>
      BY <2>5
    <2>7. a.of = <<Key(g), Signature(g)>> /\ d[2] = a
      BY <2>6, WrittenOf
    <2>8. Key(g) = k /\ Signature(g) = Signature(fn)
      BY <2>3, <2>7
    <2>9. g.ns # DetailNamespace
      BY <1>4, <2>8 DEF Key
    <2>10. ~RuleFor(Manifest, g).skip /\ s = RuleFor(Manifest, g)
      BY <1>1, <2>1, <2>2, <2>8, <2>9, EmittedRule
    <2>. QED
      BY <2>1, <2>10
  <1>7. CASE ~Refused(fn)
    <2>1. fn.ns # DetailNamespace
      BY <1>7 DEF Refused
    <2>2. ~r.skip
      <3>. SUFFICES ASSUME r.skip PROVE FALSE
        OBVIOUS
      <3>1. r.reason = "none"
        <4>1. r \in ToSet(Rules(Manifest, k)) /\ r.sig = Signature(fn)
          BY <1>5, <2>1 DEF Rules
        <4>. HIDE DEF r, k
        <4>. QED
          BY <1>7, <4>1 DEF Refused, k
      <3>2. r.reason \in variantSkipReasons
        <4>. DEFINE rs == Manifest.variants[k]
        <4>1. PICK i \in DOMAIN rs : r = rs[i]
          BY <1>5, <2>1 DEF ToSet
        <4>2. \A j \in DOMAIN rs : rs[j].skip => rs[j].reason \in variantSkipReasons
          BY <1>1, <1>5, <2>1 DEF AllThere, Loads, validate
        <4>. QED
          BY <4>1, <4>2
      <3>. QED
        BY <3>1, <3>2 DEF variantSkipReasons
    <2>3. PICK g \in selectFunctions(Manifest, Present(m)) : Key(g) = k /\ Signature(g) = Signature(f)
      BY <1>1, <1>3, <1>4, <2>1, <2>2, OverloadEmitted
    <2>4. g.ns # DetailNamespace /\ Signature(g) = Signature(fn)
      BY <1>3, <1>4, <2>1, <2>3 DEF Key
    <2>5. ds = {<<HeaderOf(m), a>> : a \in writeFunction(g)}
      BY <1>1, <2>3, <2>4, DeclarationsAre
    <2>6. CASE HasHook(CName(g))
      <3>. DEFINE rec(n) == [name |-> n, sig |-> << >>, of |-> <<Key(g), Signature(g)>>, body |-> "calls"]
                  hook == Hooks[CName(g)]
      <3>1. writeFunction(g) = {rec(n) : n \in hook}
        BY <2>6 DEF writeFunction
      <3>2. \A n : rec(n).name = n
        OBVIOUS
      <3>. HIDE DEF rec, hook, ds
      <3>3. \A d \in ds : d[2].name \in hook
        BY <2>5, <3>1, <3>2
      <3>4. ASSUME NEW n \in hook PROVE \E d \in ds : d[2].name = n
        <4>. DEFINE d == <<HeaderOf(m), rec(n)>>
        <4>1. d[2].name = n
          BY <3>2
        <4>2. rec(n) \in writeFunction(g)
          BY <3>1
        <4>3. d \in ds
          BY <2>5, <4>2
        <4>. HIDE DEF d
        <4>. QED
          BY <4>1, <4>3
      <3>5. {d[2].name : d \in ds} = hook
        BY <3>3, <3>4
      <3>. QED
        BY <1>7, <2>6, <3>5 DEF hook, HasHook, ds
    <2>7. CASE ~HasHook(CName(g))
      <3>. DEFINE rec == [name |-> CName(g), sig |-> CSignature(g), of |-> <<Key(g), Signature(g)>>,
                          body |-> Registry[g.ret].body]
      <3>1. unsupportedTypes(g) = {}
        BY <1>1, <2>7, EmittedSupported
      <3>2. writeFunction(g) = {rec}
        BY <2>7, <3>1 DEF writeFunction
      <3>. HIDE DEF rec
      <3>3. ds = {<<HeaderOf(m), rec>>}
        BY <2>5, <3>2
      <3>4. Cardinality(ds) = 1
        BY <3>3, FS_Singleton
      <3>. QED
        BY <1>7, <3>4
    <2>. QED
      BY <2>6, <2>7
  <1>. QED
    BY <1>6, <1>7

\* When parse and check have passed, no function of MLX has been lost, in whatever
\* history of runs, edits and kills, if each hook stands for one rule: parse has found
\* each overload decided once, check has found the headers to be those of the present
\* texts, and no name, hence no suffix, is given twice.
THEOREM EveryDeclStaysDecided == Spec => []EveryDeclDecided
  <1>1. StateInv => EveryDeclDecided
    BY FoundDecided DEF StateInv, TypeInv
  <1>. QED
    BY <1>1, RepositoryState, PTL
=============================================================================
