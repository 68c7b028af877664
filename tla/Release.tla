-------------------------------- MODULE Release --------------------------------
(***************************************************************************)
(* How a release identity mlx-v<core>-rev<revision> reaches the base       *)
(* branch: the candidate workflow (tools/mlx-c-candidate, the regeneration *)
(* and tools/mlx-c-publish-candidate), pull requests of developers, the    *)
(* revision policy (tools/mlx-c-revision-check) that runs on a pull        *)
(* request, and the merge, which may come long after.                      *)
(*                                                                         *)
(* A tree of the repository is its MLX pin, its release_revision, the      *)
(* edits in its generator sources and the generated cut: the MLX commit it *)
(* was generated against and the edits that show in it.  git and the       *)
(* hosting service are modelled from how the workflows use them: a pull    *)
(* request is checked on the merge commit made when it was pushed, against *)
(* the base branch as it is when the check runs, and is not checked again  *)
(* when the base moves; a merge is textual.                                *)
(***************************************************************************)
EXTENDS Naturals, Sequences

CONSTANTS
  Commit,      \* commits of MLX
  Core,        \* Core[c]: the version in mlx/version.h at commit c
  First,       \* the commits the base branch can pin at first
  Taggable,    \* the commits that MLX may tag v<core>
  Edit,        \* edits of the generator sources
  Visible,     \* the edits that change the generated files
  Slot,        \* pull requests that can be open at a time
  MaxMerges,   \* bound: merges into the base branch
  MaxRevision  \* bound: release_revision of a pushed branch

ASSUME ReleaseAssumption ==
  /\ DOMAIN Core = Commit
  /\ First \subseteq Commit /\ Taggable \subseteq Commit
  /\ Visible \subseteq Edit
  /\ \A c \in Commit : Core[c] # "topic"
  /\ MaxMerges \in Nat /\ MaxRevision \in Nat \ {0}

VARIABLES
  history,     \* the trees the base branch has had, the current one last
  tags,        \* the commits of MLX that are tagged v<core>
  pr,          \* pr[s]: the pull request open in slot s, or NoPR
  raced,       \* a merge was checked against an older base, or moved to another
               \* core after a check on a merge commit made with an older base
  returned     \* the base branch went back to a core it had left

vars == <<history, tags, pr, raced, returned>>

Ref == [commit : Commit, stable : BOOLEAN]
Cut == [commit : Commit, edits : SUBSET Visible]
Tree == [ref : Ref, rev : 0 .. MaxRevision, src : SUBSET Edit, cut : Cut]

NoPR == [open |-> FALSE]
Branches == {<<"topic", s>> : s \in Slot} \cup
            {<<Core[c], n>> : c \in Commit, n \in 1 .. MaxRevision} \cup
            {<<Core[c], n, c>> : c \in Commit, n \in 1 .. MaxRevision}
PR == [open : {TRUE}, branch : Branches, fork : 1 .. MaxMerges + 1, head : Tree,
       bumped : BOOLEAN,                \* its generator ref had touched the manifest
       merged : Tree,                   \* the merge commit of its last push
       made : 1 .. MaxMerges + 1,       \* where the base was when it was pushed
       verdict : {"none", "ok", "rejected"},
       seen : 0 .. MaxMerges + 1]       \* where the base was when it was checked

Tip == Len(history)
Main == history[Tip]
CoreOf(tree) == Core[tree.ref.commit]

TypeOK ==
  /\ history \in Seq(Tree) /\ Tip \in 1 .. MaxMerges + 1
  /\ tags \subseteq Commit
  /\ pr \in [Slot -> PR \cup {NoPR}]
  /\ raced \in BOOLEAN /\ returned \in BOOLEAN

Init ==
  /\ \E c \in First, stable \in BOOLEAN, n \in 0 .. 1 :
       /\ stable => c \in Taggable
       /\ history = << [ref |-> [commit |-> c, stable |-> stable], rev |-> n,
                        src |-> {}, cut |-> [commit |-> c, edits |-> {}]] >>
       /\ tags = IF stable THEN {c} ELSE {}
  /\ pr = [s \in Slot |-> NoPR]
  /\ raced = FALSE /\ returned = FALSE

-----------------------------------------------------------------------------
(* The rules: internal/mlxcgen/revision and the two tools that apply them.  *)

\* revision.Next: a new core starts at 1, a changed cut of the same core is next.
NextRev(baseCore, baseRev, core, changed) ==
  IF core # baseCore THEN 1 ELSE IF changed THEN baseRev + 1 ELSE baseRev

\* Mutant of Changed: only the pin is compared.
ChangedPin(base, tree) == base.ref # tree.ref

\* generatorContentChanged (generated files only), or another pin.
Changed(base, tree) == base.cut # tree.cut \/ base.ref # tree.ref

\* check of mlx-c-revision-check; a manifest without a revision is migrated to 1.
Accepts(base, tree) ==
  IF base.rev = 0
  THEN ~Changed(base, tree) /\ CoreOf(base) = CoreOf(tree) /\ tree.rev = 1
  ELSE tree.rev = NextRev(CoreOf(base), base.rev, CoreOf(tree), Changed(base, tree))

\* Mutant of CandidateChanged: a new MLX commit does not count.
GeneratorChanged(fork, from, c) ==
  <<from.ref, from.rev, from.src>> # <<fork.ref, fork.rev, fork.src>>

(* What prepare passes to revision.Next: the workflow's diff of the generator *)
(* ref with its merge base (sources and manifest), or another MLX commit.     *)
CandidateChanged(fork, from, c) ==
  \/ <<from.ref, from.rev, from.src>> # <<fork.ref, fork.rev, fork.src>>
  \/ from.ref.commit # c

\* The cut that tools/mlx-c-regen writes from these sources.
Regenerated(src, c) == [commit |-> c, edits |-> src \cap Visible]

\* prepare and the regeneration: the candidate for MLX commit c from a generator ref.
Candidate(fork, from, c) ==
  [ref |-> [commit |-> c, stable |-> c \in tags],
   rev |-> NextRev(CoreOf(from), from.rev, Core[c], CandidateChanged(fork, from, c)),
   src |-> from.src,
   cut |-> Regenerated(from.src, c)]

\* revision.NewIdentity: a preview also names its commit.
Identity(tree) ==
  IF tree.ref.stable THEN <<CoreOf(tree), tree.rev>>
  ELSE <<CoreOf(tree), tree.rev, tree.ref.commit>>

-----------------------------------------------------------------------------
(* git: the merge of two trees with a common ancestor.                      *)

Pick(old, ours, theirs) == IF ours = old THEN theirs ELSE ours
Clean(old, ours, theirs) == ours = old \/ theirs = old \/ ours = theirs

Mergeable(old, ours, theirs) ==
  /\ Clean(old.ref, ours.ref, theirs.ref)
  /\ Clean(old.rev, ours.rev, theirs.rev)
  /\ Clean(old.cut.commit, ours.cut.commit, theirs.cut.commit)

\* Edits of different files merge without a conflict.
Merged(old, ours, theirs) ==
  [ref |-> Pick(old.ref, ours.ref, theirs.ref),
   rev |-> Pick(old.rev, ours.rev, theirs.rev),
   src |-> ours.src \cup theirs.src,
   cut |-> [commit |-> Pick(old.cut.commit, ours.cut.commit, theirs.cut.commit),
            edits |-> ours.cut.edits \cup theirs.cut.edits]]

-----------------------------------------------------------------------------
\* A push opens the pull request of a branch, or replaces what it held.  Nothing is
\* pushed once the base has had its last merge.
Push(s, branch, fork, head, bumped) ==
  /\ head.rev <= MaxRevision /\ Tip <= MaxMerges
  /\ Mergeable(history[fork], Main, head)
  /\ pr' = [pr EXCEPT ![s] =
       [open |-> TRUE, branch |-> branch, fork |-> fork, head |-> head,
        bumped |-> bumped, merged |-> Merged(history[fork], Main, head),
        made |-> Tip, verdict |-> "none", seen |-> 0]]
  /\ UNCHANGED <<history, tags, raced, returned>>

\* A developer's branch: edits of the sources, regenerated or not, and a revision.
Topic(s) ==
  /\ ~pr[s].open
  /\ \E edits \in SUBSET (Edit \ Main.src), regenerate \in BOOLEAN, bump \in 0 .. 1 :
       LET src == Main.src \cup edits
       IN  Push(s, <<"topic", s>>, Tip,
                [Main EXCEPT !.src = src, !.rev = @ + bump,
                   !.cut = IF regenerate THEN Regenerated(src, Main.cut.commit) ELSE @],
                FALSE)

\* Where mlx-c-publish-candidate pushes: its identity's open branch, or a new one.
SlotOf(s, branch) ==
  IF \E t \in Slot : pr[t].open /\ pr[t].branch = branch
  THEN pr[s].open /\ pr[s].branch = branch
  ELSE ~pr[s].open

(* The workflow, which checked the generator ref out at some earlier moment:  *)
(* the base branch then, or a topic branch that forked from it.               *)
Publish(s, fork, from, c) ==
  LET tree == Candidate(history[fork], from, c)
  IN  /\ from.rev >= 1
      /\ tree.rev <= MaxRevision
      /\ SlotOf(s, Identity(tree))
      /\ Push(s, Identity(tree), fork, tree, from.rev # history[fork].rev)

PublishFromBase(s) == \E i \in 1 .. Tip, c \in Commit : Publish(s, i, history[i], c)

PublishFromTopic(s) ==
  \E t \in Slot, c \in Commit :
    /\ pr[t].open /\ pr[t].branch = <<"topic", t>>
    /\ Publish(s, pr[t].fork, pr[t].head, c)

\* Mutant of Check: the pull request is compared with the commit it forked from.
CheckAtFork(s) ==
  /\ pr[s].open /\ pr[s].verdict = "none"
  /\ pr' = [pr EXCEPT ![s].verdict = IF Accepts(history[pr[s].fork], pr[s].merged)
                                     THEN "ok" ELSE "rejected",
                      ![s].seen = Tip]
  /\ UNCHANGED <<history, tags, raced, returned>>

\* mlx-c-revision-check on the merge commit, against the base as it is now.
Check(s) ==
  /\ pr[s].open /\ pr[s].verdict = "none"
  /\ pr' = [pr EXCEPT ![s].verdict = IF Accepts(Main, pr[s].merged) THEN "ok" ELSE "rejected",
                      ![s].seen = Tip]
  /\ UNCHANGED <<history, tags, raced, returned>>

Merge(s) ==
  /\ pr[s].open /\ pr[s].verdict = "ok"
  /\ Tip <= MaxMerges
  /\ LET old == history[pr[s].fork]
         tree == Merged(old, Main, pr[s].head)
     IN  /\ Mergeable(old, Main, pr[s].head)
         /\ history' = Append(history, tree)
         /\ raced' = (raced \/ pr[s].seen # Tip
                            \/ /\ pr[s].made # Tip
                               /\ CoreOf(tree) # CoreOf(history[pr[s].made]))
         /\ returned' = (returned \/ /\ CoreOf(tree) # CoreOf(Main)
                                     /\ \E i \in 1 .. Tip : CoreOf(history[i]) = CoreOf(tree))
  /\ pr' = [pr EXCEPT ![s] = NoPR]
  /\ UNCHANGED tags

Abandon(s) ==
  /\ pr[s].open
  /\ pr' = [pr EXCEPT ![s] = NoPR]
  /\ UNCHANGED <<history, tags, raced, returned>>

\* MLX tags a commit as the release of its core.
TagCore(c) ==
  /\ \A d \in tags : Core[d] # Core[c]
  /\ tags' = tags \cup {c}
  /\ UNCHANGED <<history, pr, raced, returned>>

Next ==
  \/ \E s \in Slot : Topic(s) \/ PublishFromBase(s) \/ PublishFromTopic(s)
                     \/ Check(s) \/ Merge(s) \/ Abandon(s)
  \/ \E c \in Taggable : TagCore(c)

Spec == Init /\ [][Next]_vars

-----------------------------------------------------------------------------
(* Revision-policy CI rejects reused revision numbers (README.md): two trees *)
(* of the base branch with one identity hold the same generated cut.  It is  *)
(* so as long as no pull request is merged behind a base its check had not   *)
(* seen and the base does not go back to an earlier core, which restarts at  *)
(* revision 1.                                                               *)
IdentityNamesOneCut ==
  ~raced /\ ~returned =>
    \A i, j \in 1 .. Tip :
      history[i].rev > 0 /\ Identity(history[i]) = Identity(history[j])
        => history[i].cut = history[j].cut

(* A merge on the base that its check saw follows the revision policy, though *)
(* the merge commit that was checked may have been made on an older base.  It *)
(* is so as long as the base does not go back to an earlier core: one that    *)
(* has left the core of that older base and come back can have changed        *)
(* without its revision having grown.                                         *)
MergesFollowPolicy ==
  [][Tip' # Tip /\ ~raced' /\ ~returned' => Accepts(Main, Main')]_vars

(* A candidate that the policy rejects though it was checked against the very *)
(* base it was made from, and its generator ref had not raised the revision.  *)
Rejected(s) ==
  /\ pr[s].open /\ pr[s].branch # <<"topic", s>> /\ ~pr[s].bumped
  /\ pr[s].verdict = "rejected" /\ pr[s].seen = pr[s].fork

\* prepare and the policy decide from different files whether the cut changed
\* (README.md, known disagreements): they can only disagree about a candidate that
\* leaves the base at its MLX commit.
MovesAccepted ==
  \A s \in Slot :
    Rejected(s) => pr[s].head.ref.commit = history[pr[s].fork].ref.commit
================================================================================
