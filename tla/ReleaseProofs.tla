---------------------------- MODULE ReleaseProofs ----------------------------
(***************************************************************************)
(* Theorems about Release, for every set of commits, cores and edits, every *)
(* number of pull requests, merges and revisions.                           *)
(*                                                                         *)
(* Along one core the revision never falls, and where it stays the cut and *)
(* the pin stay (Growing).  What a check has accepted is the merge of a     *)
(* head with the base at some earlier moment (Checked); StaleMerge shows    *)
(* that the merge with the base of now is then accepted as well, if the     *)
(* base has been on one core in between.                                    *)
(***************************************************************************)
EXTENDS Release, SequenceTheorems, TLAPS

\* A tree a comes before a tree b of the base branch.
Before(a, b) ==
  CoreOf(a) = CoreOf(b) =>
    /\ a.rev <= b.rev
    /\ a.rev = b.rev /\ a.rev > 0 => a.cut = b.cut /\ a.ref = b.ref

\* The base branch while no merge was raced and no core came back.
Growing ==
  \A i, j \in 1 .. Tip : i <= j =>
    /\ Before(history[i], history[j])
    /\ history[j].rev = 0 => j = 1

\* What is known of an open pull request.
Made(p) ==
  /\ p.fork <= p.made /\ p.made <= Tip
  /\ Mergeable(history[p.fork], history[p.made], p.head)
  /\ p.merged = Merged(history[p.fork], history[p.made], p.head)

Checked(p) ==
  p.verdict # "none" =>
    /\ p.made <= p.seen /\ p.seen <= Tip
    /\ p.verdict = "ok" <=> Accepts(history[p.seen], p.merged)

\* A topic branch keeps the pin; a candidate has the revision of a changed cut if it
\* changes the commit.
Prepared(s, p) ==
  IF p.branch = <<"topic", s>> THEN p.head.ref = history[p.fork].ref
  ELSE LET base == history[p.fork]
       IN  ~p.bumped /\ p.head.ref.commit # base.ref.commit =>
             /\ base.rev >= 1
             /\ p.head.rev = NextRev(CoreOf(base), base.rev, CoreOf(p.head), TRUE)

Requests == \A s \in Slot : pr[s].open =>
  Made(pr[s]) /\ Checked(pr[s]) /\ Prepared(s, pr[s])

ReleaseInv == TypeOK /\ Requests /\ (~raced /\ ~returned => Growing)

USE ReleaseAssumption

-----------------------------------------------------------------------------
(* Trees.                                                                   *)

LEMMA MergedType ==
  ASSUME NEW old \in Tree, NEW ours \in Tree, NEW theirs \in Tree
  PROVE  Merged(old, ours, theirs) \in Tree
BY DEF Merged, Pick, Tree, Cut

LEMMA CandidateType ==
  ASSUME NEW fork \in Tree, NEW from \in Tree, NEW c \in Commit, from.rev >= 1,
         Candidate(fork, from, c).rev <= MaxRevision
  PROVE  /\ Candidate(fork, from, c) \in Tree
         /\ Identity(Candidate(fork, from, c)) \in Branches
<1> DEFINE tree == Candidate(fork, from, c)
<1>1. tree.rev \in 1 .. MaxRevision
  <2>1. from.rev \in Nat /\ 1 <= from.rev
    BY DEF Tree
  <2>2. tree.rev \in Nat /\ 1 <= tree.rev
    BY <2>1 DEF Candidate, NextRev
  <2> QED
    BY <2>2
<1>2. tree.ref = [commit |-> c, stable |-> c \in tags] /\ tree.src = from.src
      /\ tree.cut = [commit |-> c, edits |-> from.src \cap Visible]
  BY DEF Candidate, Regenerated
<1>3. tree = [ref |-> tree.ref, rev |-> tree.rev, src |-> tree.src, cut |-> tree.cut]
  BY DEF Candidate
<1>4. tree \in Tree
  <2>1. tree.rev \in 0 .. MaxRevision
    BY <1>1
  <2>2. tree.ref \in Ref /\ tree.src \in SUBSET Edit /\ tree.cut \in Cut
    BY <1>2 DEF Tree, Ref, Cut
  <2> HIDE DEF tree
  <2> QED
    BY <1>3, <2>1, <2>2 DEF Tree
<1>5. Identity(tree) \in Branches
  BY <1>1, <1>2 DEF Identity, CoreOf, Branches
<1> QED
  BY <1>4, <1>5

\* Two trees of one identity have one core and one revision.
LEMMA IdentityParts ==
  ASSUME NEW a, NEW b, Identity(a) = Identity(b)
  PROVE  CoreOf(a) = CoreOf(b) /\ a.rev = b.rev
<1>1. \A t : Identity(t)[1] = CoreOf(t) /\ Identity(t)[2] = t.rev
  BY DEF Identity
<1> QED
  BY <1>1

\* The merge of a head with the base of now is accepted when its merge with an earlier
\* base of the same core is, and the base has been on this core ever since.
LEMMA StaleMerge ==
  ASSUME NEW old \in Tree, NEW made \in Tree, NEW main \in Tree, NEW head \in Tree,
         Mergeable(old, made, head), Mergeable(old, main, head),
         CoreOf(main) = CoreOf(made),
         CoreOf(Merged(old, main, head)) = CoreOf(made),
         Before(made, main), main.rev > 0,
         Accepts(main, Merged(old, made, head))
  PROVE  Accepts(main, Merged(old, main, head))
<1> DEFINE checked == Merged(old, made, head)
           tree == Merged(old, main, head)
<1>1. /\ main.rev \in Nat /\ made.rev \in Nat /\ old.rev \in Nat /\ head.rev \in Nat
      /\ checked.rev \in Nat /\ tree.rev \in Nat
  BY MergedType DEF Tree
<1>2. /\ checked.ref = Pick(old.ref, made.ref, head.ref)
      /\ checked.rev = Pick(old.rev, made.rev, head.rev)
      /\ checked.cut = [commit |-> Pick(old.cut.commit, made.cut.commit, head.cut.commit),
                        edits |-> made.cut.edits \cup head.cut.edits]
      /\ tree.ref = Pick(old.ref, main.ref, head.ref)
      /\ tree.rev = Pick(old.rev, main.rev, head.rev)
      /\ tree.cut = [commit |-> Pick(old.cut.commit, main.cut.commit, head.cut.commit),
                     edits |-> main.cut.edits \cup head.cut.edits]
  BY DEF Merged
<1>3. checked.rev = NextRev(CoreOf(main), main.rev, CoreOf(checked), Changed(main, checked))
  BY DEF Accepts
<1>4. CoreOf(checked) = CoreOf(main)
  <2>1. SUFFICES ASSUME CoreOf(checked) # CoreOf(main) PROVE FALSE
    OBVIOUS
  <2>2. made.ref = old.ref /\ checked.ref = head.ref
    BY <1>2, <2>1 DEF Pick, CoreOf
  <2>3. main.ref # old.ref /\ tree.ref = main.ref
    BY <1>2, <2>1, <2>2 DEF Pick, CoreOf
  <2>4. head.ref = old.ref \/ head.ref = main.ref
    BY <2>3 DEF Mergeable, Clean
  <2> QED
    BY <2>1, <2>2, <2>4 DEF CoreOf
<1>5. checked.rev = IF Changed(main, checked) THEN main.rev + 1 ELSE main.rev
  BY <1>3, <1>4 DEF NextRev
<1>6. made.rev <= main.rev
  BY DEF Before
\* The base has not changed since: both merges are the same.
<1>7. CASE made.rev = main.rev
  <2>1. made.cut = main.cut /\ made.ref = main.ref
    BY <1>7 DEF Before
  <2>2. tree.cut = checked.cut /\ tree.ref = checked.ref /\ tree.rev = checked.rev
    BY <1>2, <1>7, <2>1
  <2>3. Changed(main, tree) = Changed(main, checked)
    BY <2>2 DEF Changed
  <2> QED
    BY <1>1, <1>5, <2>2, <2>3 DEF Accepts, NextRev
\* The base has changed: the head raised the revision as the base has, and changes no more.
<1>8. CASE made.rev < main.rev
  <2>1. head.rev # old.rev
    <3>1. SUFFICES ASSUME head.rev = old.rev PROVE FALSE
      OBVIOUS
    <3>2. checked.rev = made.rev
      BY <1>2, <3>1 DEF Pick
    <3> QED
      BY <1>1, <1>5, <1>8, <3>2
  <2>2. made.rev \in {old.rev, head.rev} /\ main.rev \in {old.rev, head.rev}
    BY <2>1 DEF Mergeable, Clean
  <2>3. checked.rev = head.rev /\ tree.rev = head.rev
    BY <1>2, <2>2 DEF Pick
  <2>4. head.rev = main.rev /\ ~Changed(main, checked)
    BY <1>1, <1>5, <1>8, <2>2, <2>3
  <2>5. checked.cut = main.cut /\ checked.ref = main.ref
    BY <2>4 DEF Changed
  <2>6. tree.ref = main.ref
    BY <1>2, <2>5 DEF Pick
  <2>7. tree.cut.commit = main.cut.commit
    BY <1>2, <2>5 DEF Pick
  <2>8. tree.cut.edits = main.cut.edits
    <3>1. main.cut.edits = made.cut.edits \cup head.cut.edits
      BY <1>2, <2>5
    <3> QED
      BY <1>2, <3>1
  <2>9. tree.cut = main.cut
    BY <1>2, <2>7, <2>8 DEF Tree, Cut
  <2> QED
    BY <2>3, <2>4, <2>6, <2>9, <1>1 DEF Accepts, Changed, NextRev
<1> QED
  BY <1>1, <1>6, <1>7, <1>8

-----------------------------------------------------------------------------
(* The initial states and the steps.                                        *)

LEMMA InitInv == Init => ReleaseInv
<1> SUFFICES ASSUME Init PROVE ReleaseInv
  OBVIOUS
<1>1. PICK c \in First, stable \in BOOLEAN, n \in 0 .. 1 :
        /\ stable => c \in Taggable
        /\ history = << [ref |-> [commit |-> c, stable |-> stable], rev |-> n,
                         src |-> {}, cut |-> [commit |-> c, edits |-> {}]] >>
        /\ tags = IF stable THEN {c} ELSE {}
  BY DEF Init
<1>2. n \in 0 .. MaxRevision /\ c \in Commit /\ tags \subseteq Commit
  BY <1>1
<1>3. history[1] \in Tree
  BY <1>1, <1>2 DEF Tree, Ref, Cut
<1>4. history \in Seq(Tree) /\ Tip = 1
  BY <1>1, <1>3 DEF Tip
<1>5. pr = [s \in Slot |-> NoPR] /\ raced = FALSE /\ returned = FALSE
  BY DEF Init
<1>6. TypeOK
  <2>1. pr \in [Slot -> PR \cup {NoPR}] /\ raced \in BOOLEAN /\ returned \in BOOLEAN
    BY <1>5
  <2>2. Tip \in 1 .. MaxMerges + 1
    BY <1>4
  <2> QED
    BY <1>2, <1>4, <2>1, <2>2 DEF TypeOK
<1>7. Requests
  BY <1>5 DEF Requests, NoPR
<1>8. Growing
  BY <1>3, <1>4 DEF Growing, Before, Tree
<1> QED
  BY <1>6, <1>7, <1>8 DEF ReleaseInv

LEMMA TreeAt ==
  ASSUME TypeOK, NEW i \in 1 .. Tip
  PROVE  history[i] \in Tree
BY ElementOfSeq DEF TypeOK, Tip

\* The trees that a pull request names are there.
LEMMA RequestRange ==
  ASSUME TypeOK, NEW p \in PR, Made(p)
  PROVE  /\ p.fork \in 1 .. Tip /\ p.made \in 1 .. Tip
         /\ Checked(p) /\ p.verdict # "none" => p.seen \in 1 .. Tip
<1>1. p.fork \in Nat /\ p.fork >= 1 /\ p.made \in Nat /\ p.seen \in Nat /\ Tip \in Nat
  BY DEF PR, TypeOK
<1>2. p.fork <= p.made /\ p.made <= Tip
  BY DEF Made
<1>3. Checked(p) /\ p.verdict # "none" => p.made <= p.seen /\ p.seen <= Tip
  BY DEF Checked
<1> QED
  BY <1>1, <1>2, <1>3

\* What is opened or moved by a push, or checked, leaves the base branch as it is.
LEMMA OneRequest ==
  ASSUME ReleaseInv, NEW s \in Slot, NEW p \in PR,
         pr' = [pr EXCEPT ![s] = p], UNCHANGED <<history, tags, raced, returned>>,
         Made(p), Checked(p), Prepared(s, p)
  PROVE  ReleaseInv'
<1>1. TypeOK'
  BY DEF ReleaseInv, TypeOK, Tip
<1>2. Requests'
  <2> SUFFICES ASSUME NEW t \in Slot, pr'[t].open
               PROVE  (Made(pr[t]) /\ Checked(pr[t]) /\ Prepared(t, pr[t]))'
    BY DEF Requests
  <2>1. CASE t = s
    <3>1. pr'[t] = p
      BY <2>1 DEF ReleaseInv, TypeOK
    <3> QED
      BY <2>1, <3>1 DEF Made, Checked, Prepared, Tip
  <2>2. CASE t # s
    <3>1. pr'[t] = pr[t]
      BY <2>2 DEF ReleaseInv, TypeOK
    <3>2. Made(pr[t]) /\ Checked(pr[t]) /\ Prepared(t, pr[t])
      BY <3>1 DEF ReleaseInv, Requests
    <3> QED
      BY <3>1, <3>2 DEF Made, Checked, Prepared, Tip
  <2> QED
    BY <2>1, <2>2
<1>3. ~raced' /\ ~returned' => Growing'
  BY DEF ReleaseInv, Growing, Tip
<1> QED
  BY <1>1, <1>2, <1>3 DEF ReleaseInv

LEMMA PushInv ==
  ASSUME ReleaseInv, NEW s \in Slot, NEW branch \in Branches, NEW fork \in 1 .. Tip,
         NEW head \in Tree, NEW bumped \in BOOLEAN, NEW p,
         Push(s, branch, fork, head, bumped),
         p = [open |-> TRUE, branch |-> branch, fork |-> fork, head |-> head,
              bumped |-> bumped, merged |-> Merged(history[fork], Main, head),
              made |-> Tip, verdict |-> "none", seen |-> 0],
         Prepared(s, p)
  PROVE  ReleaseInv'
<1>1. Tip \in 1 .. MaxMerges + 1 /\ Tip \in Nat
  BY DEF ReleaseInv, TypeOK
<1>2. history[fork] \in Tree /\ Main \in Tree
  BY <1>1, TreeAt DEF ReleaseInv, Main
<1>3. Merged(history[fork], Main, head) \in Tree
  BY <1>2, MergedType
<1>4. p \in PR
  BY <1>1, <1>3 DEF PR
<1>5. /\ pr' = [pr EXCEPT ![s] = p] /\ UNCHANGED <<history, tags, raced, returned>>
      /\ Mergeable(history[fork], Main, head)
  BY DEF Push
<1>6. Made(p)
  BY <1>1, <1>5 DEF Made, Main
<1>7. Checked(p)
  BY DEF Checked
<1> QED
  BY <1>4, <1>5, <1>6, <1>7, OneRequest

LEMMA TopicInv ==
  ASSUME ReleaseInv, NEW s \in Slot, Topic(s)
  PROVE  ReleaseInv'
<1>1. PICK edits \in SUBSET (Edit \ Main.src), regenerate \in BOOLEAN, bump \in 0 .. 1 :
        LET src == Main.src \cup edits
        IN  Push(s, <<"topic", s>>, Tip,
                 [Main EXCEPT !.src = src, !.rev = @ + bump,
                    !.cut = IF regenerate THEN Regenerated(src, Main.cut.commit) ELSE @],
                 FALSE)
  BY DEF Topic
<1> DEFINE src == Main.src \cup edits
           cut == IF regenerate THEN Regenerated(src, Main.cut.commit) ELSE Main.cut
           head == [Main EXCEPT !.src = src, !.rev = @ + bump, !.cut = cut]
           p == [open |-> TRUE, branch |-> <<"topic", s>>, fork |-> Tip, head |-> head,
                 bumped |-> FALSE, merged |-> Merged(history[Tip], Main, head),
                 made |-> Tip, verdict |-> "none", seen |-> 0]
<1>2. Tip \in 1 .. Tip /\ Main \in Tree
  BY TreeAt DEF ReleaseInv, TypeOK, Main
<1>3. Push(s, <<"topic", s>>, Tip, head, FALSE)
  BY <1>1, <1>2 DEF Tree
<1>4. head.ref = Main.ref
  BY <1>2 DEF Tree
<1>5. head \in Tree
  <2>1. Main.rev + bump <= MaxRevision
    <3>1. head.rev = Main.rev + bump
      BY <1>2 DEF Tree
    <3> QED
      BY <1>3, <3>1 DEF Push
  <2>2. Main.rev + bump \in 0 .. MaxRevision
    BY <1>2, <2>1 DEF Tree
  <2>3. src \in SUBSET Edit /\ cut \in Cut
    BY <1>2 DEF Tree, Cut, Regenerated
  <2> HIDE DEF src, cut
  <2> QED
    BY <1>2, <2>2, <2>3 DEF Tree
<1>6. <<"topic", s>> \in Branches
  BY DEF Branches
<1>7. Prepared(s, p)
  BY <1>4 DEF Prepared, Main
<1> HIDE DEF head
<1> QED
  BY <1>2, <1>3, <1>5, <1>6, <1>7, PushInv

LEMMA PublishInv ==
  ASSUME ReleaseInv, NEW s \in Slot, NEW fork \in 1 .. Tip, NEW from \in Tree,
         NEW c \in Commit, from.ref = history[fork].ref, Publish(s, fork, from, c)
  PROVE  ReleaseInv'
<1> DEFINE base == history[fork]
           tree == Candidate(base, from, c)
           bumped == from.rev # base.rev
           p == [open |-> TRUE, branch |-> Identity(tree), fork |-> fork, head |-> tree,
                 bumped |-> bumped, merged |-> Merged(history[fork], Main, tree),
                 made |-> Tip, verdict |-> "none", seen |-> 0]
<1>1. from.rev >= 1 /\ tree.rev <= MaxRevision
      /\ Push(s, Identity(tree), fork, tree, bumped)
  BY DEF Publish
<1>2. base \in Tree
  BY TreeAt DEF ReleaseInv
<1>3. tree \in Tree /\ Identity(tree) \in Branches
  BY <1>1, <1>2, CandidateType
<1>4. Prepared(s, p)
  <2>1. p.branch # <<"topic", s>>
    <3>1. Identity(tree)[1] = CoreOf(tree)
      BY DEF Identity
    <3>2. CoreOf(tree) # "topic"
      BY <1>3 DEF CoreOf, Tree, Ref
    <3> QED
      BY <3>1, <3>2
  <2>2. ASSUME ~bumped, tree.ref.commit # base.ref.commit
        PROVE  base.rev >= 1 /\ tree.rev = NextRev(CoreOf(base), base.rev, CoreOf(tree), TRUE)
    <3>1. tree.ref.commit = c /\ CoreOf(from) = CoreOf(base) /\ CoreOf(tree) = Core[c]
      BY DEF Candidate, CoreOf
    <3>2. CandidateChanged(base, from, c)
      BY <2>2, <3>1 DEF CandidateChanged
    <3>3. tree.rev = NextRev(CoreOf(from), from.rev, Core[c], CandidateChanged(base, from, c))
      BY DEF Candidate
    <3> QED
      BY <1>1, <2>2, <3>1, <3>2, <3>3 DEF NextRev
  <2> HIDE DEF tree, bumped
  <2> QED
    BY <2>1, <2>2 DEF Prepared
<1> HIDE DEF tree
<1>5. bumped \in BOOLEAN
  OBVIOUS
<1> QED
  BY <1>1, <1>3, <1>4, <1>5, PushInv

LEMMA CheckInv ==
  ASSUME ReleaseInv, NEW s \in Slot, Check(s)
  PROVE  ReleaseInv'
<1> DEFINE verdict == IF Accepts(Main, pr[s].merged) THEN "ok" ELSE "rejected"
           p == [pr[s] EXCEPT !.verdict = verdict, !.seen = Tip]
<1>1. pr[s].open /\ pr[s] \in PR
  BY DEF Check, ReleaseInv, TypeOK, NoPR
<1>2. pr' = [pr EXCEPT ![s] = p] /\ UNCHANGED <<history, tags, raced, returned>>
  BY <1>1 DEF Check, ReleaseInv, TypeOK, PR
<1>3. Made(pr[s]) /\ Prepared(s, pr[s])
  BY <1>1 DEF ReleaseInv, Requests
<1>4. /\ p.branch = pr[s].branch /\ p.fork = pr[s].fork /\ p.head = pr[s].head
      /\ p.bumped = pr[s].bumped /\ p.merged = pr[s].merged /\ p.made = pr[s].made
      /\ p.verdict = verdict /\ p.seen = Tip
  BY <1>1 DEF PR
<1>5. p \in PR
  <2>1. Tip \in 0 .. MaxMerges + 1
    BY DEF ReleaseInv, TypeOK
  <2> QED
    BY <1>1, <2>1 DEF PR
<1>6. Made(p) /\ Prepared(s, p)
  BY <1>3, <1>4 DEF Made, Prepared
<1>7. Checked(p)
  BY <1>3, <1>4 DEF Checked, Made, Main, ReleaseInv, TypeOK
<1> HIDE DEF p
<1> QED
  BY <1>2, <1>5, <1>6, <1>7, OneRequest

LEMMA AbandonInv ==
  ASSUME ReleaseInv, NEW s \in Slot, Abandon(s)
  PROVE  ReleaseInv'
<1>1. pr' = [pr EXCEPT ![s] = NoPR] /\ UNCHANGED <<history, tags, raced, returned>>
  BY DEF Abandon
<1>2. TypeOK'
  BY <1>1 DEF ReleaseInv, TypeOK, Tip
<1>3. Requests'
  BY <1>1 DEF ReleaseInv, TypeOK, Requests, NoPR, Made, Checked, Prepared, Tip
<1> QED
  BY <1>1, <1>2, <1>3 DEF ReleaseInv, Growing, Tip

LEMMA TagCoreInv ==
  ASSUME ReleaseInv, NEW c \in Taggable, TagCore(c)
  PROVE  ReleaseInv'
<1>1. tags' = tags \cup {c} /\ UNCHANGED <<history, pr, raced, returned>>
  BY DEF TagCore
<1>2. TypeOK'
  BY <1>1 DEF ReleaseInv, TypeOK, Tip
<1>3. Requests'
  BY <1>1 DEF ReleaseInv, Requests, Made, Checked, Prepared, Tip
<1> QED
  BY <1>1, <1>2, <1>3 DEF ReleaseInv, Growing, Tip

-----------------------------------------------------------------------------
(* The merge.                                                               *)

\* A merge that was not raced, and does not bring an earlier core back, is accepted by
\* the revision policy on the base it is merged into.
LEMMA MergeAccepted ==
  ASSUME ReleaseInv, NEW s \in Slot, Merge(s), ~raced', ~returned'
  PROVE  Accepts(Main, Merged(history[pr[s].fork], Main, pr[s].head))
<1> DEFINE p == pr[s]
           old == history[p.fork]
           tree == Merged(old, Main, p.head)
<1>1. p.open /\ p.verdict = "ok" /\ p \in PR
  BY DEF Merge, ReleaseInv, TypeOK, NoPR
<1>2. Made(p) /\ Checked(p)
  BY <1>1 DEF ReleaseInv, Requests
<1>3. ~raced /\ ~returned /\ p.seen = Tip
      /\ (p.made = Tip \/ CoreOf(tree) = CoreOf(history[p.made]))
      /\ (CoreOf(tree) = CoreOf(Main) \/ \A i \in 1 .. Tip : CoreOf(history[i]) # CoreOf(tree))
      /\ Mergeable(old, Main, p.head)
  BY DEF Merge
<1>4. p.fork \in 1 .. Tip /\ p.made \in 1 .. Tip /\ Tip \in 1 .. Tip /\ p.head \in Tree
  BY <1>1, <1>2 DEF Made, PR, ReleaseInv, TypeOK
<1>5. old \in Tree /\ history[p.made] \in Tree /\ Main \in Tree
  BY <1>4, TreeAt DEF ReleaseInv, Main
<1>6. Accepts(Main, Merged(old, history[p.made], p.head))
      /\ Mergeable(old, history[p.made], p.head)
  BY <1>1, <1>2, <1>3 DEF Made, Checked, Main
<1>7. CASE p.made = Tip
  BY <1>6, <1>7 DEF Main
<1>8. CASE p.made # Tip
  <2>1. CoreOf(tree) = CoreOf(history[p.made]) /\ CoreOf(Main) = CoreOf(history[p.made])
    BY <1>3, <1>4, <1>8
  <2>2. Before(history[p.made], Main) /\ Main.rev # 0
    BY <1>3, <1>4, <1>8 DEF ReleaseInv, Growing, Main
  <2>3. Main.rev > 0
    BY <1>5, <2>2 DEF Tree
  <2>4. Accepts(Main, Merged(old, history[p.made], p.head))
        /\ Mergeable(old, history[p.made], p.head) /\ Mergeable(old, Main, p.head)
    BY <1>3, <1>6
  <2>5. CoreOf(Merged(old, Main, p.head)) = CoreOf(history[p.made])
    BY <2>1
  <2> QED
    BY <1>4, <1>5, <2>1, <2>2, <2>3, <2>4, <2>5, StaleMerge
<1> QED
  BY <1>7, <1>8

\* What the policy accepts comes after the base.
LEMMA AcceptedAfter ==
  ASSUME NEW base \in Tree, NEW tree \in Tree, Accepts(base, tree)
  PROVE  Before(base, tree) /\ tree.rev > 0
BY DEF Accepts, NextRev, Changed, Before, Tree

LEMMA BeforeTransitive ==
  ASSUME NEW a \in Tree, NEW b \in Tree, NEW c \in Tree,
         Before(a, b), Before(b, c), CoreOf(a) = CoreOf(c) => CoreOf(b) = CoreOf(c)
  PROVE  Before(a, c)
BY DEF Before, Tree

LEMMA MergeInv ==
  ASSUME ReleaseInv, NEW s \in Slot, Merge(s)
  PROVE  ReleaseInv'
<1> DEFINE p == pr[s]
           old == history[p.fork]
           tree == Merged(old, Main, p.head)
<1>1. p.open /\ p \in PR /\ Made(p) /\ Tip <= MaxMerges
  BY DEF Merge, ReleaseInv, Requests, TypeOK, NoPR
<1>2. history' = Append(history, tree) /\ pr' = [pr EXCEPT ![s] = NoPR] /\ tags' = tags
      /\ raced' \in BOOLEAN /\ returned' \in BOOLEAN
      /\ (~raced' => ~raced) /\ (~returned' => ~returned)
  BY DEF Merge, ReleaseInv, TypeOK
<1>3. history \in Seq(Tree) /\ Tip \in Nat /\ Tip \in 1 .. Tip
  BY DEF ReleaseInv, TypeOK
<1>4. old \in Tree /\ Main \in Tree /\ p.head \in Tree
  <2>1. p.fork \in 1 .. Tip
    BY <1>1, RequestRange DEF ReleaseInv
  <2> QED
    BY <1>1, <1>3, <2>1, TreeAt DEF ReleaseInv, Main, PR
<1>5. tree \in Tree
  BY <1>4, MergedType
<1> HIDE DEF tree
<1>6. history' \in Seq(Tree) /\ Tip' = Tip + 1 /\ history'[Tip + 1] = tree
      /\ \A i \in 1 .. Tip : history'[i] = history[i]
  BY <1>2, <1>3, <1>5, AppendProperties DEF Tip
<1>7. TypeOK'
  BY <1>1, <1>2, <1>3, <1>6 DEF ReleaseInv, TypeOK
<1>8. Requests'
  <2> SUFFICES ASSUME NEW t \in Slot, pr'[t].open
               PROVE  (Made(pr[t]) /\ Checked(pr[t]) /\ Prepared(t, pr[t]))'
    BY DEF Requests
  <2> DEFINE q == pr[t]
  <2>1. pr'[t] = q /\ q \in PR
    BY <1>2 DEF ReleaseInv, TypeOK, NoPR
  <2>2. Made(q) /\ Checked(q) /\ Prepared(t, q)
    BY <2>1 DEF ReleaseInv, Requests
  <2>3. q.fork \in 1 .. Tip /\ q.made \in 1 .. Tip
    BY <2>1, <2>2, RequestRange DEF ReleaseInv
  <2>4. history'[q.fork] = history[q.fork] /\ history'[q.made] = history[q.made]
    BY <1>6, <2>3
  <2>5. q.verdict # "none" => q.seen \in 1 .. Tip /\ history'[q.seen] = history[q.seen]
    BY <1>6, <2>1, <2>2, RequestRange DEF ReleaseInv
  <2>6. Made(q)'
    <3>1. q.fork <= q.made /\ q.made <= Tip' /\ q.fork \in Nat /\ q.made \in Nat
      BY <1>3, <1>6, <2>2, <2>3 DEF Made
    <3> QED
      BY <2>1, <2>2, <2>4, <3>1 DEF Made
  <2>7. Checked(q)'
    <3>1. q.verdict # "none" => q.made <= q.seen /\ q.seen <= Tip'
      BY <1>3, <1>6, <2>2, <2>3, <2>5 DEF Checked
    <3> QED
      BY <2>1, <2>2, <2>5, <3>1 DEF Checked
  <2>8. Prepared(t, q)'
    BY <2>1, <2>2, <2>4 DEF Prepared
  <2> QED
    BY <2>6, <2>7, <2>8
<1>9. ASSUME ~raced', ~returned' PROVE Growing'
  <2>1. Growing
    BY <1>2, <1>9 DEF ReleaseInv
  <2>2. Accepts(Main, tree)
    BY <1>9, MergeAccepted DEF tree
  <2>3. Before(Main, tree) /\ tree.rev > 0
    BY <1>4, <1>5, <2>2, AcceptedAfter
  <2>4. CoreOf(tree) = CoreOf(Main) \/ \A i \in 1 .. Tip : CoreOf(history[i]) # CoreOf(tree)
    BY <1>9 DEF Merge, tree
  <2>5. ASSUME NEW i \in 1 .. Tip PROVE Before(history[i], tree)
    <3>1. Before(history[i], Main)
      BY <1>3, <2>1 DEF Growing, Main
    <3>2. history[i] \in Tree
      BY TreeAt DEF ReleaseInv
    <3> QED
      BY <1>4, <1>5, <2>3, <2>4, <3>1, <3>2, BeforeTransitive
  <2>6. Before(tree, tree)
    BY <1>5 DEF Before, Tree
  <2> SUFFICES ASSUME NEW i \in 1 .. Tip + 1, NEW j \in 1 .. Tip + 1, i <= j
               PROVE  Before(history'[i], history'[j]) /\ (history'[j].rev = 0 => j = 1)
    BY <1>6 DEF Growing, Before, CoreOf
  <2>7. CASE j = Tip + 1
    <3>1. history'[j] = tree /\ tree.rev # 0
      BY <1>5, <1>6, <2>3, <2>7 DEF Tree
    <3>2. CASE i = Tip + 1
      BY <1>6, <2>6, <3>1, <3>2
    <3>3. CASE i \in 1 .. Tip
      BY <1>6, <2>5, <3>1, <3>3
    <3> QED
      BY <1>3, <3>2, <3>3
  <2>8. CASE j \in 1 .. Tip
    <3>1. i \in 1 .. Tip /\ history'[i] = history[i] /\ history'[j] = history[j]
      BY <1>3, <1>6, <2>8
    <3> QED
      BY <2>1, <2>8, <3>1 DEF Growing
  <2> QED
    BY <1>3, <2>7, <2>8
<1> QED
  BY <1>7, <1>8, <1>9 DEF ReleaseInv

LEMMA StepInv == ReleaseInv /\ [Next]_vars => ReleaseInv'
<1> SUFFICES ASSUME ReleaseInv, [Next]_vars PROVE ReleaseInv'
  OBVIOUS
<1>1. ASSUME NEW s \in Slot, Topic(s) PROVE ReleaseInv'
  BY <1>1, TopicInv
<1>2. ASSUME NEW s \in Slot, PublishFromBase(s) PROVE ReleaseInv'
  <2>1. PICK i \in 1 .. Tip, c \in Commit : Publish(s, i, history[i], c)
    BY <1>2 DEF PublishFromBase
  <2>2. history[i] \in Tree
    BY TreeAt DEF ReleaseInv
  <2> QED
    BY <1>2, <2>1, <2>2, PublishInv
<1>3. ASSUME NEW s \in Slot, PublishFromTopic(s) PROVE ReleaseInv'
  <2>1. PICK t \in Slot, c \in Commit :
          /\ pr[t].open /\ pr[t].branch = <<"topic", t>>
          /\ Publish(s, pr[t].fork, pr[t].head, c)
    BY <1>3 DEF PublishFromTopic
  <2>2. pr[t] \in PR /\ Made(pr[t]) /\ Prepared(t, pr[t])
    BY <2>1 DEF ReleaseInv, TypeOK, NoPR, Requests
  <2>3. pr[t].fork \in 1 .. Tip /\ pr[t].head \in Tree
    BY <2>2 DEF Made, PR, ReleaseInv, TypeOK
  <2>4. pr[t].head.ref = history[pr[t].fork].ref
    BY <2>1, <2>2 DEF Prepared
  <2> QED
    BY <1>3, <2>1, <2>3, <2>4, PublishInv
<1>4. ASSUME NEW s \in Slot, Check(s) PROVE ReleaseInv'
  BY <1>4, CheckInv
<1>5. ASSUME NEW s \in Slot, Merge(s) PROVE ReleaseInv'
  BY <1>5, MergeInv
<1>6. ASSUME NEW s \in Slot, Abandon(s) PROVE ReleaseInv'
  BY <1>6, AbandonInv
<1>7. ASSUME NEW c \in Taggable, TagCore(c) PROVE ReleaseInv'
  BY <1>7, TagCoreInv
<1>8. CASE UNCHANGED vars
  BY <1>8 DEF vars, ReleaseInv, TypeOK, Requests, Made, Checked, Prepared, Growing, Tip
<1> QED
  BY <1>1, <1>2, <1>3, <1>4, <1>5, <1>6, <1>7, <1>8 DEF Next

-----------------------------------------------------------------------------
(* The theorems.                                                            *)

\* Every tree, branch and pull request has its type, and what is known of the pull
\* requests and of the history of the base branch holds in every reachable state.
THEOREM Invariance == Spec => []ReleaseInv
BY InitInv, StepInv, PTL DEF Spec

\* Of the trees of the base branch, those with one identity hold one cut: revision
\* numbers are not reused (README.md), whatever the order of pushes, checks and merges,
\* as long as no merge was raced and no core came back.
THEOREM RevisionsAreNotReused == Spec => []IdentityNamesOneCut
<1>1. ReleaseInv => IdentityNamesOneCut
  <2> SUFFICES ASSUME ReleaseInv, ~raced, ~returned, NEW i \in 1 .. Tip, NEW j \in 1 .. Tip,
                      history[i].rev > 0, Identity(history[i]) = Identity(history[j])
               PROVE  history[i].cut = history[j].cut
    BY DEF IdentityNamesOneCut
  <2>1. CoreOf(history[i]) = CoreOf(history[j]) /\ history[i].rev = history[j].rev
    BY IdentityParts
  <2>2. i <= j \/ j <= i
    BY DEF ReleaseInv, TypeOK
  <2>3. i <= j => Before(history[i], history[j])
    BY DEF ReleaseInv, Growing
  <2>4. j <= i => Before(history[j], history[i])
    BY DEF ReleaseInv, Growing
  <2> QED
    BY <2>1, <2>2, <2>3, <2>4 DEF Before
<1> QED
  BY <1>1, Invariance, PTL

\* No merge on the base its check saw violates the revision policy, though the merge
\* commit that was checked may have been made on an older base.
THEOREM PolicyIsKept == Spec => MergesFollowPolicy
<1>1. ReleaseInv /\ [Next]_vars =>
        [Tip' # Tip /\ ~raced' /\ ~returned' => Accepts(Main, Main')]_vars
  <2> SUFFICES ASSUME ReleaseInv, [Next]_vars, Tip' # Tip, ~raced', ~returned'
               PROVE  Accepts(Main, Main')
    OBVIOUS
  <2>1. history' # history
    BY DEF Tip
  <2>2. PICK s \in Slot : Merge(s)
    <3>1. ASSUME NEW r \in Slot, Topic(r) \/ PublishFromBase(r) \/ PublishFromTopic(r)
          PROVE  UNCHANGED history
      BY <3>1 DEF Topic, PublishFromBase, PublishFromTopic, Publish, Push
    <3>2. ASSUME NEW r \in Slot, Check(r) \/ Abandon(r) PROVE UNCHANGED history
      BY <3>2 DEF Check, Abandon
    <3>3. ASSUME NEW c \in Taggable, TagCore(c) PROVE UNCHANGED history
      BY <3>3 DEF TagCore
    <3> QED
      BY <2>1, <3>1, <3>2, <3>3 DEF Next, vars
  <2> DEFINE tree == Merged(history[pr[s].fork], Main, pr[s].head)
  <2>3. Accepts(Main, tree)
    BY <2>2, MergeAccepted
  <2>4. history' = Append(history, tree)
    BY <2>2 DEF Merge
  <2>5. Main' = tree
    BY <2>4 DEF Main, Tip, ReleaseInv, TypeOK
  <2> QED
    BY <2>3, <2>5
<1> QED
  BY <1>1, Invariance, PTL DEF Spec, MergesFollowPolicy

\* A candidate that moves the base to another MLX commit is accepted by the policy when
\* it is checked against the base it was made from.
THEOREM CandidatesAreAccepted == Spec => []MovesAccepted
<1>1. ReleaseInv => MovesAccepted
  <2> SUFFICES ASSUME ReleaseInv, NEW s \in Slot, Rejected(s),
                      pr[s].head.ref.commit # history[pr[s].fork].ref.commit
               PROVE  FALSE
    BY DEF MovesAccepted
  <2> DEFINE p == pr[s]
             base == history[p.fork]
  <2>1. p \in PR /\ Made(p) /\ Checked(p) /\ Prepared(s, p)
    BY DEF Rejected, ReleaseInv, TypeOK, NoPR, Requests
  <2>2. p.fork <= p.made /\ p.made <= p.seen /\ p.seen = p.fork /\ p.verdict # "ok"
    BY <2>1 DEF Rejected, Made, Checked
  <2>3. p.made = p.fork /\ p.fork \in 1 .. Tip
    BY <2>1, <2>2 DEF PR, Made, ReleaseInv, TypeOK
  <2>4. p.merged = Merged(base, base, p.head) /\ ~Accepts(base, p.merged)
    BY <2>1, <2>2, <2>3 DEF Made, Checked, Rejected
  <2>5. base.rev >= 1 /\ p.head.rev = NextRev(CoreOf(base), base.rev, CoreOf(p.head), TRUE)
    BY <2>1 DEF Prepared, Rejected
  <2>6. p.merged.ref = p.head.ref /\ p.merged.rev = p.head.rev
    BY <2>4 DEF Merged, Pick
  <2>7. Changed(base, p.merged) /\ CoreOf(p.merged) = CoreOf(p.head)
    BY <2>6 DEF Changed, CoreOf
  <2>8. base \in Tree
    BY <2>3, TreeAt DEF ReleaseInv
  <2>9. base.rev # 0
    BY <2>5, <2>8 DEF Tree
  <2> HIDE DEF p, base
  <2> QED
    BY <2>4, <2>5, <2>6, <2>7, <2>9 DEF Accepts, NextRev
<1> QED
  BY <1>1, Invariance, PTL
=============================================================================
