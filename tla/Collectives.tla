----------------------------- MODULE Collectives -----------------------------
(***************************************************************************)
(* AllSum, AllMax, AllMin and AllGather of internal/jacclnative            *)
(* (collective.go), over the chunked pairwise exchange of backend.go.      *)
(*                                                                         *)
(* A rank's memory is a row of cells, one for each staging buffer's worth  *)
(* of elements; dst and src are ranges of it, which may overlap.  Two      *)
(* ranks exchange straight into dst while src is still being sent; other   *)
(* groups, and calls in place, gather into buffers first.  Every step of a *)
(* chunk interleaves with every other.  A mesh is modelled; what a relayed *)
(* gather brings (module GraphGather) is the same values.                  *)
(***************************************************************************)
EXTENDS Naturals, Sequences, SequencesExt

CONSTANTS
  Calls,      \* the collectives checked: one of them is called by every rank
  NaN,        \* a floating-point value that nothing is less than
  NegZero,    \* the negative zero, which is neither less nor more than 0
  Unset,      \* a cell that was never written
  Fallible    \* the ranks whose context can end during the call

\* Numbers are whole; a sum of floats is rounded after each addition.
Value == {NaN, NegZero} \cup Nat

\* 16-bit floats are reduced by a function of their own, which differs in max and min.
Reductions == {"sum", "max", "min", "half max", "half min"}

(* A call: the number of ranks, the operation, the cells of src, where each  *)
(* rank's src begins in its memory (dst begins at 0), and what src holds.    *)
ASSUME CallsAssumption ==
  /\ Fallible \subseteq Nat
  /\ \A c \in Calls :
       /\ c.n \in Nat \ {0, 1} /\ c.len \in Nat \ {0}
       /\ c.op \in {"gather"} \cup Reductions
       /\ \A r \in 0 .. c.n - 1 :
            c.at[r] \in 0 .. c.n * c.len /\ c.src[r] \in [1 .. c.len -> Value]

VARIABLES
  call,       \* the collective that the ranks call
  pc,         \* pc[r]: "outside", "inside", "returned" or "failed"
  mem,        \* mem[r][i]: cell i of rank r's memory
  copied,     \* copied[r]: r's private copy of src, or << >>
  staged,     \* staged[r][q]: the chunks r has sent to q
  recvs       \* recvs[r][q]: the chunks r has received from q

vars == <<call, pc, mem, copied, staged, recvs>>

Rank == 0 .. call.n - 1
Others(r) == Rank \ {r}
Chunk == 1 .. call.len
Cell == 1 .. (call.n + 1) * call.len
Gathering == call.op = "gather"

TypeOK ==
  /\ call \in Calls
  /\ pc \in [Rank -> {"outside", "inside", "returned", "failed"}]
  /\ mem \in [Rank -> [Cell -> Value \cup {Unset}]]
  /\ copied \in [Rank -> {<< >>} \cup [Chunk -> Value]]
  /\ staged \in [Rank -> [Rank -> Seq(Value)]]
  /\ recvs \in [Rank -> [Rank -> Seq(Value)]]
  /\ \A r, q \in Rank :
       Len(recvs[r][q]) <= Len(staged[r][q]) /\ Len(staged[r][q]) <= call.len

Init ==
  /\ call \in Calls
  /\ pc = [r \in Rank |-> "outside"]
  /\ mem = [r \in Rank |-> [i \in Cell |->
       IF i - call.at[r] \in Chunk THEN call.src[r][i - call.at[r]] ELSE Unset]]
  /\ copied = [r \in Rank |-> << >>]
  /\ staged = [r \in Rank |-> [q \in Rank |-> << >>]]
  /\ recvs = [r \in Rank |-> [q \in Rank |-> << >>]]

-----------------------------------------------------------------------------
(* The element-wise operations.                                             *)

Number(v) == IF v = NegZero THEN 0 ELSE v

\* Floating-point addition: commutative, and not associative.
Plus(a, b) ==
  CASE NaN \in {a, b} -> NaN
    [] NaN \notin {a, b} /\ {a, b} = {NegZero} -> NegZero
    [] OTHER -> 2 * ((Number(a) + Number(b)) \div 2)

Less(a, b) == NaN \notin {a, b} /\ Number(a) < Number(b)

\* What dst holds after op(dst, src).  Of two values of which neither is less, max
\* and min keep dst; reduceFloat32 of half.go takes src.
Apply(op, dst, src) ==
  CASE op = "sum" -> Plus(dst, src)
    [] op = "max" -> IF Less(dst, src) THEN src ELSE dst
    [] op = "min" -> IF Less(src, dst) THEN src ELSE dst
    [] op = "half max" -> IF Less(src, dst) THEN dst ELSE src
    [] op = "half min" -> IF Less(dst, src) THEN dst ELSE src

\* op with one value after the other.
RankOrder(op, first, rest) == FoldLeft(LAMBDA dst, src : Apply(op, dst, src), first, rest)

\* The value of rank 0, then the others' in rank order, whatever rank r is.
Reduce(r, vals) == RankOrder(call.op, vals[0], [i \in 1 .. call.n - 1 |-> vals[i]])

-----------------------------------------------------------------------------
\* Mutant of Overlap: dst and src are taken for disjoint.
OverlapNever(r) == FALSE

\* bytesOverlap(dst, src) of a reduction.
Overlap(r) == call.at[r] < call.len

\* The exchange writes into dst itself.
Direct(r) == call.n = 2 /\ (Gathering \/ ~Overlap(r))

\* The cell of dst where chunk k of rank q's value goes.
Target(q, k) == (IF Gathering THEN q * call.len ELSE 0) + k

\* Chunk k of src as rank r reads it now.
Source(r, k) == IF copied[r] # << >> THEN copied[r][k] ELSE mem[r][call.at[r] + k]

\* copy(dst[own], src): memory with r's own value in its place.
WithOwn(r) ==
  [i \in Cell |-> IF \E k \in Chunk : i = Target(r, k)
                  THEN Source(r, CHOOSE k \in Chunk : i = Target(r, k)) ELSE mem[r][i]]

\* Mutant of Enter: the rank's own value is not put in its place.
EnterWithoutOwn(r) ==
  /\ pc[r] = "outside"
  /\ pc' = [pc EXCEPT ![r] = "inside"]
  /\ copied' = IF ~Gathering /\ Overlap(r)
               THEN [copied EXCEPT ![r] = [k \in Chunk |-> Source(r, k)]] ELSE copied
  /\ UNCHANGED <<call, mem, staged, recvs>>

Enter(r) ==
  /\ pc[r] = "outside"
  /\ pc' = [pc EXCEPT ![r] = "inside"]
  /\ mem' = IF Gathering /\ Direct(r) THEN [mem EXCEPT ![r] = WithOwn(r)] ELSE mem
  /\ copied' = IF ~Gathering /\ Overlap(r)
               THEN [copied EXCEPT ![r] = [k \in Chunk |-> Source(r, k)]] ELSE copied
  /\ UNCHANGED <<call, staged, recvs>>

\* Mutant of Stage: a rank sends its chunk when its peer's has come.
StageAfterReceive(r, q) ==
  LET k == Len(recvs[r][q]) + 1
  IN  /\ pc[r] = "inside" /\ q # r
      /\ k \in Chunk /\ Len(staged[r][q]) = k - 1 /\ Len(staged[q][r]) >= k
      /\ staged' = [staged EXCEPT ![r][q] = Append(@, Source(r, k))]
      /\ UNCHANGED <<call, pc, mem, copied, recvs>>

\* wireExchange: chunk k is staged and sent once chunk k - 1 is confirmed.
Stage(r, q) ==
  LET k == Len(recvs[r][q]) + 1
  IN  /\ pc[r] = "inside" /\ q # r
      /\ k \in Chunk /\ Len(staged[r][q]) = k - 1
      /\ staged' = [staged EXCEPT ![r][q] = Append(@, Source(r, k))]
      /\ UNCHANGED <<call, pc, mem, copied, recvs>>

\* Both completions of chunk k are confirmed and it is copied out (onRecv).
Receive(r, q) ==
  LET k == Len(recvs[r][q]) + 1
  IN  /\ pc[r] = "inside" /\ q # r
      /\ Len(staged[r][q]) = k /\ Len(staged[q][r]) >= k
      /\ recvs' = [recvs EXCEPT ![r][q] = Append(@, staged[q][r][k])]
      /\ mem' = IF Direct(r)
                THEN [mem EXCEPT ![r][Target(q, k)] = staged[q][r][k]] ELSE mem
      /\ UNCHANGED <<call, pc, copied, staged>>

\* What each rank's chunk k is to r after the exchanges.
Gathered(r, k) == [q \in Rank |-> IF q = r THEN Source(r, k) ELSE recvs[r][q][k]]

\* op(dst, src) of the direct path; the rank-order reduction of the others.
Reduced(r) ==
  [i \in Cell |->
     IF i \notin Chunk THEN mem[r][i]
     ELSE IF Direct(r) THEN Apply(call.op, mem[r][i], Source(r, i))
     ELSE Reduce(r, Gathered(r, i))]

Assembled(r) ==
  [i \in Cell |-> IF i > call.n * call.len THEN mem[r][i]
                  ELSE Gathered(r, ((i - 1) % call.len) + 1)[(i - 1) \div call.len]]

Return(r) ==
  /\ pc[r] = "inside"
  /\ \A q \in Others(r) : Len(recvs[r][q]) = call.len
  /\ pc' = [pc EXCEPT ![r] = "returned"]
  /\ mem' = IF ~Gathering THEN [mem EXCEPT ![r] = Reduced(r)]
            ELSE IF Direct(r) THEN mem ELSE [mem EXCEPT ![r] = Assembled(r)]
  /\ UNCHANGED <<call, copied, staged, recvs>>

Fail(r) ==
  /\ r \in Fallible
  /\ pc[r] = "inside"
  /\ pc' = [pc EXCEPT ![r] = "failed"]
  /\ UNCHANGED <<call, mem, copied, staged, recvs>>

Step(r) == Enter(r) \/ Return(r) \/ \E q \in Rank : Stage(r, q) \/ Receive(r, q)

Next == \E r \in Rank : Step(r) \/ Fail(r)

\* The goroutines of every exchange run on.
Spec == Init /\ [][Next]_vars /\ WF_vars(\E r \in Rank : Step(r))

-----------------------------------------------------------------------------
\* Rank 0 of two ranks reduces its own value into its peer's.  That is not rank order,
\* and shows in a maximum or minimum of two values of which neither is less: a NaN and
\* another value, or zeros of either sign.
Unordered(r, k) ==
  /\ r = 0 /\ Direct(r) /\ call.op # "sum"
  /\ LET a == call.src[0][k]
         b == call.src[1][k]
     IN  a # b /\ ~Less(a, b) /\ ~Less(b, a)

(* A reduction that returns has reduced what every rank brought, in rank     *)
(* order, so that all ranks hold the same value though rounding makes the    *)
(* order matter, and though src and dst overlap on any of them.  The         *)
(* exception is Unordered.                                                  *)
ReductionsInOrder ==
  ~Gathering =>
    \A r \in Rank, k \in Chunk :
      pc[r] = "returned" /\ ~Unordered(r, k) =>
        mem[r][k] = RankOrder(call.op, call.src[0][k],
                              [i \in 1 .. call.n - 1 |-> call.src[i][k]])

\* src of rank q of two lies across a rank's place in dst.  AllGatherBytes looks at no
\* overlap: its copy of src, or what another wire receives, is written over cells of src
\* that are still to be sent.
Straddles(q) == call.n = 2 /\ call.at[q] \notin {0, call.len, 2 * call.len}

(* A gather that returns holds every rank's value in its place, also when    *)
(* src is its own place in dst or its peer's.  The exception: what a rank of *)
(* two gets of a peer whose src Straddles.                                   *)
GatherInOrder ==
  Gathering =>
    \A r, q \in Rank, k \in Chunk :
      pc[r] = "returned" /\ (q = r \/ ~Straddles(q)) =>
        mem[r][q * call.len + k] = call.src[q][k]

(* Ranks that wait for each other's chunks all return, unless one fails.     *)
EveryRankReturns == <>((\E r \in Rank : pc[r] = "failed") \/ \A r \in Rank : pc[r] = "returned")
==============================================================================
