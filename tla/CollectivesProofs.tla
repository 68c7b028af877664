-------------------------- MODULE CollectivesProofs --------------------------
(***************************************************************************)
(* Theorems about Collectives, for every number of ranks, length of a      *)
(* message and place of src.                                               *)
(*                                                                         *)
(* What a rank stages is what the caller brought, unless its src Straddles: *)
(* src is copied, or not written until the rank has returned, or written    *)
(* with what it holds, or chunk by chunk behind what has been staged        *)
(* (ReadsSrc).  What it receives is then what the others brought (Exact),  *)
(* and lies in dst when the exchange writes there (Exchanged).  A fold over *)
(* the ranks is a function of their values; RankOrderSteps unrolls it.     *)
(***************************************************************************)
EXTENDS Collectives, Integers, WellFoundedInduction, TLAPS

\* The cells of src hold values.
Filled(r) == \A k \in Chunk : mem[r][call.at[r] + k] \in Value

\* The call does not write over what rank r still has to send.
Kept(r) == Gathering => ~Straddles(r)

\* Chunk k of src has not been written over.
Unwritten(r, k) ==
  \/ pc[r] = "outside"
  \/ ~(Gathering /\ Direct(r))
  \/ Kept(r) /\ \A q \in Others(r) : k > Len(recvs[r][q])

Copied(r) == copied[r] # << >> <=> pc[r] # "outside" /\ ~Gathering /\ Overlap(r)
Fresh(r)  == pc[r] = "outside" => \A q \in Rank : staged[r][q] = << >> /\ recvs[r][q] = << >>

Exact(r) ==
  \A q \in Rank :
    /\ Kept(r) => \A k \in 1 .. Len(staged[r][q]) : staged[r][q][k] = call.src[r][k]
    /\ Kept(q) => \A k \in 1 .. Len(recvs[r][q]) : recvs[r][q][k] = call.src[q][k]

ReadsSrc(r) ==
  pc[r] # "returned" => \A k \in Chunk : Unwritten(r, k) => Source(r, k) = call.src[r][k]

Exchanged(r) ==
  pc[r] \in {"inside", "failed"} /\ Direct(r) =>
    /\ Gathering => \A k \in Chunk : mem[r][Target(r, k)] = call.src[r][k]
    /\ \A q \in Others(r), k \in Chunk :
         Kept(q) /\ k <= Len(recvs[r][q]) => mem[r][Target(q, k)] = call.src[q][k]

\* What the properties say of a rank that has returned.
InRankOrder(k) == RankOrder(call.op, call.src[0][k], [i \in 1 .. call.n - 1 |-> call.src[i][k]])

Reduction(r) ==
  pc[r] = "returned" /\ ~Gathering =>
    \A k \in Chunk : ~Unordered(r, k) => mem[r][k] = InRankOrder(k)
Gather(r) ==
  pc[r] = "returned" /\ Gathering =>
    \A q \in Rank, k \in Chunk :
      q = r \/ Kept(q) => mem[r][q * call.len + k] = call.src[q][k]

Typed(r) == Filled(r) /\ Copied(r) /\ Fresh(r)
Data(r)  == Exact(r) /\ ReadsSrc(r) /\ Exchanged(r) /\ Reduction(r) /\ Gather(r)
TypeInv  == TypeOK /\ \A r \in Rank : Typed(r)
CollInv  == TypeInv /\ \A r \in Rank : Data(r)

-----------------------------------------------------------------------------
(* Numbers and folds.                                                       *)

\* A set of numbers has a least one: induction, for one set at a time.
LEMMA Least ==
  ASSUME NEW S \in SUBSET Nat, S # {}
  PROVE  \E x \in S : \A y \in S : x <= y
<1>1. PICK x \in S : \A y \in S : ~ (<<y, x>> \in OpToRel(<, Nat))
  BY NatLessThanWellFounded, WFMin, Zenon
<1>2. \A y \in S : ~ (y < x)  BY <1>1 DEF OpToRel
<1>3. \A y \in S : x <= y  BY <1>2
<1> QED  BY <1>3

LEMMA Induction ==
  ASSUME NEW S, 0 \in S, \A n \in Nat : n \in S => n + 1 \in S
  PROVE  Nat \subseteq S
<1> SUFFICES ASSUME Nat \ S # {} PROVE FALSE
  OBVIOUS
<1>1. PICK x \in Nat \ S : \A y \in Nat \ S : x <= y  BY Least
<1>2. x # 0 /\ x - 1 \in Nat /\ ~(x <= x - 1)  BY <1>1
<1>3. x - 1 \in S  BY <1>1, <1>2
<1>4. (x - 1) + 1 \in S  BY <1>2, <1>3
<1> QED  BY <1>1, <1>4

LEMMA MaxOfPrefix == \A n \in Nat \ {0} : Max(1 .. n) = n
<1> TAKE n \in Nat \ {0}
<1>1. n \in 1 .. n /\ \A y \in 1 .. n : n >= y  OBVIOUS
<1>2. \A x \in 1 .. n : (\A y \in 1 .. n : x >= y) => x = n  BY <1>1
<1> QED  BY <1>1, <1>2 DEF Max

\* What FoldLeft looks for: the value of each set of positions.
Folding(op, first, rest, n, g) ==
  g = [s \in SUBSET (1 .. n) |->
         IF s = {} THEN first ELSE Apply(op, g[s \ {Max(s)}], rest[Max(s)])]

\* A nonempty set of positions has a greatest one.
LEMMA MaxOfPositions ==
  ASSUME NEW n \in Nat, NEW s \in SUBSET (1 .. n), s # {}
  PROVE  Max(s) \in s /\ \A x \in s : x <= Max(s)
<1> DEFINE gaps == {n - x : x \in s}
<1>1. gaps \in SUBSET Nat /\ gaps # {}
  <2>1. \A x \in s : n - x \in Nat  OBVIOUS
  <2>2. gaps # {}  OBVIOUS
  <2>3. gaps \subseteq Nat  BY <2>1
  <2> QED  BY <2>2, <2>3
<1>2. PICK d \in gaps : \A y \in gaps : d <= y  BY <1>1, Least
<1>3. PICK x \in s : d = n - x  BY <1>2
<1>4. \A y \in s : x >= y
  <2> TAKE y \in s
  <2>1. n - x <= n - y  BY <1>2, <1>3
  <2> QED  BY <2>1
<1>5. Max(s) \in s /\ \A y \in s : Max(s) >= y  BY <1>4 DEF Max
<1> QED  BY <1>5

LEMMA FoldingExists ==
  ASSUME NEW op, NEW first, NEW rest, NEW n \in Nat
  PROVE  \E g : Folding(op, first, rest, n, g)
<1> DEFINE S == {m \in Nat : \E g : Folding(op, first, rest, m, g)}
<1>1. 0 \in S
  <2> DEFINE g == [s \in SUBSET (1 .. 0) |-> first]
  <2>1. \A s \in SUBSET (1 .. 0) : s = {}  OBVIOUS
  <2>2. g = [s \in SUBSET (1 .. 0) |->
               IF s = {} THEN first ELSE Apply(op, g[s \ {Max(s)}], rest[Max(s)])]
    BY <2>1, Zenon
  <2>3. Folding(op, first, rest, 0, g)  BY <2>2, Zenon DEF Folding
  <2> QED  BY <2>3
<1>2. ASSUME NEW m \in Nat, m \in S  PROVE m + 1 \in S
  <2>1. PICK g : Folding(op, first, rest, m, g)  BY <1>2
  <2> DEFINE P == SUBSET (1 .. m + 1)
  <2> DEFINE h == [s \in P |-> IF m + 1 \in s
                    THEN Apply(op, g[s \ {m + 1}], rest[m + 1]) ELSE g[s]]
  <2> DEFINE value(s) == IF s = {} THEN first ELSE Apply(op, h[s \ {Max(s)}], rest[Max(s)])
  <2>2. ASSUME NEW s \in P  PROVE h[s] = value(s)
    <3>1. CASE s = {}
      <4>1. h[s] = g[s] /\ s \in SUBSET (1 .. m)  BY <3>1
      <4>2. g[s] = first  BY <2>1, <3>1, <4>1 DEF Folding
      <4> QED  BY <3>1, <4>1, <4>2
    <3>2. CASE m + 1 \in s
      <4>1. m + 1 \in Nat /\ s \in SUBSET (1 .. m + 1)  OBVIOUS
      <4>2. Max(s) = m + 1
        <5> HIDE DEF h
        <5>1. Max(s) \in s /\ \A x \in s : x <= Max(s)
          BY <3>2, <4>1, MaxOfPositions, Zenon
        <5>2. Max(s) \in 1 .. m + 1 /\ m + 1 <= Max(s)  BY <3>2, <4>1, <5>1
        <5> QED  BY <5>2
      <4>3. s \ {m + 1} \in P /\ m + 1 \notin s \ {m + 1}  OBVIOUS
      <4>4. h[s \ {m + 1}] = g[s \ {m + 1}]  BY <4>3
      <4>5. h[s] = Apply(op, g[s \ {m + 1}], rest[m + 1])  BY <3>2
      <4> HIDE DEF h
      <4> QED  BY <3>2, <4>2, <4>4, <4>5
    <3>3. CASE s # {} /\ m + 1 \notin s
      <4>1. s \in SUBSET (1 .. m)  BY <3>3
      <4>2. h[s] = g[s]  BY <3>3
      <4>3. g[s] = Apply(op, g[s \ {Max(s)}], rest[Max(s)])
        BY <2>1, <3>3, <4>1 DEF Folding
      <4>4. h[s \ {Max(s)}] = g[s \ {Max(s)}]
        <5>1. s \ {Max(s)} \in P /\ m + 1 \notin s \ {Max(s)}  BY <3>3
        <5> QED  BY <5>1
      <4> HIDE DEF h
      <4> QED  BY <3>3, <4>2, <4>3, <4>4
    <3> QED  BY <3>1, <3>2, <3>3
  <2>3. h = [s \in P |-> value(s)]
    <3>1. h = [s \in P |-> h[s]]  OBVIOUS
    <3> HIDE DEF h
    <3> QED  BY <2>2, <3>1
  <2>4. Folding(op, first, rest, m + 1, h)  BY <2>3, Zenon DEF Folding
  <2> QED  BY <2>4
<1>3. n \in S
  <2> HIDE DEF S
  <2> QED  BY <1>1, <1>2, Induction
<1> QED  BY <1>3

\* RankOrder, unrolled: h[i] is what is held after the first i of the rest.
Unrolled(op, first, rest, n, h) ==
  /\ DOMAIN h = 0 .. n
  /\ h[0] = first
  /\ \A i \in 1 .. n : h[i] = Apply(op, h[i - 1], rest[i])

LEMMA RankOrderSteps ==
  ASSUME NEW op, NEW first, NEW rest, NEW n \in Nat, DOMAIN rest = 1 .. n
  PROVE  \E h : Unrolled(op, first, rest, n, h) /\ RankOrder(op, first, rest) = h[n]
<1> DEFINE g == CHOOSE g : Folding(op, first, rest, n, g)
<1>1. Folding(op, first, rest, n, g)  BY FoldingExists, Zenon
<1>2. RankOrder(op, first, rest) = g[1 .. n]
  BY Zenon DEF RankOrder, FoldLeft, MapThenFoldSet, Folding
<1> HIDE DEF g
<1> DEFINE h == [i \in 0 .. n |-> g[1 .. i]]
<1>3. h[0] = first
  <2>1. 1 .. 0 = {} /\ 1 .. 0 \in SUBSET (1 .. n)  OBVIOUS
  <2> QED  BY <1>1, <2>1 DEF Folding
<1>4. ASSUME NEW i \in 1 .. n  PROVE h[i] = Apply(op, h[i - 1], rest[i])
  <2>1. 1 .. i \in SUBSET (1 .. n) /\ 1 .. i # {}  OBVIOUS
  <2>2. Max(1 .. i) = i  BY MaxOfPrefix
  <2>3. (1 .. i) \ {i} = 1 .. (i - 1)  OBVIOUS
  <2>4. g[1 .. i] = Apply(op, g[(1 .. i) \ {Max(1 .. i)}], rest[Max(1 .. i)])
    BY <1>1, <2>1 DEF Folding
  <2>5. h[i] = g[1 .. i] /\ h[i - 1] = g[1 .. (i - 1)]  OBVIOUS
  <2> HIDE DEF h
  <2> QED  BY <2>2, <2>3, <2>4, <2>5
<1>5. h[n] = g[1 .. n]  OBVIOUS
<1>6. Unrolled(op, first, rest, n, h)
  <2>1. DOMAIN h = 0 .. n  OBVIOUS
  <2> HIDE DEF h
  <2> QED  BY <1>3, <1>4, <2>1 DEF Unrolled
<1> QED  BY <1>2, <1>5, <1>6

LEMMA ApplyType ==
  ASSUME NEW op \in Reductions, NEW a \in Value, NEW b \in Value
  PROVE  Apply(op, a, b) \in Value
<1>1. Plus(a, b) \in Value
  <2>1. CASE NaN \in {a, b}  BY <2>1 DEF Plus, Value
  <2>2. CASE NaN \notin {a, b}
    <3>1. Number(a) \in Nat /\ Number(b) \in Nat  BY <2>2 DEF Value, Number
    <3>2. 2 * ((Number(a) + Number(b)) \div 2) \in Nat  BY <3>1
    <3> QED  BY <2>2, <3>2 DEF Plus, Value
  <2> QED  BY <2>1, <2>2
<1> QED  BY <1>1 DEF Apply, Reductions

LEMMA RankOrderType ==
  ASSUME NEW op \in Reductions, NEW first \in Value, NEW n \in Nat,
         NEW rest \in [1 .. n -> Value]
  PROVE  RankOrder(op, first, rest) \in Value
<1>1. PICK h : Unrolled(op, first, rest, n, h) /\ RankOrder(op, first, rest) = h[n]
  BY RankOrderSteps
<1> DEFINE S == {i \in Nat : i <= n => h[i] \in Value}
<1>2. 0 \in S  BY <1>1 DEF Unrolled
<1>3. ASSUME NEW i \in Nat, i \in S  PROVE i + 1 \in S
  <2>1. CASE i + 1 <= n
    <3>1. i + 1 \in 1 .. n /\ (i + 1) - 1 = i /\ h[i] \in Value  BY <1>3, <2>1
    <3>2. h[i + 1] = Apply(op, h[i], rest[i + 1])  BY <1>1, <3>1 DEF Unrolled
    <3>3. h[i + 1] \in Value  BY <3>1, <3>2, ApplyType
    <3> QED  BY <3>3
  <2>2. CASE ~(i + 1 <= n)  BY <2>2
  <2> QED  BY <2>1, <2>2
<1>4. Nat \subseteq S
  <2> HIDE DEF S
  <2> QED  BY <1>2, <1>3, Induction
<1>5. h[n] \in Value  BY <1>4
<1> QED  BY <1>1, <1>5

\* Two ranks: one application.
LEMMA RankOrderOfTwo ==
  ASSUME NEW op, NEW first, NEW rest, DOMAIN rest = 1 .. 1
  PROVE  RankOrder(op, first, rest) = Apply(op, first, rest[1])
<1>1. PICK h : Unrolled(op, first, rest, 1, h) /\ RankOrder(op, first, rest) = h[1]
  <2>1. ASSUME NEW n \in Nat, n = 1
        PROVE  \E h : Unrolled(op, first, rest, n, h) /\ RankOrder(op, first, rest) = h[n]
    <3>1. DOMAIN rest = 1 .. n  BY <2>1
    <3> QED  BY <3>1, RankOrderSteps, Zenon
  <2>2. 1 \in Nat  OBVIOUS
  <2> QED  BY <2>1, <2>2, Zenon
<1>2. 1 \in 1 .. 1 /\ 1 - 1 = 0  OBVIOUS
<1>3. h[1] = Apply(op, h[0], rest[1])  BY <1>1, <1>2 DEF Unrolled
<1>4. h[0] = first  BY <1>1 DEF Unrolled
<1> QED  BY <1>1, <1>3, <1>4

\* The order matters only to a maximum or minimum of values of which neither is less.
LEMMA Commutes ==
  ASSUME NEW op \in Reductions, NEW a \in Value, NEW b \in Value,
         op = "sum" \/ a = b \/ Less(a, b) \/ Less(b, a)
  PROVE  Apply(op, a, b) = Apply(op, b, a)
<1>1. CASE op = "sum"
  <2>1. Plus(a, b) = Plus(b, a)
    <3>1. CASE NaN \in {a, b}  BY <3>1 DEF Plus
    <3>2. CASE NaN \notin {a, b}
      <4>1. Number(a) \in Nat /\ Number(b) \in Nat  BY <3>2 DEF Value, Number
      <4>2. Number(a) + Number(b) = Number(b) + Number(a)  BY <4>1
      <4>3. {a, b} = {b, a}  OBVIOUS
      <4> QED  BY <3>2, <4>2, <4>3, Zenon DEF Plus
    <3> QED  BY <3>1, <3>2
  <2> QED  BY <1>1, <2>1 DEF Apply
<1>2. CASE a = b  BY <1>2
<1>3. CASE op # "sum" /\ (Less(a, b) \/ Less(b, a))
  <2>1. NaN \notin {a, b}  BY <1>3 DEF Less
  <2>2. Number(a) \in Nat /\ Number(b) \in Nat  BY <2>1 DEF Value, Number
  <2>3. ~(Less(a, b) /\ Less(b, a))  BY <2>2 DEF Less
  <2> QED  BY <1>3, <2>3 DEF Apply, Reductions
<1> QED  BY <1>1, <1>2, <1>3

-----------------------------------------------------------------------------
(* The cells of a call.                                                     *)

LEMMA CallFacts ==
  ASSUME TypeOK
  PROVE  /\ call.n \in Nat \ {0, 1} /\ call.len \in Nat \ {0}
         /\ call.op \in {"gather"} \cup Reductions
         /\ \A r \in Rank : /\ call.at[r] \in Nat /\ call.at[r] <= call.n * call.len
                            /\ call.src[r] \in [Chunk -> Value]
         /\ 0 \in Rank /\ 1 \in Rank /\ Rank \subseteq Nat /\ Chunk # {}
<1>1. call \in Calls  BY DEF TypeOK
<1>2. /\ call.n \in Nat \ {0, 1} /\ call.len \in Nat \ {0}
      /\ call.op \in {"gather"} \cup Reductions
      /\ \A r \in 0 .. call.n - 1 :
           call.at[r] \in 0 .. call.n * call.len /\ call.src[r] \in [1 .. call.len -> Value]
  BY <1>1, CallsAssumption
<1>3. \A x, y : x \in 0 .. y => x \in Nat /\ x <= y  OBVIOUS
<1>4. Rank = 0 .. call.n - 1 /\ Chunk = 1 .. call.len  BY DEF Rank, Chunk
<1>5. 1 \in 1 .. call.len  BY <1>2
<1>6. \A r \in Rank : call.at[r] \in Nat /\ call.at[r] <= call.n * call.len
  BY <1>2, <1>3, <1>4, Zenon
<1>7. 0 \in Rank /\ 1 \in Rank /\ Rank \subseteq Nat  BY <1>2, <1>4
<1> QED  BY <1>2, <1>4, <1>5, <1>6, <1>7

LEMMA CellBound ==
  ASSUME TypeOK
  PROVE  /\ call.n * call.len \in Nat /\ call.len <= call.n * call.len
         /\ (call.n + 1) * call.len = call.n * call.len + call.len
<1>1. call.n \in Nat \ {0, 1} /\ call.len \in Nat \ {0}  BY CallFacts
<1>2. \A n \in Nat \ {0, 1}, l \in Nat \ {0} :
        n * l \in Nat /\ l <= n * l /\ (n + 1) * l = n * l + l
  BY SMT
<1> QED  BY <1>1, <1>2, Zenon

\* The cells of src, and those of dst that a reduction writes.
LEMMA SourceCells ==
  ASSUME TypeOK, NEW r \in Rank, NEW k \in Chunk
  PROVE  call.at[r] + k \in Cell /\ k \in Cell
<1>1. call.at[r] \in Nat /\ call.at[r] <= call.n * call.len /\ call.len \in Nat  BY CallFacts
<1>2. k \in Nat /\ 1 <= k /\ k <= call.len  BY <1>1 DEF Chunk
<1> DEFINE p == call.n * call.len
<1>3. p \in Nat /\ call.len <= p /\ Cell = 1 .. p + call.len  BY CellBound DEF Cell
<1>4. call.at[r] <= p  BY <1>1
<1> HIDE DEF p
<1> QED  BY <1>1, <1>2, <1>3, <1>4

\* The place of each value in the dst of a gather.
LEMMA GatherCells ==
  ASSUME TypeOK, NEW q \in Rank, NEW k \in Chunk
  PROVE  /\ q * call.len \in Nat /\ q * call.len + k \in Cell
         /\ q * call.len + k <= call.n * call.len
         /\ (q * call.len + (k - 1)) % call.len = k - 1
         /\ (q * call.len + (k - 1)) \div call.len = q
<1>1. call.n \in Nat \ {0, 1} /\ call.len \in Nat \ {0}  BY CallFacts
<1>2. q \in Nat /\ q + 1 <= call.n  BY <1>1 DEF Rank
<1>3. k \in Nat /\ 1 <= k /\ k <= call.len  BY <1>1 DEF Chunk
<1>4. \A n, l, c \in Nat : c + 1 <= n => c * l \in Nat /\ c * l + l <= n * l  BY SMT
<1>5. q * call.len \in Nat /\ q * call.len + call.len <= call.n * call.len
  BY <1>1, <1>2, <1>4
<1>6. \A l \in Nat \ {0}, c, d \in Nat : d < l => (c * l + d) % l = d /\ (c * l + d) \div l = c
  BY SMT
<1>7. k - 1 \in Nat /\ k - 1 < call.len  BY <1>1, <1>3
<1>8. /\ (q * call.len + (k - 1)) % call.len = k - 1
      /\ (q * call.len + (k - 1)) \div call.len = q
  BY <1>1, <1>2, <1>6, <1>7
<1> DEFINE p == q * call.len
<1>9. p + k <= call.n * call.len /\ p + k \in Cell
  <2> DEFINE m == call.n * call.len
  <2>1. m \in Nat /\ Cell = 1 .. m + call.len  BY CellBound DEF Cell
  <2>2. p \in Nat /\ p + call.len <= m  BY <1>5
  <2> HIDE DEF p, m
  <2>3. p + k <= m  BY <1>1, <1>3, <2>1, <2>2
  <2>4. p + k \in Cell  BY <1>1, <1>3, <2>1, <2>2, <2>3
  <2> QED  BY <2>3, <2>4 DEF m
<1> QED  BY <1>5, <1>8, <1>9

\* A gather puts no two values in one place.
LEMMA TargetsDiffer ==
  ASSUME TypeOK, Gathering, NEW q \in Rank, NEW p \in Rank, NEW k \in Chunk, NEW j \in Chunk,
         Target(q, k) = Target(p, j)
  PROVE  q = p /\ k = j
<1>1. q * call.len + k = p * call.len + j  BY DEF Target
<1>2. q * call.len + (k - 1) = p * call.len + (j - 1)
  <2>1. q * call.len \in Nat /\ p * call.len \in Nat /\ k \in Nat /\ j \in Nat
    <3>1. q * call.len \in Nat /\ p * call.len \in Nat  BY GatherCells, Zenon
    <3>2. call.len \in Nat  BY CallFacts
    <3> QED  BY <3>1, <3>2 DEF Chunk
  <2> DEFINE a == q * call.len
  <2> DEFINE b == p * call.len
  <2> HIDE DEF a, b
  <2>2. a \in Nat /\ b \in Nat /\ k \in Nat /\ j \in Nat /\ a + k = b + j
    BY <1>1, <2>1 DEF a, b
  <2>3. a + (k - 1) = b + (j - 1)  BY <2>2
  <2> QED  BY <2>3 DEF a, b
<1>3. q = p /\ k - 1 = j - 1  BY <1>2, GatherCells
<1>4. k \in Int /\ j \in Int  BY DEF Chunk
<1> QED  BY <1>3, <1>4

LEMMA TargetCells ==
  ASSUME TypeOK, NEW q \in Rank, NEW k \in Chunk
  PROVE  Target(q, k) \in Cell
<1>1. k \in Nat  BY CallFacts DEF Chunk
<1>2. CASE Gathering  BY <1>2, GatherCells DEF Target
<1>3. CASE ~Gathering
  <2>1. Target(q, k) = k  BY <1>1, <1>3 DEF Target
  <2> QED  BY <2>1, SourceCells
<1> QED  BY <1>2, <1>3

\* Which value a cell of the dst of a gather is for.
LEMMA CellsOfGather ==
  ASSUME TypeOK, NEW i \in Cell, i <= call.n * call.len
  PROVE  ((i - 1) % call.len) + 1 \in Chunk /\ (i - 1) \div call.len \in Rank
<1>1. call.n \in Nat \ {0, 1} /\ call.len \in Nat \ {0} /\ call.n * call.len \in Nat
  BY CallFacts, CellBound
<1>2. i \in Nat /\ 1 <= i  BY <1>1, CellBound DEF Cell
<1>3. i - 1 \in Nat /\ i - 1 < call.n * call.len  BY <1>1, <1>2
<1>4. \A l \in Nat \ {0}, n, c \in Nat :
        c < n * l => c % l \in 0 .. l - 1 /\ c \div l \in 0 .. n - 1
  BY SMT
<1>5. (i - 1) % call.len \in 0 .. call.len - 1 /\ (i - 1) \div call.len \in 0 .. call.n - 1
  BY <1>1, <1>3, <1>4
<1>6. \A x, l : l \in Nat /\ x \in 0 .. l - 1 => x + 1 \in 1 .. l  OBVIOUS
<1>7. ((i - 1) % call.len) + 1 \in 1 .. call.len  BY <1>1, <1>5, <1>6, Zenon
<1> QED  BY <1>5, <1>7 DEF Chunk, Rank

\* What is written into dst meets src only where it is src's own chunk.
LEMMA SourceApart ==
  ASSUME TypeOK, NEW r \in Rank, Kept(r), Direct(r), NEW q \in Rank, NEW k \in Chunk,
         NEW j \in Chunk, call.at[r] + j = Target(q, k)
  PROVE  Gathering /\ call.at[r] = q * call.len /\ k = j
<1>1. /\ call.len \in Nat \ {0} /\ call.at[r] \in Nat /\ k \in Nat /\ j \in Nat
      /\ 1 <= k /\ k <= call.len /\ 1 <= j
  BY CallFacts DEF Chunk
<1>2. CASE ~Gathering
  <2>1. ~(call.at[r] < call.len) /\ Target(q, k) = k
    BY <1>1, <1>2 DEF Direct, Overlap, Target
  <2> QED  BY <1>1, <2>1
<1>3. CASE Gathering
  <2>1. call.n = 2 /\ call.at[r] \in {0, call.len, 2 * call.len}
    BY <1>3 DEF Kept, Straddles, Direct
  <2>2. ASSUME NEW p \in Rank, call.at[r] = p * call.len
        PROVE  call.at[r] = q * call.len /\ k = j
    <3>1. Target(p, j) = Target(q, k)  BY <1>3, <2>2 DEF Target
    <3> QED  BY <1>3, <2>2, <3>1, TargetsDiffer
  <2>3. CASE call.at[r] = 0 \/ call.at[r] = call.len
    <3>1. 0 \in Rank /\ 1 \in Rank /\ 0 * call.len = 0 /\ 1 * call.len = call.len
      BY <1>1, CallFacts
    <3> QED  BY <1>3, <2>2, <2>3, <3>1
  <2>4. CASE call.at[r] = 2 * call.len
    <3>1. Target(q, k) <= 2 * call.len  BY <1>3, <2>1, GatherCells DEF Target
    <3>2. 2 * call.len \in Nat  BY <1>1
    <3> QED  BY <1>1, <2>4, <3>1, <3>2
  <2> QED  BY <2>1, <2>3, <2>4
<1> QED  BY <1>2, <1>3

LEMMA SourceType ==
  ASSUME TypeOK, NEW r \in Rank, Filled(r), NEW k \in Chunk
  PROVE  Source(r, k) \in Value
BY DEF TypeOK, Filled, Source

-----------------------------------------------------------------------------
(* Steps.                                                                   *)

\* What depends on the call alone stays.
LEMMA CallKept ==
  ASSUME call' = call
  PROVE  /\ Rank' = Rank /\ Chunk' = Chunk /\ Cell' = Cell
         /\ Gathering' = Gathering
         /\ \A r : /\ Overlap(r)' = Overlap(r) /\ Direct(r)' = Direct(r)
                   /\ Others(r)' = Others(r) /\ Kept(r)' = Kept(r)
                   /\ \A k : /\ Target(r, k)' = Target(r, k)
                             /\ Unordered(r, k)' = Unordered(r, k)
                             /\ InRankOrder(k)' = InRankOrder(k)
<1>1. Rank' = Rank /\ Chunk' = Chunk /\ Cell' = Cell /\ Gathering' = Gathering
  BY DEF Rank, Chunk, Cell, Gathering
<1>2. \A r : Overlap(r)' = Overlap(r)  BY DEF Overlap
<1>3. \A r : Direct(r)' = Direct(r)  BY <1>1, <1>2 DEF Direct
<1>4. \A r : Others(r)' = Others(r)  BY <1>1 DEF Others
<1>5. \A r, k : Target(r, k)' = Target(r, k)  BY <1>1 DEF Target
<1>6. \A r, k : Unordered(r, k)' = Unordered(r, k)  BY <1>1, <1>3 DEF Unordered
<1>7. \A k : InRankOrder(k)' = InRankOrder(k)  BY Zenon DEF InRankOrder
<1>8. \A r : Kept(r)' = Kept(r)  BY <1>1 DEF Kept, Straddles
<1> QED  BY <1>1, <1>2, <1>3, <1>4, <1>5, <1>6, <1>7, <1>8

\* Nothing of rank f changes.
Same(f) ==
  /\ call' = call /\ pc'[f] = pc[f] /\ mem'[f] = mem[f] /\ copied'[f] = copied[f]
  /\ staged'[f] = staged[f] /\ recvs'[f] = recvs[f]

LEMMA SameKeeps ==
  ASSUME NEW f \in Rank, Same(f)
  PROVE  (Typed(f) => Typed(f)') /\ (Data(f) => Data(f)')
<1>1. call' = call  BY DEF Same
<1>2. Filled(f)' = Filled(f)  BY <1>1, CallKept DEF Same, Filled
<1>3. Copied(f)' = Copied(f)  BY <1>1, CallKept DEF Same, Copied
<1>4. Fresh(f)' = Fresh(f)  BY <1>1, CallKept DEF Same, Fresh
<1>5. Exact(f)' = Exact(f)  BY <1>1, CallKept DEF Same, Exact
<1>6. \A k : Source(f, k)' = Source(f, k)  BY DEF Same, Source
<1>7. ReadsSrc(f)' = ReadsSrc(f)
  <2>1. Chunk' = Chunk /\ pc'[f] = pc[f]  BY <1>1, CallKept DEF Same
  <2>2. \A k : Unwritten(f, k)' = Unwritten(f, k)
    BY <1>1, CallKept DEF Same, Unwritten
  <2> QED  BY <1>1, <1>6, <2>1, <2>2 DEF ReadsSrc
<1>8. Exchanged(f)' = Exchanged(f)
  <2>1. /\ Chunk' = Chunk /\ Others(f)' = Others(f) /\ Direct(f)' = Direct(f)
        /\ Gathering' = Gathering /\ \A q, k : Target(q, k)' = Target(q, k)
        /\ \A q : Kept(q)' = Kept(q)
    BY <1>1, CallKept
  <2>2. pc'[f] = pc[f] /\ mem'[f] = mem[f] /\ recvs'[f] = recvs[f]  BY DEF Same
  <2>3. \A q, k : mem'[f][Target(q, k)'] = mem[f][Target(q, k)]  BY <2>1, <2>2
  <2>4. (Gathering => \A k \in Chunk : mem[f][Target(f, k)] = call.src[f][k])'
          = (Gathering => \A k \in Chunk : mem[f][Target(f, k)] = call.src[f][k])
    BY <1>1, <2>1, <2>3
  <2>5. (\A q \in Others(f), k \in Chunk :
           Kept(q) /\ k <= Len(recvs[f][q]) => mem[f][Target(q, k)] = call.src[q][k])'
          = (\A q \in Others(f), k \in Chunk :
               Kept(q) /\ k <= Len(recvs[f][q]) => mem[f][Target(q, k)] = call.src[q][k])
    BY <1>1, <2>1, <2>2, <2>3
  <2> QED  BY <2>1, <2>2, <2>4, <2>5, Zenon DEF Exchanged
<1>9. Reduction(f)' = Reduction(f)
  <2>1. /\ Chunk' = Chunk /\ Gathering' = Gathering
        /\ \A k : Unordered(f, k)' = Unordered(f, k) /\ InRankOrder(k)' = InRankOrder(k)
    BY <1>1, CallKept
  <2>2. pc'[f] = pc[f] /\ mem'[f] = mem[f]  BY DEF Same
  <2> QED  BY <2>1, <2>2 DEF Reduction
<1>10. Gather(f)' = Gather(f)  BY <1>1, CallKept DEF Same, Gather
<1> QED  BY <1>2, <1>3, <1>4, <1>5, <1>7, <1>8, <1>9, <1>10 DEF Typed, Data

\* A step of one rank: the others stay as they are.
LEMMA OneRank ==
  ASSUME CollInv, NEW r \in Rank, call' = call, TypeOK', \A f \in Rank \ {r} : Same(f),
         Typed(r)', Data(r)'
  PROVE  CollInv'
<1>1. Rank' = Rank  BY CallKept
<1>2. \A f \in Rank : Typed(f)'  BY SameKeeps DEF CollInv, TypeInv
<1>3. \A f \in Rank : Data(f)'  BY SameKeeps DEF CollInv
<1> QED  BY <1>1, <1>2, <1>3 DEF CollInv, TypeInv


LEMMA WithOwnCells ==
  ASSUME TypeOK, Gathering, NEW r \in Rank
  PROVE  /\ \A k \in Chunk : WithOwn(r)[Target(r, k)] = Source(r, k)
         /\ \A i \in Cell : (\A k \in Chunk : i # Target(r, k)) => WithOwn(r)[i] = mem[r][i]
         /\ WithOwn(r) = [i \in Cell |-> WithOwn(r)[i]]
<1>1. ASSUME NEW k \in Chunk  PROVE WithOwn(r)[Target(r, k)] = Source(r, k)
  <2>1. Target(r, k) \in Cell  BY TargetCells
  <2> DEFINE j == CHOOSE j \in Chunk : Target(r, k) = Target(r, j)
  <2>2. j \in Chunk /\ Target(r, k) = Target(r, j)  BY Zenon
  <2> HIDE DEF j
  <2>3. j = k  BY <2>2, TargetsDiffer
  <2>4. WithOwn(r)[Target(r, k)] = Source(r, j)  BY <2>1, <2>2, Zenon DEF WithOwn, j
  <2> QED  BY <2>3, <2>4
<1>2. ASSUME NEW i \in Cell, \A k \in Chunk : i # Target(r, k)  PROVE WithOwn(r)[i] = mem[r][i]
  BY <1>2, Zenon DEF WithOwn
<1>3. WithOwn(r) = [i \in Cell |-> WithOwn(r)[i]]  BY DEF WithOwn
<1> QED  BY <1>1, <1>2, <1>3

LEMMA EnterKeeps ==
  ASSUME CollInv, NEW r \in Rank, Enter(r)
  PROVE  CollInv'
<1> USE DEF CollInv, TypeInv
<1>1. /\ call' = call /\ staged' = staged /\ recvs' = recvs
      /\ pc[r] = "outside" /\ pc' = [pc EXCEPT ![r] = "inside"]
  BY DEF Enter
<1>2. /\ Rank' = Rank /\ Chunk' = Chunk /\ Cell' = Cell /\ Gathering' = Gathering
      /\ Overlap(r)' = Overlap(r) /\ Direct(r)' = Direct(r)
      /\ Others(r)' = Others(r) /\ \A q, k : Target(q, k)' = Target(q, k)
      /\ \A q : Kept(q)' = Kept(q)
  BY <1>1, CallKept
<1>3. \A k \in Chunk : Source(r, k) \in Value  BY SourceType DEF Typed
<1>4. pc'[r] = "inside"  BY <1>1 DEF TypeOK
<1>5. copied[r] = << >>  BY <1>1 DEF Typed, Copied
<1>6. IF ~Gathering /\ Overlap(r)
      THEN copied'[r] = [k \in Chunk |-> Source(r, k)] ELSE copied'[r] = << >>
  BY <1>5 DEF Enter, TypeOK
<1>7. copied'[r] # << >> <=> ~Gathering /\ Overlap(r)
  <2>1. Chunk # {}  BY CallFacts
  <2>2. ~Gathering /\ Overlap(r) => DOMAIN copied'[r] # {}  BY <1>6, <2>1
  <2> QED  BY <1>6, <2>2
<1>8. IF Gathering /\ Direct(r) THEN mem'[r] = WithOwn(r) ELSE mem'[r] = mem[r]
  BY DEF Enter, TypeOK
<1>9. \A i \in Cell : mem'[r][i] = mem[r][i]
        \/ \E k \in Chunk : /\ Gathering /\ Direct(r) /\ i = Target(r, k)
                            /\ mem'[r][i] = Source(r, k)
  BY <1>8, WithOwnCells
<1>10. TypeOK'
  <2>1. pc' \in [Rank -> {"outside", "inside", "returned", "failed"}]  BY <1>1 DEF TypeOK
  <2>2. copied' \in [Rank -> {<< >>} \cup [Chunk -> Value]]
    <3>1. [k \in Chunk |-> Source(r, k)] \in [Chunk -> Value]  BY <1>3
    <3> QED  BY <3>1 DEF Enter, TypeOK
  <2>3. mem' \in [Rank -> [Cell -> Value \cup {Unset}]]
    <3>1. Gathering => WithOwn(r) \in [Cell -> Value \cup {Unset}]
      <4>1. mem[r] \in [Cell -> Value \cup {Unset}]  BY DEF TypeOK
      <4>2. Gathering => \A i \in Cell : WithOwn(r)[i] \in Value \cup {Unset}
        BY <1>3, <4>1, WithOwnCells
      <4> QED  BY <4>2, WithOwnCells
    <3> QED  BY <3>1 DEF Enter, TypeOK
  <2> QED  BY <1>1, <1>2, <2>1, <2>2, <2>3 DEF TypeOK
<1>11. Typed(r)'
  <2>1. Filled(r)'
    <3>1. \A k \in Chunk : mem[r][call.at[r] + k] \in Value  BY DEF Typed, Filled
    <3>2. \A k \in Chunk : call.at[r] + k \in Cell  BY SourceCells
    <3>3. \A k \in Chunk : mem'[r][call.at[r] + k] \in Value
      BY <1>3, <1>9, <3>1, <3>2
    <3> QED  BY <1>1, <1>2, <3>3 DEF Filled
  <2>2. Copied(r)'  BY <1>2, <1>4, <1>7 DEF Copied
  <2>3. Fresh(r)'  BY <1>4 DEF Fresh
  <2> QED  BY <2>1, <2>2, <2>3 DEF Typed
<1>12. ASSUME Data(r)  PROVE Data(r)'
  <2>1. \A k \in Chunk : Source(r, k) = call.src[r][k]
    BY <1>1, <1>12 DEF Data, ReadsSrc, Unwritten
  <2>2. Exact(r)'
    <3>1. Exact(r)  BY <1>12 DEF Data
    <3> QED  BY <1>1, <1>2, <3>1 DEF Exact
  <2>3. ReadsSrc(r)'
    <3>1. ASSUME NEW k \in Chunk, Unwritten(r, k)'  PROVE Source(r, k)' = Source(r, k)
      <4>1. CASE ~Gathering /\ Overlap(r)
        <5>1. copied'[r][k] = Source(r, k)  BY <1>6, <4>1
        <5> QED  BY <1>7, <4>1, <5>1 DEF Source
      <4>2. CASE ~(~Gathering /\ Overlap(r))
        <5>1. Source(r, k) = mem[r][call.at[r] + k]  BY <1>5 DEF Source
        <5>2. Source(r, k)' = mem'[r][call.at[r] + k]  BY <1>1, <1>7, <4>2 DEF Source
        <5>3. call.at[r] + k \in Cell  BY SourceCells
        <5>4. ASSUME NEW j \in Chunk, Gathering, Direct(r), call.at[r] + k = Target(r, j)
              PROVE  j = k
          <6>1. Kept(r)  BY <1>2, <1>4, <3>1, <5>4 DEF Unwritten
          <6> QED  BY <5>4, <6>1, SourceApart
        <5> QED  BY <1>9, <5>1, <5>2, <5>3, <5>4
      <4> QED  BY <4>1, <4>2
    <3> QED  BY <1>1, <1>2, <2>1, <3>1 DEF ReadsSrc
  <2>4. Exchanged(r)'
    <3>1. ASSUME Gathering, Direct(r), NEW k \in Chunk  PROVE mem'[r][Target(r, k)] = call.src[r][k]
      BY <1>8, <2>1, <3>1, WithOwnCells
    <3>2. \A q \in Others(r), k \in Chunk : ~(k <= Len(recvs'[r][q]))
      <4>1. \A q \in Others(r) : recvs'[r][q] = << >>  BY <1>1 DEF Typed, Fresh, Others
      <4>2. Len(<< >>) = 0 /\ \A k \in Chunk : k \in Int /\ 1 <= k  BY DEF Chunk
      <4> QED  BY <4>1, <4>2
    <3>3. (Gathering => \A k \in Chunk : mem[r][Target(r, k)] = call.src[r][k])'
            \/ ~Direct(r)
      BY <1>1, <1>2, <3>1
    <3>4. (\A q \in Others(r), k \in Chunk :
            Kept(q) /\ k <= Len(recvs[r][q]) => mem[r][Target(q, k)] = call.src[q][k])'
      BY <1>2, <3>2
    <3> QED  BY <1>2, <3>3, <3>4 DEF Exchanged
  <2>5. Reduction(r)' /\ Gather(r)'  BY <1>4 DEF Reduction, Gather
  <2> QED  BY <2>2, <2>3, <2>4, <2>5 DEF Data
<1>13. \A f \in Rank \ {r} : Same(f)  BY <1>1 DEF Same, Enter, TypeOK
<1> QED  BY <1>1, <1>10, <1>11, <1>12, <1>13, OneRank

\* A step that leaves r's memory, copy and place in the call as they are.
LEMMA ReadKept ==
  ASSUME NEW r, call' = call, mem'[r] = mem[r], copied'[r] = copied[r]
  PROVE  \A k : Source(r, k)' = Source(r, k)
BY DEF Source

LEMMA StageKeeps ==
  ASSUME CollInv, NEW r \in Rank, NEW q \in Rank, Stage(r, q)
  PROVE  CollInv'
<1> USE DEF CollInv, TypeInv
<1> DEFINE k == Len(recvs[r][q]) + 1
<1>1. /\ call' = call /\ pc' = pc /\ mem' = mem /\ copied' = copied /\ recvs' = recvs
      /\ staged' = [staged EXCEPT ![r][q] = Append(@, Source(r, k))]
      /\ pc[r] = "inside" /\ q # r /\ k \in Chunk /\ Len(staged[r][q]) = k - 1
  BY DEF Stage
<1>2. /\ Rank' = Rank /\ Chunk' = Chunk /\ Cell' = Cell /\ Gathering' = Gathering
      /\ Overlap(r)' = Overlap(r) /\ Direct(r)' = Direct(r)
      /\ Others(r)' = Others(r) /\ \A p, j : Target(p, j)' = Target(p, j)
      /\ \A p : Kept(p)' = Kept(p)
  BY <1>1, CallKept
<1>3. Source(r, k) \in Value  BY <1>1, SourceType DEF Typed
<1>4. /\ recvs[r][q] \in Seq(Value) /\ staged[r][q] \in Seq(Value)
      /\ Len(recvs[r][q]) \in Nat /\ call.len \in Nat
      /\ k \in Nat /\ 1 <= k /\ k <= call.len
  <2>1. recvs[r][q] \in Seq(Value) /\ staged[r][q] \in Seq(Value)  BY DEF TypeOK
  <2>2. Len(recvs[r][q]) \in Nat /\ call.len \in Nat  BY <2>1, CallFacts
  <2> HIDE DEF k
  <2>3. k \in Nat /\ 1 <= k /\ k <= call.len  BY <1>1, <2>2 DEF Chunk
  <2> QED  BY <2>1, <2>2, <2>3
<1> HIDE DEF k
<1>5. /\ staged'[r][q] = Append(staged[r][q], Source(r, k))
      /\ \A p \in Rank \ {q} : staged'[r][p] = staged[r][p]
      /\ \A f \in Rank \ {r} : staged'[f] = staged[f]
  BY <1>1 DEF TypeOK
<1>6. /\ Len(staged'[r][q]) = k /\ staged'[r][q][k] = Source(r, k)
      /\ \A j \in 1 .. k - 1 : staged'[r][q][j] = staged[r][q][j]
  BY <1>1, <1>3, <1>4, <1>5
<1>7. TypeOK'
  <2>1. staged' \in [Rank -> [Rank -> Seq(Value)]]
    <3>1. staged'[r][q] \in Seq(Value)  BY <1>3, <1>4, <1>5
    <3>2. staged' \in [Rank -> [Rank -> Seq(Value)]] \/ staged'[r][q] \notin Seq(Value)
      BY <1>1 DEF TypeOK
    <3> QED  BY <3>1, <3>2
  <2>2. \A f, p \in Rank :
          Len(recvs[f][p]) <= Len(staged'[f][p]) /\ Len(staged'[f][p]) <= call.len
    <3> TAKE f, p \in Rank
    <3>1. CASE f = r /\ p = q
      <4>1. Len(recvs[r][q]) <= k  BY <1>4 DEF k
      <4> QED  BY <1>4, <1>6, <3>1, <4>1
    <3>2. CASE ~(f = r /\ p = q)
      <4>1. staged'[f][p] = staged[f][p]  BY <1>5, <3>2
      <4> QED  BY <4>1 DEF TypeOK
    <3> QED  BY <3>1, <3>2
  <2> QED  BY <1>1, <1>2, <2>1, <2>2 DEF TypeOK
<1>8. Typed(r)'
  <2>1. Filled(r) /\ Copied(r)  BY DEF Typed
  <2>2. Filled(r)' /\ Copied(r)'  BY <1>1, <1>2, <2>1 DEF Filled, Copied
  <2>3. Fresh(r)'  BY <1>1 DEF Fresh
  <2> QED  BY <2>2, <2>3 DEF Typed
<1>9. \A j : Source(r, j)' = Source(r, j)  BY <1>1, ReadKept
<1>10. ASSUME Data(r)  PROVE Data(r)'
  <2>1. Kept(r) => Source(r, k) = call.src[r][k]
    <3>1. Kept(r) => Unwritten(r, k)
      <4>1. Gathering /\ Direct(r) => Others(r) = {q}
        <5>1. call.n = 2 => Rank = {0, 1}  BY DEF Rank
        <5> QED  BY <1>1, <5>1 DEF Direct, Others
      <4>2. k > Len(recvs[r][q])  BY <1>4 DEF k
      <4> QED  BY <4>1, <4>2 DEF Unwritten
    <3> QED  BY <1>1, <1>10, <3>1 DEF Data, ReadsSrc
  <2>2. Exact(r)'
    <3>1. ASSUME Kept(r)
          PROVE  \A p \in Rank : \A j \in 1 .. Len(staged'[r][p]) : staged'[r][p][j] = call.src[r][j]
      <4> TAKE p \in Rank
      <4>1. CASE p = q
        <5> TAKE j \in 1 .. Len(staged'[r][p])
        <5>1. j = k \/ j \in 1 .. k - 1  BY <1>4, <1>6, <4>1
        <5>2. \A i \in 1 .. k - 1 : staged[r][q][i] = call.src[r][i]
          BY <1>1, <1>10, <3>1 DEF Data, Exact
        <5> QED  BY <1>6, <2>1, <3>1, <4>1, <5>1, <5>2
      <4>2. CASE p # q
        <5>1. staged'[r][p] = staged[r][p]  BY <1>5, <4>2
        <5> QED  BY <1>10, <3>1, <5>1 DEF Data, Exact
      <4> QED  BY <4>1, <4>2
    <3>2. \A p \in Rank :
            Kept(p) => \A j \in 1 .. Len(recvs[r][p]) : recvs[r][p][j] = call.src[p][j]
      BY <1>10 DEF Data, Exact
    <3> QED  BY <1>1, <1>2, <3>1, <3>2 DEF Exact
  <2>3. ReadsSrc(r)'
    <3>1. \A j : Unwritten(r, j)' = Unwritten(r, j)  BY <1>1, <1>2 DEF Unwritten
    <3> QED  BY <1>1, <1>2, <1>9, <1>10, <3>1 DEF Data, ReadsSrc
  <2>4. Exchanged(r)'
    <3>1. Exchanged(r)  BY <1>10 DEF Data
    <3> QED  BY <1>1, <1>2, <3>1 DEF Exchanged
  <2>5. Reduction(r)' /\ Gather(r)'  BY <1>1 DEF Reduction, Gather
  <2> QED  BY <2>2, <2>3, <2>4, <2>5 DEF Data
<1>11. \A f \in Rank \ {r} : Same(f)  BY <1>1, <1>5 DEF Same
<1> QED  BY <1>1, <1>7, <1>8, <1>10, <1>11, OneRank

LEMMA FailKeeps ==
  ASSUME CollInv, NEW r \in Rank, Fail(r)
  PROVE  CollInv'
<1> USE DEF CollInv, TypeInv
<1>1. /\ call' = call /\ mem' = mem /\ copied' = copied /\ staged' = staged
      /\ recvs' = recvs /\ pc[r] = "inside" /\ pc' = [pc EXCEPT ![r] = "failed"]
  BY DEF Fail
<1>2. /\ Rank' = Rank /\ Chunk' = Chunk /\ Cell' = Cell /\ Gathering' = Gathering
      /\ Overlap(r)' = Overlap(r) /\ Direct(r)' = Direct(r)
      /\ Others(r)' = Others(r) /\ \A p, j : Target(p, j)' = Target(p, j)
      /\ \A p : Kept(p)' = Kept(p)
  BY <1>1, CallKept
<1>3. pc'[r] = "failed"  BY <1>1 DEF TypeOK
<1>4. TypeOK'
  <2>1. pc' \in [Rank -> {"outside", "inside", "returned", "failed"}]  BY <1>1 DEF TypeOK
  <2> QED  BY <1>1, <1>2, <2>1 DEF TypeOK
<1>5. Typed(r)'
  <2>1. Filled(r) /\ Copied(r)  BY DEF Typed
  <2>2. Filled(r)' /\ Copied(r)'  BY <1>1, <1>2, <1>3, <2>1 DEF Filled, Copied
  <2>3. Fresh(r)'  BY <1>3 DEF Fresh
  <2> QED  BY <2>2, <2>3 DEF Typed
<1>6. \A j : Source(r, j)' = Source(r, j)  BY <1>1, ReadKept
<1>7. ASSUME Data(r)  PROVE Data(r)'
  <2>1. Exact(r)'  BY <1>1, <1>2, <1>7 DEF Data, Exact
  <2>2. ReadsSrc(r)'
    <3>1. \A j : Unwritten(r, j)' => Unwritten(r, j)  BY <1>1, <1>2, <1>3 DEF Unwritten
    <3> QED  BY <1>1, <1>2, <1>6, <1>7, <3>1 DEF Data, ReadsSrc
  <2>3. Exchanged(r)'
    <3>1. Exchanged(r)  BY <1>7 DEF Data
    <3> QED  BY <1>1, <1>2, <3>1 DEF Exchanged
  <2>4. Reduction(r)' /\ Gather(r)'  BY <1>3 DEF Reduction, Gather
  <2> QED  BY <2>1, <2>2, <2>3, <2>4 DEF Data
<1>8. \A f \in Rank \ {r} : Same(f)  BY <1>1 DEF Same, TypeOK
<1> QED  BY <1>1, <1>4, <1>5, <1>7, <1>8, OneRank

\* In an exchange straight into dst, what comes has a place of its own.
LEMMA PeersTargets ==
  ASSUME TypeOK, NEW r \in Rank, Direct(r), NEW q \in Others(r), NEW p \in Others(r),
         NEW k \in Chunk, NEW j \in Chunk, Target(q, k) = Target(p, j)
  PROVE  q = p /\ k = j
<1>1. q \in Rank /\ p \in Rank  BY DEF Others
<1>2. CASE Gathering  BY <1>1, <1>2, TargetsDiffer
<1>3. CASE ~Gathering
  <2>1. k \in Nat /\ j \in Nat  BY CallFacts DEF Chunk
  <2>2. k = j  BY <1>3, <2>1 DEF Target
  <2>3. Rank = {0, 1}
    <3>1. call.n = 2  BY DEF Direct
    <3> QED  BY <3>1 DEF Rank
  <2> QED  BY <2>2, <2>3 DEF Others
<1> QED  BY <1>2, <1>3

LEMMA ReceiveKeeps ==
  ASSUME CollInv, NEW r \in Rank, NEW q \in Rank, Receive(r, q)
  PROVE  CollInv'
<1> USE DEF CollInv, TypeInv
<1> DEFINE k == Len(recvs[r][q]) + 1
<1> DEFINE v == staged[q][r][k]
<1>1. /\ call' = call /\ pc' = pc /\ staged' = staged /\ copied' = copied
      /\ recvs' = [recvs EXCEPT ![r][q] = Append(@, v)]
      /\ mem' = IF Direct(r) THEN [mem EXCEPT ![r][Target(q, k)] = v] ELSE mem
      /\ pc[r] = "inside" /\ q # r /\ Len(staged[r][q]) = k /\ Len(staged[q][r]) >= k
  BY DEF Receive
<1>2. /\ Rank' = Rank /\ Chunk' = Chunk /\ Cell' = Cell /\ Gathering' = Gathering
      /\ Overlap(r)' = Overlap(r) /\ Direct(r)' = Direct(r)
      /\ Others(r)' = Others(r) /\ \A p, j : Target(p, j)' = Target(p, j)
      /\ \A p : Kept(p)' = Kept(p)
  BY <1>1, CallKept
<1>3. /\ recvs[r][q] \in Seq(Value) /\ staged[q][r] \in Seq(Value)
      /\ Len(recvs[r][q]) \in Nat /\ call.len \in Nat
      /\ k \in Nat /\ 1 <= k /\ k <= call.len /\ k <= Len(staged[q][r])
  <2>1. recvs[r][q] \in Seq(Value) /\ staged[q][r] \in Seq(Value)  BY DEF TypeOK
  <2>2. Len(recvs[r][q]) \in Nat /\ call.len \in Nat /\ Len(staged[q][r]) \in Nat
    BY <2>1, CallFacts
  <2>3. Len(staged[r][q]) <= call.len  BY DEF TypeOK
  <2>4. k \in Nat /\ 1 <= k  BY <2>2
  <2> HIDE DEF k
  <2> QED  BY <1>1, <2>1, <2>2, <2>3, <2>4
<1>4. k \in Chunk /\ v \in Value
  <2> HIDE DEF k
  <2>1. k \in 1 .. Len(staged[q][r])  BY <1>3
  <2> QED  BY <1>3, <2>1 DEF Chunk
<1>5. k - 1 = Len(recvs[r][q])  BY <1>3
<1> HIDE DEF k, v
<1>6. /\ recvs'[r][q] = Append(recvs[r][q], v)
      /\ \A p \in Rank \ {q} : recvs'[r][p] = recvs[r][p]
      /\ \A f \in Rank \ {r} : recvs'[f] = recvs[f]
  BY <1>1 DEF TypeOK
<1>7. /\ Len(recvs'[r][q]) = k /\ recvs'[r][q][k] = v
      /\ \A j \in 1 .. k - 1 : recvs'[r][q][j] = recvs[r][q][j]
  BY <1>3, <1>4, <1>5, <1>6
<1>8. /\ Direct(r) => mem'[r][Target(q, k)] = v
      /\ \A i \in Cell : mem'[r][i] = mem[r][i] \/ (Direct(r) /\ i = Target(q, k))
      /\ \A f \in Rank \ {r} : mem'[f] = mem[f]
  <2>1. Target(q, k) \in Cell  BY <1>4, TargetCells
  <2>2. mem \in [Rank -> [Cell -> Value \cup {Unset}]]  BY DEF TypeOK
  <2>3. ASSUME NEW c \in Cell, mem' = [mem EXCEPT ![r][c] = v]
        PROVE  /\ mem'[r][c] = v /\ \A i \in Cell \ {c} : mem'[r][i] = mem[r][i]
               /\ \A f \in Rank \ {r} : mem'[f] = mem[f]
    BY <2>2, <2>3
  <2>4. CASE Direct(r)
    <3>1. mem' = [mem EXCEPT ![r][Target(q, k)] = v]  BY <1>1, <2>4
    <3>2. /\ mem'[r][Target(q, k)] = v
          /\ \A i \in Cell \ {Target(q, k)} : mem'[r][i] = mem[r][i]
          /\ \A f \in Rank \ {r} : mem'[f] = mem[f]
      BY <2>1, <2>3, <3>1, Zenon
    <3> QED  BY <2>4, <3>2
  <2>5. CASE ~Direct(r)  BY <1>1, <2>5
  <2> QED  BY <2>4, <2>5
<1>9. TypeOK'
  <2>1. recvs' \in [Rank -> [Rank -> Seq(Value)]]
    <3>1. recvs'[r][q] \in Seq(Value)  BY <1>3, <1>4, <1>6
    <3>2. recvs' \in [Rank -> [Rank -> Seq(Value)]] \/ recvs'[r][q] \notin Seq(Value)
      BY <1>1 DEF TypeOK
    <3> QED  BY <3>1, <3>2
  <2>2. \A f, p \in Rank :
          Len(recvs'[f][p]) <= Len(staged[f][p]) /\ Len(staged[f][p]) <= call.len
    <3> TAKE f, p \in Rank
    <3>1. CASE f = r /\ p = q
      <4>1. Len(recvs'[r][q]) <= Len(staged[r][q])  BY <1>1, <1>3, <1>7
      <4> QED  BY <3>1, <4>1 DEF TypeOK
    <3>2. CASE ~(f = r /\ p = q)
      <4>1. recvs'[f][p] = recvs[f][p]  BY <1>6, <3>2
      <4> QED  BY <4>1 DEF TypeOK
    <3> QED  BY <3>1, <3>2
  <2>3. mem' \in [Rank -> [Cell -> Value \cup {Unset}]]
    <3>1. Target(q, k) \in Cell  BY <1>4, TargetCells
    <3> QED  BY <1>1, <1>4, <3>1 DEF TypeOK
  <2> QED  BY <1>1, <1>2, <2>1, <2>2, <2>3 DEF TypeOK
<1>10. Typed(r)'
  <2>1. Filled(r)'
    <3>1. \A j \in Chunk : mem[r][call.at[r] + j] \in Value  BY DEF Typed, Filled
    <3>2. \A j \in Chunk : call.at[r] + j \in Cell  BY SourceCells
    <3>3. \A j \in Chunk : mem'[r][call.at[r] + j] \in Value
      BY <1>4, <1>8, <3>1, <3>2
    <3> QED  BY <1>1, <1>2, <3>3 DEF Filled
  <2>2. Copied(r)
    BY DEF Typed
  <2>3. Copied(r)'  BY <1>1, <1>2, <2>2 DEF Copied
  <2>4. Fresh(r)'  BY <1>1 DEF Fresh
  <2> QED  BY <2>1, <2>3, <2>4 DEF Typed
<1>11. ASSUME Data(r)  PROVE Data(r)'
  <2>1. Kept(q) => v = call.src[q][k]
    <3>1. Exact(q) /\ k \in 1 .. Len(staged[q][r])
      <4>1. Len(staged[q][r]) \in Nat  BY <1>3
      <4> QED  BY <1>3, <1>11, <4>1 DEF Data
    <3> QED  BY <3>1 DEF Exact, v
  <2>2. Exact(r)'
    <3>1. ASSUME NEW p \in Rank, Kept(p)
          PROVE  \A j \in 1 .. Len(recvs'[r][p]) : recvs'[r][p][j] = call.src[p][j]
      <4>1. CASE p = q
        <5> TAKE j \in 1 .. Len(recvs'[r][p])
        <5>1. j = k \/ j \in 1 .. k - 1  BY <1>3, <1>7, <4>1
        <5>2. \A i \in 1 .. k - 1 : recvs[r][q][i] = call.src[q][i]
          BY <1>5, <1>11, <3>1, <4>1 DEF Data, Exact
        <5> QED  BY <1>7, <2>1, <3>1, <4>1, <5>1, <5>2
      <4>2. CASE p # q
        <5>1. recvs'[r][p] = recvs[r][p]  BY <1>6, <4>2
        <5> QED  BY <1>11, <3>1, <5>1 DEF Data, Exact
      <4> QED  BY <4>1, <4>2
    <3>2. \A p \in Rank :
            Kept(r) => \A j \in 1 .. Len(staged[r][p]) : staged[r][p][j] = call.src[r][j]
      BY <1>11 DEF Data, Exact
    <3> QED  BY <1>1, <1>2, <3>1, <3>2 DEF Exact
  <2>3. ReadsSrc(r)'
    <3>1. ASSUME NEW j \in Chunk, Unwritten(r, j)'
          PROVE  Source(r, j)' = Source(r, j) /\ Unwritten(r, j)
      <4>1. call.at[r] + j \in Cell /\ q \in Others(r)  BY <1>1, SourceCells DEF Others
      <4>2. CASE Direct(r) /\ Gathering
        <5>1. Kept(r) /\ \A p \in Others(r) : j > Len(recvs'[r][p])
          BY <1>1, <1>2, <3>1, <4>2 DEF Unwritten
        <5>2. j > k  BY <1>7, <4>1, <5>1
        <5>3. j \in Nat  BY CallFacts DEF Chunk
        <5>4. \A p \in Others(r) : j > Len(recvs[r][p])
          <6> TAKE p \in Others(r)
          <6>1. CASE p = q  BY <1>3, <1>5, <5>2, <5>3, <6>1
          <6>2. CASE p # q
            <7>1. recvs'[r][p] = recvs[r][p]  BY <1>6, <6>2 DEF Others
            <7> QED  BY <5>1, <7>1
          <6> QED  BY <6>1, <6>2
        <5>5. call.at[r] + j # Target(q, k)
          BY <1>3, <1>4, <4>2, <5>1, <5>2, <5>3, SourceApart
        <5>6. mem'[r][call.at[r] + j] = mem[r][call.at[r] + j]  BY <1>8, <4>1, <5>5
        <5> QED  BY <1>1, <5>1, <5>4, <5>6 DEF Source, Unwritten
      <4>3. CASE ~(Direct(r) /\ Gathering)
        <5>1. Unwritten(r, j)  BY <4>3 DEF Unwritten
        <5>2. ~(Direct(r) /\ call.at[r] + j = Target(q, k))
          BY <1>4, <4>3, SourceApart DEF Kept
        <5>3. mem'[r][call.at[r] + j] = mem[r][call.at[r] + j]  BY <1>8, <4>1, <5>2
        <5> QED  BY <1>1, <5>1, <5>3 DEF Source
      <4> QED  BY <4>2, <4>3
    <3> QED  BY <1>1, <1>2, <1>11, <3>1 DEF Data, ReadsSrc
  <2>4. Exchanged(r)'
    <3>1. SUFFICES ASSUME Direct(r), pc[r] \in {"inside", "failed"}
          PROVE  /\ Gathering => \A j \in Chunk : mem'[r][Target(r, j)] = call.src[r][j]
                 /\ \A p \in Others(r), j \in Chunk :
                      Kept(p) /\ j <= Len(recvs'[r][p]) => mem'[r][Target(p, j)] = call.src[p][j]
      BY <1>1, <1>2 DEF Exchanged
    <3>2. /\ Gathering => \A j \in Chunk : mem[r][Target(r, j)] = call.src[r][j]
          /\ \A p \in Others(r), j \in Chunk :
               Kept(p) /\ j <= Len(recvs[r][p]) => mem[r][Target(p, j)] = call.src[p][j]
      BY <1>11, <3>1 DEF Data, Exchanged
    <3>3. ASSUME Gathering, NEW j \in Chunk  PROVE mem'[r][Target(r, j)] = call.src[r][j]
      <4>1. Target(r, j) \in Cell  BY TargetCells
      <4>2. Target(r, j) # Target(q, k)  BY <1>1, <1>4, <3>3, TargetsDiffer
      <4> QED  BY <1>8, <3>2, <3>3, <4>1, <4>2
    <3>4. ASSUME NEW p \in Others(r), NEW j \in Chunk, Kept(p), j <= Len(recvs'[r][p])
          PROVE  mem'[r][Target(p, j)] = call.src[p][j]
      <4>1. Target(p, j) \in Cell /\ p \in Rank /\ q \in Others(r)
        BY <1>1, TargetCells DEF Others
      <4>2. CASE Target(p, j) = Target(q, k)
        <5>1. p = q /\ j = k  BY <1>4, <3>1, <4>1, <4>2, PeersTargets
        <5> QED  BY <1>8, <2>1, <3>1, <3>4, <5>1
      <4>3. CASE Target(p, j) # Target(q, k)
        <5>1. mem'[r][Target(p, j)] = mem[r][Target(p, j)]  BY <1>8, <4>1, <4>3
        <5>2. j <= Len(recvs[r][p])
          <6>1. CASE p = q
            <7>1. j # k /\ j \in Nat  BY <4>3, <6>1, CallFacts DEF Chunk
            <7> QED  BY <1>3, <1>5, <1>7, <3>4, <6>1, <7>1
          <6>2. CASE p # q
            <7>1. recvs'[r][p] = recvs[r][p]  BY <1>6, <4>1, <6>2
            <7> QED  BY <3>4, <7>1
          <6> QED  BY <6>1, <6>2
        <5> QED  BY <3>2, <3>4, <5>1, <5>2
      <4> QED  BY <4>2, <4>3
    <3> QED  BY <3>3, <3>4
  <2>5. Reduction(r)' /\ Gather(r)'  BY <1>1 DEF Reduction, Gather
  <2> QED  BY <2>2, <2>3, <2>4, <2>5 DEF Data
<1>12. \A f \in Rank \ {r} : Same(f)  BY <1>1, <1>6, <1>8 DEF Same
<1> QED  BY <1>1, <1>9, <1>10, <1>11, <1>12, OneRank

\* What a rank that has every chunk reduces or assembles.
LEMMA GatheredValues ==
  ASSUME TypeInv, NEW r \in Rank, pc[r] = "inside",
         \A q \in Others(r) : Len(recvs[r][q]) = call.len, NEW k \in Chunk
  PROVE  /\ Gathered(r, k) \in [Rank -> Value]
         /\ Exact(r) /\ ReadsSrc(r) /\ ~(Gathering /\ Direct(r)) =>
              \A q \in Rank : q = r \/ Kept(q) => Gathered(r, k)[q] = call.src[q][k]
<1> USE DEF TypeInv
<1>1. Source(r, k) \in Value  BY SourceType DEF Typed
<1>2. ASSUME NEW q \in Rank, q # r  PROVE k \in 1 .. Len(recvs[r][q]) /\ recvs[r][q][k] \in Value
  <2>1. recvs[r][q] \in Seq(Value) /\ Len(recvs[r][q]) = call.len  BY <1>2 DEF TypeOK, Others
  <2>2. k \in 1 .. Len(recvs[r][q])  BY <2>1 DEF Chunk
  <2> QED  BY <2>1, <2>2
<1>3. \A q \in Rank : Gathered(r, k)[q] = IF q = r THEN Source(r, k) ELSE recvs[r][q][k]
  BY DEF Gathered
<1>4. Gathered(r, k) \in [Rank -> Value]  BY <1>1, <1>2 DEF Gathered
<1>5. ASSUME Exact(r), ReadsSrc(r), ~(Gathering /\ Direct(r)), NEW q \in Rank, q = r \/ Kept(q)
      PROVE  Gathered(r, k)[q] = call.src[q][k]
  BY <1>2, <1>3, <1>5 DEF Exact, ReadsSrc, Unwritten
<1> QED  BY <1>4, <1>5

\* The rank-order reduction of the values brought.
LEMMA ReduceInOrder ==
  ASSUME TypeOK, NEW r, NEW k \in Chunk, NEW vals, \A q \in Rank : vals[q] = call.src[q][k]
  PROVE  Reduce(r, vals) = InRankOrder(k)
<1>1. call.n \in Nat \ {0, 1} /\ 0 \in Rank  BY CallFacts
<1>2. \A i \in 1 .. call.n - 1 : i \in Rank  BY <1>1 DEF Rank
<1>3. [i \in 1 .. call.n - 1 |-> vals[i]] = [i \in 1 .. call.n - 1 |-> call.src[i][k]]
  BY <1>2
<1>4. vals[0] = call.src[0][k]  BY <1>1
<1> QED  BY <1>3, <1>4, Zenon DEF Reduce, InRankOrder

LEMMA ReduceType ==
  ASSUME TypeOK, ~Gathering, NEW r, NEW vals \in [Rank -> Value]
  PROVE  Reduce(r, vals) \in Value
<1>1. call.n \in Nat \ {0, 1} /\ 0 \in Rank /\ call.op \in Reductions
  BY CallFacts DEF Gathering
<1>2. \A i \in 1 .. call.n - 1 : i \in Rank  BY <1>1 DEF Rank
<1>3. [i \in 1 .. call.n - 1 |-> vals[i]] \in [1 .. call.n - 1 -> Value]  BY <1>2
<1>4. call.n - 1 \in Nat /\ vals[0] \in Value  BY <1>1
<1> QED  BY <1>1, <1>3, <1>4, RankOrderType DEF Reduce

\* Of two ranks, each reduces its value into the other's: in rank order for rank 1,
\* and for rank 0 unless the order matters.
LEMMA DirectInOrder ==
  ASSUME TypeOK, ~Gathering, NEW r \in Rank, Direct(r), NEW k \in Chunk, ~Unordered(r, k),
         NEW q \in Others(r)
  PROVE  Apply(call.op, call.src[q][k], call.src[r][k]) = InRankOrder(k)
<1>1. call.op \in Reductions /\ call.n = 2  BY CallFacts DEF Gathering, Direct
<1>2. Rank = {0, 1}  BY <1>1 DEF Rank
<1>3. call.src[0][k] \in Value /\ call.src[1][k] \in Value  BY CallFacts
<1>4. InRankOrder(k) = Apply(call.op, call.src[0][k], call.src[1][k])
  <2> DEFINE rest == [i \in 1 .. call.n - 1 |-> call.src[i][k]]
  <2>1. DOMAIN rest = 1 .. 1 /\ rest[1] = call.src[1][k]
    <3>1. 1 .. call.n - 1 = 1 .. 1 /\ 1 \in 1 .. 1  BY <1>1
    <3> QED  BY <3>1
  <2>2. InRankOrder(k) = RankOrder(call.op, call.src[0][k], rest)  BY DEF InRankOrder
  <2> HIDE DEF rest
  <2> QED  BY <2>1, <2>2, RankOrderOfTwo
<1>5. CASE r = 1
  <2>1. q = 0  BY <1>2, <1>5 DEF Others
  <2> QED  BY <1>4, <1>5, <2>1
<1>6. CASE r = 0
  <2>1. q = 1  BY <1>2, <1>6 DEF Others
  <2>2. \/ call.op = "sum" \/ call.src[0][k] = call.src[1][k]
        \/ Less(call.src[0][k], call.src[1][k]) \/ Less(call.src[1][k], call.src[0][k])
    BY <1>6, Zenon DEF Unordered
  <2>3. Apply(call.op, call.src[0][k], call.src[1][k])
          = Apply(call.op, call.src[1][k], call.src[0][k])
    BY <1>1, <1>3, <2>2, Commutes
  <2> QED  BY <1>4, <1>6, <2>1, <2>3
<1> QED  BY <1>2, <1>5, <1>6

LEMMA ReturnKeeps ==
  ASSUME CollInv, NEW r \in Rank, Return(r)
  PROVE  CollInv'
<1> USE DEF CollInv, TypeInv
<1>1. /\ call' = call /\ copied' = copied /\ staged' = staged /\ recvs' = recvs
      /\ pc[r] = "inside" /\ pc' = [pc EXCEPT ![r] = "returned"]
      /\ \A q \in Others(r) : Len(recvs[r][q]) = call.len
  BY DEF Return
<1>2. /\ Rank' = Rank /\ Chunk' = Chunk /\ Cell' = Cell /\ Gathering' = Gathering
      /\ Overlap(r)' = Overlap(r)
      /\ \A k : Unordered(r, k)' = Unordered(r, k) /\ InRankOrder(k)' = InRankOrder(k)
      /\ \A q : Kept(q)' = Kept(q)
  BY <1>1, CallKept
<1>3. pc'[r] = "returned"  BY <1>1 DEF TypeOK
<1>4. mem' = IF ~Gathering THEN [mem EXCEPT ![r] = Reduced(r)]
             ELSE IF Direct(r) THEN mem ELSE [mem EXCEPT ![r] = Assembled(r)]
  BY DEF Return
<1>5. mem'[r] = IF ~Gathering THEN Reduced(r) ELSE IF Direct(r) THEN mem[r] ELSE Assembled(r)
  BY <1>4 DEF TypeOK
<1>6. ASSUME NEW k \in Chunk
      PROVE  /\ Gathered(r, k) \in [Rank -> Value]
             /\ ~(Gathering /\ Direct(r)) =>
                  \A q \in Rank : q = r \/ Kept(q) => Gathered(r, k)[q] = call.src[q][k]
  BY <1>1, <1>6, GatheredValues DEF Data
<1>7. ASSUME Data(r), Direct(r), NEW q \in Others(r), Kept(q), NEW k \in Chunk
      PROVE  mem[r][Target(q, k)] = call.src[q][k]
  <2>1. k <= Len(recvs[r][q])  BY <1>1 DEF Chunk
  <2> QED  BY <1>1, <1>7, <2>1 DEF Data, Exchanged
<1>8. ASSUME ~Gathering, NEW k \in Chunk
      PROVE  /\ Reduced(r)[k] \in Value
             /\ ~Unordered(r, k) => Reduced(r)[k] = InRankOrder(k)
  <2>1. Data(r) /\ k \in Cell /\ \A q : Kept(q)  BY <1>8, SourceCells DEF Kept
  <2>2. CASE Direct(r)
    <3>1. PICK q \in Others(r) : TRUE
      <4>1. 0 \in Rank /\ 1 \in Rank  BY CallFacts
      <4> QED  BY <4>1 DEF Others
    <3>2. mem[r][k] = call.src[q][k]
      <4>1. Target(q, k) = k
        <5>1. k \in Nat  BY CallFacts DEF Chunk
        <5> QED  BY <1>8, <5>1 DEF Target
      <4> QED  BY <1>7, <2>1, <2>2, <4>1
    <3>3. Source(r, k) = call.src[r][k]  BY <1>1, <1>8, <2>1 DEF Data, ReadsSrc, Unwritten
    <3>4. Reduced(r)[k] = Apply(call.op, call.src[q][k], call.src[r][k])
      BY <2>1, <2>2, <3>2, <3>3 DEF Reduced
    <3>5. Reduced(r)[k] \in Value
      <4>1. call.src[q][k] \in Value /\ call.src[r][k] \in Value  BY CallFacts DEF Others
      <4>2. call.op \in Reductions  BY <1>8, CallFacts DEF Gathering
      <4> QED  BY <3>4, <4>1, <4>2, ApplyType
    <3> QED  BY <1>8, <2>2, <3>4, <3>5, DirectInOrder
  <2>3. CASE ~Direct(r)
    <3>1. Reduced(r)[k] = Reduce(r, Gathered(r, k))  BY <2>1, <2>3 DEF Reduced
    <3> QED  BY <1>6, <1>8, <2>1, <3>1, ReduceInOrder, ReduceType
  <2> QED  BY <2>2, <2>3
<1>9. \A i \in Cell : i \notin Chunk => Reduced(r)[i] = mem[r][i]  BY DEF Reduced
<1>10. ASSUME NEW i \in Cell
       PROVE  Assembled(r)[i] = mem[r][i] \/ Assembled(r)[i] \in Value
  <2>1. CASE i > call.n * call.len
    BY <2>1, Zenon DEF Assembled
  <2>2. CASE ~(i > call.n * call.len)
    <3>1. i <= call.n * call.len
      <4>1. i \in Nat /\ call.n * call.len \in Nat  BY CellBound, CallFacts DEF Cell
      <4> QED  BY <2>2, <4>1
    <3> DEFINE k == ((i - 1) % call.len) + 1
    <3> DEFINE q == (i - 1) \div call.len
    <3>2. k \in Chunk /\ q \in Rank  BY <3>1, CellsOfGather
    <3>3. Assembled(r)[i] = Gathered(r, k)[q]  BY <2>2, Zenon DEF Assembled
    <3> HIDE DEF k, q
    <3> QED  BY <1>6, <3>2, <3>3
  <2> QED  BY <2>1, <2>2
<1>11. \A i \in Cell : mem'[r][i] = mem[r][i] \/ mem'[r][i] \in Value
  BY <1>5, <1>8, <1>9, <1>10
<1>12. TypeOK'
  <2>1. pc' \in [Rank -> {"outside", "inside", "returned", "failed"}]  BY <1>1 DEF TypeOK
  <2>2. mem' \in [Rank -> [Cell -> Value \cup {Unset}]]
    <3>1. mem[r] \in [Cell -> Value \cup {Unset}]  BY DEF TypeOK
    <3>2. mem'[r] = [i \in Cell |-> mem'[r][i]]
      BY <1>5, <3>1 DEF Reduced, Assembled
    <3>3. mem'[r] \in [Cell -> Value \cup {Unset}]  BY <1>11, <3>1, <3>2
    <3>4. \/ mem' = mem
          \/ mem' = [mem EXCEPT ![r] = mem'[r]]
      BY <1>4, <1>5
    <3> QED  BY <3>3, <3>4 DEF TypeOK
  <2> QED  BY <1>1, <1>2, <2>1, <2>2 DEF TypeOK
<1>13. Typed(r)'
  <2>1. Filled(r)'
    <3>1. \A j \in Chunk : mem[r][call.at[r] + j] \in Value  BY DEF Typed, Filled
    <3>2. \A j \in Chunk : call.at[r] + j \in Cell  BY SourceCells
    <3>3. \A j \in Chunk : mem'[r][call.at[r] + j] \in Value  BY <1>11, <3>1, <3>2
    <3> QED  BY <1>1, <1>2, <3>3 DEF Filled
  <2>2. Copied(r)  BY DEF Typed
  <2>3. Copied(r)'  BY <1>1, <1>2, <1>3, <2>2 DEF Copied
  <2>4. Fresh(r)'  BY <1>3 DEF Fresh
  <2> QED  BY <2>1, <2>3, <2>4 DEF Typed
<1>14. ASSUME Data(r)  PROVE Data(r)'
  <2>1. Exact(r)'  BY <1>1, <1>2, <1>14 DEF Data, Exact
  <2>2. ReadsSrc(r)' /\ Exchanged(r)'  BY <1>3 DEF ReadsSrc, Exchanged
  <2>3. Reduction(r)'  BY <1>2, <1>5, <1>8 DEF Reduction
  <2>4. Gather(r)'
    <3>1. ASSUME Gathering, NEW q \in Rank, NEW k \in Chunk, q = r \/ Kept(q)
          PROVE  mem'[r][q * call.len + k] = call.src[q][k]
      <4>1. CASE Direct(r)
        <5>1. Target(q, k) = q * call.len + k  BY <3>1 DEF Target
        <5>2. CASE q = r  BY <1>1, <1>5, <1>14, <3>1, <4>1, <5>1, <5>2 DEF Data, Exchanged
        <5>3. CASE q # r  BY <1>5, <1>7, <1>14, <3>1, <4>1, <5>1, <5>3 DEF Others
        <5> QED  BY <5>2, <5>3
      <4>2. CASE ~Direct(r)
        <5> DEFINE i == q * call.len + k
        <5>1. i \in Cell /\ ~(i > call.n * call.len)
          <6>1. i \in Cell /\ i <= call.n * call.len  BY GatherCells
          <6>2. call.n * call.len \in Nat /\ i \in Nat  BY <6>1, CellBound, CallFacts DEF Cell
          <6> HIDE DEF i
          <6> QED  BY <6>1, <6>2
        <5>2. i - 1 = q * call.len + (k - 1)
          <6>1. q * call.len \in Nat /\ k \in Nat  BY GatherCells, CallFacts DEF Chunk
          <6> QED  BY <6>1
        <5>3. ((i - 1) % call.len) + 1 = k /\ (i - 1) \div call.len = q
          <6>1. (i - 1) % call.len = k - 1 /\ (i - 1) \div call.len = q
            BY <5>2, GatherCells
          <6>2. k \in Nat  BY CallFacts DEF Chunk
          <6> HIDE DEF i
          <6> QED  BY <6>1, <6>2
        <5>4. Assembled(r)[i] = Gathered(r, ((i - 1) % call.len) + 1)[(i - 1) \div call.len]
          BY <5>1, Zenon DEF Assembled
        <5> HIDE DEF i
        <5>5. mem'[r][i] = Gathered(r, k)[q]  BY <1>5, <3>1, <4>2, <5>3, <5>4
        <5>6. mem'[r][i] = call.src[q][k]  BY <1>6, <3>1, <4>2, <5>5
        <5> QED  BY <5>6 DEF i
      <4> QED  BY <4>1, <4>2
    <3> QED  BY <1>1, <1>2, <3>1 DEF Gather
  <2> QED  BY <2>1, <2>2, <2>3, <2>4 DEF Data
<1>15. \A f \in Rank \ {r} : Same(f)  BY <1>1, <1>4 DEF Same, TypeOK
<1> QED  BY <1>1, <1>12, <1>13, <1>14, <1>15, OneRank

-----------------------------------------------------------------------------
LEMMA InitInv == Init => CollInv
<1> SUFFICES ASSUME Init PROVE CollInv
  OBVIOUS
<1>1. call \in Calls  BY DEF Init
<1>2. /\ call.n \in Nat \ {0, 1} /\ call.len \in Nat \ {0}
      /\ \A r \in Rank : /\ call.at[r] \in 0 .. call.n * call.len
                         /\ call.src[r] \in [Chunk -> Value]
  BY <1>1, CallsAssumption DEF Rank, Chunk
<1>3. \A r \in Rank, k \in Chunk : call.at[r] \in Int /\ k \in Int /\ (call.at[r] + k) - call.at[r] = k
  <2>1. \A a, k \in Int : (a + k) - a = k  OBVIOUS
  <2>2. \A r \in Rank : call.at[r] \in Int  BY <1>2
  <2>3. \A k \in Chunk : k \in Int  BY DEF Chunk
  <2> QED  BY <2>1, <2>2, <2>3
<1>4. /\ \A r \in Rank : pc[r] = "outside" /\ copied[r] = << >>
      /\ \A r, q \in Rank : staged[r][q] = << >> /\ recvs[r][q] = << >>
  BY DEF Init
<1>5. TypeOK
  <2>1. mem \in [Rank -> [Cell -> Value \cup {Unset}]]
    <3>1. \A r \in Rank : mem[r] \in [Cell -> Value \cup {Unset}]  BY <1>2 DEF Init
    <3> QED  BY <3>1 DEF Init
  <2>2. /\ pc \in [Rank -> {"outside", "inside", "returned", "failed"}]
        /\ copied \in [Rank -> {<< >>} \cup [Chunk -> Value]]
    BY DEF Init
  <2>3. << >> \in Seq(Value) /\ Len(<< >>) = 0  OBVIOUS
  <2>4. /\ staged \in [Rank -> [Rank -> Seq(Value)]]
        /\ recvs \in [Rank -> [Rank -> Seq(Value)]]
    BY <2>3 DEF Init
  <2>5. \A r, q \in Rank :
          Len(recvs[r][q]) <= Len(staged[r][q]) /\ Len(staged[r][q]) <= call.len
    BY <1>2, <1>4, <2>3
  <2> QED  BY <1>1, <2>1, <2>2, <2>4, <2>5 DEF TypeOK
<1>6. \A r \in Rank, k \in Chunk : mem[r][call.at[r] + k] = call.src[r][k]
  <2> TAKE r \in Rank, k \in Chunk
  <2>1. call.at[r] + k \in Cell  BY <1>5, SourceCells
  <2>2. mem[r] = [i \in Cell |-> IF i - call.at[r] \in Chunk
                                 THEN call.src[r][i - call.at[r]] ELSE Unset]
    BY DEF Init
  <2> QED  BY <1>3, <2>1, <2>2
<1>7. \A r \in Rank : Typed(r)
  <2>1. \A r \in Rank : Filled(r)  BY <1>2, <1>6 DEF Filled
  <2> QED  BY <1>4, <2>1 DEF Typed, Copied, Fresh
<1>8. \A r \in Rank : Data(r)
  <2>1. \A r \in Rank : Exact(r)
    <3>1. Len(<< >>) = 0 /\ 1 .. 0 = {}  OBVIOUS
    <3> QED  BY <1>4, <3>1 DEF Exact
  <2>2. \A r \in Rank : ReadsSrc(r)  BY <1>4, <1>6 DEF ReadsSrc, Source
  <2>3. \A r \in Rank : Exchanged(r) /\ Reduction(r) /\ Gather(r)
    BY <1>4 DEF Exchanged, Reduction, Gather
  <2> QED  BY <2>1, <2>2, <2>3 DEF Data
<1> QED  BY <1>5, <1>7, <1>8 DEF CollInv, TypeInv

LEMMA StutterKeeps == CollInv /\ UNCHANGED vars => CollInv'
<1> SUFFICES ASSUME CollInv, UNCHANGED vars PROVE CollInv'
  OBVIOUS
<1>1. call' = call /\ \A f : Same(f)  BY DEF vars, Same
<1>2. TypeOK'
  <2>1. Rank' = Rank /\ Chunk' = Chunk /\ Cell' = Cell  BY <1>1, CallKept
  <2> QED  BY <2>1 DEF CollInv, TypeInv, TypeOK, vars
<1>3. 0 \in Rank  BY CallFacts DEF CollInv, TypeInv
<1> QED  BY <1>1, <1>2, <1>3, SameKeeps, OneRank DEF CollInv, TypeInv

\* CollInv is inductive: what a rank stages, has received and has put in dst is what the
\* callers brought (wireExchange, AllGatherBytes and the reductions).
THEOREM InvariantOfCalls == Spec => []CollInv
<1>1. ASSUME CollInv, Next  PROVE CollInv'
  <2>1. PICK r \in Rank : Step(r) \/ Fail(r)  BY <1>1 DEF Next
  <2>2. CASE Enter(r)  BY <1>1, <2>2, EnterKeeps
  <2>3. CASE Return(r)  BY <1>1, <2>3, ReturnKeeps
  <2>4. ASSUME NEW q \in Rank, Stage(r, q) \/ Receive(r, q)  PROVE CollInv'
    BY <1>1, <2>4, StageKeeps, ReceiveKeeps
  <2>5. CASE Fail(r)  BY <1>1, <2>5, FailKeeps
  <2> QED  BY <2>1, <2>2, <2>3, <2>4, <2>5 DEF Step
<1>2. CollInv /\ [Next]_vars => CollInv'  BY <1>1, StutterKeeps
<1> QED  BY <1>2, InitInv, PTL DEF Spec

\* Every value staged, received and returned is a number, a signed zero or NaN, and no rank has
\* received more of a peer than it has sent it.
THEOREM CollectivesTypeCorrect == Spec => []TypeOK
<1>1. CollInv => TypeOK  BY DEF CollInv, TypeInv
<1> QED  BY <1>1, InvariantOfCalls, PTL

\* A reduction that returns has reduced what the callers brought, in rank order, for
\* every number of ranks and wherever src lies in dst (AllSumBytes, AllMaxBytes,
\* AllMinBytes, of floats and of half floats), but at rank 0 of two for two different
\* values of which neither is less.
THEOREM ReductionsAreInOrder == Spec => []ReductionsInOrder
<1>1. CollInv => ReductionsInOrder
  <2> SUFFICES ASSUME CollInv, ~Gathering, NEW r \in Rank, NEW k \in Chunk,
                      pc[r] = "returned", ~Unordered(r, k)
               PROVE  mem[r][k] = InRankOrder(k)
    BY Zenon DEF ReductionsInOrder, InRankOrder
  <2> QED  BY DEF CollInv, Data, Reduction
<1> QED  BY <1>1, InvariantOfCalls, PTL

\* A gather that returns holds every rank's value in its place, wherever src lies; only
\* what a rank of two gets of a peer whose src lies across a place of dst is excepted
\* (AllGatherBytes).
THEOREM GathersAreInOrder == Spec => []GatherInOrder
<1>1. CollInv => GatherInOrder
  <2> SUFFICES ASSUME CollInv, Gathering, NEW r \in Rank, NEW q \in Rank, NEW k \in Chunk,
                      pc[r] = "returned", q = r \/ ~Straddles(q)
               PROVE  mem[r][q * call.len + k] = call.src[q][k]
    BY Zenon DEF GatherInOrder
  <2> QED  BY DEF CollInv, Data, Gather, Kept
<1> QED  BY <1>1, InvariantOfCalls, PTL
=============================================================================
