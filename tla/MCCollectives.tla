---------------------------- MODULE MCCollectives ----------------------------
(* Collectives of two ranks with two chunks, in place, apart or partly         *)
(* overlapping (gathers with src in every place), and of three ranks with one  *)
(* chunk, some of them in place.                                              *)
EXTENDS Collectives, TLC

CallsOf(n, len, ops, places, data) ==
  { [n |-> n, len |-> len, op |-> op, at |-> at, src |-> src] :
      op \in ops, at \in places, src \in data }

\* What two ranks bring: any first chunk, and a second that tells them apart.
PairData ==
  { (0 :> <<a, b>>) @@ (1 :> <<c, 1 - b>>) :
      a, c \in {NaN, NegZero, 0, 1}, b \in 0 .. 1 }

\* What they bring to a gather: four values.
FourValues == { (0 :> <<NaN, 0>>) @@ (1 :> <<1, NegZero>>) }

\* What three ranks bring: rounding makes the order of a sum of these matter.
TripleData ==
  { f \in [0 .. 2 -> {<<NaN>>, <<0>>, <<1>>}] :
      \E r \in 0 .. 2 : f[r] # <<1>> /\ \A q \in 0 .. 2 \ {r} : f[q] # f[r] }

\* Where src begins: at dst, one cell on, or behind dst.
PairPlaces == [0 .. 1 -> {0, 1, 4}]
TriplePlaces == {[r \in 0 .. 2 |-> IF r \in inPlace THEN 0 ELSE 3] : inPlace \in {{}, {1}, 0 .. 2}}

Tested ==
  CallsOf(2, 2, Reductions, PairPlaces, PairData) \cup
  CallsOf(2, 2, {"gather"}, [0 .. 1 -> 0 .. 4], FourValues) \cup
  CallsOf(3, 1, {"sum", "min", "half max"}, TriplePlaces, TripleData) \cup
  CallsOf(3, 1, {"gather"}, {[r \in 0 .. 2 |-> IF r \in own THEN r ELSE 3] : own \in {{}, {1}, 0 .. 2}}, TripleData)
==============================================================================
