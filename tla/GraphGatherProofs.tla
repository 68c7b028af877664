-------------------------- MODULE GraphGatherProofs --------------------------
(***************************************************************************)
(* Theorems about Topology and GraphGather, for every group size, set of   *)
(* configurations and number of chunks.                                    *)
(*                                                                         *)
(* A rank between two steps has nothing in flight (Clean), a rank that     *)
(* waits has nothing in flight with the neighbours it has confirmed        *)
(* (InFlight), and a rank that others have left behind at a barrier stays  *)
(* clean (Abreast).  So a send meets a receive of the same round, and what *)
(* is sent, lies in a slot or is known is of its round (OfRound).          *)
(*                                                                         *)
(* Neighbours have matched as many of each other's sends as receives       *)
(* (Matched), so a send also meets a receive of the same step, and what is *)
(* known grows by one edge per step (Informed).  The searches of a graph   *)
(* are recursive functions; Induction and SearchExists give their values.  *)
(***************************************************************************)
EXTENDS GraphGather, FiniteSetTheorems, WellFoundedInduction, TLAPS

Clean(r) ==
  /\ pending[r] = {}
  /\ \A p \in Rank : <<r, p>> \notin posted \cup confirmed \cup sentOff

InFlight(r) ==
  /\ \A p \in Rank : <<r, p>> \in posted => <<r, p>> \notin confirmed
  /\ \A p \in Rank : p \in pending[r] => <<r, p>> \notin sentOff
  /\ pending[r] # {} => pc[r] \in {"confirm", "failed"}
  /\ pc[r] \in {"post", "barrier", "done", "missing"} => Clean(r)
  /\ pc[r] = "send" =>
       \A p \in Rank : /\ <<r, p>> \in posted \cup confirmed => p \in Neighbors(r)
                       /\ <<r, p>> \notin sentOff
  /\ pc[r] = "confirm" =>
       \A p \in Rank \ todo[r] : <<r, p>> \notin posted \cup confirmed \cup sentOff /\ p \notin pending[r]

Abreast(r) ==
  \A p \in Rank : round[p] > round[r] =>
    round[p] = round[r] + 1 /\ Clean(r) /\ pc[r] \in {"barrier", "done", "missing", "failed"}

Of(v, k) == \A q \in Rank : v[q] = Unknown \/ v[q] = <<q, k>>

OfRound(r) ==
  /\ Of(known[r], round[r])
  /\ pc[r] \in {"send", "confirm"} \/ pending[r] # {} => Of(payload[r], round[r])
  /\ \A p \in Rank : <<r, p>> \in confirmed => Of(arrived[r][p], round[r])

\* A rank that is not through with a round has a step left.
StepsLeft == \A r \in Rank : pc[r] \in {"post", "send", "confirm"} => step[r] < LastStep

GatherInv ==
  /\ TypeOK /\ StepsLeft
  /\ \A r \in Rank : InFlight(r)
  /\ \A r \in Rank : Abreast(r)
  /\ \A r \in Rank : OfRound(r)
  /\ GatherComplete

USE SizeAssumption, GatherAssumption

-----------------------------------------------------------------------------
(* The cutting of messages, and the connectivity of a matrix.               *)

\* The length of a wire's part is the quotient, rounded up.
LEMMA RoundedUp ==
  ASSUME NEW total \in Nat, NEW nWires \in Nat \ {0}
  PROVE  /\ bytesPerWire(total, nWires) \in Nat
         /\ total <= nWires * bytesPerWire(total, nWires)
BY SMTT(30) DEF bytesPerWire

\* wireRange: whatever the length of a message and the number of wires of a pair, the
\* parts of the wires neither overlap nor leave a byte out (wireRange in backend.go).
THEOREM WireRangePartitions ==
  ASSUME NEW total \in Nat, NEW nWires \in Nat \ {0}
  PROVE  Partitions(total, nWires)
<1> DEFINE b == bytesPerWire(total, nWires)
<1>1. b \in Nat /\ total <= nWires * b
  BY RoundedUp
<1> HIDE DEF b
<1>2. wireOffset(total, nWires, 0) = 0
  <2>1. 0 * b = 0
    BY <1>1
  <2>2. wireOffset(total, nWires, 0) = IF 0 * b >= total THEN total ELSE 0 * b
    BY DEF wireOffset, b
  <2>. QED
    BY <2>1, <2>2, <1>1
<1>3. ASSUME NEW w \in 0 .. nWires - 2
      PROVE  wireOffset(total, nWires, w) + wireLength(total, nWires, w)
               = wireOffset(total, nWires, w + 1)
  <2> DEFINE o == w * b
  <2>1. o \in Nat /\ (w + 1) * b = o + b
    BY <1>1
  <2>2. /\ wireOffset(total, nWires, w) = IF o >= total THEN total ELSE o
        /\ wireLength(total, nWires, w) =
             IF o >= total THEN 0 ELSE IF o + b > total THEN total - o ELSE b
        /\ wireOffset(total, nWires, w + 1) =
             IF (w + 1) * b >= total THEN total ELSE (w + 1) * b
    BY DEF wireOffset, wireLength, b
  <2> HIDE DEF o
  <2>. QED
    BY <1>1, <2>1, <2>2
<1>4. wireOffset(total, nWires, nWires - 1) + wireLength(total, nWires, nWires - 1) = total
  <2> DEFINE o == (nWires - 1) * b
  <2>1. o \in Nat /\ o + b = nWires * b
    BY <1>1
  <2>2. /\ wireOffset(total, nWires, nWires - 1) = IF o >= total THEN total ELSE o
        /\ wireLength(total, nWires, nWires - 1) =
             IF o >= total THEN 0 ELSE IF o + b > total THEN total - o ELSE b
    BY DEF wireOffset, wireLength, b
  <2> HIDE DEF o
  <2>. QED
    BY <1>1, <2>1, <2>2
<1>. QED
  BY <1>2, <1>3, <1>4 DEF Partitions

\* A chunk of a gather fits in one slot of the staging memory, so that the second check
\* in graphGatherChunk never fails for a chunk that graphGather cut.
THEOREM ChunkFits ==
  ASSUME NEW size \in Nat, graphGatherChunkBytes(size) > 0
  PROVE  payloadSize(size, graphGatherChunkBytes(size)) <= rdmaStagingBytes
<1>1. size > 0 /\ size < rdmaStagingBytes /\ rdmaStagingBytes \in Nat
  BY DEF graphGatherChunkBytes, rdmaStagingBytes
<1> DEFINE room == rdmaStagingBytes - size
<1>2. room \in Nat /\ graphGatherChunkBytes(size) = room \div size
  BY <1>1 DEF graphGatherChunkBytes
<1> HIDE DEF room
<1>3. size * (room \div size) <= room
  BY <1>1, <1>2, SMTT(30)
<1>4. size + room = rdmaStagingBytes
  BY <1>1 DEF room
<1>5. (room \div size) \in Int
  BY <1>1, <1>2
<1> DEFINE q == room \div size
<1> HIDE DEF q
<1>6. size * q <= room /\ q \in Int /\ size * q \in Int
  BY <1>3, <1>5 DEF q
<1>. QED
  BY <1>1, <1>2, <1>4, <1>6 DEF payloadSize, q

\* With one matrix that is reciprocal, the ranks agree on whether the graph is connected:
\* no rank turns down what another accepts (checkGraphConnectivity, made by each rank
\* from its own place in the graph).
THEOREM ConnectivityAgrees ==
  ASSUME NEW wires \in Matrix, checkReciprocalConnections(wires),
         NEW r \in Rank, NEW p \in Rank, Reaches(wires, r)
  PROVE  Reaches(wires, p)
<1> SUFFICES ASSUME NEW S \in SUBSET Rank, p \in S,
                    \A a \in S : \A b \in Rank \ S : wires[a][b] = 0
             PROVE  S = Rank
  BY DEF Reaches
<1>1. CASE r \in S
  BY <1>1 DEF Reaches
<1>2. CASE r \notin S
  <2> DEFINE C == Rank \ S
  <2>1. \A a \in C : \A b \in Rank \ C : wires[a][b] = 0
    <3> SUFFICES ASSUME NEW a \in C, NEW b \in Rank \ C
                 PROVE  wires[a][b] = 0
      OBVIOUS
    <3>1. b \in S /\ a \in Rank /\ b \in Rank /\ wires[b][a] = 0
      OBVIOUS
    <3>2. wires[a][b] = wires[b][a]
      BY <3>1, SizeAssumption DEF checkReciprocalConnections, Rank
    <3>. QED
      BY <3>1, <3>2
  <2>2. C = Rank
    BY <1>2, <2>1 DEF Reaches
  <2>. QED
    BY <2>2
<1>. QED
  BY <1>1, <1>2

-----------------------------------------------------------------------------
(* Types.                                                                  *)

LEMMA InitTyped == Init => TypeOK /\ StepsLeft
<1>. SUFFICES ASSUME Init PROVE TypeOK /\ StepsLeft
  OBVIOUS
<1>1. 0 \in Rank /\ 0 \in 0 .. N-1 /\ 1 \in 1 .. Rounds /\ 0 \in 0 .. Rounds /\ 1 \in 0 .. Rounds
  BY DEF Rank
<1>2. Blank \in Value /\ \A r \in Rank : Own(r, 1) \in Value
  BY <1>1 DEF Blank, Own, Value, Unknown
<1>. QED
  BY <1>1, <1>2 DEF Init, TypeOK, StepsLeft, LastStep

LEMMA NeighborsAreRanks ==
  ASSUME NEW r \in Rank
  PROVE  Neighbors(r) \subseteq Rank
BY DEF Neighbors

LEMMA NextTyped == TypeOK /\ StepsLeft /\ [Next]_vars => TypeOK' /\ StepsLeft'
<1>. SUFFICES ASSUME TypeOK, StepsLeft, [Next]_vars PROVE TypeOK' /\ StepsLeft'
  OBVIOUS
<1>. USE DEF TypeOK, StepsLeft, LastStep
<1>1. ASSUME NEW r \in Rank, PostReceives(r) PROVE TypeOK' /\ StepsLeft'
  <2>1. {r} \X Neighbors(r) \subseteq Rank \X Rank
    BY NeighborsAreRanks
  <2>. QED
    BY <1>1, <2>1 DEF PostReceives, Goto
<1>2. ASSUME NEW r \in Rank, PostSends(r) PROVE TypeOK' /\ StepsLeft'
  BY <1>2, NeighborsAreRanks DEF PostSends, Goto
<1>3. ASSUME NEW r \in Rank, Merged(r) PROVE TypeOK' /\ StepsLeft'
  <2>1. PICK p \in todo[r] : /\ known' = [known EXCEPT ![r] = Merge(known[r], arrived[r][p])]
                             /\ todo' = [todo EXCEPT ![r] = todo[r] \ {p}]
                             /\ confirmed' = confirmed \ {<<r, p>>}
                             /\ sentOff' = sentOff \ {<<r, p>>}
    BY <1>3 DEF Merged
  <2>2. p \in Rank /\ Merge(known[r], arrived[r][p]) \in Value
    BY <2>1 DEF Merge, Value
  <2>. QED
    BY <1>3, <2>1, <2>2 DEF Merged
<1>4. ASSUME NEW r \in Rank, NextStep(r) PROVE TypeOK' /\ StepsLeft'
  <2>1. step[r] + 1 \in 0 .. N-1
    BY <1>4 DEF NextStep
  <2>. QED
    BY <1>4, <2>1 DEF NextStep, Goto, transport
<1>5. ASSUME NEW r \in Rank, PassBarrier(r) PROVE TypeOK' /\ StepsLeft'
  <2>1. CASE ~Complete(r)
    BY <1>5, <2>1 DEF PassBarrier, Goto, transport
  <2>2. ASSUME Complete(r) PROVE got' \in [Rank -> [1 .. Rounds -> Value]]
    <3>1. [got[r] EXCEPT ![round[r]] = known[r]] \in [1 .. Rounds -> Value]
      OBVIOUS
    <3>2. got' = [got EXCEPT ![r] = [got[r] EXCEPT ![round[r]] = known[r]]]
      BY <1>5, <2>2 DEF PassBarrier
    <3>. QED
      BY <3>1, <3>2
  <2>3. CASE Complete(r) /\ round[r] < Rounds
    <3>1. round[r] + 1 \in 1 .. Rounds /\ round[r] + 1 \in 0 .. Rounds /\ 0 \in 0 .. N-1 /\ 0 \in Rank
      BY <2>3 DEF Rank
    <3>2. Own(r, round[r] + 1) \in Value
      BY <3>1 DEF Own, Value, Unknown
    <3>3. /\ round' = [round EXCEPT ![r] = round[r] + 1]
          /\ known' = [known EXCEPT ![r] = Own(r, round[r] + 1)]
          /\ step' = [step EXCEPT ![r] = 0]
          /\ pc' = [pc EXCEPT ![r] = "post"]
          /\ UNCHANGED <<config, payload, todo, transport>>
      BY <1>5, <2>3 DEF PassBarrier, Goto
    <3>4. /\ round' \in [Rank -> 1 .. Rounds] /\ step' \in [Rank -> 0 .. N-1]
          /\ known' \in [Rank -> Value]
      BY <3>1, <3>2, <3>3
    <3>5. TypeOK'
      BY <2>2, <2>3, <3>3, <3>4 DEF transport
    <3>6. StepsLeft'
      BY <3>1, <3>3
    <3>. QED
      BY <3>5, <3>6
  <2>4. CASE Complete(r) /\ ~(round[r] < Rounds)
    BY <1>5, <2>2, <2>4 DEF PassBarrier, Goto, transport
  <2>. QED
    BY <2>1, <2>3, <2>4
<1>6. ASSUME NEW r \in Rank, Expire(r) PROVE TypeOK' /\ StepsLeft'
  BY <1>6 DEF Expire, Goto, transport
<1>7. ASSUME NEW r \in Rank, NEW p \in Rank, Transfer(r, p) PROVE TypeOK' /\ StepsLeft'
  BY <1>7 DEF Transfer
<1>8. CASE UNCHANGED vars
  BY <1>8 DEF vars
<1>. QED
  BY <1>1, <1>2, <1>3, <1>4, <1>5, <1>6, <1>7, <1>8 DEF Next, RankStep

\* Every state has its types, whatever graphs the ranks were given.
THEOREM TypeCorrect == Spec => []TypeOK
BY InitTyped, NextTyped, PTL DEF Spec

-----------------------------------------------------------------------------
(* What is in flight, and of which round it is.                            *)

LEMMA InitInv == Init => GatherInv
<1>. SUFFICES ASSUME Init PROVE GatherInv
  OBVIOUS
<1>1. TypeOK /\ StepsLeft
  BY InitTyped
<1>2. \A r \in Rank : InFlight(r)
  BY DEF Init, InFlight, Clean
<1>3. \A r \in Rank : Abreast(r)
  BY DEF Init, Abreast
<1>4. \A r \in Rank : OfRound(r)
  BY DEF Init, OfRound, Of, Own, Unknown
<1>5. GatherComplete
  BY DEF Init, GatherComplete
<1>. QED
  BY <1>1, <1>2, <1>3, <1>4, <1>5 DEF GatherInv

\* The part of the invariant that types leave open.
Flow(r) == InFlight(r) /\ Abreast(r) /\ OfRound(r)

LEMMA PostReceivesFlow ==
  ASSUME GatherInv, NEW r \in Rank, PostReceives(r)
  PROVE  (\A s \in Rank : Flow(s))' /\ GatherComplete'
<1>. USE DEF GatherInv, TypeOK, PostReceives, Goto
<1>1. ASSUME NEW s \in Rank PROVE InFlight(s)'
  BY DEF InFlight, Clean, Neighbors
<1>2. ASSUME NEW s \in Rank PROVE Abreast(s)'
  BY DEF Abreast, Clean
<1>3. ASSUME NEW s \in Rank PROVE OfRound(s)'
  <2>1. Of(known[s], round[s])' /\ (\A q \in Rank : <<s, q>> \in confirmed => Of(arrived[s][q], round[s]))'
    BY DEF OfRound, Of
  <2>2. CASE s # r
    BY <2>1, <2>2 DEF OfRound, Of
  <2>3. CASE s = r
    BY <2>1, <2>3 DEF OfRound, Of
  <2>. QED
    BY <2>2, <2>3
<1>4. GatherComplete'
  BY DEF GatherComplete
<1>. QED
  BY <1>1, <1>2, <1>3, <1>4 DEF Flow

LEMMA PostSendsFlow ==
  ASSUME GatherInv, NEW r \in Rank, PostSends(r)
  PROVE  (\A s \in Rank : Flow(s))' /\ GatherComplete'
<1>. USE DEF GatherInv, TypeOK, PostSends, Goto
<1>1. ASSUME NEW s \in Rank PROVE InFlight(s)'
  <2>1. CASE s # r
    BY <2>1 DEF InFlight, Clean, Neighbors
  <2>2. CASE s = r
    <3>1. \A q \in Rank : /\ <<r, q>> \in posted \cup confirmed => q \in Neighbors(r)
                          /\ <<r, q>> \notin sentOff
      BY DEF InFlight
    <3>2. todo'[r] = Neighbors(r) /\ pending'[r] = Neighbors(r) /\ pc'[r] = "confirm"
      OBVIOUS
    <3>. QED
      BY <2>2, <3>1, <3>2 DEF InFlight
  <2>. QED
    BY <2>1, <2>2
<1>2. ASSUME NEW s \in Rank PROVE Abreast(s)'
  BY DEF Abreast, Clean
<1>3. ASSUME NEW s \in Rank PROVE OfRound(s)'
  <2>1. Of(known[s], round[s])' /\ (\A q \in Rank : <<s, q>> \in confirmed => Of(arrived[s][q], round[s]))'
    BY DEF OfRound, Of
  <2>2. pc'[s] \in {"send", "confirm"} \/ pending'[s] # {} => pc[s] \in {"send", "confirm"} \/ pending[s] # {}
    OBVIOUS
  <2>3. (pc[s] \in {"send", "confirm"} \/ pending[s] # {} => Of(payload[s], round[s]))'
    BY <2>2 DEF OfRound, Of
  <2>. QED
    BY <2>1, <2>3 DEF OfRound
<1>4. GatherComplete'
  BY DEF GatherComplete
<1>. QED
  BY <1>1, <1>2, <1>3, <1>4 DEF Flow

\* A send and a receive that meet are of one round: were one of the two ranks ahead, the
\* other would have nothing in flight.
LEMMA TransferFlow ==
  ASSUME GatherInv, NEW r \in Rank, NEW p \in Rank, Transfer(r, p)
  PROVE  (\A s \in Rank : Flow(s))' /\ GatherComplete'
<1>. USE DEF GatherInv, TypeOK, Transfer
<1>1. round[r] = round[p]
  <2>1. ~(round[p] > round[r]) /\ ~(round[r] > round[p])
    BY DEF Abreast, Clean
  <2>. QED
    BY <2>1
<1>2. Of(payload[r], round[p])
  BY <1>1 DEF OfRound
<1>3. ASSUME NEW s \in Rank PROVE InFlight(s)'
  <2>1. /\ pc[r] \in {"confirm", "failed"} /\ ~Clean(r)
        /\ pc[p] \notin {"post", "barrier", "done", "missing"}
    BY DEF InFlight, Clean
  <2>2. pc[s] = pc'[s] /\ todo[s] = todo'[s] /\ Neighbors(s)' = Neighbors(s)
    BY DEF Neighbors
  <2>3. \A q \in Rank : <<s, q>> \in posted' => <<s, q>> \in posted /\ <<s, q>> # <<p, r>>
    OBVIOUS
  <2>4. \A q \in Rank : <<s, q>> \in confirmed' => <<s, q>> \in confirmed \/ <<s, q>> = <<p, r>>
    OBVIOUS
  <2>5. \A q \in Rank : <<s, q>> \in sentOff' => <<s, q>> \in sentOff \/ <<s, q>> = <<r, p>>
    OBVIOUS
  <2>6. \A q \in Rank : q \in pending'[s] => q \in pending[s] /\ <<s, q>> # <<r, p>>
    OBVIOUS
  <2>7. (\A q \in Rank : <<s, q>> \in posted => <<s, q>> \notin confirmed)'
    BY <2>3, <2>4 DEF InFlight
  <2>8. (\A q \in Rank : q \in pending[s] => <<s, q>> \notin sentOff)'
    BY <2>5, <2>6 DEF InFlight
  <2>9. (pending[s] # {} => pc[s] \in {"confirm", "failed"})'
    BY <2>2, <2>6 DEF InFlight
  <2>10. (pc[s] \in {"post", "barrier", "done", "missing"} => Clean(s))'
    <3>. SUFFICES ASSUME pc[s] \in {"post", "barrier", "done", "missing"} PROVE Clean(s)'
      BY <2>2
    <3>1. Clean(s) /\ s # r /\ s # p
      BY <2>1 DEF InFlight
    <3>. QED
      BY <3>1 DEF Clean
  <2>11. (pc[s] = "send" =>
            \A q \in Rank : /\ <<s, q>> \in posted \cup confirmed => q \in Neighbors(s)
                            /\ <<s, q>> \notin sentOff)'
    <3>. SUFFICES ASSUME pc[s] = "send", NEW q \in Rank
                  PROVE  /\ <<s, q>> \in posted' \cup confirmed' => q \in Neighbors(s)
                         /\ <<s, q>> \notin sentOff'
      BY <2>2
    <3>1. /\ <<s, q>> \in posted \cup confirmed => q \in Neighbors(s)
          /\ <<s, q>> \notin sentOff
      BY DEF InFlight
    <3>. QED
      BY <2>1, <2>3, <2>4, <2>5, <3>1
  <2>12. (pc[s] = "confirm" =>
            \A q \in Rank \ todo[s] : <<s, q>> \notin posted \cup confirmed \cup sentOff /\ q \notin pending[s])'
    <3>. SUFFICES ASSUME pc[s] = "confirm", NEW q \in Rank \ todo[s]
                  PROVE  <<s, q>> \notin posted' \cup confirmed' \cup sentOff' /\ q \notin pending'[s]
      BY <2>2
    <3>1. <<s, q>> \notin posted \cup confirmed \cup sentOff /\ q \notin pending[s]
      BY DEF InFlight
    <3>. QED
      BY <2>3, <2>4, <2>5, <2>6, <3>1
  <2>. QED
    BY <2>7, <2>8, <2>9, <2>10, <2>11, <2>12 DEF InFlight
<1>4. ASSUME NEW s \in Rank PROVE Abreast(s)'
  BY DEF Abreast, Clean
<1>5. ASSUME NEW s \in Rank PROVE OfRound(s)'
  BY <1>2 DEF OfRound, Of
<1>6. GatherComplete'
  BY DEF GatherComplete
<1>. QED
  BY <1>3, <1>4, <1>5, <1>6 DEF Flow

LEMMA MergedFlow ==
  ASSUME GatherInv, NEW r \in Rank, Merged(r)
  PROVE  (\A s \in Rank : Flow(s))' /\ GatherComplete'
<1>. USE DEF GatherInv, TypeOK
<1>1. PICK p \in todo[r] : /\ Ready(r, p)
                           /\ known' = [known EXCEPT ![r] = Merge(known[r], arrived[r][p])]
                           /\ todo' = [todo EXCEPT ![r] = todo[r] \ {p}]
                           /\ confirmed' = confirmed \ {<<r, p>>}
                           /\ sentOff' = sentOff \ {<<r, p>>}
  BY DEF Merged
<1>2. pc[r] = "confirm" /\ UNCHANGED <<config, pc, round, step, payload, posted, pending, arrived, got>>
  BY DEF Merged
<1>3. ASSUME NEW s \in Rank PROVE InFlight(s)'
  <2>1. CASE s # r
    <3>1. todo'[s] = todo[s] /\ Neighbors(s)' = Neighbors(s)
      BY <1>1, <1>2, <2>1 DEF Neighbors
    <3>2. \A q \in Rank : /\ <<s, q>> \in confirmed' <=> <<s, q>> \in confirmed
                          /\ <<s, q>> \in sentOff' <=> <<s, q>> \in sentOff
      BY <1>1, <2>1
    <3>. QED
      BY <1>2, <3>1, <3>2 DEF InFlight, Clean
  <2>2. CASE s = r
    <3>1. <<r, p>> \notin posted /\ p \notin pending[r]
      BY <1>1 DEF InFlight, Ready
    <3>. QED
      BY <1>1, <1>2, <2>2, <3>1 DEF InFlight
  <2>. QED
    BY <2>1, <2>2
<1>4. ASSUME NEW s \in Rank PROVE Abreast(s)'
  BY <1>1, <1>2 DEF Abreast, Clean
<1>5. Of(Merge(known[r], arrived[r][p]), round[r])
  BY <1>1 DEF OfRound, Of, Merge, Ready
<1>6. ASSUME NEW s \in Rank PROVE OfRound(s)'
  BY <1>1, <1>2, <1>5 DEF OfRound, Of
<1>7. GatherComplete'
  BY <1>2 DEF GatherComplete
<1>. QED
  BY <1>3, <1>4, <1>6, <1>7 DEF Flow

LEMMA NextStepFlow ==
  ASSUME GatherInv, NEW r \in Rank, NextStep(r)
  PROVE  (\A s \in Rank : Flow(s))' /\ GatherComplete'
<1>. USE DEF GatherInv, TypeOK, NextStep, Goto, transport
<1>1. Clean(r)
  BY DEF InFlight, Clean
<1>2. pc'[r] \in {"post", "barrier"} /\ \A s \in Rank : s # r => pc'[s] = pc[s]
  OBVIOUS
<1>3. ASSUME NEW s \in Rank PROVE InFlight(s)'
  BY <1>1, <1>2 DEF InFlight, Clean, Neighbors
<1>4. ASSUME NEW s \in Rank PROVE Abreast(s)'
  BY <1>2 DEF Abreast, Clean
<1>5. ASSUME NEW s \in Rank PROVE OfRound(s)'
  BY <1>1, <1>2 DEF OfRound, Of, Clean
<1>6. GatherComplete'
  BY DEF GatherComplete
<1>. QED
  BY <1>3, <1>4, <1>5, <1>6 DEF Flow

LEMMA ExpireFlow ==
  ASSUME GatherInv, NEW r \in Rank, Expire(r)
  PROVE  (\A s \in Rank : Flow(s))' /\ GatherComplete'
<1>. USE DEF GatherInv, TypeOK, Expire, Goto, transport
<1>1. pc'[r] = "failed" /\ \A s \in Rank : s # r => pc'[s] = pc[s]
  OBVIOUS
<1>2. ASSUME NEW s \in Rank PROVE InFlight(s)'
  BY <1>1 DEF InFlight, Clean, Neighbors
<1>3. ASSUME NEW s \in Rank PROVE Abreast(s)'
  BY <1>1 DEF Abreast, Clean
<1>4. ASSUME NEW s \in Rank PROVE OfRound(s)'
  <2>1. pc'[s] \in {"send", "confirm"} => pc[s] \in {"send", "confirm"}
    BY <1>1
  <2>. QED
    BY <2>1 DEF OfRound, Of
<1>5. GatherComplete'
  BY DEF GatherComplete
<1>. QED
  BY <1>2, <1>3, <1>4, <1>5 DEF Flow

\* A rank that leaves the barrier leaves everybody clean behind, and has values of its
\* round only.
LEMMA PassBarrierFlow ==
  ASSUME GatherInv, NEW r \in Rank, PassBarrier(r)
  PROVE  (\A s \in Rank : Flow(s))' /\ GatherComplete'
<1>. USE DEF GatherInv, TypeOK
<1>1. /\ pc[r] = "barrier" /\ \A q \in Rank : Came(q, round[r])
      /\ UNCHANGED <<config, payload, todo, posted, pending, arrived, confirmed, sentOff>>
      /\ pc'[r] \in {"post", "done", "missing"} /\ \A s \in Rank : s # r => pc'[s] = pc[s]
  BY DEF PassBarrier, Goto, transport
<1>2. Clean(r)
  BY <1>1 DEF InFlight
<1>3. \A s \in Rank : s # r => round'[s] = round[s] /\ known'[s] = known[s]
  BY DEF PassBarrier
<1>4. \/ round'[r] = round[r] /\ known'[r] = known[r] /\ pc'[r] # "post"
      \/ round'[r] = round[r] + 1 /\ known'[r] = Own(r, round[r] + 1)
  BY DEF PassBarrier, Goto
<1>5. ASSUME NEW s \in Rank PROVE InFlight(s)'
  BY <1>1, <1>2 DEF InFlight, Clean, Neighbors
<1>6. ASSUME NEW s \in Rank PROVE Abreast(s)'
  <2>. SUFFICES ASSUME NEW p \in Rank, round'[p] > round'[s]
                PROVE  /\ round'[p] = round'[s] + 1 /\ Clean(s)'
                       /\ pc'[s] \in {"barrier", "done", "missing", "failed"}
    BY DEF Abreast
  <2>1. CASE s = r
    <3>1. p # r
      <4>1. round'[r] \in Int
        BY <1>4
      <4>. QED
        BY <2>1, <4>1
    <3>2. round[p] > round[r]
      BY <1>3, <1>4, <2>1, <3>1
    <3>3. round[p] = round[r] + 1
      BY <3>2 DEF Abreast
    <3>4. round'[r] = round[r]
      BY <1>3, <1>4, <2>1, <3>1, <3>3
    <3>. QED
      BY <1>1, <1>2, <1>3, <1>4, <2>1, <3>1, <3>3, <3>4 DEF Clean
  <2>2. CASE s # r /\ p # r
    BY <1>1, <1>3, <2>2 DEF Abreast, Clean
  <2>3. CASE s # r /\ p = r
    <3>1. Came(s, round[r]) /\ round'[s] = round[s] /\ pc'[s] = pc[s]
      BY <1>1, <1>3, <2>3
    <3>2. CASE round[r] > round[s]
      BY <3>1, <3>2 DEF Came
    <3>3. CASE ~(round[r] > round[s])
      <4>1. round'[r] = round[r] + 1 /\ round[s] = round[r]
        BY <1>4, <2>3, <3>1, <3>3
      <4>2. pc[s] \in {"barrier", "done", "missing"} /\ Clean(s)
        BY <3>1, <4>1 DEF Came, InFlight
      <4>. QED
        BY <1>1, <2>3, <3>1, <4>1, <4>2 DEF Clean
    <3>. QED
      BY <3>2, <3>3
  <2>. QED
    BY <2>1, <2>2, <2>3
<1>7. ASSUME NEW s \in Rank PROVE OfRound(s)'
  <2>1. CASE s # r
    BY <1>1, <1>3, <2>1 DEF OfRound, Of
  <2>2. CASE s = r
    <3>1. Of(known[r], round[r])'
      BY <1>4 DEF OfRound, Of, Own
    <3>. QED
      BY <1>1, <1>2, <2>2, <3>1 DEF OfRound, Clean
  <2>. QED
    BY <2>1, <2>2
<1>8. GatherComplete'
  <2>1. CASE ~Complete(r)
    BY <2>1 DEF PassBarrier, GatherComplete
  <2>2. CASE Complete(r)
    <3>1. known[r] = [q \in Rank |-> <<q, round[r]>>]
      <4>1. \A q \in Rank : known[r][q] = <<q, round[r]>>
        BY <2>2 DEF Complete, OfRound, Of
      <4>2. known[r] \in Value
        OBVIOUS
      <4>. QED
        BY <4>1, <4>2 DEF Value
    <3>2. \A s \in Rank, k \in 1 .. Rounds :
            got'[s][k] = IF s = r /\ k = round[r] THEN known[r] ELSE got[s][k]
      BY <2>2 DEF PassBarrier
    <3>. QED
      <4>. SUFFICES ASSUME NEW s \in Rank, NEW k \in 1 .. Rounds, got'[s][k] # Blank'
                    PROVE  got'[s][k] = [q \in Rank |-> <<q, k>>]
        BY DEF GatherComplete
      <4>1. CASE s = r /\ k = round[r]
        <5>1. got'[s][k] = known[r]
          BY <3>2, <4>1
        <5>. QED
          BY <3>1, <4>1, <5>1
      <4>2. CASE ~(s = r /\ k = round[r])
        <5>1. got'[s][k] = got[s][k]
          BY <3>2, <4>2
        <5>. QED
          BY <5>1 DEF GatherComplete, Blank
      <4>. QED
        BY <4>1, <4>2
  <2>. QED
    BY <2>1, <2>2
<1>. QED
  BY <1>5, <1>6, <1>7, <1>8 DEF Flow

LEMMA NextInv == GatherInv /\ [Next]_vars => GatherInv'
<1>. SUFFICES ASSUME GatherInv, [Next]_vars PROVE GatherInv'
  OBVIOUS
<1>1. TypeOK' /\ StepsLeft'
  BY NextTyped DEF GatherInv
<1>2. (\A s \in Rank : Flow(s))' /\ GatherComplete'
  <2>1. ASSUME NEW r \in Rank, RankStep(r) \/ Expire(r) PROVE (\A s \in Rank : Flow(s))' /\ GatherComplete'
    BY <2>1, PostReceivesFlow, PostSendsFlow, MergedFlow, NextStepFlow, PassBarrierFlow, ExpireFlow DEF RankStep
  <2>2. CASE UNCHANGED vars
    BY <2>2 DEF vars, GatherInv, Flow, InFlight, Clean, Neighbors, Abreast, OfRound, Of, GatherComplete
  <2>. QED
    BY <2>1, <2>2, TransferFlow DEF Next
<1>. QED
  BY <1>1, <1>2 DEF GatherInv, Flow

\* GatherInv is inductive, and so holds in every state: messages in flight never belong to
\* another round than the one their reader is in (the barrier after each chunk).
THEOREM Invariance == Spec => []GatherInv
BY InitInv, NextInv, PTL DEF Spec

\* A gather that returns has every rank's value of that very chunk, on any graph and
\* whatever contexts end (graphGatherChunk).
THEOREM GathersAreComplete == Spec => []GatherComplete
BY Invariance, PTL DEF GatherInv

\* One staging slot per wire and direction is enough for a gather of any number of chunks.
THEOREM SlotsAreFree == Spec => []SlotFree
<1>1. GatherInv => SlotFree
  BY NeighborsAreRanks DEF GatherInv, SlotFree, InFlight
<1>. QED
  BY <1>1, Invariance, PTL

-----------------------------------------------------------------------------
(* Induction over steps of a search.                                        *)

\* A set of numbers has a least one.
LEMMA Least ==
  ASSUME NEW S \in SUBSET Nat, S # {}
  PROVE  \E x \in S : \A y \in S : x <= y
<1>1. PICK x \in S : \A y \in S : ~ (<<y, x>> \in OpToRel(<, Nat))
  BY NatLessThanWellFounded, WFMin, Zenon
<1>2. \A y \in S : ~ (y < x)
  BY <1>1 DEF OpToRel
<1>. QED
  BY <1>2

LEMMA Induction ==
  ASSUME NEW S, 0 \in S, \A n \in Nat : n \in S => n + 1 \in S
  PROVE  Nat \subseteq S
<1> SUFFICES ASSUME Nat \ S # {} PROVE FALSE
  OBVIOUS
<1>1. PICK x \in Nat \ S : \A y \in Nat \ S : x <= y
  BY Least
<1>2. x # 0 /\ x - 1 \in Nat /\ ~(x <= x - 1)
  BY <1>1
<1>3. x - 1 \in S
  BY <1>1, <1>2
<1>4. (x - 1) + 1 \in S
  BY <1>2, <1>3
<1>. QED
  BY <1>1, <1>4

\* A search: g[k] is what is found within k steps.
Search(n, first, grow, g) == g = [k \in 0 .. n |-> IF k = 0 THEN first ELSE grow[g[k-1]]]

LEMMA SearchExists ==
  ASSUME NEW T, NEW first \in T, NEW grow \in [T -> T], NEW n \in Nat
  PROVE  \E g \in [0 .. n -> T] : Search(n, first, grow, g)
<1> DEFINE S == {m \in Nat : \E g \in [0 .. m -> T] : Search(m, first, grow, g)}
<1>1. 0 \in S
  <2> DEFINE g == [k \in 0 .. 0 |-> first]
  <2>1. g = [k \in 0 .. 0 |-> IF k = 0 THEN first ELSE grow[g[k-1]]]
    OBVIOUS
  <2>. QED
    BY <2>1 DEF Search
<1>2. ASSUME NEW m \in Nat, m \in S PROVE m + 1 \in S
  <2>1. PICK g \in [0 .. m -> T] : Search(m, first, grow, g)
    BY <1>2
  <2> DEFINE h == [k \in 0 .. m + 1 |-> IF k = m + 1 THEN grow[g[m]] ELSE g[k]]
  <2>2. h \in [0 .. m + 1 -> T]
    OBVIOUS
  <2>3. ASSUME NEW k \in 0 .. m + 1 PROVE h[k] = IF k = 0 THEN first ELSE grow[h[k-1]]
    <3>1. CASE k = m + 1
      <4>1. h[k] = grow[g[m]] /\ h[k-1] = g[m] /\ k # 0
        BY <3>1
      <4>. QED
        BY <4>1
    <3>2. CASE k # m + 1
      <4>1. k \in 0 .. m /\ h[k] = g[k]
        BY <3>2
      <4>2. g[k] = IF k = 0 THEN first ELSE grow[g[k-1]]
        BY <2>1, <4>1 DEF Search
      <4>3. k # 0 => h[k-1] = g[k-1]
        BY <4>1
      <4> HIDE DEF h
      <4>. QED
        BY <4>1, <4>2, <4>3
    <3>. QED
      BY <3>1, <3>2
  <2>4. Search(m + 1, first, grow, h)
    <3> HIDE DEF h
    <3>1. h = [k \in 0 .. m + 1 |-> h[k]]
      BY <2>2
    <3>. QED
      BY <2>3, <3>1 DEF Search
  <2>. QED
    BY <2>2, <2>4
<1>3. n \in S
  <2> HIDE DEF S
  <2>. QED
    BY <1>1, <1>2, Induction
<1>. QED
  BY <1>3

LEMMA ReachSteps ==
  /\ Reach \in [0 .. N-1 -> [Rank -> SUBSET Rank]]
  /\ \A r \in Rank : Reach[0][r] = {r}
  /\ \A d \in 1 .. N-1, r \in Rank :
       Reach[d][r] = Reach[d-1][r] \cup UNION {Reach[d-1][p] : p \in Neighbors(r)}
<1> DEFINE T == [Rank -> SUBSET Rank]
<1> DEFINE first == [r \in Rank |-> {r}]
<1> DEFINE more(f) == [r \in Rank |-> f[r] \cup UNION {f[p] : p \in Neighbors(r)}]
<1> DEFINE grow == [f \in T |-> more(f)]
<1>1. first \in T /\ grow \in [T -> T]
  BY DEF Neighbors
<1>2. N - 1 \in Nat
  OBVIOUS
<1>3. PICK g \in [0 .. N-1 -> T] : Search(N-1, first, grow, g)
  <2> HIDE DEF T, first, grow
  <2>. QED
    BY <1>1, <1>2, SearchExists
<1>4. g = [d \in 0 .. N-1 |-> IF d = 0 THEN first ELSE more(g[d-1])]
  <2>1. \A d \in 0 .. N-1 : d # 0 => d - 1 \in 0 .. N-1
    OBVIOUS
  <2>2. \A d \in 0 .. N-1 : d # 0 => grow[g[d-1]] = more(g[d-1])
    <3> HIDE DEF T, more
    <3>. QED
      BY <2>1
  <2> HIDE DEF T, first, more, grow
  <2>3. g = [d \in 0 .. N-1 |-> IF d = 0 THEN first ELSE grow[g[d-1]]]
    BY <1>3 DEF Search
  <2>. QED
    BY <2>2, <2>3
<1>5. Reach = [d \in 0 .. N-1 |-> IF d = 0 THEN first ELSE more(Reach[d-1])]
  BY <1>4, Zenon DEF Reach
<1> HIDE DEF T, grow
<1>6. Reach \in [0 .. N-1 -> T]
  <2> DEFINE S == {d \in Nat : d \in 0 .. N-1 => Reach[d] \in T}
  <2>1. 0 \in S
    <3> HIDE DEF first, more
    <3>. QED
      BY <1>1, <1>5
  <2>2. ASSUME NEW d \in Nat, d \in S PROVE d + 1 \in S
    <3>1. ASSUME d + 1 \in 0 .. N-1 PROVE Reach[d+1] \in T
      <4>1. d \in 0 .. N-1 /\ d + 1 # 0 /\ (d + 1) - 1 = d
        BY <3>1
      <4>2. Reach[d] \in T
        BY <2>2, <4>1
      <4>3. Reach[d+1] = more(Reach[d])
        <5> HIDE DEF first, more
        <5>. QED
          BY <1>5, <3>1, <4>1
      <4>4. more(Reach[d]) \in T
        BY <4>2 DEF T, Neighbors
      <4>. QED
        BY <4>3, <4>4
    <3>. QED
      BY <3>1
  <2>3. Nat \subseteq S
    <3> HIDE DEF S
    <3>. QED
      BY <2>1, <2>2, Induction
  <2>4. \A d \in 0 .. N-1 : Reach[d] \in T
    BY <2>3
  <2>5. Reach = [d \in 0 .. N-1 |-> Reach[d]]
    <3> HIDE DEF first, more
    <3>. QED
      BY <1>5
  <2>. QED
    BY <2>4, <2>5
<1>7. \A d \in 0 .. N-1 : Reach[d] = IF d = 0 THEN first ELSE more(Reach[d-1])
  <2> HIDE DEF first, more
  <2>. QED
    BY <1>5
<1>8. 0 \in 0 .. N-1 /\ \A d \in 1 .. N-1 : d \in 0 .. N-1 /\ d # 0
  OBVIOUS
<1>. QED
  BY <1>6, <1>7, <1>8 DEF T

-----------------------------------------------------------------------------
(* What a rank knows after so many steps.                                   *)

\* The steps of this round in which r's send to p, and r's receive from p, have been matched.
SentTo(r, p) ==
  step[r] + IF pc[r] \in {"confirm", "failed"} /\ step[r] < LastStep /\ p \notin pending[r]
            THEN 1 ELSE 0
ReceivedFrom(r, p) ==
  step[r] + IF pc[r] \in {"send", "confirm", "failed"} /\ step[r] < LastStep /\ <<r, p>> \notin posted
            THEN 1 ELSE 0

\* Neighbours in one round have matched as many of each other's sends as receives; one
\* that is ahead has matched none yet.
Matched(r, p) ==
  /\ round[r] = round[p] => SentTo(r, p) = ReceivedFrom(p, r)
  /\ round[r] > round[p] => SentTo(r, p) = 0 /\ ReceivedFrom(r, p) = 0

Paced(r) ==
  /\ pc[r] \in {"barrier", "done", "missing"} => step[r] = LastStep
  /\ pending[r] \subseteq Neighbors(r) /\ (pending[r] # {} => step[r] < LastStep)
  /\ \A p \in Rank : <<r, p>> \in posted => p \in Neighbors(r) /\ step[r] < LastStep

\* v has a value of every rank within d edges of r.
Knows(v, d, r) == \A q \in Reach[d][r] : v[q] # Unknown

Informed(r) ==
  /\ Knows(known[r], step[r], r)
  /\ pc[r] \in {"send", "confirm"} \/ pending[r] # {} => Knows(payload[r], step[r], r)
  /\ \A p \in Rank : <<r, p>> \in confirmed => Knows(arrived[r][p], step[r], p)
  /\ pc[r] = "confirm" => \A p \in Neighbors(r) \ todo[r] : Knows(known[r], step[r], p)

SpreadInv ==
  /\ Opens(config)
  /\ \A r \in Rank : Paced(r)
  /\ \A r \in Rank : \A p \in Neighbors(r) : Matched(r, p)
  /\ \A r \in Rank : Informed(r)

LEMMA InitSpread == Init => SpreadInv
<1>. SUFFICES ASSUME Init PROVE SpreadInv
  OBVIOUS
<1>1. \A r \in Rank : Paced(r)
  BY DEF Init, Paced
<1>2. \A r \in Rank : \A p \in Neighbors(r) : Matched(r, p)
  BY DEF Init, Matched, SentTo, ReceivedFrom, Neighbors
<1>3. \A r \in Rank : Informed(r)
  <2> TAKE r \in Rank
  <2>1. /\ known[r] = Own(r, 1) /\ step[r] = 0 /\ pc[r] = "post" /\ pending[r] = {}
        /\ confirmed = {}
    BY DEF Init
  <2>2. Knows(known[r], step[r], r)
    BY <2>1, ReachSteps DEF Knows, Own, Unknown
  <2>. QED
    BY <2>1, <2>2 DEF Informed
<1>. QED
  BY <1>1, <1>2, <1>3 DEF Init, SpreadInv

LEMMA Mutual ==
  ASSUME WiresAgree(config), NEW r \in Rank, NEW p \in Neighbors(r)
  PROVE  p \in Rank /\ p # r /\ r \in Neighbors(p)
<1>1. p \in Rank /\ p # r /\ config[r].wires[r][p] > 0
  BY DEF Neighbors
<1>2. config[p].wires[p][r] > 0
  BY <1>1 DEF WiresAgree
<1>. QED
  BY <1>1, <1>2 DEF Neighbors

\* Nothing changes of rank s.
Still(s) ==
  /\ pc'[s] = pc[s] /\ round'[s] = round[s] /\ step'[s] = step[s] /\ known'[s] = known[s]
  /\ payload'[s] = payload[s] /\ todo'[s] = todo[s] /\ pending'[s] = pending[s]
  /\ arrived'[s] = arrived[s]
  /\ \A p \in Rank : /\ <<s, p>> \in posted' <=> <<s, p>> \in posted
                     /\ <<s, p>> \in confirmed' <=> <<s, p>> \in confirmed

LEMMA ConfigKept ==
  ASSUME config' = config
  PROVE  /\ Opens(config)' = Opens(config) /\ Reach' = Reach
         /\ \A r : Neighbors(r)' = Neighbors(r)
<1>1. \A r : Neighbors(r)' = Neighbors(r)
  BY DEF Neighbors
<1>2. Reach' = Reach
  BY <1>1, Zenon DEF Reach
<1>3. Opens(config)' = Opens(config)
  BY Zenon
<1>. QED
  BY <1>1, <1>2, <1>3

LEMMA StillKeeps ==
  ASSUME NEW s \in Rank, config' = config, Still(s)
  PROVE  /\ Paced(s) => Paced(s)'
         /\ Informed(s) => Informed(s)'
         /\ \A p \in Rank : SentTo(s, p)' = SentTo(s, p) /\ ReceivedFrom(s, p)' = ReceivedFrom(s, p)
<1>1. Neighbors(s)' = Neighbors(s) /\ Reach' = Reach
  BY ConfigKept
<1>2. Paced(s) => Paced(s)'
  BY <1>1 DEF Paced, Still
<1>3. Informed(s) => Informed(s)'
  <2>1. \A v, p : (\A q \in Reach[step[s]][p] : v[q] # Unknown)
                    => (\A q \in Reach'[step'[s]][p] : v[q] # Unknown)
    BY <1>1 DEF Still
  <2>. QED
    BY <1>1, <2>1 DEF Informed, Still, Knows, Unknown
<1>4. \A p \in Rank : SentTo(s, p)' = SentTo(s, p) /\ ReceivedFrom(s, p)' = ReceivedFrom(s, p)
  BY DEF Still, SentTo, ReceivedFrom
<1>. QED
  BY <1>2, <1>3, <1>4

LEMMA OneRankSpread ==
  ASSUME SpreadInv, config' = config, NEW r \in Rank, \A s \in Rank \ {r} : Still(s),
         Paced(r)', Informed(r)', \A s \in Rank : \A p \in Neighbors(s) : Matched(s, p)'
  PROVE  SpreadInv'
<1>1. Opens(config)' /\ \A s : Neighbors(s)' = Neighbors(s)
  BY ConfigKept DEF SpreadInv
<1>2. \A s \in Rank : Paced(s)' /\ Informed(s)'
  BY StillKeeps DEF SpreadInv
<1>. QED
  BY <1>1, <1>2 DEF SpreadInv

LEMMA CountsKept ==
  ASSUME SpreadInv, config' = config, NEW r \in Rank, \A s \in Rank \ {r} : Still(s),
         round'[r] = round[r],
         \A p \in Neighbors(r) : SentTo(r, p)' = SentTo(r, p) /\ ReceivedFrom(r, p)' = ReceivedFrom(r, p)
  PROVE  \A s \in Rank : \A p \in Neighbors(s) : Matched(s, p)'
<1> TAKE s \in Rank
<1> TAKE p \in Neighbors(s)
<1>1. p \in Rank /\ s \in Neighbors(p)
  BY Mutual DEF SpreadInv, Opens
<1>2. /\ SentTo(s, p)' = SentTo(s, p) /\ ReceivedFrom(s, p)' = ReceivedFrom(s, p)
      /\ ReceivedFrom(p, s)' = ReceivedFrom(p, s)
  BY <1>1, StillKeeps
<1>3. round'[s] = round[s] /\ round'[p] = round[p]
  BY <1>1 DEF Still
<1>. QED
  BY <1>2, <1>3 DEF SpreadInv, Matched

LEMMA PostReceivesSpread ==
  ASSUME GatherInv, SpreadInv, NEW r \in Rank, PostReceives(r)
  PROVE  SpreadInv'
<1>. USE DEF GatherInv, TypeOK
<1>1. /\ pc[r] = "post" /\ pc' = [pc EXCEPT ![r] = "send"]
      /\ payload' = [payload EXCEPT ![r] = known[r]]
      /\ posted' = posted \cup ({r} \X Neighbors(r))
      /\ UNCHANGED <<config, round, step, known, todo, pending, arrived, confirmed, sentOff>>
  BY DEF PostReceives, Goto
<1>2. \A s \in Rank \ {r} : Still(s)
  BY <1>1 DEF Still
<1>3. Paced(r) /\ Informed(r) /\ Clean(r) /\ step[r] < LastStep
  BY <1>1 DEF SpreadInv, InFlight, StepsLeft
<1>4. Neighbors(r)' = Neighbors(r) /\ Reach' = Reach
  BY <1>1, ConfigKept
<1>5. Paced(r)'
  BY <1>1, <1>3, <1>4, NeighborsAreRanks DEF Paced, LastStep
<1>6. Informed(r)'
  BY <1>1, <1>3, <1>4 DEF Informed, Knows, Clean, Unknown
<1>7. ASSUME NEW p \in Neighbors(r)
      PROVE  SentTo(r, p)' = SentTo(r, p) /\ ReceivedFrom(r, p)' = ReceivedFrom(r, p)
  BY <1>1 DEF SentTo, ReceivedFrom, LastStep
<1>. QED
  BY <1>1, <1>2, <1>5, <1>6, <1>7, CountsKept, OneRankSpread

LEMMA PostSendsSpread ==
  ASSUME GatherInv, SpreadInv, NEW r \in Rank, PostSends(r)
  PROVE  SpreadInv'
<1>. USE DEF GatherInv, TypeOK
<1>1. /\ pc[r] = "send" /\ pc' = [pc EXCEPT ![r] = "confirm"]
      /\ pending' = [pending EXCEPT ![r] = Neighbors(r)]
      /\ todo' = [todo EXCEPT ![r] = Neighbors(r)]
      /\ UNCHANGED <<config, round, step, known, payload, posted, arrived, confirmed, sentOff>>
  BY DEF PostSends, Goto
<1>2. \A s \in Rank \ {r} : Still(s)
  BY <1>1 DEF Still
<1>3. Paced(r) /\ Informed(r) /\ step[r] < LastStep
  BY <1>1 DEF SpreadInv, StepsLeft
<1>4. Neighbors(r)' = Neighbors(r) /\ Reach' = Reach
  BY <1>1, ConfigKept
<1>5. Paced(r)'
  BY <1>1, <1>3, <1>4 DEF Paced, LastStep
<1>6. Informed(r)'
  BY <1>1, <1>3, <1>4 DEF Informed, Knows, Unknown
<1>7. ASSUME NEW p \in Neighbors(r)
      PROVE  SentTo(r, p)' = SentTo(r, p) /\ ReceivedFrom(r, p)' = ReceivedFrom(r, p)
  BY <1>1 DEF SentTo, ReceivedFrom, LastStep
<1>. QED
  BY <1>1, <1>2, <1>5, <1>6, <1>7, CountsKept, OneRankSpread

LEMMA MergedSpread ==
  ASSUME GatherInv, SpreadInv, NEW r \in Rank, Merged(r)
  PROVE  SpreadInv'
<1>. USE DEF GatherInv, TypeOK
<1>1. PICK p \in todo[r] : /\ Ready(r, p)
                           /\ known' = [known EXCEPT ![r] = Merge(known[r], arrived[r][p])]
                           /\ todo' = [todo EXCEPT ![r] = todo[r] \ {p}]
                           /\ confirmed' = confirmed \ {<<r, p>>}
  BY DEF Merged
<1>2. pc[r] = "confirm" /\ UNCHANGED <<config, pc, round, step, payload, posted, pending, arrived>>
  BY DEF Merged
<1>3. \A s \in Rank \ {r} : Still(s)
  BY <1>1, <1>2 DEF Still
<1>4. Paced(r) /\ Informed(r)
  BY DEF SpreadInv
<1>5. Neighbors(r)' = Neighbors(r) /\ Reach' = Reach
  BY <1>2, ConfigKept
<1>6. Paced(r)'
  BY <1>2, <1>4, <1>5 DEF Paced, LastStep
<1>7. Informed(r)'
  <2>1. Reach[step[r]][r] \subseteq Rank /\ \A q \in Rank : Reach[step[r]][q] \subseteq Rank
    BY ReachSteps
  <2>2. \A q \in Rank : /\ known[r][q] # Unknown => known'[r][q] # Unknown
                        /\ arrived[r][p][q] # Unknown => known'[r][q] # Unknown
    BY <1>1 DEF Merge
  <2>3. /\ \A q \in Reach[step[r]][r] : known'[r][q] # Unknown
        /\ \A q \in Reach[step[r]][p] : known'[r][q] # Unknown
        /\ \A b \in Neighbors(r) \ todo[r] : \A q \in Reach[step[r]][b] : known'[r][q] # Unknown
    <3>1. p \in Rank /\ Knows(arrived[r][p], step[r], p)
      BY <1>1, <1>4 DEF Informed, Ready
    <3>. QED
      BY <1>2, <1>4, <2>1, <2>2, <3>1, NeighborsAreRanks DEF Informed, Knows
  <2>4. \A b \in Neighbors(r) \ todo'[r] : b = p \/ b \in Neighbors(r) \ todo[r]
    BY <1>1
  <2>5. Knows(payload[r], step[r], r)
    BY <1>2, <1>4 DEF Informed
  <2>. QED
    BY <1>1, <1>2, <1>4, <1>5, <2>3, <2>4, <2>5 DEF Informed, Knows, Unknown
<1>8. ASSUME NEW q \in Neighbors(r)
      PROVE  SentTo(r, q)' = SentTo(r, q) /\ ReceivedFrom(r, q)' = ReceivedFrom(r, q)
  BY <1>2 DEF SentTo, ReceivedFrom, LastStep
<1>. QED
  BY <1>2, <1>3, <1>6, <1>7, <1>8, CountsKept, OneRankSpread

LEMMA NextStepSpread ==
  ASSUME GatherInv, SpreadInv, NEW r \in Rank, NextStep(r)
  PROVE  SpreadInv'
<1>. USE DEF GatherInv, TypeOK
<1>1. /\ pc[r] = "confirm" /\ todo[r] = {}
      /\ step' = [step EXCEPT ![r] = step[r] + 1]
      /\ pc' = [pc EXCEPT ![r] = IF step[r] + 1 = LastStep THEN "barrier" ELSE "post"]
      /\ UNCHANGED <<config, round, known, payload, todo, posted, pending, arrived, confirmed, sentOff>>
  BY DEF NextStep, Goto, transport
<1>2. \A s \in Rank \ {r} : Still(s)
  BY <1>1 DEF Still
<1>3. Informed(r) /\ Clean(r) /\ step[r] \in Nat /\ step[r] < LastStep /\ LastStep = N - 1
  <2>1. Informed(r) /\ Clean(r)
    BY <1>1 DEF SpreadInv, InFlight, Clean
  <2>2. step[r] \in Nat /\ step[r] < LastStep
    BY <1>1 DEF StepsLeft
  <2>. QED
    BY <2>1, <2>2 DEF LastStep
<1>4. Neighbors(r)' = Neighbors(r) /\ Reach' = Reach /\ LastStep' = LastStep
  BY <1>1, ConfigKept DEF LastStep
<1>5. step'[r] = step[r] + 1 /\ pc'[r] \in {"barrier", "post"}
      /\ (pc'[r] = "barrier" => step'[r] = LastStep)
  BY <1>1
<1>6. Paced(r)'
  BY <1>1, <1>3, <1>4, <1>5 DEF Paced, Clean
<1>7. Informed(r)'
  <2>1. Reach[step[r] + 1][r] = Reach[step[r]][r] \cup UNION {Reach[step[r]][p] : p \in Neighbors(r)}
    <3>1. step[r] + 1 \in 1 .. N-1 /\ (step[r] + 1) - 1 = step[r]
      BY <1>3
    <3>. QED
      BY <3>1, ReachSteps
  <2>2. \A q \in Reach[step[r] + 1][r] : known[r][q] # Unknown
    BY <1>1, <1>3, <2>1 DEF Informed, Knows
  <2>. QED
    BY <1>1, <1>3, <1>4, <1>5, <2>2 DEF Informed, Knows, Clean, Unknown
<1>8. ASSUME NEW p \in Neighbors(r)
      PROVE  SentTo(r, p)' = SentTo(r, p) /\ ReceivedFrom(r, p)' = ReceivedFrom(r, p)
  <2>1. p \notin pending[r] /\ <<r, p>> \notin posted
    BY <1>3, NeighborsAreRanks DEF Clean
  <2>. QED
    BY <1>1, <1>3, <1>4, <1>5, <2>1 DEF SentTo, ReceivedFrom
<1>. QED
  BY <1>1, <1>2, <1>6, <1>7, <1>8, CountsKept, OneRankSpread

LEMMA ExpireSpread ==
  ASSUME GatherInv, SpreadInv, NEW r \in Rank, Expire(r)
  PROVE  SpreadInv'
<1>. USE DEF GatherInv, TypeOK
<1>1. /\ pc[r] \in {"confirm", "barrier"} /\ pc' = [pc EXCEPT ![r] = "failed"]
      /\ UNCHANGED <<config, round, step, known, payload, todo, posted, pending, arrived, confirmed, sentOff>>
  BY DEF Expire, Goto, transport
<1>2. \A s \in Rank \ {r} : Still(s)
  BY <1>1 DEF Still
<1>3. Paced(r) /\ Informed(r)
  BY DEF SpreadInv
<1>4. Neighbors(r)' = Neighbors(r) /\ Reach' = Reach /\ pc'[r] = "failed" /\ LastStep' = LastStep
  BY <1>1, ConfigKept DEF LastStep
<1>5. Paced(r)'
  BY <1>1, <1>3, <1>4 DEF Paced
<1>6. Informed(r)'
  BY <1>1, <1>3, <1>4 DEF Informed, Knows, Unknown
<1>7. ASSUME NEW p \in Neighbors(r)
      PROVE  SentTo(r, p)' = SentTo(r, p) /\ ReceivedFrom(r, p)' = ReceivedFrom(r, p)
  <2>1. pc[r] = "barrier" => ~(step[r] < LastStep)
    BY <1>3 DEF Paced, LastStep
  <2>. QED
    BY <1>1, <1>4, <2>1 DEF SentTo, ReceivedFrom
<1>. QED
  BY <1>1, <1>2, <1>5, <1>6, <1>7, CountsKept, OneRankSpread

\* A send and a receive that meet are of one step, and so the receiver learns what its
\* neighbour knew at the beginning of its own step.
LEMMA TransferSpread ==
  ASSUME GatherInv, SpreadInv, NEW r \in Rank, NEW p \in Rank, Transfer(r, p)
  PROVE  SpreadInv'
<1>. USE DEF GatherInv, TypeOK
<1>1. /\ p \in pending[r] /\ <<p, r>> \in posted
      /\ arrived' = [arrived EXCEPT ![p][r] = payload[r]]
      /\ pending' = [pending EXCEPT ![r] = pending[r] \ {p}]
      /\ posted' = posted \ {<<p, r>>} /\ confirmed' = confirmed \cup {<<p, r>>}
      /\ UNCHANGED <<config, pc, round, step, known, payload, todo>>
  BY DEF Transfer
<1>2. round[r] = round[p]
  <2>1. ~(round[p] > round[r]) /\ ~(round[r] > round[p])
    BY <1>1 DEF Abreast, Clean
  <2>. QED
    BY <2>1
<1>3. \A s \in Rank : Paced(s) /\ Informed(s) /\ InFlight(s)
  BY DEF SpreadInv
<1>4. /\ p \in Neighbors(r) /\ r \in Neighbors(p) /\ r # p
      /\ step[r] < LastStep /\ step[p] < LastStep
      /\ step[r] \in Nat /\ step[p] \in Nat
      /\ pc[r] \in {"confirm", "failed"} /\ pc[p] \in {"send", "confirm", "failed"}
  <2>1. /\ p \in Neighbors(r) /\ r \in Neighbors(p)
        /\ step[r] < LastStep /\ step[p] < LastStep
    BY <1>1, <1>3 DEF Paced
  <2>2. r # p
    BY <2>1 DEF Neighbors
  <2>3. pc[r] \in {"confirm", "failed"} /\ pc[p] \notin {"post", "barrier", "done", "missing"}
    BY <1>1, <1>3 DEF InFlight, Clean
  <2>. QED
    BY <2>1, <2>2, <2>3
<1>5. SentTo(r, p) = step[r] /\ ReceivedFrom(p, r) = step[p]
  BY <1>1, <1>4 DEF SentTo, ReceivedFrom
<1>6. step[r] = step[p]
  BY <1>2, <1>4, <1>5 DEF SpreadInv, Matched
<1>7. /\ \A s : Neighbors(s)' = Neighbors(s)
      /\ Reach' = Reach /\ Opens(config)' /\ LastStep' = LastStep
  BY <1>1, ConfigKept DEF SpreadInv, LastStep
<1>8. ASSUME NEW s \in Rank PROVE Paced(s)'
  <2>1. pending'[s] \subseteq pending[s] /\ \A q \in Rank : <<s, q>> \in posted' => <<s, q>> \in posted
    BY <1>1
  <2>. QED
    BY <1>1, <1>3, <1>7, <2>1 DEF Paced
<1>9. ASSUME NEW s \in Rank PROVE Informed(s)'
  <2>1. Informed(s) /\ pending'[s] \subseteq pending[s]
    BY <1>1, <1>3
  <2>2. ASSUME NEW q \in Rank, <<s, q>> \in confirmed'
        PROVE  \A b \in Reach[step[s]][q] : arrived'[s][q][b] # Unknown
    <3>1. CASE s = p /\ q = r
      <4>1. arrived'[s][q] = payload[r]
        BY <1>1, <3>1
      <4>2. Knows(payload[r], step[r], r)
        BY <1>1, <1>3 DEF Informed
      <4>. QED
        BY <1>6, <3>1, <4>1, <4>2 DEF Knows
    <3>2. CASE ~(s = p /\ q = r)
      <4>1. <<s, q>> \in confirmed /\ arrived'[s][q] = arrived[s][q]
        BY <1>1, <2>2, <3>2
      <4>. QED
        BY <2>1, <4>1 DEF Informed, Knows
    <3>. QED
      BY <3>1, <3>2
  <2>. QED
    BY <1>1, <1>7, <2>1, <2>2 DEF Informed, Knows, Unknown
<1>10. ASSUME NEW s \in Rank, NEW q \in Neighbors(s) PROVE Matched(s, q)'
  <2>1. q \in Rank /\ q # s /\ s \in Neighbors(q) /\ Matched(s, q)
    BY Mutual DEF SpreadInv, Opens
  <2>2. SentTo(s, q)' = IF s = r /\ q = p THEN step[r] + 1 ELSE SentTo(s, q)
    BY <1>1, <1>4, <1>7 DEF SentTo
  <2>3. \A a, b \in Rank : ReceivedFrom(a, b)' = IF a = p /\ b = r THEN step[p] + 1 ELSE ReceivedFrom(a, b)
    BY <1>1, <1>4, <1>7 DEF ReceivedFrom
  <2>4. CASE s = r /\ q = p
    BY <1>1, <1>2, <1>4, <1>6, <2>1, <2>2, <2>3, <2>4 DEF Matched
  <2>5. CASE ~(s = r /\ q = p)
    <3>1. SentTo(s, q)' = SentTo(s, q) /\ ReceivedFrom(q, s)' = ReceivedFrom(q, s)
      BY <2>1, <2>2, <2>3, <2>5
    <3>2. round[s] > round[q] => ReceivedFrom(s, q)' = ReceivedFrom(s, q)
      BY <1>2, <2>1, <2>3
    <3>. QED
      BY <1>1, <2>1, <3>1, <3>2 DEF Matched
  <2>. QED
    BY <2>4, <2>5
<1>. QED
  BY <1>7, <1>8, <1>9, <1>10 DEF SpreadInv

LEMMA PassBarrierSpread ==
  ASSUME GatherInv, SpreadInv, NEW r \in Rank, PassBarrier(r)
  PROVE  SpreadInv'
<1>. USE DEF GatherInv, TypeOK
<1>1. /\ pc[r] = "barrier" /\ \A q \in Rank : Came(q, round[r])
      /\ UNCHANGED <<config, payload, todo, posted, pending, arrived, confirmed, sentOff>>
      /\ \A s \in Rank : s # r => pc'[s] = pc[s] /\ round'[s] = round[s] /\ known'[s] = known[s]
                                 /\ step'[s] = step[s]
  BY DEF PassBarrier, Goto, transport
<1>2. \/ /\ pc'[r] \in {"done", "missing"} /\ round'[r] = round[r] /\ known'[r] = known[r]
         /\ step'[r] = step[r]
      \/ /\ pc'[r] = "post" /\ round'[r] = round[r] + 1 /\ known'[r] = Own(r, round[r] + 1)
         /\ step'[r] = 0
  BY DEF PassBarrier, Goto
<1>3. Paced(r) /\ Informed(r) /\ Clean(r)
  BY <1>1 DEF SpreadInv, InFlight
<1>4. \A s \in Rank \ {r} : Still(s)
  BY <1>1 DEF Still
<1>5. Neighbors(r)' = Neighbors(r) /\ Reach' = Reach /\ LastStep' = LastStep
  BY <1>1, ConfigKept DEF LastStep
<1>6. Paced(r)'
  BY <1>1, <1>2, <1>3, <1>5 DEF Paced, Clean
<1>7. Informed(r)'
  <2>1. \A q \in Reach[step'[r]][r] : known'[r][q] # Unknown
    <3>1. CASE known'[r] = known[r] /\ step'[r] = step[r]
      BY <1>3, <3>1 DEF Informed, Knows
    <3>2. CASE step'[r] = 0 /\ known'[r] = Own(r, round[r] + 1)
      BY <3>2, ReachSteps DEF Own, Unknown
    <3>. QED
      BY <1>2, <3>1, <3>2
  <2>. QED
    BY <1>1, <1>2, <1>3, <1>5, <2>1 DEF Informed, Knows, Clean, Unknown
<1>8. CASE pc'[r] \in {"done", "missing"} /\ round'[r] = round[r] /\ step'[r] = step[r]
  <2>1. ASSUME NEW p \in Neighbors(r)
        PROVE  SentTo(r, p)' = SentTo(r, p) /\ ReceivedFrom(r, p)' = ReceivedFrom(r, p)
    BY <1>1, <1>5, <1>8 DEF SentTo, ReceivedFrom
  <2>. QED
    BY <1>1, <1>4, <1>6, <1>7, <1>8, <2>1, CountsKept, OneRankSpread
<1>9. CASE pc'[r] = "post" /\ round'[r] = round[r] + 1 /\ step'[r] = 0
  <2>1. \A p \in Rank : SentTo(r, p)' = 0 /\ ReceivedFrom(r, p)' = 0
    BY <1>9 DEF SentTo, ReceivedFrom
  <2>2. ASSUME NEW p \in Neighbors(r)
        PROVE  /\ p \in Rank /\ p # r /\ Matched(p, r)
               /\ round[p] = round[r] \/ round[p] = round[r] + 1
    <3>1. p \in Rank /\ p # r /\ Matched(p, r)
      BY Mutual DEF SpreadInv, Opens
    <3>2. round[p] >= round[r]
      <4>1. Came(p, round[r]) /\ round[p] \in Int /\ round[r] \in Int
        BY <1>1, <3>1
      <4>. QED
        BY <4>1 DEF Came
    <3>3. round[p] > round[r] => round[p] = round[r] + 1
      BY <3>1 DEF Abreast
    <3>. QED
      BY <3>1, <3>2, <3>3
  <2>3. ASSUME NEW p \in Neighbors(r) PROVE Matched(r, p)' /\ Matched(p, r)'
    <3>1. p \in Rank /\ p # r /\ round'[p] = round[p]
      BY <1>1, <2>2
    <3>2. /\ SentTo(p, r)' = SentTo(p, r) /\ ReceivedFrom(p, r)' = ReceivedFrom(p, r)
      BY <1>1, <1>4, <3>1, StillKeeps
    <3>3. CASE round[p] = round[r]
      BY <1>9, <2>1, <3>1, <3>3 DEF Matched
    <3>4. CASE round[p] = round[r] + 1
      <4>1. SentTo(p, r) = 0 /\ ReceivedFrom(p, r) = 0
        BY <2>2, <3>4 DEF Matched
      <4>. QED
        BY <1>9, <2>1, <3>1, <3>2, <3>4, <4>1 DEF Matched
    <3>. QED
      BY <2>2, <3>3, <3>4
  <2>4. ASSUME NEW s \in Rank, NEW q \in Neighbors(s) PROVE Matched(s, q)'
    <3>1. q \in Rank /\ s \in Neighbors(q) /\ Matched(s, q)
      BY Mutual DEF SpreadInv, Opens
    <3>2. CASE s = r \/ q = r
      BY <2>3, <3>1, <3>2
    <3>3. CASE s # r /\ q # r
      <4>1. /\ SentTo(s, q)' = SentTo(s, q) /\ ReceivedFrom(s, q)' = ReceivedFrom(s, q)
            /\ ReceivedFrom(q, s)' = ReceivedFrom(q, s)
        BY <1>1, <1>4, <3>1, <3>3, StillKeeps
      <4>. QED
        BY <1>1, <3>1, <3>3, <4>1 DEF Matched
    <3>. QED
      BY <3>2, <3>3
  <2>. QED
    BY <1>1, <1>4, <1>6, <1>7, <2>4, OneRankSpread
<1>. QED
  BY <1>2, <1>8, <1>9

LEMMA NextSpread == GatherInv /\ SpreadInv /\ [Next]_vars => SpreadInv'
<1>. SUFFICES ASSUME GatherInv, SpreadInv, [Next]_vars PROVE SpreadInv'
  OBVIOUS
<1>1. ASSUME NEW r \in Rank, RankStep(r) \/ Expire(r) PROVE SpreadInv'
  BY <1>1, PostReceivesSpread, PostSendsSpread, MergedSpread, NextStepSpread, PassBarrierSpread,
     ExpireSpread DEF RankStep
<1>2. CASE UNCHANGED vars
  <2>1. config' = config /\ \A s \in Rank : Still(s)
    BY <1>2 DEF vars, Still
  <2>2. 0 \in Rank
    BY DEF Rank
  <2>3. \A s \in Rank : Paced(s)' /\ Informed(s)'
    BY <2>1, StillKeeps DEF SpreadInv
  <2>4. \A s \in Rank : \A p \in Neighbors(s) : Matched(s, p)'
    <3>1. \A p \in Neighbors(0) : SentTo(0, p)' = SentTo(0, p) /\ ReceivedFrom(0, p)' = ReceivedFrom(0, p)
      BY <2>1, <2>2, StillKeeps, NeighborsAreRanks
    <3>. QED
      BY <2>1, <2>2, <3>1, CountsKept DEF Still
  <2>. QED
    BY <2>1, <2>2, <2>3, <2>4, OneRankSpread
<1>. QED
  BY <1>1, <1>2, TransferSpread DEF Next

\* SpreadInv is inductive next to GatherInv: neighbours count each other's sends alike, so
\* that what lies in a slot is of its reader's step (the receives that graphGatherChunk
\* posts before it sends).
THEOREM SpreadInvariance == Spec => []SpreadInv
BY InitSpread, NextSpread, Invariance, PTL DEF Spec

\* After s steps of a round a rank knows at least every rank within s edges, each with its
\* value of this very round (the merges of graphGatherChunk): neighbours never run out of
\* step, on any graph whose wires agree and whatever contexts end.
THEOREM KnowledgeHasSpread == Spec => []KnowledgeSpreads
<1>1. GatherInv /\ SpreadInv => KnowledgeSpreads
  BY DEF GatherInv, OfRound, Of, SpreadInv, Informed, Knows, KnowledgeSpreads
<1>. QED
  BY <1>1, Invariance, SpreadInvariance, PTL

-----------------------------------------------------------------------------
(* The search of checkGraphConnectivity, and what it lets through.          *)

\* Sets of ranks that grow until they are the whole group do so within N-1 steps.
LEMMA GrowsToRank ==
  ASSUME NEW m \in Nat, N - 1 <= m, NEW f \in [0 .. m -> SUBSET Rank], f[0] # {},
         \A k \in 0 .. m - 1 : f[k] \subseteq f[k+1] /\ (f[k+1] = f[k] => f[k] = Rank)
  PROVE  f[N-1] = Rank /\ f[m] = Rank
<1>1. IsFiniteSet(Rank) /\ Cardinality(Rank) = N
  BY FS_Interval DEF Rank
<1>2. \A k \in 0 .. m : f[k] \subseteq Rank /\ IsFiniteSet(f[k]) /\ Cardinality(f[k]) \in Nat
  BY <1>1, FS_Subset, FS_CardinalityType
<1> DEFINE S == {k \in Nat : k <= m => f[k] = Rank \/ Cardinality(f[k]) >= k + 1}
<1>3. 0 \in S
  <2>1. Cardinality(f[0]) # 0
    BY <1>2, FS_EmptySet
  <2>. QED
    BY <1>2, <2>1
<1>4. ASSUME NEW k \in Nat, k \in S PROVE k + 1 \in S
  <2>. SUFFICES ASSUME k + 1 <= m PROVE f[k+1] = Rank \/ Cardinality(f[k+1]) >= (k + 1) + 1
    OBVIOUS
  <2>1. k \in 0 .. m - 1 /\ k \in 0 .. m /\ k + 1 \in 0 .. m
    OBVIOUS
  <2>2. f[k] \subseteq f[k+1] /\ f[k+1] \subseteq Rank
    BY <1>2, <2>1
  <2>3. CASE f[k] = Rank
    BY <2>2, <2>3
  <2>4. CASE f[k] # Rank
    <3>1. f[k+1] # f[k] /\ Cardinality(f[k]) >= k + 1
      BY <1>4, <2>1, <2>4
    <3>2. Cardinality(f[k]) <= Cardinality(f[k+1]) /\ Cardinality(f[k+1]) # Cardinality(f[k])
      BY <1>2, <2>1, <2>2, <3>1, FS_Subset
    <3>3. Cardinality(f[k]) \in Nat /\ Cardinality(f[k+1]) \in Nat
      BY <1>2, <2>1
    <3>. QED
      BY <3>1, <3>2, <3>3
  <2>. QED
    BY <2>3, <2>4
<1>5. Nat \subseteq S
  <2> HIDE DEF S
  <2>. QED
    BY <1>3, <1>4, Induction
<1>6. ASSUME NEW k \in 0 .. m, k >= N - 1 PROVE f[k] = Rank
  <2>1. f[k] = Rank \/ Cardinality(f[k]) >= k + 1
    BY <1>5
  <2>2. Cardinality(f[k]) <= N /\ (Cardinality(f[k]) = N => f[k] = Rank)
    BY <1>1, <1>2, FS_Subset
  <2>3. Cardinality(f[k]) \in Nat
    BY <1>2
  <2>. QED
    BY <1>6, <2>1, <2>2, <2>3
<1>. QED
  BY <1>6

\* What the search of checkGraphConnectivity finds, by the number of steps.
LEMMA SeenSteps ==
  ASSUME NEW wires \in Matrix, NEW rank \in Rank
  PROVE  \E seen \in [0 .. N -> SUBSET Rank] :
           /\ seen[0] = {rank}
           /\ \A k \in 0 .. N - 1 :
                seen[k+1] = seen[k] \cup {p \in Rank : \E r \in seen[k] : r # p /\ wires[r][p] > 0}
           /\ checkGraphConnectivity(wires, rank) <=> seen[N] = Rank
<1> DEFINE T == SUBSET Rank
<1> DEFINE more(s) == s \cup {p \in Rank : \E r \in s : r # p /\ wires[r][p] > 0}
<1> DEFINE grow == [s \in T |-> more(s)]
<1>1. {rank} \in T /\ grow \in [T -> T]
  OBVIOUS
<1>2. PICK g \in [0 .. N -> T] : Search(N, {rank}, grow, g)
  <2> HIDE DEF T, grow
  <2>. QED
    BY <1>1, SearchExists
<1>3. g = [k \in 0 .. N |-> IF k = 0 THEN {rank} ELSE more(g[k-1])]
  <2>1. \A k \in 0 .. N : k # 0 => k - 1 \in 0 .. N
    OBVIOUS
  <2>2. \A k \in 0 .. N : k # 0 => grow[g[k-1]] = more(g[k-1])
    <3> HIDE DEF T, more
    <3>. QED
      BY <2>1
  <2> HIDE DEF T, more, grow
  <2>3. g = [k \in 0 .. N |-> IF k = 0 THEN {rank} ELSE grow[g[k-1]]]
    BY <1>2 DEF Search
  <2>. QED
    BY <2>2, <2>3
<1> DEFINE seen == CHOOSE s : s = [k \in 0 .. N |-> IF k = 0 THEN {rank} ELSE more(s[k-1])]
<1>4. seen = [k \in 0 .. N |-> IF k = 0 THEN {rank} ELSE more(seen[k-1])]
  <2> HIDE DEF more, seen
  <2>1. \E s : s = [k \in 0 .. N |-> IF k = 0 THEN {rank} ELSE more(s[k-1])]
    BY <1>3, Zenon
  <2>. QED
    BY <2>1, Zenon DEF seen
<1>5. checkGraphConnectivity(wires, rank) <=> seen[N] = Rank
  BY Zenon DEF checkGraphConnectivity
<1> HIDE DEF seen, T, grow
<1>6. /\ seen[0] = {rank}
      /\ \A k \in 0 .. N - 1 : seen[k+1] = more(seen[k])
  <2> HIDE DEF more
  <2>1. \A k \in 0 .. N - 1 : k + 1 \in 0 .. N /\ k + 1 # 0 /\ (k + 1) - 1 = k
    OBVIOUS
  <2>2. 0 \in 0 .. N
    OBVIOUS
  <2>. QED
    BY <1>4, <2>1, <2>2
<1>7. seen \in [0 .. N -> SUBSET Rank]
  <2> DEFINE S == {k \in Nat : k <= N => seen[k] \subseteq Rank}
  <2>1. 0 \in S
    BY <1>6
  <2>2. ASSUME NEW k \in Nat, k \in S PROVE k + 1 \in S
    <3>1. ASSUME k + 1 <= N PROVE seen[k+1] \subseteq Rank
      <4>1. k \in 0 .. N - 1 /\ seen[k] \subseteq Rank
        BY <2>2, <3>1
      <4>. QED
        BY <1>6, <4>1
    <3>. QED
      BY <3>1
  <2>3. Nat \subseteq S
    <3> HIDE DEF S
    <3>. QED
      BY <2>1, <2>2, Induction
  <2>4. \A k \in 0 .. N : seen[k] \in SUBSET Rank
    BY <2>3
  <2>5. seen = [k \in 0 .. N |-> seen[k]]
    <3> HIDE DEF more
    <3>. QED
      BY <1>4
  <2>. QED
    BY <2>4, <2>5
<1>. QED
  BY <1>5, <1>6, <1>7

\* The breadth-first search of checkGraphConnectivity accepts exactly the graphs in which
\* every set of ranks that holds the rank and that no wire leaves is the whole group.
THEOREM SearchFindsAll ==
  ASSUME NEW wires \in Matrix, NEW rank \in Rank
  PROVE  checkGraphConnectivity(wires, rank) <=> Reaches(wires, rank)
<1>1. PICK seen \in [0 .. N -> SUBSET Rank] :
           /\ seen[0] = {rank}
           /\ \A k \in 0 .. N - 1 :
                seen[k+1] = seen[k] \cup {p \in Rank : \E r \in seen[k] : r # p /\ wires[r][p] > 0}
           /\ checkGraphConnectivity(wires, rank) <=> seen[N] = Rank
  BY SeenSteps
<1>2. ASSUME seen[N] = Rank, NEW A \in SUBSET Rank, rank \in A,
             \A r \in A : \A p \in Rank \ A : wires[r][p] = 0
      PROVE  A = Rank
  <2> DEFINE S == {k \in Nat : k <= N => seen[k] \subseteq A}
  <2>1. 0 \in S
    BY <1>1, <1>2
  <2>2. ASSUME NEW k \in Nat, k \in S PROVE k + 1 \in S
    <3>1. ASSUME k + 1 <= N PROVE seen[k+1] \subseteq A
      <4>1. k \in 0 .. N - 1 /\ seen[k] \subseteq A
        BY <2>2, <3>1
      <4>. QED
        BY <1>1, <1>2, <4>1
    <3>. QED
      BY <3>1
  <2>3. Nat \subseteq S
    <3> HIDE DEF S
    <3>. QED
      BY <2>1, <2>2, Induction
  <2>4. seen[N] \subseteq A
    BY <2>3
  <2>. QED
    BY <1>2, <2>4
<1>3. ASSUME Reaches(wires, rank) PROVE seen[N] = Rank
  <2>1. ASSUME NEW k \in 0 .. N PROVE rank \in seen[k]
    <3> DEFINE S == {j \in Nat : j <= N => rank \in seen[j]}
    <3>1. 0 \in S
      BY <1>1
    <3>2. ASSUME NEW j \in Nat, j \in S PROVE j + 1 \in S
      <4>1. j + 1 <= N => j \in 0 .. N - 1
        OBVIOUS
      <4>. QED
        BY <1>1, <3>2, <4>1
    <3>3. Nat \subseteq S
      <4> HIDE DEF S
      <4>. QED
        BY <3>1, <3>2, Induction
    <3>. QED
      BY <3>3
  <2>2. ASSUME NEW k \in 0 .. N - 1, seen[k+1] = seen[k] PROVE seen[k] = Rank
    <3>1. k \in 0 .. N /\ seen[k] \subseteq Rank /\ rank \in seen[k]
      BY <2>1
    <3>2. \A r \in seen[k] : \A p \in Rank \ seen[k] : wires[r][p] = 0
      <4>1. \A r \in Rank, p \in Rank : wires[r][p] \in Nat
        BY DEF Matrix
      <4>2. \A r \in seen[k] : \A p \in Rank \ seen[k] : r # p /\ ~(wires[r][p] > 0)
        BY <1>1, <2>2
      <4>. QED
        BY <3>1, <4>1, <4>2
    <3>. QED
      BY <1>3, <3>1, <3>2 DEF Reaches
  <2>3. \A k \in 0 .. N - 1 : seen[k] \subseteq seen[k+1]
    BY <1>1
  <2>4. N \in Nat /\ N - 1 <= N /\ seen[0] # {}
    BY <1>1
  <2>. QED
    BY <2>2, <2>3, <2>4, GrowsToRank
<1>. QED
  BY <1>1, <1>2, <1>3 DEF Reaches

\* In a group of one matrix that every rank accepts, N-1 steps take each value everywhere.
LEMMA ReachesAll ==
  ASSUME Opens(config), OneMatrix, config \in Configs, NEW r \in Rank
  PROVE  Reach[N-1][r] = Rank
<1> DEFINE wires == config[r].wires
<1>1. wires \in Matrix /\ \A q \in Rank : Neighbors(q) = {p \in Rank \ {q} : wires[q][p] > 0}
  BY DEF OneMatrix, Neighbors
<1>2. Reaches(wires, r)
  <2>1. checkGraphConnectivity(wires, r)
    BY DEF Opens, Accepts
  <2> HIDE DEF wires
  <2>. QED
    BY <1>1, <2>1, SearchFindsAll
<1> HIDE DEF wires
<1>3. \A d \in 0 .. N - 2 : \A q \in Rank :
        /\ d \in 0 .. N - 1 /\ d + 1 \in 0 .. N - 1
        /\ Reach[d+1][q] = Reach[d][q] \cup UNION {Reach[d][p] : p \in Neighbors(q)}
  <2>1. \A d \in 0 .. N - 2 : d \in 0 .. N - 1 /\ d + 1 \in 1 .. N - 1 /\ (d + 1) - 1 = d
    OBVIOUS
  <2>. QED
    BY <2>1, ReachSteps
<1> DEFINE S == {d \in Nat : d <= N - 2 =>
                   \A a \in Rank : \A q \in Reach[d][a] : \A s \in Neighbors(q) : s \in Reach[d+1][a]}
<1>4. 0 \in S
  <2>1. ASSUME NEW a \in Rank, NEW q \in Reach[0][a], NEW s \in Neighbors(q) PROVE s \in Reach[1][a]
    <3>1. q = a /\ s \in Rank /\ Reach[0][s] = {s}
      BY ReachSteps, NeighborsAreRanks
    <3>2. 0 \in 0 .. N - 2 /\ 0 + 1 = 1
      OBVIOUS
    <3>3. Reach[1][a] = Reach[0][a] \cup UNION {Reach[0][p] : p \in Neighbors(a)}
      <4>1. Reach[0+1][a] = Reach[0][a] \cup UNION {Reach[0][p] : p \in Neighbors(a)}
        BY <1>3, <3>2, Zenon
      <4>. QED
        BY <3>2, <4>1
    <3>. QED
      BY <3>1, <3>3
  <2>. QED
    BY <2>1
<1>5. ASSUME NEW d \in Nat, d \in S PROVE d + 1 \in S
  <2>1. ASSUME d + 1 <= N - 2, NEW a \in Rank, NEW q \in Reach[d+1][a], NEW s \in Neighbors(q)
        PROVE  s \in Reach[(d+1)+1][a]
    <3>1. d \in 0 .. N - 2 /\ d + 1 \in 0 .. N - 2
      BY <2>1
    <3>2. \A b \in Rank : \A c \in Reach[d][b] : \A e \in Neighbors(c) : e \in Reach[d+1][b]
      BY <1>5, <3>1
    <3>3. Reach[d+1][a] = Reach[d][a] \cup UNION {Reach[d][p] : p \in Neighbors(a)}
      BY <1>3, <3>1
    <3>4. Reach[(d+1)+1][a] = Reach[d+1][a] \cup UNION {Reach[d+1][p] : p \in Neighbors(a)}
      BY <1>3, <3>1
    <3>5. CASE q \in Reach[d][a]
      BY <3>2, <3>4, <3>5
    <3>6. ASSUME NEW p \in Neighbors(a), q \in Reach[d][p] PROVE s \in Reach[(d+1)+1][a]
      <4>1. s \in Reach[d+1][p]
        BY <3>2, <3>6, NeighborsAreRanks
      <4>. QED
        BY <3>4, <4>1
    <3>. QED
      BY <3>3, <3>5, <3>6
  <2>. QED
    BY <2>1
<1>6. Nat \subseteq S
  <2> HIDE DEF S
  <2>. QED
    BY <1>4, <1>5, Induction
<1> DEFINE f == [d \in 0 .. N - 1 |-> Reach[d][r]]
<1>7. f \in [0 .. N - 1 -> SUBSET Rank] /\ f[0] = {r}
  BY ReachSteps
<1>8. ASSUME NEW d \in 0 .. N - 2 PROVE f[d] \subseteq f[d+1]
  <2>1. f[d] = Reach[d][r] /\ f[d+1] = Reach[d+1][r]
    BY <1>3
  <2>. QED
    BY <1>3, <2>1
<1>9. \A d \in 0 .. N - 1 : r \in f[d]
  <2> DEFINE H == {d \in Nat : d <= N - 1 => r \in f[d]}
  <2>1. 0 \in H
    BY <1>7
  <2>2. ASSUME NEW d \in Nat, d \in H PROVE d + 1 \in H
    <3> HIDE DEF f
    <3>1. d + 1 <= N - 1 => d \in 0 .. N - 2
      OBVIOUS
    <3>. QED
      BY <1>8, <2>2, <3>1
  <2>3. Nat \subseteq H
    <3> HIDE DEF H
    <3>. QED
      BY <2>1, <2>2, Induction
  <2> HIDE DEF f
  <2>. QED
    BY <2>3
<1>10. ASSUME NEW d \in 0 .. N - 2, f[d+1] = f[d] PROVE f[d] = Rank
  <2>1. d \in 0 .. N - 1 /\ f[d] = Reach[d][r] /\ f[d+1] = Reach[d+1][r] /\ f[d] \subseteq Rank
    BY <1>3, <1>7
  <2>2. \A q \in f[d] : \A s \in Neighbors(q) : s \in f[d]
    BY <1>6, <1>10, <2>1
  <2>3. \A q \in f[d] : \A s \in Rank \ f[d] : wires[q][s] = 0
    <3>1. \A q \in Rank, s \in Rank : wires[q][s] \in Nat
      BY <1>1 DEF Matrix
    <3>2. \A q \in f[d] : \A s \in Rank \ f[d] : q # s /\ ~(wires[q][s] > 0)
      BY <1>1, <2>1, <2>2
    <3>. QED
      BY <2>1, <3>1, <3>2
  <2>. QED
    BY <1>2, <1>9, <1>10, <2>1, <2>3 DEF Reaches
<1>11. f[N-1] = Rank
  <2> HIDE DEF f
  <2>1. N - 1 \in Nat /\ (N - 1) - 1 = N - 2 /\ f[0] # {}
    BY <1>7
  <2>. QED
    BY <1>7, <1>8, <1>10, <2>1, GrowsToRank
<1>. QED
  BY <1>11

\* A group whose ranks were given one matrix has no gather that misses a value: what the
\* checks of newNativeBackend let through is a graph that N-1 steps cross, and the check
\* after the last step of graphGatherChunk never fails there.
NoneMissing == OneMatrix => \A r \in Rank : pc[r] # "missing"

THEOREM GathersMissNothing == Spec => []NoneMissing
<1> DEFINE Full == OneMatrix => \A r \in Rank : pc[r] \in {"barrier", "done"} => Complete(r)
<1>1. GatherInv /\ SpreadInv => Full
  <2> SUFFICES ASSUME GatherInv, SpreadInv, OneMatrix, NEW r \in Rank, pc[r] \in {"barrier", "done"}
               PROVE  Complete(r)
    OBVIOUS
  <2>1. step[r] = N - 1
    BY DEF SpreadInv, Paced, LastStep
  <2>2. Reach[N-1][r] = Rank
    BY ReachesAll DEF SpreadInv, GatherInv, TypeOK
  <2>. QED
    BY <2>1, <2>2 DEF SpreadInv, Informed, Knows, Complete
<1>2. Init => NoneMissing
  BY DEF Init, NoneMissing
<1>3. NoneMissing /\ Full /\ TypeOK /\ [Next]_vars => NoneMissing'
  <2> SUFFICES ASSUME NoneMissing, Full, TypeOK, [Next]_vars, OneMatrix', NEW r \in Rank
               PROVE  pc'[r] # "missing"
    BY DEF NoneMissing
  <2>1. config' = config
    BY DEF Next, RankStep, PostReceives, PostSends, Merged, NextStep, PassBarrier, Expire,
           Transfer, vars
  <2>2. OneMatrix /\ pc[r] # "missing"
    BY <2>1 DEF OneMatrix, NoneMissing
  <2>3. ASSUME NEW s \in Rank, RankStep(s) \/ Expire(s) PROVE pc'[r] # "missing"
    BY <2>2, <2>3 DEF RankStep, PostReceives, PostSends, Merged, NextStep, PassBarrier, Expire,
           Goto, TypeOK
  <2>4. ASSUME NEW s \in Rank, NEW p \in Rank, Transfer(s, p) PROVE pc'[r] # "missing"
    BY <2>2, <2>4 DEF Transfer
  <2>. QED
    BY <2>2, <2>3, <2>4 DEF Next, vars
<1> HIDE DEF Full
<1>. QED
  BY <1>1, <1>2, <1>3, TypeCorrect, Invariance, SpreadInvariance, PTL DEF Spec
=============================================================================
