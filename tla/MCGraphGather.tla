---------------------------- MODULE MCGraphGather ----------------------------
(* Configurations of four ranks for GraphGather: a line whose ends are not   *)
(* its first and last rank, a star, a ring, two parts; and ranks that were   *)
(* given matrices of their own, each a line, whose rows make up two parts.   *)
EXTENDS GraphGather, FiniteSets

CrossedLine == {{0, 2}, {1, 2}, {1, 3}}
Star == {{0, 1}, {0, 2}, {0, 3}}
Ring == {{0, 1}, {1, 2}, {2, 3}, {0, 3}}
Apart == {{0, 1}, {2, 3}}

MatrixOf(edges) == [a \in Rank |-> [b \in Rank |-> IF {a, b} \in edges THEN 1 ELSE 0]]
Same(wires, ring) == [r \in Rank |-> [wires |-> wires, preferRing |-> ring]]

\* Ranks 0 and 1 take 2 and 3 to hang on each other's far side.
Own01 == MatrixOf({{0, 1}, {2, 3}, {0, 2}})
Own10 == MatrixOf({{0, 1}, {2, 3}, {1, 2}})
Divided == [r \in Rank |-> [wires |-> CASE r = 0 -> Own10 [] r = 1 -> Own01
                                        [] r = 2 -> MatrixOf({{0, 1}, {2, 3}, {1, 3}})
                                        [] r = 3 -> MatrixOf({{0, 1}, {2, 3}, {1, 2}}),
                            preferRing |-> FALSE]]

FourRanks == {Same(MatrixOf(CrossedLine), FALSE), Same(MatrixOf(Star), FALSE), Same(MatrixOf(Ring), TRUE),
              Same(MatrixOf(Star), TRUE), Same(MatrixOf(Apart), FALSE), Divided}
Trees == {Same(MatrixOf(CrossedLine), FALSE), Same(MatrixOf(Star), FALSE)}

-----------------------------------------------------------------------------
\* The checks of the device matrix against what they stand for, on every graph of
\* four ranks: the search finds what a set that no wire leaves does; a mesh is connected;
\* a ring with wires in it is, whatever its other wires are.
OneWay == {wires \in [Rank -> [Rank -> {0, 1}]] : checkNoSelfConnections(wires)}
ASSUME ConnectivityIsReach ==
  \A wires \in OneWay : \A r \in Rank : checkGraphConnectivity(wires, r) <=> Reaches(wires, r)
ASSUME MeshAndRingConnect ==
  \A wires \in OneWay : isMesh(wires) \/ (isRing(wires) /\ wires[0][1] > 0) =>
    \A r \in Rank : checkGraphConnectivity(wires, r)

\* The regions of a rank, and the largest layouts that fit.
ASSUME Budget ==
  \A k \in 0 .. 30 :
    LET wires == [a \in Rank |-> [b \in Rank |-> IF a = 0 /\ b # 0 THEN k ELSE 0]]
    IN  checkMemoryRegionBudget(wires, 0) <=> 6 * k <= 100

ASSUME WiresPartition == \A total \in 0 .. 40, nWires \in 1 .. 7 : Partitions(total, nWires)
=============================================================================
