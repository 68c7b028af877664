------------------------------- MODULE Topology -------------------------------
(***************************************************************************)
(* The device matrix of a group in internal/jacclnative (config.go and     *)
(* backend.go): the checks that newNativeBackend makes of it before it     *)
(* opens anything, how a message is cut over the wires of a pair, and how  *)
(* much of a gather fits in one staging buffer.                            *)
(*                                                                         *)
(* Every rank reads a matrix of its own.  wires[a][b] is the number of     *)
(* devices it names from a to b, blank names left out.                     *)
(***************************************************************************)
EXTENDS Integers, Functions

CONSTANT N               \* size of the group

ASSUME SizeAssumption == N \in Nat \ {0}

Rank == 0 .. N-1
Matrix == [Rank -> [Rank -> Nat]]

maxMemoryRegions == 100
rdmaStagingBytes == 4096 * 128

-----------------------------------------------------------------------------
(* The checks.                                                             *)

requiredMemoryRegions(wires, rank) ==
  2 * FoldFunctionOnSet(LAMBDA a, b : a + b, 0, wires[rank], Rank \ {rank})

checkMemoryRegionBudget(wires, rank) == requiredMemoryRegions(wires, rank) <= maxMemoryRegions
checkNoSelfConnections(wires)        == \A r \in Rank : wires[r][r] = 0
checkReciprocalConnections(wires)    == \A r, p \in Rank : r < p => wires[r][p] = wires[p][r]

isMesh(wires) == \A r, p \in Rank : wires[r][p] = 0 <=> r = p

isRing(wires) ==
  /\ N >= 2
  /\ \A r \in Rank : wires[r][(r + N - 1) % N] = wires[0][1]
  /\ N > 2 => \A r \in Rank : wires[r][(r + 1) % N] = wires[0][1]

\* Breadth first from the rank: what is seen within k wires.
checkGraphConnectivity(wires, rank) ==
  LET seen[k \in 0 .. N] ==
        IF k = 0 THEN {rank}
        ELSE seen[k-1] \cup {p \in Rank : \E r \in seen[k-1] : r # p /\ wires[r][p] > 0}
  IN  seen[N] = Rank

\* Mutant of Accepts: the ranks that others can be reached through are not looked at.
AcceptsAnyPeer(cfg, rank) ==
  /\ checkMemoryRegionBudget(cfg.wires, rank)
  /\ checkNoSelfConnections(cfg.wires)
  /\ checkReciprocalConnections(cfg.wires)
  /\ \E p \in Rank : cfg.wires[rank][p] > 0
  /\ cfg.preferRing => isRing(cfg.wires)

\* A rank's configuration is its matrix and whether it asks for a ring.
Accepts(cfg, rank) ==
  /\ checkMemoryRegionBudget(cfg.wires, rank)
  /\ checkNoSelfConnections(cfg.wires)
  /\ checkReciprocalConnections(cfg.wires)
  /\ checkGraphConnectivity(cfg.wires, rank)
  /\ cfg.preferRing => isRing(cfg.wires)

\* open: each peer has opened as many wires to this rank as this rank to it.
WiresAgree(config) ==
  \A r, p \in Rank : r # p => config[r].wires[r][p] = config[p].wires[p][r]

Opens(config) == WiresAgree(config) /\ \A r \in Rank : Accepts(config[r], r)

-----------------------------------------------------------------------------
(* Cutting messages.                                                       *)

bytesPerWire(total, nWires) == (total + nWires - 1) \div nWires

\* wireRange: offset and length of the part of one wire.
wireOffset(total, nWires, wire) ==
  IF wire * bytesPerWire(total, nWires) >= total THEN total ELSE wire * bytesPerWire(total, nWires)
wireLength(total, nWires, wire) ==
  LET offset == wire * bytesPerWire(total, nWires)
  IN  IF offset >= total THEN 0
      ELSE IF offset + bytesPerWire(total, nWires) > total THEN total - offset
      ELSE bytesPerWire(total, nWires)

graphGatherChunkBytes(size) ==
  IF size <= 0 \/ size >= rdmaStagingBytes THEN 0 ELSE (rdmaStagingBytes - size) \div size

\* The payload of graphGatherChunk: one byte per rank that says it is known, then the values.
payloadSize(size, bytes) == size + size * bytes

-----------------------------------------------------------------------------
(* What the checks are for, said without an algorithm.                     *)

\* Every set of ranks that has `rank` in it and that no wire leaves is the whole group.
Reaches(wires, rank) ==
  \A S \in SUBSET Rank :
    rank \in S /\ (\A r \in S : \A p \in Rank \ S : wires[r][p] = 0) => S = Rank

\* The parts of the wires lie one behind the other and cover the message.
Partitions(total, nWires) ==
  /\ wireOffset(total, nWires, 0) = 0
  /\ \A w \in 0 .. nWires - 2 :
       wireOffset(total, nWires, w) + wireLength(total, nWires, w) = wireOffset(total, nWires, w + 1)
  /\ wireOffset(total, nWires, nWires - 1) + wireLength(total, nWires, nWires - 1) = total
=============================================================================
