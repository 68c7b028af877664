----------------------------- MODULE GraphGather -----------------------------
(***************************************************************************)
(* graphGatherChunk in internal/jacclnative/backend.go: AllGather over any *)
(* graph of ranks that Topology.tla lets a group be made of.  In each of   *)
(* N-1 steps a rank sends all that it knows to its neighbours and merges   *)
(* what they know; a barrier over the side channel ends the call.  A call  *)
(* longer than a chunk runs the whole of it once per chunk (graphGather),  *)
(* so that steps of two rounds follow each other on the same slot of the   *)
(* same wire.                                                              *)
(*                                                                         *)
(* The wire between two ranks is used as in Wire.tla, with one slot: a send *)
(* waits for a receive of the peer.  The barrier is the one that            *)
(* SideChannel.tla implements.  A value is <<rank, round>>.                 *)
(***************************************************************************)
EXTENDS Topology

CONSTANTS
  Configs,       \* the configurations to consider: one per rank, see Topology
  Rounds,        \* chunks per call
  Expiring       \* those among them in which a caller's context can end

ASSUME GatherAssumption ==
  /\ N >= 2 /\ Rounds \in Nat \ {0}
  /\ \A config \in Configs : config \in [Rank -> [wires : Matrix, preferRing : BOOLEAN]]
  /\ Expiring \subseteq Configs

VARIABLES
  config,        \* the configuration of each rank
  pc,            \* where each rank is in graphGatherChunk
  round,         \* the chunk each rank is at
  step,          \* the step each rank is at
  known,         \* known[r]: the values r knows, by rank
  payload,       \* payload[r]: what r sends in this step
  todo,          \* todo[r]: neighbours whose completions r still awaits
  posted,        \* pairs <<r, p>>: r has a receive posted for p
  pending,       \* pending[r]: peers to which r's send is not matched
  arrived,       \* arrived[r][p]: what p's send put in r's receive slot
  confirmed,     \* pairs <<r, p>>: r's receive from p has completed
  sentOff,       \* pairs <<r, p>>: r's send to p has completed
  got            \* got[r]: for each round that succeeded, the values

vars == <<config, pc, round, step, known, payload, todo, posted, pending,
          arrived, confirmed, sentOff, got>>
transport == <<posted, pending, arrived, confirmed, sentOff>>

Unknown == <<0, 0>>
Value == [Rank -> Rank \X (0 .. Rounds)]
Neighbors(r) == {p \in Rank \ {r} : config[r].wires[r][p] > 0}
Own(r, k) == [q \in Rank |-> IF q = r THEN <<r, k>> ELSE Unknown]

TypeOK ==
  /\ config \in Configs
  /\ pc \in [Rank -> {"post", "send", "confirm", "barrier", "done", "missing", "failed"}]
  /\ round \in [Rank -> 1 .. Rounds]
  /\ step \in [Rank -> 0 .. N-1]
  /\ known \in [Rank -> Value] /\ payload \in [Rank -> Value]
  /\ todo \in [Rank -> SUBSET Rank]
  /\ posted \subseteq Rank \X Rank
  /\ pending \in [Rank -> SUBSET Rank]
  /\ arrived \in [Rank -> [Rank -> Value]]
  /\ confirmed \subseteq Rank \X Rank /\ sentOff \subseteq Rank \X Rank
  /\ got \in [Rank -> [1 .. Rounds -> Value]]

Blank == [q \in Rank |-> Unknown]

Init ==
  /\ config \in {c \in Configs : Opens(c)}
  /\ \A r \in Rank : ~isMesh(config[r].wires)
  /\ pc = [r \in Rank |-> "post"]
  /\ round = [r \in Rank |-> 1]
  /\ step = [r \in Rank |-> 0]
  /\ known = [r \in Rank |-> Own(r, 1)]
  /\ payload = [r \in Rank |-> Blank]
  /\ todo = [r \in Rank |-> {}]
  /\ posted = {} /\ confirmed = {} /\ sentOff = {}
  /\ pending = [r \in Rank |-> {}]
  /\ arrived = [r \in Rank |-> [p \in Rank |-> Blank]]
  /\ got = [r \in Rank |-> [k \in 1 .. Rounds |-> Blank]]

Goto(r, place) == pc' = [pc EXCEPT ![r] = place]

-----------------------------------------------------------------------------
\* A receive is posted for every neighbour before anything is sent.
PostReceives(r) ==
  /\ pc[r] = "post"
  /\ payload' = [payload EXCEPT ![r] = known[r]]
  /\ posted' = posted \cup ({r} \X Neighbors(r))
  /\ Goto(r, "send")
  /\ UNCHANGED <<config, round, step, known, todo, pending, arrived, confirmed, sentOff, got>>

PostSends(r) ==
  /\ pc[r] = "send"
  /\ pending' = [pending EXCEPT ![r] = Neighbors(r)]
  /\ todo' = [todo EXCEPT ![r] = Neighbors(r)]
  /\ Goto(r, "confirm")
  /\ UNCHANGED <<config, round, step, known, payload, posted, arrived, confirmed, sentOff, got>>

\* The wire between r and p matches r's send with p's receive.
Transfer(r, p) ==
  /\ p \in pending[r] /\ <<p, r>> \in posted
  /\ arrived' = [arrived EXCEPT ![p][r] = payload[r]]
  /\ pending' = [pending EXCEPT ![r] = @ \ {p}]
  /\ posted' = posted \ {<<p, r>>}
  /\ confirmed' = confirmed \cup {<<p, r>>}
  /\ sentOff' = sentOff \cup {<<r, p>>}
  /\ UNCHANGED <<config, pc, round, step, known, payload, todo, got>>

\* Mutant of Merge: the neighbour's payload replaces what r knows.
Replace(mine, theirs) == theirs

\* mergeGraphGatherPayload: what r knows stays.
Merge(mine, theirs) ==
  [q \in Rank |-> IF mine[q] # Unknown THEN mine[q] ELSE theirs[q]]

\* Mutant of Ready: only the completion of the receive is awaited.
ReadyOnReceive(r, p) == <<r, p>> \in confirmed
Ready(r, p) == <<r, p>> \in confirmed /\ <<r, p>> \in sentOff

\* The neighbours are confirmed in the order of their ranks.
Merged(r) ==
  /\ pc[r] = "confirm"
  /\ \E p \in todo[r] :
       /\ \A q \in todo[r] : p <= q
       /\ Ready(r, p)
       /\ known' = [known EXCEPT ![r] = Merge(@, arrived[r][p])]
       /\ todo' = [todo EXCEPT ![r] = @ \ {p}]
       /\ confirmed' = confirmed \ {<<r, p>>}
       /\ sentOff' = sentOff \ {<<r, p>>}
  /\ UNCHANGED <<config, pc, round, step, payload, posted, pending, arrived, got>>

LastStep == N - 1

NextStep(r) ==
  /\ pc[r] = "confirm" /\ todo[r] = {}
  /\ step' = [step EXCEPT ![r] = @ + 1]
  /\ Goto(r, IF step[r] + 1 = LastStep THEN "barrier" ELSE "post")
  /\ UNCHANGED <<config, round, known, payload, todo, transport, got>>

\* The barrier: a rank leaves when every rank has come to it.
Came(q, k) == round[q] > k \/ (round[q] = k /\ pc[q] \in {"barrier", "done", "missing"})

\* Mutant of Complete: the check after the barrier is missing.
Unchecked(r) == TRUE
Complete(r) == \A q \in Rank : known[r][q] # Unknown

\* After the barrier the values are checked, and the next chunk begins.
PassBarrier(r) ==
  /\ pc[r] = "barrier"
  /\ \A q \in Rank : Came(q, round[r])
  /\ IF Complete(r)
     THEN /\ got' = [got EXCEPT ![r][round[r]] = known[r]]
          /\ IF round[r] < Rounds
             THEN /\ round' = [round EXCEPT ![r] = @ + 1]
                  /\ known' = [known EXCEPT ![r] = Own(r, round[r] + 1)]
                  /\ step' = [step EXCEPT ![r] = 0]
                  /\ Goto(r, "post")
             ELSE /\ Goto(r, "done")
                  /\ UNCHANGED <<round, known, step>>
     ELSE /\ Goto(r, "missing")
          /\ UNCHANGED <<got, round, known, step>>
  /\ UNCHANGED <<config, payload, todo, transport>>

\* The context ends while r waits; what it has posted stays posted.
Expire(r) ==
  /\ config \in Expiring
  /\ pc[r] \in {"confirm", "barrier"}
  /\ Goto(r, "failed")
  /\ UNCHANGED <<config, round, step, known, payload, todo, transport, got>>

RankStep(r) == PostReceives(r) \/ PostSends(r) \/ Merged(r) \/ NextStep(r) \/ PassBarrier(r)

Next ==
  \/ \E r \in Rank : RankStep(r) \/ Expire(r)
  \/ \E r, p \in Rank : Transfer(r, p)

Spec == Init /\ [][Next]_vars

FairSpec ==
  /\ Spec
  /\ \A r \in Rank : WF_vars(RankStep(r))
  /\ \A r, p \in Rank : WF_vars(Transfer(r, p))

-----------------------------------------------------------------------------
(* Distance in the graph, for the properties only. *)
Reach[d \in 0 .. N-1] ==
  IF d = 0 THEN [r \in Rank |-> {r}]
  ELSE [r \in Rank |-> Reach[d-1][r] \cup UNION {Reach[d-1][p] : p \in Neighbors(r)}]

OneMatrix == \A r, p \in Rank : config[r].wires = config[p].wires

(* After s steps a rank knows at least every rank within s edges, each with  *)
(* its value of this very round: no rank runs so far ahead or behind that a  *)
(* slot holds another step's or another round's payload.                     *)
KnowledgeSpreads ==
  \A r, q \in Rank :
    /\ q \in Reach[step[r]][r] => known[r][q] # Unknown
    /\ known[r][q] # Unknown => known[r][q] = <<q, round[r]>>

(* A gather that succeeds returns every rank's value of its round.           *)
GatherComplete ==
  \A r \in Rank, k \in 1 .. Rounds :
    got[r][k] # Blank => got[r][k] = [q \in Rank |-> <<q, k>>]

(* Nobody sends into a slot that its receiver has not emptied, or overwrites *)
(* a send that has not left.                                                 *)
SlotFree ==
  \A r \in Rank : \A p \in Neighbors(r) :
    /\ ~(<<r, p>> \in posted /\ <<r, p>> \in confirmed)
    /\ ~(p \in pending[r] /\ <<r, p>> \in sentOff)
    /\ p \in pending[r] /\ pc[r] # "confirm" => pc[r] = "failed"

(* In a group whose ranks were given one matrix, which each of them checked,  *)
(* every rank of every gather succeeds, unless a context expires: what the    *)
(* checks of newNativeBackend let through is a graph that N-1 steps cross.    *)
EveryRankGathers ==
  OneMatrix /\ [](\A r \in Rank : pc[r] # "failed") => <>(\A r \in Rank : pc[r] = "done")
=============================================================================
