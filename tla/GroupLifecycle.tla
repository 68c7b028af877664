---------------------------- MODULE GroupLifecycle ----------------------------
(***************************************************************************)
(* The life of a group in internal/jacclnative/backend.go and group.go,    *)
(* composed with the side channel every phase of it goes through: each     *)
(* rank opens its RDMA connections, exchanges destinations, connects its   *)
(* queue pairs, runs Barriers, and closes behind a teardown barrier.       *)
(*                                                                         *)
(* Every rank runs the same program: NumBarriers Barriers, then Close; an  *)
(* error sends it to Close at once (a failed open does so in the code,     *)
(* newNativeBackend; a failed Barrier in this program).  A Barrier and the *)
(* teardown barrier are two AllGathers of nothing, the exchange is one     *)
(* AllGather of a payload that is not empty: that is all that tells them   *)
(* apart on the wire.                                                      *)
(***************************************************************************)
EXTENDS SideChannel

CONSTANTS
  NumBarriers,     \* Barriers in the program of each rank
  DestBytes,       \* size of a rank's encoded destinations
  OpenMayFail,     \* TRUE: openLocalConnections can fail
  ConnectMayFail,  \* TRUE: readyToReceive/readyToSend can fail on one rank
  Fragile,         \* the ranks whose process can exit in the middle
  Hurried          \* the ranks that call NewGroup and Barrier with a deadline

ASSUME LifecycleAssumption ==
  /\ NumBarriers \in Nat /\ DestBytes \in Nat \ {0}
  /\ Sizes = {0, DestBytes} /\ MayExpire /\ MayClose /\ Retry
  /\ MaxCalls >= 3 + 2 * NumBarriers
  /\ Hurried \subseteq Rank /\ Fragile \subseteq Rank

VARIABLES
  at,              \* where each rank is in its program
  opened,          \* opened[r]: openLocalConnections succeeded on r
  entered,         \* entered[r]: Barriers r has called
  passed,          \* passed[r]: Barriers that returned nil to r
  joint,           \* joint[r]: r's teardown barrier returned nil
  spoilt           \* a rank has left while another may be in a Barrier with it:
                   \* its connect failed or its caller's context ended

groupVars == <<at, opened, entered, passed, joint, spoilt>>
allVars == <<vars, groupVars>>

Phase == {"open", "exchange", "ready", "barrier1", "barrier2",
          "down1", "down2", "freed", "gone"}
Teardown == {"down1", "down2", "freed", "gone"}

GroupTypeOK ==
  /\ TypeOK
  /\ at \in [Rank -> Phase]
  /\ opened \in [Rank -> BOOLEAN]
  /\ entered \in [Rank -> 0 .. NumBarriers]
  /\ passed \in [Rank -> 0 .. NumBarriers]
  /\ joint \in [Rank -> BOOLEAN]
  /\ spoilt \in BOOLEAN

GroupInit ==
  /\ Init
  /\ at = [r \in Rank |-> "open"]
  /\ opened = [r \in Rank |-> FALSE]
  /\ entered = [r \in Rank |-> 0]
  /\ passed = [r \in Rank |-> 0]
  /\ joint = [r \in Rank |-> FALSE]
  /\ spoilt = FALSE

Goto(r, phase) == at' = [at EXCEPT ![r] = phase]

\* AllGather has returned to r, at the given phase, with or without an error.
Returned(r, phase) == at[r] = phase /\ pc[r] = "idle"
Succeeded(r) == last[r].call = calls[r]

\* nativeBackend.close: the first half of the teardown barrier.
BeginTeardown(r) == Goto(r, "down1") /\ CallAllGather(r, 0)

-----------------------------------------------------------------------------
(* Opening.                                                                 *)

OpenLocal(r) ==
  /\ at[r] = "open"
  /\ opened' = [opened EXCEPT ![r] = TRUE]
  /\ Goto(r, "exchange")
  /\ CallAllGather(r, DestBytes)
  /\ UNCHANGED <<entered, passed, joint, spoilt>>

OpenFails(r) ==
  /\ OpenMayFail
  /\ at[r] = "open"
  /\ BeginTeardown(r)
  /\ UNCHANGED <<opened, entered, passed, joint, spoilt>>

\* Mutant of Decodes: an empty payload is taken for destinations.
DecodesAnything(r) == TRUE

\* Every payload decodes as destinations: an empty one is not JSON.
Decodes(r) == \A q \in Rank : last[r].vals[q].size # 0

\* The exchange has returned: the queue pairs are connected, or open fails.
Exchanged(r) ==
  /\ Returned(r, "exchange")
  /\ \/ /\ Succeeded(r) /\ Decodes(r)
        /\ \/ Goto(r, "ready") /\ UNCHANGED <<vars, spoilt>>
           \/ ConnectMayFail /\ BeginTeardown(r) /\ spoilt' = TRUE
     \/ /\ ~(Succeeded(r) /\ Decodes(r))
        /\ BeginTeardown(r)
        /\ UNCHANGED spoilt
  /\ UNCHANGED <<opened, entered, passed, joint>>

-----------------------------------------------------------------------------
(* Barriers.                                                                *)

EnterBarrier(r) ==
  /\ at[r] = "ready"
  /\ entered[r] < NumBarriers
  /\ entered' = [entered EXCEPT ![r] = @ + 1]
  /\ Goto(r, "barrier1")
  /\ CallAllGather(r, 0)
  /\ UNCHANGED <<opened, passed, joint, spoilt>>

\* Mutant of BarrierHalf: each of the two AllGathers counts as a barrier.
BarrierHalfCounts(r) ==
  /\ Returned(r, "barrier1")
  /\ IF Succeeded(r)
     THEN /\ Goto(r, "barrier2") /\ CallAllGather(r, 0)
          /\ passed' = [passed EXCEPT ![r] = @ + 1]
     ELSE BeginTeardown(r) /\ UNCHANGED passed
  /\ UNCHANGED <<opened, entered, joint, spoilt>>

BarrierHalf(r) ==
  /\ Returned(r, "barrier1")
  /\ IF Succeeded(r)
     THEN Goto(r, "barrier2") /\ CallAllGather(r, 0)
     ELSE BeginTeardown(r)
  /\ UNCHANGED <<opened, entered, passed, joint, spoilt>>

BarrierDone(r) ==
  /\ Returned(r, "barrier2")
  /\ IF Succeeded(r)
     THEN /\ passed' = [passed EXCEPT ![r] = @ + 1]
          /\ Goto(r, "ready")
          /\ UNCHANGED vars
     ELSE BeginTeardown(r) /\ UNCHANGED passed
  /\ UNCHANGED <<opened, entered, joint, spoilt>>

-----------------------------------------------------------------------------
(* Closing.                                                                 *)

CloseGroup(r) ==
  /\ at[r] = "ready" /\ entered[r] = NumBarriers
  /\ BeginTeardown(r)
  /\ UNCHANGED <<opened, entered, passed, joint, spoilt>>

\* The memory regions go after the teardown barrier, whatever it returned.
TeardownHalf(r) ==
  /\ Returned(r, "down1")
  /\ IF Succeeded(r)
     THEN Goto(r, "down2") /\ CallAllGather(r, 0)
     ELSE Goto(r, "freed") /\ UNCHANGED vars
  /\ UNCHANGED <<opened, entered, passed, joint, spoilt>>

TeardownDone(r) ==
  /\ Returned(r, "down2")
  /\ Goto(r, "freed")
  /\ joint' = [joint EXCEPT ![r] = Succeeded(r)]
  /\ UNCHANGED <<vars, opened, entered, passed, spoilt>>

\* Mutant of CloseSide: the connections stay open.
LeavesSideOpen(r) ==
  /\ at[r] = "freed"
  /\ Goto(r, "gone")
  /\ UNCHANGED <<vars, opened, entered, passed, joint, spoilt>>

CloseSide(r) ==
  /\ at[r] = "freed"
  /\ Close(r)
  /\ Goto(r, "gone")
  /\ UNCHANGED <<opened, entered, passed, joint, spoilt>>

Crash(r) ==
  /\ r \in Fragile
  /\ at[r] \notin {"freed", "gone"}
  /\ Close(r)
  /\ Goto(r, "gone")
  /\ UNCHANGED <<opened, entered, passed, joint, spoilt>>

-----------------------------------------------------------------------------
\* The teardown barrier has closeBarrierTimeout; a caller may bring a deadline.
ContextEnds(r) ==
  /\ r \in Hurried \/ at[r] \in {"down1", "down2"}
  /\ Expire(r)
  /\ spoilt' = (spoilt \/ at[r] \notin {"down1", "down2"})
  /\ UNCHANGED <<at, opened, entered, passed, joint>>

ChannelStep ==
  \/ \E r \in Rank : at[r] # "gone" /\ ContextEnds(r)
  \/ /\ \/ \E r \in Rank : at[r] # "gone" /\ (ReadFails(r) \/ WriteFails(r))
        \/ \E p \in Peer : at[p] # "gone" /\ (WriteLocal(p) \/ ReadBroadcast(p))
        \/ at[0] # "gone" /\ (ReadPayload \/ Encode \/ WriteBroadcast \/ ReturnGathered)
     /\ UNCHANGED groupVars

GroupStep(r) ==
  \/ OpenLocal(r) \/ OpenFails(r) \/ Exchanged(r)
  \/ EnterBarrier(r) \/ BarrierHalf(r) \/ BarrierDone(r)
  \/ CloseGroup(r) \/ TeardownHalf(r) \/ TeardownDone(r) \/ CloseSide(r)

GroupNext == ChannelStep \/ \E r \in Rank : GroupStep(r) \/ Crash(r)

GroupSpec == GroupInit /\ [][GroupNext]_allVars

(* The goroutines run, TCP delivers, and closeBarrierTimeout ends a teardown *)
(* barrier that nothing else ends.                                           *)
GroupFairness ==
  /\ WF_allVars(ChannelStep)
  /\ \A r \in Rank : WF_allVars(GroupStep(r))

FairGroupSpec == GroupSpec /\ GroupFairness

-----------------------------------------------------------------------------
(* Barrier waits until every rank enters the same barrier (group.go): a      *)
(* rank's b-th Barrier returns nil only when every rank has called its b-th. *)
SameBarrier == \A r, q \in Rank : passed[r] <= entered[q]

(* It is so as long as no rank left after the exchange with an error of its   *)
(* own: neither devices that do not open nor ranks that exit spoil a Barrier. *)
SameBarrierUnspoilt == ~spoilt => SameBarrier

(* Close waits for every rank to reach teardown before it deregisters memory  *)
(* (backend.go): a teardown barrier that returned nil met nothing else, as    *)
(* long as no rank left with an error of its own.                             *)
TeardownIsJoint ==
  ~spoilt => \A r \in Rank : joint[r] => \A q \in Rank : at[q] \in Teardown

(* A rank has a working group only if every rank opened its connections: the  *)
(* empty payload of a failed rank's teardown is not taken for destinations.   *)
ReadyMeansAllOpened ==
  \A r \in Rank : entered[r] > 0 \/ at[r] = "ready" => \A q \in Rank : opened[q]

(* Every rank ends: no failure on one rank leaves another waiting for it.     *)
EveryRankEnds == \A r \in Rank : <>(at[r] = "gone")
=============================================================================
