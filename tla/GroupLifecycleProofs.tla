------------------------- MODULE GroupLifecycleProofs -------------------------
(***************************************************************************)
(* Theorems about SideChannel, for every group size, every bound and every *)
(* set of payload sizes, and about GroupLifecycle, for every group size,    *)
(* number of Barriers, size of destinations and frame, and every choice of  *)
(* ranks that may fail.                                                    *)
(*                                                                         *)
(* A caller of GroupLifecycle goes on after a failed call, into its         *)
(* teardown barrier, so StreamsInStep of SideChannelInv is not an invariant *)
(* there.  InStep takes its place: as long as nothing is spoilt, a rank that *)
(* goes on after an error can no longer complete a call.                    *)
(***************************************************************************)
EXTENDS GroupLifecycle, SideChannelInv, SequenceTheorems, TLAPS

-----------------------------------------------------------------------------
(* The side channel of callers that make no call after a failed one.        *)

LEMMA RankFacts == 0 \in Rank /\ Peer \subseteq Rank /\ 0 \notin Peer
BY NAssumption DEF Rank, Peer

LEMMA NoFrameType == NoFrame \in Frame
BY DEF NoFrame, Frame

LEMMA InitTypeOK == Init => TypeOK
BY NAssumption, NoFrameType DEF Init, TypeOK, Location, Rank, Peer, Frame

LEMMA ReturnType ==
  ASSUME TypeOK, NEW r \in Rank, NEW vals \in [Rank -> Frame], Return(r, vals)
  PROVE  /\ pc' \in [Rank -> Location]
         /\ last' \in [Rank -> [call : Nat, vals : [Rank -> Frame]]]
BY DEF TypeOK, Return, Location

LEMMA FailType ==
  ASSUME TypeOK, NEW r \in Rank, Fail(r)
  PROVE  /\ pc' \in [Rank -> Location]
         /\ failed' \in [Rank -> BOOLEAN]
         /\ UNCHANGED <<calls, own, peer, values, closed, last>>
BY DEF TypeOK, Fail, Location, gathering

LEMMA CallType ==
  ASSUME TypeOK, NEW r \in Rank, NEW n \in Sizes, CallAllGather(r, n)
  PROVE  TypeOK'
<1> DEFINE payload == [call |-> calls[r] + 1, size |-> n]
<1>1. payload \in Frame
  BY BoundAssumption DEF TypeOK, Frame
<1>2. own' \in [Rank -> Frame] /\ calls' \in [Rank -> Nat]
  BY <1>1 DEF CallAllGather, TypeOK
<1>3. pc' \in [Rank -> Location] /\ failed' \in [Rank -> BOOLEAN]
  BY DEF CallAllGather, TypeOK, Location
<1>4. peer' \in 1 .. N
  BY NAssumption DEF CallAllGather, TypeOK, gathering
<1>5. values' \in [Rank -> Frame]
  BY <1>1, NoFrameType, RankFacts DEF CallAllGather, TypeOK, gathering
<1> QED
  BY <1>2, <1>3, <1>4, <1>5 DEF CallAllGather, TypeOK, streams

LEMMA ReadingType ==
  ASSUME NEW r \in Rank, NEW s \in Reading(r)
  PROVE  s \in Peer \X {"up", "down"} /\ pc[r] \in {"gather", "read"}
BY DEF Reading

LEMMA ExpireType ==
  ASSUME TypeOK, NEW r \in Rank, Expire(r)
  PROVE  TypeOK'
<1>1. /\ pc' \in [Rank -> Location] /\ failed' \in [Rank -> BOOLEAN]
      /\ UNCHANGED <<calls, own, peer, values, closed, last>>
  BY FailType DEF Expire
<1>2. CASE UNCHANGED streams
  BY <1>1, <1>2 DEF TypeOK, streams
<1>3. CASE /\ up' = [up EXCEPT ![r] = Append(@, own[r])]
           /\ UNCHANGED <<down, torn>>
  <2>1. r \in Peer => Append(up[r], own[r]) \in Seq(Frame)
    BY DEF TypeOK
  <2>2. up' \in [Peer -> Seq(Frame)]
    BY <1>3, <2>1 DEF TypeOK
  <2> QED
    BY <1>1, <1>3, <2>2 DEF TypeOK
<1>4. CASE /\ down' = [down EXCEPT ![peer] = Append(@, values)]
           /\ UNCHANGED <<up, torn>>
  <2>1. peer \in Peer => Append(down[peer], values) \in Seq([Rank -> Frame])
    BY DEF TypeOK
  <2>2. down' \in [Peer -> Seq([Rank -> Frame])]
    BY <1>4, <2>1 DEF TypeOK
  <2> QED
    BY <1>1, <1>4, <2>2 DEF TypeOK
<1>5. ASSUME NEW s \in Reading(r) \ torn, ~StreamEmpty(s),
             \/ torn' = torn \cup {s} /\ UNCHANGED <<up, down>>
             \/ /\ s[2] = "up"
                /\ up' = [up EXCEPT ![s[1]] = Tail(@)]
                /\ UNCHANGED <<down, torn>>
             \/ /\ s[2] = "down"
                /\ down' = [down EXCEPT ![s[1]] = Tail(@)]
                /\ UNCHANGED <<up, torn>>
      PROVE  TypeOK'
  <2>1. s \in Peer \X {"up", "down"}
    BY ReadingType
  <2>2. torn' \in SUBSET (Peer \X {"up", "down"})
    BY <2>1, <1>5 DEF TypeOK
  <2>3. up' \in [Peer -> Seq(Frame)]
    <3>1. CASE s[2] = "up"
      <4>1. up[s[1]] \in Seq(Frame) /\ up[s[1]] # << >>
        BY <2>1, <3>1, <1>5 DEF TypeOK, StreamEmpty
      <4>2. Tail(up[s[1]]) \in Seq(Frame)
        BY <4>1
      <4> QED
        BY <4>2, <1>5 DEF TypeOK
    <3>2. CASE s[2] # "up"
      BY <3>2, <1>5 DEF TypeOK
    <3> QED
      BY <3>1, <3>2
  <2>4. down' \in [Peer -> Seq([Rank -> Frame])]
    <3>1. CASE s[2] = "down"
      <4>1. down[s[1]] \in Seq([Rank -> Frame]) /\ down[s[1]] # << >>
        BY <2>1, <3>1, <1>5 DEF TypeOK, StreamEmpty
      <4>2. Tail(down[s[1]]) \in Seq([Rank -> Frame])
        BY <4>1
      <4> QED
        BY <4>2, <3>1, <1>5 DEF TypeOK
    <3>2. CASE s[2] # "down"
      BY <3>2, <1>5 DEF TypeOK
    <3> QED
      BY <3>1, <3>2
  <2> QED
    BY <1>1, <2>2, <2>3, <2>4 DEF TypeOK
<1> QED
  BY <1>2, <1>3, <1>4, <1>5 DEF Expire

LEMMA StepTypeOK == TypeOK /\ [Next]_vars => TypeOK'
<1> SUFFICES ASSUME TypeOK, [Next]_vars PROVE TypeOK'
  OBVIOUS
<1> USE RankFacts
<1>1. ASSUME NEW r \in Rank, NEW n \in Sizes, CallAllGather(r, n) PROVE TypeOK'
  BY <1>1, CallType
<1>2. ASSUME NEW r \in Rank, ReadFails(r) \/ WriteFails(r) \/ UsesClosed(r)
      PROVE  TypeOK'
  <2>1. Fail(r) /\ UNCHANGED streams
    BY <1>2 DEF ReadFails, WriteFails, UsesClosed
  <2> QED
    BY <2>1, FailType DEF TypeOK, streams
<1>3. ASSUME NEW r \in Rank, Expire(r) PROVE TypeOK'
  BY <1>3, ExpireType
<1>4. ASSUME NEW r \in Rank, Close(r) PROVE TypeOK'
  <2>1. closed' \in [Rank -> BOOLEAN]
    BY <1>4 DEF Close, TypeOK
  <2>2. << >> \in Seq(Frame) /\ << >> \in Seq([Rank -> Frame])
    OBVIOUS
  <2>3. CASE r = 0
    <3>1. PICK reset : down' = [p \in Peer |-> IF p \in reset THEN << >> ELSE down[p]]
      BY <1>4, <2>3 DEF Close
    <3>2. down' \in [Peer -> Seq([Rank -> Frame])]
      BY <3>1, <2>2 DEF TypeOK
    <3>3. up' \in [Peer -> Seq(Frame)]
      BY <1>4, <2>3, <2>2 DEF Close
    <3> QED
      BY <1>4, <2>1, <3>2, <3>3 DEF Close, TypeOK, gathering
  <2>4. CASE r # 0
    <3>1. down' \in [Peer -> Seq([Rank -> Frame])]
      BY <1>4, <2>4, <2>2 DEF Close, TypeOK
    <3>2. up' \in [Peer -> Seq(Frame)]
      BY <1>4, <2>4, <2>2 DEF Close, TypeOK
    <3> QED
      BY <1>4, <2>1, <3>1, <3>2 DEF Close, TypeOK, gathering
  <2> QED
    BY <2>3, <2>4
<1>5. ASSUME NEW p \in Peer, WriteLocal(p) PROVE TypeOK'
  <2>1. up' \in [Peer -> Seq(Frame)]
    BY <1>5 DEF WriteLocal, TypeOK
  <2>2. pc' \in [Rank -> Location]
    BY <1>5 DEF WriteLocal, TypeOK, Location
  <2> QED
    BY <1>5, <2>1, <2>2 DEF WriteLocal, TypeOK, gathering
<1>6. ASSUME NEW p \in Peer, ReadBroadcast(p) PROVE TypeOK'
  <2>1. Head(down[p]) \in [Rank -> Frame]
    BY <1>6 DEF ReadBroadcast, TypeOK
  <2>2. down' \in [Peer -> Seq([Rank -> Frame])]
    BY <1>6 DEF ReadBroadcast, TypeOK
  <2>3. /\ pc' \in [Rank -> Location]
        /\ last' \in [Rank -> [call : Nat, vals : [Rank -> Frame]]]
    BY <1>6, <2>1, ReturnType DEF ReadBroadcast
  <2> QED
    BY <1>6, <2>2, <2>3 DEF ReadBroadcast, Return, TypeOK, gathering
<1>7. CASE ReadPayload
  <2>1. peer \in Peer
    BY <1>7, NAssumption DEF ReadPayload, TypeOK, Peer
  <2>2. Head(up[peer]) \in Frame /\ up' \in [Peer -> Seq(Frame)]
    BY <1>7, <2>1 DEF ReadPayload, TypeOK
  <2>3. values' \in [Rank -> Frame] /\ peer' \in 1 .. N
    BY <1>7, <2>2, NAssumption DEF ReadPayload, TypeOK
  <2> QED
    BY <1>7, <2>2, <2>3 DEF ReadPayload, TypeOK
<1>8. CASE Encode
  <2>1. CASE Fail(0)
    BY <1>8, <2>1, FailType DEF Encode, TypeOK, streams
  <2>2. CASE ~Fail(0)
    <3>1. /\ pc' = [pc EXCEPT ![0] = "cast"] /\ peer' = 1
          /\ UNCHANGED <<calls, own, values, failed, closed, last>>
      BY <1>8, <2>2 DEF Encode
    <3>2. pc' \in [Rank -> Location] /\ peer' \in 1 .. N
      BY <3>1, NAssumption DEF TypeOK, Location
    <3> QED
      BY <1>8, <3>1, <3>2 DEF Encode, TypeOK, streams
  <2> QED
    BY <2>1, <2>2
<1>9. CASE WriteBroadcast
  <2>1. down' \in [Peer -> Seq([Rank -> Frame])]
    <3>1. peer \in Peer => Append(down[peer], values) \in Seq([Rank -> Frame])
      BY DEF TypeOK
    <3> QED
      BY <1>9, <3>1 DEF WriteBroadcast, TypeOK
  <2>2. peer' \in 1 .. N
    BY <1>9, NAssumption DEF WriteBroadcast, TypeOK
  <2> QED
    BY <1>9, <2>1, <2>2 DEF WriteBroadcast, TypeOK
<1>10. CASE ReturnGathered
  BY <1>10, ReturnType DEF ReturnGathered, Return, TypeOK, gathering, streams
<1>11. CASE UNCHANGED vars
  BY <1>11 DEF vars, TypeOK
<1> QED
  BY <1>1, <1>2, <1>3, <1>4, <1>5, <1>6, <1>7, <1>8, <1>9, <1>10, <1>11 DEF Next

(* Every variable stays in its type: the loop of rank 0 never leaves the    *)
(* peers, and each stream holds whole frames of its direction only.         *)
THEOREM TypeCorrect == Spec => []TypeOK
BY InitTypeOK, StepTypeOK, PTL DEF Spec

-----------------------------------------------------------------------------
(* Streams of at most one frame.                                            *)

LEMMA TakeOnly ==
  ASSUME NEW S, NEW s \in Seq(S), Len(s) <= 1, s # << >>
  PROVE  Head(s) \in S /\ Tail(s) = << >> /\ Len(Tail(s)) = 0
<1>1. Head(s) \in S /\ Tail(s) \in Seq(S) /\ Len(Tail(s)) = Len(s) - 1
  BY HeadTailProperties
<1>2. Len(s) # 0
  BY EmptySeq
<1>3. Len(Tail(s)) = 0
  BY <1>1, <1>2, LenProperties
<1> QED
  BY <1>1, <1>3, EmptySeq

LEMMA PutFirst ==
  ASSUME NEW S, NEW x \in S
  PROVE  /\ Append(<< >>, x) # << >>
         /\ Len(Append(<< >>, x)) = 1
         /\ Head(Append(<< >>, x)) = x
OBVIOUS

LEMMA InitStreams == Init => StreamsInStep
BY RankFacts, NAssumption
   DEF Init, StreamsInStep, CallInv, UpInv, DownInv, LoopInv, ResultsMatch,
       NobodyLeavesEarly, NoFrame, Taken, Owed, Waiting

\* A call that ends with an error, leaving every stream empty or as it was.
LEMMA FailStreams ==
  ASSUME TypeOK, StreamsInStep, NEW r \in Rank, pc[r] # "idle", Fail(r),
         \A p \in Peer : /\ up'[p] = up[p] \/ up'[p] = << >>
                         /\ down'[p] = down[p] \/ down'[p] = << >>
  PROVE  StreamsInStep'
<1> USE RankFacts DEF TypeOK, StreamsInStep
<1>1. /\ pc' = [pc EXCEPT ![r] = "idle"]
      /\ failed' = [failed EXCEPT ![r] = TRUE]
      /\ UNCHANGED <<calls, own, peer, values, last>>
  BY DEF Fail, gathering
<1>2. CallInv'
  BY <1>1 DEF CallInv
<1>3. ASSUME NEW p \in Peer PROVE UpInv(p)'
  BY <1>1, <1>3 DEF UpInv, Taken, Waiting
<1>4. ASSUME NEW p \in Peer PROVE DownInv(p)'
  BY <1>1, <1>4 DEF DownInv, Taken, Waiting
<1>5. LoopInv'
  BY <1>1 DEF LoopInv, Owed, Waiting
<1>6. ResultsMatch' /\ NobodyLeavesEarly'
  BY <1>1 DEF ResultsMatch, NobodyLeavesEarly
<1> QED
  BY <1>2, <1>3, <1>4, <1>5, <1>6

LEMMA CallStreams ==
  ASSUME TypeOK, StreamsInStep, ~Retry,
         NEW r \in Rank, NEW n \in Sizes, CallAllGather(r, n)
  PROVE  StreamsInStep'
<1> USE RankFacts, NAssumption DEF TypeOK, StreamsInStep
<1>1. /\ pc[r] = "idle" /\ ~failed[r]
      /\ calls' = [calls EXCEPT ![r] = @ + 1]
      /\ own' = [own EXCEPT ![r] = [call |-> calls[r] + 1, size |-> n]]
      /\ UNCHANGED <<up, down, torn, closed, last>>
  BY DEF CallAllGather, streams
<1>2. CASE n > MaxFrame
  <2>1. failed' = [failed EXCEPT ![r] = TRUE] /\ UNCHANGED <<pc, peer, values>>
    BY <1>2 DEF CallAllGather, gathering
  <2>2. CallInv'
    BY <1>1, <2>1 DEF CallInv
  <2>3. ASSUME NEW p \in Peer PROVE UpInv(p)'
    BY <1>1, <2>1, <2>3 DEF UpInv, Taken, Waiting, CallInv
  <2>4. ASSUME NEW p \in Peer PROVE DownInv(p)'
    BY <1>1, <2>1, <2>4 DEF DownInv, Taken, Waiting, CallInv
  <2>5. LoopInv'
    BY <1>1, <2>1 DEF LoopInv, Owed, Waiting, CallInv
  <2> QED
    BY <1>1, <2>2, <2>3, <2>4, <2>5 DEF ResultsMatch, NobodyLeavesEarly
<1>3. CASE ~(n > MaxFrame) /\ r = 0
  <2>1. /\ pc' = [pc EXCEPT ![0] = "gather"] /\ peer' = 1 /\ UNCHANGED failed
        /\ values' = [[q \in Rank |-> NoFrame] EXCEPT ![0] = [call |-> calls[0] + 1, size |-> n]]
    BY <1>3 DEF CallAllGather
  <2>2. CallInv'
    BY <1>1, <1>3, <2>1 DEF CallInv
  <2>3. ASSUME NEW p \in Peer PROVE UpInv(p)' /\ DownInv(p)'
    <3>1. Taken(p)' = Taken(p)
      BY <1>1, <1>3, <2>1, <2>3 DEF Taken, Peer
    <3>2. pc'[p] = pc[p] /\ calls'[p] = calls[p]
      BY <1>1, <1>3, <2>1, <2>3
    <3>3. UpInv(p)'
      BY <1>1, <1>3, <2>1, <2>3, <3>1, <3>2 DEF UpInv, Waiting
    <3>4. DownInv(p)'
      <4>1. ASSUME NEW q \in Rank PROVE calls[q] <= calls'[q]
        BY <1>1
      <4>2. down'[p] = down[p] /\ Waiting(p)' = Waiting(p) /\ up'[p] = up[p]
        BY <1>1, <2>1, <3>2 DEF Waiting
      <4>3. failed'[0] = failed[0] /\ calls'[p] = calls[p]
        BY <2>1, <3>2
      <4>4. ASSUME down[p] # << >>, NEW q \in Rank
            PROVE  Head(down[p])[q].call = calls[p] /\ calls[p] <= calls'[q]
        <5>1. Head(down[p])[q].call = calls[p] /\ calls[p] <= calls[q]
          BY <2>3, <4>4 DEF DownInv
        <5>2. calls[p] \in Nat /\ calls[q] \in Nat /\ calls'[q] \in Nat
          BY <1>1, <2>3
        <5> QED
          BY ONLY <5>1, <5>2, <4>1, <4>4
      <4>5. DownInv(p)
        BY <2>3
      <4> QED
        BY ONLY <3>1, <4>2, <4>3, <4>4, <4>5 DEF DownInv
    <3> QED
      BY <3>3, <3>4
  <2>4. LoopInv'
    BY <1>1, <1>3, <2>1 DEF LoopInv, Owed, Peer
  <2> QED
    BY <1>1, <2>2, <2>3, <2>4 DEF ResultsMatch, NobodyLeavesEarly
<1>4. CASE ~(n > MaxFrame) /\ r # 0
  <2>1. /\ pc' = [pc EXCEPT ![r] = "write"]
        /\ UNCHANGED <<failed, peer, values>>
    BY <1>4 DEF CallAllGather, gathering
  <2>2. CallInv'
    <3>1. r \in Peer
      BY <1>4 DEF Peer, Rank
    <3> QED
      BY <1>1, <1>4, <2>1, <3>1 DEF CallInv
  <2>3. ASSUME NEW p \in Peer PROVE UpInv(p)'
    BY <1>1, <1>4, <2>1, <2>3 DEF UpInv, Taken, Waiting
  <2>4. ASSUME NEW p \in Peer PROVE DownInv(p)'
    BY <1>1, <1>4, <2>1, <2>4 DEF DownInv, Taken, Waiting
  <2>5. LoopInv'
    BY <1>1, <1>4, <2>1 DEF LoopInv, Owed, Waiting
  <2> QED
    BY <1>1, <2>2, <2>3, <2>4, <2>5 DEF ResultsMatch, NobodyLeavesEarly
<1> QED
  BY <1>2, <1>3, <1>4

LEMMA WriteLocalStreams ==
  ASSUME TypeOK, StreamsInStep, NEW p \in Peer,
         pc[p] = "write",
         up' = [up EXCEPT ![p] = Append(@, own[p])],
         \/ pc' = [pc EXCEPT ![p] = "read"] /\ UNCHANGED failed
         \/ /\ pc' = [pc EXCEPT ![p] = "idle"]
            /\ failed' = [failed EXCEPT ![p] = TRUE],
         UNCHANGED <<calls, own, gathering, down, last>>
  PROVE  StreamsInStep'
<1> USE RankFacts DEF TypeOK, StreamsInStep, gathering
<1>1. up[p] = << >> /\ own[p] \in Frame /\ own[p].call = calls[p]
  BY DEF UpInv, Waiting, CallInv
<1>2. up'[p] # << >> /\ Len(up'[p]) = 1 /\ Head(up'[p]) = own[p]
  BY <1>1, PutFirst
<1>3. CallInv'
  BY DEF CallInv
<1>4. ASSUME NEW q \in Peer PROVE UpInv(q)'
  <2>1. CASE q = p
    BY <1>1, <1>2, <2>1 DEF UpInv, Taken, Waiting
  <2>2. CASE q # p
    BY <2>2, <1>4 DEF UpInv, Taken, Waiting
  <2> QED
    BY <2>1, <2>2
<1>5. ASSUME NEW q \in Peer PROVE DownInv(q)'
  <2>1. CASE q = p
    BY <2>1 DEF DownInv, Waiting, CallInv
  <2>2. CASE q # p
    <3>1. Taken(q)' = Taken(q)
      BY <2>2, <1>5 DEF Taken
    <3> QED
      BY <2>2, <1>5, <3>1 DEF DownInv, Waiting
  <2> QED
    BY <2>1, <2>2
<1>6. LoopInv'
  <2>1. ~Owed(p) \/ pc[0] = "idle"
    BY DEF LoopInv, Waiting, CallInv
  <2> QED
    BY <2>1 DEF LoopInv, Owed, Waiting
<1> QED
  BY <1>3, <1>4, <1>5, <1>6 DEF ResultsMatch, NobodyLeavesEarly

LEMMA ReadBroadcastStreams ==
  ASSUME TypeOK, StreamsInStep, NEW p \in Peer, ReadBroadcast(p)
  PROVE  StreamsInStep'
<1> USE RankFacts DEF TypeOK, StreamsInStep, gathering
<1> DEFINE b == Head(down[p])
<1>1. /\ pc[p] = "read" /\ down[p] # << >> /\ down[p] \in Seq([Rank -> Frame])
      /\ pc' = [pc EXCEPT ![p] = "idle"]
      /\ last' = [last EXCEPT ![p] = [call |-> calls[p], vals |-> b]]
      /\ down' = [down EXCEPT ![p] = Tail(@)]
      /\ UNCHANGED <<calls, own, failed, peer, values, up>>
  BY DEF ReadBroadcast, Return
<1>2. down'[p] = << >> /\ Len(down'[p]) = 0 /\ b \in [Rank -> Frame]
  BY <1>1, TakeOnly DEF DownInv
<1>3. \A q \in Rank : b[q].call = calls[p] /\ calls[p] <= calls[q]
  BY <1>1 DEF DownInv
<1>4. CallInv'
  BY <1>1 DEF CallInv
<1>5. up[p] = << >>
  BY <1>1 DEF DownInv
<1>6. ASSUME NEW q \in Peer PROVE UpInv(q)'
  <2>1. CASE q = p
    <3>1. failed[0] \/ calls[p] = Taken(p)
      BY <1>1 DEF DownInv
    <3>2. Taken(p)' = Taken(p)
      BY <1>1 DEF Taken
    <3> QED
      BY <1>1, <1>5, <2>1, <3>1, <3>2 DEF UpInv
  <2>2. CASE q # p
    BY <1>1, <2>2, <1>6 DEF UpInv, Taken, Waiting
  <2> QED
    BY <2>1, <2>2
<1>7. ASSUME NEW q \in Peer PROVE DownInv(q)'
  BY <1>1, <1>2, <1>7 DEF DownInv, Taken, Waiting
<1>8. LoopInv'
  BY <1>1, <1>2 DEF LoopInv, Owed, Waiting
<1>9. ResultsMatch' /\ NobodyLeavesEarly'
  BY <1>1, <1>2, <1>3 DEF ResultsMatch, NobodyLeavesEarly
<1> QED
  BY <1>4, <1>6, <1>7, <1>8, <1>9

LEMMA ReadPayloadStreams ==
  ASSUME TypeOK, StreamsInStep, ReadPayload
  PROVE  StreamsInStep'
<1> USE RankFacts, NAssumption DEF TypeOK, StreamsInStep
<1>1. /\ pc[0] = "gather" /\ peer \in Peer /\ ~failed[0]
      /\ up[peer] # << >> /\ up[peer] \in Seq(Frame)
      /\ values' = [values EXCEPT ![peer] = Head(up[peer])]
      /\ up' = [up EXCEPT ![peer] = Tail(@)]
      /\ peer' = peer + 1
      /\ UNCHANGED <<pc, calls, own, down, failed, last>>
  BY DEF ReadPayload, Peer, CallInv
<1>2. up'[peer] = << >> /\ Len(up'[peer]) = 0 /\ Head(up[peer]) \in Frame
  BY <1>1, TakeOnly DEF UpInv
<1>3. calls[peer] = calls[0] /\ Waiting(peer) /\ Head(up[peer]).call = calls[0]
  BY <1>1 DEF UpInv, Taken
<1>4. down[peer] = << >>
  BY <1>1, <1>3 DEF DownInv, Taken
<1>5. CallInv'
  BY <1>1 DEF CallInv
<1>6. ASSUME NEW q \in Peer PROVE UpInv(q)' /\ DownInv(q)'
  <2>1. CASE q = peer
    <3>1. Taken(q)' = calls[q]
      BY <1>1, <1>3, <2>1 DEF Taken
    <3> QED
      BY <1>1, <1>2, <1>3, <1>4, <2>1, <3>1 DEF UpInv, DownInv, Waiting, CallInv
  <2>2. CASE q # peer
    <3>1. Taken(q)' = Taken(q)
      BY <1>1, <2>2 DEF Taken, Peer
    <3> QED
      BY <1>1, <2>2, <3>1 DEF UpInv, DownInv, Waiting
  <2> QED
    BY <2>1, <2>2
<1>7. LoopInv'
  <2>1. values'[0].call = calls[0]
    BY <1>1 DEF LoopInv
  <2>2. ASSUME NEW q \in Peer
        PROVE  /\ q < peer' => values'[q].call = calls[0] /\ calls[0] <= calls[q]
               /\ q < peer' => /\ calls[q] = calls[0] /\ Waiting(q)'
                               /\ up'[q] = << >> /\ down[q] = << >>
    <3>1. CASE q = peer
      BY <1>1, <1>2, <1>3, <1>4, <3>1 DEF Waiting
    <3>2. CASE q # peer
      <4>1. q < peer' => q < peer
        BY <1>1, <3>2 DEF Peer
      <4> QED
        BY <1>1, <3>2, <4>1 DEF LoopInv, Owed, Waiting
    <3> QED
      BY <3>1, <3>2
  <2> QED
    BY <1>1, <2>1, <2>2 DEF LoopInv, Owed
<1> QED
  BY <1>1, <1>5, <1>6, <1>7 DEF ResultsMatch, NobodyLeavesEarly

LEMMA EncodeStreams ==
  ASSUME TypeOK, StreamsInStep, Encode
  PROVE  StreamsInStep'
<1> USE RankFacts, NAssumption DEF TypeOK, StreamsInStep
<1>1. CASE Fail(0)
  BY <1>1, FailStreams DEF Encode, streams
<1>2. CASE ~Fail(0)
  <2>1. /\ pc[0] = "gather" /\ peer = N
        /\ pc' = [pc EXCEPT ![0] = "cast"] /\ peer' = 1
        /\ UNCHANGED <<calls, own, values, failed, up, down, last>>
    BY <1>2 DEF Encode, streams
  <2>2. CallInv'
    BY <2>1 DEF CallInv
  <2>3. ASSUME NEW q \in Peer PROVE UpInv(q)' /\ DownInv(q)'
    <3>1. Taken(q)' = Taken(q)
      BY <2>1 DEF Taken, Peer
    <3> QED
      BY <2>1, <3>1 DEF UpInv, DownInv, Waiting
  <2>4. LoopInv'
    BY <2>1 DEF LoopInv, Owed, Waiting, Peer
  <2> QED
    BY <2>1, <2>2, <2>3, <2>4 DEF ResultsMatch, NobodyLeavesEarly
<1> QED
  BY <1>1, <1>2

LEMMA BroadcastStreams ==
  ASSUME TypeOK, StreamsInStep, pc[0] = "cast", peer < N,
         \/ down' = down
         \/ down' = [down EXCEPT ![peer] = Append(@, values)],
         \/ peer' = peer + 1 /\ UNCHANGED <<pc, failed>>
         \/ /\ pc' = [pc EXCEPT ![0] = "idle"]
            /\ failed' = [failed EXCEPT ![0] = TRUE]
            /\ UNCHANGED peer,
         UNCHANGED <<calls, own, values, up, last>>
  PROVE  StreamsInStep'
<1> USE RankFacts, NAssumption DEF TypeOK, StreamsInStep
<1>1. peer \in Peer /\ ~failed[0]
  BY DEF Peer, CallInv
<1>2. /\ calls[peer] = calls[0] /\ Waiting(peer)
      /\ up[peer] = << >> /\ down[peer] = << >>
  BY <1>1 DEF LoopInv, Owed
<1>3. \A q \in Rank : values[q].call = calls[0] /\ calls[0] <= calls[q]
  BY DEF LoopInv, Rank, Peer
<1>4. \/ down'[peer] = << >> /\ Len(down'[peer]) = 0
      \/ down'[peer] # << >> /\ Len(down'[peer]) = 1 /\ Head(down'[peer]) = values
  BY <1>1, <1>2, PutFirst
<1>5. CallInv'
  BY DEF CallInv
<1>6. ASSUME NEW q \in Peer PROVE UpInv(q)' /\ DownInv(q)'
  <2>1. ~failed'[0] => Taken(q)' = Taken(q)
    BY <1>1 DEF Taken
  <2>2. UpInv(q)'
    BY <2>1, <1>6 DEF UpInv, Waiting
  <2>3. CASE q = peer
    <3>1. Taken(q) = calls[0]
      BY DEF Taken
    <3>2. DownInv(q)'
      <4>1. Waiting(q)'
        BY <1>1, <1>2, <1>6, <2>3 DEF Waiting
      <4>2. ~failed'[0] => Taken(q)' = calls'[q]
        BY <1>2, <2>1, <2>3, <3>1
      <4>3. Len(down'[q]) <= 1
        <5>1. 0 <= 1 /\ 1 <= 1
          OBVIOUS
        <5> QED
          BY ONLY <1>4, <2>3, <5>1, Zenon
      <4>4. up'[q] = << >>
        BY <1>2, <2>3
      <4> QED
        BY <1>2, <1>3, <1>4, <2>3, <4>1, <4>2, <4>3, <4>4 DEF DownInv
    <3> QED
      BY <2>2, <3>2
  <2>4. CASE q # peer
    BY <2>1, <2>2, <2>4, <1>6 DEF DownInv, Waiting
  <2> QED
    BY <2>3, <2>4
<1>7. LoopInv'
  <2>1. CASE pc' = [pc EXCEPT ![0] = "idle"]
    BY <2>1 DEF LoopInv
  <2>2. CASE peer' = peer + 1 /\ UNCHANGED <<pc, failed>>
    <3>1. ASSUME NEW q \in Peer, Owed(q)'
          PROVE  /\ calls[q] = calls[0] /\ Waiting(q)
                 /\ up[q] = << >> /\ down'[q] = << >>
      <4>1. peer + 1 <= q
        <5>1. pc'[0] = "cast" /\ peer' = peer + 1
          BY <2>2
        <5> QED
          BY ONLY <5>1, <3>1 DEF Owed
      <4>2. Owed(q) /\ q # peer
        <5>1. peer \in Int /\ q \in Int
          BY <1>1 DEF Peer
        <5>2. peer <= q /\ q # peer
          BY ONLY <4>1, <5>1
        <5> QED
          BY <5>2 DEF Owed
      <4> QED
        BY <4>2, <1>1, <3>1 DEF LoopInv
    <3>2. values[0].call = calls[0] /\ UNCHANGED <<pc, failed, calls, values, up>>
      BY <2>2, <1>3
    <3>3. \A q \in Peer : values[q].call = calls[0] /\ calls[0] <= calls[q]
      BY <1>3
    <3>4. \A q \in Peer : Waiting(q)' = Waiting(q)
      BY <3>2 DEF Waiting
    <3> QED
      BY ONLY <3>1, <3>2, <3>3, <3>4 DEF LoopInv
  <2> QED
    BY <2>1, <2>2
<1> QED
  BY <1>5, <1>6, <1>7 DEF ResultsMatch, NobodyLeavesEarly

LEMMA ReturnGatheredStreams ==
  ASSUME TypeOK, StreamsInStep, ReturnGathered
  PROVE  StreamsInStep'
<1> USE RankFacts, NAssumption DEF TypeOK, StreamsInStep
<1>1. /\ pc[0] = "cast" /\ pc' = [pc EXCEPT ![0] = "idle"]
      /\ last' = [last EXCEPT ![0] = [call |-> calls[0], vals |-> values]]
      /\ UNCHANGED <<calls, own, failed, peer, values, up, down>>
  BY DEF ReturnGathered, Return, gathering, streams
<1>2. \A q \in Rank : values[q].call = calls[0] /\ calls[0] <= calls[q]
  BY <1>1 DEF LoopInv, Rank, Peer
<1>3. CallInv'
  BY <1>1 DEF CallInv
<1>4. ASSUME NEW q \in Peer PROVE UpInv(q)' /\ DownInv(q)'
  <2>1. Taken(q)' = Taken(q)
    BY <1>1 DEF Taken
  <2> QED
    BY <1>1, <1>4, <2>1 DEF UpInv, DownInv, Waiting
<1>5. LoopInv'
  BY <1>1 DEF LoopInv
<1>6. ResultsMatch' /\ NobodyLeavesEarly'
  BY <1>1, <1>2 DEF ResultsMatch, NobodyLeavesEarly
<1> QED
  BY <1>3, <1>4, <1>5, <1>6

LEMMA ExpireStreams ==
  ASSUME TypeOK, StreamsInStep, NEW r \in Rank, Expire(r)
  PROVE  StreamsInStep'
<1> USE RankFacts DEF TypeOK, StreamsInStep
<1>1. /\ pc[r] # "idle" /\ Fail(r)
      /\ pc' = [pc EXCEPT ![r] = "idle"]
      /\ failed' = [failed EXCEPT ![r] = TRUE]
      /\ UNCHANGED <<calls, own, peer, values, last>>
  BY DEF Expire, AtTransfer, Fail, gathering
<1>2. CASE UNCHANGED streams
  BY <1>1, <1>2, FailStreams DEF streams
<1>3. CASE /\ pc[r] = "write" /\ ~closed[0]
           /\ up' = [up EXCEPT ![r] = Append(@, own[r])]
           /\ UNCHANGED <<down, torn>>
  <2>1. r \in Peer
    BY <1>3 DEF CallInv, Rank, Peer
  <2> QED
    BY <1>1, <1>3, <2>1, WriteLocalStreams DEF gathering
<1>4. CASE /\ r = 0 /\ pc[0] = "cast" /\ peer < N /\ ~closed[peer]
           /\ down' = [down EXCEPT ![peer] = Append(@, values)]
           /\ UNCHANGED <<up, torn>>
  BY <1>1, <1>4, BroadcastStreams
<1>5. ASSUME NEW s \in Reading(r) \ torn, ~StreamEmpty(s),
             \/ torn' = torn \cup {s} /\ UNCHANGED <<up, down>>
             \/ /\ s[2] = "up"
                /\ up' = [up EXCEPT ![s[1]] = Tail(@)]
                /\ UNCHANGED <<down, torn>>
             \/ /\ s[2] = "down"
                /\ down' = [down EXCEPT ![s[1]] = Tail(@)]
                /\ UNCHANGED <<up, torn>>
      PROVE  StreamsInStep'
  <2>1. s \in Peer \X {"up", "down"}
    BY ReadingType
  <2>2. CASE torn' = torn \cup {s} /\ UNCHANGED <<up, down>>
    BY <1>1, <2>2, FailStreams
  <2>3. CASE /\ s[2] = "up"
             /\ up' = [up EXCEPT ![s[1]] = Tail(@)]
             /\ UNCHANGED <<down, torn>>
    <3>1. up[s[1]] \in Seq(Frame) /\ up[s[1]] # << >> /\ Len(up[s[1]]) <= 1
      BY <1>5, <2>1, <2>3 DEF StreamEmpty, UpInv
    <3>2. up'[s[1]] = << >>
      BY <2>1, <2>3, <3>1, TakeOnly
    <3> QED
      BY <1>1, <2>1, <2>3, <3>2, FailStreams
  <2>4. CASE /\ s[2] = "down"
             /\ down' = [down EXCEPT ![s[1]] = Tail(@)]
             /\ UNCHANGED <<up, torn>>
    <3>1. /\ down[s[1]] \in Seq([Rank -> Frame]) /\ down[s[1]] # << >>
          /\ Len(down[s[1]]) <= 1
      BY <1>5, <2>1, <2>4 DEF StreamEmpty, DownInv
    <3>2. down'[s[1]] = << >>
      BY <2>1, <2>4, <3>1, TakeOnly
    <3> QED
      BY <1>1, <2>1, <2>4, <3>2, FailStreams
  <2> QED
    BY <1>5, <2>2, <2>3, <2>4
<1> QED
  BY <1>2, <1>3, <1>4, <1>5 DEF Expire

LEMMA CloseStreams ==
  ASSUME TypeOK, StreamsInStep, NEW r \in Rank, Close(r)
  PROVE  StreamsInStep'
<1> USE RankFacts DEF TypeOK, StreamsInStep
<1>1. UNCHANGED <<pc, calls, own, peer, values, torn, failed, last>>
  BY DEF Close, gathering
<1>2. ASSUME NEW p \in Peer
      PROVE  /\ up'[p] = up[p] \/ up'[p] = << >>
             /\ down'[p] = down[p] \/ down'[p] = << >>
  <2>1. CASE r = 0
    BY <1>2, <2>1 DEF Close
  <2>2. CASE r # 0
    BY <1>2, <2>2 DEF Close
  <2> QED
    BY <2>1, <2>2
<1>3. CallInv'
  BY <1>1 DEF CallInv
<1>4. ASSUME NEW p \in Peer PROVE UpInv(p)' /\ DownInv(p)'
  <2>1. Taken(p)' = Taken(p) /\ Waiting(p)' = Waiting(p)
    BY <1>1 DEF Taken, Waiting
  <2>2. UpInv(p)'
    BY <1>1, <1>2, <1>4, <2>1 DEF UpInv
  <2>3. DownInv(p)'
    BY <1>1, <1>2, <1>4, <2>1 DEF DownInv
  <2> QED
    BY <2>2, <2>3
<1>5. LoopInv'
  BY <1>1, <1>2 DEF LoopInv, Owed, Waiting
<1> QED
  BY <1>1, <1>3, <1>4, <1>5 DEF ResultsMatch, NobodyLeavesEarly

LEMMA StepStreams ==
  ASSUME ~Retry PROVE TypeOK /\ StreamsInStep /\ [Next]_vars => StreamsInStep'
<1> SUFFICES ASSUME TypeOK, StreamsInStep, [Next]_vars PROVE StreamsInStep'
  OBVIOUS
<1> USE RankFacts
<1>1. ASSUME NEW r \in Rank, NEW n \in Sizes, CallAllGather(r, n)
      PROVE  StreamsInStep'
  BY <1>1, CallStreams
<1>2. ASSUME NEW r \in Rank, ReadFails(r) \/ WriteFails(r) \/ UsesClosed(r)
      PROVE  StreamsInStep'
  <2>1. pc[r] # "idle" /\ Fail(r) /\ UNCHANGED streams
    BY <1>2 DEF ReadFails, WriteFails, UsesClosed, AtTransfer
  <2> QED
    BY <2>1, FailStreams DEF streams
<1>3. ASSUME NEW r \in Rank, Expire(r) PROVE StreamsInStep'
  BY <1>3, ExpireStreams
<1>4. ASSUME NEW r \in Rank, Close(r) PROVE StreamsInStep'
  BY <1>4, CloseStreams
<1>5. ASSUME NEW p \in Peer, WriteLocal(p) PROVE StreamsInStep'
  <2>1. CASE closed[0]
    <3>1. /\ pc[p] = "write" /\ pc' = [pc EXCEPT ![p] = "read"] /\ up' = up
          /\ UNCHANGED <<calls, own, peer, values, down, failed, last>>
      BY <1>5, <2>1 DEF WriteLocal, TypeOK, gathering
    <3>2. CallInv'
      BY <3>1 DEF CallInv, StreamsInStep, TypeOK
    <3>3. ASSUME NEW q \in Peer PROVE UpInv(q)' /\ DownInv(q)'
      <4>1. Taken(q)' = Taken(q) /\ (Waiting(q) => Waiting(q)')
        BY <3>1 DEF Taken, Waiting, TypeOK
      <4>2. pc'[q] = "write" => pc[q] = "write"
        BY <3>1 DEF TypeOK
      <4>3. pc'[q] = "idle" => pc[q] = "idle"
        BY <3>1 DEF TypeOK
      <4> QED
        BY <3>1, <3>3, <4>1, <4>2, <4>3 DEF UpInv, DownInv, StreamsInStep
    <3>4. LoopInv'
      BY <3>1 DEF LoopInv, Owed, Waiting, StreamsInStep, TypeOK
    <3> QED
      BY <3>1, <3>2, <3>3, <3>4 DEF StreamsInStep, ResultsMatch, NobodyLeavesEarly
  <2>2. CASE ~closed[0]
    <3>1. /\ pc[p] = "write" /\ pc' = [pc EXCEPT ![p] = "read"]
          /\ up' = [up EXCEPT ![p] = Append(@, own[p])]
          /\ UNCHANGED <<calls, own, gathering, down, failed, last>>
      BY <1>5, <2>2 DEF WriteLocal, TypeOK
    <3> QED
      BY <3>1, WriteLocalStreams
  <2> QED
    BY <2>1, <2>2
<1>6. ASSUME NEW p \in Peer, ReadBroadcast(p) PROVE StreamsInStep'
  BY <1>6, ReadBroadcastStreams
<1>7. CASE ReadPayload
  BY <1>7, ReadPayloadStreams
<1>8. CASE Encode
  BY <1>8, EncodeStreams
<1>9. CASE WriteBroadcast
  <2>1. down' = down \/ down' = [down EXCEPT ![peer] = Append(@, values)]
    BY <1>9 DEF WriteBroadcast, TypeOK
  <2> QED
    BY <1>9, <2>1, BroadcastStreams DEF WriteBroadcast
<1>10. CASE ReturnGathered
  BY <1>10, ReturnGatheredStreams
<1>11. CASE UNCHANGED vars
  BY <1>11 DEF vars, StreamsInStep, CallInv, UpInv, DownInv, LoopInv, Taken,
               Owed, Waiting, ResultsMatch, NobodyLeavesEarly
<1> QED
  BY <1>1, <1>2, <1>3, <1>4, <1>5, <1>6, <1>7, <1>8, <1>9, <1>10, <1>11 DEF Next

(* With callers that stop at their first error, the streams stay in step.   *)
THEOREM StreamsStayInStep == ASSUME ~Retry PROVE Spec => []StreamsInStep
BY InitTypeOK, StepTypeOK, InitStreams, StepStreams, PTL DEF Spec

(* AllGather returns the payloads of one and the same round.                *)
THEOREM RoundsMatch == ASSUME ~Retry PROVE Spec => []ResultsMatch
BY StreamsStayInStep, PTL DEF StreamsInStep

(* AllGather is a barrier: nobody leaves before everybody has entered.      *)
THEOREM BarrierHolds == ASSUME ~Retry PROVE Spec => []NobodyLeavesEarly
BY StreamsStayInStep, PTL DEF StreamsInStep

-----------------------------------------------------------------------------
(* One result for each call.                                                *)

LEMMA InitResult == Init => OneResult
BY RankFacts DEF Init, OneResult, Issued, Result

\* Where what a peer has not read yet can come from.
LEMMA BroadcastsKept ==
  ASSUME TypeOK, StreamsInStep, [Next]_vars, NEW p \in Peer, down'[p] # << >>
  PROVE  \/ down[p] # << >> /\ Head(down'[p]) = Head(down[p])
         \/ pc[0] = "cast" /\ Head(down'[p]) = values
<1> USE RankFacts DEF TypeOK, StreamsInStep, streams
<1>1. down[p] \in Seq([Rank -> Frame]) /\ Len(down[p]) <= 1
  BY DEF DownInv
<1>2. CASE down'[p] = down[p] \/ (down[p] # << >> /\ down'[p] = Tail(down[p]))
  BY <1>1, <1>2, TakeOnly
<1>3. CASE pc[0] = "cast" /\ peer < N /\ down' = [down EXCEPT ![peer] = Append(@, values)]
  <2>1. peer \in Peer
    BY <1>3, NAssumption DEF Peer
  <2>2. down[peer] = << >>
    BY <1>3, <2>1 DEF LoopInv, Owed
  <2>. QED
    BY <1>3, <2>1, <2>2, PutFirst
<1>4. ASSUME NEW r \in Rank, Expire(r)
      PROVE  \/ down'[p] = down[p] \/ (down[p] # << >> /\ down'[p] = Tail(down[p]))
             \/ pc[0] = "cast" /\ peer < N /\ down' = [down EXCEPT ![peer] = Append(@, values)]
  <2>1. ASSUME NEW s \in Reading(r) \ torn, ~StreamEmpty(s), s[2] = "down",
               down' = [down EXCEPT ![s[1]] = Tail(@)]
        PROVE  down'[p] = down[p] \/ (down[p] # << >> /\ down'[p] = Tail(down[p]))
    <3>1. s \in Peer \X {"up", "down"}
      BY ReadingType
    <3>2. CASE s[1] = p
      BY <2>1, <3>1, <3>2 DEF StreamEmpty
    <3>3. CASE s[1] # p
      <4>1. down \in [Peer -> Seq([Rank -> Frame])] /\ p \in Peer
        OBVIOUS
      <4> QED
        BY ONLY <2>1, <3>3, <4>1
    <3> QED
      BY <3>2, <3>3
  <2>2. \/ down' = down
        \/ pc[0] = "cast" /\ peer < N /\ down' = [down EXCEPT ![peer] = Append(@, values)]
        \/ \E s \in Reading(r) \ torn : ~StreamEmpty(s) /\ s[2] = "down"
                                       /\ down' = [down EXCEPT ![s[1]] = Tail(@)]
    BY ONLY <1>4 DEF Expire, streams
  <2> QED
    BY ONLY <2>1, <2>2
<1>5. ASSUME NEW r \in Rank, Close(r) PROVE down'[p] = down[p] \/ down'[p] = << >>
  BY <1>5 DEF Close
<1>6. ASSUME NEW r \in Rank, NEW n \in Sizes, CallAllGather(r, n) PROVE down' = down
  BY <1>6 DEF CallAllGather
<1>7. ASSUME NEW r \in Rank, ReadFails(r) \/ WriteFails(r) \/ UsesClosed(r) PROVE down' = down
  BY <1>7 DEF ReadFails, WriteFails, UsesClosed
<1>8. ASSUME NEW q \in Peer, ReadBroadcast(q) 
      PROVE  down'[p] = down[p] \/ (down[p] # << >> /\ down'[p] = Tail(down[p]))
  <2>1. down[q] # << >> /\ down' = [down EXCEPT ![q] = Tail(@)]
    BY <1>8 DEF ReadBroadcast
  <2>2. CASE q = p
    BY <2>1, <2>2
  <2>3. CASE q # p
    <3>1. down \in [Peer -> Seq([Rank -> Frame])] /\ p \in Peer
      OBVIOUS
    <3> QED
      BY ONLY <2>1, <2>3, <3>1
  <2> QED
    BY <2>2, <2>3
<1>9. ASSUME NEW q \in Peer, WriteLocal(q) PROVE down' = down
  BY <1>9 DEF WriteLocal
<1>10. CASE ReadPayload \/ Encode \/ ReturnGathered \/ UNCHANGED vars
  BY <1>2, <1>10 DEF ReadPayload, Encode, ReturnGathered, vars
<1>11. CASE WriteBroadcast
  BY <1>2, <1>3, <1>11 DEF WriteBroadcast
<1> QED
  BY <1>2, <1>3, <1>4, <1>5, <1>6, <1>7, <1>8, <1>9, <1>10, <1>11 DEF Next

\* The two stages of a call of rank 0.
LEMMA StagesOfZero ==
  ASSUME TypeOK, [Next]_vars
  PROVE  /\ pc'[0] = "cast" =>
              \/ pc[0] = "cast" /\ values' = values
              \/ pc[0] = "gather" /\ Encode /\ UNCHANGED <<values, calls, down, last>>
         /\ pc'[0] = "gather" =>
              \/ pc[0] = "gather" /\ calls'[0] = calls[0]
              \/ pc[0] = "idle" /\ calls'[0] = calls[0] + 1
<1> USE RankFacts DEF TypeOK, gathering, streams
<1>1. ASSUME NEW r \in Rank, pc[r] # "idle", Fail(r)
      PROVE  /\ pc'[0] # "idle" => pc'[0] = pc[0]
             /\ UNCHANGED <<values, calls>>
  BY <1>1 DEF Fail
<1>2. ASSUME NEW r \in Rank, ReadFails(r) \/ WriteFails(r) \/ UsesClosed(r) \/ Expire(r)
      PROVE  pc[r] # "idle" /\ Fail(r)
  BY <1>2 DEF ReadFails, WriteFails, UsesClosed, Expire, AtTransfer
<1>3. ASSUME NEW r \in Rank, NEW n \in Sizes, CallAllGather(r, n)
      PROVE  \/ pc'[0] = pc[0] /\ calls'[0] = calls[0] /\ values' = values
             \/ pc[0] = "idle" /\ pc'[0] \in {"idle", "gather"} /\ calls'[0] = calls[0] + 1
  <2>1. CASE r = 0
    BY <1>3, <2>1 DEF CallAllGather
  <2>2. CASE r # 0
    BY <1>3, <2>2 DEF CallAllGather
  <2> QED
    BY <2>1, <2>2
<1>4. ASSUME NEW r \in Rank, Close(r) PROVE UNCHANGED <<pc, calls, values>>
  BY <1>4 DEF Close
<1>5. ASSUME NEW p \in Peer, WriteLocal(p) \/ ReadBroadcast(p)
      PROVE  pc'[0] = pc[0] /\ UNCHANGED <<calls, values>>
  BY <1>5 DEF WriteLocal, ReadBroadcast, Return
<1>6. CASE Encode
  BY <1>1, <1>6 DEF Encode
<1>7. CASE ReadPayload
  BY <1>7 DEF ReadPayload
<1>8. CASE WriteBroadcast \/ ReturnGathered \/ UNCHANGED vars
  BY <1>8 DEF WriteBroadcast, ReturnGathered, Return, vars
<1>9. pc[0] \in {"idle", "write", "read", "gather", "cast"}
  BY DEF Location
<1> QED
  BY <1>1, <1>2, <1>3, <1>4, <1>5, <1>6, <1>7, <1>8, <1>9 DEF Next

\* No step makes a result, but for the encoding of the broadcast.
LEMMA ResultsKept ==
  ASSUME TypeOK, StreamsInStep, [Next]_vars, ~(pc[0] = "gather" /\ pc'[0] = "cast")
  PROVE  Issued' \subseteq Issued
<1> USE RankFacts DEF TypeOK, StreamsInStep
<1>1. ASSUME NEW r \in Rank PROVE last'[r] \in Issued
  <2>1. last[r] \in Issued
    BY DEF Issued
  <2>2. ASSUME r \in Peer, ReadBroadcast(r) PROVE last'[r] \in Issued
    <3>1. down[r] # << >> /\ last'[r] = [call |-> calls[r], vals |-> Head(down[r])]
      BY <2>2 DEF ReadBroadcast, Return
    <3>2. Head(down[r])[0].call = calls[r]
      BY <2>2, <3>1 DEF DownInv
    <3>3. last'[r] = Result(Head(down[r]))
      BY <3>1, <3>2 DEF Result
    <3> QED
      BY <2>2, <3>1, <3>3 DEF Issued
  <2>3. ASSUME r = 0, ReturnGathered PROVE last'[r] \in Issued
    <3>1. pc[0] = "cast" /\ last'[0] = [call |-> calls[0], vals |-> values] /\ values[0].call = calls[0]
      BY <2>3 DEF ReturnGathered, Return, LoopInv
    <3>2. last'[0] = Result(values)
      BY <3>1 DEF Result
    <3> QED
      BY <2>3, <3>1, <3>2 DEF Issued
  <2>4. \/ last'[r] = last[r]
        \/ r \in Peer /\ ReadBroadcast(r)
        \/ r = 0 /\ ReturnGathered
    BY DEF Next, vars, CallAllGather, ReadFails, WriteFails, UsesClosed, Expire, Fail, Close,
           WriteLocal, ReadBroadcast, ReadPayload, Encode, WriteBroadcast, ReturnGathered, Return
  <2> QED
    BY <2>1, <2>2, <2>3, <2>4
<1>2. ASSUME NEW p \in Peer, down'[p] # << >> PROVE Result(Head(down'[p])) \in Issued
  BY <1>2, BroadcastsKept DEF Issued
<1>3. ASSUME pc'[0] = "cast" PROVE pc[0] = "cast" /\ values' = values
  BY <1>3, StagesOfZero
<1>4. ASSUME pc'[0] = "cast" PROVE Result(values') \in Issued
  BY <1>3, <1>4 DEF Issued
<1>5. ASSUME NEW x \in Issued' PROVE x \in Issued
  <2>1. \/ \E r \in Rank : x = last'[r]
        \/ \E p \in Peer : down'[p] # << >> /\ x = Result(Head(down'[p]))
        \/ pc'[0] = "cast" /\ x = Result(values')
    BY <1>5 DEF Issued, Result
  <2> QED
    BY <1>1, <1>2, <1>4, <2>1
<1> QED
  BY <1>5

LEMMA StepResult ==
  ASSUME ~Retry PROVE TypeOK /\ StreamsInStep /\ OneResult /\ [Next]_vars => OneResult'
<1> SUFFICES ASSUME TypeOK, StreamsInStep, OneResult, [Next]_vars PROVE OneResult'
  OBVIOUS
<1> USE RankFacts DEF TypeOK
<1>1. ASSUME NEW x \in Issued PROVE x.call \in Nat
  <2>1. \A vals \in [Rank -> Frame] : Result(vals).call \in Nat
    BY DEF Result, Frame
  <2>2. \A p \in Peer : down[p] # << >> => Head(down[p]) \in [Rank -> Frame]
    OBVIOUS
  <2> QED
    BY <1>1, <2>1, <2>2 DEF Issued
<1>2. CASE pc[0] = "gather" /\ pc'[0] = "cast"
  <2>1. Encode /\ UNCHANGED <<values, calls, down, last>> /\ values[0].call = calls[0]
    BY <1>2, StagesOfZero DEF StreamsInStep, LoopInv
  <2>2. Issued' = Issued \cup {Result(values)} /\ Result(values).call = calls[0]
    BY <1>2, <2>1 DEF Issued, Result
  <2>3. \A x \in Issued : x.call < calls[0] /\ x.call # calls[0]
    BY <1>1, <1>2 DEF OneResult
  <2> QED
    BY <1>2, <2>2, <2>3 DEF OneResult
<1>3. CASE ~(pc[0] = "gather" /\ pc'[0] = "cast")
  <2>1. Issued' \subseteq Issued
    BY <1>3, ResultsKept
  <2>2. ASSUME pc'[0] = "gather", NEW x \in Issued' PROVE x.call < calls'[0]
    <3>1. CASE pc[0] = "gather"
      <4>1. calls'[0] = calls[0]
        BY <2>2, <3>1, StagesOfZero
      <4> QED
        BY <2>1, <2>2, <3>1, <4>1 DEF OneResult
    <3>2. CASE pc[0] # "gather"
      <4>1. pc[0] = "idle" /\ calls'[0] = calls[0] + 1
        BY <2>2, <3>2, StagesOfZero
      <4>2. x.call <= calls[0]
        <5>1. \/ \E r \in Rank : x = last[r]
              \/ \E p \in Peer : down[p] # << >> /\ x = Result(Head(down[p]))
          <6>1. x \in Issued /\ pc[0] # "cast"
            BY <2>1, <2>2, <4>1
          <6> QED
            BY ONLY <6>1 DEF Issued
        <5>2. \A r \in Rank : last[r].call <= calls[0]
          BY DEF StreamsInStep, NobodyLeavesEarly
        <5>3. \A p \in Peer : down[p] # << >> => Head(down[p])[0].call <= calls[0]
          BY DEF StreamsInStep, DownInv
        <5> QED
          BY <5>1, <5>2, <5>3 DEF Result
      <4> QED
        BY <1>1, <2>1, <4>1, <4>2
    <3> QED
      BY <3>1, <3>2
  <2> QED
    BY <2>1, <2>2 DEF OneResult
<1> QED
  BY <1>2, <1>3

(* Ranks that return from the same AllGather return the same payloads.      *)
THEOREM ResultsAreOne == ASSUME ~Retry PROVE Spec => []ResultsAgree
<1>1. OneResult => ResultsAgree
  BY DEF OneResult, ResultsAgree, Issued
<1> QED
  BY <1>1, InitResult, StepResult, TypeCorrect, StreamsStayInStep, PTL DEF Spec

-----------------------------------------------------------------------------
(* Refinement.                                                              *)

LEMMA InitPromise == Init => Promise!AbsInit
BY DEF Init, Promise!AbsInit, Rank, Promise!Rank, NoFrame

LEMMA StepPromise ==
  ASSUME TypeOK, StreamsInStep, ~Retry, [Next]_vars
  PROVE  [Promise!AbsNext]_(Promise!absVars)
<1> USE RankFacts
<1> DEFINE left == [r \in Rank |-> last[r].call]
           got == [r \in Rank |-> [q \in Rank |-> last[r].vals[q].call]]
           quiet == UNCHANGED <<calls, failed, last>>
<1>0. Promise!Rank = Rank
  BY DEF Promise!Rank, Rank
<1>1. quiet => UNCHANGED Promise!absVars
  BY DEF Promise!absVars
<1>2. ASSUME NEW r \in Rank, pc[r] # "idle", Fail(r)
      PROVE  Promise!AbsNext
  <2>1. /\ failed' = [failed EXCEPT ![r] = TRUE]
        /\ UNCHANGED <<calls, last>>
    BY <1>2 DEF Fail
  <2>2. left[r] < calls[r]
    BY <1>2 DEF StreamsInStep, CallInv
  <2>3. Promise!GiveUp(r)
    BY <2>1, <2>2 DEF Promise!GiveUp
  <2> QED
    BY <1>0, <2>3 DEF Promise!AbsNext
<1>3. ASSUME NEW r \in Rank, NEW vals \in [Rank -> Frame],
             pc[r] # "idle", Return(r, vals),
             \A q \in Rank : vals[q].call = calls[r] /\ calls[r] <= calls[q]
      PROVE  Promise!AbsNext
  <2>1. /\ last' = [last EXCEPT ![r] = [call |-> calls[r], vals |-> vals]]
        /\ UNCHANGED <<calls, failed>>
    BY <1>3 DEF Return
  <2>2. ~failed[r] /\ left[r] < calls[r]
    BY <1>3 DEF StreamsInStep, CallInv
  <2>3. left' = [left EXCEPT ![r] = calls[r]]
    BY <2>1 DEF TypeOK
  <2>4. got' = [got EXCEPT ![r] = [q \in Rank |-> calls[r]]]
    BY <1>3, <2>1 DEF TypeOK
  <2>5. Promise!Leave(r)
    BY <1>0, <1>3, <2>1, <2>2, <2>3, <2>4 DEF Promise!Leave, TypeOK
  <2> QED
    BY <1>0, <2>5 DEF Promise!AbsNext
<1>4. ASSUME NEW r \in Rank, NEW n \in Sizes, CallAllGather(r, n)
      PROVE  Promise!AbsNext
  <2>1. /\ pc[r] = "idle" /\ ~failed[r]
        /\ calls' = [calls EXCEPT ![r] = @ + 1]
        /\ UNCHANGED last
    BY <1>4 DEF CallAllGather
  <2>2. failed' = [failed EXCEPT ![r] = (n > MaxFrame)]
    <3>1. CASE n > MaxFrame
      BY <1>4, <3>1 DEF CallAllGather
    <3>2. CASE ~(n > MaxFrame)
      <4>1. failed' = failed /\ failed[r] = FALSE /\ failed \in [Rank -> BOOLEAN]
        BY <1>4, <2>1, <3>2 DEF CallAllGather, TypeOK
      <4>2. failed = [failed EXCEPT ![r] = FALSE]
        BY <4>1
      <4> QED
        BY <3>2, <4>1, <4>2
    <3> QED
      BY <3>1, <3>2
  <2>3. left[r] = calls[r]
    BY <2>1 DEF StreamsInStep, CallInv
  <2>4. Promise!Enter(r, n > MaxFrame)
    BY <2>1, <2>2, <2>3 DEF Promise!Enter
  <2>5. (n > MaxFrame) \in BOOLEAN
    OBVIOUS
  <2> QED
    BY <1>0, <2>4, <2>5 DEF Promise!AbsNext
<1>5. ASSUME NEW r \in Rank, ReadFails(r) \/ WriteFails(r) \/ UsesClosed(r) \/ Expire(r)
      PROVE  Promise!AbsNext
  <2>1. pc[r] # "idle" /\ Fail(r)
    BY <1>5 DEF ReadFails, WriteFails, UsesClosed, Expire, AtTransfer
  <2> QED
    BY <1>2, <2>1
<1>6. ASSUME NEW r \in Rank, Close(r) PROVE quiet
  BY <1>6 DEF Close
<1>7. ASSUME NEW p \in Peer, WriteLocal(p) PROVE quiet
  BY <1>7 DEF WriteLocal
<1>8. ASSUME NEW p \in Peer, ReadBroadcast(p) PROVE Promise!AbsNext
  <2>1. down[p] \in Seq([Rank -> Frame]) /\ down[p] # << >>
    BY <1>8 DEF ReadBroadcast, TypeOK
  <2>2. Head(down[p]) \in [Rank -> Frame]
    BY <2>1
  <2>3. \A q \in Rank : Head(down[p])[q].call = calls[p] /\ calls[p] <= calls[q]
    BY <2>1 DEF StreamsInStep, DownInv
  <2>4. pc[p] # "idle" /\ Return(p, Head(down[p]))
    BY <1>8 DEF ReadBroadcast
  <2> QED
    BY <1>3, <2>2, <2>3, <2>4
<1>9. CASE ReadPayload \/ WriteBroadcast
  BY <1>1, <1>9 DEF ReadPayload, WriteBroadcast
<1>10. CASE Encode
  <2>1. CASE Fail(0)
    BY <1>10, <1>2, <2>1 DEF Encode
  <2>2. CASE ~Fail(0)
    BY <1>1, <1>10, <2>2 DEF Encode
  <2> QED
    BY <2>1, <2>2
<1>11. CASE ReturnGathered
  <2>1. \A q \in Rank : values[q].call = calls[0] /\ calls[0] <= calls[q]
    BY <1>11 DEF ReturnGathered, StreamsInStep, LoopInv, Rank, Peer, TypeOK
  <2>2. pc[0] # "idle" /\ Return(0, values) /\ values \in [Rank -> Frame]
    BY <1>11 DEF ReturnGathered, TypeOK
  <2> QED
    BY <1>3, <2>1, <2>2
<1>12. CASE UNCHANGED vars
  BY <1>1, <1>12 DEF vars
<1> QED
  BY <1>1, <1>4, <1>5, <1>6, <1>7, <1>8, <1>9, <1>10, <1>11, <1>12 DEF Next

(* With callers that stop at their first error, the star of TCP streams     *)
(* implements the round that AllGather.tla promises.                        *)
THEOREM StarImplementsAllGather == ASSUME ~Retry PROVE Spec => ImplementsAllGather
<1>1. TypeOK /\ StreamsInStep /\ [Next]_vars => [Promise!AbsNext]_(Promise!absVars)
  BY StepPromise
<1> QED
  BY <1>1, InitPromise, TypeCorrect, StreamsStayInStep, PTL
     DEF Spec, ImplementsAllGather, Promise!AbsSpec

-----------------------------------------------------------------------------
(* The program of a rank.                                                   *)

Program(r) ==
  /\ pc[r] \in (IF r = 0 THEN {"idle", "gather", "cast"} ELSE {"idle", "write", "read"})
  /\ closed[r] <=> at[r] = "gone"
  /\ own[r].call = calls[r]
  /\ last[r].call <= calls[r]
  /\ pc[r] # "idle" => last[r].call < calls[r]
  /\ pc[r] = "idle" /\ ~failed[r] => last[r].call = calls[r]
  /\ at[r] \notin Teardown /\ failed[r] => pc[r] = "idle" /\ last[r].call < calls[r]
  /\ at[r] \in {"open", "exchange"} => entered[r] = 0
  /\ at[r] \in {"barrier1", "barrier2"} => entered[r] = passed[r] + 1
  /\ at[r] \notin {"barrier1", "barrier2"} => passed[r] <= entered[r]
  /\ at[r] = "open" => calls[r] = 0 /\ ~opened[r] /\ pc[r] = "idle" /\ ~failed[r]
  /\ at[r] = "exchange" => calls[r] = 1 /\ opened[r]
  /\ at[r] = "ready" => /\ calls[r] = 2 * entered[r] + 1 /\ passed[r] = entered[r]
                        /\ pc[r] = "idle" /\ ~failed[r]
  /\ at[r] = "barrier1" => calls[r] = 2 * entered[r]
  /\ at[r] = "barrier2" => calls[r] = 2 * entered[r] + 1
  /\ at[r] \in {"down1", "freed"} => calls[r] >= 1
  /\ at[r] = "down2" => calls[r] >= 2
  /\ at[r] = "freed" => pc[r] = "idle"

(* A frame of rank q, wherever it is, was passed to a call of q; it holds     *)
(* destinations only if q opened, and then q's first frame does.             *)
Honest(q, f) ==
  /\ f.call <= calls[q]
  /\ f.size # 0 => opened[q]
  /\ f.call = 1 /\ opened[q] => f.size # 0

Truth ==
  /\ \A q \in Rank : Honest(q, own[q]) /\ Honest(q, values[q])
  /\ \A r, q \in Rank : Honest(q, last[r].vals[q])
  /\ \A p \in Peer : \A f \in Range(up[p]) : Honest(p, f)
  /\ \A p \in Peer : \A vals \in Range(down[p]) : \A q \in Rank : Honest(q, vals[q])

AllOpened ==
  \A r \in Rank : entered[r] > 0 \/ at[r] \in {"ready", "barrier1", "barrier2"}
                    => \A q \in Rank : opened[q]

-----------------------------------------------------------------------------
(* The channel, as long as nothing is spoilt.                               *)

\* The destinations of one rank fit a frame.
Fits == DestBytes <= MaxFrame

Live == ~failed[0] /\ ~closed[0]

\* Rank r makes no further call.
Done(r) ==
  \/ at[r] \in {"freed", "gone"}
  \/ at[r] \in {"down1", "down2"} /\ pc[r] = "idle" /\ failed[r]

\* Rank 0 waits for the payload of q in vain, once no broadcast can be written.
Silent(q) ==
  /\ up[q] = << >>
  /\ Done(q) \/ (pc[q] = "read" /\ down[q] = << >>)

\* Some rank will never send destinations.
NotAll == \E s \in Rank : ~opened[s] /\ at[s] # "open"

\* Rank r left its program because of a call that failed.
Lost(r) == failed[r] /\ (r # 0 => closed[0])

\* A result of call c belongs to a call that every rank makes in its program.
Answered(c) ==
  NotAll \/ \A q \in Rank : entered[q] = NumBarriers \/ c <= 2 * entered[q] + 1

Reason(r) ==
  /\ \/ NotAll \/ entered[r] = NumBarriers \/ Lost(r)
     \/ calls[r] <= 2 * entered[r] + 1
  /\ at[r] \in {"down1", "down2"} =>
       \/ NotAll
       \/ Lost(r)
       \/ entered[r] = NumBarriers /\ calls[r] >= 2 * NumBarriers + 2

UpStep(p) ==
  /\ Len(up[p]) <= 1
  /\ up[p] # << >> => Head(up[p]).call = calls[p] /\ Waiting(p)
  /\ closed[0] => up[p] = << >>
  /\ Live => /\ up[p] # << >> \/ pc[p] = "write" => calls[p] = Taken(p) + 1
             /\ pc[p] = "idle" /\ ~failed[p] => calls[p] = Taken(p)

DownStep(p) ==
  /\ Len(down[p]) <= 1
  /\ down[p] # << >> =>
       /\ Waiting(p)
       /\ up[p] = << >>
       /\ Live => calls[p] = Taken(p)
       /\ \A q \in Rank : Head(down[p])[q].call = calls[p]
       /\ Answered(calls[p])

LoopStep ==
  pc[0] # "idle" /\ Live =>
    /\ values[0].call = calls[0]
    /\ pc[0] = "cast" => Answered(calls[0])
    /\ \A p \in Peer :
         /\ pc[0] = "cast" \/ p < peer => values[p].call = calls[0]
         /\ Owed(p) => /\ calls[p] = calls[0] /\ Waiting(p)
                       /\ up[p] = << >> /\ down[p] = << >>

FailedStep(r) ==
  failed[r] =>
    /\ last[r].call < calls[r]
    /\ \/ Done(r) /\ (r # 0 => pc[r] = "idle")
       \/ r # 0 /\ closed[0] /\ down[r] = << >>
       \/ /\ r = 0 /\ pc[0] \in {"idle", "gather"}
          /\ \E q \in Peer : Silent(q) /\ (pc[0] = "gather" => peer <= q)

TornStep(p) ==
  /\ <<p, "up">> \in torn => Done(0)
  /\ <<p, "down">> \in torn => Done(p)

ResultStep(r) ==
  /\ \A q \in Rank : last[r].vals[q].call = last[r].call
  /\ Answered(last[r].call)

InStep ==
  /\ \A p \in Peer : UpStep(p) /\ DownStep(p) /\ TornStep(p)
  /\ LoopStep
  /\ \A r \in Rank : FailedStep(r) /\ ResultStep(r) /\ Reason(r)
  /\ SameBarrier

-----------------------------------------------------------------------------
(* When destinations do not fit a frame, every frame is of a teardown.      *)

AllDown == \A q \in Rank : at[q] \in Teardown

OnlyTeardowns ==
  /\ \A r \in Rank :
       /\ pc[r] # "idle" => at[r] \in Teardown
       /\ last[r].call > 0 => AllDown
       /\ passed[r] = 0
       /\ at[r] \in {"open", "exchange"} \cup Teardown
       /\ at[r] = "exchange" => failed[r]
  /\ \A p \in Peer :
       /\ up[p] # << >> => at[p] \in Teardown
       /\ down[p] # << >> => AllDown
       /\ pc[0] = "gather" /\ p < peer => at[p] \in Teardown
  /\ pc[0] = "cast" => AllDown

LifeInv ==
  /\ GroupTypeOK
  /\ \A r \in Rank : Program(r)
  /\ Truth
  /\ AllOpened
  /\ Fits /\ ~spoilt => InStep
  /\ ~Fits => OnlyTeardowns
  /\ TeardownIsJoint

-----------------------------------------------------------------------------
(* Types.                                                                   *)

LEMMA LifecycleFacts ==
  /\ NumBarriers \in Nat /\ DestBytes \in Nat /\ DestBytes # 0
  /\ 0 \in Sizes /\ DestBytes \in Sizes /\ Retry
  /\ MaxFrame \in Nat /\ ~(0 > MaxFrame)
BY LifecycleAssumption, BoundAssumption

\* A step of the group is a step of the channel, or leaves the channel alone.
LEMMA ChannelMoves ==
  ASSUME [GroupNext]_allVars
  PROVE  [Next]_vars
<1> USE LifecycleFacts, RankFacts
<1>1. CASE ChannelStep
  BY <1>1 DEF ChannelStep, ContextEnds, Next
<1>2. ASSUME NEW r \in Rank, GroupStep(r) PROVE [Next]_vars
  <2>1. \/ CallAllGather(r, 0) \/ CallAllGather(r, DestBytes) \/ UNCHANGED vars \/ Close(r)
    BY <1>2 DEF GroupStep, OpenLocal, OpenFails, Exchanged, EnterBarrier, BarrierHalf,
                BarrierDone, CloseGroup, TeardownHalf, TeardownDone, CloseSide, BeginTeardown
  <2> QED
    BY <2>1 DEF Next
<1>3. ASSUME NEW r \in Rank, Crash(r) PROVE [Next]_vars
  BY <1>3 DEF Crash, Next
<1>4. CASE UNCHANGED allVars
  BY <1>4 DEF allVars
<1> QED
  BY <1>1, <1>2, <1>3, <1>4 DEF GroupNext

LEMMA GroupTypeStep ==
  ASSUME GroupTypeOK, \A r \in Rank : Program(r), [GroupNext]_allVars
  PROVE  GroupTypeOK'
<1> USE LifecycleFacts, RankFacts DEF GroupTypeOK, Phase, Goto
<1>1. TypeOK'
  BY ChannelMoves, StepTypeOK
<1>2. CASE ChannelStep
  <2>1. CASE UNCHANGED groupVars
    BY <1>1, <2>1 DEF groupVars
  <2>2. CASE ~UNCHANGED groupVars
    BY <1>1, <1>2, <2>2 DEF ChannelStep, ContextEnds
  <2> QED
    BY <2>1, <2>2
<1>3. ASSUME NEW r \in Rank, GroupStep(r) PROVE GroupTypeOK'
  <2>1. CASE OpenLocal(r)
    BY <1>1, <2>1 DEF OpenLocal
  <2>2. CASE OpenFails(r) \/ CloseGroup(r)
    BY <1>1, <2>2 DEF OpenFails, CloseGroup, BeginTeardown
  <2>3. CASE Exchanged(r)
    <3>1. at' \in [Rank -> Phase] /\ spoilt' \in BOOLEAN
      BY <2>3 DEF Exchanged, BeginTeardown, vars
    <3> QED
      BY <1>1, <2>3, <3>1 DEF Exchanged
  <2>4. CASE EnterBarrier(r)
    BY <1>1, <2>4 DEF EnterBarrier
  <2>5. CASE BarrierHalf(r)
    BY <1>1, <2>5 DEF BarrierHalf, BeginTeardown
  <2>6. CASE BarrierDone(r)
    <3>1. entered[r] = passed[r] + 1 /\ entered[r] \in 0 .. NumBarriers
      BY <2>6 DEF BarrierDone, Returned, Program
    <3>2. passed[r] + 1 \in 0 .. NumBarriers
      BY <3>1
    <3>3. at' \in [Rank -> Phase] /\ passed' \in [Rank -> 0 .. NumBarriers]
      BY <2>6, <3>2 DEF BarrierDone, BeginTeardown
    <3> QED
      BY <1>1, <2>6, <3>3 DEF BarrierDone
  <2>7. CASE TeardownHalf(r)
    BY <1>1, <2>7 DEF TeardownHalf
  <2>8. CASE TeardownDone(r)
    <3>1. joint' \in [Rank -> BOOLEAN]
      BY <2>8 DEF TeardownDone, Succeeded
    <3>2. at' \in [Rank -> Phase]
      BY <2>8 DEF TeardownDone, Succeeded
    <3> QED
      BY <1>1, <2>8, <3>1, <3>2 DEF TeardownDone
  <2>9. CASE CloseSide(r)
    BY <1>1, <2>9 DEF CloseSide
  <2> QED
    BY <1>3, <2>1, <2>2, <2>3, <2>4, <2>5, <2>6, <2>7, <2>8, <2>9 DEF GroupStep
<1>4. ASSUME NEW r \in Rank, Crash(r) PROVE GroupTypeOK'
  BY <1>1, <1>4 DEF Crash
<1>5. CASE UNCHANGED allVars
  BY <1>1, <1>5 DEF allVars, groupVars
<1> QED
  BY <1>2, <1>3, <1>4, <1>5 DEF GroupNext

-----------------------------------------------------------------------------
(* The program of a rank is its own.                                        *)

\* Nothing of rank q changes that its program depends on.
Still(q) ==
  /\ pc'[q] = pc[q] /\ closed'[q] = closed[q] /\ own'[q] = own[q]
  /\ calls'[q] = calls[q] /\ failed'[q] = failed[q] /\ last'[q] = last[q]
  /\ at'[q] = at[q] /\ opened'[q] = opened[q]
  /\ entered'[q] = entered[q] /\ passed'[q] = passed[q]

LEMMA StillProgram ==
  ASSUME NEW q \in Rank, Program(q), Still(q) PROVE Program(q)'
BY DEF Program, Still

\* A call of r ends with an error, or with a result, or goes on.
LEMMA CallProgram ==
  ASSUME GroupTypeOK, NEW r \in Rank, Program(r), pc[r] # "idle",
         UNCHANGED <<calls, own, closed, at, opened, entered, passed>>,
         \/ Fail(r)
         \/ \E vals : Return(r, vals)
         \/ /\ pc'[r] \in IF r = 0 THEN {"gather", "cast"} ELSE {"write", "read"}
            /\ UNCHANGED <<failed, last>>
  PROVE  Program(r)'
<1> USE DEF GroupTypeOK, TypeOK, Program, Teardown
<1>1. CASE Fail(r)
  BY <1>1 DEF Fail
<1>2. ASSUME NEW vals, Return(r, vals) PROVE Program(r)'
  BY <1>2 DEF Return
<1>3. CASE /\ pc'[r] \in IF r = 0 THEN {"gather", "cast"} ELSE {"write", "read"}
           /\ UNCHANGED <<failed, last>>
  BY <1>3
<1> QED
  BY <1>1, <1>2, <1>3

LEMMA ChannelProgram ==
  ASSUME GroupTypeOK, \A r \in Rank : Program(r), ChannelStep
  PROVE  \A r \in Rank : Program(r)'
<1> USE RankFacts DEF GroupTypeOK, TypeOK
<1>1. ASSUME NEW r \in Rank, ReadFails(r) \/ WriteFails(r) \/ Expire(r),
             UNCHANGED <<at, opened, entered, passed>>
      PROVE  \A q \in Rank : Program(q)'
  <2>1. pc[r] # "idle" /\ Fail(r)
    BY <1>1 DEF ReadFails, WriteFails, Expire, AtTransfer
  <2>2. UNCHANGED <<calls, own, closed>>
    BY <2>1 DEF Fail
  <2>3. Program(r)'
    BY <1>1, <2>1, <2>2, CallProgram
  <2>4. ASSUME NEW q \in Rank, q # r PROVE Program(q)'
    BY <1>1, <2>1, <2>4, StillProgram DEF Fail, Still
  <2> QED
    BY <2>3, <2>4
<1>2. ASSUME NEW p \in Peer, WriteLocal(p) \/ ReadBroadcast(p), UNCHANGED groupVars
      PROVE  \A q \in Rank : Program(q)'
  <2>1. Program(p)'
    <3>1. p # 0 /\ p \in Rank /\ Program(p)
      OBVIOUS
    <3>2. CASE WriteLocal(p)
      <4>1. /\ pc[p] # "idle" /\ pc'[p] = "read"
            /\ UNCHANGED <<calls, own, closed, at, opened, entered, passed, failed, last>>
        BY <1>2, <3>1, <3>2 DEF WriteLocal, groupVars
      <4> QED
        BY <3>1, <4>1, CallProgram
    <3>3. CASE ReadBroadcast(p)
      <4>1. /\ pc[p] # "idle" /\ Return(p, Head(down[p]))
            /\ UNCHANGED <<calls, own, closed, at, opened, entered, passed>>
        BY <1>2, <3>3 DEF ReadBroadcast, Return, groupVars
      <4> QED
        BY <3>1, <4>1, CallProgram
    <3> QED
      BY <1>2, <3>2, <3>3
  <2>2. ASSUME NEW q \in Rank, q # p PROVE Program(q)'
    BY <1>2, <2>2, StillProgram DEF WriteLocal, ReadBroadcast, Return, Still, groupVars
  <2> QED
    BY <2>1, <2>2
<1>3. ASSUME ReadPayload \/ Encode \/ WriteBroadcast \/ ReturnGathered, UNCHANGED groupVars
      PROVE  \A q \in Rank : Program(q)'
  <2>1. /\ pc[0] # "idle"
        /\ UNCHANGED <<calls, own, closed, at, opened, entered, passed>>
    BY <1>3 DEF ReadPayload, Encode, WriteBroadcast, ReturnGathered, Fail, Return, groupVars
  <2>2. \/ Fail(0)
        \/ \E vals : Return(0, vals)
        \/ pc'[0] \in {"gather", "cast"} /\ UNCHANGED <<failed, last>>
    BY <1>3 DEF ReadPayload, Encode, WriteBroadcast, ReturnGathered
  <2>3. Program(0)'
    BY <2>1, <2>2, CallProgram
  <2>4. ASSUME NEW q \in Rank, q # 0 PROVE Program(q)'
    <3>1. pc'[q] = pc[q] /\ failed'[q] = failed[q] /\ last'[q] = last[q]
      BY <1>3, <2>4 DEF ReadPayload, Encode, WriteBroadcast, ReturnGathered, Fail, Return
    <3> QED
      BY <2>1, <2>4, <3>1, StillProgram DEF Still
  <2> QED
    BY <2>3, <2>4
<1> QED
  BY <1>1, <1>2, <1>3 DEF ChannelStep, ContextEnds, groupVars

\* A step of r that begins a call, of n bytes, in the given phase.
Begun(r, n, phase) ==
  /\ calls'[r] = calls[r] + 1 /\ calls[r] \in Nat /\ own'[r].call = calls[r] + 1
  /\ last' = last /\ last[r].call \in Nat /\ closed' = closed /\ at'[r] = phase
  /\ pc[r] = "idle" /\ ~closed[r]
  /\ pc'[r] \in (IF r = 0 THEN {"idle", "gather"} ELSE {"idle", "write"})
  /\ pc'[r] = "idle" <=> n > MaxFrame
  /\ failed'[r] <=> failed[r] \/ n > MaxFrame
  /\ last'[r].call < calls'[r]

LEMMA BeginProgram ==
  ASSUME GroupTypeOK, NEW r \in Rank, Program(r), NEW n \in Sizes, CallAllGather(r, n),
         NEW phase, at' = [at EXCEPT ![r] = phase]
  PROVE  Begun(r, n, phase)
BY DEF GroupTypeOK, TypeOK, Program, CallAllGather, Begun

LEMMA TeardownProgram ==
  ASSUME GroupTypeOK, NEW r \in Rank, Program(r), BeginTeardown(r)
  PROVE  Begun(r, 0, "down1")
BY BeginProgram, LifecycleFacts DEF BeginTeardown, Goto

LEMMA StepProgram ==
  ASSUME GroupTypeOK, \A r \in Rank : Program(r), NEW r \in Rank, GroupStep(r)
  PROVE  Program(r)'
<1> USE LifecycleFacts, RankFacts DEF GroupTypeOK
<1>0. Program(r)
  OBVIOUS
<1>1. CASE OpenLocal(r)
  <2>1. Begun(r, DestBytes, "exchange")
    BY <1>0, <1>1, BeginProgram DEF OpenLocal, Goto
  <2> QED
    BY <1>0, <1>1, <2>1 DEF OpenLocal, Program, Begun, Teardown
<1>2. CASE OpenFails(r) \/ CloseGroup(r)
  <2>1. Begun(r, 0, "down1")
    BY <1>0, <1>2, TeardownProgram DEF OpenFails, CloseGroup
  <2> QED
    BY <1>0, <1>2, <2>1 DEF OpenFails, CloseGroup, Program, Begun, Teardown
<1>3. CASE Exchanged(r)
  <2>1. CASE BeginTeardown(r)
    <3>1. Begun(r, 0, "down1")
      BY <1>0, <2>1, TeardownProgram
    <3> QED
      BY <1>0, <1>3, <3>1 DEF Exchanged, Returned, Program, Begun, Teardown
  <2>2. CASE ~BeginTeardown(r)
    BY <1>0, <1>3, <2>2 DEF Exchanged, Returned, Succeeded, Program, TypeOK, vars, Goto, Teardown
  <2> QED
    BY <2>1, <2>2
<1>4. CASE EnterBarrier(r)
  <2>1. Begun(r, 0, "barrier1")
    BY <1>0, <1>4, BeginProgram DEF EnterBarrier, Goto
  <2>2. /\ entered'[r] = entered[r] + 1 /\ passed' = passed /\ opened' = opened
        /\ at[r] = "ready" /\ entered[r] \in Nat /\ passed[r] \in Nat
    BY <1>4 DEF EnterBarrier
  <2>3. calls[r] = 2 * entered[r] + 1 /\ passed[r] = entered[r] /\ ~failed[r]
    BY <1>0, <2>2 DEF Program
  <2>4. /\ own'[r].call = calls'[r] /\ last'[r].call < calls'[r] /\ ~failed'[r]
        /\ closed'[r] <=> at'[r] = "gone"
        /\ calls'[r] = 2 * entered'[r] /\ entered'[r] = passed'[r] + 1
        /\ pc'[r] \in (IF r = 0 THEN {"idle", "gather", "cast"} ELSE {"idle", "write", "read"})
        /\ pc'[r] # "idle" /\ last'[r].call <= calls'[r] /\ at'[r] = "barrier1"
    BY <2>1, <2>2, <2>3 DEF Begun
  <2> QED
    BY ONLY <2>4 DEF Program, Teardown
<1>5. CASE BarrierHalf(r)
  <2>1. CASE Succeeded(r)
    <3>1. Begun(r, 0, "barrier2")
      BY <1>0, <1>5, <2>1, BeginProgram DEF BarrierHalf, Goto
    <3> QED
      BY <1>0, <1>5, <2>1, <3>1 DEF BarrierHalf, Returned, Program, Begun, Teardown, Succeeded
  <2>2. CASE ~Succeeded(r)
    <3>1. Begun(r, 0, "down1")
      BY <1>0, <1>5, <2>2, TeardownProgram DEF BarrierHalf
    <3> QED
      BY <1>0, <1>5, <3>1 DEF BarrierHalf, Returned, Program, Begun, Teardown
  <2> QED
    BY <2>1, <2>2
<1>6. CASE BarrierDone(r)
  <2>1. CASE Succeeded(r)
    BY <1>0, <1>6, <2>1
    DEF BarrierDone, Returned, Succeeded, Program, TypeOK, vars, Goto, Teardown
  <2>2. CASE ~Succeeded(r)
    <3>1. Begun(r, 0, "down1")
      BY <1>0, <1>6, <2>2, TeardownProgram DEF BarrierDone
    <3> QED
      BY <1>0, <1>6, <2>2, <3>1 DEF BarrierDone, Returned, Program, Begun, Teardown
  <2> QED
    BY <2>1, <2>2
<1>7. CASE TeardownHalf(r)
  <2>1. CASE Succeeded(r)
    <3>1. Begun(r, 0, "down2")
      BY <1>0, <1>7, <2>1, BeginProgram DEF TeardownHalf, Goto
    <3> QED
      BY <1>0, <1>7, <3>1 DEF TeardownHalf, Returned, Program, Begun, Teardown
  <2>2. CASE ~Succeeded(r)
    BY <1>0, <1>7, <2>2 DEF TeardownHalf, Returned, Program, TypeOK, vars, Goto, Teardown
  <2> QED
    BY <2>1, <2>2
<1>8. CASE TeardownDone(r)
  BY <1>0, <1>8 DEF TeardownDone, Returned, Program, TypeOK, vars, Goto, Teardown
<1>9. CASE CloseSide(r)
  BY <1>0, <1>9 DEF CloseSide, Close, Program, TypeOK, Goto, Teardown
<1> QED
  BY <1>1, <1>2, <1>3, <1>4, <1>5, <1>6, <1>7, <1>8, <1>9 DEF GroupStep

LEMMA OthersStill ==
  ASSUME GroupTypeOK, NEW r \in Rank, GroupStep(r) \/ Crash(r), NEW q \in Rank, q # r
  PROVE  Still(q)
<1> USE LifecycleFacts, RankFacts DEF GroupTypeOK, TypeOK, Goto, Still
<1>1. \A n : CallAllGather(r, n) =>
        /\ pc'[q] = pc[q] /\ closed'[q] = closed[q] /\ own'[q] = own[q]
        /\ calls'[q] = calls[q] /\ failed'[q] = failed[q] /\ last'[q] = last[q]
  BY DEF CallAllGather
<1>2. Close(r) =>
        /\ pc'[q] = pc[q] /\ closed'[q] = closed[q] /\ own'[q] = own[q]
        /\ calls'[q] = calls[q] /\ failed'[q] = failed[q] /\ last'[q] = last[q]
  BY DEF Close
<1>3. UNCHANGED vars =>
        /\ pc'[q] = pc[q] /\ closed'[q] = closed[q] /\ own'[q] = own[q]
        /\ calls'[q] = calls[q] /\ failed'[q] = failed[q] /\ last'[q] = last[q]
  BY DEF vars
<1> QED
  BY <1>1, <1>2, <1>3 DEF GroupStep, Crash, OpenLocal, OpenFails, Exchanged, EnterBarrier,
     BarrierHalf, BarrierDone, CloseGroup, TeardownHalf, TeardownDone, CloseSide, BeginTeardown

LEMMA ProgramStep ==
  ASSUME GroupTypeOK, \A r \in Rank : Program(r), [GroupNext]_allVars
  PROVE  \A r \in Rank : Program(r)'
<1>1. CASE ChannelStep
  BY <1>1, ChannelProgram
<1>2. ASSUME NEW r \in Rank, GroupStep(r) PROVE \A q \in Rank : Program(q)'
  BY <1>2, StepProgram, OthersStill, StillProgram
<1>3. ASSUME NEW r \in Rank, Crash(r) PROVE \A q \in Rank : Program(q)'
  <2>1. Program(r)'
    <3>1. /\ UNCHANGED <<pc, calls, own, failed, last, opened, entered, passed>>
          /\ closed'[r] /\ at'[r] = "gone"
      BY <1>3 DEF Crash, Close, Goto, GroupTypeOK, TypeOK
    <3> QED
      BY <1>3, <3>1 DEF Crash, Program, Teardown, GroupTypeOK
  <2> QED
    BY <1>3, <2>1, OthersStill, StillProgram
<1>4. CASE UNCHANGED allVars
  BY <1>4 DEF allVars, vars, groupVars, Program
<1> QED
  BY <1>1, <1>2, <1>3, <1>4 DEF GroupNext

-----------------------------------------------------------------------------
(* Frames are honest.                                                       *)

\* What rank q has done is not undone.
Onward(q) ==
  /\ calls[q] <= calls'[q]
  /\ closed[q] => closed'[q]
  /\ failed[q] => failed'[q]
  /\ entered[q] <= entered'[q]
  /\ at[q] \in Teardown => at'[q] \in Teardown
  /\ at[q] # "open" => at'[q] # "open" /\ opened'[q] = opened[q]
  /\ opened[q] => opened'[q]
  /\ opened'[q] /\ ~opened[q] => calls[q] = 0

LEMMA StillOnward ==
  ASSUME GroupTypeOK, NEW q \in Rank, Still(q) PROVE Onward(q)
BY DEF GroupTypeOK, TypeOK, Still, Onward

LEMMA OnwardStep ==
  ASSUME GroupTypeOK, \A q \in Rank : Program(q), [GroupNext]_allVars
  PROVE  \A q \in Rank : Onward(q)
<1> USE LifecycleFacts, RankFacts DEF GroupTypeOK
<1>1. CASE ChannelStep
  <2>1. UNCHANGED <<calls, closed, at, opened, entered>>
    BY <1>1 DEF ChannelStep, ContextEnds, Expire, ReadFails, WriteFails, WriteLocal, ReadBroadcast,
       ReadPayload, Encode, WriteBroadcast, ReturnGathered, Fail, Return, groupVars
  <2>2. failed' = failed \/ \E r \in Rank : failed' = [failed EXCEPT ![r] = TRUE]
    BY <1>1 DEF ChannelStep, ContextEnds, Expire, ReadFails, WriteFails, WriteLocal, ReadBroadcast,
       ReadPayload, Encode, WriteBroadcast, ReturnGathered, Fail, Return
  <2>3. \A q \in Rank : failed[q] => failed'[q]
    BY <2>2 DEF TypeOK
  <2> QED
    BY <2>1, <2>3 DEF Onward, TypeOK
<1>2. ASSUME NEW r \in Rank, GroupStep(r) \/ Crash(r) PROVE \A q \in Rank : Onward(q)
  <2>1. Onward(r)
    <3>1. /\ calls[r] <= calls'[r]
          /\ closed[r] => closed'[r]
          /\ failed[r] => failed'[r]
      <4>1. \A n : CallAllGather(r, n) => /\ calls[r] <= calls'[r] /\ closed' = closed
                                          /\ failed[r] => failed'[r]
        BY DEF CallAllGather, TypeOK
      <4>2. \/ \E n : CallAllGather(r, n)
            \/ UNCHANGED vars
            \/ Close(r)
        BY <1>2 DEF GroupStep, Crash, OpenLocal, OpenFails, Exchanged, EnterBarrier, BarrierHalf,
           BarrierDone, CloseGroup, TeardownHalf, TeardownDone, CloseSide, BeginTeardown
      <4> QED
        BY <4>1, <4>2 DEF Close, vars, TypeOK
    <3>2. entered[r] <= entered'[r]
      BY <1>2 DEF GroupStep, Crash, OpenLocal, OpenFails, Exchanged, EnterBarrier, BarrierHalf,
           BarrierDone, CloseGroup, TeardownHalf, TeardownDone, CloseSide
    <3>3. CASE OpenLocal(r)
      BY <3>1, <3>2, <3>3 DEF OpenLocal, Onward, Program, Goto, Teardown
    <3>4. CASE ~OpenLocal(r)
      <4>1. opened' = opened /\ at'[r] # "open" /\ (at[r] \in Teardown => at'[r] \in Teardown)
        BY <1>2, <3>4 DEF GroupStep, Crash, OpenFails, Exchanged, EnterBarrier, BarrierHalf,
           BarrierDone, CloseGroup, TeardownHalf, TeardownDone, CloseSide, BeginTeardown, Goto,
           Returned, Teardown
      <4> QED
        BY <3>1, <3>2, <4>1 DEF Onward
    <3> QED
      BY <3>3, <3>4
  <2> QED
    BY <1>2, <2>1, OthersStill, StillOnward
<1>3. CASE UNCHANGED allVars
  BY <1>3 DEF allVars, vars, groupVars, Onward, TypeOK
<1> QED
  BY <1>1, <1>2, <1>3 DEF GroupNext

LEMMA RangeType ==
  ASSUME NEW S, NEW s \in Seq(S) PROVE Range(s) \subseteq S
BY DEF Range

LEMMA RangeFacts ==
  ASSUME NEW S, NEW s \in Seq(S), NEW x
  PROVE  /\ Range(s) \subseteq S
         /\ Range(<< >>) = {}
         /\ s # << >> => Head(s) \in Range(s) /\ Range(Tail(s)) \subseteq Range(s)
         /\ x \in S => Range(Append(s, x)) \subseteq Range(s) \cup {x}
<1>1. Range(s) \subseteq S /\ Range(<< >>) = {}
  BY DEF Range
<1>2. ASSUME s # << >> PROVE Head(s) \in Range(s) /\ Range(Tail(s)) \subseteq Range(s)
  <2>1. Len(s) \in Nat \ {0} /\ DOMAIN s = 1 .. Len(s) /\ Head(s) = s[1]
    BY <1>2, EmptySeq, LenProperties
  <2>2. /\ Tail(s) \in Seq(S) /\ DOMAIN Tail(s) = 1 .. Len(s) - 1
        /\ \A i \in 1 .. Len(s) - 1 : Tail(s)[i] = s[i + 1]
    BY <1>2, <2>1, HeadTailProperties, LenProperties
  <2> QED
    BY <2>1, <2>2 DEF Range
<1>3. ASSUME x \in S PROVE Range(Append(s, x)) \subseteq Range(s) \cup {x}
  <2>1. /\ Append(s, x) \in Seq(S) /\ Len(Append(s, x)) = Len(s) + 1 /\ Len(s) \in Nat
        /\ \A i \in 1 .. Len(s) : Append(s, x)[i] = s[i]
        /\ Append(s, x)[Len(s) + 1] = x
    BY <1>3, AppendProperties, LenProperties
  <2>2. DOMAIN s = 1 .. Len(s) /\ DOMAIN Append(s, x) = 1 .. Len(s) + 1
    BY <2>1, LenProperties
  <2> QED
    BY <2>1, <2>2 DEF Range
<1> QED
  BY <1>1, <1>2, <1>3

\* Where the frames of the channel come from in a step.
Carried ==
  /\ \A q \in Rank : \/ values'[q] \in {values[q], NoFrame, own'[q]}
                     \/ q \in Peer /\ values'[q] \in Range(up[q])
  /\ \A r \in Rank : \/ last'[r].vals \in {last[r].vals, values}
                     \/ r \in Peer /\ last'[r].vals \in Range(down[r])
  /\ \A p \in Peer : Range(up'[p]) \subseteq Range(up[p]) \cup {own[p]}
  /\ \A p \in Peer : Range(down'[p]) \subseteq Range(down[p]) \cup {values}

LEMMA ChannelCarries ==
  ASSUME TypeOK, [Next]_vars PROVE Carried
<1> USE RankFacts, NAssumption
<1> DEFINE keepsValues == \A q \in Rank : \/ values'[q] \in {values[q], NoFrame, own'[q]}
                                          \/ q \in Peer /\ values'[q] \in Range(up[q])
           keepsLast == \A r \in Rank : \/ last'[r].vals \in {last[r].vals, values}
                                        \/ r \in Peer /\ last'[r].vals \in Range(down[r])
           keepsUp == \A p \in Peer : Range(up'[p]) \subseteq Range(up[p]) \cup {own[p]}
           keepsDown == \A p \in Peer : Range(down'[p]) \subseteq Range(down[p]) \cup {values}
<1>0. /\ UNCHANGED values => keepsValues
      /\ UNCHANGED last => keepsLast
      /\ UNCHANGED up => keepsUp
      /\ UNCHANGED down => keepsDown
  OBVIOUS
<1>a. \A p \in Peer : /\ up[p] # << >> => /\ Head(up[p]) \in Range(up[p])
                                          /\ Range(Tail(up[p])) \subseteq Range(up[p])
                      /\ Range(Append(up[p], own[p])) \subseteq Range(up[p]) \cup {own[p]}
  <2>1. \A p \in Peer : up[p] \in Seq(Frame) /\ own[p] \in Frame
    BY DEF TypeOK
  <2> QED
    BY <2>1, RangeFacts
<1>b. \A p \in Peer : /\ down[p] # << >> => /\ Head(down[p]) \in Range(down[p])
                                            /\ Range(Tail(down[p])) \subseteq Range(down[p])
                      /\ Range(Append(down[p], values)) \subseteq Range(down[p]) \cup {values}
  <2>1. values \in [Rank -> Frame] /\ \A p \in Peer : down[p] \in Seq([Rank -> Frame])
    BY DEF TypeOK
  <2> QED
    BY <2>1, RangeFacts
<1>c. Range(<< >>) = {}
  BY DEF Range
<1>1. ASSUME NEW r \in Rank, NEW n \in Sizes, CallAllGather(r, n)
      PROVE  keepsValues /\ keepsLast /\ keepsUp /\ keepsDown
  <2>1. UNCHANGED <<last, up, down>>
    BY <1>1 DEF CallAllGather, streams
  <2>2. keepsValues
    BY <1>1 DEF CallAllGather, gathering, TypeOK
  <2> QED
    BY <1>0, <2>1, <2>2
<1>2. ASSUME NEW r \in Rank, ReadFails(r) \/ WriteFails(r) \/ UsesClosed(r)
      PROVE  keepsValues /\ keepsLast /\ keepsUp /\ keepsDown
  BY <1>0, <1>2 DEF ReadFails, WriteFails, UsesClosed, Fail, streams, gathering
<1>3. ASSUME NEW r \in Rank, Expire(r)
      PROVE  keepsValues /\ keepsLast /\ keepsUp /\ keepsDown
  <2>1. UNCHANGED <<values, last>>
    BY <1>3 DEF Expire, Fail, gathering
  <2>2. /\ \/ UNCHANGED up
           \/ up' = [up EXCEPT ![r] = Append(@, own[r])]
           \/ \E p \in Peer : up[p] # << >> /\ up' = [up EXCEPT ![p] = Tail(@)]
        /\ \/ UNCHANGED down
           \/ down' = [down EXCEPT ![peer] = Append(@, values)]
           \/ \E p \in Peer : down[p] # << >> /\ down' = [down EXCEPT ![p] = Tail(@)]
    <3>1. \A s \in Reading(r) : s[1] \in Peer
      BY ReadingType
    <3> QED
      BY <1>3, <3>1 DEF Expire, StreamEmpty, streams
  <2>3. keepsUp
    <3>1. CASE up' = [up EXCEPT ![r] = Append(@, own[r])]
      BY <3>1, <1>a DEF TypeOK
    <3>2. ASSUME NEW p \in Peer, up[p] # << >>, up' = [up EXCEPT ![p] = Tail(@)]
          PROVE  keepsUp
      BY <3>2, <1>a DEF TypeOK
    <3> QED
      BY <1>0, <2>2, <3>1, <3>2
  <2>4. keepsDown
    BY <2>2, <1>b DEF TypeOK
  <2> QED
    BY <1>0, <2>1, <2>3, <2>4
<1>4. ASSUME NEW r \in Rank, Close(r)
      PROVE  keepsValues /\ keepsLast /\ keepsUp /\ keepsDown
  <2>1. UNCHANGED <<values, last>>
    BY <1>4 DEF Close, gathering
  <2>2. \A p \in Peer : /\ up'[p] = up[p] \/ up'[p] = << >>
                        /\ down'[p] = down[p] \/ down'[p] = << >>
    <3>1. CASE r = 0
      BY <1>4, <3>1 DEF Close
    <3>2. CASE r # 0
      BY <1>4, <3>2 DEF Close, TypeOK
    <3> QED
      BY <3>1, <3>2
  <2> QED
    BY <1>0, <1>c, <2>1, <2>2
<1>5. ASSUME NEW p \in Peer, WriteLocal(p)
      PROVE  keepsValues /\ keepsLast /\ keepsUp /\ keepsDown
  <2>1. UNCHANGED <<values, last, down>>
    BY <1>5 DEF WriteLocal, gathering
  <2>2. keepsUp
    BY <1>5, <1>a DEF WriteLocal, TypeOK
  <2> QED
    BY <1>0, <2>1, <2>2
<1>6. ASSUME NEW p \in Peer, ReadBroadcast(p)
      PROVE  keepsValues /\ keepsLast /\ keepsUp /\ keepsDown
  <2>1. UNCHANGED <<values, up>>
    BY <1>6 DEF ReadBroadcast, gathering
  <2>2. keepsDown
    BY <1>6, <1>b DEF ReadBroadcast, TypeOK
  <2>3. keepsLast
    BY <1>6, <1>b DEF ReadBroadcast, Return, TypeOK
  <2> QED
    BY <1>0, <2>1, <2>2, <2>3
<1>7. ASSUME ReadPayload
      PROVE  keepsValues /\ keepsLast /\ keepsUp /\ keepsDown
  <2>1. UNCHANGED <<last, down>> /\ peer \in Peer
    BY <1>7 DEF ReadPayload, TypeOK, Peer
  <2>2. keepsUp
    BY <1>7, <1>a, <2>1 DEF ReadPayload, TypeOK
  <2>3. keepsValues
    BY <1>7, <1>a, <2>1 DEF ReadPayload, TypeOK
  <2> QED
    BY <1>0, <2>1, <2>2, <2>3
<1>8. ASSUME Encode
      PROVE  keepsValues /\ keepsLast /\ keepsUp /\ keepsDown
  BY <1>0, <1>8 DEF Encode, Fail, streams, gathering
<1>9. ASSUME WriteBroadcast
      PROVE  keepsValues /\ keepsLast /\ keepsUp /\ keepsDown
  <2>1. UNCHANGED <<values, last, up>> /\ peer \in Peer
    BY <1>9 DEF WriteBroadcast, TypeOK, Peer
  <2>2. keepsDown
    BY <1>9, <1>b, <2>1 DEF WriteBroadcast, TypeOK
  <2> QED
    BY <1>0, <2>1, <2>2
<1>10. ASSUME ReturnGathered
       PROVE  keepsValues /\ keepsLast /\ keepsUp /\ keepsDown
  <2>1. UNCHANGED <<values, up, down>>
    BY <1>10 DEF ReturnGathered, gathering, streams
  <2>2. keepsLast
    BY <1>10 DEF ReturnGathered, Return, TypeOK
  <2> QED
    BY <1>0, <2>1, <2>2
<1>11. ASSUME UNCHANGED vars
       PROVE  keepsValues /\ keepsLast /\ keepsUp /\ keepsDown
  BY <1>0, <1>11 DEF vars
<1> HIDE DEF keepsValues, keepsLast, keepsUp, keepsDown
<1>12. keepsValues /\ keepsLast /\ keepsUp /\ keepsDown
  BY <1>1, <1>2, <1>3, <1>4, <1>5, <1>6, <1>7, <1>8, <1>9, <1>10, <1>11 DEF Next
<1> QED
  BY <1>12 DEF Carried, keepsValues, keepsLast, keepsUp, keepsDown

LEMMA HonestKept ==
  ASSUME NEW q \in Rank, NEW f \in Frame, Honest(q, f), Onward(q), calls[q] \in Nat, calls'[q] \in Nat
  PROVE  Honest(q, f)'
BY DEF Honest, Onward, Frame

LEMMA OwnHonest ==
  ASSUME GroupTypeOK, GroupTypeOK', \A q \in Rank : Program(q) /\ Honest(q, own[q]),
         [GroupNext]_allVars
  PROVE  \A q \in Rank : Honest(q, own[q])'
<1> USE LifecycleFacts, RankFacts DEF GroupTypeOK
<1>1. ASSUME NEW q \in Rank, own'[q] = own[q] PROVE Honest(q, own[q])'
  <2>1. Onward(q) /\ own[q] \in Frame /\ calls[q] \in Nat /\ calls'[q] \in Nat
    BY OnwardStep DEF TypeOK
  <2>2. Honest(q, own[q])
    OBVIOUS
  <2> QED
    BY <1>1, <2>1, <2>2 DEF Honest, Onward, Frame
<1>2. CASE ChannelStep
  <2>1. UNCHANGED own
    BY <1>2 DEF ChannelStep, ContextEnds, Expire, ReadFails, WriteFails, WriteLocal, ReadBroadcast,
       ReadPayload, Encode, WriteBroadcast, ReturnGathered, Fail, Return
  <2> QED
    BY <1>1, <2>1
<1>3. ASSUME NEW r \in Rank, GroupStep(r) PROVE \A q \in Rank : Honest(q, own[q])'
  <2>1. ASSUME NEW n, CallAllGather(r, n)
        PROVE  /\ own'[r] = [call |-> calls[r] + 1, size |-> n] /\ calls'[r] = calls[r] + 1
               /\ pc[r] = "idle" /\ ~closed[r] /\ calls[r] \in Nat
    BY <2>1 DEF CallAllGather, TypeOK
  <2>2. CASE OpenLocal(r)
    <3>1. calls[r] = 0 /\ opened'[r]
      BY <2>2 DEF OpenLocal, Program
    <3>2. CallAllGather(r, DestBytes)
      BY <2>2 DEF OpenLocal
    <3>3. own'[r] = [call |-> 1, size |-> DestBytes] /\ calls'[r] = 1
      BY <2>1, <3>1, <3>2
    <3>4. Honest(r, own[r])'
      BY <3>1, <3>3 DEF Honest
    <3> QED
      BY <1>1, <1>3, <3>4, OthersStill DEF Still
  <2>3. ASSUME CallAllGather(r, 0), UNCHANGED opened, at[r] = "open" => ~opened[r]
        PROVE  \A q \in Rank : Honest(q, own[q])'
    <3>1. calls[r] = 0 => ~opened[r]
      <4>1. at[r] # "gone"
        BY <2>1, <2>3 DEF Program
      <4>2. at[r] \in Phase /\ entered[r] \in Nat /\ passed[r] \in Nat /\ calls[r] \in Nat
        BY DEF TypeOK
      <4> QED
        BY <2>3, <4>1, <4>2 DEF Program, Phase
    <3>2. /\ own'[r] = [call |-> calls[r] + 1, size |-> 0] /\ calls'[r] = calls[r] + 1
          /\ calls[r] \in Nat
      BY <2>1, <2>3
    <3>3. calls[r] + 1 = 1 => ~opened'[r]
      BY <2>3, <3>1, <3>2
    <3>4. Honest(r, own[r])'
      BY <3>2, <3>3 DEF Honest
    <3> QED
      BY <1>1, <1>3, OthersStill, <3>4 DEF Still
  <2>4. UNCHANGED vars => \A q \in Rank : Honest(q, own[q])'
    BY <1>1 DEF vars
  <2>5. CASE Close(r)
    BY <1>1, <2>5 DEF Close
  <2>6. at[r] = "open" => ~opened[r]
    BY DEF Program
  <2>7. \/ OpenLocal(r)
        \/ CallAllGather(r, 0) /\ UNCHANGED opened
        \/ UNCHANGED vars
        \/ Close(r)
    BY <1>3 DEF GroupStep, OpenFails, Exchanged, EnterBarrier, BarrierHalf,
                BarrierDone, CloseGroup, TeardownHalf, TeardownDone, CloseSide, BeginTeardown
  <2> QED
    BY <2>2, <2>3, <2>4, <2>5, <2>6, <2>7
<1>4. ASSUME NEW r \in Rank, Crash(r) PROVE \A q \in Rank : Honest(q, own[q])'
  BY <1>1, <1>4 DEF Crash, Close
<1>5. CASE UNCHANGED allVars
  BY <1>1, <1>5 DEF allVars, vars
<1> QED
  BY <1>2, <1>3, <1>4, <1>5 DEF GroupNext

LEMMA TruthStep ==
  ASSUME GroupTypeOK, GroupTypeOK', \A q \in Rank : Program(q), Truth, [GroupNext]_allVars
  PROVE  Truth'
<1> USE RankFacts DEF GroupTypeOK
<1>1. Carried
  BY ChannelMoves, ChannelCarries
<1>2. \A q \in Rank : Honest(q, own[q])'
  BY OwnHonest DEF Truth
<1>3. ASSUME NEW q \in Rank, NEW f \in Frame, Honest(q, f) PROVE Honest(q, f)'
  BY <1>3, HonestKept, OnwardStep DEF TypeOK
<1>4. \A q \in Rank : Honest(q, NoFrame)'
  BY DEF Honest, NoFrame, TypeOK
<1>5. /\ \A p \in Peer : Range(up[p]) \subseteq Frame
      /\ \A p \in Peer : Range(down[p]) \subseteq [Rank -> Frame]
  <2>1. ASSUME NEW p \in Peer
        PROVE  Range(up[p]) \subseteq Frame /\ Range(down[p]) \subseteq [Rank -> Frame]
    <3>1. up[p] \in Seq(Frame) /\ down[p] \in Seq([Rank -> Frame])
      BY DEF TypeOK
    <3> QED
      BY <3>1, RangeType
  <2> QED
    BY <2>1
<1>6. ASSUME NEW q \in Rank PROVE Honest(q, values[q])'
  <2>1. CASE values'[q] = values[q]
    <3>1. values[q] \in Frame /\ Honest(q, values[q])
      BY DEF Truth, TypeOK
    <3>2. \A f \in Frame : Honest(q, f) => Honest(q, f)'
      BY <1>3
    <3>3. (Honest(q, values[q]))' <=> /\ values'[q].call <= calls'[q]
                                      /\ values'[q].size # 0 => opened'[q]
                                      /\ values'[q].call = 1 /\ opened'[q] => values'[q].size # 0
      BY DEF Honest
    <3> QED
      BY <2>1, <3>1, <3>2, <3>3 DEF Honest
  <2>2. CASE values'[q] = NoFrame
    BY <1>4, <2>2 DEF Honest
  <2>3. CASE values'[q] = own'[q]
    BY <1>2, <2>3 DEF Honest
  <2>4. CASE q \in Peer /\ values'[q] \in Range(up[q])
    <3>1. PICK f \in Range(up[q]) : f = values'[q]
      BY <2>4
    <3>2. f \in Frame /\ Honest(q, f)
      BY <1>5, <2>4 DEF Truth
    <3>3. Honest(q, f)'
      BY <1>3, <3>2
    <3> QED
      BY <3>1, <3>3 DEF Honest
  <2> QED
    BY <1>1, <2>1, <2>2, <2>3, <2>4 DEF Carried
<1>7. ASSUME NEW r \in Rank, NEW q \in Rank PROVE Honest(q, last[r].vals[q])'
  <2>1. PICK vals \in [Rank -> Frame] : vals = last'[r].vals /\ Honest(q, vals[q])
    <3>1. CASE last'[r].vals \in {last[r].vals, values}
      BY <3>1 DEF Truth, TypeOK
    <3>2. CASE r \in Peer /\ last'[r].vals \in Range(down[r])
      BY <1>5, <3>2 DEF Truth
    <3> QED
      BY <1>1, <3>1, <3>2 DEF Carried
  <2>2. vals[q] \in Frame
    OBVIOUS
  <2>3. Honest(q, vals[q])'
    BY <1>3, <2>1, <2>2
  <2> QED
    BY <2>1, <2>3 DEF Honest
<1>8. ASSUME NEW p \in Peer, NEW f \in Range(up'[p])
      PROVE  /\ f.call <= calls'[p]
             /\ f.size # 0 => opened'[p]
             /\ f.call = 1 /\ opened'[p] => f.size # 0
  <2>1. f \in Range(up[p]) \/ f = own[p]
    BY <1>1, <1>8 DEF Carried
  <2>2. f \in Frame /\ Honest(p, f)
    <3>1. CASE f \in Range(up[p])
      BY <1>5, <3>1 DEF Truth
    <3>2. CASE f = own[p]
      BY <3>2 DEF Truth, TypeOK
    <3> QED
      BY <2>1, <3>1, <3>2
  <2>3. Honest(p, f)'
    BY <1>3, <2>2
  <2> QED
    BY <2>3 DEF Honest
<1>9. ASSUME NEW p \in Peer, NEW vals \in Range(down'[p]), NEW q \in Rank
      PROVE  /\ vals[q].call <= calls'[q]
             /\ vals[q].size # 0 => opened'[q]
             /\ vals[q].call = 1 /\ opened'[q] => vals[q].size # 0
  <2>1. vals \in Range(down[p]) \/ vals = values
    BY <1>1, <1>9 DEF Carried
  <2>2. vals[q] \in Frame /\ Honest(q, vals[q])
    <3>1. CASE vals \in Range(down[p])
      BY <1>5, <3>1 DEF Truth
    <3>2. CASE vals = values
      BY <3>2 DEF Truth, TypeOK
    <3> QED
      BY <2>1, <3>1, <3>2
  <2>3. Honest(q, vals[q])'
    BY <1>3, <2>2
  <2> QED
    BY <2>3 DEF Honest
<1> QED
  BY <1>2, <1>6, <1>7, <1>8, <1>9 DEF Truth, Honest, Range

-----------------------------------------------------------------------------
(* A working group has opened everywhere.                                   *)

Working(r) == entered[r] > 0 \/ at[r] \in {"ready", "barrier1", "barrier2"}

LEMMA WorkingStep ==
  ASSUME GroupTypeOK, \A q \in Rank : Program(q), [GroupNext]_allVars,
         NEW r \in Rank, Working(r)', ~Working(r)
  PROVE  \A q \in Rank : last[r].vals[q].size # 0
<1> USE RankFacts DEF GroupTypeOK, Goto
<1>1. CASE ChannelStep
  BY <1>1 DEF ChannelStep, ContextEnds, groupVars, Working
<1>2. ASSUME NEW x \in Rank, GroupStep(x) \/ Crash(x), x # r
      PROVE  \A q \in Rank : last[r].vals[q].size # 0
  BY <1>2, OthersStill DEF Still, Working
<1>3. CASE GroupStep(r)
  <2>1. CASE Exchanged(r)
    BY <2>1 DEF Exchanged, BeginTeardown, Decodes, Working
  <2>2. CASE ~Exchanged(r)
    BY <1>3, <2>2 DEF GroupStep, OpenLocal, OpenFails, EnterBarrier, BarrierHalf, BarrierDone,
       CloseGroup, TeardownHalf, TeardownDone, CloseSide, BeginTeardown, Returned, Working
  <2> QED
    BY <2>1, <2>2
<1>4. CASE Crash(r)
  BY <1>4 DEF Crash, Working
<1>5. CASE UNCHANGED allVars
  BY <1>5 DEF allVars, groupVars, Working
<1> QED
  BY <1>1, <1>2, <1>3, <1>4, <1>5 DEF GroupNext

LEMMA AllOpenedStep ==
  ASSUME GroupTypeOK, \A q \in Rank : Program(q), Truth, AllOpened, [GroupNext]_allVars
  PROVE  AllOpened'
<1>1. \A q \in Rank : opened[q] => opened'[q]
  BY OnwardStep DEF Onward
<1>2. ASSUME NEW r \in Rank, Working(r)', NEW q \in Rank PROVE opened'[q]
  <2>1. CASE Working(r)
    BY <1>1, <2>1 DEF AllOpened, Working
  <2>2. CASE ~Working(r)
    <3>1. last[r].vals[q].size # 0
      BY <1>2, <2>2, WorkingStep
    <3>2. Honest(q, last[r].vals[q])
      BY DEF Truth
    <3> QED
      BY <1>1, <3>1, <3>2 DEF Honest
  <2> QED
    BY <2>1, <2>2
<1> QED
  BY <1>2 DEF AllOpened, Working

\* What holds of every run, spoilt or not.
Core ==
  /\ GroupTypeOK
  /\ \A r \in Rank : Program(r)
  /\ Truth
  /\ AllOpened

LEMMA InitCore == GroupInit => Core
<1> SUFFICES ASSUME GroupInit PROVE Core
  OBVIOUS
<1> USE LifecycleFacts, RankFacts DEF GroupInit
<1>1. TypeOK
  BY InitTypeOK
<1>2. GroupTypeOK
  <2>1. 0 \in 0 .. NumBarriers /\ "open" \in Phase
    BY DEF Phase
  <2> QED
    BY <1>1, <2>1 DEF GroupTypeOK
<1>3. ASSUME NEW r \in Rank PROVE Program(r)
  BY DEF Init, Program, NoFrame, Teardown
<1>4. \A q \in Rank : Honest(q, NoFrame)
  BY DEF Init, Honest, NoFrame
<1>5. Range(<< >>) = {}
  BY DEF Range
<1>6. Truth
  BY <1>4, <1>5 DEF Init, Truth
<1>7. AllOpened
  BY DEF AllOpened
<1> QED
  BY <1>2, <1>3, <1>6, <1>7 DEF Core

LEMMA CoreStep == Core /\ [GroupNext]_allVars => Core'
BY GroupTypeStep, ProgramStep, TruthStep, AllOpenedStep DEF Core

(* A rank has a working group only if every rank opened its connections: the *)
(* empty payload of a failed rank's teardown is not taken for destinations.  *)
THEOREM WorkingGroupsOpened == GroupSpec => []ReadyMeansAllOpened
<1>1. Core => ReadyMeansAllOpened
  BY DEF Core, AllOpened, ReadyMeansAllOpened
<1> QED
  BY <1>1, InitCore, CoreStep, PTL DEF GroupSpec

-----------------------------------------------------------------------------
(* What is settled stays settled.                                           *)

LEMMA NotAllStays ==
  ASSUME \A q \in Rank : Onward(q), NotAll PROVE NotAll'
<1>1. PICK s \in Rank : ~opened[s] /\ at[s] # "open"
  BY DEF NotAll
<1>2. opened'[s] = opened[s] /\ at'[s] # "open"
  BY <1>1 DEF Onward
<1> QED
  BY <1>1, <1>2 DEF NotAll

LEMMA AnsweredStays ==
  ASSUME GroupTypeOK, GroupTypeOK', \A q \in Rank : Onward(q), NEW c \in Nat, Answered(c)
  PROVE  Answered(c)'
<1>1. CASE NotAll
  BY <1>1, NotAllStays DEF Answered
<1>2. CASE ~NotAll
  <2>1. ASSUME NEW q \in Rank PROVE entered'[q] = NumBarriers \/ c <= 2 * entered'[q] + 1
    <3>1. entered[q] \in 0 .. NumBarriers /\ entered'[q] \in 0 .. NumBarriers /\ NumBarriers \in Nat
      BY LifecycleFacts DEF GroupTypeOK
    <3>2. entered[q] <= entered'[q]
      BY DEF Onward
    <3>3. entered[q] = NumBarriers \/ c <= 2 * entered[q] + 1
      BY <1>2 DEF Answered
    <3> QED
      BY ONLY <3>1, <3>2, <3>3, c \in Nat
  <2> QED
    BY <2>1 DEF Answered
<1> QED
  BY <1>1, <1>2

\* A broadcast is written only while no call of rank 0 has failed.
LEMMA Casting ==
  ASSUME Core, FailedStep(0), at[0] # "gone",
         pc[0] = "cast" \/ (pc[0] = "gather" /\ peer = N)
  PROVE  Live
<1> USE RankFacts, NAssumption DEF Core
<1>1. Program(0)
  OBVIOUS
<1>2. ~closed[0]
  BY <1>1 DEF Program
<1>3. ~Done(0)
  BY <1>1 DEF Program, Done
<1>4. \A q \in Peer : ~(N <= q)
  BY DEF Peer
<1>5. ~failed[0]
  BY <1>3, <1>4 DEF FailedStep
<1> QED
  BY <1>2, <1>5 DEF Live

\* A peer that is about to write has nothing in flight.
LEMMA Writing ==
  ASSUME Core, NEW p \in Peer, UpStep(p), DownStep(p), FailedStep(p),
         at[p] # "gone", pc[p] = "write"
  PROVE  /\ up[p] = << >> /\ down[p] = << >>
         /\ failed[p] => closed[0]
<1> USE RankFacts DEF Core
<1>1. Program(p) /\ p # 0
  OBVIOUS
<1>2. ~Done(p)
  BY <1>1 DEF Program, Done
<1>3. failed[p] => closed[0] /\ down[p] = << >>
  BY <1>1, <1>2 DEF FailedStep
<1> QED
  BY <1>3 DEF UpStep, DownStep, Waiting

\* Which rank may change a stream, and how.
LEMMA StreamMoves ==
  ASSUME Core, [GroupNext]_allVars, NEW p \in Peer
  PROVE  /\ \/ up'[p] = up[p] \/ up'[p] = << >>
            \/ up'[p] = Tail(up[p]) /\ up[p] # << >>
            \/ pc[p] = "write" /\ at[p] # "gone"
         /\ \/ down'[p] = down[p] \/ down'[p] = << >>
            \/ down'[p] = Tail(down[p]) /\ down[p] # << >>
            \/ pc[0] = "cast" /\ at[0] # "gone"
<1> USE LifecycleFacts, RankFacts DEF Core, GroupTypeOK, TypeOK
<1> DEFINE upMoves == \/ up'[p] = up[p] \/ up'[p] = << >>
                      \/ up'[p] = Tail(up[p]) /\ up[p] # << >>
                      \/ pc[p] = "write" /\ at[p] # "gone"
           downMoves == \/ down'[p] = down[p] \/ down'[p] = << >>
                        \/ down'[p] = Tail(down[p]) /\ down[p] # << >>
                        \/ pc[0] = "cast" /\ at[0] # "gone"
<1>1. ASSUME NEW r \in Rank, at[r] # "gone", Expire(r) PROVE upMoves /\ downMoves
  <2>1. \/ UNCHANGED up
        \/ pc[r] = "write" /\ up' = [up EXCEPT ![r] = Append(@, own[r])]
        \/ \E q \in Peer : up[q] # << >> /\ up' = [up EXCEPT ![q] = Tail(@)]
    BY <1>1, ReadingType DEF Expire, StreamEmpty, streams
  <2>2. \/ UNCHANGED down
        \/ r = 0 /\ pc[0] = "cast"
        \/ \E q \in Peer : down[q] # << >> /\ down' = [down EXCEPT ![q] = Tail(@)]
    BY <1>1, ReadingType DEF Expire, StreamEmpty, streams
  <2>3. upMoves
    BY <1>1, <2>1
  <2>4. downMoves
    BY <1>1, <2>2
  <2> QED
    BY <2>3, <2>4
<1>2. ASSUME NEW q \in Peer, at[q] # "gone", WriteLocal(q) \/ ReadBroadcast(q)
      PROVE  upMoves /\ downMoves
  BY <1>2 DEF WriteLocal, ReadBroadcast
<1>3. ASSUME at[0] # "gone", ReadPayload \/ Encode \/ WriteBroadcast \/ ReturnGathered
      PROVE  upMoves /\ downMoves
  <2>1. CASE ReadPayload
    BY <2>1 DEF ReadPayload
  <2>2. CASE WriteBroadcast
    BY <1>3, <2>2 DEF WriteBroadcast
  <2>3. CASE Encode \/ ReturnGathered
    BY <2>3 DEF Encode, ReturnGathered, streams
  <2> QED
    BY <1>3, <2>1, <2>2, <2>3
<1>4. ASSUME NEW r \in Rank, Close(r) PROVE upMoves /\ downMoves
  <2>1. CASE r = 0
    BY <1>4, <2>1 DEF Close
  <2>2. CASE r # 0
    BY <1>4, <2>2 DEF Close
  <2> QED
    BY <2>1, <2>2
<1>5. UNCHANGED streams => upMoves /\ downMoves
  BY DEF streams
<1> HIDE DEF upMoves, downMoves
<1>6. ASSUME ChannelStep PROVE upMoves /\ downMoves
  BY <1>1, <1>2, <1>3, <1>5, <1>6 DEF ChannelStep, ContextEnds, ReadFails, WriteFails
<1>7. ASSUME NEW r \in Rank, GroupStep(r) \/ Crash(r) PROVE upMoves /\ downMoves
  <2>1. UNCHANGED streams \/ Close(r)
    BY <1>7 DEF GroupStep, Crash, OpenLocal, OpenFails, Exchanged, EnterBarrier, BarrierHalf,
       BarrierDone, CloseGroup, TeardownHalf, TeardownDone, CloseSide, BeginTeardown,
       CallAllGather, vars, streams
  <2> QED
    BY <1>4, <1>5, <1>7, <2>1
<1>8. ASSUME UNCHANGED allVars PROVE upMoves /\ downMoves
  BY <1>5, <1>8 DEF allVars, vars, streams
<1>9. upMoves /\ downMoves
  BY <1>6, <1>7, <1>8 DEF GroupNext
<1> QED
  BY <1>9 DEF upMoves, downMoves

-----------------------------------------------------------------------------
(* The streams stay in step.                                                *)

StreamsStep ==
  /\ \A p \in Peer : UpStep(p) /\ DownStep(p)
  /\ LoopStep

\* What is known of every step: an answered call stays answered.
Settled == \A c \in Nat : Answered(c) => Answered(c)'

\* A call that ends with an error, leaving every stream empty or as it was.
LEMMA FailKeeps ==
  ASSUME Core, InStep, Settled, NEW r \in Rank, pc[r] # "idle", Fail(r),
         \A p \in Peer : /\ up'[p] = up[p] \/ up'[p] = << >>
                         /\ down'[p] = down[p] \/ down'[p] = << >>
  PROVE  StreamsStep'
<1> USE RankFacts DEF Core, GroupTypeOK, TypeOK, InStep
<1>1. /\ pc' = [pc EXCEPT ![r] = "idle"]
      /\ failed' = [failed EXCEPT ![r] = TRUE]
      /\ UNCHANGED <<calls, own, peer, values, last, closed>>
  BY DEF Fail, gathering
<1>2. Live' => Live /\ pc'[0] = pc[0]
  BY <1>1 DEF Live
<1>3. ASSUME NEW p \in Peer PROVE UpStep(p)'
  <2>1. Live' => Taken(p)' = Taken(p)
    BY <1>1, <1>2 DEF Taken
  <2>2. (Waiting(p) => Waiting(p)') /\ (pc'[p] = "idle" /\ ~failed'[p] => pc[p] = "idle" /\ ~failed[p])
    BY <1>1, <1>3 DEF Waiting
  <2>3. pc'[p] = "write" => pc[p] = "write"
    BY <1>1, <1>3
  <2> QED
    BY <1>1, <1>2, <1>3, <2>1, <2>2, <2>3 DEF UpStep
<1>4. ASSUME NEW p \in Peer PROVE DownStep(p)'
  <2>1. Live' => Taken(p)' = Taken(p)
    BY <1>1, <1>2 DEF Taken
  <2>2. Waiting(p) => Waiting(p)'
    BY <1>1, <1>4 DEF Waiting
  <2>3. Answered(calls[p]) => Answered(calls[p])'
    <3>1. calls[p] \in Nat /\ calls'[p] = calls[p]
      BY <1>1, <1>4
    <3> QED
      BY <3>1 DEF Settled, Answered
  <2>4. CASE down'[p] = << >>
    BY <2>4 DEF DownStep
  <2>5. CASE down'[p] = down[p] /\ down[p] # << >>
    <3>1. up'[p] = << >> /\ Waiting(p) /\ calls'[p] = calls[p]
      BY <1>1, <1>4, <2>5 DEF DownStep
    <3> QED
      BY <1>2, <1>4, <2>1, <2>2, <2>3, <2>5, <3>1 DEF DownStep
  <2> QED
    BY <1>4, <2>4, <2>5
<1>5. LoopStep'
  <2>1. \A p \in Peer : Waiting(p) => Waiting(p)'
    BY <1>1 DEF Waiting
  <2>2. Answered(calls[0]) => Answered(calls[0])'
    <3>1. calls[0] \in Nat /\ calls'[0] = calls[0]
      BY <1>1
    <3> QED
      BY <3>1 DEF Settled, Answered
  <2>3. Live' => \A p \in Peer : Owed(p)' = Owed(p)
    BY <1>1, <1>2 DEF Owed
  <2> QED
    BY <1>1, <1>2, <2>1, <2>2, <2>3 DEF LoopStep
<1> QED
  BY <1>3, <1>4, <1>5 DEF StreamsStep

LEMMA CloseKeeps ==
  ASSUME Core, InStep, Settled, NEW r \in Rank, Close(r)
  PROVE  StreamsStep'
<1> USE RankFacts DEF Core, GroupTypeOK, TypeOK, InStep
<1>1. /\ UNCHANGED <<pc, calls, own, peer, values, torn, failed, last>>
      /\ closed' = [closed EXCEPT ![r] = TRUE]
  BY DEF Close, gathering
<1>2. /\ \A p \in Peer : /\ up'[p] = up[p] \/ up'[p] = << >>
                         /\ down'[p] = down[p] \/ down'[p] = << >>
      /\ closed'[0] => \A p \in Peer : up'[p] = << >>
  <2>1. CASE r = 0
    BY <2>1 DEF Close
  <2>2. CASE r # 0
    BY <1>1, <2>2 DEF Close, UpStep
  <2> QED
    BY <2>1, <2>2
<1>3. Live' => Live
  BY <1>1 DEF Live
<1>4. \A p \in Peer : Taken(p)' = Taken(p) /\ Waiting(p)' = Waiting(p) /\ Owed(p)' = Owed(p)
  BY <1>1 DEF Taken, Waiting, Owed
<1>5. \A q \in Rank : Answered(calls[q]) => Answered(calls[q])'
  BY <1>1 DEF Settled, Answered
<1>6. ASSUME NEW p \in Peer PROVE UpStep(p)'
  BY <1>1, <1>2, <1>3, <1>4, <1>6 DEF UpStep
<1>7. ASSUME NEW p \in Peer PROVE DownStep(p)'
  <2>1. DownStep(p) /\ p \in Rank
    BY <1>7
  <2>2. calls'[p] = calls[p] /\ down'[p] \in {down[p], << >>} /\ Len(<< >>) = 0
    BY <1>1, <1>2, <1>7
  <2>3. down'[p] # << >> => /\ down'[p] = down[p] /\ Waiting(p)' /\ up'[p] = << >>
                            /\ Live' => calls[p] = Taken(p)'
                            /\ Answered(calls[p])'
    BY <1>1, <1>2, <1>3, <1>4, <1>5, <2>1, <2>2 DEF DownStep
  <2>4. Len(down'[p]) <= 1
    BY <2>1, <2>2 DEF DownStep
  <2>5. down'[p] # << >> => \A q \in Rank : Head(down'[p])[q].call = calls'[p]
    BY <2>1, <2>2, <2>3 DEF DownStep
  <2> QED
    BY ONLY <2>2, <2>3, <2>4, <2>5 DEF DownStep
<1>8. LoopStep'
  BY <1>1, <1>2, <1>3, <1>4, <1>5 DEF LoopStep
<1> QED
  BY <1>6, <1>7, <1>8 DEF StreamsStep

LEMMA BeginKeeps ==
  ASSUME Core, InStep, Settled, NEW r \in Rank, NEW n \in Sizes, n <= MaxFrame,
         CallAllGather(r, n), failed[r] /\ r # 0 => closed[0] /\ down[r] = << >>
  PROVE  StreamsStep'
<1> USE RankFacts, NAssumption DEF Core, GroupTypeOK, TypeOK, InStep
<1>0. n \in Nat /\ MaxFrame \in Nat /\ ~(n > MaxFrame)
  BY BoundAssumption
<1>1. /\ pc[r] = "idle"
      /\ calls' = [calls EXCEPT ![r] = @ + 1]
      /\ pc' = [pc EXCEPT ![r] = IF r = 0 THEN "gather" ELSE "write"]
      /\ UNCHANGED <<up, down, torn, closed, last, failed>>
  BY <1>0 DEF CallAllGather, streams
<1>2. Live' = Live
  BY <1>1 DEF Live
<1>3. \A q \in Rank : calls[q] \in Nat /\ (Answered(calls[q]) => Answered(calls[q])' \/ q = r)
  BY <1>1 DEF Settled, Answered
<1>4. CASE r = 0
  <2>1. /\ peer' = 1
        /\ values' = [[q \in Rank |-> NoFrame] EXCEPT ![0] = [call |-> calls[0] + 1, size |-> n]]
    BY <1>0, <1>4 DEF CallAllGather
  <2>2. ASSUME NEW p \in Peer
        PROVE  /\ Taken(p)' = Taken(p) /\ Waiting(p)' = Waiting(p) /\ calls'[p] = calls[p]
               /\ pc'[p] = pc[p] /\ ~Owed(p)'
    <3>1. calls[0] \in Int /\ calls'[0] = calls[0] + 1 /\ pc'[0] = "gather" /\ pc[0] = "idle"
      BY <1>1, <1>4
    <3>2. calls'[p] = calls[p] /\ pc'[p] = pc[p] /\ p \in Nat /\ 1 <= p
      BY <1>1, <1>4, <2>2 DEF Peer
    <3>3. Taken(p)' = Taken(p) /\ ~Owed(p)'
      BY ONLY <2>1, <3>1, <3>2 DEF Taken, Owed
    <3> QED
      BY <1>1, <3>2, <3>3 DEF Waiting
  <2>3. ASSUME NEW p \in Peer PROVE UpStep(p)'
    BY <1>1, <1>2, <2>2, <2>3 DEF UpStep
  <2>4. ASSUME NEW p \in Peer PROVE DownStep(p)'
    BY <1>1, <1>2, <1>3, <1>4, <2>2, <2>4 DEF DownStep
  <2>5. LoopStep'
    BY <1>1, <1>4, <2>1, <2>2 DEF LoopStep, Peer
  <2> QED
    BY <2>3, <2>4, <2>5 DEF StreamsStep
<1>5. CASE r # 0
  <2>0. r \in Peer
    BY <1>5 DEF Rank, Peer
  <2>1. UNCHANGED <<peer, values>> /\ pc'[r] = "write" /\ pc'[0] = pc[0] /\ calls'[0] = calls[0]
    BY <1>0, <1>1, <1>5 DEF CallAllGather, gathering
  <2>2. up[r] = << >> /\ down[r] = << >> /\ (Live => ~failed[r])
    BY <1>1, <1>5, <2>0 DEF UpStep, DownStep, Waiting, Live
  <2>3. \A p \in Peer : Taken(p)' = Taken(p) /\ Owed(p)' = Owed(p)
    BY <2>1 DEF Taken, Owed
  <2>4. \A p \in Peer : p # r => Waiting(p)' = Waiting(p) /\ calls'[p] = calls[p] /\ pc'[p] = pc[p]
    BY <1>1 DEF Waiting
  <2>5. Live => calls[r] = Taken(r) /\ calls'[r] = Taken(r) + 1 /\ (pc[0] # "idle" => ~Owed(r))
    BY <1>1, <2>0, <2>2 DEF UpStep, LoopStep, Waiting
  <2>6. ASSUME NEW p \in Peer PROVE UpStep(p)'
    <3>1. CASE p = r
      BY <1>1, <1>2, <2>1, <2>2, <2>3, <2>5, <3>1 DEF UpStep
    <3>2. CASE p # r
      BY <1>1, <1>2, <2>3, <2>4, <2>6, <3>2 DEF UpStep
    <3> QED
      BY <3>1, <3>2
  <2>7. ASSUME NEW p \in Peer PROVE DownStep(p)'
    <3>1. CASE p = r
      BY <1>1, <2>2, <2>7, <3>1 DEF DownStep
    <3>2. CASE p # r
      BY <1>1, <1>2, <1>3, <2>3, <2>4, <2>7, <3>2 DEF DownStep
    <3> QED
      BY <3>1, <3>2
  <2>8. LoopStep'
    BY <1>1, <1>2, <1>3, <1>5, <2>1, <2>3, <2>4, <2>5 DEF LoopStep
  <2> QED
    BY <2>6, <2>7, <2>8 DEF StreamsStep
<1> QED
  BY <1>4, <1>5

LEMMA WriteKeeps ==
  ASSUME Core, InStep, Settled, NEW p \in Peer, at[p] # "gone", pc[p] = "write",
         up' = [up EXCEPT ![p] = IF closed[0] THEN @ ELSE Append(@, own[p])],
         \/ pc' = [pc EXCEPT ![p] = "read"] /\ UNCHANGED failed
         \/ /\ pc' = [pc EXCEPT ![p] = "idle"]
            /\ failed' = [failed EXCEPT ![p] = TRUE],
         UNCHANGED <<calls, own, peer, values, down, last, closed>>
  PROVE  StreamsStep'
<1> USE RankFacts DEF Core, GroupTypeOK, TypeOK, InStep
<1>1. up[p] = << >> /\ down[p] = << >> /\ (failed[p] => closed[0])
  BY Writing
<1>2. own[p] \in Frame /\ own[p].call = calls[p]
  BY DEF Program
<1>3. \/ closed[0] /\ up'[p] = << >>
      \/ ~closed[0] /\ up'[p] # << >> /\ Len(up'[p]) = 1 /\ Head(up'[p]) = own[p]
  BY <1>1, <1>2, PutFirst
<1>4. /\ Live' = Live /\ pc'[0] = pc[0] /\ Waiting(p)'
      /\ pc'[p] # "write" /\ (pc'[p] = "idle" => failed'[p])
  BY DEF Live, Waiting
<1>5. \A q \in Peer : Taken(q)' = Taken(q) /\ Owed(q)' = Owed(q)
  BY <1>4 DEF Taken, Owed
<1>6. \A q \in Peer : q # p => up'[q] = up[q] /\ Waiting(q)' = Waiting(q)
                               /\ pc'[q] = pc[q] /\ failed'[q] = failed[q]
  BY DEF Waiting
<1>7. \A q \in Rank : Answered(calls[q]) => Answered(calls[q])'
  BY DEF Settled, Answered
<1>8. Live => ~Owed(p) \/ pc[0] = "idle"
  BY <1>1 DEF LoopStep, Waiting, Live
<1>9. ASSUME NEW q \in Peer PROVE UpStep(q)'
  <2>1. CASE q = p
    <3>1. Live => calls[p] = Taken(p) + 1
      BY DEF UpStep
    <3>2. Len(up'[p]) <= 1 /\ (closed[0] => up'[p] = << >>)
      BY <1>3
    <3> QED
      BY <1>2, <1>3, <1>4, <1>5, <2>1, <3>1, <3>2 DEF UpStep
  <2>2. CASE q # p
    BY <1>4, <1>5, <1>6, <1>9, <2>2 DEF UpStep
  <2> QED
    BY <2>1, <2>2
<1>10. ASSUME NEW q \in Peer PROVE DownStep(q)'
  <2>1. CASE q = p
    BY <1>1, <2>1 DEF DownStep
  <2>2. CASE q # p
    BY <1>4, <1>5, <1>6, <1>7, <1>10, <2>2 DEF DownStep
  <2> QED
    BY <2>1, <2>2
<1>11. LoopStep'
  BY <1>4, <1>5, <1>6, <1>7, <1>8 DEF LoopStep
<1> QED
  BY <1>9, <1>10, <1>11 DEF StreamsStep

LEMMA ReadKeeps ==
  ASSUME Core, InStep, Settled, NEW p \in Peer, ReadBroadcast(p)
  PROVE  StreamsStep'
<1> USE RankFacts DEF Core, GroupTypeOK, TypeOK, InStep
<1>1. /\ pc[p] = "read" /\ down[p] # << >> /\ down[p] \in Seq([Rank -> Frame])
      /\ pc' = [pc EXCEPT ![p] = "idle"]
      /\ down' = [down EXCEPT ![p] = Tail(@)]
      /\ UNCHANGED <<calls, own, failed, peer, values, up, closed>>
  BY DEF ReadBroadcast, Return, gathering
<1>2. down'[p] = << >> /\ Len(down'[p]) = 0
  BY <1>1, TakeOnly DEF DownStep
<1>3. up[p] = << >> /\ (Live => calls[p] = Taken(p))
  BY <1>1 DEF DownStep
<1>4. Live' = Live /\ pc'[0] = pc[0]
  BY <1>1 DEF Live
<1>5. \A q \in Peer : Taken(q)' = Taken(q) /\ Owed(q)' = Owed(q)
  BY <1>1, <1>4 DEF Taken, Owed
<1>6. \A q \in Peer : q # p => /\ down'[q] = down[q] /\ Waiting(q)' = Waiting(q)
                               /\ pc'[q] = pc[q]
  BY <1>1 DEF Waiting
<1>7. \A q \in Rank : Answered(calls[q]) => Answered(calls[q])'
  BY <1>1 DEF Settled, Answered
<1>8. Live => ~Owed(p) \/ pc[0] = "idle"
  BY <1>1 DEF LoopStep
<1>9. ASSUME NEW q \in Peer PROVE UpStep(q)'
  <2>1. CASE q = p
    BY <1>1, <1>3, <1>4, <1>5, <2>1 DEF UpStep
  <2>2. CASE q # p
    BY <1>1, <1>4, <1>5, <1>6, <1>9, <2>2 DEF UpStep
  <2> QED
    BY <2>1, <2>2
<1>10. ASSUME NEW q \in Peer PROVE DownStep(q)'
  <2>1. CASE q = p
    BY <1>2, <2>1 DEF DownStep
  <2>2. CASE q # p
    BY <1>1, <1>4, <1>5, <1>6, <1>7, <1>10, <2>2 DEF DownStep
  <2> QED
    BY <2>1, <2>2
<1>11. LoopStep'
  BY <1>1, <1>4, <1>5, <1>6, <1>7, <1>8 DEF LoopStep
<1> QED
  BY <1>9, <1>10, <1>11 DEF StreamsStep

LEMMA PayloadKeeps ==
  ASSUME Core, InStep, Settled, ReadPayload
  PROVE  StreamsStep'
<1> USE RankFacts, NAssumption DEF Core, GroupTypeOK, TypeOK, InStep
<1>1. /\ pc[0] = "gather" /\ peer \in Peer
      /\ up[peer] # << >> /\ up[peer] \in Seq(Frame)
      /\ values' = [values EXCEPT ![peer] = Head(up[peer])]
      /\ up' = [up EXCEPT ![peer] = Tail(@)]
      /\ peer' = peer + 1
      /\ UNCHANGED <<pc, calls, own, down, failed, last, closed>>
  BY DEF ReadPayload, Peer
<1>2. up'[peer] = << >> /\ Len(up'[peer]) = 0 /\ Head(up[peer]) \in Frame
  BY <1>1, TakeOnly DEF UpStep
<1>3. Live' = Live /\ \A q \in Peer : Waiting(q)' = Waiting(q)
  BY <1>1 DEF Live, Waiting
<1>4. Live => calls[peer] = calls[0] /\ Waiting(peer) /\ Head(up[peer]).call = calls[0]
  BY <1>1 DEF UpStep, Taken
<1>5. down[peer] = << >>
  BY <1>1 DEF DownStep
<1>6. \A q \in Rank : Answered(calls[q]) => Answered(calls[q])'
  BY <1>1 DEF Settled, Answered
<1>7. ASSUME NEW q \in Peer PROVE UpStep(q)' /\ DownStep(q)'
  <2>1. CASE q = peer
    <3>1. Live => Taken(q)' = calls[q]
      BY <1>1, <1>4, <2>1 DEF Taken
    <3>2. Live => pc[q] # "write"
      BY <1>4, <2>1 DEF Waiting, FailedStep, Live
    <3> QED
      BY <1>1, <1>2, <1>3, <1>5, <2>1, <3>1, <3>2 DEF UpStep, DownStep
  <2>2. CASE q # peer
    <3>1. peer' <= q <=> peer <= q
      <4>1. peer' = peer + 1 /\ peer \in Int /\ q \in Int
        BY <1>1 DEF Peer
      <4> QED
        BY ONLY <2>2, <4>1
    <3>2. Taken(q)' = Taken(q)
      BY <1>1, <3>1 DEF Taken
    <3> QED
      BY <1>1, <1>3, <1>6, <1>7, <2>2, <3>2 DEF UpStep, DownStep
  <2> QED
    BY <2>1, <2>2
<1>8. ASSUME Live PROVE LoopStep'
  <2>1. values'[0].call = calls[0]
    BY <1>1, <1>8 DEF LoopStep
  <2>2. ASSUME NEW q \in Peer
        PROVE  /\ q < peer' => values'[q].call = calls[0]
               /\ q < peer' => /\ calls[q] = calls[0] /\ Waiting(q)
                               /\ up'[q] = << >> /\ down[q] = << >>
    <3>1. CASE q = peer
      BY <1>1, <1>2, <1>4, <1>5, <1>8, <3>1
    <3>2. CASE q # peer
      <4>1. q < peer' => q < peer
        <5>1. peer' = peer + 1 /\ peer \in Int /\ q \in Int
          BY <1>1 DEF Peer
        <5> QED
          BY ONLY <5>1, <3>2
      <4> QED
        BY <1>1, <1>8, <3>2, <4>1 DEF LoopStep, Owed
    <3> QED
      BY <3>1, <3>2
  <2> QED
    BY <1>1, <1>3, <2>1, <2>2 DEF LoopStep, Owed
<1> QED
  BY <1>3, <1>7, <1>8 DEF StreamsStep, LoopStep

\* Rank 0 has every payload: each rank is in its program, or some never opens.
LEMMA GatheredIsAnswered ==
  ASSUME Core, InStep, at[0] # "gone", pc[0] = "gather", peer = N
  PROVE  Live /\ Answered(calls[0])
<1> USE RankFacts, NAssumption DEF Core, GroupTypeOK, TypeOK, InStep
<1>1. Live
  BY Casting
<1>2. ASSUME NEW q \in Rank, ~NotAll PROVE entered[q] = NumBarriers \/ calls[0] <= 2 * entered[q] + 1
  <2>1. ~Lost(q)
    BY <1>1 DEF Lost, Live
  <2>2. calls[q] = calls[0]
    BY <1>1 DEF LoopStep, Owed, Rank, Peer
  <2> QED
    BY <1>2, <2>1, <2>2 DEF Reason
<1> QED
  BY <1>1, <1>2 DEF Answered

LEMMA EncodeKeeps ==
  ASSUME Core, InStep, Settled, at[0] # "gone", Encode
  PROVE  StreamsStep'
<1> USE RankFacts, NAssumption DEF Core, GroupTypeOK, TypeOK, InStep
<1>0. pc[0] = "gather" /\ peer = N
  BY DEF Encode
<1>1. Live /\ Answered(calls[0])
  BY <1>0, GatheredIsAnswered
<1>2. CASE Fail(0)
  BY <1>0, <1>2, FailKeeps DEF Encode, streams
<1>3. CASE ~Fail(0)
  <2>1. /\ pc' = [pc EXCEPT ![0] = "cast"] /\ peer' = 1
        /\ UNCHANGED <<calls, own, values, failed, up, down, last, closed>>
    BY <1>3 DEF Encode, streams
  <2>2. \A q \in Rank : Answered(calls[q]) => Answered(calls[q])'
    BY <2>1 DEF Settled, Answered
  <2>3. ASSUME NEW q \in Peer PROVE UpStep(q)' /\ DownStep(q)'
    <3>1. Taken(q)' = Taken(q)
      BY <1>0, <2>1 DEF Taken, Peer
    <3>2. Live' = Live /\ Waiting(q)' = Waiting(q) /\ pc'[q] = pc[q]
      BY <2>1 DEF Live, Waiting
    <3> QED
      BY <2>1, <2>2, <2>3, <3>1, <3>2 DEF UpStep, DownStep
  <2>4. LoopStep'
    <3>1. ASSUME NEW q \in Peer
          PROVE  /\ values[q].call = calls[0] /\ calls[q] = calls[0] /\ Waiting(q)'
                 /\ up[q] = << >> /\ down[q] = << >>
      <4>1. Owed(q) /\ q < peer
        BY <1>0 DEF Owed, Peer
      <4> QED
        BY <1>0, <1>1, <2>1, <4>1 DEF LoopStep, Waiting
    <3>2. values[0].call = calls[0]
      BY <1>0, <1>1 DEF LoopStep
    <3> QED
      BY <1>1, <2>1, <2>2, <3>1, <3>2 DEF LoopStep
  <2> QED
    BY <2>3, <2>4 DEF StreamsStep
<1> QED
  BY <1>2, <1>3

LEMMA BroadcastKeeps ==
  ASSUME Core, InStep, Settled, at[0] # "gone", pc[0] = "cast", peer < N,
         \/ down' = down
         \/ down' = [down EXCEPT ![peer] = Append(@, values)],
         \/ peer' = peer + 1 /\ UNCHANGED <<pc, failed>>
         \/ /\ pc' = [pc EXCEPT ![0] = "idle"]
            /\ failed' = [failed EXCEPT ![0] = TRUE]
            /\ UNCHANGED peer,
         UNCHANGED <<calls, own, values, up, last, closed>>
  PROVE  StreamsStep'
<1> USE RankFacts, NAssumption DEF Core, GroupTypeOK, TypeOK, InStep
<1>0. Live
  BY Casting
<1>1. peer \in Peer
  BY DEF Peer
<1>2. /\ calls[peer] = calls[0] /\ Waiting(peer)
      /\ up[peer] = << >> /\ down[peer] = << >>
  BY <1>0, <1>1 DEF LoopStep, Owed
<1>3. /\ \A q \in Rank : values[q].call = calls[0]
      /\ Answered(calls[0])
  <2>1. \A q \in Rank : q = 0 \/ q \in Peer
    BY DEF Rank, Peer
  <2> QED
    BY <1>0, <2>1 DEF LoopStep
<1>4. \/ down'[peer] = << >> /\ Len(down'[peer]) = 0
      \/ down'[peer] # << >> /\ Len(down'[peer]) = 1 /\ Head(down'[peer]) = values
  BY <1>1, <1>2, PutFirst
<1>5. \A q \in Rank : Answered(calls[q]) => Answered(calls[q])'
  BY DEF Settled, Answered
<1>6. Live' => peer' = peer + 1 /\ UNCHANGED <<pc, failed>>
  BY DEF Live
<1>7. \A q \in Peer : pc'[q] = pc[q] /\ failed'[q] = failed[q] /\ Waiting(q)' = Waiting(q)
  BY DEF Waiting
<1>8. \A q \in Peer : Live' => Taken(q)' = Taken(q)
  BY <1>6 DEF Taken
<1>9. ASSUME NEW q \in Peer PROVE UpStep(q)' /\ DownStep(q)'
  <2>1. UpStep(q)'
    BY <1>0, <1>7, <1>8, <1>9 DEF UpStep
  <2>2. CASE q = peer
    <3>1. Taken(q) = calls[0] /\ calls'[q] = calls[0]
      BY <1>2, <2>2 DEF Taken
    <3>2. Len(down'[q]) <= 1
      <4>1. 0 <= 1 /\ 1 <= 1
        OBVIOUS
      <4> QED
        BY ONLY <1>4, <2>2, <4>1, Zenon
    <3>3. Answered(calls[q])'
      BY <1>2, <1>3, <1>5, <2>2
    <3>4. Waiting(q)' /\ up'[q] = << >>
      BY <1>2, <1>7, <1>9, <2>2
    <3>5. Live' => Taken(q)' = calls'[q]
      BY <1>8, <1>9, <3>1
    <3>6. down'[q] # << >> => \A x \in Rank : Head(down'[q])[x].call = calls'[q]
      BY <1>3, <1>4, <2>2, <3>1
    <3> QED
      BY ONLY <2>1, <3>2, <3>3, <3>4, <3>5, <3>6 DEF DownStep
  <2>3. CASE q # peer
    <3>1. down'[q] = down[q]
      BY <1>9, <2>3
    <3> QED
      BY <1>0, <1>5, <1>7, <1>8, <1>9, <2>1, <3>1 DEF DownStep
  <2> QED
    BY <2>2, <2>3
<1>10. ASSUME Live' PROVE LoopStep'
  <2>1. ASSUME NEW q \in Peer, Owed(q)'
        PROVE  /\ calls[q] = calls[0] /\ Waiting(q)
               /\ up[q] = << >> /\ down'[q] = << >>
    <3>1. peer + 1 <= q /\ peer \in Int /\ q \in Int
      <4>1. pc'[0] = "cast" /\ peer' = peer + 1 /\ peer \in Int /\ q \in Int
        BY <1>1, <1>6, <1>10 DEF Peer
      <4> QED
        BY ONLY <4>1, <2>1 DEF Owed
    <3>2. peer <= q /\ q # peer
      BY ONLY <3>1
    <3>3. Owed(q)
      BY <3>2 DEF Owed
    <3> QED
      BY <1>0, <2>1, <3>2, <3>3 DEF LoopStep
  <2>2. Answered(calls[0])'
    BY <1>3, <1>5
  <2> QED
    BY <1>3, <1>7, <2>1, <2>2 DEF LoopStep
<1> QED
  BY <1>9, <1>10 DEF StreamsStep, LoopStep

LEMMA ReturnKeeps ==
  ASSUME Core, InStep, Settled, at[0] # "gone", ReturnGathered
  PROVE  StreamsStep'
<1> USE RankFacts, NAssumption DEF Core, GroupTypeOK, TypeOK, InStep
<1>1. /\ pc[0] = "cast" /\ pc' = [pc EXCEPT ![0] = "idle"]
      /\ UNCHANGED <<calls, own, failed, peer, values, up, down, closed>>
  BY DEF ReturnGathered, Return, gathering, streams
<1>2. \A q \in Rank : Answered(calls[q]) => Answered(calls[q])'
  BY <1>1 DEF Settled, Answered
<1>3. ASSUME NEW q \in Peer PROVE UpStep(q)' /\ DownStep(q)'
  <2>1. /\ Taken(q)' = Taken(q) /\ Waiting(q)' = Waiting(q) /\ Live' = Live
        /\ pc'[q] = pc[q]
    BY <1>1, <1>3 DEF Taken, Waiting, Live
  <2> QED
    BY <1>1, <1>2, <1>3, <2>1 DEF UpStep, DownStep
<1>4. LoopStep'
  BY <1>1 DEF LoopStep
<1> QED
  BY <1>3, <1>4 DEF StreamsStep

LEMMA ExpireKeeps ==
  ASSUME Core, InStep, Settled, NEW r \in Rank, at[r] # "gone", Expire(r)
  PROVE  StreamsStep'
<1> USE RankFacts DEF Core, GroupTypeOK, TypeOK, InStep
<1>1. /\ pc[r] # "idle" /\ Fail(r)
      /\ pc' = [pc EXCEPT ![r] = "idle"]
      /\ failed' = [failed EXCEPT ![r] = TRUE]
      /\ UNCHANGED <<calls, own, peer, values, last, closed>>
  BY DEF Expire, AtTransfer, Fail, gathering
<1>2. CASE UNCHANGED streams
  BY <1>1, <1>2, FailKeeps DEF streams
<1>3. CASE /\ pc[r] = "write" /\ ~closed[0]
           /\ up' = [up EXCEPT ![r] = Append(@, own[r])]
           /\ UNCHANGED <<down, torn>>
  <2>1. r \in Peer
    BY <1>3 DEF Program, Rank, Peer
  <2>2. up' = [up EXCEPT ![r] = IF closed[0] THEN @ ELSE Append(@, own[r])]
    BY <1>3
  <2> QED
    BY <1>1, <1>3, <2>1, <2>2, WriteKeeps
<1>4. CASE /\ r = 0 /\ pc[0] = "cast" /\ peer < N /\ ~closed[peer]
           /\ down' = [down EXCEPT ![peer] = Append(@, values)]
           /\ UNCHANGED <<up, torn>>
  BY <1>1, <1>4, BroadcastKeeps
<1>5. ASSUME NEW s \in Reading(r) \ torn, ~StreamEmpty(s),
             \/ torn' = torn \cup {s} /\ UNCHANGED <<up, down>>
             \/ /\ s[2] = "up"
                /\ up' = [up EXCEPT ![s[1]] = Tail(@)]
                /\ UNCHANGED <<down, torn>>
             \/ /\ s[2] = "down"
                /\ down' = [down EXCEPT ![s[1]] = Tail(@)]
                /\ UNCHANGED <<up, torn>>
      PROVE  StreamsStep'
  <2>1. s \in Peer \X {"up", "down"}
    BY ReadingType
  <2>2. CASE torn' = torn \cup {s} /\ UNCHANGED <<up, down>>
    BY <1>1, <2>2, FailKeeps
  <2>3. CASE /\ s[2] = "up"
             /\ up' = [up EXCEPT ![s[1]] = Tail(@)]
             /\ UNCHANGED <<down, torn>>
    <3>1. up[s[1]] \in Seq(Frame) /\ up[s[1]] # << >> /\ Len(up[s[1]]) <= 1
      BY <1>5, <2>1, <2>3 DEF StreamEmpty, UpStep
    <3>2. up'[s[1]] = << >>
      BY <2>1, <2>3, <3>1, TakeOnly
    <3> QED
      BY <1>1, <2>1, <2>3, <3>2, FailKeeps
  <2>4. CASE /\ s[2] = "down"
             /\ down' = [down EXCEPT ![s[1]] = Tail(@)]
             /\ UNCHANGED <<up, torn>>
    <3>1. /\ down[s[1]] \in Seq([Rank -> Frame]) /\ down[s[1]] # << >>
          /\ Len(down[s[1]]) <= 1
      BY <1>5, <2>1, <2>4 DEF StreamEmpty, DownStep
    <3>2. down'[s[1]] = << >>
      BY <2>1, <2>4, <3>1, TakeOnly
    <3> QED
      BY <1>1, <2>1, <2>4, <3>2, FailKeeps
  <2> QED
    BY <1>5, <2>2, <2>3, <2>4
<1> QED
  BY <1>2, <1>3, <1>4, <1>5 DEF Expire

\* A rank that begins a call after an error of an earlier one is a peer of a
\* rank 0 that has gone, or is rank 0.
LEMMA Beginning ==
  ASSUME Core, NEW r \in Rank, FailedStep(r), GroupStep(r), NEW n, CallAllGather(r, n), r # 0, failed[r]
  PROVE  closed[0] /\ down[r] = << >>
<1> USE DEF Core
<1>1. Program(r) /\ ~closed[r] /\ pc[r] = "idle" /\ last[r].call < calls[r]
  BY DEF CallAllGather, FailedStep
<1>2. calls[r] \in Nat /\ last[r].call \in Nat /\ pc \in [Rank -> Location]
  BY DEF GroupTypeOK, TypeOK
<1>3. at[r] \notin {"down1", "down2", "freed", "gone"}
  <2>1. at[r] # "gone"
    BY <1>1 DEF Program
  <2>2. ~Succeeded(r)
    BY <1>1, <1>2 DEF Succeeded
  <2>3. calls'[r] # calls[r]
    BY <1>2 DEF CallAllGather, GroupTypeOK, TypeOK
  <2>4. ~UNCHANGED vars /\ ~Close(r)
    BY <2>3 DEF vars, Close
  <2> QED
    BY <2>1, <2>2, <2>4 DEF GroupStep, OpenLocal, OpenFails, Exchanged, EnterBarrier, BarrierHalf,
       BarrierDone, CloseGroup, TeardownHalf, TeardownDone, CloseSide, Returned
<1> QED
  BY <1>3 DEF FailedStep, Done

LEMMA StreamsKept ==
  ASSUME Core, InStep, Settled, Fits, [GroupNext]_allVars
  PROVE  StreamsStep'
<1> USE LifecycleFacts, RankFacts
<1>0. /\ UNCHANGED <<pc, calls, peer, values, up, down, failed, closed>> => StreamsStep'
      /\ \A r \in Rank : calls[r] \in Nat
  <2>1. \A r \in Rank : calls[r] \in Nat
    BY DEF Core, GroupTypeOK, TypeOK
  <2>2. ASSUME UNCHANGED <<pc, calls, peer, values, up, down, failed, closed>> PROVE StreamsStep'
    <3>1. \A r \in Rank : Answered(calls[r]) => Answered(calls[r])'
      BY <2>1, <2>2 DEF Settled, Answered
    <3> QED
      BY <2>2, <3>1 DEF InStep, StreamsStep, UpStep, DownStep, LoopStep, Live, Waiting, Owed, Taken
  <2> QED
    BY <2>1, <2>2
<1>1. CASE ChannelStep
  <2>1. ASSUME NEW r \in Rank, at[r] # "gone", ReadFails(r) \/ WriteFails(r) PROVE StreamsStep'
    <3>1. pc[r] # "idle" /\ Fail(r) /\ UNCHANGED streams
      BY <2>1 DEF ReadFails, WriteFails
    <3> QED
      BY <3>1, FailKeeps DEF streams
  <2>2. ASSUME NEW r \in Rank, at[r] # "gone", Expire(r) PROVE StreamsStep'
    BY <2>2, ExpireKeeps
  <2>3. ASSUME NEW p \in Peer, at[p] # "gone", WriteLocal(p) PROVE StreamsStep'
    <3>1. /\ pc[p] = "write" /\ pc' = [pc EXCEPT ![p] = "read"]
          /\ up' = [up EXCEPT ![p] = IF closed[0] THEN @ ELSE Append(@, own[p])]
          /\ UNCHANGED <<calls, own, peer, values, down, failed, last, closed>>
      BY <2>3 DEF WriteLocal, gathering
    <3> QED
      BY <2>3, <3>1, WriteKeeps
  <2>4. ASSUME NEW p \in Peer, ReadBroadcast(p) PROVE StreamsStep'
    BY <2>4, ReadKeeps
  <2>5. ASSUME ReadPayload PROVE StreamsStep'
    BY <2>5, PayloadKeeps
  <2>6. ASSUME at[0] # "gone", Encode PROVE StreamsStep'
    BY <2>6, EncodeKeeps
  <2>7. ASSUME at[0] # "gone", WriteBroadcast PROVE StreamsStep'
    <3>1. down' = down \/ down' = [down EXCEPT ![peer] = Append(@, values)]
      BY <2>7 DEF WriteBroadcast, Core, GroupTypeOK, TypeOK
    <3> QED
      BY <2>7, <3>1, BroadcastKeeps DEF WriteBroadcast
  <2>8. ASSUME at[0] # "gone", ReturnGathered PROVE StreamsStep'
    BY <2>8, ReturnKeeps
  <2> QED
    BY <1>1, <2>1, <2>2, <2>3, <2>4, <2>5, <2>6, <2>7, <2>8 DEF ChannelStep, ContextEnds
<1>2. ASSUME NEW r \in Rank, GroupStep(r) PROVE StreamsStep'
  <2>1. ASSUME NEW n \in {0, DestBytes}, CallAllGather(r, n) PROVE StreamsStep'
    <3>1. n \in Sizes /\ n <= MaxFrame
      BY DEF Fits
    <3>2. failed[r] /\ r # 0 => closed[0] /\ down[r] = << >>
      BY <1>2, <2>1, Beginning DEF InStep
    <3> QED
      BY <2>1, <3>1, <3>2, BeginKeeps
  <2>2. UNCHANGED vars => StreamsStep'
    BY <1>0 DEF vars
  <2>3. Close(r) => StreamsStep'
    BY CloseKeeps
  <2>4. CallAllGather(r, 0) \/ CallAllGather(r, DestBytes) \/ UNCHANGED vars \/ Close(r)
    BY <1>2 DEF GroupStep, OpenLocal, OpenFails, Exchanged, EnterBarrier, BarrierHalf,
                BarrierDone, CloseGroup, TeardownHalf, TeardownDone, CloseSide, BeginTeardown
  <2> QED
    BY <2>1, <2>2, <2>3, <2>4
<1>3. ASSUME NEW r \in Rank, Crash(r) PROVE StreamsStep'
  BY <1>3, CloseKeeps DEF Crash
<1>4. CASE UNCHANGED allVars
  BY <1>0, <1>4 DEF allVars, vars
<1> QED
  BY <1>1, <1>2, <1>3, <1>4 DEF GroupNext

-----------------------------------------------------------------------------
(* A rank that has failed for good stays failed, and silent ranks silent.    *)

\* A step of the channel is of one rank, in a call.
LEMMA ChannelActs ==
  ASSUME Core, ChannelStep
  PROVE  /\ UNCHANGED <<calls, own, closed, at, opened, entered, passed, joint>>
         /\ \E x \in Rank : /\ at[x] # "gone" /\ pc[x] # "idle"
                            /\ \A q \in Rank : q # x => Still(q)
<1> USE RankFacts DEF Core, GroupTypeOK, TypeOK
<1>1. UNCHANGED <<calls, own, closed, at, opened, entered, passed, joint>>
  BY DEF ChannelStep, ContextEnds, Expire, ReadFails, WriteFails, WriteLocal, ReadBroadcast,
     ReadPayload, Encode, WriteBroadcast, ReturnGathered, Fail, Return, groupVars
<1>2. ASSUME NEW x \in Rank, at[x] # "gone", pc[x] # "idle",
             \A q \in Rank : q # x => /\ pc'[q] = pc[q] /\ failed'[q] = failed[q]
                                      /\ last'[q] = last[q]
      PROVE  \E y \in Rank : /\ at[y] # "gone" /\ pc[y] # "idle"
                             /\ \A q \in Rank : q # y => Still(q)
  BY <1>1, <1>2 DEF Still
<1>3. ASSUME NEW x \in Rank, at[x] # "gone", ReadFails(x) \/ WriteFails(x) \/ Expire(x)
      PROVE  \E y \in Rank : /\ at[y] # "gone" /\ pc[y] # "idle"
                             /\ \A q \in Rank : q # y => Still(q)
  <2>1. pc[x] # "idle" /\ Fail(x)
    BY <1>3 DEF ReadFails, WriteFails, Expire, AtTransfer
  <2> QED
    BY <1>2, <1>3, <2>1 DEF Fail
<1>4. ASSUME NEW x \in Peer, at[x] # "gone", WriteLocal(x) \/ ReadBroadcast(x)
      PROVE  \E y \in Rank : /\ at[y] # "gone" /\ pc[y] # "idle"
                             /\ \A q \in Rank : q # y => Still(q)
  <2>1. /\ x \in Rank /\ pc[x] # "idle"
        /\ \A q \in Rank : q # x => /\ pc'[q] = pc[q] /\ failed'[q] = failed[q]
                                   /\ last'[q] = last[q]
    BY <1>4 DEF WriteLocal, ReadBroadcast, Return
  <2> QED
    BY <1>2, <1>4, <2>1
<1>5. ASSUME at[0] # "gone", ReadPayload \/ Encode \/ WriteBroadcast \/ ReturnGathered
      PROVE  \E y \in Rank : /\ at[y] # "gone" /\ pc[y] # "idle"
                             /\ \A q \in Rank : q # y => Still(q)
  BY <1>2, <1>5 DEF ReadPayload, Encode, WriteBroadcast, ReturnGathered, Return, Fail
<1> QED
  BY <1>1, <1>3, <1>4, <1>5 DEF ChannelStep, ContextEnds

\* A rank that is done takes no step of its own but to close.
LEMMA DoneSteps ==
  ASSUME Core, NEW r \in Rank, FailedStep(r), Done(r), GroupStep(r) \/ Crash(r)
  PROVE  at'[r] \in {"freed", "gone"} /\ UNCHANGED <<pc, calls, last, failed>>
<1> USE DEF Core, GroupTypeOK, TypeOK, Goto
<1>1. Program(r)
  OBVIOUS
<1>2. CASE Crash(r)
  BY <1>2 DEF Crash, Close
<1>3. CASE GroupStep(r)
  <2>1. CASE at[r] \in {"down1", "down2"} /\ pc[r] = "idle" /\ failed[r]
    <3>1. ~Succeeded(r)
      BY <2>1 DEF FailedStep, Succeeded
    <3> QED
      BY <1>3, <2>1, <3>1 DEF GroupStep, OpenLocal, OpenFails, Exchanged, EnterBarrier, BarrierHalf,
         BarrierDone, CloseGroup, TeardownHalf, TeardownDone, CloseSide, Returned, vars
  <2>2. CASE at[r] \in {"freed", "gone"}
    BY <1>3, <2>2 DEF GroupStep, OpenLocal, OpenFails, Exchanged, EnterBarrier, BarrierHalf,
       BarrierDone, CloseGroup, TeardownHalf, TeardownDone, CloseSide, Returned, Close
  <2> QED
    BY <2>1, <2>2 DEF Done
<1> QED
  BY <1>2, <1>3

LEMMA DoneStays ==
  ASSUME Core, NEW r \in Rank, FailedStep(r), [GroupNext]_allVars, Done(r)
  PROVE  /\ Done(r)'
         /\ pc[r] = "idle" => pc'[r] = "idle"
         /\ failed[r] => failed'[r] /\ last'[r].call < calls'[r]
<1> DEFINE stays == /\ Done(r)'
                    /\ pc[r] = "idle" => pc'[r] = "idle"
                    /\ failed[r] => failed'[r] /\ last'[r].call < calls'[r]
<1>0. failed[r] => last[r].call < calls[r]
  BY DEF FailedStep
<1>1. Still(r) => stays
  BY <1>0 DEF Still, Done
<1>2. ASSUME ChannelStep PROVE stays
  <2>1. PICK x \in Rank : /\ at[x] # "gone" /\ pc[x] # "idle"
                          /\ \A q \in Rank : q # x => Still(q)
    BY <1>2, ChannelActs
  <2>2. x # r
    BY <2>1 DEF Core, Program, Done
  <2> QED
    BY <1>1, <2>1, <2>2
<1>3. ASSUME NEW x \in Rank, GroupStep(x) \/ Crash(x) PROVE stays
  <2>1. CASE x # r
    BY <1>1, <1>3, <2>1, OthersStill DEF Core
  <2>2. CASE x = r
    BY <1>0, <1>3, <2>2, DoneSteps DEF Done
  <2> QED
    BY <2>1, <2>2
<1>4. ASSUME UNCHANGED allVars PROVE stays
  BY <1>0, <1>4 DEF allVars, vars, groupVars, Done
<1> QED
  BY <1>2, <1>3, <1>4 DEF GroupNext

LEMMA SilentStays ==
  ASSUME Core, InStep, ~spoilt', [GroupNext]_allVars, NEW q \in Peer, Silent(q),
         ~(pc[0] = "cast" /\ at[0] # "gone")
  PROVE  Silent(q)' \/ Done(0)
<1> USE RankFacts DEF Core
<1>0. Program(q) /\ Program(0) /\ FailedStep(q)
  BY DEF InStep
<1>1. up'[q] = << >>
  <2>1. ~(pc[q] = "write" /\ at[q] # "gone")
    BY <1>0 DEF Program, Silent, Done
  <2>2. up[q] = << >>
    BY DEF Silent
  <2> QED
    BY <2>1, <2>2, StreamMoves
<1>2. CASE Done(q)
  BY <1>0, <1>1, <1>2, DoneStays DEF Silent
<1>3. CASE ~Done(q)
  <2>1. pc[q] = "read" /\ down[q] = << >>
    BY <1>3 DEF Silent
  <2>2. down'[q] = << >>
    BY <2>1, StreamMoves
  <2>3. Still(q) => Silent(q)'
    BY <1>1, <2>1, <2>2 DEF Still, Silent
  <2>4. ASSUME ChannelStep PROVE Silent(q)' \/ Done(0)
    <3>1. ASSUME NEW r \in Rank, at[r] # "gone", ContextEnds(r) PROVE Silent(q)' \/ Done(0)
      <4>1. Fail(r) /\ at' = at /\ at[r] \in {"down1", "down2"}
        BY <3>1 DEF ContextEnds, Expire
      <4>2. CASE r = q
        <5>1. pc'[q] = "idle" /\ failed'[q]
          BY <4>1, <4>2 DEF Fail, GroupTypeOK, TypeOK
        <5> QED
          BY <1>1, <4>1, <4>2, <5>1 DEF Silent, Done
      <4>3. CASE r # q
        <5>1. pc'[q] = "read"
          BY <2>1, <4>1, <4>3 DEF Fail, GroupTypeOK, TypeOK
        <5> QED
          BY <1>1, <2>2, <5>1 DEF Silent
      <4> QED
        BY <4>2, <4>3
    <3>2. ASSUME NEW r \in Rank, ReadFails(r) \/ WriteFails(r) PROVE Silent(q)' \/ Done(0)
      <4>1. CASE r = q
        <5>1. q # 0
          OBVIOUS
        <5>2. ReadFails(q)
          BY <2>1, <3>2, <4>1, <5>1 DEF WriteFails
        <5>3. closed[0]
          BY <2>1, <5>1, <5>2 DEF ReadFails, Reading, StreamEmpty
        <5> QED
          BY <1>0, <5>3 DEF Program, Done
      <4>2. CASE r # q
        <5>1. pc'[q] = "read"
          BY <2>1, <3>2, <4>2 DEF ReadFails, WriteFails, Fail, GroupTypeOK, TypeOK
        <5> QED
          BY <1>1, <2>2, <5>1 DEF Silent
      <4> QED
        BY <4>1, <4>2
    <3>3. ASSUME NEW p \in Peer, WriteLocal(p) \/ ReadBroadcast(p) PROVE Silent(q)'
      <4>1. p # q
        BY <2>1, <3>3 DEF WriteLocal, ReadBroadcast
      <4>2. pc'[q] = "read"
        BY <2>1, <3>3, <4>1 DEF WriteLocal, ReadBroadcast, Return, GroupTypeOK, TypeOK
      <4> QED
        BY <1>1, <2>2, <4>2 DEF Silent
    <3>4. ASSUME ReadPayload \/ Encode \/ WriteBroadcast \/ ReturnGathered PROVE Silent(q)'
      <4>1. pc'[q] = "read"
        BY <2>1, <3>4
        DEF ReadPayload, Encode, WriteBroadcast, ReturnGathered, Return, Fail, GroupTypeOK, TypeOK
      <4> QED
        BY <1>1, <2>2, <4>1 DEF Silent
    <3> QED
      BY <2>4, <3>1, <3>2, <3>3, <3>4 DEF ChannelStep
  <2>5. ASSUME NEW r \in Rank, GroupStep(r) \/ Crash(r) PROVE Silent(q)'
    <3>1. CASE r # q
      BY <2>3, <2>5, <3>1, OthersStill
    <3>2. CASE r = q /\ Crash(q)
      <4>1. at'[q] = "gone"
        BY <3>2 DEF Crash, Goto, GroupTypeOK
      <4> QED
        BY <1>1, <4>1 DEF Silent, Done
    <3>3. CASE r = q /\ GroupStep(q)
      <4>1. pc[q] = "idle"
        BY <1>0, <3>3 DEF GroupStep, OpenLocal, OpenFails, Exchanged, EnterBarrier, BarrierHalf,
           BarrierDone, CloseGroup, TeardownHalf, TeardownDone, CloseSide, Returned, Program
      <4> QED
        BY <2>1, <4>1
    <3> QED
      BY <2>5, <3>1, <3>2, <3>3
  <2>6. ASSUME UNCHANGED allVars PROVE Silent(q)'
    BY <1>1, <2>1, <2>2, <2>6 DEF allVars, vars, Silent
  <2> QED
    BY <2>4, <2>5, <2>6 DEF GroupNext
<1> QED
  BY <1>2, <1>3

-----------------------------------------------------------------------------
(* The other parts of InStep.                                               *)

LEMMA TornKeeps ==
  ASSUME Core, InStep, ~spoilt', [GroupNext]_allVars, NEW p \in Peer
  PROVE  TornStep(p)'
<1> USE RankFacts DEF Core, GroupTypeOK, TypeOK
<1>0. FailedStep(0) /\ FailedStep(p) /\ TornStep(p)
  BY DEF InStep
<1>1. \/ UNCHANGED torn
      \/ \E r \in Rank : ContextEnds(r) /\ \E s \in Reading(r) : torn' = torn \cup {s}
  <2>1. UNCHANGED vars \/ UNCHANGED streams => UNCHANGED torn
    BY DEF vars, streams
  <2>2. CASE ChannelStep
    BY <2>1, <2>2 DEF ChannelStep, ContextEnds, Expire, ReadFails, WriteFails, WriteLocal,
       ReadBroadcast, ReadPayload, Encode, WriteBroadcast, ReturnGathered
  <2>3. ASSUME NEW r \in Rank, GroupStep(r) \/ Crash(r) PROVE UNCHANGED torn
    <3>1. \A n : CallAllGather(r, n) => UNCHANGED torn
      BY DEF CallAllGather, streams
    <3>2. Close(r) => UNCHANGED torn
      BY DEF Close
    <3> QED
      BY <2>1, <2>3, <3>1, <3>2
      DEF GroupStep, Crash, OpenLocal, OpenFails, Exchanged, EnterBarrier, BarrierHalf,
          BarrierDone, CloseGroup, TeardownHalf, TeardownDone, CloseSide, BeginTeardown
  <2>4. CASE UNCHANGED allVars
    BY <2>4 DEF allVars, vars
  <2> QED
    BY <2>2, <2>3, <2>4 DEF GroupNext
<1>2. CASE UNCHANGED torn
  BY <1>0, <1>2, DoneStays DEF TornStep
<1>3. ASSUME NEW r \in Rank, ContextEnds(r), NEW s \in Reading(r), torn' = torn \cup {s}
      PROVE  TornStep(p)'
  <2>1. Done(r)'
    <3>1. Fail(r) /\ at' = at /\ at[r] \in {"down1", "down2"}
      BY <1>3 DEF ContextEnds, Expire
    <3>2. pc'[r] = "idle" /\ failed'[r]
      BY <3>1 DEF Fail
    <3> QED
      BY <3>1, <3>2 DEF Done
  <2>2. s = <<p, "up">> => r = 0
    BY <1>3 DEF Reading
  <2>3. s = <<p, "down">> => r = p
    BY <1>3 DEF Reading
  <2> QED
    BY <1>0, <1>3, <2>1, <2>2, <2>3, DoneStays DEF TornStep
<1> QED
  BY <1>1, <1>2, <1>3

\* How rank r may come by an error: its call fails.
LEMMA FailureMoves ==
  ASSUME Core, Fits, [GroupNext]_allVars, NEW r \in Rank, ~failed[r], failed'[r]
  PROVE  /\ at[r] # "gone" /\ pc[r] # "idle" /\ Fail(r) /\ at' = at
         /\ ReadFails(r) \/ WriteFails(r) \/ ContextEnds(r) \/ (r = 0 /\ Encode)
<1> USE RankFacts, LifecycleFacts DEF Core, GroupTypeOK, TypeOK
<1>1. ASSUME NEW x \in Rank, GroupStep(x) \/ Crash(x) PROVE failed' = failed
  <2>1. ASSUME NEW n \in {0, DestBytes}, CallAllGather(x, n) PROVE failed' = failed
    <3>1. ~(n > MaxFrame)
      BY DEF Fits
    <3> QED
      BY <2>1, <3>1 DEF CallAllGather
  <2>2. Close(x) \/ UNCHANGED vars => failed' = failed
    BY DEF Close, vars
  <2>3. CallAllGather(x, 0) \/ CallAllGather(x, DestBytes) \/ UNCHANGED vars \/ Close(x)
    BY <1>1 DEF GroupStep, Crash, OpenLocal, OpenFails, Exchanged, EnterBarrier, BarrierHalf,
                BarrierDone, CloseGroup, TeardownHalf, TeardownDone, CloseSide, BeginTeardown
  <2> QED
    BY <2>1, <2>2, <2>3
<1>2. CASE ChannelStep
  <2>1. at' = at
    BY <1>2 DEF ChannelStep, ContextEnds, groupVars
  <2>2. ASSUME NEW x \in Rank, at[x] # "gone", ContextEnds(x) \/ ReadFails(x) \/ WriteFails(x)
        PROVE  x = r /\ at[r] # "gone" /\ pc[r] # "idle" /\ Fail(r)
    <3>1. pc[x] # "idle" /\ Fail(x)
      BY <2>2 DEF ContextEnds, ReadFails, WriteFails, Expire, AtTransfer
    <3>2. x = r
      BY <3>1 DEF Fail
    <3> QED
      BY <2>2, <3>1, <3>2
  <2>3. ASSUME NEW p \in Peer, WriteLocal(p) \/ ReadBroadcast(p) PROVE FALSE
    BY <2>3 DEF WriteLocal, ReadBroadcast, Return
  <2>4. ASSUME ReadPayload \/ WriteBroadcast \/ ReturnGathered PROVE FALSE
    BY <2>4 DEF ReadPayload, WriteBroadcast, ReturnGathered, Return
  <2>5. ASSUME at[0] # "gone", Encode PROVE r = 0 /\ pc[0] # "idle" /\ Fail(0)
    <3>1. Fail(0)
      BY <2>5 DEF Encode
    <3> QED
      BY <2>5, <3>1 DEF Encode, Fail
  <2> QED
    BY <1>2, <2>1, <2>2, <2>3, <2>4, <2>5 DEF ChannelStep
<1>3. CASE UNCHANGED allVars
  BY <1>3 DEF allVars, vars
<1> QED
  BY <1>1, <1>2, <1>3 DEF GroupNext

\* A peer whose call fails is in its teardown, or rank 0 has gone.
LEMMA PeerFailure ==
  ASSUME Core, InStep, Fits, ~spoilt', [GroupNext]_allVars, NEW p \in Peer, ~failed[p], failed'[p]
  PROVE  \/ Done(p)' /\ pc'[p] = "idle"
         \/ closed'[0] /\ down'[p] = << >>
<1> USE RankFacts DEF Core, GroupTypeOK, TypeOK
<1>1. /\ at[p] # "gone" /\ pc[p] # "idle" /\ Fail(p) /\ at' = at
      /\ ReadFails(p) \/ WriteFails(p) \/ ContextEnds(p)
  BY FailureMoves
<1>2. pc'[p] = "idle" /\ closed' = closed
  BY <1>1 DEF Fail
<1>3. CASE ContextEnds(p)
  <2>1. at[p] \in {"down1", "down2"}
    BY <1>3 DEF ContextEnds
  <2> QED
    BY <1>1, <1>2, <2>1 DEF Done
<1>4. CASE ReadFails(p)
  <2>1. ~Done(p)
    BY <1>1 DEF Done, Program
  <2>2. <<p, "down">> \notin torn
    BY <2>1 DEF InStep, TornStep
  <2>0. p # 0
    OBVIOUS
  <2>3. down[p] = << >> /\ closed[0] /\ down' = down
    <3>1. Reading(p) \subseteq {<<p, "down">>}
      BY <2>0 DEF Reading
    <3>2. \A s \in Reading(p) : s \notin torn
      BY <2>2, <3>1
    <3>3. PICK s \in Reading(p) : StreamEmpty(s) /\ closed[IF s[2] = "up" THEN s[1] ELSE 0]
      BY <1>4, <3>2 DEF ReadFails
    <3>4. s = <<p, "down">>
      BY <3>1
    <3>5. down[p] = << >> /\ closed[0]
      BY <3>3, <3>4 DEF StreamEmpty
    <3> QED
      BY <1>4, <3>5 DEF ReadFails, streams
  <2> QED
    BY <1>2, <2>3
<1>5. CASE WriteFails(p)
  <2>1. pc[p] = "write" /\ closed[0] /\ down' = down
    BY <1>5 DEF WriteFails, streams
  <2>2. down[p] = << >>
    BY <1>1, <2>1, Writing DEF InStep
  <2> QED
    BY <1>2, <2>1, <2>2
<1> QED
  BY <1>1, <1>3, <1>4, <1>5

\* Rank 0 whose call fails is in its teardown, or some peer is silent.
LEMMA ZeroFailure ==
  ASSUME Core, InStep, Fits, ~spoilt', [GroupNext]_allVars, ~failed[0], failed'[0]
  PROVE  \/ Done(0)'
         \/ pc'[0] = "idle" /\ \E q \in Peer : Silent(q)'
<1> USE RankFacts, NAssumption DEF Core, GroupTypeOK, TypeOK
<1>1. /\ at[0] # "gone" /\ pc[0] # "idle" /\ Fail(0) /\ at' = at
      /\ ReadFails(0) \/ WriteFails(0) \/ ContextEnds(0) \/ Encode
  BY FailureMoves
<1>2. pc'[0] = "idle" /\ failed'[0]
  BY <1>1 DEF Fail
<1>3. Program(0) /\ \A q \in Peer : Program(q) /\ FailedStep(q) /\ TornStep(q)
  BY DEF InStep
<1>4. CASE ContextEnds(0)
  <2>1. at[0] \in {"down1", "down2"}
    BY <1>4 DEF ContextEnds
  <2> QED
    BY <1>1, <1>2, <2>1 DEF Done
<1>5. ASSUME NEW q \in Peer, closed[q], up[q] = << >>, UNCHANGED streams PROVE Silent(q)'
  <2>1. Done(q)
    BY <1>3, <1>5 DEF Program, Done
  <2>2. Done(q)'
    BY <1>3, <2>1, DoneStays
  <2> QED
    BY <1>5, <2>2 DEF Silent, streams
<1>6. CASE ReadFails(0)
  <2>1. ~Done(0)
    BY <1>1, <1>3 DEF Done, Program
  <2>2. \A q \in Peer : <<q, "up">> \notin torn
    BY <1>3, <2>1 DEF TornStep
  <2>3. PICK s \in Reading(0) : /\ s \notin torn /\ StreamEmpty(s)
                                /\ closed[IF s[2] = "up" THEN s[1] ELSE 0]
    BY <1>6, <2>2 DEF ReadFails, Reading
  <2>4. s[1] \in Peer /\ up[s[1]] = << >> /\ closed[s[1]] /\ UNCHANGED streams
    BY <1>6, <2>3 DEF Reading, StreamEmpty, ReadFails
  <2> QED
    BY <1>2, <1>5, <2>4
<1>7. CASE WriteFails(0)
  <2>1. pc[0] = "cast" /\ peer \in Peer /\ closed[peer] /\ UNCHANGED streams
    BY <1>3, <1>7 DEF WriteFails, Program, Peer
  <2>2. Live
    BY <1>1, <2>1, Casting DEF InStep
  <2>3. up[peer] = << >>
    BY <2>1, <2>2 DEF InStep, LoopStep, Owed
  <2> QED
    BY <1>2, <1>5, <2>1, <2>3
<1>8. CASE Encode
  <2>1. pc[0] = "gather" /\ peer = N /\ UNCHANGED streams
    BY <1>8 DEF Encode
  <2>2. Live
    BY <1>1, <2>1, Casting DEF InStep
  <2>3. 1 \in Peer /\ Owed(1)
    BY <2>1 DEF Peer, Owed
  <2>4. up[1] = << >> /\ down[1] = << >> /\ Waiting(1)
    BY <2>1, <2>2, <2>3 DEF InStep, LoopStep
  <2>5. pc[1] = "read" => pc'[1] = "read"
    BY <1>1, <2>3 DEF Fail
  <2>6. failed[1] => Done(1)'
    <3>1. failed[1] => Done(1)
      BY <1>3, <2>2, <2>3 DEF FailedStep, Live
    <3> QED
      BY <1>3, <2>3, <3>1, DoneStays
  <2>7. Silent(1)'
    BY <2>1, <2>4, <2>5, <2>6 DEF Silent, Waiting, streams
  <2> QED
    BY <1>2, <2>3, <2>7
<1> QED
  BY <1>1, <1>4, <1>6, <1>7, <1>8

\* How a rank comes by a result.
LEMMA LastMoves ==
  ASSUME Core, [GroupNext]_allVars, NEW r \in Rank
  PROVE  \/ last'[r] = last[r]
         \/ r \in Peer /\ ReadBroadcast(r)
         \/ r = 0 /\ ReturnGathered /\ at[0] # "gone"
<1> USE RankFacts DEF Core, GroupTypeOK, TypeOK
<1>1. CASE ChannelStep
  <2>1. ASSUME NEW x \in Rank, ReadFails(x) \/ WriteFails(x) \/ Expire(x) PROVE last' = last
    BY <2>1 DEF ReadFails, WriteFails, Expire, Fail
  <2>2. ASSUME NEW p \in Peer, WriteLocal(p) PROVE last' = last
    BY <2>2 DEF WriteLocal
  <2>3. ASSUME NEW p \in Peer, ReadBroadcast(p), p # r PROVE last'[r] = last[r]
    BY <2>3 DEF ReadBroadcast, Return
  <2>4. ASSUME ReadPayload \/ Encode \/ WriteBroadcast PROVE last' = last
    BY <2>4 DEF ReadPayload, Encode, WriteBroadcast, Fail
  <2>5. ASSUME ReturnGathered, r # 0 PROVE last'[r] = last[r]
    BY <2>5 DEF ReturnGathered, Return
  <2> QED
    BY <1>1, <2>1, <2>2, <2>3, <2>4, <2>5 DEF ChannelStep, ContextEnds
<1>2. ASSUME NEW x \in Rank, GroupStep(x) \/ Crash(x) PROVE last' = last
  <2>1. \A n : CallAllGather(x, n) => last' = last
    BY DEF CallAllGather
  <2>2. Close(x) \/ UNCHANGED vars => last' = last
    BY DEF Close, vars
  <2>3. (\E n : CallAllGather(x, n)) \/ UNCHANGED vars \/ Close(x)
    BY <1>2 DEF GroupStep, Crash, OpenLocal, OpenFails, Exchanged, EnterBarrier, BarrierHalf,
                BarrierDone, CloseGroup, TeardownHalf, TeardownDone, CloseSide, BeginTeardown
  <2> QED
    BY <2>1, <2>2, <2>3
<1>3. CASE UNCHANGED allVars
  BY <1>3 DEF allVars, vars
<1> QED
  BY <1>1, <1>2, <1>3 DEF GroupNext

\* Rank 0 does not get past a peer whose stream is empty.
LEMMA ZeroWaits ==
  ASSUME Core, [GroupNext]_allVars, NEW q \in Peer, up[q] = << >>,
         pc[0] = "idle" \/ (pc[0] = "gather" /\ peer <= q)
  PROVE  pc'[0] = "idle" \/ (pc'[0] = "gather" /\ peer' <= q)
<1> USE LifecycleFacts, RankFacts, NAssumption DEF Core, GroupTypeOK, TypeOK
<1> DEFINE waits == pc'[0] = "idle" \/ (pc'[0] = "gather" /\ peer' <= q)
<1>1. pc'[0] = pc[0] /\ peer' = peer => waits
  OBVIOUS
<1>2. ASSUME ChannelStep PROVE waits
  <2>1. ASSUME NEW x \in Rank, Fail(x) PROVE waits
    <3>1. peer' = peer /\ pc'[0] \in {pc[0], "idle"}
      BY <2>1 DEF Fail, gathering
    <3> QED
      BY <1>1, <3>1
  <2>2. ASSUME NEW x \in Rank, ReadFails(x) \/ WriteFails(x) \/ Expire(x) PROVE waits
    <3>1. Fail(x)
      BY <2>2 DEF ReadFails, WriteFails, Expire
    <3> QED
      BY <2>1, <3>1
  <2>3. ASSUME NEW p \in Peer, WriteLocal(p) \/ ReadBroadcast(p) PROVE waits
    <3>1. pc'[0] = pc[0] /\ peer' = peer
      BY <2>3 DEF WriteLocal, ReadBroadcast, Return, gathering
    <3> QED
      BY <1>1, <3>1
  <2>4. ASSUME ReadPayload PROVE waits
    <3>1. pc[0] = "gather" /\ up[peer] # << >> /\ pc' = pc /\ peer' = peer + 1
      BY <2>4 DEF ReadPayload
    <3>2. peer # q /\ peer <= q
      BY <3>1
    <3>3. peer \in Nat /\ q \in Nat
      BY DEF Peer
    <3> QED
      BY <3>1, <3>2, <3>3
  <2>5. ASSUME Encode PROVE FALSE
    <3>1. pc[0] = "gather" /\ peer = N /\ q < N /\ N \in Nat /\ q \in Nat
      BY <2>5 DEF Encode, Peer
    <3> QED
      BY <3>1
  <2>6. ASSUME WriteBroadcast \/ ReturnGathered PROVE FALSE
    BY <2>6 DEF WriteBroadcast, ReturnGathered
  <2> HIDE DEF waits
  <2> QED
    BY <1>2, <2>2, <2>3, <2>4, <2>5, <2>6 DEF ChannelStep, ContextEnds
<1>3. ASSUME NEW x \in Rank, GroupStep(x) \/ Crash(x) PROVE waits
  <2>1. ASSUME NEW n, CallAllGather(x, n) PROVE waits
    <3>1. CASE x = 0
      <4>1. \/ pc'[0] = "gather" /\ peer' = 1
            \/ pc' = pc /\ peer' = peer
        BY <2>1, <3>1 DEF CallAllGather, gathering
      <4>2. 1 <= q
        BY DEF Peer
      <4> QED
        BY <1>1, <4>1, <4>2
    <3>2. CASE x # 0
      <4>1. pc'[0] = pc[0] /\ peer' = peer
        BY <2>1, <3>2 DEF CallAllGather, gathering
      <4> QED
        BY <1>1, <4>1
    <3> QED
      BY <3>1, <3>2
  <2>2. Close(x) \/ UNCHANGED vars => waits
    BY <1>1 DEF Close, vars, gathering
  <2>3. (\E n : CallAllGather(x, n)) \/ UNCHANGED vars \/ Close(x)
    BY <1>3 DEF GroupStep, Crash, OpenLocal, OpenFails, Exchanged, EnterBarrier, BarrierHalf,
                BarrierDone, CloseGroup, TeardownHalf, TeardownDone, CloseSide, BeginTeardown
  <2> QED
    BY <2>1, <2>2, <2>3
<1>4. ASSUME UNCHANGED allVars PROVE waits
  BY <1>1, <1>4 DEF allVars, vars
<1> HIDE DEF waits
<1>5. waits
  BY <1>2, <1>3, <1>4 DEF GroupNext
<1> QED
  BY <1>5 DEF waits

LEMMA FailedKeeps ==
  ASSUME Core, InStep, Fits, ~spoilt', [GroupNext]_allVars, \A q \in Rank : Onward(q),
         NEW r \in Rank
  PROVE  FailedStep(r)'
<1> USE RankFacts
<1>0. /\ FailedStep(r) /\ Program(r) /\ Program(0) /\ FailedStep(0)
      /\ calls[r] \in Nat /\ calls'[r] \in Nat /\ last[r].call \in Nat
      /\ calls[r] <= calls'[r]
  BY ChannelMoves, StepTypeOK DEF InStep, Core, GroupTypeOK, TypeOK, Onward
<1>1. CASE ~failed'[r]
  BY <1>1 DEF FailedStep
<1>2. CASE ~failed[r] /\ failed'[r]
  <2>1. pc[r] # "idle" /\ last' = last /\ calls' = calls
    BY <1>2, FailureMoves DEF Fail
  <2>2. last'[r].call < calls'[r]
    BY <1>0, <2>1 DEF Program
  <2>3. CASE r = 0
    <3>1. Done(0)' \/ (pc'[0] = "idle" /\ \E q \in Peer : Silent(q)')
      BY <1>2, <2>3, ZeroFailure
    <3>2. PICK s \in Peer : Done(0)' \/ (pc'[0] = "idle" /\ Silent(s)')
      BY <3>1, NAssumption DEF Peer
    <3> QED
      BY <2>2, <2>3, <3>2 DEF FailedStep
  <2>4. CASE r # 0
    <3>1. r \in Peer
      BY <2>4 DEF Rank, Peer
    <3>2. \/ Done(r)' /\ pc'[r] = "idle"
          \/ closed'[0] /\ down'[r] = << >>
      BY <1>2, <3>1, PeerFailure
    <3> QED
      BY <2>2, <2>4, <3>2 DEF FailedStep
  <2> QED
    BY <2>3, <2>4
<1>3. CASE failed[r] /\ failed'[r]
  <2>1. CASE Done(r) /\ (r # 0 => pc[r] = "idle")
    BY <1>0, <1>3, <2>1, DoneStays DEF FailedStep
  <2>2. CASE r # 0 /\ closed[0] /\ down[r] = << >>
    <3>1. r \in Peer /\ at[0] = "gone" /\ closed'[0]
      BY <1>0, <2>2 DEF Rank, Peer, Program, Onward
    <3>2. down'[r] = << >>
      BY <2>2, <3>1, StreamMoves
    <3>3. last'[r] = last[r]
      BY <2>2, <3>1, LastMoves DEF ReadBroadcast
    <3>4. last'[r].call < calls'[r]
      BY <1>0, <1>3, <3>3 DEF FailedStep
    <3> QED
      BY <2>2, <3>1, <3>2, <3>4 DEF FailedStep
  <2>3. CASE /\ r = 0 /\ pc[0] \in {"idle", "gather"} /\ ~Done(0)
             /\ \E q \in Peer : Silent(q) /\ (pc[0] = "gather" => peer <= q)
    <3>1. PICK q \in Peer : Silent(q) /\ (pc[0] = "gather" => peer <= q)
      BY <2>3
    <3>2. Silent(q)'
      BY <2>3, <3>1, SilentStays
    <3>3. pc'[0] = "idle" \/ (pc'[0] = "gather" /\ peer' <= q)
      BY <2>3, <3>1, ZeroWaits DEF Silent
    <3>4. last'[0] = last[0]
      BY <2>3, LastMoves DEF ReturnGathered, Rank, Peer
    <3>5. last'[0].call < calls'[0]
      BY <1>0, <1>3, <2>3, <3>4 DEF FailedStep
    <3> QED
      BY <2>3, <3>1, <3>2, <3>3, <3>5 DEF FailedStep
  <2> QED
    BY <1>0, <1>3, <2>1, <2>2, <2>3 DEF FailedStep
<1> QED
  BY <1>1, <1>2, <1>3

LEMMA ResultKeeps ==
  ASSUME Core, InStep, Settled, [GroupNext]_allVars, NEW r \in Rank
  PROVE  ResultStep(r)'
<1> USE RankFacts DEF Core, GroupTypeOK, TypeOK
<1>0. \A c \in Nat : Answered(c) /\ last'[r].call = c => Answered(last[r].call)'
  BY DEF Settled, Answered
<1>1. CASE last'[r] = last[r]
  BY <1>0, <1>1 DEF InStep, ResultStep
<1>2. CASE r \in Peer /\ ReadBroadcast(r)
  <2>1. /\ down[r] # << >> /\ calls[r] \in Nat
        /\ last'[r].call = calls[r] /\ last'[r].vals = Head(down[r])
    BY <1>2 DEF ReadBroadcast, Return
  <2>2. Answered(calls[r]) /\ \A q \in Rank : Head(down[r])[q].call = calls[r]
    BY <1>2, <2>1 DEF InStep, DownStep
  <2> QED
    BY <1>0, <2>1, <2>2 DEF ResultStep
<1>3. CASE r = 0 /\ ReturnGathered /\ at[0] # "gone"
  <2>1. /\ pc[0] = "cast" /\ calls[0] \in Nat
        /\ last'[0].call = calls[0] /\ last'[0].vals = values
    BY <1>3 DEF ReturnGathered, Return
  <2>2. Live
    BY <1>3, <2>1, Casting DEF InStep
  <2>3. Answered(calls[0]) /\ \A q \in Rank : values[q].call = calls[0]
    BY <2>1, <2>2 DEF InStep, LoopStep, Peer, Rank
  <2> QED
    BY <1>0, <1>3, <2>1, <2>3 DEF ResultStep
<1> QED
  BY <1>1, <1>2, <1>3, LastMoves

\* A call that fails in the program of r, outside its teardown, is lost to r.
LEMMA Loses ==
  ASSUME Core, NEW r \in Rank, FailedStep(r), at[r] \notin Teardown, pc[r] = "idle", ~Succeeded(r)
  PROVE  Lost(r)
<1>1. Program(r) /\ ~Done(r)
  BY DEF Core, Done, Teardown
<1>2. failed[r]
  BY <1>1 DEF Program, Succeeded
<1> QED
  BY <1>1, <1>2 DEF FailedStep, Lost

\* An exchange whose payloads do not decode met a rank that did not open.
LEMMA Lacking ==
  ASSUME Core, NEW r \in Rank, ResultStep(r), at[r] = "exchange", Succeeded(r), ~Decodes(r)
  PROVE  NotAll
<1> USE DEF Core
<1>1. last[r].call = 1
  BY DEF Program, Succeeded
<1>2. PICK q \in Rank : last[r].vals[q].size = 0
  BY DEF Decodes
<1>3. last[r].vals[q].call = 1 /\ Honest(q, last[r].vals[q])
  BY <1>1 DEF ResultStep, Truth
<1>4. ~opened[q] /\ 1 <= calls[q]
  BY <1>2, <1>3 DEF Honest
<1>5. at[q] # "open"
  BY <1>4 DEF Program
<1> QED
  BY <1>4, <1>5 DEF NotAll

LEMMA LostStays ==
  ASSUME \A q \in Rank : Onward(q), NEW r \in Rank, Lost(r) PROVE Lost(r)'
BY RankFacts DEF Onward, Lost

LEMMA ReasonKeeps ==
  ASSUME Core, InStep, ~spoilt', [GroupNext]_allVars, \A q \in Rank : Onward(q), NEW r \in Rank
  PROVE  Reason(r)'
<1> USE RankFacts, LifecycleFacts DEF Core, GroupTypeOK, Goto
<1>0. /\ Program(r) /\ Reason(r) /\ FailedStep(r) /\ ResultStep(r)
      /\ NotAll => NotAll'
      /\ Lost(r) => Lost(r)'
      /\ calls[r] \in Nat /\ entered[r] \in Nat
  BY NotAllStays, LostStays DEF InStep, TypeOK
<1>1. ASSUME calls'[r] = calls[r], entered'[r] = entered[r],
             at'[r] \in {"down1", "down2"} => at'[r] = at[r]
      PROVE  Reason(r)'
  BY <1>0, <1>1 DEF Reason
<1>2. ASSUME NEW x \in Rank, GroupStep(x) \/ Crash(x), x # r PROVE Reason(r)'
  BY <1>1, <1>2, OthersStill DEF Still
<1>3. CASE ChannelStep
  BY <1>1, <1>3, ChannelActs
<1>4. ASSUME NEW n, CallAllGather(r, n) PROVE calls'[r] = calls[r] + 1
  BY <1>4 DEF CallAllGather, TypeOK
<1>5. ASSUME NEW n, CallAllGather(r, n), UNCHANGED entered, NotAll' \/ Lost(r)' PROVE Reason(r)'
  BY <1>5 DEF Reason
<1>6. ASSUME GroupStep(r) PROVE Reason(r)'
  <2>1. CASE OpenLocal(r)
    BY <1>0, <1>4, <2>1 DEF OpenLocal, Program, Reason
  <2>2. CASE OpenFails(r)
    <3>1. ~opened'[r] /\ at'[r] = "down1"
      BY <1>0, <2>2 DEF OpenFails, Program, BeginTeardown
    <3> QED
      BY <1>5, <2>2, <3>1 DEF OpenFails, BeginTeardown, NotAll
  <2>3. CASE Exchanged(r)
    <3>1. at[r] = "exchange" /\ pc[r] = "idle" /\ UNCHANGED entered
      BY <2>3 DEF Exchanged, Returned
    <3>2. CASE Succeeded(r) /\ Decodes(r)
      <4>1. at'[r] = "ready" /\ UNCHANGED vars
        BY <2>3, <3>2 DEF Exchanged
      <4> QED
        BY <1>1, <3>1, <4>1 DEF vars
    <3>3. CASE ~(Succeeded(r) /\ Decodes(r))
      <4>1. BeginTeardown(r)
        BY <2>3, <3>3 DEF Exchanged
      <4>2. NotAll \/ Lost(r)
        BY <1>0, <3>1, <3>3, Loses, Lacking DEF Teardown
      <4> QED
        BY <1>0, <1>5, <3>1, <4>1, <4>2 DEF BeginTeardown
    <3> QED
      BY <3>2, <3>3
  <2>4. CASE EnterBarrier(r)
    <3>1. /\ calls[r] = 2 * entered[r] + 1 /\ calls'[r] = calls[r] + 1
          /\ entered'[r] = entered[r] + 1 /\ at'[r] = "barrier1"
      BY <1>0, <1>4, <2>4 DEF EnterBarrier, Program
    <3>2. calls'[r] <= 2 * entered'[r] + 1
      BY ONLY <1>0, <3>1
    <3> QED
      BY <3>1, <3>2 DEF Reason
  <2>5. CASE BarrierHalf(r)
    <3>1. at[r] = "barrier1" /\ pc[r] = "idle" /\ UNCHANGED entered
      BY <2>5 DEF BarrierHalf, Returned
    <3>2. CASE Succeeded(r)
      <4>1. calls[r] = 2 * entered[r] /\ calls'[r] = calls[r] + 1 /\ at'[r] = "barrier2"
        BY <1>0, <1>4, <2>5, <3>1, <3>2 DEF BarrierHalf, Program
      <4>2. calls'[r] <= 2 * entered'[r] + 1
        BY <3>1, <4>1
      <4> QED
        BY <4>1, <4>2 DEF Reason
    <3>3. CASE ~Succeeded(r)
      <4>1. BeginTeardown(r)
        BY <2>5, <3>3 DEF BarrierHalf
      <4>2. Lost(r)
        BY <1>0, <3>1, <3>3, Loses DEF Teardown
      <4> QED
        BY <1>0, <1>5, <3>1, <4>1, <4>2 DEF BeginTeardown
    <3> QED
      BY <3>2, <3>3
  <2>6. CASE BarrierDone(r)
    <3>1. at[r] = "barrier2" /\ pc[r] = "idle" /\ UNCHANGED entered
      BY <2>6 DEF BarrierDone, Returned
    <3>2. CASE Succeeded(r)
      <4>1. at'[r] = "ready" /\ UNCHANGED vars
        BY <2>6, <3>2 DEF BarrierDone
      <4> QED
        BY <1>1, <3>1, <4>1 DEF vars
    <3>3. CASE ~Succeeded(r)
      <4>1. BeginTeardown(r)
        BY <2>6, <3>3 DEF BarrierDone
      <4>2. Lost(r)
        BY <1>0, <3>1, <3>3, Loses DEF Teardown
      <4> QED
        BY <1>0, <1>5, <3>1, <4>1, <4>2 DEF BeginTeardown
    <3> QED
      BY <3>2, <3>3
  <2>7. CASE CloseGroup(r)
    <3>1. /\ entered[r] = NumBarriers /\ entered'[r] = entered[r]
          /\ calls[r] = 2 * entered[r] + 1 /\ calls'[r] = calls[r] + 1
      BY <1>0, <1>4, <2>7 DEF CloseGroup, BeginTeardown, Program
    <3>2. calls'[r] >= 2 * NumBarriers + 2
      BY ONLY <1>0, <3>1
    <3> QED
      BY <3>1, <3>2 DEF Reason
  <2>8. CASE TeardownHalf(r)
    <3>1. at[r] = "down1" /\ UNCHANGED entered
      BY <2>8 DEF TeardownHalf, Returned
    <3>2. CASE Succeeded(r)
      <4>1. calls'[r] = calls[r] + 1
        BY <1>4, <2>8, <3>2 DEF TeardownHalf
      <4>2. NotAll \/ Lost(r) \/ (entered[r] = NumBarriers /\ calls[r] >= 2 * NumBarriers + 2)
        BY <1>0, <3>1 DEF Reason
      <4>3. calls[r] >= 2 * NumBarriers + 2 => calls'[r] >= 2 * NumBarriers + 2
        BY <1>0, <4>1
      <4> QED
        BY <1>0, <3>1, <4>2, <4>3 DEF Reason
    <3>3. CASE ~Succeeded(r)
      <4>1. at'[r] = "freed" /\ UNCHANGED vars
        BY <2>8, <3>3 DEF TeardownHalf
      <4> QED
        BY <1>1, <3>1, <4>1 DEF vars
    <3> QED
      BY <3>2, <3>3
  <2>9. CASE TeardownDone(r)
    BY <1>1, <2>9 DEF TeardownDone, vars
  <2>10. CASE CloseSide(r)
    BY <1>1, <2>10 DEF CloseSide, Close
  <2> QED
    BY <1>6, <2>1, <2>2, <2>3, <2>4, <2>5, <2>6, <2>7, <2>8, <2>9, <2>10 DEF GroupStep
<1>7. CASE Crash(r)
  BY <1>1, <1>7 DEF Crash, Close
<1>8. CASE UNCHANGED allVars
  BY <1>1, <1>8 DEF allVars, vars, groupVars
<1> QED
  BY <1>2, <1>3, <1>6, <1>7, <1>8 DEF GroupNext

LEMMA BarrierKeeps ==
  ASSUME Core, InStep, [GroupNext]_allVars, \A q \in Rank : Onward(q)
  PROVE  SameBarrier'
<1> USE RankFacts, LifecycleFacts DEF Core, GroupTypeOK
<1>1. SUFFICES ASSUME NEW r \in Rank, NEW q \in Rank PROVE passed'[r] <= entered'[q]
  BY DEF SameBarrier
<1>2. /\ passed[r] \in Nat /\ entered[r] \in 0 .. NumBarriers /\ entered[q] \in 0 .. NumBarriers
      /\ passed[r] <= entered[q] /\ entered[q] <= entered'[q]
      /\ entered'[q] \in Nat
  BY GroupTypeStep DEF InStep, SameBarrier, Onward
<1>3. CASE passed'[r] = passed[r]
  BY <1>2, <1>3
<1>4. CASE BarrierDone(r) /\ Succeeded(r)
  <2>1. at[r] = "barrier2" /\ passed'[r] = passed[r] + 1 /\ last[r].call = calls[r]
    BY <1>4 DEF BarrierDone, Returned, Succeeded
  <2>2. entered[r] = passed[r] + 1 /\ calls[r] = 2 * entered[r] + 1
    BY <2>1 DEF Program
  <2>3. ~NotAll
    BY <2>1 DEF AllOpened, NotAll
  <2>4. entered[q] = NumBarriers \/ calls[r] <= 2 * entered[q] + 1
    BY <2>1, <2>3 DEF InStep, ResultStep, Answered
  <2>5. entered[r] <= entered[q]
    BY ONLY <1>2, <2>2, <2>4, LifecycleFacts
  <2> QED
    BY <1>2, <2>1, <2>2, <2>5
<1>5. passed'[r] = passed[r] \/ (BarrierDone(r) /\ Succeeded(r))
  <2>1. CASE ChannelStep
    BY <2>1, ChannelActs
  <2>2. ASSUME NEW x \in Rank, GroupStep(x) \/ Crash(x), x # r PROVE passed'[r] = passed[r]
    BY <2>2, OthersStill DEF Still
  <2>3. ASSUME GroupStep(r) \/ Crash(r), ~(BarrierDone(r) /\ Succeeded(r)) PROVE passed' = passed
    BY <2>3 DEF GroupStep, Crash, OpenLocal, OpenFails, Exchanged, EnterBarrier, BarrierHalf,
       BarrierDone, CloseGroup, TeardownHalf, TeardownDone, CloseSide
  <2>4. CASE UNCHANGED allVars
    BY <2>4 DEF allVars, groupVars
  <2> QED
    BY <2>1, <2>2, <2>3, <2>4 DEF GroupNext
<1> QED
  BY <1>3, <1>4, <1>5

LEMMA SpoiltStays ==
  ASSUME [GroupNext]_allVars, ~spoilt' PROVE ~spoilt
BY DEF GroupNext, ChannelStep, ContextEnds, groupVars, allVars, GroupStep, Crash, OpenLocal,
       OpenFails, Exchanged, EnterBarrier, BarrierHalf, BarrierDone, CloseGroup, TeardownHalf,
       TeardownDone, CloseSide

LEMMA InitInStep ==
  ASSUME GroupInit PROVE InStep
<1> USE RankFacts, LifecycleFacts DEF GroupInit, Init
<1>1. \A q \in Rank : Answered(0)
  BY DEF Answered
<1>2. ASSUME NEW p \in Peer PROVE UpStep(p) /\ DownStep(p) /\ TornStep(p)
  BY <1>2, NAssumption DEF UpStep, DownStep, TornStep, Taken, Live
<1>3. LoopStep
  BY DEF LoopStep
<1>4. ASSUME NEW r \in Rank PROVE FailedStep(r) /\ ResultStep(r) /\ Reason(r)
  BY <1>1, <1>4 DEF FailedStep, ResultStep, Reason, NoFrame
<1>5. SameBarrier
  BY DEF SameBarrier
<1> QED
  BY <1>2, <1>3, <1>4, <1>5 DEF InStep

LEMMA InStepKept ==
  ASSUME Core, Core', Fits, InStep, ~spoilt', [GroupNext]_allVars
  PROVE  InStep'
<1>1. \A q \in Rank : Onward(q)
  BY OnwardStep DEF Core
<1>2. Settled
  BY <1>1, AnsweredStays DEF Core, Settled
<1>3. \A p \in Peer : UpStep(p)' /\ DownStep(p)'
  BY <1>2, StreamsKept DEF StreamsStep
<1>4. LoopStep'
  BY <1>2, StreamsKept DEF StreamsStep
<1>5. \A p \in Peer : TornStep(p)'
  BY TornKeeps
<1>6. \A r \in Rank : FailedStep(r)'
  BY <1>1, FailedKeeps
<1>7. \A r \in Rank : ResultStep(r)'
  BY <1>2, ResultKeeps
<1>8. \A r \in Rank : Reason(r)'
  BY <1>1, ReasonKeeps
<1>9. SameBarrier'
  BY <1>1, BarrierKeeps
<1> QED
  BY <1>3, <1>4, <1>5, <1>6, <1>7, <1>8, <1>9 DEF InStep

-----------------------------------------------------------------------------
(* Destinations that do not fit a frame.                                    *)

\* How rank 0's loops move.
LEMMA LoopMoves ==
  ASSUME Core, [GroupNext]_allVars
  PROVE  \/ pc'[0] = pc[0] /\ peer' = peer
         \/ pc'[0] = "gather" /\ peer' = 1
         \/ pc'[0] = "idle"
         \/ ReadPayload
         \/ pc'[0] = "cast" /\ pc[0] = "cast"
         \/ pc'[0] = "cast" /\ pc[0] = "gather" /\ peer = N
<1> USE LifecycleFacts, RankFacts DEF Core, GroupTypeOK, TypeOK
<1> DEFINE moves == \/ pc'[0] = pc[0] /\ peer' = peer
                    \/ pc'[0] = "gather" /\ peer' = 1
                    \/ pc'[0] = "idle"
                    \/ ReadPayload
                    \/ pc'[0] = "cast" /\ pc[0] = "cast"
                    \/ pc'[0] = "cast" /\ pc[0] = "gather" /\ peer = N
<1>1. pc'[0] = pc[0] /\ peer' = peer => moves
  OBVIOUS
<1>2. ASSUME ChannelStep PROVE moves
  <2>1. ASSUME NEW x \in Rank, ReadFails(x) \/ WriteFails(x) \/ Expire(x) PROVE moves
    <3>1. Fail(x)
      BY <2>1 DEF ReadFails, WriteFails, Expire
    <3>2. peer' = peer /\ pc'[0] \in {pc[0], "idle"}
      BY <3>1 DEF Fail, gathering
    <3> QED
      BY <3>2
  <2>2. ASSUME NEW p \in Peer, WriteLocal(p) \/ ReadBroadcast(p) PROVE moves
    <3>1. pc'[0] = pc[0] /\ peer' = peer
      BY <2>2 DEF WriteLocal, ReadBroadcast, Return, gathering
    <3> QED
      BY <1>1, <3>1
  <2>3. ASSUME Encode PROVE moves
    BY <2>3 DEF Encode, Fail
  <2>4. ASSUME WriteBroadcast PROVE moves
    BY <2>4 DEF WriteBroadcast
  <2>5. ASSUME ReturnGathered PROVE moves
    BY <2>5 DEF ReturnGathered, Return
  <2>6. ReadPayload => moves
    OBVIOUS
  <2> HIDE DEF moves
  <2> QED
    BY <1>2, <2>1, <2>2, <2>3, <2>4, <2>5, <2>6 DEF ChannelStep, ContextEnds
<1>3. ASSUME NEW x \in Rank, GroupStep(x) \/ Crash(x) PROVE moves
  <2>1. ASSUME NEW n, CallAllGather(x, n) PROVE moves
    <3>1. CASE x = 0
      BY <2>1, <3>1 DEF CallAllGather, gathering
    <3>2. CASE x # 0
      BY <2>1, <3>2 DEF CallAllGather, gathering
    <3> QED
      BY <3>1, <3>2
  <2>2. Close(x) \/ UNCHANGED vars => moves
    BY <1>1 DEF Close, vars, gathering
  <2>3. (\E n : CallAllGather(x, n)) \/ UNCHANGED vars \/ Close(x)
    BY <1>3 DEF GroupStep, Crash, OpenLocal, OpenFails, Exchanged, EnterBarrier, BarrierHalf,
                BarrierDone, CloseGroup, TeardownHalf, TeardownDone, CloseSide, BeginTeardown
  <2> QED
    BY <2>1, <2>2, <2>3
<1>4. ASSUME UNCHANGED allVars PROVE moves
  BY <1>1, <1>4 DEF allVars, vars
<1> HIDE DEF moves
<1>5. moves
  BY <1>2, <1>3, <1>4 DEF GroupNext
<1> QED
  BY <1>5 DEF moves

\* What a rank does when its destinations do not fit.
LEMMA TeardownProgramStep ==
  ASSUME Core, OnlyTeardowns, ~Fits, [GroupNext]_allVars, \A q \in Rank : Onward(q),
         NEW r \in Rank
  PROVE  /\ pc'[r] # "idle" => at'[r] \in Teardown
         /\ passed'[r] = 0
         /\ at'[r] \in {"open", "exchange"} \cup Teardown
         /\ at'[r] = "exchange" => failed'[r]
<1> USE RankFacts, LifecycleFacts DEF Core, GroupTypeOK, Goto
<1>0. /\ Program(r)
      /\ pc[r] # "idle" => at[r] \in Teardown
      /\ passed[r] = 0
      /\ at[r] \in {"open", "exchange"} \cup Teardown
      /\ at[r] = "exchange" => failed[r]
      /\ failed[r] => failed'[r]
  BY DEF OnlyTeardowns, Onward
<1>1. ASSUME at'[r] = at[r], passed'[r] = passed[r], pc'[r] # "idle" => pc[r] # "idle"
      PROVE  /\ pc'[r] # "idle" => at'[r] \in Teardown
             /\ passed'[r] = 0
             /\ at'[r] \in {"open", "exchange"} \cup Teardown
             /\ at'[r] = "exchange" => failed'[r]
  BY <1>0, <1>1
<1>2. CASE Still(r)
  BY <1>1, <1>2 DEF Still
<1>3. CASE ChannelStep
  <2>1. PICK x \in Rank : pc[x] # "idle" /\ \A q \in Rank : q # x => Still(q)
    BY <1>3, ChannelActs
  <2>2. at' = at /\ passed' = passed
    BY <1>3, ChannelActs
  <2> QED
    BY <1>1, <1>2, <2>1, <2>2
<1>4. CASE GroupStep(r)
  <2>1. CASE OpenLocal(r)
    <3>1. /\ at[r] = "open" /\ at'[r] = "exchange" /\ passed' = passed
          /\ CallAllGather(r, DestBytes)
      BY <2>1 DEF OpenLocal
    <3>2. pc' = pc /\ failed'[r]
      BY <3>1, BoundAssumption DEF CallAllGather, Fits, TypeOK
    <3> QED
      BY <1>0, <3>1, <3>2 DEF Teardown
  <2>2. CASE ~OpenLocal(r)
    <3>1. ~(Succeeded(r) /\ at[r] = "exchange")
      BY <1>0 DEF Program, Succeeded, Teardown, TypeOK
    <3>2. at'[r] \in Teardown /\ passed' = passed
      BY <1>0, <1>4, <2>2, <3>1 DEF GroupStep, OpenFails, Exchanged, EnterBarrier, BarrierHalf,
         BarrierDone, CloseGroup, TeardownHalf, TeardownDone, CloseSide, BeginTeardown, Returned,
         Teardown
    <3> QED
      BY <1>0, <3>2 DEF Teardown
  <2> QED
    BY <2>1, <2>2
<1>5. CASE Crash(r)
  BY <1>0, <1>5 DEF Crash, Teardown
<1>6. CASE UNCHANGED allVars
  BY <1>1, <1>6 DEF allVars, vars, groupVars
<1> QED
  BY <1>2, <1>3, <1>4, <1>5, <1>6, OthersStill DEF GroupNext

LEMMA OnlyTeardownsStep ==
  ASSUME Core, OnlyTeardowns, ~Fits, [GroupNext]_allVars
  PROVE  OnlyTeardowns'
<1> USE RankFacts, NAssumption DEF Core, GroupTypeOK, TypeOK
<1>1. \A q \in Rank : Onward(q)
  BY OnwardStep
<1>2. AllDown => AllDown'
  BY <1>1 DEF AllDown, Onward
<1>3. ASSUME NEW r \in Rank PROVE last'[r].call > 0 => AllDown'
  <2>1. ReadBroadcast(r) /\ r \in Peer => AllDown
    BY DEF ReadBroadcast, OnlyTeardowns
  <2>2. ReturnGathered => AllDown
    BY DEF ReturnGathered, OnlyTeardowns
  <2>3. last[r].call > 0 => AllDown
    BY DEF OnlyTeardowns
  <2> QED
    BY <1>2, <1>3, <2>1, <2>2, <2>3, LastMoves
<1>4. ASSUME NEW p \in Peer PROVE up'[p] # << >> => at'[p] \in Teardown
  <2>1. up[p] # << >> \/ pc[p] = "write" => at[p] \in Teardown
    BY <1>4 DEF OnlyTeardowns
  <2>2. up'[p] # << >> => up[p] # << >> \/ pc[p] = "write"
    BY <1>4, StreamMoves
  <2> QED
    BY <1>1, <2>1, <2>2 DEF Onward
<1>5. ASSUME NEW p \in Peer PROVE down'[p] # << >> => AllDown'
  <2>1. down[p] # << >> \/ pc[0] = "cast" => AllDown
    BY <1>5 DEF OnlyTeardowns
  <2>2. down'[p] # << >> => down[p] # << >> \/ pc[0] = "cast"
    BY <1>5, StreamMoves
  <2> QED
    BY <1>2, <2>1, <2>2
<1>6. ASSUME NEW p \in Peer, pc'[0] = "gather", p < peer' PROVE at'[p] \in Teardown
  <2>1. at[p] \in Teardown => at'[p] \in Teardown
    BY <1>1 DEF Onward
  <2>2. CASE pc[0] = "gather" /\ p < peer
    BY <2>1, <2>2 DEF OnlyTeardowns
  <2>3. CASE ReadPayload
    <3>1. pc[0] = "gather" /\ peer' = peer + 1 /\ up[peer] # << >>
      BY <2>3 DEF ReadPayload
    <3>2. p < peer \/ p = peer
      BY <1>6, <3>1 DEF Peer
    <3> QED
      BY <2>1, <2>2, <3>1, <3>2 DEF OnlyTeardowns
  <2>4. ~(peer' = 1)
    BY <1>6 DEF Peer
  <2> QED
    BY <1>6, <2>2, <2>3, <2>4, LoopMoves
<1>7. ASSUME pc'[0] = "cast" PROVE AllDown'
  <2>1. CASE pc[0] = "cast"
    BY <1>2, <2>1 DEF OnlyTeardowns
  <2>2. CASE pc[0] = "gather" /\ peer = N
    <3>1. \A p \in Peer : at[p] \in Teardown
      BY <2>2 DEF OnlyTeardowns, Peer
    <3>2. at[0] \in Teardown
      BY <2>2 DEF OnlyTeardowns
    <3>3. \A q \in Rank : q = 0 \/ q \in Peer
      BY DEF Peer, Rank
    <3>4. AllDown
      BY <3>1, <3>2, <3>3 DEF AllDown
    <3> QED
      BY <1>2, <3>4
  <2>3. ~ReadPayload \/ pc[0] = "cast"
    BY <1>7 DEF ReadPayload
  <2> QED
    BY <1>7, <2>1, <2>2, <2>3, LoopMoves
<1> QED
  BY <1>1, <1>3, <1>4, <1>5, <1>6, <1>7, TeardownProgramStep DEF OnlyTeardowns

-----------------------------------------------------------------------------
(* The theorems.                                                            *)

LEMMA InitOnlyTeardowns ==
  ASSUME GroupInit PROVE OnlyTeardowns
BY RankFacts DEF GroupInit, Init, OnlyTeardowns

\* A teardown barrier that succeeds has met every rank in its teardown.
LEMMA Meets ==
  ASSUME Core, Fits => InStep, ~Fits => OnlyTeardowns,
         NEW r \in Rank, at[r] = "down2", pc[r] = "idle", Succeeded(r), NEW q \in Rank
  PROVE  at[q] \in Teardown
<1> USE LifecycleFacts DEF Core, GroupTypeOK
<1>1. Program(r) /\ Program(q)
  OBVIOUS
<1>2. /\ last[r].call = calls[r] /\ calls[r] >= 2
      /\ calls[r] \in Nat /\ calls[q] \in Nat /\ entered[q] \in 0 .. NumBarriers
  BY <1>1 DEF Program, Succeeded, TypeOK
<1>3. CASE ~Fits
  BY <1>2, <1>3 DEF OnlyTeardowns, AllDown
<1>4. CASE Fits
  <2>1. /\ FailedStep(r) /\ Reason(r)
        /\ last[r].vals[q].call = last[r].call /\ Honest(q, last[r].vals[q])
    BY <1>4 DEF InStep, ResultStep, Truth
  <2>2. calls[q] >= calls[r]
    BY <1>2, <2>1 DEF Honest
  <2>3. NotAll \/ (entered[r] = NumBarriers /\ calls[r] >= 2 * NumBarriers + 2)
    BY <1>2, <2>1 DEF Reason, Lost, FailedStep
  <2>4. SUFFICES ASSUME at[q] \notin Teardown PROVE FALSE
    OBVIOUS
  <2>5. at[q] \in {"ready", "barrier1", "barrier2"}
    BY <1>1, <1>2, <2>2, <2>4 DEF Program, Phase, Teardown
  <2>6. ~NotAll
    BY <2>5 DEF AllOpened, NotAll
  <2>7. calls[q] <= 2 * entered[q] + 1
    BY <1>1, <1>2, <2>5 DEF Program
  <2> QED
    BY ONLY <1>2, <2>2, <2>3, <2>6, <2>7, LifecycleFacts
<1> QED
  BY <1>3, <1>4

LEMMA JointKept ==
  ASSUME Core, Fits /\ ~spoilt => InStep, ~Fits => OnlyTeardowns, TeardownIsJoint,
         [GroupNext]_allVars
  PROVE  TeardownIsJoint'
<1> USE DEF Core, GroupTypeOK
<1>1. SUFFICES ASSUME ~spoilt', NEW r \in Rank, joint'[r], NEW q \in Rank
               PROVE  at'[q] \in Teardown
  BY DEF TeardownIsJoint, Teardown
<1>2. ~spoilt
  BY <1>1, SpoiltStays
<1>3. \/ joint'[r] = joint[r]
      \/ at[r] = "down2" /\ pc[r] = "idle" /\ Succeeded(r)
  <2>1. CASE ChannelStep
    BY <2>1, ChannelActs
  <2>2. ASSUME NEW x \in Rank, TeardownDone(x)
        PROVE  \/ joint'[r] = joint[r]
               \/ at[r] = "down2" /\ pc[r] = "idle" /\ Succeeded(r)
    BY <1>1, <2>2 DEF TeardownDone, Returned
  <2>3. ASSUME NEW x \in Rank, GroupStep(x) \/ Crash(x), ~TeardownDone(x) PROVE joint' = joint
    BY <2>3 DEF GroupStep, Crash, OpenLocal, OpenFails, Exchanged, EnterBarrier, BarrierHalf,
       BarrierDone, CloseGroup, TeardownHalf, CloseSide
  <2>4. CASE UNCHANGED allVars
    BY <2>4 DEF allVars, groupVars
  <2> QED
    BY <2>1, <2>2, <2>3, <2>4 DEF GroupNext
<1>4. at[q] \in Teardown
  BY <1>1, <1>2, <1>3, Meets DEF TeardownIsJoint
<1> QED
  BY <1>4, OnwardStep DEF Onward

(* What holds in every reachable state of the group: types, the program of  *)
(* each rank, honest frames, and either a channel in step (while nothing is *)
(* spoilt) or one that carries teardowns only.  What the two theorems below *)
(* rest on.                                                                 *)
THEOREM Invariance == GroupSpec => []LifeInv
<1>1. GroupInit => LifeInv
  BY InitCore, InitInStep, InitOnlyTeardowns DEF LifeInv, Core, TeardownIsJoint, GroupInit
<1>2. LifeInv /\ [GroupNext]_allVars => LifeInv'
  <2> SUFFICES ASSUME LifeInv, [GroupNext]_allVars PROVE LifeInv'
    OBVIOUS
  <2>1. Core /\ Core'
    BY CoreStep DEF LifeInv, Core
  <2>2. Fits' = Fits
    BY DEF Fits
  <2>3. Fits /\ ~spoilt' => InStep'
    BY <2>1, SpoiltStays, InStepKept DEF LifeInv
  <2>4. ~Fits => OnlyTeardowns'
    BY <2>1, OnlyTeardownsStep DEF LifeInv
  <2>5. TeardownIsJoint'
    BY <2>1, JointKept DEF LifeInv
  <2> QED
    BY <2>1, <2>2, <2>3, <2>4, <2>5 DEF LifeInv, Core
<1> QED
  BY <1>1, <1>2, PTL DEF GroupSpec

(* Barrier waits until every rank enters the same barrier (group.go,        *)
(* Barrier): whatever the group's size, its number of Barriers, the ranks   *)
(* that do not open, exit or run out of time in their teardown, and however *)
(* large destinations are, a rank's b-th Barrier returns nil only when      *)
(* every rank has called its b-th, as long as no rank left with an error of *)
(* its own.                                                                 *)
THEOREM BarriersJoin == GroupSpec => []SameBarrierUnspoilt
<1>1. LifeInv => SameBarrierUnspoilt
  <2> SUFFICES ASSUME LifeInv, ~spoilt PROVE SameBarrier
    BY DEF SameBarrierUnspoilt
  <2>1. CASE Fits
    BY <2>1 DEF LifeInv, InStep
  <2>2. CASE ~Fits
    <3>1. \A r \in Rank : passed[r] = 0 /\ entered[r] \in 0 .. NumBarriers
      BY <2>2 DEF LifeInv, OnlyTeardowns, GroupTypeOK
    <3> QED
      BY <3>1, LifecycleFacts DEF SameBarrier
  <2> QED
    BY <2>1, <2>2
<1> QED
  BY <1>1, Invariance, PTL

(* nativeBackend.close deregisters memory behind its barrier (backend.go):  *)
(* as long as no rank left with an error of its own, a teardown barrier     *)
(* that returned nil to a rank found every rank in its teardown, so no peer *)
(* still runs a collective on the memory.                                   *)
THEOREM TeardownsJoin == GroupSpec => []TeardownIsJoint
BY Invariance, PTL DEF LifeInv
=============================================================================
