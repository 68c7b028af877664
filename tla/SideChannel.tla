----------------------------- MODULE SideChannel -----------------------------
(***************************************************************************)
(* The TCP side channel of internal/jacclnative/side_channel.go, once every *)
(* rank is connected: a star around rank 0 over which the ranks run        *)
(* AllGather, and Barrier as two AllGathers of nothing.                    *)
(*                                                                         *)
(* Frames carry no round number: a frame belongs to a round only by its    *)
(* place in its stream.  The model labels each payload with the number of  *)
(* the caller's AllGather ("call"), which the code does not send, so that   *)
(* a result can be compared with what every rank contributed to that round. *)
(*                                                                         *)
(* A write puts one whole frame in the stream: a frame is at most 8 KiB and *)
(* fits the socket buffer of a peer that reads between its own writes.     *)
(***************************************************************************)
EXTENDS Integers, Sequences, Functions

CONSTANTS
  N,             \* size of the group
  MaxCalls,      \* bound: AllGather calls that each rank makes
  MaxFrame,      \* sideChannelMaxFrameSize
  Sizes,         \* payload sizes that callers pass
  MayExpire,     \* TRUE: a caller's context can end during a call
  MayClose,      \* TRUE: ranks can close the channel
  Retry          \* TRUE: a caller may call again after a failed call

ASSUME NAssumption == N \in Nat \ {0, 1}
ASSUME BoundAssumption == MaxCalls \in Nat /\ MaxFrame \in Nat /\ Sizes \subseteq Nat
ASSUME SwitchAssumption == /\ MayExpire \in BOOLEAN
                           /\ MayClose \in BOOLEAN
                           /\ Retry \in BOOLEAN

Rank == 0 .. N-1
Peer == 1 .. N-1

Frame == [call : Nat, size : Nat]
NoFrame == [call |-> 0, size |-> 0]

VARIABLES
  pc,            \* where each rank is inside AllGather, "idle" outside it
  calls,         \* calls[r]: AllGather calls rank r has made
  own,           \* own[r]: the payload of r's current call
  peer,          \* rank 0: the loop variable of its read and write loops
  values,        \* rank 0: the payloads read so far
  up,            \* up[p]: frames from p that rank 0 has not read
  down,          \* down[p]: broadcasts for p that p has not read
  torn,          \* ranks whose reading left a stream in the middle of a frame
  failed,        \* failed[r]: some call of r returned an error
  closed,        \* closed[r]: r has closed its connections
  last           \* last[r]: the last call of r that succeeded, and its result

vars == <<pc, calls, own, peer, values, up, down, torn, failed, closed, last>>
streams == <<up, down, torn>>
gathering == <<peer, values>>

Location == {"idle", "write", "read", "gather", "cast"}

TypeOK ==
  /\ pc \in [Rank -> Location]
  /\ calls \in [Rank -> Nat]
  /\ own \in [Rank -> Frame]
  /\ peer \in 1 .. N
  /\ values \in [Rank -> Frame]
  /\ up \in [Peer -> Seq(Frame)]
  /\ down \in [Peer -> Seq([Rank -> Frame])]
  /\ torn \in SUBSET (Peer \X {"up", "down"})
  /\ failed \in [Rank -> BOOLEAN]
  /\ closed \in [Rank -> BOOLEAN]
  /\ last \in [Rank -> [call : Nat, vals : [Rank -> Frame]]]

Init ==
  /\ pc = [r \in Rank |-> "idle"]
  /\ calls = [r \in Rank |-> 0]
  /\ own = [r \in Rank |-> NoFrame]
  /\ peer = 1
  /\ values = [r \in Rank |-> NoFrame]
  /\ up = [p \in Peer |-> << >>]
  /\ down = [p \in Peer |-> << >>]
  /\ torn = {}
  /\ failed = [r \in Rank |-> FALSE]
  /\ closed = [r \in Rank |-> FALSE]
  /\ last = [r \in Rank |-> [call |-> 0, vals |-> [q \in Rank |-> NoFrame]]]

-----------------------------------------------------------------------------
(* The size of the broadcast: JSON of a [][]byte, each payload in base64.  *)
(* rank 0's own empty payload is a nil slice and encodes as null.          *)
EncodedBytes(q, n) ==
  IF n = 0 THEN (IF q = 0 THEN 4 ELSE 2) ELSE 2 + 4 * ((n + 2) \div 3)

BroadcastSize(vals) ==
  (N - 1) + 2 + SumFunction([q \in Rank |-> EncodedBytes(q, vals[q].size)])

-----------------------------------------------------------------------------
(* Steps of one rank.  Return and Fail end the current call.               *)

Fail(r) ==
  /\ pc' = [pc EXCEPT ![r] = "idle"]
  /\ failed' = [failed EXCEPT ![r] = TRUE]
  /\ UNCHANGED <<calls, own, gathering, closed, last>>

Return(r, vals) ==
  /\ pc' = [pc EXCEPT ![r] = "idle"]
  /\ last' = [last EXCEPT ![r] = [call |-> calls[r], vals |-> vals]]
  /\ UNCHANGED <<calls, own, failed, closed>>

\* Mutant of CallAllGather: rank 0's read loop starts at itself.
LoopFromZero(r, n) ==
  /\ pc[r] = "idle" /\ ~closed[r] /\ calls[r] < MaxCalls /\ ~failed[r]
  /\ calls' = [calls EXCEPT ![r] = @ + 1]
  /\ own' = [own EXCEPT ![r] = [call |-> calls[r] + 1, size |-> n]]
  /\ pc' = [pc EXCEPT ![r] = IF r = 0 THEN "gather" ELSE "write"]
  /\ peer' = IF r = 0 THEN 0 ELSE peer
  /\ UNCHANGED <<values, streams, failed, closed, last>>

\* A caller enters AllGather with a payload of n bytes.
CallAllGather(r, n) ==
  LET payload == [call |-> calls[r] + 1, size |-> n] IN
  /\ pc[r] = "idle" /\ ~closed[r]
  /\ calls[r] < MaxCalls
  /\ Retry \/ ~failed[r]
  /\ calls' = [calls EXCEPT ![r] = @ + 1]
  /\ own' = [own EXCEPT ![r] = payload]
  /\ IF n > MaxFrame
     THEN /\ failed' = [failed EXCEPT ![r] = TRUE]
          /\ UNCHANGED <<pc, gathering>>
     ELSE /\ pc' = [pc EXCEPT ![r] = IF r = 0 THEN "gather" ELSE "write"]
          /\ IF r = 0
             THEN /\ peer' = 1
                  /\ values' = [[q \in Rank |-> NoFrame] EXCEPT ![0] = payload]
             ELSE UNCHANGED gathering
          /\ UNCHANGED failed
  /\ UNCHANGED <<streams, closed, last>>

\* Rank p sends its payload to rank 0.
WriteLocal(p) ==
  /\ pc[p] = "write" /\ ~closed[p]
  /\ up' = [up EXCEPT ![p] = IF closed[0] THEN @ ELSE Append(@, own[p])]
  /\ pc' = [pc EXCEPT ![p] = "read"]
  /\ UNCHANGED <<calls, own, gathering, down, torn, failed, closed, last>>

\* Mutant of ReadBroadcast: the frame stays in the stream.
PeekBroadcast(p) ==
  /\ pc[p] = "read" /\ ~closed[p]
  /\ down[p] # << >> /\ <<p, "down">> \notin torn
  /\ Return(p, Head(down[p]))
  /\ UNCHANGED <<gathering, streams>>

\* Rank p reads the broadcast and returns it.
ReadBroadcast(p) ==
  /\ pc[p] = "read" /\ ~closed[p]
  /\ down[p] # << >> /\ <<p, "down">> \notin torn
  /\ down' = [down EXCEPT ![p] = Tail(@)]
  /\ Return(p, Head(down[p]))
  /\ UNCHANGED <<gathering, up, torn>>

\* Rank 0 reads the payload of the peer its loop has come to.
ReadPayload ==
  /\ pc[0] = "gather" /\ ~closed[0]
  /\ peer < N
  /\ up[peer] # << >> /\ <<peer, "up">> \notin torn
  /\ values' = [values EXCEPT ![peer] = Head(up[peer])]
  /\ up' = [up EXCEPT ![peer] = Tail(@)]
  /\ peer' = peer + 1
  /\ UNCHANGED <<pc, calls, own, down, torn, failed, closed, last>>

\* Mutant of Encode: rank 0's read loop stops one peer short.
EncodeEarly ==
  /\ pc[0] = "gather" /\ peer >= N - 1
  /\ pc' = [pc EXCEPT ![0] = "cast"]
  /\ peer' = 1
  /\ UNCHANGED <<calls, own, values, failed, closed, last, streams>>

\* Rank 0 has every payload and encodes the broadcast; the first write
\* refuses one that does not fit a frame.
Encode ==
  /\ pc[0] = "gather" /\ peer = N
  /\ IF BroadcastSize(values) > MaxFrame
     THEN Fail(0)
     ELSE /\ pc' = [pc EXCEPT ![0] = "cast"]
          /\ peer' = 1
          /\ UNCHANGED <<calls, own, values, failed, closed, last>>
  /\ UNCHANGED streams

\* Rank 0 writes the broadcast to the peer its loop has come to.
WriteBroadcast ==
  /\ pc[0] = "cast" /\ ~closed[0]
  /\ peer < N
  /\ down' = [down EXCEPT ![peer] = IF closed[peer] THEN @ ELSE Append(@, values)]
  /\ peer' = peer + 1
  /\ UNCHANGED <<pc, calls, own, values, up, torn, failed, closed, last>>

ReturnGathered ==
  /\ pc[0] = "cast" /\ peer = N
  /\ Return(0, values)
  /\ UNCHANGED <<gathering, streams>>

-----------------------------------------------------------------------------
(* Failures.                                                               *)

\* The stream that rank r reads next, as <<p, direction>>; none elsewhere.
Reading(r) ==
  IF r = 0 THEN {<<p, "up">> : p \in {p \in Peer : pc[0] = "gather" /\ p = peer}}
           ELSE {<<p, "down">> : p \in {p \in Peer : pc[r] = "read" /\ p = r}}

StreamEmpty(s) == IF s[2] = "up" THEN up[s[1]] = << >> ELSE down[s[1]] = << >>

\* Mutant of ReadFails: the end of the stream is not an error.
IgnoreEOF(r) ==
  /\ pc[r] # "idle"
  /\ \E s \in Reading(r) : s \in torn /\ ~StreamEmpty(s)
  /\ Fail(r)
  /\ UNCHANGED streams

\* A read of stream s fails: the stream is torn and the next bytes are not a
\* header, or it has ended because the other side closed.
ReadFails(r) ==
  /\ pc[r] # "idle"
  /\ \E s \in Reading(r) :
       \/ s \in torn /\ ~StreamEmpty(s)
       \/ StreamEmpty(s) /\ closed[IF s[2] = "up" THEN s[1] ELSE 0]
  /\ Fail(r)
  /\ UNCHANGED streams

\* A write to a peer that has closed is reported (it may also go unnoticed,
\* see WriteLocal and WriteBroadcast).
WriteFails(r) ==
  /\ \/ pc[r] = "write" /\ closed[0]
     \/ r = 0 /\ pc[0] = "cast" /\ peer < N /\ closed[peer]
  /\ Fail(r)
  /\ UNCHANGED streams

\* Rank r is at a read or a write: not at the end of one of rank 0's loops.
AtTransfer(r) == pc[r] # "idle" /\ (r = 0 => peer < N)

\* The rank itself has closed the connections that its call uses.
UsesClosed(r) ==
  /\ AtTransfer(r) /\ closed[r]
  /\ Fail(r)
  /\ UNCHANGED streams

\* The context ends during a read or a write of r.  withSideContext reports
\* the context's error even when the read or write completed; a read may also
\* stop in the middle of a frame.
Expire(r) ==
  /\ MayExpire
  /\ AtTransfer(r)
  /\ Fail(r)
  /\ \/ UNCHANGED streams
     \/ /\ pc[r] = "write" /\ ~closed[0]
        /\ up' = [up EXCEPT ![r] = Append(@, own[r])]
        /\ UNCHANGED <<down, torn>>
     \/ /\ r = 0 /\ pc[0] = "cast" /\ peer < N /\ ~closed[peer]
        /\ down' = [down EXCEPT ![peer] = Append(@, values)]
        /\ UNCHANGED <<up, torn>>
     \/ \E s \in Reading(r) \ torn :
          /\ ~StreamEmpty(s)
          /\ \/ torn' = torn \cup {s} /\ UNCHANGED <<up, down>>
             \/ /\ s[2] = "up"
                /\ up' = [up EXCEPT ![s[1]] = Tail(@)]
                /\ UNCHANGED <<down, torn>>
             \/ /\ s[2] = "down"
                /\ down' = [down EXCEPT ![s[1]] = Tail(@)]
                /\ UNCHANGED <<up, torn>>

\* Close: what r has not read is lost; what r has sent still arrives, unless
\* the unread data makes the kernel reset the connection.
Close(r) ==
  /\ MayClose
  /\ ~closed[r]
  /\ closed' = [closed EXCEPT ![r] = TRUE]
  /\ IF r = 0
     THEN /\ up' = [p \in Peer |-> << >>]
          /\ \E reset \in SUBSET {p \in Peer : up[p] # << >>} :
               down' = [p \in Peer |-> IF p \in reset THEN << >> ELSE down[p]]
     ELSE /\ down' = [down EXCEPT ![r] = << >>]
          /\ \/ UNCHANGED up
             \/ down[r] # << >> /\ up' = [up EXCEPT ![r] = << >>]
  /\ UNCHANGED <<pc, calls, own, gathering, torn, failed, last>>

Next ==
  \/ \E r \in Rank : \/ \E n \in Sizes : CallAllGather(r, n)
                     \/ ReadFails(r)
                     \/ WriteFails(r)
                     \/ UsesClosed(r)
                     \/ Expire(r)
                     \/ Close(r)
  \/ \E p \in Peer : WriteLocal(p) \/ ReadBroadcast(p)
  \/ ReadPayload
  \/ Encode
  \/ WriteBroadcast
  \/ ReturnGathered

Spec == Init /\ [][Next]_vars

(* The goroutines run and TCP delivers, so every transfer that can proceed  *)
(* does, and so does every read that can only fail.  The callers keep       *)
(* calling, and one whose call failed closes its group, as newNativeBackend *)
(* does when open fails.                                                    *)
Fairness ==
  /\ \A p \in Peer : WF_vars(WriteLocal(p)) /\ WF_vars(ReadBroadcast(p))
  /\ WF_vars(ReadPayload \/ Encode \/ WriteBroadcast \/ ReturnGathered)
  /\ \A r \in Rank : /\ WF_vars(ReadFails(r) \/ UsesClosed(r))
                     /\ WF_vars(\E n \in Sizes : CallAllGather(r, n))
                     /\ WF_vars(failed[r] /\ Close(r))

FairSpec == Spec /\ Fairness

-----------------------------------------------------------------------------
(* AllGather returns, to every rank and in every round, the payload that    *)
(* each rank passed in that very round: frames are matched by position      *)
(* only, and neither a failed rank nor one that closes shifts them.         *)
ResultsMatch ==
  \A r, q \in Rank : last[r].vals[q].call = last[r].call

(* A rank leaves AllGather only after every rank has entered it: what makes *)
(* two AllGathers of nothing a barrier.                                     *)
NobodyLeavesEarly ==
  \A r, q \in Rank : last[r].call <= calls[q]

(* Ranks that leave the same round hold the same payloads.                  *)
ResultsAgree ==
  \A r, q \in Rank :
    last[r].call = last[q].call => last[r].vals = last[q].vals

(* Every call ends, with a result or with an error: a rank whose broadcast  *)
(* does not fit a frame, whose context ends or that leaves does not strand  *)
(* the others, because it closes its connections.                           *)
EveryCallEnds ==
  \A r \in Rank : pc[r] # "idle" ~> pc[r] = "idle"

(* The side channel does what AllGather.tla promises.                       *)
Promise == INSTANCE AllGather WITH
  entered <- calls,
  left <- [r \in Rank |-> last[r].call],
  got <- [r \in Rank |-> [q \in Rank |-> last[r].vals[q].call]],
  gaveUp <- failed

ImplementsAllGather == Promise!AbsSpec
=============================================================================
