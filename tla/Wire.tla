--------------------------------- MODULE Wire ---------------------------------
(***************************************************************************)
(* One wire between two ranks in internal/jacclnative/backend.go: the       *)
(* staging buffers cut in slots, wireSend and wireRecv with a window of     *)
(* pipelineDepth chunks, wireExchange with one chunk at a time in both      *)
(* directions, and confirmCompletions, which decides from the completions   *)
(* whether a slot may be read or written again.                             *)
(*                                                                         *)
(* The transport is the one of transport_memory_test.go, a queue pair with  *)
(* a send queue, a receive queue and a completion queue at each end; the    *)
(* tests run on it and the RDMA provider is used through the same           *)
(* interface.  How many completions one poll takes is a parameter: the test *)
(* transport takes one, pollRDMACompletion takes all there are up to eight. *)
(*                                                                         *)
(* Each end runs its program of operations; operation k of one end belongs  *)
(* to operation k of the other.  A chunk is <<end, operation, chunk>>.      *)
(***************************************************************************)
EXTENDS Integers, Sequences, FiniteSetsExt

CONSTANTS
  Settings,      \* the cases to consider, see Setting
  Depth,         \* pipelineDepth
  Retry          \* TRUE: a caller goes on after an operation that failed

End == {0, 1}
Slot == 0 .. Depth - 1
Kind == {"send", "recv", "exchange"}

\* Lengths of chunks: a whole one, and the shorter last one of an operation.
Whole == 2
Op == [kind : Kind, chunks : Nat \ {0}, tail : 1 .. Whole]

\* program[e]: the operations of end e; batch: completions that one poll of the
\* queue returns at most; mayExpire: a caller's context can end.
Setting == [program : [End -> Seq(Op)], batch : Nat \ {0}, mayExpire : BOOLEAN]

ASSUME WireAssumption ==
  /\ \A s \in Settings : s \in Setting
  /\ Depth \in Nat \ {0}
  /\ Retry \in BOOLEAN

VARIABLES
  setting,       \* the case at hand
  done,          \* done[e]: outcomes of e's operations so far
  next,          \* next[e]: chunks of the current operation staged
  outstanding,   \* outstanding[e]: chunks staged and not confirmed, in order
  polled,        \* polled[e]: completions that the current confirmation has
  dst,           \* dst[e]: the data that the current operation has received
  sends, recvs,  \* work requests posted and not matched
  cq,            \* completion queues
  sendBuf, recvBuf

vars == <<setting, done, next, outstanding, polled, dst, sends, recvs, cq, sendBuf, recvBuf>>
transport == <<sends, recvs, cq, sendBuf, recvBuf>>

Program == setting.program

Chunk == End \X Nat \X Nat
NoChunk == <<0, 0, 0>>
Request == [id : {"send", "recv"} \X Slot \X End, slot : Slot, bytes : Nat]
Completion == [id : {"send", "recv"} \X Slot \X End, bytes : Nat, ok : BOOLEAN]
Outcome == [ok : BOOLEAN, data : Seq(Chunk)]

TypeOK ==
  /\ setting \in Settings
  /\ done \in [End -> Seq(Outcome)]
  /\ next \in [End -> Nat]
  /\ outstanding \in [End -> Seq(Nat)]
  /\ polled \in [End -> Seq(Completion)]
  /\ dst \in [End -> Seq(Chunk)]
  /\ sends \in [End -> Seq(Request)]
  /\ recvs \in [End -> Seq(Request)]
  /\ cq \in [End -> Seq(Completion)]
  /\ sendBuf \in [End -> [Slot -> Chunk]]
  /\ recvBuf \in [End -> [Slot -> Chunk]]
  /\ \A e \in End : Len(outstanding[e]) <= Depth

Init ==
  /\ setting \in Settings
  /\ done = [e \in End |-> << >>]
  /\ next = [e \in End |-> 0]
  /\ outstanding = [e \in End |-> << >>]
  /\ polled = [e \in End |-> << >>]
  /\ dst = [e \in End |-> << >>]
  /\ sends = [e \in End |-> << >>]
  /\ recvs = [e \in End |-> << >>]
  /\ cq = [e \in End |-> << >>]
  /\ sendBuf = [e \in End |-> [s \in Slot |-> NoChunk]]
  /\ recvBuf = [e \in End |-> [s \in Slot |-> NoChunk]]

-----------------------------------------------------------------------------
(* The operation that end e is in.                                         *)

Number(e) == Len(done[e]) + 1
Running(e) ==
  /\ Number(e) <= Len(Program[e])
  /\ Retry \/ \A k \in 1 .. Len(done[e]) : done[e][k].ok
Current(e) == Program[e][Number(e)]

SendsData(e) == Current(e).kind \in {"send", "exchange"}
TakesData(e) == Current(e).kind \in {"recv", "exchange"}

opChunkLen(o, c) == IF c = o.chunks - 1 THEN o.tail ELSE Whole
chunkLen(e, c) == opChunkLen(Current(e), c)

\* Mutant of slotOf: one slot short.
SlotShort(c) == c % (Depth - 1)
slotOf(c) == c % Depth

\* slotWorkID: wireExchange numbers its work as if the peer were rank 0.
slotWorkID(e, kind, c) ==
  <<kind, slotOf(c), IF Current(e).kind = "exchange" THEN 0 ELSE 1 - e>>

\* Mutant of Window: wireExchange pipelines like wireSend.
WindowSame(e) == Depth

\* wireExchange stages its next chunk when the last one is confirmed.
Window(e) == IF Current(e).kind = "exchange" THEN 1 ELSE Depth

\* Mutant of MustStage: the window is one chunk wider than the slots.
MustStageWide(e) == next[e] < Current(e).chunks /\ Len(outstanding[e]) <= Window(e)
MustStage(e) == next[e] < Current(e).chunks /\ Len(outstanding[e]) < Window(e)

Finish(e, outcome) ==
  /\ done' = [done EXCEPT ![e] = Append(@, outcome)]
  /\ next' = [next EXCEPT ![e] = 0]
  /\ outstanding' = [outstanding EXCEPT ![e] = << >>]
  /\ polled' = [polled EXCEPT ![e] = << >>]
  /\ dst' = [dst EXCEPT ![e] = << >>]

Fail(e) == Finish(e, [ok |-> FALSE, data |-> << >>])

-----------------------------------------------------------------------------
\* The next chunk goes to its slot: a receive is posted before a send.
Stage(e) ==
  /\ Running(e) /\ MustStage(e)
  /\ LET c == next[e]
         request(kind) == [id |-> slotWorkID(e, kind, c), slot |-> slotOf(c),
                           bytes |-> chunkLen(e, c)]
     IN /\ recvs' = IF TakesData(e)
                    THEN [recvs EXCEPT ![e] = Append(@, request("recv"))] ELSE recvs
        /\ sends' = IF SendsData(e)
                    THEN [sends EXCEPT ![e] = Append(@, request("send"))] ELSE sends
        /\ sendBuf' = IF SendsData(e)
                      THEN [sendBuf EXCEPT ![e][slotOf(c)] = <<e, Number(e), c>>]
                      ELSE sendBuf
        /\ outstanding' = [outstanding EXCEPT ![e] = Append(@, c)]
        /\ next' = [next EXCEPT ![e] = c + 1]
  /\ UNCHANGED <<setting, done, polled, dst, cq, recvBuf>>

\* What confirmCompletions waits for: the oldest chunk in the window.
Wanted(e) ==
  LET c == Head(outstanding[e]) IN
  (IF TakesData(e) THEN {[id |-> slotWorkID(e, "recv", c), bytes |-> chunkLen(e, c)]} ELSE {})
  \cup
  (IF SendsData(e) THEN {[id |-> slotWorkID(e, "send", c), bytes |-> chunkLen(e, c)]} ELSE {})

\* Mutant of Count: one completion too many is waited for.
CountExtra(e) == 1 + (IF TakesData(e) THEN 1 ELSE 0) + (IF SendsData(e) THEN 1 ELSE 0)

Count(e) == (IF TakesData(e) THEN 1 ELSE 0) + (IF SendsData(e) THEN 1 ELSE 0)

Confirming(e) == Running(e) /\ ~MustStage(e)

\* One poll of the completion queue takes what is there, up to Batch.
Poll(e) ==
  /\ Confirming(e) /\ Len(polled[e]) < Count(e)
  /\ cq[e] # << >>
  /\ LET n == Min({Len(cq[e]), setting.batch})
         wrs == SubSeq(cq[e], 1, n)
     IN /\ cq' = [cq EXCEPT ![e] = SubSeq(@, n + 1, Len(@))]
        /\ IF \A i \in 1 .. n : wrs[i].ok
           THEN /\ polled' = [polled EXCEPT ![e] = @ \o wrs]
                /\ UNCHANGED <<done, next, outstanding, dst>>
           ELSE Fail(e)
  /\ UNCHANGED <<setting, sends, recvs, sendBuf, recvBuf>>

\* Each completion is one that is wanted, once; a receive has its length.
Matches(wrs, want) ==
  /\ \A i \in 1 .. Len(wrs) : \E w \in want :
       /\ w.id = wrs[i].id
       /\ w.id[1] = "recv" => w.bytes = wrs[i].bytes
  /\ \A i, j \in 1 .. Len(wrs) : i # j => wrs[i].id # wrs[j].id
  /\ \A w \in want : \E i \in 1 .. Len(wrs) : w.id = wrs[i].id

\* The chunk is confirmed: its slot is copied out, and the window moves on.
Confirm(e) ==
  /\ Confirming(e) /\ Len(polled[e]) >= Count(e)
  /\ LET c == Head(outstanding[e])
         data == IF TakesData(e) THEN Append(dst[e], recvBuf[e][slotOf(c)]) ELSE dst[e]
     IN IF ~Matches(polled[e], Wanted(e))
        THEN Fail(e)
        ELSE IF c = Current(e).chunks - 1
        THEN Finish(e, [ok |-> TRUE, data |-> data])
        ELSE /\ outstanding' = [outstanding EXCEPT ![e] = Tail(@)]
             /\ polled' = [polled EXCEPT ![e] = << >>]
             /\ dst' = [dst EXCEPT ![e] = data]
             /\ UNCHANGED <<done, next>>
  /\ UNCHANGED <<setting, transport>>

\* The context ends while the operation waits; what it polled is dropped, what
\* it posted stays posted.
Expire(e) ==
  /\ setting.mayExpire
  /\ Confirming(e) /\ Len(polled[e]) < Count(e)
  /\ Fail(e)
  /\ UNCHANGED <<setting, transport>>

-----------------------------------------------------------------------------
\* The transport matches the oldest send of e with the oldest receive of its
\* peer and copies the slot as it is now.
Transfer(e) ==
  /\ sends[e] # << >> /\ recvs[1-e] # << >>
  /\ LET s == Head(sends[e])
         r == Head(recvs[1-e])
         fits == s.bytes <= r.bytes
     IN /\ recvBuf' = IF fits THEN [recvBuf EXCEPT ![1-e][r.slot] = sendBuf[e][s.slot]]
                              ELSE recvBuf
        /\ cq' = [cq EXCEPT
             ![e] = Append(@, [id |-> s.id, bytes |-> 0, ok |-> fits]),
             ![1-e] = Append(@, [id |-> r.id, bytes |-> s.bytes, ok |-> fits])]
        /\ sends' = [sends EXCEPT ![e] = Tail(@)]
        /\ recvs' = [recvs EXCEPT ![1-e] = Tail(@)]
  /\ UNCHANGED <<setting, done, next, outstanding, polled, dst, sendBuf>>

OperationStep(e) == Stage(e) \/ Poll(e) \/ Confirm(e)

Next == \E e \in End : OperationStep(e) \/ Expire(e) \/ Transfer(e)

Spec == Init /\ [][Next]_vars

FairSpec ==
  /\ Spec
  /\ \A e \in End : WF_vars(OperationStep(e)) /\ WF_vars(Transfer(e))

-----------------------------------------------------------------------------
(* An operation that succeeds has received, chunk by chunk and in the length *)
(* it expects, what its peer's operation sent: no stale, short or            *)
(* overwritten slot is taken for data.                                       *)
DataIntact ==
  \A e \in End : \A k \in 1 .. Len(done[e]) :
    done[e][k].ok /\ Program[e][k].kind # "send" =>
      \A i \in 1 .. Program[e][k].chunks :
        /\ done[e][k].data[i] = <<1-e, k, i-1>>
        /\ opChunkLen(Program[e][k], i-1) = opChunkLen(Program[1-e][k], i-1)

\* The completions of e that are not confirmed: those polled, then those to poll.
Landed(e) == polled[e] \o cq[e]

\* The slots of one kind in use, each with the request or completion that uses it.
SlotsInUse(e, kind) ==
  LET posted == IF kind = "recv" THEN recvs[e] ELSE sends[e]
      landed == {i \in 1 .. Len(Landed(e)) : Landed(e)[i].id[1] = kind}
  IN {<<"posted", i, posted[i].slot>> : i \in 1 .. Len(posted)}
     \cup {<<"landed", i, Landed(e)[i].id[2]>> : i \in landed}

(* A slot belongs to one chunk from the moment its work request is posted to *)
(* the moment its completion is confirmed: no second request is posted on it, *)
(* and none is left on it by an earlier operation.                           *)
SlotsExclusive ==
  \A e \in End, kind \in {"send", "recv"} :
    \A x, y \in SlotsInUse(e, kind) : x[3] = y[3] => x = y

\* The two ends run matching operations and nobody gives up.
Matching(o, q) ==
  /\ o.chunks = q.chunks /\ o.tail = q.tail
  /\ <<o.kind, q.kind>> \in {<<"send", "recv">>, <<"recv", "send">>, <<"exchange", "exchange">>}
Healthy ==
  /\ ~setting.mayExpire
  /\ \A k \in 1 .. Len(Program[0]) : Matching(Program[0][k], Program[1][k])

(* Matching operations succeed: no completion is taken for a framing error.  *)
HealthySucceed ==
  Healthy => \A e \in End : \A k \in 1 .. Len(done[e]) : done[e][k].ok

(* And they end: no completion that an operation waits for was consumed by   *)
(* an earlier one.                                                           *)
EveryOperationEnds ==
  Healthy => \A e \in End : <>(Len(done[e]) = Len(Program[e]))
=============================================================================
