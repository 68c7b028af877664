------------------------------ MODULE WireProofs ------------------------------
(***************************************************************************)
(* Theorems about Wire, for every depth of the pipeline, all programs and   *)
(* sizes of polls, with callers that stop after an operation that failed.   *)
(***************************************************************************)
EXTENDS Wire, SequenceTheorems, TLAPS

-----------------------------------------------------------------------------
(* One end.                                                                 *)

Okay(e) == \A k \in 1 .. Len(done[e]) : done[e][k].ok

\* The oldest chunk not confirmed.
First(e) == next[e] - Len(outstanding[e])

WorkKind == {"send", "recv"}
Uses(e, kind) == IF kind = "recv" THEN TakesData(e) ELSE SendsData(e)
Posted(e, kind) == IF kind = "recv" THEN recvs[e] ELSE sends[e]
request(e, kind, c) == [id |-> slotWorkID(e, kind, c), slot |-> slotOf(c), bytes |-> chunkLen(e, c)]

\* The chunks of the operation that the transport has moved.
Moved(e, kind) == next[e] - Len(Posted(e, kind))

InWindow(e) ==
  /\ ~Running(e) => /\ next[e] = 0 /\ outstanding[e] = << >> /\ polled[e] = << >>
                    /\ dst[e] = << >>
  /\ Running(e) => /\ 0 <= First(e) /\ First(e) < Current(e).chunks
                   /\ next[e] <= Current(e).chunks
                   /\ Len(outstanding[e]) <= Window(e)
                   /\ \A i \in 1 .. Len(outstanding[e]) : outstanding[e][i] = First(e) + i - 1

\* What e has posted and what has landed, is of the chunks in its window.
InOrder(e, kind) ==
  /\ ~Uses(e, kind) => Posted(e, kind) = << >>
  /\ Uses(e, kind) =>
       /\ First(e) <= Moved(e, kind)
       /\ \A i \in 1 .. Len(Posted(e, kind)) :
            Posted(e, kind)[i] = request(e, kind, Moved(e, kind) + i - 1)
OfWindow(e, w) ==
  \E kind \in WorkKind : \E c \in First(e) .. Moved(e, kind) - 1 :
    /\ Uses(e, kind)
    /\ w.id = slotWorkID(e, kind, c)
Work(e) ==
  /\ Okay(e) /\ ~Running(e) => sends[e] = << >> /\ recvs[e] = << >> /\ Landed(e) = << >>
  /\ Running(e) => /\ \A kind \in WorkKind : InOrder(e, kind)
                   /\ \A i \in 1 .. Len(Landed(e)) : OfWindow(e, Landed(e)[i])

Place(w) == <<w.id[1], w.id[2]>>
Apart(e) ==
  /\ \A i, j \in 1 .. Len(Landed(e)) : i # j => Place(Landed(e)[i]) # Place(Landed(e)[j])
  /\ \A kind \in WorkKind : \A i \in 1 .. Len(Posted(e, kind)) :
       /\ Place(Posted(e, kind)[i]) = <<kind, Posted(e, kind)[i].slot>>
       /\ \A j \in 1 .. Len(Posted(e, kind)) :
            i # j => Posted(e, kind)[i].slot # Posted(e, kind)[j].slot
       /\ \A j \in 1 .. Len(Landed(e)) : Place(Posted(e, kind)[i]) # Place(Landed(e)[j])

SlotInv == TypeOK /\ \A e \in End : InWindow(e) /\ Work(e) /\ Apart(e)

-----------------------------------------------------------------------------
(* The two ends, when their programs face each other.                       *)

Paired(s) ==
  /\ Len(s.program[0]) = Len(s.program[1])
  /\ \A k \in 1 .. Len(s.program[0]) :
       /\ s.program[0][k].chunks = s.program[1][k].chunks
       /\ <<s.program[0][k].kind, s.program[1][k].kind>> \in
            {<<"send", "recv">>, <<"recv", "send">>, <<"exchange", "exchange">>}

Takes(e) == Running(e) /\ TakesData(e)
Gives(e) == Running(e) /\ SendsData(e)

\* The operation that the requests of e are of.
InPlay(e) == IF Okay(e) THEN Number(e) ELSE Len(done[e])

\* The chunk of the first send that the transport has not matched.
Base(e) == IF Okay(e) THEN next[e] - Len(sends[e]) ELSE sendBuf[e][sends[e][1].slot][3]
Sending(e) == sends[e] # << >> \/ Gives(e)

\* What waits to be sent lies in its slot.
Staged(e) ==
  \A i \in 1 .. Len(sends[e]) :
    LET o == Program[e][InPlay(e)]
        c == Base(e) + i - 1
    IN  /\ o.kind # "recv" /\ InPlay(e) <= Len(Program[e])
        /\ c \in Nat /\ c < o.chunks
        /\ sends[e][i].bytes = opChunkLen(o, c)
        /\ sendBuf[e][sends[e][i].slot] = <<e, InPlay(e), c>>

\* An end that has not failed takes chunk by chunk what the other one sends, in the
\* same operation, and neither is more than one operation ahead while they do.
AlignedTo(r, s) ==
  /\ InPlay(s) > Number(r) =>
       /\ InPlay(s) = Number(r) + 1
       /\ recvs[r] = << >>
       /\ Takes(r) => next[r] = Current(r).chunks
       /\ Sending(s) => Base(s) = 0
  /\ InPlay(s) = Number(r) /\ Takes(r) /\ Sending(s) => Base(s) = Moved(r, "recv")
  /\ InPlay(s) < Number(r) =>
       /\ sends[s] = << >>
       /\ Okay(s) => /\ Number(r) = Number(s) + 1
                     /\ Gives(s) => next[s] = Current(s).chunks
                     /\ Takes(r) => Moved(r, "recv") = 0
Aligned(e) == Okay(e) => AlignedTo(e, 1-e)

\* What landed lies in its slot; what was confirmed is in dst.
IsChunk(e, c, data) ==
  /\ data = <<1 - e, Number(e), c>>
  /\ opChunkLen(Current(e), c) = opChunkLen(Program[1-e][Number(e)], c)
Arrived(e) ==
  \A i \in 1 .. Len(Landed(e)) : \A c \in First(e) .. Moved(e, "recv") - 1 :
    Landed(e)[i].id = slotWorkID(e, "recv", c) /\ Landed(e)[i].ok =>
      /\ recvBuf[e][slotOf(c)] = <<1 - e, Number(e), c>>
      /\ Landed(e)[i].bytes = opChunkLen(Program[1-e][Number(e)], c)
Taken(e) ==
  /\ \A i \in 1 .. Len(polled[e]) : polled[e][i].ok
  /\ Len(dst[e]) = First(e)
  /\ \A c \in 0 .. First(e) - 1 : IsChunk(e, c, dst[e][c + 1])
Delivered(e) == Takes(e) => Arrived(e) /\ Taken(e)

FlowInv == SlotInv /\ \A e \in End : Staged(e) /\ Aligned(e)
DataInv == FlowInv /\ (\A e \in End : Delivered(e)) /\ DataIntact

-----------------------------------------------------------------------------
(* Healthy operations.                                                      *)

\* A poll returns no more completions than an operation waits for.
Measured(s) ==
  \/ s.batch = 1
  \/ \A e \in End : \A k \in 1 .. Len(s.program[e]) :
       s.program[e][k].kind = "exchange" \/ s.program[e][k].chunks = 1

InTurn(e) ==
  Running(e) =>
    /\ Len(polled[e]) <= Count(e)
    /\ Current(e).kind # "exchange" =>
         LET kind == Current(e).kind IN
         /\ Len(Landed(e)) = Moved(e, kind) - First(e)
         /\ \A i \in 1 .. Len(Landed(e)) :
              Landed(e)[i].id = slotWorkID(e, kind, First(e) + i - 1)

Unharmed(e) ==
  /\ Okay(e) /\ InTurn(e)
  /\ \A i \in 1 .. Len(Landed(e)) : Landed(e)[i].ok
HealthInv == DataInv /\ (Healthy => \A e \in End : Unharmed(e))

-----------------------------------------------------------------------------
(* Operators.                                                               *)

LEMMA SlotsInRange ==
  ASSUME NEW c \in Nat
  PROVE  slotOf(c) \in Slot
BY WireAssumption, SMT DEF slotOf, Slot

LEMMA Division ==
  ASSUME NEW a \in Int, NEW b \in Int, b > 0
  PROVE  a \div b \in Int /\ a % b \in Int /\ a = b * (a \div b) + (a % b)
<1>1. a \div b \in Int  BY SMTT(30)
<1>2. a % b \in Int  BY SMTT(30)
<1>3. a = b * (a \div b) + (a % b)  BY SMTT(30)
<1> QED  BY <1>1, <1>2, <1>3

LEMMA ProductIsInt ==
  ASSUME NEW a \in Int, NEW b \in Int
  PROVE  a * b \in Int
OBVIOUS

LEMMA MultipleIsZero ==
  ASSUME NEW d \in Nat \ {0}, NEW q \in Int, -d < d * q, d * q < d
  PROVE  q = 0
<1>1. CASE q >= 1
  <2>1. d * q >= d * 1  BY <1>1, SMT
  <2> QED  BY <2>1, SMT
<1>2. CASE q <= -1
  <2>1. d * q <= d * (-1)  BY <1>2, SMT
  <2> QED  BY <2>1, SMT
<1> QED  BY <1>1, <1>2, SMT

\* Two chunks less than a window apart are in different slots.
LEMMA SlotsDiffer ==
  ASSUME NEW c \in Nat, NEW d \in Nat, c < d, d < c + Depth
  PROVE  slotOf(c) # slotOf(d)
<1> SUFFICES ASSUME slotOf(c) = slotOf(d)  PROVE FALSE
  OBVIOUS
<1> DEFINE q == (d \div Depth) - (c \div Depth)
<1>1. Depth \in Int /\ Depth > 0  BY WireAssumption
<1>2. /\ c \div Depth \in Int /\ c % Depth \in Int
      /\ c = Depth * (c \div Depth) + (c % Depth)
  BY <1>1, Division
<1>3. /\ d \div Depth \in Int /\ d % Depth \in Int
      /\ d = Depth * (d \div Depth) + (d % Depth)
  BY <1>1, Division
<1>4. c % Depth = d % Depth  BY DEF slotOf
<1>5. q \in Int  BY <1>2, <1>3
<1>6. Depth * q = Depth * (d \div Depth) - Depth * (c \div Depth)  BY <1>1, <1>2, <1>3, SMT
<1>7. Depth * (c \div Depth) \in Int /\ Depth * (d \div Depth) \in Int
  BY <1>1, <1>2, <1>3, ProductIsInt
<1> HIDE DEF q
<1>8. Depth * q = d - c  BY <1>2, <1>3, <1>4, <1>6, <1>7, SMT
<1>9. q = 0  BY <1>1, <1>5, <1>8, MultipleIsZero, SMT
<1>10. Depth * q = 0  BY <1>1, <1>9, SMT
<1> QED  BY <1>8, <1>10, SMT

LEMMA SlotsApart ==
  ASSUME NEW c \in Nat, NEW d \in Nat, NEW f \in Nat,
         f <= c, f <= d, c < f + Depth, d < f + Depth, slotOf(c) = slotOf(d)
  PROVE  c = d
<1>1. CASE c < d  BY <1>1, SlotsDiffer, WireAssumption, SMT
<1>2. CASE d < c  BY <1>2, SlotsDiffer, WireAssumption, SMT
<1> QED  BY <1>1, <1>2, SMT

\* What a poll takes.
LEMMA PolledIsPrefix ==
  ASSUME NEW l \in Nat, NEW b \in Nat \ {0}, l # 0
  PROVE  /\ Min({l, b}) \in 1 .. l
         /\ Min({l, b}) <= b
<1> DEFINE P(x) == x \in {l, b} /\ \A y \in {l, b} : x <= y
<1>1. \E x : P(x)
  <2>1. CASE l <= b  BY <2>1
  <2>2. CASE b <= l  BY <2>2
  <2> QED  BY <2>1, <2>2
<1>2. P(CHOOSE x : P(x))  BY <1>1
<1>3. Min({l, b}) = CHOOSE x : P(x)
  BY DEF Min
<1> QED  BY <1>2, <1>3

-----------------------------------------------------------------------------
(* Types and the window.                                                    *)

WindowInv == TypeOK /\ \A e \in End : InWindow(e)

LEMMA InOperation ==
  ASSUME TypeOK, NEW e \in End, Running(e)
  PROVE  /\ Program[e] \in Seq(Op) /\ Number(e) \in 1 .. Len(Program[e])
         /\ Current(e) \in Op
         /\ Current(e).chunks \in Nat \ {0} /\ Current(e).kind \in Kind
         /\ Window(e) \in 1 .. Depth
         /\ next[e] \in Nat /\ Len(outstanding[e]) \in Nat
<1>1. setting \in Setting  BY WireAssumption DEF TypeOK
<1>2. Program[e] \in Seq(Op)  BY <1>1 DEF Program, Setting
<1>3. Number(e) \in 1 .. Len(Program[e])
  BY <1>2 DEF Number, Running, TypeOK
<1>4. Current(e) \in Op  BY <1>2, <1>3 DEF Current
<1>5. Window(e) \in 1 .. Depth  BY WireAssumption DEF Window
<1>6. Current(e).chunks \in Nat \ {0} /\ Current(e).kind \in Kind
  BY <1>4 DEF Op
<1>7. next[e] \in Nat /\ Len(outstanding[e]) \in Nat  BY DEF TypeOK
<1> QED  BY <1>2, <1>3, <1>4, <1>5, <1>6, <1>7

\* While a completion is waited for, there is a chunk to confirm.
LEMMA Confirmable ==
  ASSUME TypeOK, NEW e \in End, InWindow(e), Confirming(e)
  PROVE  /\ Running(e)
         /\ Len(outstanding[e]) \in Nat \ {0}
         /\ First(e) \in Nat /\ First(e) < next[e]
         /\ Head(outstanding[e]) = First(e)
         /\ next[e] = Current(e).chunks \/ next[e] = First(e) + Window(e)
<1>1. Running(e)  BY DEF Confirming
<1>2. /\ Current(e).chunks \in Nat \ {0} /\ Window(e) \in 1 .. Depth
      /\ next[e] \in Nat /\ Len(outstanding[e]) \in Nat
  BY <1>1, InOperation
<1>3. First(e) \in Nat /\ First(e) < Current(e).chunks /\ next[e] <= Current(e).chunks
  BY <1>1, <1>2 DEF InWindow, First
<1>4. next[e] >= Current(e).chunks \/ Len(outstanding[e]) >= Window(e)
  BY <1>2 DEF Confirming, MustStage
<1>5. Len(outstanding[e]) > 0
  BY <1>2, <1>3, <1>4, WireAssumption DEF First
<1>6. Head(outstanding[e]) = outstanding[e][1]
  BY <1>5 DEF TypeOK
<1>7. outstanding[e][1] = First(e)
  BY <1>1, <1>2, <1>3, <1>5 DEF InWindow
<1>8. next[e] = Current(e).chunks \/ next[e] = First(e) + Window(e)
  <2>1. Len(outstanding[e]) <= Window(e)  BY <1>1 DEF InWindow
  <2> QED  BY <1>2, <1>3, <1>4, <2>1, WireAssumption DEF First
<1> QED  BY <1>1, <1>2, <1>3, <1>5, <1>6, <1>7, <1>8 DEF First

\* A step that leaves the operation of e alone.
LEMMA SameOperation ==
  ASSUME NEW e \in End, done'[e] = done[e], setting' = setting
  PROVE  /\ Number(e)' = Number(e) /\ Current(e)' = Current(e)
         /\ Running(e)' = Running(e) /\ Okay(e)' = Okay(e)
         /\ \A kind : Uses(e, kind)' = Uses(e, kind)
         /\ TakesData(e)' = TakesData(e) /\ SendsData(e)' = SendsData(e)
         /\ Window(e)' = Window(e)
         /\ \A kind, c : slotWorkID(e, kind, c)' = slotWorkID(e, kind, c)
         /\ \A kind, c : request(e, kind, c)' = request(e, kind, c)
         /\ \A c : chunkLen(e, c)' = chunkLen(e, c)
         /\ Count(e)' = Count(e)
<1>1. Number(e)' = Number(e)  BY DEF Number
<1>2. Program' = Program  BY DEF Program
<1>3. Current(e)' = Current(e)  BY <1>1, <1>2 DEF Current
<1>4. Running(e)' = Running(e)  BY <1>1, <1>2 DEF Running
<1>5. Okay(e)' = Okay(e)  BY DEF Okay
<1>6. TakesData(e)' = TakesData(e) /\ SendsData(e)' = SendsData(e)
  BY <1>3 DEF TakesData, SendsData
<1>7. \A kind : Uses(e, kind)' = Uses(e, kind)  BY <1>6 DEF Uses
<1>8. Window(e)' = Window(e)  BY <1>3 DEF Window
<1>9. \A kind, c : slotWorkID(e, kind, c)' = slotWorkID(e, kind, c)
  BY <1>3 DEF slotWorkID
<1>10. \A c : chunkLen(e, c)' = chunkLen(e, c)  BY <1>3 DEF chunkLen
<1>11. \A kind, c : request(e, kind, c)' = request(e, kind, c)
  BY <1>9, <1>10 DEF request
<1>12. Count(e)' = Count(e)  BY <1>6 DEF Count
<1> QED  BY <1>1, <1>3, <1>4, <1>5, <1>6, <1>7, <1>8, <1>9, <1>10, <1>11, <1>12

LEMMA WorkIDType ==
  ASSUME NEW e \in End, NEW kind \in WorkKind, NEW c \in Nat
  PROVE  /\ slotWorkID(e, kind, c) \in WorkKind \X Slot \X End
         /\ slotWorkID(e, kind, c)[1] = kind
         /\ slotWorkID(e, kind, c)[2] = slotOf(c)
<1>1. slotOf(c) \in Slot  BY SlotsInRange
<1>2. 0 \in End /\ 1 - e \in End  BY DEF End
<1> QED  BY <1>1, <1>2 DEF slotWorkID

LEMMA RequestType ==
  ASSUME TypeOK, NEW e \in End, Running(e), NEW kind \in WorkKind, NEW c \in Nat
  PROVE  request(e, kind, c) \in Request
<1>1. slotOf(c) \in Slot  BY SlotsInRange
<1>2. slotWorkID(e, kind, c) \in WorkKind \X Slot \X End  BY WorkIDType
<1>3. chunkLen(e, c) \in Nat
  <2>1. Current(e) \in Op  BY InOperation
  <2>2. Current(e).tail \in 1 .. Whole  BY <2>1 DEF Op
  <2> QED  BY <2>2 DEF chunkLen, opChunkLen, Whole
<1> QED  BY <1>1, <1>2, <1>3 DEF request, Request, WorkKind

\* How an operation ends.
LEMMA FinishTypes ==
  ASSUME TypeOK, NEW e \in End, NEW outcome \in Outcome, Finish(e, outcome)
  PROVE  /\ done' \in [End -> Seq(Outcome)] /\ done'[e] = Append(done[e], outcome)
         /\ next' \in [End -> Nat] /\ next'[e] = 0
         /\ outstanding' \in [End -> Seq(Nat)] /\ outstanding'[e] = << >>
         /\ polled' \in [End -> Seq(Completion)] /\ polled'[e] = << >>
         /\ dst' \in [End -> Seq(Chunk)] /\ dst'[e] = << >>
         /\ \A f \in End : Len(outstanding'[f]) <= Depth
         /\ \A f \in End \ {e} :
              /\ done'[f] = done[f] /\ next'[f] = next[f] /\ outstanding'[f] = outstanding[f]
              /\ polled'[f] = polled[f] /\ dst'[f] = dst[f]
<1>1. Append(done[e], outcome) \in Seq(Outcome)  BY DEF TypeOK
<1>2. done' \in [End -> Seq(Outcome)] /\ done'[e] = Append(done[e], outcome)
  BY <1>1 DEF TypeOK, Finish
<1>3. next' \in [End -> Nat] /\ next'[e] = 0  BY DEF TypeOK, Finish
<1>4. outstanding' \in [End -> Seq(Nat)] /\ outstanding'[e] = << >>
  BY DEF TypeOK, Finish
<1>5. polled' \in [End -> Seq(Completion)] /\ polled'[e] = << >>
  BY DEF TypeOK, Finish
<1>6. dst' \in [End -> Seq(Chunk)] /\ dst'[e] = << >>
  BY DEF TypeOK, Finish
<1>7. \A f \in End \ {e} :
        /\ done'[f] = done[f] /\ next'[f] = next[f] /\ outstanding'[f] = outstanding[f]
        /\ polled'[f] = polled[f] /\ dst'[f] = dst[f]
  BY DEF TypeOK, Finish
<1>8. \A f \in End : Len(outstanding'[f]) <= Depth
  <2> TAKE f \in End
  <2>1. CASE f = e  BY <1>4, <2>1, WireAssumption
  <2>2. CASE f # e  BY <1>7, <2>2 DEF TypeOK
  <2> QED  BY <2>1, <2>2
<1> QED  BY <1>2, <1>3, <1>4, <1>5, <1>6, <1>7, <1>8

LEMMA FailedOutcome == [ok |-> FALSE, data |-> << >>] \in Outcome
BY DEF Outcome

-----------------------------------------------------------------------------
(* What each action does.                                                   *)

OperationKept(f) ==
  /\ setting' = setting /\ done'[f] = done[f] /\ next'[f] = next[f]
  /\ outstanding'[f] = outstanding[f] /\ polled'[f] = polled[f] /\ dst'[f] = dst[f]
RequestsKept(f) == sends'[f] = sends[f] /\ recvs'[f] = recvs[f] /\ cq'[f] = cq[f]
Kept(f) == OperationKept(f) /\ RequestsKept(f)

LEMMA StageEffect ==
  ASSUME TypeOK, NEW e \in End, Stage(e)
  PROVE  /\ TypeOK'
         /\ Running(e) /\ next[e] < Current(e).chunks /\ Len(outstanding[e]) < Window(e)
         /\ setting' = setting /\ done' = done /\ polled' = polled /\ dst' = dst
         /\ cq' = cq /\ recvBuf' = recvBuf
         /\ next'[e] = next[e] + 1 /\ outstanding'[e] = Append(outstanding[e], next[e])
         /\ \A kind \in WorkKind : Posted(e, kind)' =
              IF Uses(e, kind) THEN Append(Posted(e, kind), request(e, kind, next[e]))
                               ELSE Posted(e, kind)
         /\ sendBuf' = IF SendsData(e)
              THEN [sendBuf EXCEPT ![e][slotOf(next[e])] = <<e, Number(e), next[e]>>]
              ELSE sendBuf
         /\ \A f \in End \ {e} : Kept(f)
<1>1. Running(e) /\ next[e] < Current(e).chunks /\ Len(outstanding[e]) < Window(e)
  BY DEF Stage, MustStage
<1>2. /\ setting' = setting /\ done' = done /\ polled' = polled /\ dst' = dst
      /\ cq' = cq /\ recvBuf' = recvBuf
  BY DEF Stage
<1>3. next[e] \in Nat /\ next' = [next EXCEPT ![e] = next[e] + 1]  BY DEF Stage, TypeOK
<1>4. outstanding' = [outstanding EXCEPT ![e] = Append(outstanding[e], next[e])]
  BY DEF Stage, TypeOK
<1>5. sendBuf' = IF SendsData(e)
        THEN [sendBuf EXCEPT ![e][slotOf(next[e])] = <<e, Number(e), next[e]>>] ELSE sendBuf
  BY DEF Stage
<1>6. recvs' = IF TakesData(e)
        THEN [recvs EXCEPT ![e] = Append(recvs[e], request(e, "recv", next[e]))] ELSE recvs
  BY DEF Stage, TypeOK, request
<1>7. sends' = IF SendsData(e)
        THEN [sends EXCEPT ![e] = Append(sends[e], request(e, "send", next[e]))] ELSE sends
  BY DEF Stage, TypeOK, request
<1>8. TypeOK'
  <2>1. next' \in [End -> Nat]  BY <1>3 DEF TypeOK
  <2>2. outstanding' \in [End -> Seq(Nat)]  BY <1>3, <1>4 DEF TypeOK
  <2>3. \A f \in End : Len(outstanding'[f]) <= Depth
    <3> TAKE f \in End
    <3>1. CASE f = e
      <4>1. Len(outstanding'[e]) = Len(outstanding[e]) + 1  BY <1>3, <1>4 DEF TypeOK
      <4>2. Window(e) \in 1 .. Depth /\ Len(outstanding[e]) \in Nat  BY <1>1, InOperation
      <4> QED  BY <1>1, <3>1, <4>1, <4>2, WireAssumption
    <3>2. CASE f # e  BY <1>4, <3>2 DEF TypeOK
    <3> QED  BY <3>1, <3>2
  <2>4. request(e, "recv", next[e]) \in Request /\ request(e, "send", next[e]) \in Request
    BY <1>1, <1>3, RequestType DEF WorkKind
  <2>5. recvs' \in [End -> Seq(Request)]  BY <1>6, <2>4 DEF TypeOK
  <2>6. sends' \in [End -> Seq(Request)]  BY <1>7, <2>4 DEF TypeOK
  <2>7. <<e, Number(e), next[e]>> \in Chunk  BY <1>3 DEF Chunk, Number, TypeOK
  <2>8. slotOf(next[e]) \in Slot  BY <1>3, SlotsInRange
  <2>9. sendBuf' \in [End -> [Slot -> Chunk]]  BY <1>5, <2>7, <2>8 DEF TypeOK
  <2> QED  BY <1>2, <2>1, <2>2, <2>3, <2>5, <2>6, <2>9 DEF TypeOK
<1>9. next'[e] = next[e] + 1 /\ outstanding'[e] = Append(outstanding[e], next[e])
  BY <1>3, <1>4 DEF TypeOK
<1>10. ASSUME NEW kind \in WorkKind
       PROVE  Posted(e, kind)' =
              IF Uses(e, kind) THEN Append(Posted(e, kind), request(e, kind, next[e]))
                               ELSE Posted(e, kind)
  <2>1. CASE kind = "recv"  BY <1>6, <2>1 DEF Posted, Uses, TypeOK
  <2>2. CASE kind = "send"  BY <1>7, <2>2 DEF Posted, Uses, TypeOK
  <2> QED  BY <2>1, <2>2 DEF WorkKind
<1>11. ASSUME NEW f \in End \ {e}  PROVE Kept(f)
  <2>1. sends'[f] = sends[f] /\ recvs'[f] = recvs[f]  BY <1>6, <1>7 DEF TypeOK
  <2> QED  BY <1>2, <1>3, <1>4, <2>1 DEF Kept, OperationKept, RequestsKept, TypeOK
<1> QED  BY <1>1, <1>2, <1>5, <1>8, <1>9, <1>10, <1>11

\* An end fails: what it posted stays, of what landed a last part.
FailedStep(e) ==
  /\ Confirming(e)
  /\ TypeOK'
  /\ setting' = setting /\ sends' = sends /\ recvs' = recvs
  /\ sendBuf' = sendBuf /\ recvBuf' = recvBuf
  /\ done'[e] = Append(done[e], [ok |-> FALSE, data |-> << >>])
  /\ next'[e] = 0 /\ outstanding'[e] = << >> /\ polled'[e] = << >> /\ dst'[e] = << >>
  /\ \E n \in Nat : n <= Len(cq[e]) /\ cq'[e] = SubSeq(cq[e], n + 1, Len(cq[e]))
  /\ \A f \in End \ {e} : Kept(f)

PolledStep(e) ==
  /\ Confirming(e)
  /\ TypeOK'
  /\ setting' = setting /\ sends' = sends /\ recvs' = recvs
  /\ sendBuf' = sendBuf /\ recvBuf' = recvBuf
  /\ done' = done /\ next' = next /\ outstanding' = outstanding /\ dst' = dst
  /\ Len(polled[e]) < Count(e)
  /\ \E n \in 1 .. Len(cq[e]) :
       /\ n <= setting.batch
       /\ cq'[e] = SubSeq(cq[e], n + 1, Len(cq[e]))
       /\ polled'[e] = polled[e] \o SubSeq(cq[e], 1, n)
       /\ \A i \in 1 .. n : cq[e][i].ok
  /\ \A f \in End \ {e} : Kept(f)

LEMMA PollEffect ==
  ASSUME TypeOK, NEW e \in End, Poll(e)
  PROVE  PolledStep(e) \/ FailedStep(e)
<1> DEFINE n == Min({Len(cq[e]), setting.batch})
           wrs == SubSeq(cq[e], 1, n)
<1>1. setting.batch \in Nat \ {0}  BY WireAssumption DEF TypeOK, Setting
<1>2. cq[e] \in Seq(Completion) /\ Len(cq[e]) \in Nat /\ Len(cq[e]) # 0
  BY DEF Poll, TypeOK
<1>3. n \in 1 .. Len(cq[e]) /\ n <= setting.batch  BY <1>1, <1>2, PolledIsPrefix
<1>4. /\ Confirming(e) /\ Len(polled[e]) < Count(e)
      /\ setting' = setting /\ sends' = sends /\ recvs' = recvs
      /\ sendBuf' = sendBuf /\ recvBuf' = recvBuf
      /\ cq' = [cq EXCEPT ![e] = SubSeq(@, n + 1, Len(@))]
  BY DEF Poll
<1>5. \/ /\ \A i \in 1 .. n : wrs[i].ok
         /\ polled' = [polled EXCEPT ![e] = @ \o wrs]
         /\ UNCHANGED <<done, next, outstanding, dst>>
      \/ Fail(e)
  BY DEF Poll
<1> HIDE DEF n
<1>6. wrs \in Seq(Completion) /\ \A i \in 1 .. n : wrs[i] = cq[e][i]  BY <1>2, <1>3
<1>7. SubSeq(cq[e], n + 1, Len(cq[e])) \in Seq(Completion)  BY <1>2, <1>3
<1>8. cq' \in [End -> Seq(Completion)] /\ cq'[e] = SubSeq(cq[e], n + 1, Len(cq[e]))
  BY <1>4, <1>7 DEF TypeOK
<1>9. \A f \in End \ {e} : cq'[f] = cq[f] /\ sends'[f] = sends[f] /\ recvs'[f] = recvs[f]
  BY <1>4 DEF TypeOK
<1> HIDE DEF wrs
<1>10. CASE Fail(e)
  <2>1. Finish(e, [ok |-> FALSE, data |-> << >>])  BY <1>10 DEF Fail
  <2>2. TypeOK'  BY <1>4, <1>8, <2>1, FinishTypes, FailedOutcome DEF TypeOK
  <2>3. \A f \in End \ {e} : Kept(f)
    BY <1>4, <1>9, <2>1, FinishTypes, FailedOutcome DEF Kept, OperationKept, RequestsKept
  <2>4. /\ done'[e] = Append(done[e], [ok |-> FALSE, data |-> << >>])
        /\ next'[e] = 0 /\ outstanding'[e] = << >> /\ polled'[e] = << >> /\ dst'[e] = << >>
    BY <2>1, FinishTypes, FailedOutcome
  <2>5. n \in Nat /\ n <= Len(cq[e])  BY <1>2, <1>3
  <2> QED  BY <1>4, <1>8, <2>2, <2>3, <2>4, <2>5 DEF FailedStep
<1>11. CASE /\ \A i \in 1 .. n : wrs[i].ok
            /\ polled' = [polled EXCEPT ![e] = @ \o wrs]
            /\ UNCHANGED <<done, next, outstanding, dst>>
  <2>1. polled' \in [End -> Seq(Completion)] /\ polled'[e] = polled[e] \o SubSeq(cq[e], 1, n)
    <3>1. polled \in [End -> Seq(Completion)]  BY DEF TypeOK
    <3>2. polled'[e] = polled[e] \o wrs  BY <1>11, <3>1
    <3>3. polled[e] \o wrs \in Seq(Completion)
      <4>1. polled[e] \in Seq(Completion)  BY <3>1
      <4> HIDE DEF wrs
      <4> QED  BY <1>6, <4>1
    <3>4. polled' \in [End -> Seq(Completion)]
      <4> HIDE DEF wrs
      <4> QED  BY <1>11, <3>1, <3>3
    <3> QED  BY <3>2, <3>4 DEF wrs
  <2>2. TypeOK'  BY <1>4, <1>8, <1>11, <2>1 DEF TypeOK
  <2>3. \A f \in End \ {e} : Kept(f)
    BY <1>4, <1>9, <1>11 DEF Kept, OperationKept, RequestsKept, TypeOK
  <2>4. \A i \in 1 .. n : cq[e][i].ok  BY <1>6, <1>11
  <2> QED  BY <1>3, <1>4, <1>8, <1>11, <2>1, <2>2, <2>3, <2>4 DEF PolledStep
<1> QED  BY <1>5, <1>10, <1>11

Confirmed(e) ==
  IF TakesData(e) THEN Append(dst[e], recvBuf[e][slotOf(First(e))]) ELSE dst[e]

ConfirmedStep(e) ==
  /\ Confirming(e) /\ Len(polled[e]) >= Count(e) /\ Matches(polled[e], Wanted(e))
  /\ TypeOK'
  /\ UNCHANGED <<setting, transport>>
  /\ \A f \in End \ {e} : Kept(f)

FinishedStep(e) ==
  /\ ConfirmedStep(e)
  /\ First(e) = Current(e).chunks - 1
  /\ done'[e] = Append(done[e], [ok |-> TRUE, data |-> Confirmed(e)])
  /\ next'[e] = 0 /\ outstanding'[e] = << >> /\ polled'[e] = << >> /\ dst'[e] = << >>

AdvancedStep(e) ==
  /\ ConfirmedStep(e)
  /\ First(e) < Current(e).chunks - 1
  /\ done' = done /\ next' = next
  /\ outstanding'[e] = Tail(outstanding[e]) /\ polled'[e] = << >> /\ dst'[e] = Confirmed(e)

LEMMA FailEffect ==
  ASSUME TypeOK, NEW e \in End, Confirming(e), Fail(e), UNCHANGED <<setting, transport>>
  PROVE  FailedStep(e)
<1>1. Finish(e, [ok |-> FALSE, data |-> << >>])  BY DEF Fail
<1>2. /\ setting' = setting /\ sends' = sends /\ recvs' = recvs /\ cq' = cq
      /\ sendBuf' = sendBuf /\ recvBuf' = recvBuf
  BY DEF transport
<1>3. TypeOK'  BY <1>1, <1>2, FinishTypes, FailedOutcome DEF TypeOK
<1>4. \A f \in End \ {e} : Kept(f)
  BY <1>1, <1>2, FinishTypes, FailedOutcome DEF Kept, OperationKept, RequestsKept
<1>5. /\ done'[e] = Append(done[e], [ok |-> FALSE, data |-> << >>])
      /\ next'[e] = 0 /\ outstanding'[e] = << >> /\ polled'[e] = << >> /\ dst'[e] = << >>
  BY <1>1, FinishTypes, FailedOutcome
<1>6. cq[e] \in Seq(Completion)  BY DEF TypeOK
<1>7. cq'[e] = SubSeq(cq[e], 0 + 1, Len(cq[e])) /\ 0 <= Len(cq[e])
  BY <1>2, <1>6, SubSeqFull
<1> QED  BY <1>2, <1>3, <1>4, <1>5, <1>7 DEF FailedStep

LEMMA ConfirmEffect ==
  ASSUME TypeOK, NEW e \in End, InWindow(e), Confirm(e)
  PROVE  FinishedStep(e) \/ AdvancedStep(e) \/ FailedStep(e)
<1>1. /\ Confirming(e) /\ Len(polled[e]) >= Count(e)
      /\ UNCHANGED <<setting, transport>>
  BY DEF Confirm
<1>2. /\ Running(e) /\ Head(outstanding[e]) = First(e) /\ First(e) \in Nat
      /\ First(e) < next[e] /\ Len(outstanding[e]) \in Nat \ {0}
  BY <1>1, Confirmable
<1>3. Confirmed(e) \in Seq(Chunk)
  <2>1. slotOf(First(e)) \in Slot  BY <1>2, SlotsInRange
  <2>2. recvBuf[e][slotOf(First(e))] \in Chunk  BY <2>1 DEF TypeOK
  <2> QED  BY <2>2 DEF Confirmed, TypeOK
<1>4. /\ setting' = setting /\ sends' = sends /\ recvs' = recvs /\ cq' = cq
      /\ sendBuf' = sendBuf /\ recvBuf' = recvBuf
  BY <1>1 DEF transport
<1>5. First(e) < Current(e).chunks /\ Current(e).chunks \in Nat
  BY <1>2, InOperation DEF InWindow
<1>6. CASE ~Matches(polled[e], Wanted(e))
  BY <1>1, <1>6, FailEffect DEF Confirm
<1>7. CASE Matches(polled[e], Wanted(e)) /\ First(e) = Current(e).chunks - 1
  <2>1. Finish(e, [ok |-> TRUE, data |-> Confirmed(e)])
    BY <1>2, <1>7 DEF Confirm, Confirmed
  <2>2. [ok |-> TRUE, data |-> Confirmed(e)] \in Outcome  BY <1>3 DEF Outcome
  <2>3. TypeOK'  BY <1>4, <2>1, <2>2, FinishTypes DEF TypeOK
  <2>4. \A f \in End \ {e} : Kept(f)
    BY <1>4, <2>1, <2>2, FinishTypes DEF Kept, OperationKept, RequestsKept
  <2>5. ConfirmedStep(e)  BY <1>1, <1>7, <2>3, <2>4 DEF ConfirmedStep
  <2> QED  BY <1>7, <2>1, <2>2, <2>5, FinishTypes DEF FinishedStep
<1>8. CASE Matches(polled[e], Wanted(e)) /\ First(e) # Current(e).chunks - 1
  <2>1. /\ outstanding' = [outstanding EXCEPT ![e] = Tail(@)]
        /\ polled' = [polled EXCEPT ![e] = << >>]
        /\ dst' = [dst EXCEPT ![e] = Confirmed(e)]
        /\ done' = done /\ next' = next
    BY <1>2, <1>8 DEF Confirm, Confirmed
  <2>2. /\ Tail(outstanding[e]) \in Seq(Nat)
        /\ Len(Tail(outstanding[e])) = Len(outstanding[e]) - 1
    BY <1>2 DEF TypeOK
  <2>3. /\ outstanding' \in [End -> Seq(Nat)] /\ polled' \in [End -> Seq(Completion)]
        /\ dst' \in [End -> Seq(Chunk)]
    BY <1>3, <2>1, <2>2 DEF TypeOK
  <2>4. \A f \in End : Len(outstanding'[f]) <= Depth
    <3> TAKE f \in End
    <3>1. CASE f = e
      <4>1. Len(outstanding[e]) <= Depth  BY DEF TypeOK
      <4>2. outstanding'[f] = Tail(outstanding[e])  BY <2>1, <3>1 DEF TypeOK
      <4> QED  BY <1>2, <2>2, <4>1, <4>2, WireAssumption
    <3>2. CASE f # e  BY <2>1, <3>2 DEF TypeOK
    <3> QED  BY <3>1, <3>2
  <2>5. TypeOK'  BY <1>4, <2>1, <2>3, <2>4 DEF TypeOK
  <2>6. \A f \in End \ {e} : Kept(f)
    BY <1>4, <2>1 DEF Kept, OperationKept, RequestsKept, TypeOK
  <2>7. ConfirmedStep(e)  BY <1>1, <1>8, <2>5, <2>6 DEF ConfirmedStep
  <2>8. /\ outstanding'[e] = Tail(outstanding[e]) /\ polled'[e] = << >>
        /\ dst'[e] = Confirmed(e)
    BY <2>1 DEF TypeOK
  <2>9. First(e) < Current(e).chunks - 1  BY <1>2, <1>5, <1>8
  <2> QED  BY <2>1, <2>7, <2>8, <2>9 DEF AdvancedStep
<1> QED  BY <1>6, <1>7, <1>8

LEMMA ExpireEffect ==
  ASSUME TypeOK, NEW e \in End, Expire(e)
  PROVE  FailedStep(e)
<1>1. Confirming(e) /\ Fail(e) /\ UNCHANGED <<setting, transport>>  BY DEF Expire
<1> QED  BY <1>1, FailEffect

LEMMA OtherEnd ==
  ASSUME NEW e \in End
  PROVE  1 - e \in End /\ 1 - e # e /\ 1 - (1 - e) = e /\ \A f \in End : f = e \/ f = 1 - e
<1>1. End = {0, 1}  BY DEF End
<1>2. CASE e = 0
  <2>1. 1 - e = 1 /\ 1 - (1 - e) = 0  BY <1>2
  <2> QED  BY <1>1, <1>2, <2>1
<1>3. CASE e = 1
  <2>1. 1 - e = 0 /\ 1 - (1 - e) = 1  BY <1>3
  <2> QED  BY <1>1, <1>3, <2>1
<1> QED  BY <1>1, <1>2, <1>3

TransferStep(e) ==
  LET s == Head(sends[e])
      r == Head(recvs[1-e])
      fits == s.bytes <= r.bytes
  IN /\ sends[e] # << >> /\ recvs[1-e] # << >>
     /\ TypeOK'
     /\ \A f \in End : OperationKept(f)
     /\ sendBuf' = sendBuf
     /\ recvBuf' = IF fits THEN [recvBuf EXCEPT ![1-e][r.slot] = sendBuf[e][s.slot]]
                           ELSE recvBuf
     /\ sends'[e] = Tail(sends[e]) /\ sends'[1-e] = sends[1-e]
     /\ recvs'[1-e] = Tail(recvs[1-e]) /\ recvs'[e] = recvs[e]
     /\ cq'[e] = Append(cq[e], [id |-> s.id, bytes |-> 0, ok |-> fits])
     /\ cq'[1-e] = Append(cq[1-e], [id |-> r.id, bytes |-> s.bytes, ok |-> fits])
     /\ s = sends[e][1] /\ r = recvs[1-e][1]
     /\ s \in Request /\ r \in Request

LEMMA TransferEffect ==
  ASSUME TypeOK, NEW e \in End, Transfer(e)
  PROVE  TransferStep(e)
<1> DEFINE s == Head(sends[e])
           r == Head(recvs[1-e])
           fits == s.bytes <= r.bytes
           sent == [id |-> s.id, bytes |-> 0, ok |-> fits]
           received == [id |-> r.id, bytes |-> s.bytes, ok |-> fits]
<1>1. 1 - e \in End /\ 1 - e # e /\ \A f \in End : f = e \/ f = 1 - e  BY OtherEnd
<1>2. /\ sends[e] # << >> /\ recvs[1-e] # << >>
      /\ UNCHANGED <<setting, done, next, outstanding, polled, dst, sendBuf>>
      /\ recvBuf' = IF fits THEN [recvBuf EXCEPT ![1-e][r.slot] = sendBuf[e][s.slot]]
                            ELSE recvBuf
      /\ sends' = [sends EXCEPT ![e] = Tail(@)]
      /\ recvs' = [recvs EXCEPT ![1-e] = Tail(@)]
      /\ cq' = [cq EXCEPT ![e] = Append(@, sent), ![1-e] = Append(@, received)]
  BY DEF Transfer
<1>3. sends[e] \in Seq(Request) /\ recvs[1-e] \in Seq(Request)  BY <1>1 DEF TypeOK
<1>4. s \in Request /\ s = sends[e][1] /\ Tail(sends[e]) \in Seq(Request)  BY <1>2, <1>3
<1>5. r \in Request /\ r = recvs[1-e][1] /\ Tail(recvs[1-e]) \in Seq(Request)
  BY <1>2, <1>3
<1> HIDE DEF s, r
<1>6. fits \in BOOLEAN  OBVIOUS
<1> HIDE DEF fits
<1>7. sent \in Completion /\ received \in Completion
  BY <1>4, <1>5, <1>6 DEF Request, Completion
<1> HIDE DEF sent, received
<1>8. sends' \in [End -> Seq(Request)] /\ sends'[e] = Tail(sends[e])
      /\ sends'[1-e] = sends[1-e]
  BY <1>1, <1>2, <1>4 DEF TypeOK
<1>9. recvs' \in [End -> Seq(Request)] /\ recvs'[1-e] = Tail(recvs[1-e])
      /\ recvs'[e] = recvs[e]
  BY <1>1, <1>2, <1>5 DEF TypeOK
<1>10. cq[e] \in Seq(Completion) /\ cq[1-e] \in Seq(Completion) /\ cq \in [End -> Seq(Completion)]
  BY <1>1 DEF TypeOK
<1>11. Append(cq[e], sent) \in Seq(Completion) /\ Append(cq[1-e], received) \in Seq(Completion)
  BY <1>7, <1>10
<1>12. cq'[e] = Append(cq[e], sent) /\ cq'[1-e] = Append(cq[1-e], received)
  BY <1>1, <1>2, <1>10
<1>13. cq' \in [End -> Seq(Completion)]
  BY <1>1, <1>2, <1>10, <1>11
<1>14. recvBuf' \in [End -> [Slot -> Chunk]]
  <2>1. s.slot \in Slot /\ r.slot \in Slot  BY <1>4, <1>5 DEF Request
  <2>2. sendBuf[e][s.slot] \in Chunk  BY <2>1 DEF TypeOK
  <2>3. recvBuf \in [End -> [Slot -> Chunk]]  BY DEF TypeOK
  <2> QED  BY <1>1, <1>2, <2>1, <2>2, <2>3
<1>15. TypeOK'  BY <1>2, <1>8, <1>9, <1>13, <1>14 DEF TypeOK
<1>16. \A f \in End : OperationKept(f)  BY <1>2 DEF OperationKept
<1> QED  BY <1>2, <1>4, <1>5, <1>8, <1>9, <1>12, <1>15, <1>16, Zenon
      DEF TransferStep, s, r, fits, sent, received

-----------------------------------------------------------------------------
(* The window.                                                              *)

LEMMA NextOperation ==
  ASSUME TypeOK', NEW e \in End, Running(e)'
  PROVE  Current(e)' \in Op /\ Current(e)'.chunks \in Nat \ {0} /\ Window(e)' \in 1 .. Depth
<1>1. setting' \in Setting  BY WireAssumption DEF TypeOK
<1>2. Program'[e] \in Seq(Op)  BY <1>1 DEF Program, Setting
<1>3. Number(e)' \in 1 .. Len(Program'[e])
  BY <1>2 DEF Number, Running, TypeOK
<1>4. Current(e)' \in Op  BY <1>2, <1>3 DEF Current
<1>5. Window(e)' \in 1 .. Depth  BY WireAssumption DEF Window
<1>6. Current(e)'.chunks \in Nat \ {0}  BY <1>4 DEF Op
<1> QED  BY <1>4, <1>5, <1>6

LEMMA KeptWindow ==
  ASSUME NEW e \in End, InWindow(e), OperationKept(e)
  PROVE  InWindow(e)'
<1>1. /\ next'[e] = next[e] /\ outstanding'[e] = outstanding[e]
      /\ polled'[e] = polled[e] /\ dst'[e] = dst[e]
      /\ done'[e] = done[e] /\ setting' = setting
  BY DEF OperationKept
<1>2. First(e)' = First(e)  BY <1>1 DEF First
<1> QED  BY <1>1, <1>2, SameOperation DEF InWindow

LEMMA StageWindow ==
  ASSUME TypeOK, NEW e \in End, InWindow(e), Stage(e)
  PROVE  InWindow(e)' /\ First(e)' = First(e)
<1>1. /\ Running(e) /\ next[e] < Current(e).chunks /\ Len(outstanding[e]) < Window(e)
      /\ setting' = setting /\ done' = done
      /\ next'[e] = next[e] + 1 /\ outstanding'[e] = Append(outstanding[e], next[e])
  BY StageEffect
<1>2. /\ Current(e).chunks \in Nat \ {0} /\ Window(e) \in 1 .. Depth
      /\ next[e] \in Nat /\ Len(outstanding[e]) \in Nat
  BY <1>1, InOperation
<1>3. outstanding[e] \in Seq(Nat)  BY DEF TypeOK
<1>4. /\ Len(outstanding'[e]) = Len(outstanding[e]) + 1
      /\ \A i \in 1 .. Len(outstanding[e]) : outstanding'[e][i] = outstanding[e][i]
      /\ outstanding'[e][Len(outstanding[e]) + 1] = next[e]
  BY <1>1, <1>2, <1>3, AppendProperties
<1>5. First(e)' = First(e)
  <2>1. First(e)' = next'[e] - Len(outstanding'[e])  BY DEF First
  <2>2. First(e)' = (next[e] + 1) - (Len(outstanding[e]) + 1)  BY <1>1, <1>4, <2>1
  <2>3. next[e] \in Nat /\ Len(outstanding[e]) \in Nat  BY <1>2
  <2>4. \A a, b \in Nat : (a + 1) - (b + 1) = a - b  OBVIOUS
  <2>5. (next[e] + 1) - (Len(outstanding[e]) + 1) = next[e] - Len(outstanding[e])
    BY <2>3, <2>4, Zenon
  <2> QED  BY <2>2, <2>5 DEF First
<1>6. /\ 0 <= First(e) /\ First(e) < Current(e).chunks
      /\ \A i \in 1 .. Len(outstanding[e]) : outstanding[e][i] = First(e) + i - 1
  BY <1>1 DEF InWindow
<1>7. Running(e)' = Running(e) /\ Current(e)' = Current(e) /\ Window(e)' = Window(e)
  BY <1>1, SameOperation
<1>8. \A i \in 1 .. Len(outstanding'[e]) : outstanding'[e][i] = First(e) + i - 1
  <2> TAKE i \in 1 .. Len(outstanding'[e])
  <2>1. CASE i \in 1 .. Len(outstanding[e])  BY <1>4, <1>6, <2>1
  <2>2. CASE i = Len(outstanding[e]) + 1  BY <1>2, <1>4, <2>2 DEF First
  <2> QED  BY <1>2, <1>4, <2>1, <2>2
<1>9. Len(outstanding'[e]) <= Window(e)  BY <1>1, <1>2, <1>4, WireAssumption
<1>10. next'[e] <= Current(e).chunks  BY <1>1, <1>2
<1> QED  BY <1>1, <1>5, <1>6, <1>7, <1>8, <1>9, <1>10 DEF InWindow

\* Between operations the window is empty.
LEMMA EmptyWindow ==
  ASSUME TypeOK', NEW e \in End,
         next'[e] = 0, outstanding'[e] = << >>, polled'[e] = << >>, dst'[e] = << >>
  PROVE  InWindow(e)' /\ First(e)' = 0
<1>1. First(e)' = 0
  <2>1. Len(outstanding'[e]) = 0  OBVIOUS
  <2>2. First(e)' = next'[e] - Len(outstanding'[e])  BY DEF First
  <2> QED  BY <2>1, <2>2
<1>2. ASSUME Running(e)'
      PROVE /\ First(e)' < Current(e)'.chunks /\ next'[e] <= Current(e)'.chunks
            /\ Len(outstanding'[e]) <= Window(e)'
  BY <1>1, <1>2, NextOperation, WireAssumption
<1> QED  BY <1>1, <1>2 DEF InWindow

LEMMA AdvancedWindow ==
  ASSUME TypeOK, NEW e \in End, InWindow(e), AdvancedStep(e)
  PROVE  InWindow(e)' /\ First(e)' = First(e) + 1
<1>1. /\ Confirming(e) /\ setting' = setting /\ done' = done /\ next' = next
      /\ outstanding'[e] = Tail(outstanding[e])
      /\ First(e) < Current(e).chunks - 1
  BY DEF AdvancedStep, ConfirmedStep
<1>2. /\ Running(e) /\ Len(outstanding[e]) \in Nat \ {0} /\ First(e) \in Nat
  BY <1>1, Confirmable
<1>3. /\ Current(e).chunks \in Nat \ {0} /\ Window(e) \in 1 .. Depth /\ next[e] \in Nat
  BY <1>2, InOperation
<1>4. outstanding[e] \in Seq(Nat)  BY DEF TypeOK
<1>5. /\ Len(outstanding'[e]) = Len(outstanding[e]) - 1
      /\ \A i \in 1 .. Len(outstanding'[e]) : outstanding'[e][i] = outstanding[e][i + 1]
  BY <1>1, <1>2, <1>4
<1>6. First(e)' = First(e) + 1  BY <1>1, <1>2, <1>3, <1>5 DEF First
<1>7. /\ next[e] <= Current(e).chunks /\ Len(outstanding[e]) <= Window(e)
      /\ \A i \in 1 .. Len(outstanding[e]) : outstanding[e][i] = First(e) + i - 1
  BY <1>2 DEF InWindow
<1>8. Running(e)' = Running(e) /\ Current(e)' = Current(e) /\ Window(e)' = Window(e)
  BY <1>1, SameOperation
<1>9. \A i \in 1 .. Len(outstanding'[e]) : outstanding'[e][i] = First(e)' + i - 1
  <2> TAKE i \in 1 .. Len(outstanding'[e])
  <2>1. i \in Nat /\ i + 1 \in 1 .. Len(outstanding[e])  BY <1>2, <1>5
  <2>2. outstanding'[e][i] = First(e) + (i + 1) - 1  BY <1>5, <1>7, <2>1
  <2> QED  BY <1>2, <1>6, <2>1, <2>2
<1>10. Len(outstanding'[e]) <= Window(e)  BY <1>2, <1>3, <1>5, <1>7, WireAssumption
<1>11. First(e)' < Current(e).chunks /\ 0 <= First(e)'
  <2> HIDE DEF First
  <2> QED  BY <1>1, <1>2, <1>3, <1>6
<1> QED  BY <1>1, <1>2, <1>6, <1>7, <1>8, <1>9, <1>10, <1>11 DEF InWindow

\* A poll that succeeds leaves the window.
LEMMA PolledWindow ==
  ASSUME NEW e \in End, InWindow(e), PolledStep(e)
  PROVE  InWindow(e)' /\ First(e)' = First(e)
<1>1. /\ Running(e) /\ setting' = setting /\ done' = done /\ next' = next
      /\ outstanding' = outstanding
  BY DEF PolledStep, Confirming
<1>2. First(e)' = First(e)  BY <1>1 DEF First
<1>3. Running(e)' = Running(e) /\ Current(e)' = Current(e) /\ Window(e)' = Window(e)
  BY <1>1, SameOperation
<1> QED  BY <1>1, <1>2, <1>3 DEF InWindow

\* A step of e is one of these.
StepOf(e) ==
  \/ Stage(e) \/ PolledStep(e) \/ FailedStep(e) \/ FinishedStep(e) \/ AdvancedStep(e)
  \/ TransferStep(e)

LEMMA Steps ==
  ASSUME WindowInv, Next
  PROVE  \E e \in End : StepOf(e)
<1>1. PICK e \in End : OperationStep(e) \/ Expire(e) \/ Transfer(e)  BY DEF Next
<1>2. TypeOK /\ InWindow(e)  BY DEF WindowInv
<1>3. CASE Stage(e)  BY <1>3 DEF StepOf
<1>4. CASE Poll(e)  BY <1>2, <1>4, PollEffect DEF StepOf
<1>5. CASE Confirm(e)  BY <1>2, <1>5, ConfirmEffect DEF StepOf
<1>6. CASE Expire(e)  BY <1>2, <1>6, ExpireEffect DEF StepOf
<1>7. CASE Transfer(e)  BY <1>2, <1>7, TransferEffect DEF StepOf
<1> QED  BY <1>1, <1>3, <1>4, <1>5, <1>6, <1>7 DEF OperationStep

LEMMA StepTypes ==
  ASSUME TypeOK, NEW e \in End, StepOf(e)
  PROVE  TypeOK' /\ setting' = setting /\ \A f \in End \ {e} : OperationKept(f)
<1>1. CASE Stage(e)  BY <1>1, StageEffect DEF Kept
<1>2. CASE PolledStep(e)  BY <1>2 DEF PolledStep, Kept
<1>3. CASE FailedStep(e)  BY <1>3 DEF FailedStep, Kept
<1>4. CASE FinishedStep(e)  BY <1>4 DEF FinishedStep, ConfirmedStep, Kept
<1>5. CASE AdvancedStep(e)  BY <1>5 DEF AdvancedStep, ConfirmedStep, Kept
<1>6. CASE TransferStep(e)
  <2>1. TypeOK' /\ \A f \in End : OperationKept(f)  BY <1>6 DEF TransferStep
  <2> QED  BY <2>1 DEF OperationKept
<1> QED  BY <1>1, <1>2, <1>3, <1>4, <1>5, <1>6 DEF StepOf

LEMMA WindowStep ==
  ASSUME WindowInv, NEW e \in End, StepOf(e)
  PROVE  WindowInv'
<1>1. TypeOK /\ \A f \in End : InWindow(f)  BY DEF WindowInv
<1>2. TypeOK' /\ \A f \in End \ {e} : OperationKept(f)  BY <1>1, StepTypes
<1>3. \A f \in End \ {e} : InWindow(f)'  BY <1>1, <1>2, KeptWindow
<1>4. InWindow(e)'
  <2>1. CASE Stage(e)  BY <1>1, <2>1, StageWindow
  <2>2. CASE PolledStep(e)  BY <1>1, <2>2, PolledWindow
  <2>3. CASE FailedStep(e)  BY <1>2, <2>3, EmptyWindow DEF FailedStep
  <2>4. CASE FinishedStep(e)  BY <1>2, <2>4, EmptyWindow DEF FinishedStep
  <2>5. CASE AdvancedStep(e)  BY <1>1, <2>5, AdvancedWindow
  <2>6. CASE TransferStep(e)
    <3>1. OperationKept(e)  BY <2>6 DEF TransferStep
    <3> QED  BY <1>1, <3>1, KeptWindow
  <2> QED  BY <2>1, <2>2, <2>3, <2>4, <2>5, <2>6 DEF StepOf
<1> QED  BY <1>2, <1>3, <1>4 DEF WindowInv

LEMMA InitWindow ==
  ASSUME Init
  PROVE  WindowInv
<1>1. TypeOK
  <2>1. NoChunk \in Chunk  BY DEF NoChunk, Chunk, End
  <2> QED  BY <2>1, WireAssumption DEF Init, TypeOK
<1>2. ASSUME NEW e \in End  PROVE InWindow(e)
  <2>1. First(e) = 0  BY DEF Init, First
  <2>2. ASSUME Running(e)
        PROVE First(e) < Current(e).chunks /\ next[e] <= Current(e).chunks
              /\ Len(outstanding[e]) <= Window(e)
    BY <1>1, <2>1, <2>2, InOperation, WireAssumption DEF Init
  <2> QED  BY <2>1, <2>2 DEF InWindow, Init
<1> QED  BY <1>1, <1>2 DEF WindowInv

-----------------------------------------------------------------------------
(* Slots.                                                                   *)

LEMMA EarlierIndex ==
  \A l, a, b \in Nat : l = a + b => \A i \in 1 .. a : i \in 1 .. l
OBVIOUS

LEMMA LaterIndex ==
  \A l, a, b \in Nat : l = a + b => \A i \in 1 .. b :
    /\ a + i \in 1 .. l
    /\ i + a \in 1 .. l
    /\ i + a = a + i
    /\ \A j \in 1 .. a : j # a + i
OBVIOUS

LEMMA Shift ==
  \A i, m, n \in Int : m + (i + n) = i + (m + n)
OBVIOUS

LEMMA Concatenated ==
  \A s, t \in Seq(Completion) :
    /\ s \o t \in Seq(Completion) /\ Len(s \o t) = Len(s) + Len(t)
    /\ \A i \in 1 .. Len(s) : (s \o t)[i] = s[i]
    /\ \A i \in 1 .. Len(t) : (s \o t)[Len(s) + i] = t[i]
<1> TAKE s, t \in Seq(Completion)
<1>1. Len(s) \in Nat /\ Len(t) \in Nat  OBVIOUS
<1>2. s \o t \in Seq(Completion) /\ Len(s \o t) = Len(s) + Len(t)  OBVIOUS
<1>3. ASSUME NEW i \in 1 .. Len(s)  PROVE (s \o t)[i] = s[i]
  <2>1. i \in 1 .. Len(s) + Len(t) /\ i <= Len(s)  BY <1>1
  <2> QED  BY <1>1, <2>1
<1>4. ASSUME NEW i \in 1 .. Len(t)  PROVE (s \o t)[Len(s) + i] = t[i]
  <2>1. Len(s) + i \in 1 .. Len(s) + Len(t) /\ ~(Len(s) + i <= Len(s))  BY <1>1
  <2>2. (Len(s) + i) - Len(s) = i  BY <1>1
  <2>3. (s \o t)[Len(s) + i] = t[(Len(s) + i) - Len(s)]  BY <1>1, <2>1
  <2> QED  BY <2>2, <2>3
<1> QED  BY <1>2, <1>3, <1>4

LEMMA Associated ==
  \A s, t, u \in Seq(Completion) : (s \o t) \o u = s \o (t \o u)
BY ConcatAssociative

LEMMA LandedType ==
  ASSUME TypeOK, NEW e \in End
  PROVE  /\ polled[e] \in Seq(Completion) /\ cq[e] \in Seq(Completion)
         /\ Len(polled[e]) \in Nat /\ Len(cq[e]) \in Nat
         /\ Landed(e) \in Seq(Completion) /\ Len(Landed(e)) = Len(polled[e]) + Len(cq[e])
         /\ Len(Landed(e)) \in Nat
         /\ \A i \in 1 .. Len(polled[e]) : Landed(e)[i] = polled[e][i]
         /\ \A i \in 1 .. Len(cq[e]) : Landed(e)[Len(polled[e]) + i] = cq[e][i]
<1>1. polled[e] \in Seq(Completion) /\ cq[e] \in Seq(Completion)  BY DEF TypeOK
<1>2. Len(polled[e]) \in Nat /\ Len(cq[e]) \in Nat  BY <1>1
<1>3. /\ Landed(e) \in Seq(Completion) /\ Len(Landed(e)) = Len(polled[e]) + Len(cq[e])
      /\ \A i \in 1 .. Len(polled[e]) : Landed(e)[i] = polled[e][i]
      /\ \A i \in 1 .. Len(cq[e]) : Landed(e)[Len(polled[e]) + i] = cq[e][i]
  BY <1>1, Concatenated, Zenon DEF Landed
<1>4. Len(Landed(e)) \in Nat
  <2>1. Landed(e) \in Seq(Completion)  BY <1>3
  <2> QED  BY <2>1
<1> QED  BY <1>1, <1>2, <1>3, <1>4

LEMMA NextLanded ==
  ASSUME TypeOK', NEW e \in End
  PROVE  /\ polled'[e] \in Seq(Completion) /\ cq'[e] \in Seq(Completion)
         /\ Len(polled'[e]) \in Nat /\ Len(cq'[e]) \in Nat
         /\ Landed(e)' \in Seq(Completion) /\ Len(Landed(e)') = Len(polled'[e]) + Len(cq'[e])
         /\ \A i \in 1 .. Len(polled'[e]) : Landed(e)'[i] = polled'[e][i]
         /\ \A i \in 1 .. Len(cq'[e]) : Landed(e)'[Len(polled'[e]) + i] = cq'[e][i]
<1>1. polled'[e] \in Seq(Completion) /\ cq'[e] \in Seq(Completion)  BY DEF TypeOK
<1>2. Len(polled'[e]) \in Nat /\ Len(cq'[e]) \in Nat  BY <1>1
<1>3. /\ Landed(e)' \in Seq(Completion) /\ Len(Landed(e)') = Len(polled'[e]) + Len(cq'[e])
      /\ \A i \in 1 .. Len(polled'[e]) : Landed(e)'[i] = polled'[e][i]
      /\ \A i \in 1 .. Len(cq'[e]) : Landed(e)'[Len(polled'[e]) + i] = cq'[e][i]
  BY <1>1, Concatenated, Zenon DEF Landed
<1> QED  BY <1>1, <1>2, <1>3

LEMMA PostedType ==
  ASSUME TypeOK, NEW e \in End, NEW kind \in WorkKind
  PROVE  Posted(e, kind) \in Seq(Request) /\ Len(Posted(e, kind)) \in Nat
<1>1. Posted(e, kind) \in Seq(Request)  BY DEF Posted, TypeOK
<1> QED  BY <1>1

\* The chunks of an operation: confirmed, moved, posted, to be staged.
LEMMA WindowBounds ==
  ASSUME TypeOK, NEW e \in End, InWindow(e), Work(e), Running(e)
  PROVE  /\ First(e) \in Nat /\ next[e] \in Nat /\ First(e) <= next[e]
         /\ next[e] - First(e) = Len(outstanding[e])
         /\ Len(outstanding[e]) \in Nat /\ Len(outstanding[e]) <= Window(e)
         /\ Window(e) \in 1 .. Depth
         /\ \A kind \in WorkKind :
              /\ Moved(e, kind) \in Int /\ Moved(e, kind) <= next[e]
              /\ Moved(e, kind) + Len(Posted(e, kind)) = next[e]
              /\ Uses(e, kind) => Moved(e, kind) \in Nat /\ First(e) <= Moved(e, kind)
<1>1. /\ next[e] \in Nat /\ Len(outstanding[e]) \in Nat /\ Window(e) \in 1 .. Depth
  BY InOperation
<1>2. First(e) \in Nat /\ First(e) <= next[e] /\ next[e] - First(e) = Len(outstanding[e])
  BY <1>1 DEF InWindow, First
<1>3. Len(outstanding[e]) <= Window(e)  BY DEF InWindow
<1>4. ASSUME NEW kind \in WorkKind
      PROVE  /\ Moved(e, kind) \in Int /\ Moved(e, kind) <= next[e]
             /\ Moved(e, kind) + Len(Posted(e, kind)) = next[e]
             /\ Uses(e, kind) => Moved(e, kind) \in Nat /\ First(e) <= Moved(e, kind)
  <2>1. Len(Posted(e, kind)) \in Nat  BY PostedType
  <2>2. /\ Moved(e, kind) \in Int /\ Moved(e, kind) <= next[e]
        /\ Moved(e, kind) + Len(Posted(e, kind)) = next[e]
    BY <1>1, <2>1 DEF Moved
  <2>3. Uses(e, kind) => First(e) <= Moved(e, kind)  BY DEF Work, InOrder
  <2> QED  BY <1>2, <2>2, <2>3
<1> QED  BY <1>1, <1>2, <1>3, <1>4

LEMMA KeptSlots ==
  ASSUME NEW e \in End, Work(e), Apart(e), Kept(e)
  PROVE  Work(e)' /\ Apart(e)'
<1>1. /\ setting' = setting /\ done'[e] = done[e] /\ next'[e] = next[e]
      /\ outstanding'[e] = outstanding[e] /\ polled'[e] = polled[e]
      /\ sends'[e] = sends[e] /\ recvs'[e] = recvs[e] /\ cq'[e] = cq[e]
  BY DEF Kept, OperationKept, RequestsKept
<1>2. Landed(e)' = Landed(e)  BY <1>1 DEF Landed
<1>3. \A kind : Posted(e, kind)' = Posted(e, kind)  BY <1>1 DEF Posted
<1>4. First(e)' = First(e)  BY <1>1 DEF First
<1>5. \A kind : Moved(e, kind)' = Moved(e, kind)  BY <1>1, <1>3 DEF Moved
<1>6. \A w : OfWindow(e, w)' = OfWindow(e, w)
  BY <1>1, <1>4, <1>5, SameOperation DEF OfWindow
<1>7. \A kind : InOrder(e, kind)' = InOrder(e, kind)
  BY <1>1, <1>3, <1>4, <1>5, SameOperation DEF InOrder
<1>8. Work(e)'  BY <1>1, <1>2, <1>6, <1>7, SameOperation DEF Work
<1>9. Apart(e)'  BY <1>2, <1>3 DEF Apart
<1> QED  BY <1>8, <1>9

LEMMA StageSlots ==
  ASSUME TypeOK, NEW e \in End, InWindow(e), Work(e), Apart(e), Stage(e)
  PROVE  Work(e)' /\ Apart(e)'
<1> DEFINE c == next[e]
<1>1. /\ TypeOK' /\ Running(e) /\ Len(outstanding[e]) < Window(e)
      /\ setting' = setting /\ done' = done /\ polled' = polled /\ cq' = cq
      /\ next'[e] = next[e] + 1
      /\ \A kind \in WorkKind : Posted(e, kind)' =
           IF Uses(e, kind) THEN Append(Posted(e, kind), request(e, kind, next[e]))
                            ELSE Posted(e, kind)
  BY StageEffect
<1>2. /\ First(e) \in Nat /\ c \in Nat /\ First(e) <= c /\ c < First(e) + Depth
      /\ \A kind \in WorkKind :
           /\ Moved(e, kind) \in Int /\ Moved(e, kind) <= next[e]
           /\ Moved(e, kind) + Len(Posted(e, kind)) = next[e]
           /\ Uses(e, kind) => Moved(e, kind) \in Nat /\ First(e) <= Moved(e, kind)
  BY <1>1, WindowBounds, WireAssumption
<1>3. First(e)' = First(e)  BY StageWindow
<1>4. Landed(e)' = Landed(e)  BY <1>1 DEF Landed
<1>5. \A kind \in WorkKind : Posted(e, kind) \in Seq(Request) /\ Len(Posted(e, kind)) \in Nat
  BY PostedType
<1>6. \A kind \in WorkKind : request(e, kind, c) \in Request
  BY <1>1, <1>2, RequestType
<1>7. ASSUME NEW kind \in WorkKind, Uses(e, kind)
      PROVE  /\ Len(Posted(e, kind)') = Len(Posted(e, kind)) + 1
             /\ \A i \in 1 .. Len(Posted(e, kind)) : Posted(e, kind)'[i] = Posted(e, kind)[i]
             /\ Posted(e, kind)'[Len(Posted(e, kind)) + 1] = request(e, kind, c)
             /\ Moved(e, kind)' = Moved(e, kind)
  <2>1. Posted(e, kind)' = Append(Posted(e, kind), request(e, kind, c))  BY <1>1, <1>7
  <2>2. /\ Len(Posted(e, kind)') = Len(Posted(e, kind)) + 1
        /\ \A i \in 1 .. Len(Posted(e, kind)) : Posted(e, kind)'[i] = Posted(e, kind)[i]
        /\ Posted(e, kind)'[Len(Posted(e, kind)) + 1] = request(e, kind, c)
    BY <1>5, <1>6, <2>1, AppendProperties
  <2>3. Moved(e, kind)' = next'[e] - Len(Posted(e, kind)')  BY DEF Moved
  <2>4. Moved(e, kind)' = (next[e] + 1) - (Len(Posted(e, kind)) + 1)  BY <1>1, <2>2, <2>3
  <2>5. Moved(e, kind)' = Moved(e, kind)  BY <1>2, <1>5, <2>4 DEF Moved
  <2> QED  BY <2>2, <2>5
<1>8. /\ Running(e)' /\ \A kind : Uses(e, kind)' = Uses(e, kind)
      /\ \A kind, d : slotWorkID(e, kind, d)' = slotWorkID(e, kind, d)
      /\ \A kind, d : request(e, kind, d)' = request(e, kind, d)
  BY <1>1, SameOperation
<1>9. ASSUME NEW kind \in WorkKind
      PROVE  InOrder(e, kind)'
  <2>1. InOrder(e, kind)  BY <1>1 DEF Work
  <2>2. CASE ~Uses(e, kind)
    <3>1. Posted(e, kind)' = << >>  BY <1>1, <2>1, <2>2 DEF InOrder
    <3> QED  BY <1>8, <2>2, <3>1 DEF InOrder
  <2>3. CASE Uses(e, kind)
    <3>1. ASSUME NEW i \in 1 .. Len(Posted(e, kind)')
          PROVE  Posted(e, kind)'[i] = request(e, kind, Moved(e, kind) + i - 1)
      <4>1. CASE i \in 1 .. Len(Posted(e, kind))
        BY <1>7, <2>1, <2>3, <4>1 DEF InOrder
      <4>2. CASE i = Len(Posted(e, kind)) + 1
        <5>1. Moved(e, kind) + i - 1 = c  BY <1>2, <1>5, <4>2
        <5> QED  BY <1>7, <2>3, <4>2, <5>1
      <4> QED  BY <1>5, <1>7, <2>3, <4>1, <4>2
    <3>2. First(e)' <= Moved(e, kind)'  BY <1>2, <1>3, <1>7, <2>3
    <3> QED  BY <1>7, <1>8, <2>3, <3>1, <3>2 DEF InOrder
  <2> QED  BY <2>2, <2>3
<1>10. ASSUME NEW i \in 1 .. Len(Landed(e))
       PROVE  OfWindow(e, Landed(e)[i])'
  <2>1. PICK kind \in WorkKind : \E d \in First(e) .. Moved(e, kind) - 1 :
          Uses(e, kind) /\ Landed(e)[i].id = slotWorkID(e, kind, d)
    BY <1>1 DEF Work, OfWindow
  <2>2. PICK d \in First(e) .. Moved(e, kind) - 1 :
          Uses(e, kind) /\ Landed(e)[i].id = slotWorkID(e, kind, d)
    BY <2>1
  <2>3. d \in First(e)' .. Moved(e, kind)' - 1  BY <1>3, <1>7, <2>2
  <2>4. Uses(e, kind)' /\ Landed(e)'[i].id = slotWorkID(e, kind, d)'
    BY <1>4, <1>8, <2>2
  <2> QED  BY <1>4, <2>3, <2>4 DEF OfWindow
<1>11. Work(e)'
  <2>1. \A i \in 1 .. Len(Landed(e)') : OfWindow(e, Landed(e)[i])'  BY <1>4, <1>10
  <2> QED  BY <1>4, <1>8, <1>9, <2>1 DEF Work
<1>12. ASSUME NEW kind \in WorkKind, Uses(e, kind), NEW j \in 1 .. Len(Posted(e, kind))
       PROVE  Posted(e, kind)[j].slot # slotOf(c)
  <2> DEFINE d == Moved(e, kind) + j - 1
  <2>1. Posted(e, kind)[j] = request(e, kind, d)  BY <1>1, <1>12 DEF Work, InOrder
  <2>2. d \in Nat /\ First(e) <= d /\ d < c  BY <1>2, <1>5, <1>12
  <2>3. slotOf(d) # slotOf(c)
    <3> HIDE DEF d
    <3>1. slotOf(d) = slotOf(c) => d = c  BY <1>2, <2>2, SlotsApart, WireAssumption
    <3> QED  BY <1>2, <2>2, <3>1
  <2> QED  BY <2>1, <2>3 DEF request
<1>13. ASSUME NEW j \in 1 .. Len(Landed(e))
       PROVE  Landed(e)[j].id[2] # slotOf(c)
  <2>1. PICK kind \in WorkKind : \E d \in First(e) .. Moved(e, kind) - 1 :
          Uses(e, kind) /\ Landed(e)[j].id = slotWorkID(e, kind, d)
    BY <1>1 DEF Work, OfWindow
  <2>2. PICK d \in First(e) .. Moved(e, kind) - 1 :
          Uses(e, kind) /\ Landed(e)[j].id = slotWorkID(e, kind, d)
    BY <2>1
  <2>3. d \in Nat /\ First(e) <= d /\ d < c  BY <1>2, <2>2
  <2>4. slotOf(d) = slotOf(c) => d = c  BY <1>2, <2>3, SlotsApart, WireAssumption
  <2>5. Landed(e)[j].id[2] = slotOf(d)  BY <2>2, <2>3, WorkIDType
  <2> QED  BY <1>2, <2>3, <2>4, <2>5
<1>14. \A kind \in WorkKind : /\ request(e, kind, c).slot = slotOf(c)
                              /\ Place(request(e, kind, c)) = <<kind, slotOf(c)>>
  <2> TAKE kind \in WorkKind
  <2> DEFINE q == request(e, kind, c)
  <2>1. q.id = slotWorkID(e, kind, c) /\ q.slot = slotOf(c)  BY DEF request
  <2> HIDE DEF q
  <2>2. c \in Nat  BY <1>2
  <2>3. slotWorkID(e, kind, c)[1] = kind /\ slotWorkID(e, kind, c)[2] = slotOf(c)
    BY <2>2, WorkIDType, Zenon
  <2>4. q.id[1] = kind /\ q.id[2] = slotOf(c)  BY <2>1, <2>3, Zenon
  <2>5. Place(q) = <<kind, slotOf(c)>>  BY <2>4, Zenon DEF Place
  <2> QED  BY <2>1, <2>5 DEF q
<1>15. ASSUME NEW kind \in WorkKind, NEW i \in 1 .. Len(Posted(e, kind)')
       PROVE  /\ Place(Posted(e, kind)'[i]) = <<kind, Posted(e, kind)'[i].slot>>
              /\ \A j \in 1 .. Len(Posted(e, kind)') :
                   i # j => Posted(e, kind)'[i].slot # Posted(e, kind)'[j].slot
              /\ \A j \in 1 .. Len(Landed(e)) :
                   Place(Posted(e, kind)'[i]) # Place(Landed(e)[j])
  <2>1. CASE ~Uses(e, kind)  BY <1>1, <1>15, <2>1 DEF Apart
  <2>2. CASE Uses(e, kind)
    <3> DEFINE n == Len(Posted(e, kind)) + 1
    <3>1. /\ i \in 1 .. n - 1 \/ i = n
          /\ \A j \in 1 .. Len(Posted(e, kind)') : j \in 1 .. n - 1 \/ j = n
      BY <1>5, <1>7, <2>2
    <3>2. Posted(e, kind)'[n] = request(e, kind, c)  BY <1>7, <2>2
    <3>3. \A j \in 1 .. n - 1 : Posted(e, kind)'[j] = Posted(e, kind)[j]
          /\ Posted(e, kind)[j].slot # slotOf(c) /\ j \in 1 .. Len(Posted(e, kind))
      BY <1>5, <1>7, <1>12, <2>2
    <3> HIDE DEF n
    <3>4. CASE i \in 1 .. n - 1
      <4>1. /\ Place(Posted(e, kind)[i]) = <<kind, Posted(e, kind)[i].slot>>
            /\ \A j \in 1 .. Len(Posted(e, kind)) :
                 i # j => Posted(e, kind)[i].slot # Posted(e, kind)[j].slot
            /\ \A j \in 1 .. Len(Landed(e)) :
                 Place(Posted(e, kind)[i]) # Place(Landed(e)[j])
        BY <3>3, <3>4 DEF Apart
      <4>2. Posted(e, kind)'[i] = Posted(e, kind)[i]  BY <3>3, <3>4
      <4>3. ASSUME NEW j \in 1 .. Len(Posted(e, kind)'), i # j
            PROVE Posted(e, kind)'[i].slot # Posted(e, kind)'[j].slot
        <5>1. CASE j \in 1 .. n - 1  BY <3>3, <4>1, <4>2, <4>3, <5>1
        <5>2. CASE j = n  BY <1>14, <3>2, <3>3, <3>4, <4>2, <5>2
        <5> QED  BY <3>1, <5>1, <5>2
      <4> QED  BY <4>1, <4>2, <4>3
    <3>5. CASE i = n
      <4>1. \A j \in 1 .. Len(Landed(e)) : Place(Landed(e)[j]) # <<kind, slotOf(c)>>
        BY <1>13 DEF Place
      <4> QED  BY <1>14, <3>1, <3>2, <3>3, <3>5, <4>1
    <3> QED  BY <3>1, <3>4, <3>5
  <2> QED  BY <2>1, <2>2
<1>16. Apart(e)'
  <2>1. \A i, j \in 1 .. Len(Landed(e)') :
          i # j => Place(Landed(e)'[i]) # Place(Landed(e)'[j])
    BY <1>4 DEF Apart
  <2> QED  BY <1>4, <1>15, <2>1 DEF Apart, Place
<1> QED  BY <1>11, <1>16

LEMMA PolledSlots ==
  ASSUME TypeOK, NEW e \in End, InWindow(e), Work(e), Apart(e), PolledStep(e)
  PROVE  Work(e)' /\ Apart(e)' /\ Landed(e)' = Landed(e)
<1>1. /\ Running(e) /\ setting' = setting /\ done' = done /\ next' = next
      /\ outstanding' = outstanding /\ sends' = sends /\ recvs' = recvs
  BY DEF PolledStep, Confirming
<1>2. PICK n \in 1 .. Len(cq[e]) :
        /\ cq'[e] = SubSeq(cq[e], n + 1, Len(cq[e]))
        /\ polled'[e] = polled[e] \o SubSeq(cq[e], 1, n)
  BY DEF PolledStep
<1>3. /\ polled[e] \in Seq(Completion) /\ cq[e] \in Seq(Completion)
      /\ Len(cq[e]) \in Nat /\ n \in Nat /\ n <= Len(cq[e]) /\ 1 <= n
  <2>1. /\ polled[e] \in Seq(Completion) /\ cq[e] \in Seq(Completion)
        /\ Len(cq[e]) \in Nat
    BY LandedType
  <2> QED  BY <2>1
<1>4. SubSeq(cq[e], 1, n) \in Seq(Completion)
      /\ SubSeq(cq[e], n + 1, Len(cq[e])) \in Seq(Completion)
  BY <1>3
<1>5. SubSeq(cq[e], 1, n) \o SubSeq(cq[e], n + 1, Len(cq[e])) = cq[e]
  <2>1. 1 \in 1 .. Len(cq[e]) + 1 /\ n \in 1 - 1 .. Len(cq[e]) /\ Len(cq[e]) \in n .. Len(cq[e])
    BY <1>3
  <2>2. SubSeq(cq[e], 1, n) \o SubSeq(cq[e], n + 1, Len(cq[e])) = SubSeq(cq[e], 1, Len(cq[e]))
    BY <1>3, <2>1, ConcatAdjacentSubSeq
  <2> QED  BY <1>3, <2>2, SubSeqFull
<1>6. Landed(e)' = polled'[e] \o cq'[e]  BY DEF Landed
<1>7. Landed(e)' = (polled[e] \o SubSeq(cq[e], 1, n)) \o SubSeq(cq[e], n + 1, Len(cq[e]))
  BY <1>2, <1>6
<1>8. Landed(e)' = polled[e] \o (SubSeq(cq[e], 1, n) \o SubSeq(cq[e], n + 1, Len(cq[e])))
  BY <1>3, <1>4, <1>7, Associated, Zenon
<1>9. Landed(e)' = Landed(e)  BY <1>5, <1>8 DEF Landed
<1>10. \A kind : Posted(e, kind)' = Posted(e, kind)  BY <1>1 DEF Posted
<1>11. First(e)' = First(e)  BY <1>1 DEF First
<1>12. \A kind : Moved(e, kind)' = Moved(e, kind)  BY <1>1, <1>10 DEF Moved
<1>13. \A w : OfWindow(e, w)' = OfWindow(e, w)
  BY <1>1, <1>11, <1>12, SameOperation DEF OfWindow
<1>14. \A kind : InOrder(e, kind)' = InOrder(e, kind)
  BY <1>1, <1>10, <1>11, <1>12, SameOperation DEF InOrder
<1>15. Work(e)'  BY <1>1, <1>9, <1>13, <1>14, SameOperation DEF Work
<1>16. Apart(e)'  BY <1>9, <1>10 DEF Apart
<1> QED  BY <1>9, <1>15, <1>16

\* Fewer completions are as much apart.
LEMMA SuffixApart ==
  ASSUME NEW e \in End, Apart(e), sends'[e] = sends[e], recvs'[e] = recvs[e],
         NEW n \in Int, NEW m \in Nat, Len(Landed(e)') = m,
         \A i \in 1 .. m : i + n \in 1 .. Len(Landed(e)) /\ Landed(e)'[i] = Landed(e)[i + n]
  PROVE  Apart(e)'
<1>1. \A kind : Posted(e, kind)' = Posted(e, kind)  BY DEF Posted
<1>2. ASSUME NEW i \in 1 .. m, NEW j \in 1 .. m, i # j
      PROVE  Place(Landed(e)'[i]) # Place(Landed(e)'[j])
  <2>1. i + n # j + n  BY <1>2
  <2>2. /\ i + n \in 1 .. Len(Landed(e)) /\ Landed(e)'[i] = Landed(e)[i + n]
        /\ j + n \in 1 .. Len(Landed(e)) /\ Landed(e)'[j] = Landed(e)[j + n]
    OBVIOUS
  <2>3. Place(Landed(e)[i + n]) # Place(Landed(e)[j + n])  BY <2>1, <2>2 DEF Apart
  <2> QED  BY <2>2, <2>3
<1>3. ASSUME NEW kind \in WorkKind, NEW i \in 1 .. Len(Posted(e, kind)), NEW j \in 1 .. m
      PROVE  Place(Posted(e, kind)[i]) # Place(Landed(e)'[j])
  <2>1. j + n \in 1 .. Len(Landed(e)) /\ Landed(e)'[j] = Landed(e)[j + n]  OBVIOUS
  <2>2. Place(Posted(e, kind)[i]) # Place(Landed(e)[j + n])  BY <2>1 DEF Apart
  <2> QED  BY <2>1, <2>2
<1>4. \A kind \in WorkKind : \A i \in 1 .. Len(Posted(e, kind)) :
        /\ Place(Posted(e, kind)[i]) = <<kind, Posted(e, kind)[i].slot>>
        /\ \A j \in 1 .. Len(Posted(e, kind)) :
             i # j => Posted(e, kind)[i].slot # Posted(e, kind)[j].slot
  BY DEF Apart
<1>5. \A w : Place(w)' = Place(w')  BY DEF Place
<1> QED  BY <1>1, <1>2, <1>3, <1>4 DEF Apart, Place

LEMMA FailedSlots ==
  ASSUME ~Retry, TypeOK, NEW e \in End, Apart(e), FailedStep(e)
  PROVE  Work(e)' /\ Apart(e)' /\ ~Okay(e)' /\ ~Running(e)'
<1>1. /\ TypeOK' /\ done'[e] = Append(done[e], [ok |-> FALSE, data |-> << >>])
      /\ polled'[e] = << >> /\ sends' = sends /\ recvs' = recvs
  BY DEF FailedStep
<1>2. PICK n \in Nat : n <= Len(cq[e]) /\ cq'[e] = SubSeq(cq[e], n + 1, Len(cq[e]))
  BY DEF FailedStep
<1>3. ~Okay(e)'
  <2>1. done[e] \in Seq(Outcome)  BY DEF TypeOK
  <2>2. Len(done'[e]) = Len(done[e]) + 1 /\ Len(done[e]) \in Nat
        /\ done'[e][Len(done[e]) + 1] = [ok |-> FALSE, data |-> << >>]
    BY <1>1, <2>1
  <2>3. Len(done[e]) + 1 \in 1 .. Len(done'[e]) /\ ~done'[e][Len(done[e]) + 1].ok
    BY <2>2
  <2> QED  BY <2>3 DEF Okay
<1>4. ~Running(e)'  BY <1>3 DEF Running, Okay
<1>5. Work(e)'  BY <1>3, <1>4 DEF Work
<1>6. /\ Len(polled[e]) \in Nat /\ Len(cq[e]) \in Nat /\ cq[e] \in Seq(Completion)
      /\ Len(Landed(e)) \in Nat /\ Len(Landed(e)) = Len(polled[e]) + Len(cq[e])
      /\ \A i \in 1 .. Len(cq[e]) : Landed(e)[Len(polled[e]) + i] = cq[e][i]
  BY LandedType
<1>7. Len(cq'[e]) = Len(cq[e]) - n
      /\ \A i \in 1 .. Len(cq[e]) - n : cq'[e][i] = cq[e][i + n]
  BY <1>2, <1>6
<1>8. Len(polled'[e]) = 0  BY <1>1
<1>9. /\ Len(Landed(e)') = Len(polled'[e]) + Len(cq'[e])
      /\ \A i \in 1 .. Len(cq'[e]) : Landed(e)'[Len(polled'[e]) + i] = cq'[e][i]
  BY <1>1, NextLanded
<1> DEFINE m == Len(cq[e]) - n
<1>10. m \in Nat /\ Len(Landed(e)') = m /\ Len(polled[e]) + n \in Int
  BY <1>2, <1>6, <1>7, <1>8, <1>9
<1>11. ASSUME NEW i \in 1 .. m
       PROVE  i + (Len(polled[e]) + n) \in 1 .. Len(Landed(e))
              /\ Landed(e)'[i] = Landed(e)[i + (Len(polled[e]) + n)]
  <2>1. i \in 1 .. Len(cq'[e]) /\ 0 + i = i /\ i + n \in 1 .. Len(cq[e]) /\ i \in Nat
    BY <1>2, <1>6, <1>7
  <2>2. Landed(e)'[i] = cq[e][i + n]  BY <1>7, <1>8, <1>9, <2>1
  <2>3. PICK k \in 1 .. Len(cq[e]) : k = i + n  BY <2>1
  <2>4. Landed(e)[Len(polled[e]) + k] = cq[e][k]  BY <1>6
  <2>5. Len(polled[e]) + k \in 1 .. Len(Landed(e))  BY <1>6, LaterIndex, Zenon
  <2>6. Len(polled[e]) \in Int  BY <1>6
  <2>7. Len(polled[e]) + k = i + (Len(polled[e]) + n)
    <3>1. i \in Int /\ n \in Int  BY <2>1
    <3> QED  BY <2>3, <2>6, <3>1, Shift, Zenon
  <2> QED  BY <2>2, <2>3, <2>4, <2>5, <2>7
<1> HIDE DEF m
<1>12. Apart(e)'  BY <1>1, <1>10, <1>11, SuffixApart
<1> QED  BY <1>3, <1>4, <1>5, <1>12

\* The oldest request of one kind becomes a completion.
CarriedAt(e, kind, w) ==
  /\ OperationKept(e)
  /\ Posted(e, kind) # << >> /\ Posted(e, kind)' = Tail(Posted(e, kind))
  /\ \A k \in WorkKind \ {kind} : Posted(e, k)' = Posted(e, k)
  /\ cq'[e] = Append(cq[e], w)
  /\ w.id = Posted(e, kind)[1].id

LEMMA CarriedLanded ==
  ASSUME TypeOK, NEW e \in End, polled'[e] = polled[e],
         NEW w \in Completion, cq'[e] = Append(cq[e], w)
  PROVE  /\ Landed(e)' = Append(Landed(e), w)
         /\ Len(Landed(e)) \in Nat /\ Len(Landed(e)') = Len(Landed(e)) + 1
         /\ \A i \in 1 .. Len(Landed(e)) : Landed(e)'[i] = Landed(e)[i]
         /\ Landed(e)'[Len(Landed(e)) + 1] = w
<1>1. /\ polled[e] \in Seq(Completion) /\ cq[e] \in Seq(Completion)
      /\ Landed(e) \in Seq(Completion)
  BY LandedType
<1>2. <<w>> \in Seq(Completion)  OBVIOUS
<1>3. cq'[e] = cq[e] \o <<w>>  BY <1>1, AppendIsConcat
<1>4. Landed(e)' = polled'[e] \o cq'[e]  BY DEF Landed
<1>5. Landed(e)' = polled[e] \o (cq[e] \o <<w>>)  BY <1>3, <1>4
<1>6. Landed(e)' = (polled[e] \o cq[e]) \o <<w>>
  <2>1. polled[e] \o (cq[e] \o <<w>>) = (polled[e] \o cq[e]) \o <<w>>
    BY <1>1, <1>2, Associated, Zenon
  <2> QED  BY <1>5, <2>1, Zenon
<1>7. Landed(e)' = Landed(e) \o <<w>>  BY <1>6 DEF Landed
<1>8. Landed(e)' = Append(Landed(e), w)  BY <1>1, <1>7, AppendIsConcat
<1> QED  BY <1>1, <1>8, AppendProperties

LEMMA CarriedSlots ==
  ASSUME ~Retry, TypeOK, NEW e \in End, InWindow(e), Work(e), Apart(e),
         NEW kind \in WorkKind, NEW w \in Completion, CarriedAt(e, kind, w)
  PROVE  /\ Work(e)' /\ Apart(e)'
         /\ Running(e) => Moved(e, kind)' = Moved(e, kind) + 1
<1> USE DEF CarriedAt
<1>1. /\ setting' = setting /\ done'[e] = done[e] /\ next'[e] = next[e]
      /\ outstanding'[e] = outstanding[e] /\ polled'[e] = polled[e]
  BY DEF OperationKept
<1>2. /\ Len(Landed(e)) \in Nat /\ Len(Landed(e)') = Len(Landed(e)) + 1
      /\ \A i \in 1 .. Len(Landed(e)) : Landed(e)'[i] = Landed(e)[i]
      /\ Landed(e)'[Len(Landed(e)) + 1] = w
  BY <1>1, CarriedLanded
<1>3. Posted(e, kind) \in Seq(Request) /\ Len(Posted(e, kind)) \in Nat  BY PostedType
<1>4. /\ Len(Posted(e, kind)) > 0 /\ Len(Posted(e, kind)') = Len(Posted(e, kind)) - 1
      /\ \A i \in 1 .. Len(Posted(e, kind)) - 1 :
           Posted(e, kind)'[i] = Posted(e, kind)[i + 1]
  BY <1>3
<1>5. First(e)' = First(e)  BY <1>1 DEF First
<1>6. Place(w) = Place(Posted(e, kind)[1])  BY DEF Place
<1>7. /\ Running(e)' = Running(e) /\ Okay(e)' = Okay(e)
      /\ \A k : Uses(e, k)' = Uses(e, k)
      /\ \A k, d : slotWorkID(e, k, d)' = slotWorkID(e, k, d)
      /\ \A k, d : request(e, k, d)' = request(e, k, d)
  BY <1>1, SameOperation
<1>8. ASSUME Running(e)
      PROVE  /\ Moved(e, kind)' = Moved(e, kind) + 1
             /\ \A k \in WorkKind \ {kind} : Moved(e, k)' = Moved(e, k)
             /\ Moved(e, kind) \in Nat /\ First(e) <= Moved(e, kind) /\ Uses(e, kind)
  <2>1. Uses(e, kind)  BY <1>3, <1>4, <1>8 DEF Work, InOrder
  <2>2. next[e] \in Nat /\ Moved(e, kind) \in Nat /\ First(e) <= Moved(e, kind)
    BY <1>8, <2>1, WindowBounds
  <2>3. Moved(e, kind)' = next'[e] - Len(Posted(e, kind)')  BY DEF Moved
  <2>4. Moved(e, kind)' = next[e] - (Len(Posted(e, kind)) - 1)  BY <1>1, <1>4, <2>3
  <2>5. Moved(e, kind)' = Moved(e, kind) + 1  BY <1>3, <2>2, <2>4 DEF Moved
  <2>6. \A k \in WorkKind \ {kind} : Moved(e, k)' = Moved(e, k)  BY <1>1 DEF Moved
  <2> QED  BY <2>1, <2>2, <2>5, <2>6
<1>9. ASSUME Running(e)
      PROVE  /\ \A k \in WorkKind : InOrder(e, k)'
             /\ \A i \in 1 .. Len(Landed(e)') : OfWindow(e, Landed(e)[i])'
  <2>1. ASSUME NEW k \in WorkKind  PROVE InOrder(e, k)'
    <3>1. InOrder(e, k)  BY <1>9 DEF Work
    <3>2. CASE k # kind
      <4>1. Posted(e, k)' = Posted(e, k) /\ Moved(e, k)' = Moved(e, k)
        BY <1>8, <1>9, <3>2
      <4> QED  BY <1>5, <1>7, <3>1, <4>1 DEF InOrder
    <3>3. CASE k = kind
      <4>1. ASSUME NEW i \in 1 .. Len(Posted(e, kind)')
            PROVE  Posted(e, kind)'[i] = request(e, kind, Moved(e, kind)' + i - 1)
        <5>1. i + 1 \in 1 .. Len(Posted(e, kind)) /\ i \in 1 .. Len(Posted(e, kind)) - 1
          BY <1>3, <1>4
        <5>2. Posted(e, kind)[i + 1] = request(e, kind, Moved(e, kind) + (i + 1) - 1)
          BY <1>8, <1>9, <3>1, <3>3, <5>1 DEF InOrder
        <5>3. Moved(e, kind) + (i + 1) - 1 = Moved(e, kind)' + i - 1
          BY <1>8, <1>9
        <5> QED  BY <1>4, <5>1, <5>2, <5>3
      <4>2. First(e)' <= Moved(e, kind)'
        <5> HIDE DEF First
        <5>1. First(e) \in Nat  BY <1>9, WindowBounds
        <5> QED  BY <1>5, <1>8, <1>9, <5>1
      <4> QED  BY <1>7, <1>8, <1>9, <3>3, <4>1, <4>2 DEF InOrder
    <3> QED  BY <3>2, <3>3
  <2>2. ASSUME NEW i \in 1 .. Len(Landed(e)')  PROVE OfWindow(e, Landed(e)[i])'
    <3>1. CASE i \in 1 .. Len(Landed(e))
      <4>1. PICK k \in WorkKind : \E d \in First(e) .. Moved(e, k) - 1 :
              Uses(e, k) /\ Landed(e)[i].id = slotWorkID(e, k, d)
        BY <1>9, <3>1 DEF Work, OfWindow
      <4>2. PICK d \in First(e) .. Moved(e, k) - 1 :
              Uses(e, k) /\ Landed(e)[i].id = slotWorkID(e, k, d)
        BY <4>1
      <4>3. d \in First(e)' .. Moved(e, k)' - 1
        <5>1. Moved(e, k) \in Int /\ First(e) \in Nat  BY <1>9, WindowBounds
        <5>2. Moved(e, k)' = Moved(e, k) \/ Moved(e, k)' = Moved(e, k) + 1
          BY <1>8, <1>9
        <5> QED  BY <1>5, <4>2, <5>1, <5>2
      <4>4. Uses(e, k)' /\ Landed(e)'[i].id = slotWorkID(e, k, d)'
        BY <1>2, <1>7, <3>1, <4>2
      <4> QED  BY <4>3, <4>4 DEF OfWindow
    <3>2. CASE i = Len(Landed(e)) + 1
      <4>1. 1 \in 1 .. Len(Posted(e, kind)) /\ Moved(e, kind) + 1 - 1 = Moved(e, kind)
        BY <1>3, <1>4, <1>8, <1>9
      <4>2. Posted(e, kind)[1] = request(e, kind, Moved(e, kind))
        BY <1>8, <1>9, <4>1 DEF Work, InOrder
      <4>3. PICK d \in Nat : d = Moved(e, kind)  BY <1>8, <1>9
      <4>4. d \in First(e)' .. Moved(e, kind)' - 1
        <5>1. First(e) \in Nat  BY <1>9, WindowBounds
        <5> QED  BY <1>5, <1>8, <1>9, <4>3, <5>1
      <4>5. Uses(e, kind)' /\ Landed(e)'[i].id = slotWorkID(e, kind, d)'
        <5>1. Landed(e)'[i] = w  BY <1>2, <3>2
        <5>2. w.id = slotWorkID(e, kind, d)  BY <4>2, <4>3 DEF request
        <5> QED  BY <1>7, <1>8, <1>9, <5>1, <5>2
      <4> QED  BY <4>4, <4>5 DEF OfWindow
    <3> QED  BY <1>2, <3>1, <3>2
  <2> QED  BY <2>1, <2>2
<1>10. Work(e)'
  <2>1. CASE Running(e)  BY <1>7, <1>9, <2>1 DEF Work
  <2>2. CASE ~Running(e)
    <3>1. ~Okay(e)
      <4>1. sends[e] # << >> \/ recvs[e] # << >>  BY DEF Posted
      <4> QED  BY <2>2, <4>1 DEF Work
    <3> QED  BY <1>7, <2>2, <3>1 DEF Work
  <2> QED  BY <2>1, <2>2
<1>11. Apart(e)'
  <2>1. ASSUME NEW i \in 1 .. Len(Landed(e)'), NEW j \in 1 .. Len(Landed(e)'), i < j
        PROVE  Place(Landed(e)'[i]) # Place(Landed(e)'[j])
    <3>1. i \in 1 .. Len(Landed(e)) /\ (j \in 1 .. Len(Landed(e)) \/ j = Len(Landed(e)) + 1)
      BY <1>2, <2>1
    <3>2. CASE j \in 1 .. Len(Landed(e))  BY <1>2, <2>1, <3>1, <3>2 DEF Apart
    <3>3. CASE j = Len(Landed(e)) + 1
      <4>1. Place(Posted(e, kind)[1]) # Place(Landed(e)[i])  BY <1>3, <1>4, <3>1 DEF Apart
      <4> QED  BY <1>2, <1>6, <3>1, <3>3, <4>1
    <3> QED  BY <3>1, <3>2, <3>3
  <2>2. \A i, j \in 1 .. Len(Landed(e)') : i # j => Place(Landed(e)'[i]) # Place(Landed(e)'[j])
    <3> TAKE i, j \in 1 .. Len(Landed(e)')
    <3>1. i < j \/ j < i \/ i = j  BY <1>2
    <3> QED  BY <2>1, <3>1
  <2>3. ASSUME NEW k \in WorkKind, NEW i \in 1 .. Len(Posted(e, k)')
        PROVE  \E n \in 1 .. Len(Posted(e, k)) :
                 /\ Posted(e, k)'[i] = Posted(e, k)[n]
                 /\ n = (IF k = kind THEN i + 1 ELSE i)
    <3>1. CASE k # kind  BY <2>3, <3>1
    <3>2. CASE k = kind
      <4>1. i + 1 \in 1 .. Len(Posted(e, kind)) /\ i \in 1 .. Len(Posted(e, kind)) - 1
        BY <1>3, <1>4, <2>3, <3>2
      <4> QED  BY <1>4, <3>2, <4>1
    <3> QED  BY <3>1, <3>2
  <2>4. ASSUME NEW k \in WorkKind, NEW i \in 1 .. Len(Posted(e, k)')
        PROVE  /\ Place(Posted(e, k)'[i]) = <<k, Posted(e, k)'[i].slot>>
               /\ \A j \in 1 .. Len(Posted(e, k)') :
                    i # j => Posted(e, k)'[i].slot # Posted(e, k)'[j].slot
               /\ \A j \in 1 .. Len(Landed(e)') :
                    Place(Posted(e, k)'[i]) # Place(Landed(e)'[j])
    <3>1. PICK n \in 1 .. Len(Posted(e, k)) :
            /\ Posted(e, k)'[i] = Posted(e, k)[n] /\ n = (IF k = kind THEN i + 1 ELSE i)
      BY <2>3
    <3>2. Place(Posted(e, k)'[i]) = <<k, Posted(e, k)'[i].slot>>  BY <3>1 DEF Apart
    <3>3. ASSUME NEW j \in 1 .. Len(Posted(e, k)'), i # j
          PROVE  Posted(e, k)'[i].slot # Posted(e, k)'[j].slot
      <4>1. PICK m \in 1 .. Len(Posted(e, k)) :
              /\ Posted(e, k)'[j] = Posted(e, k)[m] /\ m = (IF k = kind THEN j + 1 ELSE j)
        BY <2>3
      <4>2. n # m  BY <3>1, <3>3, <4>1
      <4> QED  BY <3>1, <4>1, <4>2 DEF Apart
    <3>4. ASSUME NEW j \in 1 .. Len(Landed(e)')
          PROVE  Place(Posted(e, k)'[i]) # Place(Landed(e)'[j])
      <4>1. CASE j \in 1 .. Len(Landed(e))  BY <1>2, <3>1, <4>1 DEF Apart
      <4>2. CASE j = Len(Landed(e)) + 1
        <5>1. Place(Landed(e)'[j]) = <<kind, Posted(e, kind)[1].slot>>
          BY <1>2, <1>3, <1>4, <1>6, <4>2 DEF Apart
        <5>2. Place(Posted(e, k)'[i]) = <<k, Posted(e, k)[n].slot>>  BY <3>1, <3>2
        <5>3. k = kind => n # 1 /\ Posted(e, k)[n].slot # Posted(e, kind)[1].slot
          <6>1. k = kind => n # 1  BY <3>1
          <6> SUFFICES ASSUME k = kind
                       PROVE  n # 1 /\ Posted(e, k)[n].slot # Posted(e, kind)[1].slot
            OBVIOUS
          <6>2. n \in 1 .. Len(Posted(e, kind)) /\ 1 \in 1 .. Len(Posted(e, kind)) /\ n # 1
            BY <1>3, <1>4, <6>1
          <6>3. Posted(e, kind)[n].slot # Posted(e, kind)[1].slot  BY <6>2 DEF Apart
          <6> QED  BY <6>2, <6>3
        <5> QED  BY <5>1, <5>2, <5>3
      <4> QED  BY <1>2, <4>1, <4>2
    <3> QED  BY <3>2, <3>3, <3>4
  <2> QED  BY <2>2, <2>4 DEF Apart, Place
<1> QED  BY <1>8, <1>10, <1>11

\* What a confirmation finds: the oldest chunk, and nothing of it behind.
LEMMA WantedLanded ==
  ASSUME TypeOK, NEW e \in End, InWindow(e), Work(e), Apart(e), ConfirmedStep(e),
         NEW kind \in WorkKind, Uses(e, kind)
  PROVE  \E i \in 1 .. Len(polled[e]) : polled[e][i].id = slotWorkID(e, kind, First(e))
<1>1. Confirming(e) /\ Matches(polled[e], Wanted(e))  BY DEF ConfirmedStep
<1>2. Head(outstanding[e]) = First(e)  BY <1>1, Confirmable
<1>3. [id |-> slotWorkID(e, kind, First(e)), bytes |-> chunkLen(e, First(e))] \in Wanted(e)
  <2>1. CASE kind = "recv"
    <3>1. TakesData(e)  BY <2>1 DEF Uses
    <3> QED  BY <1>2, <2>1, <3>1 DEF Wanted
  <2>2. CASE kind = "send"
    <3>1. SendsData(e)  BY <2>2 DEF Uses
    <3> QED  BY <1>2, <2>2, <3>1 DEF Wanted
  <2> QED  BY <2>1, <2>2 DEF WorkKind
<1>4. \A x \in Wanted(e) : \E i \in 1 .. Len(polled[e]) : x.id = polled[e][i].id
  BY <1>1 DEF Matches
<1>5. PICK i \in 1 .. Len(polled[e]) :
        [id |-> slotWorkID(e, kind, First(e)), bytes |-> chunkLen(e, First(e))].id = polled[e][i].id
  BY <1>3, <1>4
<1> QED  BY <1>5

LEMMA LandedFound ==
  ASSUME TypeOK, NEW e \in End, InWindow(e), Work(e), Running(e),
         NEW i \in 1 .. Len(Landed(e))
  PROVE  \E kind \in WorkKind, c \in Nat :
           /\ Uses(e, kind) /\ First(e) <= c /\ c < Moved(e, kind)
           /\ Landed(e)[i].id = slotWorkID(e, kind, c)
           /\ Place(Landed(e)[i]) = <<kind, slotOf(c)>>
<1>1. PICK kind \in WorkKind : \E c \in First(e) .. Moved(e, kind) - 1 :
        Uses(e, kind) /\ Landed(e)[i].id = slotWorkID(e, kind, c)
  BY DEF Work, OfWindow
<1>2. PICK c \in First(e) .. Moved(e, kind) - 1 :
        Uses(e, kind) /\ Landed(e)[i].id = slotWorkID(e, kind, c)
  BY <1>1
<1>3. First(e) \in Nat /\ Moved(e, kind) \in Int  BY WindowBounds
<1>4. c \in Nat /\ First(e) <= c /\ c < Moved(e, kind)  BY <1>2, <1>3
<1>5. Place(Landed(e)[i]) = <<kind, slotOf(c)>>  BY <1>2, <1>4, WorkIDType DEF Place
<1> QED  BY <1>2, <1>4, <1>5

LEMMA WantedMoved ==
  ASSUME TypeOK, NEW e \in End, InWindow(e), Work(e), Apart(e), ConfirmedStep(e),
         NEW kind \in WorkKind, Uses(e, kind)
  PROVE  First(e) < Moved(e, kind)
<1>1. Running(e)  BY DEF ConfirmedStep, Confirming
<1>2. PICK i \in 1 .. Len(polled[e]) : polled[e][i].id = slotWorkID(e, kind, First(e))
  BY WantedLanded
<1>3. /\ Len(polled[e]) \in Nat /\ Len(cq[e]) \in Nat
      /\ Len(Landed(e)) \in Nat /\ Len(Landed(e)) = Len(polled[e]) + Len(cq[e])
      /\ Landed(e)[i] = polled[e][i]
  BY LandedType
<1>4. i \in 1 .. Len(Landed(e))  BY <1>3, EarlierIndex, Zenon
<1>5. PICK k \in WorkKind, c \in Nat :
        /\ Uses(e, k) /\ First(e) <= c /\ c < Moved(e, k)
        /\ Landed(e)[i].id = slotWorkID(e, k, c)
  BY <1>1, <1>4, LandedFound
<1>6. First(e) \in Nat /\ Moved(e, k) \in Int  BY <1>1, WindowBounds
<1>7. k = kind
  <2>1. slotWorkID(e, k, c)[1] = k /\ slotWorkID(e, kind, First(e))[1] = kind
    BY <1>6, WorkIDType
  <2> QED  BY <1>2, <1>3, <1>5, <2>1
<1> QED  BY <1>5, <1>6, <1>7

LEMMA LaterBehind ==
  ASSUME TypeOK, NEW e \in End, InWindow(e), Work(e), Apart(e), ConfirmedStep(e),
         NEW j \in 1 .. Len(cq[e])
  PROVE  \E kind \in WorkKind, c \in Nat :
           /\ Uses(e, kind) /\ First(e) < c /\ c < Moved(e, kind)
           /\ cq[e][j].id = slotWorkID(e, kind, c)
<1>1. Running(e)  BY DEF ConfirmedStep, Confirming
<1>2. /\ Len(polled[e]) \in Nat /\ Len(cq[e]) \in Nat
      /\ Len(Landed(e)) \in Nat /\ Len(Landed(e)) = Len(polled[e]) + Len(cq[e])
      /\ \A i \in 1 .. Len(polled[e]) : Landed(e)[i] = polled[e][i]
      /\ Landed(e)[Len(polled[e]) + j] = cq[e][j]
  BY LandedType
<1>3. PICK n \in 1 .. Len(Landed(e)) :
        n = Len(polled[e]) + j /\ \A i \in 1 .. Len(polled[e]) : i # n
  <2> DEFINE a == Len(polled[e])
             b == Len(cq[e])
             l == Len(Landed(e))
  <2>1. a \in Nat /\ b \in Nat /\ l \in Nat /\ l = a + b  BY <1>2
  <2> HIDE DEF a, b, l
  <2>2. \A i \in 1 .. b : a + i \in 1 .. l /\ \A k \in 1 .. a : k # a + i
    BY <2>1
  <2> QED  BY <2>2 DEF a, b, l
<1>4. PICK kind \in WorkKind, c \in Nat :
        /\ Uses(e, kind) /\ First(e) <= c /\ c < Moved(e, kind)
        /\ Landed(e)[n].id = slotWorkID(e, kind, c)
        /\ Place(Landed(e)[n]) = <<kind, slotOf(c)>>
  BY <1>1, LandedFound
<1>5. PICK i \in 1 .. Len(polled[e]) : polled[e][i].id = slotWorkID(e, kind, First(e))
  BY <1>4, WantedLanded
<1>6. First(e) \in Nat  BY <1>1, WindowBounds
<1>7. Place(Landed(e)[i]) = <<kind, slotOf(First(e))>>
  <2>1. Landed(e)[i].id = slotWorkID(e, kind, First(e))  BY <1>2, <1>5
  <2>2. slotWorkID(e, kind, First(e))[1] = kind
        /\ slotWorkID(e, kind, First(e))[2] = slotOf(First(e))
    BY <1>6, WorkIDType
  <2> QED  BY <2>1, <2>2 DEF Place
<1>8. i \in 1 .. Len(Landed(e)) /\ i # n  BY <1>2, <1>3, EarlierIndex, Zenon
<1>9. Place(Landed(e)[i]) # Place(Landed(e)[n])  BY <1>8 DEF Apart
<1>10. c # First(e)  BY <1>4, <1>7, <1>9
<1> QED  BY <1>2, <1>3, <1>4, <1>6, <1>10

LEMMA ConfirmedApart ==
  ASSUME TypeOK, NEW e \in End, Apart(e), ConfirmedStep(e), polled'[e] = << >>
  PROVE  /\ Apart(e)'
         /\ Len(Landed(e)') = Len(cq[e])
         /\ \A i \in 1 .. Len(cq[e]) : Landed(e)'[i] = cq[e][i]
<1>1. TypeOK' /\ sends' = sends /\ recvs' = recvs /\ cq' = cq
  BY DEF ConfirmedStep, transport
<1>2. /\ Len(polled[e]) \in Nat /\ Len(cq[e]) \in Nat
      /\ Len(Landed(e)) \in Nat /\ Len(Landed(e)) = Len(polled[e]) + Len(cq[e])
      /\ \A i \in 1 .. Len(cq[e]) : Landed(e)[Len(polled[e]) + i] = cq[e][i]
  BY LandedType
<1>3. Len(polled'[e]) = 0  OBVIOUS
<1>4. /\ Len(Landed(e)') = Len(polled'[e]) + Len(cq'[e])
      /\ \A i \in 1 .. Len(cq'[e]) : Landed(e)'[Len(polled'[e]) + i] = cq'[e][i]
  BY <1>1, NextLanded
<1>5. Len(Landed(e)') = Len(cq[e])  BY <1>1, <1>2, <1>3, <1>4
<1>6. ASSUME NEW i \in 1 .. Len(cq[e])
      PROVE  /\ Landed(e)'[i] = cq[e][i]
             /\ i + Len(polled[e]) \in 1 .. Len(Landed(e))
             /\ Landed(e)'[i] = Landed(e)[i + Len(polled[e])]
  <2>1. 0 + i = i  BY <1>2
  <2>2. Landed(e)'[i] = cq[e][i]  BY <1>1, <1>3, <1>4, <2>1
  <2>3. i + Len(polled[e]) \in 1 .. Len(Landed(e)) /\ i + Len(polled[e]) = Len(polled[e]) + i
    <3> DEFINE a == Len(polled[e])
               b == Len(cq[e])
               l == Len(Landed(e))
    <3>1. a \in Nat /\ b \in Nat /\ l \in Nat /\ l = a + b /\ i \in 1 .. b  BY <1>2
    <3> HIDE DEF a, b, l
    <3>2. i + a \in 1 .. l /\ i + a = a + i  BY <3>1
    <3> QED  BY <3>2 DEF a, b, l
  <2> QED  BY <1>2, <2>2, <2>3
<1>7. Apart(e)'
  <2>1. sends'[e] = sends[e] /\ recvs'[e] = recvs[e] /\ Len(polled[e]) \in Int  BY <1>1, <1>2
  <2>2. \A i \in 1 .. Len(cq[e]) : /\ i + Len(polled[e]) \in 1 .. Len(Landed(e))
                                   /\ Landed(e)'[i] = Landed(e)[i + Len(polled[e])]
    BY <1>6
  <2> QED  BY <1>2, <1>5, <2>1, <2>2, SuffixApart, Zenon
<1> QED  BY <1>5, <1>6, <1>7

LEMMA AdvancedSlots ==
  ASSUME TypeOK, NEW e \in End, InWindow(e), Work(e), Apart(e), AdvancedStep(e)
  PROVE  Work(e)' /\ Apart(e)'
<1>1. /\ ConfirmedStep(e) /\ Confirming(e) /\ setting' = setting /\ done' = done
      /\ next' = next /\ polled'[e] = << >>
      /\ sends' = sends /\ recvs' = recvs
  BY DEF AdvancedStep, ConfirmedStep, transport
<1>2. Running(e) /\ First(e)' = First(e) + 1  BY <1>1, AdvancedWindow DEF Confirming
<1>3. /\ First(e) \in Nat
      /\ \A kind \in WorkKind : Moved(e, kind) \in Int
  BY <1>2, WindowBounds
<1>4. /\ Apart(e)' /\ Len(Landed(e)') = Len(cq[e])
      /\ \A i \in 1 .. Len(cq[e]) : Landed(e)'[i] = cq[e][i]
  BY <1>1, ConfirmedApart
<1>5. /\ \A kind : Posted(e, kind)' = Posted(e, kind)
      /\ \A kind : Moved(e, kind)' = Moved(e, kind)
  BY <1>1 DEF Posted, Moved
<1>6. /\ Running(e)' = Running(e)
      /\ \A k : Uses(e, k)' = Uses(e, k)
      /\ \A k, d : slotWorkID(e, k, d)' = slotWorkID(e, k, d)
      /\ \A k, d : request(e, k, d)' = request(e, k, d)
  BY <1>1, SameOperation
<1>7. ASSUME NEW kind \in WorkKind  PROVE InOrder(e, kind)'
  <2>1. InOrder(e, kind)  BY <1>2 DEF Work
  <2>2. CASE ~Uses(e, kind)  BY <1>5, <1>6, <2>1, <2>2 DEF InOrder
  <2>3. CASE Uses(e, kind)
    <3>1. First(e) < Moved(e, kind)  BY <1>1, <2>3, WantedMoved
    <3>2. First(e)' <= Moved(e, kind)'  BY <1>2, <1>3, <1>5, <3>1
    <3> QED  BY <1>5, <1>6, <2>1, <2>3, <3>2 DEF InOrder
  <2> QED  BY <2>2, <2>3
<1>8. ASSUME NEW i \in 1 .. Len(Landed(e)')  PROVE OfWindow(e, Landed(e)[i])'
  <2>1. i \in 1 .. Len(cq[e]) /\ Landed(e)'[i] = cq[e][i]  BY <1>4
  <2>2. PICK kind \in WorkKind, c \in Nat :
          /\ Uses(e, kind) /\ First(e) < c /\ c < Moved(e, kind)
          /\ cq[e][i].id = slotWorkID(e, kind, c)
    BY <1>1, <2>1, LaterBehind
  <2>3. c \in First(e)' .. Moved(e, kind)' - 1  BY <1>2, <1>3, <1>5, <2>2
  <2>4. Uses(e, kind)' /\ Landed(e)'[i].id = slotWorkID(e, kind, c)'
    BY <1>6, <2>1, <2>2
  <2> QED  BY <2>3, <2>4 DEF OfWindow
<1>9. Work(e)'  BY <1>2, <1>6, <1>7, <1>8 DEF Work
<1> QED  BY <1>4, <1>9

\* An operation that ends leaves nothing behind.
LEMMA FinishedClean ==
  ASSUME TypeOK, NEW e \in End, InWindow(e), Work(e), Apart(e), FinishedStep(e)
  PROVE  /\ sends[e] = << >> /\ recvs[e] = << >> /\ cq[e] = << >>
         /\ \A kind \in WorkKind : Uses(e, kind) => Moved(e, kind) = Current(e).chunks
         /\ next[e] = Current(e).chunks /\ Running(e)
<1>1. ConfirmedStep(e) /\ Confirming(e) /\ First(e) = Current(e).chunks - 1
  BY DEF FinishedStep, ConfirmedStep
<1>2. Running(e) /\ First(e) < next[e]  BY <1>1, Confirmable
<1>3. /\ Current(e).chunks \in Nat /\ next[e] \in Nat /\ next[e] <= Current(e).chunks
  BY <1>2, InOperation DEF InWindow
<1>4. next[e] = Current(e).chunks  BY <1>1, <1>2, <1>3
<1>5. ASSUME NEW kind \in WorkKind
      PROVE  /\ Posted(e, kind) = << >>
             /\ Uses(e, kind) => Moved(e, kind) = Current(e).chunks
  <2>1. CASE ~Uses(e, kind)  BY <1>2, <2>1 DEF Work, InOrder
  <2>2. CASE Uses(e, kind)
    <3>1. First(e) < Moved(e, kind)  BY <1>1, <2>2, WantedMoved
    <3>2. /\ Moved(e, kind) \in Int /\ Moved(e, kind) <= next[e]
          /\ Moved(e, kind) + Len(Posted(e, kind)) = next[e]
      BY <1>2, WindowBounds
    <3>3. Posted(e, kind) \in Seq(Request) /\ Len(Posted(e, kind)) \in Nat
      BY PostedType
    <3>4. Moved(e, kind) = Current(e).chunks /\ Len(Posted(e, kind)) = 0
      BY <1>1, <1>3, <1>4, <3>1, <3>2, <3>3
    <3> QED  BY <3>3, <3>4, EmptySeq
  <2> QED  BY <2>1, <2>2
<1>6. sends[e] = << >> /\ recvs[e] = << >>
  <2>1. Posted(e, "recv") = << >> /\ Posted(e, "send") = << >>  BY <1>5 DEF WorkKind
  <2> QED  BY <2>1 DEF Posted
<1>7. cq[e] = << >>
  <2>1. cq[e] \in Seq(Completion) /\ Len(cq[e]) \in Nat  BY LandedType
  <2>2. ASSUME Len(cq[e]) # 0  PROVE FALSE
    <3>1. 1 \in 1 .. Len(cq[e])  BY <2>1, <2>2
    <3>2. PICK kind \in WorkKind, c \in Nat :
            Uses(e, kind) /\ First(e) < c /\ c < Moved(e, kind)
      BY <1>1, <3>1, LaterBehind
    <3>3. Moved(e, kind) = Current(e).chunks  BY <1>5, <3>2
    <3> QED  BY <1>1, <1>3, <3>2, <3>3
  <2> QED  BY <2>1, <2>2, EmptySeq
<1> QED  BY <1>2, <1>4, <1>5, <1>6, <1>7

LEMMA FinishedSlots ==
  ASSUME TypeOK, NEW e \in End, InWindow(e), Work(e), Apart(e), FinishedStep(e)
  PROVE  Work(e)' /\ Apart(e)'
<1>1. /\ ConfirmedStep(e) /\ TypeOK' /\ setting' = setting /\ next'[e] = 0
      /\ polled'[e] = << >> /\ outstanding'[e] = << >> /\ dst'[e] = << >>
      /\ sends' = sends /\ recvs' = recvs /\ cq' = cq
  BY DEF FinishedStep, ConfirmedStep, transport
<1>2. sends'[e] = << >> /\ recvs'[e] = << >> /\ cq'[e] = << >>  BY <1>1, FinishedClean
<1>3. \A kind : Posted(e, kind)' = << >>  BY <1>2 DEF Posted
<1>4. Landed(e)' = << >>
  <2>1. Landed(e)' = << >> \o << >>  BY <1>1, <1>2 DEF Landed
  <2> QED  BY <2>1
<1>5. First(e)' = 0  BY <1>1, EmptyWindow
<1>6. \A kind : Moved(e, kind)' = 0
  <2> TAKE kind
  <2>1. Moved(e, kind)' = next'[e] - Len(Posted(e, kind)')  BY DEF Moved
  <2>2. Len(Posted(e, kind)') = 0  BY <1>3
  <2> QED  BY <1>1, <2>1, <2>2
<1>7. \A kind : InOrder(e, kind)'  BY <1>3, <1>5, <1>6 DEF InOrder
<1>8. Work(e)'  BY <1>2, <1>4, <1>7 DEF Work
<1>9. Apart(e)'  BY <1>3, <1>4 DEF Apart
<1> QED  BY <1>8, <1>9

LEMMA TransferCarries ==
  ASSUME TypeOK, NEW e \in End, TransferStep(e)
  PROVE  /\ \E w \in Completion : CarriedAt(e, "send", w)
         /\ \E w \in Completion : CarriedAt(1-e, "recv", w)
<1> DEFINE s == Head(sends[e])
           r == Head(recvs[1-e])
           fits == s.bytes <= r.bytes
           sent == [id |-> s.id, bytes |-> 0, ok |-> fits]
           received == [id |-> r.id, bytes |-> s.bytes, ok |-> fits]
<1>1. /\ sends[e] # << >> /\ recvs[1-e] # << >>
      /\ \A f \in End : OperationKept(f)
      /\ sends'[e] = Tail(sends[e]) /\ sends'[1-e] = sends[1-e]
      /\ recvs'[1-e] = Tail(recvs[1-e]) /\ recvs'[e] = recvs[e]
      /\ cq'[e] = Append(cq[e], sent) /\ cq'[1-e] = Append(cq[1-e], received)
      /\ s = sends[e][1] /\ r = recvs[1-e][1]
      /\ s \in Request /\ r \in Request
  BY DEF TransferStep
<1>2. 1 - e \in End  BY OtherEnd
<1>3. fits \in BOOLEAN  OBVIOUS
<1> HIDE DEF fits
<1>4. sent \in Completion /\ received \in Completion
  BY <1>1, <1>3 DEF Request, Completion
<1>5. sent.id = sends[e][1].id /\ received.id = recvs[1-e][1].id  BY <1>1
<1> HIDE DEF sent, received
<1>6. CarriedAt(e, "send", sent)
  BY <1>1, <1>5 DEF CarriedAt, Posted, WorkKind
<1>7. CarriedAt(1-e, "recv", received)
  BY <1>1, <1>2, <1>5 DEF CarriedAt, Posted, WorkKind
<1> QED  BY <1>4, <1>6, <1>7

LEMMA SlotStep ==
  ASSUME ~Retry, SlotInv, NEW e \in End, StepOf(e)
  PROVE  SlotInv'
<1>1. TypeOK /\ \A f \in End : InWindow(f) /\ Work(f) /\ Apart(f)  BY DEF SlotInv
<1>2. WindowInv  BY <1>1 DEF WindowInv
<1>3. TypeOK' /\ \A f \in End : InWindow(f)'  BY <1>2, WindowStep DEF WindowInv
<1>4. ASSUME NEW f \in End  PROVE Work(f)' /\ Apart(f)'
  <2>1. CASE Stage(e)
    <3>1. \A g \in End \ {e} : Kept(g)  BY <1>1, <2>1, StageEffect
    <3> QED  BY <1>1, <2>1, <3>1, KeptSlots, StageSlots
  <2>2. CASE PolledStep(e)
    <3>1. \A g \in End \ {e} : Kept(g)  BY <2>2 DEF PolledStep
    <3> QED  BY <1>1, <2>2, <3>1, KeptSlots, PolledSlots
  <2>3. CASE FailedStep(e)
    <3>1. \A g \in End \ {e} : Kept(g)  BY <2>3 DEF FailedStep
    <3> QED  BY <1>1, <2>3, <3>1, KeptSlots, FailedSlots
  <2>4. CASE FinishedStep(e)
    <3>1. \A g \in End \ {e} : Kept(g)  BY <2>4 DEF FinishedStep, ConfirmedStep
    <3> QED  BY <1>1, <2>4, <3>1, KeptSlots, FinishedSlots
  <2>5. CASE AdvancedStep(e)
    <3>1. \A g \in End \ {e} : Kept(g)  BY <2>5 DEF AdvancedStep, ConfirmedStep
    <3> QED  BY <1>1, <2>5, <3>1, KeptSlots, AdvancedSlots
  <2>6. CASE TransferStep(e)
    <3>1. PICK w \in Completion : CarriedAt(e, "send", w)  BY <1>1, <2>6, TransferCarries
    <3>2. PICK v \in Completion : CarriedAt(1-e, "recv", v)  BY <1>1, <2>6, TransferCarries
    <3>3. f = e \/ f = 1 - e  BY OtherEnd
    <3>4. "send" \in WorkKind /\ "recv" \in WorkKind  BY DEF WorkKind
    <3>5. ASSUME NEW kind \in WorkKind, NEW x \in Completion, CarriedAt(f, kind, x)
          PROVE  Work(f)' /\ Apart(f)'
      <4>1. TypeOK /\ InWindow(f) /\ Work(f) /\ Apart(f)  BY <1>1
      <4> QED  BY <3>5, <4>1, CarriedSlots
    <3>6. CASE f = e
      <4>1. CarriedAt(f, "send", w)  BY <3>1, <3>6
      <4> QED  BY <3>4, <3>5, <4>1
    <3>7. CASE f = 1 - e
      <4>1. CarriedAt(f, "recv", v)  BY <3>2, <3>7
      <4> QED  BY <3>4, <3>5, <4>1
    <3> QED  BY <3>3, <3>6, <3>7
  <2> QED  BY <2>1, <2>2, <2>3, <2>4, <2>5, <2>6 DEF StepOf
<1> QED  BY <1>3, <1>4 DEF SlotInv

LEMMA InitSlots ==
  ASSUME Init
  PROVE  SlotInv
<1>1. WindowInv  BY InitWindow
<1>2. ASSUME NEW e \in End  PROVE Work(e) /\ Apart(e)
  <2>1. sends[e] = << >> /\ recvs[e] = << >> /\ cq[e] = << >> /\ polled[e] = << >>
        /\ next[e] = 0 /\ outstanding[e] = << >>
    BY <1>2 DEF Init
  <2>2. Landed(e) = << >>
    <3>1. Landed(e) = << >> \o << >>  BY <2>1 DEF Landed
    <3> QED  BY <3>1
  <2>3. \A kind : Posted(e, kind) = << >>  BY <2>1 DEF Posted
  <2>4. First(e) = 0
    <3>1. Len(outstanding[e]) = 0  BY <2>1
    <3>2. First(e) = next[e] - Len(outstanding[e])  BY DEF First
    <3> QED  BY <2>1, <3>1, <3>2
  <2>5. \A kind : Moved(e, kind) = 0
    <3> TAKE kind
    <3>1. Len(Posted(e, kind)) = 0  BY <2>3
    <3> QED  BY <2>1, <3>1 DEF Moved
  <2>6. \A kind : InOrder(e, kind)  BY <2>3, <2>4, <2>5 DEF InOrder
  <2>7. Work(e)  BY <2>1, <2>2, <2>6 DEF Work
  <2>8. Apart(e)  BY <2>2, <2>3 DEF Apart
  <2> QED  BY <2>7, <2>8
<1> QED  BY <1>1, <1>2 DEF WindowInv, SlotInv

LEMMA KeptInvariants ==
  ASSUME UNCHANGED vars
  PROVE  (WindowInv => WindowInv') /\ (SlotInv => SlotInv')
<1>1. /\ setting' = setting /\ done' = done /\ next' = next /\ outstanding' = outstanding
      /\ polled' = polled /\ dst' = dst /\ sends' = sends /\ recvs' = recvs /\ cq' = cq
      /\ sendBuf' = sendBuf /\ recvBuf' = recvBuf
  BY DEF vars
<1>2. TypeOK => TypeOK'  BY <1>1 DEF TypeOK
<1>3. \A e \in End : Kept(e)  BY <1>1 DEF Kept, OperationKept, RequestsKept
<1>4. \A e \in End : InWindow(e) => InWindow(e)'  BY <1>3, KeptWindow DEF Kept
<1>5. \A e \in End : Work(e) /\ Apart(e) => Work(e)' /\ Apart(e)'
  BY <1>3, KeptSlots
<1> QED  BY <1>2, <1>4, <1>5 DEF WindowInv, SlotInv

(* The state has its type, and an end never has more chunks outstanding than *)
(* the pipeline is deep, nor confirms one it has not staged.                  *)
THEOREM Invariance == Spec => []WindowInv
<1>1. Init => WindowInv  BY InitWindow
<1>2. WindowInv /\ [Next]_vars => WindowInv'
  <2>1. ASSUME WindowInv, Next  PROVE WindowInv'
    <3>1. PICK e \in End : StepOf(e)  BY <2>1, Steps
    <3> QED  BY <2>1, <3>1, WindowStep
  <2> QED  BY <2>1, KeptInvariants
<1> QED  BY <1>1, <1>2, PTL DEF Spec

THEOREM SlotInvariance ==
  ASSUME ~Retry
  PROVE  Spec => []SlotInv
<1>1. Init => SlotInv  BY InitSlots
<1>2. SlotInv /\ [Next]_vars => SlotInv'
  <2>1. ASSUME SlotInv, Next  PROVE SlotInv'
    <3>1. WindowInv  BY <2>1 DEF SlotInv, WindowInv
    <3>2. PICK e \in End : StepOf(e)  BY <2>1, <3>1, Steps
    <3> QED  BY <2>1, <3>2, SlotStep
  <2> QED  BY <2>1, KeptInvariants
<1> QED  BY <1>1, <1>2, PTL DEF Spec

LEMMA ApartMeansExclusive ==
  ASSUME NEW e \in End, Apart(e), NEW kind \in WorkKind,
         NEW x \in SlotsInUse(e, kind), NEW y \in SlotsInUse(e, kind), x[3] = y[3]
  PROVE  x = y
<1>1. ASSUME NEW z \in SlotsInUse(e, kind)
      PROVE  \/ \E i \in 1 .. Len(Posted(e, kind)) :
                  z = <<"posted", i, Posted(e, kind)[i].slot>>
             \/ \E i \in 1 .. Len(Landed(e)) :
                  /\ z = <<"landed", i, Landed(e)[i].id[2]>>
                  /\ Landed(e)[i].id[1] = kind
  BY DEF SlotsInUse, Posted
<1>2. CASE \E i \in 1 .. Len(Posted(e, kind)) : x = <<"posted", i, Posted(e, kind)[i].slot>>
  <2>1. PICK i \in 1 .. Len(Posted(e, kind)) : x = <<"posted", i, Posted(e, kind)[i].slot>>
    BY <1>2
  <2>2. CASE \E j \in 1 .. Len(Posted(e, kind)) : y = <<"posted", j, Posted(e, kind)[j].slot>>
    <3>1. PICK j \in 1 .. Len(Posted(e, kind)) : y = <<"posted", j, Posted(e, kind)[j].slot>>
      BY <2>2
    <3>2. Posted(e, kind)[i].slot = Posted(e, kind)[j].slot  BY <2>1, <3>1
    <3>3. i = j  BY <3>2 DEF Apart
    <3> QED  BY <2>1, <3>1, <3>3
  <2>3. CASE \E j \in 1 .. Len(Landed(e)) :
               y = <<"landed", j, Landed(e)[j].id[2]>> /\ Landed(e)[j].id[1] = kind
    <3>1. PICK j \in 1 .. Len(Landed(e)) :
            y = <<"landed", j, Landed(e)[j].id[2]>> /\ Landed(e)[j].id[1] = kind
      BY <2>3
    <3>2. Posted(e, kind)[i].slot = Landed(e)[j].id[2]  BY <2>1, <3>1
    <3>3. Place(Posted(e, kind)[i]) = Place(Landed(e)[j])
      <4>1. Place(Posted(e, kind)[i]) = <<kind, Posted(e, kind)[i].slot>>  BY DEF Apart
      <4> QED  BY <3>1, <3>2, <4>1 DEF Place
    <3> QED  BY <3>3 DEF Apart
  <2> QED  BY <1>1, <2>2, <2>3
<1>3. CASE \E i \in 1 .. Len(Landed(e)) :
             x = <<"landed", i, Landed(e)[i].id[2]>> /\ Landed(e)[i].id[1] = kind
  <2>1. PICK i \in 1 .. Len(Landed(e)) :
          x = <<"landed", i, Landed(e)[i].id[2]>> /\ Landed(e)[i].id[1] = kind
    BY <1>3
  <2>2. CASE \E j \in 1 .. Len(Posted(e, kind)) : y = <<"posted", j, Posted(e, kind)[j].slot>>
    <3>1. PICK j \in 1 .. Len(Posted(e, kind)) : y = <<"posted", j, Posted(e, kind)[j].slot>>
      BY <2>2
    <3>2. Posted(e, kind)[j].slot = Landed(e)[i].id[2]  BY <2>1, <3>1
    <3>3. Place(Posted(e, kind)[j]) = Place(Landed(e)[i])
      <4>1. Place(Posted(e, kind)[j]) = <<kind, Posted(e, kind)[j].slot>>  BY DEF Apart
      <4> QED  BY <2>1, <3>2, <4>1 DEF Place
    <3> QED  BY <3>3 DEF Apart
  <2>3. CASE \E j \in 1 .. Len(Landed(e)) :
               y = <<"landed", j, Landed(e)[j].id[2]>> /\ Landed(e)[j].id[1] = kind
    <3>1. PICK j \in 1 .. Len(Landed(e)) :
            y = <<"landed", j, Landed(e)[j].id[2]>> /\ Landed(e)[j].id[1] = kind
      BY <2>3
    <3>2. Landed(e)[i].id[2] = Landed(e)[j].id[2]  BY <2>1, <3>1
    <3>3. Place(Landed(e)[i]) = Place(Landed(e)[j])  BY <2>1, <3>1, <3>2 DEF Place
    <3>4. i = j  BY <3>3 DEF Apart
    <3> QED  BY <2>1, <3>1, <3>4
  <2> QED  BY <1>1, <2>2, <2>3
<1> QED  BY <1>1, <1>2, <1>3

(* A slot belongs to one chunk from the post of its request to the          *)
(* confirmation of its completion: wireSend, wireRecv and wireExchange post  *)
(* no second request on it, whatever the two ends run, wherever they stop.   *)
THEOREM SlotsBelongToOneChunk ==
  ASSUME ~Retry
  PROVE  Spec => []SlotsExclusive
<1>1. SlotInv => SlotsExclusive
  BY ApartMeansExclusive DEF SlotInv, SlotsExclusive, WorkKind
<1> QED  BY <1>1, SlotInvariance, PTL

-----------------------------------------------------------------------------
(* The two ends.                                                            *)

LEMMA Pairing ==
  ASSUME TypeOK, \A s \in Settings : Paired(s), NEW e \in End,
         NEW k \in 1 .. Len(Program[e])
  PROVE  /\ Len(Program[1-e]) = Len(Program[e]) /\ k \in 1 .. Len(Program[1-e])
         /\ Program[e][k] \in Op /\ Program[1-e][k] \in Op
         /\ Program[e][k].chunks = Program[1-e][k].chunks
         /\ Program[e][k].kind # "send" <=> Program[1-e][k].kind # "recv"
<1>1. setting \in Settings /\ setting \in Setting  BY WireAssumption DEF TypeOK
<1>2. \A f \in End : Program[f] \in Seq(Op)  BY <1>1 DEF Program, Setting
<1>3. /\ Len(Program[0]) = Len(Program[1])
      /\ \A n \in 1 .. Len(Program[0]) :
           /\ Program[0][n].chunks = Program[1][n].chunks
           /\ <<Program[0][n].kind, Program[1][n].kind>> \in
                {<<"send", "recv">>, <<"recv", "send">>, <<"exchange", "exchange">>}
  BY <1>1 DEF Paired, Program
<1>4. CASE e = 0
  <2>1. 1 - e = 1 /\ 0 \in End /\ 1 \in End  BY <1>4 DEF End
  <2> QED  BY <1>2, <1>3, <1>4, <2>1
<1>5. CASE e = 1
  <2>1. 1 - e = 0 /\ 0 \in End /\ 1 \in End  BY <1>5 DEF End
  <2> QED  BY <1>2, <1>3, <1>5, <2>1
<1> QED  BY <1>4, <1>5 DEF End

LEMMA KindUses ==
  ASSUME TypeOK, NEW e \in End, Running(e)
  PROVE  /\ TakesData(e) <=> Current(e).kind # "send"
         /\ SendsData(e) <=> Current(e).kind # "recv"
         /\ Current(e) = Program[e][Number(e)]
<1>1. Current(e).kind \in Kind  BY InOperation
<1> QED  BY <1>1 DEF Kind, TakesData, SendsData, Current

\* Ends in the same operation: what one takes the other sends.
LEMMA SameOperationPairs ==
  ASSUME TypeOK, \A s \in Settings : Paired(s), NEW e \in End, Running(e)
  PROVE  /\ Number(e) \in 1 .. Len(Program[1-e])
         /\ Program[1-e][Number(e)] \in Op
         /\ Program[1-e][Number(e)].chunks = Current(e).chunks
         /\ TakesData(e) <=> Program[1-e][Number(e)].kind # "recv"
         /\ SendsData(e) <=> Program[1-e][Number(e)].kind # "send"
<1>1. Number(e) \in 1 .. Len(Program[e])  BY InOperation
<1>2. /\ TakesData(e) <=> Current(e).kind # "send"
      /\ SendsData(e) <=> Current(e).kind # "recv"
      /\ Current(e) = Program[e][Number(e)]
  BY KindUses
<1>3. /\ Number(e) \in 1 .. Len(Program[1-e]) /\ Program[1-e][Number(e)] \in Op
      /\ Program[1-e][Number(e)].chunks = Current(e).chunks
      /\ Current(e).kind # "send" <=> Program[1-e][Number(e)].kind # "recv"
  BY <1>1, <1>2, Pairing
<1>4. 1 - e \in End /\ 1 - (1 - e) = e  BY OtherEnd
<1>5. Program[1-e][Number(e)].kind # "send" <=> Program[e][Number(e)].kind # "recv"
  BY <1>3, <1>4, Pairing
<1> QED  BY <1>2, <1>3, <1>5

LEMMA Numbers ==
  ASSUME TypeOK, NEW e \in End
  PROVE  /\ Number(e) \in Nat /\ Len(done[e]) \in Nat /\ Number(e) = Len(done[e]) + 1
         /\ InPlay(e) \in Nat
         /\ Okay(e) => InPlay(e) = Number(e)
         /\ ~Okay(e) => InPlay(e) = Len(done[e])
<1>1. Len(done[e]) \in Nat  BY DEF TypeOK
<1> QED  BY <1>1 DEF Number, InPlay

LEMMA RunningIsOkay ==
  ASSUME ~Retry, NEW e \in End, Running(e)
  PROVE  Okay(e)
BY DEF Running, Okay

\* What the transport and the other end see of a sender, and of a receiver.
SenderKept(e) ==
  /\ setting' = setting /\ done'[e] = done[e] /\ next'[e] = next[e]
  /\ sends'[e] = sends[e] /\ sendBuf'[e] = sendBuf[e]
ReceiverKept(e) ==
  setting' = setting /\ done'[e] = done[e] /\ next'[e] = next[e] /\ recvs'[e] = recvs[e]

LEMMA SenderSame ==
  ASSUME NEW e \in End, SenderKept(e)
  PROVE  /\ InPlay(e)' = InPlay(e) /\ Base(e)' = Base(e) /\ Sending(e)' = Sending(e)
         /\ Okay(e)' = Okay(e) /\ Number(e)' = Number(e) /\ Gives(e)' = Gives(e)
         /\ Current(e)' = Current(e) /\ Staged(e)' = Staged(e)
<1>1. /\ setting' = setting /\ done'[e] = done[e] /\ next'[e] = next[e]
      /\ sends'[e] = sends[e] /\ sendBuf'[e] = sendBuf[e]
  BY DEF SenderKept
<1>2. /\ Okay(e)' = Okay(e) /\ Number(e)' = Number(e) /\ Current(e)' = Current(e)
      /\ Running(e)' = Running(e) /\ SendsData(e)' = SendsData(e)
  BY <1>1, SameOperation
<1>3. Gives(e)' = Gives(e)  BY <1>2 DEF Gives
<1>4. InPlay(e)' = InPlay(e)  BY <1>1, <1>2 DEF InPlay
<1>5. Base(e)' = Base(e)  BY <1>1, <1>2 DEF Base
<1>6. Sending(e)' = Sending(e)  BY <1>1, <1>3 DEF Sending
<1>7. Program' = Program  BY <1>1 DEF Program
<1>8. Staged(e)' = Staged(e)  BY <1>1, <1>4, <1>5, <1>7 DEF Staged
<1> QED  BY <1>2, <1>3, <1>4, <1>5, <1>6, <1>8

LEMMA ReceiverSame ==
  ASSUME NEW e \in End, ReceiverKept(e)
  PROVE  /\ Okay(e)' = Okay(e) /\ Number(e)' = Number(e) /\ Takes(e)' = Takes(e)
         /\ Current(e)' = Current(e) /\ Moved(e, "recv")' = Moved(e, "recv")
         /\ recvs'[e] = recvs[e] /\ next'[e] = next[e]
<1>1. setting' = setting /\ done'[e] = done[e] /\ next'[e] = next[e] /\ recvs'[e] = recvs[e]
  BY DEF ReceiverKept
<1>2. /\ Okay(e)' = Okay(e) /\ Number(e)' = Number(e) /\ Current(e)' = Current(e)
      /\ Running(e)' = Running(e) /\ TakesData(e)' = TakesData(e)
  BY <1>1, SameOperation
<1>3. Takes(e)' = Takes(e)  BY <1>2 DEF Takes
<1>4. Moved(e, "recv")' = Moved(e, "recv")  BY <1>1 DEF Moved, Posted
<1> QED  BY <1>1, <1>2, <1>3, <1>4

\* A failure: the operation in play stays, and what waits to be sent.
LEMMA FailedSender ==
  ASSUME ~Retry, TypeOK, NEW e \in End, Staged(e), SlotInv, FailedStep(e)
  PROVE  /\ InPlay(e)' = InPlay(e) /\ sends'[e] = sends[e] /\ ~Okay(e)' /\ Staged(e)'
         /\ sends[e] # << >> => Base(e)' = Base(e)
         /\ Sending(e)' => Sending(e)
         /\ Okay(e)
<1>1. /\ Confirming(e) /\ TypeOK' /\ setting' = setting /\ sends' = sends
      /\ sendBuf' = sendBuf
      /\ done'[e] = Append(done[e], [ok |-> FALSE, data |-> << >>])
  BY DEF FailedStep
<1>2. Running(e) /\ Okay(e)  BY <1>1, RunningIsOkay DEF Confirming
<1>3. ~Okay(e)' /\ ~Running(e)'  BY FailedSlots DEF SlotInv
<1>4. InPlay(e)' = InPlay(e)
  <2>1. done[e] \in Seq(Outcome)  BY DEF TypeOK
  <2>2. Len(done'[e]) = Len(done[e]) + 1  BY <1>1, <2>1
  <2>3. InPlay(e)' = Len(done'[e])  BY <1>3 DEF InPlay
  <2>4. InPlay(e) = Number(e)  BY <1>2 DEF InPlay
  <2>5. Number(e) = Len(done[e]) + 1  BY DEF Number
  <2> QED  BY <2>2, <2>3, <2>4, <2>5
<1>5. ASSUME sends[e] # << >>  PROVE Base(e)' = Base(e)
  <2>1. 1 \in 1 .. Len(sends[e])  BY <1>5 DEF TypeOK
  <2>2. sendBuf[e][sends[e][1].slot] = <<e, InPlay(e), Base(e) + 1 - 1>>
        /\ Base(e) + 1 - 1 \in Nat
    BY <2>1 DEF Staged
  <2>3. Base(e) + 1 - 1 = Base(e)
    <3>1. next[e] \in Nat /\ Len(sends[e]) \in Nat  BY DEF TypeOK
    <3>2. Base(e) \in Int  BY <1>2, <3>1 DEF Base
    <3> QED  BY <3>2
  <2>4. Base(e)' = sendBuf'[e][sends'[e][1].slot][3]  BY <1>3 DEF Base
  <2>5. Base(e)' = sendBuf[e][sends[e][1].slot][3]  BY <1>1, <2>4
  <2>6. sendBuf[e][sends[e][1].slot][3] = Base(e) + 1 - 1  BY <2>2
  <2> QED  BY <2>3, <2>5, <2>6
<1>6. Sending(e)' => Sending(e)  BY <1>1, <1>3 DEF Sending, Gives
<1>7. Staged(e)'
  <2>1. CASE sends[e] = << >>  BY <1>1, <2>1 DEF Staged
  <2>2. CASE sends[e] # << >>
    <3>1. Base(e)' = Base(e)  BY <1>5, <2>2
    <3>2. Program' = Program  BY <1>1 DEF Program
    <3> QED  BY <1>1, <1>4, <3>1, <3>2 DEF Staged
  <2> QED  BY <2>1, <2>2
<1> QED  BY <1>1, <1>2, <1>3, <1>4, <1>5, <1>6, <1>7

LEMMA StageStaged ==
  ASSUME ~Retry, TypeOK, NEW e \in End, Staged(e), InWindow(e), Work(e), Apart(e)', Stage(e)
  PROVE  /\ Staged(e)' /\ InPlay(e)' = InPlay(e) /\ Number(e)' = Number(e)
         /\ Okay(e)' /\ Okay(e)
         /\ SendsData(e) => Base(e)' = Base(e)
         /\ ~SendsData(e) => sends'[e] = << >>
         /\ Gives(e)' = Gives(e) /\ Sending(e)' = Sending(e)
<1>1. /\ TypeOK' /\ Running(e) /\ next[e] < Current(e).chunks
      /\ setting' = setting /\ done' = done
      /\ next'[e] = next[e] + 1
      /\ \A kind \in WorkKind : Posted(e, kind)' =
           IF Uses(e, kind) THEN Append(Posted(e, kind), request(e, kind, next[e]))
                            ELSE Posted(e, kind)
      /\ sendBuf' = IF SendsData(e)
              THEN [sendBuf EXCEPT ![e][slotOf(next[e])] = <<e, Number(e), next[e]>>]
              ELSE sendBuf
  BY StageEffect
<1>2. Okay(e)  BY <1>1, RunningIsOkay
<1>3. /\ Okay(e)' = Okay(e) /\ Number(e)' = Number(e) /\ Running(e)' = Running(e)
      /\ SendsData(e)' = SendsData(e)
  BY <1>1, SameOperation
<1>4. InPlay(e)' = InPlay(e) /\ InPlay(e) = Number(e)  BY <1>2, <1>3 DEF InPlay
<1>5. sends'[e] = IF SendsData(e) THEN Append(sends[e], request(e, "send", next[e]))
                                  ELSE sends[e]
  <2>1. "send" \in WorkKind  BY DEF WorkKind
  <2>2. Posted(e, "send")' = IF Uses(e, "send")
          THEN Append(Posted(e, "send"), request(e, "send", next[e])) ELSE Posted(e, "send")
    BY <1>1, <2>1
  <2> QED  BY <2>2 DEF Posted, Uses
<1>6. Gives(e)' = Gives(e)  BY <1>3 DEF Gives
<1>7. CASE ~SendsData(e)
  <2>1. Posted(e, "send") = << >>
    BY <1>1, <1>7 DEF Work, InOrder, WorkKind, Uses
  <2>2. sends[e] = << >> /\ sends'[e] = << >>  BY <1>5, <1>7, <2>1 DEF Posted
  <2>3. Staged(e)'  BY <2>2 DEF Staged
  <2>4. Sending(e)' = Sending(e)  BY <1>6, <2>2 DEF Sending
  <2> QED  BY <1>2, <1>3, <1>4, <1>6, <1>7, <2>2, <2>3, <2>4
<1>8. CASE SendsData(e)
  <2>1. sends[e] \in Seq(Request) /\ Len(sends[e]) \in Nat /\ next[e] \in Nat  BY DEF TypeOK
  <2>2. request(e, "send", next[e]) \in Request
    BY <1>1, <2>1, RequestType DEF WorkKind
  <2>3. /\ Len(sends'[e]) = Len(sends[e]) + 1
        /\ \A i \in 1 .. Len(sends[e]) : sends'[e][i] = sends[e][i]
        /\ sends'[e][Len(sends[e]) + 1] = request(e, "send", next[e])
    BY <1>5, <1>8, <2>1, <2>2, AppendProperties
  <2>4. Base(e)' = Base(e) /\ Base(e) + Len(sends[e]) = next[e] /\ Base(e) \in Int
    <3>1. Base(e)' = next'[e] - Len(sends'[e])  BY <1>2, <1>3 DEF Base
    <3>2. Base(e) = next[e] - Len(sends[e])  BY <1>2 DEF Base
    <3>3. Base(e)' = (next[e] + 1) - (Len(sends[e]) + 1)  BY <1>1, <2>3, <3>1
    <3>4. /\ (next[e] + 1) - (Len(sends[e]) + 1) = next[e] - Len(sends[e])
          /\ (next[e] - Len(sends[e])) + Len(sends[e]) = next[e]
          /\ next[e] - Len(sends[e]) \in Int
      <4>1. \A a, b \in Nat : /\ (a + 1) - (b + 1) = a - b
                              /\ (a - b) + b = a
                              /\ a - b \in Int
        OBVIOUS
      <4> QED  BY <2>1, <4>1, Zenon
    <3> QED  BY <3>2, <3>3, <3>4
  <2>5. Sending(e)' /\ Sending(e)
    <3>1. Gives(e)  BY <1>1, <1>8 DEF Gives
    <3> QED  BY <1>6, <3>1 DEF Sending
  <2>6. Program' = Program  BY <1>1 DEF Program
  <2>7. sendBuf' = [sendBuf EXCEPT ![e][slotOf(next[e])] = <<e, Number(e), next[e]>>]
    BY <1>1, <1>8
  <2>8. slotOf(next[e]) \in Slot  BY <2>1, SlotsInRange
  <2>9. Number(e) \in 1 .. Len(Program[e]) /\ Current(e) = Program[e][Number(e)]
        /\ Current(e).kind # "recv"
    BY <1>1, <1>8, InOperation, KindUses
  <2>10. ASSUME NEW i \in 1 .. Len(sends'[e])
         PROVE  LET o == Program[e][InPlay(e)]
                    c == Base(e) + i - 1
                IN  /\ o.kind # "recv" /\ InPlay(e) <= Len(Program[e])
                    /\ c \in Nat /\ c < o.chunks
                    /\ sends'[e][i].bytes = opChunkLen(o, c)
                    /\ sendBuf'[e][sends'[e][i].slot] = <<e, InPlay(e), c>>
    <3>1. CASE i \in 1 .. Len(sends[e])
      <4>1. sends'[e][i] = sends[e][i]  BY <2>3, <3>1
      <4>2. sends'[e][i].slot # slotOf(next[e])
        <5>1. i # Len(sends[e]) + 1 /\ Len(sends[e]) + 1 \in 1 .. Len(sends'[e])
          BY <2>1, <2>3, <3>1
        <5>2. Posted(e, "send")'[i].slot # Posted(e, "send")'[Len(sends[e]) + 1].slot
          <6>1. Posted(e, "send")' = sends'[e] /\ "send" \in WorkKind  BY DEF Posted, WorkKind
          <6> QED  BY <5>1, <6>1 DEF Apart
        <5> QED  BY <2>3, <5>2 DEF Posted, request
      <4>3. sendBuf'[e][sends'[e][i].slot] = sendBuf[e][sends[e][i].slot]
        <5>1. sends[e][i] \in Request  BY <2>1, <3>1, ElementOfSeq
        <5>2. sends[e][i].slot \in Slot  BY <5>1 DEF Request
        <5> QED  BY <2>7, <4>1, <4>2, <5>2 DEF TypeOK
      <4> QED  BY <3>1, <4>1, <4>3 DEF Staged
    <3>2. CASE i = Len(sends[e]) + 1
      <4>1. Base(e) + i - 1 = next[e]  BY <2>1, <2>4, <3>2
      <4>2. sends'[e][i] = request(e, "send", next[e])  BY <2>3, <3>2
      <4>3. sends'[e][i].slot = slotOf(next[e])
            /\ sends'[e][i].bytes = opChunkLen(Current(e), next[e])
        BY <4>2 DEF request, chunkLen
      <4>4. sendBuf'[e][slotOf(next[e])] = <<e, Number(e), next[e]>>
        BY <2>7, <2>8 DEF TypeOK
      <4> QED  BY <1>1, <1>4, <2>1, <2>9, <4>1, <4>3, <4>4
    <3> QED  BY <2>1, <2>3, <3>1, <3>2
  <2>11. Staged(e)'  BY <1>4, <2>4, <2>6, <2>10 DEF Staged
  <2> QED  BY <1>2, <1>3, <1>4, <1>6, <1>8, <2>4, <2>5, <2>11
<1> QED  BY <1>7, <1>8

\* A step of e that leaves its done operations: alignment as a receiver and as a sender.
LEMMA KeptAligned ==
  ASSUME NEW e \in End, Aligned(e), ReceiverKept(e), SenderKept(1-e)
  PROVE  Aligned(e)'
<1>1. /\ Okay(e)' = Okay(e) /\ Number(e)' = Number(e) /\ Takes(e)' = Takes(e)
      /\ Current(e)' = Current(e) /\ Moved(e, "recv")' = Moved(e, "recv")
      /\ recvs'[e] = recvs[e] /\ next'[e] = next[e]
  BY ReceiverSame
<1>2. 1 - e \in End  BY OtherEnd
<1>3. /\ InPlay(1-e)' = InPlay(1-e) /\ Base(1-e)' = Base(1-e) /\ Sending(1-e)' = Sending(1-e)
      /\ Okay(1-e)' = Okay(1-e) /\ Number(1-e)' = Number(1-e) /\ Gives(1-e)' = Gives(1-e)
      /\ Current(1-e)' = Current(1-e)
  BY <1>2, SenderSame
<1>4. sends'[1-e] = sends[1-e] /\ next'[1-e] = next[1-e]  BY DEF SenderKept
<1> QED  BY <1>1, <1>3, <1>4 DEF Aligned, AlignedTo

LEMMA KeptViews ==
  ASSUME TypeOK, NEW e \in End, Kept(e), sendBuf'[e] = sendBuf[e]
  PROVE  SenderKept(e) /\ ReceiverKept(e)
BY DEF Kept, OperationKept, RequestsKept, SenderKept, ReceiverKept

LEMMA StageMoved ==
  ASSUME TypeOK, NEW e \in End, Stage(e), NEW kind \in WorkKind, Uses(e, kind)
  PROVE  Moved(e, kind)' = Moved(e, kind)
<1>1. /\ Running(e) /\ next'[e] = next[e] + 1
      /\ Posted(e, kind)' = Append(Posted(e, kind), request(e, kind, next[e]))
  BY StageEffect
<1>2. Posted(e, kind) \in Seq(Request) /\ Len(Posted(e, kind)) \in Nat  BY PostedType
<1>3. next[e] \in Nat  BY DEF TypeOK
<1>4. request(e, kind, next[e]) \in Request  BY <1>1, <1>3, RequestType
<1>5. Len(Posted(e, kind)') = Len(Posted(e, kind)) + 1  BY <1>1, <1>2, <1>4
<1>6. Moved(e, kind)' = next'[e] - Len(Posted(e, kind)')  BY DEF Moved
<1>7. Moved(e, kind) = next[e] - Len(Posted(e, kind))  BY DEF Moved
<1>8. Moved(e, kind)' = (next[e] + 1) - (Len(Posted(e, kind)) + 1)  BY <1>1, <1>5, <1>6
<1>9. (next[e] + 1) - (Len(Posted(e, kind)) + 1) = next[e] - Len(Posted(e, kind))
  BY <1>2, <1>3
<1> QED  BY <1>7, <1>8, <1>9

LEMMA StageAligned ==
  ASSUME ~Retry, TypeOK, NEW e \in End, Staged(e), InWindow(e), Work(e), Apart(e)',
         Aligned(e), Aligned(1-e), Stage(e)
  PROVE  Aligned(e)' /\ Aligned(1-e)'
<1> DEFINE f == 1 - e
<1>1. /\ Staged(e)' /\ InPlay(e)' = InPlay(e) /\ Number(e)' = Number(e)
      /\ Okay(e)' /\ Okay(e)
      /\ SendsData(e) => Base(e)' = Base(e)
      /\ ~SendsData(e) => sends'[e] = << >>
      /\ Gives(e)' = Gives(e) /\ Sending(e)' = Sending(e)
  BY StageStaged
<1>2. /\ TypeOK' /\ Running(e) /\ next[e] < Current(e).chunks
      /\ setting' = setting /\ done' = done
      /\ next'[e] = next[e] + 1
      /\ \A kind \in WorkKind : Posted(e, kind)' =
           IF Uses(e, kind) THEN Append(Posted(e, kind), request(e, kind, next[e]))
                            ELSE Posted(e, kind)
      /\ \A g \in End \ {e} : Kept(g)
      /\ sendBuf' = IF SendsData(e)
              THEN [sendBuf EXCEPT ![e][slotOf(next[e])] = <<e, Number(e), next[e]>>]
              ELSE sendBuf
  BY StageEffect
<1>3. f \in End /\ f # e /\ 1 - f = e  BY OtherEnd
<1>4. SenderKept(f) /\ ReceiverKept(f)
  <2>1. sendBuf'[f] = sendBuf[f]  BY <1>2, <1>3 DEF TypeOK
  <2> QED  BY <1>2, <1>3, <2>1, KeptViews
<1>5. next[e] \in Nat /\ Current(e).chunks \in Nat  BY <1>2, InOperation
<1>6. /\ Running(e)' = Running(e) /\ Current(e)' = Current(e) /\ TakesData(e)' = TakesData(e)
  BY <1>2, SameOperation
<1>7. Takes(e)' = Takes(e)  BY <1>6 DEF Takes
<1>8. /\ InPlay(f)' = InPlay(f) /\ Base(f)' = Base(f) /\ Sending(f)' = Sending(f)
      /\ Okay(f)' = Okay(f) /\ Number(f)' = Number(f) /\ Gives(f)' = Gives(f)
      /\ Current(f)' = Current(f)
  BY <1>3, <1>4, SenderSame
<1>9. sends'[f] = sends[f] /\ next'[f] = next[f]  BY <1>4 DEF SenderKept
<1>10. recvs'[e] = IF TakesData(e) THEN Append(recvs[e], request(e, "recv", next[e]))
                                   ELSE recvs[e]
  <2>1. "recv" \in WorkKind  BY DEF WorkKind
  <2>2. Posted(e, "recv")' = IF Uses(e, "recv")
          THEN Append(Posted(e, "recv"), request(e, "recv", next[e])) ELSE Posted(e, "recv")
    BY <1>2, <2>1
  <2> QED  BY <2>2 DEF Posted, Uses
<1>11. TakesData(e) => Moved(e, "recv")' = Moved(e, "recv")
  BY StageMoved DEF Uses, WorkKind
<1>12. AlignedTo(e, f)  BY <1>1 DEF Aligned
<1> HIDE DEF f
<1>13. AlignedTo(e, f)'
  <2>1. ASSUME InPlay(f) > Number(e)
        PROVE  /\ recvs'[e] = << >>
               /\ Takes(e)' => next'[e] = Current(e)'.chunks
    <3>1. ~TakesData(e)  BY <1>2, <1>5, <1>12, <2>1 DEF AlignedTo, Takes
    <3> QED  BY <1>7, <1>10, <1>12, <2>1, <3>1 DEF AlignedTo, Takes
  <2>2. Takes(e) => Moved(e, "recv")' = Moved(e, "recv")  BY <1>11 DEF Takes
  <2>3. (InPlay(f) > Number(e) =>
          /\ InPlay(f) = Number(e) + 1
          /\ recvs[e] = << >>
          /\ Takes(e) => next[e] = Current(e).chunks
          /\ Sending(f) => Base(f) = 0)'
    BY <1>1, <1>8, <1>12, <2>1 DEF AlignedTo
  <2>4. (InPlay(f) = Number(e) /\ Takes(e) /\ Sending(f) => Base(f) = Moved(e, "recv"))'
    BY <1>1, <1>7, <1>8, <1>12, <2>2 DEF AlignedTo
  <2>5. (InPlay(f) < Number(e) =>
          /\ sends[f] = << >>
          /\ Okay(f) => /\ Number(e) = Number(f) + 1
                        /\ Gives(f) => next[f] = Current(f).chunks
                        /\ Takes(e) => Moved(e, "recv") = 0)'
    BY <1>1, <1>7, <1>8, <1>9, <1>12, <2>2 DEF AlignedTo
  <2> QED  BY <2>3, <2>4, <2>5 DEF AlignedTo
<1>14. Aligned(f)'
  <2>1. /\ Okay(f)' = Okay(f) /\ Number(f)' = Number(f) /\ Takes(f)' = Takes(f)
        /\ Current(f)' = Current(f) /\ Moved(f, "recv")' = Moved(f, "recv")
        /\ recvs'[f] = recvs[f] /\ next'[f] = next[f]
    BY <1>3, <1>4, ReceiverSame
  <2>2. ASSUME Okay(f)  PROVE AlignedTo(f, e)'
    <3>1. AlignedTo(f, e)  BY <1>3, <2>2 DEF Aligned, f
    <3>2. Gives(e) \/ sends[e] # << >> => SendsData(e)
      <4>1. ~SendsData(e) => sends[e] = << >>
        BY <1>2 DEF Work, InOrder, WorkKind, Uses, Posted
      <4> QED  BY <4>1 DEF Gives
    <3>3. Sending(e) => Base(e)' = Base(e)  BY <1>1, <3>2 DEF Sending
    <3>4. ASSUME InPlay(e) < Number(f)
          PROVE  sends'[e] = << >> /\ ~Gives(e)
      <4>1. Gives(e) => next[e] = Current(e).chunks  BY <1>1, <3>1, <3>4 DEF AlignedTo
      <4>2. ~Gives(e)  BY <1>2, <1>5, <4>1
      <4>3. ~SendsData(e)  BY <1>2, <4>2 DEF Gives
      <4> QED  BY <1>1, <4>2, <4>3
    <3>5. (InPlay(e) > Number(f) =>
            /\ InPlay(e) = Number(f) + 1
            /\ recvs[f] = << >>
            /\ Takes(f) => next[f] = Current(f).chunks
            /\ Sending(e) => Base(e) = 0)'
      BY <1>1, <2>1, <3>1, <3>3 DEF AlignedTo
    <3>6. (InPlay(e) = Number(f) /\ Takes(f) /\ Sending(e) => Base(e) = Moved(f, "recv"))'
      BY <1>1, <2>1, <3>1, <3>3 DEF AlignedTo
    <3>7. (InPlay(e) < Number(f) =>
            /\ sends[e] = << >>
            /\ Okay(e) => /\ Number(f) = Number(e) + 1
                          /\ Gives(e) => next[e] = Current(e).chunks
                          /\ Takes(f) => Moved(f, "recv") = 0)'
      BY <1>1, <2>1, <3>1, <3>4 DEF AlignedTo
    <3> QED  BY <3>5, <3>6, <3>7 DEF AlignedTo
  <2> QED  BY <1>3, <2>1, <2>2 DEF Aligned, f
<1> QED  BY <1>1, <1>3, <1>13, <1>14 DEF Aligned, f

\* An operation does not end before its peer is in it.
LEMMA NotAhead ==
  ASSUME ~Retry, TypeOK, NEW e \in End, InWindow(e), Work(e), Apart(e),
         Aligned(e), Aligned(1-e), FinishedStep(e), Okay(1-e)
  PROVE  Number(e) <= Number(1-e)
<1> DEFINE f == 1 - e
<1>1. f \in End /\ 1 - f = e  BY OtherEnd
<1>2. /\ sends[e] = << >>
      /\ \A kind \in WorkKind : Uses(e, kind) => Moved(e, kind) = Current(e).chunks
      /\ next[e] = Current(e).chunks /\ Running(e)
  BY FinishedClean
<1>3. Okay(e) /\ Current(e).chunks \in Nat \ {0}  BY <1>2, RunningIsOkay, InOperation
<1>4. /\ Number(e) \in Nat /\ InPlay(e) = Number(e) /\ Number(f) \in Nat
      /\ InPlay(f) = Number(f)
  BY <1>1, <1>3, Numbers
<1>5. AlignedTo(e, f) /\ AlignedTo(f, e)  BY <1>1, <1>3 DEF Aligned
<1> SUFFICES ASSUME Number(f) < Number(e)  PROVE FALSE
  BY <1>4
<1>6. ~Takes(e)
  <2>1. Takes(e) => Moved(e, "recv") = 0  BY <1>4, <1>5 DEF AlignedTo
  <2>2. Takes(e) => Moved(e, "recv") = Current(e).chunks  BY <1>2 DEF Takes, Uses, WorkKind
  <2> QED  BY <1>3, <2>1, <2>2
<1>7. SendsData(e)
  <2>1. Current(e).kind \in Kind  BY <1>2, InOperation
  <2> QED  BY <1>2, <1>6, <2>1 DEF Takes, TakesData, SendsData, Kind
<1>8. Base(e) = 0  BY <1>2, <1>4, <1>5, <1>7 DEF AlignedTo, Sending, Gives
<1>9. Base(e) = next[e]
  <2>1. Len(sends[e]) = 0  BY <1>2
  <2> QED  BY <1>2, <1>3, <2>1 DEF Base
<1> QED  BY <1>2, <1>3, <1>8, <1>9

\* When an operation ends, its peer in the same operation has sent all of it.
LEMMA PeerDrained ==
  ASSUME ~Retry, TypeOK, \A s \in Settings : Paired(s),
         NEW e \in End, InWindow(e), Work(e), Apart(e),
         Staged(1-e), Aligned(e), FinishedStep(e), InPlay(1-e) = Number(e)
  PROVE  /\ sends[1-e] = << >>
         /\ Gives(1-e) => next[1-e] = Current(1-e).chunks
<1> DEFINE f == 1 - e
<1>1. f \in End /\ 1 - f = e  BY OtherEnd
<1>2. /\ \A kind \in WorkKind : Uses(e, kind) => Moved(e, kind) = Current(e).chunks
      /\ next[e] = Current(e).chunks /\ Running(e)
  BY FinishedClean
<1>3. Okay(e) /\ Current(e).chunks \in Nat \ {0}  BY <1>2, RunningIsOkay, InOperation
<1>4. /\ Number(e) \in 1 .. Len(Program[f])
      /\ Program[f][Number(e)] \in Op
      /\ Program[f][Number(e)].chunks = Current(e).chunks
      /\ TakesData(e) <=> Program[f][Number(e)].kind # "recv"
  BY <1>2, SameOperationPairs
<1>5. AlignedTo(e, f)  BY <1>1, <1>3 DEF Aligned
<1>6. Sending(f) /\ TakesData(e) => Base(f) = Current(e).chunks
  <2>1. TakesData(e) => Takes(e) /\ Moved(e, "recv") = Current(e).chunks
    BY <1>2 DEF Takes, Uses, WorkKind
  <2> QED  BY <1>5, <2>1 DEF AlignedTo
<1>7. sends[f] = << >>
  <2> SUFFICES ASSUME sends[f] # << >>  PROVE FALSE
    OBVIOUS
  <2>1. 1 \in 1 .. Len(sends[f])  BY <1>1 DEF TypeOK
  <2>2. /\ Program[f][InPlay(f)].kind # "recv"
        /\ Base(f) + 1 - 1 < Program[f][InPlay(f)].chunks
    BY <2>1 DEF Staged
  <2>3. TakesData(e) /\ Base(f) = Current(e).chunks  BY <1>4, <1>6, <2>2 DEF Sending
  <2> QED  BY <1>3, <1>4, <2>2, <2>3
<1>8. ASSUME Gives(f)  PROVE next[f] = Current(f).chunks
  <2>1. Running(f) /\ SendsData(f) /\ Okay(f)  BY <1>1, <1>8, RunningIsOkay DEF Gives
  <2>2. Number(f) = Number(e)  BY <1>1, <2>1, Numbers
  <2>3. Current(f) = Program[f][Number(e)] /\ Current(f).kind # "recv"
    BY <1>1, <2>1, <2>2, KindUses
  <2>4. Base(f) = Current(e).chunks  BY <1>4, <1>6, <1>8, <2>3 DEF Sending
  <2>5. Base(f) = next[f]
    <3>1. Len(sends[f]) = 0 /\ next[f] \in Nat  BY <1>1, <1>7 DEF TypeOK
    <3> QED  BY <2>1, <3>1 DEF Base
  <2> QED  BY <1>4, <2>3, <2>4, <2>5
<1> QED  BY <1>7, <1>8

\* And the peer has posted nothing that it would still receive from the operation.
LEMMA PeerTook ==
  ASSUME ~Retry, TypeOK, \A s \in Settings : Paired(s),
         NEW e \in End, InWindow(e), Work(e), Apart(e),
         InWindow(1-e), Work(1-e), Aligned(1-e), FinishedStep(e),
         Okay(1-e), Number(1-e) = Number(e)
  PROVE  /\ recvs[1-e] = << >>
         /\ Takes(1-e) => next[1-e] = Current(1-e).chunks
<1> DEFINE f == 1 - e
<1>1. f \in End /\ 1 - f = e  BY OtherEnd
<1>2. /\ sends[e] = << >> /\ next[e] = Current(e).chunks /\ Running(e)
  BY FinishedClean
<1>3. Okay(e) /\ Current(e).chunks \in Nat \ {0}  BY <1>2, RunningIsOkay, InOperation
<1>4. /\ Number(e) \in 1 .. Len(Program[f])
      /\ Program[f][Number(e)].chunks = Current(e).chunks
      /\ SendsData(e) <=> Program[f][Number(e)].kind # "send"
  BY <1>2, SameOperationPairs
<1>5. Running(f)
  BY <1>1, <1>4 DEF Running, Okay
<1>6. Current(f) = Program[f][Number(e)] /\ (TakesData(f) <=> SendsData(e))
      /\ Current(f).chunks = Current(e).chunks
  BY <1>1, <1>4, <1>5, KindUses
<1>7. InPlay(e) = Number(f)  BY <1>3, Numbers
<1>8. CASE ~TakesData(f)
  <2>1. Posted(f, "recv") = << >>  BY <1>5, <1>8 DEF Work, InOrder, WorkKind, Uses
  <2> QED  BY <1>8, <2>1 DEF Posted, Takes
<1>9. CASE TakesData(f)
  <2>1. Sending(e) /\ Takes(f)  BY <1>2, <1>5, <1>6, <1>9 DEF Sending, Gives, Takes
  <2>2. Base(e) = Moved(f, "recv")  BY <1>1, <1>7, <2>1 DEF Aligned, AlignedTo
  <2>3. Base(e) = Current(e).chunks
    <3>1. Len(sends[e]) = 0  BY <1>2
    <3> QED  BY <1>2, <1>3, <3>1 DEF Base
  <2>4. /\ Moved(f, "recv") <= next[f] /\ next[f] \in Nat
        /\ Moved(f, "recv") + Len(Posted(f, "recv")) = next[f]
    <3>1. "recv" \in WorkKind  BY DEF WorkKind
    <3> QED  BY <1>1, <1>5, <3>1, WindowBounds
  <2>5. next[f] <= Current(f).chunks  BY <1>5 DEF InWindow
  <2>6. recvs[f] \in Seq(Request) /\ Len(recvs[f]) \in Nat  BY <1>1 DEF TypeOK
  <2>7. next[f] = Current(f).chunks /\ Len(recvs[f]) = 0
    BY <1>3, <1>6, <2>2, <2>3, <2>4, <2>5, <2>6 DEF Posted
  <2> QED  BY <2>6, <2>7, EmptySeq
<1> QED  BY <1>8, <1>9

LEMMA FinishedOkay ==
  ASSUME TypeOK, NEW e \in End, Okay(e), FinishedStep(e)
  PROVE  Okay(e)' /\ Number(e)' = Number(e) + 1 /\ Number(e) \in Nat /\ InPlay(e)' = Number(e) + 1
<1>1. done'[e] = Append(done[e], [ok |-> TRUE, data |-> Confirmed(e)])  BY DEF FinishedStep
<1>2. done[e] \in Seq(Outcome) /\ Len(done[e]) \in Nat  BY DEF TypeOK
<1>3. /\ Len(done'[e]) = Len(done[e]) + 1
      /\ \A i \in 1 .. Len(done[e]) : done'[e][i] = done[e][i]
      /\ done'[e][Len(done[e]) + 1].ok
  BY <1>1, <1>2
<1>4. Okay(e)'
  <2>1. ASSUME NEW i \in 1 .. Len(done'[e])  PROVE done'[e][i].ok
    <3>1. i \in 1 .. Len(done[e]) \/ i = Len(done[e]) + 1  BY <1>2, <1>3
    <3> QED  BY <1>3, <3>1 DEF Okay
  <2> QED  BY <2>1 DEF Okay
<1>5. Number(e)' = Len(done'[e]) + 1  BY DEF Number
<1>6. InPlay(e)' = Number(e)'  BY <1>4 DEF InPlay
<1> QED  BY <1>2, <1>3, <1>4, <1>5, <1>6 DEF Number

LEMMA FinishedAligned ==
  ASSUME ~Retry, FlowInv, \A s \in Settings : Paired(s), NEW e \in End, FinishedStep(e)
  PROVE  Aligned(e)' /\ Aligned(1-e)' /\ Staged(e)' /\ Staged(1-e)'
<1> DEFINE f == 1 - e
<1>1. f \in End /\ f # e /\ 1 - f = e  BY OtherEnd
<1>2. /\ TypeOK /\ InWindow(e) /\ Work(e) /\ Apart(e) /\ InWindow(f) /\ Work(f)
      /\ Aligned(e) /\ Aligned(f) /\ Staged(f)
  BY <1>1 DEF FlowInv, SlotInv
<1>3. /\ sends[e] = << >> /\ recvs[e] = << >> /\ Running(e)
  BY <1>2, FinishedClean
<1>4. Okay(e)  BY <1>3, RunningIsOkay
<1>5. /\ TypeOK' /\ done'[e] = Append(done[e], [ok |-> TRUE, data |-> Confirmed(e)])
      /\ next'[e] = 0 /\ setting' = setting /\ sends' = sends /\ recvs' = recvs
      /\ sendBuf' = sendBuf
      /\ \A g \in End \ {e} : Kept(g)
  BY DEF FinishedStep, ConfirmedStep, transport
<1>6. SenderKept(f) /\ ReceiverKept(f)  BY <1>1, <1>2, <1>5, KeptViews
<1>7. Okay(e)' /\ Number(e)' = Number(e) + 1 /\ Number(e) \in Nat /\ InPlay(e)' = Number(e) + 1
  BY <1>2, <1>4, FinishedOkay
<1>8. sends'[e] = << >> /\ recvs'[e] = << >> /\ Base(e)' = 0 /\ Moved(e, "recv")' = 0
  <2>1. sends'[e] = << >> /\ recvs'[e] = << >>  BY <1>3, <1>5
  <2>2. Len(sends'[e]) = 0 /\ Len(recvs'[e]) = 0  BY <2>1
  <2>3. Base(e)' = next'[e] - Len(sends'[e])  BY <1>7 DEF Base
  <2>4. Moved(e, "recv")' = next'[e] - Len(recvs'[e])  BY DEF Moved, Posted
  <2> QED  BY <1>5, <2>1, <2>2, <2>3, <2>4
<1>9. /\ InPlay(f)' = InPlay(f) /\ Base(f)' = Base(f) /\ Sending(f)' = Sending(f)
      /\ Okay(f)' = Okay(f) /\ Number(f)' = Number(f) /\ Gives(f)' = Gives(f)
      /\ Current(f)' = Current(f) /\ Staged(f)'
      /\ sends'[f] = sends[f] /\ next'[f] = next[f]
  BY <1>1, <1>2, <1>6, SenderSame DEF SenderKept
<1>10. /\ Takes(f)' = Takes(f) /\ Moved(f, "recv")' = Moved(f, "recv")
       /\ recvs'[f] = recvs[f]
  BY <1>1, <1>6, ReceiverSame
<1>11. Staged(e)'  BY <1>8 DEF Staged
<1>12. /\ InPlay(e) = Number(e) /\ InPlay(f) \in Nat /\ Number(f) \in Nat
       /\ Okay(f) => InPlay(f) = Number(f)
  BY <1>1, <1>2, <1>4, Numbers
<1>13. Okay(f) => Number(e) <= Number(f)  BY <1>2, NotAhead
<1>14. AlignedTo(e, f)  BY <1>2, <1>4 DEF Aligned
<1>15. InPlay(f) = Number(e) =>
         /\ sends[f] = << >>
         /\ Gives(f) => next[f] = Current(f).chunks
  BY <1>2, PeerDrained
<1>16. (Okay(f) /\ Number(f) = Number(e)) =>
         /\ recvs[f] = << >>
         /\ Takes(f) => next[f] = Current(f).chunks
  BY <1>2, PeerTook
<1> HIDE DEF f
<1>17. AlignedTo(e, f)'
  <2>1. CASE InPlay(f) > Number(e)
    <3>1. /\ InPlay(f) = Number(e) + 1
          /\ Sending(f) => Base(f) = 0
      BY <1>14, <2>1 DEF AlignedTo
    <3>2. InPlay(f)' = Number(e)'  BY <1>7, <1>9, <3>1
    <3>3. Sending(f)' => Base(f)' = Moved(e, "recv")'  BY <1>8, <1>9, <3>1
    <3> QED  BY <1>7, <1>9, <1>12, <3>2, <3>3 DEF AlignedTo
  <2>2. CASE InPlay(f) <= Number(e)
    <3>1. InPlay(f)' < Number(e)'  BY <1>7, <1>9, <1>12, <2>2
    <3>2. sends'[f] = << >>
      <4>1. CASE InPlay(f) = Number(e)  BY <1>9, <1>15, <4>1
      <4>2. CASE InPlay(f) < Number(e)
        <5>1. sends[f] = << >>  BY <1>14, <4>2 DEF AlignedTo
        <5> QED  BY <1>9, <5>1
      <4> QED  BY <1>7, <1>12, <2>2, <4>1, <4>2
    <3>3. ASSUME Okay(f)'
          PROVE  /\ Number(e)' = Number(f)' + 1
                 /\ Gives(f)' => next'[f] = Current(f)'.chunks
                 /\ Moved(e, "recv")' = 0
      <4>1. Number(f) = Number(e) /\ InPlay(f) = Number(e)
        BY <1>7, <1>9, <1>12, <1>13, <2>2, <3>3
      <4>2. Gives(f)' => next'[f] = Current(f)'.chunks  BY <1>9, <1>15, <4>1
      <4>3. Number(e)' = Number(f)' + 1  BY <1>7, <1>9, <4>1
      <4> QED  BY <1>8, <4>2, <4>3
    <3> QED  BY <1>7, <1>9, <1>12, <3>1, <3>2, <3>3 DEF AlignedTo
  <2> QED  BY <1>7, <1>12, <2>1, <2>2
<1>18. ASSUME Okay(f)'  PROVE AlignedTo(f, e)'
  <2>1. Okay(f) /\ AlignedTo(f, e)  BY <1>1, <1>2, <1>9, <1>18 DEF Aligned
  <2>2. CASE Number(f) = Number(e)
    <3>1. InPlay(e)' = Number(f)' + 1  BY <1>7, <1>9, <2>2
    <3>2. /\ recvs[f] = << >>
          /\ Takes(f) => next[f] = Current(f).chunks
      BY <1>16, <2>1, <2>2
    <3>3. recvs'[f] = << >>  BY <1>10, <3>2
    <3>4. Takes(f)' => next'[f] = Current(f)'.chunks  BY <1>9, <1>10, <3>2
    <3> QED  BY <1>7, <1>8, <1>9, <1>12, <3>1, <3>3, <3>4 DEF AlignedTo
  <2>3. CASE Number(f) # Number(e)
    <3>1. Number(e) < Number(f)  BY <1>7, <1>12, <1>13, <2>1, <2>3
    <3>2. /\ Number(f) = Number(e) + 1
          /\ Takes(f) => Moved(f, "recv") = 0
      BY <1>4, <1>12, <2>1, <3>1 DEF AlignedTo
    <3>3. InPlay(e)' = Number(f)'  BY <1>7, <1>9, <3>2
    <3>4. Takes(f)' => Base(e)' = Moved(f, "recv")'  BY <1>8, <1>10, <3>2
    <3> QED  BY <1>7, <1>9, <1>12, <3>3, <3>4 DEF AlignedTo
  <2> QED  BY <2>2, <2>3
<1> QED  BY <1>1, <1>9, <1>11, <1>17, <1>18 DEF Aligned, f

LEMMA FailedAligned ==
  ASSUME ~Retry, FlowInv, NEW e \in End, FailedStep(e)
  PROVE  Aligned(e)' /\ Aligned(1-e)' /\ Staged(e)' /\ Staged(1-e)'
<1> DEFINE f == 1 - e
<1>1. f \in End /\ f # e /\ 1 - f = e  BY OtherEnd
<1>2. /\ TypeOK /\ SlotInv /\ Staged(e) /\ Staged(f) /\ Aligned(f)
  BY <1>1 DEF FlowInv, SlotInv
<1>3. /\ InPlay(e)' = InPlay(e) /\ sends'[e] = sends[e] /\ ~Okay(e)' /\ Staged(e)'
      /\ sends[e] # << >> => Base(e)' = Base(e)
      /\ Sending(e)' => Sending(e)
  BY <1>2, FailedSender
<1>4. sendBuf' = sendBuf /\ \A g \in End \ {e} : Kept(g)  BY DEF FailedStep
<1>5. SenderKept(f) /\ ReceiverKept(f)  BY <1>1, <1>2, <1>4, KeptViews
<1>6. Staged(f)'  BY <1>1, <1>2, <1>5, SenderSame
<1>7. /\ Okay(f)' = Okay(f) /\ Number(f)' = Number(f) /\ Takes(f)' = Takes(f)
      /\ Current(f)' = Current(f) /\ Moved(f, "recv")' = Moved(f, "recv")
      /\ recvs'[f] = recvs[f] /\ next'[f] = next[f]
  BY <1>1, <1>5, ReceiverSame
<1>8. Sending(e)' => Base(e)' = Base(e)
  <2>1. ~Running(e)'  BY <1>3 DEF Running, Okay
  <2> QED  BY <1>3, <2>1 DEF Sending, Gives
<1> HIDE DEF f
<1>9. ASSUME Okay(f)'  PROVE AlignedTo(f, e)'
  <2>1. AlignedTo(f, e)  BY <1>1, <1>2, <1>7, <1>9 DEF Aligned
  <2>2. (InPlay(e) > Number(f) =>
          /\ InPlay(e) = Number(f) + 1
          /\ recvs[f] = << >>
          /\ Takes(f) => next[f] = Current(f).chunks
          /\ Sending(e) => Base(e) = 0)'
    BY <1>3, <1>7, <1>8, <2>1 DEF AlignedTo
  <2>3. (InPlay(e) = Number(f) /\ Takes(f) /\ Sending(e) => Base(e) = Moved(f, "recv"))'
    BY <1>3, <1>7, <1>8, <2>1 DEF AlignedTo
  <2>4. (InPlay(e) < Number(f) =>
          /\ sends[e] = << >>
          /\ Okay(e) => /\ Number(f) = Number(e) + 1
                        /\ Gives(e) => next[e] = Current(e).chunks
                        /\ Takes(f) => Moved(f, "recv") = 0)'
    BY <1>3, <1>7, <2>1 DEF AlignedTo
  <2> QED  BY <2>2, <2>3, <2>4 DEF AlignedTo
<1> QED  BY <1>1, <1>3, <1>6, <1>9 DEF Aligned, f

\* A receive of an end that has not failed is matched with the chunk it is for.
LEMMA Matched ==
  ASSUME ~Retry, FlowInv, NEW e \in End, sends[e] # << >>, recvs[1-e] # << >>, Okay(1-e)
  PROVE  /\ Running(1-e) /\ TakesData(1-e)
         /\ InPlay(e) = Number(1-e) /\ Base(e) = Moved(1-e, "recv")
         /\ Moved(1-e, "recv") \in Nat /\ First(1-e) <= Moved(1-e, "recv")
         /\ First(1-e) \in Nat
<1> DEFINE f == 1 - e
<1>1. f \in End /\ 1 - f = e  BY OtherEnd
<1>2. TypeOK /\ InWindow(f) /\ Work(f) /\ Aligned(f)  BY <1>1 DEF FlowInv, SlotInv
<1>3. Running(f)  BY <1>2 DEF Work
<1>4. TakesData(f)
  <2>1. ~Uses(f, "recv") => Posted(f, "recv") = << >>
    BY <1>2, <1>3 DEF Work, InOrder, WorkKind
  <2> QED  BY <2>1 DEF Uses, Posted
<1>5. AlignedTo(f, e)  BY <1>1, <1>2 DEF Aligned
<1>6. InPlay(e) \in Nat /\ Number(f) \in Nat  BY <1>1, <1>2, Numbers
<1>7. Takes(f) /\ Sending(e)  BY <1>3, <1>4 DEF Takes, Sending
<1>8. Moved(f, "recv") \in Nat /\ First(f) <= Moved(f, "recv") /\ First(f) \in Nat
  <2>1. "recv" \in WorkKind /\ Uses(f, "recv")  BY <1>4 DEF WorkKind, Uses
  <2> QED  BY <1>1, <1>2, <1>3, <2>1, WindowBounds
<1>9. InPlay(e) = Number(f)  BY <1>5, <1>6 DEF AlignedTo
<1>10. Base(e) = Moved(f, "recv")  BY <1>5, <1>7, <1>9 DEF AlignedTo
<1> QED  BY <1>3, <1>4, <1>8, <1>9, <1>10

LEMMA TransferSender ==
  ASSUME ~Retry, TypeOK, NEW e \in End, Staged(e), TransferStep(e)
  PROVE  /\ InPlay(e)' = InPlay(e) /\ Staged(e)'
         /\ Sending(e)' => Base(e)' = Base(e) + 1
<1>1. /\ sends[e] # << >> /\ OperationKept(e) /\ sendBuf' = sendBuf
      /\ sends'[e] = Tail(sends[e])
  BY DEF TransferStep
<1>2. setting' = setting /\ done'[e] = done[e] /\ next'[e] = next[e]
  BY <1>1 DEF OperationKept
<1>3. /\ Okay(e)' = Okay(e) /\ Number(e)' = Number(e) /\ Running(e)' = Running(e)
  BY <1>2, SameOperation
<1>4. InPlay(e)' = InPlay(e)  BY <1>2, <1>3 DEF InPlay
<1>5. /\ sends[e] \in Seq(Request) /\ Len(sends[e]) \in Nat \ {0}
      /\ Len(sends'[e]) = Len(sends[e]) - 1
      /\ \A i \in 1 .. Len(sends'[e]) : sends'[e][i] = sends[e][i + 1]
  <2>1. sends[e] \in Seq(Request)  BY DEF TypeOK
  <2> QED  BY <1>1, <2>1
<1>6. next[e] \in Nat /\ Base(e) \in Int
  <2>1. next[e] \in Nat  BY DEF TypeOK
  <2>2. CASE Okay(e)  BY <1>5, <2>1, <2>2 DEF Base
  <2>3. CASE ~Okay(e)
    <3>1. sends[e][1] \in Request  BY <1>5
    <3>2. sends[e][1].slot \in Slot  BY <3>1 DEF Request
    <3>3. sendBuf[e][sends[e][1].slot] \in Chunk  BY <3>2 DEF TypeOK
    <3> QED  BY <2>1, <2>3, <3>3 DEF Base, Chunk
  <2> QED  BY <2>2, <2>3
<1>7. ASSUME Sending(e)'  PROVE Base(e)' = Base(e) + 1
  <2>1. CASE Okay(e)
    <3>1. Base(e)' = next'[e] - Len(sends'[e])  BY <1>3, <2>1 DEF Base
    <3>2. Base(e) = next[e] - Len(sends[e])  BY <2>1 DEF Base
    <3> QED  BY <1>2, <1>5, <1>6, <3>1, <3>2
  <2>2. CASE ~Okay(e)
    <3>1. sends'[e] # << >>
      BY <1>3, <1>7, <2>2 DEF Sending, Gives, Running, Okay
    <3>2. 1 \in 1 .. Len(sends'[e]) /\ 2 \in 1 .. Len(sends[e])
      <4>1. sends'[e] \in Seq(Request)  BY <1>1, <1>5
      <4>2. Len(sends'[e]) # 0 /\ Len(sends'[e]) \in Nat  BY <3>1, <4>1, EmptySeq
      <4>3. Len(sends[e]) \in Nat /\ Len(sends'[e]) = Len(sends[e]) - 1  BY <1>5
      <4>4. \A l, m \in Nat : m # 0 /\ m = l - 1 => 1 \in 1 .. m /\ 2 \in 1 .. l
        OBVIOUS
      <4> QED  BY <4>2, <4>3, <4>4
    <3>3. sends'[e][1] = sends[e][2]  BY <1>5, <3>2
    <3>4. Base(e)' = sendBuf'[e][sends'[e][1].slot][3]  BY <1>3, <2>2 DEF Base
    <3>5. sendBuf[e][sends[e][2].slot] = <<e, InPlay(e), Base(e) + 2 - 1>>
      BY <3>2 DEF Staged
    <3> QED  BY <1>1, <1>6, <3>3, <3>4, <3>5
  <2> QED  BY <2>1, <2>2
<1>8. ASSUME NEW i \in 1 .. Len(sends'[e])
      PROVE  LET o == Program'[e][InPlay(e)']
                 c == Base(e)' + i - 1
             IN  /\ o.kind # "recv" /\ InPlay(e)' <= Len(Program'[e])
                 /\ c \in Nat /\ c < o.chunks
                 /\ sends'[e][i].bytes = opChunkLen(o, c)
                 /\ sendBuf'[e][sends'[e][i].slot] = <<e, InPlay(e)', c>>
  <2>1. i + 1 \in 1 .. Len(sends[e]) /\ sends'[e][i] = sends[e][i + 1] /\ i \in Int
    BY <1>5
  <2>2. Sending(e)'
    <3>1. Len(sends'[e]) # 0  BY <1>5
    <3>2. sends'[e] # << >>  BY <3>1
    <3> QED  BY <3>2 DEF Sending
  <2>3. Base(e)' + i - 1 = Base(e) + (i + 1) - 1  BY <1>6, <1>7, <2>1, <2>2
  <2>4. Program' = Program  BY <1>2 DEF Program
  <2> QED  BY <1>1, <1>4, <2>1, <2>3, <2>4 DEF Staged
<1>9. Staged(e)'  BY <1>8 DEF Staged
<1> QED  BY <1>4, <1>7, <1>9

LEMMA TransferAligned ==
  ASSUME ~Retry, FlowInv, NEW e \in End, TransferStep(e)
  PROVE  Aligned(e)' /\ Aligned(1-e)' /\ Staged(e)' /\ Staged(1-e)'
<1> DEFINE f == 1 - e
<1>1. f \in End /\ f # e /\ 1 - f = e  BY OtherEnd
<1>2. /\ TypeOK /\ Staged(e) /\ Staged(f) /\ Aligned(e)
      /\ InWindow(f) /\ Work(f) /\ Apart(f)
  BY <1>1 DEF FlowInv, SlotInv
<1>3. /\ sends[e] # << >> /\ recvs[f] # << >> /\ OperationKept(e) /\ OperationKept(f)
      /\ sendBuf' = sendBuf /\ sends'[f] = sends[f] /\ recvs'[e] = recvs[e]
  BY <1>1 DEF TransferStep
<1>4. SenderKept(f) /\ ReceiverKept(e)
  BY <1>3 DEF SenderKept, ReceiverKept, OperationKept
<1>5. Aligned(e)'  BY <1>2, <1>4, KeptAligned
<1>6. Staged(f)'  BY <1>1, <1>2, <1>4, SenderSame
<1>7. /\ InPlay(e)' = InPlay(e) /\ Staged(e)'
      /\ Sending(e)' => Base(e)' = Base(e) + 1
  BY <1>2, TransferSender
<1>8. /\ Okay(f)' = Okay(f) /\ Number(f)' = Number(f)
  BY <1>1, <1>3, SameOperation DEF OperationKept
<1>9. ASSUME Okay(f)'  PROVE AlignedTo(f, e)'
  <2>1. /\ Running(f) /\ InPlay(e) = Number(f) /\ Base(e) = Moved(f, "recv")
        /\ Number(f) \in Nat
    BY <1>1, <1>2, <1>3, <1>8, <1>9, Matched, Numbers
  <2>2. PICK v \in Completion : CarriedAt(f, "recv", v)  BY <1>2, TransferCarries
  <2>3. Moved(f, "recv")' = Moved(f, "recv") + 1
    <3>1. "recv" \in WorkKind  BY DEF WorkKind
    <3> HIDE DEF f
    <3> QED  BY <1>1, <1>2, <2>1, <2>2, <3>1, CarriedSlots
  <2>4. InPlay(e)' = Number(f)' /\ Number(f)' \in Nat  BY <1>7, <1>8, <2>1
  <2>5. Sending(e)' => Base(e)' = Moved(f, "recv")'  BY <1>7, <2>1, <2>3
  <2> HIDE DEF f
  <2> QED  BY <2>4, <2>5 DEF AlignedTo
<1>10. Aligned(f)'
  <2> HIDE DEF f
  <2>1. Okay(f)' => AlignedTo(f, 1-f)'  BY <1>1, <1>9
  <2> QED  BY <2>1 DEF Aligned
<1> QED  BY <1>5, <1>6, <1>7, <1>10

LEMMA QuietAligned ==
  ASSUME FlowInv, NEW e \in End, PolledStep(e) \/ AdvancedStep(e), NEW g \in End
  PROVE  Aligned(g)' /\ Staged(g)'
<1>1. ASSUME NEW h \in End  PROVE SenderKept(h) /\ ReceiverKept(h)
  BY <1>1 DEF PolledStep, AdvancedStep, ConfirmedStep, transport, SenderKept, ReceiverKept
<1>2. 1 - g \in End  BY OtherEnd
<1>3. Aligned(g) /\ Staged(g)  BY DEF FlowInv
<1> QED  BY <1>1, <1>2, <1>3, KeptAligned, SenderSame

LEMMA FlowStep ==
  ASSUME ~Retry, FlowInv, \A s \in Settings : Paired(s), NEW e \in End, StepOf(e)
  PROVE  FlowInv'
<1>1. SlotInv /\ TypeOK  BY DEF FlowInv, SlotInv
<1>2. SlotInv'  BY <1>1, SlotStep
<1>3. ASSUME NEW g \in End  PROVE Staged(g)' /\ Aligned(g)'
  <2>1. g = e \/ g = 1 - e  BY OtherEnd
  <2>2. 1 - e \in End /\ 1 - e # e  BY OtherEnd
  <2>3. CASE Stage(e)
    <3>1. Apart(e)' /\ InWindow(e) /\ Work(e)  BY <1>1, <1>2 DEF SlotInv
    <3>2. Staged(e) /\ Staged(1-e) /\ Aligned(e) /\ Aligned(1-e)  BY <2>2 DEF FlowInv
    <3>3. Aligned(e)' /\ Aligned(1-e)'  BY <1>1, <2>3, <3>1, <3>2, StageAligned
    <3>4. Staged(e)'  BY <1>1, <2>3, <3>1, <3>2, StageStaged
    <3>5. SenderKept(1-e)
      <4>1. /\ \A h \in End \ {e} : Kept(h)
            /\ sendBuf' = IF SendsData(e)
                 THEN [sendBuf EXCEPT ![e][slotOf(next[e])] = <<e, Number(e), next[e]>>]
                 ELSE sendBuf
        BY <1>1, <2>3, StageEffect
      <4>2. sendBuf'[1-e] = sendBuf[1-e]  BY <1>1, <2>2, <4>1 DEF TypeOK
      <4> QED  BY <1>1, <2>2, <4>1, <4>2, KeptViews
    <3>6. Staged(1-e)'  BY <2>2, <3>2, <3>5, SenderSame
    <3> QED  BY <2>1, <3>3, <3>4, <3>6
  <2>4. CASE PolledStep(e) \/ AdvancedStep(e)  BY <2>4, QuietAligned
  <2>5. CASE FailedStep(e)  BY <2>1, <2>5, FailedAligned
  <2>6. CASE FinishedStep(e)  BY <2>1, <2>6, FinishedAligned
  <2>7. CASE TransferStep(e)  BY <2>1, <2>7, TransferAligned
  <2> QED  BY <2>3, <2>4, <2>5, <2>6, <2>7 DEF StepOf
<1> QED  BY <1>2, <1>3 DEF FlowInv

LEMMA InitFlow ==
  ASSUME Init
  PROVE  FlowInv
<1>1. SlotInv  BY InitSlots
<1>2. ASSUME NEW e \in End
      PROVE  /\ sends[e] = << >> /\ Okay(e) /\ Number(e) = 1 /\ InPlay(e) = 1
             /\ Base(e) = 0 /\ Moved(e, "recv") = 0
  <2>1. sends[e] = << >> /\ recvs[e] = << >> /\ done[e] = << >> /\ next[e] = 0
    BY <1>2 DEF Init
  <2>2. Len(sends[e]) = 0 /\ Len(recvs[e]) = 0 /\ Len(done[e]) = 0  BY <2>1
  <2>3. Okay(e) /\ Number(e) = 1  BY <2>2 DEF Okay, Number
  <2>4. InPlay(e) = 1  BY <2>3 DEF InPlay
  <2>5. Base(e) = 0
    <3>1. Base(e) = next[e] - Len(sends[e])  BY <2>3 DEF Base
    <3> QED  BY <2>1, <2>2, <3>1
  <2>6. Moved(e, "recv") = 0
    <3>1. Moved(e, "recv") = next[e] - Len(recvs[e])  BY DEF Moved, Posted
    <3> QED  BY <2>1, <2>2, <3>1
  <2> QED  BY <2>1, <2>3, <2>4, <2>5, <2>6
<1>3. ASSUME NEW e \in End  PROVE Staged(e)
  <2>1. Len(sends[e]) = 0  BY <1>2
  <2> QED  BY <2>1 DEF Staged
<1>4. ASSUME NEW e \in End  PROVE Aligned(e)
  <2>1. 1 - e \in End  BY OtherEnd
  <2> QED  BY <1>2, <2>1 DEF Aligned, AlignedTo
<1> QED  BY <1>1, <1>3, <1>4 DEF FlowInv

-----------------------------------------------------------------------------
(* What is delivered.                                                       *)

Intact(e) ==
  \A k \in 1 .. Len(done[e]) :
    done[e][k].ok /\ Program[e][k].kind # "send" =>
      \A i \in 1 .. Program[e][k].chunks :
        /\ done[e][k].data[i] = <<1-e, k, i-1>>
        /\ opChunkLen(Program[e][k], i-1) = opChunkLen(Program[1-e][k], i-1)

LEMMA IntactEnds == DataIntact <=> \A e \in End : Intact(e)
BY DEF DataIntact, Intact

LEMMA KeptDelivered ==
  ASSUME NEW e \in End, Kept(e), recvBuf'[e] = recvBuf[e], Delivered(e), Intact(e)
  PROVE  Delivered(e)' /\ Intact(e)'
<1>1. /\ setting' = setting /\ done'[e] = done[e] /\ next'[e] = next[e]
      /\ outstanding'[e] = outstanding[e] /\ polled'[e] = polled[e] /\ dst'[e] = dst[e]
      /\ sends'[e] = sends[e] /\ recvs'[e] = recvs[e] /\ cq'[e] = cq[e]
  BY DEF Kept, OperationKept, RequestsKept
<1>2. /\ Running(e)' = Running(e) /\ TakesData(e)' = TakesData(e) /\ Number(e)' = Number(e)
      /\ Current(e)' = Current(e)
      /\ \A kind, c : slotWorkID(e, kind, c)' = slotWorkID(e, kind, c)
  BY <1>1, SameOperation
<1>3. First(e)' = First(e) /\ Moved(e, "recv")' = Moved(e, "recv") /\ Landed(e)' = Landed(e)
  BY <1>1 DEF First, Moved, Posted, Landed
<1>4. Program' = Program  BY <1>1 DEF Program
<1>5. Takes(e)' = Takes(e)  BY <1>2 DEF Takes
<1>6. Arrived(e)' = Arrived(e)  BY <1>2, <1>3, <1>4 DEF Arrived
<1>7. Taken(e)' = Taken(e)  BY <1>1, <1>2, <1>3, <1>4 DEF Taken, IsChunk
<1>8. Intact(e)' = Intact(e)  BY <1>1, <1>4 DEF Intact
<1> QED  BY <1>5, <1>6, <1>7, <1>8 DEF Delivered

LEMMA StageDelivered ==
  ASSUME TypeOK, NEW e \in End, InWindow(e), Stage(e), Delivered(e), Intact(e)
  PROVE  Delivered(e)' /\ Intact(e)'
<1>1. /\ setting' = setting /\ done' = done /\ polled' = polled /\ dst' = dst
      /\ cq' = cq /\ recvBuf' = recvBuf
  BY StageEffect
<1>2. /\ Running(e)' = Running(e) /\ TakesData(e)' = TakesData(e) /\ Number(e)' = Number(e)
      /\ Current(e)' = Current(e)
      /\ \A kind, c : slotWorkID(e, kind, c)' = slotWorkID(e, kind, c)
  BY <1>1, SameOperation
<1>3. First(e)' = First(e)  BY StageWindow
<1>4. Landed(e)' = Landed(e) /\ Program' = Program  BY <1>1 DEF Landed, Program
<1>5. Takes(e) => Moved(e, "recv")' = Moved(e, "recv")
  BY StageMoved DEF Takes, Uses, WorkKind
<1>6. Takes(e)' = Takes(e)  BY <1>2 DEF Takes
<1>7. ASSUME Takes(e)  PROVE Arrived(e)'
  <2>1. Arrived(e) /\ Moved(e, "recv")' = Moved(e, "recv")  BY <1>5, <1>7 DEF Delivered
  <2> QED  BY <1>1, <1>2, <1>3, <1>4, <2>1 DEF Arrived
<1>8. Taken(e)' = Taken(e)  BY <1>1, <1>2, <1>3, <1>4 DEF Taken, IsChunk
<1>9. Intact(e)' = Intact(e)  BY <1>1, <1>4 DEF Intact
<1> QED  BY <1>6, <1>7, <1>8, <1>9 DEF Delivered

LEMMA PolledDelivered ==
  ASSUME TypeOK, NEW e \in End, InWindow(e), Work(e), Apart(e), PolledStep(e),
         Delivered(e), Intact(e)
  PROVE  Delivered(e)' /\ Intact(e)'
<1>1. /\ TypeOK' /\ setting' = setting /\ done' = done /\ next' = next
      /\ outstanding' = outstanding /\ dst' = dst /\ recvs' = recvs /\ recvBuf' = recvBuf
  BY DEF PolledStep
<1>2. /\ Running(e)' = Running(e) /\ TakesData(e)' = TakesData(e) /\ Number(e)' = Number(e)
      /\ Current(e)' = Current(e)
      /\ \A kind, c : slotWorkID(e, kind, c)' = slotWorkID(e, kind, c)
  BY <1>1, SameOperation
<1>3. First(e)' = First(e) /\ Moved(e, "recv")' = Moved(e, "recv") /\ Program' = Program
  BY <1>1 DEF First, Moved, Posted, Program
<1>4. Landed(e)' = Landed(e)  BY PolledSlots
<1>5. Takes(e)' = Takes(e)  BY <1>2 DEF Takes
<1>6. Arrived(e)' = Arrived(e)  BY <1>1, <1>2, <1>3, <1>4 DEF Arrived
<1>7. ASSUME Taken(e)  PROVE Taken(e)'
  <2>1. PICK n \in 1 .. Len(cq[e]) :
          /\ polled'[e] = polled[e] \o SubSeq(cq[e], 1, n)
          /\ \A i \in 1 .. n : cq[e][i].ok
    BY DEF PolledStep
  <2>2. /\ polled[e] \in Seq(Completion) /\ cq[e] \in Seq(Completion)
        /\ Len(polled[e]) \in Nat /\ Len(cq[e]) \in Nat
    BY LandedType
  <2>3. SubSeq(cq[e], 1, n) \in Seq(Completion) /\ Len(SubSeq(cq[e], 1, n)) = n
        /\ \A i \in 1 .. n : SubSeq(cq[e], 1, n)[i] = cq[e][i]
    BY <2>2
  <2>4. ASSUME NEW i \in 1 .. Len(polled'[e])  PROVE polled'[e][i].ok
    <3>1. /\ Len(polled'[e]) = Len(polled[e]) + n
          /\ \A j \in 1 .. Len(polled[e]) : polled'[e][j] = polled[e][j]
          /\ \A j \in 1 .. n : polled'[e][Len(polled[e]) + j] = cq[e][j]
      BY <2>1, <2>2, <2>3, Concatenated
    <3>2. CASE i \in 1 .. Len(polled[e])  BY <1>7, <3>1, <3>2 DEF Taken
    <3>3. CASE i \notin 1 .. Len(polled[e])
      <4>1. i - Len(polled[e]) \in 1 .. n /\ Len(polled[e]) + (i - Len(polled[e])) = i
        BY <2>2, <3>1, <3>3
      <4>2. polled'[e][i] = cq[e][i - Len(polled[e])]  BY <3>1, <4>1
      <4> QED  BY <2>1, <4>1, <4>2
    <3> QED  BY <3>2, <3>3
  <2> QED  BY <1>1, <1>2, <1>3, <1>7, <2>4 DEF Taken, IsChunk
<1>8. Intact(e)' = Intact(e)  BY <1>1, <1>3 DEF Intact
<1> QED  BY <1>5, <1>6, <1>7, <1>8 DEF Delivered

\* What a confirmation takes out of the slot is the chunk that it is for.
LEMMA ConfirmedChunk ==
  ASSUME TypeOK, NEW e \in End, InWindow(e), Work(e), Apart(e), Delivered(e),
         ConfirmedStep(e), TakesData(e)
  PROVE  IsChunk(e, First(e), recvBuf[e][slotOf(First(e))])
<1>1. Running(e) /\ First(e) \in Nat  BY Confirmable DEF ConfirmedStep
<1>2. Takes(e) /\ Uses(e, "recv") /\ "recv" \in WorkKind
  BY <1>1 DEF Takes, Uses, WorkKind
<1>3. Arrived(e) /\ Taken(e)  BY <1>2 DEF Delivered
<1>4. PICK i \in 1 .. Len(polled[e]) : polled[e][i].id = slotWorkID(e, "recv", First(e))
  BY <1>2, WantedLanded
<1>5. First(e) < Moved(e, "recv") /\ Moved(e, "recv") \in Int
  BY <1>1, <1>2, WantedMoved, WindowBounds
<1>6. First(e) \in First(e) .. Moved(e, "recv") - 1  BY <1>1, <1>5
<1>7. i \in 1 .. Len(Landed(e)) /\ Landed(e)[i] = polled[e][i]
  <2>1. /\ Len(polled[e]) \in Nat /\ Len(cq[e]) \in Nat /\ Len(Landed(e)) \in Nat
        /\ Len(Landed(e)) = Len(polled[e]) + Len(cq[e])
        /\ Landed(e)[i] = polled[e][i]
    BY LandedType
  <2> QED  BY <2>1, EarlierIndex
<1>8. polled[e][i].ok  BY <1>3 DEF Taken
<1>9. /\ recvBuf[e][slotOf(First(e))] = <<1 - e, Number(e), First(e)>>
      /\ polled[e][i].bytes = opChunkLen(Program[1-e][Number(e)], First(e))
  BY <1>3, <1>4, <1>6, <1>7, <1>8 DEF Arrived
<1>10. polled[e][i].bytes = chunkLen(e, First(e))
  <2>1. PICK w \in Wanted(e) : /\ w.id = polled[e][i].id
                               /\ w.id[1] = "recv" => w.bytes = polled[e][i].bytes
    BY DEF ConfirmedStep, Matches
  <2>2. w.id[1] = "recv"  BY <1>1, <1>2, <1>4, <2>1, WorkIDType
  <2>3. Head(outstanding[e]) = First(e)  BY Confirmable DEF ConfirmedStep
  <2>4. w = [id |-> slotWorkID(e, "recv", First(e)), bytes |-> chunkLen(e, First(e))]
        \/ w = [id |-> slotWorkID(e, "send", First(e)), bytes |-> chunkLen(e, First(e))]
    BY <2>1, <2>3 DEF Wanted
  <2> QED  BY <2>1, <2>2, <2>4
<1> QED  BY <1>9, <1>10 DEF IsChunk, chunkLen

LEMMA ConfirmedData ==
  ASSUME TypeOK, NEW e \in End, InWindow(e), Work(e), Apart(e), Delivered(e),
         ConfirmedStep(e), TakesData(e)
  PROVE  /\ Len(Confirmed(e)) = First(e) + 1 /\ First(e) \in Nat
         /\ \A c \in 0 .. First(e) : IsChunk(e, c, Confirmed(e)[c + 1])
<1>1. Running(e) /\ First(e) \in Nat  BY Confirmable DEF ConfirmedStep
<1>2. Taken(e)  BY <1>1 DEF Takes, Delivered
<1>3. dst[e] \in Seq(Chunk)  BY DEF TypeOK
<1>4. slotOf(First(e)) \in Slot  BY <1>1, SlotsInRange
<1>5. recvBuf[e][slotOf(First(e))] \in Chunk  BY <1>4 DEF TypeOK
<1>6. Confirmed(e) = Append(dst[e], recvBuf[e][slotOf(First(e))])  BY DEF Confirmed
<1>7. Len(dst[e]) = First(e)  BY <1>2 DEF Taken
<1>8. /\ Len(Confirmed(e)) = Len(dst[e]) + 1
      /\ \A i \in 1 .. Len(dst[e]) : Confirmed(e)[i] = dst[e][i]
      /\ Confirmed(e)[Len(dst[e]) + 1] = recvBuf[e][slotOf(First(e))]
  BY <1>3, <1>5, <1>6, AppendProperties
<1>9. ASSUME NEW c \in 0 .. First(e)  PROVE IsChunk(e, c, Confirmed(e)[c + 1])
  <2>1. CASE c = First(e)
    <3>1. Confirmed(e)[c + 1] = recvBuf[e][slotOf(First(e))]  BY <1>7, <1>8, <2>1
    <3> QED  BY <2>1, <3>1, ConfirmedChunk
  <2>2. CASE c # First(e)
    <3>1. c \in 0 .. First(e) - 1 /\ c + 1 \in 1 .. Len(dst[e])  BY <1>1, <1>7, <2>2
    <3>2. Confirmed(e)[c + 1] = dst[e][c + 1]  BY <1>8, <3>1
    <3> QED  BY <1>2, <3>1, <3>2 DEF Taken
  <2> QED  BY <2>1, <2>2
<1> QED  BY <1>1, <1>7, <1>8, <1>9

LEMMA AdvancedDelivered ==
  ASSUME TypeOK, NEW e \in End, InWindow(e), Work(e), Apart(e), AdvancedStep(e),
         Delivered(e), Intact(e)
  PROVE  Delivered(e)' /\ Intact(e)'
<1>1. /\ ConfirmedStep(e) /\ TypeOK' /\ setting' = setting /\ done' = done /\ next' = next
      /\ recvs' = recvs /\ recvBuf' = recvBuf
      /\ polled'[e] = << >> /\ dst'[e] = Confirmed(e)
  BY DEF AdvancedStep, ConfirmedStep, transport
<1>2. /\ Running(e)' = Running(e) /\ TakesData(e)' = TakesData(e) /\ Number(e)' = Number(e)
      /\ Current(e)' = Current(e)
      /\ \A kind, c : slotWorkID(e, kind, c)' = slotWorkID(e, kind, c)
  BY <1>1, SameOperation
<1>3. First(e)' = First(e) + 1  BY AdvancedWindow
<1>4. Moved(e, "recv")' = Moved(e, "recv") /\ Program' = Program
  BY <1>1 DEF Moved, Posted, Program
<1>5. Takes(e)' = Takes(e)  BY <1>2 DEF Takes
<1>6. ASSUME Takes(e)  PROVE Arrived(e)' /\ Taken(e)'
  <2>1. Arrived(e) /\ TakesData(e) /\ Running(e)  BY <1>6 DEF Delivered, Takes
  <2>2. /\ Len(Confirmed(e)) = First(e) + 1 /\ First(e) \in Nat
        /\ \A c \in 0 .. First(e) : IsChunk(e, c, Confirmed(e)[c + 1])
    BY <1>1, <2>1, ConfirmedData
  <2>3. Moved(e, "recv") \in Int
    <3>1. "recv" \in WorkKind  BY DEF WorkKind
    <3> QED  BY <2>1, <3>1, WindowBounds
  <2>4. /\ Len(Landed(e)') = Len(cq[e])
        /\ \A i \in 1 .. Len(cq[e]) : Landed(e)'[i] = cq[e][i]
    BY <1>1, ConfirmedApart
  <2>5. ASSUME NEW i \in 1 .. Len(Landed(e)'),
               NEW c \in First(e)' .. Moved(e, "recv")' - 1,
               Landed(e)'[i].id = slotWorkID(e, "recv", c), Landed(e)'[i].ok
        PROVE  /\ recvBuf[e][slotOf(c)] = <<1 - e, Number(e), c>>
               /\ Landed(e)'[i].bytes = opChunkLen(Program[1-e][Number(e)], c)
    <3>1. /\ Len(polled[e]) \in Nat /\ Len(cq[e]) \in Nat /\ Len(Landed(e)) \in Nat
          /\ Len(Landed(e)) = Len(polled[e]) + Len(cq[e])
          /\ \A j \in 1 .. Len(cq[e]) : Landed(e)[Len(polled[e]) + j] = cq[e][j]
      BY LandedType
    <3>2. Len(polled[e]) + i \in 1 .. Len(Landed(e)) /\ i \in 1 .. Len(cq[e])
      <4>1. i \in 1 .. Len(cq[e])  BY <2>4
      <4> QED  BY <3>1, <4>1, LaterIndex
    <3>3. Landed(e)[Len(polled[e]) + i] = Landed(e)'[i]  BY <2>4, <3>1, <3>2
    <3>4. c \in First(e) .. Moved(e, "recv") - 1  BY <1>3, <1>4, <2>2, <2>3
    <3> QED  BY <2>1, <2>5, <3>2, <3>3, <3>4 DEF Arrived
  <2>6. Arrived(e)'  BY <1>1, <1>2, <1>4, <2>5 DEF Arrived
  <2>7. Len(dst'[e]) = First(e)'  BY <1>1, <1>3, <2>2
  <2>8. ASSUME NEW c \in 0 .. First(e)' - 1  PROVE IsChunk(e, c, dst[e][c + 1])'
    <3>1. c \in 0 .. First(e)  BY <1>3, <2>2
    <3>2. IsChunk(e, c, Confirmed(e)[c + 1])  BY <2>2, <3>1
    <3> QED  BY <1>1, <1>2, <1>4, <3>2 DEF IsChunk
  <2>9. \A i \in 1 .. Len(polled'[e]) : polled'[e][i].ok
    <3>1. Len(polled'[e]) = 0  BY <1>1
    <3> QED  BY <3>1
  <2>10. Taken(e)'  BY <2>7, <2>8, <2>9 DEF Taken
  <2> QED  BY <2>6, <2>10
<1>7. Intact(e)' = Intact(e)  BY <1>1, <1>4 DEF Intact
<1> QED  BY <1>5, <1>6, <1>7 DEF Delivered

\* One more outcome.
LEMMA LongerIntact ==
  ASSUME TypeOK, NEW e \in End, setting' = setting, Intact(e),
         NEW outcome \in Outcome, done'[e] = Append(done[e], outcome),
         outcome.ok /\ Program[e][Number(e)].kind # "send" =>
           \A i \in 1 .. Program[e][Number(e)].chunks :
             /\ outcome.data[i] = <<1-e, Number(e), i-1>>
             /\ opChunkLen(Program[e][Number(e)], i-1)
                  = opChunkLen(Program[1-e][Number(e)], i-1)
  PROVE  Intact(e)'
<1>1. Program' = Program  BY DEF Program
<1>2. done[e] \in Seq(Outcome) /\ Len(done[e]) \in Nat /\ Number(e) = Len(done[e]) + 1
  BY DEF TypeOK, Number
<1>3. /\ Len(done'[e]) = Len(done[e]) + 1
      /\ \A i \in 1 .. Len(done[e]) : done'[e][i] = done[e][i]
      /\ done'[e][Len(done[e]) + 1] = outcome
  BY <1>2, AppendProperties
<1>4. ASSUME NEW k \in 1 .. Len(done'[e]), done'[e][k].ok, Program[e][k].kind # "send",
             NEW i \in 1 .. Program[e][k].chunks
      PROVE  /\ done'[e][k].data[i] = <<1-e, k, i-1>>
             /\ opChunkLen(Program[e][k], i-1) = opChunkLen(Program[1-e][k], i-1)
  <2>1. CASE k = Number(e)  BY <1>2, <1>3, <1>4, <2>1
  <2>2. CASE k # Number(e)
    <3>1. k \in 1 .. Len(done[e])  BY <1>2, <1>3, <2>2
    <3> QED  BY <1>3, <1>4, <3>1 DEF Intact
  <2> QED  BY <2>1, <2>2
<1> QED  BY <1>1, <1>4 DEF Intact

LEMMA FailedDelivered ==
  ASSUME ~Retry, TypeOK, NEW e \in End, Apart(e), FailedStep(e), Intact(e)
  PROVE  Delivered(e)' /\ Intact(e)'
<1>1. Delivered(e)'  BY FailedSlots DEF Delivered, Takes
<1>2. /\ setting' = setting
      /\ done'[e] = Append(done[e], [ok |-> FALSE, data |-> << >>])
  BY DEF FailedStep
<1> DEFINE outcome == [ok |-> FALSE, data |-> << >>]
<1>3. outcome \in Outcome /\ ~outcome.ok  BY FailedOutcome
<1>4. done'[e] = Append(done[e], outcome)  BY <1>2
<1> HIDE DEF outcome
<1> QED  BY <1>1, <1>2, <1>3, <1>4, LongerIntact

LEMMA FinishedDelivered ==
  ASSUME TypeOK, NEW e \in End, InWindow(e), Work(e), Apart(e), FinishedStep(e),
         Delivered(e), Intact(e)
  PROVE  Delivered(e)' /\ Intact(e)'
<1>1. /\ ConfirmedStep(e) /\ TypeOK' /\ setting' = setting /\ cq' = cq
      /\ First(e) = Current(e).chunks - 1
      /\ done'[e] = Append(done[e], [ok |-> TRUE, data |-> Confirmed(e)])
      /\ next'[e] = 0 /\ outstanding'[e] = << >> /\ polled'[e] = << >> /\ dst'[e] = << >>
  BY DEF FinishedStep, ConfirmedStep, transport
<1>2. cq[e] = << >> /\ Running(e)  BY FinishedClean
<1>3. First(e)' = 0  BY <1>1, EmptyWindow
<1>4. Landed(e)' = << >>
  <2>1. Landed(e)' = << >> \o << >>  BY <1>1, <1>2 DEF Landed
  <2> QED  BY <2>1
<1>5. Arrived(e)'
  <2>1. Len(Landed(e)') = 0  BY <1>4
  <2> QED  BY <2>1 DEF Arrived
<1>6. Taken(e)'
  <2>1. Len(polled'[e]) = 0 /\ Len(dst'[e]) = 0  BY <1>1
  <2> QED  BY <1>3, <2>1 DEF Taken
<1>7. Current(e) = Program[e][Number(e)] /\ (TakesData(e) <=> Current(e).kind # "send")
  BY <1>2, KindUses
<1>8. ASSUME Program[e][Number(e)].kind # "send", NEW i \in 1 .. Program[e][Number(e)].chunks
      PROVE  /\ Confirmed(e)[i] = <<1-e, Number(e), i-1>>
             /\ opChunkLen(Program[e][Number(e)], i-1)
                  = opChunkLen(Program[1-e][Number(e)], i-1)
  <2>1. TakesData(e) /\ Current(e).chunks \in Nat  BY <1>2, <1>7, <1>8, InOperation
  <2>2. First(e) \in Nat /\ \A c \in 0 .. First(e) : IsChunk(e, c, Confirmed(e)[c + 1])
    BY <1>1, <2>1, ConfirmedData
  <2>3. i - 1 \in 0 .. First(e) /\ (i - 1) + 1 = i  BY <1>1, <1>7, <2>1
  <2>4. IsChunk(e, i - 1, Confirmed(e)[i])  BY <2>2, <2>3
  <2> QED  BY <1>7, <2>4 DEF IsChunk
<1> DEFINE outcome == [ok |-> TRUE, data |-> Confirmed(e)]
<1>9. outcome \in Outcome
  <2>1. done'[e] \in Seq(Outcome) /\ done[e] \in Seq(Outcome)  BY <1>1 DEF TypeOK
  <2>2. Len(done'[e]) = Len(done[e]) + 1 /\ done'[e][Len(done[e]) + 1] = outcome
    BY <1>1, <2>1
  <2>3. Len(done[e]) + 1 \in 1 .. Len(done'[e])  BY <2>1, <2>2
  <2> QED  BY <2>1, <2>2, <2>3, ElementOfSeq
<1>10. outcome.data = Confirmed(e) /\ done'[e] = Append(done[e], outcome)  BY <1>1
<1> HIDE DEF outcome
<1>11. Intact(e)'  BY <1>1, <1>8, <1>9, <1>10, LongerIntact
<1> QED  BY <1>5, <1>6, <1>11 DEF Delivered

\* The transport moves a chunk out of e.
LEMMA SentDelivered ==
  ASSUME TypeOK, NEW e \in End, Apart(e), TransferStep(e), Delivered(e), Intact(e)
  PROVE  Delivered(e)' /\ Intact(e)'
<1> DEFINE s == Head(sends[e])
           fits == s.bytes <= Head(recvs[1-e]).bytes
           w == [id |-> s.id, bytes |-> 0, ok |-> fits]
<1>1. /\ sends[e] # << >> /\ OperationKept(e) /\ recvs'[e] = recvs[e]
      /\ cq'[e] = Append(cq[e], w) /\ s = sends[e][1] /\ s \in Request
      /\ recvBuf' = recvBuf \/ \E r, d : recvBuf' = [recvBuf EXCEPT ![1-e][r] = d]
  BY DEF TransferStep
<1>2. /\ setting' = setting /\ done'[e] = done[e] /\ next'[e] = next[e]
      /\ outstanding'[e] = outstanding[e] /\ polled'[e] = polled[e] /\ dst'[e] = dst[e]
  BY <1>1 DEF OperationKept
<1>3. /\ Running(e)' = Running(e) /\ TakesData(e)' = TakesData(e) /\ Number(e)' = Number(e)
      /\ Current(e)' = Current(e)
      /\ \A kind, c : slotWorkID(e, kind, c)' = slotWorkID(e, kind, c)
  BY <1>2, SameOperation
<1>4. First(e)' = First(e) /\ Moved(e, "recv")' = Moved(e, "recv") /\ Program' = Program
  BY <1>1, <1>2 DEF First, Moved, Posted, Program
<1>5. recvBuf'[e] = recvBuf[e]
  <2>1. 1 - e \in End /\ 1 - e # e  BY OtherEnd
  <2> QED  BY <1>1, <2>1 DEF TypeOK
<1>6. Takes(e)' = Takes(e)  BY <1>3 DEF Takes
<1>7. w \in Completion /\ w.id = sends[e][1].id
  <2>1. fits \in BOOLEAN  OBVIOUS
  <2> HIDE DEF fits
  <2> QED  BY <1>1, <2>1 DEF Request, Completion
<1>8. w.id[1] = "send"
  <2>1. "send" \in WorkKind /\ Posted(e, "send") = sends[e]  BY DEF WorkKind, Posted
  <2>2. 1 \in 1 .. Len(sends[e])  BY <1>1 DEF TypeOK
  <2>3. Place(sends[e][1]) = <<"send", sends[e][1].slot>>  BY <2>1, <2>2 DEF Apart
  <2> QED  BY <1>7, <2>3 DEF Place
<1> HIDE DEF w
<1>9. /\ Len(Landed(e)') = Len(Landed(e)) + 1 /\ Len(Landed(e)) \in Nat
      /\ \A i \in 1 .. Len(Landed(e)) : Landed(e)'[i] = Landed(e)[i]
      /\ Landed(e)'[Len(Landed(e)) + 1] = w
  BY <1>1, <1>2, <1>7, CarriedLanded
<1>10. ASSUME Arrived(e), NEW i \in 1 .. Len(Landed(e)'),
              NEW c \in First(e) .. Moved(e, "recv") - 1,
              Landed(e)'[i].id = slotWorkID(e, "recv", c), Landed(e)'[i].ok
       PROVE  /\ recvBuf[e][slotOf(c)] = <<1 - e, Number(e), c>>
              /\ Landed(e)'[i].bytes = opChunkLen(Program[1-e][Number(e)], c)
  <2>1. i # Len(Landed(e)) + 1
    <3>1. slotWorkID(e, "recv", c)[1] = "recv"  BY DEF slotWorkID
    <3> QED  BY <1>8, <1>9, <1>10, <3>1
  <2>2. i \in 1 .. Len(Landed(e))  BY <1>9, <2>1
  <2> QED  BY <1>9, <1>10, <2>2 DEF Arrived
<1>11. Arrived(e) => Arrived(e)'  BY <1>3, <1>4, <1>5, <1>10 DEF Arrived
<1>12. Taken(e)' = Taken(e)  BY <1>2, <1>3, <1>4 DEF Taken, IsChunk
<1>13. Intact(e)' = Intact(e)  BY <1>2, <1>4 DEF Intact
<1> QED  BY <1>6, <1>11, <1>12, <1>13 DEF Delivered

\* The transport moves a chunk into f.
LEMMA ReceivedDelivered ==
  ASSUME ~Retry, FlowInv, NEW e \in End, TransferStep(e),
         NEW f \in End, f = 1 - e, Delivered(f), Intact(f)
  PROVE  Delivered(f)' /\ Intact(f)'
<1> DEFINE s == Head(sends[e])
           r == Head(recvs[1-e])
           fits == s.bytes <= r.bytes
           w == [id |-> r.id, bytes |-> s.bytes, ok |-> fits]
<1>1. /\ sends[e] # << >> /\ recvs[f] # << >> /\ OperationKept(f)
      /\ cq'[f] = Append(cq[f], w)
      /\ s = sends[e][1] /\ r = recvs[f][1] /\ s \in Request /\ r \in Request
      /\ recvBuf' = IF fits THEN [recvBuf EXCEPT ![f][r.slot] = sendBuf[e][s.slot]]
                            ELSE recvBuf
  BY DEF TransferStep
<1>2. /\ setting' = setting /\ done'[f] = done[f] /\ next'[f] = next[f]
      /\ outstanding'[f] = outstanding[f] /\ polled'[f] = polled[f] /\ dst'[f] = dst[f]
  BY <1>1 DEF OperationKept
<1>3. /\ Running(f)' = Running(f) /\ TakesData(f)' = TakesData(f) /\ Number(f)' = Number(f)
      /\ Current(f)' = Current(f) /\ Okay(f)' = Okay(f)
      /\ \A kind, c : slotWorkID(f, kind, c)' = slotWorkID(f, kind, c)
  BY <1>2, SameOperation
<1>4. First(f)' = First(f) /\ Program' = Program  BY <1>2 DEF First, Program
<1>5. Takes(f)' = Takes(f)  BY <1>3 DEF Takes
<1>6. Intact(f)' = Intact(f)  BY <1>2, <1>4 DEF Intact
<1>7. Taken(f)' = Taken(f)  BY <1>2, <1>3, <1>4 DEF Taken, IsChunk
<1>8. /\ TypeOK /\ InWindow(f) /\ Work(f) /\ Apart(f) /\ Staged(e)
  BY DEF FlowInv, SlotInv
<1>9. w \in Completion /\ w.id = r.id /\ w.ok = fits /\ w.bytes = s.bytes /\ fits \in BOOLEAN
  <2>1. fits \in BOOLEAN  OBVIOUS
  <2> HIDE DEF fits
  <2> QED  BY <1>1, <2>1 DEF Request, Completion
<1> HIDE DEF w
<1>10. /\ Len(Landed(f)') = Len(Landed(f)) + 1 /\ Len(Landed(f)) \in Nat
       /\ \A i \in 1 .. Len(Landed(f)) : Landed(f)'[i] = Landed(f)[i]
       /\ Landed(f)'[Len(Landed(f)) + 1] = w
  BY <1>1, <1>2, <1>8, <1>9, CarriedLanded
<1>11. ASSUME Takes(f)  PROVE Arrived(f)'
  <2> DEFINE m == Moved(f, "recv")
  <2>1. Running(f) /\ Okay(f) /\ TakesData(f) /\ "recv" \in WorkKind /\ Uses(f, "recv")
    BY <1>11, RunningIsOkay DEF Takes, WorkKind, Uses
  <2>2. /\ InPlay(e) = Number(f) /\ Base(e) = m
        /\ m \in Nat /\ First(f) <= m /\ First(f) \in Nat
    BY <1>1, <2>1, Matched
  <2>3. Moved(f, "recv")' = m + 1
    <3>1. PICK v \in Completion : CarriedAt(f, "recv", v)  BY <1>8, TransferCarries
    <3> QED  BY <1>8, <2>1, <3>1, CarriedSlots
  <2>4. m < First(f) + Depth
    <3>1. /\ m + Len(recvs[f]) = next[f] /\ next[f] - First(f) = Len(outstanding[f])
          /\ Len(outstanding[f]) <= Window(f) /\ Window(f) \in 1 .. Depth
          /\ next[f] \in Nat /\ Len(outstanding[f]) \in Nat
      BY <1>8, <2>1, WindowBounds DEF Posted
    <3>2. Len(recvs[f]) \in Nat \ {0}  BY <1>1, <1>8 DEF TypeOK
    <3> QED  BY <2>2, <3>1, <3>2, WireAssumption
  <2>5. r.id = slotWorkID(f, "recv", m) /\ r.slot = slotOf(m)
    <3>1. 1 \in 1 .. Len(recvs[f])  BY <1>1, <1>8 DEF TypeOK
    <3>2. Posted(f, "recv")[1] = request(f, "recv", m + 1 - 1)
      <4>1. Posted(f, "recv") = recvs[f]  BY DEF Posted
      <4>2. InOrder(f, "recv")  BY <1>8, <2>1 DEF Work
      <4> QED  BY <2>1, <3>1, <4>1, <4>2 DEF InOrder
    <3>3. m + 1 - 1 = m  BY <2>2
    <3> QED  BY <1>1, <3>2, <3>3 DEF Posted, request
  <2>6. /\ sendBuf[e][s.slot] = <<e, Number(f), m>>
        /\ s.bytes = opChunkLen(Program[e][Number(f)], m)
    <3>1. 1 \in 1 .. Len(sends[e])  BY <1>1, <1>8 DEF TypeOK
    <3>2. m + 1 - 1 = m  BY <2>2
    <3> QED  BY <1>1, <1>8, <2>2, <3>1, <3>2 DEF Staged
  <2>7. e = 1 - f  BY OtherEnd
  <2>8. ASSUME NEW c \in First(f) .. m, slotOf(c) = slotOf(m)  PROVE c = m
    <3>1. c \in Nat /\ First(f) <= c /\ c < First(f) + Depth
      BY <2>2, <2>4, WireAssumption
    <3> QED  BY <2>2, <2>4, <2>8, <3>1, SlotsApart
  <2> HIDE DEF m, fits, s, r
  <2>9. ASSUME NEW i \in 1 .. Len(Landed(f)'),
               NEW c \in First(f)' .. Moved(f, "recv")' - 1,
               Landed(f)'[i].id = slotWorkID(f, "recv", c), Landed(f)'[i].ok
        PROVE  /\ recvBuf'[f][slotOf(c)] = <<1 - f, Number(f), c>>
               /\ Landed(f)'[i].bytes = opChunkLen(Program[1-f][Number(f)], c)
    <3>1. c \in First(f) .. m /\ c \in Nat  BY <1>4, <2>2, <2>3
    <3>2. slotOf(c) \in Slot /\ slotOf(m) \in Slot  BY <2>2, <3>1, SlotsInRange
    <3>3. CASE i = Len(Landed(f)) + 1
      <4>1. slotWorkID(f, "recv", c) = slotWorkID(f, "recv", m) /\ fits
        BY <1>9, <1>10, <2>5, <2>9, <3>3
      <4>2. slotOf(c) = slotOf(m)
        BY <2>1, <2>2, <3>1, <4>1, WorkIDType
      <4>3. c = m  BY <2>8, <3>1, <4>2
      <4>4. recvBuf'[f][slotOf(m)] = sendBuf[e][s.slot]
        BY <1>1, <1>8, <2>5, <3>2, <4>1 DEF TypeOK
      <4> QED  BY <1>9, <1>10, <2>6, <2>7, <3>3, <4>3, <4>4
    <3>4. CASE i # Len(Landed(f)) + 1
      <4>1. i \in 1 .. Len(Landed(f))  BY <1>10, <3>4
      <4>2. /\ Landed(f)'[i] = Landed(f)[i]
            /\ Landed(f)[i].id = slotWorkID(f, "recv", c) /\ Landed(f)[i].ok
        BY <1>10, <2>9, <4>1
      <4>3. slotOf(c) # slotOf(m)
        <5>1. Place(Landed(f)[i]) = <<"recv", slotOf(c)>>
          BY <2>1, <3>1, <4>2, WorkIDType DEF Place
        <5>2. 1 \in 1 .. Len(recvs[f])  BY <1>1, <1>8 DEF TypeOK
        <5>3. Posted(f, "recv") = recvs[f]  BY DEF Posted
        <5>4. Place(recvs[f][1]) # Place(Landed(f)[i])
          BY <1>8, <2>1, <4>1, <5>2, <5>3 DEF Apart
        <5>5. Place(recvs[f][1]) = <<"recv", slotOf(m)>>
          <6>1. Place(recvs[f][1]) = <<"recv", recvs[f][1].slot>>
            BY <1>8, <2>1, <5>2, <5>3 DEF Apart
          <6>2. recvs[f][1].slot = slotOf(m)  BY <1>1, <2>5
          <6> QED  BY <6>1, <6>2
        <5> QED  BY <5>1, <5>4, <5>5
      <4>4. c # m  BY <4>3
      <4>5. c \in First(f) .. m - 1  BY <2>2, <3>1, <4>4
      <4>6. recvBuf'[f][slotOf(c)] = recvBuf[f][slotOf(c)]
        <5>1. CASE fits  BY <1>1, <1>8, <2>5, <3>2, <4>3, <5>1 DEF TypeOK
        <5>2. CASE ~fits  BY <1>1, <5>2
        <5> QED  BY <5>1, <5>2
      <4>7. Arrived(f)  BY <1>11 DEF Delivered
      <4> QED  BY <4>1, <4>2, <4>5, <4>6, <4>7 DEF Arrived, m
    <3> QED  BY <3>3, <3>4
  <2> QED  BY <1>3, <1>4, <2>9 DEF Arrived
<1> QED  BY <1>5, <1>6, <1>7, <1>11 DEF Delivered

LEMMA DataStep ==
  ASSUME ~Retry, DataInv, \A s \in Settings : Paired(s), NEW e \in End, StepOf(e)
  PROVE  DataInv'
<1>1. FlowInv /\ SlotInv /\ TypeOK  BY DEF DataInv, FlowInv, SlotInv
<1>2. FlowInv'  BY <1>1, FlowStep
<1>3. ASSUME NEW g \in End  PROVE Delivered(g)' /\ Intact(g)'
  <2>1. g = e \/ g = 1 - e  BY OtherEnd
  <2>2. 1 - e \in End /\ 1 - e # e  BY OtherEnd
  <2>3. \A h \in End : Delivered(h) /\ Intact(h)  BY IntactEnds DEF DataInv
  <2>4. InWindow(e) /\ Work(e) /\ Apart(e)  BY <1>1 DEF SlotInv
  <2>5. ASSUME Kept(1-e), recvBuf' = recvBuf
        PROVE  Delivered(1-e)' /\ Intact(1-e)'
    BY <2>2, <2>3, <2>5, KeptDelivered
  <2>6. CASE Stage(e)
    <3>1. Kept(1-e) /\ recvBuf' = recvBuf  BY <1>1, <2>2, <2>6, StageEffect
    <3>2. Delivered(e)' /\ Intact(e)'  BY <1>1, <2>3, <2>4, <2>6, StageDelivered
    <3> QED  BY <2>1, <2>5, <3>1, <3>2
  <2>7. CASE PolledStep(e)
    <3>1. Kept(1-e) /\ recvBuf' = recvBuf  BY <2>2, <2>7 DEF PolledStep
    <3>2. Delivered(e)' /\ Intact(e)'  BY <1>1, <2>3, <2>4, <2>7, PolledDelivered
    <3> QED  BY <2>1, <2>5, <3>1, <3>2
  <2>8. CASE FailedStep(e)
    <3>1. Kept(1-e) /\ recvBuf' = recvBuf  BY <2>2, <2>8 DEF FailedStep
    <3>2. Delivered(e)' /\ Intact(e)'  BY <1>1, <2>3, <2>4, <2>8, FailedDelivered
    <3> QED  BY <2>1, <2>5, <3>1, <3>2
  <2>9. CASE FinishedStep(e)
    <3>1. Kept(1-e) /\ recvBuf' = recvBuf
      BY <2>2, <2>9 DEF FinishedStep, ConfirmedStep, transport
    <3>2. Delivered(e)' /\ Intact(e)'  BY <1>1, <2>3, <2>4, <2>9, FinishedDelivered
    <3> QED  BY <2>1, <2>5, <3>1, <3>2
  <2>10. CASE AdvancedStep(e)
    <3>1. Kept(1-e) /\ recvBuf' = recvBuf
      BY <2>2, <2>10 DEF AdvancedStep, ConfirmedStep, transport
    <3>2. Delivered(e)' /\ Intact(e)'  BY <1>1, <2>3, <2>4, <2>10, AdvancedDelivered
    <3> QED  BY <2>1, <2>5, <3>1, <3>2
  <2>11. CASE TransferStep(e)
    <3>1. Delivered(e)' /\ Intact(e)'  BY <1>1, <2>3, <2>4, <2>11, SentDelivered
    <3>2. ASSUME g = 1 - e  PROVE Delivered(g)' /\ Intact(g)'
      BY <1>1, <2>3, <2>11, <3>2, ReceivedDelivered
    <3> QED  BY <2>1, <3>1, <3>2
  <2> QED  BY <2>6, <2>7, <2>8, <2>9, <2>10, <2>11 DEF StepOf
<1>4. DataIntact'
  <2>1. \A g \in End : Intact(g)'  BY <1>3
  <2> QED  BY <2>1 DEF DataIntact, Intact
<1> QED  BY <1>2, <1>3, <1>4 DEF DataInv

LEMMA InitData ==
  ASSUME Init
  PROVE  DataInv
<1>1. FlowInv  BY InitFlow
<1>2. ASSUME NEW e \in End  PROVE Delivered(e) /\ Intact(e)
  <2>1. /\ done[e] = << >> /\ next[e] = 0 /\ outstanding[e] = << >> /\ polled[e] = << >>
        /\ dst[e] = << >> /\ cq[e] = << >>
    BY DEF Init
  <2>2. Len(done[e]) = 0 /\ Len(outstanding[e]) = 0 /\ Len(polled[e]) = 0 /\ Len(dst[e]) = 0
    BY <2>1
  <2>3. Landed(e) = << >>
    <3>1. Landed(e) = << >> \o << >>  BY <2>1 DEF Landed
    <3> QED  BY <3>1
  <2>4. First(e) = 0
    <3>1. First(e) = next[e] - Len(outstanding[e])  BY DEF First
    <3> QED  BY <2>1, <2>2, <3>1
  <2>5. Arrived(e)
    <3>1. Len(Landed(e)) = 0  BY <2>3
    <3> QED  BY <3>1 DEF Arrived
  <2>6. Taken(e)  BY <2>2, <2>4 DEF Taken
  <2>7. Intact(e)  BY <2>2 DEF Intact
  <2> QED  BY <2>5, <2>6, <2>7 DEF Delivered
<1> QED  BY <1>1, <1>2, IntactEnds DEF DataInv

LEMMA KeptData ==
  ASSUME DataInv, UNCHANGED vars
  PROVE  DataInv'
<1>1. /\ setting' = setting /\ done' = done /\ next' = next /\ outstanding' = outstanding
      /\ polled' = polled /\ dst' = dst /\ sends' = sends /\ recvs' = recvs /\ cq' = cq
      /\ sendBuf' = sendBuf /\ recvBuf' = recvBuf
  BY DEF vars
<1>2. FlowInv /\ SlotInv  BY DEF DataInv, FlowInv
<1>3. SlotInv'  BY <1>2, KeptInvariants
<1>4. ASSUME NEW e \in End  PROVE SenderKept(e) /\ ReceiverKept(e) /\ Kept(e)
  BY <1>1 DEF SenderKept, ReceiverKept, Kept, OperationKept, RequestsKept
<1>5. ASSUME NEW e \in End  PROVE Staged(e)' /\ Aligned(e)'
  <2>1. 1 - e \in End  BY OtherEnd
  <2> QED  BY <1>2, <1>4, <2>1, SenderSame, KeptAligned DEF FlowInv
<1>6. ASSUME NEW e \in End  PROVE Delivered(e)' /\ Intact(e)'
  BY <1>1, <1>4, IntactEnds, KeptDelivered DEF DataInv
<1>7. DataIntact'
  <2>1. \A g \in End : Intact(g)'  BY <1>6
  <2> QED  BY <2>1 DEF DataIntact, Intact
<1> QED  BY <1>3, <1>5, <1>6, <1>7 DEF DataInv, FlowInv

THEOREM DataInvariance ==
  ASSUME ~Retry, \A s \in Settings : Paired(s)
  PROVE  Spec => []DataInv
<1>1. Init => DataInv  BY InitData
<1>2. DataInv /\ [Next]_vars => DataInv'
  <2>1. ASSUME DataInv, Next  PROVE DataInv'
    <3>1. WindowInv  BY <2>1 DEF DataInv, FlowInv, SlotInv, WindowInv
    <3>2. PICK e \in End : StepOf(e)  BY <2>1, <3>1, Steps
    <3> QED  BY <2>1, <3>2, DataStep
  <2> QED  BY <2>1, KeptData
<1> QED  BY <1>1, <1>2, PTL DEF Spec

(* What an operation that succeeded has received is, chunk by chunk and in    *)
(* its length, what the operation of its peer sent.                           *)
THEOREM DeliveredDataIsIntact ==
  ASSUME ~Retry, \A s \in Settings : Paired(s)
  PROVE  Spec => []DataIntact
<1>1. DataInv => DataIntact  BY DEF DataInv
<1> QED  BY <1>1, DataInvariance, PTL

-----------------------------------------------------------------------------
(* Healthy operations.                                                      *)

LEMMA SameLengths ==
  ASSUME TypeOK, Healthy, \A s \in Settings : Paired(s), NEW e \in End,
         NEW k \in 1 .. Len(Program[e]), NEW c
  PROVE  opChunkLen(Program[e][k], c) = opChunkLen(Program[1-e][k], c)
<1>1. k \in 1 .. Len(Program[0])
  <2>1. 1 - 1 = 0 /\ 1 \in End  BY DEF End
  <2>2. CASE e = 0  BY <2>2
  <2>3. CASE e = 1  BY <2>1, <2>3, Pairing
  <2> QED  BY <2>2, <2>3 DEF End
<1>2. /\ Program[0][k].chunks = Program[1][k].chunks
      /\ Program[0][k].tail = Program[1][k].tail
  BY <1>1 DEF Healthy, Matching
<1>3. opChunkLen(Program[0][k], c) = opChunkLen(Program[1][k], c)  BY <1>2 DEF opChunkLen
<1>4. (e = 0 /\ 1 - e = 1) \/ (e = 1 /\ 1 - e = 0)  BY DEF End
<1> QED  BY <1>3, <1>4

LEMMA Counted ==
  ASSUME TypeOK, NEW e \in End, Running(e)
  PROVE  /\ Current(e).kind = "exchange" => Count(e) = 2 /\ Window(e) = 1
         /\ Current(e).kind # "exchange" =>
              /\ Count(e) = 1 /\ Current(e).kind \in WorkKind
              /\ \A kind \in WorkKind : Uses(e, kind) <=> kind = Current(e).kind
<1>1. Current(e).kind \in Kind  BY InOperation
<1>2. CASE Current(e).kind = "exchange"
  BY <1>2 DEF Count, TakesData, SendsData, Window
<1>3. CASE Current(e).kind = "send"
  BY <1>3 DEF Count, TakesData, SendsData, Uses, WorkKind
<1>4. CASE Current(e).kind = "recv"
  BY <1>4 DEF Count, TakesData, SendsData, Uses, WorkKind
<1> QED  BY <1>1, <1>2, <1>3, <1>4 DEF Kind

\* An exchange has one chunk at a time.
LEMMA ExchangeLanded ==
  ASSUME TypeOK, NEW e \in End, InWindow(e), Work(e), Apart(e), Running(e),
         Current(e).kind = "exchange"
  PROVE  /\ Len(Landed(e)) <= 2
         /\ \A i \in 1 .. Len(Landed(e)) : \E kind \in WorkKind :
              /\ Uses(e, kind) /\ First(e) < Moved(e, kind)
              /\ Landed(e)[i].id = slotWorkID(e, kind, First(e))
              /\ Place(Landed(e)[i]) = <<kind, slotOf(First(e))>>
<1>1. ASSUME NEW i \in 1 .. Len(Landed(e))
      PROVE  \E kind \in WorkKind :
               /\ Uses(e, kind) /\ First(e) < Moved(e, kind)
               /\ Landed(e)[i].id = slotWorkID(e, kind, First(e))
               /\ Place(Landed(e)[i]) = <<kind, slotOf(First(e))>>
  <2>1. PICK kind \in WorkKind, c \in Nat :
          /\ Uses(e, kind) /\ First(e) <= c /\ c < Moved(e, kind)
          /\ Landed(e)[i].id = slotWorkID(e, kind, c)
          /\ Place(Landed(e)[i]) = <<kind, slotOf(c)>>
    BY LandedFound
  <2>2. /\ First(e) \in Nat /\ next[e] \in Nat /\ next[e] - First(e) <= 1
        /\ Moved(e, kind) \in Int /\ Moved(e, kind) <= next[e]
    <3>1. Window(e) = 1  BY Counted
    <3> QED  BY <3>1, WindowBounds
  <2>3. c = First(e)  BY <2>1, <2>2
  <2> QED  BY <2>1, <2>3
<1>2. Len(Landed(e)) \in Nat  BY LandedType
<1>3. ASSUME Len(Landed(e)) > 2  PROVE FALSE
  <2>1. 1 \in 1 .. Len(Landed(e)) /\ 2 \in 1 .. Len(Landed(e)) /\ 3 \in 1 .. Len(Landed(e))
    BY <1>2, <1>3
  <2>2. /\ Place(Landed(e)[1]) # Place(Landed(e)[2])
        /\ Place(Landed(e)[1]) # Place(Landed(e)[3])
        /\ Place(Landed(e)[2]) # Place(Landed(e)[3])
    BY <2>1 DEF Apart
  <2>3. /\ \E kind \in WorkKind : Place(Landed(e)[1]) = <<kind, slotOf(First(e))>>
        /\ \E kind \in WorkKind : Place(Landed(e)[2]) = <<kind, slotOf(First(e))>>
        /\ \E kind \in WorkKind : Place(Landed(e)[3]) = <<kind, slotOf(First(e))>>
    BY <1>1, <2>1
  <2> QED  BY <2>2, <2>3 DEF WorkKind
<1> QED  BY <1>1, <1>2, <1>3

\* What was polled belongs to the oldest chunk.
LEMMA PolledOldest ==
  ASSUME TypeOK, NEW e \in End, InWindow(e), Work(e), Apart(e), InTurn(e), Running(e),
         NEW i \in 1 .. Len(polled[e])
  PROVE  \E kind \in WorkKind :
           /\ Uses(e, kind) /\ First(e) < Moved(e, kind)
           /\ polled[e][i].id = slotWorkID(e, kind, First(e))
<1>1. /\ i \in 1 .. Len(Landed(e)) /\ Landed(e)[i] = polled[e][i]
      /\ Len(Landed(e)) \in Nat /\ Len(polled[e]) \in Nat
  <2>1. /\ Len(polled[e]) \in Nat /\ Len(cq[e]) \in Nat /\ Len(Landed(e)) \in Nat
        /\ Len(Landed(e)) = Len(polled[e]) + Len(cq[e])
        /\ Landed(e)[i] = polled[e][i]
    BY LandedType
  <2> QED  BY <2>1, EarlierIndex
<1>2. CASE Current(e).kind = "exchange"  BY <1>1, <1>2, ExchangeLanded
<1>3. CASE Current(e).kind # "exchange"
  <2> DEFINE kind == Current(e).kind
  <2>1. kind \in WorkKind /\ Uses(e, kind) /\ Count(e) = 1  BY <1>3, Counted
  <2>2. i = 1  BY <1>1, <2>1 DEF InTurn
  <2>3. /\ Len(Landed(e)) = Moved(e, kind) - First(e)
        /\ Landed(e)[1].id = slotWorkID(e, kind, First(e) + 1 - 1)
    BY <1>1, <1>3, <2>2 DEF InTurn
  <2>4. First(e) \in Nat /\ Moved(e, kind) \in Int  BY <2>1, WindowBounds
  <2>5. First(e) < Moved(e, kind) /\ First(e) + 1 - 1 = First(e)
    BY <1>1, <2>2, <2>3, <2>4
  <2> QED  BY <1>1, <2>1, <2>2, <2>3, <2>5
<1> QED  BY <1>2, <1>3

\* The completions that a healthy operation waits for match what it wants.
LEMMA HealthyMatches ==
  ASSUME TypeOK, Healthy, \A s \in Settings : Paired(s), NEW e \in End,
         InWindow(e), Work(e), Apart(e), Delivered(e), InTurn(e),
         Confirming(e), Len(polled[e]) >= Count(e)
  PROVE  Matches(polled[e], Wanted(e))
<1>1. Running(e) /\ First(e) \in Nat /\ Head(outstanding[e]) = First(e)  BY Confirmable
<1>2. /\ Len(polled[e]) \in Nat
      /\ Len(polled[e]) = Count(e)
  BY <1>1, LandedType DEF InTurn, Count
<1>3. ASSUME NEW kind \in WorkKind, Uses(e, kind)
      PROVE [id |-> slotWorkID(e, kind, First(e)), bytes |-> chunkLen(e, First(e))] \in Wanted(e)
  BY <1>1, <1>3 DEF Wanted, Uses, WorkKind
<1>4. ASSUME NEW w \in Wanted(e)
      PROVE \E kind \in WorkKind :
              /\ Uses(e, kind)
              /\ w = [id |-> slotWorkID(e, kind, First(e)), bytes |-> chunkLen(e, First(e))]
  <2>1. CASE /\ TakesData(e)
             /\ w = [id |-> slotWorkID(e, "recv", First(e)), bytes |-> chunkLen(e, First(e))]
    <3>1. "recv" \in WorkKind /\ Uses(e, "recv")  BY <2>1 DEF Uses, WorkKind
    <3> QED  BY <2>1, <3>1
  <2>2. CASE /\ SendsData(e)
             /\ w = [id |-> slotWorkID(e, "send", First(e)), bytes |-> chunkLen(e, First(e))]
    <3>1. "send" \in WorkKind /\ Uses(e, "send")  BY <2>2 DEF Uses, WorkKind
    <3> QED  BY <2>2, <3>1
  <2> QED  BY <1>1, <2>1, <2>2 DEF Wanted
<1>5. ASSUME NEW i \in 1 .. Len(polled[e])
      PROVE  \E w \in Wanted(e) : /\ w.id = polled[e][i].id
                                  /\ w.id[1] = "recv" => w.bytes = polled[e][i].bytes
  <2>1. PICK kind \in WorkKind :
          /\ Uses(e, kind) /\ First(e) < Moved(e, kind)
          /\ polled[e][i].id = slotWorkID(e, kind, First(e))
    BY <1>1, PolledOldest
  <2> DEFINE w == [id |-> slotWorkID(e, kind, First(e)), bytes |-> chunkLen(e, First(e))]
  <2>2. w \in Wanted(e) /\ w.id = polled[e][i].id  BY <1>3, <2>1
  <2>3. ASSUME w.id[1] = "recv"  PROVE w.bytes = polled[e][i].bytes
    <3>1. kind = "recv"  BY <1>1, <2>1, <2>3, WorkIDType
    <3>2. Takes(e)  BY <1>1, <2>1, <3>1 DEF Uses, Takes
    <3>3. Arrived(e) /\ Taken(e)  BY <3>2 DEF Delivered
    <3>4. i \in 1 .. Len(Landed(e)) /\ Landed(e)[i] = polled[e][i]
      <4>1. /\ Len(polled[e]) \in Nat /\ Len(cq[e]) \in Nat /\ Len(Landed(e)) \in Nat
            /\ Len(Landed(e)) = Len(polled[e]) + Len(cq[e])
            /\ Landed(e)[i] = polled[e][i]
        BY LandedType
      <4> QED  BY <4>1, EarlierIndex
    <3>5. First(e) \in First(e) .. Moved(e, "recv") - 1
      <4>1. Moved(e, "recv") \in Int  BY <1>1, <2>1, <3>1, WindowBounds
      <4> QED  BY <1>1, <2>1, <3>1, <4>1
    <3>6. polled[e][i].bytes = opChunkLen(Program[1-e][Number(e)], First(e))
      BY <2>1, <3>1, <3>3, <3>4, <3>5 DEF Arrived, Taken
    <3>7. Number(e) \in 1 .. Len(Program[e]) /\ Current(e) = Program[e][Number(e)]
      BY <1>1, InOperation, KindUses
    <3>8. opChunkLen(Program[e][Number(e)], First(e))
            = opChunkLen(Program[1-e][Number(e)], First(e))
      BY <3>7, SameLengths
    <3> QED  BY <3>6, <3>7, <3>8 DEF chunkLen
  <2> QED  BY <2>2, <2>3
<1>6. ASSUME NEW i \in 1 .. Len(polled[e]), NEW j \in 1 .. Len(polled[e]), i # j
      PROVE  polled[e][i].id # polled[e][j].id
  <2>1. /\ Len(polled[e]) \in Nat /\ Len(cq[e]) \in Nat /\ Len(Landed(e)) \in Nat
        /\ Len(Landed(e)) = Len(polled[e]) + Len(cq[e])
        /\ Landed(e)[i] = polled[e][i] /\ Landed(e)[j] = polled[e][j]
    BY LandedType
  <2>2. i \in 1 .. Len(Landed(e)) /\ j \in 1 .. Len(Landed(e))  BY <2>1, EarlierIndex
  <2>3. Place(polled[e][i]) # Place(polled[e][j])  BY <1>6, <2>1, <2>2 DEF Apart
  <2> QED  BY <2>3 DEF Place
<1>7. ASSUME NEW w \in Wanted(e)  PROVE \E i \in 1 .. Len(polled[e]) : w.id = polled[e][i].id
  <2>1. PICK kind \in WorkKind :
          /\ Uses(e, kind)
          /\ w = [id |-> slotWorkID(e, kind, First(e)), bytes |-> chunkLen(e, First(e))]
    BY <1>4
  <2>2. CASE Current(e).kind = "exchange"
    <3>1. Len(polled[e]) = 2  BY <1>1, <1>2, <2>2, Counted
    <3>2. 1 \in 1 .. Len(polled[e]) /\ 2 \in 1 .. Len(polled[e])  BY <3>1
    <3>3. PICK k1 \in WorkKind : polled[e][1].id = slotWorkID(e, k1, First(e))
      BY <1>1, <3>2, PolledOldest
    <3>4. PICK k2 \in WorkKind : polled[e][2].id = slotWorkID(e, k2, First(e))
      BY <1>1, <3>2, PolledOldest
    <3>5. k1 # k2  BY <1>6, <3>2, <3>3, <3>4
    <3>6. kind = k1 \/ kind = k2  BY <3>5 DEF WorkKind
    <3> QED  BY <2>1, <3>2, <3>3, <3>4, <3>6
  <2>3. CASE Current(e).kind # "exchange"
    <3>1. Len(polled[e]) = 1  BY <1>1, <1>2, <2>3, Counted
    <3>2. 1 \in 1 .. Len(polled[e])  BY <3>1
    <3>3. PICK k1 \in WorkKind : Uses(e, k1) /\ polled[e][1].id = slotWorkID(e, k1, First(e))
      BY <1>1, <3>2, PolledOldest
    <3>4. k1 = kind  BY <1>1, <2>1, <2>3, <3>3, Counted
    <3> QED  BY <2>1, <3>2, <3>3, <3>4
  <2> QED  BY <2>2, <2>3
<1> QED  BY <1>5, <1>6, <1>7 DEF Matches

LEMMA HealthyPoll ==
  ASSUME TypeOK, NEW e \in End, Poll(e), \A i \in 1 .. Len(Landed(e)) : Landed(e)[i].ok
  PROVE  PolledStep(e)
<1> DEFINE n == Min({Len(cq[e]), setting.batch})
<1>1. setting.batch \in Nat \ {0}  BY WireAssumption DEF TypeOK, Setting
<1>2. cq[e] \in Seq(Completion) /\ Len(cq[e]) \in Nat /\ Len(cq[e]) # 0
  BY DEF Poll, TypeOK
<1>3. n \in 1 .. Len(cq[e])  BY <1>1, <1>2, PolledIsPrefix
<1>4. \A i \in 1 .. n : SubSeq(cq[e], 1, n)[i] = cq[e][i]  BY <1>2, <1>3
<1>5. ASSUME NEW i \in 1 .. Len(cq[e])  PROVE cq[e][i].ok
  <2>1. /\ Len(polled[e]) \in Nat /\ Len(cq[e]) \in Nat /\ Len(Landed(e)) \in Nat
        /\ Len(Landed(e)) = Len(polled[e]) + Len(cq[e])
        /\ Landed(e)[Len(polled[e]) + i] = cq[e][i]
    BY LandedType
  <2>2. Len(polled[e]) + i \in 1 .. Len(Landed(e))  BY <2>1, LaterIndex
  <2> QED  BY <2>1, <2>2
<1>6. \A i \in 1 .. n : SubSeq(cq[e], 1, n)[i].ok  BY <1>3, <1>4, <1>5
<1>7. done' = done  BY <1>6 DEF Poll
<1>8. ~FailedStep(e)
  <2>1. done[e] \in Seq(Outcome)  BY DEF TypeOK
  <2>2. done[e] # Append(done[e], [ok |-> FALSE, data |-> << >>])
    <3>1. Len(Append(done[e], [ok |-> FALSE, data |-> << >>])) = Len(done[e]) + 1  BY <2>1
    <3>2. Len(done[e]) # Len(done[e]) + 1
      <4>1. Len(done[e]) \in Nat  BY <2>1
      <4> QED  BY <4>1
    <3> QED  BY <3>1, <3>2
  <2> QED  BY <1>7, <2>2 DEF FailedStep
<1> QED  BY <1>8, PollEffect

LEMMA HealthyConfirm ==
  ASSUME TypeOK, NEW e \in End, InWindow(e), Confirm(e), Matches(polled[e], Wanted(e))
  PROVE  FinishedStep(e) \/ AdvancedStep(e)
<1>1. done[e] \in Seq(Outcome) /\ Len(done[e]) \in Nat  BY DEF TypeOK
<1>2. done' = done \/ \E d : done'[e] = Append(done[e], [ok |-> TRUE, data |-> d])
  <2>1. CASE \E d : Finish(e, [ok |-> TRUE, data |-> d])
    <3>1. PICK d : Finish(e, [ok |-> TRUE, data |-> d])  BY <2>1
    <3>2. done'[e] = Append(done[e], [ok |-> TRUE, data |-> d])  BY <3>1 DEF Finish, TypeOK
    <3> QED  BY <3>2
  <2>2. CASE done' = done  BY <2>2
  <2> QED  BY <2>1, <2>2 DEF Confirm
<1>3. ASSUME FailedStep(e)  PROVE FALSE
  <2>1. done'[e] = Append(done[e], [ok |-> FALSE, data |-> << >>])  BY <1>3 DEF FailedStep
  <2>2. /\ Len(done'[e]) = Len(done[e]) + 1
        /\ done'[e][Len(done[e]) + 1] = [ok |-> FALSE, data |-> << >>]
    BY <1>1, <2>1
  <2>3. done' # done
    <3>1. Len(done'[e]) # Len(done[e])  BY <1>1, <2>2
    <3> QED  BY <3>1
  <2>4. PICK d : done'[e] = Append(done[e], [ok |-> TRUE, data |-> d])  BY <1>2, <2>3
  <2>5. done'[e][Len(done[e]) + 1] = [ok |-> TRUE, data |-> d]  BY <1>1, <2>4
  <2>6. [ok |-> TRUE, data |-> d].ok # [ok |-> FALSE, data |-> << >>].ok  OBVIOUS
  <2> QED  BY <2>2, <2>5, <2>6
<1> QED  BY <1>3, ConfirmEffect

\* So no step of a healthy run is a failure.
LEMMA HealthySteps ==
  ASSUME HealthInv, Healthy, \A s \in Settings : Paired(s), Next
  PROVE  \E e \in End :
           Stage(e) \/ PolledStep(e) \/ FinishedStep(e) \/ AdvancedStep(e) \/ TransferStep(e)
<1>1. PICK e \in End : OperationStep(e) \/ Expire(e) \/ Transfer(e)  BY DEF Next
<1>2. /\ TypeOK /\ InWindow(e) /\ Work(e) /\ Apart(e) /\ Delivered(e)
      /\ Okay(e) /\ InTurn(e) /\ \A i \in 1 .. Len(Landed(e)) : Landed(e)[i].ok
  BY DEF HealthInv, DataInv, FlowInv, SlotInv, Unharmed
<1>3. CASE Stage(e)  BY <1>3
<1>4. CASE Poll(e)  BY <1>2, <1>4, HealthyPoll
<1>5. CASE Confirm(e)
  <2>1. Confirming(e) /\ Len(polled[e]) >= Count(e)  BY <1>5 DEF Confirm
  <2>2. Matches(polled[e], Wanted(e))  BY <1>2, <2>1, HealthyMatches
  <2> QED  BY <1>2, <1>5, <2>2, HealthyConfirm
<1>6. ~Expire(e)  BY DEF Healthy, Expire
<1>7. CASE Transfer(e)  BY <1>2, <1>7, TransferEffect
<1> QED  BY <1>1, <1>3, <1>4, <1>5, <1>6, <1>7 DEF OperationStep

LEMMA KeptUnharmed ==
  ASSUME NEW e \in End, Kept(e), Unharmed(e)
  PROVE  Unharmed(e)'
<1>1. /\ setting' = setting /\ done'[e] = done[e] /\ next'[e] = next[e]
      /\ outstanding'[e] = outstanding[e] /\ polled'[e] = polled[e]
      /\ sends'[e] = sends[e] /\ recvs'[e] = recvs[e] /\ cq'[e] = cq[e]
  BY DEF Kept, OperationKept, RequestsKept
<1>2. /\ Running(e)' = Running(e) /\ Okay(e)' = Okay(e) /\ Current(e)' = Current(e)
      /\ Count(e)' = Count(e)
      /\ \A kind, c : slotWorkID(e, kind, c)' = slotWorkID(e, kind, c)
  BY <1>1, SameOperation
<1>3. /\ First(e)' = First(e) /\ Landed(e)' = Landed(e)
      /\ \A kind : Posted(e, kind)' = Posted(e, kind)
  BY <1>1 DEF First, Landed, Posted
<1>4. \A kind : Moved(e, kind)' = Moved(e, kind)  BY <1>1, <1>3 DEF Moved
<1> QED  BY <1>1, <1>2, <1>3, <1>4 DEF Unharmed, InTurn

LEMMA StageUnharmed ==
  ASSUME TypeOK, NEW e \in End, InWindow(e), Stage(e), Unharmed(e)
  PROVE  Unharmed(e)'
<1>1. /\ Running(e) /\ setting' = setting /\ done' = done /\ polled' = polled /\ cq' = cq
  BY StageEffect
<1>2. /\ Running(e)' = Running(e) /\ Okay(e)' = Okay(e) /\ Current(e)' = Current(e)
      /\ Count(e)' = Count(e)
      /\ \A kind, c : slotWorkID(e, kind, c)' = slotWorkID(e, kind, c)
  BY <1>1, SameOperation
<1>3. First(e)' = First(e)  BY StageWindow
<1>4. Landed(e)' = Landed(e)  BY <1>1 DEF Landed
<1>5. \A kind \in WorkKind : Uses(e, kind) => Moved(e, kind)' = Moved(e, kind)
  BY StageMoved
<1>6. Current(e).kind # "exchange" =>
        /\ Current(e).kind \in WorkKind /\ Uses(e, Current(e).kind)
  BY <1>1, Counted
<1> HIDE DEF Current
<1>7. Current(e).kind # "exchange" =>
        \A kind : kind = Current(e).kind => Moved(e, kind)' = Moved(e, kind)
  BY <1>5, <1>6
<1>8. InTurn(e)'  BY <1>1, <1>2, <1>3, <1>4, <1>7 DEF Unharmed, InTurn
<1> QED  BY <1>2, <1>4, <1>8 DEF Unharmed

\* A poll takes no completion of the next chunk.
LEMMA PolledUnharmed ==
  ASSUME TypeOK, \A s \in Settings : Measured(s), NEW e \in End,
         InWindow(e), Work(e), Apart(e), PolledStep(e), Unharmed(e)
  PROVE  Unharmed(e)'
<1>1. /\ TypeOK' /\ setting' = setting /\ done' = done /\ next' = next
      /\ outstanding' = outstanding /\ sends' = sends /\ recvs' = recvs
      /\ Running(e) /\ Len(polled[e]) < Count(e)
  BY DEF PolledStep, Confirming
<1>2. /\ Running(e)' = Running(e) /\ Okay(e)' = Okay(e) /\ Current(e)' = Current(e)
      /\ Count(e)' = Count(e)
      /\ \A kind, c : slotWorkID(e, kind, c)' = slotWorkID(e, kind, c)
  BY <1>1, SameOperation
<1>3. First(e)' = First(e) /\ \A kind : Moved(e, kind)' = Moved(e, kind)
  BY <1>1 DEF First, Moved, Posted
<1>4. Landed(e)' = Landed(e)  BY PolledSlots
<1>5. PICK n \in 1 .. Len(cq[e]) :
        /\ n <= setting.batch
        /\ polled'[e] = polled[e] \o SubSeq(cq[e], 1, n)
  BY DEF PolledStep
<1>6. /\ polled[e] \in Seq(Completion) /\ cq[e] \in Seq(Completion)
      /\ Len(polled[e]) \in Nat /\ Len(cq[e]) \in Nat /\ Len(Landed(e)) \in Nat
      /\ Len(Landed(e)) = Len(polled[e]) + Len(cq[e])
  BY LandedType
<1>7. Len(polled'[e]) = Len(polled[e]) + n /\ Len(polled'[e]) <= Len(Landed(e))
      /\ Len(polled'[e]) \in Nat
  <2>1. SubSeq(cq[e], 1, n) \in Seq(Completion) /\ Len(SubSeq(cq[e], 1, n)) = n
    BY <1>6
  <2>2. Len(polled'[e]) = Len(polled[e]) + n  BY <1>5, <1>6, <2>1, Concatenated
  <2>3. n \in Nat /\ n <= Len(cq[e])  BY <1>6
  <2> QED  BY <1>6, <2>2, <2>3
<1>8. Len(polled'[e]) <= Count(e)
  <2>1. Measured(setting)  BY DEF TypeOK
  <2>2. CASE setting.batch = 1
    <3>1. n = 1  BY <1>5, <1>6, <2>2
    <3>2. Count(e) \in Nat  BY DEF Count
    <3> QED  BY <1>1, <1>6, <1>7, <3>1, <3>2
  <2>3. CASE Current(e).kind = "exchange"
    <3>1. Count(e) = 2 /\ Len(Landed(e)) <= 2
      BY <1>1, <2>3, Counted, ExchangeLanded
    <3>2. \A a, b \in Nat : a <= b /\ b <= 2 => a <= 2  OBVIOUS
    <3> QED  BY <1>6, <1>7, <3>1, <3>2, Zenon
  <2>4. CASE Current(e).kind # "exchange" /\ Current(e).chunks = 1
    <3> DEFINE kind == Current(e).kind
    <3>1. Count(e) = 1 /\ kind \in WorkKind  BY <1>1, <2>4, Counted
    <3>2. Len(Landed(e)) = Moved(e, kind) - First(e)
      BY <1>1, <2>4 DEF Unharmed, InTurn
    <3>3. /\ Moved(e, kind) \in Int /\ Moved(e, kind) <= next[e] /\ next[e] \in Nat
          /\ First(e) \in Nat
      BY <1>1, <3>1, WindowBounds
    <3>4. next[e] <= 1  BY <1>1, <2>4 DEF InWindow
    <3> HIDE DEF kind
    <3>5. \A a, b, c, f \in Nat : \A m \in Int :
            a <= b /\ b = m - f /\ m <= c /\ c <= 1 => a <= 1
      OBVIOUS
    <3> QED  BY <1>6, <1>7, <3>1, <3>2, <3>3, <3>4, <3>5, Zenon
  <2>5. Current(e) = Program[e][Number(e)] /\ Number(e) \in 1 .. Len(Program[e])
    BY <1>1, InOperation, KindUses
  <2>6. setting.batch = 1 \/ Current(e).kind = "exchange" \/ Current(e).chunks = 1
    BY <2>1, <2>5 DEF Measured, Program
  <2> QED  BY <2>2, <2>3, <2>4, <2>6
<1>9. InTurn(e)'  BY <1>2, <1>3, <1>4, <1>8 DEF Unharmed, InTurn
<1> QED  BY <1>2, <1>4, <1>9 DEF Unharmed

LEMMA AdvancedUnharmed ==
  ASSUME TypeOK, NEW e \in End, InWindow(e), Work(e), Apart(e), AdvancedStep(e), Unharmed(e)
  PROVE  Unharmed(e)'
<1>1. /\ ConfirmedStep(e) /\ TypeOK' /\ setting' = setting /\ done' = done /\ next' = next
      /\ sends' = sends /\ recvs' = recvs /\ polled'[e] = << >>
      /\ Running(e) /\ Len(polled[e]) >= Count(e)
  BY DEF AdvancedStep, ConfirmedStep, Confirming, transport
<1>2. /\ Running(e)' = Running(e) /\ Okay(e)' = Okay(e) /\ Current(e)' = Current(e)
      /\ Count(e)' = Count(e)
      /\ \A kind, c : slotWorkID(e, kind, c)' = slotWorkID(e, kind, c)
  BY <1>1, SameOperation
<1>3. First(e)' = First(e) + 1 /\ First(e) \in Nat
  BY <1>1, AdvancedWindow, WindowBounds
<1>4. \A kind : Moved(e, kind)' = Moved(e, kind)  BY <1>1 DEF Moved, Posted
<1>5. /\ Len(Landed(e)') = Len(cq[e])
      /\ \A i \in 1 .. Len(cq[e]) : Landed(e)'[i] = cq[e][i]
  BY <1>1, ConfirmedApart
<1>6. /\ Len(polled[e]) \in Nat /\ Len(cq[e]) \in Nat /\ Len(Landed(e)) \in Nat
      /\ Len(Landed(e)) = Len(polled[e]) + Len(cq[e])
      /\ \A i \in 1 .. Len(cq[e]) : Landed(e)[Len(polled[e]) + i] = cq[e][i]
  BY LandedType
<1>7. ASSUME NEW i \in 1 .. Len(cq[e])
      PROVE  Len(polled[e]) + i \in 1 .. Len(Landed(e))
             /\ Landed(e)'[i] = Landed(e)[Len(polled[e]) + i]
  BY <1>5, <1>6, LaterIndex
<1>8. \A i \in 1 .. Len(Landed(e)') : Landed(e)'[i].ok
  BY <1>5, <1>7 DEF Unharmed
<1>9. Len(polled'[e]) <= Count(e)'
  <2>1. Len(polled'[e]) = 0  BY <1>1
  <2>2. Count(e) \in Nat  BY DEF Count
  <2> QED  BY <1>2, <2>1, <2>2
<1>10. ASSUME Current(e).kind # "exchange", NEW kind \in WorkKind, kind = Current(e).kind
       PROVE  /\ Len(Landed(e)') = Moved(e, kind) - First(e)'
              /\ \A i \in 1 .. Len(Landed(e)') :
                   Landed(e)'[i].id = slotWorkID(e, kind, First(e)' + i - 1)
  <2>1. /\ Len(Landed(e)) = Moved(e, kind) - First(e)
        /\ \A i \in 1 .. Len(Landed(e)) : Landed(e)[i].id = slotWorkID(e, kind, First(e) + i - 1)
    BY <1>1, <1>10 DEF Unharmed, InTurn
  <2>2. Moved(e, kind) \in Int  BY <1>1, WindowBounds
  <2>3. Len(polled[e]) = 1
    <3>1. Count(e) = 1  BY <1>1, <1>10, Counted
    <3>2. Len(polled[e]) <= Count(e)  BY <1>1 DEF Unharmed, InTurn
    <3>3. \A a \in Nat : a >= 1 /\ a <= 1 => a = 1  OBVIOUS
    <3> QED  BY <1>1, <1>6, <3>1, <3>2, <3>3, Zenon
  <2>4. Len(Landed(e)') = Moved(e, kind) - First(e)'
    BY <1>3, <1>5, <1>6, <2>1, <2>2, <2>3
  <2>5. ASSUME NEW i \in 1 .. Len(Landed(e)')
        PROVE  Landed(e)'[i].id = slotWorkID(e, kind, First(e)' + i - 1)
    <3>1. 1 + i \in 1 .. Len(Landed(e)) /\ Landed(e)'[i] = Landed(e)[1 + i] /\ i \in Int
      BY <1>5, <1>7, <2>3
    <3>2. First(e) + (1 + i) - 1 = First(e)' + i - 1  BY <1>3, <3>1
    <3>3. Landed(e)[1 + i].id = slotWorkID(e, kind, First(e) + (1 + i) - 1)  BY <2>1, <3>1
    <3> QED  BY <3>1, <3>2, <3>3
  <2> QED  BY <2>4, <2>5
<1>11. Current(e).kind # "exchange" => Current(e).kind \in WorkKind  BY <1>1, Counted
<1>12. InTurn(e)'  BY <1>2, <1>4, <1>9, <1>10, <1>11 DEF InTurn
<1> QED  BY <1>2, <1>8, <1>12 DEF Unharmed

LEMMA FinishedUnharmed ==
  ASSUME TypeOK, NEW e \in End, InWindow(e), Work(e), Apart(e), FinishedStep(e), Unharmed(e)
  PROVE  Unharmed(e)'
<1>1. /\ TypeOK' /\ sends' = sends /\ recvs' = recvs /\ cq' = cq
      /\ next'[e] = 0 /\ outstanding'[e] = << >> /\ polled'[e] = << >> /\ dst'[e] = << >>
  BY DEF FinishedStep, ConfirmedStep, transport
<1>2. Okay(e)'  BY FinishedOkay DEF Unharmed
<1>3. sends[e] = << >> /\ recvs[e] = << >> /\ cq[e] = << >>  BY FinishedClean
<1>4. Landed(e)' = << >>
  <2>1. Landed(e)' = << >> \o << >>  BY <1>1, <1>3 DEF Landed
  <2> QED  BY <2>1
<1>5. Len(Landed(e)') = 0 /\ Len(polled'[e]) = 0  BY <1>1, <1>4
<1>6. First(e)' = 0  BY <1>1, EmptyWindow
<1>7. \A kind : Moved(e, kind)' = 0
  <2> TAKE kind
  <2>1. Posted(e, kind)' = << >>  BY <1>1, <1>3 DEF Posted
  <2>2. Len(Posted(e, kind)') = 0  BY <2>1
  <2>3. Moved(e, kind)' = next'[e] - Len(Posted(e, kind)')  BY DEF Moved
  <2> QED  BY <1>1, <2>2, <2>3
<1>8. Count(e)' \in Nat  BY DEF Count
<1>9. InTurn(e)'
  <2>1. Len(polled'[e]) <= Count(e)'  BY <1>5, <1>8
  <2>2. \A kind : Len(Landed(e)') = Moved(e, kind)' - First(e)'  BY <1>5, <1>6, <1>7
  <2>3. \A i \in 1 .. Len(Landed(e)') : FALSE  BY <1>5
  <2> QED  BY <2>1, <2>2, <2>3 DEF InTurn
<1>10. \A i \in 1 .. Len(Landed(e)') : Landed(e)'[i].ok  BY <1>5
<1> QED  BY <1>2, <1>9, <1>10 DEF Unharmed

LEMMA CarriedUnharmed ==
  ASSUME ~Retry, TypeOK, NEW e \in End, InWindow(e), Work(e), Apart(e), Unharmed(e),
         NEW kind \in WorkKind, NEW w \in Completion, CarriedAt(e, kind, w), w.ok
  PROVE  Unharmed(e)'
<1>1. /\ setting' = setting /\ done'[e] = done[e] /\ next'[e] = next[e]
      /\ outstanding'[e] = outstanding[e] /\ polled'[e] = polled[e]
      /\ Posted(e, kind) # << >> /\ cq'[e] = Append(cq[e], w)
      /\ w.id = Posted(e, kind)[1].id
  BY DEF CarriedAt, OperationKept
<1>2. /\ Running(e)' = Running(e) /\ Okay(e)' = Okay(e) /\ Current(e)' = Current(e)
      /\ Count(e)' = Count(e)
      /\ \A k, c : slotWorkID(e, k, c)' = slotWorkID(e, k, c)
  BY <1>1, SameOperation
<1>3. Running(e)
  <2>1. Okay(e) /\ (sends[e] # << >> \/ recvs[e] # << >>)
    BY <1>1 DEF Posted, Unharmed
  <2> QED  BY <2>1 DEF Work
<1>4. First(e)' = First(e)  BY <1>1 DEF First
<1>5. /\ Len(Landed(e)) \in Nat /\ Len(Landed(e)') = Len(Landed(e)) + 1
      /\ \A i \in 1 .. Len(Landed(e)) : Landed(e)'[i] = Landed(e)[i]
      /\ Landed(e)'[Len(Landed(e)) + 1] = w
  BY <1>1, CarriedLanded
<1>6. Moved(e, kind)' = Moved(e, kind) + 1  BY <1>3, CarriedSlots
<1>7. ASSUME NEW i \in 1 .. Len(Landed(e)')  PROVE Landed(e)'[i].ok
  <2>1. i \in 1 .. Len(Landed(e)) \/ i = Len(Landed(e)) + 1  BY <1>5
  <2> QED  BY <1>5, <2>1 DEF Unharmed
<1>8. ASSUME Current(e).kind # "exchange"
      PROVE  /\ Current(e).kind = kind
             /\ Len(Landed(e)') = Moved(e, kind)' - First(e)
             /\ \A i \in 1 .. Len(Landed(e)') :
                  Landed(e)'[i].id = slotWorkID(e, kind, First(e) + i - 1)
  <2>1. Uses(e, kind)  BY <1>1, <1>3 DEF Work, InOrder
  <2>2. kind = Current(e).kind  BY <1>3, <1>8, <2>1, Counted
  <2>3. /\ Len(Landed(e)) = Moved(e, kind) - First(e)
        /\ \A i \in 1 .. Len(Landed(e)) : Landed(e)[i].id = slotWorkID(e, kind, First(e) + i - 1)
    BY <1>3, <1>8, <2>2 DEF Unharmed, InTurn
  <2>4. Moved(e, kind) \in Int /\ First(e) \in Nat  BY <1>3, WindowBounds
  <2>5. w.id = slotWorkID(e, kind, Moved(e, kind) + 1 - 1)
    <3>1. 1 \in 1 .. Len(Posted(e, kind))
      <4>1. Posted(e, kind) \in Seq(Request)  BY PostedType
      <4> QED  BY <1>1, <4>1
    <3>2. Posted(e, kind)[1] = request(e, kind, Moved(e, kind) + 1 - 1)
      BY <1>3, <2>1, <3>1 DEF Work, InOrder
    <3> QED  BY <1>1, <3>2 DEF request
  <2>6. ASSUME NEW i \in 1 .. Len(Landed(e)')
        PROVE  Landed(e)'[i].id = slotWorkID(e, kind, First(e) + i - 1)
    <3>1. CASE i = Len(Landed(e)) + 1
      <4>1. First(e) + i - 1 = Moved(e, kind) + 1 - 1  BY <1>5, <2>3, <2>4, <3>1
      <4> QED  BY <1>5, <2>5, <3>1, <4>1
    <3>2. CASE i # Len(Landed(e)) + 1
      <4>1. i \in 1 .. Len(Landed(e))  BY <1>5, <3>2
      <4> QED  BY <1>5, <2>3, <4>1
    <3> QED  BY <3>1, <3>2
  <2>7. Len(Landed(e)') = Moved(e, kind)' - First(e)  BY <1>5, <1>6, <2>3, <2>4
  <2> QED  BY <2>2, <2>6, <2>7
<1>9. InTurn(e)'
  <2>1. Len(polled'[e]) <= Count(e)'  BY <1>1, <1>2, <1>3 DEF Unharmed, InTurn
  <2> QED  BY <1>2, <1>4, <1>8, <2>1 DEF InTurn
<1> QED  BY <1>2, <1>7, <1>9 DEF Unharmed

\* What a healthy end sends fits what its peer expects.
LEMMA HealthyFits ==
  ASSUME ~Retry, HealthInv, Healthy, \A s \in Settings : Paired(s), NEW e \in End,
         sends[e] # << >>, recvs[1-e] # << >>
  PROVE  sends[e][1].bytes <= recvs[1-e][1].bytes
<1> DEFINE f == 1 - e
           m == Moved(f, "recv")
<1>1. f \in End /\ 1 - f = e  BY OtherEnd
<1>2. /\ FlowInv /\ TypeOK /\ Staged(e) /\ InWindow(f) /\ Work(f) /\ Okay(f)
  BY <1>1 DEF HealthInv, DataInv, FlowInv, SlotInv, Unharmed
<1>3. /\ Running(f) /\ TakesData(f) /\ InPlay(e) = Number(f) /\ Base(e) = m
      /\ m \in Nat
  BY <1>2, Matched
<1>4. m + 1 - 1 = m  BY <1>3
<1>5. sends[e][1].bytes = opChunkLen(Program[e][Number(f)], m)
  <2>1. 1 \in 1 .. Len(sends[e])  BY <1>2 DEF TypeOK
  <2> QED  BY <1>2, <1>3, <1>4, <2>1 DEF Staged
<1>6. recvs[f][1].bytes = chunkLen(f, m)
  <2>1. 1 \in 1 .. Len(recvs[f])  BY <1>1, <1>2 DEF TypeOK
  <2>2. "recv" \in WorkKind /\ Uses(f, "recv") /\ Posted(f, "recv") = recvs[f]
    BY <1>3 DEF WorkKind, Uses, Posted
  <2>3. InOrder(f, "recv")  BY <1>2, <1>3, <2>2 DEF Work
  <2>4. recvs[f][1] = request(f, "recv", m + 1 - 1)  BY <2>1, <2>2, <2>3 DEF InOrder
  <2> QED  BY <1>4, <2>4 DEF request
<1>7. Number(f) \in 1 .. Len(Program[f]) /\ Current(f) = Program[f][Number(f)]
      /\ Current(f) \in Op
  BY <1>1, <1>2, <1>3, InOperation, KindUses
<1>8. opChunkLen(Program[f][Number(f)], m) = opChunkLen(Program[e][Number(f)], m)
  BY <1>1, <1>2, <1>7, SameLengths
<1>9. chunkLen(f, m) \in Nat
  <2>1. Current(f).tail \in 1 .. Whole  BY <1>7 DEF Op
  <2> QED  BY <2>1 DEF chunkLen, opChunkLen, Whole
<1> QED  BY <1>5, <1>6, <1>7, <1>8, <1>9 DEF chunkLen

LEMMA TransferUnharmed ==
  ASSUME ~Retry, HealthInv, Healthy, \A s \in Settings : Paired(s), NEW e \in End,
         TransferStep(e), NEW g \in End
  PROVE  Unharmed(g)'
<1> DEFINE s == Head(sends[e])
           r == Head(recvs[1-e])
           fits == s.bytes <= r.bytes
           sent == [id |-> s.id, bytes |-> 0, ok |-> fits]
           received == [id |-> r.id, bytes |-> s.bytes, ok |-> fits]
<1>1. /\ sends[e] # << >> /\ recvs[1-e] # << >>
      /\ \A h \in End : OperationKept(h)
      /\ sends'[e] = Tail(sends[e]) /\ sends'[1-e] = sends[1-e]
      /\ recvs'[1-e] = Tail(recvs[1-e]) /\ recvs'[e] = recvs[e]
      /\ cq'[e] = Append(cq[e], sent) /\ cq'[1-e] = Append(cq[1-e], received)
      /\ s = sends[e][1] /\ r = recvs[1-e][1]
      /\ s \in Request /\ r \in Request
  BY DEF TransferStep
<1>2. 1 - e \in End /\ (g = e \/ g = 1 - e)  BY OtherEnd
<1>3. fits  BY <1>1, HealthyFits
<1>4. fits \in BOOLEAN  OBVIOUS
<1> HIDE DEF fits
<1>5. sent \in Completion /\ received \in Completion /\ sent.ok /\ received.ok
      /\ sent.id = sends[e][1].id /\ received.id = recvs[1-e][1].id
  BY <1>1, <1>3, <1>4 DEF Request, Completion
<1> HIDE DEF sent, received
<1>6. CarriedAt(e, "send", sent)
  BY <1>1, <1>5 DEF CarriedAt, Posted, WorkKind
<1>7. CarriedAt(1-e, "recv", received)
  BY <1>1, <1>2, <1>5 DEF CarriedAt, Posted, WorkKind
<1>8. "send" \in WorkKind /\ "recv" \in WorkKind  BY DEF WorkKind
<1>9. ASSUME NEW h \in End, NEW kind \in WorkKind, NEW w \in Completion,
             CarriedAt(h, kind, w), w.ok
      PROVE  Unharmed(h)'
  <2>1. TypeOK /\ InWindow(h) /\ Work(h) /\ Apart(h) /\ Unharmed(h)
    BY DEF HealthInv, DataInv, FlowInv, SlotInv
  <2> QED  BY <1>9, <2>1, CarriedUnharmed
<1>10. Unharmed(e)'  BY <1>5, <1>6, <1>8, <1>9
<1>11. ASSUME g = 1 - e  PROVE Unharmed(g)'
  <2>1. CarriedAt(g, "recv", received)  BY <1>7, <1>11
  <2> QED  BY <1>5, <1>8, <1>9, <2>1
<1> QED  BY <1>2, <1>10, <1>11

LEMMA HealthyKept ==
  ASSUME setting' = setting
  PROVE  Healthy' = Healthy
BY DEF Healthy, Program

LEMMA HealthStep ==
  ASSUME ~Retry, \A s \in Settings : Paired(s) /\ Measured(s), HealthInv, Next
  PROVE  HealthInv'
<1>1. DataInv /\ SlotInv /\ TypeOK /\ WindowInv
  BY DEF HealthInv, DataInv, FlowInv, SlotInv, WindowInv
<1>2. PICK e \in End : StepOf(e)  BY <1>1, Steps
<1>3. DataInv'  BY <1>1, <1>2, DataStep
<1>4. Healthy' = Healthy
  <2>1. setting' = setting  BY <1>1, <1>2, StepTypes
  <2> QED  BY <2>1, HealthyKept
<1>5. ASSUME Healthy, NEW g \in End  PROVE Unharmed(g)'
  <2>1. PICK h \in End :
          Stage(h) \/ PolledStep(h) \/ FinishedStep(h) \/ AdvancedStep(h) \/ TransferStep(h)
    BY <1>5, HealthySteps
  <2>2. g = h \/ g = 1 - h  BY OtherEnd
  <2>3. 1 - h \in End /\ 1 - h # h  BY OtherEnd
  <2>4. /\ InWindow(h) /\ Work(h) /\ Apart(h) /\ Unharmed(h) /\ Unharmed(1-h)
    BY <1>1, <1>5, <2>3 DEF HealthInv, SlotInv
  <2>5. Kept(1-h) => Unharmed(1-h)'  BY <2>3, <2>4, KeptUnharmed
  <2>6. CASE Stage(h)
    <3>1. Kept(1-h)  BY <1>1, <2>3, <2>6, StageEffect
    <3>2. Unharmed(h)'  BY <1>1, <2>4, <2>6, StageUnharmed
    <3> QED  BY <2>2, <2>5, <3>1, <3>2
  <2>7. CASE PolledStep(h)
    <3>1. Kept(1-h)  BY <2>3, <2>7 DEF PolledStep
    <3>2. Unharmed(h)'  BY <1>1, <2>4, <2>7, PolledUnharmed
    <3> QED  BY <2>2, <2>5, <3>1, <3>2
  <2>8. CASE FinishedStep(h)
    <3>1. Kept(1-h)  BY <2>3, <2>8 DEF FinishedStep, ConfirmedStep
    <3>2. Unharmed(h)'  BY <1>1, <2>4, <2>8, FinishedUnharmed
    <3> QED  BY <2>2, <2>5, <3>1, <3>2
  <2>9. CASE AdvancedStep(h)
    <3>1. Kept(1-h)  BY <2>3, <2>9 DEF AdvancedStep, ConfirmedStep
    <3>2. Unharmed(h)'  BY <1>1, <2>4, <2>9, AdvancedUnharmed
    <3> QED  BY <2>2, <2>5, <3>1, <3>2
  <2>10. CASE TransferStep(h)  BY <1>5, <2>10, TransferUnharmed
  <2> QED  BY <2>1, <2>6, <2>7, <2>8, <2>9, <2>10
<1> QED  BY <1>3, <1>4, <1>5 DEF HealthInv

LEMMA InitHealth ==
  ASSUME Init
  PROVE  HealthInv
<1>1. DataInv  BY InitData
<1>2. ASSUME NEW e \in End  PROVE Unharmed(e)
  <2>1. /\ sends[e] = << >> /\ recvs[e] = << >> /\ cq[e] = << >> /\ polled[e] = << >>
        /\ next[e] = 0 /\ outstanding[e] = << >> /\ done[e] = << >>
    BY DEF Init
  <2>2. Landed(e) = << >>
    <3>1. Landed(e) = << >> \o << >>  BY <2>1 DEF Landed
    <3> QED  BY <3>1
  <2>3. /\ Len(Landed(e)) = 0 /\ Len(polled[e]) = 0 /\ Len(outstanding[e]) = 0
        /\ Len(done[e]) = 0
    BY <2>1, <2>2
  <2>4. First(e) = 0
    <3>1. First(e) = next[e] - Len(outstanding[e])  BY DEF First
    <3> QED  BY <2>1, <2>3, <3>1
  <2>5. \A kind : Moved(e, kind) = 0
    <3> TAKE kind
    <3>1. Posted(e, kind) = << >>  BY <2>1 DEF Posted
    <3>2. Len(Posted(e, kind)) = 0  BY <3>1
    <3>3. Moved(e, kind) = next[e] - Len(Posted(e, kind))  BY DEF Moved
    <3> QED  BY <2>1, <3>2, <3>3
  <2>6. Count(e) \in Nat  BY DEF Count
  <2>7. Okay(e)  BY <2>3 DEF Okay
  <2>8. InTurn(e)  BY <2>3, <2>4, <2>5, <2>6 DEF InTurn
  <2> QED  BY <2>3, <2>7, <2>8 DEF Unharmed
<1> QED  BY <1>1, <1>2 DEF HealthInv

LEMMA KeptHealth ==
  ASSUME HealthInv, UNCHANGED vars
  PROVE  HealthInv'
<1>1. DataInv'  BY KeptData DEF HealthInv
<1>2. setting' = setting /\ \A e \in End : Kept(e)
  BY DEF vars, Kept, OperationKept, RequestsKept
<1>3. Healthy' = Healthy  BY <1>2, HealthyKept
<1> QED  BY <1>1, <1>2, <1>3, KeptUnharmed DEF HealthInv

(* Matching operations that nobody gives up succeed, when a poll takes no     *)
(* more than one completion or an operation has one chunk at a time.          *)
THEOREM HealthyOperationsSucceed ==
  ASSUME ~Retry, \A s \in Settings : Paired(s) /\ Measured(s)
  PROVE  Spec => []HealthySucceed
<1>1. Init => HealthInv  BY InitHealth
<1>2. HealthInv /\ [Next]_vars => HealthInv'  BY HealthStep, KeptHealth
<1>3. HealthInv => HealthySucceed
  BY DEF HealthInv, Unharmed, Okay, HealthySucceed
<1> QED  BY <1>1, <1>2, <1>3, PTL DEF Spec
=====================
