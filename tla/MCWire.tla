-------------------------------- MODULE MCWire --------------------------------
(* Programs for the two ends of a wire. *)
EXTENDS Wire

operation(kind, chunks, tail) == [kind |-> kind, chunks |-> chunks, tail |-> tail]

\* What end 1 runs when end 0 runs ops: it receives what is sent, and conversely.
Facing(ops) == [k \in 1 .. Len(ops) |->
  [ops[k] EXCEPT !.kind = CASE @ = "send" -> "recv" [] @ = "recv" -> "send" [] OTHER -> @]]
Between(ops) == [e \in End |-> IF e = 0 THEN ops ELSE Facing(ops)]

\* Collectives, one of them longer than the slots.
Exchanges == Between(<<operation("exchange", 5, 1), operation("exchange", 1, 1)>>)

\* A message longer than the window each way, and messages of one chunk.
Messages == Between(<<operation("send", 6, 1), operation("recv", 5, 2)>>)
Singles == Between(<<operation("send", 1, 2), operation("recv", 1, 1), operation("send", 1, 1)>>)

\* The second message is shorter at one end than at the other.
Mismatched == [e \in End |->
  IF e = 0 THEN <<operation("send", 3, 2), operation("send", 2, 1), operation("recv", 2, 2)>>
           ELSE <<operation("recv", 3, 2), operation("recv", 2, 2), operation("send", 2, 1)>>]

Small == Between(<<operation("exchange", 1, 2), operation("exchange", 1, 2)>>)
TwoChunks == Between(<<operation("send", 2, 2)>>)

case(program, batch, mayExpire) == [program |-> program, batch |-> batch, mayExpire |-> mayExpire]

\* memTransport's poll returns one completion, the provider's up to eight.
Tested == {case(Exchanges, 8, FALSE), case(Singles, 8, FALSE), case(Messages, 1, FALSE),
           case(Mismatched, 1, TRUE), case(Exchanges, 8, TRUE)}
Pipelined == {case(TwoChunks, 8, FALSE)}
Abandoned == {case(Small, 8, TRUE)}
=============================================================================
