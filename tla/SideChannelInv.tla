--------------------------- MODULE SideChannelInv ----------------------------
(***************************************************************************)
(* The inductive strengthening of SideChannel's invariants, for callers    *)
(* that make no call after a failed one.  Each stream holds at most one     *)
(* frame, and counting calls tells whose turn it is.                       *)
(***************************************************************************)
EXTENDS SideChannel

\* The number of payloads of p that rank 0 has read, while no call of it failed.
Taken(p) == IF pc[0] = "gather" /\ peer <= p THEN calls[0] - 1 ELSE calls[0]

\* Rank 0 has read p's payload of its current call and not answered it yet.
Owed(p) == \/ pc[0] = "gather" /\ p < peer
           \/ pc[0] = "cast" /\ peer <= p

Waiting(p) == pc[p] = "read" \/ failed[p]

CallInv ==
  /\ pc[0] \in {"idle", "gather", "cast"}
  /\ \A p \in Peer : pc[p] \in {"idle", "write", "read"}
  /\ \A r \in Rank :
       /\ own[r].call = calls[r]
       /\ pc[r] # "idle" => ~failed[r] /\ last[r].call < calls[r]
       /\ pc[r] = "idle" /\ ~failed[r] => last[r].call = calls[r]
       /\ last[r].call <= calls[r]

UpInv(p) ==
  /\ Len(up[p]) <= 1
  /\ up[p] # << >> => Head(up[p]).call = calls[p] /\ Waiting(p)
  /\ ~failed[0] =>
       /\ up[p] # << >> \/ pc[p] = "write" => calls[p] = Taken(p) + 1
       /\ pc[p] = "idle" /\ ~failed[p] => calls[p] = Taken(p)

DownInv(p) ==
  /\ Len(down[p]) <= 1
  /\ down[p] # << >> =>
       /\ Waiting(p)
       /\ up[p] = << >>
       /\ ~failed[0] => calls[p] = Taken(p)
       /\ \A q \in Rank : /\ Head(down[p])[q].call = calls[p]
                          /\ calls[p] <= calls[q]

LoopInv ==
  pc[0] # "idle" =>
    /\ values[0].call = calls[0]
    /\ \A p \in Peer :
         /\ pc[0] = "cast" \/ p < peer =>
              values[p].call = calls[0] /\ calls[0] <= calls[p]
         /\ Owed(p) => /\ calls[p] = calls[0] /\ Waiting(p)
                       /\ up[p] = << >> /\ down[p] = << >>

(* Every stream holds at most the one frame that its reader's current call  *)
(* is for, and every payload rank 0 holds belongs to its current call.      *)
StreamsInStep ==
  /\ CallInv
  /\ \A p \in Peer : UpInv(p) /\ DownInv(p)
  /\ LoopInv
  /\ ResultsMatch
  /\ NobodyLeavesEarly

\* Every result there is, with the call it is for: those that callers hold, the
\* broadcasts not yet read, and the one that rank 0 is writing.
Result(vals) == [call |-> vals[0].call, vals |-> vals]
Issued ==
  {last[r] : r \in Rank}
  \cup {Result(Head(down[p])) : p \in {p \in Peer : down[p] # << >>}}
  \cup {Result(vals) : vals \in IF pc[0] = "cast" THEN {values} ELSE {}}

(* There is one result for each call, and none for the call that rank 0 is    *)
(* still gathering the payloads of.                                          *)
OneResult ==
  /\ \A x, y \in Issued : x.call = y.call => x.vals = y.vals
  /\ pc[0] = "gather" => \A x \in Issued : x.call < calls[0]
=============================================================================
