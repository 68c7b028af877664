--------------------------- MODULE SideSetupProofs ---------------------------
(***************************************************************************)
(* Theorems about SideSetup, for every group size and number of strays.    *)
(*                                                                         *)
(* The table of peers is only filled, from hellos that fit (Registration),  *)
(* and an acknowledgement is written only to the process that is in the    *)
(* table for the rank it said (Acknowledgement).  listen counts table      *)
(* entries, and N-1 entries of N-1 ranks are all of them (Counting).       *)
(***************************************************************************)
EXTENDS SideSetup, FiniteSetTheorems, TLAPS

Registration ==
  \A r \in Peer : peers[r] # None => peers[r] \in sent /\ hello[peers[r]] = RightHello(r)

InTable(c) == hello[c].rank \in Peer /\ peers[hello[c].rank] = c

Acknowledgement ==
  /\ server \in {"hello", "ack"} => cur \in Client
  /\ server = "ack" => InTable(cur)
  /\ \A c \in acked : InTable(c)
  /\ \A c \in Client : status[c] = "connected" => c \in acked

Counting == server = "ready" => \A r \in Peer : peers[r] # None

SetupInv == TypeOK /\ Registration /\ Acknowledgement /\ Counting

USE SetupAssumption

-----------------------------------------------------------------------------
(* Ranks and clients.                                                       *)

LEMMA RankFacts ==
  /\ Peer \subseteq Client /\ Peer \subseteq Rank /\ None \notin Client
  /\ \A r \in Rank : r # 0 => r \in Peer
BY DEF Peer, Client, Rank, None

LEMMA HelloType == \A r \in Peer : RightHello(r) \in StrayHello
BY DEF Peer, RightHello, StrayHello

\* A table without a gap is one of as many entries as there are peers.
LEMMA FullTable ==
  ASSUME TypeOK, Cardinality(Registered) = N - 1
  PROVE  \A r \in Peer : peers[r] # None
<1>1. IsFiniteSet(Peer) /\ Cardinality(Peer) = N - 1
  BY FS_Interval DEF Peer
<1>2. Registered \subseteq Peer
  BY RankFacts DEF TypeOK, Registered
<1>3. Registered = Peer
  BY <1>1, <1>2, FS_Subset
<1> QED
  BY <1>3 DEF Registered

-----------------------------------------------------------------------------
(* The invariant.                                                           *)

LEMMA InitSetup == Init => SetupInv
<1> SUFFICES ASSUME Init PROVE SetupInv
  OBVIOUS
<1>1. hello \in [Client -> StrayHello]
  <2>1. PICK said \in [Stray -> StrayHello] :
          hello = [c \in Client |-> IF c \in Stray THEN said[c] ELSE RightHello(c)]
    BY DEF Init
  <2>2. \A c \in Client : c \notin Stray => c \in Peer
    BY DEF Stray
  <2> QED
    BY <2>1, <2>2, HelloType
<1>2. 0 \in Rank /\ << >> \in Seq(Client)
  BY DEF Rank
<1>3. TypeOK
  BY <1>1, <1>2 DEF Init, TypeOK
<1>4. Registration /\ Counting
  BY RankFacts DEF Init, Registration, Counting
<1>5. Acknowledgement
  BY DEF Init, Acknowledgement
<1> QED
  BY <1>3, <1>4, <1>5 DEF SetupInv

\* Steps of a client: it writes its hello, reads the acknowledgement or gives up.
LEMMA ClientSetup ==
  ASSUME SetupInv, NEW c \in Client, ClientStep(c) \/ Refused(c) \/ DialExpires(c)
  PROVE  SetupInv'
<1> USE DEF SetupInv
<1>1. UNCHANGED <<hello, server, acked, reset, cur, peers>>
  BY DEF ClientStep, Refused, DialExpires, Connect, Greet, ReadAck, wire
<1>2. /\ status' \in [Client -> {"dialing", "greeting", "waiting", "connected", "failed"}]
      /\ \A d \in Client : status'[d] = "connected" => status[d] = "connected" \/ d \in acked
  <2>1. PICK x \in {"greeting", "waiting", "connected", "failed"} :
          /\ status' = [status EXCEPT ![c] = x]
          /\ x = "connected" => c \in acked
    BY DEF ClientStep, Refused, DialExpires, Connect, Greet, ReadAck, GiveUp
  <2> QED
    BY <2>1 DEF TypeOK
<1>3. sent \subseteq sent' /\ sent' \subseteq Client
  BY DEF ClientStep, Refused, DialExpires, Connect, Greet, ReadAck, wire, TypeOK
<1>4. backlog' \in Seq(Client)
  BY DEF ClientStep, Refused, DialExpires, Connect, Greet, ReadAck, TypeOK
<1>5. TypeOK'
  BY <1>1, <1>2, <1>3, <1>4 DEF TypeOK
<1>6. Registration' /\ Counting'
  BY <1>1, <1>3 DEF Registration, Counting
<1>7. Acknowledgement'
  BY <1>1, <1>2 DEF Acknowledgement, InTable
<1> QED
  BY <1>5, <1>6, <1>7

LEMMA AbortSetup == SetupInv /\ Abort => SetupInv'
<1> SUFFICES ASSUME SetupInv, Abort PROVE SetupInv'
  OBVIOUS
<1> USE DEF SetupInv
<1>1. /\ server' = "failed" /\ backlog' = << >>
      /\ UNCHANGED <<hello, status, sent, acked, cur, peers>>
  BY DEF Abort
<1>2. reset' \subseteq Client
  <2>1. {peers[r] : r \in Registered} \subseteq Client /\ {cur} \ {None} \subseteq Client
    BY DEF TypeOK, Registered
  <2>2. Range(backlog) \subseteq Client
    BY DEF TypeOK, Range
  <2> QED
    BY <2>1, <2>2 DEF Abort, TypeOK
<1>3. TypeOK'
  BY <1>1, <1>2 DEF TypeOK
<1>4. Registration' /\ Counting' /\ Acknowledgement'
  BY <1>1 DEF Registration, Counting, Acknowledgement, InTable
<1> QED
  BY <1>3, <1>4

LEMMA ListenSetup == SetupInv /\ Listen => SetupInv'
BY DEF SetupInv, Listen, wire, TypeOK, Registration, Counting, Acknowledgement, InTable

LEMMA AcceptSetup == SetupInv /\ Accept => SetupInv'
<1> SUFFICES ASSUME SetupInv, Accept PROVE SetupInv'
  OBVIOUS
<1> USE DEF SetupInv
<1>1. /\ server' = "hello" /\ cur' = Head(backlog) /\ backlog' = Tail(backlog)
      /\ UNCHANGED <<hello, status, sent, acked, reset, peers>>
  BY DEF Accept, wire
<1>2. cur' \in Client /\ backlog' \in Seq(Client)
  BY <1>1 DEF Accept, TypeOK
<1>3. TypeOK'
  BY <1>1, <1>2 DEF TypeOK
<1>4. Registration' /\ Counting' /\ Acknowledgement'
  BY <1>1, <1>2 DEF Registration, Counting, Acknowledgement, InTable
<1> QED
  BY <1>3, <1>4

\* The hello goes into an entry that was empty, so no other entry changes.
LEMMA ReadHelloSetup == SetupInv /\ ReadHello => SetupInv'
<1> SUFFICES ASSUME SetupInv, ReadHello, Acceptable(hello[cur]) PROVE SetupInv'
  BY AbortSetup DEF ReadHello
<1> USE DEF SetupInv
<1> DEFINE r == hello[cur].rank
<1>1. /\ cur \in sent /\ cur \in Client /\ server' = "ack"
      /\ peers' = [peers EXCEPT ![r] = cur]
      /\ UNCHANGED <<hello, status, backlog, sent, acked, reset, cur>>
  BY DEF ReadHello, wire, Acknowledgement
<1>2. r \in Peer /\ peers[r] = None /\ hello[cur] = RightHello(r)
  BY <1>1 DEF Acceptable, RightHello, TypeOK, StrayHello
<1>3. r \in Rank /\ r # 0
  BY <1>2, RankFacts DEF Peer
<1>4. TypeOK'
  BY <1>1, <1>3 DEF TypeOK
<1>5. \A q \in Rank : peers'[q] = IF q = r THEN cur ELSE peers[q]
  BY <1>1 DEF TypeOK
<1>6. Registration' /\ Counting'
  BY <1>1, <1>2, <1>5, RankFacts DEF Registration, Counting
<1>7. Acknowledgement'
  <2>1. InTable(cur)'
    BY <1>1, <1>2, <1>5, RankFacts DEF InTable
  <2>2. ASSUME NEW c \in acked PROVE InTable(c)'
    <3>1. hello[c].rank \in Peer /\ peers[hello[c].rank] = c /\ c # None
      BY RankFacts DEF TypeOK, Acknowledgement, InTable
    <3> QED
      BY <1>1, <1>2, <1>5, <3>1, RankFacts DEF InTable
  <2> QED
    BY <1>1, <2>1, <2>2 DEF Acknowledgement
<1> QED
  BY <1>4, <1>6, <1>7

LEMMA WriteAckSetup == SetupInv /\ WriteAck => SetupInv'
<1> SUFFICES ASSUME SetupInv, WriteAck PROVE SetupInv'
  OBVIOUS
<1> USE DEF SetupInv
<1>1. /\ server = "ack" /\ acked' = acked \cup {cur}
      /\ server' \in {"ready", "accept"}
      /\ server' = "ready" => Cardinality(Registered) = N - 1
      /\ UNCHANGED <<hello, status, backlog, sent, reset, cur, peers>>
  BY DEF WriteAck
<1>2. TypeOK'
  BY <1>1 DEF TypeOK, Acknowledgement
<1>3. Registration' /\ Counting'
  BY <1>1, FullTable DEF Registration, Counting
<1>4. Acknowledgement'
  BY <1>1 DEF Acknowledgement, InTable
<1> QED
  BY <1>2, <1>3, <1>4

LEMMA NextSetup == SetupInv /\ [Next]_vars => SetupInv'
<1> SUFFICES ASSUME SetupInv, [Next]_vars PROVE SetupInv'
  OBVIOUS
<1>1. CASE ServerStep
  BY <1>1, ListenSetup, AcceptSetup, ReadHelloSetup, WriteAckSetup DEF ServerStep
<1>2. CASE CallerLeft \/ ListenExpires \/ CloseAll
  BY <1>2, AbortSetup DEF CallerLeft, ListenExpires, CloseAll
<1>3. ASSUME NEW c \in Client, ClientStep(c) \/ Refused(c) \/ DialExpires(c) PROVE SetupInv'
  BY <1>3, ClientSetup
<1>4. CASE UNCHANGED vars
  BY <1>4 DEF vars, SetupInv, TypeOK, Registration, Counting, Acknowledgement, InTable
<1> QED
  BY <1>1, <1>2, <1>3, <1>4 DEF Next

(* Whatever connects to rank 0, its table of peers is filled with right      *)
(* hellos only, and only who is in it gets an acknowledgement.               *)
THEOREM Invariance == Spec => []SetupInv
BY InitSetup, NextSetup, PTL DEF Spec

(* Rank 0 goes on only with a connection for every rank (listen).            *)
THEOREM NobodyIsMissing == Spec => []ReadyIsComplete
<1>1. SetupInv => ReadyIsComplete
  BY DEF SetupInv, Registration, Counting, ReadyIsComplete
<1> QED
  BY <1>1, Invariance, PTL

(* Nobody else than the registered process of a rank gets through dial.      *)
THEOREM NobodyIsDoubled == Spec => []ConnectedIsRegistered
<1>1. SetupInv => ConnectedIsRegistered
  BY DEF SetupInv, Acknowledgement, InTable, ConnectedIsRegistered
<1> QED
  BY <1>1, Invariance, PTL
=============================================================================
