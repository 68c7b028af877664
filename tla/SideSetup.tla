------------------------------ MODULE SideSetup ------------------------------
(***************************************************************************)
(* How the star of SideChannel.tla is built: newSideChannel, listen and    *)
(* dial in internal/jacclnative/side_channel.go.  Rank 0 accepts one        *)
(* connection at a time, reads its hello, registers the rank and            *)
(* acknowledges; the others dial until rank 0 listens, say hello and wait. *)
(*                                                                         *)
(* A client is a process that dials.  There is one for every rank, and      *)
(* there may be strays: a rank launched twice or with another device        *)
(* matrix, another program, another version.                               *)
(***************************************************************************)
EXTENDS Integers, Sequences, FiniteSets, SequencesExt

CONSTANTS
  N,             \* size of the group
  Strays,        \* how many clients there are beyond the ranks 1 .. N-1
  MayExpire      \* TRUE: the contexts of the processes can end

Rank == 0 .. N-1
Peer == 1 .. N-1
Client == 1 .. N-1 + Strays
Stray == Client \ Peer
None == 0

\* compatible: the magic and the version are ours.
RightHello(r) == [rank |-> r, size |-> N, compatible |-> TRUE]
StrayHello == [rank : 0 .. N, size : {N, N + 1}, compatible : BOOLEAN]

ASSUME SetupAssumption ==
  /\ N \in Nat \ {0, 1}
  /\ Strays \in Nat
  /\ MayExpire \in BOOLEAN

VARIABLES
  hello,         \* hello[c]: what c says
  status,        \* where each client is inside dial
  server,        \* where rank 0 is inside listen
  backlog,       \* connections the kernel holds for Accept
  sent,          \* connections on which the hello has been written
  acked,         \* connections on which the acknowledgement has been written
  reset,         \* connections that rank 0's side has closed
  cur,           \* the connection listen is dealing with
  peers          \* rank 0's table of connections by rank

vars == <<hello, status, server, backlog, sent, acked, reset, cur, peers>>
wire == <<sent, acked, reset>>

TypeOK ==
  /\ hello \in [Client -> StrayHello]
  /\ status \in [Client -> {"dialing", "greeting", "waiting", "connected", "failed"}]
  /\ server \in {"off", "accept", "hello", "ack", "ready", "failed"}
  /\ backlog \in Seq(Client)
  /\ sent \subseteq Client /\ acked \subseteq Client /\ reset \subseteq Client
  /\ cur \in Client \cup {None}
  /\ peers \in [Rank -> Client \cup {None}] /\ peers[0] = None

Init ==
  /\ \E said \in [Stray -> StrayHello] :
       hello = [c \in Client |-> IF c \in Stray THEN said[c] ELSE RightHello(c)]
  /\ status = [c \in Client |-> "dialing"]
  /\ server = "off"
  /\ backlog = << >>
  /\ sent = {} /\ acked = {} /\ reset = {}
  /\ cur = None
  /\ peers = [r \in Rank |-> None]

-----------------------------------------------------------------------------
(* A client.                                                               *)

\* The coordinator's port is open: Close, not listen, closes the listener.
Listening == server \notin {"off", "failed"}

GiveUp(c) == status' = [status EXCEPT ![c] = "failed"]

\* DialContext succeeds once the port is open; until then dial tries again.
Connect(c) ==
  /\ status[c] = "dialing" /\ Listening
  /\ status' = [status EXCEPT ![c] = "greeting"]
  /\ backlog' = Append(backlog, c)
  /\ UNCHANGED <<hello, server, wire, cur, peers>>

Greet(c) ==
  /\ status[c] = "greeting"
  /\ sent' = sent \cup {c}
  /\ status' = [status EXCEPT ![c] = "waiting"]
  /\ UNCHANGED <<hello, server, backlog, acked, reset, cur, peers>>

ReadAck(c) ==
  /\ status[c] = "waiting" /\ c \in acked
  /\ IF hello[c].size = N /\ hello[c].compatible
     THEN status' = [status EXCEPT ![c] = "connected"]
     ELSE GiveUp(c)
  /\ UNCHANGED <<hello, server, backlog, wire, cur, peers>>

\* The connection is gone before the acknowledgement; dial does not try again.
Refused(c) ==
  /\ status[c] \in {"greeting", "waiting"} /\ c \in reset
  /\ GiveUp(c)
  /\ UNCHANGED <<hello, server, backlog, wire, cur, peers>>

DialExpires(c) ==
  /\ MayExpire
  /\ status[c] \in {"dialing", "greeting", "waiting"}
  /\ GiveUp(c)
  /\ UNCHANGED <<hello, server, backlog, wire, cur, peers>>

-----------------------------------------------------------------------------
(* Rank 0.                                                                 *)

Listen ==
  /\ server = "off"
  /\ server' = "accept"
  /\ UNCHANGED <<hello, status, backlog, wire, cur, peers>>

Registered == {r \in Rank : peers[r] # None}

\* The loop's condition counts the acknowledged peers.
Accept ==
  /\ server = "accept"
  /\ Cardinality(Registered) < N - 1
  /\ backlog # << >>
  /\ cur' = Head(backlog)
  /\ backlog' = Tail(backlog)
  /\ server' = "hello"
  /\ UNCHANGED <<hello, status, wire, peers>>

\* Mutant of Abort: only the connection at hand is closed.
ClosesOne ==
  /\ server' = "failed"
  /\ reset' = reset \cup ({cur} \ {None})
  /\ backlog' = << >>
  /\ UNCHANGED <<hello, status, sent, acked, cur, peers>>

\* listen returns an error and newSideChannel closes everything.
Abort ==
  /\ server' = "failed"
  /\ reset' = reset \cup {peers[r] : r \in Registered} \cup ({cur} \ {None})
                    \cup Range(backlog)
  /\ backlog' = << >>
  /\ UNCHANGED <<hello, status, sent, acked, cur, peers>>

\* Mutants of Acceptable: one of its four checks is missing.
TakesDuplicates(h) == h.compatible /\ h.size = N /\ h.rank \in Peer
TakesAnySize(h) == h.compatible /\ h.rank \in Peer /\ peers[h.rank] = None

Acceptable(h) ==
  /\ h.compatible
  /\ h.size = N
  /\ h.rank \in Peer
  /\ peers[h.rank] = None

ReadHello ==
  /\ server = "hello" /\ cur \in sent
  /\ IF Acceptable(hello[cur])
     THEN /\ peers' = [peers EXCEPT ![hello[cur].rank] = cur]
          /\ server' = "ack"
          /\ UNCHANGED <<hello, status, backlog, wire, cur>>
     ELSE Abort

\* Mutant of WriteAck: the acknowledgement of the last peer is forgotten.
SkipsLastAck ==
  /\ server = "ack"
  /\ acked' = IF Cardinality(Registered) = N - 1 THEN acked ELSE acked \cup {cur}
  /\ server' = IF Cardinality(Registered) = N - 1 THEN "ready" ELSE "accept"
  /\ UNCHANGED <<hello, status, backlog, sent, reset, cur, peers>>

\* A write to a client that has left may go unnoticed.
WriteAck ==
  /\ server = "ack"
  /\ acked' = acked \cup {cur}
  /\ server' = IF Cardinality(Registered) = N - 1 THEN "ready" ELSE "accept"
  /\ UNCHANGED <<hello, status, backlog, sent, reset, cur, peers>>

\* The client of the current connection left: no hello, or the write fails.
CallerLeft ==
  /\ status[cur] = "failed"
  /\ (server = "hello" /\ cur \notin sent) \/ server = "ack"
  /\ Abort

ListenExpires ==
  /\ MayExpire
  /\ server \in {"accept", "hello", "ack"}
  /\ Abort

\* Open fails later, or the group closes.
CloseAll ==
  /\ MayExpire
  /\ server = "ready"
  /\ Abort

-----------------------------------------------------------------------------
ServerStep == Listen \/ Accept \/ ReadHello \/ WriteAck

ClientStep(c) == Connect(c) \/ Greet(c) \/ ReadAck(c)

Next ==
  \/ ServerStep
  \/ cur # None /\ CallerLeft
  \/ ListenExpires
  \/ CloseAll
  \/ \E c \in Client : ClientStep(c) \/ Refused(c) \/ DialExpires(c)

Spec == Init /\ [][Next]_vars

(* Rank 0 and the other ranks run, the dial loop keeps trying, and TCP tells *)
(* rank 0 that the client it waits for has gone.  A stray owes nobody        *)
(* anything: it may connect and never write its hello.                       *)
FairSpec ==
  /\ Spec
  /\ WF_vars(ServerStep \/ (cur # None /\ CallerLeft))
  /\ \A r \in Peer : WF_vars(ClientStep(r)) /\ WF_vars(Refused(r))

-----------------------------------------------------------------------------
(* Rank 0 goes on only with one connection for every rank, to a process     *)
(* that said it is that rank of a group of this size.                       *)
ReadyIsComplete ==
  server = "ready" => \A r \in Peer :
    peers[r] \in sent /\ hello[peers[r]] = RightHello(r)

(* A process whose dial returned is the one that rank 0 has registered for   *)
(* the rank it said it is: two processes never both believe that they are    *)
(* the same rank, not even after rank 0 has closed its connections.          *)
ConnectedIsRegistered ==
  \A c \in Client : status[c] = "connected" =>
    hello[c].rank \in Peer /\ peers[hello[c].rank] = c

\* listen reads one hello at a time, with no deadline but that of its context.
HeldByStray == server = "hello" /\ cur \in Stray \ sent

(* Every rank gets connected, in whatever order the ranks are started, unless *)
(* a process fails, a stray has been acknowledged in a rank's place, or a    *)
(* stray holds rank 0 by saying nothing.                                     *)
EveryoneConnects ==
  \/ <>(\/ server = "ready" /\ \A r \in Peer : status[r] = "connected"
        \/ server = "failed"
        \/ \E c \in Client : status[c] = "failed"
        \/ Stray \cap acked # {})
  \/ <>[]HeldByStray

(* A rank that said its hello is acknowledged or turned away, unless rank 0   *)
(* has all its ranks already or a stray that says nothing holds it: after an *)
(* error nobody is left waiting for an acknowledgement that never comes.     *)
EveryHelloAnswered ==
  \A r \in Peer : status[r] = "waiting" ~>
    (status[r] # "waiting" \/ server = "ready" \/ []HeldByStray)
=============================================================================
