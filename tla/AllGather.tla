------------------------------ MODULE AllGather ------------------------------
(***************************************************************************)
(* What one AllGather round promises its callers, without any connection:  *)
(* every rank enters the round with one value, and nobody leaves the round *)
(* before everybody has entered it.  A rank may give up, and then takes no *)
(* further part.  SideChannel implements this specification as long as its *)
(* callers make no new call after a failed one.                            *)
(***************************************************************************)
EXTENDS Naturals

CONSTANT N       \* number of ranks

Rank == 0 .. N-1

VARIABLES
  entered,       \* entered[r]: rounds that rank r has entered
  left,          \* left[r]: the last round that rank r left with a result
  got,           \* got[r][q]: the round whose value of q rank r holds
  gaveUp         \* gaveUp[r]: rank r has given up

absVars == <<entered, left, got, gaveUp>>

AbsInit ==
  /\ entered = [r \in Rank |-> 0]
  /\ left = [r \in Rank |-> 0]
  /\ got = [r \in Rank |-> [q \in Rank |-> 0]]
  /\ gaveUp = [r \in Rank |-> FALSE]

\* r enters its next round; refused says the round rejects its value at once.
Enter(r, refused) ==
  /\ ~gaveUp[r]
  /\ left[r] = entered[r]
  /\ entered' = [entered EXCEPT ![r] = @ + 1]
  /\ gaveUp' = [gaveUp EXCEPT ![r] = refused]
  /\ UNCHANGED <<left, got>>

\* r leaves the round it is in with every rank's value of that same round.
Leave(r) ==
  /\ ~gaveUp[r]
  /\ left[r] < entered[r]
  /\ \A q \in Rank : entered[q] >= entered[r]
  /\ left' = [left EXCEPT ![r] = entered[r]]
  /\ got' = [got EXCEPT ![r] = [q \in Rank |-> entered[r]]]
  /\ UNCHANGED <<entered, gaveUp>>

GiveUp(r) ==
  /\ left[r] < entered[r]
  /\ gaveUp' = [gaveUp EXCEPT ![r] = TRUE]
  /\ UNCHANGED <<entered, left, got>>

AbsNext ==
  \E r \in Rank :
    \/ \E refused \in BOOLEAN : Enter(r, refused)
    \/ Leave(r)
    \/ GiveUp(r)

AbsSpec == AbsInit /\ [][AbsNext]_absVars
=============================================================================
