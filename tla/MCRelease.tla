------------------------------- MODULE MCRelease -------------------------------
(* Instances of Release: three commits of MLX, two of them of one core.        *)
EXTENDS Release, TLC

CONSTANTS a1, a2, b1, shown, s1, s2

TwoCores == [c \in Commit |-> IF c = b1 THEN "B" ELSE "A"]
Slots == Permutations(Slot)
================================================================================
