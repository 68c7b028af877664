-------------------------------- MODULE MCJacclc --------------------------------
(* Instances of Jacclc: a good library file and one that lacks a symbol; the    *)
(* programs of the runs.                                                        *)
EXTENDS Jacclc, TLC

CONSTANTS g1, g2, t1, t2, good, old, f1, f2, a1, h1

TwoFiles == [p \in Path |-> IF p = good THEN Symbol ELSE {f1}]

Errors == {"ConfigNew", "Init", "Send", "DTypeSize", "IsValid", "LoadPath"}
Messages == {"ConfigFromEnv", "Send", "IsAvailable", "LastError"}
Coordinators == {"ConfigNew", "ConfigFree", "Set", "Get", "coordinator"}
Rings == {"ConfigNewOut", "ConfigFree", "Set", "Get", "ring"}
Ranks == {"ConfigNewOut", "ConfigFree", "Set", "Get", "rank"}
Sizes == {"ConfigFromEnv", "ConfigFree", "Set", "Get", "size"}
Groups == {"ConfigFromEnv", "Set", "Get", "size", "InitConfig", "Barrier"}
Reuse == {"ConfigFromEnv", "ConfigFree", "Get", "size", "InitConfig"}
Unranked == {"ConfigNewOut", "Set", "size", "InitConfig"}
Ranked == {"ConfigFromEnv", "Set", "rank", "InitConfig"}
Closing == {"ConfigFromEnv", "InitConfig", "GroupFree", "GroupGet", "Reduce"}
Stateless == {"Init", "GroupFree", "GroupGet", "Gather", "Raw"}
AllPrograms == {Errors, Messages, Coordinators, Rings, Ranks, Sizes, Groups, Reuse, Unranked,
                Ranked, Closing, Stateless}
Symmetric == Permutations(Goroutine) \cup Permutations(Thread)
================================================================================
