---------------------------- MODULE JacclcProofs ----------------------------
(***************************************************************************)
(* Theorems about Jacclc, for every number of goroutines, threads,         *)
(* addresses, groups and library files, and every program.                 *)
(*                                                                         *)
(* The invariant has one part per piece of shared state: the library       *)
(* (Loading), the errors of the OS threads (Threads), the configs and      *)
(* their cache (Configs), the life of the groups (Groups) and what a group *)
(* answers (Answers).  Fits says which operands an operation has, stage by *)
(* stage.                                                                  *)
(***************************************************************************)
EXTENDS Jacclc, TLAPS

Makers == {"ConfigNew", "ConfigNewOut", "ConfigFromEnv"}
OnConfig == {"ConfigFree", "IsValid", "Set", "Get", "InitConfig"}
OnGroup == {"GroupFree", "GroupGet", "Barrier", "Reduce", "Gather", "Send", "Raw"}

\* The operands of a call.
Fits(c) ==
  /\ c.op \in Makers => c.on \in Addr \cup {None} /\ (c.stage # "done" => c.on = None)
  /\ c.op \in OnConfig => c.on \in Addr \cup {Nil}
  /\ c.op \in OnGroup => c.on \in Handle \cup {Nil}
  /\ c.op \notin Makers \cup OnConfig \cup OnGroup => c.on = None
  /\ c.op \in {"Set", "Get"} => c.field \in Field
  /\ c.op = "GroupGet" => c.field \in {"rank", "size"}
  /\ c.op = "Set" /\ c.stage # "done" => c.val \in Value
  /\ c.op = "LoadPath" /\ c.stage # "done" => c.val \in Path
  /\ c.stage = "publish" => c.path \in Path
  /\ c.stage = "after" =>
       \/ c.op \in {"Set", "Get"} /\ c.on \in Addr /\ c.val \in Value
       \/ c.op = "ConfigFree" /\ c.on \in Addr
       \/ c.op = "GroupFree" /\ c.on \in Handle
       \/ c.op = "Init" /\ c.val \in Handle
  /\ c.stage \in {"rank", "size"} => c.op = "InitConfig" /\ c.on \in Addr /\ c.val \in Handle

Active(g) == call[g].stage # "idle"
Operands == \A g \in Goroutine : Active(g) => Fits(call[g])

\* The library is what loadMu's holder makes of it.
Loading ==
  /\ lib # None => \A s \in Symbol : bound[s] = lib
  /\ \A g \in Goroutine :
       /\ call[g].stage \in {"mutex", "publish"} => mu = g
       /\ call[g].stage = "publish" =>
            lib = None /\ \A s \in Symbol : bound[s] = call[g].path
       /\ call[g].stage \in {"check", "answer", "c", "after", "rank", "size", "error"} =>
            lib # None

\* A thread that a goroutine is locked to is its own, and so is the message there.
Apart(g, k) ==
  g # k /\ Active(g) /\ Active(k) /\ call[g].thread # None => call[g].thread # call[k].thread
Message(g) ==
  Active(g) =>
    /\ call[g].failed => call[g].stage \in {"error", "done"}
    /\ call[g].op \in Slow /\ call[g].stage \in {"c", "after", "rank", "size", "error"} =>
         call[g].thread # None
    /\ call[g].op \in Slow /\ call[g].failed =>
         IF call[g].stage = "done" THEN ~call[g].ok /\ call[g].msg = g
         ELSE error[call[g].thread] = g
Threads ==
  /\ \A g, k \in Goroutine : Apart(g, k)
  /\ \A g \in Goroutine : Message(g)

\* The calls that make a config busy are one at a time, and have a config.
Uses(g, a) ==
  /\ Active(g) /\ call[g].on = a
  /\ ~(call[g].op = "ConfigFree" /\ call[g].stage \in {"after", "done"})
Alone ==
  /\ \A g, k \in Goroutine, a \in Addr : Uses(g, a) /\ Uses(k, a) => g = k
  /\ \A g \in Goroutine, a \in Addr : Uses(g, a) => heap[a] # None
\* After its C call a setter still has what it was given, a getter what C holds.
Reached(c) == IF c.op = "Set" THEN Passed(c.field, c.val) ELSE c.val
Read ==
  \A g \in Goroutine : call[g].stage = "after" /\ call[g].op \in {"Set", "Get"} =>
    heap[call[g].on][call[g].field] = Reached(call[g])

\* An entry of the cache reaches C as what C holds, but for a field set a moment ago.
Agrees(a, f) == cache[a][f] # None => Passed(f, cache[a][f]) = heap[a][f]
Setting(a, f) == \E g \in Goroutine :
  call[g].stage = "after" /\ call[g].op = "Set" /\ call[g].on = a /\ call[g].field = f
True(a) ==
  IF heap[a] = None THEN cache[a] = NoEntry
  ELSE \A f \in Field : Agrees(a, f) \/ Setting(a, f)
Configs == Alone /\ Read /\ \A a \in Addr : ~Freeing(a) => True(a)

\* A group is held when it is whole, closed when it is shut.
Making(g) ==
  \/ call[g].stage \in {"rank", "size"}
  \/ call[g].stage = "after" /\ call[g].op = "Init"
Whole(h) ==
  group[h].made =>
    /\ group[h].shut \/ group[h].known => group[h].held
    /\ group[h].known /\ group[h].shut => group[h].closed
OfGroup(g) ==
  /\ Active(g) /\ call[g].on \in Handle => group[call[g].on].made /\ group[call[g].on].held
  /\ Active(g) /\ call[g].late => call[g].on \in Handle /\ group[call[g].on].shut
  /\ call[g].stage \in {"answer", "c"} /\ call[g].late /\ call[g].op \in Checked =>
       ~group[call[g].on].known
  /\ Making(g) => group[call[g].val].made /\ ~group[call[g].val].held
Groups ==
  /\ \A h \in Handle : Whole(h)
  /\ \A g \in Goroutine : OfGroup(g)
  /\ \A g, k \in Goroutine : g # k /\ Making(g) /\ Making(k) => call[g].val # call[k].val

\* What a group answers from Go reaches C as what its config held when C made it.
Answers ==
  ~reused =>
    /\ \A a \in Addr : Freeing(a) => heap[a] = None
    /\ \A h \in Handle : Known(h) =>
         Int32(group[h].rank) = group[h].c.rank /\ group[h].size = group[h].c.size
    /\ \A g \in Goroutine : call[g].stage \in {"rank", "size"} =>
         /\ group[call[g].val].c.rank = heap[call[g].on]["rank"]
         /\ group[call[g].val].c.size = heap[call[g].on]["size"]
         /\ call[g].stage = "size" => Int32(group[call[g].val].rank) = group[call[g].val].c.rank

JacclcInv == TypeOK /\ Operands /\ Loading /\ Threads /\ Configs /\ Groups /\ Answers

USE JacclcAssumption

-----------------------------------------------------------------------------
(* The conversions on the way to C.                                         *)

\* An int of C is one already, and so are the ranks that C itself gives a config.
LEMMA Int32Facts ==
  /\ \A v \in Value : Int32(v) \in Value /\ Int32(Int32(v)) = Int32(v)
  /\ Int32(-1) = -1 /\ Int32(0) = 0 /\ Int32(1) = 1
<1>1. ASSUME NEW v \in Int, -Half <= v, v < Half PROVE Int32(v) = v
  <2>1. v + Half \in 0 .. 2 * Half - 1 /\ 2 * Half \in Nat \ {0}
    BY <1>1
  <2>2. \A n \in Nat \ {0} : \A m \in 0 .. n - 1 : m % n = m
    OBVIOUS
  <2>3. (v + Half) % (2 * Half) = v + Half
    BY <2>1, <2>2
  <2> QED
    BY <1>1, <2>3 DEF Int32
<1>2. ASSUME NEW v \in Int PROVE Int32(v) \in Int /\ -Half <= Int32(v) /\ Int32(v) < Half
  <2>1. v + Half \in Int /\ 2 * Half \in Nat \ {0}
    BY <1>2
  <2>2. \A n \in Nat \ {0} : \A m \in Int : m % n \in 0 .. n - 1
    OBVIOUS
  <2>3. (v + Half) % (2 * Half) \in 0 .. 2 * Half - 1
    BY <2>1, <2>2
  <2> QED
    BY <2>3 DEF Int32
<1>3. ASSUME NEW v \in Value PROVE Int32(v) \in Value /\ Int32(Int32(v)) = Int32(v)
  <2>1. v \in Int
    BY DEF Value
  <2>2. Int32(v) \in Value
    BY <1>2, <2>1 DEF Value
  <2> QED
    BY <1>1, <1>2, <2>1, <2>2
<1> QED
  BY <1>1, <1>3

LEMMA PassedFacts ==
  ASSUME NEW f \in Field, NEW v \in Value
  PROVE  /\ Passed(f, v) \in Value
         /\ f = "rank" => Passed(f, v) = Int32(v)
         /\ f \in {"ring", "size"} => Passed(f, v) = v
BY Int32Facts DEF Passed, Value

-----------------------------------------------------------------------------
(* Calls begin.                                                             *)

\* The record of a call that begins.
Fresh(op, on, field, val) ==
  [stage |-> "load", op |-> op, on |-> on, field |-> field, val |-> val,
   path |-> None, thread |-> None, failed |-> FALSE, ok |-> TRUE, msg |-> None,
   late |-> on \in Handle /\ group[on].made /\ group[on].shut]

Begins(g, c) ==
  /\ call[g].stage = "idle" /\ call' = [call EXCEPT ![g] = c]
  /\ UNCHANGED <<program, mu, lib, bound, heap, cache, group, error, reused>>
  /\ c \in Call /\ Fits(c)
  /\ c.stage = "load" /\ c.thread = None /\ ~c.failed
  /\ c.late => c.on \in Handle /\ group[c.on].shut
  /\ c.on \in Addr => c.on \in Usable
  /\ c.on \in Handle => c.on \in Held

LEMMA FreshFits ==
  ASSUME NEW g \in Goroutine, NEW op \in Op, NEW on \in Usable \cup Held \cup {None},
         NEW field \in Field \cup {None}, NEW val \in Value \cup Path \cup {None},
         Begin(g, op, on, field, val), Fits(Fresh(op, on, field, val))
  PROVE  \E c : Begins(g, c)
<1> DEFINE c == Fresh(op, on, field, val)
<1>1. on \in Addr \cup Handle \cup {Nil, None}
  BY DEF Usable, Held
<1>2. c \in Call
  BY <1>1 DEF Fresh, Call, Stage
<1>3. /\ c.stage = "load" /\ c.thread = None /\ ~c.failed /\ c.on = on
      /\ c.late => c.on \in Handle /\ group[c.on].shut
  BY DEF Fresh
<1>4. call[g].stage = "idle" /\ call' = [call EXCEPT ![g] = c]
      /\ UNCHANGED <<program, mu, lib, bound, heap, cache, group, error, reused>>
  BY DEF Begin, Fresh
<1>5. (on \in Addr => on \in Usable) /\ (on \in Handle => on \in Held)
  BY DEF Usable, Held
<1> HIDE DEF c
<1>6. Fits(c)
  BY DEF c
<1> QED
  BY <1>2, <1>3, <1>4, <1>5, <1>6 DEF Begins

LEMMA StartBegins ==
  ASSUME NEW g \in Goroutine, Start(g)
  PROVE  \E c : Begins(g, c)
<1> USE DEF Op, Fits, Fresh, Makers, OnConfig, OnGroup, Usable, Held
<1>1. ASSUME ConfigNew(g) \/ ConfigNewOut(g) \/ ConfigFromEnv(g)
      PROVE  \E c : Begins(g, c)
  BY <1>1, FreshFits DEF ConfigNew, ConfigNewOut, ConfigFromEnv
<1>2. ASSUME ConfigFree(g) \/ IsValid(g) \/ InitConfig(g)
      PROVE  \E c : Begins(g, c)
  <2>1. CASE ConfigFree(g)
    BY <2>1, FreshFits DEF ConfigFree
  <2>2. CASE IsValid(g)
    BY <2>2, FreshFits DEF IsValid
  <2>3. CASE InitConfig(g)
    BY <2>3, FreshFits DEF InitConfig
  <2> QED
    BY <1>2, <2>1, <2>2, <2>3
<1>3. ASSUME NEW f \in AllFields, Set(g, f) \/ Get(g, f)
      PROVE  \E c : Begins(g, c)
  <2>1. CASE Set(g, f)
    <3>1. PICK a \in Usable, v \in Inputs(f) : Begin(g, "Set", a, f, v)
      BY <2>1 DEF Set
    <3>2. v \in Value /\ f \in Field
      BY <1>3, <3>1, <2>1 DEF Inputs, Value, Set, Cut, AllFields
    <3> QED
      BY <3>1, <3>2, FreshFits
  <2>2. CASE Get(g, f)
    BY <2>2, FreshFits DEF Get
  <2> QED
    BY <1>3, <2>1, <2>2
<1>4. ASSUME GroupFree(g) \/ GroupRank(g) \/ GroupSize(g)
      PROVE  \E c : Begins(g, c)
  BY <1>4, FreshFits DEF GroupFree, GroupRank, GroupSize
<1>5. ASSUME NEW op \in {"Barrier", "Reduce", "Gather", "Send", "Raw"},
             \E h \in Held : Begin(g, op, h, None, None)
      PROVE  \E c : Begins(g, c)
  <2>1. PICK h \in Held : Begin(g, op, h, None, None)
    BY <1>5
  <2>2. Fits(Fresh(op, h, None, None))
    BY <2>1
  <2>3. op \in Op
    BY DEF Op
  <2> HIDE DEF Op, Fits, Fresh, Makers, OnConfig, OnGroup, Usable, Held
  <2> QED
    BY <2>1, <2>2, <2>3, FreshFits
<1>6. ASSUME NewGroupFromEnv(g) \/ DTypeSize(g) \/ IsAvailable(g) \/ LastError(g)
      PROVE  \E c : Begins(g, c)
  BY <1>6, FreshFits DEF NewGroupFromEnv, DTypeSize, IsAvailable, LastError
<1>7. ASSUME LoadPath(g)
      PROVE  \E c : Begins(g, c)
  BY <1>7, FreshFits DEF LoadPath
<1> QED
  BY <1>1, <1>2, <1>3, <1>4, <1>5, <1>6, <1>7
     DEF Start, Barrier, Reduce, AllGatherBytes, SendRecv, AllSum, AllSumBytes, AllMaxBytes,
         AllMinBytes, ConfigSetCoordinator, ConfigSetRank, ConfigPreferRing, ConfigSetDevices,
         ConfigCoordinator, ConfigRank, ConfigPrefersRing, ConfigSize, AllFields

-----------------------------------------------------------------------------
(* Calls move: what a step of g does to its record.                         *)

Turns(g, c) == c \in Call /\ call' = [call EXCEPT ![g] = c]

\* d is a later record of the call c.
Later(c, d) == d.op = c.op /\ d.on = c.on /\ d.field = c.field /\ d.late = c.late
Alike(c, d) == Later(c, d) /\ d.thread = c.thread /\ d.failed = c.failed

GoesWith(g, stage, value) == call' = [call EXCEPT ![g].stage = stage, ![g].val = value]
GoesAs(g, op, stage) == call' = [call EXCEPT ![g].op = op, ![g].stage = stage]
GoesOn(g, a) == call' = [call EXCEPT ![g].stage = "done", ![g].on = a]

LEMMA InCall ==
  ASSUME TypeOK, Operands, NEW g \in Goroutine, Active(g)
  PROVE  call[g] \in Call /\ Fits(call[g])
BY DEF TypeOK, Operands, Active, Idle

LEMMA TurnFacts ==
  ASSUME TypeOK, NEW g \in Goroutine, NEW c, call' = [call EXCEPT ![g] = c]
  PROVE  call'[g] = c /\ \A k \in Goroutine : k # g => call'[k] = call[k]
BY DEF TypeOK

LEMMA GoesTurns ==
  ASSUME TypeOK, Operands, NEW g \in Goroutine, Active(g), NEW stage \in Stage, Goes(g, stage)
  PROVE  \E c : /\ Turns(g, c) /\ c.stage = stage /\ Alike(call[g], c)
                /\ c.val = call[g].val /\ c.path = call[g].path
                /\ c.ok = call[g].ok /\ c.msg = call[g].msg
<1> DEFINE c == [call[g] EXCEPT !.stage = stage]
<1>1. call \in [Goroutine -> Call \cup {Idle}] /\ call[g] \in Call
  BY InCall DEF TypeOK
<1>2. c \in Call
  BY <1>1 DEF Call
<1>3. /\ c.stage = stage
      /\ Alike(call[g], c)
      /\ c.val = call[g].val
      /\ c.path = call[g].path
      /\ c.ok = call[g].ok
      /\ c.msg = call[g].msg
  BY <1>1 DEF Call, Alike, Later
<1>4. call' = [call EXCEPT ![g] = c]
  BY <1>1 DEF Goes
<1> HIDE DEF c
<1> QED
  BY <1>2, <1>3, <1>4 DEF Turns

LEMMA DoneTurns ==
  ASSUME TypeOK, Operands, NEW g \in Goroutine, Active(g), NEW ok \in BOOLEAN,
         NEW value \in Value \cup {None}, Done(g, ok, value)
  PROVE  \E c : Turns(g, c) /\ c.stage = "done" /\ Alike(call[g], c)
<1> DEFINE c == [call[g] EXCEPT !.stage = "done", !.ok = ok, !.val = value]
<1>1. call \in [Goroutine -> Call \cup {Idle}] /\ call[g] \in Call
  BY InCall DEF TypeOK
<1>2. c \in Call
  <2>1. "done" \in Stage
    BY DEF Stage
  <2>2. [call[g] EXCEPT !.stage = "done"] \in Call
    BY <1>1, <2>1 DEF Call
  <2>3. value \in Value \cup Handle \cup Path \cup Goroutine \cup {None}
    OBVIOUS
  <2>4. ASSUME NEW d \in Call PROVE [d EXCEPT !.ok = ok] \in Call
    BY DEF Call
  <2>5. ASSUME NEW d \in Call PROVE [d EXCEPT !.val = value] \in Call
    BY <2>3 DEF Call
  <2> QED
    BY <2>2, <2>4, <2>5
<1>3. /\ c.stage = "done"
      /\ Alike(call[g], c)
  BY <1>1 DEF Call, Alike, Later
<1>4. call' = [call EXCEPT ![g] = c]
  BY <1>1 DEF Done
<1> HIDE DEF c
<1> QED
  BY <1>2, <1>3, <1>4 DEF Turns

LEMMA PathTurns ==
  ASSUME TypeOK, Operands, NEW g \in Goroutine, Active(g), NEW p \in Path,
         call' = [call EXCEPT ![g].stage = "publish", ![g].path = p]
  PROVE  \E c : /\ Turns(g, c) /\ c.stage = "publish" /\ Alike(call[g], c)
                /\ c.path = p /\ c.val = call[g].val
<1> DEFINE c == [call[g] EXCEPT !.stage = "publish", !.path = p]
<1>1. call \in [Goroutine -> Call \cup {Idle}] /\ call[g] \in Call
  BY InCall DEF TypeOK
<1>2. c \in Call
  <2>1. "publish" \in Stage
    BY DEF Stage
  <2> QED
    BY <1>1, <2>1 DEF Call
<1>3. /\ c.stage = "publish"
      /\ Alike(call[g], c)
      /\ c.path = p
      /\ c.val = call[g].val
  BY <1>1 DEF Call, Alike, Later
<1>4. call' = [call EXCEPT ![g] = c]
  BY <1>1
<1> HIDE DEF c
<1> QED
  BY <1>2, <1>3, <1>4 DEF Turns

LEMMA LockTurns ==
  ASSUME TypeOK, Operands, NEW g \in Goroutine, Active(g), NEW t \in Thread,
         call' = [call EXCEPT ![g].stage = "c", ![g].thread = t]
  PROVE  \E c : /\ Turns(g, c) /\ c.stage = "c" /\ Later(call[g], c)
                /\ c.thread = t /\ c.failed = call[g].failed /\ c.val = call[g].val
<1> DEFINE c == [call[g] EXCEPT !.stage = "c", !.thread = t]
<1>1. call \in [Goroutine -> Call \cup {Idle}] /\ call[g] \in Call
  BY InCall DEF TypeOK
<1>2. c \in Call
  <2>1. "c" \in Stage
    BY DEF Stage
  <2> QED
    BY <1>1, <2>1 DEF Call
<1>3. /\ c.stage = "c"
      /\ Later(call[g], c)
      /\ c.thread = t
      /\ c.failed = call[g].failed
      /\ c.val = call[g].val
  BY <1>1 DEF Call, Alike, Later
<1>4. call' = [call EXCEPT ![g] = c]
  BY <1>1
<1> HIDE DEF c
<1> QED
  BY <1>2, <1>3, <1>4 DEF Turns

LEMMA FailureTurns ==
  ASSUME TypeOK, Operands, NEW g \in Goroutine, Active(g),
         call' = [call EXCEPT ![g].stage = "error", ![g].failed = TRUE]
  PROVE  \E c : /\ Turns(g, c) /\ c.stage = "error" /\ Later(call[g], c)
                /\ c.thread = call[g].thread /\ c.failed /\ c.val = call[g].val
<1> DEFINE c == [call[g] EXCEPT !.stage = "error", !.failed = TRUE]
<1>1. call \in [Goroutine -> Call \cup {Idle}] /\ call[g] \in Call
  BY InCall DEF TypeOK
<1>2. c \in Call
  <2>1. "error" \in Stage
    BY DEF Stage
  <2> QED
    BY <1>1, <2>1 DEF Call
<1>3. /\ c.stage = "error"
      /\ Later(call[g], c)
      /\ c.thread = call[g].thread
      /\ c.failed
      /\ c.val = call[g].val
  BY <1>1 DEF Call, Alike, Later
<1>4. call' = [call EXCEPT ![g] = c]
  BY <1>1
<1> HIDE DEF c
<1> QED
  BY <1>2, <1>3, <1>4 DEF Turns

LEMMA OnTurns ==
  ASSUME TypeOK, Operands, NEW g \in Goroutine, Active(g), NEW a \in Addr,
         GoesOn(g, a)
  PROVE  \E c : /\ Turns(g, c) /\ c.stage = "done" /\ c.on = a
                /\ c.op = call[g].op /\ c.field = call[g].field /\ c.late = call[g].late
                /\ c.thread = call[g].thread /\ c.failed = call[g].failed
<1> DEFINE c == [call[g] EXCEPT !.stage = "done", !.on = a]
<1>1. call \in [Goroutine -> Call \cup {Idle}] /\ call[g] \in Call
  BY InCall DEF TypeOK
<1>2. c \in Call
  <2>1. "done" \in Stage
    BY DEF Stage
  <2> QED
    BY <1>1, <2>1 DEF Call
<1>3. /\ c.stage = "done"
      /\ c.on = a
      /\ c.op = call[g].op
      /\ c.field = call[g].field
      /\ c.late = call[g].late
      /\ c.thread = call[g].thread
      /\ c.failed = call[g].failed
  BY <1>1 DEF Call, Alike, Later
<1>4. call' = [call EXCEPT ![g] = c]
  BY <1>1 DEF GoesOn
<1> HIDE DEF c
<1> QED
  BY <1>2, <1>3, <1>4 DEF Turns

LEMMA ValueTurns ==
  ASSUME TypeOK, Operands, NEW g \in Goroutine, Active(g), NEW stage \in Stage,
         NEW value \in Value \cup Handle \cup Goroutine \cup {None},
         GoesWith(g, stage, value)
  PROVE  \E c : Turns(g, c) /\ c.stage = stage /\ Alike(call[g], c) /\ c.val = value
<1> DEFINE c == [call[g] EXCEPT !.stage = stage, !.val = value]
<1>1. call \in [Goroutine -> Call \cup {Idle}] /\ call[g] \in Call
  BY InCall DEF TypeOK
<1>2. c \in Call
  BY <1>1 DEF Call
<1>3. /\ c.stage = stage
      /\ Alike(call[g], c)
      /\ c.val = value
  BY <1>1 DEF Call, Alike, Later
<1>4. call' = [call EXCEPT ![g] = c]
  BY <1>1 DEF GoesWith
<1> HIDE DEF c
<1> QED
  BY <1>2, <1>3, <1>4 DEF Turns

LEMMA OpTurns ==
  ASSUME TypeOK, Operands, NEW g \in Goroutine, Active(g), NEW op \in Op, NEW stage \in Stage,
         GoesAs(g, op, stage)
  PROVE  \E c : /\ Turns(g, c) /\ c.stage = stage /\ c.op = op /\ c.on = call[g].on
                /\ c.field = call[g].field /\ c.late = call[g].late
                /\ c.thread = call[g].thread /\ c.failed = call[g].failed
<1> DEFINE c == [call[g] EXCEPT !.op = op, !.stage = stage]
<1>1. call \in [Goroutine -> Call \cup {Idle}] /\ call[g] \in Call
  BY InCall DEF TypeOK
<1>2. c \in Call
  BY <1>1 DEF Call
<1>3. /\ c.stage = stage
      /\ c.op = op
      /\ c.on = call[g].on
      /\ c.field = call[g].field
      /\ c.late = call[g].late
      /\ c.thread = call[g].thread
      /\ c.failed = call[g].failed
  BY <1>1 DEF Call, Alike, Later
<1>4. call' = [call EXCEPT ![g] = c]
  BY <1>1 DEF GoesAs
<1> HIDE DEF c
<1> QED
  BY <1>2, <1>3, <1>4 DEF Turns

LEMMA ErrorTurns ==
  ASSUME TypeOK, Operands, NEW g \in Goroutine, Active(g), NEW t \in Thread,
         call' = [call EXCEPT ![g].stage = "done", ![g].msg = error[t],
                              ![g].ok = Quiet(call[g]) /\ error[t] = None]
  PROVE  \E c : /\ Turns(g, c) /\ c.stage = "done" /\ Alike(call[g], c)
                /\ c.msg = error[t] /\ (c.ok => error[t] = None)
<1> DEFINE ok == Quiet(call[g]) /\ error[t] = None
           c == [call[g] EXCEPT !.stage = "done", !.msg = error[t], !.ok = ok]
<1>1. /\ call \in [Goroutine -> Call \cup {Idle}] /\ call[g] \in Call
      /\ error[t] \in Goroutine \cup {None} /\ ok \in BOOLEAN
  BY InCall DEF TypeOK
<1>2. c \in Call
  <2>1. "done" \in Stage
    BY DEF Stage
  <2>2. [call[g] EXCEPT !.stage = "done"] \in Call
    BY <1>1, <2>1 DEF Call
  <2>3. ASSUME NEW d \in Call PROVE [d EXCEPT !.msg = error[t]] \in Call
    BY <1>1 DEF Call
  <2>4. ASSUME NEW d \in Call PROVE [d EXCEPT !.ok = ok] \in Call
    <3> HIDE DEF ok
    <3> QED
      BY <1>1 DEF Call
  <2> QED
    BY <2>2, <2>3, <2>4
<1>3. c.stage = "done" /\ c.msg = error[t] /\ Alike(call[g], c)
  <2> HIDE DEF ok
  <2> QED
    BY <1>1 DEF Call, Alike, Later
<1>4. c.ok => ok
  <2> HIDE DEF ok
  <2> QED
    BY <1>1 DEF Call
<1>5. call' = [call EXCEPT ![g] = c]
  BY <1>1
<1>6. c.ok => error[t] = None
  BY <1>4
<1> HIDE DEF c
<1> QED
  BY <1>2, <1>3, <1>5, <1>6 DEF Turns

-----------------------------------------------------------------------------
(* What a step of g leaves alone, part by part.                             *)

LEMMA OperandsFrame ==
  ASSUME TypeOK, Operands, NEW g \in Goroutine, NEW c,
         call' = [call EXCEPT ![g] = c], c = Idle \/ (c \in Call /\ Fits(c))
  PROVE  call' \in [Goroutine -> Call \cup {Idle}] /\ Operands'
<1>1. call' \in [Goroutine -> Call \cup {Idle}]
  BY DEF TypeOK
<1>2. ASSUME NEW k \in Goroutine, call'[k].stage # "idle" PROVE Fits(call'[k])
  BY <1>2 DEF TypeOK, Operands, Active, Idle
<1> QED
  BY <1>1, <1>2 DEF Operands, Active

\* No step of g lets go of loadMu for another goroutine.
LEMMA LoadingFrame ==
  ASSUME TypeOK, Loading, NEW g \in Goroutine, NEW c, call' = [call EXCEPT ![g] = c],
         UNCHANGED <<lib, bound>>, mu' = mu \/ mu = g,
         c.stage \notin {"mutex", "publish"},
         c.stage \in {"check", "answer", "c", "after", "rank", "size", "error"} => lib # None
  PROVE  Loading'
<1>1. call'[g] = c /\ \A k \in Goroutine : k # g => call'[k] = call[k]
  BY TurnFacts
<1> QED
  BY <1>1 DEF Loading

\* A thread that g is on is not one that another goroutine is locked to.
LEMMA OnOwn ==
  ASSUME Threads, NEW g \in Goroutine, Active(g), NEW t \in On(g),
         NEW k \in Goroutine, k # g, Active(k), call[k].thread # None
  PROVE  call[k].thread # t
<1>1. CASE call[g].thread # None
  BY <1>1 DEF Threads, Apart, On
<1>2. CASE call[g].thread = None
  BY <1>2 DEF On, Pinned, Active
<1> QED
  BY <1>1, <1>2

LEMMA ThreadsFrame ==
  ASSUME TypeOK, Threads, NEW g \in Goroutine, NEW c, call' = [call EXCEPT ![g] = c],
         \/ c.stage = "idle"
         \/ c.thread \in {None} \cup (Thread \ Pinned)
         \/ Active(g) /\ c.thread = call[g].thread,
         \A k \in Goroutine : k # g /\ Active(k) /\ call[k].thread # None =>
           error'[call[k].thread] = error[call[k].thread],
         Message(g)'
  PROVE  Threads'
<1>1. call'[g] = c /\ \A k \in Goroutine : k # g => call'[k] = call[k]
  BY TurnFacts
<1>2. ASSUME NEW k \in Goroutine, NEW l \in Goroutine PROVE Apart(k, l)'
  <2>1. CASE k # g /\ l # g
    BY <1>1, <2>1 DEF Threads, Apart, Active
  <2>2. ASSUME NEW m \in Goroutine, m # g, Active(m), c.stage # "idle",
               c.thread # None \/ call[m].thread # None
        PROVE  c.thread # call[m].thread
    <3>1. CASE c.thread \in {None} \cup (Thread \ Pinned)
      BY <2>2, <3>1 DEF Pinned, Active
    <3>2. CASE Active(g) /\ c.thread = call[g].thread
      BY <2>2, <3>2 DEF Threads, Apart
    <3> QED
      BY <2>2, <3>1, <3>2
  <2>3. CASE k = g /\ l # g
    BY <1>1, <2>2, <2>3 DEF Apart, Active
  <2>4. CASE k # g /\ l = g
    BY <1>1, <2>2, <2>4 DEF Apart, Active
  <2> QED
    BY <2>1, <2>3, <2>4 DEF Apart
<1>3. ASSUME NEW k \in Goroutine, k # g PROVE Message(k)'
  BY <1>1, <1>3 DEF Threads, Message, Active
<1> QED
  BY <1>2, <1>3 DEF Threads

\* A step that is not the failure of a C call nor reads its error.
LEMMA ThreadsQuiet ==
  ASSUME TypeOK, Operands, Threads, NEW g \in Goroutine, Active(g), NEW c, Turns(g, c),
         call[g].stage \notin {"error", "done"},
         c.op = call[g].op \/ c.op \notin Slow,
         c.failed = call[g].failed,
         c.thread = call[g].thread \/ c.thread \in Thread \ Pinned,
         c.stage \in {"c", "after", "rank", "size", "error"} /\ c.op \in Slow =>
           call[g].stage \in {"c", "after", "rank", "size"} \/ c.thread \in Thread \ Pinned,
         error' = error \/ \E t \in On(g), v \in Goroutine \cup {None} :
                             error' = [error EXCEPT ![t] = v]
  PROVE  Threads'
<1>1. call'[g] = c /\ call' = [call EXCEPT ![g] = c]
  BY TurnFacts DEF Turns
<1>2. ~call[g].failed
  BY DEF Threads, Message
<1>3. c.op \in Slow /\ c.stage \in {"c", "after", "rank", "size", "error"} => c.thread # None
  BY DEF Threads, Message
<1>4. Message(g)'
  BY <1>1, <1>2, <1>3 DEF Message
<1>5. ASSUME NEW k \in Goroutine, k # g, Active(k), call[k].thread # None
      PROVE  error'[call[k].thread] = error[call[k].thread]
  <2>1. CASE error' = error
    BY <2>1
  <2>2. ASSUME NEW t \in On(g), NEW v \in Goroutine \cup {None},
               error' = [error EXCEPT ![t] = v]
        PROVE  error'[call[k].thread] = error[call[k].thread]
    <3>1. call[k].thread # t
      BY <1>5, OnOwn
    <3>2. call[k].thread \in Thread
      BY <1>5, InCall DEF Call
    <3> QED
      BY <2>2, <3>1, <3>2 DEF TypeOK
  <2> QED
    BY <2>1, <2>2
<1> QED
  BY <1>1, <1>4, <1>5, ThreadsFrame

\* A step that touches no config and no group, away from the stages that follow a C call.
LEMMA PlainFrame ==
  ASSUME JacclcInv, NEW g \in Goroutine, Active(g), NEW c, Turns(g, c),
         UNCHANGED <<heap, cache, group, reused>>,
         call[g].stage \notin {"after", "done"}, c.stage \notin {"after", "rank", "size"},
         c.on = call[g].on, c.late = call[g].late,
         c.op = call[g].op \/ (call[g].op \notin OnConfig /\ c.op \notin OnConfig),
         c.stage \in {"answer", "c"} /\ c.late /\ c.op \in Checked => ~group[c.on].known
  PROVE  Configs' /\ Groups' /\ Answers'
<1>1. call'[g] = c /\ \A k \in Goroutine : k # g => call'[k] = call[k]
  BY TurnFacts DEF Turns, JacclcInv
<1>2. \A k \in Goroutine, a \in Addr : Uses(k, a)' => Uses(k, a)
  BY <1>1 DEF Uses, Active, OnConfig
<1>3. \A a \in Addr, f \in Field : Setting(a, f)' <=> Setting(a, f)
  BY <1>1 DEF Setting
<1>4. \A a \in Addr : Freeing(a)' <=> Freeing(a)
  BY <1>1 DEF Freeing
<1>5. Alone'
  BY <1>2 DEF JacclcInv, Configs, Alone
<1>6. Read'
  BY <1>1 DEF JacclcInv, Configs, Read
<1>7. \A a \in Addr : ~Freeing(a)' => True(a)'
  BY <1>3, <1>4 DEF JacclcInv, Configs, True, Agrees
<1>8. Groups'
  BY <1>1 DEF JacclcInv, Groups, Whole, OfGroup, Making, Active
<1>9. Answers'
  BY <1>1, <1>4 DEF JacclcInv, Answers, Known
<1> QED
  BY <1>5, <1>6, <1>7, <1>8, <1>9 DEF Configs

-----------------------------------------------------------------------------
(* The steps.  Calls begin, load the library and return.                    *)

LEMMA BeginInv ==
  ASSUME JacclcInv, NEW g \in Goroutine, NEW c, Begins(g, c)
  PROVE  JacclcInv'
<1>1. /\ ~Active(g) /\ c \in Call /\ Fits(c) /\ call' = [call EXCEPT ![g] = c]
      /\ c.stage = "load" /\ c.thread = None /\ ~c.failed
      /\ UNCHANGED <<program, mu, lib, bound, heap, cache, group, error, reused>>
  BY DEF Begins, Active
<1>2. TypeOK /\ Operands /\ Loading /\ Threads /\ Configs /\ Groups /\ Answers
  BY DEF JacclcInv
<1>3. call'[g] = c /\ \A k \in Goroutine : k # g => call'[k] = call[k]
  BY <1>1, <1>2, TurnFacts
<1>4. TypeOK' /\ Operands'
  BY <1>1, <1>2, OperandsFrame DEF TypeOK
<1>5. Loading'
  BY <1>1, <1>2, LoadingFrame
<1>6. Threads'
  <2>1. Message(g)'
    BY <1>1, <1>3 DEF Message
  <2> QED
    BY <1>1, <1>2, <2>1, ThreadsFrame
<1>7. \A a \in Addr : Freeing(a)' <=> Freeing(a)
  BY <1>1, <1>3 DEF Freeing, Active
<1>8. Configs'
  <2>1. ASSUME NEW a \in Addr, Uses(g, a)' PROVE heap[a] # None /\ ~Busy(a)
    BY <1>3, <2>1 DEF Uses, Begins, Usable
  <2>2. \A a \in Addr, k \in Goroutine : Uses(k, a) => Busy(a)
    BY DEF Uses, Busy, Active
  <2>3. \A a \in Addr, k \in Goroutine : k # g => (Uses(k, a)' <=> Uses(k, a))
    BY <1>3 DEF Uses, Active
  <2>4. Alone'
    BY <1>1, <1>2, <2>1, <2>2, <2>3 DEF Configs, Alone
  <2>5. Read'
    BY <1>1, <1>2, <1>3 DEF Configs, Read
  <2>6. \A a \in Addr, f \in Field : Setting(a, f)' <=> Setting(a, f)
    BY <1>1, <1>3 DEF Setting, Active
  <2> QED
    BY <1>1, <1>2, <1>7, <2>4, <2>5, <2>6 DEF Configs, True, Agrees
<1>9. Groups'
  <2>1. OfGroup(g)'
    BY <1>1, <1>3 DEF OfGroup, Begins, Held, Making
  <2> QED
    BY <1>1, <1>2, <1>3, <2>1 DEF Groups, Whole, OfGroup, Making, Active
<1>10. Answers'
  BY <1>1, <1>2, <1>3, <1>7 DEF Answers, Known
<1> QED
  BY <1>4, <1>5, <1>6, <1>8, <1>9, <1>10 DEF JacclcInv

LEMMA ReturnInv ==
  ASSUME JacclcInv, NEW g \in Goroutine, Return(g)
  PROVE  JacclcInv'
<1>1. /\ call[g].stage = "done" /\ call' = [call EXCEPT ![g] = Idle]
      /\ UNCHANGED <<program, mu, lib, bound, heap, cache, group, error, reused>>
      /\ Idle.stage = "idle"
  BY DEF Return, Idle
<1>2. TypeOK /\ Operands /\ Loading /\ Threads /\ Configs /\ Groups /\ Answers
  BY DEF JacclcInv
<1>3. call'[g] = Idle /\ \A k \in Goroutine : k # g => call'[k] = call[k]
  BY <1>1, <1>2, TurnFacts
<1>4. TypeOK' /\ Operands'
  BY <1>1, <1>2, OperandsFrame DEF TypeOK
<1>5. Loading'
  BY <1>1, <1>2, LoadingFrame
<1>6. Threads'
  <2>1. Message(g)'
    BY <1>1, <1>3 DEF Message, Active
  <2> QED
    BY <1>1, <1>2, <2>1, ThreadsFrame
<1>7. \A a \in Addr : Freeing(a)' <=> Freeing(a)
  BY <1>1, <1>3 DEF Freeing
<1>8. Configs'
  <2>1. \A k \in Goroutine, a \in Addr : Uses(k, a)' => Uses(k, a)
    BY <1>1, <1>3 DEF Uses, Active
  <2>2. \A a \in Addr, f \in Field : Setting(a, f)' <=> Setting(a, f)
    BY <1>1, <1>3 DEF Setting
  <2>3. Alone' /\ Read'
    BY <1>1, <1>2, <1>3, <2>1 DEF Configs, Alone, Read
  <2> QED
    BY <1>1, <1>2, <1>7, <2>2, <2>3 DEF Configs, True, Agrees
<1>9. Groups'
  BY <1>1, <1>2, <1>3 DEF Groups, Whole, OfGroup, Making, Active
<1>10. Answers'
  BY <1>1, <1>2, <1>3, <1>7 DEF Answers, Known
<1> QED
  BY <1>4, <1>5, <1>6, <1>8, <1>9, <1>10 DEF JacclcInv

\* A move within the same call that touches neither configs nor groups.
LEMMA PlainInv ==
  ASSUME JacclcInv, NEW g \in Goroutine, Active(g), NEW c, Turns(g, c), Fits(c), Alike(call[g], c),
         UNCHANGED <<heap, cache, group, reused>>,
         call[g].stage \notin {"after", "rank", "size", "error", "done"},
         c.stage \notin {"after", "rank", "size"},
         c.stage \in {"c", "error"} => call[g].stage = "c" \/ c.op \notin Slow,
         c.stage \in {"answer", "c"} /\ c.late /\ c.op \in Checked => ~group[c.on].known,
         mu' \in Goroutine \cup {None}, lib' \in Path \cup {None},
         bound' \in [Symbol -> Path \cup {None}], Loading',
         error' = error \/ \E t \in On(g), v \in Goroutine \cup {None} :
                             error' = [error EXCEPT ![t] = v]
  PROVE  JacclcInv'
<1>1. TypeOK /\ Operands /\ Threads /\ call[g] \in Call /\ c \in Call
      /\ call' = [call EXCEPT ![g] = c]
  BY InCall DEF JacclcInv, Turns
<1>2. error' \in [Thread -> Goroutine \cup {None}]
  BY <1>1 DEF TypeOK, On, Call
<1>3. TypeOK' /\ Operands'
  BY <1>1, <1>2, OperandsFrame DEF TypeOK
<1>4. c.op = call[g].op /\ c.on = call[g].on /\ c.late = call[g].late
      /\ c.thread = call[g].thread /\ c.failed = call[g].failed
  BY DEF Alike, Later
<1>5. Threads'
  BY <1>1, <1>4, ThreadsQuiet
<1>6. Configs' /\ Groups' /\ Answers'
  BY <1>4, PlainFrame
<1> QED
  BY <1>3, <1>5, <1>6 DEF JacclcInv

\* A step of a call that is not over yet: its operands and the library's part.
LEMMA CallInv ==
  ASSUME JacclcInv, NEW g \in Goroutine, Active(g)
  PROVE  call[g] \in Call /\ Fits(call[g]) /\ TypeOK /\ Operands /\ Loading /\ Threads
BY InCall DEF JacclcInv

LEMMA PrologueStage ==
  ASSUME NEW g \in Goroutine
  PROVE  /\ Prologue(g) \in {"check", "answer"} /\ Prologue(g) \in Stage
         /\ call[g].op \in Checked => Prologue(g) = "check"
BY DEF Prologue, Stage

LEMMA EnsureLoadedInv ==
  ASSUME JacclcInv, NEW g \in Goroutine, EnsureLoaded(g)
  PROVE  JacclcInv'
<1>1. /\ call[g].stage = "load" /\ Active(g) /\ lib # None /\ Goes(g, Prologue(g))
      /\ UNCHANGED <<program, mu, lib, bound, heap, cache, group, error, reused>>
  BY DEF EnsureLoaded, Active
<1>2. call[g] \in Call /\ Fits(call[g]) /\ TypeOK /\ Operands /\ Loading
  BY <1>1, CallInv
<1>3. PICK c : /\ Turns(g, c) /\ c.stage = Prologue(g) /\ Alike(call[g], c)
               /\ c.val = call[g].val /\ c.path = call[g].path
  BY <1>1, <1>2, GoesTurns, PrologueStage
<1>4. Fits(c)
  BY <1>1, <1>2, <1>3, PrologueStage DEF Fits, Alike, Later
<1>5. Loading'
  BY <1>1, <1>2, <1>3, PrologueStage, LoadingFrame DEF Turns
<1>6. mu \in Goroutine \cup {None} /\ lib \in Path \cup {None}
      /\ bound \in [Symbol -> Path \cup {None}]
  BY <1>2 DEF TypeOK
<1> QED
  BY <1>1, <1>3, <1>4, <1>5, <1>6, PrologueStage, PlainInv DEF Alike, Later

LEMMA TakeLoadMuInv ==
  ASSUME JacclcInv, NEW g \in Goroutine, TakeLoadMu(g)
  PROVE  JacclcInv'
<1>1. /\ call[g].stage = "load" /\ Active(g) /\ mu = None /\ mu' = g /\ Goes(g, "mutex")
      /\ UNCHANGED <<program, lib, bound, heap, cache, group, error, reused>>
  BY DEF TakeLoadMu, Active
<1>2. call[g] \in Call /\ Fits(call[g]) /\ TypeOK /\ Operands /\ Loading
  BY <1>1, CallInv
<1>3. PICK c : /\ Turns(g, c) /\ c.stage = "mutex" /\ Alike(call[g], c)
               /\ c.val = call[g].val /\ c.path = call[g].path
  <2>1. "mutex" \in Stage
    BY DEF Stage
  <2> QED
    BY <1>1, <1>2, <2>1, GoesTurns
<1>4. Fits(c)
  BY <1>1, <1>2, <1>3 DEF Fits, Alike, Later
<1>5. Loading'
  <2>1. call'[g] = c /\ \A k \in Goroutine : k # g => call'[k] = call[k]
    BY <1>2, <1>3, TurnFacts DEF Turns
  <2> QED
    BY <1>1, <1>2, <1>3, <2>1 DEF Loading
<1>6. mu' \in Goroutine \cup {None} /\ lib \in Path \cup {None}
      /\ bound \in [Symbol -> Path \cup {None}]
  BY <1>1, <1>2 DEF TypeOK
<1> QED
  BY <1>1, <1>3, <1>4, <1>5, <1>6, PlainInv

LEMMA AlreadyLoadedInv ==
  ASSUME JacclcInv, NEW g \in Goroutine, AlreadyLoaded(g)
  PROVE  JacclcInv'
<1>1. /\ call[g].stage = "mutex" /\ Active(g) /\ lib # None /\ mu' = None
      /\ UNCHANGED <<program, lib, bound, heap, cache, group, error, reused>>
  BY DEF AlreadyLoaded, Active
<1>2. call[g] \in Call /\ Fits(call[g]) /\ TypeOK /\ Operands /\ Loading /\ mu = g
  BY <1>1, CallInv DEF Loading
<1>3. PICK c : /\ Turns(g, c) /\ Alike(call[g], c) /\ Fits(c)
               /\ c.stage \in {"check", "answer", "done"}
               /\ c.op \in Checked => c.stage \in {"check", "done"}
  <2>1. CASE call[g].op = "LoadPath"
    <3>1. PICK c : Turns(g, c) /\ c.stage = "done" /\ Alike(call[g], c)
      <4>1. Done(g, call[g].val = lib, None)
        BY <2>1 DEF AlreadyLoaded
      <4>2. (call[g].val = lib) \in BOOLEAN /\ None \in Value \cup {None}
        OBVIOUS
      <4> QED
        BY <1>1, <1>2, <4>1, <4>2, DoneTurns
    <3>2. Fits(c)
      BY <1>1, <1>2, <2>1, <3>1 DEF Fits, Alike, Later, Makers, OnConfig, OnGroup
    <3> QED
      BY <3>1, <3>2
  <2>2. CASE call[g].op # "LoadPath"
    <3>1. Goes(g, Prologue(g))
      BY <2>2 DEF AlreadyLoaded
    <3>2. PICK c : /\ Turns(g, c) /\ c.stage = Prologue(g) /\ Alike(call[g], c)
                   /\ c.val = call[g].val /\ c.path = call[g].path
      BY <1>1, <1>2, <3>1, GoesTurns, PrologueStage
    <3>3. Fits(c)
      BY <1>1, <1>2, <3>2, PrologueStage DEF Fits, Alike, Later
    <3> QED
      BY <3>2, <3>3, PrologueStage DEF Alike, Later
  <2> QED
    BY <2>1, <2>2
<1>4. Loading'
  <2>1. mu' = mu \/ mu = g
    BY <1>2
  <2> QED
    BY <1>1, <1>2, <1>3, <2>1, LoadingFrame DEF Turns
<1>5. mu' \in Goroutine \cup {None} /\ lib \in Path \cup {None}
      /\ bound \in [Symbol -> Path \cup {None}]
  BY <1>1, <1>2 DEF TypeOK
<1> QED
  BY <1>1, <1>3, <1>4, <1>5, PlainInv

LEMMA RegisterInv ==
  ASSUME JacclcInv, NEW g \in Goroutine, Register(g)
  PROVE  JacclcInv'
<1>1. /\ call[g].stage = "mutex" /\ Active(g) /\ lib = None
      /\ UNCHANGED <<program, lib, heap, cache, group, error, reused>>
  BY DEF Register, Active
<1>2. call[g] \in Call /\ Fits(call[g]) /\ TypeOK /\ Operands /\ Loading /\ mu = g
  BY <1>1, CallInv DEF Loading
<1>3. PICK p \in Resolved(call[g]) :
        /\ bound' = IF p = None THEN bound ELSE Registered(p)
        /\ IF p # None /\ Exports[p] = Symbol
           THEN call' = [call EXCEPT ![g].stage = "publish", ![g].path = p] /\ UNCHANGED mu
           ELSE Done(g, FALSE, None) /\ mu' = None
  BY DEF Register
<1>4. p \in Path \cup {None}
  BY <1>1, <1>2 DEF Resolved, Fits
<1>5. bound' \in [Symbol -> Path \cup {None}]
  BY <1>2, <1>3, <1>4 DEF Registered, TypeOK
<1>6. mu' \in Goroutine \cup {None} /\ lib' \in Path \cup {None}
  BY <1>1, <1>2, <1>3 DEF TypeOK
\* No other goroutine is past the load, nor holds the lock.
<1>7. \A k \in Goroutine : k # g =>
        call[k].stage \notin {"mutex", "publish", "check", "answer", "c", "after", "rank",
                              "size", "error"}
  BY <1>1, <1>2 DEF Loading
<1>8. CASE p # None /\ Exports[p] = Symbol
  <2>1. PICK c : /\ Turns(g, c) /\ c.stage = "publish" /\ Alike(call[g], c)
                 /\ c.path = p /\ c.val = call[g].val
    BY <1>1, <1>2, <1>3, <1>4, <1>8, PathTurns
  <2>2. Fits(c)
    BY <1>1, <1>2, <1>4, <1>8, <2>1 DEF Fits, Alike, Later
  <2>3. \A s \in Symbol : bound'[s] = p
    BY <1>3, <1>8 DEF Registered
  <2>4. call'[g] = c /\ \A k \in Goroutine : k # g => call'[k] = call[k]
    BY <1>2, <2>1, TurnFacts DEF Turns
  <2>5. Loading'
    BY <1>1, <1>2, <1>3, <1>7, <1>8, <2>1, <2>3, <2>4 DEF Loading
  <2> QED
    BY <1>1, <1>5, <1>6, <2>1, <2>2, <2>5, PlainInv
<1>9. CASE ~(p # None /\ Exports[p] = Symbol)
  <2>1. PICK c : Turns(g, c) /\ c.stage = "done" /\ Alike(call[g], c)
    <3>1. Done(g, FALSE, None) /\ None \in Value \cup {None}
      BY <1>3, <1>9
    <3> QED
      BY <1>1, <1>2, <3>1, DoneTurns
  <2>2. Fits(c)
    BY <1>1, <1>2, <2>1 DEF Fits, Alike, Later
  <2>3. call'[g] = c /\ \A k \in Goroutine : k # g => call'[k] = call[k]
    BY <1>2, <2>1, TurnFacts DEF Turns
  <2>4. Loading'
    BY <1>1, <1>7, <2>1, <2>3 DEF Loading
  <2> QED
    BY <1>1, <1>5, <1>6, <2>1, <2>2, <2>4, PlainInv
<1> QED
  BY <1>8, <1>9

LEMMA PublishInv ==
  ASSUME JacclcInv, NEW g \in Goroutine, Publish(g)
  PROVE  JacclcInv'
<1> DEFINE stage == IF call[g].op = "LoadPath" THEN "done" ELSE Prologue(g)
<1>1. /\ call[g].stage = "publish" /\ Active(g) /\ lib' = call[g].path /\ mu' = None
      /\ Goes(g, stage)
      /\ UNCHANGED <<program, bound, heap, cache, group, error, reused>>
  BY DEF Publish, Active
<1>2. call[g] \in Call /\ Fits(call[g]) /\ TypeOK /\ Operands /\ Loading /\ mu = g
  BY <1>1, CallInv DEF Loading
<1>3. stage \in Stage /\ stage \in {"check", "answer", "done"}
      /\ (call[g].op \in Checked => stage \in {"check", "done"})
  BY PrologueStage DEF Stage
<1> HIDE DEF stage
<1>4. PICK c : /\ Turns(g, c) /\ c.stage = stage /\ Alike(call[g], c)
               /\ c.val = call[g].val /\ c.path = call[g].path
  BY <1>1, <1>2, <1>3, GoesTurns
<1>5. Fits(c)
  BY <1>1, <1>2, <1>3, <1>4 DEF Fits, Alike, Later
<1>6. call[g].path \in Path /\ lib = None /\ \A s \in Symbol : bound[s] = call[g].path
  BY <1>1, <1>2 DEF Fits, Loading
<1>7. Loading'
  <2>1. call'[g] = c /\ \A k \in Goroutine : k # g => call'[k] = call[k]
    BY <1>2, <1>4, TurnFacts DEF Turns
  <2>2. \A k \in Goroutine : k # g => call[k].stage \notin {"mutex", "publish"}
    BY <1>2 DEF Loading
  <2> QED
    BY <1>1, <1>3, <1>4, <1>6, <2>1, <2>2 DEF Loading
<1>8. mu' \in Goroutine \cup {None} /\ lib' \in Path \cup {None}
      /\ bound' \in [Symbol -> Path \cup {None}]
  BY <1>1, <1>2, <1>6 DEF TypeOK
<1> QED
  BY <1>1, <1>3, <1>4, <1>5, <1>7, <1>8, PlainInv DEF Alike, Later

-----------------------------------------------------------------------------
(* What the wrapper answers itself, and the calls that change no config and  *)
(* no group.                                                                 *)

LEMMA CheckClosedInv ==
  ASSUME JacclcInv, NEW g \in Goroutine, CheckClosed(g)
  PROVE  JacclcInv'
<1>1. /\ call[g].stage = "check" /\ Active(g)
      /\ IF Closed(call[g].on) THEN Done(g, FALSE, None) ELSE Goes(g, "answer")
      /\ UNCHANGED <<program, mu, lib, bound, heap, cache, group, error, reused>>
  BY DEF CheckClosed, Active
<1>2. call[g] \in Call /\ Fits(call[g]) /\ TypeOK /\ Operands /\ Loading /\ Threads
  BY <1>1, CallInv
<1>3. PICK c : /\ Turns(g, c) /\ Alike(call[g], c) /\ Fits(c)
               /\ c.stage = "done" \/ (c.stage = "answer" /\ ~Closed(call[g].on))
  <2>1. CASE Closed(call[g].on)
    <3>1. PICK c : Turns(g, c) /\ c.stage = "done" /\ Alike(call[g], c)
      <4>1. Done(g, FALSE, None) /\ None \in Value \cup {None}
        BY <1>1, <2>1
      <4> QED
        BY <1>1, <1>2, <4>1, DoneTurns
    <3>2. Fits(c)
      BY <1>1, <1>2, <3>1 DEF Fits, Alike, Later
    <3> QED
      BY <3>1, <3>2
  <2>2. CASE ~Closed(call[g].on)
    <3>1. "answer" \in Stage
      BY DEF Stage
    <3>2. PICK c : /\ Turns(g, c) /\ c.stage = "answer" /\ Alike(call[g], c)
                   /\ c.val = call[g].val /\ c.path = call[g].path
      BY <1>1, <1>2, <2>2, <3>1, GoesTurns
    <3>3. Fits(c)
      BY <1>1, <1>2, <3>2 DEF Fits, Alike, Later
    <3> QED
      BY <2>2, <3>2, <3>3
  <2> QED
    BY <2>1, <2>2
<1>4. Loading'
  <2>1. lib # None
    BY <1>1, <1>2 DEF Loading
  <2> QED
    BY <1>1, <1>2, <1>3, <2>1, LoadingFrame DEF Turns
\* What was shut when the call began would have been closed.
<1>5. c.stage = "answer" /\ c.late => ~group[c.on].known
  <2>1. c.on = call[g].on /\ c.late = call[g].late
    BY <1>3 DEF Alike, Later
  <2>2. call[g].late => call[g].on \in Handle /\ group[call[g].on].shut
                        /\ group[call[g].on].made /\ Whole(call[g].on)
    BY <1>1 DEF JacclcInv, Groups, OfGroup
  <2> QED
    BY <1>3, <2>1, <2>2 DEF Closed, Known, Whole
<1>6. mu \in Goroutine \cup {None} /\ lib \in Path \cup {None}
      /\ bound \in [Symbol -> Path \cup {None}]
  BY <1>2 DEF TypeOK
<1> QED
  BY <1>1, <1>3, <1>4, <1>5, <1>6, PlainInv

\* What Go answers is a value.
LEMMA AnswerType ==
  ASSUME JacclcInv, NEW g \in Goroutine, call[g].stage = "answer"
  PROVE  Answer(call[g]) \in Value \cup {None}
<1>1. call[g] \in Call /\ Fits(call[g]) /\ TypeOK
  BY CallInv DEF Active
<1>2. CASE call[g].op = "Get" /\ call[g].on \in Addr
  BY <1>1, <1>2 DEF Answer, Fits, TypeOK
<1>3. CASE call[g].op = "GroupGet" /\ Known(call[g].on) /\ ~Closed(call[g].on)
  <2>1. group[call[g].on] \in Group
    BY <1>1, <1>3 DEF Known, TypeOK, NoGroup
  <2> QED
    BY <1>3, <2>1 DEF Answer, Group
<1>4. CASE /\ ~(call[g].op = "Get" /\ call[g].on \in Addr)
           /\ ~(call[g].op = "GroupGet" /\ Known(call[g].on) /\ ~Closed(call[g].on))
  <2>1. 1 \in Value
    BY DEF Value
  <2> QED
    BY <1>4, <2>1 DEF Answer
<1> QED
  BY <1>2, <1>3, <1>4

LEMMA CheckInv ==
  ASSUME JacclcInv, NEW g \in Goroutine, Check(g)
  PROVE  JacclcInv'
<1> DEFINE answer == Answer(call[g])
<1>1. /\ call[g].stage = "answer" /\ Active(g)
      /\ UNCHANGED <<program, mu, lib, bound, heap, cache, group, error, reused>>
      /\ IF answer # None THEN Done(g, TRUE, answer)
         ELSE IF Locked(call[g])
         THEN \E t \in Thread \ Pinned :
                call' = [call EXCEPT ![g].stage = "c", ![g].thread = t]
         ELSE Goes(g, "c")
  BY DEF Check, Active
<1>2. call[g] \in Call /\ Fits(call[g]) /\ TypeOK /\ Operands /\ Loading /\ Threads
  BY <1>1, CallInv
<1>3. answer \in Value \cup {None}
  BY <1>1, AnswerType
<1> HIDE DEF answer
<1>4. lib # None /\ (call[g].late /\ call[g].op \in Checked => ~group[call[g].on].known)
  BY <1>1, <1>2 DEF Loading, JacclcInv, Groups, OfGroup
<1>5. mu \in Goroutine \cup {None} /\ lib \in Path \cup {None}
      /\ bound \in [Symbol -> Path \cup {None}]
  BY <1>2 DEF TypeOK
<1>6. CASE answer # None
  <2>1. PICK c : Turns(g, c) /\ c.stage = "done" /\ Alike(call[g], c)
    BY <1>1, <1>2, <1>3, <1>6, DoneTurns
  <2>2. Fits(c)
    BY <1>1, <1>2, <2>1 DEF Fits, Alike, Later
  <2>3. Loading'
    BY <1>1, <1>2, <2>1, LoadingFrame DEF Turns
  <2> QED
    BY <1>1, <1>5, <2>1, <2>2, <2>3, PlainInv
<1>7. CASE answer = None /\ Locked(call[g])
  <2>1. PICK t \in Thread \ Pinned : call' = [call EXCEPT ![g].stage = "c", ![g].thread = t]
    BY <1>1, <1>7
  <2>2. PICK c : /\ Turns(g, c) /\ c.stage = "c" /\ Later(call[g], c)
                 /\ c.thread = t /\ c.failed = call[g].failed /\ c.val = call[g].val
    BY <1>1, <1>2, <2>1, LockTurns
  <2>3. Fits(c)
    BY <1>1, <1>2, <2>2 DEF Fits, Later
  <2>4. Loading'
    BY <1>1, <1>2, <1>4, <2>2, LoadingFrame DEF Turns
  <2>5. Threads'
    BY <1>1, <1>2, <2>1, <2>2, ThreadsQuiet DEF Later
  <2>6. TypeOK' /\ Operands'
    BY <1>1, <1>2, <2>2, <2>3, OperandsFrame DEF TypeOK, Turns
  <2>7. Configs' /\ Groups' /\ Answers'
    BY <1>1, <1>4, <2>2, PlainFrame DEF Later
  <2> QED
    BY <2>4, <2>5, <2>6, <2>7 DEF JacclcInv
<1>8. CASE answer = None /\ ~Locked(call[g])
  <2>1. Goes(g, "c") /\ call[g].op \notin Slow /\ "c" \in Stage
    BY <1>1, <1>8 DEF Locked, Stage
  <2>2. PICK c : /\ Turns(g, c) /\ c.stage = "c" /\ Alike(call[g], c)
                 /\ c.val = call[g].val /\ c.path = call[g].path
    BY <1>1, <1>2, <2>1, GoesTurns
  <2>3. Fits(c)
    BY <1>1, <1>2, <2>2 DEF Fits, Alike, Later
  <2>4. Loading'
    BY <1>1, <1>2, <1>4, <2>2, LoadingFrame DEF Turns
  <2> QED
    BY <1>1, <1>4, <1>5, <2>1, <2>2, <2>3, <2>4, PlainInv DEF Alike, Later
<1> QED
  BY <1>6, <1>7, <1>8

LEMMA FailureInv ==
  ASSUME JacclcInv, NEW g \in Goroutine, Failure(g)
  PROVE  JacclcInv'
<1>1. /\ call[g].stage = "c" /\ Active(g)
      /\ call' = [call EXCEPT ![g].stage = "error", ![g].failed = TRUE]
      /\ UNCHANGED <<program, mu, lib, bound, heap, cache, group, reused>>
  BY DEF Failure, Active
<1>2. call[g] \in Call /\ Fits(call[g]) /\ TypeOK /\ Operands /\ Loading /\ Threads
  BY <1>1, CallInv
<1>3. PICK t \in On(g) : error' = [error EXCEPT ![t] = g]
  BY DEF Failure
<1>4. t \in Thread
  BY <1>2 DEF On, Call
<1>5. PICK c : /\ Turns(g, c) /\ c.stage = "error" /\ Later(call[g], c)
               /\ c.thread = call[g].thread /\ c.failed /\ c.val = call[g].val
  BY <1>1, <1>2, FailureTurns
<1>6. Fits(c)
  BY <1>1, <1>2, <1>5 DEF Fits, Later
<1>7. TypeOK' /\ Operands'
  BY <1>1, <1>2, <1>3, <1>4, <1>5, <1>6, OperandsFrame DEF TypeOK, Turns
<1>8. Loading'
  <2>1. lib # None
    BY <1>1, <1>2 DEF Loading
  <2> QED
    BY <1>1, <1>2, <1>5, <2>1, LoadingFrame DEF Turns
<1>9. Threads'
  <2>1. call'[g] = c /\ call' = [call EXCEPT ![g] = c]
    BY <1>2, <1>5, TurnFacts DEF Turns
  <2>2. call[g].op \in Slow => call[g].thread # None
    BY <1>1, <1>2 DEF Threads, Message
  <2>3. call[g].thread # None => t = call[g].thread
    BY DEF On
  <2>4. error'[t] = g
    BY <1>2, <1>3, <1>4 DEF TypeOK
  <2>5. Message(g)'
    BY <1>5, <2>1, <2>2, <2>3, <2>4 DEF Message, Later
  <2>6. ASSUME NEW k \in Goroutine, k # g, Active(k), call[k].thread # None
        PROVE  error'[call[k].thread] = error[call[k].thread]
    <3>1. call[k].thread # t
      BY <1>1, <1>2, <2>6, OnOwn
    <3>2. call[k].thread \in Thread
      BY <1>2, <2>6, InCall DEF Call
    <3> QED
      BY <1>2, <1>3, <3>1, <3>2 DEF TypeOK
  <2> QED
    BY <1>1, <1>2, <1>5, <2>1, <2>5, <2>6, ThreadsFrame
<1>10. Configs' /\ Groups' /\ Answers'
  BY <1>1, <1>5, PlainFrame DEF Later
<1> QED
  BY <1>7, <1>8, <1>9, <1>10 DEF JacclcInv

LEMMA ReadErrorInv ==
  ASSUME JacclcInv, NEW g \in Goroutine, ReadError(g)
  PROVE  JacclcInv'
<1>1. /\ call[g].stage = "error" /\ Active(g)
      /\ UNCHANGED <<program, mu, lib, bound, heap, cache, group, error, reused>>
  BY DEF ReadError, Active
<1>2. call[g] \in Call /\ Fits(call[g]) /\ TypeOK /\ Operands /\ Loading /\ Threads
  BY <1>1, CallInv
<1>3. PICK t \in On(g) :
        call' = [call EXCEPT ![g].stage = "done", ![g].msg = error[t],
                             ![g].ok = Quiet(call[g]) /\ error[t] = None]
  BY DEF ReadError
<1>4. t \in Thread
  BY <1>2 DEF On, Call
<1>5. PICK c : /\ Turns(g, c) /\ c.stage = "done" /\ Alike(call[g], c)
               /\ c.msg = error[t] /\ (c.ok => error[t] = None)
  BY <1>1, <1>2, <1>3, <1>4, ErrorTurns
<1>6. Fits(c)
  BY <1>1, <1>2, <1>5 DEF Fits, Alike, Later
<1>7. TypeOK' /\ Operands'
  BY <1>1, <1>2, <1>5, <1>6, OperandsFrame DEF TypeOK, Turns
<1>8. Loading'
  BY <1>1, <1>2, <1>5, LoadingFrame DEF Turns
<1>9. Threads'
  <2>1. call'[g] = c /\ call' = [call EXCEPT ![g] = c]
    BY <1>2, <1>5, TurnFacts DEF Turns
  <2>2. call[g].op \in Slow /\ call[g].failed => error[t] = g
    BY <1>1, <1>2 DEF Threads, Message, On
  <2>3. Message(g)'
    BY <1>5, <2>1, <2>2 DEF Message, Alike, Later
  <2> QED
    BY <1>1, <1>2, <1>5, <2>1, <2>3, ThreadsFrame DEF Alike
<1>10. Configs' /\ Groups' /\ Answers'
  BY <1>1, <1>5, PlainFrame DEF Alike, Later
<1> QED
  BY <1>7, <1>8, <1>9, <1>10 DEF JacclcInv

\* From its C call on a call has the library, and its thread if it is locked to one.
LEMMA LateFrame ==
  ASSUME JacclcInv, NEW g \in Goroutine, Active(g),
         call[g].stage \in {"c", "after", "rank", "size"},
         NEW c, Turns(g, c), Fits(c), c.stage \notin {"mutex", "publish"},
         c.op = call[g].op \/ c.op \notin Slow,
         c.thread = call[g].thread, c.failed = call[g].failed,
         UNCHANGED <<mu, lib, bound>>,
         error' = error \/ \E t \in On(g), v \in Goroutine \cup {None} :
                             error' = [error EXCEPT ![t] = v]
  PROVE  /\ Operands' /\ Loading' /\ Threads'
         /\ call' \in [Goroutine -> Call \cup {Idle}]
         /\ error' \in [Thread -> Goroutine \cup {None}]
<1>1. call[g] \in Call /\ TypeOK /\ Operands /\ Loading /\ Threads
  BY CallInv
<1>2. Operands' /\ call' \in [Goroutine -> Call \cup {Idle}]
  BY <1>1, OperandsFrame DEF Turns
<1>3. Loading'
  <2>1. lib # None
    BY <1>1 DEF Loading
  <2> QED
    BY <1>1, <2>1, LoadingFrame DEF Turns
<1>4. Threads'
  BY <1>1, ThreadsQuiet
<1>5. error' \in [Thread -> Goroutine \cup {None}]
  BY <1>1 DEF TypeOK, On, Call
<1> QED
  BY <1>2, <1>3, <1>4, <1>5

LEMMA Success ==
  ASSUME JacclcInv, NEW g \in Goroutine, NEW ops, Succeeds(g, ops)
  PROVE  /\ call[g].stage = "c" /\ Active(g) /\ call[g].op \in ops /\ ~Fails(call[g])
         /\ UNCHANGED <<program, mu, lib, bound, cache>>
         /\ \E t \in On(g), v \in Goroutine \cup {None} : error' = [error EXCEPT ![t] = v]
         /\ TypeOK /\ Operands /\ call[g] \in Call /\ Fits(call[g])
BY CallInv DEF Succeeds, Active

LEMMA QueryInv ==
  ASSUME JacclcInv, NEW g \in Goroutine, CQuery(g)
  PROVE  JacclcInv'
<1>1. Succeeds(g, {"IsValid", "IsAvailable"}) /\ Goes(g, "done")
      /\ UNCHANGED <<heap, group, reused>>
  BY DEF CQuery
<1>2. /\ call[g].stage = "c" /\ Active(g) /\ TypeOK /\ Operands /\ call[g] \in Call
      /\ Fits(call[g]) /\ UNCHANGED <<mu, lib, bound, cache>>
      /\ \E t \in On(g), v \in Goroutine \cup {None} : error' = [error EXCEPT ![t] = v]
  BY <1>1, Success
<1>3. PICK c : Turns(g, c) /\ c.stage = "done" /\ Alike(call[g], c)
  <2>1. "done" \in Stage
    BY DEF Stage
  <2> QED
    BY <1>1, <1>2, <2>1, GoesTurns
<1>4. Fits(c)
  BY <1>2, <1>3 DEF Fits, Alike, Later
<1>5. /\ Operands' /\ Loading' /\ Threads' /\ call' \in [Goroutine -> Call \cup {Idle}]
      /\ error' \in [Thread -> Goroutine \cup {None}]
  BY <1>2, <1>3, <1>4, LateFrame DEF Alike, Later
<1>6. TypeOK'
  BY <1>1, <1>2, <1>5 DEF TypeOK
<1>7. Configs' /\ Groups' /\ Answers'
  BY <1>1, <1>2, <1>3, PlainFrame DEF Alike, Later
<1> QED
  BY <1>5, <1>6, <1>7 DEF JacclcInv

LEMMA LastErrorInv ==
  ASSUME JacclcInv, NEW g \in Goroutine, CLastError(g)
  PROVE  JacclcInv'
<1>1. /\ call[g].stage = "c" /\ Active(g)
      /\ UNCHANGED <<program, mu, lib, bound, heap, cache, group, error, reused>>
  BY DEF CLastError, Active
<1>2. call[g] \in Call /\ Fits(call[g]) /\ TypeOK /\ Operands /\ Loading /\ Threads
  BY <1>1, CallInv
<1>3. PICK t \in On(g) : call' = [call EXCEPT ![g].stage = "done", ![g].val = error[t]]
  BY DEF CLastError
<1>4. error[t] \in Value \cup Handle \cup Goroutine \cup {None}
  BY <1>2 DEF On, Call, TypeOK
<1>5. PICK c : Turns(g, c) /\ c.stage = "done" /\ Alike(call[g], c)
  <2>1. PICK stage \in Stage, value \in Value \cup Handle \cup Goroutine \cup {None} :
          stage = "done" /\ GoesWith(g, stage, value)
    BY <1>3, <1>4 DEF Stage, GoesWith
  <2> QED
    BY <1>1, <1>2, <2>1, ValueTurns
<1>6. Fits(c)
  BY <1>1, <1>2, <1>5 DEF Fits, Alike, Later
<1>7. /\ Operands' /\ Loading' /\ Threads' /\ call' \in [Goroutine -> Call \cup {Idle}]
      /\ error' \in [Thread -> Goroutine \cup {None}]
  BY <1>1, <1>5, <1>6, LateFrame DEF Alike, Later
<1>8. TypeOK'
  BY <1>1, <1>2, <1>7 DEF TypeOK
<1>9. Configs' /\ Groups' /\ Answers'
  BY <1>1, <1>5, PlainFrame DEF Alike, Later
<1> QED
  BY <1>7, <1>8, <1>9 DEF JacclcInv

LEMMA GroupUseInv ==
  ASSUME JacclcInv, NEW g \in Goroutine, CGroupUse(g)
  PROVE  JacclcInv'
<1>1. /\ Succeeds(g, {"GroupGet", "Barrier", "Reduce", "Gather", "Raw", "Send"})
      /\ UNCHANGED <<heap, group, reused>>
  BY DEF CGroupUse
<1>2. /\ call[g].stage = "c" /\ Active(g) /\ TypeOK /\ Operands /\ call[g] \in Call
      /\ Fits(call[g]) /\ UNCHANGED <<mu, lib, bound, cache>>
      /\ call[g].op \in {"GroupGet", "Barrier", "Reduce", "Gather", "Raw", "Send"}
      /\ \E t \in On(g), v \in Goroutine \cup {None} : error' = [error EXCEPT ![t] = v]
  BY <1>1, Success
<1>3. "done" \in Stage /\ "c" \in Stage /\ "Raw" \in Op /\ call[g].op \in Op
  BY <1>2 DEF Stage, Op
<1>4. PICK c : /\ Turns(g, c) /\ c.stage \in {"c", "done"} /\ c.on = call[g].on
               /\ c.field = call[g].field /\ c.late = call[g].late
               /\ c.thread = call[g].thread /\ c.failed = call[g].failed
               /\ (c.op = call[g].op /\ c.stage = "done") \/ c.op = "Raw"
  <2>1. CASE ~(call[g].op = "Gather" /\ ~Known(call[g].on))
    <3>1. Goes(g, "done")
      BY <2>1 DEF CGroupUse
    <3> QED
      BY <1>2, <1>3, <3>1, GoesTurns DEF Alike, Later
  <2>2. CASE call[g].op = "Gather" /\ ~Known(call[g].on)
    <3>1. call' = [call EXCEPT
             ![g].op = IF group[call[g].on].c.size = 1 THEN call[g].op ELSE "Raw",
             ![g].stage = IF group[call[g].on].c.size = 1 THEN "done" ELSE "c"]
      BY <1>2, <2>2 DEF CGroupUse, TypeOK
    <3>2. PICK op \in Op, stage \in Stage :
            /\ GoesAs(g, op, stage)
            /\ (op = call[g].op /\ stage = "done") \/ (op = "Raw" /\ stage = "c")
      BY <1>3, <3>1 DEF GoesAs
    <3> QED
      BY <1>2, <3>2, OpTurns
  <2> QED
    BY <2>1, <2>2
<1>5. c.op \notin Makers \cup OnConfig /\ call[g].op \notin Makers \cup OnConfig
      /\ c.op \in OnGroup /\ call[g].op \in OnGroup
      /\ (c.op \notin Slow \/ c.op = call[g].op) /\ "Raw" \notin Checked
  BY <1>2, <1>4 DEF Makers, OnConfig, OnGroup, Slow, Checked
<1>6. Fits(c)
  BY <1>2, <1>4, <1>5 DEF Fits, Makers, OnConfig
<1>7. /\ Operands' /\ Loading' /\ Threads' /\ call' \in [Goroutine -> Call \cup {Idle}]
      /\ error' \in [Thread -> Goroutine \cup {None}]
  BY <1>2, <1>4, <1>5, <1>6, LateFrame
<1>8. TypeOK'
  BY <1>1, <1>2, <1>7 DEF TypeOK
<1>9. Configs' /\ Groups' /\ Answers'
  BY <1>1, <1>2, <1>4, <1>5, PlainFrame
<1> QED
  BY <1>7, <1>8, <1>9 DEF JacclcInv

-----------------------------------------------------------------------------
(* The configs.                                                             *)

LEMMA ConfigUse ==
  ASSUME JacclcInv, NEW k \in Goroutine,
         \/ call[k].stage \in {"rank", "size"}
         \/ call[k].stage = "after" /\ call[k].op \in {"Set", "Get"}
  PROVE  /\ call[k].on \in Addr /\ Uses(k, call[k].on) /\ heap[call[k].on] # None
         /\ heap[call[k].on] \in Config
<1>1. Active(k) /\ call[k] \in Call /\ Fits(call[k]) /\ TypeOK
  BY CallInv DEF Active
<1>2. call[k].on \in Addr /\ Uses(k, call[k].on)
  BY <1>1 DEF Fits, Uses
<1>3. heap[call[k].on] # None
  BY <1>2 DEF JacclcInv, Configs, Alone
<1> QED
  BY <1>1, <1>2, <1>3 DEF TypeOK

\* A call that makes no group, and is past its C call, changes nothing of the groups.
LEMMA GroupsFrame ==
  ASSUME JacclcInv, NEW g \in Goroutine, NEW c, Turns(g, c), UNCHANGED group,
         Active(g), c.on = call[g].on \/ ~(c.late \/ c.on \in Handle), c.late = call[g].late,
         c.stage \notin {"idle", "answer", "c", "rank", "size"},
         ~(c.stage = "after" /\ c.op = "Init")
  PROVE  Groups'
<1>1. call'[g] = c /\ \A k \in Goroutine : k # g => call'[k] = call[k]
  BY TurnFacts DEF Turns, JacclcInv
<1> QED
  BY <1>1 DEF JacclcInv, Groups, Whole, OfGroup, Making, Active

LEMMA AllocateInv ==
  ASSUME JacclcInv, NEW g \in Goroutine, NEW ops \in SUBSET Makers,
         NEW configs \in SUBSET Config, Allocate(g, ops, configs)
  PROVE  JacclcInv'
<1>1. /\ call[g].stage = "c" /\ Active(g) /\ TypeOK /\ Operands /\ call[g] \in Call
      /\ Fits(call[g]) /\ UNCHANGED <<mu, lib, bound, cache, group>> /\ call[g].op \in Makers
      /\ \E t \in On(g), v \in Goroutine \cup {None} : error' = [error EXCEPT ![t] = v]
  BY Success DEF Allocate
<1>2. PICK a \in {b \in Addr : heap[b] = None}, config \in configs :
        /\ heap' = [heap EXCEPT ![a] = config]
        /\ reused' = (reused \/ Freeing(a))
        /\ GoesOn(g, a)
  BY DEF Allocate, GoesOn
<1>3. config # None /\ a \notin Handle /\ call[g].on = None /\ ~call[g].late
  BY <1>1 DEF Fits, JacclcInv, Groups, OfGroup, Config
<1>4. PICK c : /\ Turns(g, c) /\ c.stage = "done" /\ c.on = a
               /\ c.op = call[g].op /\ c.field = call[g].field /\ c.late = call[g].late
               /\ c.thread = call[g].thread /\ c.failed = call[g].failed
  BY <1>1, <1>2, OnTurns
<1>5. c.op \notin OnConfig \cup OnGroup \cup {"LoadPath"}
  BY <1>1, <1>4 DEF Makers, OnConfig, OnGroup
<1>6. Fits(c)
  BY <1>1, <1>4, <1>5 DEF Fits, OnConfig, OnGroup
<1>7. /\ Operands' /\ Loading' /\ Threads' /\ call' \in [Goroutine -> Call \cup {Idle}]
      /\ error' \in [Thread -> Goroutine \cup {None}]
  BY <1>1, <1>4, <1>6, LateFrame
<1>8. call'[g] = c /\ \A k \in Goroutine : k # g => call'[k] = call[k]
  BY <1>1, <1>4, TurnFacts DEF Turns
<1>9. /\ heap' \in [Addr -> Config \cup {None}] /\ heap'[a] = config
      /\ \A b \in Addr : b # a => heap'[b] = heap[b]
  BY <1>1, <1>2 DEF TypeOK
<1>10. TypeOK'
  <2>1. reused' \in BOOLEAN
    BY <1>1, <1>2 DEF TypeOK
  <2> QED
    BY <1>1, <1>7, <1>9, <2>1 DEF TypeOK
<1>11. \A b \in Addr : Freeing(b)' <=> Freeing(b)
  BY <1>1, <1>4, <1>8 DEF Freeing
\* The calls that use a config use another one.
<1>12. \A k \in Goroutine, b \in Addr : Uses(k, b) => b # a
  BY <1>2 DEF JacclcInv, Configs, Alone
<1>13. \A k \in Goroutine, b \in Addr : k # g => (Uses(k, b)' <=> Uses(k, b))
  BY <1>8 DEF Uses, Active
<1>14. \A b \in Addr : Uses(g, b)' => b = a
  BY <1>4, <1>8 DEF Uses
<1>15. Configs'
  <2>1. Alone'
    BY <1>3, <1>9, <1>12, <1>13, <1>14 DEF JacclcInv, Configs, Alone
  <2>2. Read'
    <3> SUFFICES ASSUME NEW k \in Goroutine, call'[k].stage = "after",
                        call'[k].op \in {"Set", "Get"}
                 PROVE  heap'[call'[k].on][call'[k].field] = Reached(call'[k])
      BY DEF Read
    <3>1. k # g /\ call'[k] = call[k]
      BY <1>4, <1>8
    <3>2. call[k].on \in Addr /\ Uses(k, call[k].on)
      BY <3>1, ConfigUse
    <3>3. heap'[call[k].on] = heap[call[k].on]
      BY <1>9, <1>12, <3>2
    <3> QED
      BY <3>1, <3>3 DEF JacclcInv, Configs, Read
  <2>3. \A b \in Addr, f \in Field : Setting(b, f)' <=> Setting(b, f)
    BY <1>1, <1>4, <1>8 DEF Setting
  <2>4. ASSUME NEW b \in Addr, ~Freeing(b)' PROVE True(b)'
    <3>1. True(b)
      BY <1>11, <2>4 DEF JacclcInv, Configs
    <3>2. CASE b = a
      <4>1. cache'[b] = NoEntry
        BY <1>1, <1>2, <3>1, <3>2 DEF True, Agrees
      <4> QED
        BY <1>3, <1>9, <3>2, <4>1 DEF True, NoEntry, Agrees
    <3>3. CASE b # a
      BY <1>1, <1>9, <2>3, <3>1, <3>3 DEF True, Agrees
    <3> QED
      BY <3>2, <3>3
  <2> QED
    BY <2>1, <2>2, <2>4 DEF Configs
<1>16. Groups'
  BY <1>1, <1>3, <1>4, GroupsFrame
<1>17. Answers'
  <2> SUFFICES ASSUME ~reused' PROVE Answers'
    BY DEF Answers
  <2>1. ~reused /\ ~Freeing(a)
    BY <1>2
  <2>2. \A b \in Addr : Freeing(b)' => heap'[b] = None
    BY <1>9, <1>11, <2>1 DEF JacclcInv, Answers
  <2>3. ASSUME NEW k \in Goroutine, call'[k].stage \in {"rank", "size"}
        PROVE  call'[k] = call[k] /\ heap'[call[k].on] = heap[call[k].on]
    <3>1. call'[k] = call[k]
      BY <1>4, <1>8, <2>3
    <3>2. call[k].on \in Addr /\ Uses(k, call[k].on)
      BY <2>3, <3>1, ConfigUse
    <3> QED
      BY <1>9, <1>12, <3>1, <3>2
  <2> QED
    BY <1>1, <2>1, <2>2, <2>3 DEF JacclcInv, Answers, Known
<1> QED
  BY <1>7, <1>10, <1>15, <1>16, <1>17 DEF JacclcInv

LEMMA NewConfigInv ==
  ASSUME JacclcInv, NEW g \in Goroutine, CNewConfig(g) \/ CConfigFromEnv(g)
  PROVE  JacclcInv'
<1>1. Default \in [Field -> Value] /\ Default["rank"] = -1 /\ Default \in Config
  <2>1. Default \in [Field -> Value] /\ Default["rank"] = -1
    BY DEF Default, Value
  <2> QED
    BY <2>1, Int32Facts DEF Config
<1>2. CASE CNewConfig(g)
  <2>1. {"ConfigNew", "ConfigNewOut"} \in SUBSET Makers /\ {Default} \in SUBSET Config
    BY <1>1 DEF Makers
  <2> QED
    BY <1>2, <2>1, AllocateInv DEF CNewConfig
<1>3. CASE CConfigFromEnv(g)
  <2> DEFINE configs == {[Default EXCEPT !["rank"] = r, !["size"] = n] : r \in {0, 1}, n \in {1, 2}}
  <2>1. ASSUME NEW r \in {0, 1}, NEW n \in {1, 2}
        PROVE  [Default EXCEPT !["rank"] = r, !["size"] = n] \in Config
    <3> DEFINE config == [Default EXCEPT !["rank"] = r, !["size"] = n]
    <3>1. r \in Value /\ n \in Value /\ Int32(r) = r
      BY Int32Facts DEF Value
    <3>2. [Default EXCEPT !["rank"] = r] \in [Field -> Value]
      BY <1>1, <3>1
    <3>3. config \in [Field -> Value] /\ config["rank"] = r
      BY <1>1, <3>1, <3>2
    <3> HIDE DEF config
    <3>4. config \in Config
      BY <3>1, <3>3 DEF Config
    <3> QED
      BY <3>4 DEF config
  <2>2. configs \in SUBSET Config
    <3>1. ASSUME NEW c \in configs PROVE c \in Config
      <4>1. PICK r \in {0, 1}, n \in {1, 2} : c = [Default EXCEPT !["rank"] = r, !["size"] = n]
        OBVIOUS
      <4> HIDE DEF configs
      <4> QED
        BY <2>1, <4>1
    <3> QED
      BY <3>1
  <2>3. {"ConfigFromEnv"} \in SUBSET Makers
    BY DEF Makers
  <2>4. Allocate(g, {"ConfigFromEnv"}, configs)
    BY <1>3 DEF CConfigFromEnv
  <2> HIDE DEF configs
  <2> QED
    BY <2>2, <2>3, <2>4, AllocateInv
<1> QED
  BY <1>2, <1>3

LEMMA ConfigFreeInv ==
  ASSUME JacclcInv, NEW g \in Goroutine, CConfigFree(g)
  PROVE  JacclcInv'
<1>1. /\ call[g].stage = "c" /\ Active(g) /\ TypeOK /\ Operands /\ call[g] \in Call
      /\ Fits(call[g]) /\ UNCHANGED <<mu, lib, bound, cache, group, reused>>
      /\ call[g].op = "ConfigFree"
      /\ \E t \in On(g), v \in Goroutine \cup {None} : error' = [error EXCEPT ![t] = v]
  BY Success DEF CConfigFree
<1>2. call[g].on \in Addr \cup {Nil} /\ "done" \in Stage /\ "after" \in Stage
  BY <1>1 DEF Fits, OnConfig, Stage
<1>3. CASE call[g].on = Nil
  <2>1. Goes(g, "done") /\ UNCHANGED heap
    BY <1>3 DEF CConfigFree
  <2>2. PICK c : Turns(g, c) /\ c.stage = "done" /\ Alike(call[g], c)
    BY <1>1, <1>2, <2>1, GoesTurns
  <2>3. Fits(c)
    BY <1>1, <2>2 DEF Fits, Alike, Later
  <2>4. /\ Operands' /\ Loading' /\ Threads' /\ call' \in [Goroutine -> Call \cup {Idle}]
        /\ error' \in [Thread -> Goroutine \cup {None}]
    BY <1>1, <2>2, <2>3, LateFrame DEF Alike, Later
  <2>5. TypeOK'
    BY <1>1, <2>1, <2>4 DEF TypeOK
  <2>6. Configs' /\ Groups' /\ Answers'
    BY <1>1, <2>1, <2>2, PlainFrame DEF Alike, Later
  <2> QED
    BY <2>4, <2>5, <2>6 DEF JacclcInv
<1>4. CASE call[g].on # Nil
  <2> DEFINE a == call[g].on
  <2>1. a \in Addr /\ Goes(g, "after") /\ heap' = [heap EXCEPT ![a] = None]
    BY <1>2, <1>4 DEF CConfigFree
  <2>2. PICK c : Turns(g, c) /\ c.stage = "after" /\ Alike(call[g], c)
    BY <1>1, <1>2, <2>1, GoesTurns
  <2>3. Fits(c)
    BY <1>1, <2>1, <2>2 DEF Fits, Alike, Later
  <2>4. /\ Operands' /\ Loading' /\ Threads' /\ call' \in [Goroutine -> Call \cup {Idle}]
        /\ error' \in [Thread -> Goroutine \cup {None}]
    BY <1>1, <2>2, <2>3, LateFrame DEF Alike, Later
  <2>5. TypeOK'
    BY <1>1, <2>1, <2>4 DEF TypeOK
  <2>6. call'[g] = c /\ \A k \in Goroutine : k # g => call'[k] = call[k]
    BY <1>1, <2>2, TurnFacts DEF Turns
  <2>7. heap'[a] = None /\ \A b \in Addr : b # a => heap'[b] = heap[b]
    BY <1>1, <2>1 DEF TypeOK
  <2>8. Uses(g, a)
    BY <1>1 DEF Uses
  <2>9. \A k \in Goroutine, b \in Addr : k # g /\ Uses(k, b) => b # a
    BY <2>1, <2>8 DEF JacclcInv, Configs, Alone
  <2>10. c.op = "ConfigFree" /\ c.on = a
    BY <1>1, <2>2 DEF Alike, Later
  <2>11. \A k \in Goroutine, b \in Addr : Uses(k, b)' => k # g /\ Uses(k, b)
    BY <2>2, <2>6, <2>10 DEF Uses, Active
  <2>12. \A b \in Addr : Freeing(b)' <=> (Freeing(b) \/ b = a)
    BY <1>1, <2>2, <2>6, <2>10 DEF Freeing
  <2>13. \A k \in Goroutine :
           call'[k].stage \in {"rank", "size"}
             \/ (call'[k].stage = "after" /\ call'[k].op \in {"Set", "Get"})
           => call'[k] = call[k] /\ heap'[call[k].on] = heap[call[k].on]
    <3> SUFFICES ASSUME NEW k \in Goroutine,
                        call'[k].stage \in {"rank", "size"}
                          \/ (call'[k].stage = "after" /\ call'[k].op \in {"Set", "Get"})
                 PROVE  call'[k] = call[k] /\ heap'[call[k].on] = heap[call[k].on]
      OBVIOUS
    <3>1. k # g /\ call'[k] = call[k]
      BY <2>2, <2>6, <2>10
    <3>2. call[k].on \in Addr /\ Uses(k, call[k].on)
      BY <3>1, ConfigUse
    <3> QED
      BY <2>7, <2>9, <3>1, <3>2
  <2>14. Configs'
    <3>1. Alone'
      BY <2>7, <2>9, <2>11 DEF JacclcInv, Configs, Alone
    <3>2. Read'
      BY <2>13 DEF JacclcInv, Configs, Read
    <3>3. \A b \in Addr, f \in Field : Setting(b, f)' <=> Setting(b, f)
      BY <1>1, <2>6, <2>10 DEF Setting
    <3>4. \A b \in Addr : ~Freeing(b)' => True(b)'
      BY <1>1, <2>7, <2>12, <3>3 DEF JacclcInv, Configs, True, Agrees
    <3> QED
      BY <3>1, <3>2, <3>4 DEF Configs
  <2>15. Groups'
    BY <1>1, <2>2, <2>10, GroupsFrame DEF Alike, Later
  <2>16. Answers'
    BY <1>1, <2>7, <2>12, <2>13 DEF JacclcInv, Answers, Known
  <2> QED
    BY <2>4, <2>5, <2>14, <2>15, <2>16 DEF JacclcInv
<1> QED
  BY <1>3, <1>4

LEMMA ConfigSetInv ==
  ASSUME JacclcInv, NEW g \in Goroutine, CConfigSet(g)
  PROVE  JacclcInv'
<1> DEFINE a == call[g].on
           f == call[g].field
           v == call[g].val
           w == Passed(f, v)
<1>1. /\ call[g].stage = "c" /\ Active(g) /\ TypeOK /\ Operands /\ call[g] \in Call
      /\ Fits(call[g]) /\ UNCHANGED <<mu, lib, bound, cache, group, reused>>
      /\ call[g].op = "Set" /\ ~Fails(call[g])
      /\ \E t \in On(g), m \in Goroutine \cup {None} : error' = [error EXCEPT ![t] = m]
  BY Success DEF CConfigSet
<1>2. a \in Addr /\ f \in Field /\ v \in Value
  BY <1>1 DEF Fits, OnConfig, Fails
<1>3. Uses(g, a)
  BY <1>1 DEF Uses
<1>4. heap[a] \in Config /\ heap[a] \in [Field -> Value]
  BY <1>1, <1>2, <1>3 DEF JacclcInv, Configs, Alone, TypeOK, Config
<1>5. heap' = [heap EXCEPT ![a][f] = w] /\ Goes(g, "after") /\ "after" \in Stage
  BY DEF CConfigSet, Stage
<1>6. w \in Value /\ (f = "rank" => Int32(w) = w)
  BY <1>2, PassedFacts, Int32Facts
<1> HIDE DEF w
<1>7. /\ heap' \in [Addr -> Config \cup {None}] /\ heap'[a] # None /\ heap'[a][f] = w
      /\ \A e \in Field : e # f => heap'[a][e] = heap[a][e]
      /\ \A b \in Addr : b # a => heap'[b] = heap[b]
  <2> DEFINE config == [heap[a] EXCEPT ![f] = w]
  <2>1. config \in [Field -> Value] /\ config[f] = w
        /\ \A e \in Field : e # f => config[e] = heap[a][e]
    BY <1>2, <1>4, <1>6
  <2>2. heap' = [heap EXCEPT ![a] = config]
    BY <1>5
  <2> HIDE DEF config
  <2>3. config \in Config
    BY <1>4, <1>6, <2>1 DEF Config
  <2> QED
    BY <1>1, <1>2, <2>1, <2>2, <2>3 DEF TypeOK, Config
<1>8. PICK c : Turns(g, c) /\ c.stage = "after" /\ Alike(call[g], c) /\ c.val = v
  BY <1>1, <1>5, GoesTurns
<1>9. c.op = "Set" /\ c.on = a /\ c.field = f
  BY <1>1, <1>8 DEF Alike, Later
<1>10. Fits(c)
  BY <1>1, <1>2, <1>8, <1>9 DEF Fits, Makers, OnConfig, OnGroup
<1>11. /\ Operands' /\ Loading' /\ Threads' /\ call' \in [Goroutine -> Call \cup {Idle}]
       /\ error' \in [Thread -> Goroutine \cup {None}]
  BY <1>1, <1>8, <1>10, LateFrame DEF Alike, Later
<1>12. TypeOK'
  BY <1>1, <1>7, <1>11 DEF TypeOK
<1>13. call'[g] = c /\ \A k \in Goroutine : k # g => call'[k] = call[k]
  BY <1>1, <1>8, TurnFacts DEF Turns
<1>14. \A k \in Goroutine, b \in Addr : k # g /\ Uses(k, b) => b # a
  BY <1>2, <1>3 DEF JacclcInv, Configs, Alone
<1>15. \A k \in Goroutine, b \in Addr : Uses(k, b)' <=> Uses(k, b)
  BY <1>1, <1>8, <1>9, <1>13 DEF Uses, Active
<1>16. \A b \in Addr : Freeing(b)' <=> Freeing(b)
  BY <1>1, <1>9, <1>13 DEF Freeing
<1>17. ASSUME NEW k \in Goroutine, k # g,
              \/ call[k].stage \in {"rank", "size"}
              \/ call[k].stage = "after" /\ call[k].op \in {"Set", "Get"}
       PROVE  heap'[call[k].on] = heap[call[k].on]
  <2>1. call[k].on \in Addr /\ Uses(k, call[k].on)
    BY <1>17, ConfigUse
  <2> QED
    BY <1>7, <1>14, <1>17, <2>1
<1>18. Configs'
  <2>1. Alone'
    BY <1>7, <1>15 DEF JacclcInv, Configs, Alone
  <2>2. Read'
    <3>1. heap'[c.on][c.field] = Reached(c)
      BY <1>7, <1>8, <1>9 DEF w, Reached
    <3> QED
      BY <1>13, <1>17, <3>1 DEF JacclcInv, Configs, Read
  <2>3. \A b \in Addr, e \in Field : Setting(b, e) => Setting(b, e)'
    BY <1>1, <1>13 DEF Setting
  <2>4. Setting(a, f)'
    BY <1>8, <1>9, <1>13 DEF Setting
  <2>5. ASSUME NEW b \in Addr, ~Freeing(b)' PROVE True(b)'
    <3>1. True(b)
      BY <1>16, <2>5 DEF JacclcInv, Configs
    <3>2. CASE b = a
      <4>1. ASSUME NEW e \in Field, e # f
            PROVE  Agrees(a, e)' \/ Setting(a, e)'
        <5>1. Agrees(a, e) \/ Setting(a, e)
          BY <1>4, <3>1, <3>2 DEF True, Agrees
        <5> QED
          BY <1>1, <1>2, <1>7, <1>9, <1>13, <2>3, <4>1, <5>1 DEF Agrees
      <4> QED
        BY <1>7, <1>9, <1>13, <2>4, <3>2, <4>1 DEF True, Agrees
    <3>3. CASE b # a
      BY <1>1, <1>7, <2>3, <3>1, <3>3 DEF True, Agrees
    <3> QED
      BY <3>2, <3>3
  <2> QED
    BY <2>1, <2>2, <2>5 DEF Configs
<1>19. Groups'
  BY <1>1, <1>8, <1>9, GroupsFrame DEF Alike, Later
<1>20. Answers'
  <2>1. \A k \in Goroutine : call'[k].stage \in {"rank", "size"} =>
          call'[k] = call[k] /\ heap'[call[k].on] = heap[call[k].on]
    BY <1>8, <1>13, <1>17
  <2>2. \A b \in Addr : ~reused /\ Freeing(b)' => heap'[b] = None
    BY <1>4, <1>7, <1>16 DEF JacclcInv, Answers
  <2> QED
    BY <1>1, <2>1, <2>2 DEF JacclcInv, Answers, Known
<1> QED
  BY <1>11, <1>12, <1>18, <1>19, <1>20 DEF JacclcInv

LEMMA ConfigGetInv ==
  ASSUME JacclcInv, NEW g \in Goroutine, CConfigGet(g)
  PROVE  JacclcInv'
<1> DEFINE a == call[g].on
           value == heap[a][call[g].field]
<1>1. /\ call[g].stage = "c" /\ Active(g) /\ TypeOK /\ Operands /\ call[g] \in Call
      /\ Fits(call[g]) /\ UNCHANGED <<mu, lib, bound, cache, heap, group, reused>>
      /\ call[g].op = "Get" /\ ~Fails(call[g])
      /\ \E t \in On(g), m \in Goroutine \cup {None} : error' = [error EXCEPT ![t] = m]
  BY Success DEF CConfigGet
<1>2. a \in Addr /\ call[g].field \in Field
  BY <1>1 DEF Fits, OnConfig, Fails
<1>3. Uses(g, a)
  BY <1>1 DEF Uses
<1>4. value \in Value
  BY <1>1, <1>2, <1>3 DEF JacclcInv, Configs, Alone, TypeOK, Config
<1>5. PICK stage \in Stage : stage \in {"error", "after"} /\ GoesWith(g, stage, value)
  BY DEF CConfigGet, GoesWith, Stage
<1> HIDE DEF value
<1>6. PICK c : Turns(g, c) /\ c.stage = stage /\ Alike(call[g], c) /\ c.val = value
  BY <1>1, <1>4, <1>5, ValueTurns
<1>7. c.op = "Get" /\ c.on = a /\ c.field = call[g].field
  BY <1>1, <1>6 DEF Alike, Later
<1>8. Fits(c)
  BY <1>2, <1>4, <1>5, <1>6, <1>7 DEF Fits, Makers, OnConfig, OnGroup
<1>9. /\ Operands' /\ Loading' /\ Threads' /\ call' \in [Goroutine -> Call \cup {Idle}]
      /\ error' \in [Thread -> Goroutine \cup {None}]
  BY <1>1, <1>5, <1>6, <1>8, LateFrame DEF Alike, Later
<1>10. TypeOK'
  BY <1>1, <1>9 DEF TypeOK
<1>11. call'[g] = c /\ \A k \in Goroutine : k # g => call'[k] = call[k]
  BY <1>1, <1>6, TurnFacts DEF Turns
<1>12. \A k \in Goroutine, b \in Addr : Uses(k, b)' <=> Uses(k, b)
  BY <1>1, <1>5, <1>6, <1>7, <1>11 DEF Uses, Active
<1>13. \A b \in Addr : Freeing(b)' <=> Freeing(b)
  BY <1>1, <1>7, <1>11 DEF Freeing
<1>14. \A b \in Addr, e \in Field : Setting(b, e)' <=> Setting(b, e)
  BY <1>1, <1>7, <1>11 DEF Setting
<1>15. Configs'
  <2>1. Alone'
    BY <1>1, <1>12 DEF JacclcInv, Configs, Alone
  <2>2. Read'
    BY <1>1, <1>6, <1>7, <1>11 DEF JacclcInv, Configs, Read, Reached, value
  <2> QED
    BY <1>1, <1>13, <1>14, <2>1, <2>2 DEF JacclcInv, Configs, True, Agrees
<1>16. Groups'
  BY <1>1, <1>5, <1>6, <1>7, GroupsFrame DEF Alike, Later
<1>17. Answers'
  BY <1>1, <1>5, <1>6, <1>11, <1>13 DEF JacclcInv, Answers, Known
<1> QED
  BY <1>9, <1>10, <1>15, <1>16, <1>17 DEF JacclcInv

LEMMA StoreInv ==
  ASSUME JacclcInv, NEW g \in Goroutine, Store(g)
  PROVE  JacclcInv'
<1> DEFINE a == call[g].on
           f == call[g].field
           v == call[g].val
<1>1. /\ call[g].stage = "after" /\ call[g].op \in {"Set", "Get"} /\ Active(g)
      /\ cache' = Stored(call[g]) /\ Goes(g, "done") /\ "done" \in Stage
      /\ UNCHANGED <<program, mu, lib, bound, heap, group, error, reused>>
  BY DEF Store, Active, Stage
<1>2. call[g] \in Call /\ Fits(call[g]) /\ TypeOK /\ Operands
  BY <1>1, CallInv
<1>3. a \in Addr /\ f \in Field /\ v \in Value
  BY <1>1, <1>2 DEF Fits
<1>4. Uses(g, a) /\ heap[a] # None /\ heap[a][f] = Reached(call[g])
  BY <1>1, ConfigUse DEF JacclcInv, Configs, Read
\* The entry of the field is the value, or none.
<1>5. /\ cache' \in [Addr -> [Field -> Value \cup {None}]]
      /\ \A b \in Addr, e \in Field : ~(b = a /\ e = f) => cache'[b][e] = cache[b][e]
      /\ \A b \in Addr : b # a => cache'[b] = cache[b]
      /\ call[g].op = "Set" => cache'[a][f] \in {None, v}
      /\ call[g].op = "Get" =>
           cache'[a][f] = cache[a][f] \/ (cache'[a][f] = v /\ f \in {"ring", "size"})
  <2>1. f \in {"size"} \/ f \in {"coordinator", "rank", "ring"}
    BY <1>3 DEF AllFields
  <2>2. cache' = [cache EXCEPT ![a][f] = None] \/ cache' = [cache EXCEPT ![a][f] = v]
        \/ (call[g].op = "Get" /\ cache' = cache)
    BY <1>1, <2>1 DEF Stored, ForgottenOnSet, StoredOnSet, StoredOnGet
  <2>3. call[g].op = "Get" /\ cache' # cache =>
          cache' = [cache EXCEPT ![a][f] = v] /\ f \in {"ring", "size"}
    BY <1>1 DEF Stored, StoredOnGet
  <2>4. cache \in [Addr -> [Field -> Value \cup {None}]]
    BY <1>2 DEF TypeOK
  <2>5. ASSUME NEW x \in Value \cup {None}, cache' = [cache EXCEPT ![a][f] = x]
        PROVE  /\ cache' \in [Addr -> [Field -> Value \cup {None}]]
               /\ \A b \in Addr, e \in Field : ~(b = a /\ e = f) => cache'[b][e] = cache[b][e]
               /\ \A b \in Addr : b # a => cache'[b] = cache[b]
               /\ cache'[a][f] = x
    BY <1>3, <2>4, <2>5
  <2> HIDE DEF a, f, v
  <2> QED
    BY <1>1, <1>3, <2>2, <2>3, <2>4, <2>5
<1>6. PICK c : Turns(g, c) /\ c.stage = "done" /\ Alike(call[g], c)
  BY <1>1, <1>2, GoesTurns
<1>7. c.op = call[g].op /\ c.on = a /\ c.field = f
  BY <1>6 DEF Alike, Later
<1>8. Fits(c)
  BY <1>1, <1>2, <1>6, <1>7 DEF Fits
<1>9. /\ Operands' /\ Loading' /\ Threads' /\ call' \in [Goroutine -> Call \cup {Idle}]
      /\ error' \in [Thread -> Goroutine \cup {None}]
  BY <1>1, <1>6, <1>8, LateFrame DEF Alike, Later
<1>10. TypeOK'
  BY <1>1, <1>2, <1>5, <1>9 DEF TypeOK
<1>11. call'[g] = c /\ \A k \in Goroutine : k # g => call'[k] = call[k]
  BY <1>2, <1>6, TurnFacts DEF Turns
<1>12. \A k \in Goroutine, b \in Addr : Uses(k, b)' <=> Uses(k, b)
  BY <1>1, <1>6, <1>7, <1>11 DEF Uses, Active
<1>13. \A b \in Addr : Freeing(b)' <=> Freeing(b)
  BY <1>1, <1>6, <1>7, <1>11 DEF Freeing
\* No other call has set a field of this config.
<1>14. \A b \in Addr, e \in Field : ~(b = a /\ e = f) => (Setting(b, e) => Setting(b, e)')
  BY <1>11 DEF Setting
<1>15. ASSUME Setting(a, f), call[g].op = "Get" PROVE FALSE
  <2>1. PICK k \in Goroutine : call[k].stage = "after" /\ call[k].op = "Set" /\ call[k].on = a
    BY <1>15 DEF Setting
  <2>2. Uses(k, a)
    BY <2>1 DEF Uses, Active
  <2> QED
    BY <1>3, <1>4, <1>15, <2>1, <2>2 DEF JacclcInv, Configs, Alone
<1>16. Configs'
  <2>1. Alone' /\ Read'
    BY <1>1, <1>6, <1>11, <1>12 DEF JacclcInv, Configs, Alone, Read
  <2>2. ASSUME NEW b \in Addr, ~Freeing(b)' PROVE True(b)'
    <3>1. True(b)
      BY <1>13, <2>2 DEF JacclcInv, Configs
    <3>2. CASE b # a
      BY <1>1, <1>5, <1>14, <3>1, <3>2 DEF True, Agrees
    <3>3. CASE b = a
      <4>1. ASSUME NEW e \in Field, e # f
            PROVE  Agrees(a, e)' \/ Setting(a, e)'
        <5>1. Agrees(a, e) \/ Setting(a, e)
          BY <1>3, <1>4, <3>1, <3>3 DEF True, Agrees
        <5> QED
          BY <1>1, <1>3, <1>5, <1>7, <1>11, <1>14, <4>1, <5>1 DEF Agrees
      <4>2. Agrees(a, f)'
        <5>1. Agrees(a, f) \/ Setting(a, f)
          BY <1>3, <1>4, <3>1, <3>3 DEF True, Agrees
        <5>2. CASE cache'[a][f] \in {None, cache[a][f]} /\ call[g].op = "Get"
          BY <1>1, <1>7, <1>11, <1>15, <5>1, <5>2 DEF Agrees
        <5>3. CASE cache'[a][f] = v /\ f \in {"ring", "size"} /\ call[g].op = "Get"
          BY <1>1, <1>3, <1>4, <1>7, <1>11, <5>3, PassedFacts DEF Agrees, Reached
        <5>4. CASE call[g].op = "Set"
          BY <1>1, <1>4, <1>5, <1>7, <1>11, <5>4 DEF Agrees, Reached
        <5> QED
          BY <1>1, <1>5, <5>2, <5>3, <5>4
      <4> QED
        BY <1>1, <1>4, <1>7, <1>11, <3>3, <4>1, <4>2 DEF True, Agrees
    <3> QED
      BY <3>2, <3>3
  <2> QED
    BY <2>1, <2>2 DEF Configs
<1>17. Groups'
  BY <1>1, <1>6, <1>7, GroupsFrame DEF Alike, Later
<1>18. Answers'
  BY <1>1, <1>6, <1>11, <1>13 DEF JacclcInv, Answers, Known
<1> QED
  BY <1>9, <1>10, <1>16, <1>17, <1>18 DEF JacclcInv

LEMMA DeleteConfigInv ==
  ASSUME JacclcInv, NEW g \in Goroutine, DeleteCachedConfig(g)
  PROVE  JacclcInv'
<1> DEFINE a == call[g].on
<1>1. /\ call[g].stage = "after" /\ call[g].op = "ConfigFree" /\ Active(g)
      /\ cache' = [cache EXCEPT ![a] = NoEntry] /\ Goes(g, "done") /\ "done" \in Stage
      /\ UNCHANGED <<program, mu, lib, bound, heap, group, error, reused>>
  BY DEF DeleteCachedConfig, Active, Stage
<1>2. call[g] \in Call /\ Fits(call[g]) /\ TypeOK /\ Operands
  BY <1>1, CallInv
<1>3. a \in Addr
  BY <1>1, <1>2 DEF Fits
<1>4. /\ cache' \in [Addr -> [Field -> Value \cup {None}]] /\ cache'[a] = NoEntry
      /\ \A b \in Addr : b # a => cache'[b] = cache[b]
  BY <1>1, <1>2, <1>3 DEF TypeOK, NoEntry
<1>5. PICK c : Turns(g, c) /\ c.stage = "done" /\ Alike(call[g], c)
  BY <1>1, <1>2, GoesTurns
<1>6. c.op = "ConfigFree" /\ c.on = a
  BY <1>1, <1>5 DEF Alike, Later
<1>7. Fits(c)
  BY <1>1, <1>2, <1>5, <1>6 DEF Fits, Makers, OnConfig, OnGroup
<1>8. /\ Operands' /\ Loading' /\ Threads' /\ call' \in [Goroutine -> Call \cup {Idle}]
      /\ error' \in [Thread -> Goroutine \cup {None}]
  BY <1>1, <1>5, <1>7, LateFrame DEF Alike, Later
<1>9. TypeOK'
  BY <1>1, <1>2, <1>4, <1>8 DEF TypeOK
<1>10. call'[g] = c /\ \A k \in Goroutine : k # g => call'[k] = call[k]
  BY <1>2, <1>5, TurnFacts DEF Turns
<1>11. \A k \in Goroutine, b \in Addr : Uses(k, b)' <=> Uses(k, b)
  BY <1>1, <1>5, <1>6, <1>10 DEF Uses, Active
<1>12. \A b \in Addr : (Freeing(b)' => Freeing(b)) /\ (b # a => (Freeing(b)' <=> Freeing(b)))
  BY <1>1, <1>5, <1>6, <1>10 DEF Freeing
<1>13. \A b \in Addr, e \in Field : Setting(b, e)' <=> Setting(b, e)
  BY <1>1, <1>5, <1>6, <1>10 DEF Setting
<1>14. Configs'
  <2>1. Alone' /\ Read'
    BY <1>1, <1>5, <1>10, <1>11 DEF JacclcInv, Configs, Alone, Read
  <2>2. ASSUME NEW b \in Addr, ~Freeing(b)' PROVE True(b)'
    <3>1. CASE b = a
      BY <1>4, <3>1 DEF True, NoEntry, Agrees
    <3>2. CASE b # a
      BY <1>1, <1>4, <1>12, <1>13, <2>2, <3>2 DEF JacclcInv, Configs, True, Agrees
    <3> QED
      BY <3>1, <3>2
  <2> QED
    BY <2>1, <2>2 DEF Configs
<1>15. Groups'
  BY <1>1, <1>5, <1>6, GroupsFrame DEF Alike, Later
<1>16. Answers'
  BY <1>1, <1>5, <1>10, <1>12 DEF JacclcInv, Answers, Known
<1> QED
  BY <1>8, <1>9, <1>14, <1>15, <1>16 DEF JacclcInv

-----------------------------------------------------------------------------
(* The groups.                                                              *)

LEMMA ConfigsFrame ==
  ASSUME JacclcInv, NEW g \in Goroutine, Active(g), NEW c, Turns(g, c),
         UNCHANGED <<heap, cache>>,
         c.on = call[g].on, c.op = call[g].op, c.op \notin {"ConfigFree", "Set", "Get"}
  PROVE  Configs' /\ \A b \in Addr : Freeing(b)' <=> Freeing(b)
<1>1. call'[g] = c /\ \A k \in Goroutine : k # g => call'[k] = call[k]
  BY TurnFacts DEF Turns, JacclcInv
<1>2. \A k \in Goroutine, b \in Addr : Uses(k, b)' => Uses(k, b)
  BY <1>1 DEF Uses, Active
<1>3. \A b \in Addr : Freeing(b)' <=> Freeing(b)
  BY <1>1 DEF Freeing
<1>4. \A b \in Addr, e \in Field : Setting(b, e)' <=> Setting(b, e)
  BY <1>1 DEF Setting
<1>5. Alone' /\ Read'
  BY <1>1, <1>2 DEF JacclcInv, Configs, Alone, Read
<1> QED
  BY <1>3, <1>4, <1>5 DEF JacclcInv, Configs, True, Agrees

\* The calls of others are not about a group that is not made, or not held yet.
LEMMA OtherGroups ==
  ASSUME JacclcInv, NEW k \in Goroutine, NEW h \in Handle, ~group[h].made \/ ~group[h].held
  PROVE  Active(k) => call[k].on # h
BY DEF JacclcInv, Groups, OfGroup

\* C makes a group for a call.
LEMMA MakeGroupInv ==
  ASSUME JacclcInv, NEW g \in Goroutine, NEW h \in Unmade, NEW r \in Value, NEW n \in Value,
         NEW c, Turns(g, c), Alike(call[g], c), c.val = h, Fits(c), call[g].stage = "c",
         \/ c.op = "Init" /\ c.stage = "after"
         \/ /\ c.op = "InitConfig" /\ c.stage = "rank"
            /\ r = heap[c.on]["rank"] /\ n = heap[c.on]["size"],
         UNCHANGED <<mu, lib, bound, heap, cache, reused>>,
         \E t \in On(g), v \in Goroutine \cup {None} : error' = [error EXCEPT ![t] = v],
         group' = [group EXCEPT ![h] = MadeGroup(r, n)]
  PROVE  JacclcInv'
<1>1. Active(g) /\ call[g] \in Call /\ Fits(call[g]) /\ TypeOK /\ Operands
  BY CallInv DEF Active
<1>2. c.op = call[g].op /\ c.on = call[g].on /\ c.late = call[g].late
      /\ c.op \notin {"ConfigFree", "Set", "Get"}
      /\ c.op \in {"Init", "InitConfig"}
  BY DEF Alike, Later
<1>3. h \in Handle /\ ~group[h].made
  BY DEF Unmade
<1>4. /\ Operands' /\ Loading' /\ Threads' /\ call' \in [Goroutine -> Call \cup {Idle}]
      /\ error' \in [Thread -> Goroutine \cup {None}]
  BY <1>1, LateFrame DEF Alike, Later
<1>5. /\ group' \in [Handle -> Group \cup {NoGroup}] /\ group'[h] = MadeGroup(r, n)
      /\ \A k \in Handle : k # h => group'[k] = group[k]
  <2>1. MadeGroup(r, n) \in Group
    BY DEF MadeGroup, Group, Value
  <2> QED
    BY <1>1, <1>3, <2>1 DEF TypeOK
<1>6. TypeOK'
  BY <1>1, <1>4, <1>5 DEF TypeOK
<1>7. Configs' /\ \A b \in Addr : Freeing(b)' <=> Freeing(b)
  BY <1>1, <1>2, ConfigsFrame
<1>8. call'[g] = c /\ \A k \in Goroutine : k # g => call'[k] = call[k]
  BY <1>1, TurnFacts DEF Turns
<1>9. c.on \notin Handle /\ ~c.late
  <2>1. c.on \notin Handle
    BY <1>1, <1>2 DEF Fits, Makers, OnConfig, OnGroup
  <2> QED
    BY <1>1, <1>2, <2>1 DEF JacclcInv, Groups, OfGroup
<1>10. /\ \A k \in Goroutine : Active(k) => call[k].on # h
       /\ \A k \in Goroutine : Making(k) => call[k].val # h /\ call[k].val \in Handle
  <2>1. ASSUME NEW k \in Goroutine, Making(k) PROVE call[k].val \in Handle
    <3>1. Active(k)
      BY <2>1 DEF Making, Active
    <3>2. Fits(call[k])
      BY <3>1, CallInv
    <3> QED
      BY <2>1, <3>2 DEF Making, Fits
  <2> QED
    BY <1>3, <2>1, OtherGroups DEF JacclcInv, Groups, OfGroup
<1>11. Groups'
  <2>1. \A k \in Handle : Whole(k)'
    BY <1>5 DEF JacclcInv, Groups, Whole, MadeGroup
  <2>2. OfGroup(g)'
    BY <1>5, <1>8, <1>9 DEF OfGroup, MadeGroup, Active, Making
  <2>3. ASSUME NEW k \in Goroutine, k # g PROVE OfGroup(k)'
    BY <1>5, <1>8, <1>10, <2>3 DEF JacclcInv, Groups, OfGroup, Making, Active
  <2>4. \A k, l \in Goroutine : k # l /\ Making(k)' /\ Making(l)' => call'[k].val # call'[l].val
    BY <1>8, <1>10 DEF JacclcInv, Groups, Making
  <2> QED
    BY <2>1, <2>2, <2>3, <2>4 DEF Groups
<1>12. Answers'
  <2> SUFFICES ASSUME ~reused' PROVE Answers'
    BY DEF Answers
  <2>1. \A k \in Handle : Known(k)' => Known(k) /\ k # h
    BY <1>5 DEF Known, MadeGroup
  <2>2. ASSUME NEW k \in Goroutine, k # g, call[k].stage \in {"rank", "size"}
        PROVE  group'[call[k].val] = group[call[k].val]
    BY <1>5, <1>10, <2>2 DEF Making
  <2>3. c.stage = "rank" => group'[h].c.rank = heap[c.on]["rank"] /\ group'[h].c.size = heap[c.on]["size"]
    BY <1>2, <1>5 DEF MadeGroup
  <2> QED
    BY <1>5, <1>7, <1>8, <2>1, <2>2, <2>3 DEF JacclcInv, Answers
<1> QED
  BY <1>4, <1>6, <1>7, <1>11, <1>12 DEF JacclcInv

LEMMA InitCallInv ==
  ASSUME JacclcInv, NEW g \in Goroutine, CInit(g)
  PROVE  JacclcInv'
<1>1. /\ call[g].stage = "c" /\ Active(g) /\ TypeOK /\ Operands /\ call[g] \in Call
      /\ Fits(call[g]) /\ UNCHANGED <<mu, lib, bound, cache, heap, reused>>
      /\ call[g].op = "Init"
      /\ \E t \in On(g), m \in Goroutine \cup {None} : error' = [error EXCEPT ![t] = m]
  BY Success DEF CInit
<1>2. PICK h \in Unmade, size \in {1, 2} :
        /\ group' = [group EXCEPT ![h] = MadeGroup(0, size)]
        /\ GoesWith(g, "after", h)
  BY DEF CInit, GoesWith
<1>3. h \in Handle /\ "after" \in Stage /\ 0 \in Value /\ size \in Value
  BY DEF Unmade, Stage, Value
<1>4. PICK c : Turns(g, c) /\ c.stage = "after" /\ Alike(call[g], c) /\ c.val = h
  <2>1. PICK stage \in Stage, value \in Value \cup Handle \cup Goroutine \cup {None} :
          stage = "after" /\ value = h /\ GoesWith(g, stage, value)
    BY <1>2, <1>3
  <2> QED
    BY <1>1, <2>1, ValueTurns
<1>5. c.op = "Init" /\ c.on = call[g].on
  BY <1>1, <1>4 DEF Alike, Later
<1>6. Fits(c)
  BY <1>1, <1>3, <1>4, <1>5 DEF Fits, Makers, OnConfig, OnGroup
<1> QED
  BY <1>1, <1>2, <1>3, <1>4, <1>5, <1>6, MakeGroupInv

LEMMA InitConfigInv ==
  ASSUME JacclcInv, NEW g \in Goroutine, CInitConfig(g)
  PROVE  JacclcInv'
<1> DEFINE r == heap[call[g].on]["rank"]
           n == heap[call[g].on]["size"]
<1>1. /\ call[g].stage = "c" /\ Active(g) /\ TypeOK /\ Operands /\ call[g] \in Call
      /\ Fits(call[g]) /\ UNCHANGED <<mu, lib, bound, cache, heap, reused>>
      /\ call[g].op = "InitConfig" /\ ~Fails(call[g])
      /\ \E t \in On(g), m \in Goroutine \cup {None} : error' = [error EXCEPT ![t] = m]
  BY Success DEF CInitConfig
<1>2. PICK h \in Unmade :
        /\ group' = [group EXCEPT ![h] = MadeGroup(r, n)]
        /\ GoesWith(g, "rank", h)
  BY DEF CInitConfig, GoesWith
<1>3. h \in Handle /\ "rank" \in Stage
  BY DEF Unmade, Stage
<1>4. call[g].on \in Addr
  BY <1>1 DEF Fits, OnConfig, Fails
<1>5. r \in Value /\ n \in Value
  <2>1. Uses(g, call[g].on)
    BY <1>1 DEF Uses
  <2> QED
    BY <1>1, <1>4, <2>1 DEF JacclcInv, Configs, Alone, TypeOK, Config
<1>6. PICK c : Turns(g, c) /\ c.stage = "rank" /\ Alike(call[g], c) /\ c.val = h
  BY <1>1, <1>2, <1>3, ValueTurns
<1>7. c.op = "InitConfig" /\ c.on = call[g].on
  BY <1>1, <1>6 DEF Alike, Later
<1>8. Fits(c)
  BY <1>1, <1>3, <1>4, <1>6, <1>7 DEF Fits, Makers, OnConfig, OnGroup
<1> QED
  BY <1>1, <1>2, <1>5, <1>6, <1>7, <1>8, MakeGroupInv

\* A call changes the state of one group, that it is on or that was made for it.
LEMMA GroupsChange ==
  ASSUME JacclcInv, NEW g \in Goroutine, Active(g), NEW c, Turns(g, c),
         c.on = call[g].on, c.late = call[g].late, c.stage \notin {"idle", "answer", "c"},
         NEW h \in Handle, group[h].made, NEW d \in Group, group' = [group EXCEPT ![h] = d],
         d.shut \/ d.known => d.held, d.known /\ d.shut => d.closed,
         group[h].held => d.held, group[h].shut => d.shut,
         d.known => group[h].known \/ ~group[h].held,
         d.held => group[h].held \/ (Making(g) /\ call[g].val = h),
         c.stage \in {"rank", "size"} \/ (c.stage = "after" /\ c.op = "Init") =>
           Making(g) /\ c.val = call[g].val /\ (c.val = h => ~d.held)
  PROVE  /\ Groups' /\ group' \in [Handle -> Group \cup {NoGroup}]
         /\ group'[h] = d /\ \A k \in Handle : k # h => group'[k] = group[k]
<1>1. /\ group' \in [Handle -> Group \cup {NoGroup}] /\ group'[h] = d
      /\ \A k \in Handle : k # h => group'[k] = group[k]
  BY DEF JacclcInv, TypeOK
<1>2. call'[g] = c /\ \A k \in Goroutine : k # g => call'[k] = call[k]
  BY TurnFacts DEF Turns, JacclcInv
<1>3. d.made
  BY DEF Group
<1>4. \A k \in Handle : Whole(k)'
  BY <1>1 DEF JacclcInv, Groups, Whole
<1>5. OfGroup(g)'
  BY <1>1, <1>2, <1>3 DEF JacclcInv, Groups, OfGroup, Active, Making
<1>6. ASSUME NEW k \in Goroutine, k # g PROVE OfGroup(k)'
  <2>1. OfGroup(k) /\ (Making(k) /\ Making(g) => call[k].val # call[g].val)
    BY <1>6 DEF JacclcInv, Groups
  <2>2. Making(k)' <=> Making(k)
    BY <1>2, <1>6 DEF Making
  <2>3. Making(k) => group'[call'[k].val].made /\ ~group'[call'[k].val].held
    <3>1. CASE call[k].val = h
      BY <1>1, <1>2, <1>3, <1>6, <2>1, <3>1 DEF OfGroup
    <3>2. CASE call[k].val # h /\ Making(k)
      <4>1. Fits(call[k])
        BY <3>2, CallInv DEF Making, Active
      <4>2. call[k].val \in Handle
        BY <3>2, <4>1 DEF Making, Fits
      <4> QED
        BY <1>1, <1>2, <1>6, <2>1, <3>2, <4>2 DEF OfGroup
    <3> QED
      BY <3>1, <3>2
  <2> QED
    BY <1>1, <1>2, <1>3, <1>6, <2>1, <2>2, <2>3 DEF OfGroup, Active
<1>7. ASSUME NEW k \in Goroutine, NEW l \in Goroutine, k # l, Making(k)', Making(l)'
      PROVE  call'[k].val # call'[l].val
  <2>1. Making(g)' => Making(g) /\ call'[g].val = call[g].val
    BY <1>2 DEF Making
  <2> QED
    BY <1>2, <1>7, <2>1 DEF JacclcInv, Groups, Making
<1> QED
  BY <1>1, <1>4, <1>5, <1>6, <1>7 DEF Groups

\* What groups answer stays when a step changes neither that nor what C holds.
LEMMA AnswersFrame ==
  ASSUME JacclcInv, NEW g \in Goroutine, NEW c, Turns(g, c), c.stage \notin {"rank", "size"},
         heap' = heap, reused' = reused, \A b \in Addr : Freeing(b)' <=> Freeing(b),
         \A k \in Handle : /\ Known(k)' => Known(k)
                           /\ group'[k].rank = group[k].rank /\ group'[k].size = group[k].size
                           /\ group'[k].c = group[k].c
  PROVE  Answers'
<1> SUFFICES ASSUME ~reused PROVE Answers'
  BY DEF Answers
<1>1. ASSUME NEW k \in Goroutine, call'[k].stage \in {"rank", "size"}
      PROVE  call'[k] = call[k] /\ call[k].val \in Handle
  <2>1. call'[k] = call[k]
    BY <1>1, TurnFacts DEF Turns, JacclcInv
  <2>2. Fits(call[k])
    BY <1>1, <2>1, CallInv DEF Active
  <2> QED
    BY <1>1, <2>1, <2>2 DEF Fits
<1>2. \A a \in Addr : Freeing(a)' => heap'[a] = None
  BY DEF JacclcInv, Answers
<1>3. \A k \in Handle : Known(k)' =>
        Int32(group'[k].rank) = group'[k].c.rank /\ group'[k].size = group'[k].c.size
  BY DEF JacclcInv, Answers
<1>4. \A k \in Goroutine : call'[k].stage \in {"rank", "size"} =>
        /\ group'[call'[k].val].c.rank = heap'[call'[k].on]["rank"]
        /\ group'[call'[k].val].c.size = heap'[call'[k].on]["size"]
        /\ call'[k].stage = "size" => Int32(group'[call'[k].val].rank) = group'[call'[k].val].c.rank
  BY <1>1 DEF JacclcInv, Answers
<1> QED
  BY <1>2, <1>3, <1>4 DEF Answers

LEMMA GroupFreeInv ==
  ASSUME JacclcInv, NEW g \in Goroutine, CGroupFree(g)
  PROVE  JacclcInv'
<1>1. /\ call[g].stage = "c" /\ Active(g) /\ TypeOK /\ Operands /\ call[g] \in Call
      /\ Fits(call[g]) /\ UNCHANGED <<mu, lib, bound, cache, heap, reused>>
      /\ call[g].op = "GroupFree"
      /\ \E t \in On(g), v \in Goroutine \cup {None} : error' = [error EXCEPT ![t] = v]
  BY Success DEF CGroupFree
<1>2. call[g].on \in Handle \cup {Nil} /\ "done" \in Stage /\ "after" \in Stage
  BY <1>1 DEF Fits, OnGroup, Stage
<1>3. PICK stage \in {"done", "after"} :
        /\ Goes(g, stage)
        /\ IF stage = "done" THEN UNCHANGED group
           ELSE /\ call[g].on \in Handle
                /\ group' = [group EXCEPT ![call[g].on].live = FALSE]
  BY <1>2 DEF CGroupFree
<1>4. PICK c : Turns(g, c) /\ c.stage = stage /\ Alike(call[g], c)
  BY <1>1, <1>2, <1>3, GoesTurns
<1>5. /\ c.op = "GroupFree" /\ c.on = call[g].on /\ c.late = call[g].late
      /\ c.op \notin {"ConfigFree", "Set", "Get", "InitConfig"} \cup OnConfig
  BY <1>1, <1>4 DEF Alike, Later, OnConfig
<1>6. Fits(c)
  BY <1>1, <1>3, <1>4, <1>5 DEF Fits, Makers, OnConfig, OnGroup
<1>7. /\ Operands' /\ Loading' /\ Threads' /\ call' \in [Goroutine -> Call \cup {Idle}]
      /\ error' \in [Thread -> Goroutine \cup {None}]
  BY <1>1, <1>3, <1>4, <1>6, LateFrame DEF Alike, Later
<1>8. Configs' /\ \A b \in Addr : Freeing(b)' <=> Freeing(b)
  BY <1>1, <1>4, <1>5, ConfigsFrame
<1>9. CASE stage = "done"
  <2>1. TypeOK'
    BY <1>1, <1>3, <1>7, <1>9 DEF TypeOK
  <2>2. Groups' /\ Answers'
    BY <1>1, <1>3, <1>4, <1>5, <1>9, PlainFrame
  <2> QED
    BY <1>7, <1>8, <2>1, <2>2 DEF JacclcInv
<1>10. CASE stage = "after"
  <2> DEFINE h == call[g].on
             d == [group[h] EXCEPT !.live = FALSE]
  <2>1. h \in Handle /\ group[h].made /\ group[h].held /\ group[h] \in Group
    BY <1>1, <1>3, <1>10 DEF JacclcInv, Groups, OfGroup, TypeOK, NoGroup
  <2>2. d \in Group
    BY <2>1 DEF Group
  <2>3. group' = [group EXCEPT ![h] = d]
    BY <1>1, <1>3, <1>10 DEF TypeOK
  <2>4. /\ d.held = group[h].held /\ d.shut = group[h].shut /\ d.known = group[h].known
        /\ d.closed = group[h].closed /\ d.c = group[h].c /\ d.rank = group[h].rank
        /\ d.size = group[h].size /\ d.made = group[h].made
    BY <2>1 DEF Group
  <2>5. Whole(h)
    BY <2>1 DEF JacclcInv, Groups
  <2> HIDE DEF d
  <2>6. /\ Groups' /\ group' \in [Handle -> Group \cup {NoGroup}]
        /\ group'[h] = d /\ \A k \in Handle : k # h => group'[k] = group[k]
    BY <1>1, <1>4, <1>5, <1>10, <2>1, <2>2, <2>3, <2>4, <2>5, GroupsChange DEF Whole
  <2>7. TypeOK'
    BY <1>1, <1>7, <2>6 DEF TypeOK
  <2>8. \A k \in Handle : /\ Known(k)' => Known(k)
                          /\ group'[k].rank = group[k].rank /\ group'[k].size = group[k].size
                          /\ group'[k].c = group[k].c
    BY <2>4, <2>6 DEF Known
  <2>9. Answers'
    BY <1>1, <1>4, <1>8, <1>10, <2>8, AnswersFrame
  <2> QED
    BY <1>7, <1>8, <2>6, <2>7, <2>9 DEF JacclcInv
<1> QED
  BY <1>9, <1>10

LEMMA DeleteGroupInv ==
  ASSUME JacclcInv, NEW g \in Goroutine, DeleteCachedGroup(g)
  PROVE  JacclcInv'
<1> DEFINE h == call[g].on
           d == [group[h] EXCEPT !.shut = TRUE, !.closed = group[h].known]
<1>1. /\ call[g].stage = "after" /\ call[g].op = "GroupFree" /\ Active(g)
      /\ Goes(g, "done") /\ "done" \in Stage
      /\ group' = [group EXCEPT ![h].shut = TRUE, ![h].closed = group[h].known]
      /\ UNCHANGED <<program, mu, lib, bound, heap, cache, error, reused>>
  BY DEF DeleteCachedGroup, Active, Stage
<1>2. call[g] \in Call /\ Fits(call[g]) /\ TypeOK /\ Operands
  BY <1>1, CallInv
<1>3. h \in Handle /\ group[h].made /\ group[h].held /\ group[h] \in Group
  BY <1>1, <1>2 DEF Fits, JacclcInv, Groups, OfGroup, TypeOK, NoGroup
<1>4. d \in Group
  BY <1>3 DEF Group
<1>5. group' = [group EXCEPT ![h] = d]
  BY <1>1, <1>2, <1>3 DEF TypeOK
<1>6. /\ d.held /\ d.shut /\ (d.known => group[h].known) /\ (d.known => d.closed)
      /\ d.c = group[h].c /\ d.rank = group[h].rank /\ d.size = group[h].size /\ d.made
  BY <1>3 DEF Group
<1> HIDE DEF d
<1>7. PICK c : Turns(g, c) /\ c.stage = "done" /\ Alike(call[g], c)
  BY <1>1, <1>2, GoesTurns
<1>8. c.op = "GroupFree" /\ c.on = h /\ c.late = call[g].late
  BY <1>1, <1>7 DEF Alike, Later
<1>9. Fits(c)
  BY <1>1, <1>2, <1>7, <1>8 DEF Fits, Makers, OnConfig, OnGroup
<1>10. /\ Operands' /\ Loading' /\ Threads' /\ call' \in [Goroutine -> Call \cup {Idle}]
       /\ error' \in [Thread -> Goroutine \cup {None}]
  BY <1>1, <1>7, <1>9, LateFrame DEF Alike, Later
<1>11. Configs' /\ \A b \in Addr : Freeing(b)' <=> Freeing(b)
  BY <1>1, <1>7, <1>8, ConfigsFrame
<1>12. /\ Groups' /\ group' \in [Handle -> Group \cup {NoGroup}]
       /\ group'[h] = d /\ \A k \in Handle : k # h => group'[k] = group[k]
  <2>1. Active(g) /\ Turns(g, c) /\ c.on = call[g].on /\ c.late = call[g].late
    BY <1>1, <1>7, <1>8
  <2>2. c.stage \notin {"idle", "answer", "c", "rank", "size", "after"}
    BY <1>7
  <2>3. /\ d.shut \/ d.known => d.held
        /\ d.known /\ d.shut => d.closed
        /\ group[h].held => d.held
        /\ group[h].shut => d.shut
        /\ d.known => group[h].known \/ ~group[h].held
        /\ d.held => group[h].held
    BY <1>3, <1>6
  <2> HIDE DEF h
  <2> QED
    BY <1>3, <1>4, <1>5, <2>1, <2>2, <2>3, GroupsChange
<1>13. TypeOK'
  BY <1>1, <1>2, <1>10, <1>12 DEF TypeOK
<1>14. \A k \in Handle : /\ Known(k)' => Known(k)
                         /\ group'[k].rank = group[k].rank /\ group'[k].size = group[k].size
                         /\ group'[k].c = group[k].c
  BY <1>3, <1>6, <1>12 DEF Known
<1>15. Answers'
  BY <1>1, <1>7, <1>11, <1>14, AnswersFrame
<1> QED
  BY <1>10, <1>11, <1>12, <1>13, <1>15 DEF JacclcInv

LEMMA ReturnGroupInv ==
  ASSUME JacclcInv, NEW g \in Goroutine, ReturnGroup(g)
  PROVE  JacclcInv'
<1> DEFINE h == call[g].val
           d == [group[h] EXCEPT !.held = TRUE]
<1>1. /\ call[g].stage = "after" /\ call[g].op = "Init" /\ Active(g) /\ Making(g)
      /\ Goes(g, "done") /\ "done" \in Stage
      /\ group' = [group EXCEPT ![h].held = TRUE]
      /\ UNCHANGED <<program, mu, lib, bound, heap, cache, error, reused>>
  BY DEF ReturnGroup, Active, Stage, Making
<1>2. call[g] \in Call /\ Fits(call[g]) /\ TypeOK /\ Operands
  BY <1>1, CallInv
<1>3. h \in Handle /\ group[h].made /\ ~group[h].held /\ group[h] \in Group
  BY <1>1, <1>2 DEF Fits, JacclcInv, Groups, OfGroup, TypeOK, NoGroup
<1>4. d \in Group
  BY <1>3 DEF Group
<1>5. group' = [group EXCEPT ![h] = d]
  BY <1>1, <1>2, <1>3 DEF TypeOK
<1>6. /\ d.held /\ (d.shut => group[h].shut) /\ (group[h].shut => d.shut)
      /\ (d.known => group[h].known) /\ (group[h].closed => d.closed)
      /\ d.c = group[h].c /\ d.rank = group[h].rank /\ d.size = group[h].size /\ d.made
  BY <1>3 DEF Group
<1> HIDE DEF d
<1>7. PICK c : Turns(g, c) /\ c.stage = "done" /\ Alike(call[g], c)
  BY <1>1, <1>2, GoesTurns
<1>8. c.op = "Init" /\ c.on = call[g].on /\ c.late = call[g].late
  BY <1>1, <1>7 DEF Alike, Later
<1>9. Fits(c)
  BY <1>1, <1>2, <1>7, <1>8 DEF Fits, Makers, OnConfig, OnGroup
<1>10. /\ Operands' /\ Loading' /\ Threads' /\ call' \in [Goroutine -> Call \cup {Idle}]
       /\ error' \in [Thread -> Goroutine \cup {None}]
  BY <1>1, <1>7, <1>9, LateFrame DEF Alike, Later
<1>11. Configs' /\ \A b \in Addr : Freeing(b)' <=> Freeing(b)
  BY <1>1, <1>7, <1>8, ConfigsFrame
<1>12. /\ Groups' /\ group' \in [Handle -> Group \cup {NoGroup}]
       /\ group'[h] = d /\ \A k \in Handle : k # h => group'[k] = group[k]
  <2>1. Whole(h)
    BY <1>3 DEF JacclcInv, Groups
  <2>2. d.known /\ d.shut => d.closed
    BY <1>3, <1>6, <2>1 DEF Whole
  <2>3. Active(g) /\ Turns(g, c) /\ c.on = call[g].on /\ c.late = call[g].late
        /\ Making(g) /\ call[g].val = h
    BY <1>1, <1>7, <1>8
  <2>4. c.stage \notin {"idle", "answer", "c", "rank", "size", "after"}
    BY <1>7
  <2>5. /\ d.shut \/ d.known => d.held
        /\ d.known /\ d.shut => d.closed
        /\ group[h].held => d.held
        /\ group[h].shut => d.shut
        /\ d.known => group[h].known \/ ~group[h].held
    BY <1>3, <1>6, <2>2
  <2> HIDE DEF h
  <2> QED
    BY <1>3, <1>4, <1>5, <2>3, <2>4, <2>5, GroupsChange
<1>13. TypeOK'
  BY <1>1, <1>2, <1>10, <1>12 DEF TypeOK
<1>14. \A k \in Handle : /\ Known(k)' => Known(k)
                         /\ group'[k].rank = group[k].rank /\ group'[k].size = group[k].size
                         /\ group'[k].c = group[k].c
  BY <1>3, <1>6, <1>12 DEF Known
<1>15. Answers'
  BY <1>1, <1>7, <1>11, <1>14, AnswersFrame
<1> QED
  BY <1>10, <1>11, <1>12, <1>13, <1>15 DEF JacclcInv

\* A config that is not at the address of one being freed has no stale entry for a call
\* that makes a group of it.
LEMMA EntryTrue ==
  ASSUME JacclcInv, ~reused, NEW g \in Goroutine, call[g].stage \in {"rank", "size"},
         NEW f \in Field
  PROVE  Agrees(call[g].on, f)
<1> DEFINE a == call[g].on
<1>1. a \in Addr /\ Uses(g, a) /\ heap[a] # None
  BY ConfigUse
<1>2. ~Freeing(a)
  BY <1>1 DEF JacclcInv, Answers
<1>3. True(a)
  BY <1>1, <1>2 DEF JacclcInv, Configs
<1>4. ASSUME Setting(a, f) PROVE FALSE
  <2>1. PICK k \in Goroutine : call[k].stage = "after" /\ call[k].op = "Set" /\ call[k].on = a
    BY <1>4 DEF Setting
  <2>2. Uses(k, a)
    BY <2>1 DEF Uses, Active
  <2> QED
    BY <1>1, <2>1, <2>2 DEF JacclcInv, Configs, Alone
<1> QED
  BY <1>1, <1>3, <1>4 DEF True, Agrees

\* What a call that makes a group reads of its config, from the cache or from C.
LEMMA EntryType ==
  ASSUME JacclcInv, NEW g \in Goroutine, call[g].stage \in {"rank", "size"}, NEW f \in Field
  PROVE  /\ cache[call[g].on][f] \in Value \cup {None}
         /\ heap[call[g].on][f] \in Value /\ call[g].on \in Addr
         /\ Int32(heap[call[g].on]["rank"]) = heap[call[g].on]["rank"]
BY ConfigUse DEF JacclcInv, TypeOK, Config

LEMMA InitRankInv ==
  ASSUME JacclcInv, NEW g \in Goroutine, InitRank(g)
  PROVE  JacclcInv'
<1> DEFINE a == call[g].on
           h == call[g].val
           rank == IF cache[a]["rank"] # None THEN cache[a]["rank"] ELSE heap[a]["rank"]
           d == [group[h] EXCEPT !.rank = rank]
<1>1. /\ call[g].stage = "rank" /\ Active(g) /\ Making(g)
      /\ UNCHANGED <<mu, lib, bound, heap, cache, reused>>
      /\ error' = error \/ \E t \in On(g), v \in Goroutine \cup {None} :
                             error' = [error EXCEPT ![t] = v]
  BY DEF InitRank, Active, Making
<1>2. /\ call[g] \in Call /\ Fits(call[g]) /\ TypeOK /\ Operands
      /\ "error" \in Stage /\ "size" \in Stage /\ "rank" \in Field
  BY <1>1, CallInv DEF Stage
<1>3. call[g].op = "InitConfig" /\ a \in Addr /\ h \in Handle /\ rank \in Value
  BY <1>1, <1>2, EntryType DEF Fits
<1>4. group[h].made /\ ~group[h].held /\ group[h] \in Group /\ Whole(h)
  BY <1>1, <1>2, <1>3 DEF JacclcInv, Groups, OfGroup, TypeOK, NoGroup
<1>5. PICK stage \in {"error", "size"} :
        /\ Goes(g, stage)
        /\ IF stage = "error" THEN group' = group
           ELSE group' = [group EXCEPT ![h].rank = rank]
  BY DEF InitRank
<1>6. d \in Group
  BY <1>3, <1>4 DEF Group
<1>7. stage = "size" => group' = [group EXCEPT ![h] = d]
  BY <1>2, <1>3, <1>4, <1>5 DEF TypeOK
<1>8. /\ (d.held => group[h].held) /\ (d.shut => group[h].shut) /\ (group[h].shut => d.shut)
      /\ (d.known => group[h].known) /\ d.rank = rank /\ d.c = group[h].c /\ d.made
  BY <1>3, <1>4 DEF Group
<1> HIDE DEF d, rank
<1>9. PICK c : Turns(g, c) /\ c.stage = stage /\ Alike(call[g], c) /\ c.val = h
  BY <1>1, <1>2, <1>5, GoesTurns
<1>10. c.op = "InitConfig" /\ c.on = a /\ c.late = call[g].late
  BY <1>3, <1>9 DEF Alike, Later
<1>11. Fits(c)
  BY <1>3, <1>5, <1>9, <1>10 DEF Fits, Makers, OnConfig, OnGroup
<1>12. /\ Operands' /\ Loading' /\ Threads' /\ call' \in [Goroutine -> Call \cup {Idle}]
       /\ error' \in [Thread -> Goroutine \cup {None}]
  BY <1>1, <1>5, <1>9, <1>11, LateFrame DEF Alike, Later
<1>13. Configs' /\ \A b \in Addr : Freeing(b)' <=> Freeing(b)
  BY <1>1, <1>3, <1>9, <1>10, ConfigsFrame
<1>14. CASE stage = "error"
  <2>1. TypeOK'
    BY <1>1, <1>2, <1>5, <1>12, <1>14 DEF TypeOK
  <2>2. Groups'
    BY <1>1, <1>5, <1>9, <1>10, <1>14, GroupsFrame
  <2>3. Answers'
    BY <1>1, <1>5, <1>9, <1>13, <1>14, AnswersFrame DEF Known
  <2> QED
    BY <1>12, <1>13, <2>1, <2>2, <2>3 DEF JacclcInv
<1>15. CASE stage = "size"
  <2>1. Active(g) /\ Turns(g, c) /\ c.on = call[g].on /\ c.late = call[g].late
        /\ c.stage = "size" /\ Making(g) /\ c.val = call[g].val /\ ~d.held
    BY <1>1, <1>4, <1>8, <1>9, <1>10, <1>15
  <2>2. /\ ~d.shut /\ ~d.known /\ ~group[h].shut /\ ~group[h].known
    BY <1>4, <1>8 DEF Whole
  <2>3. /\ Groups' /\ group' \in [Handle -> Group \cup {NoGroup}]
        /\ group'[h] = d /\ \A k \in Handle : k # h => group'[k] = group[k]
    <3> HIDE DEF h, a
    <3> QED
      BY <1>3, <1>4, <1>6, <1>7, <1>15, <2>1, <2>2, GroupsChange
  <2>4. TypeOK'
    BY <1>1, <1>2, <1>12, <2>3 DEF TypeOK
  <2>5. call'[g] = c /\ \A k \in Goroutine : k # g => call'[k] = call[k]
    BY <1>2, <1>9, TurnFacts DEF Turns
  <2>6. Answers'
    <3> SUFFICES ASSUME ~reused PROVE Answers'
      BY <1>1 DEF Answers
    <3>1. Int32(rank) = heap[a]["rank"]
      BY <1>1, <1>2, EntryTrue, EntryType, PassedFacts DEF rank, Agrees
    <3>2. \A b \in Addr : Freeing(b)' => heap'[b] = None
      BY <1>1, <1>13 DEF JacclcInv, Answers
    <3>3. \A k \in Handle : Known(k)' =>
            Int32(group'[k].rank) = group'[k].c.rank /\ group'[k].size = group'[k].c.size
      BY <2>2, <2>3 DEF JacclcInv, Answers, Known
    <3>4. ASSUME NEW k \in Goroutine, k # g, call[k].stage \in {"rank", "size"}
          PROVE  group'[call[k].val] = group[call[k].val]
      <4>1. Fits(call[k]) /\ Making(k)
        BY <3>4, CallInv DEF Active, Making
      <4>2. call[k].val \in Handle /\ call[k].val # h
        BY <1>1, <3>4, <4>1 DEF Fits, JacclcInv, Groups
      <4> QED
        BY <2>3, <4>2
    <3>5. group'[h].c.rank = heap[a]["rank"] /\ group'[h].c.size = heap[a]["size"]
          /\ Int32(group'[h].rank) = group'[h].c.rank
      BY <1>1, <1>8, <2>3, <3>1 DEF JacclcInv, Answers
    <3>6. ASSUME NEW k \in Goroutine, call'[k].stage \in {"rank", "size"}
          PROVE  /\ group'[call'[k].val].c.rank = heap'[call'[k].on]["rank"]
                 /\ group'[call'[k].val].c.size = heap'[call'[k].on]["size"]
                 /\ call'[k].stage = "size" =>
                      Int32(group'[call'[k].val].rank) = group'[call'[k].val].c.rank
      <4>1. CASE k = g
        BY <1>1, <1>9, <1>10, <2>5, <3>5, <4>1
      <4>2. CASE k # g
        BY <1>1, <2>5, <3>4, <3>6, <4>2 DEF JacclcInv, Answers
      <4> QED
        BY <4>1, <4>2
    <3> QED
      BY <3>2, <3>3, <3>6 DEF Answers
  <2> QED
    BY <1>12, <1>13, <2>3, <2>4, <2>6 DEF JacclcInv
<1> QED
  BY <1>14, <1>15

LEMMA InitSizeInv ==
  ASSUME JacclcInv, NEW g \in Goroutine, InitSize(g)
  PROVE  JacclcInv'
<1> DEFINE a == call[g].on
           h == call[g].val
           size == IF cache[a]["size"] # None THEN cache[a]["size"] ELSE heap[a]["size"]
           d == [group[h] EXCEPT !.size = size, !.known = TRUE, !.held = TRUE]
<1>1. /\ call[g].stage = "size" /\ Active(g) /\ Making(g) /\ Goes(g, "done") /\ "done" \in Stage
      /\ UNCHANGED <<mu, lib, bound, heap, reused>>
      /\ error' = error \/ \E t \in On(g), v \in Goroutine \cup {None} :
                             error' = [error EXCEPT ![t] = v]
      /\ cache' = [cache EXCEPT ![a]["size"] = size]
      /\ group' = [group EXCEPT ![h] = d]
  BY DEF InitSize, Active, Making, Stage
<1>2. call[g] \in Call /\ Fits(call[g]) /\ TypeOK /\ Operands /\ "size" \in Field
  BY <1>1, CallInv
<1>3. call[g].op = "InitConfig" /\ a \in Addr /\ h \in Handle /\ size \in Value
  BY <1>1, <1>2, EntryType DEF Fits
<1>4. group[h].made /\ ~group[h].held /\ group[h] \in Group /\ Whole(h)
  BY <1>1, <1>2, <1>3 DEF JacclcInv, Groups, OfGroup, TypeOK, NoGroup
<1>5. d \in Group
  <2>1. [group[h] EXCEPT !.size = size] \in Group
    BY <1>3, <1>4 DEF Group
  <2>2. \A e \in Group : [e EXCEPT !.known = TRUE] \in Group /\ [e EXCEPT !.held = TRUE] \in Group
    BY DEF Group
  <2> QED
    BY <2>1, <2>2
<1>6. /\ d.held /\ d.known /\ d.size = size /\ (d.shut => group[h].shut)
      /\ d.rank = group[h].rank /\ d.c = group[h].c /\ d.made
  BY <1>3, <1>4 DEF Group
<1>7. /\ cache' \in [Addr -> [Field -> Value \cup {None}]] /\ cache'[a]["size"] = size
      /\ \A f \in Field : f # "size" => cache'[a][f] = cache[a][f]
      /\ \A b \in Addr : b # a => cache'[b] = cache[b]
  BY <1>1, <1>2, <1>3 DEF TypeOK
<1> HIDE DEF d
<1>8. PICK c : Turns(g, c) /\ c.stage = "done" /\ Alike(call[g], c)
  BY <1>1, <1>2, GoesTurns
<1>9. c.op = "InitConfig" /\ c.on = a /\ c.late = call[g].late
  BY <1>3, <1>8 DEF Alike, Later
<1>10. Fits(c)
  BY <1>3, <1>8, <1>9 DEF Fits, Makers, OnConfig, OnGroup
<1>11. /\ Operands' /\ Loading' /\ Threads' /\ call' \in [Goroutine -> Call \cup {Idle}]
       /\ error' \in [Thread -> Goroutine \cup {None}]
  BY <1>1, <1>8, <1>10, LateFrame DEF Alike, Later
<1>12. call'[g] = c /\ \A k \in Goroutine : k # g => call'[k] = call[k]
  BY <1>2, <1>8, TurnFacts DEF Turns
<1>13. /\ Groups' /\ group' \in [Handle -> Group \cup {NoGroup}]
       /\ group'[h] = d /\ \A k \in Handle : k # h => group'[k] = group[k]
  <2>1. Active(g) /\ Turns(g, c) /\ c.on = call[g].on /\ c.late = call[g].late
        /\ Making(g) /\ call[g].val = h
    BY <1>1, <1>8, <1>9
  <2>2. c.stage \notin {"idle", "answer", "c", "rank", "size", "after"}
    BY <1>8
  <2>3. ~group[h].shut /\ ~d.shut
    BY <1>4, <1>6 DEF Whole
  <2>4. group' = [group EXCEPT ![h] = d] /\ h \in Handle /\ group[h].made
    BY <1>1, <1>3, <1>4
  <2>5. /\ d.shut \/ d.known => d.held
        /\ d.known /\ d.shut => d.closed
        /\ group[h].held => d.held
        /\ group[h].shut => d.shut
        /\ d.known => group[h].known \/ ~group[h].held
    BY <1>4, <1>6, <2>3
  <2>6. /\ d.held => group[h].held \/ (Making(g) /\ call[g].val = h)
        /\ c.stage \in {"rank", "size"} \/ (c.stage = "after" /\ c.op = "Init") =>
             Making(g) /\ c.val = call[g].val /\ (c.val = h => ~d.held)
        /\ c.stage \notin {"idle", "answer", "c"}
    BY <2>1, <2>2
  <2>7. ASSUME NEW k \in Handle, k = h
        PROVE  /\ Groups' /\ group' \in [Handle -> Group \cup {NoGroup}]
               /\ group'[k] = d /\ \A l \in Handle : l # k => group'[l] = group[l]
    <3>1. /\ group' = [group EXCEPT ![k] = d] /\ group[k].made
          /\ group[k].held => d.held
          /\ group[k].shut => d.shut
          /\ d.known => group[k].known \/ ~group[k].held
          /\ d.held => group[k].held \/ (Making(g) /\ call[g].val = k)
          /\ c.stage \in {"rank", "size"} \/ (c.stage = "after" /\ c.op = "Init") =>
               Making(g) /\ c.val = call[g].val /\ (c.val = k => ~d.held)
      BY <2>4, <2>5, <2>6, <2>7
    <3> HIDE DEF h, a
    <3>2. Active(g) /\ Turns(g, c) /\ c.on = call[g].on /\ c.late = call[g].late
          /\ c.stage \notin {"idle", "answer", "c"}
          /\ (d.shut \/ d.known => d.held) /\ (d.known /\ d.shut => d.closed)
      BY <2>1, <2>5, <2>6
    <3> QED
      BY <1>5, <3>1, <3>2, GroupsChange
  <2> QED
    BY <1>3, <2>7
<1>14. TypeOK'
  BY <1>1, <1>2, <1>7, <1>11, <1>13 DEF TypeOK
<1>15. \A b \in Addr : Freeing(b)' <=> Freeing(b)
  BY <1>1, <1>3, <1>8, <1>9, <1>12 DEF Freeing
<1>16. Configs'
  <2>1. \A k \in Goroutine, b \in Addr : Uses(k, b)' => Uses(k, b)
    BY <1>1, <1>3, <1>9, <1>12 DEF Uses, Active
  <2>2. Alone'
    BY <1>1, <2>1 DEF JacclcInv, Configs, Alone
  <2>3. Read'
    BY <1>1, <1>8, <1>12 DEF JacclcInv, Configs, Read
  <2>4. \A b \in Addr, f \in Field : Setting(b, f)' <=> Setting(b, f)
    BY <1>1, <1>8, <1>12 DEF Setting
  <2>5. ASSUME NEW b \in Addr, ~Freeing(b)' PROVE True(b)'
    <3>1. True(b)
      BY <1>15, <2>5 DEF JacclcInv, Configs
    <3>2. CASE b = a
      <4>1. heap[a] # None
        BY <1>1, ConfigUse
      <4>2. \A f \in Field : Agrees(a, f) \/ Setting(a, f)
        BY <3>1, <3>2, <4>1 DEF True, Agrees
      <4>3. \A f \in Field : Agrees(a, f)' \/ Setting(a, f)
        <5>1. Agrees(a, "size")' \/ Setting(a, "size")
          BY <1>1, <1>2, <1>3, <1>7, <1>9, <1>12, <4>2, EntryType, PassedFacts DEF Agrees
        <5>2. ASSUME NEW f \in Field, f # "size" PROVE Agrees(a, f)' \/ Setting(a, f)
          BY <1>1, <1>3, <1>7, <1>9, <1>12, <4>2, <5>2 DEF Agrees
        <5> QED
          BY <5>1, <5>2
      <4> QED
        BY <1>1, <1>9, <1>12, <2>4, <3>2, <4>1, <4>3 DEF True, Agrees
    <3>3. CASE b # a
      BY <1>1, <1>7, <2>4, <3>1, <3>3 DEF True, Agrees
    <3> QED
      BY <3>2, <3>3
  <2> QED
    BY <2>2, <2>3, <2>5 DEF Configs
<1>17. Answers'
  <2> SUFFICES ASSUME ~reused PROVE Answers'
    BY <1>1 DEF Answers
  <2>1. size = heap[a]["size"]
    BY <1>1, <1>2, EntryTrue, EntryType, PassedFacts DEF Agrees
  <2>2. \A b \in Addr : Freeing(b)' => heap'[b] = None
    BY <1>1, <1>15 DEF JacclcInv, Answers
  <2>3. Int32(group'[h].rank) = group'[h].c.rank /\ group'[h].size = group'[h].c.size
    BY <1>1, <1>6, <1>13, <2>1 DEF JacclcInv, Answers
  <2>4. \A k \in Handle : Known(k)' =>
          Int32(group'[k].rank) = group'[k].c.rank /\ group'[k].size = group'[k].c.size
    BY <1>13, <2>3 DEF JacclcInv, Answers, Known
  <2>5. ASSUME NEW k \in Goroutine, call'[k].stage \in {"rank", "size"}
        PROVE  /\ group'[call'[k].val].c.rank = heap'[call'[k].on]["rank"]
               /\ group'[call'[k].val].c.size = heap'[call'[k].on]["size"]
               /\ call'[k].stage = "size" =>
                    Int32(group'[call'[k].val].rank) = group'[call'[k].val].c.rank
    <3>1. k # g /\ call'[k] = call[k]
      BY <1>8, <1>12, <2>5
    <3>2. Fits(call[k]) /\ Making(k)
      BY <2>5, <3>1, CallInv DEF Active, Making
    <3>3. call[k].val \in Handle /\ call[k].val # h
      BY <1>1, <2>5, <3>1, <3>2 DEF Fits, JacclcInv, Groups
    <3> QED
      BY <1>1, <1>13, <2>5, <3>1, <3>3 DEF JacclcInv, Answers
  <2> QED
    BY <2>2, <2>4, <2>5 DEF Answers
<1> QED
  BY <1>11, <1>13, <1>14, <1>16, <1>17 DEF JacclcInv

-----------------------------------------------------------------------------
(* The theorems.                                                            *)

LEMMA InitInv == Init => JacclcInv
<1> SUFFICES ASSUME Init PROVE JacclcInv
  OBVIOUS
<1>1. \A g \in Goroutine : ~Active(g) /\ call[g] = Idle /\ call[g].stage = "idle"
  BY DEF Init, Active, Idle
<1>2. TypeOK
  BY DEF Init, TypeOK, NoEntry
<1>3. Operands
  BY <1>1 DEF Operands
<1>4. Loading
  BY <1>1 DEF Loading, Init
<1>5. Threads
  BY <1>1 DEF Threads, Apart, Message
<1>6. \A a \in Addr : heap[a] = None /\ cache[a] = NoEntry /\ ~Freeing(a)
  BY <1>1 DEF Init, Freeing
<1>7. Configs
  BY <1>1, <1>6 DEF Configs, Alone, Read, Uses, True, Agrees
<1>8. \A h \in Handle : ~group[h].made
  BY DEF Init, NoGroup
<1>9. Groups
  BY <1>1, <1>8 DEF Groups, Whole, OfGroup, Making
<1>10. Answers
  BY <1>1, <1>6, <1>8 DEF Answers, Known
<1> QED
  BY <1>2, <1>3, <1>4, <1>5, <1>7, <1>9, <1>10 DEF JacclcInv

LEMMA StepInv == JacclcInv /\ [Next]_vars => JacclcInv'
<1> SUFFICES ASSUME JacclcInv, [Next]_vars PROVE JacclcInv'
  OBVIOUS
<1>1. ASSUME NEW g \in Goroutine, Start(g) PROVE JacclcInv'
  BY <1>1, StartBegins, BeginInv
<1>2. ASSUME NEW g \in Goroutine,
             EnsureLoaded(g) \/ TakeLoadMu(g) \/ AlreadyLoaded(g) \/ Register(g) \/ Publish(g)
      PROVE  JacclcInv'
  BY <1>2, EnsureLoadedInv, TakeLoadMuInv, AlreadyLoadedInv, RegisterInv, PublishInv
<1>3. ASSUME NEW g \in Goroutine, CheckClosed(g) \/ Check(g) \/ Failure(g)
      PROVE  JacclcInv'
  BY <1>3, CheckClosedInv, CheckInv, FailureInv
<1>4. ASSUME NEW g \in Goroutine,
             \/ CNewConfig(g) \/ CConfigFromEnv(g) \/ CConfigFree(g) \/ CConfigSet(g)
             \/ CConfigGet(g)
      PROVE  JacclcInv'
  BY <1>4, NewConfigInv, ConfigFreeInv, ConfigSetInv, ConfigGetInv
<1>5. ASSUME NEW g \in Goroutine,
             \/ CInit(g) \/ CInitConfig(g) \/ CGroupFree(g) \/ CGroupUse(g) \/ CQuery(g)
             \/ CLastError(g)
      PROVE  JacclcInv'
  BY <1>5, InitCallInv, InitConfigInv, GroupFreeInv, GroupUseInv, QueryInv, LastErrorInv
<1>6. ASSUME NEW g \in Goroutine,
             Store(g) \/ DeleteCachedConfig(g) \/ DeleteCachedGroup(g) \/ ReturnGroup(g)
      PROVE  JacclcInv'
  BY <1>6, StoreInv, DeleteConfigInv, DeleteGroupInv, ReturnGroupInv
<1>7. ASSUME NEW g \in Goroutine, InitRank(g) \/ InitSize(g) \/ ReadError(g) \/ Return(g)
      PROVE  JacclcInv'
  BY <1>7, InitRankInv, InitSizeInv, ReadErrorInv, ReturnInv
<1>8. CASE UNCHANGED vars
  BY <1>8 DEF vars, JacclcInv, TypeOK, Operands, Fits, Active, Loading, Threads, Apart,
     Message, Configs, Alone, Read, Reached, Uses, Freeing, True, Agrees, Setting, Groups, Whole, OfGroup,
     Making, Answers, Known
<1> QED
  BY <1>1, <1>2, <1>3, <1>4, <1>5, <1>6, <1>7, <1>8 DEF Next

\* The invariant of the wrapper, whatever its goroutines call and C answers.
THEOREM Invariance == Spec => []JacclcInv
BY InitInv, StepInv, PTL DEF Spec

\* No wrapper calls C before every function variable points into the one library that the
\* package reports.
THEOREM FunctionsAreBound == Spec => []CallsAreBound
<1>1. JacclcInv => CallsAreBound
  BY DEF JacclcInv, Loading, CallsAreBound
<1> QED
  BY <1>1, Invariance, PTL

\* What configCache answers for a config that no call is on reached C as what C holds (the
\* same value, unless a rank is no int32 or a text has a NUL), and a freed address has no
\* entry.
THEOREM CacheFollowsC == Spec => []CacheIsTrue
<1>1. JacclcInv => CacheIsTrue
  <2> SUFFICES ASSUME JacclcInv, NEW a \in Addr, ~Freeing(a)
               PROVE  IF heap[a] = None THEN cache[a] = NoEntry
                      ELSE Busy(a) \/ \A f \in Field : Agrees(a, f)
    BY DEF CacheIsTrue, Agrees
  <2>1. True(a)
    BY DEF JacclcInv, Configs
  <2>2. ASSUME NEW f \in Field, Setting(a, f) PROVE Busy(a)
    BY <2>2 DEF Setting, Busy
  <2> QED
    BY <2>1, <2>2 DEF True, Agrees
<1> QED
  BY <1>1, Invariance, PTL

\* The rank, as an int of C, and the size that a group answers from Go are those of its C
\* group, unless its config got the address of one still being freed.
THEOREM GroupsAnswerTruly == Spec => []GroupIsTrue
<1>1. JacclcInv => GroupIsTrue
  BY DEF JacclcInv, Answers, GroupIsTrue
<1> QED
  BY <1>1, Invariance, PTL

\* A call on the slow path returns the message of its own C failure, though goroutines
\* share OS threads.
THEOREM MessagesAreOwn == Spec => []ErrorsAreOwn
<1>1. JacclcInv => ErrorsAreOwn
  BY DEF JacclcInv, Threads, Message, Active, ErrorsAreOwn, Slow
<1> QED
  BY <1>1, Invariance, PTL

\* No operation that looks at groupClosed reaches C on a group of InitConfig whose Close
\* returned before it began.
THEOREM CloseIsFinal == Spec => []ClosedStaysOut
<1>1. JacclcInv => ClosedStaysOut
  BY DEF JacclcInv, Groups, OfGroup, ClosedStaysOut, Known
<1> QED
  BY <1>1, Invariance, PTL
=============================================================================
