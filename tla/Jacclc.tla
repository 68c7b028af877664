--------------------------------- MODULE Jacclc ---------------------------------
(***************************************************************************)
(* internal/jacclc: the Go wrapper of the C library libjacclc, as the      *)
(* generator puregojaccl writes it.  Goroutines of one program load the    *)
(* library, use configs and groups, and read the errors of C calls.        *)
(*                                                                         *)
(* A call is a record that moves through the stages of every wrapper:      *)
(*   load -> (mutex -> publish) -> check -> c -> after -> (error) -> done  *)
(* check is what the wrapper answers from Go, c the C call, after what it  *)
(* does with a success, error the read of the last error of the OS thread  *)
(* the goroutine is then on.  C calls are mlx/c/jaccl.cpp; a handle is its *)
(* address there, which a later object gets again once it is freed.        *)
(***************************************************************************)
EXTENDS Integers, FiniteSets

CONSTANTS
  Goroutine, Thread,
  Addr,      \* addresses of configs on the C heap
  Handle,    \* groups that are made
  Field,     \* the fields of a config in use, of AllFields
  Path,      \* library files
  Symbol,    \* functions of the library
  Exports,   \* Exports[p]: the symbols that p has
  Programs,  \* a program makes the calls, on the fields, that one of them names
  Half,      \* 2^31: what an int of C starts to wrap at
  Nil, None  \* the nil handle; nothing

AllFields == {"coordinator", "rank", "ring", "size"}

\* Values of all fields in Go: a rank is an int there, wider than an int of C; ring is 0
\* or 1; a coordinator is empty (0), a text (1), or that text, a NUL and more (Cut).
Value == -Half .. 2 * Half + 1
Cut == 2

ASSUME JacclcAssumption ==
  /\ Half \in Nat /\ Half > 2
  /\ Field \subseteq AllFields /\ {"rank", "size"} \subseteq Field
  /\ DOMAIN Exports = Path
  /\ \A p \in Path : Exports[p] \subseteq Symbol
  /\ Addr \cap Handle = {} /\ Nil \notin Addr \cup Handle
  /\ None \notin Path \cup Goroutine \cup Thread \cup Addr \cup Handle \cup {Nil}
  /\ None \notin Value \cup [Field -> Value]

VARIABLES
  program,   \* the operations and fields this program uses
  mu,        \* the goroutine that holds loadMu, or None
  lib,       \* jacclcLib, loadedLibraryPath and jacclcLoaded
  bound,     \* bound[s]: the file that the function variable s points into
  heap,      \* heap[a]: the C config at a, or None
  cache,     \* configCache.values
  group,     \* group[h]: the C group and its groupRuntimeState
  error,     \* error[t]: the thread_local message, by the goroutine that left it
  call,      \* call[g]: the call that g is in
  reused     \* a config got the address of one whose ConfigFree had not returned

vars == <<program, mu, lib, bound, heap, cache, group, error, call, reused>>

Inputs(f) ==
  CASE f = "size" -> {1, 2} [] f = "rank" -> {0, Half, 2 * Half + 1}
    [] f = "ring" -> {0, 1} [] f = "coordinator" -> {1, Cut}

\* What reaches C of a value that a setter is given: a rank becomes an int32, and C reads
\* a string up to its first NUL.
Int32(v) == ((v + Half) % (2 * Half)) - Half
Passed(f, v) ==
  CASE f = "rank" -> Int32(v) [] f = "coordinator" /\ v = Cut -> 1 [] OTHER -> v

\* A config in C: its rank is an int there.
Config == {c \in [Field -> Value] : Int32(c["rank"]) = c["rank"]}

\* A config that config_new makes; a negative rank is an unset one.
Default == [f \in Field |-> IF f = "rank" THEN -1 ELSE 0]
NoEntry == [f \in Field |-> None]

NoGroup == [made |-> FALSE]
Idle == [stage |-> "idle"]

Op == {"ConfigNew", "ConfigNewOut", "ConfigFromEnv", "ConfigFree", "IsValid", "Set", "Get",
       "Init", "InitConfig", "GroupFree", "GroupGet", "Barrier", "Reduce", "Gather", "Send",
       "Raw", "IsAvailable", "LastError", "DTypeSize", "LoadPath"}
Stage == {"load", "mutex", "publish", "check", "answer", "c", "after", "rank", "size",
          "error", "done"}
Call == [stage : Stage, op : Op,
         on : Addr \cup Handle \cup {Nil, None},                 \* the handle it is given
         field : Field \cup {None},
         val : Value \cup Handle \cup Path \cup Goroutine \cup {None}, \* input, then result
         path : Path \cup {None},                               \* the library it has opened
         thread : Thread \cup {None},                           \* the one it is locked to
         failed : BOOLEAN,                                      \* its C call failed
         ok : BOOLEAN, msg : Goroutine \cup {None},             \* the error it returns
         late : BOOLEAN]                                        \* it began after Close
Group == [made : {TRUE}, live : BOOLEAN, held : BOOLEAN, c : [rank : Value, size : Value],
          known : BOOLEAN, rank : Value, size : Value, closed : BOOLEAN, shut : BOOLEAN]

TypeOK ==
  /\ mu \in Goroutine \cup {None} /\ lib \in Path \cup {None}
  /\ bound \in [Symbol -> Path \cup {None}]
  /\ heap \in [Addr -> Config \cup {None}]
  /\ cache \in [Addr -> [Field -> Value \cup {None}]]
  /\ group \in [Handle -> Group \cup {NoGroup}]
  /\ error \in [Thread -> Goroutine \cup {None}]
  /\ call \in [Goroutine -> Call \cup {Idle}]
  /\ reused \in BOOLEAN

Init ==
  /\ program \in Programs
  /\ mu = None /\ lib = None /\ bound = [s \in Symbol |-> None]
  /\ heap = [a \in Addr |-> None]
  /\ cache = [a \in Addr |-> NoEntry]
  /\ group = [h \in Handle |-> NoGroup]
  /\ error = [t \in Thread |-> None]
  /\ call = [g \in Goroutine |-> Idle]
  /\ reused = FALSE

-----------------------------------------------------------------------------
(* What the generator decides per function (puregojaccl).                   *)

\* Setters that store what they set; getters that store what they read; setters
\* that forget it (SetDevicesFile and SetDevicesJSON).
StoredOnSet == {"coordinator", "rank", "ring"}
StoredOnGet == {"ring", "size"}

\* Mutant of ForgottenOnSet: new devices leave the size as it was.
ForgottenNever == {}
ForgottenOnSet == {"size"}

\* Mutant of Slow: init and init_config take the fast path too.
SlowSends == {"ConfigNew", "Send"}

\* Everything but these goes by the fast path, which does not lock the OS thread.
Slow == {"ConfigNew", "Init", "InitConfig", "Send"}

\* On a nil handle these take the slow path.
SlowOnNil(op, f) ==
  \/ op = "Set" /\ f \in {"ring", "rank"}
  \/ op = "Get" /\ f \in {"ring", "size"}
  \/ op \in {"IsValid", "GroupGet"}

Locked(c) == c.op \in Slow \/ (c.on = Nil /\ SlowOnNil(c.op, c.field))

\* Group operations that look at groupClosed first.
Checked == {"Barrier", "GroupGet", "Reduce", "Gather"}

\* A zero value is a failure only when there is a message (lastCErrorIfAny).
Quiet(c) ==
  \/ c.op \in {"ConfigNew", "ConfigFromEnv", "DTypeSize", "IsValid"}
  \/ c.op = "Get" /\ c.field \in {"coordinator", "ring"}

-----------------------------------------------------------------------------
\* The threads that g can be on now: its own when it is locked to it.
Pinned == {call[g].thread : g \in {k \in Goroutine : call[k].stage # "idle"}} \ {None}
On(g) == IF call[g].thread # None THEN {call[g].thread} ELSE Thread \ Pinned

Goes(g, stage) == call' = [call EXCEPT ![g].stage = stage]
Done(g, ok, value) ==
  call' = [call EXCEPT ![g].stage = "done", ![g].ok = ok, ![g].val = value]

Begin(g, op, on, field, val) ==
  /\ call[g].stage = "idle" /\ op \in program
  /\ call' = [call EXCEPT ![g] =
       [stage |-> "load", op |-> op, on |-> on, field |-> field, val |-> val,
        path |-> None, thread |-> None, failed |-> FALSE, ok |-> TRUE, msg |-> None,
        late |-> on \in Handle /\ group[on].made /\ group[on].shut]]
  /\ UNCHANGED <<program, mu, lib, bound, heap, cache, group, error, reused>>

\* A config is used by one goroutine at a time, and not after it is freed.
Busy(a) == \E g \in Goroutine :
  call[g].stage # "idle" /\ call[g].on = a
    /\ ~(call[g].op = "ConfigFree" /\ call[g].stage \in {"after", "done"})
Usable == {a \in Addr : heap[a] # None /\ ~Busy(a)} \cup {Nil}
Held == {h \in Handle : group[h].made /\ group[h].held} \cup {Nil}

ConfigNew(g) == Begin(g, "ConfigNew", None, None, None)
ConfigNewOut(g) == Begin(g, "ConfigNewOut", None, None, None)
ConfigFromEnv(g) == Begin(g, "ConfigFromEnv", None, None, None)
ConfigFree(g) == \E a \in Usable : Begin(g, "ConfigFree", a, None, None)
IsValid(g) == \E a \in Usable : Begin(g, "IsValid", a, None, None)

Set(g, f) == f \in Field \cap program /\ \E a \in Usable, v \in Inputs(f) : Begin(g, "Set", a, f, v)
Get(g, f) == f \in Field \cap program /\ \E a \in Usable : Begin(g, "Get", a, f, None)
ConfigSetCoordinator(g) == Set(g, "coordinator")
ConfigSetRank(g) == Set(g, "rank")
ConfigPreferRing(g) == Set(g, "ring")
ConfigSetDevices(g) == Set(g, "size")
ConfigCoordinator(g) == Get(g, "coordinator")
ConfigRank(g) == Get(g, "rank")
ConfigPrefersRing(g) == Get(g, "ring")
ConfigSize(g) == Get(g, "size")

Unmade == {h \in Handle : ~group[h].made}
NewGroupFromEnv(g) == Unmade # {} /\ Begin(g, "Init", None, None, None)
InitConfig(g) == Unmade # {} /\ \E a \in Usable : Begin(g, "InitConfig", a, None, None)
GroupFree(g) == \E h \in Held : Begin(g, "GroupFree", h, None, None)
GroupRank(g) == \E h \in Held : Begin(g, "GroupGet", h, "rank", None)
GroupSize(g) == \E h \in Held : Begin(g, "GroupGet", h, "size", None)
Barrier(g) == \E h \in Held : Begin(g, "Barrier", h, None, None)
Reduce(g) == \E h \in Held : Begin(g, "Reduce", h, None, None)
AllSumBytes(g) == Reduce(g)
AllMaxBytes(g) == Reduce(g)
AllMinBytes(g) == Reduce(g)
AllGatherBytes(g) == \E h \in Held : Begin(g, "Gather", h, None, None)
SendRecv(g) == \E h \in Held : Begin(g, "Send", h, None, None)
AllSum(g) == \E h \in Held : Begin(g, "Raw", h, None, None)
IsAvailable(g) == Begin(g, "IsAvailable", None, None, None)
LastError(g) == Begin(g, "LastError", None, None, None)
DTypeSize(g) == Begin(g, "DTypeSize", None, None, None)
LoadPath(g) == \E p \in Path : Begin(g, "LoadPath", None, None, p)

Start(g) ==
  \/ ConfigNew(g) \/ ConfigNewOut(g) \/ ConfigFromEnv(g) \/ ConfigFree(g) \/ IsValid(g)
  \/ ConfigSetCoordinator(g) \/ ConfigSetRank(g) \/ ConfigPreferRing(g) \/ ConfigSetDevices(g)
  \/ ConfigCoordinator(g) \/ ConfigRank(g) \/ ConfigPrefersRing(g) \/ ConfigSize(g)
  \/ NewGroupFromEnv(g) \/ InitConfig(g) \/ GroupFree(g) \/ GroupRank(g) \/ GroupSize(g)
  \/ Barrier(g) \/ AllSumBytes(g) \/ AllMaxBytes(g) \/ AllMinBytes(g) \/ AllGatherBytes(g)
  \/ SendRecv(g) \/ AllSum(g) \/ DTypeSize(g) \/ IsAvailable(g) \/ LastError(g) \/ LoadPath(g)

-----------------------------------------------------------------------------
(* The library (lib.gen.go).                                                *)

\* What follows ensureLoaded: the look at groupClosed, or the answer from Go.
Prologue(g) == IF call[g].op \in Checked THEN "check" ELSE "answer"

\* ensureLoaded reads jacclcLoaded without the lock.
EnsureLoaded(g) ==
  /\ call[g].stage = "load" /\ call[g].op # "LoadPath" /\ lib # None
  /\ Goes(g, Prologue(g))
  /\ UNCHANGED <<program, mu, lib, bound, heap, cache, group, error, reused>>

TakeLoadMu(g) ==
  /\ call[g].stage = "load" /\ (call[g].op = "LoadPath" \/ lib = None)
  /\ mu = None
  /\ mu' = g
  /\ Goes(g, "mutex")
  /\ UNCHANGED <<program, lib, bound, heap, cache, group, error, reused>>

\* loadPath when a library is there: an error if another path is asked for.
AlreadyLoaded(g) ==
  /\ call[g].stage = "mutex" /\ lib # None
  /\ mu' = None
  /\ IF call[g].op = "LoadPath" THEN Done(g, call[g].val = lib, None) ELSE Goes(g, Prologue(g))
  /\ UNCHANGED <<program, lib, bound, heap, cache, group, error, reused>>

\* resolveLibraryPath: what the environment names or a directory holds, if any.
Resolved(c) == IF c.op = "LoadPath" THEN {c.val} ELSE Path \cup {None}

\* registerJACCLFunctions tries every symbol and leaves what is missing alone.
Registered(p) == [s \in Symbol |-> IF s \in Exports[p] THEN p ELSE bound[s]]

\* Mutant of Register: the library counts as loaded before its symbols are there.
RegisterLate(g) ==
  /\ call[g].stage = "mutex" /\ lib = None
  /\ \E p \in Resolved(call[g]) :
       IF p # None /\ Exports[p] = Symbol
       THEN /\ lib' = p
            /\ call' = [call EXCEPT ![g].stage = "publish", ![g].path = p]
            /\ UNCHANGED <<mu, bound>>
       ELSE Done(g, FALSE, None) /\ mu' = None /\ UNCHANGED <<lib, bound>>
  /\ UNCHANGED <<program, heap, cache, group, error, reused>>

\* loadPath up to the registration: nothing found, symbols missing, or all there.
Register(g) ==
  /\ call[g].stage = "mutex" /\ lib = None
  /\ \E p \in Resolved(call[g]) :
       /\ bound' = IF p = None THEN bound ELSE Registered(p)
       /\ IF p # None /\ Exports[p] = Symbol
          THEN call' = [call EXCEPT ![g].stage = "publish", ![g].path = p] /\ UNCHANGED mu
          ELSE Done(g, FALSE, None) /\ mu' = None
  /\ UNCHANGED <<program, lib, heap, cache, group, error, reused>>

\* The end of loadPath.
Publish(g) ==
  /\ call[g].stage = "publish"
  /\ lib' = call[g].path
  /\ mu' = None
  /\ Goes(g, IF call[g].op = "LoadPath" THEN "done" ELSE Prologue(g))
  /\ UNCHANGED <<program, bound, heap, cache, group, error, reused>>

-----------------------------------------------------------------------------
(* Before the C call: what the wrapper answers itself.                      *)

Known(h) == h \in Handle /\ group[h].made /\ group[h].known
Closed(h) == Known(h) /\ group[h].closed

\* groupClosed, for the operations that look.
CheckClosed(g) ==
  /\ call[g].stage = "check"
  /\ IF Closed(call[g].on)
     THEN Done(g, FALSE, None)
     ELSE Goes(g, "answer")
  /\ UNCHANGED <<program, mu, lib, bound, heap, cache, group, error, reused>>

\* The cached answer to a call, or None: a field of a config, a group's rank or
\* size, and for the collectives of a group of one rank its size.
Answer(c) ==
  CASE c.op = "Get" /\ c.on \in Addr -> cache[c.on][c.field]
    [] c.op = "GroupGet" /\ Known(c.on) /\ ~Closed(c.on) ->
         IF c.field = "rank" THEN group[c.on].rank ELSE group[c.on].size
    [] c.op \in {"Barrier", "Reduce", "Gather"} /\ Known(c.on) /\ ~Closed(c.on)
         /\ group[c.on].size = 1 -> 1
    [] OTHER -> None

Check(g) ==
  /\ call[g].stage = "answer"
  /\ LET answer == Answer(call[g])
     IN  IF answer # None THEN Done(g, TRUE, answer)
         ELSE IF Locked(call[g])
         THEN \E t \in Thread \ Pinned :
                call' = [call EXCEPT ![g].stage = "c", ![g].thread = t]
         ELSE Goes(g, "c")
  /\ UNCHANGED <<program, mu, lib, bound, heap, cache, group, error, reused>>

-----------------------------------------------------------------------------
(* The C call (mlx/c/jaccl.cpp), on a thread t of g: a success clears the   *)
(* message of the thread, a failure sets it.                                *)

Gone(h) == h \in Handle /\ ~group[h].live

\* A nil handle is an error of every function but the two that free; a group that
\* was freed may do anything; the rest depends on the world outside.
Fails(c) ==
  \/ c.on = Nil /\ c.op \notin {"ConfigFree", "GroupFree"}
  \/ c.op = "DTypeSize"
MayFail(c) ==
  \/ Fails(c) \/ Gone(c.on)
  \/ c.op \in {"ConfigNew", "ConfigNewOut", "ConfigFromEnv", "Init",
               "Barrier", "Reduce", "Gather", "Raw", "Send"}
  \/ c.op = "Set" /\ c.field = "size"
  \/ c.op = "InitConfig" /\ c.on # Nil /\ heap[c.on]["size"] # 1

Failure(g) ==
  /\ call[g].stage = "c" /\ MayFail(call[g])
  /\ \E t \in On(g) : error' = [error EXCEPT ![t] = g]
  /\ call' = [call EXCEPT ![g].stage = "error", ![g].failed = TRUE]
  /\ UNCHANGED <<program, mu, lib, bound, heap, cache, group, reused>>

Succeeds(g, ops) ==
  /\ call[g].stage = "c" /\ call[g].op \in ops /\ ~Fails(call[g])
  /\ \E t \in On(g) : error' = [error EXCEPT ![t] = None]
  /\ UNCHANGED <<program, mu, lib, bound, cache>>

\* A ConfigFree whose C call is over and whose cache entry is still there.
Freeing(a) == \E k \in Goroutine :
  call[k].stage = "after" /\ call[k].op = "ConfigFree" /\ call[k].on = a

Allocate(g, ops, configs) ==
  /\ Succeeds(g, ops)
  /\ \E a \in {b \in Addr : heap[b] = None}, config \in configs :
       /\ heap' = [heap EXCEPT ![a] = config]
       /\ reused' = (reused \/ Freeing(a))
       /\ call' = [call EXCEPT ![g].stage = "done", ![g].on = a]
  /\ UNCHANGED group

CNewConfig(g) == Allocate(g, {"ConfigNew", "ConfigNewOut"}, {Default})

\* jaccl::Config::from_env: the rank and the devices of the environment.
CConfigFromEnv(g) ==
  Allocate(g, {"ConfigFromEnv"},
           {[Default EXCEPT !["rank"] = r, !["size"] = n] : r \in {0, 1}, n \in {1, 2}})

CConfigFree(g) ==
  /\ Succeeds(g, {"ConfigFree"})
  /\ IF call[g].on = Nil THEN Goes(g, "done") /\ UNCHANGED heap
     ELSE Goes(g, "after") /\ heap' = [heap EXCEPT ![call[g].on] = None]
  /\ UNCHANGED <<group, reused>>

CConfigSet(g) ==
  /\ Succeeds(g, {"Set"})
  /\ LET f == call[g].field
     IN  heap' = [heap EXCEPT ![call[g].on][f] = Passed(f, call[g].val)]
  /\ Goes(g, "after")
  /\ UNCHANGED <<group, reused>>

\* A negative value is an error though the C call succeeded.
CConfigGet(g) ==
  /\ Succeeds(g, {"Get"})
  /\ LET value == heap[call[g].on][call[g].field]
     IN  call' = [call EXCEPT ![g].stage = IF value < 0 THEN "error" ELSE "after",
                              ![g].val = value]
  /\ UNCHANGED <<heap, group, reused>>

MadeGroup(rank, size) ==
  [made |-> TRUE, live |-> TRUE, held |-> FALSE, c |-> [rank |-> rank, size |-> size],
   known |-> FALSE, rank |-> 0, size |-> 0, closed |-> FALSE, shut |-> FALSE]

CInit(g) ==
  /\ Succeeds(g, {"Init"})
  /\ \E h \in Unmade, size \in {1, 2} :
       /\ group' = [group EXCEPT ![h] = MadeGroup(0, size)]
       /\ call' = [call EXCEPT ![g].stage = "after", ![g].val = h]
  /\ UNCHANGED <<heap, reused>>

CInitConfig(g) ==
  /\ Succeeds(g, {"InitConfig"})
  /\ \E h \in Unmade :
       /\ group' = [group EXCEPT ![h] =
                      MadeGroup(heap[call[g].on]["rank"], heap[call[g].on]["size"])]
       /\ call' = [call EXCEPT ![g].stage = "rank", ![g].val = h]
  /\ UNCHANGED <<heap, reused>>

CGroupFree(g) ==
  /\ Succeeds(g, {"GroupFree"})
  /\ IF call[g].on = Nil THEN Goes(g, "done") /\ UNCHANGED group
     ELSE Goes(g, "after") /\ group' = [group EXCEPT ![call[g].on].live = FALSE]
  /\ UNCHANGED <<heap, reused>>

\* AllGatherBytes of a group without a cached size asks for it first.
CGroupUse(g) ==
  /\ Succeeds(g, {"GroupGet", "Barrier", "Reduce", "Gather", "Raw", "Send"})
  /\ IF call[g].op = "Gather" /\ ~Known(call[g].on)
     THEN call' = [call EXCEPT ![g].op = IF group[call[g].on].c.size = 1 THEN @ ELSE "Raw",
                               ![g].stage = IF group[call[g].on].c.size = 1 THEN "done" ELSE "c"]
     ELSE Goes(g, "done")
  /\ UNCHANGED <<heap, group, reused>>

CQuery(g) ==
  /\ Succeeds(g, {"IsValid", "IsAvailable"})
  /\ Goes(g, "done")
  /\ UNCHANGED <<heap, group, reused>>

\* mlx_jaccl_last_error leaves the message as it is.
CLastError(g) ==
  /\ call[g].stage = "c" /\ call[g].op = "LastError"
  /\ \E t \in On(g) : call' = [call EXCEPT ![g].stage = "done", ![g].val = error[t]]
  /\ UNCHANGED <<program, mu, lib, bound, heap, cache, group, error, reused>>

-----------------------------------------------------------------------------
(* After a successful C call.                                               *)

\* setCachedCoordinator, setCachedRank, setCachedPreferRing and clearCachedSize: a setter
\* keeps what it was given and not what reached C.
Stored(c) ==
  CASE c.op = "Set" /\ c.field \in ForgottenOnSet -> [cache EXCEPT ![c.on][c.field] = None]
    [] c.field \in (IF c.op = "Set" THEN StoredOnSet ELSE StoredOnGet) ->
         [cache EXCEPT ![c.on][c.field] = c.val]
    [] OTHER -> cache

Store(g) ==
  /\ call[g].stage = "after" /\ call[g].op \in {"Set", "Get"}
  /\ cache' = Stored(call[g])
  /\ Goes(g, "done")
  /\ UNCHANGED <<program, mu, lib, bound, heap, group, error, reused>>

\* Mutant of DeleteCachedConfig: the entry stays.
KeepCachedConfig(g) ==
  /\ call[g].stage = "after" /\ call[g].op = "ConfigFree"
  /\ Goes(g, "done")
  /\ UNCHANGED <<program, mu, lib, bound, heap, cache, group, error, reused>>

DeleteCachedConfig(g) ==
  /\ call[g].stage = "after" /\ call[g].op = "ConfigFree"
  /\ cache' = [cache EXCEPT ![call[g].on] = NoEntry]
  /\ Goes(g, "done")
  /\ UNCHANGED <<program, mu, lib, bound, heap, group, error, reused>>

\* Mutant of DeleteCachedGroup: the state is not closed.
KeepCachedGroup(g) ==
  /\ call[g].stage = "after" /\ call[g].op = "GroupFree"
  /\ group' = [group EXCEPT ![call[g].on].shut = TRUE]
  /\ Goes(g, "done")
  /\ UNCHANGED <<program, mu, lib, bound, heap, cache, error, reused>>

\* A group of mlx_jaccl_init has no state to close.
DeleteCachedGroup(g) ==
  /\ call[g].stage = "after" /\ call[g].op = "GroupFree"
  /\ group' = [group EXCEPT ![call[g].on].shut = TRUE, ![call[g].on].closed = group[call[g].on].known]
  /\ Goes(g, "done")
  /\ UNCHANGED <<program, mu, lib, bound, heap, cache, error, reused>>

ReturnGroup(g) ==
  /\ call[g].stage = "after" /\ call[g].op = "Init"
  /\ group' = [group EXCEPT ![call[g].val].held = TRUE]
  /\ Goes(g, "done")
  /\ UNCHANGED <<program, mu, lib, bound, heap, cache, error, reused>>

\* InitConfig asks the config for the rank and the size of the group it has made; a rank
\* below zero is an error when C answers it and none when the cache does.
InitRank(g) ==
  /\ call[g].stage = "rank"
  /\ LET a == call[g].on
         cached == cache[a]["rank"] # None
         rank == IF cached THEN cache[a]["rank"] ELSE heap[a]["rank"]
     IN  /\ \E t \in On(g) : error' = IF cached THEN error ELSE [error EXCEPT ![t] = None]
         /\ IF ~cached /\ rank < 0 THEN Goes(g, "error") /\ UNCHANGED group
            ELSE Goes(g, "size") /\ group' = [group EXCEPT ![call[g].val].rank = rank]
  /\ UNCHANGED <<program, mu, lib, bound, heap, cache, reused>>

InitSize(g) ==
  /\ call[g].stage = "size"
  /\ LET a == call[g].on
         cached == cache[a]["size"] # None
         size == IF cached THEN cache[a]["size"] ELSE heap[a]["size"]
     IN  /\ \E t \in On(g) : error' = IF cached THEN error ELSE [error EXCEPT ![t] = None]
         /\ cache' = [cache EXCEPT ![a]["size"] = size]
         /\ group' = [group EXCEPT ![call[g].val] =
                        [@ EXCEPT !.size = size, !.known = TRUE, !.held = TRUE]]
  /\ Goes(g, "done")
  /\ UNCHANGED <<program, mu, lib, bound, heap, reused>>

\* lastCError and lastCErrorIfAny: the message of the thread g is on now.
ReadError(g) ==
  /\ call[g].stage = "error"
  /\ \E t \in On(g) :
       call' = [call EXCEPT ![g].stage = "done", ![g].msg = error[t],
                            ![g].ok = Quiet(call[g]) /\ error[t] = None]
  /\ UNCHANGED <<program, mu, lib, bound, heap, cache, group, error, reused>>

Return(g) ==
  /\ call[g].stage = "done"
  /\ call' = [call EXCEPT ![g] = Idle]
  /\ UNCHANGED <<program, mu, lib, bound, heap, cache, group, error, reused>>

Next ==
  \E g \in Goroutine :
    \/ Start(g)
    \/ EnsureLoaded(g) \/ TakeLoadMu(g) \/ AlreadyLoaded(g) \/ Register(g) \/ Publish(g)
    \/ CheckClosed(g) \/ Check(g) \/ Failure(g)
    \/ CNewConfig(g) \/ CConfigFromEnv(g) \/ CConfigFree(g) \/ CConfigSet(g) \/ CConfigGet(g)
    \/ CInit(g) \/ CInitConfig(g) \/ CGroupFree(g) \/ CGroupUse(g) \/ CQuery(g) \/ CLastError(g)
    \/ Store(g) \/ DeleteCachedConfig(g) \/ DeleteCachedGroup(g) \/ ReturnGroup(g)
    \/ InitRank(g) \/ InitSize(g) \/ ReadError(g) \/ Return(g)

Spec == Init /\ [][Next]_vars

-----------------------------------------------------------------------------
(* A wrapper calls the C functions through variables that other goroutines   *)
(* write while they load: none is called before all of them point into the   *)
(* one library that the package reports, whatever loads failed before.       *)
CallsAreBound ==
  \A g \in Goroutine : call[g].stage \in {"check", "answer", "c", "after", "error"} =>
    lib # None /\ \A s \in Symbol : bound[s] = lib

(* configCache is keyed by a C address and kept up to date after the C call:  *)
(* once the calls on a config and the ConfigFree of its predecessor are over, *)
(* what it holds reached C as what C holds, and a freed address has no entry. *)
(* The two are the same value unless a rank is no int32 or a text has a NUL.  *)
CacheIsTrue ==
  \A a \in Addr : ~Freeing(a) =>
    IF heap[a] = None THEN cache[a] = NoEntry
    ELSE Busy(a) \/ \A f \in Field :
           cache[a][f] # None => Passed(f, cache[a][f]) = heap[a][f]

(* The rank and size that a group of InitConfig answers from Go, and by which *)
(* a collective of one rank skips the C call, are those of its C group, the   *)
(* rank as it reached C, if its config did not get the address of one still   *)
(* being freed.                                                               *)
GroupIsTrue ==
  ~reused => \A h \in Handle : Known(h) =>
    Int32(group[h].rank) = group[h].c.rank /\ group[h].size = group[h].c.size

(* The messages are per OS thread and Go moves goroutines between threads: a  *)
(* call that makes a config or a group or moves a message returns an error    *)
(* when its C call failed, with the message of that very call.                *)
ErrorsAreOwn ==
  \A g \in Goroutine :
    call[g].stage = "done" /\ call[g].failed
      /\ call[g].op \in {"ConfigNew", "Init", "InitConfig", "Send"}
      => ~call[g].ok /\ call[g].msg = g

(* An operation that checks does not reach C on a group whose Close had       *)
(* returned before it began, if the group came from InitConfig.               *)
ClosedStaysOut ==
  \A g \in Goroutine :
    call[g].stage = "c" /\ call[g].late /\ call[g].op \in Checked => ~Known(call[g].on)
================================================================================
