# TLA+ models and proofs for mlx-c-gen

The repository generates the C API of MLX (`internal/mlxcgen`, `tools/mlx-c-gen`, output in
`mlx/c`) and carries `internal/jacclnative`, a Go implementation of the JACCL collectives over
RDMA with a TCP side channel, for which `jaccl` is the public package, and `internal/jacclc`, a Go
wrapper of the C one. The generator is
mostly a pure function from headers to text. What is hard to test is elsewhere: ranks that open,
exchange, fail and close in any order; registered memory that is reused while transfers are in
flight; goroutines that move between OS threads under a C library; files that must agree although
different tools write them at different times; and the release of generated source, where several
pull requests and checks race. That is what is modelled here.

Run `tlc -workers 2 -config X.cfg M` for a run of the table below and `tlapm M.tla` for the proofs
of `SideSetupProofs`, `GroupLifecycleProofs`, `WireProofs`, `GraphGatherProofs`, `CollectivesProofs`,
`ReleaseProofs`, `JacclcProofs` and `RepositoryProofs`. The last one takes about eight minutes.

## Inventory

Paths are below `src/`; `jn/` stands for `internal/jacclnative/`.

| component | state it keeps | operations | what must hold |
|---|---|---|---|
| side channel, `jn/side_channel.go` 183-381 | one TCP connection per peer at rank 0, streams of frames | AllGather, Barrier, Close | a result is made of the payloads of that very call; nobody leaves before everybody entered; every call ends |
| its setup, 46-163 | backlog, table of peers | listen, dial, hello, ack | one right process per rank; everyone is connected, or told so |
| group life cycle, `jn/backend.go` 93-225 and 983-1016, `jn/group.go`, and `jaccl/` in front of it | connections, closed flag | NewGroup, Barrier, Close | a working group only when every rank opened; teardown is joint and ends |
| wire protocol, `jn/backend.go` 231-297, 530-767 | slots of staging memory, work requests, completions | send, recv, exchange | no slot reused early, no stale or short data accepted, healthy operations succeed and end |
| graph gather, `jn/backend.go` 395-528 | known values, step, one slot per wire | graphGather | complete, of this round, with one slot per wire |
| collectives, `jn/collective.go` | dst and src of the caller, maybe overlapping | AllSum, AllMax, AllMin, AllGather | results in rank order, alike on all ranks |
| topology and memory budget, `jn/backend.go` 780-909 | none | checks of the device matrix | the same verdict on every rank |
| RDMA provider, `jn/rdma_darwin_arm64.go` | queue pairs, memory regions | foreign calls | nothing leaks or is freed in use |
| release revisions, `internal/mlxcgen/revision`, `tools/mlx-c-candidate`, `tools/mlx-c-revision-check`, `tools/mlx-c-publish-candidate`, two workflows | manifest, pins, candidate branches | prepare, regenerate, publish, check, merge | an identity names one generated cut |
| caches, `internal/mlxcgen/parser/parser.go` 306-485, `tools/mlx-c-tool-cached`, `tools/mlx-c-jaccl-check-cached`, `tools/mlx-c-gen/main.go` 618-756 | files keyed by inputs | look up, fill | what is returned is what the inputs now give |
| header parser, binding generators, `internal/mlxcgen/parser`, `generators`, `variants`, `hooks`, `types` | none | parse, select, name, write | nothing is lost, each C name once, the output a function of the input |
| manifest, custom specs, API lock, `internal/mlxcgen/plan`, `customspec`, `apilock` | hand-kept and generated files | load, check, lock | the files agree with each other |
| reports and audits, `internal/mlxcgen/regenreport`, `inventory`, `symbols`, `doccoverage`; the command line, `tools/mlx-c-gen` | a scratch tree | generate, parse, check | what passes is what would be generated |
| purego generator, `internal/mlxcgen/puregojaccl`, `tools/mlx-c-gen-purego-jaccl` | two Go files | generate, check | what is called is registered |
| Go wrapper of the C library, `internal/jacclc`, over `mlx/c/jaccl.cpp` | loaded library, caches by C address, errors by OS thread | load, config, group and message calls | calls are bound, answers from Go are those of C, errors are one's own, nothing after Close |
| legacy `python/`, examples, smoke tests | none of their own | | |

The components meet as follows. `newNativeBackend` first builds the side channel (`newSideChannel`),
then opens RDMA connections, exchanges destinations in one AllGather, and connects. Barriers and
the teardown barrier are AllGathers of nothing on the same channel, so their frames cannot be told
apart. Collectives run `exchange` on wires between neighbours or, when the ranks are not a mesh,
`graphGather`, which ends each chunk in a Barrier. `Group` has no thread of its own: concurrency is
between ranks, between goroutines of one exchange, between a call and its context, and between
calls and Close. `jaccl` (`jaccl/jaccl.go`) hands each call to a `Group` of `internal/jacclnative`.
`internal/jacclc` is the other way to the same collectives, used by
`tools/mlx-c-jacclc-rank-smoke` and written in part by the purego generator: it answers what it can
from Go and calls the C library for the rest. The
generator's tools meet through the files of a checkout: `generate` writes `mlx/c`, `mlx-c-lock`
locks what is there, `parse` and `check` compare both with the headers of MLX and the manifest, the
build makes libraries of it, and the purego generator makes `internal/jacclc` of the lock. The
release tools meet only through git: a candidate is prepared from one state of the base branch,
checked against another and merged into a third.

Hard behaviours, each at its line in `PROJECT.json` under `hazards`: frames without round numbers;
errors on one rank while the others go on; deadlines that leave torn frames or posted receives;
completions that outlive their operation; chunks that overtake each other; ranks with different
device matrices; C addresses that are used again while a cache still names them; files edited
while a tool reads them, and tools killed between two writes; checks made on a base that has moved.

## Modules

| module | models | state and actions |
|---|---|---|
| `AllGather` | what the side channel promises: a call is entered, left with one value per rank of that call, or given up | `entered`, `left`, `got`, `gaveUp`; `Enter`, `Leave`, `GiveUp` |
| `SideChannel` | the star once connected | `up`, `down` are the TCP streams to and from rank 0, whole frames; `pc`, `peer`, `values` the loops of AllGather; `CallAllGather` to `ReturnGathered` are its steps between two I/O operations, `ReadFails`, `WriteFails`, `UsesClosed`, `Expire` its error paths, `Close` the close with what the kernel drops |
| `SideChannelInv` | the inductive invariant | `StreamsInStep` |
| `SideSetup` | `listen` and `dial`, one action per I/O operation, with stray processes | `backlog`, `sent`, `acked`, `reset`, `peers`, `cur` |
| `SideSetupProofs` | theorems | |
| `GroupLifecycle` | extends `SideChannel`: each rank's `NewGroup`, Barriers, Close as a client of the channel | `at` is the phase; `OpenLocal`, `OpenFails`, `Exchanged`, `EnterBarrier`, `BarrierHalf`, ..., `CloseSide`, `Crash`, `ContextEnds` |
| `GroupLifecycleProofs` | theorems about the side channel and the life cycle | |
| `Wire`, `MCWire` | send, recv and exchange on one wire | `outstanding`, `next` the window; `polled` and `cq` completions; `sendBuf`, `recvBuf` the slots; `Stage`, `Poll`, `Confirm`, `Expire` and the transport's `Transfer` |
| `WireProofs` | theorems | |
| `Topology` | the device matrix: the checks of `newNativeBackend`, the agreement of `open`, how a message is cut over wires and a gather into chunks | operators, with `Reaches` and `Partitions` for what they should mean |
| `GraphGather`, `MCGraphGather` | extends `Topology`: `graphGatherChunk` over the graph of any matrices that open | `config` is each rank's matrix; `known`, `payload`, `step`, `round`, one receive slot per neighbour |
| `GraphGatherProofs` | theorems about the topology and the gather | |
| `Collectives`, `MCCollectives` | reductions and gathers over the chunked exchange, with memory that overlaps | `mem` is each rank's memory, `staged` and `recvs` the chunks; `Enter`, `Stage`, `Receive`, `Return`, `Fail` |
| `CollectivesProofs` | theorems | |
| `Release`, `MCRelease` | candidates, pull requests, the revision policy and merges | `history` of the base branch, `pr` per open pull request; `Topic`, `PublishFromBase`, `PublishFromTopic`, `Check`, `Merge`, `Abandon`, `TagCore` |
| `ReleaseProofs` | theorems | |
| `Selection` | one header to C functions: `walkAST`, `deduplicateFunctions`, `selectVariants`, C names, hooks, type mappings | operators |
| `Decisions` | extends `Selection`: what `parse` decides of each declaration, and its gates | operators |
| `Artifacts` | extends `Decisions`: the files beside the sources, the lock, specs, inventory, libraries, symbols, the comparison of trees | operators |
| `Repository`, `MCRepository` | extends `Artifacts`: a checkout, its tools, the AST cache, edits | `tree` is `mlx/c`, `lock`, `tu`, `lib`, `bind` what is made of it, `adata` and `ameta` the two files of a cache entry, `run` the runs; one action per step between two accesses to shared files, and `Checkout`, `EditPolicy`, `HandEdit`, `Kill` |
| `RepositoryProofs` | theorems | |
| `Jacclc`, `MCJacclc` | the Go wrapper and its C library | `call` moves a call through load, check, C call, cache, error; `lib`, `bound` the loading; `heap`, `cache`, `group`; `error` by OS thread |
| `JacclcProofs` | theorems | |

Data are abstracted to what the properties tell apart. A payload of the side channel is the number
of the call it was passed to and its size; a chunk of a wire is the operation and the index it
belongs to; a device matrix is the number of wires of each pair; an element of a reduction is a
small number, a zero of either sign or a NaN, with an addition that is commutative and not
associative, and 16-bit floats have the maximum and minimum of `jn/half.go`, which break ties the
other way; the wires between two ranks, which run side by side, are one wire in `Collectives`; a tree of the repository is its pin, its
revision, the edits in its sources and those in its output. Sizes keep the frame limit and the
base64 and JSON growth that decide whether a broadcast fits. In `Selection` a name is a sequence of
words, so that two functions whose C names meet do meet; a type is a name with what its mapping
makes of it, and the registry has one type of each kind of mapping. A parse result in the cache is
the revision of the text it was made from; the size and time of a header are the number of the edit
that set them, so that an edit which keeps both does not occur. A config of `Jacclc` has the four
fields that the Go wrapper treats differently, and a C address is given again once it is free. What
the wrapper passes to C goes through the conversion of the code: a rank is cut to 32 bits
(`internal/jacclc/functions.gen.go` 868; `Half` stands for 2^31) and a text ends at its first NUL
(813); the Go cache keeps the value as it was given.

Outside `src/`, and modelled from how the code uses them: TCP (streams of whole frames, end of file
after a close, a possible reset when unread data is dropped), the RDMA transport (the one of
`jn/transport_memory_test.go`, with a parameter for how many completions a poll takes), git with
its hosting service (a three-way merge by field, a check that runs on the merge commit of the push
and is not run again when the base moves), the compiler and linker (which sources cannot be built,
which symbols a library has), and an editor and the file system.

`mutants` in `PROJECT.json` name, for each property, a plausible bug in a definition under which
the property fails; the mutated forms stand beside the definitions they replace.

## Runs

| run | bounds | question |
|---|---|---|
| `side_channel` | 3 ranks, 2 calls each, payloads of 0 and of a size whose broadcast does not fit | do results belong to their call, does nobody leave early, does the star implement `AllGather`, does every call end |
| `side_setup` | 2 peers and 1 stray with any hello or none | is a ready coordinator right about its peers, is everyone connected or turned away |
| `group_lifecycle` | 3 ranks, 1 Barrier, two ranks can crash, one has a deadline, any can fail to open or connect | is a failed rank's frame ever taken for destinations, are barriers and teardown joint, does every rank end |
| `barrier_misses` (violation) | 2 ranks | does Barrier always wait for the same Barrier |
| `wire` | programs of 2 or 3 operations, 1 to 6 chunks, 4 slots, polls of 1 and 8 | are slots exclusive, is accepted data right, do healthy operations succeed and end |
| `wire_overshoot` (violation) | one message of 2 chunks, polls of 8 | does a healthy pipelined message succeed |
| `wire_stale` (violation) | two exchanges, a context that ends, a caller that goes on | is accepted data right |
| `graph_gather` | 4 ranks, 2 chunks; a line, a star, a ring, two parts, or matrices that differ between ranks | in which groups that open is a gather complete, of its round, with one slot enough, and does every rank end with every value; the `ASSUME`s of `MCGraphGather` compare every check with its reference over all matrices of 4 ranks with at most one wire per pair, and cut messages of all small sizes |
| `collectives` | 2 ranks with 2 chunks, 3 ranks with 1; numbers, both zeros and NaN; reductions with src at dst, one cell on or apart, gathers of two ranks with src anywhere | are results in rank order on every rank, which gathers go wrong |
| `release` | 3 MLX commits of 2 cores, 2 revisions, 1 edit, which shows in the output, 2 open pull requests, 3 merges, 1 tag; nothing is pushed after the third merge | does an identity name one cut, do merges follow the policy, does the policy accept the tool's candidates |
| `jacclc` | 2 goroutines on 2 OS threads, 1 config address, 1 group, 2 library files of which one lacks a symbol, 12 programs of calls, ranks beyond 32 bits and texts with a NUL (`Half` = 3) | are calls bound, are caches and groups what C has, are errors one's own, does nothing that checks reach C after Close |
| `repository` | 22 repositories of at most 14 declarations, 2 revisions of MLX, 2 edits, in some a second run, in one a header that clang reads in part | what may be relied on once the gates have passed, in runs that nothing disturbed |

Why the bounds are enough to be of use. With three ranks one peer can fail while rank 0 deals with
the other, before it and after it in its loop; with two calls a frame of the first can be met in
the second, which is where a stream without round numbers breaks. Four slots and six chunks wrap
the window; two operations in a row meet what the first left behind. Four ranks give a line whose
ends are three steps apart, so that a step too few is seen, and two chunks reuse each slot across
rounds. Two chunks per rank let one be received while the other is still to be sent from memory it
may overlap. Two open pull requests are the least in which a check is overtaken, and three merges
the least in which a core is left, met again and merged from. One config address is what makes reuse certain, and two threads
let a goroutine come back on another. Each repository of `MCRepository` is built around one way in
which the gates could be wrong (the comments there say which); the two edits of
`repository` are a change and the one that follows it, or a change while clang reads and its
undoing. The largest run has about 1.8 million states (`jacclc`).

`Jacclc` and `Repository` run for ever and are checked for deadlock. The other configurations turn
that check off because their systems end: programs are finite, calls and merges are bounded. That
nobody is stuck is stated as liveness instead.

### Fairness

Steps of a goroutine that can go on are weakly fair, because the Go scheduler runs them; so is the
delivery of what TCP or the transport holds. A read that can only fail (the peer closed) fails.
Contexts that end are never fair, with one exception: in `GroupLifecycle` the teardown barrier has
`closeBarrierTimeout` (`jn/backend.go` 14), so its end is a step of the channel. In `SideChannel`
a caller whose call failed closes its channel, as `newNativeBackend` does; without that a peer may
wait for its own context, which the code allows. In `SideSetup` the ranks' dial loops keep trying,
and a coordinator that waits for a client that has gone is told by TCP. Nothing is assumed of a
stray: it may connect and never say its hello, and since `listen` reads the hellos one at a time,
with no deadline but its context's (`jn/side_channel.go` 88-99), it then holds rank 0. `Release`, `Repository` and
`Jacclc` state no liveness: people and runners may stop, and a C collective may wait for ever.

### What the runs show

The side channel keeps its promise: with callers that stop after an error, no crash, deadline or
oversized frame shifts a stream. `ResultsAgree` also holds in spite of rank 0 failing between two
writes of one broadcast. A torn frame makes the reader fail and the stream is then never read as a
header.

Three behaviours disagree with what the repository says; they are `findings` in `PROJECT.json`:

- `barrier_misses`: the frames of the teardown barrier and of Barrier are alike, so a rank that
  fails to connect completes the Barrier of a rank that is ready (`jn/backend.go` 163-169, 993).
  `SameBarrierUnspoilt` and `TeardownIsJoint` state where the promise does hold: as long as no
  rank leaves with an error of its own after the exchange. The history variable `spoilt` says so.
- `wire_overshoot`: one poll can return more completions than were asked for, and the surplus is
  reported as unexpected (`jn/backend.go` 754-767). Exchanges, with one chunk in flight, are safe,
  and so is a transport that returns one at a time, which is what the tests use.
- `wire_stale`: work ids do not name the operation, so a caller that goes on after a deadline can
  be given the abandoned operation's completion (`jn/backend.go` 682-724).

A fourth is known and no longer has a run of its own. The workflow counts any difference in
`internal/mlxcgen`, `tools/mlx-c-gen` or `codegen` as a changed generator, and `mlx-c-candidate`
then raises the revision (`tools/mlx-c-candidate/main.go` 107); `mlx-c-revision-check` compares
only the generated files and their data (`tools/mlx-c-revision-check/main.go` 173-191), so it
rejects the candidate of a generator change that does not show in the output. The other way round,
the check counts another spelling of the pin and the tool does not. `MovesAccepted` states the case
that works: a move to another commit.

Other limits of the code that the passing properties carry as conditions:

- `IdentityNamesOneCut` holds unless a pull request is merged behind a base that its check had not
  seen, or the base returns to an earlier core, which restarts at revision 1. The policy requires
  the latter, and nothing in the workflow prevents the former: two pull requests that raise the
  revision to the same number merge cleanly. `MergesFollowPolicy` found a third way: a check that
  runs on a merge commit older than the base it compares with can pass a move to another core,
  whose revision the merge then replaces. Within one core a stale merge commit fails closed, unless
  the base has left that core and come back to it in between, with its revisions restarted: the
  attempt to prove the property without that exception failed, and three merges show it to TLC.
- `ReductionsInOrder` excepts (`Unordered`) rank 0 of two ranks, not in place, in a maximum or
  minimum of two values of which neither is less, a NaN and another or zeros of either sign: it
  reduces its own value into its peer's, the other rank does it in rank order, and the two results
  may differ (`jn/collective.go` 100-105).
- `GatherInOrder` excepts what a rank of two receives from a peer whose src lies across a place of
  dst (`Straddles`): `AllGatherBytes` makes no check of overlap (`jn/collective.go` 60-64), unlike
  the reductions, and writes into dst over cells of src that are still to be sent. Larger groups
  copy first.
- `EveryoneConnects` and `EveryHelloAnswered` except a stray process that connected and says nothing
  (`HeldByStray`), the first also a stray that was acknowledged in a rank's place.
- `EveryRankGathers` has one matrix for all ranks as its premise. Each rank checks its own: with
  matrices that differ, `open` only compares the number of wires of a pair, and ranks can open a
  group in which some call the graph complete and others wait.
- `CacheFresh` excepts entries whose dependencies changed between clang's read and the stat after
  it (`internal/mlxcgen/parser/parser.go` 366), and entries whose two files come from two runs.
  Everything a run takes from such an entry is not counted as a passed gate.
- `TreeIsGenerated` is up to the order of enums and to clang-format. The first is the order of a Go
  map (`internal/mlxcgen/generators/generate.go` 59), so `check` can fail on an unchanged tree; the
  second because a file that cannot be formatted is left as written, with a warning.
- `EveryDeclDecided` is about what clang printed as the header has it. `runClangAST` takes any output,
  whatever the exit status (`internal/mlxcgen/parser/parser.go` 343-357), so that a header with an
  error in it is read as clang recovered it: what was dropped or altered then (`Misread`) is lost
  without a gate that sees it. Without that exception the run finds it in the repository `Broken`.
- `NamesUnique` and `EveryDeclDecided` except manifests in which two rules that are not skipped have
  the C name of one hook: no gate refuses them, and the hook is written twice (see the proofs).
- `ParsePredicts` excepts overloads of one function in the headers of two modules: `parse` selects
  among them together and `generate` in each module apart, so that parse passes and generate fails.
- `CacheIsTrue` and `GroupIsTrue` are up to the conversion to C: a rank beyond 32 bits is cached whole
  and is another one in C, and a text with a NUL is longer in the cache (`Passed`, `Int32`).
- `GroupIsTrue` excepts a config that was given the address of one whose `ConfigFree` has freed it
  in C and not yet deleted its cached fields (`internal/jacclc/functions.gen.go` 651-656).
- `ErrorsAreOwn` is about calls that lock the OS thread. The others read a message from whatever
  thread they are on by then, and some take an empty message for success.
- `ClosedStaysOut` is about groups of `InitConfig`: one of `Init` has no Go state to close.

## Proofs

### Side channel and life cycle

`GroupLifecycleProofs` first proves, of `SideChannel`, for every group size, number of calls, frame
limit and set of payload sizes (`NAssumption`, `BoundAssumption`, `SwitchAssumption`):

- `TypeCorrect`: `Spec => []TypeOK`, also for callers that retry.
- `StreamsStayInStep`, `RoundsMatch`, `BarrierHolds`: for callers that make no call after a failed
  one (`~Retry`), the invariant `StreamsInStep`, and with it `ResultsMatch` and
  `NobodyLeavesEarly`.
- `ResultsAreOne`: for the same callers, `ResultsAgree`. There is one result for each call
  (`Issued`, `OneResult`): what rank 0 is writing, what lies in a stream and what has come back to
  a caller are the same if they are of the same call.
- `StarImplementsAllGather`: the initial states and the steps of `SideChannel` map to those of
  `AllGather` under the refinement mapping at the end of `SideChannel`.

`ResultsMatch` and `NobodyLeavesEarly` are not inductive: they say nothing about frames that are
still in a stream. `StreamsInStep` adds the argument that makes the protocol right. Each stream
holds at most one frame, because a rank writes its next payload only after it has read the answer
to the last. The frame in `up[p]` is the payload of p's current call, and p then waits for the
answer (`UpInv`). The frame in `down[p]` is made of payloads of p's current call (`DownInv`).
What rank 0 has read, `values`, is of its current call, and a peer whose payload has been taken and
not answered waits with both streams empty (`LoopInv`, `Owed`). As long as no call of rank 0 has
failed, `Taken` counts how many payloads of p it has taken, so the calls of the two are in step;
once one has failed, nothing more is taken and the rest of the invariant stands. The proof has one
lemma per action; `~Retry` is used where a call begins: a retrying caller could meet the answer of
the call it abandoned, and that is why the code must close a group after an error. TLC checks
`StreamsInStep` in the run `side_channel`, as `SideChannelInv` extends `SideChannel`.

`SideSetupProofs` proves `ReadyIsComplete` and `ConnectedIsRegistered` for every group size and
number of stray processes (`SetupAssumption`). `SetupInv` says that the table has only processes
whose hello fits (`Registration`), that only a process in the table is acknowledged
(`Acknowledgement`), and that the server which has counted N-1 entries has one for every peer
(`Counting`, by `FullTable`).

`GroupLifecycleProofs` then proves, with the same lemmas, for every group size, number of Barriers,
size of destinations and of a frame, and every choice of what may fail (`LifecycleAssumption`):

- `WorkingGroupsOpened`: `ReadyMeansAllOpened`. Frames are honest (`Truth`): one with destinations
  is of a rank that opened, wherever it is, and the first frame of a rank that opened has them. So
  the exchange decodes only if every rank opened.
- `BarriersJoin` and `TeardownsJoin`: `SameBarrierUnspoilt` and `TeardownIsJoint`.

Here a caller does go on after an error, into its teardown barrier, so `StreamsInStep` does not
hold. What takes its place is `InStep`, while nothing is spoilt: a rank that goes on after an error
can no longer complete a call, because it is done, or rank 0 has gone, or rank 0 waits for a peer
that will not send again (`FailedStep`, `Silent`). Every call that does complete is then one that
every rank makes in its program, unless some rank never opened (`Answered`), and a rank is in its
teardown only for a reason that the others can tell apart by the number of calls (`Reason`). When
destinations do not fit a frame, no exchange is ever sent and every frame is of a teardown
(`OnlyTeardowns`). The proof has a lemma for each part of `InStep` and, for the streams, one for
each action.

### Wire

`WireProofs` proves the three safety properties of the wire for every depth of the pipeline, size
of a poll and programs of the two ends (`WireAssumption`), for callers that stop after an operation
that failed (`~Retry`; with the others the run `wire_stale` shows that even `DataIntact` fails):

- `SlotsBelongToOneChunk`: `SlotsExclusive`. It needs nothing of the peer. The requests posted and
  the completions not confirmed are those of the chunks in the window, in order (`Work`), and the
  window is no longer than there are slots (`InWindow`, `SlotsApart`), so that no two are on one
  place (`Apart`). When an operation ends nothing of it is left (`FinishedClean`).
- `DeliveredDataIsIntact`: `DataIntact`, when the programs of the two ends face each other with
  the same number of chunks (`Paired`); their lengths and the end of contexts are free. An end that
  has not failed takes, chunk by chunk, what the other one sends in the same operation, and neither
  is more than one operation ahead (`Aligned`). What waits to be sent lies in its slot (`Staged`),
  what was received lies in its slot until it is confirmed (`Arrived`), and `dst` has what was
  confirmed (`Taken`). An end that failed is followed further, because what it posted can still be
  matched: `Base` is then read from what lies in the slot.
- `HealthyOperationsSucceed`: `HealthySucceed`, when in addition a poll takes one completion, or
  operations are exchanges or have one chunk (`Measured`). `wire_overshoot` is the case that
  `Measured` leaves out. Completions then land in turn (`InTurn`), so that those a confirmation has
  polled are those of the oldest chunk.

`Invariance`, the types and the window, needs no assumption on callers or programs. `Paired` and
`Measured` are about the constants and say which cases of `Settings` the theorem is for; all those
of the run `wire` are such. TLC checked the three invariants before they were proved, with two
slots and all pairs of short operations.

### Topology, graph gather and collectives

`GraphGatherProofs` proves about the pure part, for every group size (`SizeAssumption`):

- `WireRangePartitions`: for every length and number of wires the parts that `wireRange` gives lie
  one behind the other and cover the message. `RoundedUp` is the one fact of arithmetic in it: the
  part of one wire, taken as often as there are wires, is at least the message.
- `ChunkFits`: a chunk of `graphGatherChunkBytes` for every rank and the header of known bits fit
  in the staging buffer.
- `ConnectivityAgrees`: with a reciprocal matrix, a rank that reaches everybody is reached by
  everybody, so `Reaches` gives every rank the same verdict.
- `SearchFindsAll`: the breadth-first search of `checkGraphConnectivity` accepts exactly when
  `Reaches` does. What it has seen grows with each level (`SeenSteps`), stays within every set that
  no wire leaves, and cannot stop growing before it is such a set.

and about the gather, for every group size, number of chunks and device matrices that open
(`SizeAssumption`, `GatherAssumption`):

- `TypeCorrect`, `GathersAreComplete` and `SlotsAreFree`. `GatherComplete` alone is not inductive: a
  rank could take the value of an earlier chunk out of a slot. The invariant `GatherInv` adds why it
  cannot. A rank between two steps has nothing in flight (`Clean`, `InFlight`). The barrier after
  each chunk lets a rank be one round ahead of another only if that one waits in the barrier or has
  left it, and so is clean (`Abreast`). A send therefore meets a receive of the same round, and what
  is known, sent or lies in a slot is of its round (`OfRound`).
- `KnowledgeHasSpread`: `KnowledgeSpreads`, the bound from below: after s steps a rank has the value
  of every rank within s edges. `SpreadInv` says why neighbours cannot run out of step although
  nothing in a message names one. Two neighbours in one round have matched as many sends of the one
  as receives of the other (`Matched`, with `SentTo` and `ReceivedFrom`), so that a slot holds what
  the neighbour knew in the very step its reader is in, and each level of `Reach` is merged in its
  turn (`Informed`).
- `GathersMissNothing`: in a group whose ranks were given one matrix, the check after the last step
  never fails. It joins the two: the search accepted the graph, so N-1 steps cross it.

`CollectivesProofs` proves `CollectivesTypeCorrect`, `ReductionsAreInOrder` and `GathersAreInOrder`
for every number of ranks, length of a call and place of src (`CollInv`). A rank stages what its
caller brought, because src is copied, or is not written before the rank has returned, or is written
with what it holds (`ReadsSrc`); what it receives is then what the others brought, in order
(`Exact`), and lies in its place of dst where the exchange writes there directly (`Exchanged`). The
reduction is a fold over the ranks, which `RankOrderSteps` unrolls one rank at a time.
Two values can be swapped unless neither is less than the other (`Commutes`), which is what
`Unordered` leaves out. `GathersAreInOrder` has no hypothesis on where src lies. A gather of two
ranks exchanges straight into dst: where src is at a place of dst or apart from it (`Kept`), only
chunks that have been sent are written over (`Unwritten`), and the peer gets all of them; of a rank
whose src `Straddles` only its own place is known.

### Release and Go wrapper

`ReleaseProofs` proves `IdentityNamesOneCut`, `MergesFollowPolicy` and `MovesAccepted` for every
number of commits, cores, edits, pull requests, merges and revisions (`ReleaseAssumption`: no core
is called "topic"). The invariant `ReleaseInv` has what is known of an open pull request: the merge
commit that its check runs on is that of the base at its last push (`Made`), its verdict is that of
the policy on that commit and the base the check saw (`Checked`), and a candidate has the revision
the tool gives it (`Prepared`). While no check was overtaken and no core came back, each tree of the
base branch comes after those before it (`Growing`): a revision never goes down within a core, and
goes up with its cut. `StaleMerge` is the lemma about the three-way merge by field.

`JacclcProofs` proves `CallsAreBound`, `CacheIsTrue`, `GroupIsTrue`, `ErrorsAreOwn` and
`ClosedStaysOut` for every number of goroutines, OS threads, C addresses, groups and libraries
(`JacclcAssumption`: addresses and handles are apart, and neither is a value that stands for none).
The invariant `JacclcInv` says of a call in each stage what it has in its hands (`Operands`), that
the variables of the functions are bound in one library once loaded (`Loading`), that a locked
thread has one goroutine, which finds its own message on it (`Threads`), that the cache of a config
that nobody is freeing becomes what C has when it is passed (`Passed`), up to the field that a call
is setting (`Configs`), that of a group its entry and its C group agree as far as 32 bits go
(`Agrees`), up to the call that makes it (`Groups`), and what an answer was read from (`Answers`).
`Int32Facts` and `PassedFacts` are what is used of the conversions, for any width (`Half`).

### Repository

`RepositoryProofs` proves, for every set of repositories, number of processes and bound on edits,
the six properties of the run `repository` and the types. `RepositoryAssumption` is about the
shape of what is read: `Texts` (a header's AST is a list, with a node for each declaration, a
function's name and parameters are lists, the same header has the same AST, no header comes that
the first revision has not) and `Policies` (modules and headers are
lists, no module has a name that is in use, and only `mlx.h` and `jaccl.cpp` are kept by hand).

The first half is about the steps, with one lemma for each action. `RepositoryState` joins the
parts of the invariant, `StateInv`, and only `BindInv` stands apart:

- `RepositoryTypes`: `TypeInv`, where each run may be in its program and how far it has come.
- `CacheIsFresh`: `CacheFresh`. A stamp is never given twice. An entry that one run wrote has
  therefore either stats that are not those of now, and then never will be again, or was made
  from what those stats stand for (`EntryOK`); a run that is filling an entry knows the same of what
  it holds (`Filler`). `Raced` and `torn` name the two ways in which that breaks.
- `EveryBindingResolves`: `BindingsResolve`. Any step that changes a file takes back the gates that
  had looked at it (`BindInv`).
- `CheckedTreeIsGenerated`: `TreeIsGenerated`. A run that nothing disturbed has in its hands what
  parsing the present headers gives, module by module, and has compared what it has come past
  (`SoundInv`); the two files that no tool writes are what the policy has (`HandInv`); so that what
  a gate accepted is true of the present files (`FoundInv`).

The second half is about one state. `FoundInv` has there what `parse` and `check` accepted, and
the question is whether that is enough:

- `ParseForesees`: `ParsePredicts`. `checkDecisionCoverage` only counts: each declaration is named by
  one decision. `WhichDecision` finds out which: in the modules' own functions it is the decision of
  the rule with that name and signature. Every overload therefore has its rule (`OverloadRuled`) and
  every rule its overload (`RuleDeclared`), and that is all the selection of a module asks.
- `NamesStayUnique`: `NamesUnique`. Every declared name has an owner among those that
  `checkCNameUniqueness` counts (`FunctionOwned`, `SpecOwned`), and two declarations with one owner
  are one (`OwnersDiffer`), because a function is in one module (`OneModule`), has one rule
  (`RuleOf`), and the selection takes one overload for each suffix, the first by number of
  parameters and place (`Places`, `FirstOfDefs`).
- `EveryDeclStaysDecided`: `EveryDeclDecided`. A function that C can express, and that clang printed
  as it is, is in the result of its module (`BindableParsed`), survives the removal of duplicates as some overload (`OverloadKept`),
  is selected if its rule does not skip it (`OverloadEmitted`), with types that are known
  (`EmittedSupported`), and its declarations are those of that overload alone (`DeclarationsAre`).

The proof of the last two failed at first, for a reason in the code. `checkCNameUniqueness`
(`tools/mlx-c-gen/main.go` 1300) counts decisions to emit, and a rule whose C name is that of a hook
is decided to be a hook. Two rules that are not skipped may therefore have one hook's name without
being refused, and the hook is then written twice. `HooksNamedOnce` says that this is not so; both
properties have it as a premise, a repository of the run (`export_to` with the suffix `dot`) is one
where it fails, and each hook of the manifest in `codegen/` has one rule.

### What stays with TLC

All liveness, and everything with `ENABLED`, are beyond the prover. Induction over data has no rule
that the provers can instantiate for a formula, so that it is made here for one set at a time, from
the least element that a set of numbers has (`SearchFindsAll`, `RankOrderSteps`, `ReachSteps`,
`LeastOf`). What clang reads, cmake builds and a symbol table has is in the model as the code uses
it. Every property of a passing run that is not liveness is stated by a theorem.

## Plan

Done, in this order: the abstract gather and the side channel, its proofs, its setup, the life
cycle composed with it, the wire, the graph gather, the release of generated source, the
collectives, the Go wrapper of the C library, the generator with its gates and its cache, the
topology with its proofs and the graph gather over it; then the proofs about the setup, the
life cycle, the release, the wrapper, the wire, the spreading of values in a gather, the
collectives and the repository.

Next, in the order of what they would find:

1. `GroupClose`: operations of several goroutines on one rank against `Close` (`check` is made
   before the operation, `jn/group.go` 77-104) and the per-peer locks of `send` and `recv`
   (`jn/backend.go` 239 and 273), where two ranks that both send first wait for each other.
2. Construction and release of RDMA resources: `openRDMAConn`, `openLocalConnections`,
   `rdmaConn.close`, `drainRDMAQueuePair`: nothing leaks when a step in the middle fails, nothing
   is freed before its users. With it a lossy transport below `Wire`.
3. `GraphGather` composed with `SideChannel` instead of a barrier in one step; an abstract gather
   that it and the mesh exchange of `Collectives` implement.
4. The shell caches, `tools/mlx-c-tool-cached` and `tools/mlx-c-jaccl-check-cached`, beside the AST
   cache of `Repository`.

Theorems to come: those about the modules of this list.

## Not modelled, and why

The RDMA provider is a foreign library, and its construction and release are only planned. The
shell caches decide by `find -newer` and hashes whether a tool is built or a gate run again; they
change nothing but their own files. The generated wrappers of `mlx/c` are the generator's output,
and the text of their bodies is not compared with anything here: `Selection` only has whether a
body calls C++, does nothing or cannot be compiled. A function that returns an optional primitive
would get a body that does nothing, and no gate would see it; none is in use. Smoke tests, examples
and the legacy Python generator drive or repeat the rest.

In the modelled parts, wording of errors, tracing, parsing of configuration, YAML and JSON, the
JSON of frames beyond its size, digests of candidate reports, typedefs, structs and macros of the API lock,
comments and default values of parameters, and element types beyond rounding, NaN and signed zeros
are left out.
`Repository` takes every check that the manifest can switch off as switched on, as the manifest in
`codegen/` has them, and a write that fails in the middle as the kill of the run. `GraphGather`
does not have ranks that disagree on whether they are a mesh.
