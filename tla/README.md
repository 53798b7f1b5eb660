# NeuroMerge: a TLA+ model of symbolic execution with guided state merging

NeuroMerge is a fork of KLEE in which the symbolic executor opens and closes
*merge regions* by itself, pauses the states that reach the end of a region
until all others have arrived, and asks a neural network whether the states
that meet should be merged. The specifications here model that machinery (the
run loop, the merging searcher, the merge handlers and the decision) and the
parts it rests on: the other searchers, the memory of the states, the solvers,
the model server, and the file system that the program under test sees.

## 1. The system

| Component | State | Operations | Source |
|---|---|---|---|
| Run loop | `states`, `addedStates`, `removedStates`, `forked`, `open_merge_map`, `close_merge_set` | `run`, `updateStates`, `fork`, `branch`, `terminateState*`, `checkMemoryUsage`, `doDumpStates` | `klee/lib/Core/Executor.cpp` |
| Execution state | `pc`, `prevPC`, `constraints`, address space, `openMergeStack`, `steppedInstructions` | copy, destructor, `branch`, `canMerge`, `merge` | `klee/lib/Core/ExecutionState.cpp` |
| Merging searcher | base searcher, `pausedStates`, `inCloseMerge`, `mergeGroups` | `selectState`, `update`, `pauseState`, `continueState` | `klee/lib/Core/Searcher.{h,cpp}` |
| Merge handler | `openStates`, `reachedCloseMerge`, `closedMean`, `closedStateCount`, reference count | constructor, destructor, `addClosedState`, `releaseStates`, `getPrioritizeState` | `klee/lib/Core/MergeHandler.cpp` |
| Merge decision | `mergeDecisionCache` | `merge_or_not` | `klee/lib/Core/MergeHandler.cpp` |
| Merge intrinsics | none | `handleOpenMerge`, `handleCloseMerge` | `klee/lib/Core/SpecialFunctionHandler.cpp` |
| Region discovery | post-dominator trees | nearest common post-dominator of a block's successors | `klee/lib/Core/Executor.cpp`, LLVM |
| Core searchers, process tree | vectors, weights, `lastState`, the states put aside, tree | `selectState`, `update`, `attach`, `remove` | `klee/lib/Core/Searcher.cpp`, `UserSearcher.cpp`, `PTree.cpp` |
| Address space, object contents | copy-on-write maps and keys; concrete store, known symbolics, update list, masks | `bindObject`, `getWriteable`, `copyInConcretes`, `read8`, `write8`, `flushRangeFor*` | `klee/lib/Core/AddressSpace.cpp`, `Memory.cpp` |
| Solver chain | branch cache, counterexample cache | `evaluate`, `mustBeTrue`, `getValue`, `getInitialValues`, `getRange` | `klee/lib/Solver`, `klee/lib/Core/TimingSolver.cpp` |
| Constraints | the constraints of a path | `addConstraint`, `simplifyExpr` | `klee/lib/Expr/Constraints.cpp` |
| Model server | job queue, worker threads, reply queues, processes | inference requests, restart of a worker, `predict` | `serve/.../wlm`, `serve/.../ts` |
| POSIX runtime | descriptors, symbolic files, failure counters | `open`, `close`, `read`, `write`, `lseek`, `dup`, `dup2`, `unlink`, `chmod` | `klee/runtime/POSIX/fd.c`, `fd_init.c` |
| Merge graph, training | none at run time | offline tools | `MergeGraph`, `scripts` |

How they interact. KLEE runs in one thread, but control passes between its
components in ways that are hard to test:

- the loop selects a state, and the searcher may release and merge other
  states inside that call (incomplete merging);
- executing an instruction forks, terminates, opens or closes; what it forks
  and terminates is only recorded, and applied by `updateStates` at the end of
  the iteration;
- between the two, the auto merge code acts on the same state again, although
  the instruction may have terminated it;
- states share merge handlers by reference. Dropping the last reference,
  wherever that happens (a close, a termination, a kill over the memory limit,
  the end of the run), runs the handler's destructor, which reschedules and
  merges *other* states and records terminations in the vector that
  `updateStates` may be iterating.
- a selection passes through up to five searchers, each with its own record of
  the states, while `pauseState` and `continueState` reach past the outermost
  one and change the others between a selection and the update that follows;
- states share object contents until one of them writes, and every layer of
  the solver chain answers from what it kept of other states' queries;
- in `query` mode the loop waits for `curl`, which waits for a server with a
  queue, threads and processes that die and are restarted.

What makes it correct: no input of the program is lost or explored twice by
pausing and merging; a state is always either scheduled or paused; the records
which states, handlers and the searchers keep of each other agree; whoever
waits is released; for each input memory is what a concrete run computes; a
cached answer is true of the query it is used for, and a test case replays its
path; a query gets its own answer, once; no assertion fails and nothing is
used after it is deleted.

`PROJECT.json` lists every component, every hazard at its line, and the lines
each definition models.

## 2. The modules

```
ControlFlow <- ExecutionState <- MergingSearcher <- MergeHandler <- Executor
                                      MergeDecision <-'               ^
                                     Exploration <.......  ExecutorProperties
                                                            ^            ^
                                                     MCExecutor   ExecutorRecordsProofs
                                                                         ^
                                                                  ExecutorLoopProofs

ObjectState <- AddressSpace <- AddressSpaceProperties <- AddressSpaceProofs
                                    ................> ConcreteMemory
               Searchers    <- SearchersProperties  <- SearchersProofs
                                    ................> BaseSearcher
Expressions, ValueRange <- FastCex <- SolverChain <- SolverProperties
                                                         ^ SolverProofs
ModelServer <- ModelQuery   <- ModelQueryProperties <- ModelQueryProofs
               PosixFiles   <- PosixProperties      <- PosixProofs
                                    ................> OpenFiles
InductionProofs <- SearchersProofs, SolverProofs
```

An arrow `A <- B` (or `B -> A`, or one pointing up at `A`) means that `B`
extends `A`. A dotted arrow leads to the abstract specification that the
component is shown to implement. Each `MC` module holds the instances for TLC.

- **ControlFlow**: the program under test, a sequence of instructions of eight
  kinds with successors and basic blocks, and the post-dominator questions
  `run` asks about it (`CloseBlock`). LLVM's analyses are external and defined
  by what they mean: a block post-dominates another when no path to an exit
  avoids it.
- **ExecutionState**: the fields of the states and the executor's three
  collections. Path constraints are the set of concrete inputs that satisfy
  them, so a fork partitions a set and a merge is a union; a memory object is
  named by its allocation. `removedStates` counts occurrences, because a state
  can be pushed twice.
- **MergingSearcher**: `pausedStates`, `inCloseMerge`, `mergeGroups` and
  `update`. The base searcher is the set of states it holds and may select any
  of them, which covers all core searchers (`Searchers` shows it); it fails when it is told to remove
  a state it does not hold, as they all assert.
- **MergeDecision**: the values `merge_or_not` can return in each mode. In
  `query` mode the answer is reduced to whether it contains the character 0.
- **MergeHandler**: one operator per handler operation: `OpenMerge`
  (constructor), `CloseMerge` (`addClosedState` and the pop), `ReleaseStates`
  (`releaseStates`: release all, then one merge for each class of states that
  can merge, decisions cached by instruction), `DeleteExecutionState`
  (`~ExecutionState` and the handlers it destroys). `*Failure` operators name
  the assertion that fails. A reference count is the set of states that hold
  the handler.
- **Executor**: the loop. `phase` is the point it has reached: `select`,
  (`selecting`), `execute`, `autoOpen`, `autoClose`, `memory`, `update`,
  `delete`, and again `select`, or `done`. The actions follow the code in that
  order. A failed assertion or the use of a deleted object leads to `aborted`.
- **ExecutorProperties**: all properties.
- **Exploration**: what symbolic execution promises with or without merging:
  the inputs are divided into parts; a part is divided, joined with another or
  comes to its end; an explored input is never taken up again. The refinement
  mapping takes the path constraints of the live states for the parts.
- **ObjectState**: the contents of one memory object. An expression is the
  value it has for each input, so that what a read by symbolic index returns,
  from the update list, can be compared with what was written.
- **AddressSpace**: `objects` maps an object to the slot of its contents in
  each state; two states share a slot until `getWriteable` gives one of them
  its own. Actions: loads and stores at constant and symbolic offsets, `alloc`,
  `free`, `klee_make_symbolic`, external calls with their copies of memory out
  and in, fork, termination and `ExecutionState::merge`.
- **ConcreteMemory**: one plain memory and one register for each input. An
  instruction is selected for some inputs and has its whole effect on each of
  them before the next; none can be skipped, and a path ends only at a write
  that would change a read-only object. The one thing that shows is which
  bytes are not concrete (`opaque`): there an external function's write is
  lost. The mapping reads, for each input, the state that carries it.
- **Searchers**: the chain built by `constructUserSearcher`, as operators
  `CoreUpdate`, `InterleavedUpdate`, `BatchingUpdate`, `DeepeningUpdate` on
  what the searchers keep, and the part of the loop that drives them, with
  `checkMemoryUsage`, which may terminate a state that has been terminated in
  the same iteration; `updateStates` then fails (`AbortInUpdate`). The merge
  handlers are reduced to which paused states are released when.
- **BaseSearcher**: a set of states, any of which may be selected, that changes
  only as `update` says: what `MergingSearcher` and `Executor` assume.
- **Expressions**: the constraints of a path: equalities of bytes and
  constants, and their negations, with the rewriting of `ConstraintManager`.
- **ValueRange**, **FastCex**: the interval arithmetic of the fast solver, on
  words of `Width` bits, `Solver::getRange`, and the propagation of ranges.
- **SolverChain**: each layer is an operator from a query and the caches to the
  outcomes it may have, failures included; `Then` passes the caches on. The
  core solver, which is external, may return any solution or give up. The
  actions are the executor's uses: fork, `klee_assume`, concretisation and the
  test case at the end of a path.
- **ModelServer**: the path of an inference request through TorchServe: queue,
  worker thread, process, reply queue, and the `finally` block that gives up
  on a process and starts the next. The batch size is 1, as the handler
  asserts.
- **ModelQuery**: KLEE processes in `query` mode: the file that may not be
  flushed, `curl`, the search for a 0 in what it prints.
- **InductionProofs**: induction over the natural numbers and what follows from
  it for recursive functions, as lemmas whose parameters are sets and functions.
- **PosixFiles**: the descriptor table, the symbolic files and the injected
  failures; offsets go up to `OffMax` and wrap, counts are any `size_t`, and a
  copy that leaves the contents of a file ends the path with a fault.
  **OpenFiles** is the table of descriptors with positions that a program may
  expect. Its `Move` is any seek, of which a read is a case.

Operators whose comment starts with "Mutant:" are not part of the
specification: each is a plausible mistake in the definition below it, and
with it in that definition's place TLC finds a property violated.

What is abstracted in the merging model: wording and logging; the values of expressions; call
stacks (a program is one function that makes nothing symbolic after its
entry); seeds, replay, `--max-forks`, randomised forks and allocations of
symbolic size; addresses are not reused after a deletion, so a use of a
deleted state is always seen as such; a group's states merge in any order,
which stands for the order of their addresses in a `std::set`; an access by a
symbolic address resolves to at most two objects; a solver timeout ends the
path where a branch or an access needs the answer (`ExecuteTimedOut`), and is
left out where the code asserts that there is none; `--dump-states-on-halt`
has its default, true. Where `removedStates` grows while it is iterated both
outcomes are modelled: the loop ends where it was going to
(`DeleteState`), or it continues in freed memory
(`DeleteThroughStaleIterator`).

In the other models: an access touches one byte; addresses are resolved (the
executor's `Access` covers the fork for two objects); weights of the NURS
searchers and wall time are arbitrary choices; expressions other than
equalities of bytes are left out of the solver model, and the constraints of a
path are a set there, in all of which an equality with a constant is used,
where the code may leave one of its list as it is; the text of an answer is
reduced to whether it contains a 0; permissions and the contents of the
symbolic files are choices.

## 3. The runs

TLC explores every choice of branch for every input, every scheduling order
and every decision or fault the model allows.

| Run | Instance | What it shows |
|---|---|---|
| `nested_switch` | a switch in an if, one case of which allocates; then an explicit region around an access by symbolic address; four inputs, random decisions | no input doubled, every state scheduled or paused, no failure, waiting states untouched unless they are terminated, decisions final; refinement of `Exploration`, so that no input is lost |
| `records_over_memory` | a switch in an if | the records agree when the memory limit kills any states at any time |
| `records_incomplete` | one slow case, a fork at the join | the inductive invariant `StepInv` of the records and the single steps, under incomplete merging, the depth limit, solver timeouts and halts |
| `explicit_region` | `klee_open_merge` around a switch, so an explicit region around an automatic one | what merges, and that it merges at the close point, never in `updateStates`; paused states continue; the exploration ends with all inputs covered |
| `address_space` | 2 states, 2 inputs, 2 bytes per object, 5 instructions; three sets of features | ownership keys, caches, and refinement of `ConcreteMemory`: no instruction is lost, and no byte but its own changes |
| `searchers` | 11 chains, 3 states, 2 instructions per path | no assertion fails but by a second termination over the memory limit; agreement of the searchers, the process tree, breadth-first order, states put aside come back; refinement of `BaseSearcher` |
| `solver_chain` | 10 programs over 3 bytes, 7 chains | true caches, exploration sound and complete, test cases replay, nothing lost without a timeout; interval arithmetic on 3-bit words |
| `model_query` | 2 KLEE processes with 2 queries each, 1 worker, queue of 1, 2 faults | own answers, once; queries end; merged exactly if answered |
| `posix_files` | 3 descriptors, one symbolic file of one byte, 3-bit offsets and counts, 3 setups | `read` and `write` leave a file only where an offset or a sum has wrapped; refinement of `OpenFiles` |

Three runs show a behaviour that contradicts an assertion, a comment or the
documentation of the repository (`findings` in `PROJECT.json` quotes it):

| Run | What happens |
|---|---|
| `easy_merge_closing_twice` | a join that starts with `klee_close_merge()` closes twice in one iteration; the assertion in `handleCloseMerge` fails |
| `query_unmerge` | the model finds not merging more likely; the answer contains a 0 all the same, and the states are merged |
| `saved_writes` | with `-save-all-writes`, a write that exceeds a symbolic file fails `assert(0)` instead of executing as expected |

**Deviations that are in the models without a run of their own.** They bound
what the passing runs can claim, and each was seen in a counterexample before
the instances were chosen:

- With every decision to merge, `easy_merge.c` can end with three tests where
  the test expects two: a group absorbs one state and `break`s
  (`MergeHandler.cpp:314`).
- A state whose instruction at a close point forks is paused in the same
  iteration; its copies never reach the base searcher (`Searcher.h:249`).
- A close block that starts with the return: the state is terminated and
  paused in one iteration (`Executor.cpp:3192`).
- A state that dies inside a region releases its group from its destructor; a
  state merged away there is pushed on the vector being iterated and cleared
  without being deleted (`Executor.cpp:2786`).
- The memory limit kills paused and already terminated states
  (`Executor.cpp:2904`). One that is terminated twice is removed twice, and the
  searcher's "invalid state removed" or an assertion of `updateStates` fails:
  the one exception of `NoSearcherFailure`.
- A halt while regions are open: the handlers are destroyed after the searcher
  they call (`Executor.cpp:3242`).
- The copies of a fork are made before the region of that fork is opened, for
  the current state only, so they close an enclosing region at the inner join.
- With incomplete merging, `selectState` can select the state that was just
  merged away: it is terminated but still in the base searcher.
- After a read by symbolic index has flushed a byte, an external call that
  writes it changes the concrete store only (`AddressSpace.cpp:330`); the
  features of `address_space` do not combine the two. What it writes to a byte
  that is not concrete is lost for reads at constant offsets as well: this is
  in `address_space`, and `External` in `ConcreteMemory` says where.
- A fork one of whose sides ends at once adds nothing, so the breadth-first
  searcher leaves the state at the front (`Searcher.cpp:98`).
- With incomplete merging over iterative deepening, a prioritised state may be
  one that was put aside; and with `random-path` first in an interleaving,
  iterative deepening can empty the other searchers, since it asks only the
  first whether it is empty. A random walk also selects states that were put
  aside, since it walks the process tree; with a batch the last state is then
  one of them, and it remains `lastState` after it was put aside again. And
  with merging, the memory limit ends states while the current one is paused,
  of which the searcher that skips a paused state's updates is not told.
  `RegularChain` in `SearchersProperties` excludes these combinations; the
  chains of the run satisfy it, which TLC checks as an assumption.
- A worker whose first start fails leaves a thread that is never scheduled
  again (`WorkerThread.java:252`); and a reply left over from a process that
  is gone can be taken for that to the next request, whose job is then lost
  (`WorkerThread.java:159`). `QueriesEnd` names both cases.
- A write past the largest offset leaves a negative one, on which the next
  read fails its assertion and the next write copies from before the contents
  (`fd.c:458`); and a count that takes the sum of offset and count past the
  largest `size_t` passes the tests of `read` and `write` (`fd.c:382`,
  `fd.c:438`) and is copied whole. `FaultsAreKnown` says that these are the
  only ways out of a file. `chmod` with failures to inject reads through a
  pointer that was never set (`fd.c:631`). `dup2` onto itself closes the
  descriptor, and `dup2` ignores a close that fails (`fd.c:1096`): `OpenFiles`
  allows both, as a `Close` and as a `Dup`.

`NoInputTwice`, `NoFailure`, `EveryStateScheduled`, `ExplorationEnds` and
`ImplementsExploration` therefore have conditions, which `ExecutorProperties`
states: `RegularMerging` (no memory limit; and with `--use-merge` no
incomplete merging, and joins that start with an instruction that neither
forks, nor returns, nor closes a region itself) and `NoMergeInDelete` (a
handler that dies with its last holder in `updateStates` has nothing to merge,
and the searcher is still there). The programs of `nested_switch` and
`explicit_region` meet both; `explicit_region` checks the
second, which is about behaviours. `RegionBounds` is a condition on the
control flow alone that implies it while the loop is not halted: bounds on the
regions open at each instruction, none of which is open where a state may end.
`MCProgramAssumption` gives such bounds for the programs of `explicit_region`
and `records_over_memory`, and TLC evaluates them; that of `nested_switch` has
an access that may fail inside a region, where no state waits yet. The record
invariants and the properties of single steps hold without any such condition.
The loop without `--use-merge` has no run of its own:
`WithoutMergingTheorem` covers it for every program.

**Bounds.** `MaxStates` bounds the states created. In
`records_over_memory` all forks are branches and precede all merges, so as
many states as inputs suffice; a branch or an open beyond a bound would leave
no action enabled, and TLC reports it as a deadlock, which is checked in every
run. In the programs with an access by symbolic address, states that were
merged may fork again; `MaxStates` exceeds the number of inputs there, and
`records_incomplete` has the same number of distinct states with six states
as with five. `MaxHandlers` is at least the number of regions any behaviour
opens. Three or four inputs suffice for a
group of three states inside a region beside a fourth outside it: the smallest
case in which a group stays partly unmerged. The programs have no loops.
Symmetry over the inputs is used in `nested_switch`, `records_over_memory` and
`records_incomplete`, whose properties do not tell inputs apart and are not
liveness properties.

In `address_space` two states suffice for one to write what another reads, and
five instructions for a write, a fork, a write on either side and a read; a
state that ends or is merged frees its place for another fork. In `searchers`
three states are the least for which one ends or is paused while two others
are in different places of a queue. The programs of `solver_chain` are chosen
for the interplay of constraints: chains of equalities, independent bytes of
one array, queries that one path half decides for another, subsets and
supersets of constraints. Two values of a byte suffice there; the arithmetic is
checked once, at the start of one program, over all intervals of three-bit
words (`RangesHold`), and the fast solver over two bytes of four values
(`FastAnswersHold`). In `model_query` two
faults allow a late reply of a process that was given up and a failure of the
next one; a queue of one is full with two clients. In `posix_files` an offset
of three bits wraps after two writes, and the counts go up to the largest of
three bits, so that the sums wrap past `size_t` too.

**Fairness.** `Executor`'s `FairSpec` adds `WF_vars(Iterate)`: the loop is one
thread that continues until it is done. Nothing is assumed about which state
the searcher picks; on programs without loops none is needed. `Searchers` has
weak fairness of the whole next-state relation for the same reason.
`ModelQuery` has weak fairness of each step of a worker thread, of its process
and of `curl`, which are scheduled by the operating system; faults are never
forced. `model_query` and `posix_files` may stop: the number of queries is
bounded, and a path ends with a fault.

## 4. The proofs

A run examines one instance; TLAPS proves the theorems below for every program
under test, every number of states, handlers, inputs, objects, bytes, workers,
processes and descriptors, and every setting of the flags, unless a theorem
names a condition. What is assumed of the constants:

- `ProgramAssumption` (successors lie in the function, and each kind of
  instruction has the right number of them), `BoundsAssumption`,
  `InputsAssumption` (there is an input) and `FlagsAssumption`;
- `ObjectStateAssumption` and `AddressSpaceAssumption` (a missing expression
  is not an expression, 0 is one of the values of a byte, read-only objects
  are initial ones, symbolic contents and indices have a value for each
  input);
- `SearchersAssumption` (a chain has a core searcher, and merging excludes
  `random-path`, as the code insists) and, as a hypothesis of the theorems on
  searchers, `RegularChains`;
- `ExpressionsAssumption` and `SolverAssumption` (finitely many bytes of at
  least two values; programs are well formed: jumps go forward, conditions are
  expressions over the bytes);
- `ModelServerAssumption` and `ModelQueryAssumption` (a job is a process and
  the number of its query);
- `PosixAssumption` (offsets and sizes are natural numbers, a file does not
  exceed the largest offset, and a count is a `size_t`).

Each component has one inductive invariant, or a chain of them, each
containing the one before. TLC checked every one on the instances before it
was proved.

### The executor

**Types** (`ExecutorRecordsProofs`). `TypeCorrect`: one typing lemma for each
operator (`Fork`, `ReleaseStates`, `CloseMerge`, `DeleteExecutionState`, ...),
then one step per action.

**Records** (`ExecutorRecordsProofs`, invariant `RecordsInv`).
`OpenStatesCorrect`, `WaitingCorrect`, `GroupsCorrect`, `AssertionsCorrect`.
That a handler's `openStates` are the states that hold it is kept by fork,
open, close and delete only if a stack never holds a handler twice and never
one that does not exist yet (`StacksDistinct`), and if a copy has a fresh name
and the current state is allocated (`StatesNumbered`). That the three records
of waiting states agree needs in turn that each waits in one place, so that
releasing one group does not release a state that another still holds; and
that a handler with waiting states has a holder is what makes the destructor,
which runs when there is none, release all of them. From these the four
assertions can be seen never to fail.

**Single steps** (`ExecutorLoopProofs`, invariant `StepInv`).
`WaitingStatesAreFrozenTheorem`, `MergingAbsorbsOneTheorem`,
`DecisionsAreFinalTheorem`. Only the current state is executed, so a waiting
state is left alone if the current one does not wait (`WaitingApart`); what a
merge changes are states it releases in the same step. That one release
absorbs at most one state for each absorber, and that the absorber receives
exactly the inputs of the other, needs that the classes of `releaseStates` are
disjoint, which is proved of `MergeClasses`; that a cached decision never
changes needs `DecidedOnce`, since the cache is filled again in each class.
These hold in the presence of the deviations of section 3: what goes wrong
there goes wrong between the records and `Executor::states`.

**Scheduling** (`ExecutorLoopProofs`, invariant `ScheduleInv`).
`EveryStateScheduledTheorem` and `OnlyDeletionsFailTheorem`, under
`RegularMerging`. The difficulty is that the loop asserts a nonempty searcher
while all states may be waiting for each other. They never are: regions are
nested (`RegionsAreNested`), so take the latest handler in which somebody
waits. Some state holds it; that state cannot wait in an earlier one, because
who waits in a handler holds only earlier ones, nor in a later one, because
nobody does; so it is in the base searcher. The other conjuncts say that
what an iteration adds and removes reaches the base searcher
(`SearcherInStep`, `IterationIsOne`): the searcher skips the removals and
additions of a paused state, which is harmless exactly when there are none,
and that is where `PlainClosePoints` is used. Without it two closes, a fork or
a return in one iteration break the property; with incomplete merging
`selectState` may select a terminated state; and the memory limit terminates
states that are paused. `OnlyDeletionsFail` leaves two failures, both of a
destructor that runs in `updateStates`.

**Exploration** (`ExecutorLoopProofs`, invariant `PartitionInv`).
`NoFailureTheorem`, `NoInputTwiceTheorem` and `ImplementsExplorationTheorem`
exclude those two as well, under `RegularMerging` and `[]NoMergeInDelete`. The
second condition is a property of behaviours: that no state dies inside a
region while others wait in it, as with an `exit` between open and close. The
refinement maps the live states' constraints to the parts of `Exploration`.
A fork divides a part: the copies take the targets of the branch one each, and
that no target is left over follows by counting, since the map from copies
to targets is one-to-one between finite sets of the same size. A release
joins parts two by two; a return ends one. It needs that live states
carry inputs and none in common, and that `updateStates` visits every state
that was terminated, so that none of them goes on.
`WithoutMergingTheorem` discharges both conditions when `--use-merge` is off:
then there is no handler, and only `~MayExceedMemory` remains.

**Programs whose regions are closed** (`ExecutorLoopProofs`, invariant
`RegionsInv`). `NoMergeInDeleteTheorem` replaces the condition on behaviours
by one on the program, `RegionBounds`, if `RegularMerging` holds and the loop
is not halted; `ClosedRegionsTheorem` draws the conclusions: with merging, such
a program is explored without a failure and every input once. The bounds are a
number of regions opened by `klee_open_merge` and a set of close blocks ahead,
for each instruction, that a step of the program does not exceed. Two facts
make the invariant inductive. A handler leaves a stack at its close point, so a
stack is never longer than the bound where its state is (`StacksBounded`); in
particular it is empty where a state may end. And the states of a region hold
the same regions outside it (`SameOuterRegions`), so that a state absorbed in
a merge holds no handler that the state absorbing it does not: its deletion
destroys none. The bound counts a close block once, so none may be ahead when
a fork opens a region for it again. `RegionBounds` so excludes loops in which
regions pile up, and `exit`, an access that may fail, and a branch that may
reach the depth limit or time out inside a region; a halt is excluded because
it terminates states wherever they are.

### Memory

**Ownership and caches** (`AddressSpaceProofs`, invariant `MemoryInv`).
`OwnedContentsAreNotSharedTheorem`, `CachesAreValidTheorem`. Contents bound in
two states are owned by neither: a fork raises both keys above every owner, a
write by a state that does not own its contents goes to a fresh slot, and
owners never exceed the key. It is needed in turn for the caches, since a
write in place changes the contents of all states that share them. Each
operation of `ObjectState` has a lemma that it keeps the cache invariant.

**Refinement** (`AddressSpaceProofs`, invariant `RefinementInv`).
`ImplementsConcreteMemoryTheorem`: for each input, the memory and registers of
the state that carries it change as those of a plain memory do. One lemma for
each operation says what every byte reads afterwards, and one for each action
that it is a step of `ConcreteMemory`: the instruction that is executed there
is the selected one, so that a store whose effect is lost, or a path that ends
without a reason, would be no step. A fork is a stutter. The invariant adds
`UpdatesAreCoherent`, what was flushed to the update list is what is cached;
that no input has two carriers and no state is without inputs; and that the
read-only objects are the initial, concrete ones (`ReadOnlyContents`). A merge
makes bytes that differ between inputs symbolic and no others (`Regroup`), so
that it is known which external writes are lost. The condition `NoIndexWithExternal` keeps
apart the two features whose combination breaks the coherence: what an
external function writes does not reach the update list
(`AddressSpace.cpp:330`).

### Induction

What a recursive function computes for every argument needs induction, and the
library's theorems on it take an operator as a parameter, which the installed
provers cannot instantiate. `InductionProofs` states it with a set instead:
`LeastNat`, a nonempty set of natural numbers has a least element, is the
library's `WFMin` for `<`, and `Induction`, a set that holds 0 and with `n`
also `n + 1` holds all, follows from it. `Recursion` constructs
the function that an equation on `0 .. n` defines, which the `CHOOSE` of a
recursive definition then picks, and `RecursionKeeps` says that what each
equation keeps, all of them keep. With these the queues of the searchers, the
rewriting of constraints, the propagation of ranges, the independent sets, the
factors and the executions of a program are all within reach.

### Searchers

(`SearchersProofs`, invariant `SearchInv`.) `NoSearcherFailureTheorem`,
`SearchersAgreeTheorem`, `LeavesAreStatesTheorem`, `BreadthFirstTheorem` and
`ImplementsBaseSearcherTheorem`, for every number of states and every set of
regular chains. None of the properties is inductive: between a fork and
`update` the searchers and the executor disagree, and a state put aside is in
`states` but in no list. `SearchInv` therefore speaks of what the chain keeps
(`Scheduled`): every list names the states of one set, each once; the states
put aside make up the rest; and unless the walk is random there is one that can
be selected. One lemma for each searcher says how its update changes that set:
lists that are filtered, extended or moved to the back (`Without`), the
interleaving index by index, the batch that may be cut off, and the deepening
searcher that, when nothing is left, takes back all that it put aside. A
release of paused states is one update after the other, by `RecursionKeeps`.
For the tree (`TreeInv`) the invariant says that no living state is on the way
to another and each node is on the way to one: a fork replaces a leaf by two,
and the pruning at a termination stops at the first node with another living
state below. For the breadth-first order (`DepthInv`) it says how the first
state and its copy stand to the rest while an iteration is under way.
`SearchInv` has one alternative, `AbortedInUpdate`: the memory limit has
terminated a state that was terminated before in the same iteration, and
`updateStates` has failed. `NoSearcherFailureTheorem` says that no assertion
fails otherwise.

### Solvers

(`SolverProofs`, invariant `SolverInv`.) For every number of bytes and values,
every program and every chain, with or without timeouts:
`NoFailedAssertionTheorem`, `CounterexamplesHoldTheorem`,
`BranchesHoldTheorem`, `PathsPartitionInputsTheorem`,
`TestCasesReplayTheorem`, `NoLossWithoutTimeoutTheorem`; and
`PropogateSoundTheorem` on the fast solver.

The argument goes up the chain. A layer's outcomes are `Answers(O, V)`: each
leaves caches that are true (`Good`) and either is one of the answers `V` that
the models of the query allow, or is a failure, where there may be any. Each
layer has one such lemma for each of the four questions, from those of the
layer below: the core solver; the fast solver in front of it
(`PropogateSoundTheorem`: each condition narrows the possible and the exact
ranges, and the exact ones always contain the solutions); the counterexample
cache, whose lookups in subsets and supersets are sound because models grow
with fewer constraints; the branch cache, with its negated and merged entries;
and independence. There the closure of the query's elements is shown to be
closed (`IndependentClosed`: it grows at most as often as there are
constraints), so that a solution of the chosen constraints and one of the
others agree on no byte they both read and can be glued (`Glue`); and the
factors are placed one after the other, each on its own bytes (`PlaceDone`,
`AllFactorAnswers`), which is the assertion that the whole satisfies the query.
Simplification and rewriting keep the models (`SimplifyHolds`, `RewriteKeeps`).

Above the chain, `evaluate` and the others answer as the path's models say
(`EvaluateAnswers`, `MustBeTrueAnswers`, `GetValueAnswers`), so that a branch
divides the models of its path (`BranchKeeps`), and an execution of the program
goes on to the branch's target (`VisitsGoOn`, from `RunUnfolds`: what an input
visits depends only on later instructions). `Partition` is the statement of
`PathsPartitionInputs` on its own; it is not inductive without `Good`, since a
wrong entry of a cache would decide a branch wrongly later, nor `Good` without
it: that no query is asked of constraints without a model (`Asked`) is what
makes the assertions of the fast solver and of the caches hold.

### Model server and POSIX files

**Queries** (`ModelQueryProofs`, invariant `QueryInv`).
`AnsweredOnceTheorem`, `PredictionsAreOwnTheorem`, `MergedIfAnsweredTheorem`.
A request is in one place at a time, the queue or one thread
(`WorkersHoldOne`), so that a late reply, a timeout and a dead process
between them answer it at most once; a reply that is still on its way after
its process was given up names its own request, and is not delivered to
another.

**Files** (`PosixProofs`, invariant `FilesInv`). `FaultsAreKnownTheorem`, for
counts up to the largest `size_t`: a sum of an offset in range and a count
wraps at most once (`SumWrapsOnce`), and if it does not, what `read` and
`write` copy lies in the contents (`ReadStaysInRange`, `WriteCopiesWhatFits`);
at an offset that has wrapped every write faults (`WrappedWriteFaults`).
`ImplementsOpenFilesTheorem`: each call changes at most the descriptors it is
given, including `dup2` and failures that are injected.

### Only model-checked

- *Liveness* (`PausedStatesContinue`, `ExplorationEnds`,
  `DeepenedStatesResume`, `QueriesEnd`): the prover does not handle `ENABLED`,
  on which fairness rests.
- `RangesHold`: the loops of `ValueRange` over the bits of a word; the provers
  know nothing of bitwise operations or powers.
- `FastAnswersHold` is about one instance of `FastCex`, chosen larger than what
  the exploration meets, and uses no hypothesis on where queries come from;
  what it says of the queries of a state is `PropogateSoundTheorem` in general.

## 5. Plan

Done: the merging core, searchers, memory, solvers, model server and POSIX
files; the abstract specifications `Exploration`, `ConcreteMemory`,
`BaseSearcher` and `OpenFiles` with their refinements; the proofs of section 4,
all four refinements among them.

Worth proving next: a weaker `RegionBounds` that allows states to end inside a
region where no state can be waiting, as before the first branch after an open.

Worth modelling next: address resolution and the memory manager, seeding and
replay, calls and returns in the merging model.

## 6. Not modelled

The modelled lines are a small share of the repository. Most of the rest has
no control that a model checker could examine: the vendored JSON library, the
generated protobuf code, the query parser and printers, the builders that
translate terms for STP, Z3 and MetaSMT, the command line in `main.cpp`, the
opcode cases of `executeInstruction` that compute one bit-vector value,
statistics, and the tests and tools. The neural network and its training are
out of reach, and the graph construction is an offline tool without state.
Parts of modelled components that are left out are named in `PROJECT.json`:
seeding, replay and symbolic sizes in the executor; the features `preMerge`
computes; validating and logging solvers; management of models and workflows
in TorchServe; `stat`, `select`, `ioctl` and directories in the POSIX runtime.
