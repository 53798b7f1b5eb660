-------------------------- MODULE ExecutorProperties --------------------------
(***************************************************************************)
(* What the run loop, the merging searcher and the merge handlers promise  *)
(* each other.                                                             *)
(***************************************************************************)
EXTENDS Executor

(* The places of the run loop. *)
Phases == {"select", "selecting", "execute", "autoOpen", "autoClose", "memory",
           "update", "delete", "done", "aborted"}

(* Every variable has the type of the field it stands for. *)
TypeOK ==
    /\ created \in ES
    /\ states \subseteq ES
    /\ addedStates \subseteq ES
    /\ removedStates \in [ES -> Nat]
    /\ pc \in [ES -> Inst]
    /\ prevPC \in [ES -> Inst]
    /\ openMergeStack \in [ES -> Seq(MH)]
    /\ constraints \in [ES -> SUBSET Inputs]
    /\ objects \in [ES -> SUBSET (ES \X Nat)]
    /\ steppedInstructions \in [ES -> Nat]
    /\ baseSearcher \subseteq ES
    /\ pausedStates \subseteq ES
    /\ inCloseMerge \subseteq ES
    /\ mergeGroups \subseteq MH
    /\ handlersCreated \in 0 .. MaxHandlers
    /\ openStates \in [MH -> SUBSET ES]
    /\ reachedCloseMerge \in [MH -> [Inst -> SUBSET ES]]
    /\ closedStateCount \in [MH -> Nat]
    /\ closedDistance \in [MH -> Int]
    /\ openInstruction \in [MH -> Nat]
    /\ mergeDecisionCache \in [Inst -> SUBSET BOOLEAN]
    /\ phase \in Phases
    /\ current \in ES \cup {NoState}
    /\ phase \in {"execute", "autoOpen", "autoClose", "memory", "update"} => current \in ES
    /\ forked \in BOOLEAN
    /\ openMergeMap \subseteq Blocks
    /\ closeMergeSet \subseteq Blocks
    /\ deleting \subseteq ES
    /\ searcher \in BOOLEAN
    /\ tests \in Nat
    /\ covered \subseteq Inputs

(* A handler's openStates, kept by addOpenState and removeOpenState, are   *)
(* exactly the states on whose openMergeStack it is, and these states are  *)
(* allocated; so the assertion in removeOpenState never fails.             *)
OpenStatesHoldHandler ==
    \A h \in MH : /\ openStates[h] = {s \in ES : Holds(s, h)}
                  /\ openStates[h] \subseteq Allocated

(* Each of the waiting states is at one close point of one handler only. *)
WaitAtOnePlace(waiting, reached) ==
    \A s \in waiting : \A h, g \in MH : \A i, j \in Inst :
        s \in reached[h][i] /\ s \in reached[g][j] => h = g /\ i = j

(* The three records of the waiting states agree: pausedStates,            *)
(* inCloseMerge and the close points of the handlers, and a state waits at *)
(* one close point of one handler only.                                    *)
WaitingRecordsAgree ==
    /\ pausedStates = inCloseMerge
    /\ pausedStates = WaitingIn(MH, reachedCloseMerge)
    /\ WaitAtOnePlace(pausedStates, reachedCloseMerge)

(* A handler in which states wait is registered and still held by some     *)
(* state that has not closed it: whoever waits will be released.           *)
NoOrphanedGroup ==
    \A h \in MH : /\ h \in mergeGroups <=> openStates[h] # {}
                  /\ HasMergedStates(h) => openStates[h] # {}

(* The assertions in removeOpenState, pauseState, continueState and        *)
(* ~MergeHandler.                                                          *)
RecordAssertions ==
    {"removeOpenState: not found", "pauseState: already paused",
     "continueState: not paused", RegisteredAssert}

(* The assertions by which searcher, handlers and states check each        *)
(* other's records never fail, whichever states fork, close, merge, are    *)
(* killed or deleted in between.                                           *)
RecordAssertionsHold == failed \notin RecordAssertions

(* States are named by the order of their creation, and the state that is  *)
(* being executed has not been deleted.                                    *)
StatesNumbered ==
    /\ Allocated \subseteq 1 .. created
    /\ phase \in {"execute", "autoOpen", "autoClose", "memory", "update"} => current \in Allocated

(* The handlers on a stack exist, and none is on it twice. *)
StacksDistinct ==
    \A s \in ES : \A k, l \in 1 .. Len(openMergeStack[s]) :
        /\ openMergeStack[s][k] <= handlersCreated
        /\ k # l => openMergeStack[s][k] # openMergeStack[s][l]

(* The inductive invariant behind the agreement of the records. *)
RecordsInv ==
    /\ TypeOK
    /\ OpenStatesHoldHandler
    /\ WaitingRecordsAgree
    /\ NoOrphanedGroup
    /\ StatesNumbered
    /\ StacksDistinct
    /\ RecordAssertionsHold

(* Nobody waits who is scheduled, has just been added or is executing an   *)
(* instruction that can change it.                                         *)
WaitingApart ==
    /\ baseSearcher \cap pausedStates = {}
    /\ addedStates \cap pausedStates = {}
    /\ pausedStates \subseteq 1 .. created
    /\ phase \in {"select", "selecting", "execute", "delete"} => addedStates = {}
    /\ phase \in {"execute", "autoOpen", "autoClose", "memory", "update"}
         => current \notin addedStates
    /\ phase = "execute" => current \notin pausedStates
    /\ phase = "autoOpen" /\ IsBranching(Executed) => current \notin pausedStates

(* What updateStates has still to delete has been terminated. *)
DeletedAreTerminated == \A s \in deleting : removedStates[s] > 0

(* No instruction has two merge decisions. *)
DecidedOnce == \A i \in Inst : \A d, e \in mergeDecisionCache[i] : d = e

(* The inductive invariant behind the properties of the single steps. *)
StepInv == RecordsInv /\ WaitingApart /\ DeletedAreTerminated /\ DecidedOnce

(* The states that have not been terminated. *)
Live == {s \in Allocated : removedStates[s] = 0}

(* No two live states carry the same input, nor one that is explored. *)
InputsOnce ==
    /\ \A s, t \in Live : s # t => constraints[s] \cap constraints[t] = {}
    /\ \A s \in Live : constraints[s] \cap covered = {}

(* No input is carried by two live states, nor explored again after its    *)
(* path came to its end: a merged state does not go on beside the state    *)
(* that absorbed it.                                                       *)
NoInputTwice == phase # "aborted" => InputsOnce

(* What is left to explore: the inputs of each live state. *)
Pending == {constraints[s] : s \in Live}

(* The exploration that the executor carries out: the live states carry    *)
(* the parts, and covered is what has been explored.                       *)
Explored == INSTANCE Exploration WITH pending <- Pending, explored <- covered

(* The executor implements Exploration: forks divide one state's inputs,   *)
(* merges join the inputs of whole states, terminations end them, and no   *)
(* other step touches what is pending or explored.  So neither pausing nor *)
(* merging loses an input.                                                 *)
ImplementsExploration == Explored!Spec

(* Between two steps every state of the executor is either paused or known *)
(* to the base searcher, which knows no others.                            *)
EveryStateScheduled ==
    phase = "select" =>
        /\ states = baseSearcher \cup pausedStates
        /\ baseSearcher \cap pausedStates = {}

(* No assertion fails and no deleted object is used. *)
NoFailure == failed = "none"

-----------------------------------------------------------------------------
(***************************************************************************)
(* When the executor's bookkeeping is reliable.                            *)
(***************************************************************************)

(* Auto merge closes regions at instructions that neither fork nor         *)
(* terminate a state, nor close a region on their own account.             *)
PlainClosePoints ==
    \A b \in Blocks : \A i \in Inst :
        IsFirstNonPHI(i) /\ CloseBlock[b] = BlockOf(i) => Op(i) \in {"plain", "alloc", "open"}

(* The options and programs for which every step's additions and removals  *)
(* reach the base searcher: no memory limit, and when states are merged,   *)
(* whole groups at plain close points.                                     *)
RegularMerging ==
    /\ ~MayExceedMemory
    /\ UseMerge => PlainClosePoints /\ ~UseIncompleteMerge

(* A handler that dies with a state, rather than at its close point, dies  *)
(* before the searcher and has nothing to merge.                           *)
NoMergeInDelete ==
    phase = "delete" =>
        \A s \in deleting : /\ MergeClasses(DestroyedByDelete(s), reachedCloseMerge) = {}
                            /\ searcher \/ DestroyedByDelete(s) = {}

(* How many regions klee_open_merge has opened after instruction i, and    *)
(* the close blocks ahead of it, where explicit[i] and auto[i] bound what  *)
(* was open before it.                                                     *)
ExplicitAfter(explicit, i) ==
    CASE Op(i) = "open"  -> explicit[i] + 1
      [] Op(i) = "close" -> IF explicit[i] = 0 THEN 0 ELSE explicit[i] - 1
      [] OTHER           -> explicit[i]

AutoAfter(auto, i) ==
    auto[i] \cup (IF IsBranching(i) THEN {CloseBlock[BlockOf(i)]} \ {NoBlock} ELSE {})

(* explicit and auto bound the regions that may be open at an instruction: *)
(* no fork opens a region with a close block that is ahead already, as one *)
(* in a loop would, and where a state may end no region is open.           *)
RegionBounds(explicit, auto) ==
    /\ explicit \in [Inst -> Nat] /\ auto \in [Inst -> SUBSET Blocks]
    /\ \A i \in Inst :
          /\ \A k \in 1 .. Len(Succ(i)) :
                /\ ExplicitAfter(explicit, i) <= explicit[Succ(i)[k]]
                /\ AutoAfter(auto, i) \ (IF IsFirstNonPHI(i) THEN {BlockOf(i)} ELSE {})
                      \subseteq auto[Succ(i)[k]]
          /\ IsBranching(i) => CloseBlock[BlockOf(i)] \notin auto[i]
          /\ Op(i) \in {"exit", "load"} \/ ((MayExceedDepth \/ MayTimeOut) /\ Op(i) = "br")
                => explicit[i] = 0 /\ auto[i] = {}

(* The failures of a handler's destructor when it runs in updateStates. *)
DeletionFailures == {"use of the deleted searcher", "use of a stale iterator"}

(* The assertions that can fail are those of a handler that dies with a    *)
(* state; in particular somebody is always scheduled.                      *)
OnlyDeletionsFail == failed \in DeletionFailures \cup {"none"}

(* Regions are nested: later handlers are above earlier ones on every      *)
(* stack, and who waits in a handler holds earlier ones only.              *)
RegionsAreNested ==
    \A s \in ES :
        /\ \A k, l \in 1 .. Len(openMergeStack[s]) :
               k < l => openMergeStack[s][k] < openMergeStack[s][l]
        /\ \A h \in MH, i \in Inst, g \in MH :
               s \in reachedCloseMerge[h][i] /\ Holds(s, g) => g < h

(* Between updates the executor and the searcher know the same states; in  *)
(* between, the difference is what is being deleted.                       *)
SearcherInStep ==
    /\ phase \in {"select", "execute", "autoOpen", "autoClose", "memory", "update"}
         => searcher /\ states = baseSearcher \cup pausedStates
    /\ phase = "delete" /\ searcher => states \ deleting = baseSearcher \cup pausedStates

(* What one iteration has terminated is scheduled and terminated once, and *)
(* an iteration that ends with its state paused has changed nothing else.  *)
IterationIsOne ==
    /\ phase \in {"select", "execute"} => Removed = {}
    /\ phase \in {"autoOpen", "autoClose"} /\ Op(Executed) \in {"plain", "alloc", "open"}
         => Removed = {} /\ addedStates = {} /\ current \notin pausedStates
    /\ phase \in {"execute", "autoOpen", "autoClose", "memory", "update"} =>
          /\ current \in pausedStates => Removed = {} /\ addedStates = {}
          /\ Removed \subseteq baseSearcher
          /\ \A s \in ES : removedStates[s] <= 1

(* The inductive invariant of regular merging. *)
ScheduleInv ==
    /\ StepInv
    /\ RegionsAreNested
    /\ SearcherInStep
    /\ IterationIsOne
    /\ OnlyDeletionsFail
    /\ phase # "selecting"
    /\ closeMergeSet \subseteq {CloseBlock[b] : b \in Blocks}
    /\ ~UseMerge => \A s \in ES : openMergeStack[s] = << >>

(* The inductive invariant of regular merging in which updateStates does   *)
(* not merge: also, live states carry inputs, no input is carried twice,   *)
(* and what updateStates will not visit has not been terminated.           *)
PartitionInv ==
    /\ ScheduleInv
    /\ NoFailure
    /\ InputsOnce
    /\ \A s \in Live : constraints[s] # {}
    /\ phase = "delete" => Removed \cap states \subseteq deleting

(* The state is between the opening and the release of the handler. *)
Involved(s, h) == Holds(s, h) \/ \E i \in Inst : s \in reachedCloseMerge[h][i]

(* The states of a region have the same regions around it. *)
SameOuterRegions ==
    \A s, t \in ES, h \in MH : Involved(s, h) /\ Involved(t, h) =>
        \A g \in MH : g < h => (Holds(s, g) <=> Holds(t, g))

(* How many regions may be open: n by klee_open_merge, and one for each of *)
(* the close blocks ahead that some fork has opened a region for.          *)
Room(n, ahead, opened) == n + Cardinality(ahead \cap opened)

(* The places of the loop at which the current state is between two        *)
(* instructions.                                                           *)
MidInstruction == {"execute", "autoOpen", "autoClose"}

(* No live state has more regions open than the bounds at its instruction  *)
(* allow; the current one, than those of the instruction executed allow    *)
(* once what it does has been done.                                        *)
StacksBounded(explicit, auto) ==
    /\ phase # "aborted" =>
          \A s \in ES : removedStates[s] = 0 /\ (s = current => phase \notin MidInstruction) =>
              Len(openMergeStack[s]) <= Room(explicit[pc[s]], auto[pc[s]], closeMergeSet)
    /\ phase \in MidInstruction /\ removedStates[current] = 0 =>
          /\ phase = "execute" => pc[current] = NextInst(Executed)
          /\ phase # "execute" => \E k \in 1 .. Len(Succ(Executed)) :
                                     pc[current] = Succ(Executed)[k]
          /\ Len(openMergeStack[current]) <=
                Room(IF phase = "execute" THEN explicit[Executed]
                     ELSE ExplicitAfter(explicit, Executed),
                     IF phase = "autoClose" THEN AutoAfter(auto, Executed) ELSE auto[Executed],
                     closeMergeSet)

(* Every handler that a terminated state holds is held by a live one too,  *)
(* and a deleted state holds none.                                         *)
EndedHoldNoLast ==
    phase # "aborted" =>
        /\ \A s \in ES, h \in MH : removedStates[s] > 0 /\ Holds(s, h) =>
                                    \E t \in ES : removedStates[t] = 0 /\ Holds(t, h)
        /\ phase = "delete" => searcher /\ \A s \in Removed \ deleting : openMergeStack[s] = << >>
        /\ phase = "execute" => ~forked
        /\ phase = "autoOpen" /\ forked => removedStates[current] = 0

(* The inductive invariant behind NoMergeInDelete. *)
RegionsInv(explicit, auto) ==
    ScheduleInv /\ SameOuterRegions /\ StacksBounded(explicit, auto) /\ EndedHoldNoLast

(* What a step leaves alone in a state that waits before and after it. *)
FrozenStep ==
    \A s \in pausedStates \cap pausedStates' :
        removedStates'[s] = 0 =>
            <<pc[s], constraints[s], objects[s], openMergeStack[s]>>'
              = <<pc[s], constraints[s], objects[s], openMergeStack[s]>>

(* While a state waits at its close point no step of another state changes *)
(* its pc, its constraints, its memory objects or its merge stack, unless  *)
(* it is terminated there.                                                 *)
WaitingStatesAreFrozen == [][FrozenStep]_vars

(* What a step adds to the inputs of a state. *)
AbsorbStep ==
    \A s \in Allocated : \/ constraints'[s] \subseteq constraints[s]
                         \/ \E t \in Allocated \ {s} :
                               /\ constraints'[s] = constraints[s] \cup constraints[t]
                               /\ pc[t] = pc[s] /\ objects[t] = objects[s]
                               /\ removedStates'[t] > removedStates[t]

(* When a state takes over inputs, they are those of exactly one other     *)
(* state, which stood at the same instruction with the same memory objects *)
(* and is terminated in the same step.                                     *)
MergingAbsorbsOne == [][AbsorbStep]_vars

(* What a step does to the cached decisions, and merges against them. *)
DecisionStep ==
    /\ \A i \in Inst : mergeDecisionCache[i] # {} =>
                          mergeDecisionCache'[i] = mergeDecisionCache[i]
    /\ \A s \in Allocated : ~(constraints'[s] \subseteq constraints[s]) =>
                               mergeDecisionCache'[pc[s]] = {TRUE}

(* The decision for an instruction is final: releaseStates asks once, and  *)
(* every later group that meets there, of whatever handler, follows the    *)
(* cached answer; a state absorbs another only where the answer is to      *)
(* merge.                                                                  *)
DecisionsAreFinal == [][DecisionStep]_vars

(* A state paused at a close point continues. *)
PausedStatesContinue == \A s \in ES : s \in pausedStates ~> s \notin pausedStates

(* The exploration of a program without loops ends, with every input's     *)
(* path explored.                                                          *)
ExplorationEnds == <>(phase = "done" /\ covered = Inputs)

-----------------------------------------------------------------------------
(* SpecialFunctionHandler.cpp asserts that a "State cannot run into        *)
(* close_merge while being closed".  The code does not keep this.          *)
NeverClosingTwice == failed # ClosingAssert
=============================================================================
