------------------------------- MODULE Executor -------------------------------
(***************************************************************************)
(* Executor::run.  One iteration of its loop selects a state, executes one *)
(* instruction of it, opens and closes merge regions on its own account    *)
(* (auto merge), checks the memory limit and lets updateStates apply what  *)
(* happened.  phase is the place of the loop that comes next.              *)
(*                                                                         *)
(* An assertion that fails, or an access to a deleted object, ends the run *)
(* in phase "aborted" with failed naming it.                               *)
(***************************************************************************)
EXTENDS MergeHandler, FiniteSets

CONSTANTS UseMerge,
          UseIncompleteMerge,
          MayExceedDepth,     \* --max-depth is set, and forks may reach it
          MayTimeOut,         \* --max-solver-time is set, and a query may exceed it
          MayExceedMemory,    \* --max-memory is set, and may be exceeded
          MayHalt             \* a timer, a signal or a limit may halt the run

ASSUME FlagsAssumption ==
    {UseMerge, UseIncompleteMerge, MayExceedDepth, MayTimeOut, MayExceedMemory, MayHalt}
        \subseteq BOOLEAN

VARIABLES
    phase, current, failed,
    forked,                   \* Executor::forked
    openMergeMap,             \* the domain of open_merge_map
    closeMergeSet,            \* close_merge_set
    deleting,                 \* what the loop of updateStates has still to visit
    searcher,                 \* FALSE once the searcher is deleted
    tests,                    \* generated test cases
    covered                   \* the inputs whose path has been explored to its end

loopVars == <<phase, current, failed, forked, openMergeMap, closeMergeSet,
              deleting, searcher, tests, covered>>
vars == <<esVars, searcherVars, handlerVars, loopVars>>

NoState == 0

Init ==
    /\ EStateInit /\ SearcherInit /\ HandlerInit
    /\ phase = "select" /\ current = NoState /\ failed = "none"
    /\ forked = FALSE
    /\ openMergeMap = {} /\ closeMergeSet = {}
    /\ deleting = {} /\ searcher = TRUE
    /\ tests = 0 /\ covered = {}

Abort(why) ==
    /\ phase' = "aborted"
    /\ failed' = why
    /\ UNCHANGED <<esVars, searcherVars, handlerVars, current, forked, openMergeMap,
                   closeMergeSet, deleting, searcher, tests, covered>>

(* The instruction that was executed in this iteration. *)
Executed == prevPC[current]

-----------------------------------------------------------------------------
(***************************************************************************)
(* searcher->selectState(), stepInstruction.                               *)
(***************************************************************************)
Select(s) ==
    /\ current' = s
    /\ forked' = FALSE
    /\ IF s \in Allocated
       THEN /\ phase' = "execute"
            /\ StepInstruction(s)
            /\ UNCHANGED failed
       ELSE /\ phase' = "aborted"
            /\ failed' = "use of a deleted state"
            /\ UNCHANGED <<steppedInstructions, pc, prevPC>>
    /\ UNCHANGED <<created, states, addedStates, removedStates, openMergeStack, constraints,
                   objects, searcherVars, handlerVars, openMergeMap, closeMergeSet,
                   deleting, searcher, tests, covered>>

(* In phase "selecting" selectState has released a group and goes on. *)
Selecting == phase \in {"select", "selecting"} /\ states # {}

(* assert(!baseSearcher->empty() && "base searcher is empty") *)
SelectFromEmpty ==
    /\ Selecting
    /\ baseSearcher = {}
    /\ Abort("base searcher is empty")

SelectBase ==
    /\ Selecting
    /\ UseIncompleteMerge => \A h \in mergeGroups : ~HasMergedStates(h)
    /\ \E s \in baseSearcher : Select(s)

(* With incomplete merging, a state that can complete a merge goes first. *)
SelectPrioritized ==
    /\ Selecting /\ UseIncompleteMerge /\ baseSearcher # {}
    /\ \E h \in mergeGroups :
          /\ HasMergedStates(h)
          /\ \E s \in openStates[h] : CanPrioritize(h, s) /\ Select(s)

(* No state of the group can be prioritized: its waiting states go on. *)
ReleasePreemptively ==
    /\ Selecting /\ UseIncompleteMerge /\ baseSearcher # {}
    /\ \E h \in mergeGroups :
          /\ HasMergedStates(h)
          /\ \A s \in openStates[h] : ~CanPrioritize(h, s)
          /\ LET failure == ReleaseFailure({h}, pausedStates, reachedCloseMerge)
             IN  IF failure # "none"
                 THEN Abort(failure)
                 ELSE /\ ReleaseStates({h}, pausedStates, baseSearcher, inCloseMerge,
                                       reachedCloseMerge)
                      /\ phase' = "selecting"
                      /\ UNCHANGED <<created, states, addedStates, prevPC, openMergeStack,
                                     objects, steppedInstructions, mergeGroups, handlersCreated,
                                     openStates, closedStateCount, closedDistance,
                                     openInstruction, current, failed, forked, openMergeMap,
                                     closeMergeSet, deleting, searcher, tests, covered>>

-----------------------------------------------------------------------------
(***************************************************************************)
(* executeInstruction.                                                     *)
(***************************************************************************)
Executing(ops) == phase = "execute" /\ Op(Executed) \in ops

ExecutePlain ==
    /\ Executing({"plain"})
    /\ phase' = "autoOpen"
    /\ UNCHANGED <<esVars, searcherVars, handlerVars, current, failed, forked, openMergeMap,
                   closeMergeSet, deleting, searcher, tests, covered>>

ExecuteAlloc ==
    /\ Executing({"alloc"})
    /\ phase' = "autoOpen"
    /\ objects' = [objects EXCEPT ![current] = @ \cup {<<current, steppedInstructions[current]>>}]
    /\ UNCHANGED <<created, states, addedStates, removedStates, pc, prevPC, openMergeStack,
                   constraints, steppedInstructions, searcherVars, handlerVars, current, failed,
                   forked, openMergeMap, closeMergeSet, deleting, searcher, tests, covered>>

(***************************************************************************)
(* fork and branch.  choice says for each input which of the targets it    *)
(* goes to.  The current state takes the first target that is feasible,    *)
(* and for each further one a copy of the state is added, in the order of  *)
(* the targets.  The copy constructor shares the merge handlers and makes  *)
(* the copy an open state of each of them.                                 *)
(***************************************************************************)
Fork(choice, targets) ==
    LET feasible == {k \in 1 .. Len(targets) : \E x \in constraints[current] : choice[x] = k}
    IN  /\ feasible # {}
        /\ \E last \in created .. MaxStates :
             LET copies == (created + 1) .. last
                 Copied(field) == [s \in ES |-> IF s \in copies THEN field[current] ELSE field[s]]
             IN  /\ Cardinality(feasible) = last - created + 1
                 /\ \E takes \in [copies \cup {current} -> feasible] :
                      /\ \A s, t \in copies \cup {current} : s < t => takes[s] < takes[t]
                      /\ constraints' = [s \in ES |->
                            IF s \in copies \cup {current}
                            THEN {x \in constraints[current] : choice[x] = takes[s]}
                            ELSE constraints[s]]
                      /\ pc' = [s \in ES |-> IF s \in copies \cup {current}
                                             THEN targets[takes[s]] ELSE pc[s]]
                 /\ created' = last
                 /\ addedStates' = addedStates \cup copies
                 /\ prevPC' = Copied(prevPC)
                 /\ objects' = Copied(objects)
                 /\ steppedInstructions' = Copied(steppedInstructions)
                 /\ openMergeStack' = Copied(openMergeStack)
                 /\ openStates' = [h \in MH |-> IF Holds(current, h) THEN openStates[h] \cup copies
                                                ELSE openStates[h]]

(* Br and Switch: the inputs decide which of the successors are feasible. *)
ExecuteBranch ==
    /\ Executing({"br", "switch"})
    /\ \E choice \in [constraints[current] -> 1 .. Len(Succ(Executed))] :
          Fork(choice, Succ(Executed))
    /\ forked' = (created' > created)
    /\ phase' = "autoOpen"
    /\ UNCHANGED <<states, removedStates, searcherVars, handlersCreated, reachedCloseMerge,
                   closedStateCount, closedDistance, openInstruction,
                   mergeDecisionCache, current, failed, openMergeMap, closeMergeSet, deleting,
                   searcher, tests, covered>>

(* Mutant: no test case is generated. *)
TerminateWithoutTest(S) ==
    /\ removedStates' = [s \in ES |-> IF s \in S THEN removedStates[s] + 1 ELSE removedStates[s]]
    /\ pc' = [s \in ES |-> IF s \in S THEN prevPC[s] ELSE pc[s]]
    /\ UNCHANGED covered

(* terminateState on states that are not in addedStates, with a test case. *)
Terminate(S) ==
    /\ removedStates' = [s \in ES |-> IF s \in S THEN removedStates[s] + 1 ELSE removedStates[s]]
    /\ pc' = [s \in ES |-> IF s \in S THEN prevPC[s] ELSE pc[s]]
    /\ covered' = covered \cup UNION {constraints[s] : s \in S}

(* A two-way fork at the depth limit: both states are terminated, the copy *)
(* before it reaches the searcher.                                         *)
ExecuteBranchTooDeep ==
    /\ Executing({"br", "load"}) /\ MayExceedDepth
    /\ Cardinality(constraints[current]) > 1
    /\ Terminate({current})
    /\ tests' = tests + 2
    /\ phase' = "autoOpen"
    /\ UNCHANGED <<created, states, addedStates, prevPC, openMergeStack, constraints, objects,
                   steppedInstructions, searcherVars, handlerVars, current, failed, forked,
                   openMergeMap, closeMergeSet, deleting, searcher>>

(* terminateStateOnError writes a test case for the first error of a kind  *)
(* at an instruction only, unless --emit-all-errors is set.                *)
ErrorReported == {tests, tests + 1}

(***************************************************************************)
(* executeMemoryOperation with a symbolic address: one state for each of   *)
(* (two) objects it may point to, and the inputs for which it is out of    *)
(* bounds end in an error; the state that carries them, unless it is the   *)
(* current one, is terminated before it reaches the searcher.              *)
(***************************************************************************)
ExecuteMemoryOperation ==
    /\ Executing({"load"})
    /\ \E choice \in [constraints[current] -> 1 .. 3] :
          LET unbound == {x \in constraints[current] : choice[x] = 3}
          IN  /\ Fork(choice, <<NextInst(Executed), NextInst(Executed)>>)
              /\ covered' = covered \cup unbound
              /\ tests' \in IF unbound = {} THEN {tests} ELSE ErrorReported
    /\ phase' = "autoOpen"
    /\ UNCHANGED <<states, removedStates, searcherVars, handlersCreated, reachedCloseMerge,
                   closedStateCount, closedDistance, openInstruction,
                   mergeDecisionCache, current, failed, forked, openMergeMap, closeMergeSet,
                   deleting, searcher>>

(* terminateStateOnExit, and terminateStateOnError for the current state,  *)
(* which an access that is out of bounds for all its inputs ends in.       *)
ExecuteExit ==
    /\ Executing({"exit", "load"})
    /\ Terminate({current})
    /\ tests' \in IF Op(Executed) = "exit" THEN {tests + 1} ELSE ErrorReported
    /\ phase' = "autoOpen"
    /\ UNCHANGED <<created, states, addedStates, prevPC, openMergeStack, constraints, objects,
                   steppedInstructions, searcherVars, handlerVars, current, failed, forked,
                   openMergeMap, closeMergeSet, deleting, searcher>>

(* terminateStateEarly of the current state: the solver does not decide in *)
(* time which way a branch goes, or whether an access is in bounds.        *)
ExecuteTimedOut ==
    /\ Executing({"br", "load"}) /\ MayTimeOut
    /\ Terminate({current})
    /\ tests' = tests + 1
    /\ phase' = "autoOpen"
    /\ UNCHANGED <<created, states, addedStates, prevPC, openMergeStack, constraints, objects,
                   steppedInstructions, searcherVars, handlerVars, current, failed, forked,
                   openMergeMap, closeMergeSet, deleting, searcher>>

-----------------------------------------------------------------------------
(***************************************************************************)
(* handleOpenMerge and handleCloseMerge, called for the intrinsics and by  *)
(* the auto merge code of run().                                           *)
(***************************************************************************)
HandleOpenMerge ==
    /\ IF UseMerge THEN OpenMerge(current)
       ELSE UNCHANGED <<openMergeStack, searcherVars, handlerVars>>
    /\ UNCHANGED <<created, states, addedStates, removedStates, pc, prevPC, constraints, objects,
                   steppedInstructions, current, failed, forked, deleting, searcher, tests, covered>>

(* Mutant: the last state of a group does not close the region. *)
ClosesRegionUnlessLast ==
    UseMerge /\ openMergeStack[current] # << >> /\ ~LastHolder(current, Top(current))

(* Without --use-merge, and with an empty stack (a warning), nothing. *)
ClosesRegion == UseMerge /\ openMergeStack[current] # << >>

HandleCloseMerge(next) ==
    IF ~ClosesRegion
    THEN /\ phase' = next
         /\ UNCHANGED <<esVars, searcherVars, handlerVars, current, failed, forked, openMergeMap,
                        closeMergeSet, deleting, searcher, tests, covered>>
    ELSE LET failure == CloseMergeFailure(current, Executed)
         IN  IF failure # "none"
             THEN Abort(failure)
             ELSE /\ CloseMerge(current, Executed)
                  /\ phase' = next
                  /\ UNCHANGED <<created, states, addedStates, prevPC, objects, steppedInstructions,
                                 current, failed, forked, openMergeMap, closeMergeSet, deleting,
                                 searcher, tests, covered>>

ExecuteOpenMerge ==
    /\ Executing({"open"})
    /\ HandleOpenMerge
    /\ phase' = "autoOpen"
    /\ UNCHANGED <<openMergeMap, closeMergeSet>>

ExecuteCloseMerge ==
    /\ Executing({"close"})
    /\ HandleCloseMerge("autoOpen")

-----------------------------------------------------------------------------
(***************************************************************************)
(* Auto merge.  A block whose terminator forked opens a region, but only   *)
(* for the current state: the copies were made before.                     *)
(***************************************************************************)
OpensRegion == IsBranching(Executed) /\ forked /\ CloseBlock[BlockOf(Executed)] # NoBlock

AutoOpen ==
    /\ phase = "autoOpen" /\ OpensRegion
    /\ HandleOpenMerge
    /\ openMergeMap' = openMergeMap \cup {BlockOf(Executed)}
    /\ closeMergeSet' = closeMergeSet \cup {CloseBlock[BlockOf(Executed)]}
    /\ phase' = "autoClose"

NoAutoOpen ==
    /\ phase = "autoOpen" /\ ~OpensRegion
    /\ phase' = "autoClose"
    /\ UNCHANGED <<esVars, searcherVars, handlerVars, current, failed, forked, openMergeMap,
                   closeMergeSet, deleting, searcher, tests, covered>>

(* The first instruction of any close block closes the top region. *)
AtClosePoint == IsFirstNonPHI(Executed) /\ BlockOf(Executed) \in closeMergeSet

AutoClose ==
    /\ phase = "autoClose" /\ AtClosePoint
    /\ HandleCloseMerge("memory")

NoAutoClose ==
    /\ phase = "autoClose" /\ ~AtClosePoint
    /\ phase' = "memory"
    /\ UNCHANGED <<esVars, searcherVars, handlerVars, current, failed, forked, openMergeMap,
                   closeMergeSet, deleting, searcher, tests, covered>>

-----------------------------------------------------------------------------
(***************************************************************************)
(* checkMemoryUsage: over the limit, an arbitrary number of arbitrary      *)
(* states is terminated.                                                   *)
(***************************************************************************)
KillStates ==
    /\ phase = "memory" /\ MayExceedMemory
    /\ \E S \in (SUBSET states) \ {{}} :
          /\ Terminate(S)
          /\ tests' = tests + Cardinality(S)
    /\ phase' = "update"
    /\ UNCHANGED <<created, states, addedStates, prevPC, openMergeStack, constraints, objects,
                   steppedInstructions, searcherVars, handlerVars, current, failed, forked,
                   openMergeMap, closeMergeSet, deleting, searcher>>

UnderMemoryLimit ==
    /\ phase = "memory"
    /\ phase' = "update"
    /\ UNCHANGED <<esVars, searcherVars, handlerVars, current, failed, forked, openMergeMap,
                   closeMergeSet, deleting, searcher, tests, covered>>

-----------------------------------------------------------------------------
(***************************************************************************)
(* updateStates.  The loop over removedStates deletes the states, and a    *)
(* deletion may destroy a merge handler.                                   *)
(***************************************************************************)
UpdateStates ==
    /\ phase = "update"
    /\ IF \/ current \notin pausedStates /\ BaseUpdateFails
          \/ ~(Removed \subseteq states \cup addedStates)
          \/ \E s \in Removed : removedStates[s] > 1
       THEN Abort("invalid state removed")
       ELSE /\ SearcherUpdate(current)
            /\ states' = states \cup addedStates
            /\ addedStates' = {}
            /\ deleting' = Removed
            /\ current' = NoState
            /\ phase' = "delete"
            /\ UNCHANGED <<created, removedStates, pc, prevPC, openMergeStack, constraints, objects,
                           steppedInstructions, handlerVars, failed, forked, openMergeMap,
                           closeMergeSet, searcher, tests, covered>>

(***************************************************************************)
(* One round of the loop.  What the destructor of a handler terminates is  *)
(* pushed on the vector that is being iterated, beyond the end that was    *)
(* read before the loop: it is not visited.                                *)
(***************************************************************************)
DeleteState ==
    /\ phase = "delete"
    /\ \E s \in deleting :
          LET failure == DeleteFailure(s)
          IN  IF DestroyedByDelete(s) # {} /\ ~searcher
              THEN Abort("use of the deleted searcher")
              ELSE IF failure # "none"
              THEN Abort(failure)
              ELSE /\ states' = states \ {s}
                   /\ deleting' = deleting \ {s}
                   /\ DeleteExecutionState(s)
                   /\ UNCHANGED <<created, addedStates, prevPC, objects, steppedInstructions, phase,
                                  current, failed, forked, openMergeMap, closeMergeSet, searcher,
                                  tests, covered>>

(* The push reallocated the vector and the loop goes on in freed memory. *)
DeleteThroughStaleIterator ==
    /\ phase = "delete" /\ deleting # {}
    /\ \E s \in ES : removedStates[s] > 0 /\ s \notin deleting /\ s \in states
    /\ Abort("use of a stale iterator")

(* removedStates.clear() *)
EndUpdate ==
    /\ phase = "delete" /\ deleting = {}
    /\ removedStates' = [s \in ES |-> 0]
    /\ phase' = IF searcher THEN "select" ELSE "done"
    /\ UNCHANGED <<created, states, addedStates, pc, prevPC, openMergeStack, constraints, objects,
                   steppedInstructions, searcherVars, handlerVars, current, failed, forked,
                   openMergeMap, closeMergeSet, deleting, searcher, tests, covered>>

-----------------------------------------------------------------------------
(***************************************************************************)
(* The end of run(): the searcher is deleted, then doDumpStates terminates *)
(* and deletes the states that are left.                                   *)
(***************************************************************************)
Halt ==
    /\ phase = "select" /\ states # {} /\ MayHalt
    /\ searcher' = FALSE
    /\ Terminate(states)
    /\ tests' = tests + Cardinality(states)
    /\ deleting' = states
    /\ phase' = "delete"
    /\ UNCHANGED <<created, states, addedStates, prevPC, openMergeStack, constraints, objects,
                   steppedInstructions, searcherVars, handlerVars, current, failed, forked,
                   openMergeMap, closeMergeSet>>

Finish ==
    /\ phase = "select" /\ states = {}
    /\ searcher' = FALSE
    /\ phase' = "done"
    /\ UNCHANGED <<esVars, searcherVars, handlerVars, current, failed, forked, openMergeMap,
                   closeMergeSet, deleting, tests, covered>>

Terminated == phase \in {"done", "aborted"} /\ UNCHANGED vars

Iterate ==
    \/ SelectFromEmpty \/ SelectBase \/ SelectPrioritized \/ ReleasePreemptively
    \/ ExecutePlain \/ ExecuteAlloc \/ ExecuteBranch \/ ExecuteBranchTooDeep
    \/ ExecuteMemoryOperation \/ ExecuteExit \/ ExecuteTimedOut
    \/ ExecuteOpenMerge \/ ExecuteCloseMerge
    \/ AutoOpen \/ NoAutoOpen \/ AutoClose \/ NoAutoClose
    \/ KillStates \/ UnderMemoryLimit
    \/ UpdateStates \/ DeleteState \/ DeleteThroughStaleIterator \/ EndUpdate
    \/ Halt \/ Finish

Next == Iterate \/ Terminated

Spec == Init /\ [][Next]_vars
(* The loop is one thread that runs until it is done. *)
FairSpec == Spec /\ WF_vars(Iterate)
=============================================================================
