----------------------------- MODULE MergeHandler -----------------------------
(***************************************************************************)
(* The merge handlers.  A handler is created when a state opens a merge    *)
(* region, is shared by reference with every state forked from it, and is  *)
(* destroyed when the last reference to it goes away; its destructor       *)
(* releases the states that wait in it and merges what can be merged.      *)
(*                                                                         *)
(* Handlers are named by the order of their creation.  The reference count *)
(* of a handler is the number of states that hold it.                      *)
(***************************************************************************)
EXTENDS MergingSearcher, MergeDecision

VARIABLES
    handlersCreated,      \* handlers created so far
    openStates,           \* handler |-> states between its open and its close
    reachedCloseMerge,    \* handler |-> close point |-> states waiting there
    closedStateCount,     \* handler |-> states that reached a close point
    closedDistance,       \* handler |-> sum of their distances: mean * count
    openInstruction,      \* handler |-> steppedInstructions at the open
    mergeDecisionCache    \* instruction |-> {} or the cached decision

handlerVars == <<handlersCreated, openStates, reachedCloseMerge, closedStateCount,
                 closedDistance, openInstruction, mergeDecisionCache>>

HandlerInit ==
    /\ handlersCreated = 0
    /\ openStates = [h \in MH |-> {}]
    /\ reachedCloseMerge = [h \in MH |-> [i \in Inst |-> {}]]
    /\ closedStateCount = [h \in MH |-> 0]
    /\ closedDistance = [h \in MH |-> 0]
    /\ openInstruction = [h \in MH |-> 0]
    /\ mergeDecisionCache = [i \in Inst |-> {}]

HasMergedStates(h) == \E i \in Inst : reachedCloseMerge[h][i] # {}

GetInstructionDistance(h, s) == steppedInstructions[s] - openInstruction[h]

(* getPrioritizeState may return s: distance < 2 * mean. *)
CanPrioritize(h, s) ==
    /\ s \in openStates[h]
    /\ s \notin inCloseMerge
    /\ GetInstructionDistance(h, s) * closedStateCount[h] < 2 * closedDistance[h]

-----------------------------------------------------------------------------
(* The constructor, as called by handleOpenMerge(state). *)
OpenMerge(s) ==
    LET h == handlersCreated + 1
    IN  /\ h \in MH
        /\ handlersCreated' = h
        /\ mergeGroups' = mergeGroups \cup {h}
        /\ openStates' = [openStates EXCEPT ![h] = {s}]
        /\ openInstruction' = [openInstruction EXCEPT ![h] = steppedInstructions[s]]
        /\ openMergeStack' = [openMergeStack EXCEPT ![s] = Append(@, h)]
        /\ UNCHANGED <<reachedCloseMerge, closedStateCount, closedDistance,
                       mergeDecisionCache, baseSearcher, pausedStates, inCloseMerge>>

-----------------------------------------------------------------------------
(***************************************************************************)
(* releaseStates.                                                          *)
(***************************************************************************)
WaitingIn(H, reached) == {s \in ES : \E h \in H, i \in Inst : s \in reached[h][i]}

(* The sets of states, of one close point each, that can merge pairwise    *)
(* and of which there are at least two.                                    *)
MergeClasses(H, reached) ==
    {K \in {{t \in reached[h][i] : CanMerge(m, t)} :
                h \in H, i \in Inst, m \in WaitingIn(H, reached)} :
        \E a, b \in K : a # b}

ClassPC(K) == CHOOSE p \in Inst : \A s \in K : pc[s] = p

(* canMerge reads a state that has been deleted. *)
ReadsDeleted(H, reached) ==
    \E h \in H, i \in Inst : \E a, b \in reached[h][i] : a # b /\ a \notin Allocated

(* The assertion that fails in releaseStates, or "none". *)
ReleaseFailure(H, waiting, reached) ==
    IF ~(WaitingIn(H, reached) \subseteq waiting) THEN "continueState: not paused"
    ELSE IF ReadsDeleted(H, reached) THEN "use of a deleted state"
    ELSE "none"

(* Mutant: the constraints of the absorbed state are not added. *)
MergeEachDroppingInputs(merging, freed) ==
    \E pick \in [merging -> freed \X freed] :
       LET absorbed == {pick[K][2] : K \in merging}
       IN  /\ \A K \in merging : pick[K][1] \in K /\ pick[K][2] \in K \ {pick[K][1]}
           /\ pc' = [s \in ES |-> IF s \in absorbed THEN prevPC[s] ELSE pc[s]]
           /\ removedStates' = [s \in ES |-> IF s \in absorbed THEN removedStates[s] + 1
                                             ELSE removedStates[s]]
           /\ UNCHANGED constraints

(* Mutant: the absorbed state is not terminated. *)
MergeEachWithoutTermination(merging, freed) ==
    \E pick \in [merging -> freed \X freed] :
       /\ \A K \in merging : pick[K][1] \in K /\ pick[K][2] \in K \ {pick[K][1]}
       /\ constraints' = [s \in ES |-> constraints[s] \cup
              UNION {constraints[pick[K][2]] : K \in {L \in merging : pick[L][1] = s}}]
       /\ UNCHANGED <<pc, removedStates>>

(***************************************************************************)
(* In each class that is to be merged one state (the one at the lowest     *)
(* address: any of them) absorbs one other, and the loop breaks.  The      *)
(* absorbed state is terminated.                                           *)
(***************************************************************************)
MergeEach(merging, freed) ==
    \E pick \in [merging -> freed \X freed] :
       LET absorbed == {pick[K][2] : K \in merging}
           AbsorbedBy(s) == {pick[K][2] : K \in {L \in merging : pick[L][1] = s}}
       IN  /\ \A K \in merging : pick[K][1] \in K /\ pick[K][2] \in K \ {pick[K][1]}
           /\ constraints' = [s \in ES |-> constraints[s] \cup
                                          UNION {constraints[t] : t \in AbsorbedBy(s)}]
           /\ pc' = [s \in ES |-> IF s \in absorbed THEN prevPC[s] ELSE pc[s]]
           /\ removedStates' = [s \in ES |-> IF s \in absorbed THEN removedStates[s] + 1
                                             ELSE removedStates[s]]

(* Mutant: the cache is filled and not looked up. *)
DecideAndMergeAfresh(classes, freed) ==
    LET asked == {ClassPC(K) : K \in classes}
    IN  \E decide \in [asked -> MergeOrNot] :
           /\ mergeDecisionCache' = [p \in Inst |-> IF p \in asked THEN {decide[p]}
                                                    ELSE mergeDecisionCache[p]]
           /\ MergeEach({K \in classes : decide[ClassPC(K)]}, freed)

(* The decision is taken once for each instruction, and cached. *)
DecideAndMerge(classes, freed) ==
    LET asked == {ClassPC(K) : K \in classes}
    IN  \E decide \in [asked -> BOOLEAN] :
           /\ \A p \in asked : decide[p] \in IF mergeDecisionCache[p] = {} THEN MergeOrNot
                                              ELSE mergeDecisionCache[p]
           /\ mergeDecisionCache' = [p \in Inst |-> IF p \in asked THEN {decide[p]}
                                                    ELSE mergeDecisionCache[p]]
           /\ MergeEach({K \in classes : decide[ClassPC(K)]}, freed)

(* Mutant: the released states stay in inCloseMerge. *)
ReleaseStatesStillClosing(H, waiting, runnable, closing, reached) ==
    LET freed == WaitingIn(H, reached)
    IN  /\ pausedStates' = waiting \ freed
        /\ baseSearcher' = runnable \cup freed
        /\ inCloseMerge' = closing
        /\ reachedCloseMerge' = [h \in MH |-> IF h \in H THEN [i \in Inst |-> {}]
                                              ELSE reached[h]]
        /\ DecideAndMerge(MergeClasses(H, reached), freed)

(* Mutant: reachedCloseMerge is not cleared. *)
ReleaseStatesKeepingGroups(H, waiting, runnable, closing, reached) ==
    LET freed == WaitingIn(H, reached)
    IN  /\ pausedStates' = waiting \ freed
        /\ baseSearcher' = runnable \cup freed
        /\ inCloseMerge' = closing \ freed
        /\ reachedCloseMerge' = reached
        /\ DecideAndMerge(MergeClasses(H, reached), freed)

(***************************************************************************)
(* Release the states that wait in the handlers of H.  waiting, runnable,  *)
(* closing and reached are the values of pausedStates, baseSearcher,       *)
(* inCloseMerge and reachedCloseMerge when releaseStates is entered.       *)
(***************************************************************************)
ReleaseStates(H, waiting, runnable, closing, reached) ==
    LET freed == WaitingIn(H, reached)
    IN  /\ pausedStates' = waiting \ freed
        /\ baseSearcher' = runnable \cup freed
        /\ inCloseMerge' = closing \ freed
        /\ reachedCloseMerge' = [h \in MH |-> IF h \in H THEN [i \in Inst |-> {}]
                                              ELSE reached[h]]
        /\ DecideAndMerge(MergeClasses(H, reached), freed)

-----------------------------------------------------------------------------
(***************************************************************************)
(* handleCloseMerge(state, i) with a non-empty stack: the state is added   *)
(* to the top handler's waiting states and paused, and the handler is      *)
(* popped; when that was the last reference its destructor runs.           *)
(***************************************************************************)
Top(s) == openMergeStack[s][Len(openMergeStack[s])]

LastHolder(s, h) == \A t \in ES \ {s} : ~Holds(t, h)

(* Mutant: the handler is not destroyed with its last reference. *)
DestroyedByPopNever(s) == {}

(* The handler that the pop from the stack of s destroys. *)
DestroyedByPop(s) == IF LastHolder(s, Top(s)) THEN {Top(s)} ELSE {}

ReachedAfterClose(s, i) == [reachedCloseMerge EXCEPT ![Top(s)][i] = @ \cup {s}]

ClosingAssert == "State cannot run into close_merge while being closed"
RegisteredAssert == "All MergeHandlers should be registered in mergeGroups"

(* The assertion that fails in handleCloseMerge, or "none". *)
CloseMergeFailure(s, i) ==
    LET H == DestroyedByPop(s)
        reached == ReachedAfterClose(s, i)
    IN  IF s \in inCloseMerge THEN ClosingAssert
        ELSE IF s \notin openStates[Top(s)] THEN "removeOpenState: not found"
        ELSE IF s \in pausedStates THEN "pauseState: already paused"
        ELSE IF s \notin baseSearcher THEN "invalid state removed"
        ELSE IF ~(H \subseteq mergeGroups) THEN RegisteredAssert
        ELSE ReleaseFailure(H, pausedStates \cup {s}, reached)

(* Mutant: the state stays in the base searcher. *)
CloseMergeStillScheduled(s, i) ==
    LET h == Top(s)
        H == DestroyedByPop(s)
    IN  /\ closedStateCount' = [closedStateCount EXCEPT ![h] = @ + 1]
        /\ closedDistance' = [closedDistance EXCEPT ![h] = @ + GetInstructionDistance(h, s)]
        /\ openStates' = [openStates EXCEPT ![h] = @ \ {s}]
        /\ openMergeStack' = [openMergeStack EXCEPT ![s] = SubSeq(@, 1, Len(@) - 1)]
        /\ mergeGroups' = mergeGroups \ H
        /\ ReleaseStates(H, pausedStates \cup {s}, baseSearcher,
                         inCloseMerge \cup {s}, ReachedAfterClose(s, i))
        /\ UNCHANGED <<handlersCreated, openInstruction>>

(* Mutant: the state is not paused. *)
CloseMergeWithoutPause(s, i) ==
    LET h == Top(s)
        H == DestroyedByPop(s)
    IN  /\ closedStateCount' = [closedStateCount EXCEPT ![h] = @ + 1]
        /\ closedDistance' = [closedDistance EXCEPT ![h] = @ + GetInstructionDistance(h, s)]
        /\ openStates' = [openStates EXCEPT ![h] = @ \ {s}]
        /\ openMergeStack' = [openMergeStack EXCEPT ![s] = SubSeq(@, 1, Len(@) - 1)]
        /\ mergeGroups' = mergeGroups \ H
        /\ ReleaseStates(H, pausedStates, baseSearcher,
                         inCloseMerge \cup {s}, ReachedAfterClose(s, i))
        /\ UNCHANGED <<handlersCreated, openInstruction>>

CloseMerge(s, i) ==
    LET h == Top(s)
        H == DestroyedByPop(s)
    IN  /\ closedStateCount' = [closedStateCount EXCEPT ![h] = @ + 1]
        /\ closedDistance' = [closedDistance EXCEPT ![h] = @ + GetInstructionDistance(h, s)]
        /\ openStates' = [openStates EXCEPT ![h] = @ \ {s}]
        /\ openMergeStack' = [openMergeStack EXCEPT ![s] = SubSeq(@, 1, Len(@) - 1)]
        /\ mergeGroups' = mergeGroups \ H
        /\ ReleaseStates(H, pausedStates \cup {s}, baseSearcher \ {s},
                         inCloseMerge \cup {s}, ReachedAfterClose(s, i))
        /\ UNCHANGED <<handlersCreated, openInstruction>>

-----------------------------------------------------------------------------
(***************************************************************************)
(* ~ExecutionState: the state leaves the open states of every handler on   *)
(* its stack, and the references go away.                                  *)
(***************************************************************************)
DestroyedByDelete(s) == {h \in MH : Holds(s, h) /\ LastHolder(s, h)}

DeleteFailure(s) ==
    LET H == DestroyedByDelete(s)
    IN  IF \E h \in MH : Holds(s, h) /\ s \notin openStates[h]
        THEN "removeOpenState: not found"
        ELSE IF ~(H \subseteq mergeGroups) THEN RegisteredAssert
        ELSE ReleaseFailure(H, pausedStates, reachedCloseMerge)

(* Mutant: the destructor forgets removeOpenState. *)
DeleteWithoutRemoveOpenState(s) ==
    LET H == DestroyedByDelete(s)
    IN  /\ openMergeStack' = [openMergeStack EXCEPT ![s] = << >>]
        /\ mergeGroups' = mergeGroups \ H
        /\ ReleaseStates(H, pausedStates, baseSearcher, inCloseMerge, reachedCloseMerge)
        /\ UNCHANGED <<openStates, handlersCreated, closedStateCount, closedDistance,
                       openInstruction>>

DeleteExecutionState(s) ==
    LET H == DestroyedByDelete(s)
    IN  /\ openStates' = [h \in MH |-> IF Holds(s, h) THEN openStates[h] \ {s} ELSE openStates[h]]
        /\ openMergeStack' = [openMergeStack EXCEPT ![s] = << >>]
        /\ mergeGroups' = mergeGroups \ H
        /\ ReleaseStates(H, pausedStates, baseSearcher, inCloseMerge, reachedCloseMerge)
        /\ UNCHANGED <<handlersCreated, closedStateCount, closedDistance, openInstruction>>
=============================================================================
