----------------------- MODULE ExecutorRecordsProofs ------------------------
(***************************************************************************)
(* The executor, for every program, number of states and handlers, set of  *)
(* inputs and choice of options: every variable keeps its type, and the    *)
(* records of open and waiting states agree.                               *)
(***************************************************************************)
EXTENDS ExecutorProperties, SequenceTheorems, FiniteSetTheorems, TLAPS

(***************************************************************************)
(* Facts about the program.                                                *)
(***************************************************************************)

(* The entry is an instruction. *)
LEMMA EntryInst == Entry \in Inst
  BY ProgramAssumption DEF ProgramAssumption, Entry, Inst

(* Each successor of an instruction is an instruction. *)
LEMMA SuccInst ==
    ASSUME NEW i \in Inst
    PROVE  /\ Succ(i) \in Seq(Nat)
           /\ \A k \in 1 .. Len(Succ(i)) : Succ(i)[k] \in Inst
           /\ BlockOf(i) \in Blocks
  <1>1. Program[i] \in [op : Ops, succ : Seq(Nat), block : Nat \ {NoBlock}]
    <2> DEFINE R == [op : Ops, succ : Seq(Nat), block : Nat \ {NoBlock}]
    <2>1. Program \in Seq(R)
      BY ProgramAssumption DEF ProgramAssumption
    <2> HIDE DEF R
    <2>2. Program[i] \in R
      BY <2>1 DEF Inst
    <2> QED
      BY <2>2 DEF R
  <1>2. \A k \in 1 .. Len(Succ(i)) : Succ(i)[k] \in Inst
    BY ProgramAssumption DEF ProgramAssumption
  <1> QED
    BY <1>1, <1>2 DEF Succ, Blocks

(* pc stays on an instruction when it is incremented. *)
LEMMA NextInstType ==
    ASSUME NEW i \in Inst
    PROVE  NextInst(i) \in Inst
  BY SuccInst, Len(Succ(i)) \in Nat, Len(Succ(i)) # 0 => 1 \in 1 .. Len(Succ(i)) DEF NextInst

(* The close block of a block is a block, if there is one. *)
LEMMA CloseBlockType ==
    ASSUME NEW b \in Blocks, CloseBlock[b] # NoBlock
    PROVE  CloseBlock[b] \in Blocks
  <1> DEFINE B == {c \in Blocks : <<b, c>> \in BlockEdge}
             common == {a \in Blocks : \A d \in B : a \in PostDominators[d]}
             nearest == {a \in common : common \subseteq PostDominators[a]}
  <1>1. CloseBlock[b] = NearestCommonPostDominator(B)
    BY DEF CloseBlock
  <1>2. NearestCommonPostDominator(B) = IF nearest = {} THEN NoBlock ELSE CHOOSE a \in nearest : TRUE
    BY DEF NearestCommonPostDominator
  <1>3. nearest # {} => (CHOOSE a \in nearest : TRUE) \in Blocks
    BY Zenon
  <1> QED
    BY <1>1, <1>2, <1>3

-----------------------------------------------------------------------------
(***************************************************************************)
(* Type correctness.                                                       *)
(***************************************************************************)

(* Merging keeps the types of what it assigns. *)
LEMMA MergeEachType ==
    ASSUME TypeOK, NEW merging, NEW freed \in SUBSET ES, MergeEach(merging, freed)
    PROVE  /\ constraints' \in [ES -> SUBSET Inputs]
           /\ pc' \in [ES -> Inst]
           /\ removedStates' \in [ES -> Nat]
  <1>1. PICK pick \in [merging -> freed \X freed] :
          LET absorbed == {pick[K][2] : K \in merging}
              AbsorbedBy(s) == {pick[K][2] : K \in {L \in merging : pick[L][1] = s}}
          IN  /\ constraints' = [s \in ES |-> constraints[s] \cup
                                             UNION {constraints[t] : t \in AbsorbedBy(s)}]
              /\ pc' = [s \in ES |-> IF s \in absorbed THEN prevPC[s] ELSE pc[s]]
              /\ removedStates' = [s \in ES |-> IF s \in absorbed THEN removedStates[s] + 1
                                                ELSE removedStates[s]]
    BY DEF MergeEach
  <1>2. \A K \in merging : pick[K][2] \in ES
    BY <1>1
  <1>3. constraints' \in [ES -> SUBSET Inputs]
    BY <1>1, <1>2 DEF TypeOK
  <1> QED
    BY <1>1, <1>3 DEF TypeOK

(* Taking a decision and merging keep the types of what they assign. *)
LEMMA DecideAndMergeType ==
    ASSUME TypeOK, NEW classes, NEW freed \in SUBSET ES, DecideAndMerge(classes, freed)
    PROVE  /\ mergeDecisionCache' \in [Inst -> SUBSET BOOLEAN]
           /\ constraints' \in [ES -> SUBSET Inputs]
           /\ pc' \in [ES -> Inst]
           /\ removedStates' \in [ES -> Nat]
  <1> DEFINE asked == {ClassPC(K) : K \in classes}
  <1>1. PICK decide \in [asked -> BOOLEAN] :
          /\ mergeDecisionCache' = [p \in Inst |-> IF p \in asked THEN {decide[p]}
                                                   ELSE mergeDecisionCache[p]]
          /\ MergeEach({K \in classes : decide[ClassPC(K)]}, freed)
    BY Zenon DEF DecideAndMerge
  <1> HIDE DEF asked
  <1>2. mergeDecisionCache' \in [Inst -> SUBSET BOOLEAN]
    BY <1>1 DEF TypeOK
  <1> QED
    BY <1>1, <1>2, MergeEachType

(* releaseStates keeps the types of what it assigns. *)
LEMMA ReleaseStatesType ==
    ASSUME TypeOK,
           NEW H \in SUBSET MH,
           NEW waiting \in SUBSET ES, NEW runnable \in SUBSET ES, NEW closing \in SUBSET ES,
           NEW reached \in [MH -> [Inst -> SUBSET ES]],
           ReleaseStates(H, waiting, runnable, closing, reached)
    PROVE  /\ pausedStates' \subseteq ES
           /\ baseSearcher' \subseteq ES
           /\ inCloseMerge' \subseteq ES
           /\ reachedCloseMerge' \in [MH -> [Inst -> SUBSET ES]]
           /\ mergeDecisionCache' \in [Inst -> SUBSET BOOLEAN]
           /\ constraints' \in [ES -> SUBSET Inputs]
           /\ pc' \in [ES -> Inst]
           /\ removedStates' \in [ES -> Nat]
  <1>1. WaitingIn(H, reached) \subseteq ES
    BY DEF WaitingIn
  <1>2. DecideAndMerge(MergeClasses(H, reached), WaitingIn(H, reached))
    BY DEF ReleaseStates
  <1>3. reachedCloseMerge' \in [MH -> [Inst -> SUBSET ES]]
    BY DEF ReleaseStates
  <1> QED
    BY <1>1, <1>2, <1>3, DecideAndMergeType DEF ReleaseStates

(* Forking keeps the types of what it assigns. *)
LEMMA ForkType ==
    ASSUME TypeOK, current \in ES, NEW choice, NEW targets,
           \A k \in 1 .. Len(targets) : targets[k] \in Inst,
           Fork(choice, targets)
    PROVE  /\ created' \in ES
           /\ addedStates' \subseteq ES
           /\ pc' \in [ES -> Inst]
           /\ prevPC' \in [ES -> Inst]
           /\ openMergeStack' \in [ES -> Seq(MH)]
           /\ constraints' \in [ES -> SUBSET Inputs]
           /\ objects' \in [ES -> SUBSET (ES \X Nat)]
           /\ steppedInstructions' \in [ES -> Nat]
           /\ openStates' \in [MH -> SUBSET ES]
  <1> DEFINE feasible == {k \in 1 .. Len(targets) : \E x \in constraints[current] : choice[x] = k}
  <1>1. PICK last \in created .. MaxStates :
             LET copies == (created + 1) .. last
                 Copied(field) == [s \in ES |-> IF s \in copies THEN field[current] ELSE field[s]]
             IN  /\ \E takes \in [copies \cup {current} -> feasible] :
                      /\ constraints' = [s \in ES |->
                            IF s \in copies \cup {current}
                            THEN {x \in constraints[current] : choice[x] = takes[s]}
                            ELSE constraints[s]]
                      /\ pc' = [s \in ES |-> IF s \in copies \cup {current}
                                             THEN targets[takes[s]] ELSE pc[s]]
                 /\ created' = last
                 /\ addedStates' = addedStates \cup copies
                 /\ prevPC' = Copied(prevPC)
                 /\ objects' = Copied(objects)
                 /\ steppedInstructions' = Copied(steppedInstructions)
                 /\ openMergeStack' = Copied(openMergeStack)
                 /\ openStates' = [h \in MH |-> IF Holds(current, h) THEN openStates[h] \cup copies
                                                ELSE openStates[h]]
    BY Zenon DEF Fork
  <1> DEFINE copies == (created + 1) .. last
  <1>2. last \in ES /\ copies \subseteq ES
    BY BoundsAssumption DEF BoundsAssumption, TypeOK, ES
  <1>3. PICK takes \in [copies \cup {current} -> feasible] :
              /\ constraints' = [s \in ES |->
                    IF s \in copies \cup {current}
                    THEN {x \in constraints[current] : choice[x] = takes[s]}
                    ELSE constraints[s]]
              /\ pc' = [s \in ES |-> IF s \in copies \cup {current}
                                     THEN targets[takes[s]] ELSE pc[s]]
    BY <1>1
  <1> HIDE DEF copies
  <1>4. \A s \in copies \cup {current} : targets[takes[s]] \in Inst
    <2>1. \A k \in feasible : targets[k] \in Inst
      OBVIOUS
    <2> HIDE DEF feasible
    <2> QED
      BY <1>3, <2>1
  <1>5. pc' \in [ES -> Inst]
    BY <1>3, <1>4 DEF TypeOK
  <1>6. constraints' \in [ES -> SUBSET Inputs]
    BY <1>3 DEF TypeOK
  <1>7. openStates' \in [MH -> SUBSET ES]
    BY <1>1, <1>2 DEF TypeOK, copies
  <1> QED
    BY <1>1, <1>2, <1>5, <1>6, <1>7 DEF TypeOK, copies

(* The top of a non-empty stack is a handler, and so are the others. *)
LEMMA PopType ==
    ASSUME NEW stack \in Seq(MH), stack # << >>
    PROVE  /\ stack[Len(stack)] \in MH
           /\ SubSeq(stack, 1, Len(stack) - 1) \in Seq(MH)
           /\ Len(SubSeq(stack, 1, Len(stack) - 1)) = Len(stack) - 1
           /\ \A k \in 1 .. Len(stack) - 1 : SubSeq(stack, 1, Len(stack) - 1)[k] = stack[k]
  <1>1. Len(stack) \in Nat \ {0} /\ Len(stack) \in 1 .. Len(stack)
    OBVIOUS
  <1>2. \A k \in 1 .. Len(stack) : stack[k] \in MH
    BY <1>1
  <1> DEFINE n == Len(stack) - 1
             rest == SubSeq(stack, 1, n)
  <1>3. n \in Nat /\ \A k \in 1 .. n : stack[k] \in MH
    BY <1>1, <1>2
  <1> HIDE DEF n
  <1>4. /\ rest \in Seq(MH)
        /\ Len(rest) = IF 1 <= n THEN n - 1 + 1 ELSE 0
        /\ \A k \in 1 .. n - 1 + 1 : rest[k] = stack[1 + k - 1]
    BY <1>3, SubSeqProperties
  <1> HIDE DEF rest
  <1>5. Len(rest) = n /\ \A k \in 1 .. n : rest[k] = stack[k]
    BY <1>3, <1>4
  <1> QED
    BY <1>1, <1>2, <1>4, <1>5 DEF rest, n

(* Opening a region keeps the types. *)
LEMMA OpenMergeType ==
    ASSUME TypeOK, current \in ES, HandleOpenMerge
    PROVE  /\ openMergeStack' \in [ES -> Seq(MH)]
           /\ mergeGroups' \subseteq MH
           /\ handlersCreated' \in 0 .. MaxHandlers
           /\ openStates' \in [MH -> SUBSET ES]
           /\ openInstruction' \in [MH -> Nat]
           /\ UNCHANGED <<reachedCloseMerge, closedStateCount, closedDistance,
                          mergeDecisionCache, baseSearcher, pausedStates, inCloseMerge>>
  <1>1. CASE UseMerge
    <2>1. OpenMerge(current)
      BY <1>1 DEF HandleOpenMerge
    <2> DEFINE h == handlersCreated + 1
    <2>2. h \in MH /\ handlersCreated' = h
      BY <2>1 DEF OpenMerge
    <2>3. handlersCreated' \in 0 .. MaxHandlers
      BY <2>2, BoundsAssumption DEF BoundsAssumption, MH
    <2> HIDE DEF h
    <2>4. /\ mergeGroups' = mergeGroups \cup {h}
          /\ openStates' = [openStates EXCEPT ![h] = {current}]
          /\ openInstruction' = [openInstruction EXCEPT ![h] = steppedInstructions[current]]
          /\ openMergeStack' = [openMergeStack EXCEPT ![current] = Append(@, h)]
          /\ UNCHANGED <<reachedCloseMerge, closedStateCount, closedDistance,
                         mergeDecisionCache, baseSearcher, pausedStates, inCloseMerge>>
      BY <2>1 DEF OpenMerge, h
    <2>5. Append(openMergeStack[current], h) \in Seq(MH)
      BY <2>2 DEF TypeOK
    <2> QED
      BY <2>2, <2>3, <2>4, <2>5 DEF TypeOK
  <1>2. CASE ~UseMerge
    BY <1>2 DEF HandleOpenMerge, TypeOK, searcherVars, handlerVars
  <1> QED
    BY <1>1, <1>2

(* Closing a region keeps the types. *)
LEMMA CloseMergeType ==
    ASSUME TypeOK, current \in ES, openMergeStack[current] # << >>, NEW i \in Inst,
           CloseMerge(current, i)
    PROVE  /\ removedStates' \in [ES -> Nat]
           /\ pc' \in [ES -> Inst]
           /\ openMergeStack' \in [ES -> Seq(MH)]
           /\ constraints' \in [ES -> SUBSET Inputs]
           /\ baseSearcher' \subseteq ES
           /\ pausedStates' \subseteq ES
           /\ inCloseMerge' \subseteq ES
           /\ mergeGroups' \subseteq MH
           /\ openStates' \in [MH -> SUBSET ES]
           /\ reachedCloseMerge' \in [MH -> [Inst -> SUBSET ES]]
           /\ closedStateCount' \in [MH -> Nat]
           /\ closedDistance' \in [MH -> Int]
           /\ mergeDecisionCache' \in [Inst -> SUBSET BOOLEAN]
           /\ UNCHANGED <<handlersCreated, openInstruction>>
  <1> DEFINE h == Top(current)
             H == DestroyedByPop(current)
             reached == ReachedAfterClose(current, i)
  <1>1. openMergeStack[current] \in Seq(MH)
    BY DEF TypeOK
  <1>2. h \in MH /\ H \in SUBSET MH
    BY <1>1, PopType DEF Top, DestroyedByPop
  <1>3. reached \in [MH -> [Inst -> SUBSET ES]]
    <2>1. reached = [reachedCloseMerge EXCEPT ![h] =
                        [reachedCloseMerge[h] EXCEPT ![i] = @ \cup {current}]]
      BY DEF ReachedAfterClose
    <2> HIDE DEF reached, h
    <2> QED
      BY <1>2, <2>1 DEF TypeOK
  <1>4. ReleaseStates(H, pausedStates \cup {current}, baseSearcher \ {current},
                      inCloseMerge \cup {current}, reached)
    BY DEF CloseMerge
  <1>5. /\ closedStateCount' = [closedStateCount EXCEPT ![h] = @ + 1]
        /\ closedDistance' = [closedDistance EXCEPT ![h] = @ + GetInstructionDistance(h, current)]
        /\ openStates' = [openStates EXCEPT ![h] = @ \ {current}]
        /\ openMergeStack' = [openMergeStack EXCEPT ![current] = SubSeq(@, 1, Len(@) - 1)]
        /\ mergeGroups' = mergeGroups \ H
        /\ UNCHANGED <<handlersCreated, openInstruction>>
    BY DEF CloseMerge
  <1>6. GetInstructionDistance(h, current) \in Int
    BY <1>2 DEF GetInstructionDistance, TypeOK
  <1> HIDE DEF h, H, reached
  <1>7. openMergeStack' \in [ES -> Seq(MH)]
    BY <1>1, <1>5, PopType DEF TypeOK
  <1>8. closedDistance' \in [MH -> Int] /\ closedStateCount' \in [MH -> Nat]
    <2>1. closedDistance \in [MH -> Int] /\ closedStateCount \in [MH -> Nat]
      BY DEF TypeOK
    <2> QED
      BY <1>2, <1>5, <1>6, <2>1
  <1>9. openStates' \in [MH -> SUBSET ES] /\ mergeGroups' \subseteq MH
    BY <1>2, <1>5 DEF TypeOK
  <1>10. /\ pausedStates \cup {current} \in SUBSET ES
         /\ baseSearcher \ {current} \in SUBSET ES
         /\ inCloseMerge \cup {current} \in SUBSET ES
    BY DEF TypeOK
  <1> QED
    BY <1>2, <1>3, <1>4, <1>5, <1>7, <1>8, <1>9, <1>10, ReleaseStatesType

(* Deleting a state keeps the types. *)
LEMMA DeleteType ==
    ASSUME TypeOK, NEW s \in ES, DeleteExecutionState(s)
    PROVE  /\ removedStates' \in [ES -> Nat]
           /\ pc' \in [ES -> Inst]
           /\ openMergeStack' \in [ES -> Seq(MH)]
           /\ constraints' \in [ES -> SUBSET Inputs]
           /\ baseSearcher' \subseteq ES
           /\ pausedStates' \subseteq ES
           /\ inCloseMerge' \subseteq ES
           /\ mergeGroups' \subseteq MH
           /\ openStates' \in [MH -> SUBSET ES]
           /\ reachedCloseMerge' \in [MH -> [Inst -> SUBSET ES]]
           /\ mergeDecisionCache' \in [Inst -> SUBSET BOOLEAN]
           /\ UNCHANGED <<handlersCreated, closedStateCount, closedDistance, openInstruction>>
  <1> DEFINE H == DestroyedByDelete(s)
  <1>1. H \in SUBSET MH
    BY DEF DestroyedByDelete
  <1>2. ReleaseStates(H, pausedStates, baseSearcher, inCloseMerge, reachedCloseMerge)
    BY DEF DeleteExecutionState
  <1>3. /\ openStates' = [h \in MH |-> IF Holds(s, h) THEN openStates[h] \ {s} ELSE openStates[h]]
        /\ openMergeStack' = [openMergeStack EXCEPT ![s] = << >>]
        /\ mergeGroups' = mergeGroups \ H
        /\ UNCHANGED <<handlersCreated, closedStateCount, closedDistance, openInstruction>>
    BY DEF DeleteExecutionState
  <1> HIDE DEF H
  <1>4. openMergeStack' \in [ES -> Seq(MH)] /\ openStates' \in [MH -> SUBSET ES]
    BY <1>3 DEF TypeOK
  <1>5. /\ pausedStates \in SUBSET ES /\ baseSearcher \in SUBSET ES
        /\ inCloseMerge \in SUBSET ES /\ mergeGroups \subseteq MH
        /\ reachedCloseMerge \in [MH -> [Inst -> SUBSET ES]]
    BY DEF TypeOK
  <1> QED
    BY <1>1, <1>2, <1>3, <1>4, <1>5, ReleaseStatesType

(* handleCloseMerge keeps the types, whether it closes a region or fails. *)
LEMMA HandleCloseMergeType ==
    ASSUME TypeOK, current \in ES, NEW next \in Phases, HandleCloseMerge(next)
    PROVE  TypeOK'
  <1>1. CASE ~ClosesRegion
    BY <1>1 DEF HandleCloseMerge, TypeOK, esVars, searcherVars, handlerVars
  <1> DEFINE failure == CloseMergeFailure(current, Executed)
  <1>2. CASE ClosesRegion /\ failure # "none"
    <2>1. Abort(failure)
      BY <1>2, Zenon DEF HandleCloseMerge
    <2> HIDE DEF failure
    <2> QED
      BY <2>1 DEF Abort, TypeOK, Phases, esVars, searcherVars, handlerVars
  <1>3. CASE ClosesRegion /\ failure = "none"
    <2>1. /\ CloseMerge(current, Executed)
          /\ phase' = next
          /\ UNCHANGED <<created, states, addedStates, prevPC, objects, steppedInstructions,
                         current, failed, forked, openMergeMap, closeMergeSet, deleting,
                         searcher, tests, covered>>
      BY <1>3, Zenon DEF HandleCloseMerge
    <2>2. Executed \in Inst /\ openMergeStack[current] # << >>
      BY <1>3 DEF Executed, ClosesRegion, TypeOK
    <2> QED
      BY <2>1, <2>2, CloseMergeType DEF TypeOK
  <1> QED
    BY <1>1, <1>2, <1>3

(* Terminating states keeps the types of what it assigns. *)
LEMMA TerminateType ==
    ASSUME TypeOK, NEW S \in SUBSET ES, Terminate(S)
    PROVE  /\ removedStates' \in [ES -> Nat]
           /\ pc' \in [ES -> Inst]
           /\ covered' \subseteq Inputs
  BY DEF Terminate, TypeOK

(* There are finitely many states. *)
LEMMA CountType ==
    ASSUME NEW S \in SUBSET ES
    PROVE  Cardinality(S) \in Nat
  <1>1. IsFiniteSet(ES)
    BY BoundsAssumption, FS_Interval DEF BoundsAssumption, ES
  <1>2. IsFiniteSet(S)
    BY <1>1, FS_Subset
  <1> QED
    BY <1>2, FS_CardinalityType

(* The initial state is well typed. *)
LEMMA InitType ==
    ASSUME Init
    PROVE  TypeOK
  <1>1. 1 \in ES /\ 0 \in 0 .. MaxHandlers
    BY BoundsAssumption DEF BoundsAssumption, ES
  <1>2. << >> \in Seq(MH)
    OBVIOUS
  <1>3. /\ created \in ES /\ states \subseteq ES /\ addedStates \subseteq ES
        /\ removedStates \in [ES -> Nat] /\ pc \in [ES -> Inst] /\ prevPC \in [ES -> Inst]
        /\ openMergeStack \in [ES -> Seq(MH)] /\ constraints \in [ES -> SUBSET Inputs]
        /\ objects \in [ES -> SUBSET (ES \X Nat)] /\ steppedInstructions \in [ES -> Nat]
    BY <1>1, <1>2, EntryInst DEF Init, EStateInit
  <1>4. /\ handlersCreated \in 0 .. MaxHandlers /\ openStates \in [MH -> SUBSET ES]
        /\ reachedCloseMerge \in [MH -> [Inst -> SUBSET ES]]
        /\ closedStateCount \in [MH -> Nat] /\ closedDistance \in [MH -> Int]
        /\ openInstruction \in [MH -> Nat]
        /\ mergeDecisionCache \in [Inst -> SUBSET BOOLEAN]
    BY <1>1, EntryInst DEF Init, HandlerInit
  <1> QED
    BY <1>1, <1>3, <1>4 DEF Init, SearcherInit, TypeOK, Phases, NoState

(* Every step keeps the types. *)
LEMMA NextType ==
    ASSUME TypeOK, [Next]_vars
    PROVE  TypeOK'
  <1>0. TypeOK
    OBVIOUS
  <1>00. phase \in {"execute", "autoOpen", "autoClose", "memory", "update"} => current \in ES
    BY DEF TypeOK
  <1>01. current \in ES => Executed \in Inst
    BY DEF Executed, TypeOK
  <1>1. ASSUME NEW s \in ES, Select(s) PROVE TypeOK'
    <2>1. NextInst(pc[s]) \in Inst /\ pc[s] \in Inst
      BY NextInstType DEF TypeOK
    <2>2. /\ pc' \in [ES -> Inst] /\ prevPC' \in [ES -> Inst]
          /\ steppedInstructions' \in [ES -> Nat] /\ phase' \in {"execute", "aborted"}
      <3>1. CASE s \in Allocated
        <4>1. StepInstruction(s) /\ phase' = "execute"
          BY <1>1, <3>1 DEF Select
        <4>2. /\ pc \in [ES -> Inst] /\ prevPC \in [ES -> Inst]
              /\ steppedInstructions \in [ES -> Nat]
          BY DEF TypeOK
        <4>3. pc' \in [ES -> Inst] /\ prevPC' \in [ES -> Inst]
          BY <2>1, <4>1, <4>2 DEF StepInstruction
        <4>4. steppedInstructions' \in [ES -> Nat]
          BY <4>1, <4>2 DEF StepInstruction
        <4> QED
          BY <4>1, <4>3, <4>4
      <3>2. CASE s \notin Allocated
        BY <1>1, <3>2 DEF Select, TypeOK
      <3> QED
        BY <3>1, <3>2
    <2> QED
      BY <1>1, <2>2 DEF Select, TypeOK, Phases, searcherVars, handlerVars
  <1>2. ASSUME NEW why, Abort(why) PROVE TypeOK'
    BY <1>2 DEF Abort, TypeOK, Phases, esVars, searcherVars, handlerVars
  <1>3. CASE SelectFromEmpty
    BY <1>2, <1>3 DEF SelectFromEmpty
  <1>4. CASE SelectBase
    BY <1>1, <1>4 DEF SelectBase, TypeOK
  <1>5. CASE SelectPrioritized
    BY <1>1, <1>5 DEF SelectPrioritized, TypeOK
  <1>6. CASE ReleasePreemptively
    <2>1. PICK h \in mergeGroups :
            \/ Abort(ReleaseFailure({h}, pausedStates, reachedCloseMerge))
            \/ /\ ReleaseStates({h}, pausedStates, baseSearcher, inCloseMerge, reachedCloseMerge)
               /\ phase' = "selecting"
               /\ UNCHANGED <<created, states, addedStates, prevPC, openMergeStack,
                              objects, steppedInstructions, mergeGroups, handlersCreated,
                              openStates, closedStateCount, closedDistance,
                              openInstruction, current, failed, forked, openMergeMap,
                              closeMergeSet, deleting, searcher, tests, covered>>
      BY <1>6, Zenon DEF ReleasePreemptively
    <2>2. /\ {h} \in SUBSET MH
          /\ pausedStates \in SUBSET ES /\ baseSearcher \in SUBSET ES
          /\ inCloseMerge \in SUBSET ES
          /\ reachedCloseMerge \in [MH -> [Inst -> SUBSET ES]]
      BY DEF TypeOK
    <2>3. CASE Abort(ReleaseFailure({h}, pausedStates, reachedCloseMerge))
      BY <1>2, <2>3
    <2>4. CASE ~Abort(ReleaseFailure({h}, pausedStates, reachedCloseMerge))
      BY <2>1, <2>2, <2>4, ReleaseStatesType DEF TypeOK, Phases
    <2> QED
      BY <2>3, <2>4
  <1>7. CASE ExecutePlain
    BY <1>7 DEF ExecutePlain, Executing, TypeOK, Phases, esVars, searcherVars, handlerVars
  <1>8. CASE ExecuteAlloc
    BY <1>8 DEF ExecuteAlloc, Executing, TypeOK, Phases, searcherVars, handlerVars
  <1>9. CASE ExecuteBranch
    <2>1. current \in ES /\ Executed \in Inst
      BY <1>00, <1>01, <1>9 DEF ExecuteBranch, Executing
    <2>2. PICK choice : Fork(choice, Succ(Executed))
      BY <1>9, Zenon DEF ExecuteBranch
    <2>3. \A k \in 1 .. Len(Succ(Executed)) : Succ(Executed)[k] \in Inst
      BY <2>1, SuccInst
    <2>4. /\ forked' \in BOOLEAN /\ phase' = "autoOpen"
          /\ UNCHANGED <<states, removedStates, searcherVars, handlersCreated, reachedCloseMerge,
                         closedStateCount, closedDistance, openInstruction,
                         mergeDecisionCache, current, failed, openMergeMap, closeMergeSet, deleting,
                         searcher, tests, covered>>
      BY <1>9 DEF ExecuteBranch
    <2>5. /\ created' \in ES /\ addedStates' \subseteq ES /\ pc' \in [ES -> Inst]
          /\ prevPC' \in [ES -> Inst] /\ openMergeStack' \in [ES -> Seq(MH)]
          /\ constraints' \in [ES -> SUBSET Inputs] /\ objects' \in [ES -> SUBSET (ES \X Nat)]
          /\ steppedInstructions' \in [ES -> Nat] /\ openStates' \in [MH -> SUBSET ES]
      BY <1>0, <2>1, <2>2, <2>3, ForkType
    <2> QED
      BY <2>1, <2>4, <2>5 DEF TypeOK, Phases, searcherVars
  <1>10. CASE ExecuteBranchTooDeep
    <2>1. current \in ES /\ {current} \in SUBSET ES
      BY <1>00, <1>10 DEF ExecuteBranchTooDeep, Executing
    <2>2. /\ removedStates' \in [ES -> Nat] /\ pc' \in [ES -> Inst] /\ covered' \subseteq Inputs
      BY <1>0, <1>10, <2>1, TerminateType DEF ExecuteBranchTooDeep
    <2> QED
      BY <1>10, <2>1, <2>2
      DEF ExecuteBranchTooDeep, TypeOK, Phases, searcherVars, handlerVars
  <1>11. CASE ExecuteMemoryOperation
    <2>1. current \in ES /\ Executed \in Inst
      BY <1>00, <1>01, <1>11 DEF ExecuteMemoryOperation, Executing
    <2> DEFINE targets == <<NextInst(Executed), NextInst(Executed)>>
    <2>2. PICK choice \in [constraints[current] -> 1 .. 3] :
            /\ Fork(choice, targets)
            /\ covered' = covered \cup {x \in constraints[current] : choice[x] = 3}
            /\ tests' \in IF {x \in constraints[current] : choice[x] = 3} = {}
                          THEN {tests} ELSE ErrorReported
      BY <1>11, Zenon DEF ExecuteMemoryOperation
    <2>3. \A k \in 1 .. Len(targets) : targets[k] \in Inst
      BY <2>1, NextInstType
    <2> HIDE DEF targets
    <2>4. /\ phase' = "autoOpen"
          /\ UNCHANGED <<states, removedStates, searcherVars, handlersCreated, reachedCloseMerge,
                         closedStateCount, closedDistance, openInstruction,
                         mergeDecisionCache, current, failed, forked, openMergeMap, closeMergeSet,
                         deleting, searcher>>
      BY <1>11 DEF ExecuteMemoryOperation
    <2>5. /\ created' \in ES /\ addedStates' \subseteq ES /\ pc' \in [ES -> Inst]
          /\ prevPC' \in [ES -> Inst] /\ openMergeStack' \in [ES -> Seq(MH)]
          /\ constraints' \in [ES -> SUBSET Inputs] /\ objects' \in [ES -> SUBSET (ES \X Nat)]
          /\ steppedInstructions' \in [ES -> Nat] /\ openStates' \in [MH -> SUBSET ES]
      BY <1>0, <2>1, <2>2, <2>3, ForkType
    <2>6. covered' \subseteq Inputs /\ tests' \in Nat
      BY <2>1, <2>2 DEF TypeOK, ErrorReported
    <2> QED
      BY <2>1, <2>4, <2>5, <2>6 DEF TypeOK, Phases, searcherVars
  <1>12. CASE ExecuteExit \/ ExecuteTimedOut
    <2>1. current \in ES /\ {current} \in SUBSET ES
      BY <1>00, <1>12 DEF ExecuteExit, ExecuteTimedOut, Executing
    <2>2. /\ removedStates' \in [ES -> Nat] /\ pc' \in [ES -> Inst] /\ covered' \subseteq Inputs
      BY <1>0, <1>12, <2>1, TerminateType DEF ExecuteExit, ExecuteTimedOut
    <2>3. tests' \in Nat
      BY <1>12 DEF ExecuteExit, ExecuteTimedOut, ErrorReported, TypeOK
    <2> QED
      BY <1>12, <2>1, <2>2, <2>3 DEF ExecuteExit, ExecuteTimedOut, TypeOK, Phases, searcherVars, handlerVars
  <1>13. CASE ExecuteOpenMerge
    <2>1. current \in ES
      BY <1>00, <1>13 DEF ExecuteOpenMerge, Executing
    <2> QED
      BY <1>13, <2>1, OpenMergeType DEF ExecuteOpenMerge, HandleOpenMerge, TypeOK, Phases
  <1>14. CASE ExecuteCloseMerge
    BY <1>00, <1>14, HandleCloseMergeType DEF ExecuteCloseMerge, Executing, Phases
  <1>15. CASE AutoOpen
    <2>1. current \in ES /\ Executed \in Inst
      BY <1>00, <1>01, <1>15 DEF AutoOpen
    <2>2. BlockOf(Executed) \in Blocks /\ CloseBlock[BlockOf(Executed)] \in Blocks
      BY <1>15, <2>1, SuccInst, CloseBlockType DEF AutoOpen, OpensRegion
    <2> QED
      BY <1>15, <2>1, <2>2, OpenMergeType DEF AutoOpen, HandleOpenMerge, TypeOK, Phases
  <1>16. CASE NoAutoOpen
    BY <1>16 DEF NoAutoOpen, TypeOK, Phases, esVars, searcherVars, handlerVars
  <1>17. CASE AutoClose
    BY <1>00, <1>17, HandleCloseMergeType DEF AutoClose, Phases
  <1>18. CASE NoAutoClose
    BY <1>18 DEF NoAutoClose, TypeOK, Phases, esVars, searcherVars, handlerVars
  <1>19. CASE KillStates
    <2>1. PICK S \in SUBSET states : Terminate(S) /\ tests' = tests + Cardinality(S)
      BY <1>19 DEF KillStates
    <2>2. S \in SUBSET ES
      BY DEF TypeOK
    <2>3. Cardinality(S) \in Nat
      BY <2>2, CountType
    <2>4. /\ removedStates' \in [ES -> Nat] /\ pc' \in [ES -> Inst] /\ covered' \subseteq Inputs
      BY <1>0, <2>1, <2>2, TerminateType
    <2>5. tests' \in Nat
      BY <2>1, <2>3 DEF TypeOK
    <2>6. /\ phase' = "update" /\ current \in ES
          /\ UNCHANGED <<created, states, addedStates, prevPC, openMergeStack, constraints, objects,
                         steppedInstructions, searcherVars, handlerVars, current, forked,
                         openMergeMap, closeMergeSet, deleting, searcher>>
      BY <1>00, <1>19 DEF KillStates
    <2> QED
      BY <2>4, <2>5, <2>6 DEF TypeOK, Phases, searcherVars, handlerVars
  <1>20. CASE UnderMemoryLimit
    BY <1>20 DEF UnderMemoryLimit, TypeOK, Phases, esVars, searcherVars, handlerVars
  <1>21. CASE UpdateStates
    <2>1. CASE Abort("invalid state removed")
      BY <1>2, <2>1
    <2>2. CASE ~Abort("invalid state removed")
      BY <1>21, <2>2 DEF UpdateStates, SearcherUpdate, Removed, TypeOK, Phases, NoState, handlerVars
    <2> QED
      BY <2>1, <2>2
  <1>22. CASE DeleteState
    <2>1. PICK s \in deleting :
            \/ \E why : Abort(why)
            \/ /\ states' = states \ {s}
               /\ deleting' = deleting \ {s}
               /\ DeleteExecutionState(s)
               /\ UNCHANGED <<created, addedStates, prevPC, objects, steppedInstructions, phase,
                              current, failed, forked, openMergeMap, closeMergeSet, searcher,
                              tests, covered>>
      BY <1>22, Zenon DEF DeleteState
    <2>2. CASE \E why : Abort(why)
      BY <1>2, <2>2
    <2>3. CASE ~\E why : Abort(why)
      BY <2>1, <2>3, DeleteType DEF TypeOK
    <2> QED
      BY <2>2, <2>3
  <1>23. CASE DeleteThroughStaleIterator
    BY <1>2, <1>23 DEF DeleteThroughStaleIterator
  <1>24. CASE EndUpdate
    BY <1>24 DEF EndUpdate, TypeOK, Phases, searcherVars, handlerVars
  <1>25. CASE Halt
    <2>1. states \in SUBSET ES
      BY DEF TypeOK
    <2>2. Cardinality(states) \in Nat
      BY <2>1, CountType
    <2>3. /\ removedStates' \in [ES -> Nat] /\ pc' \in [ES -> Inst] /\ covered' \subseteq Inputs
      BY <1>0, <1>25, <2>1, TerminateType DEF Halt
    <2>4. tests' \in Nat /\ deleting' \subseteq ES
      BY <1>25, <2>1, <2>2 DEF Halt, TypeOK
    <2>5. /\ phase' = "delete" /\ searcher' = FALSE
          /\ UNCHANGED <<created, states, addedStates, prevPC, openMergeStack, constraints, objects,
                         steppedInstructions, searcherVars, handlerVars, current, forked,
                         openMergeMap, closeMergeSet>>
      BY <1>25 DEF Halt
    <2> QED
      BY <2>3, <2>4, <2>5 DEF TypeOK, Phases, searcherVars, handlerVars
  <1>26. CASE Finish
    BY <1>26 DEF Finish, TypeOK, Phases, esVars, searcherVars, handlerVars
  <1>27. CASE UNCHANGED vars
    BY <1>27 DEF vars, TypeOK, esVars, searcherVars, handlerVars, loopVars
  <1> QED
    BY <1>3, <1>4, <1>5, <1>6, <1>7, <1>8, <1>9, <1>10, <1>11, <1>12, <1>13, <1>14, <1>15,
       <1>16, <1>17, <1>18, <1>19, <1>20, <1>21, <1>22, <1>23, <1>24, <1>25, <1>26, <1>27
    DEF Next, Iterate, Terminated

(* In every run each variable keeps the type of the field it stands for. *)
THEOREM TypeCorrect == Spec => []TypeOK
  BY InitType, NextType, PTL DEF Spec

-----------------------------------------------------------------------------
(***************************************************************************)
(* The records of open and waiting states that the states, the handlers    *)
(* and the searcher keep of each other agree, and the assertions that      *)
(* depend on them never fail, for every program, number of states and      *)
(* handlers, set of inputs and choice of options.                          *)
(***************************************************************************)

(***************************************************************************)
(* Stacks.                                                                 *)
(***************************************************************************)

(* The handlers on a stack after a push. *)
LEMMA PushHolds ==
    ASSUME NEW stack \in Seq(MH), NEW h \in MH, NEW g
    PROVE  (\E k \in 1 .. Len(Append(stack, h)) : Append(stack, h)[k] = g)
             <=> (g = h \/ \E k \in 1 .. Len(stack) : stack[k] = g)
  <1> DEFINE pushed == Append(stack, h)
  <1>1. /\ Len(stack) \in Nat
        /\ Len(pushed) = Len(stack) + 1
        /\ \A k \in 1 .. Len(stack) : pushed[k] = stack[k]
        /\ pushed[Len(stack) + 1] = h
    OBVIOUS
  <1> HIDE DEF pushed
  <1>2. 1 .. Len(pushed) = (1 .. Len(stack)) \cup {Len(stack) + 1}
    BY <1>1
  <1> QED
    BY <1>1, <1>2 DEF pushed

(* The handlers on a stack after a pop. *)
LEMMA PopHolds ==
    ASSUME NEW stack \in Seq(MH), stack # << >>, NEW g,
           \A k, l \in 1 .. Len(stack) : k # l => stack[k] # stack[l]
    PROVE  (\E k \in 1 .. Len(SubSeq(stack, 1, Len(stack) - 1)) :
                SubSeq(stack, 1, Len(stack) - 1)[k] = g)
             <=> (g # stack[Len(stack)] /\ \E k \in 1 .. Len(stack) : stack[k] = g)
  <1> DEFINE rest == SubSeq(stack, 1, Len(stack) - 1)
  <1>1. /\ Len(rest) = Len(stack) - 1
        /\ \A k \in 1 .. Len(stack) - 1 : rest[k] = stack[k]
    BY PopType
  <1>2. Len(stack) \in Nat \ {0}
    OBVIOUS
  <1> HIDE DEF rest
  <1>3. 1 .. Len(stack) = (1 .. Len(rest)) \cup {Len(stack)} /\ Len(stack) \notin 1 .. Len(rest)
    BY <1>1, <1>2
  <1> QED
    BY <1>1, <1>3 DEF rest

-----------------------------------------------------------------------------
(***************************************************************************)
(* Release.                                                                *)
(***************************************************************************)

(* Releasing the states of some handlers leaves the three records of the   *)
(* waiting states in agreement.                                            *)
LEMMA ReleaseKeepsWaiting ==
    ASSUME NEW H \in SUBSET MH,
           NEW waiting \in SUBSET ES, NEW runnable,
           NEW reached \in [MH -> [Inst -> SUBSET ES]],
           waiting = WaitingIn(MH, reached),
           WaitAtOnePlace(waiting, reached),
           ReleaseStates(H, waiting, runnable, waiting, reached)
    PROVE  WaitingRecordsAgree'
  <1> DEFINE freed == WaitingIn(H, reached)
  <1>1. /\ pausedStates' = waiting \ freed
        /\ inCloseMerge' = waiting \ freed
        /\ reachedCloseMerge' = [h \in MH |-> IF h \in H THEN [i \in Inst |-> {}] ELSE reached[h]]
    BY DEF ReleaseStates
  <1>2. \A h \in MH, i \in Inst : reachedCloseMerge'[h][i] = IF h \in H THEN {} ELSE reached[h][i]
    BY <1>1
  <1>3. \A s \in ES : s \in freed <=> \E h \in H, i \in Inst : s \in reached[h][i]
    BY DEF WaitingIn
  <1>4. \A s \in ES : s \in waiting <=> \E h \in MH, i \in Inst : s \in reached[h][i]
    BY DEF WaitingIn
  <1> HIDE DEF freed
  <1>5. \A s \in ES : s \in waiting \ freed
                        <=> \E h \in MH, i \in Inst : s \in reachedCloseMerge'[h][i]
    BY <1>2, <1>3, <1>4 DEF WaitAtOnePlace
  <1>6. pausedStates' = WaitingIn(MH, reachedCloseMerge)'
    BY <1>1, <1>5 DEF WaitingIn
  <1> QED
    BY <1>1, <1>2, <1>6 DEF WaitingRecordsAgree, WaitAtOnePlace

-----------------------------------------------------------------------------
(***************************************************************************)
(* The operations that change the records.                                 *)
(***************************************************************************)

(* What the invariant says of the current state while it is executed. *)
LEMMA CurrentAllocated ==
    ASSUME RecordsInv, phase \in {"execute", "autoOpen", "autoClose", "memory", "update"}
    PROVE  current \in Allocated /\ current \in ES
  BY DEF RecordsInv, StatesNumbered, TypeOK

(* A step that leaves the records of the waiting states alone. *)
LEMMA WaitingUnchanged ==
    ASSUME WaitingRecordsAgree, UNCHANGED <<pausedStates, inCloseMerge, reachedCloseMerge>>
    PROVE  WaitingRecordsAgree'
  <1>1. pausedStates = WaitingIn(MH, reachedCloseMerge)
    BY DEF WaitingRecordsAgree
  <1>2. (pausedStates = WaitingIn(MH, reachedCloseMerge))'
    BY <1>1 DEF WaitingIn
  <1>3. WaitAtOnePlace(pausedStates, reachedCloseMerge)'
    BY DEF WaitingRecordsAgree, WaitAtOnePlace
  <1>4. pausedStates' = inCloseMerge'
    BY DEF WaitingRecordsAgree
  <1> QED
    BY <1>2, <1>3, <1>4 DEF WaitingRecordsAgree

(* A step that leaves the records alone keeps the invariant. *)
LEMMA RecordsUnchanged ==
    ASSUME RecordsInv, TypeOK', RecordAssertionsHold',
           UNCHANGED <<created, openMergeStack, openStates, mergeGroups, handlersCreated,
                       pausedStates, inCloseMerge, reachedCloseMerge>>,
           Allocated' = Allocated,
           phase' \in {"execute", "autoOpen", "autoClose", "memory", "update"}
             => current' \in Allocated
    PROVE  RecordsInv'
  <1>1. \A s \in ES, h \in MH : Holds(s, h)' <=> Holds(s, h)
    BY DEF Holds
  <1>2. OpenStatesHoldHandler'
    <2>1. OpenStatesHoldHandler
      BY DEF RecordsInv
    <2> QED
      BY <1>1, <2>1 DEF OpenStatesHoldHandler
  <1>3. WaitingRecordsAgree'
    BY WaitingUnchanged DEF RecordsInv
  <1>4. NoOrphanedGroup'
    BY DEF RecordsInv, NoOrphanedGroup, HasMergedStates
  <1>5. StatesNumbered'
    BY DEF RecordsInv, StatesNumbered
  <1>6. StacksDistinct'
    BY DEF RecordsInv, StacksDistinct
  <1> QED
    BY <1>2, <1>3, <1>4, <1>5, <1>6 DEF RecordsInv

(* Copies share the handlers of the state they are copied from, and are    *)
(* open states of them.                                                    *)
LEMMA ForkRecords ==
    ASSUME RecordsInv, TypeOK', current \in Allocated, current' = current,
           NEW choice, NEW targets, Fork(choice, targets),
           UNCHANGED <<states, mergeGroups, handlersCreated, pausedStates, inCloseMerge,
                       reachedCloseMerge, failed>>
    PROVE  RecordsInv'
  <1>1. PICK last \in created .. MaxStates :
             LET copies == (created + 1) .. last
             IN  /\ created' = last
                 /\ addedStates' = addedStates \cup copies
                 /\ openMergeStack' = [s \in ES |-> IF s \in copies THEN openMergeStack[current]
                                                    ELSE openMergeStack[s]]
                 /\ openStates' = [h \in MH |-> IF Holds(current, h) THEN openStates[h] \cup copies
                                                ELSE openStates[h]]
    BY Zenon DEF Fork
  <1> DEFINE copies == (created + 1) .. last
  <1>2. /\ created \in ES /\ Allocated \subseteq 1 .. created /\ Allocated \subseteq ES
        /\ openMergeStack \in [ES -> Seq(MH)] /\ openStates \in [MH -> SUBSET ES]
    BY DEF RecordsInv, TypeOK, StatesNumbered, Allocated
  <1>3. /\ copies \subseteq ES /\ copies \cap Allocated = {} /\ current \notin copies
        /\ Allocated \subseteq 1 .. last /\ copies \subseteq 1 .. last
    BY <1>2, BoundsAssumption DEF BoundsAssumption, ES
  <1>4. /\ created' = last
        /\ addedStates' = addedStates \cup copies
        /\ openMergeStack' = [s \in ES |-> IF s \in copies THEN openMergeStack[current]
                                           ELSE openMergeStack[s]]
        /\ openStates' = [h \in MH |-> IF Holds(current, h) THEN openStates[h] \cup copies
                                       ELSE openStates[h]]
    BY <1>1
  <1> HIDE DEF copies
  <1>5. Allocated' = Allocated \cup copies
    BY <1>4 DEF Allocated
  <1>6. \A s \in ES, h \in MH : Holds(s, h)' <=> IF s \in copies THEN Holds(current, h) ELSE Holds(s, h)
    BY <1>4 DEF Holds
  <1>7. OpenStatesHoldHandler'
    <2>1. \A h \in MH : openStates[h] = {s \in ES : Holds(s, h)} /\ openStates[h] \subseteq Allocated
      BY DEF RecordsInv, OpenStatesHoldHandler
    <2>2. ASSUME NEW h \in MH
          PROVE  openStates'[h] = {s \in ES : Holds(s, h)'} /\ openStates'[h] \subseteq Allocated'
      BY <1>3, <1>4, <1>5, <1>6, <2>1
    <2> QED
      BY <2>2 DEF OpenStatesHoldHandler
  <1>8. WaitingRecordsAgree'
    BY WaitingUnchanged DEF RecordsInv
  <1>9. NoOrphanedGroup'
    <2>1. \A h \in MH : openStates'[h] = {} <=> openStates[h] = {}
      <3>1. \A h \in MH : Holds(current, h) => openStates[h] # {}
        BY <1>2 DEF RecordsInv, OpenStatesHoldHandler
      <3> QED
        BY <1>4, <3>1
    <2> QED
      BY <2>1 DEF RecordsInv, NoOrphanedGroup, HasMergedStates
  <1>10. StatesNumbered'
    BY <1>3, <1>4, <1>5 DEF StatesNumbered
  <1>11. StacksDistinct'
    BY <1>2, <1>4 DEF RecordsInv, StacksDistinct
  <1>12. RecordAssertionsHold'
    BY DEF RecordsInv, RecordAssertionsHold
  <1> QED
    BY <1>7, <1>8, <1>9, <1>10, <1>11, <1>12 DEF RecordsInv

(* The state that opens a region is the only holder of the new handler. *)
LEMMA OpenRecords ==
    ASSUME RecordsInv, TypeOK', current \in Allocated, current \in ES, HandleOpenMerge
    PROVE  RecordsInv'
  <1>0. /\ UNCHANGED <<created, states, addedStates, current, failed>>
        /\ Allocated' = Allocated /\ RecordAssertionsHold'
    BY DEF HandleOpenMerge, Allocated, RecordsInv, RecordAssertionsHold
  <1>1. CASE ~UseMerge
    BY <1>0, <1>1, RecordsUnchanged DEF HandleOpenMerge, searcherVars, handlerVars
  <1>2. CASE UseMerge
    <2> DEFINE h == handlersCreated + 1
    <2>1. OpenMerge(current)
      BY <1>2 DEF HandleOpenMerge
    <2>2. /\ h \in MH /\ handlersCreated' = h
          /\ mergeGroups' = mergeGroups \cup {h}
          /\ openStates' = [openStates EXCEPT ![h] = {current}]
          /\ openMergeStack' = [openMergeStack EXCEPT ![current] = Append(@, h)]
          /\ UNCHANGED <<reachedCloseMerge, pausedStates, inCloseMerge>>
      BY <2>1 DEF OpenMerge
    <2>3. /\ openMergeStack \in [ES -> Seq(MH)] /\ openStates \in [MH -> SUBSET ES]
          /\ handlersCreated \in 0 .. MaxHandlers
      BY DEF RecordsInv, TypeOK
    <2>4. \A s \in ES : ~Holds(s, h)
      <3>1. \A s \in ES : \A k \in 1 .. Len(openMergeStack[s]) : openMergeStack[s][k] # h
        <4>1. \A s \in ES : \A k \in 1 .. Len(openMergeStack[s]) :
                 openMergeStack[s][k] <= handlersCreated
          BY DEF RecordsInv, StacksDistinct
        <4> QED
          BY <2>3, <4>1
      <3> QED
        BY <3>1 DEF Holds
    <2> HIDE DEF h
    <2>5. \A s \in ES, g \in MH : Holds(s, g)' <=> Holds(s, g) \/ (s = current /\ g = h)
      <3>1. openMergeStack'[current] = Append(openMergeStack[current], h)
        BY <2>2, <2>3
      <3>2. openMergeStack[current] \in Seq(MH)
        BY <2>3
      <3>3. \A g \in MH : Holds(current, g)' <=> Holds(current, g) \/ g = h
        <4> DEFINE stack == openMergeStack[current]
        <4>1. \A g \in MH : (\E k \in 1 .. Len(Append(stack, h)) : Append(stack, h)[k] = g)
                              <=> (g = h \/ \E k \in 1 .. Len(stack) : stack[k] = g)
          BY <2>2, <3>2, PushHolds
        <4> QED
          BY <1>0, <3>1, <4>1, Zenon DEF Holds
      <3>4. ASSUME NEW s \in ES, s # current, NEW g \in MH PROVE Holds(s, g)' <=> Holds(s, g)
        <4>1. openMergeStack'[s] = openMergeStack[s]
          BY <2>2, <2>3, <3>4
        <4> QED
          BY <4>1 DEF Holds
      <3>5. ASSUME NEW s \in ES, NEW g \in MH
            PROVE  Holds(s, g)' <=> Holds(s, g) \/ (s = current /\ g = h)
        BY <1>0, <3>3, <3>4
      <3> QED
        BY <3>5
    <2>6. \A g \in MH : openStates[g] = {s \in ES : Holds(s, g)} /\ openStates[g] \subseteq Allocated
      BY DEF RecordsInv, OpenStatesHoldHandler
    <2>7. openStates[h] = {}
      BY <2>2, <2>4, <2>6
    <2>8. OpenStatesHoldHandler'
      <3>1. ASSUME NEW g \in MH
            PROVE  openStates'[g] = {s \in ES : Holds(s, g)'} /\ openStates'[g] \subseteq Allocated'
        BY <1>0, <2>2, <2>3, <2>4, <2>5, <2>6
      <3> QED
        BY <3>1 DEF OpenStatesHoldHandler
    <2>9. WaitingRecordsAgree'
      BY <2>2, WaitingUnchanged DEF RecordsInv
    <2>10. NoOrphanedGroup'
      <3>1. \A g \in MH : /\ g \in mergeGroups <=> openStates[g] # {}
                          /\ HasMergedStates(g) => openStates[g] # {}
        BY DEF RecordsInv, NoOrphanedGroup
      <3>2. \A g \in MH : HasMergedStates(g)' <=> HasMergedStates(g)
        BY <2>2 DEF HasMergedStates
      <3>3. \A g \in MH : openStates'[g] = IF g = h THEN {current} ELSE openStates[g]
        BY <2>2, <2>3
      <3> QED
        BY <2>2, <3>1, <3>2, <3>3 DEF NoOrphanedGroup
    <2>11. StatesNumbered'
      BY <1>0 DEF RecordsInv, StatesNumbered
    <2>12. StacksDistinct'
      <3>1. \A s \in ES : \A k, l \in 1 .. Len(openMergeStack[s]) :
               /\ openMergeStack[s][k] <= handlersCreated
               /\ k # l => openMergeStack[s][k] # openMergeStack[s][l]
        BY DEF RecordsInv, StacksDistinct
      <3>2. \A k \in 1 .. Len(openMergeStack[current]) : openMergeStack[current][k] # h
        BY <2>4 DEF Holds
      <3> DEFINE stack == openMergeStack[current]
      <3>3. /\ openMergeStack'[current] = Append(stack, h)
            /\ \A s \in ES \ {current} : openMergeStack'[s] = openMergeStack[s]
            /\ stack \in Seq(MH)
        BY <2>2, <2>3
      <3>4. /\ Len(stack) \in Nat
            /\ Len(Append(stack, h)) = Len(stack) + 1
            /\ \A k \in 1 .. Len(stack) : Append(stack, h)[k] = stack[k]
            /\ Append(stack, h)[Len(stack) + 1] = h
        BY <2>2, <3>3
      <3>5. handlersCreated' = handlersCreated + 1 /\ h = handlersCreated + 1
        BY <2>2 DEF h
      <3>6. \A s \in ES : \A k \in 1 .. Len(openMergeStack[s]) : openMergeStack[s][k] \in Int
        BY <2>3, BoundsAssumption DEF BoundsAssumption, MH
      <3>7. ASSUME NEW s \in ES \ {current}, NEW k \in 1 .. Len(openMergeStack'[s]),
                   NEW l \in 1 .. Len(openMergeStack'[s])
            PROVE  /\ openMergeStack'[s][k] <= handlersCreated'
                   /\ k # l => openMergeStack'[s][k] # openMergeStack'[s][l]
        <4>1. openMergeStack'[s] = openMergeStack[s] /\ s \in ES
          BY <3>3
        <4>2. openMergeStack[s][k] <= handlersCreated /\ openMergeStack[s][k] \in Int
          BY <3>1, <3>6, <4>1
        <4>3. openMergeStack[s][k] <= handlersCreated + 1
          BY <2>3, <4>2
        <4>4. k # l => openMergeStack[s][k] # openMergeStack[s][l]
          BY <3>1, <4>1
        <4> QED
          BY <3>5, <4>1, <4>3, <4>4
      <3>8. ASSUME NEW k \in 1 .. Len(stack) + 1, NEW l \in 1 .. Len(stack) + 1
            PROVE  /\ Append(stack, h)[k] <= handlersCreated'
                   /\ k # l => Append(stack, h)[k] # Append(stack, h)[l]
        <4>1. /\ k \in 1 .. Len(stack) \/ k = Len(stack) + 1
              /\ l \in 1 .. Len(stack) \/ l = Len(stack) + 1
          BY <3>4
        <4>2. Append(stack, h)[k] <= handlersCreated'
          BY <2>3, <3>1, <3>4, <3>5, <3>6, <4>1
        <4>3. k # l => Append(stack, h)[k] # Append(stack, h)[l]
          BY <3>1, <3>2, <3>4, <4>1
        <4> QED
          BY <4>2, <4>3
      <3> HIDE DEF stack
      <3> QED
        BY <3>3, <3>4, <3>7, <3>8 DEF StacksDistinct
    <2> QED
      BY <1>0, <2>8, <2>9, <2>10, <2>11, <2>12 DEF RecordsInv
  <1> QED
    BY <1>1, <1>2

(* A state that has not closed its top region yet, and does: it leaves the *)
(* open states and waits, or is released with all who wait.                *)
LEMMA CloseRecords ==
    ASSUME RecordsInv, TypeOK', current \in Allocated, current \in ES,
           openMergeStack[current] # << >>, NEW i \in Inst,
           CloseMergeFailure(current, i) = "none",
           CloseMerge(current, i),
           UNCHANGED <<created, states, addedStates, current, failed>>
    PROVE  RecordsInv'
  <1> DEFINE h == Top(current)
             H == DestroyedByPop(current)
             reached == ReachedAfterClose(current, i)
             stack == openMergeStack[current]
  <1>1. /\ openMergeStack \in [ES -> Seq(MH)] /\ openStates \in [MH -> SUBSET ES]
        /\ reachedCloseMerge \in [MH -> [Inst -> SUBSET ES]]
        /\ pausedStates \subseteq ES /\ mergeGroups \subseteq MH
        /\ stack \in Seq(MH)
    BY DEF RecordsInv, TypeOK
  <1>2. h = stack[Len(stack)] /\ h \in MH /\ H \in SUBSET MH
    BY <1>1, PopType DEF Top, DestroyedByPop
  <1>3. current \notin inCloseMerge
    BY DEF CloseMergeFailure, ClosingAssert
  <1>4. /\ openStates' = [openStates EXCEPT ![h] = @ \ {current}]
        /\ openMergeStack' = [openMergeStack EXCEPT ![current] = SubSeq(@, 1, Len(@) - 1)]
        /\ mergeGroups' = mergeGroups \ H
        /\ handlersCreated' = handlersCreated
        /\ ReleaseStates(H, pausedStates \cup {current}, baseSearcher \ {current},
                         inCloseMerge \cup {current}, reached)
    BY DEF CloseMerge
  <1>5. H = IF \A t \in ES \ {current} : ~Holds(t, h) THEN {h} ELSE {}
    BY DEF DestroyedByPop, LastHolder
  <1>6. reached = [reachedCloseMerge EXCEPT ![h] =
                      [reachedCloseMerge[h] EXCEPT ![i] = @ \cup {current}]]
    BY DEF ReachedAfterClose
  <1> HIDE DEF h, H, reached
  <1>7. \A g \in MH, j \in Inst : reached[g][j] = IF g = h /\ j = i
                                                  THEN reachedCloseMerge[g][j] \cup {current}
                                                  ELSE reachedCloseMerge[g][j]
    BY <1>1, <1>2, <1>6
  <1>8. reached \in [MH -> [Inst -> SUBSET ES]]
    BY <1>1, <1>2, <1>6
  <1>9. \A s \in ES, g \in MH : Holds(s, g)' <=> Holds(s, g) /\ ~(s = current /\ g = h)
    <2>1. \A k, l \in 1 .. Len(stack) : k # l => stack[k] # stack[l]
      BY DEF RecordsInv, StacksDistinct
    <2> DEFINE rest == SubSeq(stack, 1, Len(stack) - 1)
    <2>2. \A g \in MH : (\E k \in 1 .. Len(rest) : rest[k] = g)
                          <=> (g # stack[Len(stack)] /\ \E k \in 1 .. Len(stack) : stack[k] = g)
      BY <1>1, <2>1, PopHolds
    <2>3. openMergeStack'[current] = rest
      BY <1>1, <1>4
    <2>4. \A g \in MH : Holds(current, g)' <=> Holds(current, g) /\ g # h
      BY <1>2, <2>2, <2>3, Zenon DEF Holds
    <2>5. ASSUME NEW s \in ES, s # current, NEW g \in MH PROVE Holds(s, g)' <=> Holds(s, g)
      <3>1. openMergeStack'[s] = openMergeStack[s]
        BY <1>1, <1>4, <2>5
      <3> QED
        BY <3>1 DEF Holds
    <2>6. ASSUME NEW s \in ES, NEW g \in MH
          PROVE  Holds(s, g)' <=> Holds(s, g) /\ ~(s = current /\ g = h)
      BY <2>4, <2>5
    <2> QED
      BY <2>6
  <1>10. \A g \in MH : /\ openStates[g] = {s \in ES : Holds(s, g)}
                       /\ openStates[g] \subseteq Allocated
    BY DEF RecordsInv, OpenStatesHoldHandler
  <1>11. Allocated' = Allocated /\ RecordAssertionsHold'
    BY DEF Allocated, RecordsInv, RecordAssertionsHold
  <1>12. \A g \in MH : openStates'[g] = IF g = h THEN openStates[g] \ {current} ELSE openStates[g]
    BY <1>1, <1>4
  <1>13. OpenStatesHoldHandler'
    <2>1. ASSUME NEW g \in MH
          PROVE  openStates'[g] = {s \in ES : Holds(s, g)'} /\ openStates'[g] \subseteq Allocated'
      BY <1>9, <1>10, <1>11, <1>12
    <2> QED
      BY <2>1 DEF OpenStatesHoldHandler
  <1>14. /\ WaitingRecordsAgree'
         /\ \A g \in MH : HasMergedStates(g)' <=> g \notin H /\ \E j \in Inst : reached[g][j] # {}
    <2> DEFINE waiting == pausedStates \cup {current}
    <2>1. /\ pausedStates = inCloseMerge /\ current \notin pausedStates
          /\ \A s \in ES : s \in pausedStates
                             <=> \E g \in MH, j \in Inst : s \in reachedCloseMerge[g][j]
          /\ WaitAtOnePlace(pausedStates, reachedCloseMerge)
      BY <1>3 DEF RecordsInv, WaitingRecordsAgree, WaitingIn
    <2>0. \A s, g, j : g \in MH /\ j \in Inst =>
             (s \in reached[g][j] <=> s \in reachedCloseMerge[g][j] \/ (s = current /\ g = h /\ j = i))
      BY <1>7
    <2>2. \A s \in ES : s \in waiting <=> \E g \in MH, j \in Inst : s \in reached[g][j]
      <3>1. current \in waiting /\ \A s \in ES : s # current => (s \in waiting <=> s \in pausedStates)
        OBVIOUS
      <3>2. current \in reached[h][i]
        BY <1>2, <2>0
      <3> QED
        BY <1>2, <2>0, <2>1, <3>1, <3>2
    <2>3. waiting = WaitingIn(MH, reached) /\ waiting \in SUBSET ES
      BY <1>1, <2>2 DEF WaitingIn
    <2>4. WaitAtOnePlace(waiting, reached)
      <3>1. \A g \in MH, j \in Inst : current \notin reachedCloseMerge[g][j]
        BY <2>1
      <3> QED
        BY <2>0, <2>1, <3>1 DEF WaitAtOnePlace
    <2>5. ReleaseStates(H, waiting, baseSearcher \ {current}, waiting, reached)
      BY <1>4, <2>1
    <2> HIDE DEF waiting
    <2>6. WaitingRecordsAgree'
      BY <1>2, <1>8, <2>3, <2>4, <2>5, ReleaseKeepsWaiting
    <2>7. \A g \in MH, j \in Inst :
             reachedCloseMerge'[g][j] = IF g \in H THEN {} ELSE reached[g][j]
      BY <2>5 DEF ReleaseStates
    <2> QED
      BY <2>6, <2>7 DEF HasMergedStates
  <1>15. NoOrphanedGroup'
    <2>1. \A g \in MH : /\ g \in mergeGroups <=> openStates[g] # {}
                        /\ (\E j \in Inst : reachedCloseMerge[g][j] # {}) => openStates[g] # {}
      BY DEF RecordsInv, NoOrphanedGroup, HasMergedStates
    <2>2. h \in H <=> openStates'[h] = {}
      BY <1>2, <1>5, <1>10, <1>12
    <2>3. ASSUME NEW g \in MH
          PROVE  /\ g \in mergeGroups' <=> openStates'[g] # {}
                 /\ HasMergedStates(g)' => openStates'[g] # {}
      <3>1. CASE g = h
        <4>1. Holds(current, h)
          BY <1>1, <1>2 DEF Holds
        <4>2. g \in mergeGroups
          BY <1>2, <1>10, <2>1, <3>1, <4>1
        <4> QED
          BY <1>4, <1>14, <2>2, <3>1, <4>2
      <3>2. CASE g # h
        BY <1>4, <1>5, <1>7, <1>12, <1>14, <2>1, <3>2
      <3> QED
        BY <3>1, <3>2
    <2> QED
      BY <2>3 DEF NoOrphanedGroup
  <1>16. StatesNumbered'
    BY <1>11 DEF RecordsInv, StatesNumbered
  <1>17. StacksDistinct'
    <2>1. \A s \in ES : \A k, l \in 1 .. Len(openMergeStack[s]) :
               /\ openMergeStack[s][k] <= handlersCreated
               /\ k # l => openMergeStack[s][k] # openMergeStack[s][l]
      BY DEF RecordsInv, StacksDistinct
    <2> DEFINE rest == SubSeq(stack, 1, Len(stack) - 1)
    <2>2. Len(rest) = Len(stack) - 1 /\ \A k \in 1 .. Len(stack) - 1 : rest[k] = stack[k]
      BY <1>1, PopType
    <2>3. Len(stack) \in Nat
      BY <1>1
    <2>4. openMergeStack'[current] = rest
      BY <1>1, <1>4
    <2> HIDE DEF rest
    <2>5. ASSUME NEW k \in 1 .. Len(rest), NEW l \in 1 .. Len(rest)
          PROVE  rest[k] <= handlersCreated /\ (k # l => rest[k] # rest[l])
      <3>1. /\ k \in 1 .. Len(stack) /\ l \in 1 .. Len(stack)
            /\ rest[k] = stack[k] /\ rest[l] = stack[l]
        BY <2>2, <2>3
      <3> QED
        BY <2>1, <3>1
    <2>6. ASSUME NEW s \in ES, s # current,
                 NEW k \in 1 .. Len(openMergeStack'[s]), NEW l \in 1 .. Len(openMergeStack'[s])
          PROVE  /\ openMergeStack'[s][k] <= handlersCreated
                 /\ k # l => openMergeStack'[s][k] # openMergeStack'[s][l]
      <3>1. openMergeStack'[s] = openMergeStack[s]
        BY <1>1, <1>4, <2>6
      <3> QED
        BY <2>1, <3>1
    <2> QED
      BY <1>4, <2>4, <2>5, <2>6 DEF StacksDistinct
  <1> QED
    BY <1>11, <1>13, <1>14, <1>15, <1>16, <1>17 DEF RecordsInv

(* A state that is deleted leaves the open states of its handlers, and     *)
(* those that only it held release who waits in them.                      *)
LEMMA DeleteRecords ==
    ASSUME RecordsInv, TypeOK', NEW s \in ES, DeleteExecutionState(s),
           states' = states \ {s},
           UNCHANGED <<created, addedStates, phase, current, failed>>,
           phase = "delete"
    PROVE  RecordsInv'
  <1> DEFINE H == DestroyedByDelete(s)
  <1>1. /\ openMergeStack \in [ES -> Seq(MH)] /\ openStates \in [MH -> SUBSET ES]
        /\ reachedCloseMerge \in [MH -> [Inst -> SUBSET ES]]
        /\ pausedStates \in SUBSET ES /\ mergeGroups \subseteq MH
    BY DEF RecordsInv, TypeOK
  <1>2. /\ H \in SUBSET MH
        /\ \A h \in MH : h \in H <=> Holds(s, h) /\ \A t \in ES \ {s} : ~Holds(t, h)
    BY DEF DestroyedByDelete, LastHolder
  <1>3. /\ openStates' = [h \in MH |-> IF Holds(s, h) THEN openStates[h] \ {s} ELSE openStates[h]]
        /\ openMergeStack' = [openMergeStack EXCEPT ![s] = << >>]
        /\ mergeGroups' = mergeGroups \ H
        /\ handlersCreated' = handlersCreated
        /\ ReleaseStates(H, pausedStates, baseSearcher, inCloseMerge, reachedCloseMerge)
    BY DEF DeleteExecutionState
  <1> HIDE DEF H
  <1>4. \A t \in ES, h \in MH : Holds(t, h)' <=> t # s /\ Holds(t, h)
    <2>1. openMergeStack'[s] = << >> /\ \A t \in ES \ {s} : openMergeStack'[t] = openMergeStack[t]
      BY <1>1, <1>3
    <2>2. \A h \in MH : ~(\E k \in 1 .. Len(openMergeStack'[s]) : openMergeStack'[s][k] = h)
      BY <2>1
    <2>3. ASSUME NEW t \in ES, NEW h \in MH PROVE Holds(t, h)' <=> t # s /\ Holds(t, h)
      BY <2>1, <2>2 DEF Holds
    <2> QED
      BY <2>3
  <1>5. \A h \in MH : /\ openStates[h] = {t \in ES : Holds(t, h)}
                      /\ openStates[h] \subseteq Allocated
    BY DEF RecordsInv, OpenStatesHoldHandler
  <1>6. /\ Allocated \ {s} \subseteq Allocated' /\ Allocated' \subseteq Allocated
        /\ RecordAssertionsHold'
    BY DEF Allocated, RecordsInv, RecordAssertionsHold
  <1>7. \A h \in MH : openStates'[h] = openStates[h] \ {s}
    BY <1>3, <1>5
  <1>8. OpenStatesHoldHandler'
    <2>1. ASSUME NEW h \in MH
          PROVE  openStates'[h] = {t \in ES : Holds(t, h)'} /\ openStates'[h] \subseteq Allocated'
      BY <1>4, <1>5, <1>6, <1>7
    <2> QED
      BY <2>1 DEF OpenStatesHoldHandler
  <1>9. /\ WaitingRecordsAgree'
        /\ \A h \in MH : HasMergedStates(h)'
                           <=> h \notin H /\ \E i \in Inst : reachedCloseMerge[h][i] # {}
    <2>1. /\ pausedStates = inCloseMerge /\ pausedStates = WaitingIn(MH, reachedCloseMerge)
          /\ WaitAtOnePlace(pausedStates, reachedCloseMerge)
      BY DEF RecordsInv, WaitingRecordsAgree
    <2> DEFINE waiting == pausedStates
               reached == reachedCloseMerge
    <2>2. /\ ReleaseStates(H, waiting, baseSearcher, waiting, reached)
          /\ reached \in [MH -> [Inst -> SUBSET ES]] /\ waiting \in SUBSET ES
          /\ waiting = WaitingIn(MH, reached) /\ WaitAtOnePlace(waiting, reached)
          /\ H \in SUBSET MH
      BY <1>1, <1>2, <1>3, <2>1
    <2> HIDE DEF waiting, reached
    <2>3. WaitingRecordsAgree'
      BY <2>2, ReleaseKeepsWaiting
    <2>4. \A h \in MH, i \in Inst :
             reachedCloseMerge'[h][i] = IF h \in H THEN {} ELSE reached[h][i]
      BY <2>2 DEF ReleaseStates
    <2> QED
      BY <2>3, <2>4 DEF HasMergedStates, reached
  <1>10. NoOrphanedGroup'
    <2>1. \A h \in MH : /\ h \in mergeGroups <=> openStates[h] # {}
                        /\ (\E i \in Inst : reachedCloseMerge[h][i] # {}) => openStates[h] # {}
      BY DEF RecordsInv, NoOrphanedGroup, HasMergedStates
    <2>2. \A h \in MH : openStates[h] # {} => (h \in H <=> openStates'[h] = {})
      BY <1>2, <1>5, <1>7
    <2>3. \A h \in MH : h \in H => openStates[h] # {}
      BY <1>2, <1>5
    <2>4. ASSUME NEW h \in MH
          PROVE  /\ h \in mergeGroups' <=> openStates'[h] # {}
                 /\ HasMergedStates(h)' => openStates'[h] # {}
      BY <1>3, <1>7, <1>9, <2>1, <2>2, <2>3
    <2> QED
      BY <2>4 DEF NoOrphanedGroup
  <1>11. StatesNumbered'
    BY <1>6 DEF RecordsInv, StatesNumbered
  <1>12. StacksDistinct'
    <2>1. openMergeStack'[s] = << >> /\ \A t \in ES \ {s} : openMergeStack'[t] = openMergeStack[t]
      BY <1>1, <1>3
    <2> QED
      BY <1>3, <2>1 DEF RecordsInv, StacksDistinct
  <1> QED
    BY <1>6, <1>8, <1>9, <1>10, <1>11, <1>12 DEF RecordsInv

(* A group that is released while states are still on their way keeps its  *)
(* handler.                                                                *)
LEMMA PreemptiveRecords ==
    ASSUME RecordsInv, TypeOK', NEW h \in MH,
           ReleaseStates({h}, pausedStates, baseSearcher, inCloseMerge, reachedCloseMerge),
           UNCHANGED <<created, states, addedStates, openMergeStack, mergeGroups, handlersCreated,
                       openStates, current, failed>>,
           phase' = "selecting"
    PROVE  RecordsInv'
  <1>1. Allocated' = Allocated /\ RecordAssertionsHold'
    BY DEF Allocated, RecordsInv, RecordAssertionsHold
  <1>2. \A s \in ES, g \in MH : Holds(s, g)' <=> Holds(s, g)
    BY DEF Holds
  <1>3. OpenStatesHoldHandler'
    BY <1>1, <1>2 DEF RecordsInv, OpenStatesHoldHandler
  <1> DEFINE waiting == pausedStates
             reached == reachedCloseMerge
  <1>4. /\ ReleaseStates({h}, waiting, baseSearcher, waiting, reached)
        /\ reached \in [MH -> [Inst -> SUBSET ES]] /\ waiting \in SUBSET ES
        /\ waiting = WaitingIn(MH, reached) /\ WaitAtOnePlace(waiting, reached)
        /\ {h} \in SUBSET MH
    BY DEF RecordsInv, TypeOK, WaitingRecordsAgree
  <1> HIDE DEF waiting, reached
  <1>5. WaitingRecordsAgree'
    BY <1>4, ReleaseKeepsWaiting
  <1>6. \A g \in MH, i \in Inst :
           reachedCloseMerge'[g][i] = IF g \in {h} THEN {} ELSE reached[g][i]
    BY <1>4 DEF ReleaseStates
  <1>7. NoOrphanedGroup'
    <2>1. \A g \in MH : HasMergedStates(g)' => HasMergedStates(g)
      BY <1>6 DEF HasMergedStates, reached
    <2> QED
      BY <2>1 DEF RecordsInv, NoOrphanedGroup
  <1>8. StatesNumbered'
    BY <1>1 DEF RecordsInv, StatesNumbered
  <1>9. StacksDistinct'
    BY DEF RecordsInv, StacksDistinct
  <1> QED
    BY <1>1, <1>3, <1>5, <1>7, <1>8, <1>9 DEF RecordsInv

-----------------------------------------------------------------------------
(***************************************************************************)
(* The assertions.                                                         *)
(***************************************************************************)

(* Who waits in a handler is paused, so releasing never fails. *)
LEMMA ReleaseDoesNotFail ==
    ASSUME NEW H \in SUBSET MH, NEW waiting, NEW reached,
           WaitingIn(MH, reached) \subseteq waiting
    PROVE  ReleaseFailure(H, waiting, reached) \notin RecordAssertions
  <1>1. WaitingIn(H, reached) \subseteq WaitingIn(MH, reached)
    BY DEF WaitingIn
  <1>2. WaitingIn(H, reached) \subseteq waiting
    BY <1>1
  <1> QED
    BY <1>2 DEF ReleaseFailure, RecordAssertions, RegisteredAssert

(* A state on whose stack a handler is, is an open state of it, and the    *)
(* handler is registered.                                                  *)
LEMMA HeldIsRegistered ==
    ASSUME RecordsInv, NEW s \in ES, NEW h \in MH, Holds(s, h)
    PROVE  s \in openStates[h] /\ h \in mergeGroups
  <1>1. s \in openStates[h]
    BY DEF RecordsInv, OpenStatesHoldHandler
  <1> QED
    BY <1>1 DEF RecordsInv, NoOrphanedGroup

(* The assertions in handleCloseMerge and in what it calls, but the first. *)
LEMMA CloseDoesNotFail ==
    ASSUME RecordsInv, current \in ES, openMergeStack[current] # << >>, NEW i \in Inst
    PROVE  CloseMergeFailure(current, i) \notin RecordAssertions
  <1> DEFINE h == Top(current)
             H == DestroyedByPop(current)
             reached == ReachedAfterClose(current, i)
  <1>1. /\ openMergeStack[current] \in Seq(MH)
        /\ reachedCloseMerge \in [MH -> [Inst -> SUBSET ES]]
    BY DEF RecordsInv, TypeOK
  <1>2. h \in MH /\ Holds(current, h)
    <2>1. Len(openMergeStack[current]) \in 1 .. Len(openMergeStack[current])
      BY <1>1
    <2> QED
      BY <1>1, <2>1, PopType DEF Top, Holds
  <1>3. current \in openStates[h] /\ h \in mergeGroups
    BY <1>2, HeldIsRegistered
  <1>4. H \subseteq mergeGroups /\ H \in SUBSET MH
    BY <1>2, <1>3 DEF DestroyedByPop
  <1>5. reached = [reachedCloseMerge EXCEPT ![h] =
                      [reachedCloseMerge[h] EXCEPT ![i] = @ \cup {current}]]
    BY DEF ReachedAfterClose
  <1>6. pausedStates = inCloseMerge /\ pausedStates = WaitingIn(MH, reachedCloseMerge)
    BY DEF RecordsInv, WaitingRecordsAgree
  <1>7. CloseMergeFailure(current, i) =
          IF current \in inCloseMerge THEN ClosingAssert
          ELSE IF current \notin openStates[h] THEN "removeOpenState: not found"
          ELSE IF current \in pausedStates THEN "pauseState: already paused"
          ELSE IF current \notin baseSearcher THEN "invalid state removed"
          ELSE IF ~(H \subseteq mergeGroups) THEN RegisteredAssert
          ELSE ReleaseFailure(H, pausedStates \cup {current}, reached)
    BY DEF CloseMergeFailure
  <1> HIDE DEF h, H, reached
  <1>8. WaitingIn(MH, reached) \subseteq pausedStates \cup {current}
    <2>1. \A g \in MH, j \in Inst : reached[g][j] \subseteq reachedCloseMerge[g][j] \cup {current}
      BY <1>1, <1>2, <1>5
    <2> QED
      BY <1>6, <2>1 DEF WaitingIn
  <1>9. ReleaseFailure(H, pausedStates \cup {current}, reached) \notin RecordAssertions
    BY <1>4, <1>8, ReleaseDoesNotFail
  <1>10. ClosingAssert \notin RecordAssertions /\ "invalid state removed" \notin RecordAssertions
    BY DEF ClosingAssert, RecordAssertions, RegisteredAssert
  <1> QED
    BY <1>3, <1>4, <1>6, <1>7, <1>9, <1>10

(* The assertions in ~ExecutionState and in what it calls. *)
LEMMA DeleteDoesNotFail ==
    ASSUME RecordsInv, NEW s \in ES
    PROVE  DeleteFailure(s) \notin RecordAssertions
  <1> DEFINE H == DestroyedByDelete(s)
  <1>1. H \in SUBSET MH /\ \A h \in H : Holds(s, h)
    BY DEF DestroyedByDelete
  <1>2. DeleteFailure(s) =
          IF \E h \in MH : Holds(s, h) /\ s \notin openStates[h]
          THEN "removeOpenState: not found"
          ELSE IF ~(H \subseteq mergeGroups) THEN RegisteredAssert
          ELSE ReleaseFailure(H, pausedStates, reachedCloseMerge)
    BY DEF DeleteFailure
  <1> HIDE DEF H
  <1>3. /\ ~\E h \in MH : Holds(s, h) /\ s \notin openStates[h]
        /\ H \subseteq mergeGroups
    BY <1>1, HeldIsRegistered
  <1>4. WaitingIn(MH, reachedCloseMerge) \subseteq pausedStates
    BY DEF RecordsInv, WaitingRecordsAgree
  <1>5. ReleaseFailure(H, pausedStates, reachedCloseMerge) \notin RecordAssertions
    BY <1>1, <1>4, ReleaseDoesNotFail
  <1> QED
    BY <1>2, <1>3, <1>5

-----------------------------------------------------------------------------
(***************************************************************************)
(* Every step.                                                             *)
(***************************************************************************)

(* The invariant holds initially. *)
LEMMA InitRecords ==
    ASSUME Init
    PROVE  RecordsInv
  <1>1. TypeOK
    BY InitType
  <1>2. /\ openMergeStack = [s \in ES |-> << >>] /\ openStates = [h \in MH |-> {}]
        /\ reachedCloseMerge = [h \in MH |-> [i \in Inst |-> {}]]
        /\ pausedStates = {} /\ inCloseMerge = {} /\ mergeGroups = {}
        /\ states = {1} /\ addedStates = {} /\ created = 1 /\ phase = "select" /\ failed = "none"
    BY DEF Init, EStateInit, SearcherInit, HandlerInit
  <1>3. \A s \in ES, h \in MH : ~Holds(s, h)
    BY <1>2 DEF Holds
  <1>4. \A h \in MH, i \in Inst : reachedCloseMerge[h][i] = {}
    BY <1>2
  <1>5. OpenStatesHoldHandler
    BY <1>2, <1>3 DEF OpenStatesHoldHandler
  <1>6. WaitingRecordsAgree
    BY <1>2, <1>4 DEF WaitingRecordsAgree, WaitingIn, WaitAtOnePlace
  <1>7. NoOrphanedGroup
    BY <1>2, <1>4 DEF NoOrphanedGroup, HasMergedStates
  <1>8. StatesNumbered
    BY <1>2 DEF StatesNumbered, Allocated
  <1>9. StacksDistinct
    BY <1>2 DEF StacksDistinct
  <1>10. RecordAssertionsHold
    BY <1>2 DEF RecordAssertionsHold, RecordAssertions, RegisteredAssert
  <1> QED
    BY <1>1, <1>5, <1>6, <1>7, <1>8, <1>9, <1>10 DEF RecordsInv

(* Every step keeps the invariant. *)
LEMMA NextRecords ==
    ASSUME RecordsInv, [Next]_vars
    PROVE  RecordsInv'
  <1>1. RecordsInv /\ TypeOK'
    BY NextType DEF RecordsInv
  <1>2. ASSUME NEW why, why \notin RecordAssertions, Abort(why) PROVE RecordsInv'
    <2>1. /\ RecordAssertionsHold' /\ Allocated' = Allocated /\ phase' = "aborted"
          /\ UNCHANGED <<created, openMergeStack, openStates, mergeGroups, handlersCreated,
                         pausedStates, inCloseMerge, reachedCloseMerge>>
      BY <1>2 DEF Abort, RecordAssertionsHold, Allocated, esVars, searcherVars, handlerVars
    <2> QED
      BY <1>1, <2>1, RecordsUnchanged
  <1>3. ASSUME NEW s, Select(s) PROVE RecordsInv'
    <2>1. /\ Allocated' = Allocated
          /\ UNCHANGED <<created, openMergeStack, openStates, mergeGroups, handlersCreated,
                         pausedStates, inCloseMerge, reachedCloseMerge>>
          /\ current' = s
      BY <1>3 DEF Select, Allocated, searcherVars, handlerVars
    <2>2. /\ RecordAssertionsHold'
          /\ phase' \in {"execute", "autoOpen", "autoClose", "memory", "update"} => s \in Allocated
      BY <1>3 DEF Select, RecordsInv, RecordAssertionsHold, RecordAssertions, RegisteredAssert
    <2> QED
      BY <1>1, <2>1, <2>2, RecordsUnchanged
  <1>4. ASSUME Allocated' = Allocated, failed' = failed,
               UNCHANGED <<created, openMergeStack, openStates, mergeGroups, handlersCreated,
                           pausedStates, inCloseMerge, reachedCloseMerge>>,
               \/ phase' \in {"select", "delete", "done", "aborted"}
               \/ /\ phase \in {"execute", "autoOpen", "autoClose", "memory", "update"}
                  /\ current' = current
        PROVE  RecordsInv'
    <2>1. RecordAssertionsHold'
      BY <1>4 DEF RecordsInv, RecordAssertionsHold
    <2>2. phase' \in {"execute", "autoOpen", "autoClose", "memory", "update"}
            => current' \in Allocated
      BY <1>4, CurrentAllocated
    <2> QED
      BY <1>1, <1>4, <2>1, <2>2, RecordsUnchanged
  <1>5. ASSUME NEW next, phase \in {"execute", "autoClose"}, HandleCloseMerge(next) PROVE RecordsInv'
    <2>1. current \in Allocated /\ current \in ES /\ Executed \in Inst
      BY <1>5, CurrentAllocated DEF RecordsInv, TypeOK, Executed
    <2> DEFINE failure == CloseMergeFailure(current, Executed)
    <2>2. CASE ~ClosesRegion
      <3>1. /\ Allocated' = Allocated /\ failed' = failed /\ current' = current
            /\ UNCHANGED <<created, openMergeStack, openStates, mergeGroups, handlersCreated,
                           pausedStates, inCloseMerge, reachedCloseMerge>>
        BY <1>5, <2>2 DEF HandleCloseMerge, Allocated, esVars, searcherVars, handlerVars
      <3> QED
        BY <1>4, <1>5, <3>1
    <2>3. CASE ClosesRegion /\ failure # "none"
      <3>1. Abort(failure)
        BY <1>5, <2>3, Zenon DEF HandleCloseMerge
      <3>2. failure \notin RecordAssertions
        BY <1>1, <2>1, <2>3, CloseDoesNotFail DEF ClosesRegion
      <3> HIDE DEF failure
      <3> QED
        BY <1>2, <3>1, <3>2
    <2>4. CASE ClosesRegion /\ failure = "none"
      <3>1. /\ CloseMerge(current, Executed)
            /\ UNCHANGED <<created, states, addedStates, current, failed>>
        BY <1>5, <2>4, Zenon DEF HandleCloseMerge
      <3>2. openMergeStack[current] # << >>
        BY <2>4 DEF ClosesRegion
      <3> QED
        BY <1>1, <2>1, <2>4, <3>1, <3>2, CloseRecords
    <2> QED
      BY <2>2, <2>3, <2>4
  <1>6. CASE SelectFromEmpty
    BY <1>2, <1>6, "base searcher is empty" \notin RecordAssertions
    DEF SelectFromEmpty, RecordAssertions, RegisteredAssert
  <1>7. CASE SelectBase \/ SelectPrioritized
    BY <1>3, <1>7 DEF SelectBase, SelectPrioritized
  <1>8. CASE ReleasePreemptively
    <2>1. PICK h \in mergeGroups :
            \/ Abort(ReleaseFailure({h}, pausedStates, reachedCloseMerge))
            \/ /\ ReleaseStates({h}, pausedStates, baseSearcher, inCloseMerge, reachedCloseMerge)
               /\ phase' = "selecting"
               /\ UNCHANGED <<created, states, addedStates, openMergeStack, mergeGroups,
                              handlersCreated, openStates, current, failed>>
      BY <1>8, Zenon DEF ReleasePreemptively
    <2>2. h \in MH /\ {h} \in SUBSET MH
      BY DEF RecordsInv, TypeOK
    <2>3. WaitingIn(MH, reachedCloseMerge) \subseteq pausedStates
      BY DEF RecordsInv, WaitingRecordsAgree
    <2>4. ReleaseFailure({h}, pausedStates, reachedCloseMerge) \notin RecordAssertions
      BY <2>2, <2>3, ReleaseDoesNotFail
    <2>5. CASE Abort(ReleaseFailure({h}, pausedStates, reachedCloseMerge))
      BY <1>2, <2>4, <2>5
    <2>6. CASE ~Abort(ReleaseFailure({h}, pausedStates, reachedCloseMerge))
      BY <1>1, <2>1, <2>2, <2>6, PreemptiveRecords
    <2> QED
      BY <2>5, <2>6
  <1>9. CASE ExecutePlain \/ NoAutoOpen \/ NoAutoClose \/ UnderMemoryLimit
    BY <1>4, <1>9 DEF ExecutePlain, NoAutoOpen, NoAutoClose, UnderMemoryLimit, Executing,
                      Allocated, esVars, searcherVars, handlerVars
  <1>10. CASE ExecuteAlloc
    BY <1>4, <1>10 DEF ExecuteAlloc, Executing, Allocated, searcherVars, handlerVars
  <1>11. CASE ExecuteBranch
    <2>1. PICK choice : Fork(choice, Succ(Executed))
      BY <1>11, Zenon DEF ExecuteBranch
    <2>2. current \in Allocated
      BY <1>11, CurrentAllocated DEF ExecuteBranch, Executing
    <2>3. UNCHANGED <<states, mergeGroups, handlersCreated, pausedStates, inCloseMerge,
                      reachedCloseMerge, failed, current>>
      BY <1>11 DEF ExecuteBranch, searcherVars
    <2> QED
      BY <1>1, <2>1, <2>2, <2>3, ForkRecords
  <1>12. CASE ExecuteMemoryOperation
    <2>1. PICK choice : Fork(choice, <<NextInst(Executed), NextInst(Executed)>>)
      BY <1>12, Zenon DEF ExecuteMemoryOperation
    <2>2. current \in Allocated
      BY <1>12, CurrentAllocated DEF ExecuteMemoryOperation, Executing
    <2>3. UNCHANGED <<states, mergeGroups, handlersCreated, pausedStates, inCloseMerge,
                      reachedCloseMerge, failed, current>>
      BY <1>12 DEF ExecuteMemoryOperation, searcherVars
    <2> QED
      BY <1>1, <2>1, <2>2, <2>3, ForkRecords
  <1>13. CASE ExecuteBranchTooDeep
    BY <1>4, <1>13 DEF ExecuteBranchTooDeep, Executing, Allocated, searcherVars, handlerVars
  <1>14. CASE ExecuteExit \/ ExecuteTimedOut
    BY <1>4, <1>14 DEF ExecuteExit, ExecuteTimedOut, Executing, Allocated, searcherVars, handlerVars
  <1>15. CASE ExecuteOpenMerge \/ AutoOpen
    <2>1. HandleOpenMerge /\ phase \in {"execute", "autoOpen"}
      BY <1>15 DEF ExecuteOpenMerge, AutoOpen, Executing
    <2> QED
      BY <1>1, <2>1, CurrentAllocated, OpenRecords
  <1>16. CASE ExecuteCloseMerge \/ AutoClose
    BY <1>5, <1>16 DEF ExecuteCloseMerge, AutoClose, Executing
  <1>17. CASE KillStates
    BY <1>4, <1>17 DEF KillStates, Allocated, searcherVars, handlerVars
  <1>18. CASE UpdateStates
    <2>1. CASE Abort("invalid state removed")
      BY <1>2, <2>1, "invalid state removed" \notin RecordAssertions
      DEF RecordAssertions, RegisteredAssert
    <2>2. CASE ~Abort("invalid state removed")
      BY <1>4, <1>18, <2>2 DEF UpdateStates, SearcherUpdate, Allocated, handlerVars
    <2> QED
      BY <2>1, <2>2
  <1>19. CASE DeleteState
    <2>1. PICK s \in deleting :
            \/ Abort("use of the deleted searcher")
            \/ Abort(DeleteFailure(s))
            \/ /\ states' = states \ {s}
               /\ DeleteExecutionState(s)
               /\ UNCHANGED <<created, addedStates, phase, current, failed>>
      BY <1>19, Zenon DEF DeleteState
    <2>2. s \in ES /\ phase = "delete"
      BY <1>19 DEF RecordsInv, TypeOK, DeleteState
    <2>3. CASE Abort("use of the deleted searcher")
      BY <1>2, <2>3, "use of the deleted searcher" \notin RecordAssertions
      DEF RecordAssertions, RegisteredAssert
    <2>4. CASE Abort(DeleteFailure(s))
      BY <1>1, <1>2, <2>2, <2>4, DeleteDoesNotFail
    <2>5. CASE ~Abort("use of the deleted searcher") /\ ~Abort(DeleteFailure(s))
      BY <1>1, <2>1, <2>2, <2>5, DeleteRecords
    <2> QED
      BY <2>3, <2>4, <2>5
  <1>20. CASE DeleteThroughStaleIterator
    BY <1>2, <1>20, "use of a stale iterator" \notin RecordAssertions
    DEF DeleteThroughStaleIterator, RecordAssertions, RegisteredAssert
  <1>21. CASE EndUpdate
    BY <1>4, <1>21 DEF EndUpdate, Allocated, searcherVars, handlerVars
  <1>22. CASE Halt
    BY <1>4, <1>22 DEF Halt, Allocated, searcherVars, handlerVars
  <1>23. CASE Finish
    BY <1>4, <1>23 DEF Finish, Allocated, esVars, searcherVars, handlerVars
  <1>24. CASE UNCHANGED vars
    <2>1. /\ Allocated' = Allocated /\ RecordAssertionsHold'
          /\ UNCHANGED <<created, openMergeStack, openStates, mergeGroups, handlersCreated,
                         pausedStates, inCloseMerge, reachedCloseMerge, phase, current>>
      BY <1>24 DEF vars, esVars, searcherVars, handlerVars, loopVars, Allocated, RecordsInv,
                   RecordAssertionsHold
    <2> QED
      BY <1>1, <2>1, RecordsUnchanged, CurrentAllocated
  <1> QED
    BY <1>6, <1>7, <1>8, <1>9, <1>10, <1>11, <1>12, <1>13, <1>14, <1>15, <1>16, <1>17, <1>18,
       <1>19, <1>20, <1>21, <1>22, <1>23, <1>24 DEF Next, Iterate, Terminated

(* The inductive invariant holds in every run. *)
THEOREM RecordsInvariant == Spec => []RecordsInv
  BY InitRecords, NextRecords, PTL DEF Spec

(* The states that a handler counts as open, through addOpenState and      *)
(* removeOpenState, are in every run those that hold a reference to it.    *)
THEOREM OpenStatesCorrect == Spec => []OpenStatesHoldHandler
  <1>1. RecordsInv => OpenStatesHoldHandler
    BY DEF RecordsInv
  <1> QED
    BY <1>1, RecordsInvariant, PTL

(* pausedStates, inCloseMerge and the close points of the handlers name    *)
(* the same waiting states in every run, each at one place.                *)
THEOREM WaitingCorrect == Spec => []WaitingRecordsAgree
  <1>1. RecordsInv => WaitingRecordsAgree
    BY DEF RecordsInv
  <1> QED
    BY <1>1, RecordsInvariant, PTL

(* Nobody ever waits in a handler that no state will close or release, and *)
(* exactly the handlers that are held are registered in mergeGroups.       *)
THEOREM GroupsCorrect == Spec => []NoOrphanedGroup
  <1>1. RecordsInv => NoOrphanedGroup
    BY DEF RecordsInv
  <1> QED
    BY <1>1, RecordsInvariant, PTL

(* The assertions in removeOpenState, pauseState, continueState and        *)
(* ~MergeHandler never fail.                                               *)
THEOREM AssertionsCorrect == Spec => []RecordAssertionsHold
  <1>1. RecordsInv => RecordAssertionsHold
    BY DEF RecordsInv
  <1> QED
    BY <1>1, RecordsInvariant, PTL
=============================================================================
