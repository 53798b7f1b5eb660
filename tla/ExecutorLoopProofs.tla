------------------------- MODULE ExecutorLoopProofs -------------------------
(***************************************************************************)
(* The run loop: what a single step may do to a state that waits, to the   *)
(* inputs of a state and to a merge decision, for every program and choice *)
(* of options; and what it guarantees under regular merging.               *)
(***************************************************************************)
EXTENDS ExecutorRecordsProofs, NaturalsInduction, FiniteSetTheorems

-----------------------------------------------------------------------------
(***************************************************************************)
(* What releaseStates merges.                                              *)
(***************************************************************************)

(* got says of each state which state it has absorbed in this step, and is *)
(* NoState for those that absorbed none.                                   *)
Absorbed(got) == {t \in ES : \E s \in ES : got[s] = t}

(* States of freed absorb others: got[s] is the state that s absorbs. *)
MergedAs(got, freed) ==
    /\ got \in [ES -> ES \cup {NoState}]
    /\ \A s \in ES : got[s] = NoState => constraints'[s] = constraints[s]
    /\ \A s \in ES : got[s] # NoState =>
          /\ s \in freed /\ got[s] \in freed /\ got[s] # s /\ got[got[s]] = NoState
          /\ s \in Allocated /\ got[s] \in Allocated
          /\ constraints'[s] = constraints[s] \cup constraints[got[s]]
          /\ CanMerge(s, got[s])
          /\ mergeDecisionCache'[pc[s]] = {TRUE}
    /\ \A s, t \in ES : got[s] = got[t] /\ got[s] # NoState => s = t
    /\ pc' = [s \in ES |-> IF s \in Absorbed(got) THEN prevPC[s] ELSE pc[s]]
    /\ removedStates' = [s \in ES |-> IF s \in Absorbed(got) THEN removedStates[s] + 1
                                      ELSE removedStates[s]]

(* What a class is: some of the states of one close point, all at the same *)
(* instruction with the same objects, and no two classes overlap.          *)
LEMMA ClassesAreDisjoint ==
    ASSUME TypeOK, NEW H \in SUBSET MH,
           NEW reached \in [MH -> [Inst -> SUBSET ES]],
           WaitAtOnePlace(WaitingIn(MH, reached), reached)
    PROVE  /\ \A K \in MergeClasses(H, reached) :
                 /\ K \subseteq WaitingIn(H, reached)
                 /\ \A a, b \in K : CanMerge(a, b)
                 /\ \E h \in H, i \in Inst : K \subseteq reached[h][i]
                 /\ \E a \in K : TRUE
           /\ \A K, L \in MergeClasses(H, reached) : \A a : a \in K /\ a \in L => K = L
  <1> DEFINE Class(h, i, m) == {t \in reached[h][i] : CanMerge(m, t)}
  <1>1. ASSUME NEW K \in MergeClasses(H, reached)
        PROVE  \E h \in H, i \in Inst, m \in ES : K = Class(h, i, m) /\ \E a, b \in K : a # b
    <2>1. \E h \in H, i \in Inst, m \in WaitingIn(H, reached) : K = Class(h, i, m)
      BY DEF MergeClasses
    <2>2. WaitingIn(H, reached) \subseteq ES
      BY DEF WaitingIn
    <2>3. \E a, b \in K : a # b
      BY DEF MergeClasses
    <2> QED
      BY <2>1, <2>2, <2>3
  <1>2. ASSUME NEW K \in MergeClasses(H, reached)
        PROVE  /\ K \subseteq WaitingIn(H, reached)
               /\ \A a, b \in K : CanMerge(a, b)
               /\ \E h \in H, i \in Inst : K \subseteq reached[h][i]
               /\ \E a \in K : TRUE
    <2>1. PICK h \in H, i \in Inst, m \in ES : K = Class(h, i, m) /\ \E a, b \in K : a # b
      BY <1>1
    <2>2. K \subseteq reached[h][i] /\ reached[h][i] \subseteq ES /\ \A a \in K : CanMerge(m, a)
      BY <2>1
    <2>3. \A a, b \in K : CanMerge(a, b)
      BY <2>2 DEF CanMerge
    <2>4. K \subseteq WaitingIn(H, reached)
      BY <2>2 DEF WaitingIn
    <2> QED
      BY <2>1, <2>2, <2>3, <2>4
  <1>3. ASSUME NEW K \in MergeClasses(H, reached), NEW L \in MergeClasses(H, reached), NEW a,
               a \in K, a \in L
        PROVE  K = L
    <2>1. PICK h \in H, i \in Inst, m \in ES : K = Class(h, i, m)
      BY <1>1
    <2>2. PICK g \in H, j \in Inst, n \in ES : L = Class(g, j, n)
      BY <1>1
    <2>3. a \in reached[h][i] /\ a \in reached[g][j] /\ CanMerge(m, a) /\ CanMerge(n, a)
      BY <1>3, <2>1, <2>2
    <2>4. a \in ES /\ a \in WaitingIn(MH, reached)
      BY <2>3 DEF WaitingIn
    <2>5. h = g /\ i = j
      BY <2>3, <2>4 DEF WaitAtOnePlace
    <2>6. \A t : CanMerge(m, t) <=> CanMerge(n, t)
      BY <2>3 DEF CanMerge
    <2> QED
      BY <2>1, <2>2, <2>5, <2>6
  <1> QED
    BY <1>2, <1>3

(* The instruction at which the decision for a class is looked up is the   *)
(* one at which all its states are.                                        *)
LEMMA ClassPCIsPC ==
    ASSUME TypeOK, NEW K, NEW s \in ES, s \in K, \A a, b \in K : CanMerge(a, b)
    PROVE  ClassPC(K) = pc[s]
  <1>1. pc[s] \in Inst /\ \A a \in K : pc[a] = pc[s]
    BY DEF TypeOK, CanMerge
  <1>2. \E p \in Inst : \A a \in K : pc[a] = p
    BY <1>1
  <1>3. ClassPC(K) \in Inst /\ \A a \in K : pc[a] = ClassPC(K)
    BY <1>2, Zenon DEF ClassPC
  <1> QED
    BY <1>3

(* releaseStates merges pairs of waiting states that are allocated, each   *)
(* state with at most one other, and only where the decision says so.      *)
LEMMA ReleaseMerges ==
    ASSUME TypeOK, NEW H \in SUBSET MH, NEW waiting,
           NEW reached \in [MH -> [Inst -> SUBSET ES]],
           WaitAtOnePlace(WaitingIn(MH, reached), reached),
           ReleaseFailure(H, waiting, reached) = "none",
           DecideAndMerge(MergeClasses(H, reached), WaitingIn(H, reached))
    PROVE  \E got : /\ MergedAs(got, WaitingIn(H, reached))
                    /\ MergeClasses(H, reached) = {} => \A s \in ES : got[s] = NoState
  <1> DEFINE classes == MergeClasses(H, reached)
             freed == WaitingIn(H, reached)
             asked == {ClassPC(K) : K \in classes}
  <1>1. PICK decide \in [asked -> BOOLEAN] :
          /\ mergeDecisionCache' = [p \in Inst |-> IF p \in asked THEN {decide[p]}
                                                   ELSE mergeDecisionCache[p]]
          /\ MergeEach({K \in classes : decide[ClassPC(K)]}, freed)
    BY Zenon DEF DecideAndMerge
  <1> DEFINE merging == {K \in classes : decide[ClassPC(K)]}
  <1>2. PICK pick \in [merging -> freed \X freed] :
          LET absorbed == {pick[K][2] : K \in merging}
              AbsorbedBy(s) == {pick[K][2] : K \in {L \in merging : pick[L][1] = s}}
          IN  /\ \A K \in merging : pick[K][1] \in K /\ pick[K][2] \in K \ {pick[K][1]}
              /\ constraints' = [s \in ES |-> constraints[s] \cup
                                             UNION {constraints[t] : t \in AbsorbedBy(s)}]
              /\ pc' = [s \in ES |-> IF s \in absorbed THEN prevPC[s] ELSE pc[s]]
              /\ removedStates' = [s \in ES |-> IF s \in absorbed THEN removedStates[s] + 1
                                                ELSE removedStates[s]]
    BY <1>1, Zenon DEF MergeEach
  <1>3. freed \subseteq ES
    BY DEF WaitingIn
  <1>4. /\ \A K \in classes : /\ K \subseteq freed
                              /\ \A a, b \in K : CanMerge(a, b)
                              /\ \E h \in H, i \in Inst : K \subseteq reached[h][i]
        /\ \A K, L \in classes : \A a : a \in K /\ a \in L => K = L
    <2>1. /\ \A K \in MergeClasses(H, reached) :
                 /\ K \subseteq WaitingIn(H, reached)
                 /\ \A a, b \in K : CanMerge(a, b)
                 /\ \E h \in H, i \in Inst : K \subseteq reached[h][i]
                 /\ \E a \in K : TRUE
          /\ \A K, L \in MergeClasses(H, reached) : \A a : a \in K /\ a \in L => K = L
      BY ClassesAreDisjoint, Zenon
    <2> QED
      BY <2>1
  <1>5. ~ReadsDeleted(H, reached)
    BY DEF ReleaseFailure
  <1> DEFINE a(K) == pick[K][1]
             b(K) == pick[K][2]
             Takes(s, K) == K \in merging /\ a(K) = s
             got == [s \in ES |-> IF \E K \in merging : a(K) = s
                                  THEN b(CHOOSE K \in merging : a(K) = s) ELSE NoState]
  <1>6. \A K \in merging : /\ K \in classes /\ decide[ClassPC(K)]
                           /\ a(K) \in K /\ b(K) \in K /\ a(K) # b(K)
                           /\ a(K) \in freed /\ b(K) \in freed /\ a(K) \in ES /\ b(K) \in ES
    BY <1>2, <1>3, <1>4
  <1>7. \A K, L \in merging : a(K) \in L \/ b(K) \in L => K = L
    BY <1>4, <1>6
  <1>8. ASSUME NEW K \in merging
        PROVE  /\ a(K) \in Allocated /\ b(K) \in Allocated
               /\ CanMerge(a(K), b(K))
               /\ mergeDecisionCache'[pc[a(K)]] = {TRUE}
    <2>1. /\ K \in classes /\ a(K) \in K /\ b(K) \in K /\ a(K) # b(K) /\ a(K) \in ES
          /\ decide[ClassPC(K)]
      BY <1>6
    <2>2. CanMerge(a(K), b(K)) /\ \E h \in H, i \in Inst : a(K) \in reached[h][i] /\ b(K) \in reached[h][i]
      BY <1>4, <2>1
    <2>3. a(K) \in Allocated /\ b(K) \in Allocated
      BY <1>5, <2>1, <2>2 DEF ReadsDeleted
    <2>4. ClassPC(K) = pc[a(K)] /\ pc[a(K)] \in Inst
      <3>1. \A c, d \in K : CanMerge(c, d)
        BY <1>4, <2>1
      <3> HIDE DEF a, b, merging, classes
      <3> QED
        BY <2>1, <3>1, ClassPCIsPC DEF TypeOK
    <2>5. ClassPC(K) \in asked /\ decide[ClassPC(K)] = TRUE
      BY <1>1, <2>1
    <2> QED
      BY <1>1, <2>2, <2>3, <2>4, <2>5
  <1>9. \A K \in merging : got[a(K)] = b(K)
    <2>1. ASSUME NEW K \in merging PROVE got[a(K)] = b(K)
      <3> DEFINE L == CHOOSE L \in merging : a(L) = a(K)
      <3>1. L \in merging /\ a(L) = a(K)
        BY Zenon
      <3> HIDE DEF L
      <3>2. L = K
        BY <1>6, <1>7, <3>1
      <3>3. got[a(K)] = b(L)
        BY <1>6 DEF L
      <3> QED
        BY <3>2, <3>3
    <2> QED
      BY <2>1
  <1>10. \A s \in ES : (\A K \in merging : a(K) # s) => got[s] = NoState
    BY Zenon
  <1>11. \A K \in merging : b(K) \in ES /\ b(K) # NoState
    BY <1>6 DEF ES, NoState
  <1>12. got \in [ES -> ES \cup {NoState}] /\ \A s \in ES : got[s] # NoState => \E K \in merging : s = a(K) /\ got[s] = b(K)
    <2>1. \A s \in ES : got[s] \in ES \cup {NoState}
      BY <1>9, <1>10, <1>11
    <2> QED
      BY <1>9, <1>10, <2>1
  <1>13. Absorbed(got) = {b(K) : K \in merging}
    <2> HIDE DEF got, a, b, merging
    <2>1. \A t \in ES : (\E s \in ES : got[s] = t) => \E K \in merging : t = b(K)
      BY <1>12 DEF ES, NoState
    <2>2. \A K \in merging : b(K) \in ES /\ \E s \in ES : got[s] = b(K)
      BY <1>6, <1>9
    <2> QED
      BY <2>1, <2>2 DEF Absorbed
  <1>14. \A s \in ES : constraints'[s] = constraints[s] \cup
              UNION {constraints[t] : t \in {b(K) : K \in {L \in merging : a(L) = s}}}
    BY <1>2
  <1>15. /\ pc' = [s \in ES |-> IF s \in {b(K) : K \in merging} THEN prevPC[s] ELSE pc[s]]
         /\ removedStates' = [s \in ES |-> IF s \in {b(K) : K \in merging} THEN removedStates[s] + 1
                                                ELSE removedStates[s]]
    BY <1>2
  <1>16. classes = {} => \A s \in ES : got[s] = NoState
    BY <1>10
  <1> HIDE DEF got, a, b, merging, classes, freed
  <1>17. ASSUME NEW s \in ES, got[s] = NoState PROVE constraints'[s] = constraints[s]
    <2>1. \A K \in merging : a(K) # s
      BY <1>9, <1>11, <1>17
    <2>2. {b(K) : K \in {L \in merging : a(L) = s}} = {}
      BY <2>1
    <2>3. UNION {constraints[t] : t \in {b(K) : K \in {L \in merging : a(L) = s}}} = {}
      BY <2>2
    <2> QED
      BY <1>14, <2>3
  <1>18. ASSUME NEW s \in ES, got[s] # NoState
         PROVE  /\ s \in freed /\ got[s] \in freed /\ got[s] # s /\ got[got[s]] = NoState
                /\ s \in Allocated /\ got[s] \in Allocated
                /\ constraints'[s] = constraints[s] \cup constraints[got[s]]
                /\ CanMerge(s, got[s])
                /\ mergeDecisionCache'[pc[s]] = {TRUE}
    <2>1. PICK K \in merging : s = a(K) /\ got[s] = b(K)
      BY <1>12, <1>18
    <2>2. \A L \in merging : a(L) = s => L = K
      BY <1>6, <1>7, <2>1
    <2>3. {b(M) : M \in {L \in merging : a(L) = s}} = {got[s]}
      BY <2>1, <2>2
    <2>4. constraints'[s] = constraints[s] \cup constraints[got[s]]
      <3>1. UNION {constraints[t] : t \in {got[s]}} = constraints[got[s]]
        OBVIOUS
      <3> QED
        BY <1>14, <2>3, <3>1
    <2>5. \A L \in merging : a(L) # b(K)
      BY <1>6, <1>7
    <2>6. got[b(K)] = NoState
      BY <1>6, <1>10, <2>5
    <2> QED
      BY <1>6, <1>8, <2>1, <2>4, <2>6
  <1>19. ASSUME NEW s \in ES, NEW t \in ES, got[s] = got[t], got[s] # NoState PROVE s = t
    <2>1. PICK K \in merging : s = a(K) /\ got[s] = b(K)
      BY <1>12, <1>19
    <2>2. PICK L \in merging : t = a(L) /\ got[t] = b(L)
      BY <1>12, <1>19
    <2> QED
      BY <1>6, <1>7, <1>19, <2>1, <2>2
  <1>20. MergedAs(got, freed)
    BY <1>12, <1>13, <1>15, <1>17, <1>18, <1>19 DEF MergedAs
  <1> QED
    BY <1>16, <1>20 DEF classes, freed


(* A decision that is cached is not taken again. *)
LEMMA DecisionsStay ==
    ASSUME TypeOK, DecidedOnce, NEW classes, NEW freed, DecideAndMerge(classes, freed)
    PROVE  /\ \A i \in Inst : mergeDecisionCache[i] # {} =>
                                  mergeDecisionCache'[i] = mergeDecisionCache[i]
           /\ DecidedOnce'
  <1> DEFINE asked == {ClassPC(K) : K \in classes}
  <1>1. PICK decide \in [asked -> BOOLEAN] :
          /\ \A p \in asked : decide[p] \in IF mergeDecisionCache[p] = {} THEN MergeOrNot
                                            ELSE mergeDecisionCache[p]
          /\ mergeDecisionCache' = [p \in Inst |-> IF p \in asked THEN {decide[p]}
                                                   ELSE mergeDecisionCache[p]]
    BY Zenon DEF DecideAndMerge
  <1> HIDE DEF asked
  <1>2. \A i \in Inst : mergeDecisionCache'[i] = IF i \in asked THEN {decide[i]}
                                                 ELSE mergeDecisionCache[i]
    BY <1>1
  <1>3. ASSUME NEW i \in Inst, mergeDecisionCache[i] # {}
        PROVE  mergeDecisionCache'[i] = mergeDecisionCache[i]
    <2>1. i \in asked => decide[i] \in mergeDecisionCache[i]
      BY <1>1, <1>3
    <2>2. i \in asked => mergeDecisionCache[i] = {decide[i]}
      BY <2>1 DEF DecidedOnce
    <2> QED
      BY <1>2, <2>2
  <1>4. DecidedOnce'
    BY <1>2 DEF DecidedOnce
  <1> QED
    BY <1>3, <1>4

-----------------------------------------------------------------------------
(***************************************************************************)
(* The steps.                                                              *)
(***************************************************************************)

(* The three properties of a step. *)
StepsOK == FrozenStep /\ AbsorbStep /\ DecisionStep

(* A step that merges nothing. *)
LEMMA QuietStep ==
    ASSUME UNCHANGED <<constraints, mergeDecisionCache>>,
           \A s \in pausedStates \cap pausedStates' : removedStates'[s] = 0 =>
               /\ pc'[s] = pc[s] /\ objects'[s] = objects[s]
               /\ openMergeStack'[s] = openMergeStack[s]
    PROVE  StepsOK
  BY DEF StepsOK, FrozenStep, AbsorbStep, DecisionStep

(* releaseStates leaves alone who is not released, and merges by the       *)
(* rules.                                                                  *)
LEMMA ReleaseStep ==
    ASSUME TypeOK, DecidedOnce, NEW H \in SUBSET MH, NEW waiting, NEW runnable, NEW closing,
           NEW reached \in [MH -> [Inst -> SUBSET ES]],
           WaitAtOnePlace(WaitingIn(MH, reached), reached),
           ReleaseFailure(H, waiting, reached) = "none",
           ReleaseStates(H, waiting, runnable, closing, reached),
           objects' = objects,
           \A s \in pausedStates \cap pausedStates' :
               removedStates'[s] = 0 => openMergeStack'[s] = openMergeStack[s]
    PROVE  StepsOK /\ DecidedOnce'
  <1> DEFINE freed == WaitingIn(H, reached)
  <1>1. pausedStates' = waiting \ freed /\ DecideAndMerge(MergeClasses(H, reached), freed)
    BY DEF ReleaseStates
  <1>2. PICK got : MergedAs(got, freed)
    BY <1>1, ReleaseMerges
  <1>3. /\ DecidedOnce'
        /\ \A i \in Inst : mergeDecisionCache[i] # {} =>
                              mergeDecisionCache'[i] = mergeDecisionCache[i]
    BY <1>1, DecisionsStay
  <1> HIDE DEF freed
  <1>4. FrozenStep
    <2>1. ASSUME NEW s \in ES, s \notin freed
          PROVE  pc'[s] = pc[s] /\ constraints'[s] = constraints[s]
      <3>1. s # NoState
        BY DEF ES, NoState
      <3>2. \A u \in ES : got[u] # NoState => u \in freed /\ got[u] \in freed
        BY <1>2 DEF MergedAs
      <3>3. got[s] = NoState /\ s \notin Absorbed(got)
        BY <2>1, <3>1, <3>2 DEF Absorbed
      <3> QED
        BY <1>2, <3>3 DEF MergedAs
    <2>2. pausedStates \subseteq ES
      BY DEF TypeOK
    <2> QED
      BY <1>1, <2>1, <2>2 DEF FrozenStep
  <1>5. Allocated \subseteq ES
    BY DEF TypeOK, Allocated
  <1>6. AbsorbStep
    <2>1. ASSUME NEW s \in ES, got[s] # NoState
          PROVE  /\ got[s] \in Allocated \ {s}
                 /\ constraints'[s] = constraints[s] \cup constraints[got[s]]
                 /\ pc[got[s]] = pc[s] /\ objects[got[s]] = objects[s]
                 /\ removedStates'[got[s]] > removedStates[got[s]]
      <3>1. got[s] \in Absorbed(got)
        BY <1>2, <2>1 DEF MergedAs, Absorbed
      <3>2. got[s] \in ES
        BY <1>2, <2>1 DEF MergedAs
      <3>3. removedStates'[got[s]] = removedStates[got[s]] + 1
        BY <1>2, <3>1, <3>2 DEF MergedAs
      <3>4. removedStates[got[s]] \in Nat
        BY <3>2 DEF TypeOK
      <3> QED
        <4>1. /\ got[s] # s /\ got[s] \in Allocated
              /\ constraints'[s] = constraints[s] \cup constraints[got[s]]
              /\ CanMerge(s, got[s])
          BY <1>2, <2>1 DEF MergedAs
        <4> QED
          BY <3>3, <3>4, <4>1 DEF CanMerge
    <2>2. \A s \in ES : got[s] = NoState => constraints'[s] = constraints[s]
      BY <1>2 DEF MergedAs
    <2> QED
      BY <1>5, <2>1, <2>2 DEF AbsorbStep
  <1>7. \A s \in Allocated : ~(constraints'[s] \subseteq constraints[s]) =>
                                mergeDecisionCache'[pc[s]] = {TRUE}
    BY <1>2, <1>5 DEF MergedAs
  <1> QED
    BY <1>3, <1>4, <1>6, <1>7 DEF StepsOK, DecisionStep

(* What a fork makes of the current state and of the copies. *)
ForkedAs(choice, targets, copies, takes) ==
    /\ copies \subseteq ES /\ copies \cap Allocated = {} /\ copies \cap 1 .. created = {}
    /\ current \notin copies
    /\ created' \in ES /\ created <= created' /\ copies = (created + 1) .. created'
    /\ addedStates' = addedStates \cup copies
    /\ takes \in [copies \cup {current} -> {k \in 1 .. Len(targets) :
                                               \E x \in constraints[current] : choice[x] = k}]
    /\ \A s, t \in copies \cup {current} : s < t => takes[s] < takes[t]
    /\ Cardinality({k \in 1 .. Len(targets) : \E x \in constraints[current] : choice[x] = k})
         = created' - created + 1
    /\ \A s \in ES : constraints'[s] = IF s \in copies \cup {current}
                                       THEN {x \in constraints[current] : choice[x] = takes[s]}
                                       ELSE constraints[s]
    /\ \A s \in ES : /\ s \notin copies \cup {current} => pc'[s] = pc[s]
                     /\ objects'[s] = IF s \in copies THEN objects[current] ELSE objects[s]
                     /\ openMergeStack'[s] = IF s \in copies THEN openMergeStack[current]
                                             ELSE openMergeStack[s]
                     /\ prevPC'[s] = IF s \in copies THEN prevPC[current] ELSE prevPC[s]

(* What Fork does, the copies named. *)
LEMMA ForkEffect ==
    ASSUME RecordsInv, current \in Allocated, NEW choice, NEW targets, Fork(choice, targets)
    PROVE  \E copies, takes : ForkedAs(choice, targets, copies, takes)
  <1> DEFINE feasible == {k \in 1 .. Len(targets) : \E x \in constraints[current] : choice[x] = k}
  <1>1. PICK last \in created .. MaxStates :
             LET copies == (created + 1) .. last
             IN  /\ Cardinality(feasible) = last - created + 1
                 /\ \E takes \in [copies \cup {current} -> feasible] :
                      /\ \A s, t \in copies \cup {current} : s < t => takes[s] < takes[t]
                      /\ constraints' = [s \in ES |->
                            IF s \in copies \cup {current}
                            THEN {x \in constraints[current] : choice[x] = takes[s]}
                            ELSE constraints[s]]
                      /\ pc' = [s \in ES |-> IF s \in copies \cup {current}
                                             THEN targets[takes[s]] ELSE pc[s]]
                 /\ created' = last
                 /\ addedStates' = addedStates \cup copies
                 /\ prevPC' = [s \in ES |-> IF s \in copies THEN prevPC[current] ELSE prevPC[s]]
                 /\ objects' = [s \in ES |-> IF s \in copies THEN objects[current] ELSE objects[s]]
                 /\ openMergeStack' = [s \in ES |-> IF s \in copies THEN openMergeStack[current]
                                                    ELSE openMergeStack[s]]
    BY Zenon DEF Fork
  <1> DEFINE copies == (created + 1) .. last
  <1>2. created \in ES /\ Allocated \subseteq 1 .. created
    BY DEF RecordsInv, TypeOK, StatesNumbered
  <1>3. /\ copies \subseteq ES /\ copies \cap Allocated = {} /\ current \notin copies
        /\ copies \cap 1 .. created = {} /\ last \in ES /\ created <= last
    BY <1>2, BoundsAssumption DEF BoundsAssumption, ES
  <1> HIDE DEF feasible
  <1>4. PICK takes \in [copies \cup {current} -> feasible] :
            /\ \A s, t \in copies \cup {current} : s < t => takes[s] < takes[t]
            /\ constraints' = [s \in ES |->
                  IF s \in copies \cup {current}
                  THEN {x \in constraints[current] : choice[x] = takes[s]}
                  ELSE constraints[s]]
            /\ pc' = [s \in ES |-> IF s \in copies \cup {current}
                                   THEN targets[takes[s]] ELSE pc[s]]
    BY <1>1, Zenon
  <1>5. /\ Cardinality(feasible) = last - created + 1
        /\ created' = last
        /\ copies = (created + 1) .. created'
        /\ addedStates' = addedStates \cup copies
        /\ prevPC' = [s \in ES |-> IF s \in copies THEN prevPC[current] ELSE prevPC[s]]
        /\ objects' = [s \in ES |-> IF s \in copies THEN objects[current] ELSE objects[s]]
        /\ openMergeStack' = [s \in ES |-> IF s \in copies THEN openMergeStack[current]
                                           ELSE openMergeStack[s]]
    BY <1>1
  <1> HIDE DEF copies
  <1>6. ForkedAs(choice, targets, copies, takes)
    BY <1>3, <1>4, <1>5 DEF ForkedAs, feasible
  <1> QED
    BY <1>6


(* Where states wait once the current state has reached the close point of *)
(* its top region.                                                         *)
LEMMA ClosePlaces ==
    ASSUME RecordsInv, current \in ES, openMergeStack[current] # << >>, NEW i \in Inst,
           current \notin pausedStates
    PROVE  /\ Top(current) \in MH /\ DestroyedByPop(current) \in SUBSET MH
           /\ ReachedAfterClose(current, i) \in [MH -> [Inst -> SUBSET ES]]
           /\ \A g \in MH, j \in Inst :
                 ReachedAfterClose(current, i)[g][j] =
                    IF g = Top(current) /\ j = i THEN reachedCloseMerge[g][j] \cup {current}
                    ELSE reachedCloseMerge[g][j]
           /\ WaitingIn(MH, ReachedAfterClose(current, i)) = pausedStates \cup {current}
           /\ WaitAtOnePlace(WaitingIn(MH, ReachedAfterClose(current, i)),
                             ReachedAfterClose(current, i))
  <1> DEFINE h == Top(current)
             reached == ReachedAfterClose(current, i)
             waiting == pausedStates \cup {current}
  <1>1. /\ openMergeStack[current] \in Seq(MH)
        /\ reachedCloseMerge \in [MH -> [Inst -> SUBSET ES]]
        /\ pausedStates \subseteq ES
    BY DEF RecordsInv, TypeOK
  <1>2. h \in MH /\ DestroyedByPop(current) \in SUBSET MH
    BY <1>1, PopType DEF Top, DestroyedByPop
  <1>3. reached = [reachedCloseMerge EXCEPT ![h] =
                      [reachedCloseMerge[h] EXCEPT ![i] = @ \cup {current}]]
    BY DEF ReachedAfterClose
  <1> HIDE DEF h, reached
  <1>4. \A g \in MH, j \in Inst : reached[g][j] = IF g = h /\ j = i
                                                  THEN reachedCloseMerge[g][j] \cup {current}
                                                  ELSE reachedCloseMerge[g][j]
    BY <1>1, <1>2, <1>3
  <1>5. reached \in [MH -> [Inst -> SUBSET ES]]
    BY <1>1, <1>2, <1>3
  <1>6. /\ \A s \in ES : s \in pausedStates
                             <=> \E g \in MH, j \in Inst : s \in reachedCloseMerge[g][j]
        /\ WaitAtOnePlace(pausedStates, reachedCloseMerge)
    BY DEF RecordsInv, WaitingRecordsAgree, WaitingIn
  <1>7. \A s, g, j : g \in MH /\ j \in Inst =>
             (s \in reached[g][j] <=> s \in reachedCloseMerge[g][j] \/ (s = current /\ g = h /\ j = i))
    BY <1>4
  <1>8. \A s \in ES : s \in waiting <=> \E g \in MH, j \in Inst : s \in reached[g][j]
    <2>1. current \in waiting /\ \A s \in ES : s # current => (s \in waiting <=> s \in pausedStates)
      OBVIOUS
    <2>2. current \in reached[h][i]
      BY <1>2, <1>7
    <2> QED
      BY <1>2, <1>6, <1>7, <2>1, <2>2
  <1>9. waiting = WaitingIn(MH, reached)
    BY <1>1, <1>8 DEF WaitingIn
  <1>10. WaitAtOnePlace(waiting, reached)
    <2>1. \A g \in MH, j \in Inst : current \notin reachedCloseMerge[g][j]
      BY <1>6
    <2> QED
      BY <1>6, <1>7, <2>1 DEF WaitAtOnePlace
  <1>11. WaitAtOnePlace(WaitingIn(MH, reached), reached)
    BY <1>9, <1>10
  <1> QED
    BY <1>2, <1>4, <1>5, <1>9, <1>11 DEF h, reached

(* What closing without a failure says of the current state. *)
LEMMA CloseSucceeds ==
    ASSUME RecordsInv, NEW i \in Inst, CloseMergeFailure(current, i) = "none"
    PROVE  /\ current \notin inCloseMerge /\ current \notin pausedStates /\ current \in baseSearcher
           /\ ReleaseFailure(DestroyedByPop(current), pausedStates \cup {current},
                             ReachedAfterClose(current, i)) = "none"
  <1>1. ClosingAssert # "none" /\ RegisteredAssert # "none"
    BY DEF ClosingAssert, RegisteredAssert
  <1> QED
    BY <1>1 DEF CloseMergeFailure

(* A step that leaves the searcher and the new states alone. *)
LEMMA ApartUnchanged ==
    ASSUME WaitingApart, UNCHANGED <<baseSearcher, addedStates, pausedStates, created>>,
           phase' \in {"select", "selecting", "execute", "delete"} => addedStates = {},
           phase' \in {"execute", "autoOpen", "autoClose", "memory", "update"}
             => current' \notin addedStates,
           phase' = "execute" => current' \notin pausedStates,
           phase' = "autoOpen" => current' \notin pausedStates \/ ~IsBranching(Executed')
    PROVE  WaitingApart'
  BY DEF WaitingApart, IsBranching, Executed

(* A fork changes the current state only, and adds states nobody knew. *)
LEMMA ForkStep ==
    ASSUME StepInv, RecordsInv', phase = "execute", phase' = "autoOpen", current' = current,
           NEW choice, NEW targets, Fork(choice, targets),
           UNCHANGED <<removedStates, baseSearcher, pausedStates, mergeDecisionCache, deleting>>
    PROVE  StepInv' /\ StepsOK
  <1>1. /\ RecordsInv /\ WaitingApart /\ current \in Allocated /\ current \in ES
        /\ current \notin pausedStates /\ current \notin addedStates
        /\ pausedStates \subseteq ES /\ Allocated \subseteq ES
    BY CurrentAllocated DEF StepInv, RecordsInv, WaitingApart, TypeOK, Allocated
  <1>2. PICK copies, takes : ForkedAs(choice, targets, copies, takes)
    BY <1>1, ForkEffect
  <1>3. /\ copies \cap Allocated = {} /\ copies \cap 1 .. created = {} /\ current \notin copies
        /\ created' \in Nat /\ created \in Nat /\ created <= created'
        /\ addedStates' = addedStates \cup copies
    BY <1>1, <1>2 DEF ForkedAs, RecordsInv, TypeOK, ES
  <1>4. pausedStates \subseteq 1 .. created /\ pausedStates \cap copies = {}
    BY <1>1, <1>3 DEF WaitingApart
  <1>5. FrozenStep
    <2>1. \A s \in pausedStates : s \in ES /\ s \notin copies \cup {current}
      BY <1>1, <1>4
    <2> QED
      BY <1>2, <2>1 DEF ForkedAs, FrozenStep
  <1>6. \A s \in Allocated : constraints'[s] \subseteq constraints[s]
    <2>1. \A s \in Allocated : s \in ES /\ s \notin copies
      BY <1>1, <1>3
    <2> QED
      BY <1>2, <2>1 DEF ForkedAs
  <1>7. StepsOK
    BY <1>5, <1>6 DEF StepsOK, AbsorbStep, DecisionStep
  <1>8. WaitingApart'
    BY <1>1, <1>3, <1>4 DEF WaitingApart
  <1> QED
    BY <1>7, <1>8 DEF StepInv, DeletedAreTerminated, DecidedOnce

(* A state that closes its region waits, or is released with all others. *)
LEMMA CloseStep ==
    ASSUME StepInv, RecordsInv', NEW next \in {"autoOpen", "memory"},
           \/ phase = "execute" /\ Op(Executed) = "close"
           \/ phase = "autoClose" /\ next = "memory",
           ClosesRegion, CloseMergeFailure(current, Executed) = "none",
           CloseMerge(current, Executed), phase' = next,
           UNCHANGED <<created, states, addedStates, prevPC, objects, current, deleting>>
    PROVE  StepInv' /\ StepsOK
  <1> DEFINE i == Executed
             H == DestroyedByPop(current)
             reached == ReachedAfterClose(current, i)
             freed == WaitingIn(H, reached)
             waiting == pausedStates \cup {current}
  <1>1. /\ RecordsInv /\ TypeOK /\ WaitingApart /\ DecidedOnce /\ DeletedAreTerminated
        /\ current \in Allocated /\ current \in ES
        /\ i \in Inst /\ openMergeStack[current] # << >>
        /\ current \notin addedStates
    BY CurrentAllocated DEF StepInv, RecordsInv, WaitingApart, TypeOK, Executed, ClosesRegion
  <1>2. /\ current \notin pausedStates /\ pausedStates = inCloseMerge
        /\ ReleaseFailure(H, waiting, reached) = "none"
    BY <1>1, CloseSucceeds DEF RecordsInv, WaitingRecordsAgree
  <1>3. /\ H \in SUBSET MH /\ reached \in [MH -> [Inst -> SUBSET ES]]
        /\ WaitingIn(MH, reached) = waiting
        /\ WaitAtOnePlace(WaitingIn(MH, reached), reached)
    BY <1>1, <1>2, ClosePlaces
  <1>4. /\ ReleaseStates(H, waiting, baseSearcher \ {current}, inCloseMerge \cup {current}, reached)
        /\ openMergeStack' = [openMergeStack EXCEPT ![current] = SubSeq(@, 1, Len(@) - 1)]
    BY DEF CloseMerge
  <1> HIDE DEF H, reached, i
  <1>5. \A s \in pausedStates : openMergeStack'[s] = openMergeStack[s]
    BY <1>1, <1>2, <1>4 DEF TypeOK
  <1>6. /\ pausedStates' = waiting \ freed
        /\ baseSearcher' = (baseSearcher \ {current}) \cup freed
        /\ DecideAndMerge(MergeClasses(H, reached), freed)
    BY <1>4 DEF ReleaseStates
  <1>7. StepsOK /\ DecidedOnce'
    <2> DEFINE runnable == baseSearcher \ {current}
               closing == inCloseMerge \cup {current}
    <2>1. ReleaseStates(H, waiting, runnable, closing, reached)
      BY <1>4
    <2> HIDE DEF runnable, closing, waiting
    <2> QED
      BY <1>1, <1>2, <1>3, <1>5, <2>1, ReleaseStep
  <1>8. DeletedAreTerminated'
    <2>1. PICK got : MergedAs(got, freed)
      BY <1>1, <1>2, <1>3, <1>6, ReleaseMerges
    <2>2. \A s \in ES : /\ removedStates[s] \in Nat
                        /\ removedStates'[s] \in {removedStates[s], removedStates[s] + 1}
      BY <1>1, <2>1 DEF MergedAs, TypeOK
    <2>3. deleting \subseteq ES
      BY <1>1 DEF TypeOK
    <2> QED
      BY <1>1, <2>2, <2>3 DEF DeletedAreTerminated
  <1>9. WaitingApart'
    <2>1. Allocated \subseteq 1 .. created
      BY <1>1 DEF RecordsInv, StatesNumbered
    <2>2. phase' = "autoOpen" => ~IsBranching(Executed')
      BY DEF IsBranching, Executed
    <2>3. freed \subseteq waiting
      BY <1>3 DEF WaitingIn
    <2> HIDE DEF freed
    <2> QED
      BY <1>1, <1>6, <2>1, <2>2, <2>3 DEF WaitingApart
  <1> QED
    BY <1>7, <1>8, <1>9 DEF StepInv


(* A state that is deleted, and a handler that dies with it. *)
LEMMA DeleteStep ==
    ASSUME StepInv, RecordsInv', phase = "delete", NEW s \in deleting,
           DeleteFailure(s) = "none", DeleteExecutionState(s), deleting' = deleting \ {s},
           UNCHANGED <<created, addedStates, prevPC, objects, phase, current>>
    PROVE  StepInv' /\ StepsOK
  <1> DEFINE H == DestroyedByDelete(s)
             reached == reachedCloseMerge
             waiting == pausedStates
             closing == inCloseMerge
             runnable == baseSearcher
             freed == WaitingIn(H, reached)
  <1>1. /\ RecordsInv /\ TypeOK /\ WaitingApart /\ DecidedOnce /\ DeletedAreTerminated
        /\ reached \in [MH -> [Inst -> SUBSET ES]] /\ deleting \subseteq ES
        /\ openMergeStack \in [ES -> Seq(MH)] /\ pausedStates \subseteq ES
        /\ waiting = WaitingIn(MH, reached) /\ WaitAtOnePlace(waiting, reached)
    BY DEF StepInv, RecordsInv, TypeOK, WaitingRecordsAgree
  <1>2. H \in SUBSET MH
    BY DEF DestroyedByDelete
  <1>3. ReleaseFailure(H, waiting, reached) = "none"
    BY DEF DeleteFailure, RegisteredAssert
  <1>4. /\ ReleaseStates(H, waiting, runnable, closing, reached)
        /\ openMergeStack' = [openMergeStack EXCEPT ![s] = << >>]
    BY DEF DeleteExecutionState
  <1>5. /\ pausedStates' = waiting \ freed
        /\ baseSearcher' = baseSearcher \cup freed
        /\ DecideAndMerge(MergeClasses(H, reached), freed)
    BY <1>4 DEF ReleaseStates
  <1>6. \A t \in ES : /\ removedStates[t] \in Nat
                      /\ removedStates'[t] \in {removedStates[t], removedStates[t] + 1}
    <2> HIDE DEF H, reached, waiting, closing, runnable
    <2>1. WaitAtOnePlace(WaitingIn(MH, reached), reached)
      BY <1>1
    <2>2. PICK got : MergedAs(got, freed)
      BY <1>1, <1>2, <1>3, <1>5, <2>1, ReleaseMerges
    <2> QED
      BY <1>1, <2>2 DEF MergedAs, TypeOK
  <1>7. \A t \in pausedStates \cap pausedStates' :
           removedStates'[t] = 0 => openMergeStack'[t] = openMergeStack[t]
    <2>1. removedStates'[s] # 0
      BY <1>1, <1>6 DEF DeletedAreTerminated
    <2> QED
      BY <1>1, <1>4, <2>1
  <1>8. StepsOK /\ DecidedOnce'
    <2> HIDE DEF H, reached, waiting, closing, runnable
    <2>1. WaitAtOnePlace(WaitingIn(MH, reached), reached)
      BY <1>1
    <2> QED
      BY <1>1, <1>2, <1>3, <1>4, <1>7, <2>1, ReleaseStep
  <1>9. DeletedAreTerminated'
    BY <1>1, <1>6 DEF DeletedAreTerminated
  <1>10. WaitingApart'
    <2> HIDE DEF freed
    <2>1. addedStates' = addedStates /\ created' = created /\ phase' = "delete"
      OBVIOUS
    <2> QED
      BY <1>1, <1>5, <2>1 DEF WaitingApart, waiting
  <1> QED
    BY <1>8, <1>9, <1>10 DEF StepInv

(* A group that is released before all have closed. *)
LEMMA PreemptiveStep ==
    ASSUME StepInv, RecordsInv', phase \in {"select", "selecting"}, NEW h \in MH,
           ReleaseFailure({h}, pausedStates, reachedCloseMerge) = "none",
           ReleaseStates({h}, pausedStates, baseSearcher, inCloseMerge, reachedCloseMerge),
           phase' = "selecting",
           UNCHANGED <<created, addedStates, prevPC, openMergeStack, objects, deleting>>
    PROVE  StepInv' /\ StepsOK
  <1> DEFINE H == {h}
             reached == reachedCloseMerge
             waiting == pausedStates
             closing == inCloseMerge
             runnable == baseSearcher
             freed == WaitingIn(H, reached)
  <1>1. /\ RecordsInv /\ TypeOK /\ WaitingApart /\ DecidedOnce /\ DeletedAreTerminated
        /\ reached \in [MH -> [Inst -> SUBSET ES]] /\ deleting \subseteq ES
        /\ pausedStates \subseteq ES
        /\ waiting = WaitingIn(MH, reached) /\ WaitAtOnePlace(waiting, reached)
    BY DEF StepInv, RecordsInv, TypeOK, WaitingRecordsAgree
  <1>2. /\ H \in SUBSET MH /\ ReleaseFailure(H, waiting, reached) = "none"
        /\ ReleaseStates(H, waiting, runnable, closing, reached)
    OBVIOUS
  <1>3. /\ pausedStates' = waiting \ freed
        /\ baseSearcher' = baseSearcher \cup freed
        /\ DecideAndMerge(MergeClasses(H, reached), freed)
    BY <1>2 DEF ReleaseStates
  <1>4. \A t \in pausedStates \cap pausedStates' :
           removedStates'[t] = 0 => openMergeStack'[t] = openMergeStack[t]
    OBVIOUS
  <1>5. WaitingApart'
    <2> HIDE DEF freed
    <2> QED
      BY <1>1, <1>3 DEF WaitingApart, waiting
  <1> HIDE DEF H, reached, waiting, closing, runnable
  <1>6. WaitAtOnePlace(WaitingIn(MH, reached), reached)
    BY <1>1
  <1>7. PICK got : MergedAs(got, freed)
    BY <1>1, <1>2, <1>3, <1>6, ReleaseMerges
  <1>8. \A t \in ES : /\ removedStates[t] \in Nat
                      /\ removedStates'[t] \in {removedStates[t], removedStates[t] + 1}
    BY <1>1, <1>7 DEF MergedAs, TypeOK
  <1>9. StepsOK /\ DecidedOnce'
    BY <1>1, <1>2, <1>4, <1>6, ReleaseStep
  <1>10. DeletedAreTerminated'
    BY <1>1, <1>8 DEF DeletedAreTerminated
  <1> QED
    BY <1>5, <1>9, <1>10 DEF StepInv


(* A step that neither merges, pauses, forks nor updates the searcher. *)
LEMMA QuietKeeps ==
    ASSUME StepInv, RecordsInv',
           UNCHANGED <<constraints, mergeDecisionCache, baseSearcher, addedStates, pausedStates,
                       created>>,
           \A s \in pausedStates : removedStates'[s] = 0 =>
               /\ pc'[s] = pc[s] /\ objects'[s] = objects[s]
               /\ openMergeStack'[s] = openMergeStack[s],
           \A s \in deleting' : removedStates'[s] > 0,
           phase' \in {"select", "selecting", "execute", "delete"} => addedStates = {},
           phase' \in {"execute", "autoOpen", "autoClose", "memory", "update"}
             => current' \notin addedStates,
           phase' = "execute" => current' \notin pausedStates,
           phase' = "autoOpen" => current' \notin pausedStates \/ ~IsBranching(Executed')
    PROVE  StepInv' /\ StepsOK
  <1>1. StepsOK
    BY QuietStep
  <1>2. WaitingApart'
    BY ApartUnchanged DEF StepInv
  <1> QED
    BY <1>1, <1>2 DEF StepInv, DeletedAreTerminated, DecidedOnce

(* Every step keeps the invariant and has the three properties. *)
LEMMA NextStep ==
    ASSUME StepInv, [Next]_vars
    PROVE  StepInv' /\ StepsOK
  <1>1. RecordsInv /\ RecordsInv' /\ TypeOK /\ TypeOK' /\ WaitingApart /\ DeletedAreTerminated
    BY NextRecords DEF StepInv, RecordsInv
  <1>2. /\ pausedStates \subseteq ES /\ pausedStates = inCloseMerge
        /\ phase \in {"execute", "autoOpen", "autoClose", "memory", "update"}
             => current \notin addedStates /\ current \in ES
    BY <1>1 DEF TypeOK, WaitingApart, RecordsInv, WaitingRecordsAgree
  <1>3. ASSUME NEW why, Abort(why) PROVE StepInv' /\ StepsOK
    BY <1>1, <1>3, QuietKeeps DEF Abort, esVars, searcherVars, handlerVars, DeletedAreTerminated
  <1>4. ASSUME NEW s \in ES, s \notin pausedStates, phase \in {"select", "selecting"}, Select(s)
        PROVE  StepInv' /\ StepsOK
    <2>1. /\ UNCHANGED <<constraints, mergeDecisionCache, baseSearcher, addedStates, pausedStates,
                         created, objects, openMergeStack, removedStates, deleting>>
          /\ current' = s /\ phase' \in {"execute", "aborted"}
          /\ pc' = pc \/ pc' = [pc EXCEPT ![s] = NextInst(pc[s])]
      BY <1>4 DEF Select, searcherVars, handlerVars, StepInstruction
    <2>2. \A t \in pausedStates : pc'[t] = pc[t]
      BY <1>1, <1>2, <1>4, <2>1 DEF TypeOK
    <2>3. addedStates = {}
      BY <1>1, <1>4 DEF WaitingApart
    <2> QED
      BY <1>1, <1>4, <2>1, <2>2, <2>3, QuietKeeps DEF DeletedAreTerminated
  <1>5. ASSUME UNCHANGED <<esVars, searcherVars, handlerVars, current, deleting>>,
               \/ phase \in {"execute", "autoOpen", "autoClose", "memory"}
                    /\ phase' \in {"autoOpen", "autoClose", "memory", "update"}
                    /\ (phase' = "autoOpen" => current \notin pausedStates \/ ~IsBranching(Executed'))
               \/ phase' = "done"
        PROVE  StepInv' /\ StepsOK
    BY <1>1, <1>2, <1>5, QuietKeeps DEF esVars, searcherVars, handlerVars, DeletedAreTerminated
  <1>6. ASSUME NEW next \in {"autoOpen", "memory"},
               \/ phase = "execute" /\ Op(Executed) = "close"
               \/ phase = "autoClose" /\ next = "memory",
               HandleCloseMerge(next)
        PROVE  StepInv' /\ StepsOK
    <2> DEFINE failure == CloseMergeFailure(current, Executed)
    <2>1. CASE ~ClosesRegion
      <3>1. /\ UNCHANGED <<esVars, searcherVars, handlerVars, current, deleting>>
            /\ phase' = next
        BY <1>6, <2>1 DEF HandleCloseMerge
      <3>2. phase = "execute" => current \notin pausedStates
        BY <1>1 DEF WaitingApart
      <3> QED
        BY <1>5, <1>6, <3>1, <3>2
    <2>2. CASE ClosesRegion /\ failure # "none"
      <3>1. Abort(failure)
        BY <1>6, <2>2, Zenon DEF HandleCloseMerge
      <3> HIDE DEF failure
      <3> QED
        BY <1>3, <3>1
    <2>3. CASE ClosesRegion /\ failure = "none"
      <3>1. /\ CloseMerge(current, Executed) /\ phase' = next
            /\ UNCHANGED <<created, states, addedStates, prevPC, objects, current, deleting>>
        BY <1>6, <2>3, Zenon DEF HandleCloseMerge
      <3> QED
        BY <1>1, <1>6, <2>3, <3>1, CloseStep
    <2> QED
      BY <2>1, <2>2, <2>3
  <1>7. ASSUME HandleOpenMerge, phase \in {"execute", "autoOpen"}, current \notin pausedStates,
               phase' \in {"autoOpen", "autoClose"}
        PROVE  StepInv' /\ StepsOK
    <2>1. /\ UNCHANGED <<constraints, mergeDecisionCache, baseSearcher, addedStates, pausedStates,
                         created, objects, pc, removedStates, deleting, current>>
          /\ openMergeStack' = openMergeStack
             \/ \E h : openMergeStack' = [openMergeStack EXCEPT ![current] = Append(@, h)]
      BY <1>7 DEF HandleOpenMerge, OpenMerge, searcherVars, handlerVars
    <2>2. \A s \in pausedStates : openMergeStack'[s] = openMergeStack[s]
      BY <1>1, <1>2, <1>7, <2>1 DEF TypeOK
    <2> QED
      BY <1>1, <1>2, <1>7, <2>1, <2>2, QuietKeeps DEF DeletedAreTerminated
  <1>8. ASSUME NEW S \in SUBSET ES, Terminate(S),
               UNCHANGED <<created, addedStates, openMergeStack, constraints, objects,
                           searcherVars, handlerVars, current>>,
               deleting' \subseteq deleting \cup S,
               \/ /\ phase = "execute" /\ phase' = "autoOpen"
               \/ /\ phase = "memory" /\ phase' = "update"
               \/ /\ phase = "select" /\ phase' = "delete"
        PROVE  StepInv' /\ StepsOK
    <2>1. \A s \in ES : /\ removedStates[s] \in Nat
                        /\ removedStates'[s] = IF s \in S THEN removedStates[s] + 1
                                               ELSE removedStates[s]
                        /\ s \notin S => pc'[s] = pc[s]
      BY <1>1, <1>8 DEF Terminate, TypeOK
    <2>2. \A s \in pausedStates : removedStates'[s] = 0 => pc'[s] = pc[s]
      BY <1>2, <2>1
    <2>3. deleting' \subseteq ES /\ \A s \in deleting' : removedStates'[s] > 0
      <3>1. deleting \subseteq ES
        BY <1>1 DEF TypeOK
      <3> QED
        BY <1>1, <1>8, <2>1, <3>1 DEF DeletedAreTerminated
    <2>4. /\ phase = "execute" => current \notin pausedStates
          /\ phase = "select" => addedStates = {}
      BY <1>1 DEF WaitingApart
    <2> QED
      BY <1>1, <1>2, <1>8, <2>2, <2>3, <2>4, QuietKeeps DEF searcherVars, handlerVars
  <1>9. CASE SelectFromEmpty
    BY <1>3, <1>9 DEF SelectFromEmpty
  <1>10. CASE SelectBase
    <2>1. baseSearcher \subseteq ES /\ baseSearcher \cap pausedStates = {}
      BY <1>1 DEF TypeOK, WaitingApart
    <2> QED
      BY <1>4, <1>10, <2>1 DEF SelectBase, Selecting
  <1>11. CASE SelectPrioritized
    <2>0. PICK h \in mergeGroups : \E s \in openStates[h] : CanPrioritize(h, s) /\ Select(s)
      BY <1>11, Zenon DEF SelectPrioritized
    <2>1. PICK s \in openStates[h] : CanPrioritize(h, s) /\ Select(s)
      BY <2>0
    <2>2. s \in ES /\ s \notin pausedStates
      BY <1>1, <1>2, <2>1 DEF CanPrioritize, TypeOK
    <2> QED
      BY <1>4, <1>11, <2>1, <2>2 DEF SelectPrioritized, Selecting
  <1>12. CASE ReleasePreemptively
    <2>1. PICK h \in mergeGroups :
            IF ReleaseFailure({h}, pausedStates, reachedCloseMerge) # "none"
            THEN Abort(ReleaseFailure({h}, pausedStates, reachedCloseMerge))
            ELSE /\ ReleaseStates({h}, pausedStates, baseSearcher, inCloseMerge, reachedCloseMerge)
                 /\ phase' = "selecting"
                 /\ UNCHANGED <<created, addedStates, prevPC, openMergeStack, objects, deleting>>
      BY <1>12, Zenon DEF ReleasePreemptively
    <2>2. h \in MH /\ phase \in {"select", "selecting"}
      BY <1>1, <1>12 DEF TypeOK, ReleasePreemptively, Selecting
    <2>3. CASE ReleaseFailure({h}, pausedStates, reachedCloseMerge) # "none"
      BY <1>3, <2>1, <2>3
    <2>4. CASE ReleaseFailure({h}, pausedStates, reachedCloseMerge) = "none"
      BY <1>1, <2>1, <2>2, <2>4, PreemptiveStep
    <2> QED
      BY <2>3, <2>4
  <1>13. CASE ExecutePlain
    <2>1. current \notin pausedStates /\ phase = "execute"
      BY <1>1, <1>13 DEF WaitingApart, ExecutePlain, Executing
    <2> QED
      BY <1>5, <1>13, <2>1 DEF ExecutePlain
  <1>14. CASE NoAutoOpen \/ NoAutoClose \/ UnderMemoryLimit
    BY <1>5, <1>14 DEF NoAutoOpen, NoAutoClose, UnderMemoryLimit
  <1>15. CASE ExecuteAlloc
    <2>1. /\ current \notin pausedStates /\ phase = "execute" /\ phase' = "autoOpen"
          /\ UNCHANGED <<constraints, mergeDecisionCache, baseSearcher, addedStates, pausedStates,
                         created, openMergeStack, pc, removedStates, deleting, current>>
          /\ objects' = [objects EXCEPT ![current] = @ \cup {<<current, steppedInstructions[current]>>}]
      BY <1>1, <1>15 DEF WaitingApart, ExecuteAlloc, Executing, searcherVars, handlerVars
    <2>2. \A s \in pausedStates : objects'[s] = objects[s]
      BY <1>1, <1>2, <2>1 DEF TypeOK
    <2> QED
      BY <1>1, <1>2, <2>1, <2>2, QuietKeeps DEF DeletedAreTerminated
  <1>16. CASE ExecuteBranch
    <2>1. PICK choice : Fork(choice, Succ(Executed))
      BY <1>16, Zenon DEF ExecuteBranch
    <2> DEFINE targets == Succ(Executed)
    <2>2. /\ phase = "execute" /\ phase' = "autoOpen" /\ Fork(choice, targets)
          /\ UNCHANGED <<removedStates, baseSearcher, pausedStates, mergeDecisionCache, deleting,
                         current>>
      BY <1>16, <2>1 DEF ExecuteBranch, Executing, searcherVars
    <2> HIDE DEF targets
    <2> QED
      BY <1>1, <2>2, ForkStep
  <1>17. CASE ExecuteMemoryOperation
    <2> DEFINE targets == <<NextInst(Executed), NextInst(Executed)>>
    <2>1. PICK choice : Fork(choice, targets)
      BY <1>17, Zenon DEF ExecuteMemoryOperation
    <2>2. /\ phase = "execute" /\ phase' = "autoOpen" /\ Fork(choice, targets)
          /\ UNCHANGED <<removedStates, baseSearcher, pausedStates, mergeDecisionCache, deleting,
                         current>>
      BY <1>17, <2>1 DEF ExecuteMemoryOperation, Executing, searcherVars
    <2> HIDE DEF targets
    <2> QED
      BY <1>1, <2>2, ForkStep
  <1>18. CASE ExecuteBranchTooDeep \/ ExecuteExit \/ ExecuteTimedOut
    BY <1>2, <1>8, <1>18 DEF ExecuteBranchTooDeep, ExecuteExit, ExecuteTimedOut, Executing
  <1>19. CASE ExecuteOpenMerge
    <2>1. current \notin pausedStates /\ phase = "execute"
      BY <1>1, <1>19 DEF WaitingApart, ExecuteOpenMerge, Executing
    <2> QED
      BY <1>7, <1>19, <2>1 DEF ExecuteOpenMerge
  <1>20. CASE AutoOpen
    <2>1. current \notin pausedStates /\ phase = "autoOpen"
      BY <1>1, <1>20 DEF WaitingApart, AutoOpen, OpensRegion
    <2> QED
      BY <1>7, <1>20, <2>1 DEF AutoOpen
  <1>21. CASE ExecuteCloseMerge \/ AutoClose
    BY <1>6, <1>21 DEF ExecuteCloseMerge, AutoClose, Executing
  <1>22. CASE KillStates
    <2>1. PICK S \in SUBSET states : Terminate(S)
      BY <1>22, Zenon DEF KillStates
    <2>2. S \in SUBSET ES
      BY <1>1 DEF TypeOK
    <2> QED
      BY <1>8, <1>22, <2>1, <2>2 DEF KillStates
  <1>23. CASE UpdateStates
    <2>1. CASE Abort("invalid state removed")
      BY <1>3, <2>1
    <2>2. CASE ~Abort("invalid state removed")
      <3>1. /\ SearcherUpdate(current) /\ addedStates' = {} /\ deleting' = Removed
            /\ phase' = "delete"
            /\ UNCHANGED <<created, removedStates, pc, openMergeStack, constraints, objects,
                           handlerVars>>
        BY <1>23, <2>2 DEF UpdateStates
      <3>2. /\ UNCHANGED pausedStates
            /\ baseSearcher' \subseteq baseSearcher \cup addedStates
        BY <3>1 DEF SearcherUpdate
      <3>3. StepsOK
        BY <3>1, <3>2, QuietStep DEF handlerVars
      <3>4. WaitingApart'
        BY <1>1, <3>1, <3>2 DEF WaitingApart
      <3>5. DeletedAreTerminated'
        BY <3>1 DEF DeletedAreTerminated, Removed
      <3> QED
        BY <1>1, <3>1, <3>3, <3>4, <3>5 DEF StepInv, DecidedOnce, handlerVars
    <2> QED
      BY <2>1, <2>2
  <1>24. CASE DeleteState
    <2>1. PICK s \in deleting :
            \/ Abort("use of the deleted searcher")
            \/ Abort(DeleteFailure(s))
            \/ /\ DeleteFailure(s) = "none" /\ deleting' = deleting \ {s}
               /\ DeleteExecutionState(s)
               /\ UNCHANGED <<created, addedStates, prevPC, objects, phase, current>>
      BY <1>24, Zenon DEF DeleteState
    <2>2. phase = "delete"
      BY <1>24 DEF DeleteState
    <2>3. CASE Abort("use of the deleted searcher") \/ Abort(DeleteFailure(s))
      BY <1>3, <2>3
    <2>4. CASE ~Abort("use of the deleted searcher") /\ ~Abort(DeleteFailure(s))
      BY <1>1, <2>1, <2>2, <2>4, DeleteStep
    <2> QED
      BY <2>3, <2>4
  <1>25. CASE DeleteThroughStaleIterator
    BY <1>3, <1>25 DEF DeleteThroughStaleIterator
  <1>26. CASE EndUpdate
    <2>1. /\ UNCHANGED <<constraints, mergeDecisionCache, baseSearcher, addedStates, pausedStates,
                         created, openMergeStack, pc, objects, deleting, current>>
          /\ deleting = {} /\ phase = "delete" /\ phase' \in {"select", "done"}
      BY <1>26 DEF EndUpdate, searcherVars, handlerVars
    <2>2. addedStates = {}
      BY <1>1, <2>1 DEF WaitingApart
    <2> QED
      BY <1>1, <2>1, <2>2, QuietKeeps
  <1>27. CASE Halt
    <2>1. states \in SUBSET ES
      BY <1>1 DEF TypeOK
    <2> QED
      BY <1>8, <1>27, <2>1 DEF Halt
  <1>28. CASE Finish
    BY <1>5, <1>28 DEF Finish
  <1>29. CASE UNCHANGED vars
    <2>1. /\ UNCHANGED <<constraints, mergeDecisionCache, baseSearcher, addedStates, pausedStates,
                         created, openMergeStack, pc, prevPC, objects, deleting, current, phase,
                         removedStates>>
      BY <1>29 DEF vars, esVars, searcherVars, handlerVars, loopVars
    <2> QED
      BY <1>1, <2>1, QuietKeeps DEF WaitingApart, DeletedAreTerminated, Executed, IsBranching
  <1> QED
    BY <1>9, <1>10, <1>11, <1>12, <1>13, <1>14, <1>15, <1>16, <1>17, <1>18, <1>19, <1>20, <1>21,
       <1>22, <1>23, <1>24, <1>25, <1>26, <1>27, <1>28, <1>29 DEF Next, Iterate, Terminated

(* The invariant holds initially. *)
LEMMA InitStep ==
    ASSUME Init
    PROVE  StepInv
  <1>1. RecordsInv
    BY InitRecords
  <1>2. /\ pausedStates = {} /\ addedStates = {} /\ deleting = {} /\ phase = "select"
        /\ mergeDecisionCache = [i \in Inst |-> {}]
    BY DEF Init, EStateInit, SearcherInit, HandlerInit
  <1> QED
    BY <1>1, <1>2 DEF StepInv, WaitingApart, DeletedAreTerminated, DecidedOnce

(* The invariant of the single steps holds in every run: in particular no  *)
(* state is both scheduled and paused, and no instruction has two merge    *)
(* decisions.                                                              *)
THEOREM StepInvariant == Spec => []StepInv
  BY InitStep, NextStep, PTL DEF Spec

(* While a state waits no step of another state changes it.                *)
THEOREM WaitingStatesAreFrozenTheorem == Spec => WaitingStatesAreFrozen
  <1>1. StepInv /\ [Next]_vars => [FrozenStep]_vars
    BY NextStep DEF StepsOK
  <1> QED
    BY <1>1, StepInvariant, PTL DEF Spec, WaitingStatesAreFrozen

(* A merge joins the inputs of exactly two states that stand at the same   *)
(* instruction with the same memory objects, and terminates one of them.   *)
THEOREM MergingAbsorbsOneTheorem == Spec => MergingAbsorbsOne
  <1>1. StepInv /\ [Next]_vars => [AbsorbStep]_vars
    BY NextStep DEF StepsOK
  <1> QED
    BY <1>1, StepInvariant, PTL DEF Spec, MergingAbsorbsOne

(* A cached merge decision is never changed, and merging follows it.       *)
THEOREM DecisionsAreFinalTheorem == Spec => DecisionsAreFinal
  <1>1. StepInv /\ [Next]_vars => [DecisionStep]_vars
    BY NextStep DEF StepsOK
  <1> QED
    BY <1>1, StepInvariant, PTL DEF Spec, DecisionsAreFinal

-----------------------------------------------------------------------------
(***************************************************************************)
(* The run loop under regular merging: every state stays scheduled or      *)
(* paused, somebody can always be selected, and no assertion fails but     *)
(* those of a handler that dies with a state.  When updateStates merges    *)
(* nothing, the loop explores every input exactly once.                    *)
(***************************************************************************)

(***************************************************************************)
(* Nesting.                                                                *)
(***************************************************************************)

(* A set of handlers has a latest one. *)
LEMMA LatestHandler ==
    ASSUME NEW S \in SUBSET MH, S # {}
    PROVE  \E h \in S : \A g \in S : g <= h
  <1> DEFINE D == {MaxHandlers - h : h \in S}
  <1>1. MaxHandlers \in Nat /\ S \subseteq Nat /\ \A h \in S : h <= MaxHandlers
    BY BoundsAssumption DEF BoundsAssumption, MH
  <1>2. D \in SUBSET Nat /\ D # {}
    <2>1. \A h \in S : MaxHandlers - h \in D /\ MaxHandlers - h \in Nat
      BY <1>1
    <2> QED
      BY <2>1
  <1>3. PICK d \in D : \A e \in D : <<e, d>> \notin OpToRel(<, Nat)
    BY <1>2, NatLessThanWellFounded, WFMin
  <1>4. \A e \in D : ~(e < d)
    BY <1>2, <1>3 DEF OpToRel
  <1>5. PICK h \in S : d = MaxHandlers - h
    OBVIOUS
  <1>6. \A g \in S : ~(MaxHandlers - g < MaxHandlers - h)
    BY <1>4, <1>5
  <1> QED
    BY <1>1, <1>6

(* Without merging nobody waits. *)
LEMMA NobodyWaits ==
    ASSUME StepInv, \A s \in ES : openMergeStack[s] = << >>
    PROVE  pausedStates = {} /\ \A h \in MH : ~HasMergedStates(h)
  <1>1. \A s \in ES, h \in MH : ~Holds(s, h)
    BY DEF Holds
  <1>2. \A h \in MH : openStates[h] = {}
    BY <1>1 DEF StepInv, RecordsInv, OpenStatesHoldHandler
  <1>3. \A h \in MH : ~HasMergedStates(h)
    BY <1>2 DEF StepInv, RecordsInv, NoOrphanedGroup
  <1>4. pausedStates = WaitingIn(MH, reachedCloseMerge)
    BY DEF StepInv, RecordsInv, WaitingRecordsAgree
  <1>5. pausedStates = {}
    BY <1>3, <1>4 DEF HasMergedStates, WaitingIn
  <1> QED
    BY <1>3, <1>5

(* As long as there are states, one of them is scheduled: of those that    *)
(* wait in the latest handler, whoever has it still open cannot wait.      *)
LEMMA SomebodyScheduled ==
    ASSUME ScheduleInv, phase = "select", states # {}
    PROVE  baseSearcher # {}
  <1>1. /\ RecordsInv /\ TypeOK /\ RegionsAreNested /\ addedStates = {}
        /\ states = baseSearcher \cup pausedStates
    BY DEF ScheduleInv, StepInv, RecordsInv, WaitingApart, SearcherInStep
  <1>2. SUFFICES ASSUME baseSearcher = {} PROVE FALSE
    OBVIOUS
  <1> DEFINE W == {h \in MH : HasMergedStates(h)}
  <1>3. \A s \in pausedStates : s \in ES /\ \E h \in MH, i \in Inst : s \in reachedCloseMerge[h][i]
    BY <1>1 DEF RecordsInv, WaitingRecordsAgree, WaitingIn
  <1>4. W # {} /\ W \in SUBSET MH
    BY <1>1, <1>2, <1>3 DEF HasMergedStates
  <1>5. PICK h \in W : \A g \in W : g <= h
    BY <1>4, LatestHandler
  <1>6. openStates[h] # {} /\ openStates[h] = {s \in ES : Holds(s, h)} /\ openStates[h] \subseteq Allocated
    BY <1>1 DEF RecordsInv, NoOrphanedGroup, OpenStatesHoldHandler
  <1>7. PICK t \in ES : Holds(t, h) /\ t \in Allocated
    BY <1>6
  <1>8. t \in pausedStates
    BY <1>1, <1>2, <1>7 DEF Allocated
  <1>9. PICK g \in MH, i \in Inst : t \in reachedCloseMerge[g][i]
    BY <1>3, <1>8
  <1>10. g \in W
    BY <1>9 DEF HasMergedStates
  <1>11. h < g
    BY <1>1, <1>4, <1>7, <1>9 DEF RegionsAreNested
  <1>12. g <= h /\ g \in Int /\ h \in Int
    BY <1>4, <1>5, <1>10, BoundsAssumption DEF BoundsAssumption, MH
  <1> QED
    BY <1>11, <1>12

(* A step that leaves stacks and waiting states alone. *)
LEMMA NestedUnchanged ==
    ASSUME RegionsAreNested, UNCHANGED <<openMergeStack, reachedCloseMerge>>
    PROVE  RegionsAreNested'
  BY DEF RegionsAreNested, Holds

(* Copies have the stack of the state they are copied from, and do not     *)
(* wait.                                                                   *)
LEMMA ForkNested ==
    ASSUME StepInv, RegionsAreNested, current \in ES, NEW copies \in SUBSET ES,
           copies \cap 1 .. created = {},
           \A s \in ES : openMergeStack'[s] = IF s \in copies THEN openMergeStack[current]
                                              ELSE openMergeStack[s],
           reachedCloseMerge' = reachedCloseMerge
    PROVE  RegionsAreNested'
  <1>1. /\ pausedStates \subseteq 1 .. created
        /\ \A s \in ES, h \in MH, i \in Inst : s \in reachedCloseMerge[h][i] => s \in pausedStates
    BY DEF StepInv, WaitingApart, RecordsInv, WaitingRecordsAgree, WaitingIn
  <1>2. \A s \in copies, h \in MH, i \in Inst : s \notin reachedCloseMerge[h][i]
    BY <1>1
  <1>3. \A s \in ES \ copies : \A g : Holds(s, g)' <=> Holds(s, g)
    BY DEF Holds
  <1>4. ASSUME NEW s \in ES
        PROVE  \A k, l \in 1 .. Len(openMergeStack'[s]) :
                  k < l => openMergeStack'[s][k] < openMergeStack'[s][l]
    BY DEF RegionsAreNested
  <1>5. ASSUME NEW s \in ES, NEW h \in MH, NEW i \in Inst, NEW g \in MH,
               s \in reachedCloseMerge'[h][i], Holds(s, g)'
        PROVE  g < h
    BY <1>2, <1>3, <1>5 DEF RegionsAreNested
  <1> QED
    BY <1>4, <1>5 DEF RegionsAreNested

(* A new region is the innermost one, and who opens it does not wait. *)
LEMMA OpenNested ==
    ASSUME StepInv, RegionsAreNested, current \in ES, current \notin pausedStates,
           OpenMerge(current)
    PROVE  RegionsAreNested'
  <1> DEFINE h == handlersCreated + 1
             stack == openMergeStack[current]
  <1>1. /\ RecordsInv /\ TypeOK /\ handlersCreated \in Nat /\ stack \in Seq(MH)
    <2>1. handlersCreated \in 0 .. MaxHandlers /\ MaxHandlers \in Nat
      BY BoundsAssumption DEF StepInv, RecordsInv, TypeOK, BoundsAssumption
    <2>2. handlersCreated \in Nat
      BY <2>1
    <2>3. RecordsInv /\ TypeOK
      BY DEF StepInv, RecordsInv
    <2>4. stack \in Seq(MH)
      BY <2>3 DEF TypeOK
    <2> QED
      BY <2>2, <2>3, <2>4
  <1>2. /\ h \in MH /\ reachedCloseMerge' = reachedCloseMerge
        /\ openMergeStack' = [openMergeStack EXCEPT ![current] = Append(@, h)]
    BY DEF OpenMerge
  <1>3. /\ openMergeStack'[current] = Append(stack, h)
        /\ \A s \in ES \ {current} : openMergeStack'[s] = openMergeStack[s]
    BY <1>1, <1>2 DEF TypeOK
  <1>4. /\ Len(stack) \in Nat
        /\ Len(Append(stack, h)) = Len(stack) + 1
        /\ \A k \in 1 .. Len(stack) : Append(stack, h)[k] = stack[k]
        /\ Append(stack, h)[Len(stack) + 1] = h
    BY <1>1, <1>2
  <1>5. \A k \in 1 .. Len(stack) : stack[k] <= handlersCreated /\ stack[k] \in Int
    BY <1>1, BoundsAssumption DEF RecordsInv, StacksDistinct, BoundsAssumption, MH
  <1>6. \A k \in 1 .. Len(stack) : stack[k] < h
    BY <1>1, <1>5
  <1>7. \A k, l \in 1 .. Len(stack) : k < l => stack[k] < stack[l]
    BY DEF RegionsAreNested
  <1> HIDE DEF h, stack
  <1>8. ASSUME NEW k \in 1 .. Len(stack) + 1, NEW l \in 1 .. Len(stack) + 1, k < l
        PROVE  Append(stack, h)[k] < Append(stack, h)[l]
    <2>1. k \in 1 .. Len(stack)
      BY <1>4, <1>8
    <2>2. CASE l = Len(stack) + 1
      BY <1>4, <1>6, <2>1, <2>2
    <2>3. CASE l # Len(stack) + 1
      <3>1. l \in 1 .. Len(stack)
        BY <1>4, <2>3
      <3> QED
        BY <1>4, <1>7, <1>8, <2>1, <3>1
    <2> QED
      BY <2>2, <2>3
  <1>9. ASSUME NEW s \in ES
        PROVE  \A k, l \in 1 .. Len(openMergeStack'[s]) :
                  k < l => openMergeStack'[s][k] < openMergeStack'[s][l]
    <2>1. CASE s = current
      BY <1>3, <1>4, <1>8, <2>1
    <2>2. CASE s # current
      BY <1>3, <2>2 DEF RegionsAreNested
    <2> QED
      BY <2>1, <2>2
  <1>10. \A g \in MH, i \in Inst : current \notin reachedCloseMerge[g][i]
    BY <1>1 DEF RecordsInv, WaitingRecordsAgree, WaitingIn
  <1>11. \A s \in ES \ {current} : \A g : Holds(s, g)' <=> Holds(s, g)
    BY <1>3 DEF Holds
  <1>12. ASSUME NEW s \in ES, NEW f \in MH, NEW i \in Inst, NEW g \in MH,
                s \in reachedCloseMerge'[f][i], Holds(s, g)'
         PROVE  g < f
    BY <1>2, <1>10, <1>11, <1>12 DEF RegionsAreNested
  <1> QED
    BY <1>9, <1>12 DEF RegionsAreNested

(* The region that is closed is the innermost one. *)
LEMMA CloseNested ==
    ASSUME StepInv, RegionsAreNested, current \in ES, current \notin pausedStates,
           openMergeStack[current] # << >>, NEW i \in Inst, CloseMerge(current, i),
           current' = current
    PROVE  RegionsAreNested'
  <1> DEFINE h == Top(current)
             H == DestroyedByPop(current)
             stack == openMergeStack[current]
             rest == SubSeq(stack, 1, Len(stack) - 1)
             reached == ReachedAfterClose(current, i)
  <1>1. RecordsInv /\ TypeOK /\ stack \in Seq(MH)
    BY DEF StepInv, RecordsInv, TypeOK
  <1>2. /\ h \in MH
        /\ \A g \in MH, j \in Inst :
              reached[g][j] = IF g = h /\ j = i THEN reachedCloseMerge[g][j] \cup {current}
                              ELSE reachedCloseMerge[g][j]
    BY <1>1, ClosePlaces
  <1>3. /\ openMergeStack' = [openMergeStack EXCEPT ![current] = SubSeq(@, 1, Len(@) - 1)]
        /\ reachedCloseMerge' = [g \in MH |-> IF g \in H THEN [j \in Inst |-> {}] ELSE reached[g]]
    BY DEF CloseMerge, ReleaseStates
  <1>4. /\ openMergeStack'[current] = rest
        /\ \A s \in ES \ {current} : openMergeStack'[s] = openMergeStack[s]
    BY <1>1, <1>3 DEF TypeOK
  <1>5. /\ Len(rest) = Len(stack) - 1 /\ \A k \in 1 .. Len(stack) - 1 : rest[k] = stack[k]
        /\ Len(stack) \in Nat \ {0} /\ h = stack[Len(stack)]
    BY <1>1, PopType DEF Top
  <1>6. \A k, l \in 1 .. Len(stack) : k < l => stack[k] < stack[l]
    BY DEF RegionsAreNested
  <1> HIDE DEF h, H, reached, rest, stack
  <1>7. \A g \in MH, j \in Inst : reachedCloseMerge'[g][j] \subseteq
            IF g = h /\ j = i THEN reachedCloseMerge[g][j] \cup {current}
            ELSE reachedCloseMerge[g][j]
    BY <1>2, <1>3
  <1>8. \A g \in MH, j \in Inst : current \notin reachedCloseMerge[g][j]
    BY <1>1 DEF RecordsInv, WaitingRecordsAgree, WaitingIn
  <1>9. ASSUME NEW s \in ES
        PROVE  \A k, l \in 1 .. Len(openMergeStack'[s]) :
                  k < l => openMergeStack'[s][k] < openMergeStack'[s][l]
    <2>1. CASE s = current
      BY <1>4, <1>5, <1>6, <2>1
    <2>2. CASE s # current
      BY <1>4, <2>2 DEF RegionsAreNested
    <2> QED
      BY <2>1, <2>2
  <1>10. \A s \in ES \ {current} : \A g : Holds(s, g)' <=> Holds(s, g)
    BY <1>4 DEF Holds
  <1>11. \A g : (\E k \in 1 .. Len(rest) : rest[k] = g) => g < h
    BY <1>5, <1>6
  <1>12. \A g : Holds(current, g)' => g < h
    <2>1. \A g : Holds(current, g)' => \E k \in 1 .. Len(openMergeStack'[current]) :
                                          openMergeStack'[current][k] = g
      BY DEF Holds
    <2> QED
      BY <1>4, <1>11, <2>1
  <1>13. ASSUME NEW s \in ES, NEW f \in MH, NEW j \in Inst, NEW g \in MH,
                s \in reachedCloseMerge'[f][j], Holds(s, g)'
         PROVE  g < f
    <2>1. CASE s = current
      <3>1. f = h
        BY <1>7, <1>8, <1>13, <2>1
      <3>2. Holds(current, g)'
        BY <1>13, <2>1
      <3> QED
        BY <1>12, <3>1, <3>2
    <2>2. CASE s # current
      BY <1>7, <1>10, <1>13, <2>2 DEF RegionsAreNested
    <2> QED
      BY <2>1, <2>2
  <1> QED
    BY <1>9, <1>13 DEF RegionsAreNested


(* Deleting a state and releasing groups leaves less to be nested. *)
LEMMA DeleteNested ==
    ASSUME StepInv, RegionsAreNested, NEW s \in ES, DeleteExecutionState(s)
    PROVE  RegionsAreNested'
  <1>1. TypeOK
    BY DEF StepInv, RecordsInv
  <1>2. /\ openMergeStack' = [openMergeStack EXCEPT ![s] = << >>]
        /\ reachedCloseMerge' = [h \in MH |-> IF h \in DestroyedByDelete(s) THEN [i \in Inst |-> {}]
                                              ELSE reachedCloseMerge[h]]
    BY DEF DeleteExecutionState, ReleaseStates
  <1>3. openMergeStack'[s] = << >> /\ \A t \in ES \ {s} : openMergeStack'[t] = openMergeStack[t]
    BY <1>1, <1>2 DEF TypeOK
  <1>4. \A h \in MH, i \in Inst : reachedCloseMerge'[h][i] \subseteq reachedCloseMerge[h][i]
    BY <1>2
  <1>5. ASSUME NEW t \in ES, NEW g, Holds(t, g)' PROVE t # s /\ Holds(t, g)
    BY <1>3, <1>5 DEF Holds
  <1>6. ASSUME NEW t \in ES
        PROVE  \A k, l \in 1 .. Len(openMergeStack'[t]) :
                  k < l => openMergeStack'[t][k] < openMergeStack'[t][l]
    <2>1. CASE t = s
      BY <1>3, <2>1
    <2>2. CASE t # s
      BY <1>3, <2>2 DEF RegionsAreNested
    <2> QED
      BY <2>1, <2>2
  <1>7. ASSUME NEW t \in ES, NEW h \in MH, NEW i \in Inst, NEW g \in MH,
               t \in reachedCloseMerge'[h][i], Holds(t, g)'
        PROVE  g < h
    BY <1>4, <1>5, <1>7 DEF RegionsAreNested
  <1> QED
    BY <1>6, <1>7 DEF RegionsAreNested

-----------------------------------------------------------------------------
(***************************************************************************)
(* Scheduling.                                                             *)
(***************************************************************************)

(* The parts of the invariant that only a new or closed region touches. *)
RegionsOK ==
    /\ RegionsAreNested
    /\ closeMergeSet \subseteq {CloseBlock[b] : b \in Blocks}
    /\ ~UseMerge => \A s \in ES : openMergeStack[s] = << >>

(* A step that leaves regions alone. *)
LEMMA RegionsUnchanged ==
    ASSUME RegionsOK, UNCHANGED <<openMergeStack, reachedCloseMerge, closeMergeSet>>
    PROVE  RegionsOK'
  BY NestedUnchanged DEF RegionsOK

(* The current state is scheduled unless it is paused. *)
LEMMA CurrentScheduled ==
    ASSUME ScheduleInv, phase \in {"execute", "autoOpen", "autoClose", "memory", "update"}
    PROVE  current \in ES /\ current \in Allocated /\ (current \notin pausedStates => current \in baseSearcher)
  <1>1. current \in ES /\ current \in Allocated
    BY CurrentAllocated DEF ScheduleInv, StepInv
  <1>2. current \notin addedStates /\ states = baseSearcher \cup pausedStates
    BY DEF ScheduleInv, StepInv, WaitingApart, SearcherInStep
  <1> QED
    BY <1>1, <1>2 DEF Allocated

(* A step of the iteration that touches neither the searcher nor the       *)
(* records of added and removed states.                                    *)
LEMMA ScheduleQuiet ==
    ASSUME ScheduleInv, StepInv', RegionsOK',
           UNCHANGED <<states, addedStates, removedStates, baseSearcher, pausedStates, searcher,
                       failed, prevPC, current>>,
           \/ phase = "execute" /\ phase' = "autoOpen"
           \/ phase = "autoOpen" /\ phase' = "autoClose"
           \/ phase = "autoClose" /\ phase' = "memory"
           \/ phase = "memory" /\ phase' = "update"
    PROVE  ScheduleInv'
  <1>1. Removed' = Removed /\ Executed' = Executed
    BY DEF Removed, Executed
  <1>2. WaitingApart
    BY DEF ScheduleInv, StepInv
  <1>3. SearcherInStep'
    BY DEF ScheduleInv, SearcherInStep
  <1>4. IterationIsOne'
    BY <1>1, <1>2 DEF ScheduleInv, IterationIsOne, WaitingApart
  <1> QED
    BY <1>3, <1>4 DEF ScheduleInv, RegionsOK, OnlyDeletionsFail

(* The run ends with a failure of a handler that dies with a state. *)
LEMMA ScheduleAborted ==
    ASSUME ScheduleInv, StepInv', NEW why \in DeletionFailures, Abort(why)
    PROVE  ScheduleInv'
  <1>1. RegionsOK'
    BY RegionsUnchanged DEF ScheduleInv, RegionsOK, Abort, esVars, handlerVars
  <1> QED
    BY <1>1 DEF ScheduleInv, RegionsOK, Abort, SearcherInStep, IterationIsOne, OnlyDeletionsFail

(* The close points at which auto merge closes a region: nothing has       *)
(* happened in this iteration before.                                      *)
LEMMA BeforeClose ==
    ASSUME RegularMerging, ScheduleInv, ClosesRegion,
           \/ phase = "execute"
           \/ phase = "autoClose" /\ AtClosePoint
    PROVE  Removed = {} /\ addedStates = {} /\ current \notin pausedStates
  <1>1. CASE phase = "execute"
    BY <1>1 DEF ScheduleInv, StepInv, WaitingApart, IterationIsOne
  <1>2. CASE phase = "autoClose" /\ AtClosePoint
    <2>1. Executed \in Inst
      BY <1>2, CurrentScheduled DEF ScheduleInv, StepInv, RecordsInv, TypeOK, Executed
    <2>2. PICK b \in Blocks : CloseBlock[b] = BlockOf(Executed)
      BY <1>2 DEF AtClosePoint, ScheduleInv
    <2>3. Op(Executed) \in {"plain", "alloc", "open"}
      BY <1>2, <2>1, <2>2 DEF RegularMerging, ClosesRegion, PlainClosePoints, AtClosePoint
    <2> QED
      BY <1>2, <2>3 DEF ScheduleInv, IterationIsOne
  <1> QED
    BY <1>1, <1>2

(* Who waits is allocated, so closing a region never fails. *)
LEMMA CloseNeverFails ==
    ASSUME RegularMerging, ScheduleInv, ClosesRegion,
           \/ phase = "execute"
           \/ phase = "autoClose" /\ AtClosePoint
    PROVE  CloseMergeFailure(current, Executed) = "none"
  <1> DEFINE H == DestroyedByPop(current)
             reached == ReachedAfterClose(current, Executed)
             waiting == pausedStates \cup {current}
  <1>1. /\ current \notin pausedStates /\ current \in baseSearcher /\ current \in ES
        /\ current \in Allocated /\ RecordsInv /\ Executed \in Inst
        /\ openMergeStack[current] # << >>
        /\ inCloseMerge = pausedStates
        /\ states = baseSearcher \cup pausedStates
    BY BeforeClose, CurrentScheduled
    DEF ScheduleInv, StepInv, RecordsInv, WaitingRecordsAgree, SearcherInStep, ClosesRegion,
        TypeOK, Executed
  <1>2. /\ H \in SUBSET MH /\ reached \in [MH -> [Inst -> SUBSET ES]]
        /\ WaitingIn(MH, reached) = waiting
    BY <1>1, ClosePlaces
  <1>3. CloseMergeFailure(current, Executed) \notin RecordAssertions
    BY <1>1, CloseDoesNotFail
  <1>4. CloseMergeFailure(current, Executed) =
          IF current \in inCloseMerge THEN ClosingAssert
          ELSE IF current \notin openStates[Top(current)] THEN "removeOpenState: not found"
          ELSE IF current \in pausedStates THEN "pauseState: already paused"
          ELSE IF current \notin baseSearcher THEN "invalid state removed"
          ELSE IF ~(H \subseteq mergeGroups) THEN RegisteredAssert
          ELSE ReleaseFailure(H, waiting, reached)
    BY DEF CloseMergeFailure
  <1> HIDE DEF H, reached
  <1>5. \A h \in H, i \in Inst : reached[h][i] \subseteq waiting
    BY <1>2 DEF WaitingIn
  <1>6. waiting \subseteq Allocated
    BY <1>1 DEF Allocated
  <1>7. ~ReadsDeleted(H, reached)
    BY <1>5, <1>6 DEF ReadsDeleted
  <1>8. WaitingIn(H, reached) \subseteq waiting
    BY <1>5 DEF WaitingIn
  <1>9. ReleaseFailure(H, waiting, reached) = "none"
    BY <1>7, <1>8 DEF ReleaseFailure
  <1> QED
    BY <1>1, <1>3, <1>4, <1>9 DEF RecordAssertions


(* What closing a region does: the current state waits and nobody is       *)
(* merged, or all who waited in the region are scheduled again.            *)
LEMMA CloseEffect ==
    ASSUME StepInv, NEW i \in Inst, current \in ES, openMergeStack[current] # << >>,
           CloseMergeFailure(current, i) = "none", CloseMerge(current, i)
    PROVE  \E freed \in SUBSET (pausedStates \cup {current}) : \E got :
              /\ MergedAs(got, freed)
              /\ pausedStates' = (pausedStates \cup {current}) \ freed
              /\ baseSearcher' = (baseSearcher \ {current}) \cup freed
              /\ current \notin freed => freed = {} /\ \A s \in ES : got[s] = NoState
              /\ freed \subseteq WaitingIn({Top(current)}, ReachedAfterClose(current, i))
  <1> DEFINE H == DestroyedByPop(current)
             reached == ReachedAfterClose(current, i)
             waiting == pausedStates \cup {current}
             freed == WaitingIn(H, reached)
  <1>1. RecordsInv /\ TypeOK
    BY DEF StepInv, RecordsInv
  <1>2. current \notin pausedStates /\ ReleaseFailure(H, waiting, reached) = "none"
    BY <1>1, CloseSucceeds
  <1>3. /\ H \in SUBSET MH /\ reached \in [MH -> [Inst -> SUBSET ES]] /\ Top(current) \in MH
        /\ WaitingIn(MH, reached) = waiting
        /\ WaitAtOnePlace(WaitingIn(MH, reached), reached)
        /\ \A g \in MH, j \in Inst :
              reached[g][j] = IF g = Top(current) /\ j = i THEN reachedCloseMerge[g][j] \cup {current}
                              ELSE reachedCloseMerge[g][j]
    BY <1>1, <1>2, ClosePlaces
  <1>4. /\ pausedStates' = waiting \ freed
        /\ baseSearcher' = (baseSearcher \ {current}) \cup freed
        /\ DecideAndMerge(MergeClasses(H, reached), freed)
    BY DEF CloseMerge, ReleaseStates
  <1>5. /\ H # {} => current \in reached[Top(current)][i] /\ H = {Top(current)}
        /\ H \subseteq {Top(current)}
    BY <1>3 DEF DestroyedByPop
  <1> HIDE DEF H, reached, waiting
  <1>6. PICK got : /\ MergedAs(got, freed)
                   /\ MergeClasses(H, reached) = {} => \A s \in ES : got[s] = NoState
    BY <1>1, <1>2, <1>3, <1>4, ReleaseMerges
  <1>7. freed \subseteq waiting
    BY <1>3 DEF WaitingIn
  <1>8. H # {} => current \in freed
    BY <1>5 DEF WaitingIn
  <1>9. H = {} => freed = {} /\ MergeClasses(H, reached) = {}
    BY DEF WaitingIn, MergeClasses
  <1>10. freed \subseteq WaitingIn({Top(current)}, reached)
    BY <1>5 DEF WaitingIn
  <1> HIDE DEF freed
  <1> QED
    BY <1>4, <1>6, <1>7, <1>8, <1>9, <1>10 DEF waiting, reached

(* What a release terminates. *)
LEMMA AbsorbedAreRemoved ==
    ASSUME TypeOK, NEW freed \in SUBSET ES, NEW got, MergedAs(got, freed)
    PROVE  /\ Absorbed(got) \subseteq freed
           /\ Removed' = Removed \cup Absorbed(got)
           /\ \A s \in ES : removedStates'[s] <= removedStates[s] + 1
           /\ (\A s \in ES : got[s] = NoState) => Absorbed(got) = {}
  <1>1. \A s \in ES : s # NoState
    BY DEF ES, NoState
  <1>2. Absorbed(got) \subseteq freed
    BY <1>1 DEF MergedAs, Absorbed
  <1>3. \A s \in ES : /\ removedStates[s] \in Nat
                      /\ removedStates'[s] = IF s \in Absorbed(got) THEN removedStates[s] + 1
                                             ELSE removedStates[s]
    BY DEF MergedAs, TypeOK
  <1>4. Absorbed(got) \subseteq ES
    BY DEF Absorbed
  <1>5. Removed' = Removed \cup Absorbed(got)
    BY <1>3, <1>4 DEF Removed
  <1>6. (\A s \in ES : got[s] = NoState) => Absorbed(got) = {}
    BY <1>1 DEF Absorbed
  <1> QED
    BY <1>2, <1>3, <1>5, <1>6

(* Closing a region keeps the invariant. *)
LEMMA ScheduleClose ==
    ASSUME RegularMerging, ScheduleInv, StepInv', ClosesRegion,
           \/ phase = "execute" /\ Op(Executed) = "close" /\ phase' = "autoOpen"
           \/ phase = "autoClose" /\ AtClosePoint /\ phase' = "memory",
           CloseMerge(current, Executed),
           UNCHANGED <<created, states, addedStates, prevPC, current, failed, closeMergeSet,
                       searcher>>
    PROVE  ScheduleInv'
  <1>1. /\ Removed = {} /\ addedStates = {} /\ current \notin pausedStates
        /\ CloseMergeFailure(current, Executed) = "none"
    BY BeforeClose, CloseNeverFails
  <1>2. /\ StepInv /\ TypeOK /\ current \in ES /\ current \in baseSearcher /\ Executed \in Inst
        /\ openMergeStack[current] # << >> /\ pausedStates \subseteq ES /\ RegionsAreNested
        /\ states = baseSearcher \cup pausedStates /\ searcher
    BY <1>1, CurrentScheduled
    DEF ScheduleInv, StepInv, RecordsInv, TypeOK, Executed, ClosesRegion, SearcherInStep
  <1>a. PICK freed \in SUBSET (pausedStates \cup {current}) : \E got :
              /\ MergedAs(got, freed)
              /\ pausedStates' = (pausedStates \cup {current}) \ freed
              /\ baseSearcher' = (baseSearcher \ {current}) \cup freed
              /\ current \notin freed => freed = {} /\ \A s \in ES : got[s] = NoState
    BY <1>1, <1>2, CloseEffect
  <1>3. PICK got :
              /\ MergedAs(got, freed)
              /\ pausedStates' = (pausedStates \cup {current}) \ freed
              /\ baseSearcher' = (baseSearcher \ {current}) \cup freed
              /\ current \notin freed => freed = {} /\ \A s \in ES : got[s] = NoState
    BY <1>a
  <1>4. /\ Absorbed(got) \subseteq freed
        /\ Removed' = Removed \cup Absorbed(got)
        /\ \A s \in ES : removedStates'[s] <= removedStates[s] + 1
        /\ (\A s \in ES : got[s] = NoState) => Absorbed(got) = {}
    <2>1. freed \in SUBSET ES
      BY <1>2
    <2> QED
      BY <1>2, <1>3, <2>1, AbsorbedAreRemoved
  <1>5. RegionsOK'
    <2>1. RegionsAreNested'
      BY <1>1, <1>2, CloseNested
    <2> QED
      BY <2>1 DEF ScheduleInv, RegionsOK, ClosesRegion
  <1>6. SearcherInStep'
    BY <1>2, <1>3 DEF SearcherInStep
  <1>7. \A s \in ES : removedStates[s] = 0
    BY <1>1, <1>2 DEF Removed, TypeOK
  <1>8. \A s \in ES : removedStates'[s] <= 1
    BY <1>4, <1>7
  <1>9. /\ Removed' \subseteq baseSearcher'
        /\ current \in pausedStates' => Removed' = {}
    BY <1>1, <1>3, <1>4
  <1>10. Executed' = Executed /\ (phase' = "autoOpen" => Op(Executed) = "close")
    BY DEF Executed
  <1>11. IterationIsOne'
    BY <1>1, <1>8, <1>9, <1>10 DEF IterationIsOne
  <1> QED
    BY <1>5, <1>6, <1>11 DEF ScheduleInv, RegionsOK, OnlyDeletionsFail

(* Who waits is allocated while the searcher lives, so a deletion fails    *)
(* only without the searcher.                                              *)
LEMMA DeleteNeverFails ==
    ASSUME ScheduleInv, phase = "delete", NEW s \in ES, searcher \/ DestroyedByDelete(s) = {}
    PROVE  DeleteFailure(s) = "none"
  <1> DEFINE H == DestroyedByDelete(s)
  <1>1. /\ RecordsInv /\ pausedStates = WaitingIn(MH, reachedCloseMerge)
        /\ searcher => pausedStates \subseteq states
        /\ H \in SUBSET MH
        /\ reachedCloseMerge \in [MH -> [Inst -> SUBSET ES]]
    BY DEF ScheduleInv, StepInv, RecordsInv, WaitingRecordsAgree, SearcherInStep, TypeOK,
           DestroyedByDelete
  <1>2. DeleteFailure(s) \notin RecordAssertions
    BY <1>1, DeleteDoesNotFail
  <1>3. DeleteFailure(s) =
          IF \E h \in MH : Holds(s, h) /\ s \notin openStates[h]
          THEN "removeOpenState: not found"
          ELSE IF ~(H \subseteq mergeGroups) THEN RegisteredAssert
          ELSE ReleaseFailure(H, pausedStates, reachedCloseMerge)
    BY DEF DeleteFailure
  <1> HIDE DEF H
  <1>4. \A h \in H, i \in Inst : reachedCloseMerge[h][i] \subseteq pausedStates
    BY <1>1 DEF WaitingIn
  <1>5. ~ReadsDeleted(H, reachedCloseMerge)
    BY <1>1, <1>4 DEF ReadsDeleted, Allocated, H
  <1>6. WaitingIn(H, reachedCloseMerge) \subseteq pausedStates
    BY <1>4 DEF WaitingIn
  <1>7. ReleaseFailure(H, pausedStates, reachedCloseMerge) = "none"
    BY <1>5, <1>6 DEF ReleaseFailure
  <1> QED
    BY <1>2, <1>3, <1>7 DEF RecordAssertions

(* Deleting a state keeps the invariant. *)
LEMMA ScheduleDelete ==
    ASSUME ScheduleInv, StepInv', phase = "delete", NEW s \in deleting,
           states' = states \ {s}, deleting' = deleting \ {s}, DeleteExecutionState(s),
           UNCHANGED <<created, addedStates, prevPC, phase, current, failed, closeMergeSet,
                       searcher>>
    PROVE  ScheduleInv'
  <1>1. /\ StepInv /\ TypeOK /\ RecordsInv /\ s \in ES /\ RegionsAreNested
        /\ pausedStates = WaitingIn(MH, reachedCloseMerge)
    BY DEF ScheduleInv, StepInv, RecordsInv, TypeOK, WaitingRecordsAgree
  <1> DEFINE freed == WaitingIn(DestroyedByDelete(s), reachedCloseMerge)
  <1>2. pausedStates' = pausedStates \ freed /\ baseSearcher' = baseSearcher \cup freed
    BY DEF DeleteExecutionState, ReleaseStates
  <1>3. freed \subseteq pausedStates
    BY <1>1 DEF WaitingIn, DestroyedByDelete
  <1>4. RegionsOK'
    <2>1. RegionsAreNested'
      BY <1>1, DeleteNested
    <2>2. openMergeStack' = [openMergeStack EXCEPT ![s] = << >>]
      BY DEF DeleteExecutionState
    <2>3. ~UseMerge => \A t \in ES : openMergeStack'[t] = << >>
      BY <1>1, <2>2 DEF ScheduleInv, TypeOK
    <2> QED
      BY <2>1, <2>3 DEF ScheduleInv, RegionsOK
  <1> HIDE DEF freed
  <1>5. SearcherInStep'
    BY <1>2, <1>3 DEF ScheduleInv, SearcherInStep
  <1>6. IterationIsOne'
    BY DEF IterationIsOne
  <1> QED
    BY <1>4, <1>5, <1>6 DEF ScheduleInv, RegionsOK, OnlyDeletionsFail


(* Opening a region keeps the regions in order. *)
LEMMA OpenRegions ==
    ASSUME ScheduleInv, current \in ES, current \notin pausedStates, HandleOpenMerge,
           closeMergeSet' \subseteq {CloseBlock[b] : b \in Blocks}
    PROVE  RegionsOK'
  <1>1. StepInv /\ RegionsAreNested
    BY DEF ScheduleInv
  <1>2. CASE UseMerge
    <2>1. RegionsAreNested'
      BY <1>1, <1>2, OpenNested DEF HandleOpenMerge
    <2> QED
      BY <1>2, <2>1 DEF RegionsOK
  <1>3. CASE ~UseMerge
    <2>1. UNCHANGED <<openMergeStack, reachedCloseMerge>>
      BY <1>3 DEF HandleOpenMerge, handlerVars
    <2>2. RegionsAreNested'
      BY <1>1, <2>1, NestedUnchanged
    <2> QED
      BY <1>3, <2>1, <2>2 DEF RegionsOK, ScheduleInv
  <1> QED
    BY <1>2, <1>3

(* A fork keeps the invariant. *)
LEMMA ScheduleFork ==
    ASSUME ScheduleInv, StepInv', phase = "execute", phase' = "autoOpen",
           Op(Executed) \in {"br", "switch", "load"},
           NEW choice, NEW targets, Fork(choice, targets),
           UNCHANGED <<states, removedStates, baseSearcher, pausedStates, reachedCloseMerge,
                       searcher, failed, current, closeMergeSet>>
    PROVE  ScheduleInv'
  <1>1. /\ StepInv /\ RecordsInv /\ RegionsAreNested
        /\ current \in Allocated /\ current \in ES /\ current \notin pausedStates
    BY CurrentScheduled DEF ScheduleInv, StepInv, WaitingApart
  <1>2. PICK copies, takes : ForkedAs(choice, targets, copies, takes)
    BY <1>1, ForkEffect
  <1>3. /\ copies \in SUBSET ES /\ copies \cap 1 .. created = {} /\ current \notin copies
        /\ \A s \in ES : /\ openMergeStack'[s] = IF s \in copies THEN openMergeStack[current]
                                                 ELSE openMergeStack[s]
                         /\ prevPC'[s] = IF s \in copies THEN prevPC[current] ELSE prevPC[s]
    BY <1>2 DEF ForkedAs
  <1>4. RegionsOK'
    <2>1. RegionsAreNested'
      BY <1>1, <1>3, ForkNested
    <2> QED
      BY <1>1, <1>3, <2>1 DEF RegionsOK, ScheduleInv
  <1>5. Removed' = Removed /\ Executed' = Executed
    BY <1>1, <1>3 DEF Removed, Executed
  <1>6. SearcherInStep'
    BY DEF ScheduleInv, SearcherInStep
  <1>7. IterationIsOne'
    BY <1>1, <1>5 DEF ScheduleInv, IterationIsOne
  <1> QED
    BY <1>4, <1>6, <1>7 DEF ScheduleInv, RegionsOK, OnlyDeletionsFail

(* Terminating the current state keeps the invariant. *)
LEMMA ScheduleTerminate ==
    ASSUME ScheduleInv, StepInv', phase = "execute", phase' = "autoOpen",
           Op(Executed) \in {"br", "exit", "load"}, Terminate({current}),
           UNCHANGED <<states, addedStates, prevPC, openMergeStack, baseSearcher, pausedStates,
                       reachedCloseMerge, searcher, failed, current, closeMergeSet>>
    PROVE  ScheduleInv'
  <1>1. /\ TypeOK /\ Removed = {} /\ current \in ES /\ current \notin pausedStates
        /\ current \in baseSearcher
    BY CurrentScheduled DEF ScheduleInv, StepInv, RecordsInv, WaitingApart, IterationIsOne
  <1>2. \A s \in ES : removedStates[s] = 0
    BY <1>1 DEF TypeOK, Removed
  <1>3. \A s \in ES : removedStates'[s] = IF s = current THEN 1 ELSE 0
    BY <1>1, <1>2 DEF Terminate
  <1>4. Removed' = {current}
    BY <1>1, <1>3 DEF Removed
  <1>5. Executed' = Executed
    BY DEF Executed
  <1>6. RegionsOK'
    BY RegionsUnchanged DEF ScheduleInv, RegionsOK
  <1>7. SearcherInStep'
    BY DEF ScheduleInv, SearcherInStep
  <1>8. \A s \in ES : removedStates'[s] <= 1
    BY <1>3
  <1>9. IterationIsOne'
    BY <1>1, <1>4, <1>5, <1>8 DEF IterationIsOne
  <1> QED
    BY <1>6, <1>7, <1>9 DEF ScheduleInv, RegionsOK, OnlyDeletionsFail

(* What reaches the base searcher in an update. *)
LEMMA ScheduleUpdate ==
    ASSUME ScheduleInv, StepInv', UpdateStates
    PROVE  /\ ScheduleInv'
           /\ UNCHANGED <<removedStates, constraints, covered, failed>>
           /\ states' = states \cup addedStates /\ addedStates' = {} /\ deleting' = Removed
           /\ phase' = "delete"
  <1>1. /\ phase = "update" /\ states = baseSearcher \cup pausedStates
        /\ Removed \subseteq baseSearcher /\ \A s \in ES : removedStates[s] <= 1
        /\ current \in pausedStates => Removed = {} /\ addedStates = {}
        /\ baseSearcher \cap pausedStates = {} /\ addedStates \cap pausedStates = {}
        /\ removedStates \in [ES -> Nat]
    BY DEF UpdateStates, ScheduleInv, SearcherInStep, IterationIsOne, StepInv, WaitingApart,
           RecordsInv, TypeOK
  <1>2. \A s \in ES : ~(removedStates[s] > 1)
    BY <1>1
  <1>3. /\ ~BaseUpdateFails /\ Removed \subseteq states \cup addedStates
        /\ ~\E s \in Removed : removedStates[s] > 1
    BY <1>1, <1>2 DEF BaseUpdateFails, Removed
  <1>4. /\ SearcherUpdate(current)
        /\ states' = states \cup addedStates /\ addedStates' = {} /\ deleting' = Removed
        /\ phase' = "delete"
        /\ UNCHANGED <<removedStates, openMergeStack, handlerVars, failed, closeMergeSet, searcher,
                       constraints, covered>>
    BY <1>3 DEF UpdateStates
  <1>5. /\ baseSearcher' = IF current \in pausedStates THEN baseSearcher
                           ELSE (baseSearcher \cup addedStates) \ Removed
        /\ pausedStates' = pausedStates
    BY <1>4 DEF SearcherUpdate
  <1>6. states' \ deleting' = baseSearcher' \cup pausedStates'
    BY <1>1, <1>4, <1>5
  <1>7. RegionsOK'
    BY <1>4, RegionsUnchanged DEF ScheduleInv, RegionsOK, handlerVars
  <1>8. SearcherInStep'
    BY <1>4, <1>6 DEF SearcherInStep
  <1>9. IterationIsOne'
    BY <1>4 DEF IterationIsOne
  <1> QED
    BY <1>4, <1>7, <1>8, <1>9 DEF ScheduleInv, RegionsOK, OnlyDeletionsFail


(* The selected state exists. *)
LEMMA ScheduleSelect ==
    ASSUME ScheduleInv, StepInv', phase = "select", NEW s \in baseSearcher, Select(s)
    PROVE  /\ ScheduleInv' /\ phase' = "execute"
           /\ UNCHANGED <<states, addedStates, removedStates, constraints, covered, failed>>
  <1>1. /\ s \in Allocated /\ s \notin pausedStates /\ Removed = {}
        /\ searcher /\ states = baseSearcher \cup pausedStates
        /\ \A t \in ES : removedStates[t] <= 1
    <2>1. removedStates \in [ES -> Nat] /\ Removed = {}
      BY DEF ScheduleInv, StepInv, RecordsInv, TypeOK, IterationIsOne
    <2>2. \A t \in ES : removedStates[t] = 0
      BY <2>1 DEF Removed
    <2> QED
      BY <2>1, <2>2 DEF ScheduleInv, SearcherInStep, StepInv, WaitingApart, Allocated
  <1>2. /\ current' = s /\ phase' = "execute"
        /\ UNCHANGED <<states, addedStates, removedStates, baseSearcher, pausedStates, searcher,
                       failed, openMergeStack, reachedCloseMerge, closeMergeSet, constraints,
                       covered>>
    BY <1>1 DEF Select, searcherVars, handlerVars
  <1>3. RegionsOK'
    BY <1>2, RegionsUnchanged DEF ScheduleInv, RegionsOK
  <1>4. Removed' = {}
    BY <1>1, <1>2 DEF Removed
  <1>5. SearcherInStep'
    BY <1>1, <1>2 DEF SearcherInStep
  <1>6. IterationIsOne'
    BY <1>1, <1>2, <1>4 DEF IterationIsOne
  <1> QED
    BY <1>2, <1>3, <1>5, <1>6 DEF ScheduleInv, RegionsOK, OnlyDeletionsFail

(* With regular merging a group is never released early. *)
LEMMA NoPreemption ==
    ASSUME RegularMerging, ScheduleInv, UseIncompleteMerge, NEW h \in mergeGroups
    PROVE  ~HasMergedStates(h)
  <1>1. StepInv /\ h \in MH /\ \A s \in ES : openMergeStack[s] = << >>
    BY DEF RegularMerging, ScheduleInv, StepInv, RecordsInv, TypeOK
  <1> QED
    BY <1>1, NobodyWaits

(* Every step keeps the invariant. *)
LEMMA NextSchedule ==
    ASSUME RegularMerging, ScheduleInv, [Next]_vars
    PROVE  ScheduleInv'
  <1>1. /\ StepInv /\ StepInv' /\ RegionsOK /\ phase # "selecting"
    BY NextStep DEF ScheduleInv, RegionsOK
  <1>2. ASSUME UNCHANGED <<esVars, searcherVars, handlerVars, current, failed, closeMergeSet,
                           searcher>>,
               \/ phase = "execute" /\ phase' = "autoOpen"
               \/ phase = "autoOpen" /\ phase' = "autoClose"
               \/ phase = "autoClose" /\ phase' = "memory"
               \/ phase = "memory" /\ phase' = "update"
        PROVE  ScheduleInv'
    <2>1. RegionsOK'
      BY <1>1, <1>2, RegionsUnchanged DEF esVars, handlerVars
    <2> QED
      BY <1>1, <1>2, <2>1, ScheduleQuiet DEF esVars, searcherVars
  <1>3. ASSUME NEW next \in {"autoOpen", "memory"},
               \/ phase = "execute" /\ Op(Executed) = "close" /\ next = "autoOpen"
               \/ phase = "autoClose" /\ AtClosePoint /\ next = "memory",
               HandleCloseMerge(next)
        PROVE  ScheduleInv'
    <2>1. CASE ~ClosesRegion
      BY <1>2, <1>3, <2>1 DEF HandleCloseMerge
    <2>2. CASE ClosesRegion
      <3>1. CloseMergeFailure(current, Executed) = "none"
        BY <1>3, <2>2, CloseNeverFails
      <3>2. /\ CloseMerge(current, Executed) /\ phase' = next
            /\ UNCHANGED <<created, states, addedStates, prevPC, current, failed, closeMergeSet,
                           searcher>>
        BY <1>3, <2>2, <3>1, Zenon DEF HandleCloseMerge
      <3> QED
        BY <1>1, <1>3, <2>2, <3>2, ScheduleClose
    <2> QED
      BY <2>1, <2>2
  <1>4. CASE SelectFromEmpty
    BY <1>1, <1>4, SomebodyScheduled DEF SelectFromEmpty, Selecting
  <1>5. CASE SelectBase
    BY <1>1, <1>5, ScheduleSelect DEF SelectBase, Selecting
  <1>6. CASE SelectPrioritized \/ ReleasePreemptively
    BY <1>6, NoPreemption DEF SelectPrioritized, ReleasePreemptively
  <1>7. CASE ExecutePlain
    BY <1>2, <1>7 DEF ExecutePlain, Executing
  <1>8. CASE ExecuteAlloc
    <2>1. /\ phase = "execute" /\ phase' = "autoOpen"
          /\ UNCHANGED <<states, addedStates, removedStates, baseSearcher, pausedStates, searcher,
                         failed, prevPC, current, openMergeStack, reachedCloseMerge, closeMergeSet>>
      BY <1>8 DEF ExecuteAlloc, Executing, searcherVars, handlerVars
    <2> QED
      BY <1>1, <2>1, ScheduleQuiet, RegionsUnchanged
  <1>9. CASE ExecuteBranch
    <2>1. PICK choice : Fork(choice, Succ(Executed))
      BY <1>9, Zenon DEF ExecuteBranch
    <2> DEFINE targets == Succ(Executed)
    <2>2. /\ phase = "execute" /\ phase' = "autoOpen" /\ Fork(choice, targets)
          /\ Op(Executed) \in {"br", "switch", "load"}
          /\ UNCHANGED <<states, removedStates, baseSearcher, pausedStates, reachedCloseMerge,
                         searcher, failed, current, closeMergeSet>>
      BY <1>9, <2>1 DEF ExecuteBranch, Executing, searcherVars
    <2> HIDE DEF targets
    <2> QED
      BY <1>1, <2>2, ScheduleFork
  <1>10. CASE ExecuteMemoryOperation
    <2> DEFINE targets == <<NextInst(Executed), NextInst(Executed)>>
    <2>1. PICK choice : Fork(choice, targets)
      BY <1>10, Zenon DEF ExecuteMemoryOperation
    <2>2. /\ phase = "execute" /\ phase' = "autoOpen" /\ Fork(choice, targets)
          /\ Op(Executed) \in {"br", "switch", "load"}
          /\ UNCHANGED <<states, removedStates, baseSearcher, pausedStates, reachedCloseMerge,
                         searcher, failed, current, closeMergeSet>>
      BY <1>10, <2>1 DEF ExecuteMemoryOperation, Executing, searcherVars
    <2> HIDE DEF targets
    <2> QED
      BY <1>1, <2>2, ScheduleFork
  <1>11. CASE ExecuteBranchTooDeep \/ ExecuteExit \/ ExecuteTimedOut
    <2>1. /\ phase = "execute" /\ phase' = "autoOpen" /\ Terminate({current})
          /\ Op(Executed) \in {"br", "exit", "load"}
          /\ UNCHANGED <<states, addedStates, prevPC, openMergeStack, baseSearcher, pausedStates,
                         reachedCloseMerge, searcher, failed, current, closeMergeSet>>
      BY <1>11 DEF ExecuteBranchTooDeep, ExecuteExit, ExecuteTimedOut, Executing, searcherVars, handlerVars
    <2> QED
      BY <1>1, <2>1, ScheduleTerminate
  <1>12. CASE ExecuteOpenMerge \/ AutoOpen
    <2>1. /\ HandleOpenMerge
          /\ \/ phase = "execute" /\ phase' = "autoOpen"
             \/ phase = "autoOpen" /\ phase' = "autoClose"
          /\ \/ closeMergeSet' = closeMergeSet
             \/ closeMergeSet' = closeMergeSet \cup {CloseBlock[BlockOf(Executed)]}
          /\ UNCHANGED <<states, addedStates, removedStates, searcher, failed, prevPC, current>>
      BY <1>12 DEF ExecuteOpenMerge, AutoOpen, Executing, HandleOpenMerge
    <2>2. UNCHANGED <<baseSearcher, pausedStates>>
      BY <2>1 DEF HandleOpenMerge, OpenMerge, searcherVars
    <2>3. current \in ES /\ current \notin pausedStates /\ Executed \in Inst
      BY <1>12, CurrentScheduled
      DEF ExecuteOpenMerge, AutoOpen, OpensRegion, Executing, Executed, ScheduleInv, StepInv,
          WaitingApart, RecordsInv, TypeOK
    <2>4. BlockOf(Executed) \in Blocks
      BY <2>3 DEF Blocks
    <2>5. RegionsOK'
      <3>1. closeMergeSet' \subseteq {CloseBlock[b] : b \in Blocks}
        BY <2>1, <2>4 DEF ScheduleInv
      <3> QED
        BY <2>1, <2>3, <3>1, OpenRegions
    <2> QED
      BY <1>1, <2>1, <2>2, <2>5, ScheduleQuiet
  <1>13. CASE ExecuteCloseMerge \/ AutoClose
    BY <1>3, <1>13 DEF ExecuteCloseMerge, AutoClose, Executing
  <1>14. CASE NoAutoOpen \/ NoAutoClose \/ UnderMemoryLimit
    BY <1>2, <1>14 DEF NoAutoOpen, NoAutoClose, UnderMemoryLimit
  <1>15. CASE KillStates
    BY <1>15 DEF KillStates, RegularMerging
  <1>16. CASE UpdateStates
    BY <1>1, <1>16, ScheduleUpdate
  <1>17. CASE DeleteState
    <2>1. PICK s \in deleting :
            IF DestroyedByDelete(s) # {} /\ ~searcher
            THEN Abort("use of the deleted searcher")
            ELSE IF DeleteFailure(s) # "none"
            THEN Abort(DeleteFailure(s))
            ELSE /\ states' = states \ {s} /\ deleting' = deleting \ {s}
                 /\ DeleteExecutionState(s)
                 /\ UNCHANGED <<created, addedStates, prevPC, phase, current, failed,
                                closeMergeSet, searcher>>
      BY <1>17, Zenon DEF DeleteState
    <2>2. phase = "delete" /\ s \in ES
      BY <1>17 DEF DeleteState, ScheduleInv, StepInv, RecordsInv, TypeOK
    <2>3. CASE DestroyedByDelete(s) # {} /\ ~searcher
      BY <1>1, <2>1, <2>3, ScheduleAborted DEF DeletionFailures
    <2>4. CASE ~(DestroyedByDelete(s) # {} /\ ~searcher)
      <3>1. DeleteFailure(s) = "none"
        BY <2>2, <2>4, DeleteNeverFails
      <3> QED
        BY <1>1, <2>1, <2>2, <2>4, <3>1, ScheduleDelete
    <2> QED
      BY <2>3, <2>4
  <1>18. CASE DeleteThroughStaleIterator
    BY <1>1, <1>18, ScheduleAborted DEF DeleteThroughStaleIterator, DeletionFailures
  <1>19. CASE EndUpdate
    <2>1. /\ phase = "delete" /\ deleting = {} /\ phase' = IF searcher THEN "select" ELSE "done"
          /\ removedStates' = [s \in ES |-> 0]
          /\ UNCHANGED <<states, baseSearcher, pausedStates, searcher, failed, openMergeStack,
                         reachedCloseMerge, closeMergeSet>>
      BY <1>19 DEF EndUpdate, searcherVars, handlerVars
    <2>2. Removed' = {}
      BY <2>1 DEF Removed
    <2>3. SearcherInStep'
      BY <2>1 DEF ScheduleInv, SearcherInStep
    <2>4. IterationIsOne'
      BY <2>1, <2>2 DEF IterationIsOne
    <2>5. RegionsOK'
      BY <1>1, <2>1, RegionsUnchanged
    <2> QED
      BY <1>1, <2>1, <2>3, <2>4, <2>5 DEF ScheduleInv, RegionsOK, OnlyDeletionsFail
  <1>20. CASE Halt \/ Finish
    <2>1. /\ phase' \in {"delete", "done"} /\ ~searcher'
          /\ UNCHANGED <<failed, openMergeStack, reachedCloseMerge, closeMergeSet>>
      BY <1>20 DEF Halt, Finish, esVars, handlerVars
    <2>2. RegionsOK'
      BY <1>1, <2>1, RegionsUnchanged
    <2> QED
      BY <1>1, <2>1, <2>2
      DEF ScheduleInv, RegionsOK, OnlyDeletionsFail, SearcherInStep, IterationIsOne
  <1>21. CASE UNCHANGED vars
    <2>1. UNCHANGED <<states, addedStates, removedStates, baseSearcher, pausedStates, searcher,
                      failed, prevPC, current, phase, deleting, openMergeStack, reachedCloseMerge,
                      closeMergeSet>>
      BY <1>21 DEF vars, esVars, searcherVars, handlerVars, loopVars
    <2>2. RegionsOK'
      BY <1>1, <2>1, RegionsUnchanged
    <2>3. Removed' = Removed /\ Executed' = Executed
      BY <2>1 DEF Removed, Executed
    <2> QED
      BY <1>1, <2>1, <2>2, <2>3
      DEF ScheduleInv, RegionsOK, OnlyDeletionsFail, SearcherInStep, IterationIsOne
  <1> QED
    BY <1>4, <1>5, <1>6, <1>7, <1>8, <1>9, <1>10, <1>11, <1>12, <1>13, <1>14, <1>15, <1>16, <1>17,
       <1>18, <1>19, <1>20, <1>21 DEF Next, Iterate, Terminated

(* The invariant holds initially. *)
LEMMA InitSchedule ==
    ASSUME Init
    PROVE  ScheduleInv
  <1>1. StepInv
    BY InitStep
  <1>2. /\ openMergeStack = [s \in ES |-> << >>]
        /\ reachedCloseMerge = [h \in MH |-> [i \in Inst |-> {}]]
        /\ removedStates = [s \in ES |-> 0]
        /\ pausedStates = {} /\ baseSearcher = {1} /\ states = {1} /\ searcher
        /\ phase = "select" /\ failed = "none" /\ closeMergeSet = {}
    BY DEF Init, EStateInit, SearcherInit, HandlerInit
  <1>3. \A h \in MH, i \in Inst : reachedCloseMerge[h][i] = {}
    BY <1>2
  <1>4. RegionsAreNested
    BY <1>2, <1>3 DEF RegionsAreNested
  <1>5. Removed = {}
    BY <1>2 DEF Removed
  <1> QED
    BY <1>1, <1>2, <1>4, <1>5
    DEF ScheduleInv, SearcherInStep, IterationIsOne, OnlyDeletionsFail

(* The invariant of regular merging holds in every run. *)
LEMMA ScheduleInvariant == RegularMerging => (Spec => []ScheduleInv)
  <1> SUFFICES ASSUME RegularMerging PROVE Spec => []ScheduleInv
    OBVIOUS
  <1>1. Init => ScheduleInv
    BY InitSchedule
  <1>2. ScheduleInv /\ [Next]_vars => ScheduleInv'
    BY NextSchedule
  <1> QED
    BY <1>1, <1>2, PTL DEF Spec

(* Between two steps every state of the executor is either scheduled by    *)
(* the base searcher or paused, and not both.                              *)
THEOREM EveryStateScheduledTheorem == RegularMerging => (Spec => []EveryStateScheduled)
  <1> SUFFICES ASSUME RegularMerging PROVE Spec => []EveryStateScheduled
    OBVIOUS
  <1>1. ScheduleInv => EveryStateScheduled
    BY DEF ScheduleInv, SearcherInStep, EveryStateScheduled, StepInv, WaitingApart
  <1>2. Spec => []ScheduleInv
    BY ScheduleInvariant
  <1> QED
    BY <1>1, <1>2, PTL

(* The only failures are those of a handler that dies with a state: no     *)
(* state runs into close_merge while it is closed, no deleted state is     *)
(* used, no unknown state is removed, and the states never wait for each   *)
(* other with none left to select.                                         *)
THEOREM OnlyDeletionsFailTheorem == RegularMerging => (Spec => []OnlyDeletionsFail)
  <1> SUFFICES ASSUME RegularMerging PROVE Spec => []OnlyDeletionsFail
    OBVIOUS
  <1>1. ScheduleInv => OnlyDeletionsFail
    BY DEF ScheduleInv
  <1>2. Spec => []ScheduleInv
    BY ScheduleInvariant
  <1> QED
    BY <1>1, <1>2, PTL


-----------------------------------------------------------------------------
(***************************************************************************)
(* The inputs.                                                             *)
(***************************************************************************)

(* The live states carry the parts of a partition that leaves out what has *)
(* been explored.                                                          *)
PartsOK == InputsOnce /\ \A s \in Live : constraints[s] # {}

(* The variables of Exploration. *)
partVars == <<Pending, covered>>

(* What the exploration allows a step to do. *)
Explores == Explored!Next \/ UNCHANGED partVars

(* No two live states carry the same part, so the parts are a partition.   *)
LEMMA PartsPartition ==
    ASSUME PartsOK
    PROVE  /\ Explored!Partition(Pending)
           /\ \A s, t \in Live : constraints[s] = constraints[t] => s = t
  BY DEF PartsOK, InputsOnce, Explored!Partition, Pending

(* A step that leaves the live states and their inputs alone. *)
LEMMA SameParts ==
    ASSUME PartsOK, Live' = Live, covered' = covered,
           \A s \in Live : constraints'[s] = constraints[s]
    PROVE  PartsOK' /\ Explores
  <1>1. Pending' = Pending
    BY DEF Pending
  <1>2. PartsOK'
    BY DEF PartsOK, InputsOnce
  <1> QED
    BY <1>1, <1>2 DEF Explores, partVars

(* A step that terminates live states and explores what they carry. *)
LEMMA PartsEnd ==
    ASSUME PartsOK, NEW S, S \subseteq Live, Live' = Live \ S,
           \A s \in Live : constraints'[s] = constraints[s],
           covered' = covered \cup UNION {constraints[s] : s \in S}
    PROVE  PartsOK' /\ Explores
  <1>1. \A s, t \in Live : constraints[s] = constraints[t] => s = t
    BY PartsPartition
  <1>2. Pending' \subseteq Pending /\ Pending \ Pending' = {constraints[s] : s \in S}
    BY <1>1 DEF Pending
  <1>3. Explored!End
    BY <1>2 DEF Explored!End
  <1>4. \A s \in Live' : constraints[s] \cap UNION {constraints[t] : t \in S} = {}
    BY DEF PartsOK, InputsOnce
  <1>5. PartsOK'
    <2>1. \A s \in Live' : /\ constraints'[s] = constraints[s] /\ constraints[s] # {}
                           /\ constraints[s] \cap covered = {}
      BY DEF PartsOK, InputsOnce
    <2>2. \A s \in Live' : constraints'[s] \cap covered' = {}
      BY <1>4, <2>1
    <2>3. \A s, t \in Live' : s # t => constraints'[s] \cap constraints'[t] = {}
      BY <2>1 DEF PartsOK, InputsOnce
    <2> QED
      BY <2>1, <2>2, <2>3 DEF PartsOK, InputsOnce
  <1> QED
    BY <1>3, <1>5 DEF Explores, Explored!Next

(* A step in which live states absorb each other in pairs. *)
LEMMA PartsJoin ==
    ASSUME PartsOK, TypeOK, NEW freed, NEW got, MergedAs(got, freed),
           \A s \in ES : got[s] # NoState => s \in Live /\ got[s] \in Live,
           Live' = Live \ Absorbed(got), covered' = covered
    PROVE  PartsOK' /\ Explores
  <1>1. Live \subseteq ES /\ NoState \notin ES
    <2>1. NoState \notin ES
      BY DEF ES, NoState
    <2> QED
      BY <2>1 DEF Live, Allocated, TypeOK
  <1>2. /\ \A s \in ES : got[s] = NoState => constraints'[s] = constraints[s]
        /\ \A s \in ES : got[s] # NoState =>
              /\ got[s] \in ES /\ got[s] # s /\ got[got[s]] = NoState
              /\ constraints'[s] = constraints[s] \cup constraints[got[s]]
        /\ \A s, t \in ES : got[s] = got[t] /\ got[s] # NoState => s = t
    BY DEF MergedAs
  <1>3. \A s \in Live' : s \in Live /\ \A t \in ES : got[t] # s
    BY <1>1 DEF Absorbed
  <1>4. \A s \in Live : constraints[s] \subseteq constraints'[s]
    BY <1>1, <1>2
  <1>5. \A s \in ES : got[s] # NoState => s \in Live'
    BY <1>1, <1>2 DEF Absorbed
  <1>6. ASSUME NEW s \in Live', NEW x \in constraints'[s]
        PROVE  \E u \in Live : x \in constraints[u] /\ constraints[u] \subseteq constraints'[s]
                               /\ (u = s \/ u = got[s])
    BY <1>1, <1>2, <1>3
  <1>7. PartsOK'
    <2>1. ASSUME NEW s \in Live', NEW t \in Live', s # t
          PROVE  constraints'[s] \cap constraints'[t] = {}
      <3> SUFFICES ASSUME NEW x, x \in constraints'[s], x \in constraints'[t] PROVE FALSE
        OBVIOUS
      <3>1. PICK u \in Live : x \in constraints[u] /\ (u = s \/ u = got[s])
        BY <1>6
      <3>2. PICK v \in Live : x \in constraints[v] /\ (v = t \/ v = got[t])
        BY <1>6
      <3>3. u = v
        BY <3>1, <3>2 DEF PartsOK, InputsOnce
      <3> QED
        BY <1>1, <1>2, <1>3, <2>1, <3>1, <3>2, <3>3
    <2>2. ASSUME NEW s \in Live' PROVE constraints'[s] \cap covered' = {} /\ constraints'[s] # {}
      <3>1. s \in Live /\ constraints[s] # {}
        BY <1>3 DEF PartsOK
      <3>2. \A u \in Live : constraints[u] \cap covered = {}
        BY DEF PartsOK, InputsOnce
      <3> QED
        BY <1>4, <1>6, <3>1, <3>2
    <2> QED
      BY <2>1, <2>2 DEF PartsOK, InputsOnce
  <1>8. Explored!Partition(Pending)'
    BY <1>7, PTL, PartsPartition
  <1>9. Explored!Join
    <2>1. ASSUME NEW q \in Pending' PROVE q = UNION {p \in Pending : p \subseteq q}
      <3>1. PICK s \in Live' : q = constraints'[s]
        BY DEF Pending
      <3>2. \A x \in q : \E p \in Pending : x \in p /\ p \subseteq q
        BY <1>6, <3>1 DEF Pending
      <3> QED
        BY <3>2
    <2>2. ASSUME NEW p \in Pending PROVE \E q \in Pending' : p \subseteq q
      <3>1. PICK s \in Live : p = constraints[s]
        BY DEF Pending
      <3>2. CASE s \in Live'
        BY <1>4, <3>1, <3>2 DEF Pending
      <3>3. CASE s \notin Live'
        <4>1. PICK u \in ES : got[u] = s
          BY <3>3 DEF Absorbed
        <4>2. u \in Live' /\ constraints[s] \subseteq constraints'[u]
          BY <1>1, <1>2, <1>5, <4>1
        <4> QED
          BY <3>1, <4>2 DEF Pending
      <3> QED
        BY <3>2, <3>3
    <2>3. UNION Pending' = UNION Pending
      <3>1. \A x \in UNION Pending' : x \in UNION Pending
        BY <2>1
      <3>2. \A x \in UNION Pending : x \in UNION Pending'
        BY <2>2
      <3> QED
        BY <3>1, <3>2
    <2> QED
      BY <1>8, <2>1, <2>3 DEF Explored!Join
  <1> QED
    BY <1>7, <1>9 DEF Explores, Explored!Next


(* The targets of a fork are taken by one state each. *)
LEMMA AllTargetsTaken ==
    ASSUME TypeOK, current \in ES, NEW choice, NEW targets, Len(targets) \in Nat,
           NEW copies, NEW takes, ForkedAs(choice, targets, copies, takes),
           NEW k \in 1 .. Len(targets), \E x \in constraints[current] : choice[x] = k
    PROVE  \E s \in copies \cup {current} : takes[s] = k
  <1> DEFINE feasible == {j \in 1 .. Len(targets) : \E x \in constraints[current] : choice[x] = j}
             takers == copies \cup {current}
  <1>1. /\ takes \in [takers -> feasible] /\ current \notin copies
        /\ \A s, t \in takers : s < t => takes[s] < takes[t]
        /\ Cardinality(feasible) = created' - created + 1
        /\ copies = (created + 1) .. created' /\ created' \in ES /\ created <= created'
        /\ copies \subseteq ES
    BY DEF ForkedAs
  <1>2. created \in Int /\ created' \in Int
    BY <1>1 DEF TypeOK, ES
  <1>3. IsFiniteSet(copies) /\ Cardinality(copies) = created' - created
    <2>1. PICK a \in Int, b \in Int : a = created + 1 /\ b = created'
      BY <1>2
    <2>2. IsFiniteSet(a .. b) /\ Cardinality(a .. b) = IF a > b THEN 0 ELSE b - a + 1
      BY FS_Interval
    <2>3. copies = a .. b
      BY <1>1, <2>1
    <2>4. (IF a > b THEN 0 ELSE b - a + 1) = created' - created
      <3>1. PICK c \in Int : c = created
        BY <1>2
      <3>2. c <= b /\ a = c + 1
        BY <1>1, <2>1, <3>1
      <3>3. CASE a > b
        <4>1. b = c
          BY <3>2, <3>3
        <4>2. b - c = 0
          BY <4>1
        <4> QED
          BY <2>1, <3>1, <3>3, <4>2
      <3>4. CASE ~(a > b)
        <4>1. b - a + 1 = b - c
          BY <3>2
        <4> QED
          BY <2>1, <3>1, <3>4, <4>1
      <3> QED
        BY <3>3, <3>4
    <2> QED
      BY <2>2, <2>3, <2>4
  <1>4. IsFiniteSet(takers) /\ Cardinality(takers) = created' - created + 1
    <2>1. /\ IsFiniteSet(copies \cup {current})
          /\ Cardinality(copies \cup {current})
               = IF current \in copies THEN Cardinality(copies) ELSE Cardinality(copies) + 1
      BY <1>3, FS_AddElement
    <2> QED
      BY <1>1, <1>3, <2>1
  <1>5. IsFiniteSet(feasible)
    <2>1. IsFiniteSet(1 .. Len(targets))
      BY FS_Interval
    <2> QED
      BY <2>1, FS_Subset
  <1>6. k \in feasible
    OBVIOUS
  <1>7. takers \subseteq Int /\ feasible \subseteq Int
    BY <1>1 DEF ES
  <1> HIDE DEF takers, feasible
  <1>8. \A s, t \in takers : takes[s] = takes[t] => s = t
    <2> SUFFICES ASSUME NEW s \in takers, NEW t \in takers, takes[s] = takes[t], s # t PROVE FALSE
      OBVIOUS
    <2>1. s \in Int /\ t \in Int /\ takes[s] \in Int /\ takes[t] \in Int
      BY <1>1, <1>7
    <2>2. s < t \/ t < s
      BY <2>1
    <2> QED
      BY <1>1, <2>1, <2>2
  <1>9. takes \in Injection(takers, feasible)
    BY <1>1, <1>8 DEF Injection, IsInjective
  <1>10. takes \in Surjection(takers, feasible)
    BY <1>1, <1>4, <1>5, <1>9, FS_Injection
  <1> QED
    BY <1>6, <1>10 DEF Surjection, takers

(* A fork divides the part of the current state. *)
LEMMA PartsDivide ==
    ASSUME PartsOK, TypeOK, current \in Live, NEW choice, NEW targets, Len(targets) \in Nat,
           NEW copies, NEW takes, ForkedAs(choice, targets, copies, takes),
           Live' = Live \cup copies,
           covered' = covered \cup {x \in constraints[current] : choice[x] \notin 1 .. Len(targets)}
    PROVE  PartsOK' /\ Explores
  <1> DEFINE p == constraints[current]
             takers == copies \cup {current}
             Part(s) == {x \in p : choice[x] = takes[s]}
             others == Live \ {current}
             parts == {Part(s) : s \in takers}
  <1>1. Live \subseteq ES /\ Live \subseteq Allocated
    BY DEF Live, Allocated, TypeOK
  <1>2. /\ copies \subseteq ES /\ copies \cap Allocated = {} /\ current \notin copies
        /\ \A s \in ES : constraints'[s] = IF s \in takers THEN Part(s) ELSE constraints[s]
        /\ \A s, t \in takers : s < t => takes[s] < takes[t]
        /\ takes \in [takers -> {k \in 1 .. Len(targets) : \E x \in p : choice[x] = k}]
    BY DEF ForkedAs
  <1>3. takers \subseteq ES /\ others \cap takers = {} /\ Live' = others \cup takers
    BY <1>1, <1>2
  <1>4. \A s \in takers : Part(s) # {} /\ Part(s) \subseteq p /\ takes[s] \in 1 .. Len(targets)
    BY <1>2
  <1>5. \A s, t \in takers : s # t => Part(s) \cap Part(t) = {}
    <2> SUFFICES ASSUME NEW s \in takers, NEW t \in takers, s # t PROVE takes[s] # takes[t]
      OBVIOUS
    <2>1. s \in Int /\ t \in Int /\ takes[s] \in Int /\ takes[t] \in Int
      BY <1>3, <1>4 DEF ES
    <2>2. s < t \/ t < s
      BY <2>1
    <2> QED
      BY <1>2, <2>1, <2>2
  <1>6. ASSUME NEW x \in p
        PROVE  choice[x] \in 1 .. Len(targets) <=> \E s \in takers : x \in Part(s)
    <2>1. ASSUME choice[x] \in 1 .. Len(targets) PROVE \E s \in takers : takes[s] = choice[x]
      BY <1>1, <2>1, AllTargetsTaken
    <2> QED
      BY <1>4, <2>1
  <1>7. /\ \A s \in takers : constraints'[s] = Part(s)
        /\ \A s \in others : constraints'[s] = constraints[s]
    BY <1>1, <1>2, <1>3
  <1>8. /\ \A s \in others : /\ constraints[s] \cap p = {} /\ constraints[s] # {}
                             /\ constraints[s] \cap covered = {}
        /\ p # {} /\ p \cap covered = {} /\ p \in Pending
    BY DEF PartsOK, InputsOnce, Pending
  <1>9. covered' = covered \cup (p \ UNION parts) /\ UNION parts \subseteq p
    BY <1>4, <1>6
  <1>10. PartsOK'
    <2>1. \A s, t \in others : s # t => constraints[s] \cap constraints[t] = {}
      BY DEF PartsOK, InputsOnce
    <2>2. \A s, t \in Live' : s # t => constraints'[s] \cap constraints'[t] = {}
      BY <1>3, <1>4, <1>5, <1>7, <1>8, <2>1
    <2>3. \A s \in takers : Part(s) \cap covered' = {}
      BY <1>4, <1>8, <1>9
    <2>4. \A s \in others : constraints[s] \cap covered' = {}
      BY <1>8, <1>9
    <2>5. \A s \in Live' : constraints'[s] # {} /\ constraints'[s] \cap covered' = {}
      BY <1>3, <1>4, <1>7, <1>8, <2>3, <2>4
    <2> QED
      BY <2>2, <2>5 DEF PartsOK, InputsOnce
  <1>11. Explored!Partition(Pending)'
    BY <1>10, PTL, PartsPartition
  <1>12. Pending \ {p} = {constraints[s] : s \in others}
    BY <1>8 DEF Pending
  <1>13. Pending' = (Pending \ {p}) \cup parts
    <2>1. Pending' = {constraints'[s] : s \in others} \cup {constraints'[s] : s \in takers}
      BY <1>3 DEF Pending
    <2>2. {constraints'[s] : s \in others} = {constraints[s] : s \in others}
      BY <1>7
    <2>3. {constraints'[s] : s \in takers} = parts
      <3> HIDE DEF Part, takers
      <3> QED
        BY <1>7
    <2> QED
      BY <1>12, <2>1, <2>2, <2>3
  <1>14. parts \cap (Pending \ {p}) = {}
    BY <1>4, <1>8, <1>12
  <1>15. Pending' \ (Pending \ {p}) = parts
    BY <1>13, <1>14
  <1>16. Explored!Divide
    <2> HIDE DEF p, parts
    <2>1. /\ Pending \ {p} \subseteq Pending'
          /\ UNION (Pending' \ (Pending \ {p})) \subseteq p
          /\ covered' = covered \cup (p \ UNION (Pending' \ (Pending \ {p})))
      BY <1>9, <1>13, <1>15
    <2> QED
      BY <1>8, <1>11, <2>1 DEF Explored!Divide
  <1> QED
    BY <1>10, <1>16 DEF Explores, Explored!Next


(* What PartitionInv adds to ScheduleInv holds after the step, and the     *)
(* step explores.                                                          *)
Advances ==
    /\ NoFailure' /\ PartsOK' /\ Explores
    /\ phase' = "delete" => Removed' \cap states' \subseteq deleting'

(* While nothing is terminated all states are live. *)
LEMMA NothingRemoved ==
    ASSUME TypeOK, Removed = {}
    PROVE  Live = Allocated /\ \A s \in ES : removedStates[s] = 0
  <1>1. \A s \in ES : removedStates[s] = 0
    BY DEF TypeOK, Removed
  <1> QED
    BY <1>1 DEF Live, Allocated, TypeOK

(* Forks. *)
LEMMA ForkAdvances ==
    ASSUME PartitionInv, phase = "execute", phase' = "autoOpen",
           NEW choice, NEW targets, Len(targets) \in Nat, Fork(choice, targets),
           covered' = covered \cup {x \in constraints[current] : choice[x] \notin 1 .. Len(targets)},
           UNCHANGED <<states, removedStates, failed>>
    PROVE  Advances
  <1>1. /\ TypeOK /\ RecordsInv /\ PartsOK /\ current \in Allocated /\ Removed = {}
    BY CurrentScheduled DEF PartitionInv, PartsOK, ScheduleInv, StepInv, RecordsInv,
       IterationIsOne, StatesNumbered
  <1>2. Live = Allocated /\ \A s \in ES : removedStates[s] = 0
    BY <1>1, NothingRemoved
  <1>3. PICK copies, takes : ForkedAs(choice, targets, copies, takes)
    BY <1>1, ForkEffect
  <1>4. copies \subseteq ES /\ addedStates' = addedStates \cup copies
    BY <1>3 DEF ForkedAs
  <1>5. Live' = Live \cup copies
    <2>1. Allocated' = Allocated \cup copies /\ Allocated \subseteq ES
      BY <1>1, <1>4 DEF Allocated, TypeOK
    <2> QED
      BY <1>2, <1>4, <2>1 DEF Live
  <1>6. PartsOK' /\ Explores
    BY <1>1, <1>2, <1>3, <1>5, PartsDivide
  <1> QED
    BY <1>6 DEF Advances, PartitionInv, NoFailure

(* Terminations. *)
LEMMA TerminateAdvances ==
    ASSUME PartitionInv, phase \in {"select", "execute"}, NEW S \in SUBSET states, Terminate(S),
           phase' = "delete" => S = states /\ deleting' = states /\ addedStates = {},
           UNCHANGED <<states, addedStates, constraints, failed>>
    PROVE  Advances
  <1>1. /\ TypeOK /\ PartsOK /\ Removed = {}
    BY DEF PartitionInv, PartsOK, ScheduleInv, StepInv, RecordsInv, IterationIsOne
  <1>2. Live = Allocated /\ \A s \in ES : removedStates[s] = 0
    BY <1>1, NothingRemoved
  <1>3. S \subseteq Live /\ Allocated \subseteq ES /\ Allocated' = Allocated
    BY <1>1, <1>2 DEF Allocated, TypeOK
  <1>4. /\ \A s \in ES : removedStates'[s] = IF s \in S THEN 1 ELSE 0
        /\ covered' = covered \cup UNION {constraints[s] : s \in S}
    BY <1>2 DEF Terminate
  <1>5. Live' = Live \ S
    BY <1>2, <1>3, <1>4 DEF Live
  <1>6. PartsOK' /\ Explores
    BY <1>1, <1>3, <1>4, <1>5, PartsEnd
  <1> QED
    BY <1>6 DEF Advances, PartitionInv, NoFailure

(* Closing a region. *)
LEMMA CloseAdvances ==
    ASSUME RegularMerging, PartitionInv, ClosesRegion,
           \/ phase = "execute" /\ Op(Executed) = "close"
           \/ phase = "autoClose" /\ AtClosePoint,
           CloseMergeFailure(current, Executed) = "none", CloseMerge(current, Executed),
           phase' # "delete",
           UNCHANGED <<states, addedStates, failed, covered>>
    PROVE  Advances
  <1>1. /\ StepInv /\ TypeOK /\ PartsOK /\ Removed = {} /\ ScheduleInv
    BY BeforeClose DEF PartitionInv, PartsOK, ScheduleInv, StepInv, RecordsInv
  <1>2. current \in ES /\ Executed \in Inst /\ openMergeStack[current] # << >>
    BY <1>1 DEF TypeOK, Executed, ClosesRegion
  <1>3. PICK freed \in SUBSET (pausedStates \cup {current}) : \E got : MergedAs(got, freed)
    BY <1>1, <1>2, CloseEffect
  <1>4. PICK got : MergedAs(got, freed)
    BY <1>3
  <1>5. Live = Allocated /\ \A s \in ES : removedStates[s] = 0
    BY <1>1, NothingRemoved
  <1>6. /\ \A s \in ES : got[s] # NoState => s \in Live /\ got[s] \in Live
        /\ \A s \in ES : removedStates'[s] = IF s \in Absorbed(got) THEN 1 ELSE 0
    <2>1. \A s \in ES : got[s] # NoState => s \in Live /\ got[s] \in Live
      BY <1>4, <1>5 DEF MergedAs
    <2>2. \A s \in ES : removedStates'[s] = IF s \in Absorbed(got) THEN removedStates[s] + 1
                                            ELSE removedStates[s]
      BY <1>4 DEF MergedAs
    <2> QED
      BY <1>5, <2>1, <2>2
  <1>7. Live' = Live \ Absorbed(got)
    <2>1. Allocated' = Allocated /\ Allocated \subseteq ES
      BY <1>1 DEF Allocated, TypeOK
    <2> QED
      BY <1>5, <1>6, <2>1 DEF Live
  <1>8. PartsOK' /\ Explores
    BY <1>1, <1>4, <1>6, <1>7, PartsJoin
  <1> QED
    BY <1>8 DEF Advances, PartitionInv, NoFailure

(* Deleting a state whose handlers have nothing to merge. *)
LEMMA DeleteAdvances ==
    ASSUME PartitionInv, phase = "delete", NEW s \in deleting, DeleteFailure(s) = "none",
           MergeClasses(DestroyedByDelete(s), reachedCloseMerge) = {},
           DeleteExecutionState(s), states' = states \ {s}, deleting' = deleting \ {s},
           UNCHANGED <<addedStates, failed, covered>>
    PROVE  Advances
  <1> DEFINE H == DestroyedByDelete(s)
  <1>1. /\ StepInv /\ TypeOK /\ PartsOK /\ s \in ES /\ removedStates[s] > 0 /\ addedStates = {}
        /\ reachedCloseMerge \in [MH -> [Inst -> SUBSET ES]]
        /\ WaitAtOnePlace(WaitingIn(MH, reachedCloseMerge), reachedCloseMerge)
        /\ Removed \cap states \subseteq deleting
    BY DEF PartitionInv, PartsOK, ScheduleInv, StepInv, RecordsInv, TypeOK, WaitingApart,
           DeletedAreTerminated, WaitingRecordsAgree
  <1>2. H \in SUBSET MH
    BY DEF DestroyedByDelete
  <1>3. ReleaseFailure(H, pausedStates, reachedCloseMerge) = "none"
    BY DEF DeleteFailure, RegisteredAssert
  <1>4. DecideAndMerge(MergeClasses(H, reachedCloseMerge), WaitingIn(H, reachedCloseMerge))
    BY DEF DeleteExecutionState, ReleaseStates
  <1> HIDE DEF H
  <1>5. PICK got : /\ MergedAs(got, WaitingIn(H, reachedCloseMerge))
                   /\ MergeClasses(H, reachedCloseMerge) = {} => \A t \in ES : got[t] = NoState
    BY <1>1, <1>2, <1>3, <1>4, ReleaseMerges
  <1>6. \A t \in ES : got[t] = NoState
    BY <1>5 DEF H
  <1>7. Absorbed(got) = {}
    BY <1>6 DEF Absorbed, ES, NoState
  <1>8. \A t \in ES : removedStates'[t] = removedStates[t] /\ constraints'[t] = constraints[t]
    BY <1>5, <1>6, <1>7 DEF MergedAs
  <1>9. Live' = Live /\ Live \subseteq ES
    <2>1. Allocated' = Allocated \ {s} /\ Allocated \subseteq ES
      BY <1>1 DEF Allocated, TypeOK
    <2>2. removedStates[s] # 0
      BY <1>1 DEF TypeOK
    <2> QED
      BY <1>8, <2>1, <2>2 DEF Live
  <1>10. PartsOK' /\ Explores
    BY <1>1, <1>8, <1>9, SameParts
  <1>11. Removed' = Removed
    BY <1>8 DEF Removed
  <1> QED
    BY <1>1, <1>10, <1>11 DEF Advances, PartitionInv, NoFailure


(* Every step keeps the invariant and explores. *)
LEMMA NextPartition ==
    ASSUME RegularMerging, PartitionInv, NoMergeInDelete, [Next]_vars
    PROVE  PartitionInv' /\ Explores
  <1>1. /\ ScheduleInv /\ ScheduleInv' /\ StepInv /\ StepInv' /\ TypeOK /\ PartsOK /\ failed = "none"
        /\ phase # "selecting"
    BY NextSchedule DEF PartitionInv, PartsOK, ScheduleInv, StepInv, RecordsInv, NoFailure
  <1> SUFFICES Advances
    BY <1>1 DEF Advances, PartitionInv, PartsOK
  <1>2. ASSUME UNCHANGED <<states, addedStates, removedStates, constraints, covered, failed>>,
               phase' = "delete" => Removed' \cap states' \subseteq deleting'
        PROVE  Advances
    <2>1. Live' = Live
      BY <1>2 DEF Live, Allocated
    <2>2. PartsOK' /\ Explores
      BY <1>1, <1>2, <2>1, SameParts
    <2> QED
      BY <1>1, <1>2, <2>2 DEF Advances, NoFailure
  <1>3. ASSUME NEW next \in {"autoOpen", "memory"},
               \/ phase = "execute" /\ Op(Executed) = "close" /\ next = "autoOpen"
               \/ phase = "autoClose" /\ AtClosePoint /\ next = "memory",
               HandleCloseMerge(next)
        PROVE  Advances
    <2>1. CASE ~ClosesRegion
      BY <1>2, <1>3, <2>1 DEF HandleCloseMerge, esVars
    <2>2. CASE ClosesRegion
      <3>1. CloseMergeFailure(current, Executed) = "none"
        BY <1>1, <1>3, <2>2, CloseNeverFails
      <3>2. /\ CloseMerge(current, Executed) /\ phase' = next
            /\ UNCHANGED <<states, addedStates, failed, covered>>
        BY <1>3, <2>2, <3>1, Zenon DEF HandleCloseMerge
      <3> QED
        BY <1>3, <2>2, <3>1, <3>2, CloseAdvances
    <2> QED
      BY <2>1, <2>2
  <1>4. CASE SelectFromEmpty
    BY <1>1, <1>4, SomebodyScheduled DEF SelectFromEmpty, Selecting
  <1>5. CASE SelectBase
    <2>1. PICK s \in baseSearcher : Select(s)
      BY <1>5 DEF SelectBase
    <2>2. /\ phase' = "execute"
          /\ UNCHANGED <<states, addedStates, removedStates, constraints, covered, failed>>
      BY <1>1, <1>5, <2>1, ScheduleSelect DEF SelectBase, Selecting
    <2> QED
      BY <1>2, <2>2
  <1>6. CASE SelectPrioritized \/ ReleasePreemptively
    BY <1>1, <1>6, NoPreemption DEF SelectPrioritized, ReleasePreemptively
  <1>7. CASE ExecutePlain \/ NoAutoOpen \/ NoAutoClose \/ UnderMemoryLimit \/ Finish
    BY <1>2, <1>7 DEF ExecutePlain, NoAutoOpen, NoAutoClose, UnderMemoryLimit, Finish, esVars
  <1>8. CASE ExecuteAlloc
    BY <1>2, <1>8 DEF ExecuteAlloc
  <1>9. CASE ExecuteBranch
    <2> DEFINE targets == Succ(Executed)
    <2>1. PICK choice \in [constraints[current] -> 1 .. Len(targets)] : Fork(choice, targets)
      BY <1>9, Zenon DEF ExecuteBranch
    <2>2. current \in ES /\ Executed \in Inst
      BY <1>1, <1>9, CurrentScheduled DEF ExecuteBranch, Executing, Executed, TypeOK
    <2>3. Len(targets) \in Nat
      BY <2>2, SuccInst
    <2>4. /\ phase = "execute" /\ phase' = "autoOpen"
          /\ UNCHANGED <<states, removedStates, failed, covered>>
      BY <1>9 DEF ExecuteBranch, Executing
    <2> HIDE DEF targets
    <2>5. {x \in constraints[current] : choice[x] \notin 1 .. Len(targets)} = {}
      OBVIOUS
    <2>6. covered' = covered \cup {x \in constraints[current] : choice[x] \notin 1 .. Len(targets)}
      BY <2>4, <2>5
    <2> QED
      BY <2>1, <2>3, <2>4, <2>6, ForkAdvances
  <1>10. CASE ExecuteMemoryOperation
    <2> DEFINE targets == <<NextInst(Executed), NextInst(Executed)>>
    <2>1. PICK choice \in [constraints[current] -> 1 .. 3] :
             /\ Fork(choice, targets)
             /\ covered' = covered \cup {x \in constraints[current] : choice[x] = 3}
      BY <1>10, Zenon DEF ExecuteMemoryOperation
    <2>2. Len(targets) = 2 /\ Len(targets) \in Nat
      OBVIOUS
    <2>3. /\ phase = "execute" /\ phase' = "autoOpen"
          /\ UNCHANGED <<states, removedStates, failed>>
      BY <1>10 DEF ExecuteMemoryOperation, Executing
    <2> HIDE DEF targets
    <2>4. \A x \in constraints[current] : choice[x] = 3 <=> choice[x] \notin 1 .. 2
      BY <2>1
    <2>5. covered' = covered \cup {x \in constraints[current] : choice[x] \notin 1 .. Len(targets)}
      BY <2>1, <2>2, <2>4
    <2> QED
      BY <2>1, <2>2, <2>3, <2>5, ForkAdvances
  <1>11. CASE ExecuteBranchTooDeep \/ ExecuteExit \/ ExecuteTimedOut
    <2>1. /\ phase = "execute" /\ phase' = "autoOpen" /\ Terminate({current})
          /\ UNCHANGED <<states, addedStates, constraints, failed>>
      BY <1>11 DEF ExecuteBranchTooDeep, ExecuteExit, ExecuteTimedOut, Executing
    <2>2. {current} \in SUBSET states
      BY <1>1, <2>1, CurrentScheduled DEF StepInv, WaitingApart, Allocated
    <2> QED
      BY <2>1, <2>2, TerminateAdvances
  <1>12. CASE ExecuteOpenMerge \/ AutoOpen
    BY <1>2, <1>12 DEF ExecuteOpenMerge, AutoOpen, HandleOpenMerge
  <1>13. CASE ExecuteCloseMerge \/ AutoClose
    BY <1>3, <1>13 DEF ExecuteCloseMerge, AutoClose, Executing
  <1>14. CASE KillStates
    BY <1>14 DEF KillStates, RegularMerging
  <1>15. CASE UpdateStates
    <2>1. /\ UNCHANGED <<removedStates, constraints, covered, failed>>
          /\ states' = states \cup addedStates /\ addedStates' = {} /\ deleting' = Removed
      BY <1>1, <1>15, ScheduleUpdate
    <2>2. Live' = Live /\ Removed' = Removed
      BY <2>1 DEF Live, Allocated, Removed
    <2>3. PartsOK' /\ Explores
      BY <1>1, <2>1, <2>2, SameParts
    <2> QED
      BY <1>1, <2>1, <2>2, <2>3 DEF Advances, NoFailure
  <1>16. CASE DeleteState
    <2>1. PICK s \in deleting :
            IF DestroyedByDelete(s) # {} /\ ~searcher
            THEN Abort("use of the deleted searcher")
            ELSE IF DeleteFailure(s) # "none"
            THEN Abort(DeleteFailure(s))
            ELSE /\ states' = states \ {s} /\ deleting' = deleting \ {s}
                 /\ DeleteExecutionState(s)
                 /\ UNCHANGED <<addedStates, failed, covered>>
      BY <1>16, Zenon DEF DeleteState
    <2>2. phase = "delete" /\ s \in ES
      BY <1>1, <1>16 DEF DeleteState, TypeOK
    <2>3. /\ MergeClasses(DestroyedByDelete(s), reachedCloseMerge) = {}
          /\ ~(DestroyedByDelete(s) # {} /\ ~searcher)
      BY <2>2 DEF NoMergeInDelete
    <2>4. DeleteFailure(s) = "none"
      BY <1>1, <2>2, <2>3, DeleteNeverFails
    <2> QED
      BY <2>1, <2>2, <2>3, <2>4, DeleteAdvances
  <1>17. CASE DeleteThroughStaleIterator
    BY <1>17 DEF DeleteThroughStaleIterator, PartitionInv, Removed
  <1>18. CASE EndUpdate
    <2>1. /\ phase = "delete" /\ deleting = {} /\ phase' # "delete"
          /\ removedStates' = [s \in ES |-> 0]
          /\ UNCHANGED <<states, addedStates, constraints, covered, failed>>
      BY <1>18 DEF EndUpdate
    <2>2. addedStates = {} /\ Removed \cap states = {}
      BY <1>1, <2>1 DEF StepInv, WaitingApart, PartitionInv
    <2>3. Live' = states /\ Live = states
      BY <1>1, <2>1, <2>2 DEF Live, Allocated, Removed, TypeOK
    <2>4. PartsOK' /\ Explores
      BY <1>1, <2>1, <2>3, SameParts
    <2> QED
      BY <1>1, <2>1, <2>4 DEF Advances, NoFailure
  <1>19. CASE Halt
    <2>1. /\ phase = "select" /\ phase' = "delete" /\ Terminate(states) /\ deleting' = states
          /\ UNCHANGED <<states, addedStates, constraints, failed>>
      BY <1>19 DEF Halt
    <2>2. addedStates = {}
      BY <1>1, <2>1 DEF StepInv, WaitingApart
    <2> QED
      BY <2>1, <2>2, TerminateAdvances
  <1>20. CASE UNCHANGED vars
    <2>1. UNCHANGED <<states, addedStates, removedStates, constraints, covered, failed, phase,
                      deleting>>
      BY <1>20 DEF vars, esVars, loopVars
    <2> QED
      BY <1>2, <2>1 DEF PartitionInv, Removed
  <1> QED
    BY <1>4, <1>5, <1>6, <1>7, <1>8, <1>9, <1>10, <1>11, <1>12, <1>13, <1>14, <1>15, <1>16, <1>17,
       <1>18, <1>19, <1>20 DEF Next, Iterate, Terminated

(* Initially one state carries all inputs. *)
LEMMA InitPartition ==
    ASSUME Init
    PROVE  PartitionInv /\ Explored!Init
  <1>1. ScheduleInv
    BY InitSchedule
  <1>2. /\ states = {1} /\ addedStates = {} /\ removedStates = [s \in ES |-> 0]
        /\ constraints = [s \in ES |-> IF s = 1 THEN Inputs ELSE {}]
        /\ covered = {} /\ failed = "none" /\ phase = "select" /\ 1 \in ES
    BY BoundsAssumption DEF BoundsAssumption, Init, EStateInit, ES
  <1>3. Live = {1} /\ constraints[1] = Inputs
    BY <1>2 DEF Live, Allocated
  <1>4. Pending = {Inputs}
    BY <1>3 DEF Pending
  <1> QED
    BY <1>1, <1>2, <1>3, <1>4, InputsAssumption
    DEF InputsAssumption, PartitionInv, InputsOnce, NoFailure, Explored!Init


(* A run of regular merging in which updateStates merges nothing keeps the *)
(* partition.                                                              *)
LEMMA PartitionInvariant == RegularMerging => (Spec /\ []NoMergeInDelete => []PartitionInv)
  <1> SUFFICES ASSUME RegularMerging PROVE Spec /\ []NoMergeInDelete => []PartitionInv
    OBVIOUS
  <1>1. Init => PartitionInv
    BY InitPartition
  <1>2. PartitionInv /\ NoMergeInDelete /\ [Next]_vars => PartitionInv'
    BY NextPartition
  <1> QED
    BY <1>1, <1>2, PTL DEF Spec

(* No assertion of the loop, the searcher or the handlers fails, and no    *)
(* deleted object is used, as long as updateStates merges nothing.         *)
THEOREM NoFailureTheorem == RegularMerging => (Spec /\ []NoMergeInDelete => []NoFailure)
  <1> SUFFICES ASSUME RegularMerging PROVE Spec /\ []NoMergeInDelete => []NoFailure
    OBVIOUS
  <1>1. PartitionInv => NoFailure
    BY DEF PartitionInv
  <1>2. Spec /\ []NoMergeInDelete => []PartitionInv
    BY PartitionInvariant
  <1> QED
    BY <1>1, <1>2, PTL

(* No input is carried by two live states, nor again after it has been     *)
(* explored, as long as updateStates merges nothing.                       *)
THEOREM NoInputTwiceTheorem == RegularMerging => (Spec /\ []NoMergeInDelete => []NoInputTwice)
  <1> SUFFICES ASSUME RegularMerging PROVE Spec /\ []NoMergeInDelete => []NoInputTwice
    OBVIOUS
  <1>1. PartitionInv => NoInputTwice
    BY DEF PartitionInv, NoInputTwice
  <1>2. Spec /\ []NoMergeInDelete => []PartitionInv
    BY PartitionInvariant
  <1> QED
    BY <1>1, <1>2, PTL

(* The run loop implements Exploration, as long as updateStates merges     *)
(* nothing: every step divides, joins or ends parts of the inputs, or      *)
(* leaves them alone.                                                      *)
THEOREM ImplementsExplorationTheorem ==
    RegularMerging => (Spec /\ []NoMergeInDelete => ImplementsExploration)
  <1> SUFFICES ASSUME RegularMerging PROVE Spec /\ []NoMergeInDelete => ImplementsExploration
    OBVIOUS
  <1>1. Init => Explored!Init
    BY InitPartition
  <1>2. PartitionInv /\ NoMergeInDelete /\ [Next]_vars => [Explored!Next]_partVars
    BY NextPartition DEF Explores
  <1>3. Spec /\ []NoMergeInDelete => []PartitionInv
    BY PartitionInvariant
  <1>4. Explored!Init /\ [][Explored!Next]_partVars => ImplementsExploration
    BY DEF ImplementsExploration, Explored!Spec, partVars
  <1> QED
    BY <1>1, <1>2, <1>3, <1>4, PTL DEF Spec

(* Without --use-merge there are no handlers, and updateStates merges      *)
(* nothing.                                                                *)
LEMMA NothingToMerge == ~UseMerge /\ ~MayExceedMemory => (Spec => []NoMergeInDelete)
  <1> SUFFICES ASSUME ~UseMerge, ~MayExceedMemory PROVE Spec => []NoMergeInDelete
    OBVIOUS
  <1>1. RegularMerging
    BY DEF RegularMerging
  <1>2. ScheduleInv => NoMergeInDelete
    <2> SUFFICES ASSUME ScheduleInv, NEW s \in deleting
                 PROVE  /\ DestroyedByDelete(s) = {}
                        /\ MergeClasses(DestroyedByDelete(s), reachedCloseMerge) = {}
      BY DEF NoMergeInDelete
    <2>1. s \in ES /\ openMergeStack[s] = << >>
      BY DEF ScheduleInv, StepInv, RecordsInv, TypeOK
    <2>2. DestroyedByDelete(s) = {}
      BY <2>1 DEF DestroyedByDelete, Holds
    <2>3. MergeClasses({}, reachedCloseMerge) = {}
      BY DEF MergeClasses
    <2> QED
      BY <2>2, <2>3
  <1>3. Spec => []ScheduleInv
    BY <1>1, ScheduleInvariant
  <1> QED
    BY <1>2, <1>3, PTL

(* Without merging, and without a memory limit, nothing fails and the run  *)
(* explores every input once, whatever forks, errors, depth limits and     *)
(* halts happen.                                                           *)
THEOREM WithoutMergingTheorem ==
    ~UseMerge /\ ~MayExceedMemory =>
        (Spec => []NoFailure /\ []NoInputTwice /\ ImplementsExploration)
  <1> SUFFICES ASSUME ~UseMerge, ~MayExceedMemory
               PROVE  Spec => []NoFailure /\ []NoInputTwice /\ ImplementsExploration
    OBVIOUS
  <1>1. RegularMerging
    BY DEF RegularMerging
  <1>2. Spec => []NoMergeInDelete
    BY NothingToMerge
  <1>3. /\ Spec /\ []NoMergeInDelete => []NoFailure
        /\ Spec /\ []NoMergeInDelete => []NoInputTwice
        /\ Spec /\ []NoMergeInDelete => ImplementsExploration
    BY <1>1, NoFailureTheorem, NoInputTwiceTheorem, ImplementsExplorationTheorem
  <1> QED
    BY <1>2, <1>3

-----------------------------------------------------------------------------
(***************************************************************************)
(* Programs whose regions are closed before a state ends, by bounds x and  *)
(* a on the regions that are open at an instruction: explicit ones and     *)
(* close blocks ahead.                                                     *)
(***************************************************************************)

(* There are finitely many blocks. *)
LEMMA BlocksFinite == \A B \in SUBSET Blocks : IsFiniteSet(B) /\ Cardinality(B) \in Nat
  <1>1. Program \in Seq([op : Ops, succ : Seq(Nat), block : Nat \ {NoBlock}])
    BY ProgramAssumption DEF ProgramAssumption
  <1>2. IsFiniteSet(Inst)
    BY <1>1, FS_Interval DEF Inst
  <1>3. IsFiniteSet(Blocks)
    <2> DEFINE F == [i \in Inst |-> BlockOf(i)]
    <2>1. F \in Surjection(Inst, Blocks)
      BY DEF Surjection, Blocks
    <2> HIDE DEF F
    <2> QED
      BY <1>2, <2>1, FS_Surjection
  <1> QED
    BY <1>3, FS_Subset, FS_CardinalityType

(* More explicit regions and more close blocks ahead leave more room. *)
LEMMA RoomGrows ==
    ASSUME NEW n \in Nat, NEW m \in Nat, n <= m, NEW B \in SUBSET Blocks, NEW C \in SUBSET Blocks,
           NEW S, NEW T, B \cap S \subseteq C \cap T
    PROVE  Room(n, B, S) \in Nat /\ Room(m, C, T) \in Nat /\ Room(n, B, S) <= Room(m, C, T)
  <1> DEFINE D == B \cap S
             E == C \cap T
  <1>1. D \in SUBSET Blocks /\ E \in SUBSET Blocks
    OBVIOUS
  <1>2. /\ IsFiniteSet(D) /\ Cardinality(D) \in Nat
        /\ IsFiniteSet(E) /\ Cardinality(E) \in Nat
    BY <1>1, BlocksFinite
  <1>3. Cardinality(D) <= Cardinality(E)
    BY <1>2, FS_Subset
  <1> HIDE DEF D, E
  <1>4. Room(n, B, S) = n + Cardinality(D) /\ Room(m, C, T) = m + Cardinality(E)
    BY DEF Room, D, E
  <1> QED
    BY <1>2, <1>3, <1>4

(* One more close block ahead is room for one more region. *)
LEMMA RoomAdds ==
    ASSUME NEW n \in Nat, NEW B \in SUBSET Blocks, NEW C \in SUBSET Blocks, NEW S, NEW T,
           B \cap S \subseteq C \cap T, NEW b \in C \cap T, b \notin B
    PROVE  Room(n, B, S) + 1 <= Room(n, C, T)
  <1> DEFINE D == B \cap S
             E == C \cap T
  <1>1. /\ D \in SUBSET Blocks /\ E \in SUBSET Blocks /\ D \cup {b} \in SUBSET Blocks
        /\ b \notin D /\ D \cup {b} \subseteq E
    OBVIOUS
  <1>2. /\ IsFiniteSet(D) /\ Cardinality(D) \in Nat
        /\ IsFiniteSet(E) /\ Cardinality(E) \in Nat /\ Cardinality(D \cup {b}) \in Nat
    BY <1>1, BlocksFinite
  <1>3. Cardinality(D \cup {b}) = Cardinality(D) + 1
    BY <1>1, <1>2, FS_AddElement
  <1>4. Cardinality(D \cup {b}) <= Cardinality(E)
    BY <1>1, <1>2, FS_Subset
  <1> HIDE DEF D, E
  <1>5. Room(n, B, S) = n + Cardinality(D) /\ Room(n, C, T) = n + Cardinality(E)
    BY DEF Room, D, E
  <1> QED
    BY <1>2, <1>3, <1>4, <1>5

(* A close block that has been passed was room for one region. *)
LEMMA RoomDrops ==
    ASSUME NEW n \in Nat, NEW B \in SUBSET Blocks, NEW S, NEW b
    PROVE  Room(n, B, S) <= Room(n, B \ {b}, S) + 1 /\ Room(n, B \ {b}, S) \in Nat
  <1>1. CASE b \in B \cap S
    <2>1. (B \ {b}) \cap S \subseteq B \cap S /\ b \notin B \ {b} /\ b \in B \cap S
      BY <1>1
    <2> DEFINE D == B \cap S
               E == (B \ {b}) \cap S
    <2>2. D \in SUBSET Blocks /\ E \in SUBSET Blocks /\ E = D \ {b} /\ b \in D
      BY <1>1
    <2>3. IsFiniteSet(D) /\ Cardinality(D) \in Nat /\ Cardinality(E) \in Nat
      BY <2>2, BlocksFinite
    <2>4. Cardinality(D \ {b}) = Cardinality(D) - 1
      BY <2>2, <2>3, FS_RemoveElement
    <2> HIDE DEF D, E
    <2>5. Room(n, B, S) = n + Cardinality(D) /\ Room(n, B \ {b}, S) = n + Cardinality(E)
      BY DEF Room, D, E
    <2> QED
      BY <2>2, <2>3, <2>4, <2>5
  <1>2. CASE b \notin B \cap S
    <2>1. B \cap S \subseteq (B \ {b}) \cap S /\ B \ {b} \in SUBSET Blocks /\ n <= n
      BY <1>2
    <2>2. /\ Room(n, B, S) \in Nat /\ Room(n, B \ {b}, S) \in Nat
          /\ Room(n, B, S) <= Room(n, B \ {b}, S)
      BY <2>1, RoomGrows
    <2> QED
      BY <2>2
  <1> QED
    BY <1>1, <1>2

(* A step that leaves stacks and waiting states alone. *)
LEMMA OuterUnchanged ==
    ASSUME SameOuterRegions, UNCHANGED <<openMergeStack, reachedCloseMerge>>
    PROVE  SameOuterRegions'
  BY DEF SameOuterRegions, Involved, Holds

(* A copy has the regions of the state it is copied from. *)
LEMMA ForkOuter ==
    ASSUME StepInv, SameOuterRegions, current \in ES, NEW copies \in SUBSET ES,
           copies \cap 1 .. created = {},
           \A s \in ES : openMergeStack'[s] = IF s \in copies THEN openMergeStack[current]
                                              ELSE openMergeStack[s],
           reachedCloseMerge' = reachedCloseMerge
    PROVE  SameOuterRegions'
  <1>1. /\ pausedStates \subseteq 1 .. created
        /\ \A s \in ES, h \in MH, i \in Inst : s \in reachedCloseMerge[h][i] => s \in pausedStates
    BY DEF StepInv, WaitingApart, RecordsInv, WaitingRecordsAgree, WaitingIn
  <1>2. \A s \in copies, h \in MH, i \in Inst : s \notin reachedCloseMerge[h][i]
    BY <1>1
  <1> DEFINE from(s) == IF s \in copies THEN current ELSE s
  <1>3. \A s \in ES : from(s) \in ES /\ \A g : Holds(s, g)' <=> Holds(from(s), g)
    BY DEF Holds
  <1>4. \A s \in ES, h \in MH : Involved(s, h)' => Involved(from(s), h)
    <2>1. ASSUME NEW s \in ES, NEW h \in MH, Involved(s, h)' PROVE Involved(from(s), h)
      <3>1. Holds(s, h)' \/ \E i \in Inst : s \in reachedCloseMerge[h][i]
        BY <2>1 DEF Involved
      <3>2. (\E i \in Inst : s \in reachedCloseMerge[h][i]) => from(s) = s
        BY <1>2
      <3> QED
        BY <1>3, <3>1, <3>2 DEF Involved
    <2> QED
      BY <2>1
  <1> HIDE DEF from
  <1>5. ASSUME NEW s \in ES, NEW t \in ES, NEW h \in MH, Involved(s, h)', Involved(t, h)',
               NEW g \in MH, g < h
        PROVE  Holds(s, g)' <=> Holds(t, g)'
    <2>1. Holds(from(s), g) <=> Holds(from(t), g)
      BY <1>3, <1>4, <1>5 DEF SameOuterRegions
    <2> QED
      BY <1>3, <2>1
  <1> QED
    BY <1>5 DEF SameOuterRegions

(* Who opens a region is alone in it. *)
LEMMA OpenOuter ==
    ASSUME StepInv, SameOuterRegions, current \in ES, OpenMerge(current), current' = current
    PROVE  SameOuterRegions'
  <1> DEFINE h == handlersCreated + 1
             stack == openMergeStack[current]
  <1>1. /\ RecordsInv /\ TypeOK /\ stack \in Seq(MH) /\ h \in MH
        /\ handlersCreated \in Int
        /\ reachedCloseMerge' = reachedCloseMerge
        /\ openMergeStack' = [openMergeStack EXCEPT ![current] = Append(@, h)]
    <2>1. RecordsInv /\ TypeOK /\ stack \in Seq(MH) /\ handlersCreated \in 0 .. MaxHandlers
      BY DEF StepInv, RecordsInv, TypeOK
    <2>2. handlersCreated \in Int
      BY <2>1
    <2> QED
      BY <2>1, <2>2 DEF OpenMerge
  <1>2. /\ openMergeStack'[current] = Append(stack, h)
        /\ \A s \in ES \ {current} : openMergeStack'[s] = openMergeStack[s]
    BY <1>1 DEF TypeOK
  <1>3. \A s \in ES, g \in MH : Involved(s, g) => g < h
    <2>1. \A s \in ES, g \in MH : Holds(s, g) => g <= handlersCreated
      BY <1>1 DEF RecordsInv, StacksDistinct, Holds
    <2>2. ASSUME NEW g \in MH, HasMergedStates(g) PROVE \E s \in ES : Holds(s, g)
      BY <1>1, <2>2 DEF RecordsInv, NoOrphanedGroup, OpenStatesHoldHandler
    <2>3. \A s \in ES, g \in MH : Involved(s, g) => g <= handlersCreated
      BY <2>1, <2>2 DEF Involved, HasMergedStates
    <2>4. \A g \in MH : g \in Int
      BY BoundsAssumption DEF MH, BoundsAssumption
    <2> QED
      BY <1>1, <2>3, <2>4
  <1>4. \A s \in ES, g \in MH : Holds(s, g)' <=> Holds(s, g) \/ (s = current /\ g = h)
    <2>1. \A s \in ES \ {current} : \A g : Holds(s, g)' <=> Holds(s, g)
      BY <1>2 DEF Holds
    <2>2. ASSUME NEW g \in MH PROVE Holds(current, g)' <=> Holds(current, g) \/ g = h
      <3>1. (\E k \in 1 .. Len(Append(stack, h)) : Append(stack, h)[k] = g)
              <=> (g = h \/ \E k \in 1 .. Len(stack) : stack[k] = g)
        BY <1>1, PushHolds
      <3>2. Holds(current, g)' <=> \E k \in 1 .. Len(openMergeStack'[current]) :
                                      openMergeStack'[current][k] = g
        BY DEF Holds
      <3> QED
        BY <1>2, <3>1, <3>2 DEF Holds
    <2> QED
      BY <2>1, <2>2
  <1> HIDE DEF h, stack
  <1>5. \A s \in ES, g \in MH : Involved(s, g)' <=> Involved(s, g) \/ (s = current /\ g = h)
    BY <1>1, <1>4 DEF Involved
  <1>6. ASSUME NEW s \in ES, NEW t \in ES, NEW f \in MH, Involved(s, f)', Involved(t, f)',
               NEW g \in MH, g < f
        PROVE  Holds(s, g)' <=> Holds(t, g)'
    <2>1. h \in Int /\ f \in Int /\ g \in Int
      BY <1>1, BoundsAssumption DEF MH, BoundsAssumption
    <2>2. CASE f = h
      <3>1. s = current /\ t = current
        BY <1>3, <1>5, <1>6, <2>1, <2>2
      <3> QED
        BY <3>1
    <2>3. CASE f # h
      <3>1. Involved(s, f) /\ Involved(t, f)
        BY <1>5, <1>6, <2>3
      <3>2. g # h
        BY <1>3, <1>6, <2>1, <3>1
      <3>3. Holds(s, g) <=> Holds(t, g)
        BY <1>6, <3>1 DEF SameOuterRegions
      <3> QED
        BY <1>4, <3>2, <3>3
    <2> QED
      BY <2>2, <2>3
  <1> QED
    BY <1>6 DEF SameOuterRegions

(* The region that is closed is the innermost one of its states; whom its  *)
(* end releases have the same regions left.                                *)
LEMMA CloseOuter ==
    ASSUME StepInv, RegionsAreNested, SameOuterRegions, current \in ES, current \notin pausedStates,
           openMergeStack[current] # << >>, NEW i \in Inst, CloseMerge(current, i),
           current' = current
    PROVE  /\ SameOuterRegions'
           /\ \A s, t \in WaitingIn({Top(current)}, ReachedAfterClose(current, i)) :
                 \A g \in MH : Holds(s, g)' => Holds(t, g)'
           /\ \A s \in ES : /\ openMergeStack'[s] = IF s = current
                                  THEN SubSeq(openMergeStack[s], 1, Len(openMergeStack[s]) - 1)
                                  ELSE openMergeStack[s]
                            /\ Len(openMergeStack'[s]) = IF s = current THEN Len(openMergeStack[s]) - 1
                                                         ELSE Len(openMergeStack[s])
  <1> DEFINE h == Top(current)
             H == DestroyedByPop(current)
             stack == openMergeStack[current]
             rest == SubSeq(stack, 1, Len(stack) - 1)
             reached == ReachedAfterClose(current, i)
  <1>1. RecordsInv /\ TypeOK /\ stack \in Seq(MH)
    BY DEF StepInv, RecordsInv, TypeOK
  <1>2. /\ h \in MH
        /\ \A g \in MH, j \in Inst :
              reached[g][j] = IF g = h /\ j = i THEN reachedCloseMerge[g][j] \cup {current}
                              ELSE reachedCloseMerge[g][j]
    BY <1>1, ClosePlaces
  <1>3. /\ openMergeStack' = [openMergeStack EXCEPT ![current] = SubSeq(@, 1, Len(@) - 1)]
        /\ reachedCloseMerge' = [g \in MH |-> IF g \in H THEN [j \in Inst |-> {}] ELSE reached[g]]
    BY DEF CloseMerge, ReleaseStates
  <1>4. /\ openMergeStack'[current] = rest
        /\ \A s \in ES \ {current} : openMergeStack'[s] = openMergeStack[s]
    BY <1>1, <1>3 DEF TypeOK
  <1>5. /\ Len(rest) = Len(stack) - 1 /\ \A k \in 1 .. Len(stack) - 1 : rest[k] = stack[k]
        /\ Len(stack) \in Nat \ {0} /\ h = stack[Len(stack)]
    BY <1>1, PopType DEF Top
  <1>6. \A k, l \in 1 .. Len(stack) : k # l => stack[k] # stack[l]
    BY <1>1 DEF RecordsInv, StacksDistinct
  <1>7. \A g \in MH : Holds(current, g)' <=> Holds(current, g) /\ g # h
    <2>1. ASSUME NEW g \in MH PROVE Holds(current, g)' <=> Holds(current, g) /\ g # h
      <3>1. (\E k \in 1 .. Len(rest) : rest[k] = g)
              <=> (g # stack[Len(stack)] /\ \E k \in 1 .. Len(stack) : stack[k] = g)
        BY <1>1, <1>6, PopHolds
      <3>2. Holds(current, g)' <=> \E k \in 1 .. Len(openMergeStack'[current]) :
                                      openMergeStack'[current][k] = g
        BY DEF Holds
      <3> QED
        BY <1>4, <1>5, <3>1, <3>2 DEF Holds
    <2> QED
      BY <2>1
  <1>8. Holds(current, h)
    <2>1. Len(stack) \in 1 .. Len(stack)
      BY <1>5
    <2> QED
      BY <1>5, <2>1 DEF Holds
  <1>9. \A g \in MH : Holds(current, g) => g = h \/ g < h
    BY <1>5 DEF Holds, RegionsAreNested
  <1>10. \A s \in ES \ {current} : \A g : Holds(s, g)' <=> Holds(s, g)
    BY <1>4 DEF Holds
  <1>11. \A g \in MH, j \in Inst : current \notin reachedCloseMerge[g][j]
    BY <1>1 DEF RecordsInv, WaitingRecordsAgree, WaitingIn
  <1> HIDE DEF h, H, reached, rest, stack
  <1>12. \A g \in MH, j \in Inst : reachedCloseMerge'[g][j] \subseteq reached[g][j]
    BY <1>2, <1>3
  <1>13. \A g \in MH : g \in Int
    BY BoundsAssumption DEF MH, BoundsAssumption
  <1>14. \A s \in ES, g \in MH : Involved(s, g)' => Involved(s, g) /\ (s = current => g <= h)
    <2>1. ASSUME NEW s \in ES, NEW g \in MH, Involved(s, g)'
          PROVE  Involved(s, g) /\ (s = current => g <= h)
      <3>1. CASE Holds(s, g)'
        BY <1>2, <1>7, <1>9, <1>10, <1>13, <3>1 DEF Involved
      <3>2. CASE \E j \in Inst : s \in reachedCloseMerge'[g][j]
        <4>1. PICK j \in Inst : s \in reached[g][j]
          BY <1>12, <3>2
        <4>2. s = current => g = h
          BY <1>2, <1>11, <4>1
        <4>3. s # current => s \in reachedCloseMerge[g][j]
          BY <1>2, <4>1
        <4> QED
          BY <1>2, <1>8, <1>13, <4>2, <4>3 DEF Involved
      <3> QED
        BY <2>1, <3>1, <3>2 DEF Involved
    <2> QED
      BY <2>1
  <1>15. ASSUME NEW s \in ES, NEW t \in ES, NEW f \in MH, Involved(s, f)', Involved(t, f)',
                NEW g \in MH, g < f
         PROVE  Holds(s, g)' <=> Holds(t, g)'
    <2>1. Holds(s, g) <=> Holds(t, g)
      BY <1>14, <1>15 DEF SameOuterRegions
    <2>2. g = h => s # current /\ t # current
      BY <1>2, <1>13, <1>14, <1>15
    <2> QED
      BY <1>7, <1>10, <2>1, <2>2
  <1>16. SameOuterRegions'
    BY <1>15 DEF SameOuterRegions
  <1> DEFINE freed == WaitingIn({h}, reached)
  <1>17. \A s \in freed : s \in ES /\ Involved(s, h) /\ \A g \in MH : Holds(s, g)' <=> Holds(s, g) /\ g < h
    <2>1. ASSUME NEW s \in freed
          PROVE  s \in ES /\ Involved(s, h) /\ \A g \in MH : Holds(s, g)' <=> Holds(s, g) /\ g < h
      <3>1. s \in ES /\ \E j \in Inst : s \in reached[h][j]
        BY DEF WaitingIn
      <3>2. CASE s = current
        BY <1>2, <1>7, <1>8, <1>9, <1>13, <3>1, <3>2 DEF Involved
      <3>3. CASE s # current
        <4>1. PICK j \in Inst : s \in reachedCloseMerge[h][j]
          BY <1>2, <3>1, <3>3
        <4>2. \A g \in MH : Holds(s, g) => g < h
          BY <1>2, <3>1, <4>1 DEF RegionsAreNested
        <4> QED
          BY <1>10, <3>1, <3>3, <4>1, <4>2 DEF Involved
      <3> QED
        BY <3>2, <3>3
    <2> QED
      BY <2>1
  <1>18. \A s, t \in freed : \A g \in MH : Holds(s, g)' => Holds(t, g)'
    BY <1>2, <1>17 DEF SameOuterRegions
  <1> QED
    BY <1>4, <1>5, <1>16, <1>18 DEF h, reached, rest, stack

(* A state that does not wait is deleted. *)
LEMMA DeleteOuter ==
    ASSUME StepInv, SameOuterRegions, NEW s \in ES, s \notin pausedStates, DeleteExecutionState(s)
    PROVE  /\ SameOuterRegions'
           /\ openMergeStack'[s] = << >>
           /\ \A t \in ES \ {s} : openMergeStack'[t] = openMergeStack[t]
  <1>1. TypeOK /\ RecordsInv
    BY DEF StepInv, RecordsInv
  <1>2. /\ openMergeStack' = [openMergeStack EXCEPT ![s] = << >>]
        /\ reachedCloseMerge' = [h \in MH |-> IF h \in DestroyedByDelete(s) THEN [i \in Inst |-> {}]
                                              ELSE reachedCloseMerge[h]]
    BY DEF DeleteExecutionState, ReleaseStates
  <1>3. openMergeStack'[s] = << >> /\ \A t \in ES \ {s} : openMergeStack'[t] = openMergeStack[t]
    BY <1>1, <1>2 DEF TypeOK
  <1>4. \A h \in MH, i \in Inst : reachedCloseMerge'[h][i] \subseteq reachedCloseMerge[h][i]
    BY <1>2
  <1>5. \A h \in MH, i \in Inst : s \notin reachedCloseMerge[h][i]
    BY <1>1 DEF RecordsInv, WaitingRecordsAgree, WaitingIn
  <1>6. \A t \in ES \ {s} : \A g : Holds(t, g)' <=> Holds(t, g)
    BY <1>3 DEF Holds
  <1>7. \A g : ~Holds(s, g)'
    BY <1>3 DEF Holds
  <1>8. \A t \in ES, h \in MH : Involved(t, h)' => t # s /\ Involved(t, h)
    <2>1. ASSUME NEW t \in ES, NEW h \in MH, Involved(t, h)' PROVE t # s /\ Involved(t, h)
      <3>1. Holds(t, h)' \/ \E i \in Inst : t \in reachedCloseMerge'[h][i]
        BY <2>1 DEF Involved
      <3>2. t # s
        BY <1>4, <1>5, <1>7, <3>1
      <3> QED
        BY <1>4, <1>6, <3>1, <3>2 DEF Involved
    <2> QED
      BY <2>1
  <1>9. ASSUME NEW t \in ES, NEW u \in ES, NEW h \in MH, Involved(t, h)', Involved(u, h)',
               NEW g \in MH, g < h
        PROVE  Holds(t, g)' <=> Holds(u, g)'
    <2>1. t # s /\ u # s /\ (Holds(t, g) <=> Holds(u, g))
      BY <1>8, <1>9 DEF SameOuterRegions
    <2> QED
      BY <1>6, <2>1
  <1> QED
    BY <1>3, <1>9 DEF SameOuterRegions

(* What the bounds say of an instruction and of what follows it. *)
LEMMA InstructionRoom ==
    ASSUME NEW x, NEW a, RegionBounds(x, a), NEW i \in Inst
    PROVE  /\ x[i] \in Nat /\ ExplicitAfter(x, i) \in Nat
           /\ a[i] \in SUBSET Blocks /\ AutoAfter(a, i) \in SUBSET Blocks
           /\ a[i] \subseteq AutoAfter(a, i)
           /\ Op(i) = "open" => ExplicitAfter(x, i) = x[i] + 1
           /\ Op(i) = "close" => x[i] <= ExplicitAfter(x, i) + 1
           /\ Op(i) \notin {"open", "close"} => ExplicitAfter(x, i) = x[i]
           /\ IsBranching(i) /\ CloseBlock[BlockOf(i)] # NoBlock =>
                 /\ CloseBlock[BlockOf(i)] \in AutoAfter(a, i)
                 /\ CloseBlock[BlockOf(i)] \notin a[i]
  <1>1. x[i] \in Nat /\ a[i] \in SUBSET Blocks
    BY DEF RegionBounds
  <1>2. /\ Op(i) = "open" => ExplicitAfter(x, i) = x[i] + 1
        /\ Op(i) = "close" => ExplicitAfter(x, i) = IF x[i] = 0 THEN 0 ELSE x[i] - 1
        /\ Op(i) \notin {"open", "close"} => ExplicitAfter(x, i) = x[i]
    BY DEF ExplicitAfter
  <1>3. CloseBlock[BlockOf(i)] # NoBlock => CloseBlock[BlockOf(i)] \in Blocks
    BY SuccInst, CloseBlockType
  <1> QED
    BY <1>1, <1>2, <1>3 DEF AutoAfter, RegionBounds

(* What is open after an instruction has room at its successors, once the  *)
(* region that ends there is closed.                                       *)
LEMMA SuccessorRoom ==
    ASSUME NEW x, NEW a, RegionBounds(x, a), NEW i \in Inst, NEW j,
           \E k \in 1 .. Len(Succ(i)) : j = Succ(i)[k], NEW S
    PROVE  /\ j \in Inst /\ Room(x[j], a[j], S) \in Nat
           /\ Room(ExplicitAfter(x, i), AutoAfter(a, i), S) \in Nat
           /\ Room(ExplicitAfter(x, i), AutoAfter(a, i), S) <= Room(x[j], a[j], S) + 1
           /\ ~(IsFirstNonPHI(i) /\ BlockOf(i) \in S) =>
                 Room(ExplicitAfter(x, i), AutoAfter(a, i), S) <= Room(x[j], a[j], S)
  <1> DEFINE n == ExplicitAfter(x, i)
             B == AutoAfter(a, i)
             b == BlockOf(i)
  <1>1. j \in Inst
    BY SuccInst
  <1>2. /\ n \in Nat /\ B \in SUBSET Blocks /\ x[j] \in Nat /\ a[j] \in SUBSET Blocks
    BY <1>1, InstructionRoom
  <1>3. n <= x[j] /\ B \ (IF IsFirstNonPHI(i) THEN {b} ELSE {}) \subseteq a[j]
    BY DEF RegionBounds
  <1> HIDE DEF n, B, b
  <1>4. B \cap S \subseteq B \cap S /\ n <= n
    BY <1>2
  <1>5. Room(n, B, S) \in Nat
    BY <1>2, <1>4, RoomGrows
  <1>6. Room(n, B, S) <= Room(n, B \ {b}, S) + 1 /\ Room(n, B \ {b}, S) \in Nat
    BY <1>2, RoomDrops
  <1>7. Room(n, B \ {b}, S) <= Room(x[j], a[j], S) /\ Room(x[j], a[j], S) \in Nat
    <2>1. B \ {b} \in SUBSET Blocks /\ (B \ {b}) \cap S \subseteq a[j] \cap S
      BY <1>2, <1>3
    <2> QED
      BY <1>2, <1>3, <2>1, RoomGrows
  <1>8. ASSUME ~(IsFirstNonPHI(i) /\ b \in S) PROVE Room(n, B, S) <= Room(x[j], a[j], S)
    <2>1. B \cap S \subseteq a[j] \cap S
      BY <1>3, <1>8
    <2> QED
      BY <1>2, <1>3, <2>1, RoomGrows
  <1>9. Room(n, B, S) <= Room(x[j], a[j], S) + 1
    BY <1>5, <1>6, <1>7
  <1> QED
    BY <1>1, <1>5, <1>7, <1>8, <1>9 DEF n, B, b

(* What the increment of pc leaves in it is a successor. *)
LEMMA NextIsSuccessor ==
    ASSUME NEW i \in Inst, Op(i) # "exit"
    PROVE  \E k \in 1 .. Len(Succ(i)) : NextInst(i) = Succ(i)[k]
  <1>1. Len(Succ(i)) >= 1 /\ Len(Succ(i)) \in Nat
    <2>1. Len(Succ(i)) \in Nat
      BY SuccInst
    <2>2. /\ Op(i) = "br" => Len(Succ(i)) = 2
          /\ Op(i) = "switch" => Len(Succ(i)) >= 2
          /\ Op(i) \notin {"exit", "br", "switch"} => Len(Succ(i)) = 1
      BY ProgramAssumption DEF ProgramAssumption
    <2> QED
      BY <2>1, <2>2
  <1>2. 1 \in 1 .. Len(Succ(i)) /\ Len(Succ(i)) # 0
    BY <1>1
  <1> QED
    BY <1>2 DEF NextInst

(* The targets that the copies and the current state take. *)
LEMMA ForkTargets ==
    ASSUME current \in ES, NEW choice, NEW targets, Fork(choice, targets)
    PROVE  \A s \in ES : s \in (created + 1) .. created' \/ s = current =>
              \E k \in 1 .. Len(targets) : pc'[s] = targets[k]
  <1> DEFINE feasible == {k \in 1 .. Len(targets) : \E x \in constraints[current] : choice[x] = k}
  <1>1. PICK last \in created .. MaxStates :
             LET copies == (created + 1) .. last
             IN  /\ \E takes \in [copies \cup {current} -> feasible] :
                      pc' = [s \in ES |-> IF s \in copies \cup {current}
                                             THEN targets[takes[s]] ELSE pc[s]]
                 /\ created' = last
    BY Zenon DEF Fork
  <1> DEFINE copies == (created + 1) .. created'
  <1>2. PICK takes \in [copies \cup {current} -> feasible] :
             pc' = [s \in ES |-> IF s \in copies \cup {current} THEN targets[takes[s]] ELSE pc[s]]
    BY <1>1
  <1> HIDE DEF copies
  <1>3. \A s \in ES : s \in copies \cup {current} =>
            takes[s] \in 1 .. Len(targets) /\ pc'[s] = targets[takes[s]]
    BY <1>2
  <1> QED
    BY <1>3 DEF copies

(* The current state before and while it executes an instruction. *)
LEMMA MidState ==
    ASSUME NEW x, NEW a, RegionBounds(x, a), RegionsInv(x, a), phase \in MidInstruction
    PROVE  /\ current \in ES /\ current \in Allocated /\ Executed \in Inst
           /\ closeMergeSet \subseteq Blocks
           /\ TypeOK /\ StepInv /\ ScheduleInv
           /\ \A s \in ES : /\ Len(openMergeStack[s]) \in Nat /\ removedStates[s] \in Nat
                            /\ pc[s] \in Inst
                            /\ Room(x[pc[s]], a[pc[s]], closeMergeSet) \in Nat
           /\ Room(x[Executed], a[Executed], closeMergeSet) \in Nat
           /\ Room(ExplicitAfter(x, Executed), a[Executed], closeMergeSet) \in Nat
           /\ Room(ExplicitAfter(x, Executed), AutoAfter(a, Executed), closeMergeSet) \in Nat
           /\ Room(ExplicitAfter(x, Executed), a[Executed], closeMergeSet)
                 <= Room(ExplicitAfter(x, Executed), AutoAfter(a, Executed), closeMergeSet)
  <1>1. /\ ScheduleInv /\ StepInv /\ TypeOK /\ current \in ES /\ current \in Allocated
        /\ phase \in {"execute", "autoOpen", "autoClose", "memory", "update"}
    <2>1. phase \in {"execute", "autoOpen", "autoClose", "memory", "update"} /\ ScheduleInv
      BY DEF MidInstruction, RegionsInv
    <2> QED
      BY <2>1, CurrentScheduled DEF ScheduleInv, StepInv, RecordsInv
  <1>2. Executed \in Inst /\ closeMergeSet \subseteq Blocks
    BY <1>1 DEF TypeOK, Executed
  <1>3. \A s \in ES : Len(openMergeStack[s]) \in Nat /\ removedStates[s] \in Nat /\ pc[s] \in Inst
    BY <1>1 DEF TypeOK
  <1>4. ASSUME NEW i \in Inst PROVE Room(x[i], a[i], closeMergeSet) \in Nat
    <2>1. x[i] \in Nat /\ a[i] \in SUBSET Blocks
      BY InstructionRoom
    <2>2. x[i] <= x[i] /\ a[i] \cap closeMergeSet \subseteq a[i] \cap closeMergeSet
      BY <2>1
    <2> QED
      BY <2>1, <2>2, RoomGrows
  <1> DEFINE n == ExplicitAfter(x, Executed)
             B == a[Executed]
             C == AutoAfter(a, Executed)
  <1>5. n \in Nat /\ B \in SUBSET Blocks /\ C \in SUBSET Blocks /\ B \subseteq C
    BY <1>2, InstructionRoom
  <1> HIDE DEF n, B, C
  <1>6. n <= n /\ B \cap closeMergeSet \subseteq C \cap closeMergeSet
    BY <1>5
  <1>7. /\ Room(n, B, closeMergeSet) \in Nat /\ Room(n, C, closeMergeSet) \in Nat
        /\ Room(n, B, closeMergeSet) <= Room(n, C, closeMergeSet)
    BY <1>5, <1>6, RoomGrows
  <1> QED
    BY <1>1, <1>2, <1>3, <1>4, <1>7 DEF n, B, C

(* What RegionsInv adds to ScheduleInv. *)
RegionsEnd(x, a) == SameOuterRegions /\ StacksBounded(x, a) /\ EndedHoldNoLast

(* The bound on the current state while it executes an instruction, and on *)
(* the others.                                                             *)
LEMMA MidBounds ==
    ASSUME NEW x, NEW a, RegionsInv(x, a), phase \in MidInstruction
    PROVE  /\ \A s \in ES \ {current} : removedStates[s] = 0 =>
                 Len(openMergeStack[s]) <= Room(x[pc[s]], a[pc[s]], closeMergeSet)
           /\ removedStates[current] = 0 =>
                 /\ phase = "execute" =>
                       /\ pc[current] = NextInst(Executed)
                       /\ Len(openMergeStack[current]) <= Room(x[Executed], a[Executed], closeMergeSet)
                 /\ phase # "execute" => \E k \in 1 .. Len(Succ(Executed)) :
                                            pc[current] = Succ(Executed)[k]
                 /\ phase = "autoOpen" => Len(openMergeStack[current])
                       <= Room(ExplicitAfter(x, Executed), a[Executed], closeMergeSet)
                 /\ phase = "autoClose" => Len(openMergeStack[current])
                       <= Room(ExplicitAfter(x, Executed), AutoAfter(a, Executed), closeMergeSet)
  <1>1. StacksBounded(x, a) /\ phase # "aborted"
    BY DEF RegionsInv, MidInstruction
  <1> QED
    BY <1>1 DEF StacksBounded, MidInstruction

(* What there is to show when the iteration goes on. *)
LEMMA BoundedOnward ==
    ASSUME NEW x, NEW a, UNCHANGED <<prevPC, current>>, phase' \in {"autoOpen", "autoClose", "memory"},
           \A s \in ES \ {current} : removedStates'[s] = 0 =>
               Len(openMergeStack'[s]) <= Room(x[pc'[s]], a[pc'[s]], closeMergeSet'),
           removedStates'[current] = 0 =>
               /\ phase' # "memory" => \E k \in 1 .. Len(Succ(Executed)) :
                                         pc'[current] = Succ(Executed)[k]
               /\ phase' = "autoOpen" => Len(openMergeStack'[current])
                     <= Room(ExplicitAfter(x, Executed), a[Executed], closeMergeSet')
               /\ phase' = "autoClose" => Len(openMergeStack'[current])
                     <= Room(ExplicitAfter(x, Executed), AutoAfter(a, Executed), closeMergeSet')
               /\ phase' = "memory" => Len(openMergeStack'[current])
                     <= Room(x[pc'[current]], a[pc'[current]], closeMergeSet')
    PROVE  StacksBounded(x, a)'
  <1>1. Executed' = Executed
    BY DEF Executed
  <1>2. CASE phase' = "memory"
    BY <1>2 DEF StacksBounded, MidInstruction
  <1>3. CASE phase' = "autoOpen"
    BY <1>1, <1>3 DEF StacksBounded, MidInstruction
  <1>4. CASE phase' = "autoClose"
    BY <1>1, <1>4 DEF StacksBounded, MidInstruction
  <1> QED
    BY <1>2, <1>3, <1>4

(* A step of the iteration that neither opens nor closes a region, nor     *)
(* ends or moves a state.                                                  *)
LEMMA RegionsQuiet ==
    ASSUME NEW x, NEW a, RegionBounds(x, a), RegionsInv(x, a),
           UNCHANGED <<openMergeStack, reachedCloseMerge, removedStates, pc, prevPC, current,
                       forked, closeMergeSet>>,
           \/ /\ phase = "execute" /\ phase' = "autoOpen" /\ Op(Executed) # "exit"
              /\ Op(Executed) \notin {"open", "close"} \/ Len(openMergeStack[current]) = 0
           \/ phase = "autoOpen" /\ phase' = "autoClose"
           \/ /\ phase = "autoClose" /\ phase' = "memory"
              /\ ~AtClosePoint \/ Len(openMergeStack[current]) = 0
    PROVE  RegionsEnd(x, a)'
  <1>1. phase \in MidInstruction
    BY DEF MidInstruction
  <1>2. /\ current \in ES /\ Executed \in Inst
        /\ Room(ExplicitAfter(x, Executed), a[Executed], closeMergeSet) \in Nat
        /\ Room(ExplicitAfter(x, Executed), AutoAfter(a, Executed), closeMergeSet) \in Nat
        /\ Room(ExplicitAfter(x, Executed), a[Executed], closeMergeSet)
              <= Room(ExplicitAfter(x, Executed), AutoAfter(a, Executed), closeMergeSet)
        /\ \A s \in ES : /\ Len(openMergeStack[s]) \in Nat
                         /\ Room(x[pc[s]], a[pc[s]], closeMergeSet) \in Nat
    BY <1>1, MidState
  <1>3. /\ \A s \in ES \ {current} : removedStates[s] = 0 =>
                 Len(openMergeStack[s]) <= Room(x[pc[s]], a[pc[s]], closeMergeSet)
        /\ removedStates[current] = 0 =>
                 /\ phase = "execute" =>
                       /\ pc[current] = NextInst(Executed)
                       /\ Len(openMergeStack[current]) <= Room(x[Executed], a[Executed], closeMergeSet)
                 /\ phase # "execute" => \E k \in 1 .. Len(Succ(Executed)) :
                                            pc[current] = Succ(Executed)[k]
                 /\ phase = "autoOpen" => Len(openMergeStack[current])
                       <= Room(ExplicitAfter(x, Executed), a[Executed], closeMergeSet)
                 /\ phase = "autoClose" => Len(openMergeStack[current])
                       <= Room(ExplicitAfter(x, Executed), AutoAfter(a, Executed), closeMergeSet)
    BY <1>1, MidBounds
  <1>4. ASSUME removedStates[current] = 0
        PROVE  /\ phase' # "memory" => \E k \in 1 .. Len(Succ(Executed)) :
                                         pc[current] = Succ(Executed)[k]
               /\ phase' = "autoOpen" => Len(openMergeStack[current])
                     <= Room(ExplicitAfter(x, Executed), a[Executed], closeMergeSet)
               /\ phase' = "autoClose" => Len(openMergeStack[current])
                     <= Room(ExplicitAfter(x, Executed), AutoAfter(a, Executed), closeMergeSet)
               /\ phase' = "memory" => Len(openMergeStack[current])
                     <= Room(x[pc[current]], a[pc[current]], closeMergeSet)
    <2>1. CASE phase = "execute"
      <3>1. \E k \in 1 .. Len(Succ(Executed)) : pc[current] = Succ(Executed)[k]
        BY <1>2, <1>3, <1>4, <2>1, NextIsSuccessor
      <3>2. Op(Executed) \notin {"open", "close"} => ExplicitAfter(x, Executed) = x[Executed]
        BY <1>2, InstructionRoom
      <3>3. Len(openMergeStack[current])
               <= Room(ExplicitAfter(x, Executed), a[Executed], closeMergeSet)
        BY <1>2, <1>3, <1>4, <2>1, <3>2
      <3> QED
        BY <2>1, <3>1, <3>3
    <2>2. CASE phase = "autoOpen"
      BY <1>2, <1>3, <1>4, <2>2
    <2>3. CASE phase = "autoClose"
      <3> DEFINE j == pc[current]
      <3>1. \E k \in 1 .. Len(Succ(Executed)) : j = Succ(Executed)[k]
        BY <1>3, <1>4, <2>3
      <3> HIDE DEF j
      <3>2. ~AtClosePoint => Room(ExplicitAfter(x, Executed), AutoAfter(a, Executed), closeMergeSet)
                                <= Room(x[j], a[j], closeMergeSet)
        BY <1>2, <3>1, SuccessorRoom DEF AtClosePoint
      <3>3. Len(openMergeStack[current]) <= Room(x[j], a[j], closeMergeSet)
        BY <1>2, <1>3, <1>4, <2>3, <3>2 DEF j
      <3> QED
        BY <2>3, <3>3 DEF j
    <2> QED
      BY <1>1, <2>1, <2>2, <2>3 DEF MidInstruction
  <1>5. phase' \in {"autoOpen", "autoClose", "memory"}
    OBVIOUS
  <1>6. StacksBounded(x, a)'
    BY <1>3, <1>4, <1>5, BoundedOnward
  <1>7. EndedHoldNoLast'
    BY DEF RegionsInv, EndedHoldNoLast, Holds
  <1>8. SameOuterRegions'
    BY OuterUnchanged DEF RegionsInv
  <1> QED
    BY <1>6, <1>7, <1>8 DEF RegionsEnd

(* Where a state may end its stack is empty. *)
LEMMA EndsWithoutRegions ==
    ASSUME NEW x, NEW a, RegionBounds(x, a), RegionsInv(x, a), phase = "execute",
           Op(Executed) \in {"exit", "load"} \/ ((MayExceedDepth \/ MayTimeOut) /\ Op(Executed) = "br")
    PROVE  Len(openMergeStack[current]) = 0 /\ openMergeStack[current] = << >>
  <1>1. phase \in MidInstruction
    BY DEF MidInstruction
  <1>2. /\ current \in ES /\ Executed \in Inst /\ TypeOK /\ ScheduleInv
        /\ Len(openMergeStack[current]) \in Nat
    BY <1>1, MidState
  <1>3. removedStates[current] = 0
    BY <1>2, NothingRemoved DEF ScheduleInv, IterationIsOne
  <1>4. Len(openMergeStack[current]) <= Room(x[Executed], a[Executed], closeMergeSet)
    BY <1>1, <1>3, MidBounds
  <1>5. x[Executed] = 0 /\ a[Executed] = {}
    BY <1>2 DEF RegionBounds
  <1>6. Room(0, {}, closeMergeSet) = 0
    <2>1. {} \cap closeMergeSet = {}
      OBVIOUS
    <2> QED
      BY <2>1, FS_EmptySet DEF Room
  <1>7. Len(openMergeStack[current]) = 0
    BY <1>2, <1>4, <1>5, <1>6
  <1>8. openMergeStack[current] \in Seq(MH)
    BY <1>2 DEF TypeOK
  <1> QED
    BY <1>7, <1>8

(* The current state ends. *)
LEMMA RegionsTerminate ==
    ASSUME NEW x, NEW a, RegionBounds(x, a), RegionsInv(x, a),
           phase = "execute", phase' = "autoOpen",
           Op(Executed) \in {"exit", "load"} \/ ((MayExceedDepth \/ MayTimeOut) /\ Op(Executed) = "br"),
           Terminate({current}),
           UNCHANGED <<openMergeStack, reachedCloseMerge, prevPC, current, forked, closeMergeSet>>
    PROVE  RegionsEnd(x, a)'
  <1>1. phase \in MidInstruction
    BY DEF MidInstruction
  <1>2. current \in ES /\ TypeOK /\ ScheduleInv
    BY <1>1, MidState
  <1>3. openMergeStack[current] = << >>
    BY EndsWithoutRegions
  <1>4. \A s \in ES : removedStates[s] = 0
    BY <1>2, NothingRemoved DEF ScheduleInv, IterationIsOne
  <1>5. \A s \in ES : /\ removedStates'[s] = IF s = current THEN 1 ELSE 0
                      /\ s # current => pc'[s] = pc[s]
    BY <1>2, <1>4 DEF Terminate
  <1>6. \A s \in ES \ {current} : removedStates[s] = 0 =>
                 Len(openMergeStack[s]) <= Room(x[pc[s]], a[pc[s]], closeMergeSet)
    BY <1>1, MidBounds
  <1>7. \A s \in ES \ {current} : removedStates'[s] = 0 =>
               Len(openMergeStack'[s]) <= Room(x[pc'[s]], a[pc'[s]], closeMergeSet')
    BY <1>4, <1>5, <1>6
  <1>8. removedStates'[current] # 0 /\ phase' \in {"autoOpen", "autoClose", "memory"}
    BY <1>2, <1>5
  <1>9. StacksBounded(x, a)'
    BY <1>7, <1>8, BoundedOnward
  <1>10. \A h : ~Holds(current, h)'
    BY <1>3 DEF Holds
  <1>11. ~forked
    BY DEF RegionsInv, EndedHoldNoLast
  <1>12. EndedHoldNoLast'
    <2>1. \A s \in ES : removedStates'[s] > 0 => s = current
      BY <1>5
    <2> QED
      BY <1>10, <1>11, <2>1 DEF EndedHoldNoLast
  <1>13. SameOuterRegions'
    BY OuterUnchanged DEF RegionsInv
  <1> QED
    BY <1>9, <1>12, <1>13 DEF RegionsEnd

(* A fork: each copy has room where it goes. *)
LEMMA RegionsFork ==
    ASSUME NEW x, NEW a, RegionBounds(x, a), RegularMerging, RegionsInv(x, a),
           phase = "execute", phase' = "autoOpen", Op(Executed) \in {"br", "switch", "load"},
           NEW choice, NEW targets, Fork(choice, targets),
           \A k \in 1 .. Len(targets) : \E l \in 1 .. Len(Succ(Executed)) :
               targets[k] = Succ(Executed)[l],
           UNCHANGED <<removedStates, reachedCloseMerge, current, closeMergeSet>>
    PROVE  RegionsEnd(x, a)'
  <1>1. phase \in MidInstruction
    BY DEF MidInstruction
  <1>2. /\ current \in ES /\ current \in Allocated /\ TypeOK /\ ScheduleInv /\ StepInv
        /\ Executed \in Inst
        /\ Room(ExplicitAfter(x, Executed), a[Executed], closeMergeSet) \in Nat
        /\ Room(ExplicitAfter(x, Executed), AutoAfter(a, Executed), closeMergeSet) \in Nat
        /\ Room(ExplicitAfter(x, Executed), a[Executed], closeMergeSet)
              <= Room(ExplicitAfter(x, Executed), AutoAfter(a, Executed), closeMergeSet)
        /\ \A s \in ES : Len(openMergeStack[s]) \in Nat
    BY <1>1, MidState
  <1>3. \A s \in ES : removedStates[s] = 0
    BY <1>2, NothingRemoved DEF ScheduleInv, IterationIsOne
  <1>4. PICK copies, takes : ForkedAs(choice, targets, copies, takes)
    BY <1>2, ForkEffect DEF StepInv
  <1>5. /\ copies \in SUBSET ES /\ copies \cap 1 .. created = {} /\ current \notin copies
        /\ copies = (created + 1) .. created'
        /\ \A s \in ES : /\ openMergeStack'[s] = IF s \in copies THEN openMergeStack[current]
                                                 ELSE openMergeStack[s]
                         /\ prevPC'[s] = IF s \in copies THEN prevPC[current] ELSE prevPC[s]
                         /\ s \notin copies \cup {current} => pc'[s] = pc[s]
    BY <1>4 DEF ForkedAs
  <1>6. \A s \in ES : s \in copies \/ s = current =>
            \E k \in 1 .. Len(Succ(Executed)) : pc'[s] = Succ(Executed)[k]
    <2>1. \A s \in ES : s \in (created + 1) .. created' \/ s = current =>
              \E k \in 1 .. Len(targets) : pc'[s] = targets[k]
      BY <1>2, ForkTargets
    <2> QED
      BY <1>5, <2>1
  <1>7. /\ \A s \in ES \ {current} : Len(openMergeStack[s]) <= Room(x[pc[s]], a[pc[s]], closeMergeSet)
        /\ Len(openMergeStack[current]) <= Room(x[Executed], a[Executed], closeMergeSet)
    BY <1>1, <1>2, <1>3, MidBounds
  <1>8. Len(openMergeStack[current]) <= Room(ExplicitAfter(x, Executed), a[Executed], closeMergeSet)
    BY <1>2, <1>7, InstructionRoom
  <1>9. AtClosePoint => Len(openMergeStack[current]) = 0
    <2>1. CASE UseMerge
      <3>1. AtClosePoint => \E b \in Blocks : CloseBlock[b] = BlockOf(Executed)
        BY <1>2 DEF AtClosePoint, ScheduleInv
      <3> QED
        BY <1>2, <2>1, <3>1 DEF AtClosePoint, RegularMerging, PlainClosePoints
    <2>2. CASE ~UseMerge
      BY <1>2, <2>2 DEF ScheduleInv
    <2> QED
      BY <2>1, <2>2
  <1>10. ASSUME NEW s \in copies
         PROVE  Len(openMergeStack[current]) <= Room(x[pc'[s]], a[pc'[s]], closeMergeSet)
    <2> DEFINE j == pc'[s]
    <2>1. \E k \in 1 .. Len(Succ(Executed)) : j = Succ(Executed)[k]
      BY <1>5, <1>6
    <2> HIDE DEF j
    <2>2. /\ Room(x[j], a[j], closeMergeSet) \in Nat
          /\ ~AtClosePoint => Room(ExplicitAfter(x, Executed), AutoAfter(a, Executed), closeMergeSet)
                                <= Room(x[j], a[j], closeMergeSet)
      BY <1>2, <2>1, SuccessorRoom DEF AtClosePoint
    <2>3. Len(openMergeStack[current]) <= Room(x[j], a[j], closeMergeSet)
      BY <1>2, <1>8, <1>9, <2>2
    <2> QED
      BY <2>3 DEF j
  <1>11. Executed' = Executed
    BY <1>2, <1>5 DEF Executed
  <1>12. StacksBounded(x, a)'
    <2>1. ASSUME NEW s \in ES, s # current
          PROVE  Len(openMergeStack'[s]) <= Room(x[pc'[s]], a[pc'[s]], closeMergeSet')
      <3>1. CASE s \in copies
        BY <1>5, <1>10, <3>1
      <3>2. CASE s \notin copies
        BY <1>5, <1>7, <2>1, <3>2
      <3> QED
        BY <3>1, <3>2
    <2>2. /\ \E k \in 1 .. Len(Succ(Executed)) : pc'[current] = Succ(Executed)[k]
          /\ Len(openMergeStack'[current])
                <= Room(ExplicitAfter(x, Executed), a[Executed], closeMergeSet')
      BY <1>2, <1>5, <1>6, <1>8
    <2> QED
      BY <1>11, <2>1, <2>2 DEF StacksBounded, MidInstruction
  <1>13. EndedHoldNoLast'
    BY <1>2, <1>3 DEF EndedHoldNoLast
  <1>14. SameOuterRegions'
    BY <1>2, <1>5, ForkOuter DEF RegionsInv
  <1> QED
    BY <1>12, <1>13, <1>14 DEF RegionsEnd

(* What opening a region does to the stacks. *)
LEMMA OpenStacks ==
    ASSUME ScheduleInv, SameOuterRegions, current \in ES, HandleOpenMerge
    PROVE  /\ SameOuterRegions'
           /\ Len(openMergeStack'[current]) <= Len(openMergeStack[current]) + 1
           /\ \A s \in ES \ {current} : openMergeStack'[s] = openMergeStack[s]
           /\ \A s \in ES : \A g : Holds(s, g) => Holds(s, g)'
  <1>1. /\ StepInv /\ TypeOK /\ current' = current
        /\ \A s \in ES : openMergeStack[s] \in Seq(MH) /\ Len(openMergeStack[s]) \in Nat
    <2>1. StepInv /\ TypeOK
      BY DEF ScheduleInv, StepInv, RecordsInv
    <2>2. openMergeStack \in [ES -> Seq(MH)]
      BY <2>1 DEF TypeOK
    <2>3. \A s \in ES : openMergeStack[s] \in Seq(MH) /\ Len(openMergeStack[s]) \in Nat
      BY <2>2
    <2> QED
      BY <2>1, <2>3 DEF HandleOpenMerge
  <1>2. CASE UseMerge
    <2> DEFINE h == handlersCreated + 1
               stack == openMergeStack[current]
    <2>1. OpenMerge(current)
      BY <1>2 DEF HandleOpenMerge
    <2>2. h \in MH /\ openMergeStack' = [openMergeStack EXCEPT ![current] = Append(@, h)]
      BY <2>1 DEF OpenMerge
    <2>3. /\ openMergeStack'[current] = Append(stack, h)
          /\ \A s \in ES \ {current} : openMergeStack'[s] = openMergeStack[s]
      BY <1>1, <2>2 DEF TypeOK
    <2>4. SameOuterRegions'
      BY <1>1, <2>1, OpenOuter
    <2>5. stack \in Seq(MH) /\ Len(stack) \in Nat
      BY <1>1
    <2> HIDE DEF h, stack
    <2>6. /\ Len(Append(stack, h)) = Len(stack) + 1
          /\ \A k \in 1 .. Len(stack) : k \in 1 .. Len(stack) + 1 /\ Append(stack, h)[k] = stack[k]
      BY <2>2, <2>5
    <2>7. \A g : Holds(current, g) => Holds(current, g)'
      BY <1>1, <2>3, <2>6 DEF Holds, stack
    <2>8. \A s \in ES : \A g : Holds(s, g) => Holds(s, g)'
      <3>1. \A s \in ES \ {current} : \A g : Holds(s, g) => Holds(s, g)'
        BY <2>3 DEF Holds
      <3>2. \A s \in ES : s = current => \A g : Holds(s, g) => Holds(s, g)'
        BY <1>1, <2>7
      <3> QED
        BY <3>1, <3>2
    <2>9. Len(openMergeStack'[current]) <= Len(stack) + 1
      BY <2>3, <2>5, <2>6
    <2> QED
      BY <2>3, <2>4, <2>8, <2>9 DEF stack
  <1>3. CASE ~UseMerge
    <2>1. UNCHANGED <<openMergeStack, reachedCloseMerge>>
      BY <1>3 DEF HandleOpenMerge, handlerVars
    <2>2. SameOuterRegions'
      BY <2>1, OuterUnchanged
    <2>3. Len(openMergeStack'[current]) <= Len(openMergeStack[current]) + 1
      BY <1>1, <2>1
    <2> QED
      BY <2>1, <2>2, <2>3 DEF Holds
  <1> QED
    BY <1>2, <1>3

(* klee_open_merge. *)
LEMMA RegionsOpen ==
    ASSUME NEW x, NEW a, RegionBounds(x, a), RegionsInv(x, a),
           ExecuteOpenMerge
    PROVE  RegionsEnd(x, a)'
  <1>1. /\ phase = "execute" /\ phase' = "autoOpen" /\ Op(Executed) = "open" /\ HandleOpenMerge
        /\ phase \in MidInstruction
        /\ UNCHANGED <<removedStates, pc, prevPC, current, forked, closeMergeSet>>
    BY DEF ExecuteOpenMerge, Executing, HandleOpenMerge, MidInstruction
  <1>2. /\ current \in ES /\ TypeOK /\ ScheduleInv /\ Executed \in Inst
        /\ Room(x[Executed], a[Executed], closeMergeSet) \in Nat
        /\ \A s \in ES : Len(openMergeStack[s]) \in Nat
    BY <1>1, MidState
  <1>3. \A s \in ES : removedStates[s] = 0
    BY <1>1, <1>2, NothingRemoved DEF ScheduleInv, IterationIsOne
  <1>4. /\ SameOuterRegions'
        /\ Len(openMergeStack'[current]) <= Len(openMergeStack[current]) + 1
        /\ \A s \in ES \ {current} : openMergeStack'[s] = openMergeStack[s]
    BY <1>1, <1>2, OpenStacks DEF RegionsInv
  <1>5. /\ \A s \in ES \ {current} : Len(openMergeStack[s]) <= Room(x[pc[s]], a[pc[s]], closeMergeSet)
        /\ Len(openMergeStack[current]) <= Room(x[Executed], a[Executed], closeMergeSet)
        /\ pc[current] = NextInst(Executed)
    BY <1>1, <1>2, <1>3, MidBounds
  <1>6. Room(ExplicitAfter(x, Executed), a[Executed], closeMergeSet)
          = Room(x[Executed], a[Executed], closeMergeSet) + 1
    <2>1. /\ x[Executed] \in Nat /\ ExplicitAfter(x, Executed) = x[Executed] + 1
          /\ a[Executed] \cap closeMergeSet \in SUBSET Blocks
      BY <1>1, <1>2, InstructionRoom
    <2>2. Cardinality(a[Executed] \cap closeMergeSet) \in Nat
      BY <2>1, BlocksFinite
    <2> QED
      BY <2>1, <2>2 DEF Room
  <1>7. Len(openMergeStack'[current]) <= Room(ExplicitAfter(x, Executed), a[Executed], closeMergeSet)
    <2>1. openMergeStack' \in [ES -> Seq(MH)]
      BY <1>1, <1>2, NextType DEF Next, Iterate, TypeOK
    <2>2. Len(openMergeStack'[current]) \in Nat
      BY <1>2, <2>1
    <2> QED
      BY <1>2, <1>4, <1>5, <1>6, <2>2
  <1>8. \E k \in 1 .. Len(Succ(Executed)) : pc[current] = Succ(Executed)[k]
    BY <1>1, <1>2, <1>5, NextIsSuccessor
  <1>9. StacksBounded(x, a)'
    BY <1>1, <1>4, <1>5, <1>7, <1>8, BoundedOnward
  <1>10. EndedHoldNoLast'
    BY <1>1, <1>2, <1>3 DEF EndedHoldNoLast
  <1> QED
    BY <1>4, <1>9, <1>10 DEF RegionsEnd

(* Auto merge opens a region: its close block becomes one of those that    *)
(* close regions.                                                          *)
LEMMA RegionsAutoOpen ==
    ASSUME NEW x, NEW a, RegionBounds(x, a), RegionsInv(x, a), AutoOpen
    PROVE  RegionsEnd(x, a)'
  <1> DEFINE c == CloseBlock[BlockOf(Executed)]
             n == ExplicitAfter(x, Executed)
             B == a[Executed]
             C == AutoAfter(a, Executed)
  <1>1. /\ phase = "autoOpen" /\ phase' = "autoClose" /\ OpensRegion /\ HandleOpenMerge
        /\ phase \in MidInstruction
        /\ closeMergeSet' = closeMergeSet \cup {c}
        /\ UNCHANGED <<removedStates, pc, prevPC, current, forked>>
    BY DEF AutoOpen, HandleOpenMerge, MidInstruction
  <1>2. /\ current \in ES /\ TypeOK /\ ScheduleInv /\ Executed \in Inst
        /\ \A s \in ES : /\ Len(openMergeStack[s]) \in Nat /\ pc[s] \in Inst
                         /\ Room(x[pc[s]], a[pc[s]], closeMergeSet) \in Nat
        /\ Room(n, B, closeMergeSet) \in Nat
    BY <1>1, MidState
  <1>3. removedStates[current] = 0
    BY <1>1 DEF OpensRegion, RegionsInv, EndedHoldNoLast
  <1>4. /\ SameOuterRegions'
        /\ Len(openMergeStack'[current]) <= Len(openMergeStack[current]) + 1
        /\ \A s \in ES \ {current} : openMergeStack'[s] = openMergeStack[s]
        /\ \A s \in ES : \A g : Holds(s, g) => Holds(s, g)'
    BY <1>1, <1>2, OpenStacks DEF RegionsInv
  <1>5. /\ \A s \in ES \ {current} : removedStates[s] = 0 =>
                 Len(openMergeStack[s]) <= Room(x[pc[s]], a[pc[s]], closeMergeSet)
        /\ Len(openMergeStack[current]) <= Room(n, B, closeMergeSet)
        /\ \E k \in 1 .. Len(Succ(Executed)) : pc[current] = Succ(Executed)[k]
    BY <1>1, <1>3, MidBounds
  <1>6. \A s \in ES : /\ Room(x[pc[s]], a[pc[s]], closeMergeSet') \in Nat
                      /\ Room(x[pc[s]], a[pc[s]], closeMergeSet) <= Room(x[pc[s]], a[pc[s]], closeMergeSet')
    <2>1. ASSUME NEW s \in ES
          PROVE  /\ Room(x[pc[s]], a[pc[s]], closeMergeSet') \in Nat
                 /\ Room(x[pc[s]], a[pc[s]], closeMergeSet) <= Room(x[pc[s]], a[pc[s]], closeMergeSet')
      <3> DEFINE m == x[pc[s]]
                 D == a[pc[s]]
                 S == closeMergeSet
                 T == closeMergeSet'
      <3>1. m \in Nat /\ D \in SUBSET Blocks
        BY <1>2, InstructionRoom
      <3>2. S \subseteq T
        BY <1>1
      <3> HIDE DEF m, D, S, T
      <3>3. m <= m /\ D \cap S \subseteq D \cap T
        BY <3>1, <3>2
      <3>4. Room(m, D, T) \in Nat /\ Room(m, D, S) <= Room(m, D, T)
        BY <3>1, <3>3, RoomGrows
      <3> QED
        BY <3>4 DEF m, D, S, T
    <2> QED
      BY <2>1
  <1>7. Room(n, B, closeMergeSet) + 1 <= Room(n, C, closeMergeSet') /\ Room(n, C, closeMergeSet') \in Nat
    <2>1. /\ n \in Nat /\ B \in SUBSET Blocks /\ C \in SUBSET Blocks /\ B \subseteq C
          /\ c \in C /\ c \notin B
      BY <1>1, <1>2, InstructionRoom DEF OpensRegion
    <2> DEFINE S == closeMergeSet
               T == closeMergeSet'
    <2>2. S \subseteq T /\ c \in T
      BY <1>1
    <2> HIDE DEF n, B, C, c, S, T
    <2>3. B \cap S \subseteq C \cap T /\ c \in C \cap T /\ n <= n /\ C \cap T \subseteq C \cap T
      BY <2>1, <2>2
    <2>4. Room(n, B, S) + 1 <= Room(n, C, T)
      BY <2>1, <2>3, RoomAdds
    <2>5. Room(n, C, T) \in Nat
      BY <2>1, <2>3, RoomGrows
    <2> QED
      BY <2>4, <2>5 DEF S, T
  <1>8. openMergeStack' \in [ES -> Seq(MH)]
    BY <1>2, NextType DEF Next, Iterate, TypeOK
  <1>9. \A s \in ES : Len(openMergeStack'[s]) \in Nat
    BY <1>8
  <1>10. Len(openMergeStack'[current]) <= Room(n, C, closeMergeSet')
    BY <1>2, <1>4, <1>5, <1>7, <1>9
  <1>11. \A s \in ES \ {current} : removedStates'[s] = 0 =>
            Len(openMergeStack'[s]) <= Room(x[pc'[s]], a[pc'[s]], closeMergeSet')
    <2>1. ASSUME NEW s \in ES, s # current, removedStates'[s] = 0
          PROVE  Len(openMergeStack'[s]) <= Room(x[pc'[s]], a[pc'[s]], closeMergeSet')
      <3>1. /\ openMergeStack'[s] = openMergeStack[s] /\ pc'[s] = pc[s]
            /\ Len(openMergeStack[s]) <= Room(x[pc[s]], a[pc[s]], closeMergeSet)
        BY <1>1, <1>4, <1>5, <2>1
      <3> DEFINE L == Len(openMergeStack[s])
                 p == Room(x[pc[s]], a[pc[s]], closeMergeSet)
                 q == Room(x[pc[s]], a[pc[s]], closeMergeSet')
      <3>2. L \in Nat /\ p \in Nat /\ q \in Nat /\ L <= p /\ p <= q
        BY <1>2, <1>6, <3>1
      <3> HIDE DEF L, p, q
      <3>3. L <= q
        BY <3>2
      <3> QED
        BY <3>1, <3>3 DEF L, q
    <2> QED
      BY <2>1
  <1>12. StacksBounded(x, a)'
    BY <1>1, <1>5, <1>10, <1>11, BoundedOnward
  <1>13. EndedHoldNoLast'
    <2>1. ASSUME NEW s \in ES, NEW h \in MH, removedStates'[s] > 0, Holds(s, h)'
          PROVE  \E t \in ES : removedStates'[t] = 0 /\ Holds(t, h)'
      <3>1. s # current /\ removedStates[s] > 0
        BY <1>1, <1>3, <2>1
      <3>2. Holds(s, h)
        BY <1>4, <2>1, <3>1 DEF Holds
      <3>3. PICK t \in ES : removedStates[t] = 0 /\ Holds(t, h)
        BY <1>1, <3>1, <3>2 DEF RegionsInv, EndedHoldNoLast
      <3> QED
        BY <1>1, <1>4, <3>3
    <2> QED
      BY <1>1, <2>1 DEF EndedHoldNoLast
  <1> QED
    BY <1>4, <1>12, <1>13 DEF RegionsEnd

(* A region is closed: the current state has room for what it has left,    *)
(* and who is absorbed leaves its handlers to the state that absorbs it.   *)
LEMMA RegionsClose ==
    ASSUME NEW x, NEW a, RegionBounds(x, a), RegularMerging, RegionsInv(x, a), ClosesRegion,
           \/ phase = "execute" /\ Op(Executed) = "close" /\ phase' = "autoOpen"
           \/ phase = "autoClose" /\ AtClosePoint /\ phase' = "memory",
           CloseMerge(current, Executed), UNCHANGED <<prevPC, current, forked, closeMergeSet>>
    PROVE  RegionsEnd(x, a)'
  <1>1. phase \in MidInstruction /\ phase' \in {"autoOpen", "autoClose", "memory"}
    BY DEF MidInstruction
  <1>2. /\ current \in ES /\ TypeOK /\ ScheduleInv /\ StepInv /\ Executed \in Inst
        /\ \A s \in ES : Len(openMergeStack[s]) \in Nat
        /\ Room(x[Executed], a[Executed], closeMergeSet) \in Nat
        /\ Room(ExplicitAfter(x, Executed), a[Executed], closeMergeSet) \in Nat
        /\ Room(ExplicitAfter(x, Executed), AutoAfter(a, Executed), closeMergeSet) \in Nat
    BY <1>1, MidState
  <1>3. /\ Removed = {} /\ current \notin pausedStates /\ openMergeStack[current] # << >>
        /\ CloseMergeFailure(current, Executed) = "none"
    BY <1>2, BeforeClose, CloseNeverFails DEF ClosesRegion
  <1>4. \A s \in ES : removedStates[s] = 0
    BY <1>2, <1>3, NothingRemoved
  <1> DEFINE stayed == WaitingIn({Top(current)}, ReachedAfterClose(current, Executed))
  <1>5. /\ SameOuterRegions'
        /\ \A s, t \in stayed : \A g \in MH : Holds(s, g)' => Holds(t, g)'
        /\ \A s \in ES : /\ s # current => openMergeStack'[s] = openMergeStack[s]
                         /\ Len(openMergeStack'[s]) = IF s = current THEN Len(openMergeStack[s]) - 1
                                                      ELSE Len(openMergeStack[s])
    BY <1>2, <1>3, CloseOuter DEF RegionsInv, ScheduleInv
  <1>6. PICK freed \in SUBSET (pausedStates \cup {current}) : \E got :
           MergedAs(got, freed) /\ freed \subseteq stayed
    BY <1>2, <1>3, CloseEffect
  <1>7. PICK got : MergedAs(got, freed) /\ freed \subseteq stayed
    BY <1>6
  <1> HIDE DEF stayed
  <1>8. /\ \A s \in ES : removedStates'[s] = IF s \in Absorbed(got) THEN 1 ELSE 0
        /\ \A s \in ES : s \notin Absorbed(got) => pc'[s] = pc[s]
    <2>1. \A s \in ES : /\ removedStates'[s] = IF s \in Absorbed(got) THEN removedStates[s] + 1
                                               ELSE removedStates[s]
                        /\ pc'[s] = IF s \in Absorbed(got) THEN prevPC[s] ELSE pc[s]
      BY <1>7 DEF MergedAs
    <2> QED
      BY <1>4, <2>1
  <1>9. /\ \A s \in ES \ {current} : Len(openMergeStack[s]) <= Room(x[pc[s]], a[pc[s]], closeMergeSet)
        /\ phase = "execute" =>
              /\ pc[current] = NextInst(Executed)
              /\ Len(openMergeStack[current]) <= Room(x[Executed], a[Executed], closeMergeSet)
        /\ phase # "execute" => \E k \in 1 .. Len(Succ(Executed)) : pc[current] = Succ(Executed)[k]
        /\ phase = "autoClose" => Len(openMergeStack[current])
              <= Room(ExplicitAfter(x, Executed), AutoAfter(a, Executed), closeMergeSet)
    BY <1>1, <1>2, <1>4, MidBounds
  <1>10. \A s \in ES \ {current} : removedStates'[s] = 0 =>
            Len(openMergeStack'[s]) <= Room(x[pc'[s]], a[pc'[s]], closeMergeSet')
    BY <1>5, <1>8, <1>9
  <1>11. ASSUME removedStates'[current] = 0
         PROVE  /\ phase' # "memory" => \E k \in 1 .. Len(Succ(Executed)) :
                                          pc'[current] = Succ(Executed)[k]
                /\ phase' = "autoOpen" => Len(openMergeStack'[current])
                      <= Room(ExplicitAfter(x, Executed), a[Executed], closeMergeSet')
                /\ phase' = "memory" => Len(openMergeStack'[current])
                      <= Room(x[pc'[current]], a[pc'[current]], closeMergeSet')
    <2>1. pc'[current] = pc[current] /\ Len(openMergeStack'[current]) = Len(openMergeStack[current]) - 1
      BY <1>2, <1>5, <1>8, <1>11
    <2>2. CASE phase = "execute"
      <3>1. \E k \in 1 .. Len(Succ(Executed)) : pc[current] = Succ(Executed)[k]
        BY <1>2, <1>9, <2>2, NextIsSuccessor
      <3>2. Room(x[Executed], a[Executed], closeMergeSet)
              <= Room(ExplicitAfter(x, Executed), a[Executed], closeMergeSet) + 1
        <4>1. /\ x[Executed] \in Nat /\ ExplicitAfter(x, Executed) \in Nat
              /\ x[Executed] <= ExplicitAfter(x, Executed) + 1
              /\ a[Executed] \cap closeMergeSet \in SUBSET Blocks
          BY <1>2, <2>2, InstructionRoom
        <4>2. Cardinality(a[Executed] \cap closeMergeSet) \in Nat
          BY <4>1, BlocksFinite
        <4> QED
          BY <4>1, <4>2 DEF Room
      <3>3. Len(openMergeStack'[current])
              <= Room(ExplicitAfter(x, Executed), a[Executed], closeMergeSet)
        BY <1>2, <1>9, <2>1, <2>2, <3>2
      <3> QED
        BY <2>1, <2>2, <3>1, <3>3
    <2>3. CASE phase = "autoClose"
      <3> DEFINE j == pc[current]
      <3>1. \E k \in 1 .. Len(Succ(Executed)) : j = Succ(Executed)[k]
        BY <1>9, <2>3
      <3> HIDE DEF j
      <3>2. /\ Room(x[j], a[j], closeMergeSet) \in Nat
            /\ Room(ExplicitAfter(x, Executed), AutoAfter(a, Executed), closeMergeSet)
                 <= Room(x[j], a[j], closeMergeSet) + 1
        BY <1>2, <3>1, SuccessorRoom
      <3>3. Len(openMergeStack'[current]) <= Room(x[j], a[j], closeMergeSet)
        BY <1>2, <1>9, <2>1, <2>3, <3>2
      <3> QED
        BY <2>1, <2>3, <3>3 DEF j
    <2> QED
      BY <2>2, <2>3
  <1>12. StacksBounded(x, a)'
    BY <1>1, <1>10, <1>11, BoundedOnward
  <1>13. EndedHoldNoLast'
    <2>1. ASSUME NEW t \in ES, NEW h \in MH, removedStates'[t] > 0, Holds(t, h)'
          PROVE  \E s \in ES : removedStates'[s] = 0 /\ Holds(s, h)'
      <3>1. t \in Absorbed(got)
        BY <1>8, <2>1
      <3>2. PICK s \in ES : got[s] = t
        BY <3>1 DEF Absorbed
      <3>3. t # NoState
        BY DEF ES, NoState
      <3>4. s \in freed /\ t \in freed /\ got[t] = NoState
        BY <1>7, <3>2, <3>3 DEF MergedAs
      <3>5. s \notin Absorbed(got)
        <4>1. SUFFICES ASSUME NEW u \in ES, got[u] = s PROVE FALSE
          BY DEF Absorbed
        <4>2. s # NoState
          BY DEF ES, NoState
        <4>3. got[s] = NoState
          BY <1>7, <4>1, <4>2 DEF MergedAs
        <4> QED
          BY <3>2, <3>3, <4>3
      <3>6. Holds(s, h)'
        BY <1>5, <1>7, <2>1, <3>4
      <3> QED
        BY <1>8, <3>5, <3>6
    <2>2. phase' = "autoOpen" => ~forked
      BY DEF RegionsInv, EndedHoldNoLast
    <2> QED
      BY <1>1, <2>1, <2>2 DEF EndedHoldNoLast
  <1> QED
    BY <1>5, <1>12, <1>13 DEF RegionsEnd

(* The next state is selected. *)
LEMMA RegionsSelect ==
    ASSUME NEW x, NEW a, RegionsInv(x, a), phase = "select", NEW s \in baseSearcher, Select(s)
    PROVE  RegionsEnd(x, a)'
  <1>1. /\ ScheduleInv /\ TypeOK /\ Removed = {} /\ states = baseSearcher \cup pausedStates
        /\ s \in ES /\ s \in Allocated
    BY DEF RegionsInv, ScheduleInv, StepInv, RecordsInv, TypeOK, IterationIsOne, SearcherInStep,
           Allocated
  <1>2. \A t \in ES : removedStates[t] = 0
    BY <1>1, NothingRemoved
  <1>3. /\ current' = s /\ phase' = "execute" /\ forked' = FALSE
        /\ prevPC' = [prevPC EXCEPT ![s] = pc[s]]
        /\ pc' = [pc EXCEPT ![s] = NextInst(pc[s])]
        /\ UNCHANGED <<removedStates, openMergeStack, reachedCloseMerge, closeMergeSet>>
    BY <1>1 DEF Select, StepInstruction, searcherVars, handlerVars
  <1>4. \A t \in ES : Len(openMergeStack[t]) <= Room(x[pc[t]], a[pc[t]], closeMergeSet)
    BY <1>2 DEF RegionsInv, StacksBounded, MidInstruction
  <1>5. Executed' = pc[s] /\ pc'[s] = NextInst(pc[s]) /\ \A t \in ES \ {s} : pc'[t] = pc[t]
    BY <1>1, <1>3 DEF TypeOK, Executed
  <1>6. StacksBounded(x, a)'
    BY <1>1, <1>3, <1>4, <1>5 DEF StacksBounded, MidInstruction
  <1>7. EndedHoldNoLast'
    BY <1>2, <1>3 DEF EndedHoldNoLast
  <1>8. SameOuterRegions'
    BY <1>3, OuterUnchanged DEF RegionsInv
  <1> QED
    BY <1>6, <1>7, <1>8 DEF RegionsEnd

(* Between two instructions, a step that leaves stacks, waiting and        *)
(* terminated states alone.                                                *)
LEMMA RegionsBetween ==
    ASSUME NEW x, NEW a, RegionsInv(x, a),
           phase \notin MidInstruction, phase' \notin MidInstruction, phase # "aborted",
           UNCHANGED <<openMergeStack, reachedCloseMerge, removedStates, pc, closeMergeSet>>,
           phase' = "delete" => searcher' /\ \A s \in Removed \ deleting' : openMergeStack[s] = << >>
    PROVE  RegionsEnd(x, a)'
  <1>1. StacksBounded(x, a)'
    BY DEF RegionsInv, StacksBounded
  <1>2. Removed' = Removed
    BY DEF Removed
  <1>3. EndedHoldNoLast'
    BY <1>2 DEF RegionsInv, EndedHoldNoLast, Holds, MidInstruction
  <1>4. SameOuterRegions'
    BY OuterUnchanged DEF RegionsInv
  <1> QED
    BY <1>1, <1>3, <1>4 DEF RegionsEnd

(* A state that is deleted is not the last to hold a handler. *)
LEMMA DeletesNoHandler ==
    ASSUME NEW x, NEW a, RegionsInv(x, a), phase = "delete", NEW s \in deleting
    PROVE  /\ s \in ES /\ DestroyedByDelete(s) = {} /\ searcher
           /\ MergeClasses(DestroyedByDelete(s), reachedCloseMerge) = {}
  <1>1. s \in ES /\ removedStates[s] > 0 /\ removedStates[s] \in Nat /\ EndedHoldNoLast
    BY DEF RegionsInv, ScheduleInv, StepInv, RecordsInv, TypeOK, DeletedAreTerminated
  <1>2. ASSUME NEW h \in MH, Holds(s, h) PROVE ~LastHolder(s, h)
    <2>1. PICK t \in ES : removedStates[t] = 0 /\ Holds(t, h)
      BY <1>1, <1>2 DEF EndedHoldNoLast
    <2>2. t # s
      BY <1>1, <2>1
    <2> QED
      BY <2>1, <2>2 DEF LastHolder
  <1>3. DestroyedByDelete(s) = {}
    BY <1>2 DEF DestroyedByDelete
  <1>4. MergeClasses({}, reachedCloseMerge) = {}
    BY DEF MergeClasses
  <1> QED
    BY <1>1, <1>3, <1>4 DEF EndedHoldNoLast

(* A state is deleted. *)
LEMMA RegionsDelete ==
    ASSUME NEW x, NEW a, RegionsInv(x, a), phase = "delete", NEW s \in deleting,
           deleting' = deleting \ {s}, DeleteExecutionState(s),
           UNCHANGED <<phase, current, closeMergeSet, searcher>>
    PROVE  RegionsEnd(x, a)'
  <1>1. /\ s \in ES /\ DestroyedByDelete(s) = {} /\ searcher
        /\ MergeClasses(DestroyedByDelete(s), reachedCloseMerge) = {}
    BY DeletesNoHandler
  <1>2. /\ StepInv /\ TypeOK /\ removedStates[s] > 0 /\ removedStates[s] \in Nat
        /\ reachedCloseMerge \in [MH -> [Inst -> SUBSET ES]]
        /\ WaitAtOnePlace(WaitingIn(MH, reachedCloseMerge), reachedCloseMerge)
        /\ states \ deleting = baseSearcher \cup pausedStates
    BY <1>1 DEF RegionsInv, ScheduleInv, StepInv, RecordsInv, TypeOK, DeletedAreTerminated,
                WaitingRecordsAgree, SearcherInStep
  <1>3. s \notin pausedStates
    BY <1>2
  <1>4. /\ SameOuterRegions' /\ openMergeStack'[s] = << >>
        /\ \A t \in ES \ {s} : openMergeStack'[t] = openMergeStack[t]
    BY <1>1, <1>2, <1>3, DeleteOuter DEF RegionsInv
  <1>5. \A t \in ES : removedStates'[t] = removedStates[t] /\ pc'[t] = pc[t]
    <2> DEFINE H == DestroyedByDelete(s)
    <2>1. /\ H \in SUBSET MH /\ WaitingIn(H, reachedCloseMerge) = {}
          /\ ReleaseFailure(H, pausedStates, reachedCloseMerge) = "none"
      BY <1>1 DEF WaitingIn, ReleaseFailure, ReadsDeleted
    <2>2. DecideAndMerge(MergeClasses(H, reachedCloseMerge), WaitingIn(H, reachedCloseMerge))
      BY DEF DeleteExecutionState, ReleaseStates
    <2>3. MergeClasses(H, reachedCloseMerge) = {}
      BY <1>1
    <2> HIDE DEF H
    <2>4. PICK got : /\ MergedAs(got, WaitingIn(H, reachedCloseMerge))
                     /\ MergeClasses(H, reachedCloseMerge) = {} => \A t \in ES : got[t] = NoState
      BY <1>2, <2>1, <2>2, ReleaseMerges
    <2>5. Absorbed(got) = {}
      BY <2>3, <2>4 DEF Absorbed, ES, NoState
    <2> QED
      BY <2>4, <2>5 DEF MergedAs
  <1>6. StacksBounded(x, a)'
    <2>1. phase \notin MidInstruction /\ phase # "aborted"
      BY DEF MidInstruction
    <2>2. \A t \in ES : removedStates'[t] = 0 => t # s
      BY <1>2, <1>5
    <2>3. \A t \in ES : removedStates[t] = 0 =>
              Len(openMergeStack[t]) <= Room(x[pc[t]], a[pc[t]], closeMergeSet)
      BY <2>1 DEF RegionsInv, StacksBounded
    <2> QED
      BY <1>4, <1>5, <2>1, <2>2, <2>3 DEF StacksBounded
  <1>7. EndedHoldNoLast'
    <2>1. EndedHoldNoLast /\ phase # "aborted"
      BY DEF RegionsInv
    <2>2. \A t \in ES, h \in MH : Holds(t, h)' => t # s /\ Holds(t, h)
      BY <1>4 DEF Holds
    <2>3. \A t \in ES, h \in MH : removedStates[t] = 0 /\ Holds(t, h) => Holds(t, h)'
      <3>1. \A t \in ES : removedStates[t] = 0 => t # s
        BY <1>2
      <3> QED
        BY <1>4, <3>1 DEF Holds
    <2>4. ASSUME NEW t \in ES, NEW h \in MH, removedStates'[t] > 0, Holds(t, h)'
          PROVE  \E u \in ES : removedStates'[u] = 0 /\ Holds(u, h)'
      <3>1. PICK u \in ES : removedStates[u] = 0 /\ Holds(u, h)
        BY <1>5, <2>1, <2>2, <2>4 DEF EndedHoldNoLast
      <3> QED
        BY <1>5, <2>3, <3>1
    <2>5. Removed' = Removed
      BY <1>5 DEF Removed
    <2>6. \A t \in Removed' \ deleting' : openMergeStack'[t] = << >>
      <3>1. \A t \in Removed \ deleting : t \in ES /\ openMergeStack[t] = << >>
        BY <2>1 DEF EndedHoldNoLast, Removed
      <3> QED
        BY <1>4, <2>5, <3>1
    <2> QED
      BY <1>1, <2>4, <2>6 DEF EndedHoldNoLast
  <1> QED
    BY <1>4, <1>6, <1>7 DEF RegionsEnd

(* The update ends: what was terminated has been deleted and holds         *)
(* nothing.                                                                *)
LEMMA RegionsEndUpdate ==
    ASSUME NEW x, NEW a, RegionBounds(x, a), RegionsInv(x, a), EndUpdate
    PROVE  RegionsEnd(x, a)'
  <1>1. /\ phase = "delete" /\ deleting = {} /\ phase' \in {"select", "done"}
        /\ removedStates' = [s \in ES |-> 0]
        /\ UNCHANGED <<openMergeStack, reachedCloseMerge, pc, closeMergeSet, current>>
    BY DEF EndUpdate, handlerVars
  <1>2. /\ \A s \in ES : /\ removedStates[s] \in Nat /\ pc[s] \in Inst
                         /\ Len(openMergeStack[s]) \in Nat
        /\ closeMergeSet \subseteq Blocks
    BY DEF RegionsInv, ScheduleInv, StepInv, RecordsInv, TypeOK
  <1>3. ASSUME NEW s \in ES
        PROVE  Len(openMergeStack[s]) <= Room(x[pc[s]], a[pc[s]], closeMergeSet)
    <2>1. CASE removedStates[s] = 0
      BY <1>1, <2>1 DEF RegionsInv, StacksBounded, MidInstruction
    <2>2. CASE removedStates[s] # 0
      <3> DEFINE n == x[pc[s]]
                 B == a[pc[s]]
      <3>1. openMergeStack[s] = << >>
        BY <1>1, <1>2, <2>2 DEF RegionsInv, EndedHoldNoLast, Removed
      <3>2. n \in Nat /\ B \in SUBSET Blocks
        BY <1>2, InstructionRoom
      <3> HIDE DEF n, B
      <3>3. n <= n /\ B \cap closeMergeSet \subseteq B \cap closeMergeSet
        BY <3>2
      <3>4. Room(n, B, closeMergeSet) \in Nat
        BY <3>2, <3>3, RoomGrows
      <3>5. Len(openMergeStack[s]) = 0
        BY <3>1
      <3>6. Len(openMergeStack[s]) <= Room(n, B, closeMergeSet)
        BY <3>4, <3>5
      <3> QED
        BY <3>6 DEF n, B
    <2> QED
      BY <2>1, <2>2
  <1>4. StacksBounded(x, a)'
    BY <1>1, <1>3 DEF StacksBounded, MidInstruction
  <1>5. EndedHoldNoLast'
    BY <1>1 DEF EndedHoldNoLast
  <1>6. SameOuterRegions'
    BY <1>1, OuterUnchanged DEF RegionsInv
  <1> QED
    BY <1>4, <1>5, <1>6 DEF RegionsEnd

(* Every step keeps the invariant. *)
LEMMA NextRegions ==
    ASSUME NEW x, NEW a, RegionBounds(x, a), RegularMerging, ~MayHalt, RegionsInv(x, a), [Next]_vars
    PROVE  RegionsInv(x, a)'
  <1>1. ScheduleInv /\ phase # "selecting" /\ TypeOK
    BY DEF RegionsInv, ScheduleInv, StepInv, RecordsInv
  <1>2. ScheduleInv'
    BY <1>1, NextSchedule
  <1>3. SUFFICES RegionsEnd(x, a)'
    BY <1>2 DEF RegionsInv, RegionsEnd
  <1>4. ASSUME NEW next \in {"autoOpen", "memory"},
               \/ phase = "execute" /\ Op(Executed) = "close" /\ next = "autoOpen"
               \/ phase = "autoClose" /\ AtClosePoint /\ next = "memory",
               HandleCloseMerge(next)
        PROVE  RegionsEnd(x, a)'
    <2>1. CASE ~ClosesRegion
      <3>1. /\ phase' = next
            /\ UNCHANGED <<openMergeStack, reachedCloseMerge, removedStates, pc, prevPC, current,
                           forked, closeMergeSet>>
        BY <1>4, <2>1 DEF HandleCloseMerge, esVars, handlerVars
      <3>2. Len(openMergeStack[current]) = 0
        <4>1. current \in ES
          BY <1>1, <1>4 DEF TypeOK
        <4>2. openMergeStack[current] = << >>
          BY <1>1, <2>1, <4>1 DEF ClosesRegion, ScheduleInv
        <4> QED
          BY <4>2
      <3> QED
        BY <1>4, <3>1, <3>2, RegionsQuiet
    <2>2. CASE ClosesRegion
      <3>1. CloseMergeFailure(current, Executed) = "none"
        BY <1>1, <1>4, <2>2, CloseNeverFails
      <3>2. /\ CloseMerge(current, Executed) /\ phase' = next
            /\ UNCHANGED <<prevPC, current, forked, closeMergeSet>>
        BY <1>4, <2>2, <3>1, Zenon DEF HandleCloseMerge
      <3> QED
        BY <1>4, <2>2, <3>2, RegionsClose
    <2> QED
      BY <2>1, <2>2
  <1>5. CASE SelectFromEmpty
    BY <1>1, <1>5, SomebodyScheduled DEF SelectFromEmpty, Selecting
  <1>6. CASE SelectBase
    BY <1>1, <1>6, RegionsSelect DEF SelectBase, Selecting
  <1>7. CASE SelectPrioritized \/ ReleasePreemptively
    BY <1>1, <1>7, NoPreemption DEF SelectPrioritized, ReleasePreemptively
  <1>8. CASE ExecutePlain \/ ExecuteAlloc
    <2>1. /\ phase = "execute" /\ phase' = "autoOpen" /\ Op(Executed) \in {"plain", "alloc"}
          /\ UNCHANGED <<openMergeStack, reachedCloseMerge, removedStates, pc, prevPC, current,
                         forked, closeMergeSet>>
      BY <1>8 DEF ExecutePlain, ExecuteAlloc, Executing, esVars, handlerVars
    <2> QED
      BY <2>1, RegionsQuiet
  <1>9. CASE ExecuteBranch
    <2>1. PICK choice : Fork(choice, Succ(Executed))
      BY <1>9, Zenon DEF ExecuteBranch
    <2> DEFINE targets == Succ(Executed)
    <2>2. /\ phase = "execute" /\ phase' = "autoOpen" /\ Fork(choice, targets)
          /\ Op(Executed) \in {"br", "switch", "load"}
          /\ \A k \in 1 .. Len(targets) : \E l \in 1 .. Len(Succ(Executed)) :
                targets[k] = Succ(Executed)[l]
          /\ UNCHANGED <<removedStates, reachedCloseMerge, current, closeMergeSet>>
      BY <1>9, <2>1 DEF ExecuteBranch, Executing
    <2> HIDE DEF targets
    <2> QED
      BY <2>2, RegionsFork
  <1>10. CASE ExecuteMemoryOperation
    <2> DEFINE targets == <<NextInst(Executed), NextInst(Executed)>>
    <2>1. PICK choice : Fork(choice, targets)
      BY <1>10, Zenon DEF ExecuteMemoryOperation
    <2>2. /\ phase = "execute" /\ phase' = "autoOpen" /\ Fork(choice, targets)
          /\ Op(Executed) \in {"br", "switch", "load"} /\ Op(Executed) # "exit"
          /\ UNCHANGED <<removedStates, reachedCloseMerge, current, closeMergeSet>>
      BY <1>10, <2>1 DEF ExecuteMemoryOperation, Executing
    <2>3. \E l \in 1 .. Len(Succ(Executed)) : NextInst(Executed) = Succ(Executed)[l]
      <3>1. Executed \in Inst
        BY <1>1, <2>2 DEF TypeOK, Executed
      <3> QED
        BY <2>2, <3>1, NextIsSuccessor
    <2>4. \A k \in 1 .. Len(targets) : \E l \in 1 .. Len(Succ(Executed)) :
                targets[k] = Succ(Executed)[l]
      <3>1. \A k \in 1 .. Len(targets) : targets[k] = NextInst(Executed)
        OBVIOUS
      <3> QED
        BY <2>3, <3>1
    <2> HIDE DEF targets
    <2> QED
      BY <2>2, <2>4, RegionsFork
  <1>11. CASE ExecuteBranchTooDeep \/ ExecuteExit \/ ExecuteTimedOut
    <2>1. /\ phase = "execute" /\ phase' = "autoOpen" /\ Terminate({current})
          /\ Op(Executed) \in {"exit", "load"} \/ ((MayExceedDepth \/ MayTimeOut) /\ Op(Executed) = "br")
          /\ UNCHANGED <<openMergeStack, reachedCloseMerge, prevPC, current, forked, closeMergeSet>>
      BY <1>11 DEF ExecuteBranchTooDeep, ExecuteExit, ExecuteTimedOut, Executing, handlerVars
    <2> QED
      BY <2>1, RegionsTerminate
  <1>12. CASE ExecuteOpenMerge
    BY <1>12, RegionsOpen
  <1>13. CASE AutoOpen
    BY <1>13, RegionsAutoOpen
  <1>14. CASE ExecuteCloseMerge \/ AutoClose
    BY <1>4, <1>14 DEF ExecuteCloseMerge, AutoClose, Executing
  <1>15. CASE NoAutoOpen \/ NoAutoClose
    <2>1. /\ \/ phase = "autoOpen" /\ phase' = "autoClose"
             \/ phase = "autoClose" /\ phase' = "memory" /\ ~AtClosePoint
          /\ UNCHANGED <<openMergeStack, reachedCloseMerge, removedStates, pc, prevPC, current,
                         forked, closeMergeSet>>
      BY <1>15 DEF NoAutoOpen, NoAutoClose, esVars, handlerVars
    <2> QED
      BY <2>1, RegionsQuiet
  <1>16. CASE KillStates
    BY <1>16 DEF KillStates, RegularMerging
  <1>17. CASE UnderMemoryLimit \/ Finish
    <2>1. /\ phase \in {"memory", "select"} /\ phase' \in {"update", "done"}
          /\ UNCHANGED <<openMergeStack, reachedCloseMerge, removedStates, pc, closeMergeSet>>
      BY <1>17 DEF UnderMemoryLimit, Finish, esVars, handlerVars
    <2> QED
      BY <2>1, RegionsBetween DEF MidInstruction
  <1>18. CASE UpdateStates
    <2>1. phase = "update" /\ phase' = "delete" /\ deleting' = Removed /\ removedStates' = removedStates
      BY <1>1, <1>18, NextStep, ScheduleUpdate DEF UpdateStates, ScheduleInv, Next, Iterate
    <2>2. UNCHANGED <<openMergeStack, reachedCloseMerge, pc, closeMergeSet, searcher>>
      BY <1>18, <2>1 DEF UpdateStates, Abort, handlerVars
    <2>3. searcher
      BY <1>1, <2>1 DEF ScheduleInv, SearcherInStep
    <2> QED
      BY <2>1, <2>2, <2>3, RegionsBetween DEF MidInstruction
  <1>19. CASE DeleteState
    <2>1. PICK s \in deleting :
            IF DestroyedByDelete(s) # {} /\ ~searcher
            THEN Abort("use of the deleted searcher")
            ELSE IF DeleteFailure(s) # "none"
            THEN Abort(DeleteFailure(s))
            ELSE /\ deleting' = deleting \ {s}
                 /\ DeleteExecutionState(s)
                 /\ UNCHANGED <<phase, current, closeMergeSet, searcher>>
      BY <1>19, Zenon DEF DeleteState
    <2>2. phase = "delete"
      BY <1>19 DEF DeleteState
    <2>3. s \in ES /\ DestroyedByDelete(s) = {}
      BY <2>2, DeletesNoHandler
    <2>4. DeleteFailure(s) = "none"
      BY <1>1, <2>2, <2>3, DeleteNeverFails
    <2> QED
      BY <2>1, <2>2, <2>3, <2>4, RegionsDelete
  <1>20. CASE DeleteThroughStaleIterator
    <2>1. phase' = "aborted" /\ UNCHANGED <<openMergeStack, reachedCloseMerge>>
      BY <1>20 DEF DeleteThroughStaleIterator, Abort, esVars, handlerVars
    <2>2. SameOuterRegions'
      BY <2>1, OuterUnchanged DEF RegionsInv
    <2> QED
      BY <2>1, <2>2 DEF RegionsEnd, StacksBounded, EndedHoldNoLast, MidInstruction
  <1>21. CASE EndUpdate
    BY <1>21, RegionsEndUpdate
  <1>22. CASE Halt
    BY <1>22 DEF Halt
  <1>23. CASE UNCHANGED vars
    <2>1. UNCHANGED <<openMergeStack, reachedCloseMerge, removedStates, pc, prevPC, current, forked,
                      closeMergeSet, phase, searcher, deleting>>
      BY <1>23 DEF vars, esVars, searcherVars, handlerVars, loopVars
    <2>2. SameOuterRegions'
      BY <2>1, OuterUnchanged DEF RegionsInv
    <2>3. Removed' = Removed /\ Executed' = Executed
      BY <2>1 DEF Removed, Executed
    <2>4. StacksBounded(x, a)'
      BY <2>1, <2>3 DEF RegionsInv, StacksBounded
    <2>5. EndedHoldNoLast'
      BY <2>1, <2>3 DEF RegionsInv, EndedHoldNoLast, Holds
    <2> QED
      BY <2>2, <2>4, <2>5 DEF RegionsEnd
  <1> QED
    BY <1>5, <1>6, <1>7, <1>8, <1>9, <1>10, <1>11, <1>12, <1>13, <1>14, <1>15, <1>16, <1>17, <1>18,
       <1>19, <1>20, <1>21, <1>22, <1>23 DEF Next, Iterate, Terminated

(* The invariant holds initially. *)
LEMMA InitRegions ==
    ASSUME NEW x, NEW a, RegionBounds(x, a), Init
    PROVE  RegionsInv(x, a)
  <1>1. ScheduleInv
    BY InitSchedule
  <1>2. /\ openMergeStack = [s \in ES |-> << >>]
        /\ reachedCloseMerge = [h \in MH |-> [i \in Inst |-> {}]]
        /\ removedStates = [s \in ES |-> 0] /\ pc = [s \in ES |-> Entry]
        /\ phase = "select" /\ closeMergeSet = {}
    BY DEF Init, EStateInit, SearcherInit, HandlerInit
  <1>3. SameOuterRegions
    <2>1. \A s \in ES, h \in MH : ~Involved(s, h)
      BY <1>2 DEF Involved, Holds
    <2> QED
      BY <2>1 DEF SameOuterRegions
  <1>4. Room(x[Entry], a[Entry], closeMergeSet) \in Nat
    <2>1. x[Entry] \in Nat /\ a[Entry] \in SUBSET Blocks
      BY EntryInst, InstructionRoom
    <2>2. x[Entry] <= x[Entry] /\ a[Entry] \cap closeMergeSet \subseteq a[Entry] \cap closeMergeSet
      BY <2>1
    <2> QED
      BY <2>1, <2>2, RoomGrows
  <1>5. \A s \in ES : pc[s] = Entry /\ Len(openMergeStack[s]) = 0 /\ removedStates[s] = 0
    BY <1>2
  <1>6. \A s \in ES : Len(openMergeStack[s]) <= Room(x[pc[s]], a[pc[s]], closeMergeSet)
    BY <1>4, <1>5
  <1>7. StacksBounded(x, a)
    BY <1>2, <1>6 DEF StacksBounded, MidInstruction
  <1>8. EndedHoldNoLast
    BY <1>2, <1>5 DEF EndedHoldNoLast
  <1> QED
    BY <1>1, <1>3, <1>7, <1>8 DEF RegionsInv

(* When a program's regions are closed before its states end, no handler   *)
(* dies with a state: who is absorbed shares its handlers with the state   *)
(* that absorbs it, and who ends for another reason holds none.  So        *)
(* updateStates never merges while it deletes, however the forks, the      *)
(* merge decisions and the choices of the base searcher interleave.        *)
THEOREM NoMergeInDeleteTheorem ==
    ASSUME NEW x, NEW a
    PROVE  RegionBounds(x, a) /\ RegularMerging /\ ~MayHalt => (Spec => []NoMergeInDelete)
  <1> SUFFICES ASSUME RegionBounds(x, a), RegularMerging, ~MayHalt
               PROVE  Spec => []NoMergeInDelete
    OBVIOUS
  <1>1. Init => RegionsInv(x, a)
    BY InitRegions
  <1>2. RegionsInv(x, a) /\ [Next]_vars => RegionsInv(x, a)'
    BY NextRegions
  <1>3. RegionsInv(x, a) => NoMergeInDelete
    BY DeletesNoHandler DEF NoMergeInDelete
  <1> QED
    BY <1>1, <1>2, <1>3, PTL DEF Spec

(* With merging, too, a program whose regions are closed before its states *)
(* end is explored without a failure, every input once.                    *)
THEOREM ClosedRegionsTheorem ==
    ASSUME NEW x, NEW a
    PROVE  RegionBounds(x, a) /\ RegularMerging /\ ~MayHalt =>
               (Spec => []NoFailure /\ []NoInputTwice /\ ImplementsExploration)
  <1> SUFFICES ASSUME RegionBounds(x, a), RegularMerging, ~MayHalt
               PROVE  Spec => []NoFailure /\ []NoInputTwice /\ ImplementsExploration
    OBVIOUS
  <1>1. Spec => []NoMergeInDelete
    BY NoMergeInDeleteTheorem
  <1>2. /\ Spec /\ []NoMergeInDelete => []NoFailure
        /\ Spec /\ []NoMergeInDelete => []NoInputTwice
        /\ Spec /\ []NoMergeInDelete => ImplementsExploration
    BY NoFailureTheorem, NoInputTwiceTheorem, ImplementsExplorationTheorem
  <1> QED
    BY <1>1, <1>2
=============================================================================
