------------------------------ MODULE Searchers ------------------------------
(***************************************************************************)
(* The chain of searchers that constructUserSearcher builds: one or more   *)
(* core searchers, interleaved, under a batching searcher, an iterative    *)
(* deepening searcher and a merging searcher, each optional; the process   *)
(* tree, which the random-path searcher walks; and the part of the run     *)
(* loop that drives them.                                                  *)
(*                                                                         *)
(* Wall time is not modelled: a time or instruction budget may be found    *)
(* exceeded whenever it is compared.                                       *)
(***************************************************************************)
EXTENDS Naturals, FiniteSets, Sequences, SequencesExt

CONSTANTS MaxStates,     \* bound: states a run creates
          MaxSteps,      \* bound: instructions on a path
          Searches       \* the searchers the options may ask for

CoreSearchType == {"dfs", "bfs", "random-state", "random-path", "nurs:depth", "nurs:covnew"}

ASSUME SearchersAssumption ==
    /\ MaxStates \in Nat \ {0} /\ MaxSteps \in Nat
    /\ \A s \in Searches :
          /\ s.core \in Seq(CoreSearchType) /\ s.core # << >>
          /\ {s.batching, s.deepening, s.merge, s.branch, s.error, s.kill} \subseteq BOOLEAN
    \* klee_error: "use-merge currently does not support random-path"
    /\ \A s \in Searches : s.merge => "random-path" \notin ToSet(s.core)

ES   == 1 .. MaxStates
Null == 0

VARIABLES
    search,              \* the options: core, batching, deepening, merge; and what the run
                         \* meets: branch (switches), error (new states end at once), kill
    chain,               \* what the searchers keep: held, index, lastState, deepened, failed
    pausedStates,        \* MergingSearcher::pausedStates
    states, addedStates, removedStates,
    tree, ptreeNode,     \* PTree: its nodes as paths from the root, the node of a state
    depth,
    steps,               \* instructions executed on the state's path
    created,
    current,
    phase                \* "select", "execute", "closed" (a merge region), "memory",
                         \* "delete"

vars == <<search, chain, pausedStates, states, addedStates, removedStates, tree, ptreeNode,
          depth, steps, created, current, phase>>

Core == DOMAIN search.core

Init ==
    /\ search \in Searches
    /\ chain = [held |-> [i \in Core |-> IF search.core[i] = "random-path" THEN << >> ELSE <<1>>],
                index |-> 1, lastState |-> Null, deepened |-> {}, failed |-> FALSE]
    /\ pausedStates = {}
    /\ states = {1} /\ addedStates = << >> /\ removedStates = << >>
    /\ tree = {<< >>} /\ ptreeNode = [s \in ES |-> << >>]
    /\ depth = [s \in ES |-> 0] /\ steps = [s \in ES |-> 0]
    /\ created = 1
    /\ current = Null /\ phase = "select"

-----------------------------------------------------------------------------
(***************************************************************************)
(* update() of a core searcher.  A NURS searcher keeps its states in a     *)
(* tree ordered by weight, of which only the set matters.                  *)
(***************************************************************************)
Without(q, S) ==
    LET W[n \in 0 .. Len(q)] ==
            IF n = 0 THEN << >> ELSE IF q[n] \in S THEN W[n - 1] ELSE Append(W[n - 1], q[n])
    IN  W[Len(q)]

Evolved(cur, added, removed) == added # << >> /\ cur # Null /\ cur \notin ToSet(removed)

(* Mutant: the state that forked keeps its place. *)
CoreUpdateInPlace(type, q, cur, added, removed) ==
    IF type = "random-path" THEN q ELSE Without(q \o added, ToSet(removed))

CoreUpdate(type, q, cur, added, removed) ==
    IF type = "random-path" THEN q
    ELSE Without((IF type = "bfs" /\ Evolved(cur, added, removed)
                  THEN Append(Without(q, {cur}), cur) ELSE q) \o added,
                 ToSet(removed))

(* The assertions "invalid state removed", "pos != states.end()" and those *)
(* of DiscretePDF.                                                         *)
CoreUpdateFails(type, q, cur, added, removed) ==
    /\ type # "random-path"
    /\ \/ ~(ToSet(removed) \subseteq ToSet(q) \cup ToSet(added))
       \/ type = "bfs" /\ Evolved(cur, added, removed) /\ cur \notin ToSet(q)
       \/ type = "nurs:covnew" /\ cur # Null /\ cur \notin ToSet(removed) /\ cur \notin ToSet(q)
       \/ type \in {"nurs:depth", "nurs:covnew"} /\ ToSet(q) \cap ToSet(added) # {}

(* Mutant: the states that end are removed from the searcher in turn only. *)
InterleavedUpdateInTurn(c, cur, added, removed) ==
    [c EXCEPT !.held = [i \in Core |-> CoreUpdate(search.core[i], @[i], cur, added,
                                                  IF i = c.index THEN removed ELSE << >>)]]

InterleavedUpdate(c, cur, added, removed) ==
    [c EXCEPT
        !.held = [i \in Core |-> CoreUpdate(search.core[i], @[i], cur, added, removed)],
        !.failed = @ \/ \E i \in Core :
                          CoreUpdateFails(search.core[i], c.held[i], cur, added, removed)]

BatchingUpdate(c, cur, added, removed) ==
    InterleavedUpdate([c EXCEPT !.lastState = IF @ \in ToSet(removed) THEN Null ELSE @],
                      cur, added, removed)

(* empty(), of the first searcher that is interleaved. *)
BaseEmpty(c) == IF search.core[1] = "random-path" THEN states = {} ELSE c.held[1] = << >>

(* Mutant: the states come back only with the next state that ends. *)
ResumedLate(c, removed) ==
    IF BaseEmpty(c) /\ removed # << >>
    THEN [BatchingUpdate(c, Null, SetToSeq(c.deepened), << >>) EXCEPT !.deepened = {}]
    ELSE c

(* Mutant: the set of paused states is not cleared. *)
ResumedNotCleared(c, removed) ==
    IF BaseEmpty(c) THEN BatchingUpdate(c, Null, SetToSeq(c.deepened), << >>) ELSE c

(* The time is doubled, and all paused states come back. *)
Resumed(c, removed) ==
    IF BaseEmpty(c)
    THEN [BatchingUpdate(c, Null, SetToSeq(c.deepened), << >>) EXCEPT !.deepened = {}]
    ELSE c

(* Mutant: a paused state that ends stays paused. *)
DeepeningUpdateKeepingEnded(c, cur, added, removed, elapsed) ==
    LET base == BatchingUpdate(c, cur, added, Without(removed, c.deepened))
        left == IF elapsed /\ cur # Null /\ cur \notin ToSet(removed)
                THEN [BatchingUpdate(base, Null, << >>, <<cur>>) EXCEPT !.deepened = @ \cup {cur}]
                ELSE base
    IN  Resumed(left, removed)

DeepeningUpdate(c, cur, added, removed, elapsed) ==
    LET alt  == Without(removed, c.deepened)
        base == [BatchingUpdate(c, cur, added, alt) EXCEPT !.deepened = @ \ ToSet(removed)]
        left == IF elapsed /\ cur # Null /\ cur \notin ToSet(removed)
                THEN [BatchingUpdate(base, Null, << >>, <<cur>>) EXCEPT !.deepened = @ \cup {cur}]
                ELSE base
    IN  Resumed(left, removed)

(* The searcher that the merging searcher, or the run loop, talks to. *)
BaseUpdate(c, cur, added, removed, elapsed) ==
    IF search.deepening THEN DeepeningUpdate(c, cur, added, removed, elapsed)
    ELSE IF search.batching THEN BatchingUpdate(c, cur, added, removed)
    ELSE InterleavedUpdate(c, cur, added, removed)

Elapsed == IF search.deepening THEN BOOLEAN ELSE {FALSE}

-----------------------------------------------------------------------------
(***************************************************************************)
(* selectState().                                                          *)
(***************************************************************************)
Leaves == {n \in tree : \A m \in tree : m # n => ~IsPrefix(n, m)}

(* What a core searcher may return; {} is the end of an empty container. *)
CoreSelect(i) ==
    LET q == chain.held[i]
        type == search.core[i]
    IN  CASE type = "random-path" -> {s \in states \cup ToSet(addedStates) : ptreeNode[s] \in Leaves}
          [] type = "dfs" -> IF q = << >> THEN {} ELSE {Last(q)}
          [] type = "bfs" -> IF q = << >> THEN {} ELSE {Head(q)}
          [] OTHER -> ToSet(q)

Selected(s) == current' = s /\ phase' = "execute"

(* Core searchers take turns, from the last to the first. *)
SelectFromCore ==
    LET i == chain.index
        next == IF i = 1 THEN Len(search.core) ELSE i - 1
    IN  /\ \E s \in CoreSelect(i) :
              /\ Selected(s)
              /\ chain' = [chain EXCEPT !.index = next,
                                        !.lastState = IF search.batching THEN s ELSE @]

BatchedState == search.batching /\ chain.lastState # Null

SelectState ==
    /\ phase = "select" /\ states # {} /\ ~chain.failed
    /\ \/ SelectFromCore        \* the budget of the batch is exceeded, or there is none
       \/ BatchedState /\ Selected(chain.lastState) /\ UNCHANGED chain
    /\ UNCHANGED <<search, pausedStates, states, addedStates, removedStates, tree, ptreeNode,
                   depth, steps, created>>

-----------------------------------------------------------------------------
(***************************************************************************)
(* What an instruction does to the states.                                 *)
(***************************************************************************)
Executing == phase \in {"execute", "closed"} /\ ~chain.failed

Ended == ToSet(removedStates)

DepthAfterFork(es, ns) == [depth EXCEPT ![es] = @ + 1, ![ns] = depth[es] + 1]

(* Executor::fork, and one round of Executor::branch: any of the states    *)
(* that came from the current one may be split again.                      *)
Fork ==
    /\ Executing /\ phase = "execute" /\ created < MaxStates /\ steps[current] < MaxSteps
    /\ current \notin pausedStates \cup Ended
    /\ \E es \in {current} \cup (IF search.branch THEN ToSet(addedStates) ELSE {}) :
          /\ es = current /\ ~search.branch => addedStates = << >>
          /\ LET ns == created + 1
             IN  /\ created' = ns
                 /\ addedStates' = Append(addedStates, ns)
                 /\ tree' = tree \cup {Append(ptreeNode[es], 0), Append(ptreeNode[es], 1)}
                 /\ ptreeNode' = [ptreeNode EXCEPT ![ns] = Append(ptreeNode[es], 0),
                                                   ![es] = Append(@, 1)]
                 /\ depth' = DepthAfterFork(es, ns)
                 /\ steps' = [steps EXCEPT ![ns] = steps[es]]
    /\ UNCHANGED <<search, chain, pausedStates, states, removedStates, current, phase>>

(* Mutant: a node without children is left in the tree. *)
PTreeRemoveLeaf(nodes) == {n \in tree : n = << >> \/ n \notin nodes}

(* A node goes with the last leaf under it; the root stays. *)
PTreeRemove(nodes) == {n \in tree : n = << >> \/ \E leaf \in Leaves \ nodes : IsPrefix(n, leaf)}

(* Executor::terminateState, by an instruction: of the current state, or   *)
(* of a state it has just created.                                         *)
TerminateState ==
    /\ Executing
    /\ \E s \in {current} \cup (IF search.error THEN ToSet(addedStates) ELSE {}) :
          /\ s \notin pausedStates \cup Ended
          /\ IF s \in ToSet(addedStates)
             THEN /\ addedStates' = Without(addedStates, {s})
                  /\ tree' = PTreeRemove({ptreeNode[s]})
                  /\ UNCHANGED removedStates
             ELSE /\ removedStates' = Append(removedStates, s)
                  /\ UNCHANGED <<addedStates, tree>>
    /\ UNCHANGED <<search, chain, pausedStates, states, ptreeNode, depth, steps, created, current,
                   phase>>

(* pauseState: the current state has reached the end of a merge region     *)
(* that others have not reached.                                           *)
PauseState ==
    /\ Executing /\ phase = "execute" /\ search.merge /\ steps[current] < MaxSteps
    /\ addedStates = << >> /\ removedStates = << >>
    /\ pausedStates' = pausedStates \cup {current}
    /\ chain' = BaseUpdate(chain, Null, << >>, <<current>>, FALSE)
    /\ phase' = "closed"
    /\ UNCHANGED <<search, states, addedStates, removedStates, tree, ptreeNode, depth, steps,
                   created, current>>

(* Each continueState is an update of the base searcher.  States in a set  *)
(* are ordered by their addresses, so in some order.                       *)
Continued(R) ==
    LET q == SetToSeq(R)
        C[n \in 0 .. Len(q)] ==
            IF n = 0 THEN chain ELSE BaseUpdate(C[n - 1], Null, <<q[n]>>, << >>, FALSE)
    IN  C[Len(q)]

ContinueStates(R) == pausedStates' = pausedStates \ R /\ chain' = Continued(R)

(* releaseStates, when the current state is the last of its group: all of  *)
(* them continue, and those that are merged into another one are           *)
(* terminated.                                                             *)
ReleaseAtClose ==
    /\ Executing /\ current \in pausedStates
    /\ \E R \in SUBSET pausedStates :
          /\ current \in R
          /\ ContinueStates(R)
          /\ \E merged \in SUBSET R :
                /\ R \ merged # {}
                /\ removedStates' = removedStates \o SetToSeq(merged)
    /\ UNCHANGED <<search, states, addedStates, tree, ptreeNode, depth, steps, created, current,
                   phase>>

(* releaseStates, when the last open state of a group has been deleted by  *)
(* updateStates: the states that it terminates are forgotten, since        *)
(* removedStates is cleared, and go on.                                    *)
ReleaseAtDelete ==
    /\ phase = "delete" /\ ~chain.failed
    /\ \E R \in (SUBSET pausedStates) \ {{}} : ContinueStates(R)
    /\ UNCHANGED <<search, states, addedStates, removedStates, tree, ptreeNode, depth, steps,
                   created, current, phase>>

(* checkMemoryUsage: over the limit any states are terminated, some of     *)
(* which the instruction may have terminated already.                      *)
CheckMemoryUsage ==
    /\ Executing
    /\ steps[current] < MaxSteps \/ current \in Ended
    /\ \E killed \in IF search.kill THEN SUBSET states ELSE {{}} :
          removedStates' = removedStates \o SetToSeq(killed)
    /\ phase' = "memory"
    /\ UNCHANGED <<search, chain, pausedStates, states, addedStates, tree, ptreeNode, depth, steps,
                   created, current>>

(* A state that was terminated twice. *)
TerminatedTwice == ~IsInjective(removedStates)

(***************************************************************************)
(* Executor::updateStates(&state), with MergingSearcher::update.           *)
(***************************************************************************)
UpdateStates ==
    /\ phase = "memory" /\ ~chain.failed /\ ~TerminatedTwice
    /\ \E elapsed \in Elapsed :
          chain' = IF current \in pausedStates THEN chain
                   ELSE BaseUpdate(chain, current, addedStates, removedStates, elapsed)
    /\ states' = (states \cup ToSet(addedStates)) \ Ended
    /\ tree' = PTreeRemove({ptreeNode[s] : s \in Ended})
    /\ steps' = [steps EXCEPT ![current] = IF @ < MaxSteps THEN @ + 1 ELSE @]
    /\ addedStates' = << >> /\ removedStates' = << >>
    /\ current' = Null
    /\ phase' = IF pausedStates = {} THEN "select" ELSE "delete"
    /\ UNCHANGED <<search, pausedStates, ptreeNode, depth, created>>

(* A state that is removed twice is not found the second time: by the      *)
(* searcher ("invalid state removed") or by updateStates (the assertion    *)
(* it2 != states.end()).                                                   *)
AbortInUpdate ==
    /\ phase = "memory" /\ ~chain.failed /\ TerminatedTwice
    /\ chain' = [chain EXCEPT !.failed = TRUE]
    /\ UNCHANGED <<search, pausedStates, states, addedStates, removedStates, tree, ptreeNode, depth,
                   steps, created, current, phase>>

(* The deleted states were not the last open ones of a merge group, or     *)
(* their groups have been released.  The states of a group that has no     *)
(* other one left do not wait.                                             *)
Deleted ==
    /\ phase = "delete" /\ ~chain.failed
    /\ states \ pausedStates # {}
    /\ phase' = "select"
    /\ UNCHANGED <<search, chain, pausedStates, states, addedStates, removedStates, tree,
                   ptreeNode, depth, steps, created, current>>

(* The run loop ends, or the process is aborted. *)
Finished == (states = {} \/ chain.failed) /\ UNCHANGED vars

Next ==
    \/ SelectState
    \/ Fork \/ TerminateState \/ PauseState \/ ReleaseAtClose
    \/ CheckMemoryUsage \/ UpdateStates \/ AbortInUpdate
    \/ ReleaseAtDelete \/ Deleted
    \/ Finished

Spec == Init /\ [][Next]_vars /\ WF_vars(Next)
=============================================================================
