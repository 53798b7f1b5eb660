------------------------- MODULE SearchersProperties -------------------------
(***************************************************************************)
(* What the searchers promise to the run loop and to each other.           *)
(***************************************************************************)
EXTENDS Searchers

(* The chains that keep their states apart.  With merging, the memory      *)
(* limit also ends paused states, which the searchers do not hold, and     *)
(* others while the current one is paused, of which nobody tells them.     *)
(* A random walk also meets the states that iterative deepening has put    *)
(* aside: another searcher, and the last state of a batch, do not expect   *)
(* them.                                                                   *)
RegularChain(s) ==
    /\ ~(s.merge /\ s.kill)
    /\ s.deepening /\ "random-path" \in ToSet(s.core) => ~s.batching /\ ToSet(s.core) = {"random-path"}

RegularChains == \A s \in Searches : RegularChain(s)

(* The assertions of the searchers, in every order in which states fork,   *)
(* end, are paused, released and run over their time, and no selection     *)
(* from an empty container.  They fail in one case only: checkMemoryUsage  *)
(* has terminated a state that its own instruction had terminated before,  *)
(* and updateStates removes it twice.                                      *)
NoSearcherFailure ==
    /\ chain.failed => search.kill /\ phase = "memory" /\ TerminatedTwice
    /\ phase = "select" /\ states # {} => CoreSelect(chain.index) # {}

(* Between two instructions every searcher that is interleaved holds the   *)
(* same states, each once: those of the executor that are neither paused   *)
(* for a merge nor by iterative deepening.  A state that one of them lost  *)
(* would starve in its turns, one that it kept would be selected after its *)
(* end.  A batch continues with one of them too: lastState is a pointer    *)
(* that no one but update() resets.                                        *)
SearchersAgree ==
    phase = "select" /\ ~chain.failed =>
        LET runnable == states \ (pausedStates \cup chain.deepened)
        IN  /\ \A i \in Core : search.core[i] # "random-path" =>
                  ToSet(chain.held[i]) = runnable /\ IsInjective(chain.held[i])
            /\ chain.lastState \in runnable \cup {Null}

(* The leaves of the process tree are the states of the executor, so that  *)
(* a random walk from the root ends at a state.                            *)
LeavesAreStates ==
    phase = "select" /\ states # {} =>
        /\ Leaves = {ptreeNode[s] : s \in states}
        /\ \A s, t \in states : ptreeNode[s] = ptreeNode[t] => s = t

PlainBFS ==
    /\ search.core = <<"bfs">> /\ ~search.batching /\ ~search.deepening /\ ~search.merge
    /\ ~search.branch /\ ~search.error

(* "use Breadth First Search (BFS), where scheduling decisions are taken   *)
(* at the level of (2-way) forks": the queue is ordered by depth, and no   *)
(* state is two forks ahead of another.  A state whose fork leaves an      *)
(* error state that ends at once is not moved, and a batch stays with one  *)
(* state, so this is about programs and chains without them.               *)
BreadthFirst ==
    PlainBFS =>
        LET q == chain.held[1]
        IN  \A i, j \in DOMAIN q :
                phase = "select" /\ i < j => depth[q[j]] - depth[q[i]] \in {0, 1}

(* A state that iterative deepening has put aside comes back, or ends,     *)
(* unless the process is aborted.                                          *)
DeepenedStatesResume ==
    \A s \in ES : s \in chain.deepened ~> s \notin chain.deepened \/ chain.failed

Base == INSTANCE BaseSearcher
    WITH scheduled <- IF search.core[1] = "random-path" THEN states
                      ELSE ToSet(chain.held[1]) \cup chain.deepened,
         addedStates <- ToSet(addedStates),
         removedStates <- ToSet(removedStates)

(* Batching, iterative deepening and interleaving are not to be seen from  *)
(* outside: the chain is a set of states, of which some one is selected.   *)
ImplementsBaseSearcher == Base!Spec
-----------------------------------------------------------------------------
(***************************************************************************)
(* The inductive invariant of regular chains.                              *)
(***************************************************************************)
Chains == [held : [Core -> Seq(ES)], index : Core, lastState : ES \cup {Null},
           deepened : SUBSET ES, failed : BOOLEAN]

(* A searcher that keeps a list of its states. *)
Lists(i) == search.core[i] # "random-path"

(* A queue of the states of X, each once. *)
Listing(q, X) == q \in Seq(ES) /\ ToSet(q) = X /\ IsInjective(q)

(* No assertion has failed, each list is of the states of X, the states of *)
(* D are put aside, and a batch is of a state of X.                        *)
ChainOf(c, X, D) ==
    /\ c \in Chains /\ ~c.failed
    /\ \A i \in Core : IF Lists(i) THEN Listing(c.held[i], X) ELSE c.held[i] = << >>
    /\ c.deepened = D
    /\ c.lastState \in X \cup {Null} /\ (~search.batching => c.lastState = Null)

(* Iterative deepening with a random walk: the lists do not matter. *)
Wandering == search.deepening /\ "random-path" \in ToSet(search.core)

(* The chain keeps the states of T, some of them put aside.  Without a     *)
(* random walk, there is always one that can be selected.                  *)
Scheduled(c, T) ==
    /\ ChainOf(c, T \ c.deepened, c.deepened)
    /\ c.deepened \subseteq T /\ (c.deepened # {} => search.deepening)
    /\ ~Wandering => (T \subseteq c.deepened => c.deepened = {})

(* The executor's collections. *)
StatesInv ==
    /\ search \in Searches /\ phase \in {"select", "execute", "closed", "memory", "delete"}
    /\ created \in 1 .. MaxStates /\ states \subseteq 1 .. created
    /\ pausedStates \subseteq states /\ (pausedStates # {} \/ phase = "closed" => search.merge)
    /\ Listing(addedStates, ToSet(addedStates)) /\ ToSet(addedStates) \subseteq (1 .. created) \ states
    /\ removedStates \in Seq(ES) /\ (~search.kill \/ phase # "memory" => ~TerminatedTwice)
    /\ Ended \subseteq states \ pausedStates
    /\ phase \in {"select", "delete"} => current = Null /\ addedStates = << >> /\ removedStates = << >>
    /\ phase \in {"execute", "closed", "memory"} => current \in states
    /\ phase = "execute" => current \notin pausedStates
    /\ phase = "closed" => addedStates = << >>
    /\ current \in pausedStates => addedStates = << >> /\ removedStates = << >>
    /\ phase = "select" /\ states # {} => states \ pausedStates # {}

(* What the chain keeps is what the executor has. *)
ChainInv ==
    /\ Scheduled(chain, states \ pausedStates)
    /\ ~Wandering => current \notin chain.deepened

(* The nodes of a tree are those on the ways to the living states, of      *)
(* which none is on the way to another.                                    *)
TreeOf(nodes, place, living) ==
    /\ place \in [ES -> Seq({0, 1})] /\ nodes \subseteq Seq({0, 1}) /\ << >> \in nodes
    /\ \A s \in living : place[s] \in nodes
    /\ \A s, t \in living : s # t => ~IsPrefix(place[s], place[t])
    /\ \A n \in nodes \ {<< >>} : \E s \in living : IsPrefix(n, place[s])

TreeInv == TreeOf(tree, ptreeNode, states \cup ToSet(addedStates))

(* The queue between two updates: the fork that has taken place has made   *)
(* the first state as deep as its copy.                                    *)
DepthInv ==
    /\ depth \in [ES -> Nat]
    /\ PlainBFS =>
        LET q == chain.held[1]
        IN  /\ current # Null => current = q[1]
            /\ \A i, j \in DOMAIN q : 1 < i /\ i < j => depth[q[j]] - depth[q[i]] \in {0, 1}
            /\ \A j \in DOMAIN q \ {1} :
                  IF addedStates = << >> THEN depth[q[j]] - depth[q[1]] \in {0, 1}
                                         ELSE depth[q[1]] - depth[q[j]] \in {0, 1}
            /\ addedStates # << >> => /\ current # Null /\ Len(addedStates) = 1
                                      /\ depth[addedStates[1]] = depth[current]

RunInv == StatesInv /\ ChainInv /\ TreeInv /\ DepthInv

(* Or the process has been aborted, for the one reason that there is.      *)
AbortedInUpdate ==
    chain.failed /\ search \in Searches /\ search.kill /\ phase = "memory" /\ TerminatedTwice

SearchInv == RunInv \/ AbortedInUpdate

=============================================================================
