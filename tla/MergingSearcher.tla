--------------------------- MODULE MergingSearcher ---------------------------
(***************************************************************************)
(* The outermost searcher of the chain: it takes paused states out of the  *)
(* base searcher and puts them back.  The base searcher is any of the core *)
(* searchers; only the set of states it holds matters here, and it may     *)
(* select any of them.                                                     *)
(***************************************************************************)
EXTENDS ExecutionState

VARIABLES
    baseSearcher,         \* the states the base searcher can select
    pausedStates,
    inCloseMerge,
    mergeGroups           \* the registered merge handlers

searcherVars == <<baseSearcher, pausedStates, inCloseMerge, mergeGroups>>

SearcherInit ==
    /\ baseSearcher = {1}
    /\ pausedStates = {}
    /\ inCloseMerge = {}
    /\ mergeGroups = {}

(* The states that occur in removedStates. *)
Removed == {s \in ES : removedStates[s] > 0}

(***************************************************************************)
(* The base searcher asserts that a state it is told to remove is one it   *)
(* holds ("invalid state removed"); a second removal of the same state     *)
(* fails in the same way.                                                  *)
(***************************************************************************)
BaseUpdateFails ==
    \/ ~(Removed \subseteq baseSearcher \cup addedStates)
    \/ \E s \in Removed : removedStates[s] > 1

(* Mutant: the removed states are not passed on. *)
SearcherUpdateKeepingRemoved(current) ==
    /\ baseSearcher' = IF current \in pausedStates THEN baseSearcher
                       ELSE baseSearcher \cup addedStates
    /\ UNCHANGED <<pausedStates, inCloseMerge, mergeGroups>>

(* Mutant: the added states are not passed on. *)
SearcherUpdateDroppingAdded(current) ==
    /\ baseSearcher' = IF current \in pausedStates THEN baseSearcher
                       ELSE baseSearcher \ Removed
    /\ UNCHANGED <<pausedStates, inCloseMerge, mergeGroups>>

(* MergingSearcher::update: nothing reaches the base searcher when the     *)
(* current state is paused.                                                *)
SearcherUpdate(current) ==
    /\ baseSearcher' = IF current \in pausedStates
                       THEN baseSearcher
                       ELSE (baseSearcher \cup addedStates) \ Removed
    /\ UNCHANGED <<pausedStates, inCloseMerge, mergeGroups>>

=============================================================================
