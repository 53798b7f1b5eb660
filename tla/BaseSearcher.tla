----------------------------- MODULE BaseSearcher -----------------------------
(***************************************************************************)
(* What the merging searcher and the run loop expect of the searcher below *)
(* them: a set of states, any one of which may be selected, that changes   *)
(* only as the calls of update() say.                                      *)
(***************************************************************************)
EXTENDS FiniteSets

CONSTANT ES, Null

VARIABLES scheduled, current, addedStates, removedStates, pausedStates

Init ==
    /\ scheduled \in {{s} : s \in ES} /\ current = Null
    /\ addedStates = {} /\ removedStates = {} /\ pausedStates = {}

(* Only a state that is scheduled is selected. *)
Select ==
    /\ current = Null
    /\ current' \in scheduled
    /\ UNCHANGED <<scheduled, addedStates, removedStates, pausedStates>>

(* The instruction creates and ends states. *)
Execute ==
    /\ current # Null
    /\ addedStates' \in SUBSET ES /\ removedStates' \in SUBSET ES
    /\ UNCHANGED <<scheduled, current, pausedStates>>

Pause ==
    /\ current \in scheduled
    /\ pausedStates' = pausedStates \cup {current}
    /\ scheduled' = scheduled \ {current}
    /\ UNCHANGED <<current, addedStates, removedStates>>

Continue ==
    /\ pausedStates' \in SUBSET pausedStates
    /\ scheduled' = scheduled \cup (pausedStates \ pausedStates')
    /\ removedStates' \in SUBSET ES
    /\ UNCHANGED <<current, addedStates>>

Update ==
    /\ current # Null
    /\ scheduled' = IF current \in pausedStates THEN scheduled
                    ELSE (scheduled \cup addedStates) \ removedStates
    /\ current' = Null /\ addedStates' = {} /\ removedStates' = {}
    /\ UNCHANGED pausedStates

Next == Select \/ Execute \/ Pause \/ Continue \/ Update

Spec == Init /\ [][Next]_<<scheduled, current, addedStates, removedStates, pausedStates>>
=============================================================================
