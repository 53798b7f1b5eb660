---------------------------- MODULE ExecutionState ----------------------------
(***************************************************************************)
(* The execution states: their fields, as far as scheduling and merging    *)
(* depend on them, and the three collections in which the executor keeps   *)
(* them.                                                                   *)
(*                                                                         *)
(* A state is named by the order of its creation, and a name is not reused *)
(* after the state is deleted.  Its path constraints are represented by    *)
(* what they mean: the set of concrete program inputs that satisfy them.   *)
(***************************************************************************)
EXTENDS ControlFlow

CONSTANTS MaxStates,      \* bound: states created in one run
          MaxHandlers,    \* bound: merge handlers created in one run
          Inputs          \* concrete inputs of the program

ASSUME BoundsAssumption == MaxStates \in Nat \ {0} /\ MaxHandlers \in Nat

(* A program that makes nothing symbolic has one input, the empty one. *)
ASSUME InputsAssumption == Inputs # {}

ES == 1 .. MaxStates
MH == 1 .. MaxHandlers

VARIABLES
    created,              \* states created so far
    states,               \* Executor::states
    addedStates,          \* Executor::addedStates
    removedStates,        \* Executor::removedStates: how often each state occurs
    pc, prevPC,
    openMergeStack,
    constraints,
    objects,              \* memory objects, each named by its allocation
    steppedInstructions

esVars == <<created, states, addedStates, removedStates, pc, prevPC,
            openMergeStack, constraints, objects, steppedInstructions>>

(* The states whose memory has not been freed. *)
Allocated == states \cup addedStates

(* Some element of the state's openMergeStack is a ref to the handler. *)
Holds(s, h) == \E k \in 1 .. Len(openMergeStack[s]) : openMergeStack[s][k] = h

(* Mutant: the memory objects are not compared. *)
CanMergeAnyObjects(a, b) == pc[a] = pc[b]

(***************************************************************************)
(* canMerge, and with it merge, which makes the same checks: the same pc   *)
(* and the same memory objects.  The program is a single function, so call *)
(* stacks are equal, and it makes nothing symbolic after its entry, so     *)
(* symbolics are.                                                          *)
(***************************************************************************)
CanMerge(a, b) == pc[a] = pc[b] /\ objects[a] = objects[b]

EStateInit ==
    /\ created = 1
    /\ states = {1}
    /\ addedStates = {}
    /\ removedStates = [s \in ES |-> 0]
    /\ pc = [s \in ES |-> Entry]
    /\ prevPC = [s \in ES |-> Entry]
    /\ openMergeStack = [s \in ES |-> << >>]
    /\ constraints = [s \in ES |-> IF s = 1 THEN Inputs ELSE {}]
    /\ objects = [s \in ES |-> {}]
    /\ steppedInstructions = [s \in ES |-> 0]

(* Executor::stepInstruction on state s. *)
StepInstruction(s) ==
    /\ steppedInstructions' = [steppedInstructions EXCEPT ![s] = @ + 1]
    /\ prevPC' = [prevPC EXCEPT ![s] = pc[s]]
    /\ pc' = [pc EXCEPT ![s] = NextInst(pc[s])]

=============================================================================
