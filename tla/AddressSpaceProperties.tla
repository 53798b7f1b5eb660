------------------------ MODULE AddressSpaceProperties ------------------------
(***************************************************************************)
(* What the memory of the execution states promises.                       *)
(***************************************************************************)
EXTENDS AddressSpace

(* Every variable has its type. *)
MemoryTypeOK ==
    /\ live \subseteq States
    /\ current \in live \cup {Idle}
    /\ instruction \in Instructions \cup {NoInstruction}
    /\ pathInputs \in [States -> SUBSET Inputs]
    /\ registers \in [States -> Expr]
    /\ symbolics \in [States -> SUBSET MemoryObjects]
    /\ cowKey \in [States -> Nat]
    /\ objects \in [States -> [MemoryObjects -> Slots \cup {NoSlot}]]
    /\ heap \in [MemoryObjects -> [Slots -> ObjectStates]]

(* A state that is not live has nothing bound. *)
DeadStatesAreUnbound == \A s \in States \ live, mo \in MemoryObjects : ~Bound(s, mo)

(* The instruction that was selected can still be executed: its object is  *)
(* bound, and the program may use it.                                      *)
InstructionFits ==
    current # Idle =>
        /\ instruction \in Instructions /\ Uses(instruction)
        /\ instruction.op \in {"load", "store", "free", "symbolic", "external"} =>
              Bound(current, instruction.mo)

(* Contents that a state would write in place (getWriteable returns them   *)
(* as they are) are contents that no other state is bound to: the same     *)
(* key is used by both sides of a fork, and keys are never given back.     *)
(* That rests on the comment of AddressSpace.h, "forall o in objects,      *)
(* o->copyOnWriteOwner <= cowKey".                                         *)
OwnedContentsAreNotShared ==
    \A s \in live, mo \in MemoryObjects : Bound(s, mo) =>
        /\ FindObject(s, mo).copyOnWriteOwner <= cowKey[s]
        /\ \A t \in live \ {s} : objects[s][mo] = objects[t][mo] => ~Owns(s, mo)

(* The comment "Cache Invariants" of Memory.cpp holds of all contents; so  *)
(* the assertions "invalid bit set in flushMask" and "unflushed byte       *)
(* without cache value" never fail.                                        *)
CachesAreValid ==
    \A s \in live, mo \in MemoryObjects : Bound(s, mo) => CacheInvariants(FindObject(s, mo))

(* The inductive invariant behind both. *)
MemoryInv ==
    /\ MemoryTypeOK
    /\ DeadStatesAreUnbound
    /\ InstructionFits
    /\ OwnedContentsAreNotShared
    /\ CachesAreValid

(* What is flushed to the update list is what is cached.                   *)
UpdatesAgree(os) ==
    \A o \in Offsets : IsByteFlushed(os, o) => \A x \in Inputs : os.updates[x][o] = Read8(os, o)[x]

(* A read by a symbolic offset finds in the update list what a read at a   *)
(* constant one finds in the caches.  Without such reads no concrete byte  *)
(* is ever flushed, so what an external function writes agrees, too.       *)
UpdatesAreCoherent ==
    \A s \in live, mo \in MemoryObjects : Bound(s, mo) =>
        /\ UpdatesAgree(FindObject(s, mo))
        /\ "index" \in program \/ FindObject(s, mo).concreteMask \subseteq FindObject(s, mo).flushMask

(* No input satisfies the constraints of two states. *)
PathsAreDisjoint == \A s, t \in live : s # t => pathInputs[s] \cap pathInputs[t] = {}

PathsAreNotEmpty == \A s \in live : pathInputs[s] # {}

(* Constant globals are the contents they were created with, concrete and  *)
(* shared by all states; nothing else is read-only.                        *)
ReadOnlyContents ==
    \A s \in live, mo \in MemoryObjects : Bound(s, mo) =>
        IF mo \in ReadOnlyObjects
        THEN /\ objects[s][mo] = 1
             /\ FindObject(s, mo).readOnly /\ FindObject(s, mo).concreteMask = Offsets
        ELSE ~FindObject(s, mo).readOnly

(* The inductive invariant behind the refinement of ConcreteMemory. *)
RefinementInv ==
    /\ MemoryInv
    /\ program \in Programs
    /\ UpdatesAreCoherent
    /\ PathsAreDisjoint
    /\ PathsAreNotEmpty
    /\ ReadOnlyContents

(* The state that carries an input. *)
Carrier(x) == {s \in live : x \in pathInputs[s]}

(* The memory of an input, as the state that carries it sees it. *)
MemoryOf(x) ==
    [mo \in MemoryObjects |->
        IF \E s \in Carrier(x) : Bound(s, mo)
        THEN LET s == CHOOSE s \in Carrier(x) : TRUE
             IN  [o \in Offsets |-> Read8(FindObject(s, mo), o)[x]]
        ELSE << >>]

RegisterOf(x) ==
    IF Carrier(x) = {} THEN 0 ELSE registers[CHOOSE s \in Carrier(x) : TRUE][x]

(* The bytes of which copyOutConcretes copies no value that counts. *)
OpaqueOf(x) ==
    [mo \in MemoryObjects |->
        IF \E s \in Carrier(x) : Bound(s, mo)
        THEN Offsets \ FindObject(CHOOSE s \in Carrier(x) : TRUE, mo).concreteMask
        ELSE {}]

ByInput == INSTANCE ConcreteMemory
    WITH Unbound <- << >>,
         InitialMemory <- [mo \in MemoryObjects |->
                             IF mo \in InitialObjects THEN [o \in Offsets |-> 0] ELSE << >>],
         memory <- [x \in Inputs |-> MemoryOf(x)],
         register <- [x \in Inputs |-> RegisterOf(x)],
         opaque <- [x \in Inputs |-> OpaqueOf(x)],
         ended <- {x \in Inputs : Carrier(x) = {}},
         running <- IF current = Idle THEN {} ELSE pathInputs[current],
         instruction <- IF current = Idle THEN NoInstruction ELSE instruction

(* For every input the program computes what it would compute alone: every *)
(* instruction that is selected has its effect on the bytes of each input  *)
(* that executes it, and the sharing of contents between states, the       *)
(* caches of ObjectState and the merging of locals and bytes change no     *)
(* other byte.  What an external function writes is lost where the byte    *)
(* was not concrete, and only there; and merging makes no byte of the kind *)
(* unless it depends on the input.                                         *)
ImplementsConcreteMemory == ByInput!Spec
=============================================================================
