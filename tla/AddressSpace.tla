----------------------------- MODULE AddressSpace -----------------------------
(***************************************************************************)
(* klee::AddressSpace: the map from memory objects to their contents in    *)
(* each execution state.  States share an ObjectState until one of them    *)
(* writes to it; who may write in place is decided by comparing the        *)
(* object's copyOnWriteOwner with the cowKey of the address space.  The    *)
(* copy made by a fork has the same key as the original.                   *)
(*                                                                         *)
(* The states run a program that accesses memory: the executor selects a   *)
(* state and its next instruction (Select), executes it, and in between    *)
(* merges states that meet.  A register stands for the locals of a state.  *)
(***************************************************************************)
EXTENDS ObjectState

CONSTANTS MaxStates,          \* bound: execution states at a time
          MaxInstructions,    \* bound: instructions executed
          MemoryObjects,
          ReadOnlyObjects,    \* constant globals
          InitialObjects,     \* globals
          SymbolicArray,
          SymbolicIndex,      \* an offset that depends on the input
          Programs            \* the sets of features a program may use

ASSUME AddressSpaceAssumption ==
    /\ Inputs # {}
    /\ MaxStates \in Nat \ {0} /\ MaxInstructions \in Nat
    /\ ReadOnlyObjects \subseteq InitialObjects /\ InitialObjects \subseteq MemoryObjects
    /\ SymbolicArray \in [MemoryObjects -> [Inputs -> [Offsets -> Bytes]]]
    /\ SymbolicIndex \in [Inputs -> Offsets]

States == 1 .. MaxStates
Slots  == 1 .. MaxStates      \* distinct contents of one object
NoSlot == 0

VARIABLES
    program,                  \* the features of the program
    executed,
    live,                     \* the execution states
    current, instruction,     \* what is executed next
    pathInputs,               \* the inputs that satisfy a state's constraints
    registers,
    symbolics,                \* ExecutionState::symbolics
    cowKey,
    objects,                  \* objects[s][mo]: the slot mo is bound to, or NoSlot
    heap                      \* heap[mo][slot]

vars == <<program, executed, live, current, instruction, pathInputs, registers, symbolics,
          cowKey, objects, heap>>

Idle == 0

ConstantIndices == {[x \in Inputs |-> o] : o \in Offsets}
IsConstantIndex(i) == i \in ConstantIndices
OffsetOf(i) == CHOOSE o \in Offsets : i = [x \in Inputs |-> o]

NoInstruction == [op |-> "none"]
Instructions ==
    [op : {"load", "store"}, mo : MemoryObjects, index : ConstantIndices \cup {SymbolicIndex}]
        \cup [op : {"set"}, value : Bytes]
        \cup [op : {"alloc"}, mo : MemoryObjects \ InitialObjects, value : Bytes]
        \cup [op : {"free"}, mo : MemoryObjects \ InitialObjects]
        \cup [op : {"symbolic"}, mo : MemoryObjects \ ReadOnlyObjects]
        \cup [op : {"external"}, mo : MemoryObjects, value : Bytes, index : ConstantIndices]

(* The features of a program beyond loads and stores at constant offsets. *)
Uses(i) ==
    /\ i.op \in {"alloc", "free"} => "heap" \in program
    /\ i.op = "symbolic" => "symbolic" \in program
    /\ i.op = "external" => "external" \in program
    /\ i.op \in {"load", "store"} => IsConstantIndex(i.index) \/ "index" \in program
    /\ i.op # "set" => i.mo \notin ReadOnlyObjects \/ "rodata" \in program

Bound(s, mo) == objects[s][mo] # NoSlot
FindObject(s, mo) == heap[mo][objects[s][mo]]

Init ==
    /\ program \in Programs
    /\ executed = 0
    /\ live = {1}
    /\ current = Idle /\ instruction = NoInstruction
    /\ pathInputs = [s \in States |-> IF s = 1 THEN Inputs ELSE {}]
    /\ registers = [s \in States |-> Constant(0)]
    /\ symbolics = [s \in States |-> {}]
    /\ cowKey = [s \in States |-> IF s = 1 THEN 1 ELSE 0]
    /\ objects = [s \in States |-> [mo \in MemoryObjects |->
                                       IF s = 1 /\ mo \in InitialObjects THEN 1 ELSE NoSlot]]
    /\ heap = [mo \in MemoryObjects |-> [i \in Slots |->
                 IF i = 1 /\ mo \in InitialObjects
                 THEN [NewObjectState(0) EXCEPT !.copyOnWriteOwner = 1,
                                                !.readOnly = mo \in ReadOnlyObjects]
                 ELSE NewObjectState(0)]]

-----------------------------------------------------------------------------
(***************************************************************************)
(* References.  An ObjectState is deleted with the last map it is in; its  *)
(* slot then holds nothing of interest.                                    *)
(***************************************************************************)
Collect(h, bound) ==
    [mo \in MemoryObjects |-> [i \in Slots |->
        IF \E s \in States : bound[s][mo] = i THEN h[mo][i] ELSE NewObjectState(0)]]

(* A slot for contents of mo that state s alone will refer to. *)
FreshSlot(s, mo) == CHOOSE i \in Slots : \A t \in States \ {s} : objects[t][mo] # i

(* Mutant: whoever wrote last keeps the right to write in place. *)
OwnsSinceEver(s, mo) == FindObject(s, mo).copyOnWriteOwner # 0

Owns(s, mo) == cowKey[s] = FindObject(s, mo).copyOnWriteOwner

(* bindObject and getWriteable: os[mo] becomes the contents of each mo in  *)
(* M, in place if s owns what it replaces.                                 *)
SlotFor(s, mo) == IF Bound(s, mo) /\ Owns(s, mo) THEN objects[s][mo] ELSE FreshSlot(s, mo)

Written(s, M, os) ==
    [mo \in MemoryObjects |->
        IF mo \in M
        THEN [heap[mo] EXCEPT ![SlotFor(s, mo)] = [os[mo] EXCEPT !.copyOnWriteOwner = cowKey[s]]]
        ELSE heap[mo]]

BoundBy(s, M) == [objects EXCEPT ![s] = [mo \in MemoryObjects |-> IF mo \in M THEN SlotFor(s, mo)
                                                                  ELSE @[mo]]]

Rebind(s, M, os) ==
    /\ objects' = BoundBy(s, M)
    /\ heap' = Collect(Written(s, M, os), BoundBy(s, M))

Unbind(s, M) ==
    LET bound == [objects EXCEPT ![s] = [mo \in MemoryObjects |->
                                            IF mo \in M THEN NoSlot ELSE @[mo]]]
    IN  /\ objects' = bound
        /\ heap' = Collect(heap, bound)

-----------------------------------------------------------------------------
(***************************************************************************)
(* Instructions.                                                           *)
(***************************************************************************)
Select ==
    /\ current = Idle /\ executed < MaxInstructions
    /\ \E s \in live, i \in Instructions :
          /\ Uses(i)
          /\ i.op \in {"load", "store", "free", "symbolic", "external"} => Bound(s, i.mo)
          /\ i.op = "alloc" => ~Bound(s, i.mo)
          /\ i.op = "symbolic" => i.mo \notin symbolics[s]
          /\ current' = s /\ instruction' = i
    /\ executed' = executed + 1
    /\ UNCHANGED <<program, live, pathInputs, registers, symbolics, cowKey, objects, heap>>

Executing(op) == current # Idle /\ instruction.op = op
Done == current' = Idle /\ UNCHANGED <<program, executed, instruction, pathInputs, cowKey>>

(* terminateState, and the deletion of the state. *)
Terminate ==
    /\ live' = live \ {current}
    /\ Unbind(current, MemoryObjects)
    /\ registers' = [registers EXCEPT ![current] = Constant(0)]
    /\ symbolics' = [symbolics EXCEPT ![current] = {}]
    /\ pathInputs' = [pathInputs EXCEPT ![current] = {}]
    /\ cowKey' = [cowKey EXCEPT ![current] = 0]
    /\ current' = Idle
    /\ UNCHANGED <<program, executed, instruction>>

Set ==
    /\ Executing("set")
    /\ registers' = [registers EXCEPT ![current] = Constant(instruction.value)]
    /\ Done
    /\ UNCHANGED <<live, symbolics, objects, heap>>

(* executeMemoryOperation, in bounds. *)
LoadAtConstant ==
    /\ Executing("load") /\ IsConstantIndex(instruction.index)
    /\ registers' = [registers EXCEPT
                        ![current] = Read8(FindObject(current, instruction.mo),
                                           OffsetOf(instruction.index))]
    /\ Done
    /\ UNCHANGED <<live, symbolics, objects, heap>>

(* A read by a symbolic offset flushes the contents, for all who share it. *)
LoadAtSymbolic ==
    /\ Executing("load") /\ ~IsConstantIndex(instruction.index)
    /\ LET os == FlushRangeForRead(FindObject(current, instruction.mo))
       IN  /\ registers' = [registers EXCEPT ![current] = Read8At(os, instruction.index)]
           /\ heap' = [heap EXCEPT ![instruction.mo][objects[current][instruction.mo]] = os]
    /\ Done
    /\ UNCHANGED <<live, symbolics, objects>>

Store ==
    /\ Executing("store") /\ ~FindObject(current, instruction.mo).readOnly
    /\ LET os == FindObject(current, instruction.mo)
           value == registers[current]
       IN  Rebind(current, {instruction.mo},
                  [mo \in {instruction.mo} |->
                      IF IsConstantIndex(instruction.index)
                      THEN Write8(os, OffsetOf(instruction.index), value)
                      ELSE Write8At(os, instruction.index, value)])
    /\ Done
    /\ UNCHANGED <<live, registers, symbolics>>

(* "memory error: object read only" *)
StoreReadOnly ==
    /\ Executing("store") /\ FindObject(current, instruction.mo).readOnly
    /\ Terminate

Alloc ==
    /\ Executing("alloc")
    /\ Rebind(current, {instruction.mo},
              [mo \in {instruction.mo} |-> NewObjectState(instruction.value)])
    /\ Done
    /\ UNCHANGED <<live, registers, symbolics>>

(* executeFree of a heap object, or the end of an alloca's function. *)
Free ==
    /\ Executing("free")
    /\ Unbind(current, {instruction.mo})
    /\ Done
    /\ UNCHANGED <<live, registers, symbolics>>

(* executeMakeSymbolic: new contents are bound, instead of a copy. *)
MakeSymbolic ==
    /\ Executing("symbolic")
    /\ Rebind(current, {instruction.mo},
              [mo \in {instruction.mo} |-> NewSymbolicObjectState(SymbolicArray[mo])])
    /\ symbolics' = [symbolics EXCEPT ![current] = @ \cup {instruction.mo}]
    /\ Done
    /\ UNCHANGED <<live, registers>>

(***************************************************************************)
(* callExternalFunction: copyOutConcretes, the call, which writes a byte   *)
(* of the process's memory, and copyInConcretes, which copies the object   *)
(* whose memory differs from its concrete store, back into that store.     *)
(***************************************************************************)
ExternalWrite(os) ==
    [os EXCEPT !.concreteStore[OffsetOf(instruction.index)] = instruction.value]

CallExternal ==
    /\ Executing("external")
    /\ LET os == FindObject(current, instruction.mo)
       IN  IF ExternalWrite(os) = os
           THEN UNCHANGED <<objects, heap>>
           ELSE /\ ~os.readOnly
                /\ Rebind(current, {instruction.mo}, [mo \in {instruction.mo} |-> ExternalWrite(os)])
    /\ Done
    /\ UNCHANGED <<live, registers, symbolics>>

(* "external modified read-only object" *)
ExternalModifiesReadOnly ==
    /\ Executing("external")
    /\ LET os == FindObject(current, instruction.mo) IN os.readOnly /\ ExternalWrite(os) # os
    /\ Terminate

-----------------------------------------------------------------------------
(***************************************************************************)
(* ExecutionState::branch: AddressSpace(b) takes ++b.cowKey as its key.    *)
(***************************************************************************)
(* Mutant: the original keeps its key. *)
KeysAfterForkKeeping(s, t) == [cowKey EXCEPT ![t] = cowKey[s] + 1]

KeysAfterFork(s, t) == [cowKey EXCEPT ![s] = @ + 1, ![t] = cowKey[s] + 1]

Fork ==
    /\ current = Idle /\ executed < MaxInstructions
    /\ \E s \in live, A \in SUBSET Inputs :
          /\ A # {} /\ A # pathInputs[s] /\ A \subseteq pathInputs[s]
          /\ \E t \in States \ live :
                /\ \A r \in States \ live : t <= r
                /\ live' = live \cup {t}
                /\ pathInputs' = [pathInputs EXCEPT ![s] = A, ![t] = pathInputs[s] \ A]
                /\ cowKey' = KeysAfterFork(s, t)
                /\ objects' = [objects EXCEPT ![t] = objects[s]]
                /\ registers' = [registers EXCEPT ![t] = registers[s]]
                /\ symbolics' = [symbolics EXCEPT ![t] = symbolics[s]]
    /\ executed' = executed + 1
    /\ UNCHANGED <<program, current, instruction, heap>>

(***************************************************************************)
(* ExecutionState::merge: s absorbs t.  Locals and the bytes of objects    *)
(* whose contents are not shared become a choice by the constraints of s.  *)
(***************************************************************************)
SelectExpr(inA, a, b) == [x \in Inputs |-> IF x \in inA THEN a[x] ELSE b[x]]

Mutated(s, t) == {mo \in MemoryObjects : objects[s][mo] # objects[t][mo]}

MergeBytes(os, other, inA) ==
    WriteAll(os, [o \in Offsets |-> SelectExpr(inA, Read8(os, o), Read8(other, o))])

Merge ==
    /\ current = Idle
    /\ \E s, t \in live :
          /\ s # t
          /\ symbolics[s] = symbolics[t]
          /\ \A mo \in MemoryObjects : Bound(s, mo) <=> Bound(t, mo)
          /\ LET M == Mutated(s, t)
                 merged == [mo \in M |-> MergeBytes(FindObject(s, mo), FindObject(t, mo),
                                                    pathInputs[s])]
                 bound == [BoundBy(s, M) EXCEPT ![t] = [mo \in MemoryObjects |-> NoSlot]]
             IN  /\ objects' = bound
                 /\ heap' = Collect(Written(s, M, merged), bound)
          /\ registers' = [registers EXCEPT
                              ![s] = SelectExpr(pathInputs[s], registers[s], registers[t]),
                              ![t] = Constant(0)]
          /\ pathInputs' = [pathInputs EXCEPT ![s] = @ \cup pathInputs[t], ![t] = {}]
          /\ live' = live \ {t}
          /\ cowKey' = [cowKey EXCEPT ![t] = 0]
          /\ symbolics' = [symbolics EXCEPT ![t] = {}]
    /\ UNCHANGED <<program, executed, current, instruction>>

(* The program has ended, or the bound is reached. *)
Finished == current = Idle /\ (executed = MaxInstructions \/ live = {}) /\ UNCHANGED vars

Next ==
    \/ Select \/ Set \/ LoadAtConstant \/ LoadAtSymbolic \/ Store \/ StoreReadOnly
    \/ Alloc \/ Free \/ MakeSymbolic \/ CallExternal \/ ExternalModifiesReadOnly
    \/ Fork \/ Merge \/ Finished

Spec == Init /\ [][Next]_vars
=============================================================================
