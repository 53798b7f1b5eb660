---------------------------- MODULE ConcreteMemory ----------------------------
(***************************************************************************)
(* What the memory of the execution states stands for: one plain memory    *)
(* and one register for each concrete input, as if the program ran on each *)
(* input alone.  An instruction that is selected for some inputs has its   *)
(* effect on each of them before another one is selected; how the states   *)
(* that carry the inputs fork, share contents and merge cannot be seen.    *)
(*                                                                         *)
(* One thing can be seen.  An external function works on the concrete      *)
(* bytes of the process, and what it writes to a byte that the executor    *)
(* holds symbolically is lost.  Which bytes these are is the variable      *)
(* opaque.                                                                 *)
(***************************************************************************)
CONSTANTS Inputs, MemoryObjects, ReadOnlyObjects, Offsets, Unbound,
          SymbolicArray,          \* the bytes klee_make_symbolic gives an object
          InitialMemory,
          Instructions, NoInstruction

VARIABLES memory,                 \* memory[x][mo]: the bytes for input x, or Unbound
          register,
          opaque,                 \* opaque[x][mo]: the offsets of bytes no external function sees
          ended,                  \* the inputs whose paths have ended
          running, instruction    \* what is executed, for which inputs

vars == <<memory, register, opaque, ended, running, instruction>>

Masks == [Inputs -> [MemoryObjects -> SUBSET Offsets]]

Init ==
    /\ memory = [x \in Inputs |-> InitialMemory]
    /\ register = [x \in Inputs |-> 0]
    /\ opaque = [x \in Inputs |-> [mo \in MemoryObjects |-> {}]]
    /\ ended = {}
    /\ running = {} /\ instruction = NoInstruction

Select ==
    /\ instruction = NoInstruction
    /\ instruction' \in Instructions
    /\ running' \in SUBSET (Inputs \ ended) /\ running' # {}
    /\ UNCHANGED <<memory, register, opaque, ended>>

Executing(op) == instruction # NoInstruction /\ instruction.op = op

Executed == running' = {} /\ instruction' = NoInstruction

(* The bytes of the object of the instruction change for the running       *)
(* inputs, and nothing else does.                                          *)
Become(bytes) ==
    /\ memory' = [x \in Inputs |->
                    IF x \in running THEN [memory[x] EXCEPT ![instruction.mo] = bytes[x]]
                    ELSE memory[x]]
    /\ UNCHANGED <<register, ended>>

RegisterBecomes(value) ==
    /\ register' = [x \in Inputs |-> IF x \in running THEN value[x] ELSE register[x]]
    /\ UNCHANGED <<memory, opaque, ended>>

(* Of the bytes of its object, only those in S may be hidden or shown by   *)
(* the instruction, for the running inputs.                                *)
MayHide(S) ==
    /\ opaque' \in Masks
    /\ \A x \in Inputs, mo \in MemoryObjects :
          IF x \in running /\ mo = instruction.mo THEN opaque'[x][mo] \ S = opaque[x][mo] \ S
          ELSE opaque'[x][mo] = opaque[x][mo]

Hides(S) ==
    opaque' = [x \in Inputs |->
                 IF x \in running THEN [opaque[x] EXCEPT ![instruction.mo] = S] ELSE opaque[x]]

Before(x) == memory[x][instruction.mo]
At(x)     == instruction.index[x]

(* Where the index is the same for all inputs, only that byte is touched;  *)
(* a write at an index that depends on the input is one to all of them.    *)
Store ==
    /\ Executing("store") /\ instruction.mo \notin ReadOnlyObjects
    /\ Become([x \in Inputs |-> [Before(x) EXCEPT ![At(x)] = register[x]]])
    /\ MayHide(IF \A x, y \in Inputs : At(x) = At(y) THEN {At(x) : x \in Inputs} ELSE Offsets)
    /\ Executed

Load ==
    /\ Executing("load")
    /\ RegisterBecomes([x \in Inputs |-> Before(x)[At(x)]])
    /\ Executed

Set ==
    /\ Executing("set")
    /\ RegisterBecomes([x \in Inputs |-> instruction.value])
    /\ Executed

Alloc ==
    /\ Executing("alloc")
    /\ Become([x \in Inputs |-> [o \in Offsets |-> instruction.value]])
    /\ Hides({})
    /\ Executed

Free ==
    /\ Executing("free")
    /\ Become([x \in Inputs |-> Unbound])
    /\ Hides({})
    /\ Executed

MakeSymbolic ==
    /\ Executing("symbolic")
    /\ Become(SymbolicArray[instruction.mo])
    /\ Hides(Offsets)
    /\ Executed

Seen(x) == At(x) \notin opaque[x][instruction.mo]

(* An external function writes a byte, if it is one that it can see.       *)
External ==
    /\ Executing("external")
    /\ instruction.mo \in ReadOnlyObjects => \A x \in running : Before(x)[At(x)] = instruction.value
    /\ Become([x \in Inputs |->
                 [Before(x) EXCEPT ![At(x)] = IF Seen(x) THEN instruction.value ELSE @]])
    /\ UNCHANGED opaque
    /\ Executed

(* A write that would change a read-only object ends the paths instead.    *)
End ==
    /\ \/ Executing("store")
       \/ Executing("external") /\ \A x \in running : Before(x)[At(x)] # instruction.value
    /\ instruction.mo \in ReadOnlyObjects
    /\ memory' = [x \in Inputs |-> IF x \in running THEN [mo \in MemoryObjects |-> Unbound]
                                   ELSE memory[x]]
    /\ register' = [x \in Inputs |-> IF x \in running THEN 0 ELSE register[x]]
    /\ opaque' = [x \in Inputs |-> IF x \in running THEN [mo \in MemoryObjects |-> {}]
                                   ELSE opaque[x]]
    /\ ended' = ended \cup running
    /\ Executed

(* Between instructions states merge, which no input can tell from its     *)
(* memory.  A byte is hidden from then on only if it depends on the input: *)
(* it differs from that of another input, or was hidden for one.           *)
Regroup ==
    /\ instruction = NoInstruction
    /\ opaque' \in Masks
    /\ \A x \in Inputs, mo \in MemoryObjects : \A o \in opaque'[x][mo] \ opaque[x][mo] :
          \E y \in Inputs : \/ o \in opaque[y][mo]
                            \/ o \in DOMAIN memory[y][mo] /\ memory[y][mo][o] # memory[x][mo][o]
    /\ UNCHANGED <<memory, register, ended, running, instruction>>

Next ==
    \/ Select
    \/ Store \/ Load \/ Set \/ Alloc \/ Free \/ MakeSymbolic \/ External \/ End
    \/ Regroup

Spec == Init /\ [][Next]_vars
=============================================================================
