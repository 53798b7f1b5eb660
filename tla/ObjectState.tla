----------------------------- MODULE ObjectState -----------------------------
(***************************************************************************)
(* klee::ObjectState, the contents of one memory object in one or more     *)
(* execution states, as a record with one field for each of the class's.   *)
(*                                                                         *)
(* A byte lives in up to three places: the concrete store, the known       *)
(* symbolic expressions, and the update list to which bytes are flushed    *)
(* when an access by a symbolic offset needs all of them.  An expression   *)
(* is the value it has for each concrete input, a ConstantExpr one that    *)
(* has the same value for all of them, and an update list the array it     *)
(* denotes for each input.  A mask that is not allocated stands for its    *)
(* default, the full set of offsets.                                       *)
(***************************************************************************)
EXTENDS Naturals

CONSTANTS Inputs, Offsets, Bytes

Expr == [Inputs -> Bytes]
Constant(v) == [x \in Inputs |-> v]
IsConstant(e) == \E v \in Bytes : e = Constant(v)

NoExpr == <<"null">>

ASSUME ObjectStateAssumption == NoExpr \notin Expr /\ 0 \in Bytes

ObjectStates ==
    [copyOnWriteOwner : Nat,
     concreteStore    : [Offsets -> Bytes],
     concreteMask     : SUBSET Offsets,
     flushMask        : SUBSET Offsets,        \* set: not flushed
     knownSymbolics   : [Offsets -> Expr \cup {NoExpr}],
     updates          : [Inputs -> [Offsets -> Bytes]],
     readOnly         : BOOLEAN]

(* ObjectState(mo), initializeToZero and initializeToRandom. *)
NewObjectState(v) ==
    [copyOnWriteOwner |-> 0,
     concreteStore    |-> [o \in Offsets |-> v],
     concreteMask     |-> Offsets,
     flushMask        |-> Offsets,
     knownSymbolics   |-> [o \in Offsets |-> NoExpr],
     updates          |-> [x \in Inputs |-> [o \in Offsets |-> 0]],
     readOnly         |-> FALSE]

(* ObjectState(mo, array): makeSymbolic. *)
NewSymbolicObjectState(array) ==
    [NewObjectState(0) EXCEPT !.concreteMask = {}, !.flushMask = {}, !.updates = array]

IsByteConcrete(os, o)      == o \in os.concreteMask
IsByteFlushed(os, o)       == o \notin os.flushMask
IsByteKnownSymbolic(os, o) == os.knownSymbolics[o] # NoExpr

Read8(os, o) ==
    IF IsByteConcrete(os, o) THEN Constant(os.concreteStore[o])
    ELSE IF IsByteKnownSymbolic(os, o) THEN os.knownSymbolics[o]
    ELSE [x \in Inputs |-> os.updates[x][o]]

(* The bytes that are not flushed are appended to the update list. *)
Flushed(os) ==
    [x \in Inputs |-> [o \in Offsets |-> IF IsByteFlushed(os, o) THEN os.updates[x][o]
                                         ELSE Read8(os, o)[x]]]

(* The bytes are marked flushed, and stay cached. *)
FlushRangeForRead(os) == [os EXCEPT !.updates = Flushed(os), !.flushMask = {}]

(* The bytes are flushed, and no cached value is left. *)
FlushRangeForWrite(os) ==
    [os EXCEPT !.updates = Flushed(os), !.flushMask = {},
               !.concreteMask = {}, !.knownSymbolics = [o \in Offsets |-> NoExpr]]

(* read8(ref<Expr>), after FlushRangeForRead. *)
Read8At(os, index) == [x \in Inputs |-> os.updates[x][index[x]]]

(* Mutant: a constant does not replace the known symbolic expression. *)
Write8KeepingSymbolic(os, o, e) ==
    IF IsConstant(e)
    THEN [os EXCEPT !.concreteStore[o] = CHOOSE v \in Bytes : e = Constant(v),
                    !.concreteMask = @ \cup {o},
                    !.flushMask = @ \cup {o}]
    ELSE [os EXCEPT !.knownSymbolics[o] = e, !.concreteMask = @ \ {o}, !.flushMask = @ \cup {o}]

(* write8 at a constant offset, of a constant or of another expression. *)
Write8(os, o, e) ==
    IF IsConstant(e)
    THEN [os EXCEPT !.concreteStore[o] = CHOOSE v \in Bytes : e = Constant(v),
                    !.knownSymbolics[o] = NoExpr,
                    !.concreteMask = @ \cup {o},
                    !.flushMask = @ \cup {o}]
    ELSE [os EXCEPT !.knownSymbolics[o] = e, !.concreteMask = @ \ {o}, !.flushMask = @ \cup {o}]

(* write8 of value[o] at every offset o, one after the other. *)
WriteAll(os, value) ==
    LET constant == {o \in Offsets : IsConstant(value[o])}
    IN  [os EXCEPT !.concreteStore = [o \in Offsets |-> IF o \in constant
                                                       THEN CHOOSE v \in Bytes : value[o] = Constant(v)
                                                       ELSE os.concreteStore[o]],
                   !.knownSymbolics = [o \in Offsets |-> IF o \in constant THEN NoExpr ELSE value[o]],
                   !.concreteMask = constant,
                   !.flushMask = Offsets]

(* write8 at a symbolic offset: one more entry of the update list. *)
Write8At(os, index, e) ==
    LET flushed == FlushRangeForWrite(os)
    IN  [flushed EXCEPT !.updates = [x \in Inputs |-> [@[x] EXCEPT ![index[x]] = e[x]]]]

(* The comment "Cache Invariants" of Memory.cpp. *)
CacheInvariants(os) ==
    \A o \in Offsets :
        /\ IsByteKnownSymbolic(os, o) => ~IsByteConcrete(os, o)
        /\ ~IsByteFlushed(os, o) => IsByteConcrete(os, o) \/ IsByteKnownSymbolic(os, o)
=============================================================================
