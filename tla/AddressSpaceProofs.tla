------------------------- MODULE AddressSpaceProofs -------------------------
(***************************************************************************)
(* The memory of the execution states, for any number of states, objects,  *)
(* offsets, bytes and inputs, and for any program: it is safe, and it      *)
(* implements ConcreteMemory.                                              *)
(***************************************************************************)
EXTENDS AddressSpaceProperties, FiniteSetTheorems, TLAPS

(***************************************************************************)
(* ObjectState.  Each operation returns contents, and keeps the cache      *)
(* invariants.                                                             *)
(***************************************************************************)
ValidContents == {os \in ObjectStates : CacheInvariants(os)}

(* A ConstantExpr is an expression, and its value is a byte. *)
LEMMA ConstantType == \A v \in Bytes : Constant(v) \in Expr
BY DEF Constant, Expr

(* A constant expression has the value that is chosen for it. *)
LEMMA ConstantValue ==
    ASSUME NEW e, IsConstant(e)
    PROVE  /\ (CHOOSE v \in Bytes : e = Constant(v)) \in Bytes
           /\ e = Constant(CHOOSE v \in Bytes : e = Constant(v))
BY Zenon DEF IsConstant

(* ObjectState(mo): all bytes are concrete, none is flushed. *)
LEMMA NewObjectStateValid == \A v \in Bytes : NewObjectState(v) \in ValidContents
BY ObjectStateAssumption
   DEF ValidContents, NewObjectState, ObjectStates, CacheInvariants, IsByteKnownSymbolic, IsByteConcrete,
       IsByteFlushed

(* ObjectState(mo, array): all bytes are flushed, none is cached. *)
LEMMA NewSymbolicObjectStateValid ==
    \A array \in [Inputs -> [Offsets -> Bytes]] : NewSymbolicObjectState(array) \in ValidContents
BY ObjectStateAssumption
   DEF ValidContents, NewSymbolicObjectState, NewObjectState, ObjectStates, CacheInvariants,
       IsByteKnownSymbolic, IsByteConcrete, IsByteFlushed

(* read8 returns an expression, from whichever of the three places. *)
LEMMA Read8Type == \A os \in ObjectStates, o \in Offsets : Read8(os, o) \in Expr
<1> SUFFICES ASSUME NEW os \in ObjectStates, NEW o \in Offsets PROVE Read8(os, o) \in Expr
    OBVIOUS
<1>1. /\ os.concreteStore[o] \in Bytes
      /\ os.knownSymbolics[o] \in Expr \cup {NoExpr}
      /\ os.updates \in [Inputs -> [Offsets -> Bytes]]
    BY DEF ObjectStates
<1>2. [x \in Inputs |-> os.updates[x][o]] \in Expr
    BY <1>1 DEF Expr
<1> QED
    BY <1>1, <1>2, ConstantType DEF Read8, IsByteKnownSymbolic

(* The owner of contents is no part of what they hold. *)
LEMMA OwnerChangeType ==
    \A os \in ObjectStates, k \in Nat : [os EXCEPT !.copyOnWriteOwner = k] \in ObjectStates
BY DEF ObjectStates

(* Changing the owner of contents leaves the caches valid. *)
LEMMA OwnerChangeValid ==
    \A os \in ValidContents, k \in Nat : [os EXCEPT !.copyOnWriteOwner = k] \in ValidContents
BY DEF ValidContents, ObjectStates, CacheInvariants, IsByteKnownSymbolic, IsByteConcrete,
       IsByteFlushed

(* write8 leaves the caches valid. *)
LEMMA Write8Valid ==
    ASSUME NEW os \in ValidContents, NEW o \in Offsets, NEW e \in Expr
    PROVE  Write8(os, o, e) \in ValidContents
<1>1. CASE IsConstant(e)
    <2> DEFINE v == CHOOSE v \in Bytes : e = Constant(v)
    <2>1. v \in Bytes
        BY <1>1, ConstantValue
    <2> HIDE DEF v
    <2>2. Write8(os, o, e) = [os EXCEPT !.concreteStore[o] = v, !.knownSymbolics[o] = NoExpr,
                                        !.concreteMask = @ \cup {o}, !.flushMask = @ \cup {o}]
        BY <1>1 DEF Write8, v
    <2>3. os \in ObjectStates /\ CacheInvariants(os)
        BY DEF ValidContents
    <2>4. Write8(os, o, e) \in ObjectStates
        <3> DEFINE store == [os.concreteStore EXCEPT ![o] = v]
                   known == [os.knownSymbolics EXCEPT ![o] = NoExpr]
                   concrete == os.concreteMask \cup {o}
                   dirty == os.flushMask \cup {o}
        <3>1. store \in [Offsets -> Bytes] /\ known \in [Offsets -> Expr \cup {NoExpr}]
            BY <2>1, <2>3 DEF ObjectStates
        <3>2. concrete \subseteq Offsets /\ dirty \subseteq Offsets
            BY <2>3 DEF ObjectStates
        <3>3. Write8(os, o, e) = [os EXCEPT !.concreteStore = store, !.knownSymbolics = known,
                                            !.concreteMask = concrete, !.flushMask = dirty]
            BY <2>2
        <3> HIDE DEF store, known, concrete, dirty
        <3> QED
            BY <2>3, <3>1, <3>2, <3>3 DEF ObjectStates
    <2>5. CacheInvariants(Write8(os, o, e))
        <3>1. /\ Write8(os, o, e).knownSymbolics = [os.knownSymbolics EXCEPT ![o] = NoExpr]
              /\ Write8(os, o, e).concreteMask = os.concreteMask \cup {o}
              /\ Write8(os, o, e).flushMask = os.flushMask \cup {o}
            BY <2>2, <2>3 DEF ObjectStates
        <3>2. os.knownSymbolics \in [Offsets -> Expr \cup {NoExpr}]
            BY <2>3 DEF ObjectStates
        <3> QED
            BY <2>3, <3>1, <3>2
               DEF CacheInvariants, IsByteKnownSymbolic, IsByteConcrete, IsByteFlushed
    <2> QED
        BY <2>4, <2>5 DEF ValidContents
<1>2. CASE ~IsConstant(e)
    BY <1>2, ObjectStateAssumption
       DEF Write8, ValidContents, ObjectStates, CacheInvariants, IsByteKnownSymbolic, IsByteConcrete,
           IsByteFlushed
<1> QED
    BY <1>1, <1>2

(* Writing all bytes, as merge does, leaves the caches valid. *)
LEMMA WriteAllValid ==
    ASSUME NEW os \in ValidContents, NEW value \in [Offsets -> Expr]
    PROVE  WriteAll(os, value) \in ValidContents
<1> DEFINE byte(o) == CHOOSE v \in Bytes : value[o] = Constant(v)
           constant == {o \in Offsets : IsConstant(value[o])}
           store == [o \in Offsets |-> IF o \in constant THEN byte(o) ELSE os.concreteStore[o]]
           known == [o \in Offsets |-> IF o \in constant THEN NoExpr ELSE value[o]]
<1>1. \A o \in constant : byte(o) \in Bytes
    BY ConstantValue
<1>2. WriteAll(os, value) = [os EXCEPT !.concreteStore = store, !.knownSymbolics = known,
                                       !.concreteMask = constant, !.flushMask = Offsets]
    BY DEF WriteAll
<1>3. store \in [Offsets -> Bytes]
    <2> HIDE DEF byte
    <2> QED BY <1>1 DEF ValidContents, ObjectStates
<1>4. known \in [Offsets -> Expr \cup {NoExpr}]
    OBVIOUS
<1>5. \A o \in Offsets : known[o] # NoExpr <=> o \notin constant
    BY ObjectStateAssumption
<1>6. constant \subseteq Offsets
    OBVIOUS
<1> HIDE DEF store, known, constant
<1> QED
    BY <1>2, <1>3, <1>4, <1>5, <1>6
       DEF ValidContents, ObjectStates, CacheInvariants, IsByteKnownSymbolic, IsByteConcrete,
           IsByteFlushed

(* The array that the update list denotes once all bytes are flushed. *)
LEMMA FlushedType == \A os \in ObjectStates : Flushed(os) \in [Inputs -> [Offsets -> Bytes]]
<1> SUFFICES ASSUME NEW os \in ObjectStates, NEW x \in Inputs, NEW o \in Offsets
             PROVE  /\ os.updates[x][o] \in Bytes
                    /\ Read8(os, o)[x] \in Bytes
    BY DEF Flushed
<1>1. Read8(os, o) \in Expr
    BY Read8Type
<1> QED
    BY <1>1 DEF ObjectStates, Expr

(* flushRangeForRead leaves the caches valid. *)
LEMMA FlushRangeForReadValid ==
    \A os \in ValidContents : FlushRangeForRead(os) \in ValidContents
<1> SUFFICES ASSUME NEW os \in ValidContents PROVE FlushRangeForRead(os) \in ValidContents
    OBVIOUS
<1>1. os \in ObjectStates /\ Flushed(os) \in [Inputs -> [Offsets -> Bytes]]
    BY FlushedType DEF ValidContents
<1> QED
    BY <1>1
       DEF FlushRangeForRead, ValidContents, ObjectStates, CacheInvariants, IsByteKnownSymbolic,
           IsByteConcrete, IsByteFlushed

(* write8 at a symbolic index leaves the caches valid. *)
LEMMA Write8AtValid ==
    ASSUME NEW os \in ValidContents, NEW index \in [Inputs -> Offsets], NEW e \in Expr
    PROVE  Write8At(os, index, e) \in ValidContents
<1> DEFINE written == [x \in Inputs |-> [Flushed(os)[x] EXCEPT ![index[x]] = e[x]]]
           none == [o \in Offsets |-> NoExpr]
<1>1. os \in ObjectStates /\ Flushed(os) \in [Inputs -> [Offsets -> Bytes]]
    BY FlushedType DEF ValidContents
<1>2. written \in [Inputs -> [Offsets -> Bytes]]
    BY <1>1 DEF Expr
<1>3. none \in [Offsets -> Expr \cup {NoExpr}] /\ \A o \in Offsets : none[o] = NoExpr
    OBVIOUS
<1>4. Write8At(os, index, e) = [os EXCEPT !.updates = written, !.flushMask = {},
                                          !.concreteMask = {}, !.knownSymbolics = none]
    BY <1>1 DEF Write8At, FlushRangeForWrite, ObjectStates
<1> HIDE DEF written, none
<1> QED
    BY <1>1, <1>2, <1>3, <1>4
       DEF ValidContents, ObjectStates, CacheInvariants, IsByteKnownSymbolic, IsByteConcrete,
           IsByteFlushed

(* A byte of the concrete store says nothing of the masks. *)
LEMMA StoreChangeValid ==
    ASSUME NEW os \in ValidContents, NEW o \in Offsets, NEW v \in Bytes
    PROVE  [os EXCEPT !.concreteStore[o] = v] \in ValidContents
<1> DEFINE store == [os.concreteStore EXCEPT ![o] = v]
<1>1. os \in ObjectStates /\ store \in [Offsets -> Bytes]
    BY DEF ValidContents, ObjectStates
<1>2. [os EXCEPT !.concreteStore[o] = v] = [os EXCEPT !.concreteStore = store]
    OBVIOUS
<1> HIDE DEF store
<1> QED
    BY <1>1, <1>2
       DEF ValidContents, ObjectStates, CacheInvariants, IsByteKnownSymbolic, IsByteConcrete,
           IsByteFlushed

(* The bytes of two contents, merged. *)
LEMMA SelectExprType ==
    ASSUME NEW inA, NEW a \in Expr, NEW b \in Expr PROVE SelectExpr(inA, a, b) \in Expr
BY DEF SelectExpr, Expr

(* The bytes of two states select between valid contents. *)
LEMMA MergeBytesValid ==
    ASSUME NEW os \in ValidContents, NEW other \in ValidContents, NEW inA
    PROVE  MergeBytes(os, other, inA) \in ValidContents
<1> DEFINE value == [o \in Offsets |-> SelectExpr(inA, Read8(os, o), Read8(other, o))]
<1>1. value \in [Offsets -> Expr]
    BY Read8Type, SelectExprType DEF ValidContents
<1>2. MergeBytes(os, other, inA) = WriteAll(os, value)
    BY DEF MergeBytes
<1> HIDE DEF value
<1> QED
    BY <1>1, <1>2, WriteAllValid

-----------------------------------------------------------------------------
(***************************************************************************)
(* References.                                                             *)
(***************************************************************************)
(* There is a slot for contents that s alone refers to: there are as many  *)
(* slots as states, and one state fewer that may refer to one.             *)
LEMMA FreshSlotExists ==
    ASSUME NEW s \in States, NEW mo \in MemoryObjects
    PROVE  /\ FreshSlot(s, mo) \in Slots
           /\ \A t \in States \ {s} : objects[t][mo] # FreshSlot(s, mo)
<1> DEFINE taken == {objects[t][mo] : t \in States \ {s}}
<1>1. IsFiniteSet(States) /\ Cardinality(States) = MaxStates
    BY FS_Interval, AddressSpaceAssumption DEF States
<1>2. IsFiniteSet(States \ {s}) /\ Cardinality(States \ {s}) = MaxStates - 1
    BY <1>1, FS_RemoveElement
<1>3. IsFiniteSet(taken) /\ Cardinality(taken) <= MaxStates - 1
    <2> DEFINE f == [t \in States \ {s} |-> objects[t][mo]]
    <2>1. f \in Surjection(States \ {s}, taken)
        BY DEF Surjection
    <2> HIDE DEF f, taken
    <2> QED
        BY <1>2, <2>1, FS_Surjection
<1>4. ~(Slots \subseteq taken)
    <2> HIDE DEF taken
    <2> SUFFICES ASSUME Slots \subseteq taken PROVE FALSE
        OBVIOUS
    <2>1. Cardinality(Slots) <= Cardinality(taken)
        BY <1>3, FS_Subset
    <2>2. Cardinality(Slots) = MaxStates
        BY FS_Interval, AddressSpaceAssumption DEF Slots
    <2>3. Cardinality(taken) \in Nat
        BY <1>3, FS_CardinalityType
    <2> QED
        BY <1>3, <2>1, <2>2, <2>3, AddressSpaceAssumption
<1>5. \E i \in Slots : \A t \in States \ {s} : objects[t][mo] # i
    BY <1>4
<1> QED
    BY <1>5, Zenon DEF FreshSlot

(* What the contents of an object in a state are after s has written those *)
(* of the objects in M, and some states have dropped some of theirs.       *)
Contents(s, M, os, r, mo) ==
    IF r = s /\ mo \in M THEN [os[mo] EXCEPT !.copyOnWriteOwner = cowKey[s]]
    ELSE FindObject(r, mo)

(* s has a slot for its contents of mo that no other state refers to: the  *)
(* one it owns, or a fresh one.                                            *)
LEMMA SlotForIsOwn ==
    ASSUME MemoryTypeOK, DeadStatesAreUnbound, OwnedContentsAreNotShared,
           NEW s \in live, NEW mo \in MemoryObjects
    PROVE  /\ SlotFor(s, mo) \in Slots
           /\ \A r \in States \ {s} : objects[r][mo] # SlotFor(s, mo)
<1> s \in States
    BY DEF MemoryTypeOK
<1>1. CASE Bound(s, mo) /\ Owns(s, mo)
    <2>1. SlotFor(s, mo) = objects[s][mo]
        BY <1>1 DEF SlotFor
    <2>2. \A r \in live \ {s} : objects[r][mo] # objects[s][mo]
        BY <1>1 DEF OwnedContentsAreNotShared
    <2>3. \A r \in States \ live : objects[r][mo] = NoSlot
        BY DEF DeadStatesAreUnbound, Bound
    <2>4. objects[s][mo] \in Slots /\ objects[s][mo] # NoSlot
        BY <1>1 DEF Bound, MemoryTypeOK
    <2> QED
        BY <2>1, <2>2, <2>3, <2>4
<1>2. CASE ~(Bound(s, mo) /\ Owns(s, mo))
    BY <1>2, FreshSlotExists DEF SlotFor
<1> QED
    BY <1>1, <1>2

(* What a state reads after some of its objects were written, in place     *)
(* or in a copy: what was written, and what others read does not change.   *)
LEMMA RebindContents ==
    ASSUME MemoryTypeOK, DeadStatesAreUnbound, OwnedContentsAreNotShared,
           NEW s \in live, NEW M \in SUBSET MemoryObjects, NEW os,
           \A mo \in M : os[mo] \in ObjectStates,
           NEW bound \in [States -> [MemoryObjects -> Slots \cup {NoSlot}]],
           \A r \in States, mo \in MemoryObjects : bound[r][mo] \in {BoundBy(s, M)[r][mo], NoSlot},
           NEW h, h = Collect(Written(s, M, os), bound)
    PROVE  /\ h \in [MemoryObjects -> [Slots -> ObjectStates]]
           /\ \A r \in States, mo \in MemoryObjects : bound[r][mo] # NoSlot =>
                 /\ h[mo][bound[r][mo]] = Contents(s, M, os, r, mo)
                 /\ (r = s /\ mo \in M) \/ bound[r][mo] = objects[r][mo]
                 /\ \A q \in States \ {r} : 
                       bound[q][mo] = bound[r][mo] => 
                           /\ ~(r = s /\ mo \in M) /\ ~(q = s /\ mo \in M)
                           /\ bound[q][mo] = objects[q][mo]
<1>1. /\ s \in States /\ cowKey[s] \in Nat
      /\ objects \in [States -> [MemoryObjects -> Slots \cup {NoSlot}]]
      /\ heap \in [MemoryObjects -> [Slots -> ObjectStates]]
    BY DEF MemoryTypeOK
<1>2. \A mo \in MemoryObjects : 
          /\ SlotFor(s, mo) \in Slots
          /\ \A r \in States \ {s} : objects[r][mo] # SlotFor(s, mo)
    BY SlotForIsOwn
<1>3. \A r \in States, mo \in MemoryObjects : 
          BoundBy(s, M)[r][mo] = IF r = s /\ mo \in M THEN SlotFor(s, mo) ELSE objects[r][mo]
    BY <1>1 DEF BoundBy
<1> DEFINE new(mo) == [os[mo] EXCEPT !.copyOnWriteOwner = cowKey[s]]
<1>4. \A mo \in M : new(mo) \in ObjectStates
    BY <1>1, OwnerChangeType
<1>5. \A mo \in MemoryObjects, i \in Slots : 
          Written(s, M, os)[mo][i] = IF mo \in M /\ i = SlotFor(s, mo) THEN new(mo) ELSE heap[mo][i]
    BY <1>1 DEF Written
<1> HIDE DEF new
<1>6. \A mo \in MemoryObjects, i \in Slots : Written(s, M, os)[mo][i] \in ObjectStates
    BY <1>1, <1>4, <1>5
<1>7. \A mo \in MemoryObjects, i \in Slots : 
          h[mo][i] = IF \E r \in States : bound[r][mo] = i THEN Written(s, M, os)[mo][i]
                     ELSE NewObjectState(0)
    BY DEF Collect
<1>8. h \in [MemoryObjects -> [Slots -> ObjectStates]]
    <2>1. NewObjectState(0) \in ObjectStates
        BY NewObjectStateValid, ObjectStateAssumption DEF ValidContents
    <2> QED
        BY <1>6, <2>1 DEF Collect
<1> SUFFICES ASSUME NEW r \in States, NEW mo \in MemoryObjects, bound[r][mo] # NoSlot
             PROVE  /\ h[mo][bound[r][mo]] = Contents(s, M, os, r, mo)
                    /\ (r = s /\ mo \in M) \/ bound[r][mo] = objects[r][mo]
                    /\ \A q \in States \ {r} : 
                          bound[q][mo] = bound[r][mo] => 
                              /\ ~(r = s /\ mo \in M) /\ ~(q = s /\ mo \in M)
                              /\ bound[q][mo] = objects[q][mo]
    BY <1>8
<1>9. bound[r][mo] \in Slots
    OBVIOUS
<1>10. h[mo][bound[r][mo]] = Written(s, M, os)[mo][bound[r][mo]]
    BY <1>7, <1>9
<1>11. bound[r][mo] = BoundBy(s, M)[r][mo]
    OBVIOUS
<1>12. h[mo][bound[r][mo]] = Contents(s, M, os, r, mo)
    <2>1. CASE r = s /\ mo \in M
        <3>1. bound[r][mo] = SlotFor(s, mo)
            BY <1>3, <1>11, <2>1
        <3> QED
            BY <1>5, <1>9, <1>10, <2>1, <3>1 DEF Contents, new
    <2>2. CASE ~(r = s /\ mo \in M)
        <3>1. bound[r][mo] = objects[r][mo]
            BY <1>3, <1>11, <2>2
        <3>2. ~(mo \in M /\ bound[r][mo] = SlotFor(s, mo))
            BY <1>2, <2>2, <3>1
        <3>3. Written(s, M, os)[mo][bound[r][mo]] = heap[mo][bound[r][mo]]
            BY <1>5, <1>9, <3>2
        <3> QED
            BY <1>10, <2>2, <3>1, <3>3 DEF Contents, FindObject
    <2> QED
        BY <2>1, <2>2
<1>13. ASSUME NEW q \in States \ {r}, bound[q][mo] = bound[r][mo]
       PROVE  /\ ~(r = s /\ mo \in M) /\ ~(q = s /\ mo \in M)
              /\ bound[q][mo] = objects[q][mo]
    <2>1. bound[q][mo] = BoundBy(s, M)[q][mo]
        BY <1>13
    <2>2. q \in States /\ q # r
        OBVIOUS
    <2>3. /\ bound[r][mo] = IF r = s /\ mo \in M THEN SlotFor(s, mo) ELSE objects[r][mo]
          /\ bound[q][mo] = IF q = s /\ mo \in M THEN SlotFor(s, mo) ELSE objects[q][mo]
        BY <1>3, <1>11, <2>1, <2>2
    <2>4. \A p \in States \ {s} : objects[p][mo] # SlotFor(s, mo)
        BY <1>2
    <2> QED
        BY <1>13, <2>2, <2>3, <2>4
<1> QED
    BY <1>3, <1>11, <1>12, <1>13

(* States that write in place what they own, and elsewhere what they do    *)
(* not, leave every part of the invariant about contents as it was, also   *)
(* when states end.                                                        *)
LEMMA RebindKeeps ==
    ASSUME MemoryTypeOK, DeadStatesAreUnbound, OwnedContentsAreNotShared, CachesAreValid,
           NEW s \in live, NEW M \in SUBSET MemoryObjects, NEW os,
           \A mo \in M : os[mo] \in ValidContents,
           objects' \in [States -> [MemoryObjects -> Slots \cup {NoSlot}]],
           \A r \in States, mo \in MemoryObjects : objects'[r][mo] \in {BoundBy(s, M)[r][mo], NoSlot},
           heap' = Collect(Written(s, M, os), objects'),
           live' \subseteq live, \A r \in live' : cowKey'[r] = cowKey[r],
           \A r \in live \ live', mo \in MemoryObjects : objects'[r][mo] = NoSlot
    PROVE  /\ heap' \in [MemoryObjects -> [Slots -> ObjectStates]]
           /\ DeadStatesAreUnbound'
           /\ OwnedContentsAreNotShared'
           /\ CachesAreValid'
<1>1. \A mo \in M : os[mo] \in ObjectStates
    BY DEF ValidContents
<1>2. /\ heap' \in [MemoryObjects -> [Slots -> ObjectStates]]
      /\ \A r \in States, mo \in MemoryObjects : objects'[r][mo] # NoSlot =>
            /\ heap'[mo][objects'[r][mo]] = Contents(s, M, os, r, mo)
            /\ (r = s /\ mo \in M) \/ objects'[r][mo] = objects[r][mo]
            /\ \A q \in States \ {r} : 
                  objects'[q][mo] = objects'[r][mo] => 
                      /\ ~(r = s /\ mo \in M) /\ ~(q = s /\ mo \in M)
                      /\ objects'[q][mo] = objects[q][mo]
    BY <1>1, RebindContents
<1>3. s \in States /\ live \subseteq States /\ cowKey \in [States -> Nat]
    BY DEF MemoryTypeOK
<1>4. DeadStatesAreUnbound'
    <2> SUFFICES ASSUME NEW r \in States \ live', NEW mo \in MemoryObjects
                 PROVE  objects'[r][mo] = NoSlot
        BY DEF DeadStatesAreUnbound, Bound
    <2>1. CASE r \in live
        BY <2>1
    <2>2. CASE r \notin live
        <3>1. objects[r][mo] = NoSlot /\ r # s
            BY <2>2 DEF DeadStatesAreUnbound, Bound
        <3> QED
            BY <1>2, <3>1
    <2> QED
        BY <2>1, <2>2
<1>5. ASSUME NEW r \in live', NEW mo \in MemoryObjects, objects'[r][mo] # NoSlot
      PROVE  /\ heap'[mo][objects'[r][mo]].copyOnWriteOwner <= cowKey'[r]
             /\ CacheInvariants(heap'[mo][objects'[r][mo]])
             /\ \A t \in live' \ {r} : objects'[r][mo] = objects'[t][mo] =>
                   cowKey'[r] # heap'[mo][objects'[r][mo]].copyOnWriteOwner
    <2>1. r \in live /\ r \in States /\ cowKey'[r] = cowKey[r]
        BY <1>3
    <2>2. heap'[mo][objects'[r][mo]] = Contents(s, M, os, r, mo)
        BY <1>2, <1>5, <2>1
    <2>3. CASE r = s /\ mo \in M
        <3>1. heap'[mo][objects'[r][mo]] = [os[mo] EXCEPT !.copyOnWriteOwner = cowKey[s]]
            BY <2>2, <2>3 DEF Contents
        <3>2. heap'[mo][objects'[r][mo]] \in ValidContents
            BY <1>3, <2>3, <3>1, OwnerChangeValid
        <3>3. heap'[mo][objects'[r][mo]].copyOnWriteOwner = cowKey[s]
            BY <1>1, <2>3, <3>1 DEF ObjectStates
        <3>4. \A t \in live' \ {r} : objects'[r][mo] # objects'[t][mo]
            BY <1>2, <1>3, <1>5, <2>1, <2>3
        <3> QED
            BY <1>3, <2>1, <2>3, <3>2, <3>3, <3>4 DEF ValidContents
    <2>4. CASE ~(r = s /\ mo \in M)
        <3>1. objects'[r][mo] = objects[r][mo] /\ heap'[mo][objects'[r][mo]] = FindObject(r, mo)
            BY <1>2, <1>5, <2>1, <2>2, <2>4 DEF Contents
        <3>2. Bound(r, mo)
            BY <1>5, <3>1 DEF Bound
        <3>3. \A t \in live' \ {r} : objects'[r][mo] = objects'[t][mo] => objects[r][mo] = objects[t][mo]
            BY <1>2, <1>3, <1>5, <2>1, <3>1
        <3>4. \A t \in live' \ {r} : objects'[r][mo] = objects'[t][mo] => ~Owns(r, mo)
            BY <2>1, <3>2, <3>3 DEF OwnedContentsAreNotShared
        <3> QED
            BY <2>1, <3>1, <3>2, <3>4 DEF OwnedContentsAreNotShared, CachesAreValid, Owns
    <2> QED
        BY <2>3, <2>4
<1>6. OwnedContentsAreNotShared' /\ CachesAreValid'
    BY <1>5 DEF OwnedContentsAreNotShared, CachesAreValid, Bound, FindObject, Owns
<1> QED
    BY <1>2, <1>4, <1>6

(* A write that binds contents to one state only. *)
LEMMA RebindStep ==
    ASSUME MemoryTypeOK, DeadStatesAreUnbound, OwnedContentsAreNotShared, CachesAreValid,
           NEW s \in live, NEW M \in SUBSET MemoryObjects, NEW os,
           \A mo \in M : os[mo] \in ValidContents,
           Rebind(s, M, os), UNCHANGED <<live, cowKey>>
    PROVE  /\ objects' \in [States -> [MemoryObjects -> Slots \cup {NoSlot}]]
           /\ heap' \in [MemoryObjects -> [Slots -> ObjectStates]]
           /\ DeadStatesAreUnbound'
           /\ OwnedContentsAreNotShared'
           /\ CachesAreValid'
<1>1. \A mo \in MemoryObjects : SlotFor(s, mo) \in Slots
    BY SlotForIsOwn
<1>2. objects' \in [States -> [MemoryObjects -> Slots \cup {NoSlot}]]
    BY <1>1 DEF Rebind, BoundBy, MemoryTypeOK
<1>3. heap' = Collect(Written(s, M, os), objects')
    BY DEF Rebind
<1>4. \A r \in States, mo \in MemoryObjects : objects'[r][mo] \in {BoundBy(s, M)[r][mo], NoSlot}
    BY DEF Rebind
<1> QED
    BY <1>2, <1>3, <1>4, RebindKeeps

(* Contents that are dropped, by a state that goes on or that ends. *)
LEMMA UnbindStep ==
    ASSUME MemoryTypeOK, DeadStatesAreUnbound, OwnedContentsAreNotShared, CachesAreValid,
           NEW s \in live, NEW M \in SUBSET MemoryObjects,
           Unbind(s, M),
           live' \subseteq live, \A r \in live' : cowKey'[r] = cowKey[r],
           live \ live' \subseteq {s}, s \notin live' => M = MemoryObjects
    PROVE  /\ objects' \in [States -> [MemoryObjects -> Slots \cup {NoSlot}]]
           /\ heap' \in [MemoryObjects -> [Slots -> ObjectStates]]
           /\ DeadStatesAreUnbound'
           /\ OwnedContentsAreNotShared'
           /\ CachesAreValid'
           /\ \A r \in States, mo \in MemoryObjects : objects'[r][mo] = IF r = s /\ mo \in M THEN NoSlot ELSE objects[r][mo]
<1>1. /\ s \in States
      /\ objects \in [States -> [MemoryObjects -> Slots \cup {NoSlot}]]
      /\ heap \in [MemoryObjects -> [Slots -> ObjectStates]]
    BY DEF MemoryTypeOK
<1>2. /\ objects' = [objects EXCEPT ![s] = [mo \in MemoryObjects |-> IF mo \in M THEN NoSlot ELSE @[mo]]]
      /\ heap' = Collect(heap, objects')
    BY DEF Unbind
<1>3. \A r \in States, mo \in MemoryObjects : objects'[r][mo] = IF r = s /\ mo \in M THEN NoSlot ELSE objects[r][mo]
    BY <1>1, <1>2
<1>4. objects' \in [States -> [MemoryObjects -> Slots \cup {NoSlot}]]
    BY <1>1, <1>2
<1>5. \A r \in States, mo \in MemoryObjects : BoundBy(s, {})[r][mo] = objects[r][mo]
    BY <1>1 DEF BoundBy
<1>6. Written(s, {}, heap) = heap
    BY <1>1 DEF Written
<1>7. \A r \in States, mo \in MemoryObjects : objects'[r][mo] \in {BoundBy(s, {})[r][mo], NoSlot}
    BY <1>3, <1>5
<1>8. heap' = Collect(Written(s, {}, heap), objects')
    BY <1>2, <1>6
<1>9. \A r \in live \ live', mo \in MemoryObjects : objects'[r][mo] = NoSlot
    BY <1>1, <1>3
<1> QED
    BY <1>3, <1>4, <1>7, <1>8, <1>9, RebindKeeps

-----------------------------------------------------------------------------
(***************************************************************************)
(* The invariant.                                                          *)
(***************************************************************************)
(* The fields of an instruction have their types. *)
LEMMA InstructionFields ==
    ASSUME NEW i \in Instructions
    PROVE  /\ i.op \in {"load", "store", "set", "alloc", "free", "symbolic", "external"}
           /\ i.op # "set" => i.mo \in MemoryObjects
           /\ i.op \in {"load", "store"} => i.index \in [Inputs -> Offsets]
           /\ i.op = "external" => i.index \in ConstantIndices
           /\ i.op \in {"set", "alloc", "external"} => i.value \in Bytes
           /\ i.op \in {"alloc", "free", "symbolic"} => i.mo \notin ReadOnlyObjects
BY AddressSpaceAssumption DEF Instructions, ConstantIndices

(* A constant index has one offset. *)
LEMMA OffsetOfType == \A i \in ConstantIndices : OffsetOf(i) \in Offsets /\ i = [x \in Inputs |-> OffsetOf(i)]
<1> SUFFICES ASSUME NEW i \in ConstantIndices PROVE OffsetOf(i) \in Offsets /\ i = [x \in Inputs |-> OffsetOf(i)]
    OBVIOUS
<1>1. \E o \in Offsets : i = [x \in Inputs |-> o]
    BY DEF ConstantIndices
<1> QED
    BY <1>1, Zenon DEF OffsetOf

(* What is known of an instruction that is executed. *)
LEMMA ExecutingFacts ==
    ASSUME MemoryInv, NEW op, Executing(op)
    PROVE  /\ current \in live /\ current \in States
           /\ instruction \in Instructions /\ instruction.op = op /\ Uses(instruction)
           /\ op \in {"load", "store", "free", "symbolic", "external"} => 
                 /\ Bound(current, instruction.mo)
                 /\ FindObject(current, instruction.mo) \in ValidContents
                 /\ instruction.mo \in MemoryObjects
           /\ registers[current] \in Expr
<1>1. /\ current \in live /\ current \in States /\ registers[current] \in Expr
      /\ objects \in [States -> [MemoryObjects -> Slots \cup {NoSlot}]]
      /\ heap \in [MemoryObjects -> [Slots -> ObjectStates]]
    BY DEF Executing, MemoryInv, MemoryTypeOK
<1>2. /\ instruction \in Instructions /\ Uses(instruction) /\ instruction.op = op
      /\ op \in {"load", "store", "free", "symbolic", "external"} => Bound(current, instruction.mo)
    BY DEF Executing, MemoryInv, InstructionFits
<1>3. ASSUME op \in {"load", "store", "free", "symbolic", "external"}
      PROVE  /\ FindObject(current, instruction.mo) \in ValidContents
             /\ instruction.mo \in MemoryObjects
    <2>1. instruction.mo \in MemoryObjects
        BY <1>2, <1>3, InstructionFields
    <2>2. CacheInvariants(FindObject(current, instruction.mo))
        BY <1>1, <1>2, <1>3, <2>1 DEF MemoryInv, CachesAreValid
    <2>3. FindObject(current, instruction.mo) \in ObjectStates
        BY <1>1, <1>2, <1>3, <2>1 DEF FindObject, Bound
    <2> QED
        BY <2>1, <2>2, <2>3 DEF ValidContents
<1> QED
    BY <1>1, <1>2, <1>3

(* The invariant speaks of the contents, and of the other variables only   *)
(* through their types and the instruction that is executed.               *)
LEMMA MemoryInvByParts ==
    ASSUME live' \subseteq States, current' \in live' \cup {Idle},
           instruction' \in Instructions \cup {NoInstruction},
           pathInputs' \in [States -> SUBSET Inputs],
           registers' \in [States -> Expr],
           symbolics' \in [States -> SUBSET MemoryObjects],
           cowKey' \in [States -> Nat],
           objects' \in [States -> [MemoryObjects -> Slots \cup {NoSlot}]],
           heap' \in [MemoryObjects -> [Slots -> ObjectStates]],
           current' = Idle \/ InstructionFits',
           DeadStatesAreUnbound', OwnedContentsAreNotShared', CachesAreValid'
    PROVE  MemoryInv'
BY DEF MemoryInv, MemoryTypeOK, InstructionFits

(* The program starts with one state, which owns the globals. *)
LEMMA MemoryInvInit == Init => MemoryInv
<1> SUFFICES ASSUME Init PROVE MemoryInv
    OBVIOUS
<1> DEFINE global(mo) == [NewObjectState(0) EXCEPT !.copyOnWriteOwner = 1,
                                                   !.readOnly = mo \in ReadOnlyObjects]
<1>1. 1 \in States /\ 1 \in Slots
    BY AddressSpaceAssumption DEF States, Slots
<1>2. NewObjectState(0) \in ValidContents
    BY NewObjectStateValid, ObjectStateAssumption
<1>3. \A mo \in MemoryObjects : global(mo) \in ValidContents /\ global(mo).copyOnWriteOwner = 1
    <2>1. \A b \in BOOLEAN, os \in ValidContents :
             /\ [os EXCEPT !.copyOnWriteOwner = 1, !.readOnly = b] \in ValidContents
             /\ [os EXCEPT !.copyOnWriteOwner = 1, !.readOnly = b].copyOnWriteOwner = 1
        BY DEF ValidContents, ObjectStates, CacheInvariants, IsByteKnownSymbolic, IsByteConcrete,
               IsByteFlushed
    <2>2. \A mo \in MemoryObjects : (mo \in ReadOnlyObjects) \in BOOLEAN
        OBVIOUS
    <2> QED
        BY <1>2, <2>1, <2>2, Zenon
<1>4. \A mo \in MemoryObjects, i \in Slots : 
          heap[mo][i] = IF i = 1 /\ mo \in InitialObjects THEN global(mo) ELSE NewObjectState(0)
    BY DEF Init
<1>5. heap \in [MemoryObjects -> [Slots -> ObjectStates]]
    <2> HIDE DEF global
    <2>1. heap = [mo \in MemoryObjects |-> [i \in Slots |->
                     IF i = 1 /\ mo \in InitialObjects THEN global(mo) ELSE NewObjectState(0)]]
        BY DEF Init, global
    <2> QED
        BY <1>2, <1>3, <2>1 DEF ValidContents
<1>6. \A s \in States, mo \in MemoryObjects : Bound(s, mo) => 
          /\ s = 1 
          /\ FindObject(s, mo) = global(mo)
    <2> SUFFICES ASSUME NEW s \in States, NEW mo \in MemoryObjects, objects[s][mo] # NoSlot
                 PROVE  s = 1 /\ heap[mo][objects[s][mo]] = global(mo)
        BY Zenon DEF Bound, FindObject
    <2>1. objects[s][mo] = IF s = 1 /\ mo \in InitialObjects THEN 1 ELSE NoSlot
        BY DEF Init
    <2> HIDE DEF global
    <2> QED
        BY <1>1, <1>4, <2>1
<1>7. objects \in [States -> [MemoryObjects -> Slots \cup {NoSlot}]]
    BY <1>1 DEF Init
<1>8. /\ live = {1} /\ cowKey \in [States -> Nat] /\ cowKey[1] = 1
      /\ pathInputs \in [States -> SUBSET Inputs] /\ registers \in [States -> Expr]
      /\ symbolics \in [States -> SUBSET MemoryObjects]
      /\ current = Idle /\ instruction = NoInstruction
    BY <1>1, ConstantType, ObjectStateAssumption DEF Init
<1>9. MemoryTypeOK
    BY <1>1, <1>5, <1>7, <1>8 DEF MemoryTypeOK
<1>10. DeadStatesAreUnbound /\ InstructionFits
    BY <1>6, <1>8 DEF DeadStatesAreUnbound, InstructionFits
<1>11. OwnedContentsAreNotShared /\ CachesAreValid
    <2> HIDE DEF global
    <2> QED BY <1>1, <1>3, <1>6, <1>8 DEF OwnedContentsAreNotShared, CachesAreValid, ValidContents
<1> QED
    BY <1>9, <1>10, <1>11 DEF MemoryInv

(* The contents that a store, an external call, an allocation or           *)
(* klee_make_symbolic binds are valid.                                     *)
LEMMA StoredContentsValid ==
    ASSUME MemoryInv, Executing("store")
    PROVE  (IF IsConstantIndex(instruction.index)
            THEN Write8(FindObject(current, instruction.mo), OffsetOf(instruction.index), registers[current])
            ELSE Write8At(FindObject(current, instruction.mo), instruction.index, registers[current]))
           \in ValidContents
<1>1. /\ FindObject(current, instruction.mo) \in ValidContents /\ registers[current] \in Expr
      /\ instruction \in Instructions /\ instruction.op = "store"
    BY ExecutingFacts
<1>2. instruction.index \in [Inputs -> Offsets]
    BY <1>1, InstructionFields
<1>3. CASE IsConstantIndex(instruction.index)
    BY <1>1, <1>3, OffsetOfType, Write8Valid DEF IsConstantIndex
<1>4. CASE ~IsConstantIndex(instruction.index)
    BY <1>1, <1>2, <1>4, Write8AtValid
<1> QED
    BY <1>3, <1>4

(* What an external function writes leaves the caches valid. *)
LEMMA ExternalWriteValid ==
    ASSUME MemoryInv, Executing("external")
    PROVE  ExternalWrite(FindObject(current, instruction.mo)) \in ValidContents
<1>1. /\ FindObject(current, instruction.mo) \in ValidContents
      /\ instruction \in Instructions /\ instruction.op = "external"
    BY ExecutingFacts
<1>2. instruction.index \in ConstantIndices /\ instruction.value \in Bytes
    BY <1>1, InstructionFields
<1> QED
    BY <1>1, <1>2, OffsetOfType, StoreChangeValid DEF ExternalWrite

(* A state that ends takes its own references with it only. *)
LEMMA TerminateKeeps ==
    ASSUME MemoryInv, current \in live, Terminate PROVE MemoryInv'
<1>1. /\ current \in States /\ live \subseteq States
      /\ instruction' \in Instructions \cup {NoInstruction}
      /\ pathInputs' \in [States -> SUBSET Inputs] /\ registers' \in [States -> Expr]
      /\ symbolics' \in [States -> SUBSET MemoryObjects] /\ cowKey' \in [States -> Nat]
    BY ConstantType, ObjectStateAssumption DEF MemoryInv, MemoryTypeOK, Terminate
<1>2. /\ live' = live \ {current} /\ Unbind(current, MemoryObjects) /\ current' = Idle
      /\ \A r \in live' : cowKey'[r] = cowKey[r]
    BY <1>1 DEF Terminate, MemoryInv, MemoryTypeOK
<1>3. /\ objects' \in [States -> [MemoryObjects -> Slots \cup {NoSlot}]]
      /\ heap' \in [MemoryObjects -> [Slots -> ObjectStates]]
      /\ DeadStatesAreUnbound' /\ OwnedContentsAreNotShared' /\ CachesAreValid'
    BY <1>1, <1>2, UnbindStep DEF MemoryInv
<1> QED
    BY <1>1, <1>2, <1>3, MemoryInvByParts

(* Contents are the same when nothing about references changes. *)
LEMMA ContentsUnchanged ==
    ASSUME MemoryInv, UNCHANGED <<live, objects, heap, cowKey>>
    PROVE  /\ objects' \in [States -> [MemoryObjects -> Slots \cup {NoSlot}]]
           /\ heap' \in [MemoryObjects -> [Slots -> ObjectStates]]
           /\ DeadStatesAreUnbound' /\ OwnedContentsAreNotShared' /\ CachesAreValid'
BY DEF MemoryInv, MemoryTypeOK, DeadStatesAreUnbound, OwnedContentsAreNotShared, CachesAreValid,
       Bound, FindObject, Owns

(* The types of what an executed instruction leaves alone. *)
LEMMA DoneTypes ==
    ASSUME MemoryInv, Done, UNCHANGED live
    PROVE  /\ live' \subseteq States /\ current' \in live' \cup {Idle} /\ current' = Idle
           /\ instruction' \in Instructions \cup {NoInstruction}
           /\ pathInputs' \in [States -> SUBSET Inputs]
           /\ cowKey' \in [States -> Nat] /\ cowKey' = cowKey
BY DEF MemoryInv, MemoryTypeOK, Done

(* One object's contents are rebound to valid contents. *)
LEMMA RebindOneKeeps ==
    ASSUME MemoryInv, current \in live, NEW mo \in MemoryObjects, NEW c \in ValidContents,
           Rebind(current, {mo}, [m \in {mo} |-> c]),
           Done, UNCHANGED <<live, registers>>,
           symbolics' \in [States -> SUBSET MemoryObjects]
    PROVE  MemoryInv'
<1> DEFINE os == [m \in {mo} |-> c]
<1>1. \A m \in {mo} : os[m] \in ValidContents
    OBVIOUS
<1>2. Rebind(current, {mo}, os) /\ UNCHANGED <<live, cowKey>>
    BY DEF Done
<1> HIDE DEF os
<1>3. /\ objects' \in [States -> [MemoryObjects -> Slots \cup {NoSlot}]]
      /\ heap' \in [MemoryObjects -> [Slots -> ObjectStates]]
      /\ DeadStatesAreUnbound' /\ OwnedContentsAreNotShared' /\ CachesAreValid'
    <2>1. {mo} \in SUBSET MemoryObjects
        OBVIOUS
    <2> QED
        BY <1>1, <1>2, <2>1, RebindStep DEF MemoryInv
<1>4. registers' \in [States -> Expr]
    BY DEF MemoryInv, MemoryTypeOK
<1> QED
    BY <1>3, <1>4, DoneTypes, MemoryInvByParts

(* A read by a symbolic offset changes contents that others may share, but *)
(* neither their owner nor the validity of their caches.                   *)
LEMMA LoadAtSymbolicKeeps == ASSUME MemoryInv, LoadAtSymbolic PROVE MemoryInv'
<1> DEFINE mo == instruction.mo
           slot == objects[current][mo]
           os == FlushRangeForRead(FindObject(current, mo))
<1>1. /\ current \in live /\ current \in States /\ mo \in MemoryObjects
      /\ Bound(current, mo) /\ FindObject(current, mo) \in ValidContents
      /\ instruction \in Instructions /\ instruction.op = "load"
    BY ExecutingFacts DEF LoadAtSymbolic
<1>2. /\ objects \in [States -> [MemoryObjects -> Slots \cup {NoSlot}]]
      /\ heap \in [MemoryObjects -> [Slots -> ObjectStates]]
    BY DEF MemoryInv, MemoryTypeOK
<1>3. slot \in Slots
    BY <1>1, <1>2 DEF Bound
<1>4. os \in ValidContents /\ os.copyOnWriteOwner = heap[mo][slot].copyOnWriteOwner
    BY <1>1, FlushRangeForReadValid DEF FlushRangeForRead, FindObject, ValidContents, ObjectStates
<1>5. /\ heap' = [heap EXCEPT ![mo][slot] = os]
      /\ registers' = [registers EXCEPT ![current] = Read8At(os, instruction.index)]
      /\ Done /\ UNCHANGED <<live, symbolics, objects>>
    BY DEF LoadAtSymbolic
<1>6. Read8At(os, instruction.index) \in Expr
    <2>1. instruction.index \in [Inputs -> Offsets]
        BY <1>1, InstructionFields
    <2>2. os.updates \in [Inputs -> [Offsets -> Bytes]]
        BY <1>4 DEF ValidContents, ObjectStates
    <2> HIDE DEF os
    <2> QED
        BY <2>1, <2>2 DEF Read8At, Expr
<1> HIDE DEF mo, slot, os
<1>7. \A m \in MemoryObjects, i \in Slots : heap'[m][i] = IF m = mo /\ i = slot THEN os ELSE heap[m][i]
    BY <1>1, <1>2, <1>3, <1>5
<1>8. heap' \in [MemoryObjects -> [Slots -> ObjectStates]]
    BY <1>1, <1>2, <1>3, <1>4, <1>5 DEF ValidContents
<1>9. registers' \in [States -> Expr] /\ symbolics' \in [States -> SUBSET MemoryObjects]
      /\ objects' \in [States -> [MemoryObjects -> Slots \cup {NoSlot}]]
    BY <1>5, <1>6 DEF MemoryInv, MemoryTypeOK
<1>10. \A s \in States, m \in MemoryObjects : Bound(s, m) =>
           /\ heap'[m][objects'[s][m]].copyOnWriteOwner = FindObject(s, m).copyOnWriteOwner
           /\ CacheInvariants(FindObject(s, m)) => CacheInvariants(heap'[m][objects'[s][m]])
    <2> SUFFICES ASSUME NEW s \in States, NEW m \in MemoryObjects, Bound(s, m)
                 PROVE  /\ heap'[m][objects[s][m]].copyOnWriteOwner = heap[m][objects[s][m]].copyOnWriteOwner
                        /\ CacheInvariants(heap[m][objects[s][m]]) => CacheInvariants(heap'[m][objects[s][m]])
        BY <1>5 DEF FindObject
    <2>1. objects[s][m] \in Slots
        BY <1>2 DEF Bound
    <2> QED
        BY <1>4, <1>7, <2>1 DEF ValidContents
<1>11. live \subseteq States
    BY DEF MemoryInv, MemoryTypeOK
<1>12. \A s \in live, m \in MemoryObjects : objects'[s][m] # NoSlot => Bound(s, m)
    BY <1>5 DEF Bound
<1>13. UNCHANGED <<live, objects, cowKey>>
    BY <1>5 DEF Done
<1>14. DeadStatesAreUnbound'
    BY <1>13 DEF MemoryInv, DeadStatesAreUnbound, Bound
<1>15. OwnedContentsAreNotShared'
    <2> SUFFICES ASSUME NEW s \in live, NEW m \in MemoryObjects, Bound(s, m)
                 PROVE  /\ heap'[m][objects'[s][m]].copyOnWriteOwner <= cowKey[s]
                        /\ \A t \in live \ {s} : objects[s][m] = objects[t][m] =>
                              cowKey[s] # heap'[m][objects'[s][m]].copyOnWriteOwner
        BY <1>12, <1>13 DEF OwnedContentsAreNotShared, FindObject, Owns, Bound
    <2> QED
        BY <1>10, <1>11 DEF MemoryInv, OwnedContentsAreNotShared, Owns
<1>16. CachesAreValid'
    <2> SUFFICES ASSUME NEW s \in live, NEW m \in MemoryObjects, Bound(s, m)
                 PROVE  CacheInvariants(heap'[m][objects'[s][m]])
        BY <1>12, <1>13 DEF CachesAreValid, FindObject, Bound
    <2> QED
        BY <1>10, <1>11 DEF MemoryInv, CachesAreValid
<1> QED
    BY <1>5, <1>8, <1>9, <1>14, <1>15, <1>16, DoneTypes, MemoryInvByParts

(* ExecutionState::branch shares all contents.  Both sides get a key above *)
(* the owner of every one of them, so neither owns any until it writes.    *)
LEMMA ForkKeeps == ASSUME MemoryInv, Fork PROVE MemoryInv'
<1> PICK s \in live, A \in SUBSET Inputs, t \in States \ live :
        /\ live' = live \cup {t}
        /\ pathInputs' = [pathInputs EXCEPT ![s] = A, ![t] = pathInputs[s] \ A]
        /\ cowKey' = KeysAfterFork(s, t)
        /\ objects' = [objects EXCEPT ![t] = objects[s]]
        /\ registers' = [registers EXCEPT ![t] = registers[s]]
        /\ symbolics' = [symbolics EXCEPT ![t] = symbolics[s]]
    BY DEF Fork
<1>1. /\ live \subseteq States /\ s \in States /\ t # s
      /\ cowKey \in [States -> Nat]
      /\ objects \in [States -> [MemoryObjects -> Slots \cup {NoSlot}]]
      /\ pathInputs \in [States -> SUBSET Inputs]
      /\ registers \in [States -> Expr] /\ symbolics \in [States -> SUBSET MemoryObjects]
      /\ instruction \in Instructions \cup {NoInstruction}
      /\ heap \in [MemoryObjects -> [Slots -> ObjectStates]]
    BY DEF MemoryInv, MemoryTypeOK
<1>2. current' = Idle /\ UNCHANGED <<instruction, heap>>
    BY DEF Fork
<1>3. /\ live' \subseteq States /\ pathInputs' \in [States -> SUBSET Inputs]
      /\ registers' \in [States -> Expr] /\ symbolics' \in [States -> SUBSET MemoryObjects]
    BY <1>1
<1>4. cowKey' \in [States -> Nat]
    BY <1>1 DEF KeysAfterFork
<1>5. objects' \in [States -> [MemoryObjects -> Slots \cup {NoSlot}]]
    BY <1>1
<1>6. \A r \in States : objects'[r] = IF r = t THEN objects[s] ELSE objects[r]
    BY <1>1
<1>7. \A r \in States : cowKey'[r] = IF r \in {s, t} THEN cowKey[s] + 1 ELSE cowKey[r]
    BY <1>1 DEF KeysAfterFork
<1>8. DeadStatesAreUnbound'
    BY <1>1, <1>6 DEF MemoryInv, DeadStatesAreUnbound, Bound
<1>9. ASSUME NEW r \in live', NEW mo \in MemoryObjects, objects'[r][mo] # NoSlot
      PROVE  /\ heap[mo][objects'[r][mo]].copyOnWriteOwner <= cowKey'[r]
             /\ CacheInvariants(heap[mo][objects'[r][mo]])
             /\ \A q \in live' \ {r} : objects'[r][mo] = objects'[q][mo] =>
                   cowKey'[r] # heap[mo][objects'[r][mo]].copyOnWriteOwner
    <2> DEFINE p == IF r = t THEN s ELSE r
               owner == heap[mo][objects[p][mo]].copyOnWriteOwner
    <2>1. p \in live /\ p \in States /\ r \in States /\ objects'[r][mo] = objects[p][mo]
        BY <1>1, <1>6
    <2>2. Bound(p, mo)
        BY <1>9, <2>1 DEF Bound
    <2>3. /\ owner <= cowKey[p] /\ CacheInvariants(heap[mo][objects[p][mo]])
          /\ \A q \in live \ {p} : objects[p][mo] = objects[q][mo] => cowKey[p] # owner
        BY <2>1, <2>2 DEF MemoryInv, OwnedContentsAreNotShared, CachesAreValid, FindObject, Owns
    <2>4. owner \in Nat
        <3>1. objects[p][mo] \in Slots
            BY <1>1, <2>1, <2>2 DEF Bound
        <3> QED
            BY <1>1, <3>1 DEF ObjectStates
    <2>5. CASE p = s
        <3>1. cowKey'[r] = cowKey[s] + 1
            BY <1>7, <2>1, <2>5
        <3> HIDE DEF owner
        <3>2. owner < cowKey'[r]
            BY <1>1, <2>3, <2>4, <2>5, <3>1
        <3> QED
            BY <1>1, <2>1, <2>3, <2>4, <3>1, <3>2 DEF owner
    <2>6. CASE p # s
        <3>1. r = p /\ r # t /\ cowKey'[r] = cowKey[p]
            BY <1>1, <1>7, <2>1, <2>6
        <3>2. \A q \in live' \ {r} : objects'[r][mo] = objects'[q][mo] =>
                  \E q2 \in live \ {p} : objects[p][mo] = objects[q2][mo]
            BY <1>1, <1>6, <2>1, <2>6, <3>1
        <3> QED
            BY <2>1, <2>3, <3>1, <3>2
    <2> QED
        BY <2>5, <2>6
<1>10. OwnedContentsAreNotShared' /\ CachesAreValid'
    BY <1>2, <1>9 DEF OwnedContentsAreNotShared, CachesAreValid, Bound, FindObject, Owns
<1> QED
    BY <1>1, <1>2, <1>3, <1>4, <1>5, <1>8, <1>10, MemoryInvByParts

(* ExecutionState::merge writes the merged bytes as any store does, and    *)
(* the absorbed state ends.                                                *)
LEMMA MergeKeeps == ASSUME MemoryInv, Merge PROVE MemoryInv'
<1> DEFINE merged(s, t) == [mo \in Mutated(s, t) |->
                               MergeBytes(FindObject(s, mo), FindObject(t, mo), pathInputs[s])]
<1> PICK s \in live, t \in live :
        /\ s # t
        /\ \A mo \in MemoryObjects : Bound(s, mo) <=> Bound(t, mo)
        /\ objects' = [BoundBy(s, Mutated(s, t)) EXCEPT ![t] = [mo \in MemoryObjects |-> NoSlot]]
        /\ heap' = Collect(Written(s, Mutated(s, t), merged(s, t)),
                           [BoundBy(s, Mutated(s, t)) EXCEPT ![t] = [mo \in MemoryObjects |-> NoSlot]])
        /\ registers' = [registers EXCEPT
                            ![s] = SelectExpr(pathInputs[s], registers[s], registers[t]),
                            ![t] = Constant(0)]
        /\ pathInputs' = [pathInputs EXCEPT ![s] = @ \cup pathInputs[t], ![t] = {}]
        /\ live' = live \ {t}
        /\ cowKey' = [cowKey EXCEPT ![t] = 0]
        /\ symbolics' = [symbolics EXCEPT ![t] = {}]
    BY DEF Merge
<1> DEFINE M == Mutated(s, t)
           os == merged(s, t)
<1>1. /\ live \subseteq States /\ s \in States /\ t \in States
      /\ cowKey \in [States -> Nat]
      /\ objects \in [States -> [MemoryObjects -> Slots \cup {NoSlot}]]
      /\ pathInputs \in [States -> SUBSET Inputs]
      /\ registers \in [States -> Expr] /\ symbolics \in [States -> SUBSET MemoryObjects]
      /\ instruction \in Instructions \cup {NoInstruction}
      /\ heap \in [MemoryObjects -> [Slots -> ObjectStates]]
    BY DEF MemoryInv, MemoryTypeOK
<1>2. current' = Idle /\ UNCHANGED instruction
    BY DEF Merge
<1>3. /\ live' \subseteq States /\ pathInputs' \in [States -> SUBSET Inputs]
      /\ symbolics' \in [States -> SUBSET MemoryObjects] /\ cowKey' \in [States -> Nat]
    BY <1>1
<1>4. registers' \in [States -> Expr]
    <2>1. SelectExpr(pathInputs[s], registers[s], registers[t]) \in Expr
        BY <1>1, SelectExprType
    <2>2. Constant(0) \in Expr
        BY ConstantType, ObjectStateAssumption
    <2> QED
        BY <1>1, <2>1, <2>2
<1>5. M \in SUBSET MemoryObjects
    BY DEF Mutated
<1>6. \A mo \in M : os[mo] \in ValidContents
    <2> SUFFICES ASSUME NEW mo \in M
                 PROVE  MergeBytes(FindObject(s, mo), FindObject(t, mo), pathInputs[s]) \in ValidContents
        OBVIOUS
    <2>1. mo \in MemoryObjects /\ objects[s][mo] # objects[t][mo]
        BY DEF Mutated
    <2>2. Bound(s, mo) /\ Bound(t, mo)
        BY <2>1 DEF Bound
    <2>3. FindObject(s, mo) \in ObjectStates /\ FindObject(t, mo) \in ObjectStates
        BY <1>1, <2>1, <2>2 DEF Bound, FindObject
    <2>4. CacheInvariants(FindObject(s, mo)) /\ CacheInvariants(FindObject(t, mo))
        BY <2>1, <2>2 DEF MemoryInv, CachesAreValid
    <2> QED
        BY <2>3, <2>4, MergeBytesValid DEF ValidContents
<1> HIDE DEF M, os
<1>7. \A mo \in MemoryObjects : SlotFor(s, mo) \in Slots
    BY SlotForIsOwn DEF MemoryInv
<1>8. BoundBy(s, M) \in [States -> [MemoryObjects -> Slots \cup {NoSlot}]]
    BY <1>1, <1>7 DEF BoundBy
<1>9. objects' = [BoundBy(s, M) EXCEPT ![t] = [mo \in MemoryObjects |-> NoSlot]]
    BY DEF M
<1>10. /\ objects' \in [States -> [MemoryObjects -> Slots \cup {NoSlot}]]
       /\ \A r \in States, mo \in MemoryObjects : objects'[r][mo] \in {BoundBy(s, M)[r][mo], NoSlot}
       /\ \A r \in live \ live', mo \in MemoryObjects : objects'[r][mo] = NoSlot
    <2> DEFINE none == [mo \in MemoryObjects |-> NoSlot]
    <2>1. none \in [MemoryObjects -> Slots \cup {NoSlot}] /\ \A mo \in MemoryObjects : none[mo] = NoSlot
        OBVIOUS
    <2>2. objects' = [BoundBy(s, M) EXCEPT ![t] = none]
        BY <1>9
    <2> HIDE DEF none
    <2>3. \A r \in States : objects'[r] = IF r = t THEN none ELSE BoundBy(s, M)[r]
        BY <1>1, <1>8, <2>2
    <2>4. objects' \in [States -> [MemoryObjects -> Slots \cup {NoSlot}]]
        BY <1>1, <1>8, <2>1, <2>2
    <2>5. live \ live' \subseteq {t}
        OBVIOUS
    <2> QED
        BY <1>1, <2>1, <2>3, <2>4, <2>5
<1>11. heap' = Collect(Written(s, M, os), objects')
    BY DEF M, os
<1>12. live' \subseteq live /\ \A r \in live' : cowKey'[r] = cowKey[r]
    BY <1>1
<1>13. /\ heap' \in [MemoryObjects -> [Slots -> ObjectStates]]
       /\ DeadStatesAreUnbound' /\ OwnedContentsAreNotShared' /\ CachesAreValid'
    BY <1>5, <1>6, <1>10, <1>11, <1>12, RebindKeeps DEF MemoryInv
<1> QED
    BY <1>1, <1>2, <1>3, <1>4, <1>10, <1>13, MemoryInvByParts

(* Every step keeps the invariant. *)
LEMMA MemoryInvNext == ASSUME MemoryInv, [Next]_vars PROVE MemoryInv'
<1>1. CASE Select
    <2>1. /\ live' \subseteq States /\ current' \in live' \cup {Idle}
          /\ instruction' \in Instructions \cup {NoInstruction}
          /\ pathInputs' \in [States -> SUBSET Inputs] /\ registers' \in [States -> Expr]
          /\ symbolics' \in [States -> SUBSET MemoryObjects] /\ cowKey' \in [States -> Nat]
        BY <1>1 DEF Select, MemoryInv, MemoryTypeOK
    <2>2. InstructionFits'
        BY <1>1 DEF Select, InstructionFits, Uses, Bound
    <2>3. UNCHANGED <<live, objects, heap, cowKey>>
        BY <1>1 DEF Select
    <2> QED
        BY <2>1, <2>2, <2>3, ContentsUnchanged, MemoryInvByParts
<1>2. CASE Set
    <2>1. /\ current \in States /\ instruction \in Instructions /\ instruction.op = "set"
          /\ Done /\ UNCHANGED <<live, symbolics, objects, heap>>
          /\ registers' = [registers EXCEPT ![current] = Constant(instruction.value)]
        BY <1>2, ExecutingFacts DEF Set
    <2>2. Constant(instruction.value) \in Expr
        BY <2>1, InstructionFields, ConstantType
    <2>3. registers' \in [States -> Expr] /\ symbolics' \in [States -> SUBSET MemoryObjects]
        BY <2>1, <2>2 DEF MemoryInv, MemoryTypeOK
    <2>4. UNCHANGED <<live, objects, heap, cowKey>>
        BY <2>1 DEF Done
    <2> QED
        BY <2>1, <2>3, <2>4, ContentsUnchanged, DoneTypes, MemoryInvByParts
<1>3. CASE LoadAtConstant
    <2> DEFINE e == Read8(FindObject(current, instruction.mo), OffsetOf(instruction.index))
    <2>1. /\ current \in States /\ Done /\ UNCHANGED <<live, symbolics, objects, heap>>
          /\ FindObject(current, instruction.mo) \in ValidContents
          /\ IsConstantIndex(instruction.index)
          /\ registers' = [registers EXCEPT ![current] = e]
        BY <1>3, ExecutingFacts DEF LoadAtConstant
    <2>2. e \in Expr
        BY <2>1, OffsetOfType, Read8Type DEF IsConstantIndex, ValidContents
    <2> HIDE DEF e
    <2>3. registers' \in [States -> Expr] /\ symbolics' \in [States -> SUBSET MemoryObjects]
        BY <2>1, <2>2 DEF MemoryInv, MemoryTypeOK
    <2>4. UNCHANGED <<live, objects, heap, cowKey>>
        BY <2>1 DEF Done
    <2> QED
        BY <2>1, <2>3, <2>4, ContentsUnchanged, DoneTypes, MemoryInvByParts
<1>4. CASE LoadAtSymbolic
    BY <1>4, LoadAtSymbolicKeeps
<1>5. CASE Store
    <2> DEFINE c == IF IsConstantIndex(instruction.index)
                    THEN Write8(FindObject(current, instruction.mo), OffsetOf(instruction.index),
                                registers[current])
                    ELSE Write8At(FindObject(current, instruction.mo), instruction.index,
                                  registers[current])
    <2>1. c \in ValidContents
        BY <1>5, StoredContentsValid DEF Store
    <2>2. current \in live /\ instruction.mo \in MemoryObjects
        BY <1>5, ExecutingFacts DEF Store
    <2>3. Rebind(current, {instruction.mo}, [m \in {instruction.mo} |-> c])
        BY <1>5 DEF Store
    <2> HIDE DEF c
    <2>4. Done /\ UNCHANGED <<live, registers>> /\ symbolics' \in [States -> SUBSET MemoryObjects]
        BY <1>5 DEF Store, MemoryInv, MemoryTypeOK
    <2> QED
        BY <2>1, <2>2, <2>3, <2>4, RebindOneKeeps
<1>6. CASE StoreReadOnly
    BY <1>6, ExecutingFacts, TerminateKeeps DEF StoreReadOnly
<1>7. CASE Alloc
    <2>1. /\ current \in live /\ instruction \in Instructions /\ instruction.op = "alloc"
        BY <1>7, ExecutingFacts DEF Alloc
    <2>2. instruction.mo \in MemoryObjects /\ NewObjectState(instruction.value) \in ValidContents
        BY <2>1, InstructionFields, NewObjectStateValid
    <2>3. /\ Rebind(current, {instruction.mo}, [m \in {instruction.mo} |-> NewObjectState(instruction.value)])
          /\ Done /\ UNCHANGED <<live, registers>> /\ symbolics' \in [States -> SUBSET MemoryObjects]
        BY <1>7 DEF Alloc, MemoryInv, MemoryTypeOK
    <2> QED
        BY <2>1, <2>2, <2>3, RebindOneKeeps
<1>8. CASE Free
    <2>1. /\ current \in live /\ instruction.mo \in MemoryObjects
        BY <1>8, ExecutingFacts DEF Free
    <2>2. /\ Unbind(current, {instruction.mo}) /\ Done /\ UNCHANGED <<live, registers, symbolics>>
        BY <1>8 DEF Free
    <2>3. UNCHANGED cowKey
        BY <2>2 DEF Done
    <2>4. {instruction.mo} \in SUBSET MemoryObjects
        BY <2>1
    <2>5. /\ objects' \in [States -> [MemoryObjects -> Slots \cup {NoSlot}]]
          /\ heap' \in [MemoryObjects -> [Slots -> ObjectStates]]
          /\ DeadStatesAreUnbound' /\ OwnedContentsAreNotShared' /\ CachesAreValid'
        BY <2>1, <2>2, <2>3, <2>4, UnbindStep DEF MemoryInv
    <2>6. registers' \in [States -> Expr] /\ symbolics' \in [States -> SUBSET MemoryObjects]
        BY <2>2 DEF MemoryInv, MemoryTypeOK
    <2> QED
        BY <2>2, <2>5, <2>6, DoneTypes, MemoryInvByParts
<1>9. CASE MakeSymbolic
    <2>1. /\ current \in live /\ current \in States /\ instruction.mo \in MemoryObjects
        BY <1>9, ExecutingFacts DEF MakeSymbolic
    <2>2. NewSymbolicObjectState(SymbolicArray[instruction.mo]) \in ValidContents
        BY <2>1, NewSymbolicObjectStateValid, AddressSpaceAssumption
    <2>3. Rebind(current, {instruction.mo},
                 [m \in {instruction.mo} |-> NewSymbolicObjectState(SymbolicArray[instruction.mo])])
        <3>1. [m \in {instruction.mo} |-> NewSymbolicObjectState(SymbolicArray[m])]
                = [m \in {instruction.mo} |-> NewSymbolicObjectState(SymbolicArray[instruction.mo])]
            OBVIOUS
        <3> QED
            BY <1>9, <3>1 DEF MakeSymbolic
    <2>4. Done /\ UNCHANGED <<live, registers>> /\ symbolics' \in [States -> SUBSET MemoryObjects]
        BY <1>9, <2>1 DEF MakeSymbolic, MemoryInv, MemoryTypeOK
    <2> QED
        BY <2>1, <2>2, <2>3, <2>4, RebindOneKeeps
<1>10. CASE CallExternal
    <2> DEFINE c == ExternalWrite(FindObject(current, instruction.mo))
    <2>1. /\ current \in live /\ instruction.mo \in MemoryObjects /\ c \in ValidContents
        BY <1>10, ExecutingFacts, ExternalWriteValid DEF CallExternal
    <2>2. /\ UNCHANGED <<objects, heap>> \/ Rebind(current, {instruction.mo}, [m \in {instruction.mo} |-> c])
          /\ Done /\ UNCHANGED <<live, registers, symbolics>>
        BY <1>10 DEF CallExternal
    <2> HIDE DEF c
    <2>3. registers' \in [States -> Expr] /\ symbolics' \in [States -> SUBSET MemoryObjects]
        BY <2>2 DEF MemoryInv, MemoryTypeOK
    <2>4. CASE UNCHANGED <<objects, heap>>
        <3>1. UNCHANGED <<live, objects, heap, cowKey>>
            BY <2>2, <2>4 DEF Done
        <3> QED
            BY <2>2, <2>3, <3>1, ContentsUnchanged, DoneTypes, MemoryInvByParts
    <2>5. CASE Rebind(current, {instruction.mo}, [m \in {instruction.mo} |-> c])
        BY <2>1, <2>2, <2>3, <2>5, RebindOneKeeps
    <2> QED
        BY <2>2, <2>4, <2>5
<1>11. CASE ExternalModifiesReadOnly
    BY <1>11, ExecutingFacts, TerminateKeeps DEF ExternalModifiesReadOnly
<1>12. CASE Fork
    BY <1>12, ForkKeeps
<1>13. CASE Merge
    BY <1>13, MergeKeeps
<1>14. CASE UNCHANGED vars
    BY <1>14
       DEF vars, MemoryInv, MemoryTypeOK, InstructionFits, Uses, DeadStatesAreUnbound,
           OwnedContentsAreNotShared, CachesAreValid, Bound, FindObject, Owns
<1> QED
    BY <1>1, <1>2, <1>3, <1>4, <1>5, <1>6, <1>7, <1>8, <1>9, <1>10, <1>11, <1>12, <1>13, <1>14
       DEF Next, Finished

(* The invariant holds in every run. *)
LEMMA MemoryInvariant == Spec => []MemoryInv
<1>1. MemoryInv /\ [Next]_vars => MemoryInv'
    BY MemoryInvNext
<1> QED
    BY <1>1, MemoryInvInit, PTL DEF Spec

(* Copy on write is safe: no state may write in place what another state   *)
(* is bound to.                                                            *)
THEOREM OwnedContentsAreNotSharedTheorem == Spec => []OwnedContentsAreNotShared
<1>1. MemoryInv => OwnedContentsAreNotShared
    BY DEF MemoryInv
<1> QED
    BY <1>1, MemoryInvariant, PTL

(* The cache invariants hold of all contents. *)
THEOREM CachesAreValidTheorem == Spec => []CachesAreValid
<1>1. MemoryInv => CachesAreValid
    BY DEF MemoryInv
<1> QED
    BY <1>1, MemoryInvariant, PTL

-----------------------------------------------------------------------------
(***************************************************************************)
(* The memory of the execution states implements ConcreteMemory: sharing,  *)
(* copying on write, the caches of ObjectState and merging cannot be seen  *)
(* by a program, on any input, unless it both reads by symbolic offsets    *)
(* and calls external functions that write to its objects.                 *)
(***************************************************************************)

(***************************************************************************)
(* ObjectState.  What read8 returns after each operation.                  *)
(***************************************************************************)
(* Contents whose update list agrees with their caches. *)
AgreeingContents == {os \in ValidContents : UpdatesAgree(os)}

(* Contents of which no concrete byte is flushed. *)
Unflushed(os) == os.concreteMask \subseteq os.flushMask

(* A new object reads as the value it is initialised with. *)
LEMMA NewObjectStateReads ==
    ASSUME NEW v \in Bytes
    PROVE  /\ \A o \in Offsets : Read8(NewObjectState(v), o) = Constant(v)
           /\ NewObjectState(v) \in AgreeingContents
           /\ Unflushed(NewObjectState(v))
<1>1. NewObjectState(v) \in ValidContents
    BY NewObjectStateValid
<1>2. \A o \in Offsets : Read8(NewObjectState(v), o) = Constant(v) /\ ~IsByteFlushed(NewObjectState(v), o)
    BY DEF Read8, IsByteConcrete, IsByteFlushed, NewObjectState
<1> QED
    BY <1>1, <1>2 DEF AgreeingContents, UpdatesAgree, Unflushed, NewObjectState

(* A new symbolic object reads as its array. *)
LEMMA NewSymbolicObjectStateReads ==
    ASSUME NEW array \in [Inputs -> [Offsets -> Bytes]]
    PROVE  /\ \A o \in Offsets, x \in Inputs : Read8(NewSymbolicObjectState(array), o)[x] = array[x][o]
           /\ NewSymbolicObjectState(array) \in AgreeingContents
           /\ Unflushed(NewSymbolicObjectState(array))
<1> DEFINE os == NewSymbolicObjectState(array)
<1>1. os \in ValidContents
    BY NewSymbolicObjectStateValid
<1>2. /\ os.concreteMask = {} /\ os.updates = array
      /\ \A o \in Offsets : os.knownSymbolics[o] = NoExpr
    BY DEF NewSymbolicObjectState, NewObjectState
<1> HIDE DEF os
<1>3. \A o \in Offsets, x \in Inputs : Read8(os, o)[x] = array[x][o]
    BY <1>2 DEF Read8, IsByteConcrete, IsByteKnownSymbolic
<1> QED
    BY <1>1, <1>2, <1>3 DEF AgreeingContents, UpdatesAgree, Unflushed, os

(* The owner of contents is no part of what is read. *)
LEMMA OwnerChangeReads ==
    ASSUME NEW os \in ObjectStates, NEW k \in Nat
    PROVE  LET new == [os EXCEPT !.copyOnWriteOwner = k] IN
           /\ \A o \in Offsets : Read8(new, o) = Read8(os, o)
           /\ UpdatesAgree(os) => UpdatesAgree(new)
           /\ Unflushed(os) => Unflushed(new)
<1> DEFINE new == [os EXCEPT !.copyOnWriteOwner = k]
<1>1. /\ new.concreteMask = os.concreteMask /\ new.flushMask = os.flushMask
      /\ new.concreteStore = os.concreteStore /\ new.updates = os.updates
      /\ new.knownSymbolics = os.knownSymbolics
    BY DEF ObjectStates
<1> HIDE DEF new
<1>2. \A o \in Offsets : Read8(new, o) = Read8(os, o)
    BY <1>1 DEF Read8, IsByteConcrete, IsByteKnownSymbolic
<1>3. UpdatesAgree(os) => UpdatesAgree(new)
    BY <1>1, <1>2 DEF UpdatesAgree, IsByteFlushed
<1> QED
    BY <1>1, <1>2, <1>3 DEF Unflushed, new

(* write8 changes what is read at its offset and nowhere else. *)
LEMMA Write8Reads ==
    ASSUME NEW os \in AgreeingContents, NEW o \in Offsets, NEW e \in Expr
    PROVE  /\ \A p \in Offsets : Read8(Write8(os, o, e), p) = IF p = o THEN e ELSE Read8(os, p)
           /\ Write8(os, o, e) \in AgreeingContents
           /\ Unflushed(os) => Unflushed(Write8(os, o, e))
<1> DEFINE new == Write8(os, o, e)
           v == CHOOSE v \in Bytes : e = Constant(v)
<1>1. os \in ValidContents /\ os \in ObjectStates /\ UpdatesAgree(os)
    BY DEF AgreeingContents, ValidContents
<1>2. new \in ValidContents
    BY <1>1, Write8Valid
<1>3. os.concreteStore \in [Offsets -> Bytes] /\ os.knownSymbolics \in [Offsets -> Expr \cup {NoExpr}]
    BY <1>1 DEF ObjectStates
<1>4. CASE IsConstant(e)
    <2>1. e = Constant(v)
        BY <1>4, ConstantValue
    <2> HIDE DEF v
    <2>2. new = [os EXCEPT !.concreteStore[o] = v, !.knownSymbolics[o] = NoExpr,
                           !.concreteMask = @ \cup {o}, !.flushMask = @ \cup {o}]
        BY <1>4 DEF Write8, v
    <2>3. /\ new.concreteMask = os.concreteMask \cup {o} /\ new.flushMask = os.flushMask \cup {o}
          /\ new.concreteStore = [os.concreteStore EXCEPT ![o] = v] /\ new.updates = os.updates
          /\ new.knownSymbolics = [os.knownSymbolics EXCEPT ![o] = NoExpr]
        BY <1>1, <2>2 DEF ObjectStates
    <2> HIDE DEF new
    <2>4. \A p \in Offsets : Read8(new, p) = IF p = o THEN e ELSE Read8(os, p)
        BY <1>3, <2>1, <2>3 DEF Read8, IsByteConcrete, IsByteKnownSymbolic
    <2>5. UpdatesAgree(new)
        BY <1>1, <2>3, <2>4 DEF UpdatesAgree, IsByteFlushed
    <2> QED
        BY <1>2, <2>3, <2>4, <2>5 DEF AgreeingContents, Unflushed, new
<1>5. CASE ~IsConstant(e)
    <2>1. new = [os EXCEPT !.knownSymbolics[o] = e,
                           !.concreteMask = @ \ {o}, !.flushMask = @ \cup {o}]
        BY <1>5 DEF Write8
    <2>2. /\ new.concreteMask = os.concreteMask \ {o} /\ new.flushMask = os.flushMask \cup {o}
          /\ new.concreteStore = os.concreteStore /\ new.updates = os.updates
          /\ new.knownSymbolics = [os.knownSymbolics EXCEPT ![o] = e]
        BY <1>1, <2>1 DEF ObjectStates
    <2> HIDE DEF new
    <2>3. \A p \in Offsets : Read8(new, p) = IF p = o THEN e ELSE Read8(os, p)
        BY <1>3, <2>2, ObjectStateAssumption DEF Read8, IsByteConcrete, IsByteKnownSymbolic
    <2>4. UpdatesAgree(new)
        BY <1>1, <2>2, <2>3 DEF UpdatesAgree, IsByteFlushed
    <2> QED
        BY <1>2, <2>2, <2>3, <2>4 DEF AgreeingContents, Unflushed, new
<1> QED
    BY <1>4, <1>5

(* After all bytes are written, each reads as what was written. *)
LEMMA WriteAllReads ==
    ASSUME NEW os \in ValidContents, NEW value \in [Offsets -> Expr]
    PROVE  /\ \A o \in Offsets : Read8(WriteAll(os, value), o) = value[o]
           /\ WriteAll(os, value) \in AgreeingContents
           /\ Unflushed(WriteAll(os, value))
<1> DEFINE new == WriteAll(os, value)
           byte(o) == CHOOSE v \in Bytes : value[o] = Constant(v)
           constant == {o \in Offsets : IsConstant(value[o])}
<1>1. \A o \in constant : value[o] = Constant(byte(o))
    BY ConstantValue
<1> HIDE DEF byte
<1>2. new \in ValidContents
    BY WriteAllValid
<1>3. /\ new.concreteMask = constant /\ new.flushMask = Offsets
      /\ new.concreteStore = [o \in Offsets |-> IF o \in constant THEN byte(o) ELSE os.concreteStore[o]]
      /\ new.knownSymbolics = [o \in Offsets |-> IF o \in constant THEN NoExpr ELSE value[o]]
    BY DEF WriteAll, byte, ValidContents, ObjectStates
<1>4. constant \subseteq Offsets
    OBVIOUS
<1> HIDE DEF new, constant
<1>5. \A o \in Offsets : Read8(new, o) = value[o]
    BY <1>1, <1>3, ObjectStateAssumption DEF Read8, IsByteConcrete, IsByteKnownSymbolic
<1>6. UpdatesAgree(new)
    BY <1>3 DEF UpdatesAgree, IsByteFlushed
<1> QED
    BY <1>2, <1>3, <1>4, <1>5, <1>6 DEF AgreeingContents, Unflushed, new

(* What is appended to the update list is what read8 returns. *)
LEMMA FlushedReads ==
    ASSUME NEW os \in AgreeingContents, NEW x \in Inputs, NEW o \in Offsets
    PROVE  Flushed(os)[x][o] = Read8(os, o)[x]
BY DEF Flushed, AgreeingContents, UpdatesAgree

(* flushRangeForRead changes no byte, and makes reads by symbolic index    *)
(* agree with reads by constant offset.                                    *)
LEMMA FlushRangeForReadReads ==
    ASSUME NEW os \in AgreeingContents
    PROVE  /\ \A o \in Offsets : Read8(FlushRangeForRead(os), o) = Read8(os, o)
           /\ \A index \in [Inputs -> Offsets], x \in Inputs :
                 Read8At(FlushRangeForRead(os), index)[x] = Read8(os, index[x])[x]
           /\ FlushRangeForRead(os) \in AgreeingContents
<1> DEFINE new == FlushRangeForRead(os)
<1>1. os \in ValidContents /\ os \in ObjectStates /\ UpdatesAgree(os) /\ CacheInvariants(os)
    BY DEF AgreeingContents, ValidContents
<1>2. new \in ValidContents
    BY <1>1, FlushRangeForReadValid
<1>3. /\ new.concreteMask = os.concreteMask /\ new.knownSymbolics = os.knownSymbolics
      /\ new.concreteStore = os.concreteStore /\ new.updates = Flushed(os)
    BY <1>1 DEF FlushRangeForRead, ObjectStates
<1>4. Flushed(os) \in [Inputs -> [Offsets -> Bytes]]
    BY <1>1, FlushedType
<1> HIDE DEF new
<1>5. \A o \in Offsets : Read8(os, o) \in Expr
    BY <1>1, Read8Type
<1>6. \A o \in Offsets : Read8(new, o) = Read8(os, o)
    <2> SUFFICES ASSUME NEW o \in Offsets PROVE Read8(new, o) = Read8(os, o)
        OBVIOUS
    <2>1. CASE IsByteConcrete(os, o) \/ IsByteKnownSymbolic(os, o)
        BY <1>3, <2>1 DEF Read8, IsByteConcrete, IsByteKnownSymbolic
    <2>2. CASE ~(IsByteConcrete(os, o) \/ IsByteKnownSymbolic(os, o))
        <3>1. Read8(new, o) = [x \in Inputs |-> Flushed(os)[x][o]]
            BY <1>3, <2>2 DEF Read8, IsByteConcrete, IsByteKnownSymbolic
        <3>2. [x \in Inputs |-> Flushed(os)[x][o]] = [x \in Inputs |-> Read8(os, o)[x]]
            BY FlushedReads
        <3> QED
            BY <1>5, <3>1, <3>2 DEF Expr
    <2> QED
        BY <2>1, <2>2
<1>7. UpdatesAgree(new)
    BY <1>3, <1>6, FlushedReads DEF UpdatesAgree
<1>8. \A index \in [Inputs -> Offsets], x \in Inputs : Read8At(new, index)[x] = Read8(os, index[x])[x]
    BY <1>3, FlushedReads DEF Read8At
<1> QED
    BY <1>2, <1>6, <1>7, <1>8 DEF AgreeingContents, new

(* write8 at a symbolic index changes, for each input, the byte at the     *)
(* index that the input gives.                                             *)
LEMMA Write8AtReads ==
    ASSUME NEW os \in AgreeingContents, NEW index \in [Inputs -> Offsets], NEW e \in Expr
    PROVE  /\ \A o \in Offsets, x \in Inputs : 
                 Read8(Write8At(os, index, e), o)[x] = IF o = index[x] THEN e[x] ELSE Read8(os, o)[x]
           /\ Write8At(os, index, e) \in AgreeingContents
           /\ Unflushed(Write8At(os, index, e))
<1> DEFINE new == Write8At(os, index, e)
           written == [x \in Inputs |-> [Flushed(os)[x] EXCEPT ![index[x]] = e[x]]]
<1>1. os \in ValidContents /\ os \in ObjectStates
    BY DEF AgreeingContents, ValidContents
<1>2. new \in ValidContents
    BY <1>1, Write8AtValid
<1>3. /\ new.concreteMask = {} /\ new.updates = written
      /\ new.knownSymbolics = [o \in Offsets |-> NoExpr]
    BY <1>1 DEF Write8At, FlushRangeForWrite, ObjectStates
<1>4. Flushed(os) \in [Inputs -> [Offsets -> Bytes]]
    BY <1>1, FlushedType
<1>5. \A o \in Offsets, x \in Inputs : written[x][o] = IF o = index[x] THEN e[x] ELSE Read8(os, o)[x]
    BY <1>4, FlushedReads
<1> HIDE DEF new, written
<1>6. \A o \in Offsets, x \in Inputs : Read8(new, o)[x] = written[x][o]
    BY <1>3 DEF Read8, IsByteConcrete, IsByteKnownSymbolic
<1>7. UpdatesAgree(new)
    BY <1>3, <1>6 DEF UpdatesAgree
<1> QED
    BY <1>2, <1>3, <1>5, <1>6, <1>7 DEF AgreeingContents, Unflushed, new

(* A byte that an external function writes is read if it is concrete. *)
LEMMA StoreChangeReads ==
    ASSUME NEW os \in AgreeingContents, NEW o \in Offsets, NEW v \in Bytes, Unflushed(os)
    PROVE  LET new == [os EXCEPT !.concreteStore[o] = v] IN
           /\ \A p \in Offsets : Read8(new, p) = IF p = o /\ IsByteConcrete(os, o) THEN Constant(v)
                                                 ELSE Read8(os, p)
           /\ new \in AgreeingContents
           /\ Unflushed(new)
<1> DEFINE new == [os EXCEPT !.concreteStore[o] = v]
<1>1. os \in ValidContents /\ os \in ObjectStates /\ UpdatesAgree(os)
    BY DEF AgreeingContents, ValidContents
<1>2. new \in ValidContents
    BY <1>1, StoreChangeValid
<1>3. /\ new.concreteMask = os.concreteMask /\ new.knownSymbolics = os.knownSymbolics
      /\ new.flushMask = os.flushMask /\ new.updates = os.updates
      /\ new.concreteStore = [os.concreteStore EXCEPT ![o] = v]
      /\ os.concreteStore \in [Offsets -> Bytes]
    BY <1>1 DEF ObjectStates
<1> HIDE DEF new
<1>4. \A p \in Offsets : Read8(new, p) = IF p = o /\ IsByteConcrete(os, o) THEN Constant(v)
                                         ELSE Read8(os, p)
    BY <1>3 DEF Read8, IsByteConcrete, IsByteKnownSymbolic
<1>5. UpdatesAgree(new)
    BY <1>1, <1>3, <1>4 DEF UpdatesAgree, IsByteFlushed, IsByteConcrete, Unflushed
<1> QED
    BY <1>2, <1>3, <1>4, <1>5 DEF AgreeingContents, Unflushed, new

(* Merged bytes are those of the one contents or of the other. *)
LEMMA MergeBytesReads ==
    ASSUME NEW os \in ValidContents, NEW other \in ValidContents, NEW inA
    PROVE  /\ \A o \in Offsets, x \in Inputs :
                 Read8(MergeBytes(os, other, inA), o)[x] = IF x \in inA THEN Read8(os, o)[x]
                                                           ELSE Read8(other, o)[x]
           /\ MergeBytes(os, other, inA) \in AgreeingContents
           /\ Unflushed(MergeBytes(os, other, inA))
<1> DEFINE value == [o \in Offsets |-> SelectExpr(inA, Read8(os, o), Read8(other, o))]
<1>1. value \in [Offsets -> Expr]
    BY Read8Type, SelectExprType DEF ValidContents
<1>2. MergeBytes(os, other, inA) = WriteAll(os, value)
    BY DEF MergeBytes
<1>3. \A o \in Offsets, x \in Inputs : value[o][x] = IF x \in inA THEN Read8(os, o)[x] ELSE Read8(other, o)[x]
    BY DEF SelectExpr
<1> HIDE DEF value
<1> QED
    BY <1>1, <1>2, <1>3, WriteAllReads

(* A store at a constant offset changes the mask at that offset only, and  *)
(* no write makes contents read-only.                                      *)
LEMMA Write8Masks ==
    ASSUME NEW os \in ObjectStates, NEW o \in Offsets, NEW e
    PROVE  /\ Write8(os, o, e).concreteMask \in {os.concreteMask \cup {o}, os.concreteMask \ {o}}
           /\ Write8(os, o, e).readOnly = os.readOnly
BY DEF Write8, ObjectStates

LEMMA Write8AtMasks ==
    ASSUME NEW os \in ObjectStates, NEW index, NEW e
    PROVE  Write8At(os, index, e).readOnly = os.readOnly
BY DEF Write8At, FlushRangeForWrite, ObjectStates

LEMMA FlushRangeForReadMasks ==
    ASSUME NEW os \in ObjectStates
    PROVE  /\ FlushRangeForRead(os).concreteMask = os.concreteMask
           /\ FlushRangeForRead(os).readOnly = os.readOnly
BY DEF FlushRangeForRead, ObjectStates

LEMMA StoreChangeMasks ==
    ASSUME NEW os \in ObjectStates, NEW o \in Offsets, NEW v
    PROVE  LET new == [os EXCEPT !.concreteStore[o] = v] IN
           /\ new.concreteMask = os.concreteMask /\ new.readOnly = os.readOnly
           /\ new = os <=> os.concreteStore[o] = v
<1> DEFINE new == [os EXCEPT !.concreteStore[o] = v]
<1>1. os = [os EXCEPT !.concreteStore = os.concreteStore]
    BY DEF ObjectStates
<1>2. os.concreteStore \in [Offsets -> Bytes]
    BY DEF ObjectStates
<1>3. new.concreteStore = [os.concreteStore EXCEPT ![o] = v]
    BY DEF ObjectStates
<1>4. new = os => os.concreteStore[o] = v
    BY <1>2, <1>3
<1>5. ASSUME os.concreteStore[o] = v PROVE new = os
    <2>1. [os.concreteStore EXCEPT ![o] = v] = os.concreteStore
        BY <1>2, <1>5
    <2>2. new = [os EXCEPT !.concreteStore = [os.concreteStore EXCEPT ![o] = v]]
        OBVIOUS
    <2> QED
        BY <1>1, <2>1, <2>2
<1>6. new.concreteMask = os.concreteMask /\ new.readOnly = os.readOnly
    BY DEF ObjectStates
<1> QED
    BY <1>4, <1>5, <1>6

(* Merging hides no byte that is concrete, and the same, in both contents. *)
LEMMA MergeBytesMasks ==
    ASSUME NEW os \in ValidContents, NEW other \in ValidContents, NEW inA, NEW o \in Offsets
    PROVE  /\ MergeBytes(os, other, inA).readOnly = os.readOnly
           /\ o \in os.concreteMask /\ o \in other.concreteMask
              /\ os.concreteStore[o] = other.concreteStore[o]
                 => o \in MergeBytes(os, other, inA).concreteMask
<1> DEFINE value == [p \in Offsets |-> SelectExpr(inA, Read8(os, p), Read8(other, p))]
<1>1. os \in ObjectStates
    BY DEF ValidContents
<1>2. /\ MergeBytes(os, other, inA).readOnly = os.readOnly
      /\ MergeBytes(os, other, inA).concreteMask = {p \in Offsets : IsConstant(value[p])}
    BY <1>1 DEF MergeBytes, WriteAll, ObjectStates
<1>3. ASSUME o \in os.concreteMask, o \in other.concreteMask,
             os.concreteStore[o] = other.concreteStore[o]
      PROVE  IsConstant(value[o])
    <2>1. /\ Read8(os, o) = Constant(os.concreteStore[o])
          /\ Read8(other, o) = Constant(os.concreteStore[o])
        BY <1>3 DEF Read8, IsByteConcrete
    <2>2. value[o] = Constant(os.concreteStore[o])
        BY <2>1 DEF SelectExpr, Constant
    <2>3. os.concreteStore[o] \in Bytes
        BY <1>1 DEF ObjectStates
    <2> QED
        BY <2>2, <2>3 DEF IsConstant
<1> QED
    BY <1>2, <1>3

-----------------------------------------------------------------------------
(***************************************************************************)
(* The memory of an input is that of the state that carries it.            *)
(***************************************************************************)
BytesOf(s, mo, x) ==
    IF Bound(s, mo) THEN [o \in Offsets |-> Read8(FindObject(s, mo), o)[x]] ELSE << >>

HiddenBy(s, mo) == IF Bound(s, mo) THEN Offsets \ FindObject(s, mo).concreteMask ELSE {}

(* The memory and the register of an input are those of the state that     *)
(* carries it.                                                             *)
CarriedViews ==
    /\ \A s \in live, x \in Inputs : x \in pathInputs[s] =>
          /\ MemoryOf(x) = [mo \in MemoryObjects |-> BytesOf(s, mo, x)]
          /\ RegisterOf(x) = registers[s][x]
          /\ OpaqueOf(x) = [mo \in MemoryObjects |-> HiddenBy(s, mo)]
    /\ \A x \in Inputs : (\A s \in live : x \notin pathInputs[s]) =>
          /\ MemoryOf(x) = [mo \in MemoryObjects |-> << >>]
          /\ RegisterOf(x) = 0
          /\ OpaqueOf(x) = [mo \in MemoryObjects |-> {}]

(* At most one state carries an input. *)
LEMMA CarriedByOne == PathsAreDisjoint => CarriedViews
<1> SUFFICES ASSUME PathsAreDisjoint PROVE CarriedViews
    OBVIOUS
<1>1. ASSUME NEW s \in live, NEW x \in Inputs, x \in pathInputs[s]
      PROVE  /\ MemoryOf(x) = [mo \in MemoryObjects |-> BytesOf(s, mo, x)]
             /\ RegisterOf(x) = registers[s][x]
             /\ OpaqueOf(x) = [mo \in MemoryObjects |-> HiddenBy(s, mo)]
    <2>1. Carrier(x) = {s}
        BY <1>1 DEF Carrier, PathsAreDisjoint
    <2>2. (CHOOSE r \in Carrier(x) : TRUE) = s
        BY <2>1
    <2>3. \A mo : (\E r \in Carrier(x) : Bound(r, mo)) <=> Bound(s, mo)
        BY <2>1
    <2>4. MemoryOf(x) = [mo \in MemoryObjects |-> BytesOf(s, mo, x)]
        BY <2>2, <2>3 DEF MemoryOf, BytesOf
    <2>5. OpaqueOf(x) = [mo \in MemoryObjects |-> HiddenBy(s, mo)]
        BY <2>2, <2>3 DEF OpaqueOf, HiddenBy
    <2> QED
        BY <2>1, <2>2, <2>4, <2>5 DEF RegisterOf
<1>2. ASSUME NEW x \in Inputs, \A s \in live : x \notin pathInputs[s]
      PROVE  /\ MemoryOf(x) = [mo \in MemoryObjects |-> << >>]
             /\ RegisterOf(x) = 0
             /\ OpaqueOf(x) = [mo \in MemoryObjects |-> {}]
    <2>1. Carrier(x) = {}
        BY <1>2 DEF Carrier
    <2> QED
        BY <2>1 DEF MemoryOf, RegisterOf, OpaqueOf
<1> QED
    BY <1>1, <1>2 DEF CarriedViews

(* Contents that a state is bound to are valid and coherent. *)
Coherent(os) == os \in AgreeingContents /\ ("index" \in program \/ Unflushed(os))

(* What is bound in a live state is coherent. *)
LEMMA BoundIsCoherent ==
    ASSUME RefinementInv, NEW s \in live, NEW mo \in MemoryObjects, Bound(s, mo)
    PROVE  FindObject(s, mo) \in ObjectStates /\ Coherent(FindObject(s, mo))
<1>1. FindObject(s, mo) \in ObjectStates
    BY DEF RefinementInv, MemoryInv, MemoryTypeOK, FindObject, Bound
<1>2. CacheInvariants(FindObject(s, mo))
    BY DEF RefinementInv, MemoryInv, CachesAreValid
<1>3. UpdatesAgree(FindObject(s, mo)) /\ ("index" \in program \/ Unflushed(FindObject(s, mo)))
    BY DEF RefinementInv, UpdatesAreCoherent, Unflushed
<1> QED
    BY <1>1, <1>2, <1>3 DEF Coherent, AgreeingContents, ValidContents

(* What a write may put in place of contents. *)
WritableBy(M, os) == \A mo \in M : Coherent(os[mo]) /\ ~os[mo].readOnly /\ mo \notin ReadOnlyObjects

(* Coherence after a write and after states have dropped contents, as in   *)
(* RebindKeeps, and what each state sees then.                             *)
LEMMA RebindCoherent ==
    ASSUME RefinementInv, UNCHANGED program,
           NEW s \in live, NEW M \in SUBSET MemoryObjects, NEW os,
           WritableBy(M, os),
           objects' \in [States -> [MemoryObjects -> Slots \cup {NoSlot}]],
           \A r \in States, mo \in MemoryObjects : objects'[r][mo] \in {BoundBy(s, M)[r][mo], NoSlot},
           heap' = Collect(Written(s, M, os), objects'),
           live' \subseteq live
    PROVE  /\ UpdatesAreCoherent' /\ ReadOnlyContents'
           /\ \A r \in live', mo \in MemoryObjects, x \in Inputs : objects'[r][mo] # NoSlot =>
                 BytesOf(r, mo, x)' = IF r = s /\ mo \in M THEN [o \in Offsets |-> Read8(os[mo], o)[x]]
                                      ELSE BytesOf(r, mo, x)
           /\ \A r \in live', mo \in MemoryObjects : objects'[r][mo] # NoSlot =>
                 HiddenBy(r, mo)' = IF r = s /\ mo \in M THEN Offsets \ os[mo].concreteMask
                                    ELSE HiddenBy(r, mo)
<1>1. \A mo \in M : os[mo] \in ObjectStates
    BY DEF WritableBy, Coherent, AgreeingContents, ValidContents
<1>2. /\ heap' \in [MemoryObjects -> [Slots -> ObjectStates]]
      /\ \A r \in States, mo \in MemoryObjects : objects'[r][mo] # NoSlot =>
            /\ heap'[mo][objects'[r][mo]] = Contents(s, M, os, r, mo)
            /\ (r = s /\ mo \in M) \/ objects'[r][mo] = objects[r][mo]
    BY <1>1, RebindContents DEF RefinementInv, MemoryInv
<1>3. live \subseteq States /\ cowKey[s] \in Nat
    BY DEF RefinementInv, MemoryInv, MemoryTypeOK
<1>4. ASSUME NEW r \in live', NEW mo \in MemoryObjects, objects'[r][mo] # NoSlot
      PROVE  /\ UpdatesAgree(heap'[mo][objects'[r][mo]])
             /\ "index" \in program \/ Unflushed(heap'[mo][objects'[r][mo]])
             /\ \A o \in Offsets : Read8(heap'[mo][objects'[r][mo]], o) =
                   IF r = s /\ mo \in M THEN Read8(os[mo], o) ELSE Read8(FindObject(r, mo), o)
             /\ (r = s /\ mo \in M) \/ Bound(r, mo)
             /\ heap'[mo][objects'[r][mo]].concreteMask =
                   IF r = s /\ mo \in M THEN os[mo].concreteMask ELSE FindObject(r, mo).concreteMask
             /\ IF mo \in ReadOnlyObjects
                THEN /\ objects'[r][mo] = 1
                     /\ heap'[mo][objects'[r][mo]].readOnly
                     /\ heap'[mo][objects'[r][mo]].concreteMask = Offsets
                ELSE ~heap'[mo][objects'[r][mo]].readOnly
    <2>1. r \in live /\ r \in States /\ heap'[mo][objects'[r][mo]] = Contents(s, M, os, r, mo)
        BY <1>2, <1>3, <1>4
    <2>2. CASE r = s /\ mo \in M
        <3>1. heap'[mo][objects'[r][mo]] = [os[mo] EXCEPT !.copyOnWriteOwner = cowKey[s]]
            BY <2>1, <2>2 DEF Contents
        <3>2. UpdatesAgree(os[mo]) /\ ("index" \in program \/ Unflushed(os[mo]))
            BY <2>2 DEF WritableBy, Coherent, AgreeingContents
        <3>3. /\ heap'[mo][objects'[r][mo]].concreteMask = os[mo].concreteMask
              /\ ~heap'[mo][objects'[r][mo]].readOnly /\ mo \notin ReadOnlyObjects
            BY <1>1, <2>2, <3>1 DEF WritableBy, ObjectStates
        <3> QED
            BY <1>1, <1>3, <2>2, <3>1, <3>2, <3>3, OwnerChangeReads
    <2>3. CASE ~(r = s /\ mo \in M)
        <3>1. heap'[mo][objects'[r][mo]] = FindObject(r, mo) /\ Bound(r, mo)
            BY <1>2, <1>4, <2>1, <2>3 DEF Contents, Bound
        <3>2. UpdatesAgree(FindObject(r, mo)) /\ ("index" \in program \/ Unflushed(FindObject(r, mo)))
            BY <2>1, <3>1, BoundIsCoherent DEF Coherent, AgreeingContents
        <3>3. objects'[r][mo] = objects[r][mo]
            BY <1>2, <1>4, <2>1, <2>3
        <3> QED
            BY <2>1, <2>3, <3>1, <3>2, <3>3 DEF RefinementInv, ReadOnlyContents
    <2> QED
        BY <2>2, <2>3
<1>5. UpdatesAreCoherent' /\ ReadOnlyContents'
    BY <1>4 DEF UpdatesAreCoherent, ReadOnlyContents, Bound, FindObject, Unflushed
<1>6. ASSUME NEW r \in live', NEW mo \in MemoryObjects, NEW x \in Inputs, objects'[r][mo] # NoSlot
      PROVE  BytesOf(r, mo, x)' = IF r = s /\ mo \in M THEN [o \in Offsets |-> Read8(os[mo], o)[x]]
                                  ELSE BytesOf(r, mo, x)
    <2>1. BytesOf(r, mo, x)' = [o \in Offsets |-> Read8(heap'[mo][objects'[r][mo]], o)[x]]
        BY <1>6 DEF BytesOf, Bound, FindObject
    <2> QED
        BY <1>4, <1>6, <2>1 DEF BytesOf
<1>7. ASSUME NEW r \in live', NEW mo \in MemoryObjects, objects'[r][mo] # NoSlot
      PROVE  HiddenBy(r, mo)' = IF r = s /\ mo \in M THEN Offsets \ os[mo].concreteMask
                                ELSE HiddenBy(r, mo)
    <2>1. HiddenBy(r, mo)' = Offsets \ heap'[mo][objects'[r][mo]].concreteMask
        BY <1>7 DEF HiddenBy, Bound, FindObject
    <2> QED
        BY <1>4, <1>7, <2>1 DEF HiddenBy
<1> QED
    BY <1>5, <1>6, <1>7

(* No program both reads by symbolic offsets and lets external functions   *)
(* write to its objects.  After a read by a symbolic offset the update     *)
(* list holds a copy of every byte, which copyInConcretes does not change. *)
NoIndexWithExternal == \A p \in Programs : ~({"index", "external"} \subseteq p)

(* States do not begin or end, and constraints stay: the views by input    *)
(* change as those by state do.                                            *)
LEMMA InstructionViews ==
    ASSUME RefinementInv, PathsAreDisjoint', UNCHANGED <<live, pathInputs>>,
           NEW s \in live, NEW mo \in MemoryObjects, NEW bytes,
           \A r \in live, m \in MemoryObjects, x \in Inputs :
               BytesOf(r, m, x)' = IF r = s /\ m = mo THEN bytes[x] ELSE BytesOf(r, m, x)
    PROVE  \A x \in Inputs : MemoryOf(x)' = IF x \in pathInputs[s]
                                            THEN [MemoryOf(x) EXCEPT ![mo] = bytes[x]]
                                            ELSE MemoryOf(x)
<1>1. CarriedViews
    BY CarriedByOne DEF RefinementInv
<1>2. CarriedViews'
    <2>1. PathsAreDisjoint' => CarriedViews'
        BY CarriedByOne, PTL
    <2> QED
        BY <2>1
<1> SUFFICES ASSUME NEW x \in Inputs
             PROVE  MemoryOf(x)' = IF x \in pathInputs[s]
                                   THEN [MemoryOf(x) EXCEPT ![mo] = bytes[x]]
                                   ELSE MemoryOf(x)
    OBVIOUS
<1>3. CASE x \in pathInputs[s]
    <2>1. MemoryOf(x) = [m \in MemoryObjects |-> BytesOf(s, m, x)]
        BY <1>1, <1>3 DEF CarriedViews
    <2>2. MemoryOf(x)' = [m \in MemoryObjects |-> BytesOf(s, m, x)']
        BY <1>2, <1>3, ZenonT(60) DEF CarriedViews
    <2>3. \A m \in MemoryObjects : BytesOf(s, m, x)' = IF m = mo THEN bytes[x] ELSE BytesOf(s, m, x)
        OBVIOUS
    <2> QED
        BY <1>3, <2>1, <2>2, <2>3
<1>4. CASE x \notin pathInputs[s]
    <2>1. CASE \E r \in live : x \in pathInputs[r]
        <3> PICK r \in live : x \in pathInputs[r]
            BY <2>1
        <3>1. MemoryOf(x) = [m \in MemoryObjects |-> BytesOf(r, m, x)]
            BY <1>1 DEF CarriedViews
        <3>2. MemoryOf(x)' = [m \in MemoryObjects |-> BytesOf(r, m, x)']
            BY <1>2, ZenonT(60) DEF CarriedViews
        <3>3. \A m \in MemoryObjects : BytesOf(r, m, x)' = BytesOf(r, m, x)
            BY <1>4
        <3> QED
            BY <1>4, <3>1, <3>2, <3>3
    <2>2. CASE \A r \in live : x \notin pathInputs[r]
        <3>1. MemoryOf(x) = [m \in MemoryObjects |-> << >>]
            BY <1>1, <2>2 DEF CarriedViews
        <3>2. MemoryOf(x)' = [m \in MemoryObjects |-> << >>]
            BY <1>2, <2>2, Zenon DEF CarriedViews
        <3> QED
            BY <1>4, <3>1, <3>2
    <2> QED
        BY <2>1, <2>2
<1> QED
    BY <1>3, <1>4

(* An instruction that sets the register sets it for the inputs of the     *)
(* current state only.                                                     *)
LEMMA InstructionRegisters ==
    ASSUME RefinementInv, PathsAreDisjoint', UNCHANGED <<live, pathInputs>>,
           current \in live, NEW e, registers' = [registers EXCEPT ![current] = e]
    PROVE  \A x \in Inputs : RegisterOf(x)' = IF x \in pathInputs[current] THEN e[x] ELSE RegisterOf(x)
<1>1. CarriedViews
    BY CarriedByOne DEF RefinementInv
<1>2. CarriedViews'
    <2>1. PathsAreDisjoint' => CarriedViews'
        BY CarriedByOne, PTL
    <2> QED
        BY <2>1
<1> SUFFICES ASSUME NEW x \in Inputs
             PROVE  RegisterOf(x)' = IF x \in pathInputs[current] THEN e[x] ELSE RegisterOf(x)
    OBVIOUS
<1>3. /\ \A r \in live : x \in pathInputs[r] => RegisterOf(x) = registers[r][x] /\ RegisterOf(x)' = registers'[r][x]
      /\ (\A r \in live : x \notin pathInputs[r]) => RegisterOf(x) = 0 /\ RegisterOf(x)' = 0
    BY <1>1, <1>2, Zenon DEF CarriedViews
<1>4. registers \in [States -> Expr] /\ live \subseteq States
    BY DEF RefinementInv, MemoryInv, MemoryTypeOK
<1> QED
    BY <1>3, <1>4 DEF RefinementInv, PathsAreDisjoint

(* An instruction that writes no memory. *)
LEMMA SameViews ==
    ASSUME RefinementInv, PathsAreDisjoint', UNCHANGED <<live, pathInputs>>,
           \A r \in live, m \in MemoryObjects, x \in Inputs : BytesOf(r, m, x)' = BytesOf(r, m, x)
    PROVE  \A x \in Inputs : MemoryOf(x)' = MemoryOf(x)
<1>1. CarriedViews
    BY CarriedByOne DEF RefinementInv
<1>2. CarriedViews'
    <2>1. PathsAreDisjoint' => CarriedViews'
        BY CarriedByOne, PTL
    <2> QED
        BY <2>1
<1> SUFFICES ASSUME NEW x \in Inputs PROVE MemoryOf(x)' = MemoryOf(x)
    OBVIOUS
<1>3. CASE \E r \in live : x \in pathInputs[r]
    <2> PICK r \in live : x \in pathInputs[r]
        BY <1>3
    <2>1. MemoryOf(x) = [m \in MemoryObjects |-> BytesOf(r, m, x)]
        BY <1>1 DEF CarriedViews
    <2>2. MemoryOf(x)' = [m \in MemoryObjects |-> BytesOf(r, m, x)']
        BY <1>2, Zenon DEF CarriedViews
    <2> QED
        BY <2>1, <2>2
<1>4. CASE \A r \in live : x \notin pathInputs[r]
    <2>1. MemoryOf(x) = [m \in MemoryObjects |-> << >>]
        BY <1>1, <1>4 DEF CarriedViews
    <2>2. MemoryOf(x)' = [m \in MemoryObjects |-> << >>]
        BY <1>2, <1>4, Zenon DEF CarriedViews
    <2> QED
        BY <2>1, <2>2
<1> QED
    BY <1>3, <1>4

(* The same for the bytes that are hidden. *)
LEMMA InstructionOpaque ==
    ASSUME RefinementInv, PathsAreDisjoint', UNCHANGED <<live, pathInputs>>,
           NEW s \in live, NEW mo \in MemoryObjects, NEW mask,
           \A r \in live, m \in MemoryObjects :
               HiddenBy(r, m)' = IF r = s /\ m = mo THEN mask ELSE HiddenBy(r, m)
    PROVE  \A x \in Inputs : OpaqueOf(x)' = IF x \in pathInputs[s]
                                            THEN [OpaqueOf(x) EXCEPT ![mo] = mask]
                                            ELSE OpaqueOf(x)
<1>1. CarriedViews
    BY CarriedByOne DEF RefinementInv
<1>2. CarriedViews'
    <2>1. PathsAreDisjoint' => CarriedViews'
        BY CarriedByOne, PTL
    <2> QED
        BY <2>1
<1> SUFFICES ASSUME NEW x \in Inputs
             PROVE  OpaqueOf(x)' = IF x \in pathInputs[s]
                                   THEN [OpaqueOf(x) EXCEPT ![mo] = mask]
                                   ELSE OpaqueOf(x)
    OBVIOUS
<1>3. CASE x \in pathInputs[s]
    <2>1. OpaqueOf(x) = [m \in MemoryObjects |-> HiddenBy(s, m)]
        BY <1>1, <1>3 DEF CarriedViews
    <2>2. OpaqueOf(x)' = [m \in MemoryObjects |-> HiddenBy(s, m)']
        BY <1>2, <1>3, Zenon DEF CarriedViews
    <2>3. \A m \in MemoryObjects : HiddenBy(s, m)' = IF m = mo THEN mask ELSE HiddenBy(s, m)
        OBVIOUS
    <2> QED
        BY <1>3, <2>1, <2>2, <2>3
<1>4. CASE x \notin pathInputs[s]
    <2>1. CASE \E r \in live : x \in pathInputs[r]
        <3> PICK r \in live : x \in pathInputs[r]
            BY <2>1
        <3>1. OpaqueOf(x) = [m \in MemoryObjects |-> HiddenBy(r, m)]
            BY <1>1 DEF CarriedViews
        <3>2. OpaqueOf(x)' = [m \in MemoryObjects |-> HiddenBy(r, m)']
            BY <1>2, Zenon DEF CarriedViews
        <3>3. \A m \in MemoryObjects : HiddenBy(r, m)' = HiddenBy(r, m)
            BY <1>4
        <3> QED
            BY <1>4, <3>1, <3>2, <3>3
    <2>2. CASE \A r \in live : x \notin pathInputs[r]
        <3>1. OpaqueOf(x) = [m \in MemoryObjects |-> {}]
            BY <1>1, <2>2 DEF CarriedViews
        <3>2. OpaqueOf(x)' = [m \in MemoryObjects |-> {}]
            BY <1>2, <2>2, Zenon DEF CarriedViews
        <3> QED
            BY <1>4, <3>1, <3>2
    <2> QED
        BY <2>1, <2>2
<1> QED
    BY <1>3, <1>4

(* And for an instruction that hides or shows nothing. *)
LEMMA SameOpaque ==
    ASSUME RefinementInv, PathsAreDisjoint', UNCHANGED <<live, pathInputs>>,
           \A r \in live, m \in MemoryObjects : HiddenBy(r, m)' = HiddenBy(r, m)
    PROVE  \A x \in Inputs : OpaqueOf(x)' = OpaqueOf(x)
<1>1. CarriedViews
    BY CarriedByOne DEF RefinementInv
<1>2. CarriedViews'
    <2>1. PathsAreDisjoint' => CarriedViews'
        BY CarriedByOne, PTL
    <2> QED
        BY <2>1
<1> SUFFICES ASSUME NEW x \in Inputs PROVE OpaqueOf(x)' = OpaqueOf(x)
    OBVIOUS
<1>3. CASE \E r \in live : x \in pathInputs[r]
    <2> PICK r \in live : x \in pathInputs[r]
        BY <1>3
    <2>1. OpaqueOf(x) = [m \in MemoryObjects |-> HiddenBy(r, m)]
        BY <1>1 DEF CarriedViews
    <2>2. OpaqueOf(x)' = [m \in MemoryObjects |-> HiddenBy(r, m)']
        BY <1>2, Zenon DEF CarriedViews
    <2> QED
        BY <2>1, <2>2
<1>4. CASE \A r \in live : x \notin pathInputs[r]
    <2>1. OpaqueOf(x) = [m \in MemoryObjects |-> {}]
        BY <1>1, <1>4 DEF CarriedViews
    <2>2. OpaqueOf(x)' = [m \in MemoryObjects |-> {}]
        BY <1>2, <1>4, Zenon DEF CarriedViews
    <2> QED
        BY <2>1, <2>2
<1> QED
    BY <1>3, <1>4

(* An instruction that leaves the registers alone. *)
LEMMA SameRegisters ==
    ASSUME RefinementInv, PathsAreDisjoint', UNCHANGED <<live, pathInputs, registers>>
    PROVE  \A x \in Inputs : RegisterOf(x)' = RegisterOf(x)
BY DEF RegisterOf, Carrier

(* New contents of one object in one state. *)
RebindsOne(s, mo, c) == Rebind(s, {mo}, [m \in {mo} |-> c])

(* The inputs of s see bytes in mo, and nothing else changes. *)
ViewsAfter(s, mo, bytes) ==
    \A r \in live, m \in MemoryObjects, x \in Inputs :
        BytesOf(r, m, x)' = IF r = s /\ m = mo THEN bytes[x] ELSE BytesOf(r, m, x)

HiddenAfter(s, mo, mask) ==
    \A r \in live, m \in MemoryObjects :
        HiddenBy(r, m)' = IF r = s /\ m = mo THEN mask ELSE HiddenBy(r, m)

(* What of the invariant speaks of contents and constraints. *)
PartsKept == UpdatesAreCoherent' /\ ReadOnlyContents' /\ PathsAreDisjoint' /\ PathsAreNotEmpty'

(* The bytes of contents, for each input. *)
AllBytes(c) == [x \in Inputs |-> [o \in Offsets |-> Read8(c, o)[x]]]

(* Writing one object of a state changes what its inputs see there. *)
LEMMA RebindOneViews ==
    ASSUME RefinementInv, UNCHANGED <<program, live, pathInputs>>,
           NEW s \in live, NEW mo \in MemoryObjects, mo \notin ReadOnlyObjects,
           NEW c, Coherent(c), ~c.readOnly, RebindsOne(s, mo, c)
    PROVE  PartsKept /\ ViewsAfter(s, mo, AllBytes(c)) /\ HiddenAfter(s, mo, Offsets \ c.concreteMask)
<1> DEFINE os == [m \in {mo} |-> c]
           M == {mo}
<1>1. /\ M \in SUBSET MemoryObjects /\ os[mo] = c
      /\ WritableBy(M, os)
    BY DEF WritableBy
<1>2. Rebind(s, M, os)
    BY DEF RebindsOne
<1>3. \A m : m \in M <=> m = mo
    OBVIOUS
<1> HIDE DEF os, M
<1>4. /\ live \subseteq States /\ s \in States
      /\ objects \in [States -> [MemoryObjects -> Slots \cup {NoSlot}]]
    BY DEF RefinementInv, MemoryInv, MemoryTypeOK
<1>5. \A m \in MemoryObjects : SlotFor(s, m) \in Slots
    BY SlotForIsOwn DEF RefinementInv, MemoryInv
<1>6. objects' = BoundBy(s, M) /\ heap' = Collect(Written(s, M, os), objects')
    BY <1>2 DEF Rebind
<1>7. objects' \in [States -> [MemoryObjects -> Slots \cup {NoSlot}]]
    BY <1>4, <1>5, <1>6 DEF BoundBy
<1>8. \A r \in States, m \in MemoryObjects :
          objects'[r][m] = IF r = s /\ m \in M THEN SlotFor(s, m) ELSE objects[r][m]
    BY <1>4, <1>6 DEF BoundBy
<1>9. \A r \in States, m \in MemoryObjects : objects'[r][m] \in {BoundBy(s, M)[r][m], NoSlot}
    BY <1>6
<1>10. /\ UpdatesAreCoherent' /\ ReadOnlyContents'
       /\ \A r \in live', m \in MemoryObjects, x \in Inputs : objects'[r][m] # NoSlot =>
             BytesOf(r, m, x)' = IF r = s /\ m \in M THEN [o \in Offsets |-> Read8(os[m], o)[x]]
                                 ELSE BytesOf(r, m, x)
       /\ \A r \in live', m \in MemoryObjects : objects'[r][m] # NoSlot =>
             HiddenBy(r, m)' = IF r = s /\ m \in M THEN Offsets \ os[m].concreteMask
                               ELSE HiddenBy(r, m)
    BY <1>1, <1>6, <1>7, <1>9, RebindCoherent
<1>11. PathsAreDisjoint' /\ PathsAreNotEmpty'
    BY DEF RefinementInv, PathsAreDisjoint, PathsAreNotEmpty
<1>12. ASSUME NEW r \in live, NEW m \in MemoryObjects, NEW x \in Inputs
       PROVE  BytesOf(r, m, x)' = IF r = s /\ m = mo THEN [o \in Offsets |-> Read8(c, o)[x]]
                                  ELSE BytesOf(r, m, x)
    <2>1. r \in live' /\ r \in States
        BY <1>4
    <2>2. CASE objects'[r][m] # NoSlot
        BY <1>1, <1>3, <1>10, <2>1, <2>2
    <2>3. CASE objects'[r][m] = NoSlot
        <3>1. SlotFor(s, m) # NoSlot
            BY <1>5 DEF Slots, NoSlot
        <3>2. ~(r = s /\ m = mo) /\ objects[r][m] = NoSlot
            BY <1>3, <1>8, <2>1, <2>3, <3>1
        <3>3. BytesOf(r, m, x)' = << >>
            BY <2>3 DEF BytesOf, Bound
        <3>4. BytesOf(r, m, x) = << >>
            BY <3>2 DEF BytesOf, Bound
        <3> QED
            BY <3>2, <3>3, <3>4
    <2> QED
        BY <2>2, <2>3
<1>13. ASSUME NEW r \in live, NEW m \in MemoryObjects
       PROVE  HiddenBy(r, m)' = IF r = s /\ m = mo THEN Offsets \ c.concreteMask ELSE HiddenBy(r, m)
    <2>1. r \in live' /\ r \in States
        BY <1>4
    <2>2. CASE objects'[r][m] # NoSlot
        BY <1>1, <1>3, <1>10, <2>1, <2>2
    <2>3. CASE objects'[r][m] = NoSlot
        <3>1. SlotFor(s, m) # NoSlot
            BY <1>5 DEF Slots, NoSlot
        <3>2. ~(r = s /\ m = mo) /\ objects[r][m] = NoSlot
            BY <1>3, <1>8, <2>1, <2>3, <3>1
        <3>3. HiddenBy(r, m)' = {}
            BY <2>3 DEF HiddenBy, Bound
        <3>4. HiddenBy(r, m) = {}
            BY <3>2 DEF HiddenBy, Bound
        <3> QED
            BY <3>2, <3>3, <3>4
    <2> QED
        BY <2>2, <2>3
<1> QED
    BY <1>10, <1>11, <1>12, <1>13 DEF ViewsAfter, HiddenAfter, AllBytes, PartsKept

(* Views stay when neither contents nor references change. *)
LEMMA UnchangedViews ==
    ASSUME RefinementInv, UNCHANGED <<program, live, pathInputs, objects, heap>>
    PROVE  /\ PartsKept
           /\ \A r \in live, m \in MemoryObjects, x \in Inputs : BytesOf(r, m, x)' = BytesOf(r, m, x)
           /\ \A r \in live, m \in MemoryObjects : HiddenBy(r, m)' = HiddenBy(r, m)
<1>1. UpdatesAreCoherent' /\ ReadOnlyContents'
    BY DEF RefinementInv, UpdatesAreCoherent, ReadOnlyContents, Bound, FindObject
<1>2. PathsAreDisjoint' /\ PathsAreNotEmpty'
    BY DEF RefinementInv, PathsAreDisjoint, PathsAreNotEmpty
<1> QED
    BY <1>1, <1>2 DEF PartsKept, BytesOf, HiddenBy, Bound, FindObject

-----------------------------------------------------------------------------
(***************************************************************************)
(* Steps.  Each keeps the invariant, and is a step of ConcreteMemory.      *)
(***************************************************************************)
Simulated == PartsKept /\ ByInput!Next

(* What ConcreteMemory takes from an instruction that is executed. *)
LEMMA ExecutingMapped ==
    ASSUME current # Idle, NEW op, instruction.op = op, op # "none"
    PROVE  /\ ByInput!Executing(op)
           /\ \A x \in Inputs : /\ ByInput!Before(x) = MemoryOf(x)[instruction.mo]
                                /\ ByInput!At(x) = instruction.index[x]
<1>1. instruction # NoInstruction
    BY DEF NoInstruction
<1> QED
    BY <1>1 DEF ByInput!Executing, ByInput!Before, ByInput!At

LEMMA DoneMapped ==
    ASSUME current' = Idle PROVE ByInput!Executed
BY DEF ByInput!Executed

(* The paths that have ended are those that no state carries. *)
LEMMA SameEnded ==
    ASSUME UNCHANGED <<live, pathInputs>>
    PROVE  {x \in Inputs : Carrier(x) = {}}' = {x \in Inputs : Carrier(x) = {}}
BY DEF Carrier

(* An instruction sets the register of the inputs that execute it. *)
LEMMA RegisterSimulated ==
    ASSUME RefinementInv, PartsKept, current \in live, current # Idle, Done, UNCHANGED live,
           \A r \in live, m \in MemoryObjects, x \in Inputs : BytesOf(r, m, x)' = BytesOf(r, m, x),
           \A r \in live, m \in MemoryObjects : HiddenBy(r, m)' = HiddenBy(r, m),
           NEW e, registers' = [registers EXCEPT ![current] = e],
           NEW value, \A x \in Inputs : x \in pathInputs[current] => value[x] = e[x]
    PROVE  ByInput!RegisterBecomes(value) /\ ByInput!Executed
<1>1. UNCHANGED <<live, pathInputs>> /\ current' = Idle /\ PathsAreDisjoint'
    BY DEF Done, PartsKept
<1>2. \A x \in Inputs : MemoryOf(x)' = MemoryOf(x) /\ OpaqueOf(x)' = OpaqueOf(x)
    BY <1>1, SameViews, SameOpaque
<1>3. \A x \in Inputs : RegisterOf(x)' = IF x \in pathInputs[current] THEN value[x] ELSE RegisterOf(x)
    BY <1>1, InstructionRegisters
<1>4. {x \in Inputs : Carrier(x) = {}}' = {x \in Inputs : Carrier(x) = {}}
    BY <1>1, SameEnded
<1> QED
    BY <1>1, <1>2, <1>3, <1>4, DoneMapped DEF ByInput!RegisterBecomes

(* The memory of the inputs for which an instruction is executed. *)
LEMMA RunningViews ==
    ASSUME RefinementInv, NEW s \in live, NEW mo \in MemoryObjects, NEW x \in Inputs, x \in pathInputs[s]
    PROVE  MemoryOf(x)[mo] = BytesOf(s, mo, x) /\ RegisterOf(x) = registers[s][x]
BY CarriedByOne DEF RefinementInv, CarriedViews

(* A constant in the register is one for every input. *)
LEMMA SetSimulated == ASSUME RefinementInv, Set PROVE Simulated
<1>1. /\ current \in live /\ current # Idle /\ instruction.op = "set"
      /\ Done /\ UNCHANGED <<live, symbolics, objects, heap>>
      /\ registers' = [registers EXCEPT ![current] = Constant(instruction.value)]
    BY ExecutingFacts DEF Set, RefinementInv, Executing
<1>2. UNCHANGED <<program, live, pathInputs, objects, heap>>
    BY <1>1 DEF Done
<1>3. /\ PartsKept
      /\ \A r \in live, m \in MemoryObjects, x \in Inputs : BytesOf(r, m, x)' = BytesOf(r, m, x)
      /\ \A r \in live, m \in MemoryObjects : HiddenBy(r, m)' = HiddenBy(r, m)
    BY <1>2, UnchangedViews
<1>4. ByInput!RegisterBecomes([x \in Inputs |-> instruction.value]) /\ ByInput!Executed
    <2> DEFINE value == [x \in Inputs |-> instruction.value]
    <2>1. \A x \in Inputs : x \in pathInputs[current] => value[x] = Constant(instruction.value)[x]
        BY DEF Constant
    <2> HIDE DEF value
    <2>2. ByInput!RegisterBecomes(value) /\ ByInput!Executed
        BY <1>1, <1>3, <2>1, RegisterSimulated
    <2> QED
        BY <2>2 DEF value
<1>5. ByInput!Set
    BY <1>1, <1>4, ExecutingMapped DEF ByInput!Set
<1> QED
    BY <1>3, <1>5 DEF Simulated, ByInput!Next

(* An instruction that writes its object in the state that executes it. *)
LEMMA WriteSimulated ==
    ASSUME RefinementInv, current \in live, current # Idle, Done, UNCHANGED <<live, registers>>,
           instruction.mo \in MemoryObjects, NEW bytes, NEW written, PartsKept,
           ViewsAfter(current, instruction.mo, written),
           \A x \in Inputs : x \in pathInputs[current] => bytes[x] = written[x]
    PROVE  ByInput!Become(bytes) /\ ByInput!Executed
<1>1. current' = Idle /\ UNCHANGED <<program, instruction, live, pathInputs, registers>>
      /\ PathsAreDisjoint'
    BY DEF Done, PartsKept
<1>2. \A x \in Inputs : RegisterOf(x)' = RegisterOf(x)
    BY <1>1, SameRegisters
<1>3. \A x \in Inputs : MemoryOf(x)' = IF x \in pathInputs[current]
                                       THEN [MemoryOf(x) EXCEPT ![instruction.mo] = written[x]]
                                       ELSE MemoryOf(x)
    <2> PICK s \in live, mo \in MemoryObjects : s = current /\ mo = instruction.mo
        OBVIOUS
    <2>1. \A r \in live, m \in MemoryObjects, x \in Inputs :
              BytesOf(r, m, x)' = IF r = s /\ m = mo THEN written[x] ELSE BytesOf(r, m, x)
        BY DEF ViewsAfter
    <2> QED
        BY <1>1, <2>1, InstructionViews
<1>4. \A x \in Inputs : MemoryOf(x)' = IF x \in pathInputs[current]
                                       THEN [MemoryOf(x) EXCEPT ![instruction.mo] = bytes[x]]
                                       ELSE MemoryOf(x)
    BY <1>3
<1>5. {x \in Inputs : Carrier(x) = {}}' = {x \in Inputs : Carrier(x) = {}}
    BY <1>1, SameEnded
<1> QED
    BY <1>1, <1>2, <1>4, <1>5, DoneMapped DEF ByInput!Become

(* What is hidden after a write, for each input that executes it. *)
LEMMA OpaqueAfter ==
    ASSUME RefinementInv, current \in live, Done, UNCHANGED live, PartsKept,
           instruction.mo \in MemoryObjects, NEW mask, HiddenAfter(current, instruction.mo, mask)
    PROVE  \A x \in Inputs : OpaqueOf(x)' = IF x \in pathInputs[current]
                                            THEN [OpaqueOf(x) EXCEPT ![instruction.mo] = mask]
                                            ELSE OpaqueOf(x)
<1>1. UNCHANGED <<live, pathInputs>> /\ PathsAreDisjoint'
    BY DEF Done, PartsKept
<1> PICK s \in live, mo \in MemoryObjects : s = current /\ mo = instruction.mo
    OBVIOUS
<1>2. \A r \in live, m \in MemoryObjects :
          HiddenBy(r, m)' = IF r = s /\ m = mo THEN mask ELSE HiddenBy(r, m)
    BY DEF HiddenAfter
<1> QED
    BY <1>1, <1>2, InstructionOpaque

LEMMA HidesSimulated ==
    ASSUME RefinementInv, current \in live, current # Idle, Done, UNCHANGED live, PartsKept,
           instruction.mo \in MemoryObjects, NEW mask, HiddenAfter(current, instruction.mo, mask)
    PROVE  ByInput!Hides(mask)
<1>1. \A x \in Inputs : OpaqueOf(x)' = IF x \in pathInputs[current]
                                       THEN [OpaqueOf(x) EXCEPT ![instruction.mo] = mask]
                                       ELSE OpaqueOf(x)
    BY OpaqueAfter
<1> QED
    BY <1>1 DEF ByInput!Hides

(* The masks that are seen by input are sets of offsets. *)
LEMMA OpaqueType ==
    /\ \A x \in Inputs : OpaqueOf(x) \in [MemoryObjects -> SUBSET Offsets]
    /\ \A x \in Inputs : OpaqueOf(x)' \in [MemoryObjects -> SUBSET Offsets]
    /\ [x \in Inputs |-> OpaqueOf(x)]' \in ByInput!Masks
<1>1. \A x \in Inputs : OpaqueOf(x) \in [MemoryObjects -> SUBSET Offsets]
    BY DEF OpaqueOf
<1>2. \A x \in Inputs : OpaqueOf(x)' \in [MemoryObjects -> SUBSET Offsets]
    BY DEF OpaqueOf
<1> QED
    BY <1>1, <1>2 DEF ByInput!Masks

(* The bytes at offsets outside S stay hidden, or seen. *)
LEMMA MayHideSimulated ==
    ASSUME RefinementInv, current \in live, current # Idle, Done, UNCHANGED live, PartsKept,
           instruction.mo \in MemoryObjects, NEW mask, HiddenAfter(current, instruction.mo, mask),
           NEW S, mask \ S = HiddenBy(current, instruction.mo) \ S
    PROVE  ByInput!MayHide(S)
<1>1. \A x \in Inputs : OpaqueOf(x)' = IF x \in pathInputs[current]
                                       THEN [OpaqueOf(x) EXCEPT ![instruction.mo] = mask]
                                       ELSE OpaqueOf(x)
    BY OpaqueAfter
<1>2. \A x \in Inputs : x \in pathInputs[current] =>
          OpaqueOf(x)[instruction.mo] = HiddenBy(current, instruction.mo)
    BY CarriedByOne DEF RefinementInv, CarriedViews
<1>3. \A x \in Inputs : OpaqueOf(x) \in [MemoryObjects -> SUBSET Offsets]
    BY OpaqueType
<1>4. ASSUME NEW x \in Inputs, NEW m \in MemoryObjects
      PROVE  IF x \in pathInputs[current] /\ m = instruction.mo
             THEN OpaqueOf(x)'[m] \ S = OpaqueOf(x)[m] \ S
             ELSE OpaqueOf(x)'[m] = OpaqueOf(x)[m]
    BY <1>1, <1>2, <1>3
<1> QED
    BY <1>4, OpaqueType DEF ByInput!MayHide

(* A store is a store for every input of the state. *)
LEMMA StoreSimulated == ASSUME RefinementInv, Store PROVE Simulated
<1> DEFINE mo == instruction.mo
           index == instruction.index
           os == FindObject(current, mo)
           e == registers[current]
           c == IF IsConstantIndex(index) THEN Write8(os, OffsetOf(index), e) ELSE Write8At(os, index, e)
<1>1. /\ current \in live /\ current \in States /\ current # Idle
      /\ instruction \in Instructions /\ instruction.op = "store" /\ Uses(instruction)
      /\ mo \in MemoryObjects /\ Bound(current, mo) /\ e \in Expr
    BY ExecutingFacts DEF Store, RefinementInv, Executing
<1>2. index \in [Inputs -> Offsets]
    BY <1>1, InstructionFields
<1>3. os \in AgreeingContents /\ ("index" \in program \/ Unflushed(os))
    BY <1>1, BoundIsCoherent DEF Coherent
<1>31. ~os.readOnly /\ mo \notin ReadOnlyObjects /\ os \in ObjectStates
    BY <1>1, <1>3 DEF Store, RefinementInv, ReadOnlyContents, AgreeingContents, ValidContents
<1> DEFINE touched == IF \A x, y \in Inputs : index[x] = index[y] THEN {index[x] : x \in Inputs}
                      ELSE Offsets
<1>4. /\ Coherent(c) /\ ~c.readOnly
      /\ \A o \in Offsets, x \in Inputs : Read8(c, o)[x] = IF o = index[x] THEN e[x] ELSE Read8(os, o)[x]
      /\ (Offsets \ c.concreteMask) \ touched = (Offsets \ os.concreteMask) \ touched
    <2> HIDE DEF index, os, e
    <2>1. CASE IsConstantIndex(index)
        <3>1. OffsetOf(index) \in Offsets /\ index = [x \in Inputs |-> OffsetOf(index)]
            BY <2>1, OffsetOfType DEF IsConstantIndex
        <3>2. /\ \A p \in Offsets : Read8(c, p) = IF p = OffsetOf(index) THEN e ELSE Read8(os, p)
              /\ c \in AgreeingContents
              /\ Unflushed(os) => Unflushed(c)
            BY <1>1, <1>3, <2>1, <3>1, Write8Reads DEF e
        <3>3. \A x \in Inputs : index[x] = OffsetOf(index)
            BY <3>1
        <3>4. c = Write8(os, OffsetOf(index), e)
            BY <2>1
        <3>5. /\ c.readOnly = os.readOnly
              /\ c.concreteMask \in {os.concreteMask \cup {OffsetOf(index)}, os.concreteMask \ {OffsetOf(index)}}
            BY <1>31, <3>1, <3>4, Write8Masks
        <3>6. OffsetOf(index) \in touched
            BY <3>1, <3>3, AddressSpaceAssumption
        <3>7. (Offsets \ c.concreteMask) \ touched = (Offsets \ os.concreteMask) \ touched
            BY <3>5, <3>6
        <3> QED
            BY <1>3, <1>31, <3>2, <3>3, <3>5, <3>7 DEF Coherent
    <2>2. CASE ~IsConstantIndex(index)
        <3>1. c = Write8At(os, index, e)
            BY <2>2
        <3>2. ~c.readOnly
            BY <1>31, <3>1, Write8AtMasks
        <3>3. touched = Offsets
            <4> SUFFICES ASSUME \A x, y \in Inputs : index[x] = index[y] PROVE FALSE
                OBVIOUS
            <4> PICK z \in Inputs : TRUE
                BY AddressSpaceAssumption
            <4>1. index[z] \in Offsets /\ index = [x \in Inputs |-> index[z]]
                BY <1>2
            <4> QED
                BY <2>2, <4>1 DEF IsConstantIndex, ConstantIndices
        <3>4. (Offsets \ c.concreteMask) \ touched = (Offsets \ os.concreteMask) \ touched
            BY <3>3
        <3>5. /\ Coherent(c)
              /\ \A o \in Offsets, x \in Inputs : Read8(c, o)[x] = IF o = index[x] THEN e[x] ELSE Read8(os, o)[x]
            BY <1>1, <1>2, <1>3, <2>2, Write8AtReads DEF Coherent, e
        <3> QED
            BY <3>2, <3>4, <3>5
    <2> QED
        BY <2>1, <2>2
<1>5. RebindsOne(current, mo, c) /\ Done /\ UNCHANGED <<live, registers>>
    BY DEF Store, RebindsOne
<1> HIDE DEF c
<1>6. UNCHANGED <<program, live, pathInputs>>
    BY <1>5 DEF Done
<1>7. PartsKept /\ ViewsAfter(current, mo, AllBytes(c)) /\ HiddenAfter(current, mo, Offsets \ c.concreteMask)
    BY <1>1, <1>31, <1>4, <1>5, <1>6, RebindOneViews
<1> DEFINE bytes == [x \in Inputs |-> [ByInput!Before(x) EXCEPT ![ByInput!At(x)] = RegisterOf(x)]]
           stored == AllBytes(c)
<1>8. \A x \in Inputs : x \in pathInputs[current] => bytes[x] = stored[x]
    <2> SUFFICES ASSUME NEW x \in Inputs, x \in pathInputs[current] PROVE bytes[x] = stored[x]
        OBVIOUS
    <2>1. MemoryOf(x)[mo] = BytesOf(current, mo, x) /\ RegisterOf(x) = e[x]
        BY <1>1, RunningViews
    <2>2. BytesOf(current, mo, x) = [o \in Offsets |-> Read8(os, o)[x]]
        BY <1>1 DEF BytesOf
    <2>3. bytes[x] = [[o \in Offsets |-> Read8(os, o)[x]] EXCEPT ![index[x]] = e[x]]
        BY <1>1, <2>1, <2>2, ExecutingMapped
    <2>4. \A o \in Offsets : Read8(c, o)[x] = IF o = index[x] THEN e[x] ELSE Read8(os, o)[x]
        BY <1>4
    <2>5. stored[x] = [o \in Offsets |-> Read8(c, o)[x]] /\ index[x] \in Offsets
        BY <1>2 DEF AllBytes
    <2> HIDE DEF os, e, index, mo, bytes, stored
    <2> QED
        BY <2>3, <2>4, <2>5
<1> HIDE DEF bytes, stored
<1>9. ViewsAfter(current, mo, stored)
    BY <1>7 DEF stored
<1>10. ByInput!Become(bytes) /\ ByInput!Executed
    BY <1>1, <1>5, <1>7, <1>8, <1>9, WriteSimulated
<1>11. ByInput!MayHide(touched)
    <2>1. HiddenBy(current, mo) = Offsets \ os.concreteMask
        BY <1>1 DEF HiddenBy
    <2>2. (Offsets \ c.concreteMask) \ touched = HiddenBy(current, mo) \ touched
        BY <1>4, <2>1
    <2> HIDE DEF touched
    <2> QED
        BY <1>1, <1>5, <1>7, <2>2, MayHideSimulated
<1>12. touched = IF \A x, y \in Inputs : ByInput!At(x) = ByInput!At(y) THEN {ByInput!At(x) : x \in Inputs}
                 ELSE Offsets
    BY <1>1, ExecutingMapped
<1>13. ByInput!Executing("store")
    BY <1>1, ExecutingMapped
<1>14. ByInput!Store
    BY <1>1, <1>31, <1>10, <1>11, <1>12, <1>13 DEF ByInput!Store, bytes
<1> QED
    BY <1>7, <1>14 DEF Simulated, ByInput!Next

(* What the register becomes is what each input has at its offset. *)
LEMMA LoadSimulated ==
    ASSUME RefinementInv, PartsKept, current \in live, current # Idle, instruction.op = "load",
           Done, UNCHANGED live,
           \A r \in live, m \in MemoryObjects, x \in Inputs : BytesOf(r, m, x)' = BytesOf(r, m, x),
           \A r \in live, m \in MemoryObjects : HiddenBy(r, m)' = HiddenBy(r, m),
           NEW e, registers' = [registers EXCEPT ![current] = e],
           \A x \in Inputs : x \in pathInputs[current] =>
               MemoryOf(x)[instruction.mo][instruction.index[x]] = e[x]
    PROVE  ByInput!Load
<1> DEFINE value == [x \in Inputs |-> ByInput!Before(x)[ByInput!At(x)]]
<1>1. ByInput!Executing("load")
    BY ExecutingMapped
<1>2. \A x \in Inputs : x \in pathInputs[current] => value[x] = e[x]
    BY ExecutingMapped
<1> HIDE DEF value
<1>3. ByInput!RegisterBecomes(value) /\ ByInput!Executed
    BY <1>2, RegisterSimulated
<1> QED
    BY <1>1, <1>3 DEF ByInput!Load, value

(* A load at a constant offset is a load for every input of the state. *)
LEMMA LoadAtConstantSimulated == ASSUME RefinementInv, LoadAtConstant PROVE Simulated
<1> DEFINE mo == instruction.mo
           index == instruction.index
           os == FindObject(current, mo)
           e == Read8(os, OffsetOf(index))
<1>1. /\ current \in live /\ current # Idle /\ instruction.op = "load"
      /\ mo \in MemoryObjects /\ Bound(current, mo)
      /\ Done /\ UNCHANGED <<live, symbolics, objects, heap>>
      /\ IsConstantIndex(index) /\ registers' = [registers EXCEPT ![current] = e]
    BY ExecutingFacts DEF LoadAtConstant, RefinementInv, Executing
<1>2. OffsetOf(index) \in Offsets /\ index = [x \in Inputs |-> OffsetOf(index)]
    BY <1>1, OffsetOfType DEF IsConstantIndex
<1>3. UNCHANGED <<program, live, pathInputs, objects, heap>>
    BY <1>1 DEF Done
<1>4. /\ PartsKept
      /\ \A r \in live, m \in MemoryObjects, x \in Inputs : BytesOf(r, m, x)' = BytesOf(r, m, x)
      /\ \A r \in live, m \in MemoryObjects : HiddenBy(r, m)' = HiddenBy(r, m)
    BY <1>3, UnchangedViews
<1>6. \A x \in Inputs : x \in pathInputs[current] => MemoryOf(x)[mo][index[x]] = e[x]
    <2> SUFFICES ASSUME NEW x \in Inputs, x \in pathInputs[current] PROVE MemoryOf(x)[mo][index[x]] = e[x]
        OBVIOUS
    <2>1. MemoryOf(x)[mo] = BytesOf(current, mo, x)
        BY <1>1, RunningViews
    <2>2. BytesOf(current, mo, x) = [o \in Offsets |-> Read8(os, o)[x]]
        BY <1>1 DEF BytesOf
    <2>3. index[x] = OffsetOf(index)
        BY <1>2
    <2> QED
        BY <1>2, <2>1, <2>2, <2>3
<1> HIDE DEF e
<1>7. ByInput!Load
    BY <1>1, <1>4, <1>6, LoadSimulated DEF mo, index
<1> QED
    BY <1>4, <1>7 DEF Simulated, ByInput!Next

(* The contents are flushed for all who share them, and read the same. *)
LEMMA LoadAtSymbolicSimulated == ASSUME RefinementInv, LoadAtSymbolic PROVE Simulated
<1> DEFINE mo == instruction.mo
           index == instruction.index
           slot == objects[current][mo]
           os == FindObject(current, mo)
           new == FlushRangeForRead(os)
           e == Read8At(new, index)
<1>1. /\ current \in live /\ current \in States /\ current # Idle /\ instruction.op = "load"
      /\ instruction \in Instructions /\ Uses(instruction)
      /\ mo \in MemoryObjects /\ Bound(current, mo)
      /\ Done /\ UNCHANGED <<live, symbolics, objects>>
      /\ ~IsConstantIndex(index) /\ registers' = [registers EXCEPT ![current] = e]
      /\ heap' = [heap EXCEPT ![mo][slot] = new]
    BY ExecutingFacts DEF LoadAtSymbolic, RefinementInv, Executing
<1>2. "index" \in program /\ index \in [Inputs -> Offsets]
    BY <1>1, InstructionFields DEF Uses
<1>3. UNCHANGED <<program, live, pathInputs, objects>>
    BY <1>1 DEF Done
<1>4. /\ objects \in [States -> [MemoryObjects -> Slots \cup {NoSlot}]] /\ live \subseteq States
      /\ heap \in [MemoryObjects -> [Slots -> ObjectStates]]
    BY DEF RefinementInv, MemoryInv, MemoryTypeOK
<1>5. os \in AgreeingContents
    BY <1>1, BoundIsCoherent DEF Coherent
<1>6. /\ \A o \in Offsets : Read8(new, o) = Read8(os, o)
      /\ \A x \in Inputs : e[x] = Read8(os, index[x])[x]
      /\ UpdatesAgree(new)
      /\ new.concreteMask = os.concreteMask /\ new.readOnly = os.readOnly
    BY <1>2, <1>5, FlushRangeForReadReads, FlushRangeForReadMasks DEF AgreeingContents, ValidContents
<1>7. slot \in Slots /\ os = heap[mo][slot]
    BY <1>1, <1>4 DEF Bound, FindObject
<1> HIDE DEF mo, index, slot, os, new, e
<1>8. \A m \in MemoryObjects, i \in Slots : heap'[m][i] = IF m = mo /\ i = slot THEN new ELSE heap[m][i]
    BY <1>1, <1>4, <1>7
<1>9. ASSUME NEW r \in live, NEW m \in MemoryObjects, Bound(r, m)
      PROVE  /\ UpdatesAgree(heap'[m][objects[r][m]])
             /\ \A o \in Offsets : Read8(heap'[m][objects[r][m]], o) = Read8(FindObject(r, m), o)
             /\ heap'[m][objects[r][m]].concreteMask = FindObject(r, m).concreteMask
             /\ heap'[m][objects[r][m]].readOnly = FindObject(r, m).readOnly
    <2>1. objects[r][m] \in Slots
        BY <1>4, <1>9 DEF Bound
    <2>2. UpdatesAgree(FindObject(r, m)) /\ FindObject(r, m) = heap[m][objects[r][m]]
        BY <1>9, BoundIsCoherent DEF Coherent, AgreeingContents, FindObject
    <2> QED
        BY <1>6, <1>7, <1>8, <2>1, <2>2
<1>10. UpdatesAreCoherent'
    BY <1>2, <1>3, <1>9 DEF UpdatesAreCoherent, Bound, FindObject
<1>101. ReadOnlyContents'
    <2> SUFFICES ASSUME NEW r \in live, NEW m \in MemoryObjects, Bound(r, m)
                 PROVE  IF m \in ReadOnlyObjects
                        THEN /\ objects[r][m] = 1
                             /\ heap'[m][objects[r][m]].readOnly
                             /\ heap'[m][objects[r][m]].concreteMask = Offsets
                        ELSE ~heap'[m][objects[r][m]].readOnly
        BY <1>3 DEF ReadOnlyContents, Bound, FindObject
    <2> QED
        BY <1>9 DEF RefinementInv, ReadOnlyContents
<1>11. PathsAreDisjoint' /\ PathsAreNotEmpty'
    BY <1>3 DEF RefinementInv, PathsAreDisjoint, PathsAreNotEmpty
<1>12. \A r \in live, m \in MemoryObjects, x \in Inputs : BytesOf(r, m, x)' = BytesOf(r, m, x)
    <2> SUFFICES ASSUME NEW r \in live, NEW m \in MemoryObjects, NEW x \in Inputs
                 PROVE  BytesOf(r, m, x)' = BytesOf(r, m, x)
        OBVIOUS
    <2>1. CASE Bound(r, m)
        <3>1. BytesOf(r, m, x)' = [o \in Offsets |-> Read8(heap'[m][objects[r][m]], o)[x]]
            BY <1>3, <2>1 DEF BytesOf, Bound, FindObject
        <3>2. BytesOf(r, m, x) = [o \in Offsets |-> Read8(FindObject(r, m), o)[x]]
            BY <2>1 DEF BytesOf
        <3> QED
            BY <1>9, <2>1, <3>1, <3>2
    <2>2. CASE ~Bound(r, m)
        BY <1>3, <2>2 DEF BytesOf, Bound
    <2> QED
        BY <2>1, <2>2
<1>13. \A r \in live, m \in MemoryObjects : HiddenBy(r, m)' = HiddenBy(r, m)
    <2> SUFFICES ASSUME NEW r \in live, NEW m \in MemoryObjects
                 PROVE  HiddenBy(r, m)' = HiddenBy(r, m)
        OBVIOUS
    <2>1. CASE Bound(r, m)
        <3>1. HiddenBy(r, m)' = Offsets \ heap'[m][objects[r][m]].concreteMask
            BY <1>3, <2>1 DEF HiddenBy, Bound, FindObject
        <3> QED
            BY <1>9, <2>1, <3>1 DEF HiddenBy
    <2>2. CASE ~Bound(r, m)
        BY <1>3, <2>2 DEF HiddenBy, Bound
    <2> QED
        BY <2>1, <2>2
<1>14. PartsKept
    BY <1>10, <1>101, <1>11 DEF PartsKept
<1>15. \A x \in Inputs : x \in pathInputs[current] => MemoryOf(x)[mo][index[x]] = e[x]
    <2> SUFFICES ASSUME NEW x \in Inputs, x \in pathInputs[current] PROVE MemoryOf(x)[mo][index[x]] = e[x]
        OBVIOUS
    <2>1. MemoryOf(x)[mo] = BytesOf(current, mo, x)
        BY <1>1, RunningViews
    <2>2. BytesOf(current, mo, x) = [o \in Offsets |-> Read8(os, o)[x]]
        BY <1>1 DEF BytesOf, os
    <2> QED
        BY <1>2, <1>6, <2>1, <2>2
<1>16. ByInput!Load
    BY <1>1, <1>12, <1>13, <1>14, <1>15, LoadSimulated DEF mo, index
<1> QED
    BY <1>14, <1>16 DEF Simulated, ByInput!Next

(* An allocation is one for every input of the state. *)
(* An allocation is one for every input of the state. *)
LEMMA AllocSimulated == ASSUME RefinementInv, Alloc PROVE Simulated
<1> DEFINE mo == instruction.mo
           c == NewObjectState(instruction.value)
           bytes == [x \in Inputs |-> [o \in Offsets |-> instruction.value]]
<1>1. /\ current \in live /\ current # Idle /\ instruction \in Instructions /\ instruction.op = "alloc"
    BY ExecutingFacts DEF Alloc, RefinementInv, Executing
<1>2. mo \in MemoryObjects /\ mo \notin ReadOnlyObjects /\ instruction.value \in Bytes
    BY <1>1, InstructionFields, AddressSpaceAssumption
<1>3. /\ Coherent(c) /\ \A o \in Offsets : Read8(c, o) = Constant(instruction.value)
      /\ ~c.readOnly /\ Offsets \ c.concreteMask = {}
    BY <1>2, NewObjectStateReads DEF Coherent, NewObjectState
<1>4. RebindsOne(current, mo, c) /\ Done /\ UNCHANGED <<live, registers>>
    BY DEF Alloc, RebindsOne
<1> HIDE DEF c
<1>5. UNCHANGED <<program, live, pathInputs>>
    BY <1>4 DEF Done
<1>6. PartsKept /\ ViewsAfter(current, mo, AllBytes(c)) /\ HiddenAfter(current, mo, Offsets \ c.concreteMask)
    BY <1>1, <1>2, <1>3, <1>4, <1>5, RebindOneViews
<1>7. \A x \in Inputs : bytes[x] = AllBytes(c)[x]
    BY <1>3 DEF AllBytes, Constant
<1> DEFINE allocated == AllBytes(c)
<1> HIDE DEF bytes, allocated
<1>8. ByInput!Become(bytes) /\ ByInput!Executed
    <2>1. ViewsAfter(current, mo, allocated) /\ \A x \in Inputs : bytes[x] = allocated[x]
        BY <1>6, <1>7 DEF allocated
    <2> QED
        BY <1>1, <1>2, <1>4, <1>6, <2>1, WriteSimulated
<1>9. ByInput!Hides({})
    <2>1. HiddenAfter(current, mo, {})
        BY <1>3, <1>6
    <2> QED
        BY <1>1, <1>2, <1>4, <1>6, <2>1, HidesSimulated
<1>10. ByInput!Alloc
    BY <1>1, <1>8, <1>9, ExecutingMapped DEF ByInput!Alloc, bytes
<1> QED
    BY <1>6, <1>10 DEF Simulated, ByInput!Next

(* An object made symbolic has, for each input, the bytes of the input. *)
LEMMA MakeSymbolicSimulated == ASSUME RefinementInv, MakeSymbolic PROVE Simulated
<1> DEFINE mo == instruction.mo
           c == NewSymbolicObjectState(SymbolicArray[mo])
           bytes == SymbolicArray[mo]
<1>1. /\ current \in live /\ current # Idle /\ instruction.op = "symbolic" /\ mo \in MemoryObjects
      /\ instruction \in Instructions
    BY ExecutingFacts DEF MakeSymbolic, RefinementInv, Executing
<1>2. SymbolicArray[mo] \in [Inputs -> [Offsets -> Bytes]] /\ mo \notin ReadOnlyObjects
    BY <1>1, InstructionFields, AddressSpaceAssumption
<1>3. /\ Coherent(c) /\ \A o \in Offsets, x \in Inputs : Read8(c, o)[x] = SymbolicArray[mo][x][o]
      /\ ~c.readOnly /\ Offsets \ c.concreteMask = Offsets
    BY <1>2, NewSymbolicObjectStateReads DEF Coherent, NewSymbolicObjectState, NewObjectState
<1>4. RebindsOne(current, mo, c) /\ Done /\ UNCHANGED <<live, registers>>
    <2>1. [m \in {instruction.mo} |-> NewSymbolicObjectState(SymbolicArray[m])] = [m \in {mo} |-> c]
        OBVIOUS
    <2> QED
        BY <2>1 DEF MakeSymbolic, RebindsOne
<1> HIDE DEF c
<1>5. UNCHANGED <<program, live, pathInputs>>
    BY <1>4 DEF Done
<1>6. PartsKept /\ ViewsAfter(current, mo, AllBytes(c)) /\ HiddenAfter(current, mo, Offsets \ c.concreteMask)
    BY <1>1, <1>2, <1>3, <1>4, <1>5, RebindOneViews
<1>7. \A x \in Inputs : bytes[x] = AllBytes(c)[x]
    <2> SUFFICES ASSUME NEW x \in Inputs PROVE bytes[x] = AllBytes(c)[x]
        OBVIOUS
    <2>1. AllBytes(c)[x] = [o \in Offsets |-> SymbolicArray[mo][x][o]]
        BY <1>3 DEF AllBytes
    <2> QED
        BY <1>2, <2>1
<1> DEFINE made == AllBytes(c)
<1> HIDE DEF bytes, made
<1>8. ByInput!Become(bytes) /\ ByInput!Executed
    <2>1. ViewsAfter(current, mo, made) /\ \A x \in Inputs : bytes[x] = made[x]
        BY <1>6, <1>7 DEF made
    <2> QED
        BY <1>1, <1>4, <1>6, <2>1, WriteSimulated
<1>9. ByInput!Hides(Offsets)
    <2>1. HiddenAfter(current, mo, Offsets)
        BY <1>3, <1>6
    <2> QED
        BY <1>1, <1>4, <1>6, <2>1, HidesSimulated
<1>10. ByInput!MakeSymbolic
    BY <1>1, <1>8, <1>9, ExecutingMapped DEF ByInput!MakeSymbolic, bytes
<1> QED
    BY <1>6, <1>10 DEF Simulated, ByInput!Next

(* A byte that a function wrote and nothing more: the step of CallExternal *)
(* as one write, whether or not it changed the contents.                   *)
LEMMA CallExternalSimulated ==
    ASSUME NoIndexWithExternal, RefinementInv, CallExternal PROVE Simulated
<1> DEFINE mo == instruction.mo
           index == instruction.index
           o == OffsetOf(index)
           v == instruction.value
           os == FindObject(current, mo)
           c == ExternalWrite(os)
<1>1. /\ current \in live /\ current # Idle /\ instruction \in Instructions /\ instruction.op = "external"
      /\ Uses(instruction) /\ mo \in MemoryObjects /\ Bound(current, mo)
    BY ExecutingFacts DEF CallExternal, RefinementInv, Executing
<1>2. index \in ConstantIndices /\ v \in Bytes
    BY <1>1, InstructionFields
<1>3. o \in Offsets /\ index = [x \in Inputs |-> o] /\ \A x \in Inputs : index[x] = o
    BY <1>2, OffsetOfType
<1>4. "index" \notin program
    BY <1>1 DEF Uses, NoIndexWithExternal, RefinementInv
<1>5. os \in AgreeingContents /\ Unflushed(os) /\ os \in ObjectStates
    BY <1>1, <1>4, BoundIsCoherent DEF Coherent
<1>6. c = [os EXCEPT !.concreteStore[o] = v]
    BY DEF ExternalWrite
<1>7. /\ \A p \in Offsets : Read8(c, p) = IF p = o /\ IsByteConcrete(os, o) THEN Constant(v) ELSE Read8(os, p)
      /\ Coherent(c)
      /\ c.concreteMask = os.concreteMask /\ c.readOnly = os.readOnly
      /\ c = os => os.concreteStore[o] = v
    <2> HIDE DEF os, c, o, v
    <2> QED BY <1>2, <1>3, <1>5, <1>6, StoreChangeReads, StoreChangeMasks DEF Coherent, v
<1>8. /\ IF c = os THEN UNCHANGED <<objects, heap>> ELSE ~os.readOnly /\ RebindsOne(current, mo, c)
      /\ Done /\ UNCHANGED <<live, registers>>
    BY DEF CallExternal, RebindsOne
<1> HIDE DEF c
<1>9. UNCHANGED <<program, live, pathInputs, registers, instruction>> /\ current' = Idle
    BY <1>8 DEF Done
<1>10. \A x \in Inputs : BytesOf(current, mo, x) = [p \in Offsets |-> Read8(os, p)[x]]
    BY <1>1 DEF BytesOf
<1>101. HiddenBy(current, mo) = Offsets \ os.concreteMask
    BY <1>1 DEF HiddenBy
<1>102. os.readOnly => c = os
    BY <1>8
<1>103. mo \in ReadOnlyObjects => os.readOnly /\ os.concreteMask = Offsets
    BY <1>1 DEF RefinementInv, ReadOnlyContents
<1>11. /\ PartsKept /\ ViewsAfter(current, mo, AllBytes(c))
       /\ \A r \in live, m \in MemoryObjects : HiddenBy(r, m)' = HiddenBy(r, m)
    <2>1. CASE c = os
        <3>1. /\ PartsKept
              /\ \A r \in live, m \in MemoryObjects, x \in Inputs : BytesOf(r, m, x)' = BytesOf(r, m, x)
              /\ \A r \in live, m \in MemoryObjects : HiddenBy(r, m)' = HiddenBy(r, m)
            BY <1>8, <1>9, <2>1, UnchangedViews
        <3>2. \A x \in Inputs : AllBytes(c)[x] = BytesOf(current, mo, x)
            BY <1>10, <2>1 DEF AllBytes
        <3> HIDE DEF mo, os
        <3> QED
            BY <3>1, <3>2 DEF ViewsAfter
    <2>2. CASE c # os
        <3>1. RebindsOne(current, mo, c) /\ ~c.readOnly /\ mo \notin ReadOnlyObjects
            BY <1>7, <1>8, <1>102, <1>103, <2>2
        <3>2. PartsKept /\ ViewsAfter(current, mo, AllBytes(c)) /\ HiddenAfter(current, mo, Offsets \ c.concreteMask)
            BY <1>1, <1>7, <1>9, <3>1, RebindOneViews
        <3>3. Offsets \ c.concreteMask = HiddenBy(current, mo)
            BY <1>7, <1>101
        <3> HIDE DEF mo, os
        <3> QED
            BY <3>2, <3>3 DEF HiddenAfter
    <2> QED
        BY <2>1, <2>2
<1> DEFINE bytes == [x \in Inputs |-> [ByInput!Before(x) EXCEPT ![ByInput!At(x)] =
                                         IF ByInput!Seen(x) THEN v ELSE @]]
           left == AllBytes(c)
<1>12. ASSUME NEW x \in Inputs, x \in pathInputs[current]
       PROVE  /\ ByInput!Before(x) = [p \in Offsets |-> Read8(os, p)[x]]
              /\ ByInput!At(x) = o
              /\ ByInput!Seen(x) <=> IsByteConcrete(os, o)
    <2>1. MemoryOf(x)[mo] = [p \in Offsets |-> Read8(os, p)[x]]
        BY <1>1, <1>10, <1>12, RunningViews
    <2>2. OpaqueOf(x)[mo] = Offsets \ os.concreteMask
        BY <1>1, <1>12, <1>101, CarriedByOne DEF RefinementInv, CarriedViews
    <2>3. instruction # NoInstruction
        BY <1>1 DEF NoInstruction
    <2> QED
        BY <1>1, <1>3, <2>1, <2>2, <2>3, ExecutingMapped DEF ByInput!Seen, IsByteConcrete
<1>13. \A x \in Inputs : x \in pathInputs[current] => bytes[x] = left[x]
    <2> SUFFICES ASSUME NEW x \in Inputs, x \in pathInputs[current] PROVE bytes[x] = left[x]
        OBVIOUS
    <2>1. bytes[x] = [[p \in Offsets |-> Read8(os, p)[x]] EXCEPT
                         ![o] = IF IsByteConcrete(os, o) THEN v ELSE @]
        BY <1>12
    <2>2. left[x] = [p \in Offsets |-> Read8(c, p)[x]]
        BY DEF AllBytes
    <2>3. \A p \in Offsets : Read8(c, p)[x] = IF p = o /\ IsByteConcrete(os, o) THEN v ELSE Read8(os, p)[x]
        BY <1>7 DEF Constant
    <2> HIDE DEF bytes, left, os, o, v
    <2> QED
        BY <1>3, <2>1, <2>2, <2>3
<1> HIDE DEF bytes, left
<1>14. ByInput!Become(bytes) /\ ByInput!Executed
    <2>1. ViewsAfter(current, mo, left)
        BY <1>11 DEF left
    <2> QED
        BY <1>1, <1>8, <1>11, <1>13, <2>1, WriteSimulated
<1>15. UNCHANGED [x \in Inputs |-> OpaqueOf(x)]
    <2>1. \A x \in Inputs : OpaqueOf(x)' = OpaqueOf(x)
        BY <1>9, <1>11, SameOpaque DEF PartsKept
    <2> QED
        BY <2>1
<1>16. mo \in ReadOnlyObjects => \A x \in pathInputs[current] : ByInput!Before(x)[ByInput!At(x)] = v
    <2> SUFFICES ASSUME mo \in ReadOnlyObjects, NEW x \in pathInputs[current]
                 PROVE  ByInput!Before(x)[ByInput!At(x)] = v
        OBVIOUS
    <2>1. x \in Inputs
        BY <1>1 DEF RefinementInv, MemoryInv, MemoryTypeOK
    <2>2. os.concreteStore[o] = v /\ IsByteConcrete(os, o)
        BY <1>3, <1>7, <1>102, <1>103 DEF IsByteConcrete
    <2>3. Read8(os, o) = Constant(v)
        BY <2>2 DEF Read8
    <2>4. ByInput!Before(x)[ByInput!At(x)] = Read8(os, o)[x]
        BY <1>3, <1>12, <2>1
    <2> QED
        BY <2>1, <2>3, <2>4 DEF Constant
<1>17. ByInput!External
    BY <1>1, <1>14, <1>15, <1>16, ExecutingMapped DEF ByInput!External, bytes
<1> QED
    BY <1>11, <1>17 DEF Simulated, ByInput!Next

(* Contents that are dropped are seen by no other state. *)
LEMMA UnbindViews ==
    ASSUME RefinementInv, UNCHANGED program, NEW s \in live, NEW M \in SUBSET MemoryObjects,
           Unbind(s, M), live' \subseteq live
    PROVE  /\ UpdatesAreCoherent' /\ ReadOnlyContents'
           /\ \A r \in live', m \in MemoryObjects, x \in Inputs :
                 BytesOf(r, m, x)' = IF r = s /\ m \in M THEN << >> ELSE BytesOf(r, m, x)
           /\ \A r \in live', m \in MemoryObjects :
                 HiddenBy(r, m)' = IF r = s /\ m \in M THEN {} ELSE HiddenBy(r, m)
<1>1. /\ s \in States /\ live \subseteq States
      /\ objects \in [States -> [MemoryObjects -> Slots \cup {NoSlot}]]
      /\ heap \in [MemoryObjects -> [Slots -> ObjectStates]]
    BY DEF RefinementInv, MemoryInv, MemoryTypeOK
<1>2. /\ objects' = [objects EXCEPT ![s] = [m \in MemoryObjects |-> IF m \in M THEN NoSlot ELSE @[m]]]
      /\ heap' = Collect(heap, objects')
    BY DEF Unbind
<1>3. \A r \in States, m \in MemoryObjects : objects'[r][m] = IF r = s /\ m \in M THEN NoSlot ELSE objects[r][m]
    BY <1>1, <1>2
<1>4. objects' \in [States -> [MemoryObjects -> Slots \cup {NoSlot}]]
    BY <1>1, <1>2
<1>5. \A r \in States, m \in MemoryObjects : objects'[r][m] \in {BoundBy(s, {})[r][m], NoSlot}
    BY <1>1, <1>3 DEF BoundBy
<1>6. heap' = Collect(Written(s, {}, heap), objects')
    <2>1. Written(s, {}, heap) = heap
        BY <1>1 DEF Written
    <2> QED
        BY <1>2, <2>1
<1>7. /\ UpdatesAreCoherent' /\ ReadOnlyContents'
      /\ \A r \in live', m \in MemoryObjects, x \in Inputs : objects'[r][m] # NoSlot =>
            BytesOf(r, m, x)' = BytesOf(r, m, x)
      /\ \A r \in live', m \in MemoryObjects : objects'[r][m] # NoSlot =>
            HiddenBy(r, m)' = HiddenBy(r, m)
    <2> PICK E \in SUBSET MemoryObjects : E = {}
        OBVIOUS
    <2>1. WritableBy(E, heap)
        BY DEF WritableBy
    <2>2. /\ heap' = Collect(Written(s, E, heap), objects')
          /\ \A r \in States, m \in MemoryObjects : objects'[r][m] \in {BoundBy(s, E)[r][m], NoSlot}
        BY <1>5, <1>6
    <2>3. /\ UpdatesAreCoherent' /\ ReadOnlyContents'
          /\ \A r \in live', m \in MemoryObjects, x \in Inputs : objects'[r][m] # NoSlot =>
                BytesOf(r, m, x)' = IF r = s /\ m \in E THEN [o \in Offsets |-> Read8(heap[m], o)[x]]
                                    ELSE BytesOf(r, m, x)
          /\ \A r \in live', m \in MemoryObjects : objects'[r][m] # NoSlot =>
                HiddenBy(r, m)' = IF r = s /\ m \in E THEN Offsets \ heap[m].concreteMask
                                  ELSE HiddenBy(r, m)
        BY <1>4, <2>1, <2>2, RebindCoherent
    <2> QED
        BY <2>3
<1>8. ASSUME NEW r \in live', NEW m \in MemoryObjects, NEW x \in Inputs
      PROVE  BytesOf(r, m, x)' = IF r = s /\ m \in M THEN << >> ELSE BytesOf(r, m, x)
    <2>1. r \in States
        BY <1>1
    <2>2. CASE objects'[r][m] # NoSlot
        BY <1>3, <1>7, <2>1, <2>2
    <2>3. CASE objects'[r][m] = NoSlot
        <3>1. BytesOf(r, m, x)' = << >>
            BY <2>3 DEF BytesOf, Bound
        <3>2. (r = s /\ m \in M) \/ BytesOf(r, m, x) = << >>
            BY <1>3, <2>1, <2>3 DEF BytesOf, Bound
        <3> QED
            BY <3>1, <3>2
    <2> QED
        BY <2>2, <2>3
<1>9. ASSUME NEW r \in live', NEW m \in MemoryObjects
      PROVE  HiddenBy(r, m)' = IF r = s /\ m \in M THEN {} ELSE HiddenBy(r, m)
    <2>1. r \in States
        BY <1>1
    <2>2. CASE objects'[r][m] # NoSlot
        BY <1>3, <1>7, <2>1, <2>2
    <2>3. CASE objects'[r][m] = NoSlot
        <3>1. HiddenBy(r, m)' = {}
            BY <2>3 DEF HiddenBy, Bound
        <3>2. (r = s /\ m \in M) \/ HiddenBy(r, m) = {}
            BY <1>3, <2>1, <2>3 DEF HiddenBy, Bound
        <3> QED
            BY <3>1, <3>2
    <2> QED
        BY <2>2, <2>3
<1> QED
    BY <1>7, <1>8, <1>9

(* A free is one for every input of the state. *)
LEMMA FreeSimulated == ASSUME RefinementInv, Free PROVE Simulated
<1> DEFINE mo == instruction.mo
           none == [x \in Inputs |-> << >>]
<1>1. current \in live /\ current # Idle /\ instruction.op = "free" /\ mo \in MemoryObjects
    BY ExecutingFacts DEF Free, RefinementInv, Executing
<1>2. Unbind(current, {mo}) /\ Done /\ UNCHANGED <<live, registers>>
    BY DEF Free
<1>3. UNCHANGED <<program, live, pathInputs, instruction>> /\ current' = Idle
    BY <1>2 DEF Done
<1>4. {mo} \in SUBSET MemoryObjects
    BY <1>1
<1>5. /\ UpdatesAreCoherent' /\ ReadOnlyContents'
      /\ \A r \in live', m \in MemoryObjects, x \in Inputs :
            BytesOf(r, m, x)' = IF r = current /\ m \in {mo} THEN << >> ELSE BytesOf(r, m, x)
      /\ \A r \in live', m \in MemoryObjects :
            HiddenBy(r, m)' = IF r = current /\ m \in {mo} THEN {} ELSE HiddenBy(r, m)
    BY <1>1, <1>2, <1>3, <1>4, UnbindViews
<1>6. PartsKept
    BY <1>3, <1>5 DEF RefinementInv, PathsAreDisjoint, PathsAreNotEmpty, PartsKept
<1>7. ViewsAfter(current, mo, none) /\ HiddenAfter(current, mo, {})
    BY <1>3, <1>5 DEF ViewsAfter, HiddenAfter
<1>8. ByInput!Become(none) /\ ByInput!Executed
    BY <1>1, <1>2, <1>6, <1>7, WriteSimulated
<1>9. ByInput!Hides({})
    BY <1>1, <1>2, <1>6, <1>7, HidesSimulated
<1>10. ByInput!Free
    BY <1>1, <1>8, <1>9, ExecutingMapped DEF ByInput!Free
<1> QED
    BY <1>6, <1>10 DEF Simulated, ByInput!Next

(* The views of an input before and after a step, through the states that  *)
(* carry it then.                                                          *)
LEMMA ViewsByCarrier ==
    ASSUME PathsAreDisjoint, PathsAreDisjoint', NEW x \in Inputs,
           NEW r \in live, x \in pathInputs[r], NEW q \in live', x \in pathInputs'[q],
           \A m \in MemoryObjects : BytesOf(q, m, x)' = BytesOf(r, m, x),
           registers'[q][x] = registers[r][x]
    PROVE  /\ MemoryOf(x)' = MemoryOf(x) /\ RegisterOf(x)' = RegisterOf(x)
           /\ Carrier(x) # {} /\ Carrier(x)' # {}
           /\ OpaqueOf(x) = [m \in MemoryObjects |-> HiddenBy(r, m)]
           /\ OpaqueOf(x)' = [m \in MemoryObjects |-> HiddenBy(q, m)']
<1>1. PathsAreDisjoint' => CarriedViews'
    BY CarriedByOne, PTL
<1>2. /\ MemoryOf(x) = [m \in MemoryObjects |-> BytesOf(r, m, x)] /\ RegisterOf(x) = registers[r][x]
      /\ OpaqueOf(x) = [m \in MemoryObjects |-> HiddenBy(r, m)]
    BY CarriedByOne DEF CarriedViews
<1>3. /\ MemoryOf(x)' = [m \in MemoryObjects |-> BytesOf(q, m, x)'] /\ RegisterOf(x)' = registers'[q][x]
      /\ OpaqueOf(x)' = [m \in MemoryObjects |-> HiddenBy(q, m)']
    BY <1>1, ZenonT(30) DEF CarriedViews
<1>4. Carrier(x) # {} /\ Carrier(x)' # {}
    BY DEF Carrier
<1> QED
    BY <1>2, <1>3, <1>4

(* An input that no live state carries has ended. *)
LEMMA ViewsWithoutCarrier ==
    ASSUME PathsAreDisjoint', NEW x \in Inputs, \A q \in live' : x \notin pathInputs'[q]
    PROVE  /\ MemoryOf(x)' = [m \in MemoryObjects |-> << >>] /\ RegisterOf(x)' = 0
           /\ OpaqueOf(x)' = [m \in MemoryObjects |-> {}]
           /\ Carrier(x)' = {}
<1>1. PathsAreDisjoint' => CarriedViews'
    BY CarriedByOne, PTL
<1>2. Carrier(x)' = {}
    BY DEF Carrier
<1> QED
    BY <1>1, <1>2, ZenonT(30) DEF CarriedViews

LEMMA ViewsNeverCarried ==
    ASSUME PathsAreDisjoint, PathsAreDisjoint', NEW x \in Inputs,
           \A r \in live : x \notin pathInputs[r], \A q \in live' : x \notin pathInputs'[q]
    PROVE  /\ MemoryOf(x)' = MemoryOf(x) /\ RegisterOf(x)' = RegisterOf(x)
           /\ OpaqueOf(x) = [m \in MemoryObjects |-> {}] /\ OpaqueOf(x)' = OpaqueOf(x)
           /\ Carrier(x) = {} /\ Carrier(x)' = {}
<1>1. /\ MemoryOf(x) = [m \in MemoryObjects |-> << >>] /\ RegisterOf(x) = 0
      /\ OpaqueOf(x) = [m \in MemoryObjects |-> {}]
    BY CarriedByOne DEF CarriedViews
<1>2. Carrier(x) = {}
    BY DEF Carrier
<1>3. /\ MemoryOf(x)' = [m \in MemoryObjects |-> << >>] /\ RegisterOf(x)' = 0
      /\ OpaqueOf(x)' = [m \in MemoryObjects |-> {}]
      /\ Carrier(x)' = {}
    BY ViewsWithoutCarrier
<1> QED
    BY <1>1, <1>2, <1>3

(* The inputs of a terminated state end; and a state is terminated only by *)
(* a write that would change a read-only object.                           *)
LEMMA TerminateSimulated ==
    ASSUME RefinementInv, current \in live, current # Idle, Terminate,
           instruction.mo \in MemoryObjects, instruction.mo \in ReadOnlyObjects,
           \/ instruction.op = "store"
           \/ /\ instruction.op = "external"
              /\ \A x \in Inputs : x \in pathInputs[current] =>
                    MemoryOf(x)[instruction.mo][instruction.index[x]] # instruction.value
    PROVE  Simulated
<1> PICK s \in live : s = current
    OBVIOUS
<1>1. /\ s \in States /\ live \subseteq States /\ pathInputs \in [States -> SUBSET Inputs]
      /\ registers \in [States -> Expr]
    BY DEF RefinementInv, MemoryInv, MemoryTypeOK
<1>2. /\ live' = live \ {s} /\ Unbind(s, MemoryObjects) /\ current' = Idle
      /\ registers' = [registers EXCEPT ![s] = Constant(0)]
      /\ pathInputs' = [pathInputs EXCEPT ![s] = {}]
      /\ UNCHANGED <<program, instruction>>
    BY DEF Terminate
<1>3. \A r \in live' : r \in live /\ r # s /\ pathInputs'[r] = pathInputs[r] /\ registers'[r] = registers[r]
    BY <1>1, <1>2
<1>4. PathsAreDisjoint' /\ PathsAreNotEmpty'
    BY <1>3 DEF RefinementInv, PathsAreDisjoint, PathsAreNotEmpty
<1>5. /\ UpdatesAreCoherent' /\ ReadOnlyContents'
      /\ \A r \in live', m \in MemoryObjects, x \in Inputs : BytesOf(r, m, x)' = BytesOf(r, m, x)
      /\ \A r \in live', m \in MemoryObjects : HiddenBy(r, m)' = HiddenBy(r, m)
    <2>1. MemoryObjects \in SUBSET MemoryObjects /\ live' \subseteq live
        BY <1>2
    <2>2. /\ UpdatesAreCoherent' /\ ReadOnlyContents'
          /\ \A r \in live', m \in MemoryObjects, x \in Inputs :
                BytesOf(r, m, x)' = IF r = s /\ m \in MemoryObjects THEN << >> ELSE BytesOf(r, m, x)
          /\ \A r \in live', m \in MemoryObjects :
                HiddenBy(r, m)' = IF r = s /\ m \in MemoryObjects THEN {} ELSE HiddenBy(r, m)
        BY <1>2, <2>1, UnbindViews
    <2> QED
        BY <1>3, <2>2
<1>6. ASSUME NEW x \in Inputs, x \in pathInputs[s]
      PROVE  /\ MemoryOf(x)' = [m \in MemoryObjects |-> << >>] /\ RegisterOf(x)' = 0
             /\ OpaqueOf(x)' = [m \in MemoryObjects |-> {}] /\ Carrier(x)' = {}
    <2>1. \A q \in live' : x \notin pathInputs'[q]
        BY <1>3, <1>6 DEF RefinementInv, PathsAreDisjoint
    <2> QED
        BY <1>4, <2>1, ViewsWithoutCarrier
<1>7. ASSUME NEW x \in Inputs, x \notin pathInputs[s]
      PROVE  /\ MemoryOf(x)' = MemoryOf(x) /\ RegisterOf(x)' = RegisterOf(x)
             /\ OpaqueOf(x)' = OpaqueOf(x) /\ (Carrier(x)' = {} <=> Carrier(x) = {})
    <2>1. CASE \E r \in live : x \in pathInputs[r]
        <3> PICK r \in live : x \in pathInputs[r]
            BY <2>1
        <3>1. r \in live' /\ x \in pathInputs'[r] /\ registers'[r][x] = registers[r][x]
            BY <1>2, <1>3, <1>7
        <3>2. /\ \A m \in MemoryObjects : BytesOf(r, m, x)' = BytesOf(r, m, x)
              /\ \A m \in MemoryObjects : HiddenBy(r, m)' = HiddenBy(r, m)
            BY <1>5, <3>1
        <3>3. /\ MemoryOf(x)' = MemoryOf(x) /\ RegisterOf(x)' = RegisterOf(x)
              /\ Carrier(x) # {} /\ Carrier(x)' # {}
              /\ OpaqueOf(x) = [m \in MemoryObjects |-> HiddenBy(r, m)]
              /\ OpaqueOf(x)' = [m \in MemoryObjects |-> HiddenBy(r, m)']
            BY <1>4, <3>1, <3>2, ViewsByCarrier DEF RefinementInv
        <3> QED
            BY <3>2, <3>3
    <2>2. CASE \A r \in live : x \notin pathInputs[r]
        <3>1. \A q \in live' : x \notin pathInputs'[q]
            BY <1>3, <2>2
        <3> QED
            BY <1>4, <2>2, <3>1, ViewsNeverCarried DEF RefinementInv
    <2> QED
        BY <2>1, <2>2
<1>8. {x \in Inputs : Carrier(x) = {}}' = {x \in Inputs : Carrier(x) = {}} \cup pathInputs[s]
    <2>1. pathInputs[s] \subseteq Inputs
        BY <1>1
    <2>2. \A x \in Inputs : Carrier(x)' = {} <=> Carrier(x) = {} \/ x \in pathInputs[s]
        BY <1>6, <1>7
    <2> QED
        BY <2>1, <2>2
<1>9. \/ ByInput!Executing("store")
      \/ ByInput!Executing("external")
         /\ \A x \in pathInputs[s] : ByInput!Before(x)[ByInput!At(x)] # instruction.value
    <2>1. pathInputs[s] \subseteq Inputs
        BY <1>1
    <2>2. instruction # NoInstruction
        BY DEF NoInstruction
    <2> QED
        BY <2>1, <2>2, ExecutingMapped
<1>10. ByInput!Executed
    BY <1>2, DoneMapped
<1>11. ByInput!End
    BY <1>6, <1>7, <1>8, <1>9, <1>10 DEF ByInput!End
<1>12. PartsKept
    BY <1>4, <1>5 DEF PartsKept
<1> QED
    BY <1>11, <1>12 DEF Simulated, ByInput!Next

(* A write to a read-only object is an error for every input, or for none. *)
LEMMA ReadOnlySimulated ==
    ASSUME RefinementInv, StoreReadOnly \/ ExternalModifiesReadOnly
    PROVE  Simulated
<1> DEFINE mo == instruction.mo
           os == FindObject(current, mo)
           o == OffsetOf(instruction.index)
           v == instruction.value
<1>1. /\ current \in live /\ current # Idle /\ Terminate /\ instruction \in Instructions
      /\ instruction.op \in {"store", "external"} /\ mo \in MemoryObjects /\ Bound(current, mo)
      /\ os.readOnly /\ (instruction.op = "external" => ExternalWrite(os) # os)
    BY ExecutingFacts DEF StoreReadOnly, ExternalModifiesReadOnly, RefinementInv, Executing
<1>2. mo \in ReadOnlyObjects /\ os.concreteMask = Offsets
    BY <1>1 DEF RefinementInv, ReadOnlyContents
<1>3. ASSUME instruction.op = "external", NEW x \in Inputs, x \in pathInputs[current]
      PROVE  MemoryOf(x)[mo][instruction.index[x]] # v
    <2>1. o \in Offsets /\ instruction.index[x] = o
        BY <1>1, <1>3, InstructionFields, OffsetOfType
    <2>2. os \in ObjectStates
        BY <1>1, BoundIsCoherent
    <2>3. ExternalWrite(os) = [os EXCEPT !.concreteStore[o] = v]
        BY DEF ExternalWrite
    <2>4. os.concreteStore[o] # v
        <3> HIDE DEF os, o, v
        <3> QED
            BY <1>1, <1>3, <2>1, <2>2, <2>3, StoreChangeMasks
    <2>5. MemoryOf(x)[mo] = [p \in Offsets |-> Read8(os, p)[x]]
        BY <1>1, <1>3, RunningViews DEF BytesOf
    <2>6. Read8(os, o)[x] = os.concreteStore[o]
        BY <1>2, <2>1 DEF Read8, IsByteConcrete, Constant
    <2> QED
        BY <2>1, <2>4, <2>5, <2>6
<1> QED
    BY <1>1, <1>2, <1>3, TerminateSimulated

(* A step between instructions leaves the memory of each input as it is,   *)
(* and hides a byte only where it may.                                     *)
LEMMA RegroupSimulated ==
    ASSUME current = Idle, current' = Idle,
           \A x \in Inputs : /\ MemoryOf(x)' = MemoryOf(x) /\ RegisterOf(x)' = RegisterOf(x)
                             /\ Carrier(x)' = {} <=> Carrier(x) = {},
           \A x \in Inputs, m \in MemoryObjects : \A o \in OpaqueOf(x)'[m] \ OpaqueOf(x)[m] :
               \E y \in Inputs : \/ o \in OpaqueOf(y)[m]
                                 \/ o \in DOMAIN MemoryOf(y)[m] /\ MemoryOf(y)[m][o] # MemoryOf(x)[m][o]
    PROVE  ByInput!Regroup
<1>1. {x \in Inputs : Carrier(x) = {}}' = {x \in Inputs : Carrier(x) = {}}
    OBVIOUS
<1>2. [x \in Inputs |-> OpaqueOf(x)]' \in ByInput!Masks
    BY OpaqueType
<1> QED
    BY <1>1, <1>2 DEF ByInput!Regroup

(* The inputs of the original are shared out; their memory is not copied,  *)
(* and is the same.                                                        *)
LEMMA ForkSimulated == ASSUME RefinementInv, Fork PROVE Simulated
<1> PICK s \in live, A \in SUBSET Inputs, t \in States \ live :
        /\ A # {} /\ A # pathInputs[s] /\ A \subseteq pathInputs[s]
        /\ live' = live \cup {t}
        /\ pathInputs' = [pathInputs EXCEPT ![s] = A, ![t] = pathInputs[s] \ A]
        /\ objects' = [objects EXCEPT ![t] = objects[s]]
        /\ registers' = [registers EXCEPT ![t] = registers[s]]
    BY DEF Fork
<1>1. /\ live \subseteq States /\ s \in States /\ t # s
      /\ objects \in [States -> [MemoryObjects -> Slots \cup {NoSlot}]]
      /\ pathInputs \in [States -> SUBSET Inputs] /\ registers \in [States -> Expr]
      /\ instruction \in Instructions \cup {NoInstruction}
    BY DEF RefinementInv, MemoryInv, MemoryTypeOK
<1>2. current = Idle /\ current' = Idle /\ UNCHANGED <<program, instruction, heap>>
    BY DEF Fork
<1>3. /\ \A r \in States : objects'[r] = IF r = t THEN objects[s] ELSE objects[r]
      /\ \A r \in States : registers'[r] = IF r = t THEN registers[s] ELSE registers[r]
      /\ \A r \in States : pathInputs'[r] = IF r = t THEN pathInputs[s] \ A
                                            ELSE IF r = s THEN A ELSE pathInputs[r]
    BY <1>1
<1>4. PathsAreDisjoint'
    <2> SUFFICES ASSUME NEW q \in live', NEW r \in live', q # r, NEW x \in pathInputs'[q], x \in pathInputs'[r]
                 PROVE  FALSE
        BY DEF PathsAreDisjoint
    <2>1. q \in States /\ r \in States
        BY <1>1
    <2> QED
        BY <1>1, <1>3, <2>1 DEF RefinementInv, PathsAreDisjoint
<1>41. PathsAreNotEmpty'
    <2> SUFFICES ASSUME NEW q \in live' PROVE pathInputs'[q] # {}
        BY DEF PathsAreNotEmpty
    <2> QED
        BY <1>1, <1>3 DEF RefinementInv, PathsAreNotEmpty
<1>5. ASSUME NEW q \in live', NEW r \in live, r = IF q = t THEN s ELSE q
      PROVE  /\ \A m \in MemoryObjects : objects'[q][m] = objects[r][m]
             /\ \A m \in MemoryObjects, x \in Inputs : BytesOf(q, m, x)' = BytesOf(r, m, x)
             /\ \A m \in MemoryObjects : HiddenBy(q, m)' = HiddenBy(r, m)
             /\ registers'[q] = registers[r] /\ pathInputs'[q] \subseteq pathInputs[r]
    <2>1. q \in States
        BY <1>1
    <2>2. objects'[q] = objects[r] /\ registers'[q] = registers[r] /\ pathInputs'[q] \subseteq pathInputs[r]
        BY <1>1, <1>3, <1>5, <2>1
    <2>3. ASSUME NEW m \in MemoryObjects, NEW x \in Inputs PROVE BytesOf(q, m, x)' = BytesOf(r, m, x)
        <3>1. BytesOf(q, m, x)' = IF objects'[q][m] # NoSlot
                                  THEN [o \in Offsets |-> Read8(heap'[m][objects'[q][m]], o)[x]] ELSE << >>
            BY DEF BytesOf, Bound, FindObject
        <3>2. BytesOf(r, m, x) = IF objects[r][m] # NoSlot
                                 THEN [o \in Offsets |-> Read8(heap[m][objects[r][m]], o)[x]] ELSE << >>
            BY DEF BytesOf, Bound, FindObject
        <3> QED
            BY <1>2, <2>2, <3>1, <3>2
    <2>4. ASSUME NEW m \in MemoryObjects PROVE HiddenBy(q, m)' = HiddenBy(r, m)
        BY <1>2, <2>2 DEF HiddenBy, Bound, FindObject
    <2> QED
        BY <2>2, <2>3, <2>4
<1>6. UpdatesAreCoherent'
    <2> SUFFICES ASSUME NEW q \in live', NEW m \in MemoryObjects, objects'[q][m] # NoSlot
                 PROVE  /\ UpdatesAgree(heap[m][objects'[q][m]])
                        /\ "index" \in program \/ Unflushed(heap[m][objects'[q][m]])
        BY <1>2 DEF UpdatesAreCoherent, Bound, FindObject, Unflushed
    <2> PICK r \in live : r = IF q = t THEN s ELSE q
        OBVIOUS
    <2>1. objects'[q][m] = objects[r][m] /\ Bound(r, m)
        BY <1>5 DEF Bound
    <2> QED
        BY <2>1, BoundIsCoherent DEF Coherent, AgreeingContents, FindObject
<1>61. ReadOnlyContents'
    <2> SUFFICES ASSUME NEW q \in live', NEW m \in MemoryObjects, objects'[q][m] # NoSlot
                 PROVE  IF m \in ReadOnlyObjects
                        THEN /\ objects'[q][m] = 1
                             /\ heap[m][objects'[q][m]].readOnly
                             /\ heap[m][objects'[q][m]].concreteMask = Offsets
                        ELSE ~heap[m][objects'[q][m]].readOnly
        BY <1>2 DEF ReadOnlyContents, Bound, FindObject
    <2> PICK r \in live : r = IF q = t THEN s ELSE q
        OBVIOUS
    <2>1. objects'[q][m] = objects[r][m] /\ Bound(r, m)
        BY <1>5 DEF Bound
    <2> QED
        BY <2>1 DEF RefinementInv, ReadOnlyContents, FindObject
<1>7. ASSUME NEW x \in Inputs
      PROVE  /\ MemoryOf(x)' = MemoryOf(x) /\ RegisterOf(x)' = RegisterOf(x)
             /\ OpaqueOf(x)' = OpaqueOf(x) /\ (Carrier(x)' = {} <=> Carrier(x) = {})
    <2>1. CASE \E r \in live : x \in pathInputs[r]
        <3> PICK r \in live : x \in pathInputs[r]
            BY <2>1
        <3>1. PICK q \in live' : x \in pathInputs'[q] /\ r = IF q = t THEN s ELSE q
            <4>1. CASE r = s /\ x \notin A
                BY <1>1, <1>3, <4>1
            <4>2. CASE ~(r = s /\ x \notin A)
                BY <1>1, <1>3, <4>2
            <4> QED
                BY <4>1, <4>2
        <3>2. /\ registers'[q][x] = registers[r][x]
              /\ \A m \in MemoryObjects : BytesOf(q, m, x)' = BytesOf(r, m, x)
              /\ \A m \in MemoryObjects : HiddenBy(q, m)' = HiddenBy(r, m)
            BY <1>5, <3>1
        <3>3. /\ MemoryOf(x)' = MemoryOf(x) /\ RegisterOf(x)' = RegisterOf(x)
              /\ Carrier(x) # {} /\ Carrier(x)' # {}
              /\ OpaqueOf(x) = [m \in MemoryObjects |-> HiddenBy(r, m)]
              /\ OpaqueOf(x)' = [m \in MemoryObjects |-> HiddenBy(q, m)']
            BY <1>4, <3>1, <3>2, ViewsByCarrier DEF RefinementInv
        <3> QED
            BY <3>2, <3>3
    <2>2. CASE \A r \in live : x \notin pathInputs[r]
        <3>1. \A q \in live' : x \notin pathInputs'[q]
            BY <1>1, <1>3, <2>2
        <3> QED
            BY <1>4, <2>2, <3>1, ViewsNeverCarried DEF RefinementInv
    <2> QED
        BY <2>1, <2>2
<1>8. PartsKept
    BY <1>4, <1>41, <1>6, <1>61 DEF PartsKept
<1>9. ByInput!Regroup
    BY <1>2, <1>7, RegroupSimulated
<1> QED
    BY <1>8, <1>9 DEF Simulated, ByInput!Next

(* A merged byte is that of the state that carried the input. *)
LEMMA MergeSimulated == ASSUME RefinementInv, Merge PROVE Simulated
<1> DEFINE merged(s, t) == [mo \in Mutated(s, t) |->
                               MergeBytes(FindObject(s, mo), FindObject(t, mo), pathInputs[s])]
<1>0. PICK s \in live, t \in live :
        /\ s # t
        /\ \A mo \in MemoryObjects : Bound(s, mo) <=> Bound(t, mo)
        /\ objects' = [BoundBy(s, Mutated(s, t)) EXCEPT ![t] = [mo \in MemoryObjects |-> NoSlot]]
        /\ heap' = Collect(Written(s, Mutated(s, t), merged(s, t)), objects')
        /\ registers' = [registers EXCEPT
                            ![s] = SelectExpr(pathInputs[s], registers[s], registers[t]),
                            ![t] = Constant(0)]
        /\ pathInputs' = [pathInputs EXCEPT ![s] = @ \cup pathInputs[t], ![t] = {}]
        /\ live' = live \ {t}
    BY DEF Merge
<1> DEFINE M == Mutated(s, t)
           os == merged(s, t)
<1>1. /\ live \subseteq States /\ s \in States /\ t \in States
      /\ s \in live /\ t \in live /\ s # t /\ live' = live \ {t}
      /\ objects \in [States -> [MemoryObjects -> Slots \cup {NoSlot}]]
      /\ pathInputs \in [States -> SUBSET Inputs] /\ registers \in [States -> Expr]
      /\ instruction \in Instructions \cup {NoInstruction}
    BY <1>0 DEF RefinementInv, MemoryInv, MemoryTypeOK
<1>2. current = Idle /\ current' = Idle /\ UNCHANGED <<program, instruction>>
    BY DEF Merge
<1>3. M \in SUBSET MemoryObjects
    BY DEF Mutated
<1>4. ASSUME NEW mo \in M
      PROVE  /\ mo \in MemoryObjects
             /\ Bound(s, mo) /\ Bound(t, mo) /\ Coherent(os[mo])
             /\ ~os[mo].readOnly /\ mo \notin ReadOnlyObjects
             /\ os[mo] = MergeBytes(FindObject(s, mo), FindObject(t, mo), pathInputs[s])
             /\ FindObject(s, mo) \in ValidContents /\ FindObject(t, mo) \in ValidContents
             /\ \A o \in Offsets, x \in Inputs :
                   Read8(os[mo], o)[x] = IF x \in pathInputs[s] THEN Read8(FindObject(s, mo), o)[x]
                                         ELSE Read8(FindObject(t, mo), o)[x]
    <2>1. mo \in MemoryObjects /\ objects[s][mo] # objects[t][mo]
        BY DEF Mutated
    <2>2. Bound(s, mo) /\ Bound(t, mo)
        BY <1>0, <2>1 DEF Bound
    <2>3. FindObject(s, mo) \in ValidContents /\ FindObject(t, mo) \in ValidContents
        BY <2>1, <2>2, BoundIsCoherent DEF Coherent, AgreeingContents
    <2>4. os[mo] = MergeBytes(FindObject(s, mo), FindObject(t, mo), pathInputs[s])
        OBVIOUS
    <2>5. ~FindObject(s, mo).readOnly /\ mo \notin ReadOnlyObjects
        BY <2>1, <2>2 DEF RefinementInv, ReadOnlyContents
    <2>6. ~os[mo].readOnly
        <3>1. FindObject(s, mo) \in ObjectStates
            BY <2>3 DEF ValidContents
        <3>2. MergeBytes(FindObject(s, mo), FindObject(t, mo), pathInputs[s]).readOnly = FindObject(s, mo).readOnly
            BY <3>1 DEF MergeBytes, WriteAll, ObjectStates
        <3> QED
            BY <2>4, <2>5, <3>2
    <2> QED
        BY <2>1, <2>2, <2>3, <2>4, <2>5, <2>6, MergeBytesReads DEF Coherent
<1>5. \A mo \in MemoryObjects \ M : objects[s][mo] = objects[t][mo]
    BY DEF Mutated
<1>6. /\ objects' = [BoundBy(s, M) EXCEPT ![t] = [mo \in MemoryObjects |-> NoSlot]]
      /\ heap' = Collect(Written(s, M, os), objects')
    BY <1>0
<1> HIDE DEF M, os
<1>7. \A mo \in MemoryObjects : SlotFor(s, mo) \in Slots
    BY SlotForIsOwn DEF RefinementInv, MemoryInv
<1>8. BoundBy(s, M) \in [States -> [MemoryObjects -> Slots \cup {NoSlot}]]
    BY <1>1, <1>7 DEF BoundBy
<1>9. /\ objects' \in [States -> [MemoryObjects -> Slots \cup {NoSlot}]]
      /\ \A r \in States, mo \in MemoryObjects :
            objects'[r][mo] = IF r = t THEN NoSlot ELSE BoundBy(s, M)[r][mo]
    <2> DEFINE none == [mo \in MemoryObjects |-> NoSlot]
    <2>1. none \in [MemoryObjects -> Slots \cup {NoSlot}] /\ \A mo \in MemoryObjects : none[mo] = NoSlot
        OBVIOUS
    <2>2. objects' = [BoundBy(s, M) EXCEPT ![t] = none]
        BY <1>6
    <2> HIDE DEF none
    <2>3. \A r \in States : objects'[r] = IF r = t THEN none ELSE BoundBy(s, M)[r]
        BY <1>1, <1>8, <2>2
    <2>4. objects' \in [States -> [MemoryObjects -> Slots \cup {NoSlot}]]
        BY <1>1, <1>8, <2>1, <2>2
    <2> QED
        BY <1>1, <2>1, <2>3, <2>4
<1>10. \A r \in States, mo \in MemoryObjects : objects'[r][mo] \in {BoundBy(s, M)[r][mo], NoSlot}
    BY <1>9
<1>11. live' \subseteq live
    BY <1>1
<1>12. /\ UpdatesAreCoherent' /\ ReadOnlyContents'
       /\ \A r \in live', mo \in MemoryObjects, x \in Inputs : objects'[r][mo] # NoSlot =>
             BytesOf(r, mo, x)' = IF r = s /\ mo \in M THEN [o \in Offsets |-> Read8(os[mo], o)[x]]
                                  ELSE BytesOf(r, mo, x)
       /\ \A r \in live', mo \in MemoryObjects : objects'[r][mo] # NoSlot =>
             HiddenBy(r, mo)' = IF r = s /\ mo \in M THEN Offsets \ os[mo].concreteMask
                                ELSE HiddenBy(r, mo)
    <2>1. WritableBy(M, os)
        BY <1>4 DEF WritableBy
    <2> QED
        BY <1>2, <1>3, <1>6, <1>9, <1>10, <1>11, <2>1, RebindCoherent
<1>13. \A r \in States, mo \in MemoryObjects :
           BoundBy(s, M)[r][mo] = IF r = s /\ mo \in M THEN SlotFor(s, mo) ELSE objects[r][mo]
    BY <1>1 DEF BoundBy
<1>14. \A r \in live', mo \in MemoryObjects, x \in Inputs :
           BytesOf(r, mo, x)' = IF r = s /\ mo \in M THEN [o \in Offsets |-> Read8(os[mo], o)[x]]
                                ELSE BytesOf(r, mo, x)
    <2> SUFFICES ASSUME NEW r \in live', NEW mo \in MemoryObjects, NEW x \in Inputs
                 PROVE  BytesOf(r, mo, x)' = IF r = s /\ mo \in M THEN [o \in Offsets |-> Read8(os[mo], o)[x]]
                                             ELSE BytesOf(r, mo, x)
        OBVIOUS
    <2>1. r \in States /\ r # t
        BY <1>1
    <2>2. objects'[r][mo] = IF r = s /\ mo \in M THEN SlotFor(s, mo) ELSE objects[r][mo]
        BY <1>9, <1>13, <2>1
    <2>3. CASE objects'[r][mo] # NoSlot
        BY <1>12, <2>3
    <2>4. CASE objects'[r][mo] = NoSlot
        <3>1. SlotFor(s, mo) # NoSlot
            BY <1>7 DEF Slots, NoSlot
        <3>2. ~(r = s /\ mo \in M) /\ objects[r][mo] = NoSlot
            BY <2>2, <2>4, <3>1
        <3>3. BytesOf(r, mo, x)' = << >>
            BY <2>4 DEF BytesOf, Bound
        <3>4. BytesOf(r, mo, x) = << >>
            BY <3>2 DEF BytesOf, Bound
        <3> QED
            BY <3>2, <3>3, <3>4
    <2> QED
        BY <2>3, <2>4
<1>141. \A r \in live', mo \in MemoryObjects :
            HiddenBy(r, mo)' = IF r = s /\ mo \in M THEN Offsets \ os[mo].concreteMask ELSE HiddenBy(r, mo)
    <2> SUFFICES ASSUME NEW r \in live', NEW mo \in MemoryObjects
                 PROVE  HiddenBy(r, mo)' = IF r = s /\ mo \in M THEN Offsets \ os[mo].concreteMask
                                           ELSE HiddenBy(r, mo)
        OBVIOUS
    <2>1. r \in States /\ r # t
        BY <1>1
    <2>2. objects'[r][mo] = IF r = s /\ mo \in M THEN SlotFor(s, mo) ELSE objects[r][mo]
        BY <1>9, <1>13, <2>1
    <2>3. CASE objects'[r][mo] # NoSlot
        BY <1>12, <2>3
    <2>4. CASE objects'[r][mo] = NoSlot
        <3>1. SlotFor(s, mo) # NoSlot
            BY <1>7 DEF Slots, NoSlot
        <3>2. ~(r = s /\ mo \in M) /\ objects[r][mo] = NoSlot
            BY <2>2, <2>4, <3>1
        <3>3. HiddenBy(r, mo)' = {}
            BY <2>4 DEF HiddenBy, Bound
        <3>4. HiddenBy(r, mo) = {}
            BY <3>2 DEF HiddenBy, Bound
        <3> QED
            BY <3>2, <3>3, <3>4
    <2> QED
        BY <2>3, <2>4
<1>15. \A r \in live' : r \in live /\ r # t
                        /\ pathInputs'[r] = (IF r = s THEN pathInputs[s] \cup pathInputs[t] ELSE pathInputs[r])
                        /\ registers'[r] = (IF r = s THEN SelectExpr(pathInputs[s], registers[s], registers[t])
                                            ELSE registers[r])
    BY <1>0, <1>1
<1>16. PathsAreDisjoint'
    <2> SUFFICES ASSUME NEW q \in live', NEW r \in live', q # r, NEW x \in pathInputs'[q], x \in pathInputs'[r]
                 PROVE  FALSE
        BY DEF PathsAreDisjoint
    <2>1. \A p1, p2 \in live : p1 # p2 => ~(x \in pathInputs[p1] /\ x \in pathInputs[p2])
        BY DEF RefinementInv, PathsAreDisjoint
    <2> QED
        BY <1>1, <1>15, <2>1
<1>161. PathsAreNotEmpty'
    <2> SUFFICES ASSUME NEW r \in live' PROVE pathInputs'[r] # {}
        BY DEF PathsAreNotEmpty
    <2> QED
        BY <1>1, <1>15 DEF RefinementInv, PathsAreNotEmpty
<1>17. \A mo \in MemoryObjects, x \in Inputs :
           /\ x \in pathInputs[s] => BytesOf(s, mo, x)' = BytesOf(s, mo, x)
           /\ x \in pathInputs[t] => BytesOf(s, mo, x)' = BytesOf(t, mo, x)
    <2> SUFFICES ASSUME NEW mo \in MemoryObjects, NEW x \in Inputs
                 PROVE  /\ x \in pathInputs[s] => BytesOf(s, mo, x)' = BytesOf(s, mo, x)
                        /\ x \in pathInputs[t] => BytesOf(s, mo, x)' = BytesOf(t, mo, x)
        OBVIOUS
    <2>1. s \in live'
        BY <1>1
    <2>2. x \in pathInputs[t] => x \notin pathInputs[s]
        BY <1>1 DEF RefinementInv, PathsAreDisjoint
    <2>3. CASE mo \in M
        <3>1. BytesOf(s, mo, x)' = [o \in Offsets |-> Read8(os[mo], o)[x]]
            BY <1>14, <2>1, <2>3
        <3>2. /\ BytesOf(s, mo, x) = [o \in Offsets |-> Read8(FindObject(s, mo), o)[x]]
              /\ BytesOf(t, mo, x) = [o \in Offsets |-> Read8(FindObject(t, mo), o)[x]]
            BY <1>4, <2>3 DEF BytesOf
        <3>3. \A o \in Offsets : Read8(os[mo], o)[x] = IF x \in pathInputs[s]
                                                       THEN Read8(FindObject(s, mo), o)[x]
                                                       ELSE Read8(FindObject(t, mo), o)[x]
            BY <1>4, <2>3
        <3> QED
            BY <2>2, <3>1, <3>2, <3>3
    <2>4. CASE mo \notin M
        <3>1. BytesOf(s, mo, x)' = BytesOf(s, mo, x)
            BY <1>14, <2>1, <2>4
        <3>2. BytesOf(t, mo, x) = BytesOf(s, mo, x)
            BY <1>5, <2>4 DEF BytesOf, Bound, FindObject
        <3> QED
            BY <3>1, <3>2
    <2> QED
        BY <2>3, <2>4
<1>18. \A x \in Inputs :
           /\ x \in pathInputs[s] => registers'[s][x] = registers[s][x]
           /\ x \in pathInputs[t] => registers'[s][x] = registers[t][x]
    <2>1. registers'[s] = SelectExpr(pathInputs[s], registers[s], registers[t])
        BY <1>1, <1>15
    <2>2. \A x \in pathInputs[t] : x \notin pathInputs[s]
        BY <1>1 DEF RefinementInv, PathsAreDisjoint
    <2> QED
        BY <2>1, <2>2 DEF SelectExpr
(* A byte that the merge hides differs between the states, or was hidden   *)
(* in one.                                                                 *)
<1>181. ASSUME NEW p \in {s, t}, NEW q \in {s, t}, p # q, NEW mo \in MemoryObjects,
               NEW o \in HiddenBy(s, mo)', o \notin HiddenBy(p, mo)
        PROVE  /\ mo \in M /\ Bound(p, mo) /\ Bound(q, mo) /\ o \in Offsets
               /\ o \in FindObject(p, mo).concreteMask
               /\ \/ o \notin FindObject(q, mo).concreteMask
                  \/ FindObject(p, mo).concreteStore[o] # FindObject(q, mo).concreteStore[o]
    <2>1. s \in live'
        BY <1>1
    <2>2. mo \in M
        <3> SUFFICES ASSUME mo \notin M PROVE FALSE
            OBVIOUS
        <3>1. HiddenBy(s, mo)' = HiddenBy(s, mo)
            BY <1>141, <2>1
        <3>2. HiddenBy(t, mo) = HiddenBy(s, mo)
            BY <1>5 DEF HiddenBy, Bound, FindObject
        <3> QED
            BY <1>181, <3>1, <3>2
    <2>3. o \in Offsets /\ o \notin os[mo].concreteMask
        BY <1>141, <1>181, <2>1, <2>2
    <2>4. Bound(p, mo) /\ Bound(q, mo)
        BY <1>4, <2>2
    <2>5. o \in FindObject(p, mo).concreteMask
        BY <1>181, <2>3, <2>4 DEF HiddenBy
    <2>6. ~(/\ o \in FindObject(s, mo).concreteMask /\ o \in FindObject(t, mo).concreteMask
            /\ FindObject(s, mo).concreteStore[o] = FindObject(t, mo).concreteStore[o])
        BY <1>4, <2>2, <2>3, MergeBytesMasks
    <2> QED
        BY <1>181, <2>2, <2>3, <2>4, <2>5, <2>6
<1>19. ASSUME NEW x \in Inputs
       PROVE  /\ MemoryOf(x)' = MemoryOf(x) /\ RegisterOf(x)' = RegisterOf(x)
              /\ Carrier(x)' = {} <=> Carrier(x) = {}
              /\ \A m \in MemoryObjects : \A o \in OpaqueOf(x)'[m] \ OpaqueOf(x)[m] :
                    \E y \in Inputs : \/ o \in OpaqueOf(y)[m]
                                      \/ /\ o \in DOMAIN MemoryOf(y)[m]
                                         /\ MemoryOf(y)[m][o] # MemoryOf(x)[m][o]
    <2>1. CASE \E r \in live : x \in pathInputs[r]
        <3> PICK r \in live : x \in pathInputs[r]
            BY <2>1
        <3>1. PICK q \in live' : q = IF r = t THEN s ELSE r
            BY <1>1
        <3>2. x \in pathInputs'[q] /\ registers'[q][x] = registers[r][x]
            BY <1>1, <1>15, <1>18, <3>1
        <3>3. \A m \in MemoryObjects : BytesOf(q, m, x)' = BytesOf(r, m, x)
            BY <1>1, <1>14, <1>17, <3>1
        <3>4. /\ MemoryOf(x)' = MemoryOf(x) /\ RegisterOf(x)' = RegisterOf(x)
              /\ Carrier(x) # {} /\ Carrier(x)' # {}
              /\ OpaqueOf(x) = [m \in MemoryObjects |-> HiddenBy(r, m)]
              /\ OpaqueOf(x)' = [m \in MemoryObjects |-> HiddenBy(q, m)']
            BY <1>16, <3>2, <3>3, ViewsByCarrier DEF RefinementInv
        <3>5. ASSUME NEW m \in MemoryObjects, NEW o \in HiddenBy(q, m)' \ HiddenBy(r, m)
              PROVE  \E y \in Inputs : \/ o \in OpaqueOf(y)[m]
                                       \/ /\ o \in DOMAIN MemoryOf(y)[m]
                                          /\ MemoryOf(y)[m][o] # MemoryOf(x)[m][o]
            <4>1. r \in {s, t}
                BY <1>1, <1>141, <3>1, <3>5
            <4> PICK other \in {s, t} : other # r
                BY <1>1
            <4> PICK y \in pathInputs[other] : y \in Inputs
                BY <1>1 DEF RefinementInv, PathsAreNotEmpty
            <4>2. /\ Bound(r, m) /\ Bound(other, m) /\ o \in Offsets
                  /\ o \in FindObject(r, m).concreteMask
                  /\ \/ o \notin FindObject(other, m).concreteMask
                     \/ FindObject(r, m).concreteStore[o] # FindObject(other, m).concreteStore[o]
                BY <1>181, <3>1, <3>5, <4>1
            <4>3. /\ MemoryOf(x)[m] = [p \in Offsets |-> Read8(FindObject(r, m), p)[x]]
                  /\ MemoryOf(y)[m] = [p \in Offsets |-> Read8(FindObject(other, m), p)[y]]
                BY <1>1, <4>2, RunningViews DEF BytesOf
            <4>4. OpaqueOf(y)[m] = Offsets \ FindObject(other, m).concreteMask
                BY <1>1, <4>2, CarriedByOne DEF RefinementInv, CarriedViews, HiddenBy
            <4>5. CASE o \notin FindObject(other, m).concreteMask
                BY <4>2, <4>4, <4>5
            <4>6. CASE o \in FindObject(other, m).concreteMask
                <5>1. /\ Read8(FindObject(r, m), o)[x] = FindObject(r, m).concreteStore[o]
                      /\ Read8(FindObject(other, m), o)[y] = FindObject(other, m).concreteStore[o]
                    BY <4>2, <4>6 DEF Read8, IsByteConcrete, Constant
                <5> QED
                    BY <4>2, <4>3, <4>6, <5>1
            <4> QED
                BY <4>5, <4>6
        <3> QED
            BY <3>4, <3>5
    <2>2. CASE \A r \in live : x \notin pathInputs[r]
        <3>1. \A q \in live' : x \notin pathInputs'[q]
            BY <1>15, <2>2
        <3> QED
            BY <1>16, <2>2, <3>1, ViewsNeverCarried DEF RefinementInv
    <2> QED
        BY <2>1, <2>2
<1>20. PartsKept
    BY <1>12, <1>16, <1>161 DEF PartsKept
<1>21. ByInput!Regroup
    BY <1>2, <1>19, RegroupSimulated
<1> QED
    BY <1>20, <1>21 DEF Simulated, ByInput!Next

(* Choosing the next state and instruction selects inputs and instruction. *)
LEMMA SelectSimulated == ASSUME RefinementInv, Select PROVE Simulated
<1>1. /\ UNCHANGED <<program, live, pathInputs, objects, heap, registers>>
      /\ instruction' \in Instructions /\ current' \in live /\ current = Idle
    BY DEF Select
<1>2. /\ PartsKept
      /\ \A r \in live, m \in MemoryObjects, x \in Inputs : BytesOf(r, m, x)' = BytesOf(r, m, x)
      /\ \A r \in live, m \in MemoryObjects : HiddenBy(r, m)' = HiddenBy(r, m)
    BY <1>1, UnchangedViews
<1>3. \A x \in Inputs : /\ MemoryOf(x)' = MemoryOf(x) /\ OpaqueOf(x)' = OpaqueOf(x)
                        /\ RegisterOf(x)' = RegisterOf(x)
    BY <1>1, <1>2, SameViews, SameOpaque, SameRegisters DEF PartsKept
<1>4. {x \in Inputs : Carrier(x) = {}}' = {x \in Inputs : Carrier(x) = {}}
    BY <1>1, SameEnded
<1>5. current' # Idle
    BY <1>1 DEF RefinementInv, MemoryInv, MemoryTypeOK, States, Idle
<1>6. /\ pathInputs'[current'] \in SUBSET (Inputs \ {x \in Inputs : Carrier(x) = {}})
      /\ pathInputs'[current'] # {}
    <2>1. pathInputs[current'] \subseteq Inputs /\ pathInputs[current'] # {}
        BY <1>1 DEF RefinementInv, MemoryInv, MemoryTypeOK, PathsAreNotEmpty
    <2>2. \A x \in pathInputs[current'] : Carrier(x) # {}
        BY <1>1 DEF Carrier
    <2> QED
        BY <1>1, <2>1, <2>2
<1>7. ByInput!Select
    BY <1>1, <1>3, <1>4, <1>5, <1>6 DEF ByInput!Select
<1> QED
    BY <1>2, <1>7 DEF Simulated, ByInput!Next

-----------------------------------------------------------------------------
(* The only state carries all inputs, and its globals are zero. *)
LEMMA RefinementInit == Init => RefinementInv /\ ByInput!Init
<1> SUFFICES ASSUME Init PROVE RefinementInv /\ ByInput!Init
    OBVIOUS
<1>1. MemoryInv
    BY MemoryInvInit
<1>2. 1 \in States /\ 1 \in Slots
    BY AddressSpaceAssumption DEF States, Slots
<1>3. /\ live = {1} /\ pathInputs[1] = Inputs /\ registers[1] = Constant(0) /\ current = Idle
      /\ program \in Programs /\ instruction = NoInstruction
    BY <1>2 DEF Init
<1>4. PathsAreDisjoint /\ PathsAreNotEmpty
    BY <1>3, AddressSpaceAssumption DEF PathsAreDisjoint, PathsAreNotEmpty
<1> DEFINE global(mo) == [NewObjectState(0) EXCEPT !.copyOnWriteOwner = 1,
                                                   !.readOnly = mo \in ReadOnlyObjects]
<1>5. \A mo \in MemoryObjects : objects[1][mo] = IF mo \in InitialObjects THEN 1 ELSE NoSlot
    BY <1>2 DEF Init
<1>6. \A mo \in MemoryObjects : Bound(1, mo) => mo \in InitialObjects /\ FindObject(1, mo) = global(mo)
    <2> SUFFICES ASSUME NEW mo \in MemoryObjects, objects[1][mo] # NoSlot
                 PROVE  mo \in InitialObjects /\ heap[mo][objects[1][mo]] = global(mo)
        BY Zenon DEF Bound, FindObject
    <2>1. mo \in InitialObjects /\ objects[1][mo] = 1
        BY <1>5
    <2>2. heap[mo][1] = IF 1 = 1 /\ mo \in InitialObjects THEN global(mo) ELSE NewObjectState(0)
        BY <1>2 DEF Init
    <2> HIDE DEF global
    <2> QED
        BY <2>1, <2>2
<1>7. \A mo \in MemoryObjects :
          /\ \A o \in Offsets : Read8(global(mo), o) = Constant(0)
          /\ UpdatesAgree(global(mo)) /\ Unflushed(global(mo))
          /\ global(mo).concreteMask = Offsets /\ global(mo).readOnly = (mo \in ReadOnlyObjects)
    <2> SUFFICES ASSUME NEW mo \in MemoryObjects
                 PROVE  /\ \A o \in Offsets : Read8(global(mo), o) = Constant(0)
                        /\ UpdatesAgree(global(mo)) /\ Unflushed(global(mo))
                        /\ global(mo).concreteMask = Offsets
                        /\ global(mo).readOnly = (mo \in ReadOnlyObjects)
        OBVIOUS
    <2>1. /\ global(mo).concreteMask = Offsets /\ global(mo).flushMask = Offsets
          /\ global(mo).readOnly = (mo \in ReadOnlyObjects)
          /\ \A o \in Offsets : global(mo).concreteStore[o] = 0
        BY DEF NewObjectState
    <2> HIDE DEF global
    <2> QED
        BY <2>1 DEF Read8, IsByteConcrete, IsByteFlushed, UpdatesAgree, Unflushed
<1> HIDE DEF global
<1>8. UpdatesAreCoherent
    BY <1>3, <1>6, <1>7 DEF UpdatesAreCoherent, Unflushed
<1>81. ReadOnlyContents
    <2> SUFFICES ASSUME NEW mo \in MemoryObjects, Bound(1, mo)
                 PROVE  IF mo \in ReadOnlyObjects
                        THEN /\ objects[1][mo] = 1
                             /\ FindObject(1, mo).readOnly /\ FindObject(1, mo).concreteMask = Offsets
                        ELSE ~FindObject(1, mo).readOnly
        BY <1>3 DEF ReadOnlyContents
    <2> QED
        BY <1>5, <1>6, <1>7
<1>82. \A mo \in MemoryObjects : HiddenBy(1, mo) = {}
    BY <1>6, <1>7 DEF HiddenBy
<1>9. \A x \in Inputs : /\ MemoryOf(x) = [mo \in MemoryObjects |-> BytesOf(1, mo, x)]
                        /\ RegisterOf(x) = 0
                        /\ OpaqueOf(x) = [mo \in MemoryObjects |-> {}]
                        /\ Carrier(x) # {}
    <2>1. \A x \in Inputs : /\ MemoryOf(x) = [mo \in MemoryObjects |-> BytesOf(1, mo, x)]
                            /\ RegisterOf(x) = 0
                            /\ OpaqueOf(x) = [mo \in MemoryObjects |-> HiddenBy(1, mo)]
        BY <1>3, <1>4, CarriedByOne DEF CarriedViews, Constant
    <2>2. \A x \in Inputs : Carrier(x) # {}
        BY <1>3 DEF Carrier
    <2> QED
        BY <1>82, <2>1, <2>2
<1>10. \A mo \in MemoryObjects, x \in Inputs :
           BytesOf(1, mo, x) = IF mo \in InitialObjects THEN [o \in Offsets |-> 0] ELSE << >>
    <2> SUFFICES ASSUME NEW mo \in MemoryObjects, NEW x \in Inputs
                 PROVE  BytesOf(1, mo, x) = IF mo \in InitialObjects THEN [o \in Offsets |-> 0] ELSE << >>
        OBVIOUS
    <2>1. CASE mo \in InitialObjects
        <3>1. Bound(1, mo)
            BY <1>5, <2>1 DEF Bound, NoSlot
        <3>2. BytesOf(1, mo, x) = [o \in Offsets |-> Read8(global(mo), o)[x]]
            BY <1>6, <3>1 DEF BytesOf
        <3> QED
            BY <1>7, <2>1, <3>2 DEF Constant
    <2>2. CASE mo \notin InitialObjects
        BY <1>5, <2>2 DEF BytesOf, Bound
    <2> QED
        BY <2>1, <2>2
<1>11. ByInput!Init
    BY <1>3, <1>9, <1>10 DEF ByInput!Init
<1> QED
    BY <1>1, <1>3, <1>4, <1>8, <1>81, <1>11 DEF RefinementInv

(* What ConcreteMemory sees of a state. *)
SeenByInput ==
    <<[x \in Inputs |-> MemoryOf(x)], [x \in Inputs |-> RegisterOf(x)], [x \in Inputs |-> OpaqueOf(x)],
      {x \in Inputs : Carrier(x) = {}},
      IF current = Idle THEN {} ELSE pathInputs[current],
      IF current = Idle THEN NoInstruction ELSE instruction>>

(* Every step keeps the invariant, and is one of ConcreteMemory, or none. *)
LEMMA RefinementNext ==
    ASSUME NoIndexWithExternal, RefinementInv, [Next]_vars
    PROVE  RefinementInv' /\ (ByInput!Next \/ UNCHANGED SeenByInput)
<1>1. MemoryInv'
    BY MemoryInvNext DEF RefinementInv
<1>2. program' \in Programs
    BY DEF RefinementInv, Next, Select, Set, LoadAtConstant, LoadAtSymbolic, Store, StoreReadOnly, Alloc,
           Free, MakeSymbolic, CallExternal, ExternalModifiesReadOnly, Fork, Merge, Finished, Done,
           Terminate, vars
<1>3. CASE UNCHANGED vars
    <2>1. UNCHANGED <<program, live, pathInputs, objects, heap, registers, current, instruction>>
        BY <1>3 DEF vars
    <2>2. /\ PartsKept
          /\ \A r \in live, m \in MemoryObjects, x \in Inputs : BytesOf(r, m, x)' = BytesOf(r, m, x)
          /\ \A r \in live, m \in MemoryObjects : HiddenBy(r, m)' = HiddenBy(r, m)
        BY <2>1, UnchangedViews
    <2>3. \A x \in Inputs : /\ MemoryOf(x)' = MemoryOf(x) /\ OpaqueOf(x)' = OpaqueOf(x)
                            /\ RegisterOf(x)' = RegisterOf(x)
        BY <2>1, <2>2, SameViews, SameOpaque, SameRegisters DEF PartsKept
    <2>4. {x \in Inputs : Carrier(x) = {}}' = {x \in Inputs : Carrier(x) = {}}
        BY <2>1, SameEnded
    <2>5. UNCHANGED SeenByInput
        BY <2>1, <2>3, <2>4 DEF SeenByInput
    <2> QED
        BY <1>1, <1>2, <2>2, <2>5 DEF RefinementInv, PartsKept
<1>4. CASE Next /\ ~(UNCHANGED vars)
    <2>1. Simulated
        BY <1>4, SelectSimulated, SetSimulated, LoadAtConstantSimulated, LoadAtSymbolicSimulated,
           StoreSimulated, ReadOnlySimulated, AllocSimulated, FreeSimulated, MakeSymbolicSimulated,
           CallExternalSimulated, ForkSimulated, MergeSimulated
           DEF Next, Finished
    <2> QED
        BY <1>1, <1>2, <2>1 DEF Simulated, RefinementInv, PartsKept
<1> QED
    BY <1>3, <1>4

(* For every input the program computes what it would compute alone, one   *)
(* effect for each instruction that is selected; only what an external     *)
(* function writes to a byte that is not concrete is lost.                 *)
THEOREM ImplementsConcreteMemoryTheorem ==
    NoIndexWithExternal => (Spec => ImplementsConcreteMemory)
<1> SUFFICES ASSUME NoIndexWithExternal PROVE Spec => ImplementsConcreteMemory
    OBVIOUS
<1>1. Init => RefinementInv /\ ByInput!Init
    BY RefinementInit
<1>2. RefinementInv /\ [Next]_vars => RefinementInv' /\ (ByInput!Next \/ UNCHANGED SeenByInput)
    BY RefinementNext
<1>3. RefinementInv /\ [Next]_vars => RefinementInv' /\ [ByInput!Next]_(ByInput!vars)
    BY <1>2 DEF SeenByInput, ByInput!vars
<1> QED
    BY <1>1, <1>3, PTL DEF Spec, ImplementsConcreteMemory, ByInput!Spec
=============================================================================
