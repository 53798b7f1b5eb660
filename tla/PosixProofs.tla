----------------------------- MODULE PosixProofs -----------------------------
(***************************************************************************)
(* For any number of descriptors and files, any size and any width of an   *)
(* offset: the POSIX runtime faults for known reasons only, and implements *)
(* a table of open files.                                                  *)
(***************************************************************************)
EXTENDS PosixProperties, WellFoundedInduction, TLAPS

(* What an entry of the table of descriptors may be. *)
Slots == [open : BOOLEAN, off : -OffMax - 1 .. OffMax, dfile : DFiles \union {None}]

(* A non-empty set of natural numbers has a least element. *)
LEMMA MinOfNat ==
    ASSUME NEW S, S \subseteq Nat, S # {}
    PROVE  Min(S) \in S
<1> DEFINE R == {ss \in Nat \X Nat : ss[1] < ss[2]}
<1>1. IsWellFoundedOn(R, Nat)
    BY NatLessThanWellFounded, Zenon DEF OpToRel
<1>2. PICK x \in S : \A y \in S : ~(<<y, x>> \in R)
    <2> HIDE DEF R
    <2> QED
        BY <1>1, WFMin
<1>3. \A y \in S : x =< y
    <2> SUFFICES ASSUME NEW y \in S PROVE x =< y
        OBVIOUS
    <2>1. ~(<<y, x>> \in R)
        BY <1>2
    <2>2. ~(y < x)
        BY <2>1
    <2> QED
        BY <2>2
<1> QED
    BY <1>3, Zenon DEF Min

(* The arithmetic of size_t and off64_t. *)
LEMMA WordArithmetic ==
    /\ OffMax \in Nat /\ Words \in Nat \ {0} /\ FileSize <= OffMax /\ FileSize \in Nat \ {0}
    /\ Words = 2 * (OffMax + 1) /\ MaxCount \in Nat /\ MaxCount < Words
    /\ \A n \in 0 .. Words - 1 : Unsigned(n) = n
    /\ \A n \in Words .. 2 * Words - 1 : Unsigned(n) = n - Words
    /\ \A n \in -OffMax - 1 .. -1 : Unsigned(n) = n + Words
    /\ \A n \in Int : Signed(n) \in -OffMax - 1 .. OffMax
    /\ \A n \in Int : Signed(n) = IF Unsigned(n) <= OffMax THEN Unsigned(n) ELSE Unsigned(n) - Words
<1>1. OffMax \in Nat /\ Words \in Nat \ {0} /\ FileSize <= OffMax /\ FileSize \in Nat \ {0} /\ Words = 2 * (OffMax + 1)
    BY PosixAssumption DEF Words
<1>2. MaxCount \in Nat /\ MaxCount < Words
    BY PosixAssumption
<1>3. \A m \in Nat \ {0}, n \in Nat : n < m => n % m = n
    OBVIOUS
<1>4. \A m \in Nat \ {0}, n \in Int : n % m \in 0 .. m - 1
    OBVIOUS
<1>5. \A m \in Nat \ {0}, n \in Int : n < 0 /\ n + m >= 0 => n % m = n + m
    OBVIOUS
<1>6. \A m \in Nat \ {0}, n \in Int : m <= n /\ n < 2 * m => n % m = n - m
    OBVIOUS
<1>7. \A n \in 0 .. Words - 1 : Unsigned(n) = n
    BY <1>1, <1>3 DEF Unsigned
<1>8. \A n \in -OffMax - 1 .. -1 : Unsigned(n) = n + Words
    BY <1>1, <1>5 DEF Unsigned
<1>9. \A n \in Words .. 2 * Words - 1 : Unsigned(n) = n - Words
    <2>1. \A n \in Words .. 2 * Words - 1 : n \in Int /\ Words <= n /\ n < 2 * Words
        BY <1>1
    <2>2. \A n \in Words .. 2 * Words - 1 : n % Words = n - Words
        BY <1>1, <1>6, <2>1
    <2> QED
        BY <2>2 DEF Unsigned
<1>10. \A n \in Int : Unsigned(n) \in 0 .. Words - 1
    BY <1>1, <1>4 DEF Unsigned
<1>11. /\ \A n \in Int : Signed(n) \in -OffMax - 1 .. OffMax
       /\ \A n \in Int : Signed(n) = IF Unsigned(n) <= OffMax THEN Unsigned(n) ELSE Unsigned(n) - Words
    BY <1>1, <1>10 DEF Signed
<1> QED
    BY <1>1, <1>2, <1>7, <1>8, <1>9, <1>11

(* A sum of a position and a count, which wraps at most once. *)
LEMMA SumWrapsOnce ==
    ASSUME NEW off \in 0 .. OffMax, NEW count \in 0 .. MaxCount
    PROVE  /\ off \in Nat /\ count \in Nat /\ off + count < 2 * Words
           /\ off + count < Words => Unsigned(off + count) = off + count
           /\ off + count >= Words => Unsigned(off + count) = off + count - Words
<1>1. off \in Nat /\ count \in Nat /\ count < Words /\ off < Words
    BY WordArithmetic
<1> QED
    BY <1>1, WordArithmetic

(* A read of a position in range stays in the contents unless its sum      *)
(* wraps, and moves to a position in range if it does.                     *)
LEMMA ReadStaysInRange ==
    ASSUME NEW off \in 0 .. OffMax, NEW count \in 0 .. MaxCount
    PROVE  /\ Copied(off, ReadCount(off, count)) \subseteq Contents
                  => off + ReadCount(off, count) \in 0 .. OffMax
           /\ off + count < Words => Copied(off, ReadCount(off, count)) \subseteq Contents
<1>1. /\ off \in Nat /\ count \in Nat /\ OffMax \in Nat /\ FileSize \in Nat \ {0}
      /\ FileSize <= OffMax /\ Words = 2 * (OffMax + 1)
    BY WordArithmetic, SumWrapsOnce
<1>2. CASE FileSize < off
    <2>1. ReadCount(off, count) = 0
        BY <1>2 DEF ReadCount
    <2> QED
        BY <1>1, <2>1 DEF Copied, Contents
<1>3. CASE ~(FileSize < off) /\ Unsigned(off + count) > FileSize
    <2>1. ReadCount(off, count) = FileSize - off
        BY <1>3 DEF ReadCount
    <2> QED
        BY <1>1, <1>3, <2>1 DEF Copied, Contents
<1>4. CASE ~(FileSize < off) /\ ~(Unsigned(off + count) > FileSize)
    <2>1. ReadCount(off, count) = count
        BY <1>4 DEF ReadCount
    <2>2. CASE off + count < Words
        <3>1. off + count <= FileSize
            <4>1. Unsigned(off + count) = off + count
                BY <2>2, SumWrapsOnce
            <4> QED
                BY <1>1, <1>4, <4>1
        <3> QED
            BY <1>1, <2>1, <3>1 DEF Copied, Contents
    <2>3. CASE off + count >= Words
        <3>1. FileSize \in Copied(off, count) /\ FileSize \notin Contents
            BY <1>1, <1>4, <2>3 DEF Copied, Contents
        <3> QED
            BY <1>1, <2>1, <2>3, <3>1
    <2> QED
        BY <1>1, <2>2, <2>3
<1> QED
    BY <1>2, <1>3, <1>4

(* A write at a position in range copies what fits.  It stays in the       *)
(* contents unless its sum wraps.                                          *)
LEMMA WriteCopiesWhatFits ==
    ASSUME NEW off \in 0 .. OffMax, NEW count \in 0 .. MaxCount
    PROVE  /\ off + count < Words => Copied(off, ActualCount(off, count)) \subseteq Contents
           /\ Copied(off, ActualCount(off, count)) \subseteq Contents =>
                  Copied(off, ActualCount(off, count)) = {i \in off .. off + count - 1 : i < FileSize}
<1>1. /\ off \in Nat /\ count \in Nat /\ OffMax \in Nat /\ FileSize \in Nat \ {0}
      /\ FileSize <= OffMax /\ Words = 2 * (OffMax + 1)
    BY WordArithmetic, SumWrapsOnce
<1>2. CASE Fits(off, count)
    <2>1. ActualCount(off, count) = count
        BY <1>2 DEF ActualCount
    <2>2. CASE off + count < Words
        <3>1. off + count <= FileSize
            BY <1>2, <2>2, SumWrapsOnce DEF Fits
        <3> QED
            BY <1>1, <2>1, <3>1 DEF Copied, Contents
    <2>3. CASE off + count >= Words
        <3>1. CASE off <= FileSize
            <4>1. FileSize \in Copied(off, count) /\ FileSize \notin Contents
                BY <1>1, <2>3, <3>1 DEF Copied, Contents
            <4> QED
                BY <1>1, <2>1, <2>3, <4>1
        <3>2. CASE off > FileSize
            <4>1. off \in Copied(off, count) /\ off \notin Contents
                BY <1>1, <2>3, <3>2 DEF Copied, Contents
            <4> QED
                BY <1>1, <2>1, <2>3, <4>1
        <3> QED
            BY <1>1, <3>1, <3>2
    <2> QED
        BY <1>1, <2>2, <2>3
<1>3. CASE ~Fits(off, count)
    <2>1. off + count > FileSize
        <3>1. CASE off + count < Words
            <4>1. Unsigned(off + count) = off + count
                BY <3>1, SumWrapsOnce
            <4> QED
                BY <1>1, <1>3, <4>1 DEF Fits
        <3>2. CASE off + count >= Words
            BY <1>1, <3>2
        <3> QED
            BY <1>1, <3>1, <3>2
    <2>2. ActualCount(off, count) = IF off < FileSize THEN FileSize - off ELSE 0
        BY <1>3 DEF ActualCount
    <2> QED
        BY <1>1, <2>1, <2>2 DEF Copied, Contents
<1> QED
    BY <1>2, <1>3

(* Where a write at a position in range leaves the offset. *)
LEMMA WriteMoves ==
    ASSUME NEW off \in 0 .. OffMax, NEW count \in 0 .. MaxCount
    PROVE  LET q == (off + count) % (2 * (OffMax + 1))
           IN  IF q <= OffMax THEN OffAfterWrite(off, count) = q ELSE OffAfterWrite(off, count) < 0
<1>1. off + count \in Nat
    BY SumWrapsOnce
<1>2. (off + count) % (2 * (OffMax + 1)) = Unsigned(off + count)
    BY WordArithmetic DEF Unsigned
<1>3. Unsigned(off + count) \in 0 .. Words - 1
    BY <1>1, SumWrapsOnce, WordArithmetic
<1>4. OffAfterWrite(off, count) =
          IF Unsigned(off + count) <= OffMax THEN Unsigned(off + count) ELSE Unsigned(off + count) - Words
    BY <1>1, WordArithmetic DEF OffAfterWrite
<1>5. PICK u \in 0 .. Words - 1 : u = Unsigned(off + count)
    BY <1>3
<1>6. OffAfterWrite(off, count) = IF u <= OffMax THEN u ELSE u - Words
    BY <1>4, <1>5
<1>7. (off + count) % (2 * (OffMax + 1)) = u
    BY <1>2, <1>5
<1> HIDE DEF OffAfterWrite
<1> QED
    BY <1>6, <1>7, WordArithmetic

(* A write at a position that has wrapped copies from before the contents. *)
LEMMA WrappedWriteFaults ==
    ASSUME NEW off \in -OffMax - 1 .. -1, NEW count \in 0 .. MaxCount
    PROVE  ~(Copied(off, ActualCount(off, count)) \subseteq Contents)
<1>1. /\ count \in Nat /\ count < Words /\ off \in Int /\ off < 0 /\ OffMax \in Nat
      /\ FileSize \in Nat \ {0} /\ FileSize <= OffMax /\ Words = 2 * (OffMax + 1)
    BY WordArithmetic
<1>2. ActualCount(off, count) > 0
    <2>1. CASE Fits(off, count)
        <3>1. count # 0
            <4> SUFFICES ASSUME count = 0 PROVE FALSE
                OBVIOUS
            <4>1. Unsigned(off + count) = off + Words
                BY <1>1, WordArithmetic
            <4> QED
                BY <1>1, <2>1, <4>1 DEF Fits
        <3> QED
            BY <1>1, <2>1, <3>1 DEF ActualCount
    <2>2. CASE ~Fits(off, count)
        BY <1>1, <2>2 DEF ActualCount
    <2> QED
        BY <2>1, <2>2
<1>3. ActualCount(off, count) \in Int
    BY <1>1 DEF ActualCount
<1>4. off \in Copied(off, ActualCount(off, count)) /\ off \notin Contents
    BY <1>1, <1>2, <1>3 DEF Copied, Contents
<1> QED
    BY <1>4

(***************************************************************************)
(* The invariant.                                                          *)
(***************************************************************************)
(* The slots that calls put into the table. *)
LEMMA SlotTypes ==
    /\ Cleared \in Slots /\ Slot \in Slots
    /\ \A f \in SymFiles, g \in BOOLEAN : [Slot EXCEPT !.open = g, !.dfile = f] \in Slots
    /\ \A s \in Slots, o \in -OffMax - 1 .. OffMax : [s EXCEPT !.off = o] \in Slots
<1>1. 0 \in -OffMax - 1 .. OffMax
    BY PosixAssumption
<1> QED
    BY <1>1 DEF Slots, Slot, Cleared, DFiles, None

(* One descriptor changes, and bytes within the files. *)
LEMMA PutKeeps ==
    ASSUME FilesInv, NEW d \in Fds, NEW slot \in Slots, Put(d, slot), fault = NoFault, UNCHANGED fault,
           written' \in [DFiles -> SUBSET (0 .. FileSize - 1)], UNCHANGED ino
    PROVE  FilesInv'
<1>1. fds \in [Fds -> Slots]
    BY DEF FilesInv, Slots
<1>2. fds' \in [Fds -> Slots]
    BY <1>1 DEF Put
<1>3. FaultsAreKnown'
    BY DEF FaultsAreKnown, NoFault
<1> QED
    BY <1>2, <1>3 DEF FilesInv, Slots

(* A call on an open descriptor leaves the contents, or fails the          *)
(* assertion of read, for one of the two reasons.                          *)
LEMMA FaultKeeps ==
    ASSUME FilesInv, NEW fd \in Fds, NEW what, NEW count, fds[fd].open,
           fds[fd].off < 0 \/ fds[fd].off + count >= Words,
           Fault([what |-> what, fd |-> fd, count |-> count])
    PROVE  FilesInv'
<1>1. /\ fault' = [what |-> what, fd |-> fd, count |-> count]
      /\ UNCHANGED <<fds, written, ino>>
    BY DEF Fault
<1>2. fault'.fd = fd /\ fault'.count = count
    BY <1>1
<1>3. FaultsAreKnown'
    BY <1>1, <1>2 DEF FaultsAreKnown
<1> QED
    BY <1>1, <1>3 DEF FilesInv

(* The lowest free descriptor is a descriptor. *)
LEMMA FreeFdIsFd == FreeFds # {} => Min(FreeFds) \in Fds /\ Min(FreeFds) \in FreeFds
BY MinOfNat DEF FreeFds, Fds

(* What each call puts into the table, and that it keeps the invariant. *)
LEMMA DescriptorKeeps ==
    ASSUME FilesInv, fault = NoFault, NEW fd \in Fds, Descriptor(fd)
    PROVE  FilesInv'
<1>1. /\ fds \in [Fds -> Slots] /\ fds[fd] \in Slots /\ fds[fd].off \in -OffMax - 1 .. OffMax
      /\ written \in [DFiles -> SUBSET (0 .. FileSize - 1)]
    <2>1. fds \in [Fds -> Slots] /\ written \in [DFiles -> SUBSET (0 .. FileSize - 1)]
        BY DEF FilesInv, Slots
    <2>2. fds[fd] \in Slots
        BY <2>1
    <2> QED
        BY <2>1, <2>2 DEF Slots
<1>2. CASE Close(fd)
    <2>1. UNCHANGED <<written, ino, fault>> /\ (UNCHANGED fds \/ Put(fd, Cleared))
        BY <1>2 DEF Close
    <2>2. CASE UNCHANGED fds
        BY <2>1, <2>2 DEF FilesInv, FaultsAreKnown, NoFault
    <2>3. CASE Put(fd, Cleared)
        BY <1>1, <2>1, <2>3, SlotTypes, PutKeeps
    <2> QED
        BY <2>1, <2>2, <2>3
<1>3. ASSUME NEW e \in Fds, Dup2(fd, e)
      PROVE  FilesInv'
    <2>1. UNCHANGED <<written, ino, fault>> /\ (Put(e, fds[fd]) \/ Put(e, Cleared))
        BY <1>3 DEF Dup2
    <2>2. CASE Put(e, Cleared)
        BY <1>1, <2>1, <2>2, SlotTypes, PutKeeps
    <2>3. PICK slot \in Slots : slot = fds[fd]
        BY <1>1
    <2>4. CASE Put(e, fds[fd])
        <3>1. Put(e, slot)
            BY <2>3, <2>4
        <3> QED
            BY <1>1, <2>1, <3>1, PutKeeps
    <2> QED
        BY <2>1, <2>2, <2>4
<1>4. CASE Dup(fd)
    BY <1>3, <1>4, FreeFdIsFd DEF Dup
<1>5. ASSUME NEW count \in 0 .. MaxCount, Read(fd, count)
      PROVE  FilesInv'
    <2> DEFINE inside == Copied(fds[fd].off, ReadCount(fds[fd].off, count)) \subseteq Contents
    <2>1. CASE fds[fd].off < 0
        <3>1. fds[fd].open /\ Fault([what |-> "assert", fd |-> fd, count |-> count])
            BY <1>1, <1>5, <2>1 DEF Read
        <3> QED
            BY <2>1, <3>1, FaultKeeps
    <2>2. CASE fds[fd].off >= 0 /\ ~inside
        <3>1. fds[fd].open /\ Fault([what |-> "bounds", fd |-> fd, count |-> count])
            BY <1>1, <1>5, <2>2 DEF Read
        <3>2. fds[fd].off \in 0 .. OffMax
            BY <1>1, <2>2
        <3>3. fds[fd].off + count >= Words
            <4>1. ~(fds[fd].off + count < Words)
                BY <2>2, <3>2, ReadStaysInRange
            <4> QED
                BY <3>2, <4>1, SumWrapsOnce, WordArithmetic
        <3> QED
            BY <3>1, <3>3, FaultKeeps
    <2>3. CASE fds[fd].off >= 0 /\ inside
        <3> DEFINE o == fds[fd].off + ReadCount(fds[fd].off, count)
        <3>1. o \in -OffMax - 1 .. OffMax
            <4>1. fds[fd].off \in 0 .. OffMax
                BY <1>1, <2>3
            <4>2. o \in 0 .. OffMax
                BY <2>3, <4>1, ReadStaysInRange
            <4> HIDE DEF o
            <4> QED
                BY <4>2, PosixAssumption
        <3>2. Put(fd, [fds[fd] EXCEPT !.off = o]) /\ UNCHANGED <<written, ino, fault>>
            BY <1>1, <1>5, <2>3 DEF Read
        <3> HIDE DEF o
        <3>3. PICK slot \in Slots : slot = [fds[fd] EXCEPT !.off = o]
            BY <1>1, <3>1, SlotTypes
        <3>4. Put(fd, slot)
            BY <3>2, <3>3
        <3> QED
            BY <1>1, <3>2, <3>4, PutKeeps
    <2> QED
        BY <1>1, <2>1, <2>2, <2>3
<1>6. ASSUME NEW count \in 0 .. MaxCount, Write(fd, count)
      PROVE  FilesInv'
    <2> DEFINE copied == Copied(fds[fd].off, ActualCount(fds[fd].off, count))
    <2>1. CASE Fault([what |-> "save_all_writes", fd |-> fd, count |-> count])
        BY <2>1 DEF FilesInv, FaultsAreKnown, Fault
    <2>2. CASE ~(copied \subseteq Contents) /\ Fault([what |-> "bounds", fd |-> fd, count |-> count])
        <3>1. fds[fd].off < 0 \/ fds[fd].off + count >= Words
            <4> SUFFICES ASSUME ~(fds[fd].off < 0) PROVE fds[fd].off + count >= Words
                OBVIOUS
            <4>1. fds[fd].off \in 0 .. OffMax
                BY <1>1
            <4>2. ~(fds[fd].off + count < Words)
                BY <2>2, <4>1, WriteCopiesWhatFits
            <4> QED
                BY <4>1, <4>2, SumWrapsOnce, WordArithmetic
        <3>2. fds[fd].open
            BY <1>6 DEF Write
        <3> QED
            BY <2>2, <3>1, <3>2, FaultKeeps
    <2>3. CASE /\ copied \subseteq Contents
               /\ written' = [written EXCEPT ![fds[fd].dfile] = @ \union copied]
               /\ Put(fd, [fds[fd] EXCEPT !.off = OffAfterWrite(@, count)])
               /\ UNCHANGED <<ino, save_all_writes, fault>>
        <3> HIDE DEF copied
        <3>1. written' \in [DFiles -> SUBSET (0 .. FileSize - 1)]
            BY <1>1, <2>3 DEF Contents
        <3>2. PICK o \in -OffMax - 1 .. OffMax : o = OffAfterWrite(fds[fd].off, count)
            BY <1>1, PosixAssumption, WordArithmetic DEF OffAfterWrite
        <3>3. Put(fd, [fds[fd] EXCEPT !.off = o])
            BY <1>1, <2>3, <3>2
        <3>4. PICK slot \in Slots : slot = [fds[fd] EXCEPT !.off = o]
            BY <1>1, SlotTypes
        <3>5. Put(fd, slot)
            BY <3>3, <3>4
        <3> QED
            BY <2>3, <3>1, <3>5, PutKeeps
    <2> QED
        BY <1>6, <2>1, <2>2, <2>3 DEF Write
<1>7. ASSUME NEW offset \in Offsets, NEW whence \in {"SET", "CUR", "END"}, Lseek(fd, offset, whence)
      PROVE  FilesInv'
    <2> DEFINE new == SeekTo(fds[fd].off, offset, whence)
    <2>1. Put(fd, [fds[fd] EXCEPT !.off = new]) /\ UNCHANGED <<written, ino, fault>>
        BY <1>7 DEF Lseek
    <2>2. offset \in -OffMax - 1 .. OffMax
        BY PosixAssumption DEF Offsets
    <2>3. new \in -OffMax - 1 .. OffMax
        BY <1>1, <2>2, WordArithmetic DEF SeekTo
    <2> HIDE DEF new
    <2>4. PICK slot \in Slots : slot = [fds[fd] EXCEPT !.off = new]
        BY <1>1, <2>3, SlotTypes
    <2>5. Put(fd, slot)
        BY <2>1, <2>4
    <2> QED
        BY <1>1, <2>1, <2>5, PutKeeps
<1> QED
    BY <1>2, <1>3, <1>4, <1>5, <1>6, <1>7 DEF Descriptor

(* The invariant holds in every state. *)
LEMMA FilesInvariant == Spec => []FilesInv
<1>1. Init => FilesInv
    <2> SUFFICES ASSUME Init PROVE FilesInv
        OBVIOUS
    <2>1. PICK setup \in Setups : fds = InitialFds(setup)
        BY DEF Init
    <2>2. 0 \in -OffMax - 1 .. OffMax
        BY PosixAssumption
    <2>3. fds \in [Fds -> Slots]
        <3>1. \A f \in {"stdin", "stdout", None} : [Slot EXCEPT !.dfile = f] \in Slots
            BY <2>2 DEF Slots, Slot, DFiles
        <3> QED
            BY <2>1, <3>1, SlotTypes DEF InitialFds
    <2>4. FaultsAreKnown
        BY DEF Init, FaultsAreKnown, NoFault
    <2> QED
        BY <2>3, <2>4 DEF Init, FilesInv, Slots
<1>2. FilesInv /\ [Next]_vars => FilesInv'
    <2> SUFFICES ASSUME FilesInv, [Next]_vars PROVE FilesInv'
        OBVIOUS
    <2>1. CASE UNCHANGED vars
        BY <2>1 DEF FilesInv, FaultsAreKnown, vars
    <2>2. CASE Next
        <3>1. fault = NoFault
            BY <2>2 DEF Next
        <3>2. written \in [DFiles -> SUBSET (0 .. FileSize - 1)]
            BY DEF FilesInv
        <3>3. ASSUME NEW file \in SymFiles, Remove(file) PROVE FilesInv'
            BY <3>1, <3>3 DEF FilesInv, FaultsAreKnown, Remove, NoFault
        <3>4. ASSUME NEW file \in SymFiles, NEW granted \in BOOLEAN, OpenSymbolic(file, granted) PROVE FilesInv'
            <4>1. PICK slot \in Slots : slot = [Slot EXCEPT !.open = granted, !.dfile = file]
                BY SlotTypes
            <4>2. /\ FreeFds # {} /\ Put(Min(FreeFds), slot)
                  /\ UNCHANGED <<written, ino, fault>>
                BY <3>4, <4>1 DEF OpenSymbolic
            <4> QED
                BY <3>1, <3>2, <4>2, FreeFdIsFd, PutKeeps
        <3>5. ASSUME NEW granted \in BOOLEAN, OpenConcrete(granted) PROVE FilesInv'
            <4>1. PICK slot \in Slots : slot = IF granted THEN Slot ELSE Cleared
                BY SlotTypes
            <4>2. /\ FreeFds # {} /\ Put(Min(FreeFds), slot)
                  /\ UNCHANGED <<written, ino, fault>>
                BY <3>5, <4>1 DEF OpenConcrete
            <4> QED
                BY <3>1, <3>2, <4>2, FreeFdIsFd, PutKeeps
        <3>6. ASSUME NEW kind, FailOnly(kind) PROVE FilesInv'
            BY <3>1, <3>6 DEF FilesInv, FaultsAreKnown, FailOnly, NoFault
        <3>7. CASE Chmod
            BY <3>7 DEF FilesInv, FaultsAreKnown, Chmod, Fault
        <3> QED
            BY <2>2, <3>1, <3>3, <3>4, <3>5, <3>6, <3>7, DescriptorKeeps DEF Next
    <2> QED
        BY <2>1, <2>2
<1> QED
    BY <1>1, <1>2, PTL DEF Spec

(* read and write leave the contents of a file, and the assertion of read  *)
(* fails, only at an offset that has wrapped past the largest off64_t or   *)
(* with a count that takes the sum past the largest size_t.                *)
THEOREM FaultsAreKnownTheorem == Spec => []FaultsAreKnown
<1>1. FilesInv => FaultsAreKnown
    BY DEF FilesInv
<1> QED
    BY <1>1, FilesInvariant, PTL

(***************************************************************************)
(* The refinement.                                                         *)
(***************************************************************************)
(* The entry of the table that a slot stands for. *)
EntryOf(slot) ==
    IF ~slot.open THEN [file |-> "closed", pos |-> 0]
    ELSE [file |-> IF slot.dfile = None THEN "concrete" ELSE slot.dfile,
          pos |-> IF slot.off < 0 THEN -1 ELSE slot.off]

(* A descriptor is used in the table exactly if its slot is open. *)
LEMMA EntryFields ==
    ASSUME NEW slot \in Slots
    PROVE  /\ EntryOf(slot).file = "closed" <=> ~slot.open
           /\ slot.open => /\ EntryOf(slot) = [file |-> IF slot.dfile = None THEN "concrete" ELSE slot.dfile,
                                               pos |-> IF slot.off < 0 THEN -1 ELSE slot.off]
                           /\ EntryOf(slot).file = IF slot.dfile = None THEN "concrete" ELSE slot.dfile
                           /\ EntryOf(slot).pos = IF slot.off < 0 THEN -1 ELSE slot.off
           /\ ~slot.open => EntryOf(slot) = [file |-> "closed", pos |-> 0]
<1>1. slot.dfile \in DFiles \union {None} /\ slot.open \in BOOLEAN
    BY DEF Slots
<1>2. slot.dfile # "closed"
    BY <1>1, PosixAssumption DEF DFiles, None
<1> QED
    BY <1>2 DEF EntryOf

(* The table, its free places, and what a change of a slot does to it. *)
LEMMA TableOfSlots ==
    ASSUME fds \in [Fds -> Slots]
    PROVE  /\ Entries = [d \in Fds |-> EntryOf(fds[d])]
           /\ \A d \in Fds : Entries[d] = EntryOf(fds[d])
           /\ \A d \in Fds : Abstract!IsOpen(d) <=> fds[d].open
           /\ Abstract!Unused = FreeFds
           /\ Abstract!Min(Abstract!Unused) = Min(FreeFds)
           /\ \A d \in Fds, slot \in Slots : Put(d, slot) => Abstract!Set(d, EntryOf(slot))
<1>1. Entries = [d \in Fds |-> EntryOf(fds[d])]
    BY DEF Entries, EntryOf
<1>2. \A d \in Fds : Entries[d] = EntryOf(fds[d])
    BY <1>1
<1>3. \A d \in Fds : Abstract!IsOpen(d) <=> fds[d].open
    BY <1>2, EntryFields DEF Abstract!IsOpen, Abstract!Closed
<1>4. Abstract!Unused = FreeFds
    BY <1>3 DEF Abstract!Unused, FreeFds
<1>5. Abstract!Min(Abstract!Unused) = Min(FreeFds)
    BY <1>4, Zenon DEF Abstract!Min, Min
<1>6. ASSUME NEW d \in Fds, NEW slot \in Slots, Put(d, slot)
      PROVE  Abstract!Set(d, EntryOf(slot))
    <2>1. fds' = [fds EXCEPT ![d] = slot]
        BY <1>6 DEF Put
    <2>2. Entries' = [e \in Fds |-> EntryOf(fds'[e])]
        BY DEF Entries, EntryOf
    <2>3. \A e \in Fds : EntryOf(fds'[e]) = IF e = d THEN EntryOf(slot) ELSE EntryOf(fds[e])
        BY <2>1
    <2>4. Entries' = [Entries EXCEPT ![d] = EntryOf(slot)]
        BY <1>1, <2>2, <2>3
    <2> QED
        BY <2>4 DEF Abstract!Set
<1> QED
    BY <1>1, <1>2, <1>3, <1>4, <1>5, <1>6

(* The abstract state, and the step that leaves it alone. *)
abstractVars == <<Entries, written, ino \cap SymFiles>>

(* What leaves the descriptors and files alone is no step of the table. *)
LEMMA SameTable ==
    ASSUME UNCHANGED <<fds, written, ino>> PROVE UNCHANGED abstractVars
BY DEF abstractVars, Entries

(* A descriptor whose slot is put back or replaced by an equal entry. *)
LEMMA SameEntry ==
    ASSUME fds \in [Fds -> Slots], NEW d \in Fds, NEW slot \in Slots, Put(d, slot),
           EntryOf(slot) = EntryOf(fds[d]), UNCHANGED <<written, ino>>
    PROVE  UNCHANGED abstractVars
<1>1. Entries' = [Entries EXCEPT ![d] = EntryOf(slot)] /\ Entries[d] = EntryOf(fds[d])
    BY TableOfSlots DEF Abstract!Set
<1>2. Entries' = Entries
    <2>1. DOMAIN Entries = Fds /\ Entries = [e \in Fds |-> Entries[e]]
        BY DEF Entries
    <2> QED
        BY <1>1, <2>1
<1> QED
    BY <1>2 DEF abstractVars

(* A call that moves the offset of one open descriptor to one in range. *)
LEMMA MoveSimulated ==
    ASSUME fds \in [Fds -> Slots], NEW d \in Fds, NEW o \in 0 .. OffMax, fds[d].open,
           Put(d, [fds[d] EXCEPT !.off = o]), UNCHANGED <<written, ino>>
    PROVE  Abstract!Move(d)
<1>1. PICK slot \in Slots : slot = [fds[d] EXCEPT !.off = o]
    <2>1. fds[d] \in Slots /\ o \in -OffMax - 1 .. OffMax
        BY PosixAssumption
    <2> QED
        BY <2>1, SlotTypes
<1>2. slot.open = fds[d].open /\ slot.dfile = fds[d].dfile /\ slot.off = o
    BY <1>1 DEF Slots
<1>3. Abstract!Set(d, EntryOf(slot))
    BY <1>1, TableOfSlots
<1>4. Entries[d] = EntryOf(fds[d])
    BY TableOfSlots
<1>5. EntryOf(slot) = [EntryOf(fds[d]) EXCEPT !.pos = o] /\ EntryOf(slot).pos = o
    <2>1. fds[d] \in Slots /\ ~(o < 0)
        OBVIOUS
    <2> DEFINE file == IF fds[d].dfile = None THEN "concrete" ELSE fds[d].dfile
               pos  == IF fds[d].off < 0 THEN -1 ELSE fds[d].off
    <2>2. EntryOf(fds[d]) = [file |-> file, pos |-> pos]
        BY <2>1, EntryFields
    <2>3. EntryOf(slot) = [file |-> file, pos |-> o]
        BY <1>2, <2>1, EntryFields
    <2> HIDE DEF file, pos
    <2> QED
        BY <2>2, <2>3
<1>6. Entries'[d] = EntryOf(slot)
    <2>1. Entries' = [Entries EXCEPT ![d] = EntryOf(slot)] /\ DOMAIN Entries = Fds
        BY <1>3 DEF Abstract!Set, Entries
    <2> QED
        BY <2>1
<1>7. Abstract!IsOpen(d)
    BY TableOfSlots
<1> HIDE DEF EntryOf
<1>8. Entries'[d].pos = o /\ [Entries[d] EXCEPT !.pos = Entries'[d].pos] = EntryOf(slot)
    BY <1>4, <1>5, <1>6
<1> QED
    BY <1>3, <1>7, <1>8 DEF Abstract!Move

(* A write that goes through. *)
LEMMA WriteSimulated ==
    ASSUME fds \in [Fds -> Slots], NEW d \in Fds, NEW count \in 0 .. MaxCount,
           fds[d].open, fds[d].dfile # None, fds[d].off \in 0 .. OffMax,
           Copied(fds[d].off, ActualCount(fds[d].off, count)) \subseteq Contents,
           written' = [written EXCEPT ![fds[d].dfile] =
                          @ \union Copied(fds[d].off, ActualCount(fds[d].off, count))],
           Put(d, [fds[d] EXCEPT !.off = OffAfterWrite(@, count)]), UNCHANGED ino
    PROVE  Abstract!Write(d, count)
<1> DEFINE p == fds[d].off
           q == (p + count) % (2 * (OffMax + 1))
<1>1. fds[d] \in Slots /\ fds[d].dfile \in DFiles
    BY DEF Slots
<1>2. PICK o \in -OffMax - 1 .. OffMax : o = OffAfterWrite(p, count)
    <2>1. p + count \in Int
        BY SumWrapsOnce
    <2> QED
        BY <2>1, WordArithmetic DEF OffAfterWrite
<1>3. PICK slot \in Slots : slot = [fds[d] EXCEPT !.off = o]
    BY <1>1, SlotTypes
<1>4. slot.open = fds[d].open /\ slot.dfile = fds[d].dfile /\ slot.off = o /\ Put(d, slot)
    BY <1>1, <1>2, <1>3 DEF Slots
<1>5. Abstract!Set(d, EntryOf(slot)) /\ Entries[d] = EntryOf(fds[d]) /\ Abstract!IsOpen(d)
    BY <1>4, TableOfSlots
<1>6. EntryOf(fds[d]) = [file |-> fds[d].dfile, pos |-> p]
    BY <1>1, EntryFields
<1>7. IF q <= OffMax THEN o = q ELSE o < 0
    BY <1>2, WriteMoves
<1>8. (IF o < 0 THEN -1 ELSE o) = IF q <= OffMax THEN q ELSE -1
    <2>1. q \in Nat
        <3>1. p + count \in Int /\ 2 * (OffMax + 1) \in Nat \ {0}
            BY SumWrapsOnce, WordArithmetic
        <3>2. \A m \in Nat \ {0}, n \in Int : n % m \in Nat
            OBVIOUS
        <3> QED
            BY <3>1, <3>2
    <2> HIDE DEF q
    <2> QED
        BY <1>7, <2>1
<1> HIDE DEF q
<1>9. EntryOf(slot) = [file |-> fds[d].dfile, pos |-> IF q <= OffMax THEN q ELSE -1]
    BY <1>1, <1>4, <1>8, EntryFields
<1>10. /\ Entries[d].file = fds[d].dfile /\ Entries[d].pos = p
       /\ [Entries[d] EXCEPT !.pos = IF q <= OffMax THEN q ELSE -1] = EntryOf(slot)
    BY <1>5, <1>6, <1>9
<1>11. fds[d].dfile # "concrete"
    BY <1>1, PosixAssumption DEF DFiles
<1>12. p # -1
    OBVIOUS
<1>13. written' = [written EXCEPT ![Entries[d].file] =
                     @ \union {i \in Entries[d].pos .. Entries[d].pos + count - 1 : i < FileSize}]
    BY <1>10, WriteCopiesWhatFits
<1>14. q = (Entries[d].pos + count) % (2 * (OffMax + 1))
    BY <1>10 DEF q
<1> HIDE DEF p
<1> QED
    BY <1>5, <1>10, <1>11, <1>12, <1>13, <1>14 DEF Abstract!Write, Abstract!Concrete, Abstract!Lost

(* Every call on a descriptor is a step of the table, or none. *)
LEMMA DescriptorSimulated ==
    ASSUME FilesInv, NEW fd \in Fds, Descriptor(fd)
    PROVE  Abstract!Next \/ UNCHANGED abstractVars
<1>1. /\ fds \in [Fds -> Slots] /\ fds[fd] \in Slots /\ fds[fd].off \in -OffMax - 1 .. OffMax
    <2>1. fds \in [Fds -> Slots]
        BY DEF FilesInv, Slots
    <2> QED
        BY <2>1 DEF Slots
<1>2. ASSUME fds[fd].open, Put(fd, Cleared), UNCHANGED <<written, ino>>
      PROVE  Abstract!Next
    <2>1. Abstract!Set(fd, EntryOf(Cleared)) /\ Abstract!IsOpen(fd)
        BY <1>1, <1>2, SlotTypes, TableOfSlots
    <2>2. EntryOf(Cleared) = Abstract!NoEntry
        BY DEF EntryOf, Cleared, Slot, Abstract!NoEntry, Abstract!Closed
    <2>3. Abstract!Close(fd)
        BY <1>2, <2>1, <2>2 DEF Abstract!Close
    <2> QED
        BY <2>3 DEF Abstract!Next
<1>3. CASE Close(fd)
    <2>1. fds[fd].open /\ UNCHANGED <<written, ino>> /\ (UNCHANGED fds \/ Put(fd, Cleared))
        BY <1>3 DEF Close
    <2> QED
        BY <1>2, <2>1, SameTable
<1>4. ASSUME NEW e \in Fds, Dup2(fd, e)
      PROVE  Abstract!Next \/ UNCHANGED abstractVars
    <2>1. PICK slot \in Slots : slot = fds[fd]
        BY <1>1
    <2>2. /\ fds[fd].open /\ UNCHANGED <<written, ino>>
          /\ (Put(e, slot) \/ (e = fd /\ Put(e, Cleared)))
        BY <1>4, <2>1 DEF Dup2
    <2>3. CASE e = fd /\ Put(e, Cleared)
        BY <1>2, <2>2, <2>3
    <2>4. CASE e = fd /\ Put(e, slot)
        BY <1>1, <2>1, <2>2, <2>4, SameEntry
    <2>5. CASE e # fd /\ Put(e, slot)
        <3>1. Abstract!Set(e, EntryOf(slot)) /\ Abstract!IsOpen(fd) /\ Entries[fd] = EntryOf(slot)
            BY <1>1, <2>1, <2>2, <2>5, TableOfSlots
        <3>2. Abstract!Dup(fd, e)
            BY <2>2, <2>5, <3>1 DEF Abstract!Dup
        <3> QED
            BY <3>2 DEF Abstract!Next
    <2> QED
        BY <2>2, <2>3, <2>4, <2>5
<1>5. CASE Dup(fd)
    BY <1>4, <1>5, FreeFdIsFd DEF Dup
<1>6. ASSUME NEW what, Fault(what) PROVE UNCHANGED abstractVars
    BY <1>6, SameTable DEF Fault
<1>7. ASSUME NEW count \in 0 .. MaxCount, Read(fd, count)
      PROVE  Abstract!Next \/ UNCHANGED abstractVars
    <2> DEFINE inside == Copied(fds[fd].off, ReadCount(fds[fd].off, count)) \subseteq Contents
    <2>1. CASE fds[fd].off < 0 \/ ~inside
        BY <1>1, <1>6, <1>7, <2>1 DEF Read
    <2>2. CASE fds[fd].off >= 0 /\ inside
        <3>1. fds[fd].off \in 0 .. OffMax
            BY <1>1, <2>2
        <3>2. PICK o \in 0 .. OffMax : o = fds[fd].off + ReadCount(fds[fd].off, count)
            BY <2>2, <3>1, ReadStaysInRange
        <3>3. /\ fds[fd].open /\ Put(fd, [fds[fd] EXCEPT !.off = o])
              /\ UNCHANGED <<written, ino>>
            BY <1>1, <1>7, <2>2, <3>2 DEF Read
        <3>4. Abstract!Move(fd)
            BY <1>1, <3>3, MoveSimulated
        <3> QED
            BY <3>4 DEF Abstract!Next
    <2> QED
        BY <1>1, <2>1, <2>2
<1>8. ASSUME NEW count \in 0 .. MaxCount, Write(fd, count)
      PROVE  Abstract!Next \/ UNCHANGED abstractVars
    <2> DEFINE copied == Copied(fds[fd].off, ActualCount(fds[fd].off, count))
    <2>1. fds[fd].open /\ fds[fd].dfile # None
        BY <1>8 DEF Write
    <2>2. CASE \E what : Fault(what)
        BY <1>6, <2>2
    <2>3. CASE /\ copied \subseteq Contents
               /\ written' = [written EXCEPT ![fds[fd].dfile] = @ \union copied]
               /\ Put(fd, [fds[fd] EXCEPT !.off = OffAfterWrite(@, count)])
               /\ UNCHANGED ino
        <3>1. fds[fd].off \in 0 .. OffMax
            BY <1>1, <2>3, WrappedWriteFaults
        <3>2. Abstract!Write(fd, count)
            BY <1>1, <2>1, <2>3, <3>1, WriteSimulated
        <3> QED
            BY <3>2 DEF Abstract!Next
    <2> QED
        BY <1>8, <2>2, <2>3 DEF Write
<1>9. ASSUME NEW offset \in Offsets, NEW whence \in {"SET", "CUR", "END"}, Lseek(fd, offset, whence)
      PROVE  Abstract!Next
    <2>1. offset \in -OffMax - 1 .. OffMax
        BY PosixAssumption DEF Offsets
    <2>2. SeekTo(fds[fd].off, offset, whence) \in 0 .. OffMax
        BY <1>1, <1>9, <2>1, WordArithmetic DEF SeekTo, Lseek
    <2>3. PICK o \in 0 .. OffMax : o = SeekTo(fds[fd].off, offset, whence)
        BY <2>2
    <2>4. fds[fd].open /\ Put(fd, [fds[fd] EXCEPT !.off = o]) /\ UNCHANGED <<written, ino>>
        BY <1>9, <2>3 DEF Lseek
    <2>5. Abstract!Move(fd)
        BY <1>1, <2>4, MoveSimulated
    <2> QED
        BY <2>5 DEF Abstract!Next
<1> QED
    BY <1>3, <1>4, <1>5, <1>7, <1>8, <1>9 DEF Descriptor

(* A file is opened, in the lowest free place; or it is denied, and its    *)
(* slot stays free.                                                        *)
LEMMA OpenSimulated ==
    ASSUME fds \in [Fds -> Slots], NEW slot \in Slots, slot.off = 0, FreeFds # {},
           Put(Min(FreeFds), slot), UNCHANGED <<written, ino>>,
           slot.dfile = None \/ slot.dfile \in ino \cap SymFiles
    PROVE  Abstract!Next \/ UNCHANGED abstractVars
<1>1. PICK d \in Fds : d = Min(FreeFds) /\ ~fds[d].open
    BY FreeFdIsFd DEF FreeFds
<1>2. fds[d] \in Slots /\ Put(d, slot)
    BY <1>1
<1>3. CASE ~slot.open
    <2>1. EntryOf(slot) = EntryOf(fds[d])
        BY <1>1, <1>2, <1>3, EntryFields
    <2> QED
        BY <1>2, <2>1, SameEntry
<1>4. CASE slot.open
    <2>1. Abstract!Set(d, EntryOf(slot)) /\ d = Abstract!Min(Abstract!Unused) /\ Abstract!Unused # {}
        BY <1>1, <1>2, TableOfSlots
    <2>2. EntryOf(slot) = [file |-> IF slot.dfile = None THEN "concrete" ELSE slot.dfile, pos |-> 0]
        BY <1>4, EntryFields
    <2>3. \E f \in (ino \cap SymFiles) \union {"concrete"} : EntryOf(slot) = Abstract!New(f)
        <3>1. CASE slot.dfile = None
            BY <2>2, <3>1 DEF Abstract!New
        <3>2. CASE slot.dfile # None
            BY <2>2, <3>2 DEF Abstract!New
        <3> QED
            BY <3>1, <3>2
    <2>4. UNCHANGED <<written, ino \cap SymFiles>>
        OBVIOUS
    <2>5. Abstract!Open
        BY <2>1, <2>3, <2>4 DEF Abstract!Open, Abstract!Concrete
    <2> QED
        BY <2>5 DEF Abstract!Next
<1> QED
    BY <1>3, <1>4 DEF Slots

(* The calls of the runtime are calls on a table of open files, each of    *)
(* one descriptor, whose bytes change only where it stands; a removed file *)
(* stays open, and cannot be opened again.                                 *)
THEOREM ImplementsOpenFilesTheorem == Spec => ImplementsOpenFiles
<1>1. Init => Abstract!Init
    <2> SUFFICES ASSUME Init PROVE Abstract!Init
        OBVIOUS
    <2>1. PICK setup \in Setups : fds = InitialFds(setup)
        BY DEF Init
    <2> DEFINE Initial == {Abstract!NoEntry} \union {Abstract!New(f) : f \in {"stdin", "stdout"} \union {Abstract!Concrete}}
    <2>2. \A d \in Fds : Entries[d] \in Initial
        <3> SUFFICES ASSUME NEW d \in Fds PROVE Entries[d] \in Initial
            OBVIOUS
        <3>1. /\ fds[d].off = 0 /\ fds[d].open \in BOOLEAN
              /\ fds[d].dfile \in {"stdin", "stdout", None}
            BY <2>1 DEF InitialFds, Slot, Cleared
        <3> QED
            BY <3>1 DEF Entries, None, Abstract!NoEntry, Abstract!New, Abstract!Concrete, Abstract!Closed
    <2>3. Entries \in [Fds -> Initial]
        BY <2>2 DEF Entries
    <2>4. written = [f \in SymFiles \union {"stdin", "stdout"} |-> {}] /\ ino \cap SymFiles = SymFiles
        BY DEF Init, DFiles
    <2> QED
        BY <2>3, <2>4 DEF Abstract!Init
<1>2. FilesInv /\ [Next]_vars => [Abstract!Next]_abstractVars
    <2> SUFFICES ASSUME FilesInv, [Next]_vars PROVE Abstract!Next \/ UNCHANGED abstractVars
        OBVIOUS
    <2>1. fds \in [Fds -> Slots]
        BY DEF FilesInv, Slots
    <2>2. CASE UNCHANGED vars
        BY <2>2, SameTable DEF vars
    <2>3. ASSUME NEW file \in SymFiles, Remove(file) PROVE Abstract!Next
        <3>1. /\ file \in ino \cap SymFiles /\ ino' = ino \ {file}
              /\ UNCHANGED <<fds, written>>
            BY <2>3 DEF Remove, SymFile
        <3>2. (ino \cap SymFiles)' = (ino \cap SymFiles) \ {file}
            BY <3>1
        <3>3. UNCHANGED <<Entries, written>>
            BY <3>1 DEF Entries
        <3>4. Abstract!Remove
            BY <3>1, <3>2, <3>3 DEF Abstract!Remove
        <3> QED
            BY <3>4 DEF Abstract!Next
    <2>4. ASSUME NEW file \in SymFiles, NEW granted \in BOOLEAN, OpenSymbolic(file, granted)
          PROVE  Abstract!Next \/ UNCHANGED abstractVars
        <3>1. PICK slot \in Slots : slot = [Slot EXCEPT !.open = granted, !.dfile = file]
            BY SlotTypes
        <3>2. slot.off = 0 /\ slot.dfile = file
            BY <3>1 DEF Slot
        <3>3. /\ FreeFds # {} /\ Put(Min(FreeFds), slot) /\ UNCHANGED <<written, ino>>
              /\ file \in ino \cap SymFiles
            BY <2>4, <3>1 DEF OpenSymbolic, SymFile
        <3> QED
            BY <2>1, <3>2, <3>3, OpenSimulated
    <2>5. ASSUME NEW granted \in BOOLEAN, OpenConcrete(granted)
          PROVE  Abstract!Next \/ UNCHANGED abstractVars
        <3>1. PICK slot \in Slots : slot = IF granted THEN Slot ELSE Cleared
            BY SlotTypes
        <3>2. slot.off = 0 /\ slot.dfile = None
            BY <3>1 DEF Slot, Cleared
        <3>3. FreeFds # {} /\ Put(Min(FreeFds), slot) /\ UNCHANGED <<written, ino>>
            BY <2>5, <3>1 DEF OpenConcrete
        <3> QED
            BY <2>1, <3>2, <3>3, OpenSimulated
    <2>6. ASSUME NEW kind, FailOnly(kind) PROVE UNCHANGED abstractVars
        BY <2>6, SameTable DEF FailOnly
    <2>7. CASE Chmod
        BY <2>7, SameTable DEF Chmod, Fault
    <2> QED
        BY <2>2, <2>3, <2>4, <2>5, <2>6, <2>7, DescriptorSimulated DEF Next
<1>3. Abstract!Init /\ [][Abstract!Next]_abstractVars => ImplementsOpenFiles
    BY DEF ImplementsOpenFiles, Abstract!Spec, abstractVars
<1> QED
    BY <1>1, <1>2, <1>3, FilesInvariant, PTL DEF Spec
=============================================================================
