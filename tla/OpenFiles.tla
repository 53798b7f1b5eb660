------------------------------ MODULE OpenFiles ------------------------------
(***************************************************************************)
(* What the POSIX runtime promises a program: a table of descriptors, each *)
(* with a file and a position of its own, and files of a fixed size that   *)
(* are reached through a descriptor even when their name is gone.  A call  *)
(* concerns one descriptor, and bytes change only where a descriptor       *)
(* stands.  A position is a two's complement number: one past the largest  *)
(* offset is Lost, and one past all the negative ones is again an offset.  *)
(***************************************************************************)
EXTENDS Integers, FiniteSets, FiniteSetsExt

CONSTANTS Descriptors, Names, Others, Size, MaxPos, MaxCount

VARIABLES
    table,         \* descriptor -> its file and position
    overwritten,   \* file -> the positions that were written
    names          \* the files that can be opened by name

Concrete == "concrete"
Closed   == "closed"
Lost     == -1

NoEntry   == [file |-> Closed, pos |-> 0]
New(f)    == [file |-> f, pos |-> 0]
IsOpen(d) == table[d].file # Closed
Unused    == {d \in Descriptors : ~IsOpen(d)}

Init ==
    /\ table \in [Descriptors -> {NoEntry} \union {New(f) : f \in Others \union {Concrete}}]
    /\ overwritten = [f \in Names \union Others |-> {}]
    /\ names = Names

Set(d, entry) == table' = [table EXCEPT ![d] = entry]

(* A descriptor is opened in the lowest free place, at the start.          *)
Open == /\ Unused # {}
        /\ \E f \in names \union {Concrete} : Set(Min(Unused), New(f))
        /\ UNCHANGED <<overwritten, names>>

Close(d) == IsOpen(d) /\ Set(d, NoEntry) /\ UNCHANGED <<overwritten, names>>

(* A read or a seek: no other descriptor and no byte changes.              *)
Move(d) == /\ UNCHANGED <<overwritten, names>>
           /\ IsOpen(d)
           /\ table'[d].pos \in 0 .. MaxPos
           /\ Set(d, [table[d] EXCEPT !.pos = table'[d].pos])

(* The position moves past the bytes, written or dropped.                  *)
Write(d, count) ==
    LET p == table[d].pos
        q == (p + count) % (2 * (MaxPos + 1))
    IN /\ IsOpen(d) /\ table[d].file # Concrete /\ p # Lost
       /\ overwritten' = [overwritten EXCEPT ![table[d].file] =
                            @ \union {i \in p .. p + count - 1 : i < Size}]
       /\ Set(d, [table[d] EXCEPT !.pos = IF q <= MaxPos THEN q ELSE Lost])
       /\ UNCHANGED names

(* The copy starts where the old descriptor stands, and moves by itself.   *)
Dup(d, e) == /\ IsOpen(d) /\ d # e
             /\ Set(e, table[d])
             /\ UNCHANGED <<overwritten, names>>

Remove == /\ \E f \in names : names' = names \ {f}
          /\ UNCHANGED <<table, overwritten>>

Next == \/ Open \/ Remove
        \/ \E d \in Descriptors : \/ Close(d) \/ Move(d)
                                  \/ \E count \in 0 .. MaxCount : Write(d, count)
                                  \/ \E e \in Descriptors : Dup(d, e)

Spec == Init /\ [][Next]_<<table, overwritten, names>>

=============================================================================
