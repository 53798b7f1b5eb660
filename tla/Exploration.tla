----------------------------- MODULE Exploration -----------------------------
(***************************************************************************)
(* What symbolic execution promises, whatever searcher, merging or limits  *)
(* are in use: the inputs of the program are divided into parts, and each  *)
(* part is followed to the end of its path.  A part may be divided, parts  *)
(* may be joined, and a part may end; an input that is explored stays      *)
(* explored and is never taken up again.                                   *)
(***************************************************************************)
CONSTANT Inputs

VARIABLES pending,      \* the parts still being explored
          explored      \* the inputs whose path has been followed to its end

Partition(parts) ==
    /\ {} \notin parts
    /\ \A p, q \in parts : p # q => p \cap q = {}

Init == pending = {Inputs} /\ explored = {}

(***************************************************************************)
(* One part is divided, and some of its inputs may come to their end at    *)
(* once, as those of an access that is out of bounds do.                   *)
(***************************************************************************)
Divide ==
    \E p \in pending :
       LET parts == pending' \ (pending \ {p})
       IN  /\ pending \ {p} \subseteq pending'
           /\ Partition(pending')
           /\ UNION parts \subseteq p
           /\ explored' = explored \cup (p \ UNION parts)

(* Every new part is the union of parts that are no longer there. *)
Join ==
    /\ Partition(pending')
    /\ \A q \in pending' : q = UNION {p \in pending : p \subseteq q}
    /\ UNION pending' = UNION pending
    /\ UNCHANGED explored

(* Some parts end. *)
End ==
    /\ pending' \subseteq pending
    /\ explored' = explored \cup UNION (pending \ pending')

Next == Divide \/ Join \/ End

Spec == Init /\ [][Next]_<<pending, explored>>
=============================================================================
