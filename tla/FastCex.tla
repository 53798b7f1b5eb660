------------------------------- MODULE FastCex -------------------------------
(***************************************************************************)
(* FastCexSolver: value ranges for the bytes are propagated from the       *)
(* constraints, twice.  "Possible" ranges are a guess: the assignment of   *)
(* their midpoints is tried.  "Exact" ranges hold for every solution: what *)
(* they decide is decided.                                                 *)
(***************************************************************************)
EXTENDS Expressions, ValueRange

(* getPossibleValue *)
Midpoint(r) == r.min + (r.max - r.min) \div 2

(* propogatePossibleValues for the equality of a byte with a constant: if  *)
(* it is to be false, the values on one side of the constant.              *)
propogatePossible(po, e) ==
    LET v == e.l[2]
        r == IF ~e.neg THEN Interval(v, v) ELSE IF v = 0 THEN Interval(1, MaxByte) ELSE Interval(0, v - 1)
        s == IF isFixed(r) THEN r ELSE set_intersection(po[e.r], r)
    IN  IF ~IsConst(e.l) \/ IsConst(e.r) \/ isEmpty(s) THEN po ELSE [po EXCEPT ![e.r] = s]

(* Mutant: what an inequality suggests is exact, too. *)
propogateExactBoth(ex, e) == propogatePossible(ex, e)

(* propogateExactValues: an inequality of bytes says nothing exact. *)
propogateExact(ex, e) ==
    IF IsConst(e.l) /\ ~IsConst(e.r) /\ ~e.neg
    THEN [ex EXCEPT ![e.r] = set_intersection(@, Interval(e.l[2], e.l[2]))] ELSE ex

(* evaluateExact: {} if a byte it reads is not fixed. *)
evaluateExact(ex, e) ==
    IF \A x \in Reads(e) : isFixed(ex[x])
    THEN {Holds(e, [x \in Elements |-> ex[x].min])} ELSE {}

(* The ranges after a sequence of conditions. *)
AllValues == [x \in Elements |-> Interval(0, MaxByte)]

PossibleValues(conditions) ==
    LET po[n \in 0 .. Len(conditions)] ==
            IF n = 0 THEN AllValues ELSE propogatePossible(po[n - 1], conditions[n])
    IN  po[Len(conditions)]

ExactValues(conditions) ==
    LET ex[n \in 0 .. Len(conditions)] ==
            IF n = 0 THEN AllValues ELSE propogateExact(ex[n - 1], conditions[n])
    IN  ex[Len(conditions)]

(* "valid", "refuted" by the assignment value, or "none".  ok is FALSE if  *)
(* an assertion on exact ranges fails.                                     *)
Decide(q, checkExpr, value, ex) ==
    [proved |-> IF \/ checkExpr /\ evaluateExact(ex, q.e) = {TRUE}
                   \/ \E e \in q.cs : evaluateExact(ex, e) = {FALSE} THEN "valid"
                ELSE IF /\ checkExpr => ~Holds(q.e, value)
                        /\ \A e \in q.cs : Holds(e, value) THEN "refuted"
                ELSE "none",
     value  |-> value,
     ok     |-> \A x \in Elements : ~isEmpty(ex[x])]

Midpoints(po) == [x \in Elements |-> Midpoint(po[x])]

(* propogateValues: the constraints hold, and the query is to be false. *)
propogateValues(q, checkExpr) ==
    LET conditions == SetToSeq(q.cs) \o (IF checkExpr THEN <<Negate(q.e)>> ELSE << >>)
    IN  Decide(q, checkExpr, Midpoints(PossibleValues(conditions)), ExactValues(conditions))
=============================================================================
