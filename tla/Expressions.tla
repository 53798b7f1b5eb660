----------------------------- MODULE Expressions -----------------------------
(***************************************************************************)
(* Expressions over the bytes of symbolic arrays, and the constraints of a *)
(* path.                                                                   *)
(*                                                                         *)
(* An expression is an equality of two operands or its negation.  An       *)
(* operand is <<array, index>>, or <<"const", value>>.                     *)
(***************************************************************************)
EXTENDS Naturals, Sequences, FiniteSets, SequencesExt, TLC

CONSTANTS Elements,      \* the bytes of the symbolic arrays
          MaxByte        \* bound: 255 in the code

Const(v) == <<"const", v>>
IsConst(x) == x[1] = "const"
Arrays == {x[1] : x \in Elements}
ElementsOf(A) == {x \in Elements : x[1] \in A}
Valuations == [Elements -> 0 .. MaxByte]

Operands == Elements \cup {Const(v) : v \in 0 .. MaxByte}
Exprs == [l : Operands, r : Operands, neg : BOOLEAN]

ASSUME ExpressionsAssumption ==
    /\ MaxByte \in Nat \ {0}
    /\ IsFiniteSet(Elements)
    /\ \A x \in Elements : ~IsConst(x)

-----------------------------------------------------------------------------
True  == [l |-> Const(0), r |-> Const(0), neg |-> FALSE]
False == [l |-> Const(0), r |-> Const(0), neg |-> TRUE]
IsConstant(e) == e \in {True, False}

(* Expr::createIsZero *)
Negate(e) == [e EXCEPT !.neg = ~@]

(* EqExpr::create: constants are folded, and stand on the left. *)
Eq(l, r, neg) ==
    IF l = r THEN [True EXCEPT !.neg = neg]
    ELSE IF IsConst(l) /\ IsConst(r) THEN [False EXCEPT !.neg = ~neg]
    ELSE IF IsConst(r) THEN [l |-> r, r |-> l, neg |-> neg]
    ELSE [l |-> l, r |-> r, neg |-> neg]

Reads(e) == {e.l, e.r} \cap Elements

Value(x, m) == IF IsConst(x) THEN x[2] ELSE m[x]
Holds(e, m) == (Value(e.l, m) = Value(e.r, m)) # e.neg
Models(C) == {m \in Valuations : \A e \in C : Holds(e, m)}

(* The constraints that give an element its value. *)
Equalities(C) == {e \in C : IsConst(e.l) /\ ~IsConst(e.r) /\ ~e.neg}

Substitute(x, C) ==
    IF \E e \in Equalities(C) : e.r = x THEN (CHOOSE e \in Equalities(C) : e.r = x).l ELSE x

(* ConstraintManager::simplifyExpr *)
simplifyExpr(C, e) ==
    LET s == Eq(Substitute(e.l, C), Substitute(e.r, C), FALSE)
        t == IF s \in C THEN True ELSE IF Negate(s) \in C THEN False ELSE s
    IN  IF e.neg THEN Negate(t) ELSE t

(* rewriteConstraints: an equality with a constant is used in the other    *)
(* constraints, which may give another one.  There the list matters in the *)
(* code: an equality found on the way is used in the constraints that were *)
(* already gone through, and one further on may stay as it is.  Here       *)
(* constraints are a set and all are rewritten, which has the same models. *)
Rewrite(C) ==
    LET R[n \in 0 .. Cardinality(Elements)] ==
            IF n = 0 THEN C
            ELSE LET D == R[n - 1]
                 IN  {IF e \in Equalities(D) THEN e
                      ELSE Eq(Substitute(e.l, D), Substitute(e.r, D), e.neg) : e \in D}
    IN  R[Cardinality(Elements)] \ {True}

addConstraint(C, e, rewrite) ==
    LET s == simplifyExpr(C, e)
    IN  IF rewrite THEN Rewrite(C \cup {s}) ELSE (C \cup {s}) \ {True}

Query(C, e) == [cs |-> C, e |-> e]
withFalse(q) == [q EXCEPT !.e = False]
negateExpr(q) == [q EXCEPT !.e = Negate(@)]
=============================================================================
