---------------------------- MODULE SolverProofs ----------------------------
(***************************************************************************)
(* The chain of solvers answers right for every program, every             *)
(* configuration and any number of bytes: the answer of each solver of the *)
(* chain is what the models of the query say, and what the caches keep is  *)
(* true.                                                                   *)
(***************************************************************************)
EXTENDS SolverProperties, InductionProofs, FiniteSetTheorems

-----------------------------------------------------------------------------
(***************************************************************************)
(* Expressions.                                                            *)
(***************************************************************************)
(* An operand is a byte or a constant. *)
LEMMA OperandKinds ==
    ASSUME NEW x \in Operands
    PROVE  \/ x \in Elements /\ ~IsConst(x)
           \/ IsConst(x) /\ x \notin Elements /\ x[2] \in 0 .. MaxByte /\ x = Const(x[2])
<1>1. CASE x \in Elements
    BY <1>1, ExpressionsAssumption
<1>2. CASE x \notin Elements
    <2>1. PICK v \in 0 .. MaxByte : x = Const(v)
        BY <1>2 DEF Operands
    <2>2. x[1] = "const" /\ x[2] = v
        BY <2>1 DEF Const
    <2> QED
        BY <1>2, <2>1, <2>2 DEF IsConst
<1> QED
    BY <1>1, <1>2

(* An operand has a value. *)
LEMMA ValueType ==
    ASSUME NEW x \in Operands, NEW m \in Valuations
    PROVE  Value(x, m) \in 0 .. MaxByte
BY OperandKinds DEF Value, Valuations

(* The value of a byte, and of a constant. *)
LEMMA ElementValue ==
    ASSUME NEW x \in Elements, NEW m
    PROVE  x \in Operands /\ ~IsConst(x) /\ Value(x, m) = m[x]
BY ExpressionsAssumption DEF Value, Operands

(* A constant reads as its value. *)
LEMMA ConstValue ==
    ASSUME NEW v \in 0 .. MaxByte, NEW m
    PROVE  Const(v) \in Operands /\ IsConst(Const(v)) /\ Value(Const(v), m) = v
<1>1. Const(v) \in Operands
    BY DEF Operands
<1>2. IsConst(Const(v)) /\ Const(v)[2] = v
    BY DEF Const, IsConst
<1> QED
    BY <1>1, <1>2 DEF Value

(* The parts of an expression. *)
LEMMA ExprParts ==
    ASSUME NEW e \in Exprs
    PROVE  /\ e.l \in Operands /\ e.r \in Operands /\ e.neg \in BOOLEAN
           /\ e = [l |-> e.l, r |-> e.r, neg |-> e.neg]
BY DEF Exprs

(* Expressions with the same parts are the same. *)
LEMMA SameExpr ==
    ASSUME NEW e \in Exprs, NEW f \in Exprs, e.l = f.l, e.r = f.r, e.neg <=> f.neg
    PROVE  e = f
<1>1. e.neg = f.neg
    BY ExprParts
<1> QED
    BY <1>1, ExprParts

(* An expression with a sign. *)
WithNeg(e, b) == [e EXCEPT !.neg = b]

(* Its parts. *)
LEMMA WithNegParts ==
    ASSUME NEW e \in Exprs, NEW b \in BOOLEAN
    PROVE  /\ WithNeg(e, b) \in Exprs
           /\ WithNeg(e, b).l = e.l /\ WithNeg(e, b).r = e.r /\ WithNeg(e, b).neg = b
BY DEF Exprs, WithNeg

(* The negation holds where the expression does not. *)
LEMMA NegateHolds ==
    ASSUME NEW e \in Exprs
    PROVE  /\ Negate(e) \in Exprs /\ Negate(e).l = e.l /\ Negate(e).r = e.r /\ Negate(e).neg = ~e.neg
           /\ Reads(Negate(e)) = Reads(e)
           /\ Negate(Negate(e)) = e
           /\ \A m : Holds(Negate(e), m) <=> ~Holds(e, m)
<1>1. /\ Negate(e) \in Exprs /\ Negate(e).l = e.l /\ Negate(e).r = e.r /\ Negate(e).neg = ~e.neg
    BY DEF Exprs, Negate
<1>2. Reads(Negate(e)) = Reads(e)
    BY <1>1 DEF Reads
<1>3. Negate(Negate(e)) = e
    BY DEF Exprs, Negate
<1>4. ASSUME NEW m PROVE Holds(Negate(e), m) <=> ~Holds(e, m)
    BY <1>1, ExprParts DEF Holds
<1> QED
    BY <1>1, <1>2, <1>3, <1>4

(* The constants. *)
LEMMA Constants ==
    /\ True \in Exprs /\ False \in Exprs /\ True # False
    /\ Negate(True) = False /\ Negate(False) = True
    /\ Reads(True) = {} /\ Reads(False) = {}
    /\ \A m : Holds(True, m) /\ ~Holds(False, m)
    /\ IsConst(True.l) /\ IsConst(True.r) /\ IsConst(False.l) /\ IsConst(False.r)
<1>1. Const(0) \in Operands /\ IsConst(Const(0)) /\ Const(0) \notin Elements
    <2>1. 0 \in 0 .. MaxByte
        BY ExpressionsAssumption
    <2>2. Const(0) \in Operands /\ IsConst(Const(0))
        BY <2>1, ConstValue
    <2> QED
        BY <2>2, ExpressionsAssumption
<1>2. True \in Exprs /\ False \in Exprs /\ True # False
    BY <1>1 DEF True, False, Exprs
<1>3. Negate(True) = False /\ Negate(False) = True
    <2>1. /\ True.l = Const(0) /\ True.r = Const(0) /\ True.neg = FALSE
          /\ False.l = Const(0) /\ False.r = Const(0) /\ False.neg = TRUE
        BY DEF True, False
    <2> QED
        BY <1>2, <2>1, NegateHolds, SameExpr
<1>4. Reads(True) = {} /\ Reads(False) = {}
    BY <1>1 DEF True, False, Reads
<1>5. ASSUME NEW m PROVE Holds(True, m) /\ ~Holds(False, m)
    BY DEF True, False, Holds
<1> QED
    BY <1>1, <1>2, <1>3, <1>4, <1>5 DEF True, False

(* A folded equality is one of the two constants. *)
LEMMA ConstantWith ==
    ASSUME NEW b \in BOOLEAN
    PROVE  /\ WithNeg(True, b) = (IF b THEN False ELSE True)
           /\ WithNeg(False, b) = (IF b THEN False ELSE True)
<1>1. True.l = False.l /\ True.r = False.r /\ True.neg = FALSE /\ False.neg = TRUE
    BY DEF True, False
<1> QED
    BY <1>1, Constants, WithNegParts, SameExpr

(* Folding constants and turning an equality round keep what it says. *)
LEMMA EqHolds ==
    ASSUME NEW l \in Operands, NEW r \in Operands, NEW neg \in BOOLEAN
    PROVE  /\ Eq(l, r, neg) \in Exprs
           /\ Reads(Eq(l, r, neg)) \subseteq {l, r} \cap Elements
           /\ \A m \in Valuations :
                 Holds(Eq(l, r, neg), m) <=> ((Value(l, m) = Value(r, m)) # neg)
<1>1. CASE l = r
    <2>1. Eq(l, r, neg) = WithNeg(True, neg)
        BY <1>1 DEF Eq, WithNeg
    <2> QED
        BY <1>1, <2>1, ConstantWith, Constants
<1>2. CASE l # r /\ IsConst(l) /\ IsConst(r)
    <2>1. Eq(l, r, neg) = WithNeg(False, ~neg)
        BY <1>2 DEF Eq, WithNeg
    <2>2. WithNeg(False, ~neg) = (IF neg THEN True ELSE False)
        <3>1. \A b \in BOOLEAN : WithNeg(False, b) = (IF b THEN False ELSE True)
            BY ConstantWith
        <3>2. CASE neg = TRUE
            BY <3>1, <3>2
        <3>3. CASE neg = FALSE
            BY <3>1, <3>3
        <3> QED
            BY <3>2, <3>3
    <2>3. \A m \in Valuations : Value(l, m) # Value(r, m)
        BY <1>2, OperandKinds DEF Value
    <2> QED
        BY <1>2, <2>1, <2>3, <2>2, Constants
<1>3. CASE l # r /\ ~(IsConst(l) /\ IsConst(r)) /\ IsConst(r)
    <2>1. Eq(l, r, neg) = [l |-> r, r |-> l, neg |-> neg]
        BY <1>3 DEF Eq
    <2> QED
        BY <2>1 DEF Exprs, Reads, Holds
<1>4. CASE l # r /\ ~IsConst(r)
    <2>1. Eq(l, r, neg) = [l |-> l, r |-> r, neg |-> neg]
        BY <1>4 DEF Eq
    <2> QED
        BY <2>1 DEF Exprs, Reads, Holds
<1> QED
    BY <1>1, <1>2, <1>3, <1>4

(* A constraint decides by the bytes it reads. *)
LEMMA HoldsReads ==
    ASSUME NEW e \in Exprs, NEW m, NEW n, \A x \in Reads(e) : m[x] = n[x]
    PROVE  Holds(e, m) <=> Holds(e, n)
<1>1. ASSUME NEW x \in {e.l, e.r} PROVE Value(x, m) = Value(x, n)
    <2>1. x \in Operands
        BY ExprParts
    <2>2. CASE IsConst(x)
        BY <2>2 DEF Value
    <2>3. CASE ~IsConst(x)
        <3>1. x \in Reads(e)
            BY <2>1, <2>3, OperandKinds DEF Reads
        <3> QED
            BY <2>3, <3>1 DEF Value
    <2> QED
        BY <2>2, <2>3
<1> QED
    BY <1>1 DEF Holds

-----------------------------------------------------------------------------
(***************************************************************************)
(* Constraints.                                                            *)
(***************************************************************************)
(* There are finitely many expressions. *)
LEMMA ExprsFinite ==
    IsFiniteSet(Operands) /\ IsFiniteSet(Exprs)
<1> DEFINE Consts == {Const(v) : v \in 0 .. MaxByte}
<1>1. IsFiniteSet(Consts)
    <2> DEFINE f == [v \in 0 .. MaxByte |-> Const(v)]
    <2>1. f \in Surjection(0 .. MaxByte, Consts)
        BY DEF Surjection
    <2>2. IsFiniteSet(0 .. MaxByte)
        BY ExpressionsAssumption, FS_Interval
    <2> HIDE DEF f, Consts
    <2> QED
        BY <2>1, <2>2, FS_Surjection
<1>2. IsFiniteSet(Operands)
    <2>1. Operands = Elements \cup Consts
        BY DEF Operands
    <2> HIDE DEF Consts
    <2> QED
        BY <1>1, <2>1, FS_Union, ExpressionsAssumption
<1> HIDE DEF Consts
<1> DEFINE D == (Operands \X Operands) \X BOOLEAN
           f == [d \in D |-> [l |-> d[1][1], r |-> d[1][2], neg |-> d[2]]]
<1>3. IsFiniteSet(D)
    <2>1. IsFiniteSet(BOOLEAN)
        <3>1. BOOLEAN = {TRUE} \cup {FALSE}
            OBVIOUS
        <3>2. IsFiniteSet({TRUE}) /\ IsFiniteSet({FALSE})
            BY FS_Singleton
        <3> QED
            BY <3>1, <3>2, FS_Union
    <2> QED
        BY <1>2, <2>1, FS_Product
<1>4. f \in Surjection(D, Exprs)
    <2>1. \A d \in D : f[d] \in Exprs
        BY DEF Exprs
    <2>2. ASSUME NEW e \in Exprs PROVE \E d \in D : f[d] = e
        <3>1. <<<<e.l, e.r>>, e.neg>> \in D
            BY ExprParts
        <3>2. f[<<<<e.l, e.r>>, e.neg>>] = e
            BY <3>1, ExprParts
        <3> QED
            BY <3>1, <3>2
    <2> QED
        BY <2>1, <2>2 DEF Surjection
<1>5. IsFiniteSet(Exprs)
    <2> HIDE DEF f, D
    <2> QED
        BY <1>3, <1>4, FS_Surjection
<1> QED
    BY <1>2, <1>5

(* The models of a set of constraints. *)
LEMMA ModelsFact ==
    ASSUME NEW C, NEW m
    PROVE  m \in Models(C) <=> m \in Valuations /\ \A e \in C : Holds(e, m)
BY DEF Models

(* The solutions of two sets of constraints together. *)
LEMMA ModelsCup ==
    ASSUME NEW C, NEW D
    PROVE  Models(C \cup D) = Models(C) \cap Models(D)
BY DEF Models

(* More constraints have fewer solutions. *)
LEMMA ModelsMonotone ==
    ASSUME NEW C, NEW D, C \subseteq D
    PROVE  Models(D) \subseteq Models(C)
BY DEF Models

(* One more constraint. *)
LEMMA ModelsOne ==
    ASSUME NEW C, NEW e, NEW m
    PROVE  m \in Models(C \cup {e}) <=> m \in Models(C) /\ Holds(e, m)
BY DEF Models

(* A byte is replaced by the value that a constraint gives it. *)
LEMMA SubstituteHolds ==
    ASSUME NEW C \in SUBSET Exprs, NEW x \in Operands
    PROVE  /\ Substitute(x, C) \in Operands
           /\ \A m \in Models(Equalities(C)) : Value(Substitute(x, C), m) = Value(x, m)
           /\ Substitute(x, C) \in Elements =>
                 /\ Substitute(x, C) = x
                 /\ \A e \in Equalities(C) : e.r # x
<1>1. CASE \E e \in Equalities(C) : e.r = x
    <2> DEFINE e == CHOOSE f \in Equalities(C) : f.r = x
    <2>1. e \in Equalities(C) /\ e.r = x
        BY <1>1
    <2>2. Substitute(x, C) = e.l
        BY <1>1, Zenon DEF Substitute
    <2> HIDE DEF e
    <2>3. e \in Exprs /\ IsConst(e.l) /\ ~IsConst(e.r) /\ ~e.neg
        BY <2>1 DEF Equalities
    <2>4. e.l \in Operands /\ e.l \notin Elements
        BY <2>3, ExprParts, OperandKinds
    <2>5. ASSUME NEW m \in Models(Equalities(C)) PROVE Value(e.l, m) = Value(x, m)
        <3>1. Holds(e, m)
            BY <2>1, ModelsFact
        <3> QED
            BY <2>1, <2>3, <3>1, ExprParts DEF Holds
    <2> QED
        BY <2>2, <2>4, <2>5
<1>2. CASE ~\E e \in Equalities(C) : e.r = x
    <2>1. Substitute(x, C) = x
        BY <1>2 DEF Substitute
    <2> QED
        BY <1>2, <2>1
<1> QED
    BY <1>1, <1>2

(* An equality of two operands with their values in place. *)
Substituted(e, C, neg) == Eq(Substitute(e.l, C), Substitute(e.r, C), neg)

(* It means the same under the equalities, whose elements it no longer     *)
(* reads.                                                                  *)
LEMMA SubstitutedHolds ==
    ASSUME NEW C \in SUBSET Exprs, NEW e \in Exprs, NEW neg \in BOOLEAN
    PROVE  /\ Substituted(e, C, neg) \in Exprs
           /\ \A m \in Models(Equalities(C)) :
                 Holds(Substituted(e, C, neg), m) <=> ((Value(e.l, m) = Value(e.r, m)) # neg)
           /\ \A x \in Reads(Substituted(e, C, neg)) : \A f \in Equalities(C) : f.r # x
<1> DEFINE l == Substitute(e.l, C)
           r == Substitute(e.r, C)
<1>1. e.l \in Operands /\ e.r \in Operands
    BY ExprParts
<1>2. /\ l \in Operands /\ r \in Operands
      /\ \A m \in Models(Equalities(C)) : Value(l, m) = Value(e.l, m) /\ Value(r, m) = Value(e.r, m)
      /\ l \in Elements => \A f \in Equalities(C) : f.r # l
      /\ r \in Elements => \A f \in Equalities(C) : f.r # r
    BY <1>1, SubstituteHolds
<1>3. Substituted(e, C, neg) = Eq(l, r, neg)
    BY DEF Substituted
<1> HIDE DEF l, r
<1>4. /\ Eq(l, r, neg) \in Exprs /\ Reads(Eq(l, r, neg)) \subseteq {l, r} \cap Elements
      /\ \A m \in Valuations : Holds(Eq(l, r, neg), m) <=> ((Value(l, m) = Value(r, m)) # neg)
    BY <1>2, EqHolds
<1>5. \A m \in Models(Equalities(C)) : m \in Valuations
    BY ModelsFact
<1>6. \A x \in Reads(Eq(l, r, neg)) : \A f \in Equalities(C) : f.r # x
    BY <1>2, <1>4
<1>7. ASSUME NEW m \in Models(Equalities(C))
      PROVE  Holds(Eq(l, r, neg), m) <=> ((Value(e.l, m) = Value(e.r, m)) # neg)
    BY <1>2, <1>4, <1>5
<1> QED
    BY <1>3, <1>4, <1>6, <1>7

(* A simplified expression reads no byte that a constraint gives a value. *)
Free(C, e) == \A x \in Reads(e) : \A f \in Equalities(C) : f.r # x

(* simplifyExpr: the same, under the constraints. *)
LEMMA SimplifyHolds ==
    ASSUME NEW C \in SUBSET Exprs, NEW e \in Exprs
    PROVE  /\ simplifyExpr(C, e) \in Exprs
           /\ Free(C, simplifyExpr(C, e))
           /\ \A m \in Models(C) : Holds(simplifyExpr(C, e), m) <=> Holds(e, m)
<1> DEFINE s == Substituted(e, C, FALSE)
           t == IF s \in C THEN True ELSE IF Negate(s) \in C THEN False ELSE s
<1>1. simplifyExpr(C, e) = IF e.neg THEN Negate(t) ELSE t
    BY DEF simplifyExpr, Substituted
<1>2. Models(C) \subseteq Models(Equalities(C))
    BY ModelsMonotone DEF Equalities
<1>3. /\ s \in Exprs
      /\ \A m \in Models(C) : Holds(s, m) <=> Value(e.l, m) = Value(e.r, m)
      /\ Free(C, s)
    <2>1. /\ s \in Exprs
          /\ \A m \in Models(Equalities(C)) : Holds(s, m) <=> ((Value(e.l, m) = Value(e.r, m)) # FALSE)
          /\ \A x \in Reads(s) : \A f \in Equalities(C) : f.r # x
        BY SubstitutedHolds
    <2> HIDE DEF s
    <2> QED
        BY <1>2, <2>1 DEF Free
<1> HIDE DEF s
<1>4. /\ t \in Exprs /\ Free(C, t)
      /\ \A m \in Models(C) : Holds(t, m) <=> Value(e.l, m) = Value(e.r, m)
    <2>1. CASE s \in C
        <3>1. \A m \in Models(C) : Holds(s, m)
            BY <2>1, ModelsFact
        <3> QED
            BY <1>3, <2>1, <3>1, Constants DEF Free
    <2>2. CASE s \notin C /\ Negate(s) \in C
        <3>1. \A m \in Models(C) : ~Holds(s, m)
            BY <1>3, <2>2, ModelsFact, NegateHolds
        <3> QED
            BY <1>3, <2>2, <3>1, Constants DEF Free
    <2>3. CASE s \notin C /\ Negate(s) \notin C
        BY <1>3, <2>3
    <2> QED
        BY <2>1, <2>2, <2>3
<1> HIDE DEF t
<1>5. /\ Negate(t) \in Exprs /\ Free(C, Negate(t))
      /\ \A m \in Models(C) : Holds(Negate(t), m) <=> ~(Value(e.l, m) = Value(e.r, m))
    BY <1>4, NegateHolds DEF Free
<1>6. \A m : Holds(e, m) <=> ((Value(e.l, m) = Value(e.r, m)) # e.neg)
    BY DEF Holds
<1>7. CASE e.neg = TRUE
    BY <1>1, <1>5, <1>6, <1>7
<1>8. CASE e.neg = FALSE
    BY <1>1, <1>4, <1>6, <1>8
<1> QED
    BY <1>7, <1>8, ExprParts

(* One pass of rewriteConstraints. *)
RewriteStep(D) ==
    {IF e \in Equalities(D) THEN e ELSE Eq(Substitute(e.l, D), Substitute(e.r, D), e.neg) : e \in D}

(* A pass has the same solutions. *)
LEMMA RewriteStepKeeps ==
    ASSUME NEW D \in SUBSET Exprs
    PROVE  RewriteStep(D) \in SUBSET Exprs /\ Models(RewriteStep(D)) = Models(D)
<1> DEFINE f(e) == IF e \in Equalities(D) THEN e ELSE Substituted(e, D, e.neg)
<1>1. RewriteStep(D) = {f(e) : e \in D}
    BY DEF RewriteStep, Substituted
<1>2. ASSUME NEW e \in D
      PROVE  f(e) \in Exprs /\ \A m \in Models(Equalities(D)) : Holds(f(e), m) <=> Holds(e, m)
    <2>1. CASE e \in Equalities(D)
        BY <2>1
    <2>2. CASE e \notin Equalities(D)
        <3>1. e.neg \in BOOLEAN /\ e \in Exprs
            BY ExprParts
        <3>2. /\ Substituted(e, D, e.neg) \in Exprs
              /\ \A m \in Models(Equalities(D)) :
                    Holds(Substituted(e, D, e.neg), m) <=> ((Value(e.l, m) = Value(e.r, m)) # e.neg)
            BY <3>1, SubstitutedHolds
        <3> QED
            BY <2>2, <3>2 DEF Holds
    <2> QED
        BY <2>1, <2>2
<1>3. \A e \in Equalities(D) : f(e) = e /\ e \in D
    BY DEF Equalities
<1> HIDE DEF f
<1>4. ASSUME NEW m \in Models(D) PROVE m \in Models(RewriteStep(D))
    <2>1. m \in Models(Equalities(D)) /\ m \in Valuations /\ \A e \in D : Holds(e, m)
        BY <1>3, ModelsFact
    <2> QED
        BY <1>1, <1>2, <2>1, ModelsFact
<1>5. ASSUME NEW m \in Models(RewriteStep(D)) PROVE m \in Models(D)
    <2>1. m \in Valuations /\ \A e \in D : Holds(f(e), m)
        BY <1>1, ModelsFact
    <2>2. m \in Models(Equalities(D))
        BY <1>3, <2>1, ModelsFact
    <2> QED
        BY <1>2, <2>1, <2>2, ModelsFact
<1> QED
    BY <1>1, <1>2, <1>4, <1>5

(* rewriteConstraints keeps the solutions. *)
LEMMA RewriteKeeps ==
    ASSUME NEW C \in SUBSET Exprs
    PROVE  Rewrite(C) \in SUBSET Exprs /\ Models(Rewrite(C)) = Models(C)
<1> DEFINE N == Cardinality(Elements)
           T == {D \in SUBSET Exprs : Models(D) = Models(C)}
           F(W) == [n \in 0 .. N |-> IF n = 0 THEN C ELSE RewriteStep(W[n - 1])]
           V == CHOOSE W : W = F(W)
<1>1. N \in Nat /\ C \in T /\ \A D \in T : RewriteStep(D) \in T
    BY ExpressionsAssumption, FS_CardinalityType, RewriteStepKeeps
<1>2. Rewrite(C) = V[N] \ {True}
    BY Zenon DEF Rewrite, RewriteStep
<1> HIDE DEF N, T
<1>3. PICK f : f = F(f)
    <2> DEFINE G == [n \in 1 .. N |-> [D \in T |-> RewriteStep(D)]]
    <2>1. PICK f : Follows(f, T, C, N, G)
        <3>1. G \in Steps(N, T)
            BY <1>1 DEF Steps
        <3> HIDE DEF G
        <3> QED
            BY <1>1, <3>1, Recursion
    <2>2. \A n \in 1 .. N : f[n - 1] \in T
        BY <1>1, <2>1 DEF Follows
    <2>3. \A n \in 1 .. N : f[n] = RewriteStep(f[n - 1])
        BY <2>1, <2>2 DEF Follows
    <2>4. f = F(f)
        BY <1>1, <2>1, <2>3 DEF Follows
    <2> QED
        BY <2>4
<1>4. V = F(V)
    <2> HIDE DEF F
    <2> QED
        BY <1>3
<1> HIDE DEF V
<1>5. V[0] = C /\ \A n \in 1 .. N : V[n] = RewriteStep(V[n - 1])
    BY <1>1, <1>4
<1>6. \A n \in 1 .. N : V[n - 1] \in T => V[n] \in T
    BY <1>1, <1>5
<1>7. V[N] \in T
    <2>1. \A n \in 0 .. N : V[n] \in T
        BY <1>1, <1>5, <1>6, RecursionKeeps
    <2> QED
        BY <1>1, <2>1
<1>8. \A m : Holds(True, m)
    BY Constants
<1> QED
    BY <1>2, <1>7, <1>8 DEF T, Models

(* addConstraint adds what the constraint says. *)
LEMMA AddHolds ==
    ASSUME NEW C \in SUBSET Exprs, NEW e \in Exprs
    PROVE  Add(C, e) \in SUBSET Exprs /\ \A m : m \in Models(Add(C, e)) <=> m \in Models(C) /\ Holds(e, m)
<1> DEFINE s == simplifyExpr(C, e)
           D == C \cup {s}
<1>1. s \in Exprs /\ \A m \in Models(C) : Holds(s, m) <=> Holds(e, m)
    BY SimplifyHolds
<1>2. Add(C, e) = IF options.rewrite THEN Rewrite(D) ELSE D \ {True}
    BY DEF Add, addConstraint
<1> HIDE DEF s
<1>3. D \in SUBSET Exprs /\ \A m : m \in Models(D) <=> m \in Models(C) /\ Holds(e, m)
    BY <1>1, ModelsOne
<1> HIDE DEF D
<1>4. Rewrite(D) \in SUBSET Exprs /\ Models(Rewrite(D)) = Models(D)
    BY <1>3, RewriteKeeps
<1>5. D \ {True} \in SUBSET Exprs /\ Models(D \ {True}) = Models(D)
    BY <1>3, Constants DEF Models
<1> QED
    BY <1>2, <1>3, <1>4, <1>5

(* SetToSeq lists a finite set. *)
LEMMA SetToSeqLists ==
    ASSUME NEW X, IsFiniteSet(X)
    PROVE  SetToSeq(X) \in Seq(X) /\ \A x \in X : \E i \in 1 .. Len(SetToSeq(X)) : SetToSeq(X)[i] = x
<1> DEFINE n == Cardinality(X)
           q == SetToSeq(X)
<1>1. n \in Nat /\ ExistsBijection(1 .. n, X)
    BY FS_CardinalityType
<1>2. PICK g : g \in Bijection(1 .. n, X)
    BY <1>1 DEF ExistsBijection
<1>3. g \in [1 .. n -> X] /\ IsInjective(g)
    BY <1>2 DEF Bijection, Injection
<1>4. q \in [1 .. n -> X] /\ IsInjective(q)
    <2>1. \E f \in [1 .. n -> X] : IsInjective(f)
        BY <1>3
    <2>2. q = CHOOSE f \in [1 .. n -> X] : IsInjective(f)
        BY Zenon DEF SetToSeq
    <2> HIDE DEF q, n
    <2> QED
        BY <2>1, <2>2
<1>5. IsFiniteSet(1 .. n) /\ Cardinality(1 .. n) = n
    BY <1>1, FS_Interval
<1> HIDE DEF q
<1>6. q \in Injection(1 .. n, X)
    BY <1>4 DEF Injection
<1>7. q \in Surjection(1 .. n, X)
    BY <1>5, <1>6, FS_Injection
<1> HIDE DEF n
<1>8. q \in Seq(X) /\ Len(q) = n
    BY <1>1, <1>4
<1>9. \A x \in X : \E i \in 1 .. Len(q) : q[i] = x
    BY <1>7, <1>8 DEF Surjection
<1> QED
    BY <1>8, <1>9 DEF q

-----------------------------------------------------------------------------
(***************************************************************************)
(* FastCexSolver.                                                          *)
(***************************************************************************)
(* What the core of the chain is asked: the constraints have a solution,   *)
(* and the expression is simplified.                                       *)
Queries == [cs : SUBSET Exprs, e : Exprs]

(* A query that the executor may ask: its constraints have a solution, and *)
(* its expression reads no element that an equality gives a value.         *)
Asked(q) == q \in Queries /\ Models(q.cs) # {} /\ Free(q.cs, q.e)

(* Ranges for the bytes. *)
RangesOf == [Elements -> [min : Int, max : Int]]

(* Possible values: ranges that are not empty, of bytes. *)
Guesses == {po \in RangesOf : \A x \in Elements : 0 <= po[x].min /\ po[x].min <= po[x].max
                                                  /\ po[x].max <= MaxByte}

(* An equality with a constant. *)
IsEquality(e) == IsConst(e.l) /\ ~IsConst(e.r) /\ ~e.neg

(* Exact values: ranges around a solution. *)
Around(w) == {ex \in RangesOf : \A x \in Elements : contains(ex[x], w[x])}

(* A guess stays a range of bytes. *)
LEMMA PossibleStep ==
    ASSUME NEW po \in Guesses, NEW e \in Exprs
    PROVE  propogatePossible(po, e) \in Guesses
<1>1. CASE ~IsConst(e.l) \/ IsConst(e.r)
    BY <1>1 DEF propogatePossible
<1>2. CASE IsConst(e.l) /\ ~IsConst(e.r)
    <2> DEFINE v == e.l[2]
               r == IF ~e.neg THEN Interval(v, v)
                    ELSE IF v = 0 THEN Interval(1, MaxByte) ELSE Interval(0, v - 1)
               s == IF isFixed(r) THEN r ELSE set_intersection(po[e.r], r)
    <2>1. v \in 0 .. MaxByte /\ e.r \in Elements
        BY <1>2, ExprParts, OperandKinds
    <2>2. propogatePossible(po, e) = IF isEmpty(s) THEN po ELSE [po EXCEPT ![e.r] = s]
        BY <1>2 DEF propogatePossible
    <2>3. MaxByte \in Nat /\ MaxByte >= 1
        BY ExpressionsAssumption
    <2> HIDE DEF v
    <2>4. /\ r \in [min : Int, max : Int] /\ 0 <= r.min /\ r.max <= MaxByte
        BY <2>1, <2>3 DEF Interval
    <2> HIDE DEF r
    <2>5. po[e.r] \in [min : Int, max : Int] /\ 0 <= po[e.r].min /\ po[e.r].max <= MaxByte
        BY <2>1 DEF Guesses, RangesOf
    <2>6. s \in [min : Int, max : Int] /\ 0 <= s.min /\ s.max <= MaxByte
        BY <2>4, <2>5 DEF set_intersection, Interval
    <2> HIDE DEF s
    <2>7. ~isEmpty(s) => s.min <= s.max
        BY <2>6 DEF isEmpty
    <2> QED
        BY <2>1, <2>2, <2>6, <2>7 DEF Guesses, RangesOf
<1> QED
    BY <1>1, <1>2

(* An exact range keeps the value of whatever satisfies the equalities. *)
LEMMA ExactStep ==
    ASSUME NEW ex \in RangesOf, NEW e \in Exprs
    PROVE  /\ propogateExact(ex, e) \in RangesOf
           /\ \A w \in Valuations :
                 ex \in Around(w) /\ (IsEquality(e) => Holds(e, w)) => propogateExact(ex, e) \in Around(w)
<1>1. CASE ~IsEquality(e)
    BY <1>1 DEF propogateExact, IsEquality
<1>2. CASE IsEquality(e)
    <2> DEFINE v == e.l[2]
               s == set_intersection(ex[e.r], Interval(v, v))
    <2>1. v \in 0 .. MaxByte /\ e.r \in Elements /\ ~e.neg
        BY <1>2, ExprParts, OperandKinds DEF IsEquality
    <2>2. propogateExact(ex, e) = [ex EXCEPT ![e.r] = s]
        BY <1>2 DEF propogateExact, IsEquality
    <2>3. \A w : Holds(e, w) => w[e.r] = v
        BY <1>2, <2>1, ExprParts DEF Holds, Value, IsEquality
    <2> HIDE DEF v
    <2>4. ex[e.r] \in [min : Int, max : Int]
        BY <2>1 DEF RangesOf
    <2>5. s \in [min : Int, max : Int] /\ (contains(ex[e.r], v) => contains(s, v))
        BY <2>1, <2>4 DEF set_intersection, Interval, contains
    <2> HIDE DEF s
    <2>6. propogateExact(ex, e) \in RangesOf
        BY <2>2, <2>5 DEF RangesOf
    <2>7. ASSUME NEW w \in Valuations, ex \in Around(w), Holds(e, w)
          PROVE  propogateExact(ex, e) \in Around(w)
        <3>1. w[e.r] = v
            BY <2>3, <2>7
        <3>2. contains(s, w[e.r])
            BY <2>1, <2>5, <2>7, <3>1 DEF Around
        <3>3. \A x \in Elements : contains([ex EXCEPT ![e.r] = s][x], w[x])
            BY <2>1, <2>7, <3>2 DEF Around, RangesOf
        <3> QED
            BY <2>2, <2>6, <3>3 DEF Around
    <2> QED
        BY <1>2, <2>6, <2>7
<1> QED
    BY <1>1, <1>2

(* The ranges at the start. *)
LEMMA AllValuesTyped ==
    AllValues \in Guesses /\ \A w \in Valuations : AllValues \in Around(w)
<1>1. MaxByte \in Nat /\ MaxByte >= 1
    BY ExpressionsAssumption
<1>2. AllValues \in RangesOf
    BY <1>1 DEF AllValues, RangesOf, Interval
<1> QED
    BY <1>1, <1>2 DEF AllValues, Guesses, Around, Interval, contains, Valuations

(* The guesses after any conditions. *)
LEMMA PossibleTyped ==
    ASSUME NEW cond \in Seq(Exprs)
    PROVE  PossibleValues(cond) \in Guesses
<1> DEFINE N == Len(cond)
           A(n, w) == propogatePossible(w, cond[n])
           F(W) == [n \in 0 .. N |-> IF n = 0 THEN AllValues ELSE A(n, W[n - 1])]
           V == CHOOSE W : W = F(W)
<1>1. N \in Nat /\ AllValues \in Guesses /\ \A n \in 1 .. N, w \in Guesses : A(n, w) \in Guesses
    BY AllValuesTyped, PossibleStep
<1>2. PossibleValues(cond) = V[N]
    BY Zenon DEF PossibleValues
<1> HIDE DEF N, A
<1>3. PICK f : f = F(f)
    <2> DEFINE G == [n \in 1 .. N |-> [w \in Guesses |-> A(n, w)]]
    <2>1. PICK f : Follows(f, Guesses, AllValues, N, G)
        <3>1. G \in Steps(N, Guesses)
            BY <1>1 DEF Steps
        <3> HIDE DEF G
        <3> QED
            BY <1>1, <3>1, Recursion
    <2>2. \A n \in 1 .. N : f[n - 1] \in Guesses
        BY <1>1, <2>1 DEF Follows
    <2>3. \A n \in 1 .. N : f[n] = A(n, f[n - 1])
        BY <2>1, <2>2 DEF Follows
    <2>4. f = F(f)
        BY <1>1, <2>1, <2>3 DEF Follows
    <2> QED
        BY <2>4
<1>4. V = F(V)
    <2> HIDE DEF F
    <2> QED
        BY <1>3
<1> HIDE DEF V
<1>5. V[0] = AllValues /\ \A n \in 1 .. N : V[n] = A(n, V[n - 1])
    BY <1>1, <1>4
<1>6. \A n \in 1 .. N : V[n - 1] \in Guesses => V[n] \in Guesses
    BY <1>1, <1>5
<1>7. \A n \in 0 .. N : V[n] \in Guesses
    BY <1>1, <1>5, <1>6, RecursionKeeps
<1> QED
    BY <1>1, <1>2, <1>7

(* The exact ranges after any conditions hold whatever satisfies the       *)
(* equalities among them.                                                  *)
LEMMA ExactTyped ==
    ASSUME NEW cond \in Seq(Exprs)
    PROVE  /\ ExactValues(cond) \in RangesOf
           /\ \A w \in Valuations :
                 (\A n \in 1 .. Len(cond) : IsEquality(cond[n]) => Holds(cond[n], w))
                    => ExactValues(cond) \in Around(w)
<1> DEFINE N == Len(cond)
           A(n, w) == propogateExact(w, cond[n])
           F(W) == [n \in 0 .. N |-> IF n = 0 THEN AllValues ELSE A(n, W[n - 1])]
           V == CHOOSE W : W = F(W)
<1>1. \A n \in 1 .. N : cond[n] \in Exprs
    OBVIOUS
<1>2. N \in Nat /\ AllValues \in RangesOf /\ \A n \in 1 .. N, w \in RangesOf : A(n, w) \in RangesOf
    BY <1>1, AllValuesTyped, ExactStep DEF Guesses
<1>3. ExactValues(cond) = V[N]
    BY Zenon DEF ExactValues
<1>4. ASSUME NEW w \in Valuations, NEW n \in 1 .. N, NEW ex \in Around(w),
             IsEquality(cond[n]) => Holds(cond[n], w)
      PROVE  A(n, ex) \in Around(w)
    BY <1>1, <1>4, ExactStep DEF Around
<1> HIDE DEF N, A
<1>5. PICK f : f = F(f)
    <2> DEFINE G == [n \in 1 .. N |-> [w \in RangesOf |-> A(n, w)]]
    <2>1. PICK f : Follows(f, RangesOf, AllValues, N, G)
        <3>1. G \in Steps(N, RangesOf)
            BY <1>2 DEF Steps
        <3> HIDE DEF G
        <3> QED
            BY <1>2, <3>1, Recursion
    <2>2. \A n \in 1 .. N : f[n - 1] \in RangesOf
        BY <1>2, <2>1 DEF Follows
    <2>3. \A n \in 1 .. N : f[n] = A(n, f[n - 1])
        BY <2>1, <2>2 DEF Follows
    <2>4. f = F(f)
        BY <1>2, <2>1, <2>3 DEF Follows
    <2> QED
        BY <2>4
<1>6. V = F(V)
    <2> HIDE DEF F
    <2> QED
        BY <1>5
<1> HIDE DEF V
<1>7. V[0] = AllValues /\ \A n \in 1 .. N : V[n] = A(n, V[n - 1])
    BY <1>2, <1>6
<1>8. ASSUME NEW w \in Valuations, \A n \in 1 .. N : IsEquality(cond[n]) => Holds(cond[n], w)
      PROVE  V[N] \in Around(w)
    <2> DEFINE T == Around(w)
    <2>1. V[0] \in T
        BY <1>7, AllValuesTyped
    <2>2. \A n \in 1 .. N : V[n - 1] \in T => V[n] \in T
        BY <1>4, <1>7, <1>8
    <2> HIDE DEF T
    <2>3. \A n \in 0 .. N : V[n] \in T
        BY <1>2, <2>1, <2>2, RecursionKeeps
    <2> QED
        BY <1>2, <2>3 DEF T
<1>9. V[N] \in RangesOf
    <2>1. \A n \in 1 .. N : V[n - 1] \in RangesOf => V[n] \in RangesOf
        BY <1>2, <1>7
    <2>2. \A n \in 0 .. N : V[n] \in RangesOf
        BY <1>2, <1>7, <2>1, RecursionKeeps
    <2> QED
        BY <1>2, <2>2
<1> QED
    BY <1>3, <1>8, <1>9 DEF N

(* Within exact ranges that fix what an expression reads, it has one       *)
(* value.                                                                  *)
LEMMA EvaluateExact ==
    ASSUME NEW e \in Exprs, NEW w \in Valuations, NEW ex \in Around(w), NEW b \in BOOLEAN,
           evaluateExact(ex, e) = {b}
    PROVE  Holds(e, w) <=> b
<1> DEFINE v == [x \in Elements |-> ex[x].min]
<1>1. \A x \in Reads(e) : isFixed(ex[x])
    BY DEF evaluateExact
<1>2. Holds(e, v) = b
    BY <1>1 DEF evaluateExact
<1>3. \A x \in Reads(e) : v[x] = w[x]
    <2>1. ASSUME NEW x \in Reads(e) PROVE v[x] = w[x]
        <3>1. x \in Elements /\ v[x] = ex[x].min
            BY DEF Reads
        <3>2. ex[x] \in [min : Int, max : Int] /\ contains(ex[x], w[x]) /\ isFixed(ex[x])
            BY <1>1, <3>1 DEF Around, RangesOf
        <3>3. w[x] \in Int
            BY <3>1 DEF Valuations
        <3> QED
            BY <3>1, <3>2, <3>3 DEF contains, isFixed
    <2> QED
        BY <2>1
<1> HIDE DEF v
<1>4. Holds(e, w) <=> Holds(e, v)
    BY <1>3, HoldsReads
<1> QED
    BY <1>2, <1>4

(* Queries derived from a query. *)
LEMMA QueryParts ==
    ASSUME NEW q \in Queries
    PROVE  /\ q.cs \in SUBSET Exprs /\ q.e \in Exprs
           /\ withFalse(q) \in Queries /\ withFalse(q).cs = q.cs /\ withFalse(q).e = False
           /\ negateExpr(q) \in Queries /\ negateExpr(q).cs = q.cs /\ negateExpr(q).e = Negate(q.e)
BY Constants, NegateHolds DEF Queries, withFalse, negateExpr

(* The parts of a new query. *)
LEMMA QueryFields ==
    ASSUME NEW C \in SUBSET Exprs, NEW e \in Exprs
    PROVE  Query(C, e) \in Queries /\ Query(C, e).cs = C /\ Query(C, e).e = e
BY DEF Query, Queries

(* The negated query and the one for a state are asked too. *)
LEMMA AskedDerived ==
    ASSUME NEW q, Asked(q)
    PROVE  Asked(withFalse(q)) /\ Asked(negateExpr(q)) /\ q \in Queries
<1>1. q \in Queries
    BY DEF Asked
<1>2. Reads(False) = {} /\ Reads(Negate(q.e)) = Reads(q.e)
    BY <1>1, QueryParts, Constants, NegateHolds
<1> QED
    BY <1>1, <1>2, QueryParts DEF Asked, Free

(* What refutes a query. *)
LEMMA RefutingFact ==
    ASSUME NEW q \in Queries, NEW m
    PROVE  m \in Refuting(q) <=> m \in Models(q.cs) /\ ~Holds(q.e, m)
<1>1. q.e \in Exprs
    BY QueryParts
<1> QED
    BY <1>1, ModelsOne, NegateHolds DEF Refuting

(* The conditions of a query. *)
Conditions(q, checkExpr) == SetToSeq(q.cs) \o (IF checkExpr THEN <<Negate(q.e)>> ELSE << >>)

(* They are the constraints, and the negation of the query if that is      *)
(* checked.                                                                *)
LEMMA ConditionsOf ==
    ASSUME NEW q \in Queries, NEW chk \in BOOLEAN
    PROVE  /\ Conditions(q, chk) \in Seq(Exprs)
           /\ \A n \in 1 .. Len(Conditions(q, chk)) :
                 \/ Conditions(q, chk)[n] \in q.cs
                 \/ chk /\ Conditions(q, chk)[n] = Negate(q.e)
<1> DEFINE s == SetToSeq(q.cs)
           t == IF chk THEN <<Negate(q.e)>> ELSE << >>
<1>1. q.cs \in SUBSET Exprs /\ Negate(q.e) \in Exprs
    BY QueryParts, NegateHolds
<1>2. s \in Seq(q.cs)
    <2>1. IsFiniteSet(q.cs)
        BY <1>1, ExprsFinite, FS_Subset
    <2> QED
        BY <2>1, SetToSeqLists
<1>3. Conditions(q, chk) = s \o t
    BY DEF Conditions
<1> HIDE DEF s
<1>4. s \in Seq(Exprs) /\ Len(s) \in Nat /\ \A n \in 1 .. Len(s) : s[n] \in q.cs
    BY <1>1, <1>2
<1>5. CASE chk
    <2>1. t = <<Negate(q.e)>> /\ t \in Seq(Exprs) /\ Len(t) = 1
        BY <1>1, <1>5
    <2>2. s \o t \in Seq(Exprs) /\ Len(s \o t) = Len(s) + 1
        BY <1>4, <2>1
    <2>3. ASSUME NEW n \in 1 .. Len(s) + 1 PROVE (s \o t)[n] \in q.cs \/ (s \o t)[n] = Negate(q.e)
        BY <1>4, <2>1
    <2> QED
        BY <1>3, <1>5, <2>2, <2>3
<1>6. CASE ~chk
    <2>1. t = << >>
        BY <1>6
    <2>2. s \o t = s
        BY <1>4, <2>1
    <2> QED
        BY <1>3, <1>4, <2>2
<1> QED
    BY <1>5, <1>6

(* The assignment of the midpoints is one. *)
LEMMA MidpointsTyped ==
    ASSUME NEW po \in Guesses
    PROVE  Midpoints(po) \in Valuations
<1>1. ASSUME NEW x \in Elements PROVE Midpoint(po[x]) \in 0 .. MaxByte
    <2>1. po[x].min \in Int /\ po[x].max \in Int /\ MaxByte \in Nat
        BY ExpressionsAssumption DEF Guesses, RangesOf
    <2>2. 0 <= po[x].min /\ po[x].min <= po[x].max /\ po[x].max <= MaxByte
        BY DEF Guesses
    <2> QED
        BY <2>1, <2>2 DEF Midpoint
<1> QED
    BY <1>1 DEF Midpoints, Valuations

(* What a decision of the FastCexSolver is worth. *)
FastSound(fast, q, checkExpr) ==
    /\ fast.value \in Valuations
    /\ fast.proved \in {"valid", "refuted", "none"}
    /\ checkExpr /\ fast.proved = "valid" => Refuting(q) = {}
    /\ fast.proved = "refuted" => fast.value \in Models(q.cs) /\ (checkExpr => ~Holds(q.e, fast.value))
    /\ Asked(q) => fast.ok = TRUE

(* What the FastCexSolver decides is right, for every query over any       *)
(* number of bytes and values: "valid" means that nothing refutes the      *)
(* query, and the assignment guessed from one constraint after the other   *)
(* is a solution where it says so.  Its exact ranges never become empty    *)
(* for a query the executor asks, as propogateExactValues asserts.         *)
THEOREM PropogateSoundTheorem ==
    ASSUME NEW q \in Queries, NEW chk \in BOOLEAN
    PROVE  FastSound(propogateValues(q, chk), q, chk)
<1> DEFINE cond == Conditions(q, chk)
           value == Midpoints(PossibleValues(cond))
           ex == ExactValues(cond)
           fast == propogateValues(q, chk)
<1>1. q.cs \in SUBSET Exprs /\ q.e \in Exprs
    BY QueryParts
<1>2. fast = Decide(q, chk, value, ex)
    BY DEF propogateValues, Conditions
<1>3. /\ cond \in Seq(Exprs)
      /\ \A n \in 1 .. Len(cond) : cond[n] \in q.cs \/ (chk /\ cond[n] = Negate(q.e))
    BY ConditionsOf, Zenon
<1> HIDE DEF cond
<1>4. value \in Valuations
    BY <1>3, PossibleTyped, MidpointsTyped
<1>5. /\ ex \in RangesOf
      /\ \A w \in Valuations :
            (\A n \in 1 .. Len(cond) : IsEquality(cond[n]) => Holds(cond[n], w)) => ex \in Around(w)
    BY <1>3, ExactTyped
<1> HIDE DEF value, ex
<1> DEFINE valid == \/ chk /\ evaluateExact(ex, q.e) = {TRUE}
                    \/ \E e \in q.cs : evaluateExact(ex, e) = {FALSE}
           refuted == (chk => ~Holds(q.e, value)) /\ \A e \in q.cs : Holds(e, value)
<1>6. /\ fast.proved = IF valid THEN "valid" ELSE IF refuted THEN "refuted" ELSE "none"
      /\ fast.value = value
      /\ fast.ok <=> \A x \in Elements : ~isEmpty(ex[x])
    BY <1>2 DEF Decide
<1>7. ASSUME chk, valid, NEW m \in Refuting(q) PROVE FALSE
    <2>1. m \in Valuations /\ (\A e \in q.cs : Holds(e, m)) /\ ~Holds(q.e, m)
        BY RefutingFact, ModelsFact
    <2>2. Holds(Negate(q.e), m)
        BY <1>1, <2>1, NegateHolds
    <2>3. ex \in Around(m)
        BY <1>3, <1>5, <2>1, <2>2
    <2>4. CASE evaluateExact(ex, q.e) = {TRUE}
        BY <1>1, <2>1, <2>3, <2>4, EvaluateExact
    <2>5. ASSUME NEW e \in q.cs, evaluateExact(ex, e) = {FALSE} PROVE FALSE
        BY <1>1, <2>1, <2>3, <2>5, EvaluateExact
    <2> QED
        BY <1>7, <2>4, <2>5
<1>8. refuted => value \in Models(q.cs) /\ (chk => ~Holds(q.e, value))
    BY <1>4, ModelsFact
<1>9. ASSUME Asked(q) PROVE \A x \in Elements : ~isEmpty(ex[x])
    <2>1. PICK m \in Models(q.cs) : TRUE
        BY <1>9 DEF Asked
    <2> DEFINE f == Negate(q.e)
               w == IF IsEquality(f) THEN [m EXCEPT ![f.r] = f.l[2]] ELSE m
    <2>2. f \in Exprs /\ Reads(f) = Reads(q.e)
        BY <1>1, NegateHolds
    <2>3. m \in Valuations /\ \A e \in q.cs : Holds(e, m)
        BY ModelsFact
    <2>4. cond \in Seq(Exprs) /\ \A n \in 1 .. Len(cond) : cond[n] \in q.cs \/ cond[n] = f
        BY <1>3
    <2>5. Free(q.cs, q.e)
        BY <1>9 DEF Asked
    <2> HIDE DEF f
    <2>6. w \in Valuations /\ (IsEquality(f) => Holds(f, w))
        <3>1. CASE IsEquality(f)
            <4>1. f.l[2] \in 0 .. MaxByte /\ f.r \in Elements /\ IsConst(f.l) /\ ~f.neg /\ ~IsConst(f.r)
                BY <2>2, <3>1, ExprParts, OperandKinds DEF IsEquality
            <4>2. w = [m EXCEPT ![f.r] = f.l[2]]
                BY <3>1
            <4>3. w \in Valuations /\ w[f.r] = f.l[2]
                BY <2>3, <4>1, <4>2 DEF Valuations
            <4> QED
                BY <2>2, <4>1, <4>3, ExprParts DEF Holds, Value
        <3>2. CASE ~IsEquality(f)
            BY <2>3, <3>2
        <3> QED
            BY <3>1, <3>2
    <2>7. ASSUME NEW e \in q.cs, IsEquality(e) PROVE Holds(e, w)
        <3>1. e \in Equalities(q.cs)
            BY <2>7 DEF Equalities, IsEquality
        <3>2. CASE IsEquality(f)
            <4>1. f.r \in Reads(f)
                BY <2>2, <3>2, ExprParts, OperandKinds DEF IsEquality, Reads
            <4>2. e.r # f.r
                BY <2>2, <2>5, <3>1, <4>1 DEF Free
            <4>3. Reads(e) \subseteq {e.r}
                BY <1>1, <2>7, ExprParts, OperandKinds DEF Reads, IsEquality
            <4>4. \A x \in Reads(e) : x \in Elements /\ w[x] = m[x]
                BY <2>3, <3>2, <4>2, <4>3 DEF Valuations, Reads
            <4> HIDE DEF w
            <4> QED
                BY <1>1, <2>3, <4>4, HoldsReads
        <3>3. CASE ~IsEquality(f)
            BY <2>3, <3>3
        <3> QED
            BY <3>2, <3>3
    <2> HIDE DEF w
    <2>8. ex \in Around(w)
        BY <1>5, <2>4, <2>6, <2>7
    <2>9. ASSUME NEW x \in Elements PROVE ~isEmpty(ex[x])
        <3>1. ex[x] \in [min : Int, max : Int] /\ contains(ex[x], w[x]) /\ w[x] \in Int
            BY <2>6, <2>8 DEF Around, RangesOf, Valuations
        <3> QED
            BY <3>1 DEF contains, isEmpty
    <2> QED
        BY <2>9
<1> HIDE DEF valid, refuted, fast
<1>10. Asked(q) => fast.ok = TRUE
    <2>1. fast.ok \in BOOLEAN
        BY <1>2 DEF Decide, fast
    <2> QED
        BY <1>6, <1>9, <2>1
<1>11. chk /\ fast.proved = "valid" => Refuting(q) = {}
    BY <1>6, <1>7
<1>12. fast.proved = "refuted" => refuted
    BY <1>6
<1> QED
    BY <1>4, <1>6, <1>8, <1>10, <1>11, <1>12 DEF FastSound, fast

-----------------------------------------------------------------------------
(***************************************************************************)
(* Answers.                                                                *)
(***************************************************************************)
(* A configuration in which every query is answered. *)
Sure == ~options.timeouts /\ ~options.experimental

(* Values for some of the bytes; the others read as zero. *)
Assignments == UNION {[X -> 0 .. MaxByte] : X \in SUBSET Elements}

(* With zero for the others. *)
Extended(a) == [x \in Elements |-> IF x \in DOMAIN a THEN a[x] ELSE 0]

(* What an entry of either cache says. *)
CexFact(K, S) == \/ S = {} /\ Models(K) = {}
                 \/ \E a \in Assignments : S = {a} /\ Extended(a) \in Models(K)

(* What an entry of the branch cache says. *)
BranchFact(C, e, pv) ==
    LET T == {m \in Models(C) : Holds(e, m)}
    IN  \/ pv = "MustBeTrue" /\ T = Models(C)
        \/ pv = "MustBeFalse" /\ T = {}
        \/ pv = "MayBeTrue" /\ T # {}
        \/ pv = "MayBeFalse" /\ T # Models(C)
        \/ pv = "TrueOrFalse" /\ T # {} /\ T # Models(C)

(* What the solvers keep is true, and no assertion has failed. *)
Good(c) ==
    /\ DOMAIN c = {"branch", "cex", "table", "failed", "aborted"}
    /\ c.failed = FALSE /\ c.aborted \in BOOLEAN /\ (Sure => c.aborted = FALSE)
    /\ \A K \in DOMAIN c.cex : K \in SUBSET Exprs /\ CexFact(K, c.cex[K])
    /\ c.table \subseteq Assignments
    /\ \A k \in DOMAIN c.branch : BranchFact(k[1], k[2], c.branch[k])

(* The outcomes are answers of V, or failures if there may be any. *)
Answers(O, V) ==
    \A o \in O : Good(o.c) /\ ((o.v = {} /\ ~Sure) \/ \E v \in V : o.v = {v})

(* An assertion that holds changes nothing. *)
LEMMA CheckHolds ==
    ASSUME NEW c, Good(c), NEW ok, ok = TRUE
    PROVE  Good(Check(ok, c))
<1> DEFINE d == Check(ok, c)
<1>1. /\ DOMAIN d = DOMAIN c /\ d.failed = FALSE /\ d.cex = c.cex /\ d.table = c.table
      /\ d.branch = c.branch /\ d.aborted = c.aborted
    BY DEF Check, Good
<1> HIDE DEF d
<1>2. Good(d)
    BY <1>1 DEF Good
<1> QED
    BY <1>2 DEF d

(* One answer, and no answer. *)
LEMMA ReturnAnswers ==
    ASSUME NEW c, Good(c), NEW V, NEW v \in V
    PROVE  Answers({Return(v, c)}, V)
BY DEF Answers, Return

(* No answer, if there may be none. *)
LEMMA FailAnswers ==
    ASSUME NEW c, Good(c), NEW V, ~Sure
    PROVE  Answers({Fail(c)}, V)
BY DEF Answers, Fail

(* One call or another. *)
LEMMA AnswersCup ==
    ASSUME NEW O, NEW P, NEW V, Answers(O, V), Answers(P, V)
    PROVE  Answers(O \cup P, V)
BY DEF Answers

(* Fewer answers are among more. *)
LEMMA AnswersIn ==
    ASSUME NEW O, NEW V, NEW W, V \subseteq W, Answers(O, V)
    PROVE  Answers(O, W)
BY DEF Answers

(* Values outside the bytes asked for do not matter. *)
Restricted(m, A) == [x \in ElementsOf(A) |-> m[x]]

(* The right answers. *)
InitialAnswers(q, A) == IF Refuting(q) = {} THEN {{}} ELSE {{Restricted(m, A)} : m \in Refuting(q)}

(* Of computeTruth, computeValidity and computeValue. *)
TruthAnswers(q) == {b \in BOOLEAN : b <=> Refuting(q) = {}}
ValidityOf(q) == IF Refuting(q) = {} THEN "True"
                 ELSE IF Refuting(negateExpr(q)) = {} THEN "False" ELSE "Unknown"
ValueAnswers(q) == {b \in BOOLEAN : \E m \in Models(q.cs) : b <=> Holds(q.e, m)}

(***************************************************************************)
(* The core solver.                                                        *)
(***************************************************************************)
LEMMA CoreInitial ==
    ASSUME NEW q \in Queries, NEW A, NEW c, Good(c)
    PROVE  Answers(CoreInitialValues(q, A, c), InitialAnswers(q, A))
<1> DEFINE V == InitialAnswers(q, A)
<1>1. Answers(CoreAnswers(q, A, c), V)
    <2>1. CASE Refuting(q) = {}
        <3>1. V = {{}} /\ CoreAnswers(q, A, c) = {Return({}, c)}
            BY <2>1 DEF InitialAnswers, CoreAnswers
        <3> HIDE DEF V
        <3> QED
            BY <3>1, ReturnAnswers
    <2>2. CASE Refuting(q) # {}
        <3>1. CoreAnswers(q, A, c) = {Return({Restricted(m, A)}, c) : m \in Refuting(q)}
            BY <2>2 DEF CoreAnswers, Restricted
        <3>2. \A m \in Refuting(q) : {Restricted(m, A)} \in V
            BY <2>2 DEF InitialAnswers
        <3> HIDE DEF V
        <3>3. \A m \in Refuting(q) : Answers({Return({Restricted(m, A)}, c)}, V)
            BY <3>2, ReturnAnswers
        <3> QED
            BY <3>1, <3>3 DEF Answers
    <2> QED
        BY <2>1, <2>2
<1> HIDE DEF V
<1>2. CASE options.timeouts
    <2>1. Answers({Fail(c)}, V)
        BY <1>2, FailAnswers DEF Sure
    <2> QED
        BY <1>1, <1>2, <2>1, AnswersCup DEF CoreInitialValues, V
<1>3. CASE ~options.timeouts
    BY <1>1, <1>3 DEF CoreInitialValues, V
<1> QED
    BY <1>2, <1>3

(* The core solver says whether a query is valid. *)
LEMMA CoreTruthAnswers ==
    ASSUME NEW q \in Queries, NEW c, Good(c)
    PROVE  Answers(CoreTruth(q, c), TruthAnswers(q))
<1> DEFINE O == CoreInitialValues(q, {}, c)
           V == InitialAnswers(q, {})
           W == TruthAnswers(q)
           F(a, d) == {Return(a = {}, d)}
<1>1. Answers(O, V)
    BY CoreInitial
<1>2. ASSUME NEW a \in V, NEW d, Good(d) PROVE Answers(F(a, d), W)
    <2>1. (a = {}) \in W
        BY DEF InitialAnswers, TruthAnswers
    <2> HIDE DEF W
    <2> QED
        BY <1>2, <2>1, ReturnAnswers
<1>3. \A p \in CoreTruth(q, c) : \E o \in O : (o.v = {} /\ p = o) \/ \E v \in o.v : p \in F(v, o.c)
    BY DEF CoreTruth, Then
<1> HIDE DEF O, V, W, F
<1>4. Answers(CoreTruth(q, c), W)
    BY <1>1, <1>2, <1>3 DEF Answers
<1> QED
    BY <1>4 DEF W

(* Assignments and valuations. *)
LEMMA ExtendedTyped ==
    ASSUME NEW a \in Assignments
    PROVE  Extended(a) \in Valuations
<1>1. PICK X \in SUBSET Elements : a \in [X -> 0 .. MaxByte]
    BY DEF Assignments
<1>2. 0 \in 0 .. MaxByte
    BY ExpressionsAssumption
<1> QED
    BY <1>1, <1>2 DEF Extended, Valuations

(* Values for the elements of some arrays. *)
LEMMA RestrictedTyped ==
    ASSUME NEW m \in Valuations, NEW A
    PROVE  Restricted(m, A) \in Assignments /\ DOMAIN Restricted(m, A) = ElementsOf(A)
<1>1. ElementsOf(A) \in SUBSET Elements
    BY DEF ElementsOf
<1>2. Restricted(m, A) \in [ElementsOf(A) -> 0 .. MaxByte]
    BY <1>1 DEF Restricted, Valuations
<1> QED
    BY <1>1, <1>2 DEF Assignments

(* What is read of the arrays of K. *)
LEMMA ReadsOfArrays ==
    ASSUME NEW K, NEW e \in K
    PROVE  Reads(e) \subseteq ElementsOf(ArraysOf(K))
BY DEF Reads, ElementsOf, ArraysOf

(* A part of a valuation decides what reads no more than that. *)
LEMMA EvaluateRestricted ==
    ASSUME NEW e \in Exprs, NEW m \in Valuations, NEW A, Reads(e) \subseteq ElementsOf(A)
    PROVE  /\ Evaluate(e, Restricted(m, A)) <=> Holds(e, m)
           /\ Holds(e, Extended(Restricted(m, A))) <=> Holds(e, m)
<1> DEFINE n == Extended(Restricted(m, A))
<1>1. \A x \in Reads(e) : n[x] = m[x]
    BY DEF Extended, Restricted, Reads
<1>2. Evaluate(e, Restricted(m, A)) <=> Holds(e, n)
    BY DEF Evaluate, Extended
<1> HIDE DEF n
<1>3. Holds(e, n) <=> Holds(e, m)
    BY <1>1, HoldsReads
<1> QED
    BY <1>2, <1>3 DEF n

(* Evaluation reads zero where there is no value. *)
LEMMA EvaluateExtended ==
    ASSUME NEW e, NEW a
    PROVE  Evaluate(e, a) = Holds(e, Extended(a))
BY DEF Evaluate, Extended

(* The answer of a validity query. *)
LEMMA ValidityFacts ==
    ASSUME NEW q \in Queries
    PROVE  /\ Refuting(q) = {} <=> \A m \in Models(q.cs) : Holds(q.e, m)
           /\ Refuting(negateExpr(q)) = {} <=> \A m \in Models(q.cs) : ~Holds(q.e, m)
           /\ Refuting(withFalse(q)) = Models(q.cs)
<1>1. /\ negateExpr(q) \in Queries /\ negateExpr(q).cs = q.cs /\ negateExpr(q).e = Negate(q.e)
      /\ withFalse(q) \in Queries /\ withFalse(q).cs = q.cs /\ withFalse(q).e = False
    BY QueryParts
<1>2. q.e \in Exprs
    BY QueryParts
<1>3. \A m : Holds(Negate(q.e), m) <=> ~Holds(q.e, m)
    BY <1>2, NegateHolds
<1>4. \A m : m \in Refuting(q) <=> m \in Models(q.cs) /\ ~Holds(q.e, m)
    BY RefutingFact
<1>5. \A m : m \in Refuting(negateExpr(q)) <=> m \in Models(q.cs) /\ Holds(q.e, m)
    BY <1>1, <1>3, RefutingFact
<1>6. \A m : m \in Refuting(withFalse(q)) <=> m \in Models(q.cs)
    BY <1>1, RefutingFact, Constants
<1> QED
    BY <1>4, <1>5, <1>6

(* SolverImpl::computeValidity. *)
LEMMA CoreValidityAnswers ==
    ASSUME NEW q \in Queries, NEW c, Good(c)
    PROVE  Answers(CoreValidity(q, c), {ValidityOf(q)})
<1> DEFINE O == CoreTruth(q, c)
           V == TruthAnswers(q)
           W == {ValidityOf(q)}
           r == negateExpr(q)
           F(b, d) == {Return(IF b THEN "False" ELSE "Unknown", d)}
           G(d) == Then(CoreTruth(r, d), LAMBDA isFalse, f : {Return(IF isFalse THEN "False" ELSE "Unknown", f)})
           H(b, d) == IF b THEN {Return("True", d)} ELSE G(d)
<1>1. Answers(O, V)
    BY CoreTruthAnswers
<1>2. ASSUME NEW d, Good(d), Refuting(q) # {} PROVE Answers(G(d), W)
    <2> DEFINE P == CoreTruth(r, d)
               U == TruthAnswers(r)
    <2>1. Answers(P, U)
        BY <1>2, QueryParts, CoreTruthAnswers
    <2>2. ASSUME NEW b \in U, NEW f, Good(f) PROVE Answers(F(b, f), W)
        <3>1. (IF b THEN "False" ELSE "Unknown") \in W
            BY <1>2 DEF TruthAnswers, ValidityOf
        <3> HIDE DEF W
        <3> QED
            BY <2>2, <3>1, ReturnAnswers
    <2>3. \A p \in G(d) : \E o \in P : \/ o.v = {} /\ p = o
                                       \/ \E v \in o.v : p \in F(v, o.c)
        BY DEF Then
    <2> HIDE DEF P, U, W, F, G
    <2> QED
        BY <2>1, <2>2, <2>3 DEF Answers
<1>3. ASSUME NEW b \in V, NEW d, Good(d) PROVE Answers(H(b, d), W)
    <2>1. b \in BOOLEAN /\ (b <=> Refuting(q) = {})
        BY DEF TruthAnswers
    <2>2. CASE b = TRUE
        <3>1. "True" \in W
            BY <2>1, <2>2 DEF ValidityOf
        <3> HIDE DEF W, G
        <3> QED
            BY <1>3, <2>2, <3>1, ReturnAnswers
    <2>3. CASE b = FALSE
        <3> HIDE DEF G, W
        <3> QED
            BY <1>2, <1>3, <2>1, <2>3
    <2> HIDE DEF H
    <2> QED
        BY <2>1, <2>2, <2>3
<1>4. \A p \in CoreValidity(q, c) : \E o \in O : (o.v = {} /\ p = o) \/ \E v \in o.v : p \in H(v, o.c)
    BY DEF CoreValidity, Then
<1> HIDE DEF O, V, W, H
<1>5. Answers(CoreValidity(q, c), W)
    BY <1>1, <1>3, <1>4 DEF Answers
<1> QED
    BY <1>5 DEF W

(* The core solver finds a value. *)
LEMMA CoreValueAnswers ==
    ASSUME NEW q \in Queries, NEW c, Good(c)
    PROVE  Answers(CoreValue(q, c), ValueAnswers(q))
<1> DEFINE A == ArraysOf({q.e})
           r == withFalse(q)
           O == CoreInitialValues(r, A, c)
           V == InitialAnswers(r, A)
           W == ValueAnswers(q)
           F(a, d) == {Return(Evaluate(q.e, b), d) : b \in a}
<1>1. Answers(O, V)
    BY CoreInitial, QueryParts
<1>2. ASSUME NEW a \in V, NEW d, Good(d) PROVE Answers(F(a, d), W)
    <2>1. \A b \in a : \E m \in Models(q.cs) : b = Restricted(m, A)
        BY ValidityFacts DEF InitialAnswers
    <2>2. ASSUME NEW b \in a PROVE Evaluate(q.e, b) \in W
        <3>1. PICK m \in Models(q.cs) : b = Restricted(m, A)
            BY <2>1
        <3>2. q.e \in Exprs /\ m \in Valuations /\ Reads(q.e) \subseteq ElementsOf(A)
            BY QueryParts, ModelsFact, ReadsOfArrays
        <3>3. Evaluate(q.e, b) <=> Holds(q.e, m)
            BY <3>1, <3>2, EvaluateRestricted
        <3>4. Evaluate(q.e, b) \in BOOLEAN
            BY DEF Evaluate, Holds
        <3> QED
            BY <3>3, <3>4 DEF ValueAnswers
    <2> HIDE DEF W
    <2>3. \A b \in a : Answers({Return(Evaluate(q.e, b), d)}, W)
        BY <1>2, <2>2, ReturnAnswers
    <2> QED
        BY <2>3 DEF Answers
<1>3. \A p \in CoreValue(q, c) : \E o \in O : (o.v = {} /\ p = o) \/ \E v \in o.v : p \in F(v, o.c)
    <2>1. \A p \in CoreValue(q, c) : \E o \in O :
             p \in IF o.v = {} THEN {o} ELSE UNION {F(v, o.c) : v \in o.v}
        BY DEF CoreValue, Then
    <2> HIDE DEF O, F
    <2> QED
        BY <2>1
<1> HIDE DEF O, V, W, F
<1>4. Answers(CoreValue(q, c), W)
    BY <1>1, <1>2, <1>3 DEF Answers
<1> QED
    BY <1>4 DEF W

(***************************************************************************)
(* StagedSolverImpl.                                                       *)
(***************************************************************************)
(* The first stage decides right, or not at all. *)
LEMMA FastDecides ==
    ASSUME NEW q \in Queries, NEW chk \in BOOLEAN
    PROVE  FastSound(Fast(q, chk), q, chk)
<1>1. CASE options.fast
    BY <1>1, PropogateSoundTheorem DEF Fast
<1>2. CASE ~options.fast
    <2> DEFINE fast == [proved |-> "none", value |-> [x \in Elements |-> 0], ok |-> TRUE]
    <2>1. Fast(q, chk) = fast
        BY <1>2 DEF Fast
    <2>2. fast.proved = "none" /\ fast.value = [x \in Elements |-> 0] /\ fast.ok = TRUE
        OBVIOUS
    <2>3. [x \in Elements |-> 0] \in Valuations
        BY ExpressionsAssumption DEF Valuations
    <2> HIDE DEF fast
    <2> QED
        BY <2>1, <2>2, <2>3 DEF FastSound
<1> QED
    BY <1>1, <1>2

(* Nothing is missing. *)
LEMMA ExtendedWhole ==
    ASSUME NEW m \in Valuations
    PROVE  Extended(m) = m
BY DEF Extended, Valuations

(* Either stage answers rightly whether the query holds. *)
LEMMA StagedTruthAnswers ==
    ASSUME NEW q, Asked(q), NEW c, Good(c)
    PROVE  Answers(StagedTruth(q, c), TruthAnswers(q))
<1> DEFINE fast == Fast(q, TRUE)
           d == Check(fast.ok, c)
<1>1. q \in Queries
    BY DEF Asked
<1>2. FastSound(fast, q, TRUE)
    BY <1>1, FastDecides
<1>3. StagedTruth(q, c) = IF fast.proved = "none" THEN CoreTruth(q, d) ELSE {Return(fast.proved = "valid", d)}
    BY DEF StagedTruth
<1> HIDE DEF fast
<1>4. Good(d)
    BY <1>2, CheckHolds DEF FastSound
<1> HIDE DEF d
<1>5. CASE fast.proved = "none"
    BY <1>1, <1>3, <1>4, <1>5, CoreTruthAnswers
<1>6. CASE fast.proved # "none"
    <2> DEFINE W == TruthAnswers(q)
    <2>1. (fast.proved = "valid") \in W
        BY <1>1, <1>2, <1>6, RefutingFact DEF FastSound, TruthAnswers
    <2>2. StagedTruth(q, c) = {Return(fast.proved = "valid", d)}
        BY <1>3, <1>6
    <2> HIDE DEF W
    <2>3. Answers({Return(fast.proved = "valid", d)}, W)
        BY <1>4, <2>1, ReturnAnswers
    <2> QED
        BY <2>2, <2>3 DEF W
<1> QED
    BY <1>5, <1>6

(* Either stage finds a refuting assignment. *)
LEMMA StagedInitialAnswers ==
    ASSUME NEW q, Asked(q), NEW A, NEW c, Good(c)
    PROVE  Answers(StagedInitialValues(q, A, c), InitialAnswers(q, A))
<1> DEFINE fast == Fast(q, TRUE)
           d == Check(fast.ok, c)
           W == InitialAnswers(q, A)
<1>1. q \in Queries
    BY DEF Asked
<1>2. FastSound(fast, q, TRUE)
    BY <1>1, FastDecides
<1>3. /\ fast.proved = "valid" => StagedInitialValues(q, A, c) = {Return({}, d)}
      /\ fast.proved = "refuted" => StagedInitialValues(q, A, c) = {Return({Restricted(fast.value, A)}, d)}
      /\ fast.proved = "none" => StagedInitialValues(q, A, c) = CoreInitialValues(q, A, d)
    BY DEF StagedInitialValues, Restricted
<1> HIDE DEF fast
<1>4. Good(d)
    BY <1>2, CheckHolds DEF FastSound
<1> HIDE DEF d
<1>5. CASE fast.proved = "valid"
    <2>1. {} \in W
        BY <1>2, <1>5 DEF FastSound, InitialAnswers
    <2> HIDE DEF W
    <2>2. Answers({Return({}, d)}, W)
        BY <1>4, <2>1, ReturnAnswers
    <2> QED
        BY <1>3, <1>5, <2>2 DEF W
<1>6. CASE fast.proved = "refuted"
    <2>1. fast.value \in Refuting(q)
        BY <1>1, <1>2, <1>6, RefutingFact DEF FastSound
    <2>2. {Restricted(fast.value, A)} \in W
        BY <2>1 DEF InitialAnswers
    <2> HIDE DEF W
    <2>3. Answers({Return({Restricted(fast.value, A)}, d)}, W)
        BY <1>4, <2>2, ReturnAnswers
    <2> QED
        BY <1>3, <1>6, <2>3 DEF W
<1>7. CASE fast.proved = "none"
    BY <1>1, <1>3, <1>4, <1>7, CoreInitial
<1> QED
    BY <1>2, <1>5, <1>6, <1>7 DEF FastSound

(* Either stage finds a value of a solution. *)
LEMMA StagedValueAnswers ==
    ASSUME NEW q, Asked(q), NEW c, Good(c)
    PROVE  Answers(StagedValue(q, c), ValueAnswers(q))
<1> DEFINE fast == Fast(q, FALSE)
           d == Check(fast.ok, c)
           W == ValueAnswers(q)
           b == Evaluate(q.e, fast.value)
<1>1. q \in Queries
    BY DEF Asked
<1>2. FastSound(fast, q, FALSE)
    BY <1>1, FastDecides
<1>3. StagedValue(q, c) = IF fast.proved = "refuted" THEN {Return(b, d)} ELSE CoreValue(q, d)
    BY DEF StagedValue
<1> HIDE DEF fast
<1>4. Good(d)
    BY <1>2, CheckHolds DEF FastSound
<1> HIDE DEF d
<1>5. CASE fast.proved = "refuted"
    <2>1. fast.value \in Models(q.cs) /\ fast.value \in Valuations
        BY <1>2, <1>5 DEF FastSound
    <2>2. b = Holds(q.e, fast.value)
        BY <2>1, EvaluateExtended, ExtendedWhole
    <2>3. b \in W
        BY <2>1, <2>2 DEF ValueAnswers, Holds
    <2> HIDE DEF W, b
    <2>4. Answers({Return(b, d)}, W)
        BY <1>4, <2>3, ReturnAnswers
    <2> QED
        BY <1>3, <1>5, <2>4 DEF W
<1>6. CASE fast.proved # "refuted"
    BY <1>1, <1>3, <1>4, <1>6, CoreValueAnswers
<1> QED
    BY <1>5, <1>6

(* The core solver is asked only for what the first stage left open. *)
LEMMA StagedValidityAnswers ==
    ASSUME NEW q, Asked(q), NEW c, Good(c)
    PROVE  Answers(StagedValidity(q, c), {ValidityOf(q)})
<1> DEFINE n == negateExpr(q)
           t == Fast(q, TRUE)
           f == Fast(n, TRUE)
           d == Check(t.ok /\ (t.proved = "valid" \/ f.ok), c)
           W == {ValidityOf(q)}
           F(b, x) == {Return(IF b THEN "True" ELSE "Unknown", x)}
           G(b, x) == {Return(IF b THEN "False" ELSE "Unknown", x)}
           MayBeTrue == Then(CoreTruth(q, d), LAMBDA b, e : {Return(IF b THEN "True" ELSE "Unknown", e)})
           MayBeFalse == Then(CoreTruth(n, d), LAMBDA b, e : {Return(IF b THEN "False" ELSE "Unknown", e)})
<1>1. q \in Queries /\ Asked(n) /\ n \in Queries /\ Models(q.cs) # {} /\ n.cs = q.cs
    BY AskedDerived, QueryParts DEF Asked
<1>2. FastSound(t, q, TRUE) /\ FastSound(f, n, TRUE)
    BY <1>1, FastDecides
<1>3. /\ t.proved = "valid" => StagedValidity(q, c) = {Return("True", d)}
      /\ t.proved # "valid" /\ f.proved = "valid" => StagedValidity(q, c) = {Return("False", d)}
      /\ t.proved = "refuted" /\ f.proved = "refuted" => StagedValidity(q, c) = {Return("Unknown", d)}
      /\ t.proved = "none" /\ f.proved = "refuted" => StagedValidity(q, c) = MayBeTrue
      /\ t.proved = "refuted" /\ f.proved = "none" => StagedValidity(q, c) = MayBeFalse
      /\ t.proved = "none" /\ f.proved = "none" => StagedValidity(q, c) = CoreValidity(q, d)
    <2>1. StagedValidity(q, c) =
            CASE t.proved = "valid" -> {Return("True", d)}
              [] t.proved # "valid" /\ f.proved = "valid" -> {Return("False", d)}
              [] t.proved = "refuted" /\ f.proved = "refuted" -> {Return("Unknown", d)}
              [] t.proved = "none" /\ f.proved = "refuted" -> MayBeTrue
              [] t.proved = "refuted" /\ f.proved = "none" -> MayBeFalse
              [] OTHER -> CoreValidity(q, d)
        BY Zenon DEF StagedValidity
    <2> HIDE DEF n, t, f, d, MayBeTrue, MayBeFalse
    <2> QED
        BY <2>1
<1>4. /\ \A p \in MayBeTrue : \E o \in CoreTruth(q, d) : p \in IF o.v = {} THEN {o} ELSE UNION {F(v, o.c) : v \in o.v}
      /\ \A p \in MayBeFalse : \E o \in CoreTruth(n, d) : p \in IF o.v = {} THEN {o} ELSE UNION {G(v, o.c) : v \in o.v}
    BY DEF Then
<1> HIDE DEF n, t, f, MayBeTrue, MayBeFalse
<1>5. Good(d)
    BY <1>1, <1>2, CheckHolds DEF FastSound
<1> HIDE DEF d
<1>6. /\ Refuting(q) = {} <=> \A m \in Models(q.cs) : Holds(q.e, m)
      /\ Refuting(n) = {} <=> \A m \in Models(q.cs) : ~Holds(q.e, m)
    BY <1>1, ValidityFacts DEF n
<1>7. /\ t.proved = "valid" => Refuting(q) = {}
      /\ t.proved = "refuted" => Refuting(q) # {}
      /\ f.proved = "valid" => Refuting(n) = {}
      /\ f.proved = "refuted" => Refuting(n) # {}
    BY <1>1, <1>2, RefutingFact DEF FastSound
<1>8. /\ Refuting(q) = {} => "True" \in W
      /\ Refuting(n) = {} => "False" \in W
      /\ Refuting(q) # {} /\ Refuting(n) # {} => "Unknown" \in W
    BY <1>1, <1>6 DEF ValidityOf, n
<1>9. Answers(CoreValidity(q, d), W)
    BY <1>1, <1>5, CoreValidityAnswers
<1>10. \A b \in TruthAnswers(q) : b \in BOOLEAN /\ (b <=> Refuting(q) = {})
    BY DEF TruthAnswers
<1>11. \A b \in TruthAnswers(n) : b \in BOOLEAN /\ (b <=> Refuting(n) = {})
    BY DEF TruthAnswers
<1> HIDE DEF W
<1>12. ASSUME Refuting(n) # {} PROVE Answers(MayBeTrue, W)
    <2> DEFINE O == CoreTruth(q, d)
               V == TruthAnswers(q)
    <2>1. Answers(O, V)
        BY <1>1, <1>5, CoreTruthAnswers
    <2>2. ASSUME NEW b \in V, NEW x, Good(x) PROVE Answers(F(b, x), W)
        <3>1. (IF b THEN "True" ELSE "Unknown") \in W
            BY <1>8, <1>10, <1>12
        <3> QED
            BY <2>2, <3>1, ReturnAnswers
    <2> HIDE DEF O, V, F
    <2>3. \A p \in MayBeTrue : \E o \in O : (o.v = {} /\ p = o) \/ \E v \in o.v : p \in F(v, o.c)
        BY <1>4 DEF O
    <2> QED
        BY <2>1, <2>2, <2>3 DEF Answers
<1>13. ASSUME Refuting(q) # {} PROVE Answers(MayBeFalse, W)
    <2> DEFINE O == CoreTruth(n, d)
               V == TruthAnswers(n)
    <2>1. Answers(O, V)
        BY <1>1, <1>5, CoreTruthAnswers
    <2>2. ASSUME NEW b \in V, NEW x, Good(x) PROVE Answers(G(b, x), W)
        <3>1. (IF b THEN "False" ELSE "Unknown") \in W
            BY <1>8, <1>11, <1>13
        <3> QED
            BY <2>2, <3>1, ReturnAnswers
    <2> HIDE DEF O, V, G
    <2>3. \A p \in MayBeFalse : \E o \in O : (o.v = {} /\ p = o) \/ \E v \in o.v : p \in G(v, o.c)
        BY <1>4 DEF O
    <2> QED
        BY <2>1, <2>2, <2>3 DEF Answers
<1>14. \A v \in W : Answers({Return(v, d)}, W)
    BY <1>5, ReturnAnswers
<1>15. t.proved \in {"valid", "refuted", "none"} /\ f.proved \in {"valid", "refuted", "none"}
    BY <1>2 DEF FastSound
<1>16. Answers(StagedValidity(q, c), W)
    BY <1>3, <1>7, <1>8, <1>9, <1>12, <1>13, <1>14, <1>15
<1> QED
    BY <1>16 DEF W

(***************************************************************************)
(* CexCachingSolver.                                                       *)
(***************************************************************************)
(* The right assignments. *)
AssignmentAnswers(q) == {S \in {{}} \cup {{a} : a \in Assignments} : CexFact(Key(q), S)}

(* The key of a query stands for what refutes it. *)
LEMMA KeyFacts ==
    ASSUME NEW q \in Queries
    PROVE  Key(q) \in SUBSET Exprs /\ Models(Key(q)) = Refuting(q)
<1>1. q.cs \in SUBSET Exprs /\ Negate(q.e) \in Exprs
    BY QueryParts, NegateHolds
<1>2. \A m : Holds(True, m)
    BY Constants
<1> QED
    BY <1>1, <1>2 DEF Key, Refuting, Models

(* Nothing refutes the query, or the assignment does. *)
LEMMA AssignmentFacts ==
    ASSUME NEW q \in Queries, NEW S \in AssignmentAnswers(q)
    PROVE  \/ S = {} /\ Refuting(q) = {}
           \/ \E a \in Assignments : S = {a} /\ Extended(a) \in Refuting(q)
BY KeyFacts DEF AssignmentAnswers, CexFact

(* A true entry for the key is an answer. *)
LEMMA CexFactIn ==
    ASSUME NEW q, NEW S, CexFact(Key(q), S)
    PROVE  S \in AssignmentAnswers(q)
BY DEF AssignmentAnswers, CexFact

(* An assignment satisfies what it solves. *)
LEMMA SatisfiesModels ==
    ASSUME NEW a \in Assignments, NEW K
    PROVE  Satisfies(a, K) <=> Extended(a) \in Models(K)
<1>1. Extended(a) \in Valuations
    BY ExtendedTyped
<1>2. \A e \in K : Evaluate(e, a) <=> Holds(e, Extended(a))
    BY EvaluateExtended
<1> QED
    BY <1>1, <1>2, ModelsFact DEF Satisfies

(* Whatever a lookup finds is right for the key, by a superset, by a       *)
(* subset or by evaluation.                                                *)
LEMMA SearchHolds ==
    ASSUME NEW K, NEW c, Good(c), NEW S \in searchForAssignment(K, c)
    PROVE  CexFact(K, S)
<1> DEFINE above == {c.cex[k] : k \in {k \in DOMAIN c.cex : options.superset /\ K \subseteq k}} \ {{}}
           below == {c.cex[k] : k \in {k \in DOMAIN c.cex : k \subseteq K}}
           null == below \cap {{}}
           some(T) == {s \in T : \A a \in s : Satisfies(a, K)}
           kept == {{a} : a \in c.table}
<1>1. S \in IF K \in DOMAIN c.cex THEN {c.cex[K]}
            ELSE IF above # {} THEN above
            ELSE IF options.tryAll THEN IF null # {} THEN null ELSE some(kept)
            ELSE some(below)
    BY Zenon DEF searchForAssignment
<1>2. \A k \in DOMAIN c.cex : CexFact(k, c.cex[k])
    BY DEF Good
<1>3. CASE K \in DOMAIN c.cex
    BY <1>1, <1>2, <1>3
<1>4. ASSUME S \in above PROVE CexFact(K, S)
    <2>1. PICK k \in DOMAIN c.cex : K \subseteq k /\ S = c.cex[k] /\ S # {}
        BY <1>4
    <2>2. Models(k) \subseteq Models(K)
        BY <2>1, ModelsMonotone
    <2>3. CexFact(k, S)
        BY <1>2, <2>1
    <2> QED
        BY <2>1, <2>2, <2>3 DEF CexFact
<1>5. ASSUME S \in below PROVE /\ S = {} => CexFact(K, S)
                               /\ \A a \in S : a \in Assignments /\ S = {a}
    <2>1. PICK k \in DOMAIN c.cex : k \subseteq K /\ S = c.cex[k]
        BY <1>5
    <2>2. Models(K) \subseteq Models(k)
        BY <2>1, ModelsMonotone
    <2>3. CexFact(k, S)
        BY <1>2, <2>1
    <2> QED
        BY <2>2, <2>3 DEF CexFact
<1>6. ASSUME S \in kept PROVE S # {} /\ \A a \in S : a \in Assignments /\ S = {a}
    BY <1>6 DEF Good
<1>7. ASSUME NEW a, S = {a}, a \in Assignments, Satisfies(a, K) PROVE CexFact(K, S)
    BY <1>7, SatisfiesModels DEF CexFact
<1>8. null \subseteq below /\ \A s \in null : s = {}
    OBVIOUS
<1>9. \A T : S \in some(T) => S \in T /\ \A a \in S : Satisfies(a, K)
    OBVIOUS
<1> HIDE DEF above, below, null, some, kept
<1>10. ASSUME S \in some(kept) \/ S \in some(below) PROVE CexFact(K, S)
    <2>1. (\A a \in S : Satisfies(a, K)) /\ (S \in kept \/ S \in below)
        BY <1>9, <1>10
    <2>2. CASE S = {}
        BY <1>5, <1>6, <2>1, <2>2
    <2>3. CASE S # {}
        <3>1. PICK a \in S : TRUE
            BY <2>3
        <3>2. a \in Assignments /\ S = {a}
            BY <1>5, <1>6, <2>1
        <3> QED
            BY <1>7, <2>1, <3>2
    <2> QED
        BY <2>2, <2>3
<1> QED
    BY <1>1, <1>3, <1>4, <1>5, <1>8, <1>10

(* A lookup returns only right answers. *)
LEMMA LookupHolds ==
    ASSUME NEW q \in Queries, NEW c, Good(c), NEW S \in lookupAssignment(q, c)
    PROVE  S \in AssignmentAnswers(q)
<1>1. CASE q.e = True
    <2>1. S = {}
        BY <1>1 DEF lookupAssignment
    <2>2. Refuting(q) = {}
        BY <1>1, RefutingFact, Constants
    <2>3. CexFact(Key(q), S)
        BY <2>1, <2>2, KeyFacts DEF CexFact
    <2> QED
        BY <2>3, CexFactIn
<1>2. CASE q.e # True
    <2>1. S \in searchForAssignment(Key(q), c)
        BY <1>2 DEF lookupAssignment
    <2> QED
        BY <2>1, SearchHolds, CexFactIn
<1> QED
    BY <1>1, <1>2

(* A new entry is kept with its assignment. *)
WithEntry(d, K, S) == [d EXCEPT !.table = @ \cup S, !.cex = Inserted(@, K, S)]

(* A true entry keeps the cache true. *)
LEMMA CexInserted ==
    ASSUME NEW d, Good(d), NEW K \in SUBSET Exprs, NEW S, CexFact(K, S)
    PROVE  Good(WithEntry(d, K, S))
<1> DEFINE f == WithEntry(d, K, S)
           I == Inserted(d.cex, K, S)
<1>1. /\ DOMAIN f = DOMAIN d /\ f.failed = d.failed /\ f.aborted = d.aborted
      /\ f.table = d.table \cup S /\ f.cex = I /\ f.branch = d.branch
    BY DEF Good, WithEntry
<1>2. S \subseteq Assignments
    BY DEF CexFact
<1>3. \A k \in DOMAIN I : k \in SUBSET Exprs /\ CexFact(k, I[k])
    BY DEF Inserted, Good
<1> HIDE DEF f, I
<1>4. Good(f)
    BY <1>1, <1>2, <1>3 DEF Good
<1> QED
    BY <1>4 DEF f

(* What the core solver finds is an assignment for the key. *)
LEMMA InitialIsFact ==
    ASSUME NEW q \in Queries, NEW S \in InitialAnswers(q, ArraysOf(Key(q)))
    PROVE  CexFact(Key(q), S)
<1> DEFINE A == ArraysOf(Key(q))
           K == Key(q)
<1>1. K \in SUBSET Exprs /\ Models(K) = Refuting(q)
    BY KeyFacts
<1>2. CASE Refuting(q) = {}
    BY <1>1, <1>2 DEF InitialAnswers, CexFact
<1>3. CASE Refuting(q) # {}
    <2>1. PICK m \in Refuting(q) : S = {Restricted(m, A)}
        BY <1>3 DEF InitialAnswers
    <2>2. m \in Valuations /\ \A e \in K : Holds(e, m)
        BY <1>1, ModelsFact
    <2> DEFINE a == Restricted(m, A)
    <2>3. a \in Assignments
        BY <2>2, RestrictedTyped
    <2>4. Extended(a) \in Valuations
        BY <2>3, ExtendedTyped
    <2>5. \A e \in K : Holds(e, Extended(a))
        BY <1>1, <2>2, ReadsOfArrays, EvaluateRestricted
    <2> HIDE DEF a
    <2>6. Extended(a) \in Models(K)
        BY <2>4, <2>5, ModelsFact
    <2> QED
        BY <2>1, <2>3, <2>6 DEF CexFact, a
<1> QED
    BY <1>2, <1>3

(* getAssignment *)
LEMMA GetAssignmentAnswers ==
    ASSUME NEW q, Asked(q), NEW c, Good(c)
    PROVE  Answers(getAssignment(q, c), AssignmentAnswers(q))
<1> DEFINE W == AssignmentAnswers(q)
           L == lookupAssignment(q, c)
           K == Key(q)
           O == StagedInitialValues(q, ArraysOf(K), c)
           V == InitialAnswers(q, ArraysOf(K))
           F(a, d) == {Return(a, WithEntry(d, K, a))}
           X == Then(O, LAMBDA a, d : {Return(a, [d EXCEPT !.table = @ \cup a, !.cex = Inserted(@, K, a)])})
<1>1. getAssignment(q, c) = IF L # {} THEN {Return(a, c) : a \in L} ELSE X
    BY Zenon DEF getAssignment
<1>2. \A p \in X : \E o \in O : p \in IF o.v = {} THEN {o} ELSE UNION {F(v, o.c) : v \in o.v}
    BY Zenon DEF Then, WithEntry
<1> HIDE DEF X
<1>3. q \in Queries /\ K \in SUBSET Exprs
    BY KeyFacts DEF Asked
<1>4. CASE L # {}
    <2>1. getAssignment(q, c) = {Return(a, c) : a \in L}
        BY <1>1, <1>4
    <2>2. \A a \in L : a \in W
        BY <1>3, LookupHolds
    <2> HIDE DEF W, L
    <2>3. \A a \in L : Answers({Return(a, c)}, W)
        BY <2>2, ReturnAnswers
    <2>4. Answers(getAssignment(q, c), W)
        BY <2>1, <2>3 DEF Answers
    <2> QED
        BY <2>4 DEF W
<1>5. CASE L = {}
    <2>1. \A p \in getAssignment(q, c) : \E o \in O :
             p \in IF o.v = {} THEN {o} ELSE UNION {F(v, o.c) : v \in o.v}
        BY <1>1, <1>2, <1>5
    <2>2. Answers(O, V)
        BY StagedInitialAnswers
    <2>3. ASSUME NEW a \in V, NEW d, Good(d) PROVE Answers(F(a, d), W)
        <3>1. CexFact(K, a)
            BY <1>3, InitialIsFact
        <3>2. a \in W
            BY <3>1, CexFactIn
        <3> DEFINE f == WithEntry(d, K, a)
        <3>3. Good(f)
            BY <1>3, <2>3, <3>1, CexInserted
        <3> HIDE DEF W, K, f
        <3>4. Answers({Return(a, f)}, W)
            BY <3>2, <3>3, ReturnAnswers
        <3> QED
            BY <3>4 DEF f
    <2> HIDE DEF O, V, W, F, K
    <2>4. \A p \in getAssignment(q, c) : \E o \in O :
             (o.v = {} /\ p = o) \/ \E v \in o.v : p \in F(v, o.c)
        BY <2>1
    <2>5. Answers(getAssignment(q, c), W)
        BY <2>2, <2>3, <2>4 DEF Answers
    <2> QED
        BY <2>5 DEF W
<1> QED
    BY <1>4, <1>5

(* Truth through the counterexample cache. *)
LEMMA CexTruthAnswers ==
    ASSUME NEW q, Asked(q), NEW c, Good(c)
    PROVE  Answers(CexTruth(q, c), TruthAnswers(q))
<1> DEFINE O == getAssignment(q, c)
           V == AssignmentAnswers(q)
           W == TruthAnswers(q)
           F(a, d) == {Return(a = {}, d)}
           X == Then(O, LAMBDA a, d : {Return(a = {}, d)})
           known == options.experimental /\ {} \in lookupAssignment(negateExpr(q), c)
<1>1. CexTruth(q, c) = IF known THEN {Fail(c)} ELSE X
    BY Zenon DEF CexTruth
<1>2. \A p \in X : \E o \in O : p \in IF o.v = {} THEN {o} ELSE UNION {F(v, o.c) : v \in o.v}
    BY DEF Then
<1>3. Answers(O, V)
    BY GetAssignmentAnswers
<1>4. ASSUME NEW a \in V, NEW d, Good(d) PROVE Answers(F(a, d), W)
    <2>1. q \in Queries
        BY DEF Asked
    <2>2. a = {} <=> Refuting(q) = {}
        BY <2>1, AssignmentFacts
    <2>3. (a = {}) \in W
        BY <2>2 DEF TruthAnswers
    <2> HIDE DEF W
    <2> QED
        BY <1>4, <2>3, ReturnAnswers
<1>5. known => ~Sure
    BY DEF Sure
<1> HIDE DEF O, V, W, F, X, known
<1>6. \A p \in X : \E o \in O : (o.v = {} /\ p = o) \/ \E v \in o.v : p \in F(v, o.c)
    BY <1>2
<1>7. Answers(X, W)
    <2>1. \A v \in V : \A d : Good(d) => Answers(F(v, d), W)
        BY <1>4
    <2> QED
        BY <1>3, <1>6, <2>1 DEF Answers
<1>8. known => Answers({Fail(c)}, W)
    BY <1>5, FailAnswers
<1>9. Answers(CexTruth(q, c), W)
    BY <1>1, <1>7, <1>8
<1> QED
    BY <1>9 DEF W

(* With a solution at hand, one more assignment decides. *)
LEMMA CexValidityAnswers ==
    ASSUME NEW q, Asked(q), NEW c, Good(c)
    PROVE  Answers(CexValidity(q, c), {ValidityOf(q)})
<1> DEFINE n == negateExpr(q)
           z == withFalse(q)
           O == getAssignment(z, c)
           V == AssignmentAnswers(z)
           W == {ValidityOf(q)}
           T(b, f) == {Return(IF b = {} THEN "True" ELSE "Unknown", f)}
           U(b, f) == {Return(IF b = {} THEN "False" ELSE "Unknown", f)}
           X(d) == Then(getAssignment(q, d), LAMBDA b, f : {Return(IF b = {} THEN "True" ELSE "Unknown", f)})
           Y(d) == Then(getAssignment(n, d), LAMBDA b, f : {Return(IF b = {} THEN "False" ELSE "Unknown", f)})
           H(a, d) == IF Evaluate(q.e, a) THEN X(d) ELSE Y(d)
           F(S, d) == IF S = {} THEN {Fail(Check(FALSE, d))} ELSE UNION {H(a, d) : a \in S}
<1>1. \A p \in CexValidity(q, c) : \E o \in O : p \in IF o.v = {} THEN {o} ELSE UNION {F(v, o.c) : v \in o.v}
    BY Zenon DEF CexValidity, StateAssignment, Then
<1>2. /\ \A d : \A p \in X(d) : \E o \in getAssignment(q, d) :
            p \in IF o.v = {} THEN {o} ELSE UNION {T(v, o.c) : v \in o.v}
      /\ \A d : \A p \in Y(d) : \E o \in getAssignment(n, d) :
            p \in IF o.v = {} THEN {o} ELSE UNION {U(v, o.c) : v \in o.v}
    BY Zenon DEF Then
<1> HIDE DEF X, Y, n, z
<1>3. /\ q \in Queries /\ n \in Queries /\ z \in Queries
      /\ Asked(n) /\ Asked(z) /\ Models(q.cs) # {}
    BY AskedDerived DEF Asked, n, z
<1>4. /\ Refuting(q) = {} <=> \A m \in Models(q.cs) : Holds(q.e, m)
      /\ Refuting(n) = {} <=> \A m \in Models(q.cs) : ~Holds(q.e, m)
      /\ Refuting(z) = Models(q.cs)
    BY <1>3, ValidityFacts DEF n, z
<1>5. /\ Refuting(q) = {} => "True" \in W
      /\ Refuting(n) = {} => "False" \in W
      /\ Refuting(q) # {} /\ Refuting(n) # {} => "Unknown" \in W
    BY <1>3, <1>4 DEF ValidityOf, n
<1>6. \A S \in AssignmentAnswers(q) : S = {} <=> Refuting(q) = {}
    BY <1>3, AssignmentFacts
<1>7. \A S \in AssignmentAnswers(n) : S = {} <=> Refuting(n) = {}
    BY <1>3, AssignmentFacts
<1>8. \A S \in V : \E a \in Assignments : S = {a} /\ Extended(a) \in Models(q.cs)
    BY <1>3, <1>4, AssignmentFacts
<1>9. Answers(O, V)
    BY <1>3, GetAssignmentAnswers
<1> HIDE DEF W
<1>10. ASSUME NEW d, Good(d), Refuting(n) # {} PROVE Answers(X(d), W)
    <2> DEFINE P == getAssignment(q, d)
               A == AssignmentAnswers(q)
    <2>1. Answers(P, A)
        BY <1>10, GetAssignmentAnswers
    <2>2. ASSUME NEW b \in A, NEW f, Good(f) PROVE Answers(T(b, f), W)
        <3>1. (IF b = {} THEN "True" ELSE "Unknown") \in W
            BY <1>5, <1>6, <1>10
        <3> QED
            BY <2>2, <3>1, ReturnAnswers
    <2> HIDE DEF P, A, T
    <2>3. \A p \in X(d) : \E o \in P : (o.v = {} /\ p = o) \/ \E v \in o.v : p \in T(v, o.c)
        BY <1>2 DEF P
    <2> QED
        BY <2>1, <2>2, <2>3 DEF Answers
<1>11. ASSUME NEW d, Good(d), Refuting(q) # {} PROVE Answers(Y(d), W)
    <2> DEFINE P == getAssignment(n, d)
               A == AssignmentAnswers(n)
    <2>1. Answers(P, A)
        BY <1>3, <1>11, GetAssignmentAnswers
    <2>2. ASSUME NEW b \in A, NEW f, Good(f) PROVE Answers(U(b, f), W)
        <3>1. (IF b = {} THEN "False" ELSE "Unknown") \in W
            BY <1>5, <1>7, <1>11
        <3> QED
            BY <2>2, <3>1, ReturnAnswers
    <2> HIDE DEF P, A, U
    <2>3. \A p \in Y(d) : \E o \in P : (o.v = {} /\ p = o) \/ \E v \in o.v : p \in U(v, o.c)
        BY <1>2 DEF P
    <2> QED
        BY <2>1, <2>2, <2>3 DEF Answers
<1>12. ASSUME NEW S \in V, NEW d, Good(d) PROVE Answers(F(S, d), W)
    <2>1. PICK a \in Assignments : S = {a} /\ Extended(a) \in Models(q.cs)
        BY <1>8
    <2>2. F(S, d) = H(a, d)
        BY <2>1
    <2>3. Evaluate(q.e, a) = Holds(q.e, Extended(a))
        BY EvaluateExtended
    <2>4. CASE Evaluate(q.e, a)
        <3>1. Refuting(n) # {}
            BY <1>4, <2>1, <2>3, <2>4
        <3> QED
            BY <1>10, <1>12, <2>2, <2>4, <3>1
    <2>5. CASE ~Evaluate(q.e, a)
        <3>1. Refuting(q) # {}
            BY <1>4, <2>1, <2>3, <2>5
        <3> QED
            BY <1>11, <1>12, <2>2, <2>5, <3>1
    <2> QED
        BY <2>4, <2>5
<1> HIDE DEF O, V, F
<1>13. \A p \in CexValidity(q, c) : \E o \in O : (o.v = {} /\ p = o) \/ \E v \in o.v : p \in F(v, o.c)
    BY <1>1
<1>14. Answers(CexValidity(q, c), W)
    BY <1>9, <1>12, <1>13 DEF Answers
<1> QED
    BY <1>14 DEF W

(* A value through the counterexample cache. *)
LEMMA CexValueAnswers ==
    ASSUME NEW q, Asked(q), NEW c, Good(c)
    PROVE  Answers(CexValue(q, c), ValueAnswers(q))
<1> DEFINE z == withFalse(q)
           O == getAssignment(z, c)
           V == AssignmentAnswers(z)
           W == ValueAnswers(q)
           H(a, d) == {Return(Evaluate(q.e, a), d)}
           F(S, d) == IF S = {} THEN {Fail(Check(FALSE, d))} ELSE UNION {H(a, d) : a \in S}
<1>1. \A p \in CexValue(q, c) : \E o \in O : p \in IF o.v = {} THEN {o} ELSE UNION {F(v, o.c) : v \in o.v}
    BY Zenon DEF CexValue, StateAssignment, Then
<1>2. q \in Queries /\ z \in Queries /\ Asked(z) /\ Models(q.cs) # {} /\ Refuting(z) = Models(q.cs)
    BY AskedDerived, ValidityFacts DEF Asked
<1>3. \A S \in V : \E a \in Assignments : S = {a} /\ Extended(a) \in Models(q.cs)
    BY <1>2, AssignmentFacts
<1>4. Answers(O, V)
    BY <1>2, GetAssignmentAnswers
<1>5. ASSUME NEW S \in V, NEW d, Good(d) PROVE Answers(F(S, d), W)
    <2>1. PICK a \in Assignments : S = {a} /\ Extended(a) \in Models(q.cs)
        BY <1>3
    <2>2. F(S, d) = {Return(Evaluate(q.e, a), d)}
        BY <2>1
    <2>3. Evaluate(q.e, a) \in W
        <3>1. Evaluate(q.e, a) = Holds(q.e, Extended(a))
            BY EvaluateExtended
        <3>2. Holds(q.e, Extended(a)) \in BOOLEAN
            BY DEF Holds
        <3> QED
            BY <2>1, <3>1, <3>2 DEF ValueAnswers
    <2> HIDE DEF F, W
    <2> QED
        BY <1>5, <2>2, <2>3, ReturnAnswers
<1> HIDE DEF O, V, F, W
<1>6. \A p \in CexValue(q, c) : \E o \in O : (o.v = {} /\ p = o) \/ \E v \in o.v : p \in F(v, o.c)
    BY <1>1
<1>7. Answers(CexValue(q, c), W)
    BY <1>4, <1>5, <1>6 DEF Answers
<1> QED
    BY <1>7 DEF W

(* Initial values through the counterexample cache. *)
LEMMA CexInitialAnswers ==
    ASSUME NEW q, Asked(q), NEW A, NEW c, Good(c)
    PROVE  Answers(CexInitialValues(q, A, c), InitialAnswers(q, A))
<1> DEFINE O == getAssignment(q, c)
           V == AssignmentAnswers(q)
           W == InitialAnswers(q, A)
           g(b) == [x \in ElementsOf(A) |-> IF x \in DOMAIN b THEN b[x] ELSE 0]
           F(S, d) == {Return({g(b) : b \in S}, d)}
<1>1. \A p \in CexInitialValues(q, A, c) : \E o \in O :
         p \in IF o.v = {} THEN {o} ELSE UNION {F(v, o.c) : v \in o.v}
    BY Zenon DEF CexInitialValues, Then
<1>2. q \in Queries
    BY DEF Asked
<1>3. Answers(O, V)
    BY GetAssignmentAnswers
<1>4. \A b : g(b) = Restricted(Extended(b), A)
    BY DEF Restricted, Extended, ElementsOf
<1>5. ASSUME NEW S \in V, NEW d, Good(d) PROVE Answers(F(S, d), W)
    <2>1. \/ S = {} /\ Refuting(q) = {}
          \/ \E a \in Assignments : S = {a} /\ Extended(a) \in Refuting(q)
        BY <1>2, AssignmentFacts
    <2> HIDE DEF g
    <2>2. {g(b) : b \in S} \in W
        <3>1. CASE S = {} /\ Refuting(q) = {}
            BY <3>1 DEF InitialAnswers
        <3>2. ASSUME NEW a \in Assignments, S = {a}, Extended(a) \in Refuting(q)
              PROVE  {g(b) : b \in S} \in W
            <4>1. {g(b) : b \in S} = {Restricted(Extended(a), A)}
                BY <1>4, <3>2
            <4> QED
                BY <3>2, <4>1 DEF InitialAnswers
        <3> QED
            BY <2>1, <3>1, <3>2
    <2> DEFINE r == {g(b) : b \in S}
    <2> HIDE DEF W, r
    <2>3. Answers({Return(r, d)}, W)
        BY <1>5, <2>2, ReturnAnswers DEF r
    <2> QED
        BY <2>3 DEF r
<1> HIDE DEF O, V, F, W
<1>6. \A p \in CexInitialValues(q, A, c) : \E o \in O :
         (o.v = {} /\ p = o) \/ \E v \in o.v : p \in F(v, o.c)
    BY <1>1
<1>7. Answers(CexInitialValues(q, A, c), W)
    BY <1>3, <1>5, <1>6 DEF Answers
<1> QED
    BY <1>7 DEF W

(***************************************************************************)
(* CachingSolver.                                                          *)
(***************************************************************************)
LEMMA BelowTruthAnswers ==
    ASSUME NEW q, Asked(q), NEW c, Good(c)
    PROVE  Answers(BelowTruth(q, c), TruthAnswers(q))
BY CexTruthAnswers, StagedTruthAnswers DEF BelowTruth

(* Validity below the branch cache. *)
LEMMA BelowValidityAnswers ==
    ASSUME NEW q, Asked(q), NEW c, Good(c)
    PROVE  Answers(BelowValidity(q, c), {ValidityOf(q)})
BY CexValidityAnswers, StagedValidityAnswers DEF BelowValidity

(* The entries of the branch cache. *)
PartialValidities == {"MustBeTrue", "MustBeFalse", "MayBeTrue", "MayBeFalse", "TrueOrFalse"}

(* What is known of an expression, said of its solutions. *)
LEMMA BranchFacts ==
    ASSUME NEW C, NEW e, NEW pv
    PROVE  BranchFact(C, e, pv) <=>
              \/ pv = "MustBeTrue" /\ \A m \in Models(C) : Holds(e, m)
              \/ pv = "MustBeFalse" /\ \A m \in Models(C) : ~Holds(e, m)
              \/ pv = "MayBeTrue" /\ \E m \in Models(C) : Holds(e, m)
              \/ pv = "MayBeFalse" /\ \E m \in Models(C) : ~Holds(e, m)
              \/ /\ pv = "TrueOrFalse"
                 /\ \E m \in Models(C) : Holds(e, m)
                 /\ \E m \in Models(C) : ~Holds(e, m)
BY DEF BranchFact

(* What is known of a query tells what is known of its negation. *)
LEMMA NegatedFact ==
    ASSUME NEW C, NEW e \in Exprs, NEW pv, BranchFact(C, e, pv)
    PROVE  BranchFact(C, Negate(e), negatePartialValidity(pv))
<1>1. \A m : Holds(Negate(e), m) <=> ~Holds(e, m)
    BY NegateHolds
<1>2. /\ negatePartialValidity("MustBeTrue") = "MustBeFalse"
      /\ negatePartialValidity("MustBeFalse") = "MustBeTrue"
      /\ negatePartialValidity("MayBeTrue") = "MayBeFalse"
      /\ negatePartialValidity("MayBeFalse") = "MayBeTrue"
      /\ negatePartialValidity("TrueOrFalse") = "TrueOrFalse"
    BY DEF negatePartialValidity
<1> QED
    BY <1>1, <1>2, BranchFacts

(* An entry stands for the query and for its negation. *)
LEMMA CanonicalOf ==
    ASSUME NEW e \in Exprs
    PROVE  /\ ~negationUsed(e) => Canonical(e) = e
           /\ negationUsed(e) => Canonical(e) = Negate(e) /\ Negate(Canonical(e)) = e /\ Canonical(e) \in Exprs
<1>1. Canonical(e) = WithNeg(e, FALSE)
    BY DEF Canonical, WithNeg
<1>2. /\ Canonical(e) \in Exprs /\ Canonical(e).l = e.l /\ Canonical(e).r = e.r
      /\ Canonical(e).neg = FALSE
    BY <1>1, WithNegParts
<1>3. ~e.neg => Canonical(e) = e
    BY <1>2, SameExpr
<1>4. e.neg => Canonical(e) = Negate(e)
    BY <1>2, SameExpr, NegateHolds, ExprParts
<1> QED
    BY <1>2, <1>3, <1>4, NegateHolds DEF negationUsed

(* A hit is true of the query, in the polarity it is asked in. *)
LEMMA CacheLookupHolds ==
    ASSUME NEW q \in Queries, NEW c, Good(c)
    PROVE  \/ cacheLookup(q, c) = {}
           \/ \E pv \in PartialValidities : cacheLookup(q, c) = {pv} /\ BranchFact(q.cs, q.e, pv)
<1> DEFINE k == Entry(q)
           pv == c.branch[k]
<1>1. CASE k \notin DOMAIN c.branch
    BY <1>1 DEF cacheLookup
<1>2. CASE k \in DOMAIN c.branch
    <2>1. q.e \in Exprs /\ k[1] = q.cs /\ k[2] = Canonical(q.e)
        BY QueryParts DEF Entry
    <2>2. cacheLookup(q, c) = {IF negationUsed(q.e) THEN negatePartialValidity(pv) ELSE pv}
        BY <1>2 DEF cacheLookup
    <2>3. BranchFact(q.cs, Canonical(q.e), pv)
        BY <1>2, <2>1 DEF Good
    <2> HIDE DEF k, pv
    <2>4. ASSUME NEW x, BranchFact(q.cs, q.e, x) PROVE x \in PartialValidities
        BY <2>4, BranchFacts DEF PartialValidities
    <2>5. CASE negationUsed(q.e)
        <3>1. BranchFact(q.cs, q.e, negatePartialValidity(pv))
            BY <2>1, <2>3, <2>5, CanonicalOf, NegatedFact
        <3> QED
            BY <2>2, <2>4, <2>5, <3>1
    <2>6. CASE ~negationUsed(q.e)
        BY <2>1, <2>2, <2>3, <2>4, <2>6, CanonicalOf
    <2> QED
        BY <2>5, <2>6
<1> QED
    BY <1>1, <1>2

(* The branch cache with an entry. *)
WithBranch(c, k, pv) == [c EXCEPT !.branch = Inserted(@, k, pv)]

(* A true entry keeps the cache true. *)
LEMMA BranchInserted ==
    ASSUME NEW c, Good(c), NEW k, NEW pv, BranchFact(k[1], k[2], pv)
    PROVE  Good(WithBranch(c, k, pv))
<1> DEFINE f == WithBranch(c, k, pv)
           I == Inserted(c.branch, k, pv)
<1>1. /\ DOMAIN f = DOMAIN c /\ f.failed = c.failed /\ f.aborted = c.aborted
      /\ f.table = c.table /\ f.cex = c.cex /\ f.branch = I
    BY DEF Good, WithBranch
<1>2. \A x \in DOMAIN I : BranchFact(x[1], x[2], I[x])
    BY DEF Inserted, Good
<1> HIDE DEF f, I
<1>3. Good(f)
    BY <1>1, <1>2 DEF Good
<1> QED
    BY <1>3 DEF f

(* What is true of the query is entered in the canonical polarity. *)
LEMMA CacheInsertHolds ==
    ASSUME NEW q \in Queries, NEW c, Good(c), NEW pv, BranchFact(q.cs, q.e, pv)
    PROVE  Good(cacheInsert(q, pv, c))
<1> DEFINE k == Entry(q)
           x == IF negationUsed(q.e) THEN negatePartialValidity(pv) ELSE pv
<1>1. q.e \in Exprs /\ k[1] = q.cs /\ k[2] = Canonical(q.e)
    BY QueryParts DEF Entry
<1>2. cacheInsert(q, pv, c) = WithBranch(c, k, x)
    BY Zenon DEF cacheInsert, WithBranch
<1>3. BranchFact(q.cs, Canonical(q.e), x)
    <2>1. CASE negationUsed(q.e)
        <3>1. BranchFact(q.cs, Negate(q.e), negatePartialValidity(pv))
            BY <1>1, NegatedFact
        <3> QED
            BY <1>1, <2>1, <3>1, CanonicalOf
    <2>2. CASE ~negationUsed(q.e)
        BY <1>1, <2>2, CanonicalOf
    <2> QED
        BY <2>1, <2>2
<1> HIDE DEF k, x
<1> QED
    BY <1>1, <1>2, <1>3, BranchInserted

(* What an answer says about the solutions. *)
LEMMA AnswerFacts ==
    ASSUME NEW q, Asked(q)
    PROVE  /\ Refuting(q) = {} => ValidityOf(q) = "True" /\ BranchFact(q.cs, q.e, "MustBeTrue")
           /\ Refuting(negateExpr(q)) = {} =>
                 /\ Refuting(q) # {}
                 /\ ValidityOf(q) = "False" /\ BranchFact(q.cs, q.e, "MustBeFalse")
           /\ Refuting(q) # {} => BranchFact(q.cs, q.e, "MayBeFalse")
           /\ Refuting(q) # {} /\ Refuting(negateExpr(q)) # {} =>
                 ValidityOf(q) = "Unknown" /\ BranchFact(q.cs, q.e, "TrueOrFalse")
           /\ BranchFact(q.cs, q.e, "MustBeTrue") => Refuting(q) = {}
           /\ BranchFact(q.cs, q.e, "MustBeFalse") => Refuting(negateExpr(q)) = {}
           /\ BranchFact(q.cs, q.e, "MayBeTrue") => Refuting(negateExpr(q)) # {}
           /\ BranchFact(q.cs, q.e, "MayBeFalse") => Refuting(q) # {}
           /\ BranchFact(q.cs, q.e, "TrueOrFalse") => Refuting(q) # {} /\ Refuting(negateExpr(q)) # {}
<1>1. q \in Queries /\ Models(q.cs) # {}
    BY DEF Asked
<1>2. /\ Refuting(q) = {} <=> \A m \in Models(q.cs) : Holds(q.e, m)
      /\ Refuting(negateExpr(q)) = {} <=> \A m \in Models(q.cs) : ~Holds(q.e, m)
    BY <1>1, ValidityFacts
<1> QED
    BY <1>1, <1>2, BranchFacts DEF ValidityOf

(* A second question settles what the entry leaves open. *)
LEMMA SettleAnswers ==
    ASSUME NEW q, Asked(q), NEW asked, Asked(asked), NEW c, Good(c), NEW proved, NEW validity,
           Refuting(asked) = {} => ValidityOf(q) = validity /\ BranchFact(q.cs, q.e, proved),
           Refuting(asked) # {} => ValidityOf(q) = "Unknown" /\ BranchFact(q.cs, q.e, "TrueOrFalse")
    PROVE  Answers(Settle(q, asked, proved, validity, c), {ValidityOf(q)})
<1> DEFINE O == BelowTruth(asked, c)
           V == TruthAnswers(asked)
           W == {ValidityOf(q)}
           X == Settle(q, asked, proved, validity, c)
           F(b, d) == {IF b THEN Return(validity, cacheInsert(q, proved, d))
                            ELSE Return("Unknown", cacheInsert(q, "TrueOrFalse", d))}
<1>1. \A p \in X : \E o \in O : p \in IF o.v = {} THEN {o} ELSE UNION {F(v, o.c) : v \in o.v}
    BY Zenon DEF Settle, Then
<1>2. q \in Queries
    BY DEF Asked
<1>3. Answers(O, V)
    BY BelowTruthAnswers
<1>4. ASSUME NEW b \in V, NEW d, Good(d) PROVE Answers(F(b, d), W)
    <2>1. b \in BOOLEAN /\ (b <=> Refuting(asked) = {})
        BY DEF TruthAnswers
    <2>2. CASE b = TRUE
        <3>1. Good(cacheInsert(q, proved, d)) /\ validity \in W
            BY <1>2, <1>4, <2>1, <2>2, CacheInsertHolds
        <3>2. F(b, d) = {Return(validity, cacheInsert(q, proved, d))}
            BY <2>2
        <3> HIDE DEF W, F
        <3> QED
            BY <3>1, <3>2, ReturnAnswers
    <2>3. CASE b = FALSE
        <3>1. Good(cacheInsert(q, "TrueOrFalse", d)) /\ "Unknown" \in W
            BY <1>2, <1>4, <2>1, <2>3, CacheInsertHolds
        <3>2. F(b, d) = {Return("Unknown", cacheInsert(q, "TrueOrFalse", d))}
            BY <2>3
        <3> HIDE DEF W, F
        <3> QED
            BY <3>1, <3>2, ReturnAnswers
    <2> HIDE DEF F
    <2> QED
        BY <2>1, <2>2, <2>3
<1> HIDE DEF O, V, W, F, X
<1>5. \A v \in V : \A d : Good(d) => Answers(F(v, d), W)
    BY <1>4
<1>6. \A p \in X : \E o \in O : (o.v = {} /\ p = o) \/ \E v \in o.v : p \in F(v, o.c)
    BY <1>1
<1>7. Answers(X, W)
    BY <1>3, <1>5, <1>6 DEF Answers
<1> QED
    BY <1>7 DEF W, X

(* The branch cache answers as the solver below. *)
LEMMA BranchValidityAnswers ==
    ASSUME NEW q, Asked(q), NEW c, Good(c)
    PROVE  Answers(BranchValidity(q, c), {ValidityOf(q)})
<1> DEFINE hit == cacheLookup(q, c)
           n == negateExpr(q)
           W == {ValidityOf(q)}
           O == BelowValidity(q, c)
           pv(v) == CASE v = "True" -> "MustBeTrue" [] v = "False" -> "MustBeFalse" [] OTHER -> "TrueOrFalse"
           F(v, d) == {Return(v, cacheInsert(q, pv(v), d))}
           X == Then(O, LAMBDA v, d : {Return(v, cacheInsert(q, CASE v = "True" -> "MustBeTrue"
                                                                  [] v = "False" -> "MustBeFalse"
                                                                  [] OTHER -> "TrueOrFalse", d))})
<1>1. BranchValidity(q, c) =
        CASE hit = {"MustBeTrue"}  -> {Return("True", c)}
          [] hit = {"MustBeFalse"} -> {Return("False", c)}
          [] hit = {"TrueOrFalse"} -> {Return("Unknown", c)}
          [] hit = {"MayBeTrue"}   -> Settle(q, q, "MustBeTrue", "True", c)
          [] hit = {"MayBeFalse"}  -> Settle(q, n, "MustBeFalse", "False", c)
          [] OTHER -> X
    BY Zenon DEF BranchValidity
<1>2. \A p \in X : \E o \in O : p \in IF o.v = {} THEN {o} ELSE UNION {F(v, o.c) : v \in o.v}
    BY Zenon DEF Then
<1>3. pv("True") = "MustBeTrue" /\ pv("False") = "MustBeFalse" /\ pv("Unknown") = "TrueOrFalse"
    OBVIOUS
<1> HIDE DEF X, pv
<1>4. q \in Queries /\ Asked(n)
    BY AskedDerived DEF Asked
<1>5. /\ Refuting(q) = {} => ValidityOf(q) = "True" /\ BranchFact(q.cs, q.e, "MustBeTrue")
      /\ Refuting(n) = {} =>
            /\ Refuting(q) # {}
            /\ ValidityOf(q) = "False" /\ BranchFact(q.cs, q.e, "MustBeFalse")
      /\ Refuting(q) # {} /\ Refuting(n) # {} =>
            ValidityOf(q) = "Unknown" /\ BranchFact(q.cs, q.e, "TrueOrFalse")
      /\ BranchFact(q.cs, q.e, "MustBeTrue") => Refuting(q) = {}
      /\ BranchFact(q.cs, q.e, "MustBeFalse") => Refuting(n) = {}
      /\ BranchFact(q.cs, q.e, "MayBeTrue") => Refuting(n) # {}
      /\ BranchFact(q.cs, q.e, "MayBeFalse") => Refuting(q) # {}
      /\ BranchFact(q.cs, q.e, "TrueOrFalse") => Refuting(q) # {} /\ Refuting(n) # {}
    BY AnswerFacts
<1>6. \/ hit = {}
      \/ \E x \in PartialValidities : hit = {x} /\ BranchFact(q.cs, q.e, x)
    BY <1>4, CacheLookupHolds
<1> HIDE DEF n, hit
<1>7. ASSUME NEW v \in W, NEW d, Good(d) PROVE Answers(F(v, d), W)
    <2>1. BranchFact(q.cs, q.e, pv(v))
        BY <1>3, <1>5
    <2>2. Good(cacheInsert(q, pv(v), d))
        BY <1>4, <1>7, <2>1, CacheInsertHolds
    <2> HIDE DEF W
    <2> QED
        BY <1>7, <2>2, ReturnAnswers
<1>8. Answers(O, W)
    BY BelowValidityAnswers
<1>9. /\ hit = {"MustBeTrue"} => "True" \in W
      /\ hit = {"MustBeFalse"} => "False" \in W
      /\ hit = {"TrueOrFalse"} => "Unknown" \in W
    BY <1>5, <1>6
<1>10. hit = {"MayBeTrue"} => Answers(Settle(q, q, "MustBeTrue", "True", c), W)
    BY <1>5, <1>6, SettleAnswers
<1>11. hit = {"MayBeFalse"} => Answers(Settle(q, n, "MustBeFalse", "False", c), W)
    BY <1>4, <1>5, <1>6, SettleAnswers
<1> HIDE DEF O, W, F
<1>12. Answers(X, W)
    <2>1. \A v \in W : \A d : Good(d) => Answers(F(v, d), W)
        BY <1>7
    <2>2. \A p \in X : \E o \in O : (o.v = {} /\ p = o) \/ \E v \in o.v : p \in F(v, o.c)
        BY <1>2
    <2> QED
        BY <1>8, <2>1, <2>2 DEF Answers
<1>13. \A v \in W : Answers({Return(v, c)}, W)
    BY ReturnAnswers
<1>14. \/ hit = {} \/ hit = {"MustBeTrue"} \/ hit = {"MustBeFalse"} \/ hit = {"TrueOrFalse"}
       \/ hit = {"MayBeTrue"} \/ hit = {"MayBeFalse"}
    BY <1>6 DEF PartialValidities
<1>15. Answers(BranchValidity(q, c), W)
    BY <1>1, <1>9, <1>10, <1>11, <1>12, <1>13, <1>14
<1> QED
    BY <1>15 DEF W

(* Truth through the branch cache. *)
LEMMA BranchTruthAnswers ==
    ASSUME NEW q, Asked(q), NEW c, Good(c)
    PROVE  Answers(BranchTruth(q, c), TruthAnswers(q))
<1> DEFINE hit == cacheLookup(q, c)
           n == negateExpr(q)
           W == TruthAnswers(q)
           O == BelowTruth(q, c)
           pv(b) == IF b THEN "MustBeTrue" ELSE IF hit = {} THEN "MayBeFalse" ELSE "TrueOrFalse"
           F(b, d) == {Return(b, cacheInsert(q, pv(b), d))}
           X == Then(O, LAMBDA b, d : {Return(b, cacheInsert(q, IF b THEN "MustBeTrue"
                                          ELSE IF hit = {} THEN "MayBeFalse" ELSE "TrueOrFalse", d))})
<1>1. BranchTruth(q, c) = IF hit \notin {{}, {"MayBeTrue"}} THEN {Return(hit = {"MustBeTrue"}, c)} ELSE X
    BY Zenon DEF BranchTruth
<1>2. \A p \in X : \E o \in O : p \in IF o.v = {} THEN {o} ELSE UNION {F(v, o.c) : v \in o.v}
    BY Zenon DEF Then
<1> HIDE DEF X
<1>3. q \in Queries
    BY DEF Asked
<1>4. /\ Refuting(q) = {} => BranchFact(q.cs, q.e, "MustBeTrue")
      /\ Refuting(n) = {} => Refuting(q) # {}
      /\ Refuting(q) # {} => BranchFact(q.cs, q.e, "MayBeFalse")
      /\ Refuting(q) # {} /\ Refuting(n) # {} => BranchFact(q.cs, q.e, "TrueOrFalse")
      /\ BranchFact(q.cs, q.e, "MustBeTrue") => Refuting(q) = {}
      /\ BranchFact(q.cs, q.e, "MustBeFalse") => Refuting(n) = {}
      /\ BranchFact(q.cs, q.e, "MayBeTrue") => Refuting(n) # {}
      /\ BranchFact(q.cs, q.e, "MayBeFalse") => Refuting(q) # {}
      /\ BranchFact(q.cs, q.e, "TrueOrFalse") => Refuting(q) # {} /\ Refuting(n) # {}
    BY AnswerFacts
<1>5. \/ hit = {}
      \/ \E x \in PartialValidities : hit = {x} /\ BranchFact(q.cs, q.e, x)
    BY <1>3, CacheLookupHolds
<1> HIDE DEF n, hit
<1>6. \A b \in W : b \in BOOLEAN /\ (b <=> Refuting(q) = {})
    BY DEF TruthAnswers
<1>7. CASE hit \notin {{}, {"MayBeTrue"}}
    <2>1. hit = {"MustBeTrue"} <=> Refuting(q) = {}
        BY <1>4, <1>5, <1>7 DEF PartialValidities
    <2>2. (hit = {"MustBeTrue"}) \in W
        BY <2>1 DEF TruthAnswers
    <2>3. BranchTruth(q, c) = {Return(hit = {"MustBeTrue"}, c)}
        BY <1>1, <1>7
    <2> HIDE DEF W
    <2>4. Answers({Return(hit = {"MustBeTrue"}, c)}, W)
        BY <2>2, ReturnAnswers
    <2> QED
        BY <2>3, <2>4 DEF W
<1>8. CASE hit \in {{}, {"MayBeTrue"}}
    <2>1. ASSUME NEW b \in W, NEW d, Good(d) PROVE Answers(F(b, d), W)
        <3>1. BranchFact(q.cs, q.e, pv(b))
            BY <1>4, <1>5, <1>6, <1>8
        <3> HIDE DEF pv
        <3>2. Good(cacheInsert(q, pv(b), d))
            BY <1>3, <2>1, <3>1, CacheInsertHolds
        <3> HIDE DEF W
        <3> QED
            BY <2>1, <3>2, ReturnAnswers
    <2>2. Answers(O, W)
        BY BelowTruthAnswers
    <2> HIDE DEF O, W, F
    <2>3. \A v \in W : \A d : Good(d) => Answers(F(v, d), W)
        BY <2>1
    <2>4. \A p \in X : \E o \in O : (o.v = {} /\ p = o) \/ \E v \in o.v : p \in F(v, o.c)
        BY <1>2
    <2>5. Answers(X, W)
        BY <2>2, <2>3, <2>4 DEF Answers
    <2> QED
        BY <1>1, <1>8, <2>5 DEF W
<1> QED
    BY <1>7, <1>8

(***************************************************************************)
(* IndependentSolver.                                                      *)
(***************************************************************************)
LEMMA NextTruthAnswers ==
    ASSUME NEW q, Asked(q), NEW c, Good(c)
    PROVE  Answers(NextTruth(q, c), TruthAnswers(q))
BY BranchTruthAnswers, BelowTruthAnswers DEF NextTruth

(* Validity below the IndependentSolver. *)
LEMMA NextValidityAnswers ==
    ASSUME NEW q, Asked(q), NEW c, Good(c)
    PROVE  Answers(NextValidity(q, c), {ValidityOf(q)})
BY BranchValidityAnswers, BelowValidityAnswers DEF NextValidity

(* A value below the IndependentSolver. *)
LEMMA NextValueAnswers ==
    ASSUME NEW q, Asked(q), NEW c, Good(c)
    PROVE  Answers(NextValue(q, c), ValueAnswers(q))
BY CexValueAnswers, StagedValueAnswers DEF NextValue

(* Initial values below the IndependentSolver. *)
LEMMA NextInitialAnswers ==
    ASSUME NEW q, Asked(q), NEW A, NEW c, Good(c)
    PROVE  Answers(NextInitialValues(q, A, c), InitialAnswers(q, A))
BY CexInitialAnswers, StagedInitialAnswers DEF NextInitialValues

(* A set of bytes that no constraint crosses. *)
Closed(K, Z) == \A e \in K : Reads(e) \cap Z # {} => Reads(e) \subseteq Z

(* One more step towards it. *)
Grown(K, Y) == Y \cup UNION {Reads(e) : e \in Sharing(K, Y)}

(* Cardinality(K) steps are enough: until the set is closed, each of them  *)
(* reaches another constraint.                                             *)
LEMMA IndependentClosed ==
    ASSUME NEW K \in SUBSET Exprs, NEW X \in SUBSET Elements
    PROVE  \E Z \in SUBSET Elements :
              X \subseteq Z /\ Closed(K, Z) /\ getIndependentConstraints(K, X) = Sharing(K, Z)
<1> DEFINE N == Cardinality(K)
           T == {Y \in SUBSET Elements : X \subseteq Y}
           F(W) == [n \in 0 .. N |-> IF n = 0 THEN X ELSE Grown(K, W[n - 1])]
           V == CHOOSE W : W = F(W)
<1>1. IsFiniteSet(K) /\ N \in Nat
    BY ExprsFinite, FS_Subset, FS_CardinalityType
<1>2. X \in T /\ \A Y \in T : Grown(K, Y) \in T
    BY DEF Grown, Reads
<1>3. getIndependentConstraints(K, X) = Sharing(K, V[N])
    BY Zenon DEF getIndependentConstraints, Grown
<1> HIDE DEF T
<1>4. PICK f : f = F(f)
    <2> HIDE DEF N
    <2> DEFINE G == [n \in 1 .. N |-> [Y \in T |-> Grown(K, Y)]]
    <2>1. PICK f : Follows(f, T, X, N, G)
        <3>1. G \in Steps(N, T)
            BY <1>2 DEF Steps
        <3> HIDE DEF G
        <3> QED
            BY <1>1, <1>2, <3>1, Recursion
    <2>2. \A n \in 1 .. N : f[n - 1] \in T
        BY <1>1, <2>1 DEF Follows
    <2>3. \A n \in 1 .. N : f[n] = Grown(K, f[n - 1])
        BY <2>1, <2>2 DEF Follows
    <2>4. f = F(f)
        BY <1>1, <2>1, <2>3 DEF Follows
    <2> QED
        BY <2>4
<1>5. V = F(V)
    <2> HIDE DEF F
    <2> QED
        BY <1>4
<1> HIDE DEF V
<1>6. V[0] = X /\ \A n \in 1 .. N : V[n] = Grown(K, V[n - 1])
    BY <1>1, <1>5
<1>7. \A n \in 0 .. N : V[n] \in T
    <2> HIDE DEF N
    <2>1. \A n \in 1 .. N : V[n - 1] \in T => V[n] \in T
        BY <1>2, <1>6
    <2> QED
        BY <1>1, <1>2, <1>6, <2>1, RecursionKeeps
<1>8. \A Y : IsFiniteSet(Sharing(K, Y)) /\ Cardinality(Sharing(K, Y)) \in Nat /\ Cardinality(Sharing(K, Y)) <= N
    <2>1. ASSUME NEW Y PROVE IsFiniteSet(Sharing(K, Y)) /\ Cardinality(Sharing(K, Y)) <= N
        BY <1>1, FS_Subset DEF Sharing
    <2> QED
        BY <2>1, FS_CardinalityType
<1> DEFINE R(Y, n) == Closed(K, Y) \/ Cardinality(Sharing(K, Y)) >= n + 1
           S == {n \in 0 .. N : R(V[n], n)}
<1>9. ASSUME NEW Y PROVE R(Y, 0)
    <2>1. CASE Sharing(K, Y) = {}
        BY <2>1 DEF Sharing, Closed
    <2>2. CASE Sharing(K, Y) # {}
        <3>1. Cardinality(Sharing(K, Y)) # 0
            BY <1>8, <2>2, FS_EmptySet
        <3> QED
            BY <1>8, <3>1
    <2> QED
        BY <2>1, <2>2
<1>10. ASSUME NEW Y, NEW n \in Nat, R(Y, n) PROVE R(Grown(K, Y), n + 1)
    <2> DEFINE U == Grown(K, Y)
               A == Sharing(K, Y)
               B == Sharing(K, U)
    <2>1. A \subseteq B /\ \A e \in A : Reads(e) \subseteq U
        BY DEF Grown, Sharing
    <2>2. CASE A = B
        BY <2>1, <2>2 DEF Closed, Sharing
    <2>3. CASE A # B
        <3>1. ~Closed(K, Y)
            <4>1. Closed(K, Y) => U = Y
                BY DEF Closed, Grown, Sharing
            <4> QED
                BY <2>3, <4>1
        <3>2. Cardinality(A) >= n + 1
            BY <1>10, <3>1
        <3>3. /\ IsFiniteSet(A) /\ Cardinality(A) \in Nat
              /\ IsFiniteSet(B) /\ Cardinality(B) \in Nat
            BY <1>8
        <3> HIDE DEF A, B
        <3>4. A \in SUBSET B
            BY <2>1
        <3>5. Cardinality(A) <= Cardinality(B) /\ Cardinality(A) # Cardinality(B)
            BY <2>3, <3>3, <3>4, FS_Subset
        <3>6. Cardinality(B) >= n + 1 + 1
            BY <3>2, <3>3, <3>5
        <3> QED
            BY <3>6 DEF B
    <2> QED
        BY <2>2, <2>3
<1> HIDE DEF R, N
<1>11. 0 \in S
    BY <1>1, <1>9
<1>12. \A n \in 0 .. N - 1 : n \in S => n + 1 \in S
    BY <1>1, <1>6, <1>10
<1> HIDE DEF S
<1>13. N \in S
    <2>1. \A n \in 0 .. N : n \in S
        BY <1>1, <1>11, <1>12, Induction
    <2> QED
        BY <1>1, <2>1
<1>14. Closed(K, V[N])
    BY <1>1, <1>8, <1>13 DEF S, R
<1>15. V[N] \in SUBSET Elements /\ X \subseteq V[N]
    BY <1>1, <1>7 DEF T
<1> QED
    BY <1>3, <1>14, <1>15

(* Solutions on either side of a closed set make one of the whole. *)
Glued(Z, m, n) == [x \in Elements |-> IF x \in Z THEN m[x] ELSE n[x]]

(* A solution of the constraints that share elements with a closed set,    *)
(* and one of all constraints elsewhere, make a solution of all.           *)
LEMMA Glue ==
    ASSUME NEW K \in SUBSET Exprs, NEW Z, Closed(K, Z),
           NEW m \in Models(Sharing(K, Z)), NEW n \in Models(K)
    PROVE  Glued(Z, m, n) \in Models(K) /\ \A x \in Elements : x \in Z => Glued(Z, m, n)[x] = m[x]
<1> DEFINE g == Glued(Z, m, n)
<1>1. m \in Valuations /\ n \in Valuations
    BY ModelsFact
<1>2. g \in Valuations /\ \A x \in Elements : g[x] = IF x \in Z THEN m[x] ELSE n[x]
    BY <1>1 DEF Glued, Valuations
<1> HIDE DEF g
<1>3. ASSUME NEW e \in K PROVE Holds(e, g)
    <2>1. e \in Exprs /\ Reads(e) \subseteq Elements
        BY DEF Reads
    <2>2. CASE Reads(e) \cap Z # {}
        <3>1. Reads(e) \subseteq Z /\ e \in Sharing(K, Z)
            BY <2>2 DEF Closed, Sharing
        <3>2. Holds(e, m)
            BY <3>1, ModelsFact
        <3>3. \A x \in Reads(e) : g[x] = m[x]
            BY <1>2, <2>1, <3>1
        <3> QED
            BY <2>1, <3>2, <3>3, HoldsReads
    <2>3. CASE Reads(e) \cap Z = {}
        <3>1. Holds(e, n)
            BY ModelsFact
        <3>2. \A x \in Reads(e) : g[x] = n[x]
            BY <1>2, <2>1, <2>3
        <3> QED
            BY <2>1, <3>1, <3>2, HoldsReads
    <2> QED
        BY <2>2, <2>3
<1>4. g \in Models(K)
    BY <1>2, <1>3, ModelsFact
<1> QED
    BY <1>2, <1>4 DEF g

(* The constraints that a query does not depend on do not matter. *)
LEMMA IndependentSame ==
    ASSUME NEW q, Asked(q)
    PROVE  /\ Asked(Independent(q))
           /\ TruthAnswers(Independent(q)) = TruthAnswers(q)
           /\ ValidityOf(Independent(q)) = ValidityOf(q)
           /\ ValueAnswers(Independent(q)) \subseteq ValueAnswers(q)
<1> DEFINE K == q.cs
           e == q.e
           I == getIndependentConstraints(K, Reads(e))
           r == Independent(q)
<1>1. q \in Queries /\ K \in SUBSET Exprs /\ e \in Exprs /\ Models(K) # {} /\ Free(K, e)
    BY QueryParts DEF Asked
<1>2. CASE ~options.independent
    BY <1>2 DEF Independent
<1>3. CASE options.independent
    <2>1. r = Query(I, e)
        BY <1>3 DEF Independent
    <2>2. Reads(e) \in SUBSET Elements
        BY DEF Reads
    <2>3. PICK Z \in SUBSET Elements : Reads(e) \subseteq Z /\ Closed(K, Z) /\ I = Sharing(K, Z)
        BY <1>1, <2>2, IndependentClosed
    <2> HIDE DEF I, r, K, e
    <2>4. I \subseteq K
        BY <2>3 DEF Sharing
    <2>5. r \in Queries /\ r.cs = I /\ r.e = e
        BY <1>1, <2>1, <2>4, QueryFields
    <2>6. Models(K) \subseteq Models(I)
        BY <2>4, ModelsMonotone
    <2>7. Free(I, e)
        BY <1>1, <2>4 DEF Free, Equalities
    <2>8. Asked(r)
        BY <1>1, <2>5, <2>6, <2>7 DEF Asked
    <2>9. ASSUME NEW m \in Models(I) PROVE \E g \in Models(K) : Holds(e, g) <=> Holds(e, m)
        <3>1. PICK n \in Models(K) : TRUE
            BY <1>1
        <3>2. Glued(Z, m, n) \in Models(K) /\ \A x \in Elements : x \in Z => Glued(Z, m, n)[x] = m[x]
            BY <1>1, <2>3, Glue
        <3>3. \A x \in Reads(e) : Glued(Z, m, n)[x] = m[x]
            BY <2>3, <3>2
        <3>4. Holds(e, Glued(Z, m, n)) <=> Holds(e, m)
            BY <1>1, <3>3, HoldsReads
        <3> QED
            BY <3>2, <3>4
    <2>10. /\ (\A m \in Models(K) : Holds(e, m)) <=> (\A m \in Models(I) : Holds(e, m))
           /\ (\A m \in Models(K) : ~Holds(e, m)) <=> (\A m \in Models(I) : ~Holds(e, m))
        BY <2>6, <2>9
    <2>11. /\ Refuting(q) = {} <=> \A m \in Models(K) : Holds(e, m)
           /\ Refuting(negateExpr(q)) = {} <=> \A m \in Models(K) : ~Holds(e, m)
        BY <1>1, ValidityFacts DEF K, e
    <2>12. /\ Refuting(r) = {} <=> \A m \in Models(I) : Holds(e, m)
           /\ Refuting(negateExpr(r)) = {} <=> \A m \in Models(I) : ~Holds(e, m)
        BY <2>5, ValidityFacts
    <2>13. TruthAnswers(r) = TruthAnswers(q)
        BY <2>10, <2>11, <2>12 DEF TruthAnswers
    <2>14. ValidityOf(r) = ValidityOf(q)
        BY <2>10, <2>11, <2>12 DEF ValidityOf
    <2>15. ValueAnswers(r) \subseteq ValueAnswers(q)
        BY <2>5, <2>9 DEF ValueAnswers, K, e
    <2> QED
        BY <2>8, <2>13, <2>14, <2>15 DEF r
<1> QED
    BY <1>2, <1>3

(* An assignment that settles a set of constraints. *)
Done(r, K) == Extended(r) \in Models(K) /\ \A e \in K : Reads(e) \subseteq DOMAIN r

(* The values of a factor are placed among those of the factors before it. *)
LEMMA PlaceDone ==
    ASSUME NEW K \in SUBSET Exprs, NEW Z, Closed(K, Z), NEW f, f = Sharing(K, Z),
           NEW m \in Models(f), NEW r \in Assignments, NEW v, v = Restricted(m, ArraysOf(f))
    PROVE  /\ Place(r, v, f) \in Assignments /\ Done(Place(r, v, f), f)
           /\ \A g \in SUBSET K : Done(r, g) => Done(Place(r, v, f), g)
<1> DEFINE R == UNION {Reads(e) : e \in f}
           p == Place(r, v, f)
           A == ElementsOf(ArraysOf(f))
<1>1. PICK X \in SUBSET Elements : r \in [X -> 0 .. MaxByte]
    BY DEF Assignments
<1>2. m \in Valuations /\ f \subseteq K
    BY ModelsFact DEF Sharing
<1>3. R \subseteq A /\ A \subseteq Elements
    BY ReadsOfArrays DEF ElementsOf
<1>4. v \in [A -> 0 .. MaxByte] /\ \A x \in A : v[x] = m[x]
    BY <1>2, <1>3 DEF Restricted, Valuations
<1>5. p = [x \in DOMAIN r \cup DOMAIN v |->
             IF x \in DOMAIN v /\ (x \notin DOMAIN r \/ x \in R) THEN v[x] ELSE r[x]]
    BY DEF Place
<1> HIDE DEF p, A, R
<1>6. p \in [X \cup A -> 0 .. MaxByte] /\ (\A x \in R : p[x] = m[x]) /\ \A x \in X \ R : p[x] = r[x]
    BY <1>1, <1>3, <1>4, <1>5
<1>7. p \in Assignments /\ DOMAIN p = X \cup A /\ DOMAIN r = X
    BY <1>1, <1>3, <1>6 DEF Assignments
<1>8. Extended(p) \in Valuations
    BY <1>7, ExtendedTyped
<1>9. /\ \A x \in R : Extended(p)[x] = m[x]
      /\ \A x \in X \ R : Extended(p)[x] = Extended(r)[x]
    BY <1>1, <1>3, <1>6, <1>7 DEF Extended
<1>10. \A e \in f : Reads(e) \subseteq R
    BY DEF R
<1>11. ASSUME NEW e \in f PROVE Holds(e, Extended(p)) /\ Reads(e) \subseteq DOMAIN p
    <2>1. Holds(e, m) /\ e \in Exprs
        BY <1>2, ModelsFact
    <2>2. \A x \in Reads(e) : Extended(p)[x] = m[x]
        BY <1>9, <1>10
    <2> QED
        BY <1>3, <1>7, <1>10, <2>1, <2>2, HoldsReads
<1>12. Done(p, f)
    BY <1>8, <1>11, ModelsFact DEF Done
<1>13. ASSUME NEW g \in SUBSET K, Done(r, g) PROVE Done(p, g)
    <2>1. ASSUME NEW e \in g PROVE Holds(e, Extended(p)) /\ Reads(e) \subseteq DOMAIN p
        <3>1. Holds(e, Extended(r)) /\ Reads(e) \subseteq X /\ e \in Exprs /\ e \in K
            BY <1>7, <1>13, ModelsFact DEF Done
        <3>2. CASE e \in f
            BY <1>11, <3>2
        <3>3. CASE e \notin f
            <4>1. Reads(e) \cap R = {}
                <5>1. SUFFICES ASSUME NEW x \in Reads(e), x \in R PROVE FALSE
                    OBVIOUS
                <5>2. PICK h \in f : x \in Reads(h)
                    BY <5>1 DEF R
                <5>3. Reads(h) \subseteq Z
                    BY <1>2 DEF Closed, Sharing
                <5>4. e \in Sharing(K, Z)
                    BY <3>1, <5>1, <5>2, <5>3 DEF Sharing
                <5> QED
                    BY <3>3, <5>4
            <4>2. \A x \in Reads(e) : Extended(p)[x] = Extended(r)[x]
                BY <1>9, <3>1, <4>1
            <4> QED
                BY <1>7, <3>1, <4>2, HoldsReads
        <3> QED
            BY <3>2, <3>3
    <2> QED
        BY <1>8, <2>1, ModelsFact DEF Done
<1> QED
    BY <1>7, <1>12, <1>13 DEF p

(* The assignments that settle the first n factors. *)
Settled(factors, n) == {{r} : r \in {r \in Assignments : \A i \in 1 .. n : Done(r, factors[i])}}

(* One more factor. *)
LEMMA FactorAnswers ==
    ASSUME NEW K \in SUBSET Exprs, Models(K) # {}, NEW Z, Closed(K, Z), NEW f, f = Sharing(K, Z),
           NEW factors, NEW n \in Nat, factors[n + 1] = f, \A i \in 1 .. n : factors[i] \in SUBSET K,
           NEW O, Answers(O, Settled(factors, n))
    PROVE  Answers(FactorValues(O, f), Settled(factors, n + 1))
<1> DEFINE q == Query(f, False)
           A == ArraysOf(f)
           V == Settled(factors, n)
           W == Settled(factors, n + 1)
           G(ret, values, d) == {Return(Placed(ret, values, f), d)}
           Y(ret, c) == Then(NextInitialValues(q, A, c),
                             LAMBDA values, d : {Return(Placed(ret, values, f), d)})
           F(ret, c) == IF ret = {} THEN {Return(ret, c)} ELSE Y(ret, c)
           X == FactorValues(O, f)
<1>1. \A p \in X : \E o \in O : p \in IF o.v = {} THEN {o} ELSE UNION {F(v, o.c) : v \in o.v}
    BY Zenon DEF FactorValues, Then
<1>2. ASSUME NEW ret, NEW c
      PROVE  \A p \in Y(ret, c) : \E o \in NextInitialValues(q, A, c) :
                 (o.v = {} /\ p = o) \/ \E v \in o.v : p \in G(ret, v, o.c)
    <2> DEFINE P == NextInitialValues(q, A, c)
               H(values, d) == {Return(Placed(ret, values, f), d)}
    <2>1. \A p \in Y(ret, c) : \E o \in P : p \in IF o.v = {} THEN {o} ELSE UNION {H(v, o.c) : v \in o.v}
        BY Zenon DEF Then
    <2> HIDE DEF P, H, Y
    <2>2. \A p \in Y(ret, c) : \E o \in P : (o.v = {} /\ p = o) \/ \E v \in o.v : p \in H(v, o.c)
        BY <2>1
    <2> QED
        BY <2>2 DEF P, H
<1> HIDE DEF Y
<1>3. f \in SUBSET Exprs /\ False \in Exprs /\ f \subseteq K
    BY Constants DEF Sharing
<1>4. q \in Queries /\ q.cs = f /\ q.e = False
    BY <1>3, QueryFields
<1> HIDE DEF q
<1>5. Models(K) \subseteq Models(f)
    BY <1>3, ModelsMonotone
<1>6. Asked(q)
    BY <1>4, <1>5, Constants DEF Asked, Free
<1>7. Refuting(q) = Models(f) /\ Models(f) # {}
    <2>1. \A m : m \in Refuting(q) <=> m \in Models(f)
        BY <1>4, RefutingFact, Constants
    <2> QED
        BY <1>5, <2>1
<1>8. ASSUME NEW ret \in V, NEW c, Good(c) PROVE Answers(F(ret, c), W)
    <2>1. PICK r \in Assignments : ret = {r} /\ \A i \in 1 .. n : Done(r, factors[i])
        BY DEF Settled
    <2> DEFINE P == NextInitialValues(q, A, c)
               U == InitialAnswers(q, A)
    <2>2. Answers(P, U)
        BY <1>6, <1>8, NextInitialAnswers
    <2>3. ASSUME NEW values \in U, NEW d, Good(d) PROVE Answers(G(ret, values, d), W)
        <3>1. PICK m \in Models(f) : values = {Restricted(m, A)}
            BY <1>7 DEF InitialAnswers
        <3> DEFINE v == Restricted(m, A)
                   p == Place(r, v, f)
        <3>2. /\ p \in Assignments /\ Done(p, f)
              /\ \A g \in SUBSET K : Done(r, g) => Done(p, g)
            BY PlaceDone
        <3>3. Placed(ret, values, f) = {p}
            BY <2>1, <3>1 DEF Placed
        <3> HIDE DEF p
        <3>4. \A i \in 1 .. n + 1 : Done(p, factors[i])
            <4>1. ASSUME NEW i \in 1 .. n + 1 PROVE Done(p, factors[i])
                <5>1. CASE i = n + 1
                    BY <3>2, <5>1
                <5>2. CASE i # n + 1
                    <6>1. i \in 1 .. n
                        BY <5>2
                    <6> QED
                        BY <2>1, <3>2, <6>1
                <5> QED
                    BY <5>1, <5>2
            <4> QED
                BY <4>1
        <3>5. {p} \in W
            BY <3>2, <3>4 DEF Settled
        <3>6. G(ret, values, d) = {Return({p}, d)}
            BY <3>3
        <3> HIDE DEF W, G
        <3> QED
            BY <2>3, <3>5, <3>6, ReturnAnswers
    <2>4. F(ret, c) = Y(ret, c)
        BY <2>1
    <2> HIDE DEF P, U, W, G
    <2>5. \A p \in Y(ret, c) : \E o \in P : (o.v = {} /\ p = o) \/ \E v \in o.v : p \in G(ret, v, o.c)
        BY <1>2 DEF P
    <2>6. \A v \in U : \A d : Good(d) => Answers(G(ret, v, d), W)
        BY <2>3
    <2>7. Answers(Y(ret, c), W)
        BY <2>2, <2>5, <2>6 DEF Answers
    <2> QED
        BY <2>4, <2>7
<1> HIDE DEF V, W, F, X
<1>9. \A p \in X : \E o \in O : (o.v = {} /\ p = o) \/ \E v \in o.v : p \in F(v, o.c)
    BY <1>1
<1>10. \A v \in V : \A d : Good(d) => Answers(F(v, d), W)
    BY <1>8
<1>11. Answers(X, W)
    BY <1>9, <1>10 DEF Answers, V
<1> QED
    BY <1>11 DEF W, X

(* The factors one after another. *)
LEMMA AllFactorAnswers ==
    ASSUME NEW K \in SUBSET Exprs, Models(K) # {}, NEW factors, NEW c, Good(c),
           factors \in Seq(SUBSET K),
           \A i \in 1 .. Len(factors) : \E Z : Closed(K, Z) /\ factors[i] = Sharing(K, Z)
    PROVE  Answers(AllFactorValues(factors, c), Settled(factors, Len(factors)))
<1> DEFINE N == Len(factors)
           b == {Return({<< >>}, c)}
           A(n, w) == FactorValues(w, factors[n])
           F(W) == [n \in 0 .. N |-> IF n = 0 THEN b ELSE A(n, W[n - 1])]
           V == CHOOSE W : W = F(W)
<1>1. N \in Nat /\ \A i \in 1 .. N : factors[i] \in SUBSET K
    OBVIOUS
<1>2. AllFactorValues(factors, c) = V[N]
    BY Zenon DEF AllFactorValues
<1>3. Answers(b, Settled(factors, 0))
    <2>1. << >> \in [{} -> 0 .. MaxByte]
        OBVIOUS
    <2>2. << >> \in Assignments
        BY <2>1 DEF Assignments
    <2>3. {<< >>} \in Settled(factors, 0)
        BY <2>2 DEF Settled
    <2> QED
        BY <2>3, ReturnAnswers
<1> HIDE DEF N, b, A
<1>4. PICK f : f = F(f)
    <2> DEFINE Ok(k, f) == f = [n \in 0 .. k |-> IF n = 0 THEN b ELSE A(n, f[n - 1])]
               S == {k \in 0 .. N : \E f : Ok(k, f)}
    <2>1. 0 \in S
        <3>1. Ok(0, [n \in 0 .. 0 |-> b])
            OBVIOUS
        <3> HIDE DEF Ok
        <3> QED
            BY <1>1, <3>1
    <2>2. ASSUME NEW k \in 0 .. N - 1, k \in S PROVE k + 1 \in S
        <3>1. PICK f : Ok(k, f)
            BY <2>2
        <3> DEFINE g == [n \in 0 .. k + 1 |-> IF n = k + 1 THEN A(k + 1, f[k]) ELSE f[n]]
        <3>2. \A n \in 0 .. k : g[n] = IF n = 0 THEN b ELSE A(n, g[n - 1])
            <4>1. ASSUME NEW n \in 0 .. k PROVE g[n] = IF n = 0 THEN b ELSE A(n, g[n - 1])
                <5>1. g[n] = f[n] /\ (n # 0 => g[n - 1] = f[n - 1])
                    OBVIOUS
                <5>2. f[n] = IF n = 0 THEN b ELSE A(n, f[n - 1])
                    BY <3>1
                <5> QED
                    BY <5>1, <5>2
            <4> QED
                BY <4>1
        <3>3. g[k + 1] = A(k + 1, g[k + 1 - 1])
            OBVIOUS
        <3>4. Ok(k + 1, g)
            <4>1. \A n \in 0 .. k + 1 : g[n] = IF n = 0 THEN b ELSE A(n, g[n - 1])
                <5>1. k + 1 # 0 /\ \A n \in 0 .. k + 1 : n \in 0 .. k \/ n = k + 1
                    OBVIOUS
                <5> HIDE DEF g
                <5>2. ASSUME NEW n, n = k + 1 PROVE g[n] = IF n = 0 THEN b ELSE A(n, g[n - 1])
                    BY <3>3, <5>1, <5>2
                <5> QED
                    BY <3>2, <5>1, <5>2
            <4>2. DOMAIN g = 0 .. k + 1 /\ g = [n \in 0 .. k + 1 |-> g[n]]
                OBVIOUS
            <4> HIDE DEF g
            <4> QED
                BY <4>1, <4>2
        <3>5. k + 1 \in 0 .. N
            BY <1>1
        <3> HIDE DEF Ok, g
        <3> QED
            BY <3>4, <3>5
    <2>3. N \in S
        <3> HIDE DEF S
        <3>1. \A n \in 0 .. N : n \in S
            BY <1>1, <2>1, <2>2, Induction
        <3> QED
            BY <1>1, <3>1
    <2> QED
        BY <2>3
<1>5. V = F(V)
    <2> HIDE DEF F
    <2> QED
        BY <1>4
<1> HIDE DEF V
<1>6. V[0] = b /\ \A n \in 1 .. N : V[n] = A(n, V[n - 1])
    BY <1>1, <1>5
<1> DEFINE S == {n \in 0 .. N : Answers(V[n], Settled(factors, n))}
<1>7. 0 \in S
    BY <1>1, <1>3, <1>6
<1>8. ASSUME NEW n \in 0 .. N - 1, n \in S PROVE n + 1 \in S
    <2>1. n \in Nat /\ n + 1 \in 1 .. N /\ n + 1 - 1 = n /\ n + 1 \in 0 .. N
        BY <1>1
    <2>2. PICK Z : Closed(K, Z) /\ factors[n + 1] = Sharing(K, Z)
        BY <2>1 DEF N
    <2>3. V[n + 1] = FactorValues(V[n], factors[n + 1])
        BY <1>6, <2>1 DEF A
    <2>4. \A i \in 1 .. n : factors[i] \in SUBSET K
        BY <1>1, <2>1
    <2>5. Answers(V[n], Settled(factors, n))
        BY <1>8
    <2>6. Answers(FactorValues(V[n], factors[n + 1]), Settled(factors, n + 1))
        BY <2>1, <2>2, <2>4, <2>5, FactorAnswers
    <2> QED
        BY <2>1, <2>3, <2>6
<1> HIDE DEF S
<1>9. N \in S
    <2>1. \A n \in 0 .. N : n \in S
        BY <1>1, <1>7, <1>8, Induction
    <2> QED
        BY <1>1, <2>1
<1> QED
    BY <1>2, <1>9 DEF S, N

(* Solutions. *)
Solutions(C) == {{m} : m \in Models(C)}

(* The values of all factors together are a solution. *)
LEMMA IndependentInitialAnswers ==
    ASSUME NEW C \in SUBSET Exprs, Models(C) # {}, NEW c, Good(c)
    PROVE  Answers(IndependentInitialValues(Query(C, False), c), Solutions(C))
<1> DEFINE q == Query(C, False)
           K == Key(q)
           B == getAllIndependentConstraintsSets(K)
           factors == SetToSeq(B)
           O == AllFactorValues(factors, c)
           V == Settled(factors, Len(factors))
           W == Solutions(C)
           vals(ret) == {[x \in Elements |-> IF x \in DOMAIN r THEN r[x] ELSE 0] : r \in ret}
           F(ret, d) == {Return(vals(ret), Check(\A v \in vals(ret) : Satisfies(v, K), d))}
           X == IndependentInitialValues(q, c)
<1>1. K = C
    <2>1. q.cs = C /\ Negate(q.e) = True
        BY Constants, QueryFields
    <2> QED
        BY <2>1 DEF Key
<1>2. \A p \in X : \E o \in O : p \in IF o.v = {} THEN {o} ELSE UNION {F(v, o.c) : v \in o.v}
    BY Zenon DEF IndependentInitialValues, Then
<1>3. \A ret : vals(ret) = {Extended(r) : r \in ret}
    BY DEF Extended
<1> HIDE DEF q, K, vals, X
<1>4. /\ \A f \in B : \E e \in K : f = getIndependentConstraints(K, Reads(e))
      /\ \A e \in K : getIndependentConstraints(K, Reads(e)) \in B
    BY DEF getAllIndependentConstraintsSets
<1> HIDE DEF B
<1>5. \A e \in K : \E Z : /\ Reads(e) \subseteq Z /\ Closed(K, Z)
                          /\ getIndependentConstraints(K, Reads(e)) = Sharing(K, Z)
    <2>1. K \in SUBSET Exprs /\ \A e : Reads(e) \in SUBSET Elements
        BY <1>1 DEF Reads
    <2> QED
        BY <2>1, IndependentClosed
<1>6. \A f \in B : f \in SUBSET K /\ \E Z : Closed(K, Z) /\ f = Sharing(K, Z)
    <2>1. \A Z : Sharing(K, Z) \in SUBSET K
        BY DEF Sharing
    <2> QED
        BY <1>4, <1>5, <2>1
<1>7. IsFiniteSet(B)
    <2>1. IsFiniteSet(SUBSET Exprs)
        BY ExprsFinite, FS_SUBSET
    <2>2. B \in SUBSET (SUBSET Exprs)
        BY <1>1, <1>6
    <2> QED
        BY <2>1, <2>2, FS_Subset
<1>8. factors \in Seq(B) /\ \A f \in B : \E i \in 1 .. Len(factors) : factors[i] = f
    BY <1>7, SetToSeqLists
<1> HIDE DEF factors
<1>9. /\ factors \in Seq(SUBSET K)
      /\ \A i \in 1 .. Len(factors) : \E Z : Closed(K, Z) /\ factors[i] = Sharing(K, Z)
    <2>1. B \subseteq SUBSET K /\ \A i \in 1 .. Len(factors) : factors[i] \in B
        BY <1>6, <1>8
    <2> QED
        BY <1>6, <1>8, <2>1
<1>10. Answers(O, V)
    BY <1>1, <1>9, AllFactorAnswers
<1>11. ASSUME NEW ret \in V, NEW d, Good(d) PROVE Answers(F(ret, d), W)
    <2>1. PICK r \in Assignments : ret = {r} /\ \A i \in 1 .. Len(factors) : Done(r, factors[i])
        BY DEF Settled
    <2> DEFINE m == Extended(r)
               ok == \A v \in vals(ret) : Satisfies(v, K)
    <2>2. vals(ret) = {m} /\ m \in Valuations
        BY <1>3, <2>1, ExtendedTyped
    <2>3. ASSUME NEW e \in K PROVE Holds(e, m)
        <3>1. e \in Exprs
            BY <1>1
        <3>2. CASE Reads(e) = {}
            <4>1. PICK n \in Models(C) : TRUE
                OBVIOUS
            <4>2. Holds(e, n)
                BY <1>1, ModelsFact
            <4> QED
                BY <3>1, <3>2, <4>2, HoldsReads
        <3>3. CASE Reads(e) # {}
            <4> DEFINE f == getIndependentConstraints(K, Reads(e))
            <4>1. PICK Z : Reads(e) \subseteq Z /\ f = Sharing(K, Z)
                BY <1>5
            <4>2. e \in f
                BY <3>3, <4>1 DEF Sharing
            <4>3. f \in B
                BY <1>4
            <4> HIDE DEF f
            <4>4. Done(r, f)
                BY <1>8, <2>1, <4>3
            <4> QED
                BY <4>2, <4>4, ModelsFact DEF Done
        <3> QED
            BY <3>2, <3>3
    <2> HIDE DEF m
    <2>4. m \in Models(C)
        BY <1>1, <2>2, <2>3, ModelsFact
    <2>5. ok = TRUE
        <3>1. \A e \in K : Evaluate(e, m)
            BY <2>2, <2>3, EvaluateExtended, ExtendedWhole
        <3> QED
            BY <2>2, <3>1 DEF Satisfies
    <2>6. vals(ret) \in W
        BY <2>2, <2>4 DEF Solutions
    <2> DEFINE f == Check(ok, d)
    <2>7. F(ret, d) = {Return(vals(ret), f)}
        OBVIOUS
    <2> HIDE DEF ok
    <2>8. Good(f)
        BY <1>11, <2>5, CheckHolds
    <2> HIDE DEF f, W, F
    <2> QED
        BY <2>6, <2>7, <2>8, ReturnAnswers
<1> HIDE DEF V, W, F, O
<1>12. \A p \in X : \E o \in O : (o.v = {} /\ p = o) \/ \E v \in o.v : p \in F(v, o.c)
    BY <1>2
<1>13. \A v \in V : \A d : Good(d) => Answers(F(v, d), W)
    BY <1>11
<1>14. Answers(X, W)
    BY <1>10, <1>12, <1>13 DEF Answers
<1> QED
    BY <1>14 DEF W, X, q

-----------------------------------------------------------------------------
(***************************************************************************)
(* TimingSolver: the expression is simplified first.                       *)
(***************************************************************************)
(* Simplification does not change an answer; an expression that becomes a  *)
(* constant has the answer of the constant.                                *)
LEMMA SimplifiedSame ==
    ASSUME NEW C \in SUBSET Exprs, Models(C) # {}, NEW e \in Exprs,
           NEW s, s = simplifyExpr(C, e)
    PROVE  /\ s \in Exprs /\ Asked(Query(C, s))
           /\ TruthAnswers(Query(C, s)) = TruthAnswers(Query(C, e))
           /\ ValidityOf(Query(C, s)) = ValidityOf(Query(C, e))
           /\ ValueAnswers(Query(C, s)) = ValueAnswers(Query(C, e))
           /\ s = True => /\ TRUE \in TruthAnswers(Query(C, e)) /\ TRUE \in ValueAnswers(Query(C, e))
                          /\ ValidityOf(Query(C, e)) = "True"
           /\ s = False => /\ FALSE \in TruthAnswers(Query(C, e)) /\ FALSE \in ValueAnswers(Query(C, e))
                           /\ ValidityOf(Query(C, e)) = "False"
<1> DEFINE q == Query(C, s)
           r == Query(C, e)
<1>1. s \in Exprs /\ Free(C, s) /\ \A m \in Models(C) : Holds(s, m) <=> Holds(e, m)
    BY SimplifyHolds
<1>2. /\ q \in Queries /\ q.cs = C /\ q.e = s
      /\ r \in Queries /\ r.cs = C /\ r.e = e
    BY <1>1, QueryFields
<1> HIDE DEF q, r
<1>3. Asked(q)
    BY <1>1, <1>2 DEF Asked
<1>4. /\ Refuting(q) = {} <=> \A m \in Models(C) : Holds(s, m)
      /\ Refuting(negateExpr(q)) = {} <=> \A m \in Models(C) : ~Holds(s, m)
      /\ Refuting(r) = {} <=> \A m \in Models(C) : Holds(e, m)
      /\ Refuting(negateExpr(r)) = {} <=> \A m \in Models(C) : ~Holds(e, m)
    BY <1>2, ValidityFacts
<1>5. /\ Refuting(q) = {} <=> Refuting(r) = {}
      /\ Refuting(negateExpr(q)) = {} <=> Refuting(negateExpr(r)) = {}
    BY <1>1, <1>4
<1>6. TruthAnswers(q) = TruthAnswers(r)
    BY <1>5 DEF TruthAnswers
<1>7. ValidityOf(q) = ValidityOf(r)
    BY <1>5 DEF ValidityOf
<1>8. ValueAnswers(q) = ValueAnswers(r)
    BY <1>1, <1>2 DEF ValueAnswers
<1>9. s = True => /\ TRUE \in TruthAnswers(r) /\ TRUE \in ValueAnswers(r)
                  /\ ValidityOf(r) = "True"
    <2>1. HAVE s = True
    <2>2. \A m \in Models(C) : Holds(e, m)
        BY <1>1, <2>1, Constants
    <2> QED
        BY <1>2, <1>4, <2>2 DEF TruthAnswers, ValueAnswers, ValidityOf
<1>10. s = False => /\ FALSE \in TruthAnswers(r) /\ FALSE \in ValueAnswers(r)
                    /\ ValidityOf(r) = "False"
    <2>1. HAVE s = False
    <2>2. \A m \in Models(C) : ~Holds(e, m)
        BY <1>1, <2>1, Constants
    <2>3. Refuting(r) # {} /\ Refuting(negateExpr(r)) = {}
        BY <1>4, <2>2
    <2> QED
        BY <1>2, <2>2, <2>3 DEF TruthAnswers, ValueAnswers, ValidityOf
<1> QED
    BY <1>1, <1>3, <1>6, <1>7, <1>8, <1>9, <1>10 DEF q, r

(* What the executor asks is answered rightly, for every state that has an *)
(* input.                                                                  *)
LEMMA EvaluateAnswers ==
    ASSUME NEW C \in SUBSET Exprs, Models(C) # {}, NEW e \in Exprs, NEW c, Good(c)
    PROVE  Answers(evaluate(C, e, c), {ValidityOf(Query(C, e))})
<1> DEFINE s == simplifyExpr(C, e)
           q == Query(C, s)
           V == {ValidityOf(Query(C, e))}
<1>1. /\ s \in Exprs /\ Asked(q) /\ V = {ValidityOf(q)}
      /\ s = True => "True" \in V
      /\ s = False => "False" \in V
    BY SimplifiedSame
<1>2. CASE s = True
    <2>1. evaluate(C, e, c) = {Return("True", c)}
        BY <1>2 DEF evaluate, IsConstant
    <2> HIDE DEF V
    <2>2. Answers(evaluate(C, e, c), V)
        BY <1>1, <1>2, <2>1, ReturnAnswers
    <2> QED
        BY <2>2 DEF V
<1>3. CASE s = False
    <2>1. evaluate(C, e, c) = {Return("False", c)}
        BY <1>3, Constants DEF evaluate, IsConstant
    <2> HIDE DEF V
    <2>2. Answers(evaluate(C, e, c), V)
        BY <1>1, <1>3, <2>1, ReturnAnswers
    <2> QED
        BY <2>2 DEF V
<1>4. CASE s # True /\ s # False
    <2>1. evaluate(C, e, c) = NextValidity(Independent(q), c)
        BY <1>4 DEF evaluate, IsConstant
    <2> HIDE DEF s, q
    <2>2. Asked(Independent(q)) /\ ValidityOf(Independent(q)) = ValidityOf(q)
        BY <1>1, IndependentSame
    <2>3. Answers(NextValidity(Independent(q), c), {ValidityOf(Independent(q))})
        BY <2>2, NextValidityAnswers
    <2> QED
        BY <1>1, <2>1, <2>2, <2>3
<1> QED
    BY <1>2, <1>3, <1>4

(* mustBeTrue is right. *)
LEMMA MustBeTrueAnswers ==
    ASSUME NEW C \in SUBSET Exprs, Models(C) # {}, NEW e \in Exprs, NEW c, Good(c)
    PROVE  Answers(mustBeTrue(C, e, c), TruthAnswers(Query(C, e)))
<1> DEFINE s == simplifyExpr(C, e)
           q == Query(C, s)
           V == TruthAnswers(Query(C, e))
<1>1. /\ s \in Exprs /\ Asked(q) /\ V = TruthAnswers(q)
      /\ s = True => TRUE \in V
      /\ s = False => FALSE \in V
    BY SimplifiedSame
<1>2. CASE s = True
    <2>1. mustBeTrue(C, e, c) = {Return(TRUE, c)}
        BY <1>2 DEF mustBeTrue, IsConstant
    <2> HIDE DEF V
    <2>2. Answers(mustBeTrue(C, e, c), V)
        BY <1>1, <1>2, <2>1, ReturnAnswers
    <2> QED
        BY <2>2 DEF V
<1>3. CASE s = False
    <2>1. mustBeTrue(C, e, c) = {Return(FALSE, c)}
        BY <1>3, Constants DEF mustBeTrue, IsConstant
    <2> HIDE DEF V
    <2>2. Answers(mustBeTrue(C, e, c), V)
        BY <1>1, <1>3, <2>1, ReturnAnswers
    <2> QED
        BY <2>2 DEF V
<1>4. CASE s # True /\ s # False
    <2>1. mustBeTrue(C, e, c) = NextTruth(Independent(q), c)
        BY <1>4 DEF mustBeTrue, IsConstant
    <2> HIDE DEF s, q
    <2>2. Asked(Independent(q)) /\ TruthAnswers(Independent(q)) = TruthAnswers(q)
        BY <1>1, IndependentSame
    <2>3. Answers(NextTruth(Independent(q), c), TruthAnswers(Independent(q)))
        BY <2>2, NextTruthAnswers
    <2> QED
        BY <1>1, <2>1, <2>2, <2>3
<1> QED
    BY <1>2, <1>3, <1>4

(* getValue returns the value in some solution. *)
LEMMA GetValueAnswers ==
    ASSUME NEW C \in SUBSET Exprs, Models(C) # {}, NEW e \in Exprs, NEW c, Good(c)
    PROVE  Answers(getValue(C, e, c), ValueAnswers(Query(C, e)))
<1> DEFINE s == simplifyExpr(C, e)
           q == Query(C, s)
           V == ValueAnswers(Query(C, e))
<1>1. /\ s \in Exprs /\ Asked(q) /\ V = ValueAnswers(q)
      /\ s = True => TRUE \in V
      /\ s = False => FALSE \in V
    BY SimplifiedSame
<1>2. CASE s = True
    <2>1. getValue(C, e, c) = {Return(TRUE, c)}
        BY <1>2 DEF getValue, IsConstant
    <2> HIDE DEF V
    <2>2. Answers(getValue(C, e, c), V)
        BY <1>1, <1>2, <2>1, ReturnAnswers
    <2> QED
        BY <2>2 DEF V
<1>3. CASE s = False
    <2>1. getValue(C, e, c) = {Return(FALSE, c)}
        BY <1>3, Constants DEF getValue, IsConstant
    <2> HIDE DEF V
    <2>2. Answers(getValue(C, e, c), V)
        BY <1>1, <1>3, <2>1, ReturnAnswers
    <2> QED
        BY <2>2 DEF V
<1>4. CASE s # True /\ s # False
    <2>1. getValue(C, e, c) = NextValue(Independent(q), c)
        BY <1>4 DEF getValue, IsConstant
    <2> HIDE DEF s, q
    <2>2. Asked(Independent(q)) /\ ValueAnswers(Independent(q)) \subseteq ValueAnswers(q)
        BY <1>1, IndependentSame
    <2>3. Answers(NextValue(Independent(q), c), ValueAnswers(Independent(q)))
        BY <2>2, NextValueAnswers
    <2> QED
        BY <1>1, <2>1, <2>2, <2>3, AnswersIn
<1> QED
    BY <1>2, <1>3, <1>4

(* All arrays together have all elements. *)
LEMMA RestrictedWhole ==
    ASSUME NEW m \in Valuations
    PROVE  Restricted(m, Arrays) = m
<1>1. ElementsOf(Arrays) = Elements
    BY DEF ElementsOf, Arrays
<1> QED
    BY <1>1 DEF Restricted, Valuations

(* Initial values are a solution, by factors or at once. *)
LEMMA InitialValuesAnswers ==
    ASSUME NEW C \in SUBSET Exprs, Models(C) # {}, NEW c, Good(c)
    PROVE  Answers(InitialValues(Query(C, False), c), Solutions(C))
<1> DEFINE q == Query(C, False)
<1>1. CASE options.independent
    <2>1. InitialValues(q, c) = IndependentInitialValues(q, c)
        BY <1>1 DEF InitialValues
    <2> QED
        BY <2>1, IndependentInitialAnswers
<1>2. CASE ~options.independent
    <2>1. InitialValues(q, c) = NextInitialValues(q, Arrays, c)
        BY <1>2 DEF InitialValues
    <2>2. q \in Queries /\ q.cs = C /\ q.e = False
        BY Constants, QueryFields
    <2> HIDE DEF q
    <2>3. Asked(q)
        BY <2>2, Constants DEF Asked, Free
    <2>4. Refuting(q) = Models(C)
        <3>1. \A m : m \in Refuting(q) <=> m \in Models(C)
            BY <2>2, RefutingFact, Constants
        <3> QED
            BY <3>1
    <2>5. InitialAnswers(q, Arrays) \subseteq Solutions(C)
        <3>1. InitialAnswers(q, Arrays) = {{Restricted(m, Arrays)} : m \in Models(C)}
            BY <2>4 DEF InitialAnswers
        <3>2. \A m \in Models(C) : Restricted(m, Arrays) = m
            BY ModelsFact, RestrictedWhole
        <3> QED
            BY <3>1, <3>2 DEF Solutions
    <2>6. Answers(NextInitialValues(q, Arrays, c), InitialAnswers(q, Arrays))
        BY <2>3, NextInitialAnswers
    <2>7. Answers(InitialValues(q, c), Solutions(C))
        BY <2>1, <2>5, <2>6, AnswersIn
    <2> QED
        BY <2>7 DEF q
<1> QED
    BY <1>1, <1>2

(* A test case is a solution. *)
LEMMA GetInitialAnswers ==
    ASSUME NEW C \in SUBSET Exprs, Models(C) # {}, NEW c, Good(c)
    PROVE  Answers(getInitialValues(C, c), Models(C))
<1> DEFINE O == InitialValues(Query(C, False), c)
           V == Solutions(C)
           F(a, d) == {[v |-> a, c |-> d]}
           X == getInitialValues(C, c)
<1>1. \A p \in X : \E o \in O : p \in IF o.v = {} THEN {o} ELSE UNION {F(v, o.c) : v \in o.v}
    BY Zenon DEF getInitialValues, Then
<1>2. Answers(O, V)
    BY InitialValuesAnswers
<1>3. ASSUME NEW v \in V, NEW d, Good(d) PROVE Answers(F(v, d), Models(C))
    BY <1>3 DEF Solutions, Answers
<1> HIDE DEF O, V, F, X
<1>4. \A p \in X : \E o \in O : (o.v = {} /\ p = o) \/ \E v \in o.v : p \in F(v, o.c)
    BY <1>1
<1>5. \A v \in V : \A d : Good(d) => Answers(F(v, d), Models(C))
    BY <1>3
<1>6. Answers(X, Models(C))
    BY <1>2, <1>4, <1>5 DEF Answers
<1> QED
    BY <1>6 DEF X

-----------------------------------------------------------------------------
(***************************************************************************)
(* The executor.                                                           *)
(***************************************************************************)
(* A right answer to mustBeTrue and what it says of the solutions. *)
LEMMA TruthFacts ==
    ASSUME NEW C \in SUBSET Exprs, NEW e \in Exprs, NEW b \in TruthAnswers(Query(C, Negate(e)))
    PROVE  /\ b \in BOOLEAN
           /\ b = TRUE => \A m \in Models(C) : ~Holds(e, m)
           /\ b = FALSE => \E m \in Models(C) : Holds(e, m)
<1> DEFINE q == Query(C, Negate(e))
<1>1. /\ q \in Queries /\ q.cs = C /\ q.e = Negate(e)
      /\ \A m : Holds(Negate(e), m) <=> ~Holds(e, m)
    BY NegateHolds, QueryFields
<1> HIDE DEF q
<1>2. Refuting(q) = {} <=> \A m \in Models(C) : ~Holds(e, m)
    BY <1>1, ValidityFacts
<1>3. b \in BOOLEAN /\ (b <=> Refuting(q) = {})
    BY DEF TruthAnswers, q
<1> QED
    BY <1>2, <1>3

(* What is true after n of the preferences: the solutions left are         *)
(* solutions of the path, and if the solver always answers the first       *)
(* preference holds in all of them or in none of the path.                 *)
Preferring(C, n, p) ==
    /\ p.cs \in SUBSET Exprs /\ Models(p.cs) # {} /\ Models(p.cs) \subseteq Models(C)
    /\ p.go \in BOOLEAN /\ Good(p.c)
    /\ Sure => p.go = TRUE
    /\ n = 0 => p.cs = C
    /\ n # 0 /\ Sure => \/ \A m \in Models(p.cs) : Holds(program.prefs[1], m)
                        \/ \A m \in Models(C) : ~Holds(program.prefs[1], m)

(* What becomes of one set of constraints with a preference. *)
Prefer(p, e) ==
    IF ~p.go THEN {p}
    ELSE {[cs |-> IF o.v = {FALSE} THEN Add(p.cs, e) ELSE p.cs, go |-> o.v # {}, c |-> o.c] :
            o \in mustBeTrue(p.cs, Negate(e), p.c)}

(* One preference. *)
LEMMA PreferKeeps ==
    ASSUME NEW C \in SUBSET Exprs, NEW n \in Nat, n + 1 \in DOMAIN program.prefs,
           program.prefs[n + 1] \in Exprs, NEW p, Preferring(C, n, p),
           NEW r \in Prefer(p, program.prefs[n + 1])
    PROVE  Preferring(C, n + 1, r)
<1> DEFINE e == program.prefs[n + 1]
           k == n + 1
<1>1. k # 0
    OBVIOUS
<1> HIDE DEF k
<1> SUFFICES Preferring(C, k, r)
    BY DEF k
<1>2. CASE p.go = FALSE
    <2>1. r = p
        BY <1>2 DEF Prefer
    <2>2. ~Sure
        BY <1>2 DEF Preferring
    <2> QED
        BY <1>1, <2>1, <2>2 DEF Preferring
<1>3. CASE p.go = TRUE
    <2> HIDE DEF e
    <2>1. PICK o \in mustBeTrue(p.cs, Negate(e), p.c) :
             r = [cs |-> IF o.v = {FALSE} THEN Add(p.cs, e) ELSE p.cs, go |-> o.v # {}, c |-> o.c]
        BY <1>3 DEF Prefer, e
    <2>2. e \in Exprs /\ Negate(e) \in Exprs
        BY NegateHolds DEF e
    <2>3. Answers(mustBeTrue(p.cs, Negate(e), p.c), TruthAnswers(Query(p.cs, Negate(e))))
        BY <2>2, MustBeTrueAnswers DEF Preferring
    <2>4. Good(o.c) /\ ((o.v = {} /\ ~Sure) \/ \E b \in TruthAnswers(Query(p.cs, Negate(e))) : o.v = {b})
        BY <2>3 DEF Answers
    <2>5. CASE o.v = {} /\ ~Sure
        <3>1. r.cs = p.cs /\ r.go = FALSE /\ r.c = o.c
            BY <2>1, <2>5
        <3> QED
            BY <1>1, <2>4, <2>5, <3>1 DEF Preferring
    <2>6. ASSUME NEW b \in TruthAnswers(Query(p.cs, Negate(e))), o.v = {b}
          PROVE  Preferring(C, k, r)
        <3>1. /\ b \in BOOLEAN
              /\ b = TRUE => \A m \in Models(p.cs) : ~Holds(e, m)
              /\ b = FALSE => \E m \in Models(p.cs) : Holds(e, m)
            BY <2>2, TruthFacts DEF Preferring
        <3>2. CASE b = TRUE
            <4>1. r.cs = p.cs /\ r.go = TRUE /\ r.c = o.c
                BY <2>1, <2>6, <3>2
            <4>2. n = 0 => \A m \in Models(C) : ~Holds(program.prefs[1], m)
                BY <3>1, <3>2 DEF Preferring, e
            <4> QED
                BY <1>1, <2>4, <4>1, <4>2 DEF Preferring
        <3>3. CASE b = FALSE
            <4>1. r.cs = Add(p.cs, e) /\ r.go = TRUE /\ r.c = o.c
                BY <2>1, <2>6, <3>3
            <4>2. /\ Add(p.cs, e) \in SUBSET Exprs
                  /\ \A m : m \in Models(Add(p.cs, e)) <=> m \in Models(p.cs) /\ Holds(e, m)
                BY <2>2, AddHolds DEF Preferring
            <4>3. Models(r.cs) # {} /\ Models(r.cs) \subseteq Models(p.cs)
                BY <3>1, <3>3, <4>1, <4>2
            <4>4. n = 0 => \A m \in Models(r.cs) : Holds(program.prefs[1], m)
                BY <4>1, <4>2 DEF e
            <4> QED
                BY <1>1, <2>4, <4>1, <4>2, <4>3, <4>4 DEF Preferring
        <3> QED
            BY <3>1, <3>2, <3>3
    <2> QED
        BY <2>4, <2>5, <2>6
<1> QED
    BY <1>2, <1>3 DEF Preferring

(* The preferences one after another. *)
LEMMA PreferredHolds ==
    ASSUME NEW C \in SUBSET Exprs, Models(C) # {}, NEW c, Good(c),
           program.prefs \in Seq(Exprs), NEW p \in Preferred(C, Len(program.prefs), c)
    PROVE  Preferring(C, Len(program.prefs), p)
<1> DEFINE N == Len(program.prefs)
           b == {[cs |-> C, go |-> TRUE, c |-> c]}
           A(n, w) == UNION {Prefer(r, program.prefs[n]) : r \in w}
           F(W) == [n \in 0 .. N |-> IF n = 0 THEN b ELSE A(n, W[n - 1])]
           V == CHOOSE W : W = F(W)
<1>1. N \in Nat /\ \A i \in 1 .. N : program.prefs[i] \in Exprs /\ i \in DOMAIN program.prefs
    OBVIOUS
<1>2. Preferred(C, N, c) = V[N]
    BY Zenon DEF Preferred, Prefer
<1>3. \A r \in b : Preferring(C, 0, r)
    <2>1. ASSUME NEW r \in b PROVE r.cs = C /\ r.go = TRUE /\ r.c = c
        OBVIOUS
    <2> HIDE DEF b
    <2> QED
        BY <2>1 DEF Preferring
<1> HIDE DEF N, b, A
<1>4. PICK f : f = F(f)
    <2> DEFINE Ok(k, f) == f = [n \in 0 .. k |-> IF n = 0 THEN b ELSE A(n, f[n - 1])]
               S == {k \in 0 .. N : \E f : Ok(k, f)}
    <2>1. 0 \in S
        <3>1. Ok(0, [n \in 0 .. 0 |-> b])
            OBVIOUS
        <3> HIDE DEF Ok
        <3> QED
            BY <1>1, <3>1
    <2>2. ASSUME NEW k \in 0 .. N - 1, k \in S PROVE k + 1 \in S
        <3>1. PICK f : Ok(k, f)
            BY <2>2
        <3> DEFINE g == [n \in 0 .. k + 1 |-> IF n = k + 1 THEN A(k + 1, f[k]) ELSE f[n]]
        <3>2. \A n \in 0 .. k : g[n] = IF n = 0 THEN b ELSE A(n, g[n - 1])
            <4>1. ASSUME NEW n \in 0 .. k PROVE g[n] = IF n = 0 THEN b ELSE A(n, g[n - 1])
                <5>1. g[n] = f[n] /\ (n # 0 => g[n - 1] = f[n - 1])
                    OBVIOUS
                <5>2. f[n] = IF n = 0 THEN b ELSE A(n, f[n - 1])
                    BY <3>1
                <5> QED
                    BY <5>1, <5>2
            <4> QED
                BY <4>1
        <3>3. g[k + 1] = A(k + 1, g[k + 1 - 1])
            OBVIOUS
        <3>4. Ok(k + 1, g)
            <4>1. \A n \in 0 .. k + 1 : g[n] = IF n = 0 THEN b ELSE A(n, g[n - 1])
                <5>1. k + 1 # 0 /\ \A n \in 0 .. k + 1 : n \in 0 .. k \/ n = k + 1
                    OBVIOUS
                <5> HIDE DEF g
                <5>2. ASSUME NEW n, n = k + 1 PROVE g[n] = IF n = 0 THEN b ELSE A(n, g[n - 1])
                    BY <3>3, <5>1, <5>2
                <5> QED
                    BY <3>2, <5>1, <5>2
            <4>2. DOMAIN g = 0 .. k + 1 /\ g = [n \in 0 .. k + 1 |-> g[n]]
                OBVIOUS
            <4> HIDE DEF g
            <4> QED
                BY <4>1, <4>2
        <3>5. k + 1 \in 0 .. N
            BY <1>1
        <3> HIDE DEF Ok, g
        <3> QED
            BY <3>4, <3>5
    <2>3. N \in S
        <3> HIDE DEF S
        <3>1. \A n \in 0 .. N : n \in S
            BY <1>1, <2>1, <2>2, Induction
        <3> QED
            BY <1>1, <3>1
    <2> QED
        BY <2>3
<1>5. V = F(V)
    <2> HIDE DEF F
    <2> QED
        BY <1>4
<1> HIDE DEF V
<1>6. V[0] = b /\ \A n \in 1 .. N : V[n] = A(n, V[n - 1])
    BY <1>1, <1>5
<1> DEFINE S == {n \in 0 .. N : \A r \in V[n] : Preferring(C, n, r)}
<1>7. 0 \in S
    BY <1>1, <1>3, <1>6
<1>8. ASSUME NEW n \in 0 .. N - 1, n \in S PROVE n + 1 \in S
    <2>1. n \in Nat /\ n + 1 \in 1 .. N /\ n + 1 - 1 = n /\ n + 1 \in 0 .. N
        BY <1>1
    <2>2. V[n + 1] = UNION {Prefer(r, program.prefs[n + 1]) : r \in V[n]}
        BY <1>6, <2>1 DEF A
    <2>3. ASSUME NEW s \in V[n + 1] PROVE Preferring(C, n + 1, s)
        <3>1. PICK r \in V[n] : s \in Prefer(r, program.prefs[n + 1])
            BY <2>2
        <3>2. Preferring(C, n, r)
            BY <1>8
        <3> QED
            BY <1>1, <2>1, <3>1, <3>2, PreferKeeps
    <2> QED
        BY <2>1, <2>3
<1> HIDE DEF S
<1>9. N \in S
    <2>1. \A n \in 0 .. N : n \in S
        BY <1>1, <1>7, <1>8, Induction
    <2> QED
        BY <1>1, <2>1
<1> QED
    BY <1>2, <1>9 DEF S, N

(* What the executor writes as a test case. *)
TestOf(C, o) ==
    /\ Good(o.c)
    /\ \/ o.v = {} /\ ~Sure
       \/ \E t \in Models(C) :
             /\ o.v = {t}
             /\ program.prefs # << >> /\ Sure =>
                   \/ Holds(Head(program.prefs), t)
                   \/ \A m \in Models(C) : ~Holds(Head(program.prefs), m)

(* getSymbolicSolution finds a test case, and none only where the solver   *)
(* may fail.                                                               *)
LEMMA SymbolicSolutionHolds ==
    ASSUME NEW C \in SUBSET Exprs, Models(C) # {}, NEW c, Good(c),
           program.prefs \in Seq(Exprs), NEW o \in getSymbolicSolution(C, c)
    PROVE  TestOf(C, o)
<1> DEFINE N == Len(program.prefs)
<1>1. PICK p \in Preferred(C, N, c) : o \in getInitialValues(p.cs, p.c)
    BY DEF getSymbolicSolution
<1>2. Preferring(C, N, p)
    BY <1>1, PreferredHolds
<1>3. Answers(getInitialValues(p.cs, p.c), Models(p.cs))
    BY <1>2, GetInitialAnswers DEF Preferring
<1>4. Good(o.c) /\ ((o.v = {} /\ ~Sure) \/ \E t \in Models(p.cs) : o.v = {t})
    BY <1>1, <1>3 DEF Answers
<1>5. CASE o.v = {} /\ ~Sure
    BY <1>4, <1>5 DEF TestOf
<1>6. ASSUME NEW t \in Models(p.cs), o.v = {t} PROVE TestOf(C, o)
    <2>1. t \in Models(C)
        BY <1>2 DEF Preferring
    <2>2. ASSUME program.prefs # << >>, Sure
          PROVE  \/ Holds(Head(program.prefs), t)
                 \/ \A m \in Models(C) : ~Holds(Head(program.prefs), m)
        <3>1. N # 0 /\ Head(program.prefs) = program.prefs[1]
            BY <2>2
        <3> HIDE DEF N
        <3> QED
            BY <1>2, <2>2, <3>1 DEF Preferring
    <2> QED
        BY <1>4, <1>6, <2>1, <2>2 DEF TestOf
<1> QED
    BY <1>4, <1>5, <1>6

-----------------------------------------------------------------------------
(***************************************************************************)
(* Where a program goes with an input.                                     *)
(***************************************************************************)
(* The instructions that follow one. *)
Successors(code, m, pc) ==
    IF pc = 0 THEN {}
    ELSE IF code[pc].op = "value" \/ Holds(code[pc].e, m) THEN {code[pc].then}
    ELSE IF code[pc].op = "branch" THEN {code[pc].else} ELSE {}

(* What is executed from an instruction on, given what is executed from    *)
(* the others on; the recursive function that Visits uses.                 *)
RunStep(code, m, pc, f) ==
    {pc} \cup (IF pc = 0 THEN {}
               ELSE IF code[pc].op = "value" \/ Holds(code[pc].e, m) THEN f[code[pc].then]
               ELSE IF code[pc].op = "branch" THEN f[code[pc].else] ELSE {})

Run(code, m) == CHOOSE f : f = [pc \in 0 .. Len(code) |-> RunStep(code, m, pc, f)]

(* Visits is a run from the first instruction. *)
LEMMA VisitsIsRun ==
    ASSUME NEW m
    PROVE  Visits(m) = Run(program.code, m)[1]
BY Zenon DEF Visits, Run, RunStep

(* Execution goes forward, or to the exit. *)
LEMMA ProgramParts ==
    ASSUME NEW p \in Programs
    PROVE  /\ Len(p.code) \in Nat \ {0} /\ p.prefs \in Seq(Exprs)
           /\ \A i \in 1 .. Len(p.code) :
                 /\ p.code[i].op \in {"branch", "assume", "value"} /\ p.code[i].e \in Exprs
                 /\ p.code[i].then \in 0 .. Len(p.code)
                 /\ p.code[i].then = 0 \/ p.code[i].then > i
                 /\ p.code[i].else \in 0 .. Len(p.code)
                 /\ p.code[i].else = 0 \/ p.code[i].else > i
<1>1. /\ Len(p.code) \in Nat \ {0} /\ p.prefs \in Seq(Exprs) /\ DOMAIN p.code = 1 .. Len(p.code)
      /\ \A i \in DOMAIN p.code :
            /\ p.code[i].op \in {"branch", "assume", "value"} /\ p.code[i].e \in Exprs
            /\ {p.code[i].then, p.code[i].else} \subseteq {0} \cup (i + 1 .. Len(p.code))
    BY SolverAssumption
<1>2. ASSUME NEW n \in Nat, NEW i \in 1 .. n, NEW x, x \in {0} \cup (i + 1 .. n)
      PROVE  x \in 0 .. n /\ (x = 0 \/ x > i)
    BY <1>2
<1> QED
    BY <1>1, <1>2

(* What is executed from the later instructions, and from the exit, on. *)
SameAfter(p, pc, f, g) ==
    /\ p \in Programs /\ pc \in 0 .. Len(p.code)
    /\ \A k \in 0 .. Len(p.code) : (k = 0 \/ k > pc) => f[k] = g[k]

(* What is executed from an instruction on depends on nothing else. *)
LEMMA RunStepSame ==
    ASSUME NEW p, NEW pc, NEW f, NEW g, SameAfter(p, pc, f, g)
    PROVE  \A m : RunStep(p.code, m, pc, f) = RunStep(p.code, m, pc, g)
<1> SUFFICES ASSUME NEW m PROVE RunStep(p.code, m, pc, f) = RunStep(p.code, m, pc, g)
    OBVIOUS
<1>1. CASE pc = 0
    BY <1>1 DEF RunStep
<1>2. CASE pc # 0
    <2>1. p \in Programs /\ pc \in 1 .. Len(p.code)
        BY <1>2, ProgramParts DEF SameAfter
    <2>2. f[p.code[pc].then] = g[p.code[pc].then] /\ f[p.code[pc].else] = g[p.code[pc].else]
        BY <2>1, ProgramParts DEF SameAfter
    <2> QED
        BY <2>2 DEF RunStep
<1> QED
    BY <1>1, <1>2

(* The recursive function exists: it is built from the last instruction    *)
(* upwards.                                                                *)
LEMMA RunUnfolds ==
    ASSUME NEW p \in Programs, NEW m, NEW pc \in 0 .. Len(p.code)
    PROVE  Run(p.code, m)[pc] = RunStep(p.code, m, pc, Run(p.code, m))
<1> DEFINE code == p.code
           N == Len(code)
           F(f) == [k \in 0 .. N |-> RunStep(code, m, k, f)]
           Ok(n, f) == /\ f = [k \in 0 .. N |-> f[k]]
                       /\ \A k \in 0 .. N : (k = 0 \/ k > N - n) => f[k] = RunStep(code, m, k, f)
           S == {n \in 0 .. N : \E f : Ok(n, f)}
<1>1. N \in Nat
    BY ProgramParts
<1>2. 0 \in S
    <2> DEFINE f == [k \in 0 .. N |-> {0}]
    <2>1. \A k \in 0 .. N : (k = 0 \/ k > N - 0) => k = 0
        BY <1>1
    <2>2. f[0] = RunStep(code, m, 0, f)
        BY <1>1 DEF RunStep
    <2>3. f = [k \in 0 .. N |-> f[k]]
        OBVIOUS
    <2> HIDE DEF N, f
    <2>4. Ok(0, f)
        BY <2>1, <2>2, <2>3
    <2> HIDE DEF Ok
    <2> QED
        BY <1>1, <2>4
<1>3. ASSUME NEW n \in 0 .. N - 1, n \in S PROVE n + 1 \in S
    <2>1. PICK f : Ok(n, f)
        BY <1>3
    <2> DEFINE t == N - n
               g == [k \in 0 .. N |-> IF k = t THEN RunStep(code, m, t, f) ELSE f[k]]
    <2>2. t \in 0 .. N /\ n + 1 \in 0 .. N /\ t # 0
        BY <1>1
    <2>3. \A k, l \in 0 .. N : (k = 0 \/ k > N - (n + 1)) /\ (l = 0 \/ l > k) /\ l = t => k = 0
        BY <1>1
    <2>4. \A k \in 0 .. N : (k = 0 \/ k > N - (n + 1)) => k = 0 \/ k > N - n \/ k = t
        BY <1>1
    <2>5. g = [k \in 0 .. N |-> g[k]] /\ \A k \in 0 .. N : k # t => g[k] = f[k]
        OBVIOUS
    <2>6. g[t] = RunStep(code, m, t, f)
        BY <2>2
    <2> HIDE DEF g
    <2>7. ASSUME NEW k \in 0 .. N, k = 0 \/ k > N - (n + 1) PROVE g[k] = RunStep(code, m, k, g)
        <3>1. CASE k = 0
            BY <2>1, <2>2, <2>5, <3>1 DEF RunStep
        <3>2. CASE k # 0
            <4>1. SameAfter(p, k, f, g)
                BY <2>2, <2>3, <2>5, <2>7, <3>2 DEF SameAfter
            <4>2. RunStep(code, m, k, f) = RunStep(code, m, k, g)
                BY <4>1, RunStepSame
            <4>3. g[k] = RunStep(code, m, k, f)
                BY <2>1, <2>4, <2>5, <2>6, <2>7, <3>2
            <4> QED
                BY <4>2, <4>3
        <3> QED
            BY <3>1, <3>2
    <2>8. Ok(n + 1, g)
        BY <2>5, <2>7
    <2> HIDE DEF Ok
    <2> QED
        BY <2>2, <2>8
<1>4. \A n \in 0 .. N : n \in S
    <2> HIDE DEF S, N
    <2> QED
        BY <1>1, <1>2, <1>3, Induction
<1>5. PICK f : Ok(N, f)
    <2>1. N \in S
        <3> HIDE DEF S
        <3> QED
            BY <1>1, <1>4
    <2> HIDE DEF Ok
    <2> QED
        BY <2>1
<1>6. f = F(f)
    <2>1. \A k \in 0 .. N : k = 0 \/ k > N - N
        BY <1>1
    <2> HIDE DEF N
    <2> QED
        BY <1>5, <2>1
<1> DEFINE R == CHOOSE r : r = F(r)
<1>7. R = F(R)
    <2> HIDE DEF F
    <2> QED
        BY <1>6
<1>8. R = Run(code, m)
    BY Zenon DEF Run
<1> HIDE DEF R
<1> QED
    BY <1>7, <1>8

(* The rest of a run, from an instruction that it executes. *)
RestOfRun(p, m, pc) ==
    LET R == Run(p.code, m)
    IN  /\ R[pc] \in SUBSET (0 .. Len(p.code)) /\ pc \in R[pc]
        /\ \A k \in R[pc] : R[k] \subseteq R[pc] /\ (0 \in R[pc] => 0 \in R[k])

(* From every instruction, by induction from the last one upwards. *)
LEMMA RunGoesOn ==
    ASSUME NEW p \in Programs, NEW m
    PROVE  \A pc \in 0 .. Len(p.code) : RestOfRun(p, m, pc)
<1> DEFINE code == p.code
           N == Len(code)
           R == Run(code, m)
           S == {n \in 0 .. N : \A k \in 0 .. N : (k = 0 \/ k > N - n) => RestOfRun(p, m, k)}
<1>1. N \in Nat
    BY ProgramParts
<1>2. \A k \in 0 .. N : R[k] = RunStep(code, m, k, R)
    BY RunUnfolds
<1> HIDE DEF R
<1>3. RestOfRun(p, m, 0)
    <2>1. R[0] = {0}
        BY <1>1, <1>2 DEF RunStep
    <2>2. RestOfRun(p, m, 0) <=> /\ R[0] \in SUBSET (0 .. N) /\ 0 \in R[0]
                                 /\ \A k \in R[0] : R[k] \subseteq R[0] /\ (0 \in R[0] => 0 \in R[k])
        BY DEF RestOfRun, R
    <2> QED
        BY <1>1, <2>1, <2>2
<1>4. 0 \in S
    <2>1. \A k \in 0 .. N : (k = 0 \/ k > N - 0) => k = 0
        BY <1>1
    <2> QED
        BY <1>1, <1>3, <2>1
<1>5. ASSUME NEW n \in 0 .. N - 1, n \in S PROVE n + 1 \in S
    <2> DEFINE t == N - n
    <2>1. t \in 1 .. N /\ n + 1 \in 0 .. N
        BY <1>1
    <2>2. \A k \in 0 .. N : (k = 0 \/ k > N - (n + 1)) => k = 0 \/ k > N - n \/ k = t
        BY <1>1
    <2>3. \A k \in 0 .. N : (k = 0 \/ k > t) => RestOfRun(p, m, k)
        BY <1>5
    <2> HIDE DEF t
    <2>4. RestOfRun(p, m, t)
        <3>1. t \in 0 .. N /\ t # 0
            BY <2>1
        <3>2. \/ R[t] = {t}
              \/ \E u \in 0 .. N : (u = 0 \/ u > t) /\ R[t] = {t} \cup R[u]
            <4>1. R[t] = RunStep(code, m, t, R)
                BY <1>2, <3>1
            <4>2. /\ code[t].then \in 0 .. N /\ (code[t].then = 0 \/ code[t].then > t)
                  /\ code[t].else \in 0 .. N /\ (code[t].else = 0 \/ code[t].else > t)
                BY <2>1, ProgramParts
            <4>3. RunStep(code, m, t, R) \in
                     {{t}, {t} \cup R[code[t].then], {t} \cup R[code[t].else]}
                BY <3>1 DEF RunStep
            <4> QED
                BY <4>1, <4>2, <4>3
        <3>3. CASE R[t] = {t}
            BY <3>1, <3>3 DEF RestOfRun, R
        <3>4. ASSUME NEW u \in 0 .. N, u = 0 \/ u > t, R[t] = {t} \cup R[u]
              PROVE  RestOfRun(p, m, t)
            <4>1. /\ R[u] \in SUBSET (0 .. N) /\ u \in R[u]
                  /\ \A k \in R[u] : R[k] \subseteq R[u] /\ (0 \in R[u] => 0 \in R[k])
                BY <2>3, <3>4 DEF RestOfRun, R
            <4>2. /\ R[t] \in SUBSET (0 .. N) /\ t \in R[t]
                  /\ \A k \in R[t] : R[k] \subseteq R[t] /\ (0 \in R[t] => 0 \in R[k])
                BY <3>1, <3>4, <4>1
            <4> QED
                BY <4>2 DEF RestOfRun, R
        <3> QED
            BY <3>2, <3>3, <3>4
    <2> QED
        BY <1>3, <2>1, <2>2, <2>3, <2>4 DEF t
<1>6. \A n \in 0 .. N : n \in S
    <2> HIDE DEF S, N
    <2> QED
        BY <1>1, <1>4, <1>5, Induction
<1>7. N \in S
    <2> HIDE DEF S
    <2> QED
        BY <1>1, <1>6
<1>8. \A k \in 0 .. N : k = 0 \/ k > N - N
    BY <1>1
<1> QED
    BY <1>7, <1>8

(* A program starts at its first instruction, executes what follows one    *)
(* that it executes, and stops before the exit only where nothing follows. *)
LEMMA VisitsGoOn ==
    ASSUME program \in Programs, NEW m
    PROVE  /\ 1 \in Visits(m) /\ Visits(m) \in SUBSET (0 .. Len(program.code))
           /\ \A pc \in Visits(m) :
                 /\ Successors(program.code, m, pc) \subseteq Visits(m)
                 /\ 0 \in Visits(m) /\ pc # 0 => Successors(program.code, m, pc) # {}
<1> DEFINE code == program.code
           N == Len(code)
           R == Run(code, m)
<1>1. N \in Nat \ {0} /\ Visits(m) = R[1]
    BY ProgramParts, VisitsIsRun
<1>2. 1 \in 0 .. N
    BY <1>1
<1>3. \A k \in 0 .. N : /\ R[k] \in SUBSET (0 .. N) /\ k \in R[k]
                        /\ \A l \in R[k] : R[l] \subseteq R[k] /\ (0 \in R[k] => 0 \in R[l])
    BY RunGoesOn DEF RestOfRun
<1>4. \A k \in 0 .. N : R[k] = RunStep(code, m, k, R)
    BY RunUnfolds
<1>5. ASSUME NEW pc \in R[1]
      PROVE  /\ Successors(code, m, pc) \subseteq R[1]
             /\ 0 \in R[1] /\ pc # 0 => Successors(code, m, pc) # {}
    <2> HIDE DEF R
    <2>1. pc \in 0 .. N /\ R[pc] \subseteq R[1] /\ (0 \in R[1] => 0 \in R[pc])
        BY <1>2, <1>3
    <2>2. CASE pc = 0
        BY <2>2 DEF Successors
    <2>3. CASE pc # 0
        <3>1. pc \in 1 .. N
            BY <1>1, <2>1, <2>3
        <3>2. code[pc].then \in 0 .. N /\ code[pc].else \in 0 .. N
            BY <3>1, ProgramParts
        <3>3. code[pc].then \in R[code[pc].then] /\ code[pc].else \in R[code[pc].else]
            BY <1>3, <3>2
        <3>4. \A x \in Successors(code, m, pc) : x \in RunStep(code, m, pc, R)
            BY <2>3, <3>3 DEF Successors, RunStep
        <3>5. Successors(code, m, pc) = {} => RunStep(code, m, pc, R) = {pc}
            BY <2>3 DEF Successors, RunStep
        <3> QED
            BY <1>4, <2>1, <2>3, <3>4, <3>5
    <2> QED
        BY <2>2, <2>3
<1> HIDE DEF R
<1> QED
    BY <1>1, <1>2, <1>3, <1>5

-----------------------------------------------------------------------------
(***************************************************************************)
(* The inductive invariant.                                                *)
(***************************************************************************)
(* The states and what has become of the others partition the inputs. *)
Partition(P, E) ==
    LET all == P \cup E
    IN  /\ \A p \in all : Models(p.cs) # {}
        /\ \A p, q \in all : p # q => Models(p.cs) \cap Models(q.cs) = {}
        /\ \A p \in P : \A m \in Models(p.cs) : p.pc \in Visits(m)
        /\ \A m \in Valuations :
              0 \in Visits(m) /\ ~Concretised(m) => \E p \in all : m \in Models(p.cs)

(* The states have well-formed constraints and are not among the ended. *)
PathsInv(P, E) ==
    /\ \A p \in P : p.cs \in SUBSET Exprs /\ p.pc \in 0 .. Len(program.code)
    /\ \A p \in P : p \notin E

(* What TestCasesReplay says, and that nothing is lost if the solver       *)
(* always answers.                                                         *)
TestsInv(E) ==
    \A p \in E :
        /\ \A t \in p.test :
              /\ t \in Models(p.cs)
              /\ program.prefs # << >> /\ Sure =>
                    \/ Holds(Head(program.prefs), t)
                    \/ \A m \in Models(p.cs) : ~Holds(Head(program.prefs), m)
        /\ Sure => p.how # "early" /\ p.test # {}

(* What the solvers keep is true; the states have well-formed constraints  *)
(* and partition the inputs; what has ended has its test case.             *)
SolverInv ==
    /\ options \in Options /\ program \in Programs /\ Good(solvers)
    /\ PathsInv(paths, ended) /\ Partition(paths, ended) /\ TestsInv(ended)

(* A state that takes the place of p: some of its inputs, at an            *)
(* instruction that the program executes with them.                        *)
Continues(p, n) ==
    /\ n.cs \in SUBSET Exprs /\ n.pc \in 0 .. Len(program.code)
    /\ Models(n.cs) # {} /\ Models(n.cs) \subseteq Models(p.cs)
    /\ \A m \in Models(n.cs) : n.pc \in Visits(m)

(* Those that take the place of p share its inputs, and lose only those    *)
(* that it must lose.                                                      *)
Splits(p, new) ==
    /\ \A n \in new : Continues(p, n)
    /\ \A n, k \in new : n # k => Models(n.cs) \cap Models(k.cs) = {}
    /\ \A m \in Models(p.cs) :
          0 \in Visits(m) /\ ~Concretised(m) => \E n \in new : m \in Models(n.cs)

(* A step of one state. *)
LEMMA ReplaceKeeps ==
    ASSUME NEW P, NEW E, PathsInv(P, E), Partition(P, E), NEW p \in P, NEW new,
           Splits(p, new)
    PROVE  PathsInv((P \ {p}) \cup new, E) /\ Partition((P \ {p}) \cup new, E)
<1> DEFINE Q == (P \ {p}) \cup new
<1> USE DEF Splits
<1>1. \A q \in (P \cup E) \ {p} : \A n \in new : Models(n.cs) \cap Models(q.cs) = {}
    <2>1. \A q \in (P \cup E) \ {p} : Models(p.cs) \cap Models(q.cs) = {}
        BY DEF Partition
    <2> QED
        BY <2>1 DEF Continues
<1>2. p \notin E /\ \A q \in P \cup E : Models(q.cs) # {}
    BY DEF PathsInv, Partition
<1>3. \A n \in new : n \notin E
    <2>1. \A n \in new, q \in E : Models(n.cs) \cap Models(q.cs) = {} /\ Models(n.cs) # {}
        BY <1>1, <1>2 DEF Continues
    <2> QED
        BY <2>1
<1>4. PathsInv(Q, E)
    BY <1>3 DEF PathsInv, Continues
<1>5. \A q \in Q \cup E : Models(q.cs) # {}
    BY <1>2 DEF Continues
<1>6. \A q, r \in Q \cup E : q # r => Models(q.cs) \cap Models(r.cs) = {}
    <2>1. \A q, r \in (P \cup E) \ {p} : q # r => Models(q.cs) \cap Models(r.cs) = {}
        BY DEF Partition
    <2>2. \A q \in Q \cup E : q \in (P \cup E) \ {p} \/ q \in new
        BY <1>2
    <2> HIDE DEF Q
    <2>3. ASSUME NEW q \in Q \cup E, NEW r \in Q \cup E, q # r
          PROVE  Models(q.cs) \cap Models(r.cs) = {}
        <3>1. CASE q \in new /\ r \in new
            BY <2>3, <3>1
        <3>2. CASE q \in new /\ r \notin new
            BY <1>1, <2>2, <3>2
        <3>3. CASE q \notin new /\ r \in new
            BY <1>1, <2>2, <3>3
        <3>4. CASE q \notin new /\ r \notin new
            BY <2>1, <2>2, <2>3, <3>4
        <3> QED
            BY <3>1, <3>2, <3>3, <3>4
    <2> QED
        BY <2>3
<1>7. \A q \in Q : \A m \in Models(q.cs) : q.pc \in Visits(m)
    BY DEF Partition, Continues
<1>8. ASSUME NEW m \in Valuations, 0 \in Visits(m), ~Concretised(m)
      PROVE  \E q \in Q \cup E : m \in Models(q.cs)
    <2>1. PICK q \in P \cup E : m \in Models(q.cs)
        BY <1>8 DEF Partition
    <2>2. CASE q = p
        BY <1>8, <2>1, <2>2
    <2>3. CASE q # p
        BY <2>1, <2>3
    <2> QED
        BY <2>2, <2>3
<1> HIDE DEF Q
<1>9. Partition(Q, E)
    BY <1>5, <1>6, <1>7, <1>8 DEF Partition
<1> QED
    BY <1>4, <1>9 DEF Q

(* A state that ends keeps its inputs. *)
LEMMA EndKeeps ==
    ASSUME NEW P, NEW E, PathsInv(P, E), Partition(P, E), NEW p \in P, NEW e, e.cs = p.cs
    PROVE  PathsInv(P \ {p}, E \cup {e}) /\ Partition(P \ {p}, E \cup {e})
<1> DEFINE Q == P \ {p}
           F == E \cup {e}
<1>1. /\ \A q \in (P \cup E) \ {p} : Models(e.cs) \cap Models(q.cs) = {}
      /\ Models(e.cs) # {} /\ p \notin E
    BY DEF Partition, PathsInv
<1>2. e \notin Q
    BY <1>1
<1>3. PathsInv(Q, F)
    BY <1>2 DEF PathsInv
<1>4. \A q \in Q \cup F : Models(q.cs) # {}
    BY <1>1 DEF Partition
<1>5. \A q \in Q \cup F : q = e \/ q \in (P \cup E) \ {p}
    BY <1>1
<1>6. \A q, r \in Q \cup F : q # r => Models(q.cs) \cap Models(r.cs) = {}
    <2>1. \A q, r \in (P \cup E) \ {p} : q # r => Models(q.cs) \cap Models(r.cs) = {}
        BY DEF Partition
    <2> HIDE DEF Q, F
    <2> QED
        BY <1>1, <1>5, <2>1
<1>7. \A q \in Q : \A m \in Models(q.cs) : q.pc \in Visits(m)
    BY DEF Partition
<1>8. ASSUME NEW m \in Valuations, 0 \in Visits(m), ~Concretised(m)
      PROVE  \E q \in Q \cup F : m \in Models(q.cs)
    <2>1. PICK q \in P \cup E : m \in Models(q.cs)
        BY <1>8 DEF Partition
    <2> QED
        BY <2>1
<1> HIDE DEF Q, F
<1>9. Partition(Q, F)
    BY <1>4, <1>6, <1>7, <1>8 DEF Partition
<1> QED
    BY <1>3, <1>9 DEF Q, F

(* A state goes on with a part of its inputs, at what follows for them. *)
LEMMA AdvanceContinues ==
    ASSUME program \in Programs, NEW P, NEW E, PathsInv(P, E), Partition(P, E), NEW p \in P,
           NEW C \in SUBSET Exprs, Models(C) # {}, Models(C) \subseteq Models(p.cs),
           NEW t, \A m \in Models(C) : t \in Successors(program.code, m, p.pc)
    PROVE  Continues(p, Advance(C, t))
<1>1. Advance(C, t).cs = C /\ Advance(C, t).pc = t
    BY DEF Advance
<1>2. \A m \in Models(C) : t \in Visits(m) /\ Visits(m) \in SUBSET (0 .. Len(program.code))
    BY VisitsGoOn DEF Partition
<1> QED
    BY <1>1, <1>2 DEF Continues

(* The configuration and the program never change, so that what is said of *)
(* the next state is said of its solvers, states and ended ones.           *)
LEMMA NextInv ==
    ASSUME SolverInv, UNCHANGED <<options, program>>, Good(solvers'),
           PathsInv(paths', ended'), Partition(paths', ended'), TestsInv(ended')
    PROVE  SolverInv'
<1>1. options' = options /\ program' = program
    OBVIOUS
<1>2. ASSUME NEW m PROVE Visits(m)' = Visits(m)
    <2>1. Visits(m)' = Run(program'.code, m)[1]
        BY Zenon DEF Visits, Run, RunStep
    <2> QED
        BY <1>1, <2>1, VisitsIsRun
<1>3. ASSUME NEW m PROVE Concretised(m)' <=> Concretised(m)
    BY <1>1, <1>2 DEF Concretised
<1>4. Sure' <=> Sure
    BY <1>1 DEF Sure
<1>5. Good(solvers)'
    BY <1>4 DEF Good
<1>6. PathsInv(paths, ended)'
    BY <1>1 DEF PathsInv
<1>7. Partition(paths, ended)'
    BY <1>2, <1>3 DEF Partition
<1>8. TestsInv(ended)'
    BY <1>1, <1>4 DEF TestsInv
<1> QED
    BY <1>1, <1>5, <1>6, <1>7, <1>8 DEF SolverInv

(* A state ends with its test case. *)
LEMMA EndInv ==
    ASSUME SolverInv, UNCHANGED <<options, program>>, NEW p \in paths, NEW how, NEW c, Good(c),
           End(p, how, c), Sure => how # "early"
    PROVE  SolverInv'
<1>1. PICK o \in getSymbolicSolution(p.cs, c) :
         /\ solvers' = o.c
         /\ paths' = paths \ {p}
         /\ ended' = ended \cup {[cs |-> p.cs, how |-> how, test |-> o.v]}
    BY DEF End
<1> DEFINE e == [cs |-> p.cs, how |-> how, test |-> o.v]
<1>2. p.cs \in SUBSET Exprs /\ Models(p.cs) # {} /\ program.prefs \in Seq(Exprs)
    BY ProgramParts DEF SolverInv, PathsInv, Partition
<1>3. TestOf(p.cs, o)
    BY <1>1, <1>2, SymbolicSolutionHolds
<1>4. e.cs = p.cs /\ e.how = how /\ e.test = o.v
    OBVIOUS
<1> HIDE DEF e
<1>5. PathsInv(paths \ {p}, ended \cup {e}) /\ Partition(paths \ {p}, ended \cup {e})
    BY <1>4, EndKeeps DEF SolverInv
<1>6. TestsInv(ended \cup {e})
    <2>1. TestsInv(ended)
        BY DEF SolverInv
    <2>2. TestsInv({e})
        BY <1>3, <1>4 DEF TestsInv, TestOf
    <2> QED
        BY <2>1, <2>2 DEF TestsInv
<1>7. Good(solvers')
    BY <1>1, <1>3 DEF TestOf
<1>8. paths' = paths \ {p} /\ ended' = ended \cup {e}
    BY <1>1 DEF e
<1> QED
    BY <1>5, <1>6, <1>7, <1>8, NextInv

(* A state is replaced. *)
LEMMA ReplaceInv ==
    ASSUME SolverInv, UNCHANGED <<options, program, ended>>, Good(solvers'),
           NEW p \in paths, NEW new, Replace(p, new), Splits(p, new)
    PROVE  SolverInv'
<1>1. paths' = (paths \ {p}) \cup new /\ ended' = ended
    BY DEF Replace
<1>2. PathsInv((paths \ {p}) \cup new, ended) /\ Partition((paths \ {p}) \cup new, ended)
    <2>1. PathsInv(paths, ended) /\ Partition(paths, ended)
        BY DEF SolverInv
    <2> QED
        BY <2>1, ReplaceKeeps
<1>3. TestsInv(ended)
    BY DEF SolverInv
<1> QED
    BY <1>1, <1>2, <1>3, NextInv

(* A failure that nobody handles ends the process: never if the solver     *)
(* always answers.                                                         *)
LEMMA UnhandledInv ==
    ASSUME SolverInv, UNCHANGED <<options, program, paths, ended>>, ~Sure, NEW c, Good(c),
           solvers' = Unhandled(c)
    PROVE  SolverInv'
<1> DEFINE d == Unhandled(c)
<1>1. /\ DOMAIN d = DOMAIN c /\ d.failed = c.failed /\ d.cex = c.cex /\ d.table = c.table
      /\ d.branch = c.branch /\ d.aborted = TRUE
    BY DEF Unhandled, Good
<1> HIDE DEF d
<1>2. Good(d)
    BY <1>1 DEF Good
<1>3. Good(solvers')
    BY <1>2 DEF d
<1>4. PathsInv(paths', ended') /\ Partition(paths', ended') /\ TestsInv(ended')
    BY DEF SolverInv
<1> QED
    BY <1>3, <1>4, NextInv

(* A right answer to evaluate and what it says of the solutions. *)
LEMMA ValiditySays ==
    ASSUME NEW C \in SUBSET Exprs, NEW e \in Exprs, NEW v, v = ValidityOf(Query(C, e))
    PROVE  \/ v = "True" /\ \A m \in Models(C) : Holds(e, m)
           \/ v = "False" /\ \A m \in Models(C) : ~Holds(e, m)
           \/ /\ v = "Unknown"
              /\ \E m \in Models(C) : Holds(e, m)
              /\ \E m \in Models(C) : ~Holds(e, m)
<1> DEFINE q == Query(C, e)
<1>1. q \in Queries /\ q.cs = C /\ q.e = e
    BY QueryFields
<1> HIDE DEF q
<1>2. /\ Refuting(q) = {} <=> \A m \in Models(C) : Holds(e, m)
      /\ Refuting(negateExpr(q)) = {} <=> \A m \in Models(C) : ~Holds(e, m)
    BY <1>1, ValidityFacts
<1>3. v = IF Refuting(q) = {} THEN "True"
          ELSE IF Refuting(negateExpr(q)) = {} THEN "False" ELSE "Unknown"
    BY DEF ValidityOf, q
<1> QED
    BY <1>2, <1>3

(* The instruction that a state is at. *)
LEMMA AtInstruction ==
    ASSUME SolverInv, NEW p \in paths, p.pc # 0, NEW i, i = program.code[p.pc]
    PROVE  /\ p.cs \in SUBSET Exprs /\ Models(p.cs) # {} /\ i.e \in Exprs /\ Negate(i.e) \in Exprs
           /\ program \in Programs /\ Good(solvers) /\ PathsInv(paths, ended) /\ Partition(paths, ended)
           /\ \A m \in Models(p.cs) : p.pc \in Visits(m)
           /\ i.op = "value" => \A m : Successors(program.code, m, p.pc) = {i.then}
           /\ i.op = "value" => \A m \in Models(p.cs) : Concretised(m)
           /\ \A m : Holds(i.e, m) => Successors(program.code, m, p.pc) = {i.then}
           /\ i.op = "branch" => \A m : ~Holds(i.e, m) => Successors(program.code, m, p.pc) = {i.else}
           /\ i.op = "assume" => \A m : ~Holds(i.e, m) => Successors(program.code, m, p.pc) = {}
<1>1. /\ p.cs \in SUBSET Exprs /\ p.pc \in 0 .. Len(program.code) /\ Models(p.cs) # {}
      /\ program \in Programs /\ Good(solvers) /\ PathsInv(paths, ended) /\ Partition(paths, ended)
    BY DEF SolverInv, PathsInv, Partition
<1>2. p.pc \in 1 .. Len(program.code)
    BY <1>1, ProgramParts
<1>3. i.e \in Exprs /\ Negate(i.e) \in Exprs
    BY <1>1, <1>2, ProgramParts, NegateHolds
<1>4. \A m \in Models(p.cs) : p.pc \in Visits(m)
    BY <1>1 DEF Partition
<1>5. i.op = "value" => \A m \in Models(p.cs) : Concretised(m)
    BY <1>4 DEF Concretised
<1>6. /\ i.op = "value" => \A m : Successors(program.code, m, p.pc) = {i.then}
      /\ \A m : Holds(i.e, m) => Successors(program.code, m, p.pc) = {i.then}
      /\ i.op = "branch" => \A m : ~Holds(i.e, m) => Successors(program.code, m, p.pc) = {i.else}
      /\ i.op = "assume" => \A m : ~Holds(i.e, m) => Successors(program.code, m, p.pc) = {}
    BY DEF Successors
<1> QED
    BY <1>1, <1>3, <1>4, <1>5, <1>6

(* Executor::fork keeps the invariant. *)
LEMMA BranchKeeps ==
    ASSUME SolverInv, Branch
    PROVE  SolverInv'
<1>1. PICK p \in paths :
         /\ Executing(p, "branch")
         /\ LET i == program.code[p.pc]
            IN  \E o \in evaluate(p.cs, i.e, solvers) :
                   \/ o.v = {} /\ End(p, "early", o.c)
                   \/ /\ o.v # {} /\ solvers' = o.c
                      /\ Replace(p, CASE o.v = {"True"} -> {Advance(p.cs, i.then)}
                                      [] o.v = {"False"} -> {Advance(p.cs, i.else)}
                                      [] OTHER -> {Advance(Add(p.cs, i.e), i.then),
                                                   Advance(Add(p.cs, Negate(i.e)), i.else)})
                      /\ UNCHANGED ended
    BY Zenon DEF Branch
<1> DEFINE i == program.code[p.pc]
           new(v) == CASE v = {"True"} -> {Advance(p.cs, i.then)}
                       [] v = {"False"} -> {Advance(p.cs, i.else)}
                       [] OTHER -> {Advance(Add(p.cs, i.e), i.then),
                                    Advance(Add(p.cs, Negate(i.e)), i.else)}
<1>2. UNCHANGED <<options, program>>
    BY Zenon DEF Branch
<1>3. PICK o \in evaluate(p.cs, i.e, solvers) :
         \/ o.v = {} /\ End(p, "early", o.c)
         \/ o.v # {} /\ solvers' = o.c /\ Replace(p, new(o.v)) /\ UNCHANGED ended
    BY <1>1, Zenon
<1>4. p.pc # 0 /\ i.op = "branch"
    BY <1>1 DEF Executing
<1>5. new({"True"}) = {Advance(p.cs, i.then)}
    BY Zenon
<1>6. new({"False"}) = {Advance(p.cs, i.else)}
    <2>1. {"True"} # {"False"}
        OBVIOUS
    <2> QED
        BY <2>1
<1>7. new({"Unknown"}) = {Advance(Add(p.cs, i.e), i.then), Advance(Add(p.cs, Negate(i.e)), i.else)}
    <2>1. {"True"} # {"Unknown"} /\ {"False"} # {"Unknown"}
        OBVIOUS
    <2> QED
        BY <2>1
<1> HIDE DEF i, new
<1>8. /\ p.cs \in SUBSET Exprs /\ Models(p.cs) # {} /\ i.e \in Exprs /\ Negate(i.e) \in Exprs
      /\ program \in Programs /\ Good(solvers) /\ PathsInv(paths, ended) /\ Partition(paths, ended)
      /\ \A m : Holds(i.e, m) => Successors(program.code, m, p.pc) = {i.then}
      /\ \A m : ~Holds(i.e, m) => Successors(program.code, m, p.pc) = {i.else}
    BY <1>4, AtInstruction DEF i
<1>9. Answers(evaluate(p.cs, i.e, solvers), {ValidityOf(Query(p.cs, i.e))})
    BY <1>8, EvaluateAnswers
<1>10. Good(o.c) /\ ((o.v = {} /\ ~Sure) \/ o.v = {ValidityOf(Query(p.cs, i.e))})
    BY <1>9 DEF Answers
<1>11. CASE o.v = {}
    <2>1. End(p, "early", o.c) /\ ~Sure
        BY <1>3, <1>10, <1>11
    <2> QED
        BY <1>2, <1>10, <2>1, EndInv
<1>12. CASE o.v = {ValidityOf(Query(p.cs, i.e))}
    <2> DEFINE v == ValidityOf(Query(p.cs, i.e))
    <2>1. o.v # {} /\ solvers' = o.c /\ Replace(p, new({v})) /\ UNCHANGED <<options, program, ended>>
        BY <1>2, <1>3, <1>12
    <2>2. \/ v = "True" /\ \A m \in Models(p.cs) : Holds(i.e, m)
          \/ v = "False" /\ \A m \in Models(p.cs) : ~Holds(i.e, m)
          \/ /\ v = "Unknown"
             /\ \E m \in Models(p.cs) : Holds(i.e, m)
             /\ \E m \in Models(p.cs) : ~Holds(i.e, m)
        BY <1>8, ValiditySays
    <2> HIDE DEF v
    <2>3. ASSUME NEW t, Replace(p, {Advance(p.cs, t)}),
                 \A m \in Models(p.cs) : Successors(program.code, m, p.pc) = {t}
          PROVE  SolverInv'
        <3> DEFINE n == Advance(p.cs, t)
        <3>1. Continues(p, n)
            BY <1>8, <2>3, AdvanceContinues
        <3>2. n.cs = p.cs
            BY DEF Advance
        <3>3. Replace(p, {n})
            BY <2>3
        <3> HIDE DEF n
        <3> QED
            BY <1>10, <2>1, <3>1, <3>2, <3>3, ReplaceInv DEF Splits
    <2>4. CASE v = "True"
        BY <1>5, <1>8, <2>1, <2>2, <2>3, <2>4
    <2>5. CASE v = "False"
        BY <1>6, <1>8, <2>1, <2>2, <2>3, <2>5
    <2>6. CASE v = "Unknown"
        <3> DEFINE D == Add(p.cs, i.e)
                   E == Add(p.cs, Negate(i.e))
                   n == Advance(D, i.then)
                   k == Advance(E, i.else)
        <3>1. /\ D \in SUBSET Exprs /\ \A m : m \in Models(D) <=> m \in Models(p.cs) /\ Holds(i.e, m)
              /\ E \in SUBSET Exprs /\ \A m : m \in Models(E) <=> m \in Models(p.cs) /\ ~Holds(i.e, m)
            BY <1>8, AddHolds, NegateHolds
        <3>2. n.cs = D /\ k.cs = E
            BY DEF Advance
        <3>3. Replace(p, {n, k})
            BY <1>7, <2>1, <2>6
        <3> HIDE DEF D, E
        <3>4. Models(D) # {} /\ Models(E) # {}
            BY <2>2, <2>6, <3>1
        <3>5. Continues(p, n)
            BY <1>8, <3>1, <3>4, AdvanceContinues
        <3>6. Continues(p, k)
            BY <1>8, <3>1, <3>4, AdvanceContinues
        <3> HIDE DEF n, k
        <3>7. \A x, y \in {n, k} : x # y => Models(x.cs) \cap Models(y.cs) = {}
            BY <3>1, <3>2
        <3>8. \A m \in Models(p.cs) : \E x \in {n, k} : m \in Models(x.cs)
            BY <3>1, <3>2
        <3> QED
            BY <1>10, <2>1, <3>3, <3>5, <3>6, <3>7, <3>8, ReplaceInv DEF Splits
    <2> QED
        BY <2>2, <2>4, <2>5, <2>6
<1> QED
    BY <1>10, <1>11, <1>12

(* handleAssume keeps the invariant. *)
LEMMA AssumeKeeps ==
    ASSUME SolverInv, Assume
    PROVE  SolverInv'
<1>1. PICK p \in paths :
         /\ Executing(p, "assume")
         /\ LET i == program.code[p.pc]
            IN  \E o \in mustBeTrue(p.cs, Negate(i.e), solvers) :
                   \/ o.v = {} /\ solvers' = Unhandled(o.c) /\ UNCHANGED <<paths, ended>>
                   \/ o.v = {TRUE} /\ End(p, "assume", o.c)
                   \/ /\ o.v = {FALSE} /\ solvers' = o.c
                      /\ Replace(p, {Advance(Add(p.cs, i.e), i.then)})
                      /\ UNCHANGED ended
    BY Zenon DEF Assume
<1> DEFINE i == program.code[p.pc]
           D == Add(p.cs, i.e)
           n == Advance(D, i.then)
<1>2. UNCHANGED <<options, program>>
    BY Zenon DEF Assume
<1>3. PICK o \in mustBeTrue(p.cs, Negate(i.e), solvers) :
         \/ o.v = {} /\ solvers' = Unhandled(o.c) /\ UNCHANGED <<paths, ended>>
         \/ o.v = {TRUE} /\ End(p, "assume", o.c)
         \/ o.v = {FALSE} /\ solvers' = o.c /\ Replace(p, {n}) /\ UNCHANGED ended
    BY <1>1, Zenon
<1>4. p.pc # 0 /\ i.op = "assume"
    BY <1>1 DEF Executing
<1>5. n.cs = D
    BY DEF Advance
<1> HIDE DEF i
<1>6. /\ p.cs \in SUBSET Exprs /\ Models(p.cs) # {} /\ i.e \in Exprs /\ Negate(i.e) \in Exprs
      /\ program \in Programs /\ Good(solvers) /\ PathsInv(paths, ended) /\ Partition(paths, ended)
      /\ \A m \in Models(p.cs) : p.pc \in Visits(m)
      /\ \A m : Holds(i.e, m) => Successors(program.code, m, p.pc) = {i.then}
      /\ \A m : ~Holds(i.e, m) => Successors(program.code, m, p.pc) = {}
    BY <1>4, AtInstruction DEF i
<1>7. Answers(mustBeTrue(p.cs, Negate(i.e), solvers), TruthAnswers(Query(p.cs, Negate(i.e))))
    BY <1>6, MustBeTrueAnswers
<1>8. Good(o.c) /\ ((o.v = {} /\ ~Sure) \/ \E b \in TruthAnswers(Query(p.cs, Negate(i.e))) : o.v = {b})
    BY <1>7 DEF Answers
<1>9. CASE o.v = {} /\ ~Sure
    <2>1. solvers' = Unhandled(o.c) /\ UNCHANGED <<paths, ended>>
        BY <1>3, <1>9
    <2> QED
        BY <1>2, <1>8, <1>9, <2>1, UnhandledInv
<1>10. CASE o.v = {TRUE} /\ End(p, "assume", o.c)
    BY <1>2, <1>8, <1>10, EndInv
<1>11. CASE o.v = {FALSE} /\ solvers' = o.c /\ Replace(p, {n}) /\ UNCHANGED ended
    <2>1. \E m \in Models(p.cs) : Holds(i.e, m)
        <3>1. PICK b \in TruthAnswers(Query(p.cs, Negate(i.e))) : o.v = {b}
            BY <1>8, <1>11
        <3>2. b = FALSE
            BY <1>11, <3>1
        <3> QED
            BY <1>6, <3>2, TruthFacts
    <2>2. D \in SUBSET Exprs /\ \A m : m \in Models(D) <=> m \in Models(p.cs) /\ Holds(i.e, m)
        BY <1>6, AddHolds
    <2> HIDE DEF D
    <2>3. Continues(p, n)
        BY <1>6, <2>1, <2>2, AdvanceContinues
    <2> HIDE DEF n
    <2>4. ASSUME NEW m \in Models(p.cs), 0 \in Visits(m) PROVE m \in Models(n.cs)
        <3>1. Successors(program.code, m, p.pc) # {}
            BY <1>4, <1>6, <2>4, VisitsGoOn
        <3> QED
            BY <1>5, <1>6, <2>2, <3>1
    <2>5. Splits(p, {n})
        BY <2>3, <2>4 DEF Splits
    <2> QED
        BY <1>2, <1>8, <1>11, <2>5, ReplaceInv
<1> QED
    BY <1>3, <1>8, <1>9, <1>10, <1>11

(* toConstant keeps the invariant: the value is that of an input. *)
LEMMA ToConstantKeeps ==
    ASSUME SolverInv, ToConstant
    PROVE  SolverInv'
<1>1. PICK p \in paths :
         /\ Executing(p, "value")
         /\ LET i == program.code[p.pc]
            IN  \E o \in getValue(p.cs, i.e, solvers) :
                   \/ o.v = {} /\ solvers' = Unhandled(o.c) /\ UNCHANGED <<paths, ended>>
                   \/ /\ o.v # {} /\ solvers' = o.c
                      /\ Replace(p, {Advance(Add(p.cs, IF o.v = {TRUE} THEN i.e ELSE Negate(i.e)), i.then)})
                      /\ UNCHANGED ended
    BY Zenon DEF ToConstant
<1> DEFINE i == program.code[p.pc]
           f(v) == IF v = {TRUE} THEN i.e ELSE Negate(i.e)
           n(v) == Advance(Add(p.cs, f(v)), i.then)
<1>2. UNCHANGED <<options, program>>
    BY Zenon DEF ToConstant
<1>3. PICK o \in getValue(p.cs, i.e, solvers) :
         \/ o.v = {} /\ solvers' = Unhandled(o.c) /\ UNCHANGED <<paths, ended>>
         \/ o.v # {} /\ solvers' = o.c /\ Replace(p, {n(o.v)}) /\ UNCHANGED ended
    BY <1>1, Zenon
<1>4. p.pc # 0 /\ i.op = "value"
    BY <1>1 DEF Executing
<1> HIDE DEF i
<1>5. /\ p.cs \in SUBSET Exprs /\ Models(p.cs) # {} /\ i.e \in Exprs /\ Negate(i.e) \in Exprs
      /\ program \in Programs /\ Good(solvers) /\ PathsInv(paths, ended) /\ Partition(paths, ended)
      /\ \A m \in Models(p.cs) : Concretised(m)
      /\ \A m : Successors(program.code, m, p.pc) = {i.then}
    BY <1>4, AtInstruction DEF i
<1>6. Answers(getValue(p.cs, i.e, solvers), ValueAnswers(Query(p.cs, i.e)))
    BY <1>5, GetValueAnswers
<1>7. Good(o.c) /\ ((o.v = {} /\ ~Sure) \/ \E b \in ValueAnswers(Query(p.cs, i.e)) : o.v = {b})
    BY <1>6 DEF Answers
<1>8. CASE o.v = {} /\ ~Sure
    <2>1. solvers' = Unhandled(o.c) /\ UNCHANGED <<paths, ended>>
        BY <1>3, <1>8
    <2> QED
        BY <1>2, <1>7, <1>8, <2>1, UnhandledInv
<1>9. ASSUME NEW b \in ValueAnswers(Query(p.cs, i.e)), o.v = {b} PROVE SolverInv'
    <2> DEFINE g == f(o.v)
               D == Add(p.cs, g)
               k == Advance(D, i.then)
    <2>1. o.v # {} /\ solvers' = o.c /\ Replace(p, {k}) /\ UNCHANGED ended
        BY <1>3, <1>9
    <2>2. PICK m \in Models(p.cs) : b \in BOOLEAN /\ (b <=> Holds(i.e, m))
        BY <1>5, QueryFields DEF ValueAnswers
    <2>3. g \in Exprs /\ Holds(g, m)
        <3>1. CASE b = TRUE
            <4>1. g = i.e
                BY <1>9, <3>1
            <4> QED
                BY <1>5, <2>2, <3>1, <4>1
        <3>2. CASE b = FALSE
            <4>1. {FALSE} # {TRUE}
                OBVIOUS
            <4>2. g = Negate(i.e)
                BY <1>9, <3>2, <4>1
            <4> QED
                BY <1>5, <2>2, <3>2, <4>2, NegateHolds
        <3> QED
            BY <2>2, <3>1, <3>2
    <2> HIDE DEF g
    <2>4. D \in SUBSET Exprs /\ \A x : x \in Models(D) <=> x \in Models(p.cs) /\ Holds(g, x)
        BY <1>5, <2>3, AddHolds
    <2> HIDE DEF D
    <2>5. Continues(p, k)
        BY <1>5, <2>2, <2>3, <2>4, AdvanceContinues
    <2> HIDE DEF k
    <2>6. Splits(p, {k})
        BY <1>5, <2>5 DEF Splits
    <2> QED
        BY <1>2, <1>7, <2>1, <2>6, ReplaceInv
<1> QED
    BY <1>7, <1>8, <1>9

(* Every step keeps the invariant. *)
LEMMA StepKeepsSolverInv ==
    ASSUME SolverInv, [Next]_vars
    PROVE  SolverInv'
<1>1. CASE Branch
    BY <1>1, BranchKeeps
<1>2. CASE Assume
    BY <1>2, AssumeKeeps
<1>3. CASE ToConstant
    BY <1>3, ToConstantKeeps
<1>4. CASE Exit
    <2>1. PICK p \in paths : End(p, "exit", solvers)
        BY <1>4 DEF Exit
    <2>2. UNCHANGED <<options, program>> /\ Good(solvers)
        BY <1>4 DEF Exit, SolverInv
    <2> QED
        BY <2>1, <2>2, EndInv
<1>5. CASE UNCHANGED vars
    <2>1. /\ UNCHANGED <<options, program>>
          /\ solvers' = solvers /\ paths' = paths /\ ended' = ended
        BY <1>5 DEF vars
    <2>2. /\ Good(solvers') /\ PathsInv(paths', ended') /\ Partition(paths', ended')
          /\ TestsInv(ended')
        BY <2>1 DEF SolverInv
    <2> QED
        BY <2>1, <2>2, NextInv
<1> QED
    BY <1>1, <1>2, <1>3, <1>4, <1>5, Zenon DEF Next, Stopped

(* It holds at the start: one state, with all inputs. *)
LEMMA InitSolverInv ==
    ASSUME Init
    PROVE  SolverInv
<1> DEFINE p == [cs |-> {}, pc |-> 1]
<1>1. /\ options \in Options /\ program \in Programs /\ paths = {p} /\ ended = {}
      /\ solvers = [branch |-> << >>, cex |-> << >>, table |-> {}, failed |-> FALSE, aborted |-> FALSE]
    BY DEF Init
<1>2. p.cs = {} /\ p.pc = 1 /\ 1 \in 0 .. Len(program.code)
    BY <1>1, ProgramParts
<1>3. Good(solvers)
    <2>1. /\ DOMAIN solvers = {"branch", "cex", "table", "failed", "aborted"}
          /\ solvers.failed = FALSE /\ solvers.aborted = FALSE /\ solvers.table = {}
          /\ solvers.cex = << >> /\ solvers.branch = << >> /\ DOMAIN << >> = {}
        BY <1>1
    <2> QED
        BY <2>1 DEF Good
<1> HIDE DEF p
<1>4. Models(p.cs) = Valuations /\ Valuations # {}
    <2>1. [x \in Elements |-> 0] \in Valuations
        BY ExpressionsAssumption DEF Valuations
    <2> QED
        BY <1>2, <2>1 DEF Models
<1>5. PathsInv(paths, ended)
    BY <1>1, <1>2 DEF PathsInv
<1>6. Partition(paths, ended)
    BY <1>1, <1>2, <1>4, VisitsGoOn DEF Partition
<1>7. TestsInv(ended)
    BY <1>1 DEF TestsInv
<1> QED
    BY <1>1, <1>3, <1>5, <1>6, <1>7 DEF SolverInv

-----------------------------------------------------------------------------
(***************************************************************************)
(* Theorems.                                                               *)
(***************************************************************************)
(* The inductive invariant holds of every configuration of the chain, for  *)
(* every program: what the caches keep is true, and the states partition   *)
(* the inputs.                                                             *)
THEOREM SolverInvTheorem == Spec => []SolverInv
<1>1. Init => SolverInv
    BY InitSolverInv
<1>2. SolverInv /\ [Next]_vars => SolverInv'
    BY StepKeepsSolverInv
<1> QED
    BY <1>1, <1>2, PTL DEF Spec

(* No assertion of a solver fails: the state has an assignment when the    *)
(* counterexample cache asks for one, the glued values satisfy the         *)
(* constraints, and no exact range becomes empty.                          *)
THEOREM NoFailedAssertionTheorem == Spec => []NoFailedAssertion
<1>1. SolverInv => NoFailedAssertion
    BY DEF SolverInv, Good, NoFailedAssertion
<1> QED
    BY <1>1, SolverInvTheorem, PTL

(* The counterexample cache keeps only what is true, whatever it is asked  *)
(* and whenever the core solver times out.                                 *)
THEOREM CounterexamplesHoldTheorem == Spec => []CounterexamplesHold
<1>1. SolverInv => CounterexamplesHold
    <2>1. HAVE SolverInv
    <2>2. ASSUME NEW K \in DOMAIN solvers.cex
          PROVE  IF solvers.cex[K] = {} THEN Models(K) = {}
                 ELSE \A a \in solvers.cex[K] : Satisfies(a, K)
        <3>1. CexFact(K, solvers.cex[K])
            BY <2>1 DEF SolverInv, Good
        <3> QED
            BY <3>1, SatisfiesModels DEF CexFact
    <2> QED
        BY <2>2 DEF CounterexamplesHold
<1> QED
    BY <1>1, SolverInvTheorem, PTL

(* The branch cache keeps only what is true, in both polarities. *)
THEOREM BranchesHoldTheorem == Spec => []BranchesHold
<1>1. SolverInv => BranchesHold
    <2>1. HAVE SolverInv
    <2>2. ASSUME NEW k \in DOMAIN solvers.branch
          PROVE  LET M == Models(k[1])
                     T == {m \in M : Holds(k[2], m)}
                 IN  CASE solvers.branch[k] = "MustBeTrue" -> T = M
                       [] solvers.branch[k] = "MustBeFalse" -> T = {}
                       [] solvers.branch[k] = "MayBeTrue" -> T # {}
                       [] solvers.branch[k] = "MayBeFalse" -> T # M
                       [] OTHER -> T # {} /\ T # M
        <3> DEFINE M == Models(k[1])
                   T == {m \in M : Holds(k[2], m)}
                   pv == solvers.branch[k]
        <3>1. BranchFact(k[1], k[2], pv)
            BY <2>1 DEF SolverInv, Good
        <3>2. \/ pv = "MustBeTrue" /\ T = M
              \/ pv = "MustBeFalse" /\ T = {}
              \/ pv = "MayBeTrue" /\ T # {}
              \/ pv = "MayBeFalse" /\ T # M
              \/ pv = "TrueOrFalse" /\ T # {} /\ T # M
            BY <3>1 DEF BranchFact
        <3> HIDE DEF M, T, pv
        <3>3. (CASE pv = "MustBeTrue" -> T = M
                 [] pv = "MustBeFalse" -> T = {}
                 [] pv = "MayBeTrue" -> T # {}
                 [] pv = "MayBeFalse" -> T # M
                 [] OTHER -> T # {} /\ T # M)
            BY <3>2
        <3> QED
            BY <3>3, Zenon DEF M, T, pv
    <2> QED
        BY <2>2, Zenon DEF BranchesHold
<1> QED
    BY <1>1, SolverInvTheorem, PTL

(* Exploration is sound and complete: the states and what has become of    *)
(* the others partition the inputs, although every answer is computed from *)
(* a part of the constraints or taken from a cache.                        *)
THEOREM PathsPartitionInputsTheorem == Spec => []PathsPartitionInputs
<1>1. SolverInv => PathsPartitionInputs
    BY DEF SolverInv, Partition, PathsPartitionInputs
<1> QED
    BY <1>1, SolverInvTheorem, PTL

(* A test case replays the path it was written for. *)
THEOREM TestCasesReplayTheorem == Spec => []TestCasesReplay
<1>1. SolverInv => TestCasesReplay
    BY DEF SolverInv, TestsInv, TestCasesReplay, Sure
<1> QED
    BY <1>1, SolverInvTheorem, PTL

(* Without a timeout nothing is lost. *)
THEOREM NoLossWithoutTimeoutTheorem == Spec => []NoLossWithoutTimeout
<1>1. SolverInv => NoLossWithoutTimeout
    BY DEF SolverInv, TestsInv, Good, NoLossWithoutTimeout, Sure
<1> QED
    BY <1>1, SolverInvTheorem, PTL
=============================================================================
