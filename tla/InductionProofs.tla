--------------------------- MODULE InductionProofs ---------------------------
(***************************************************************************)
(* Induction and recursion on numbers, for functions that a module defines *)
(* by recursion: a set, or a function from steps to functions, stands for  *)
(* the predicate or the body of the definition.                            *)
(***************************************************************************)
EXTENDS Integers, WellFoundedInduction, TLAPS

(* A set of numbers has a least one. *)
LEMMA LeastNat ==
    ASSUME NEW S \in SUBSET Nat, S # {}
    PROVE  \E n \in S : \A m \in S : n <= m
<1>1. PICK n \in S : \A m \in S : ~(<<m, n>> \in OpToRel(<, Nat))
    BY NatLessThanWellFounded, WFMin
<1>2. \A m \in S : <<m, n>> \in OpToRel(<, Nat) <=> m < n
    BY DEF OpToRel
<1>3. \A m \in S : ~(m < n)
    BY <1>1, <1>2, Zenon
<1> QED
    BY <1>3

(* A set that holds 0, and the next of each number up to N. *)
LEMMA Induction ==
    ASSUME NEW N \in Nat, NEW S, 0 \in S, \A n \in 0 .. N - 1 : n \in S => n + 1 \in S
    PROVE  \A n \in 0 .. N : n \in S
<1>1. SUFFICES ASSUME (0 .. N) \ S # {} PROVE FALSE
    OBVIOUS
<1> DEFINE R == (0 .. N) \ S
<1>2. PICK n \in R : \A m \in R : n <= m
    <2>1. R \in SUBSET Nat /\ R # {}
        BY <1>1
    <2> HIDE DEF R
    <2> QED
        BY <2>1, LeastNat
<1>3. n # 0 /\ n - 1 \in 0 .. N - 1 /\ n - 1 \in S
    BY <1>2
<1> QED
    BY <1>2, <1>3

(* The bodies of a recursion of N steps on values of T, and the functions  *)
(* that start with b and follow one.                                       *)
Steps(N, T) == [1 .. N -> [T -> T]]
Follows(f, T, b, N, G) ==
    /\ f \in [0 .. N -> T] /\ f[0] = b
    /\ \A n \in 1 .. N : f[n] = G[n][f[n - 1]]

(* There is such a function: what a recursive definition chooses exists. *)
LEMMA Recursion ==
    ASSUME NEW T, NEW b \in T, NEW N \in Nat, NEW G \in Steps(N, T)
    PROVE  \E f : Follows(f, T, b, N, G)
<1> USE DEF Steps, Follows
<1> DEFINE Ok(k, f) == f \in [0 .. k -> T] /\ f[0] = b /\ \A n \in 1 .. k : f[n] = G[n][f[n - 1]]
           S == {k \in 0 .. N : \E f : Ok(k, f)}
<1>1. 0 \in S
    <2>1. Ok(0, [i \in 0 .. 0 |-> b])
        OBVIOUS
    <2> HIDE DEF Ok
    <2> QED
        BY <2>1
<1>2. ASSUME NEW k \in 0 .. N - 1, k \in S
      PROVE  k + 1 \in S
    <2>1. PICK f : Ok(k, f)
        BY <1>2
    <2> DEFINE g == [i \in 0 .. k + 1 |-> IF i = k + 1 THEN G[k + 1][f[k]] ELSE f[i]]
    <2>2. f[k] \in T /\ k + 1 \in 1 .. N /\ G[k + 1][f[k]] \in T
        BY <2>1
    <2>3. g \in [0 .. k + 1 -> T]
        BY <2>1, <2>2
    <2>4. ASSUME NEW n \in 1 .. k + 1 PROVE g[n] = G[n][g[n - 1]]
        <3>1. CASE n = k + 1
            BY <3>1
        <3>2. CASE n # k + 1
            BY <3>2, <2>1
        <3> QED
            BY <3>1, <3>2
    <2>5. g[0] = b
        BY <2>1
    <2>6. Ok(k + 1, g)
        BY <2>3, <2>4, <2>5
    <2> HIDE DEF Ok, g
    <2> QED
        BY <2>6
<1>3. N \in S
    <2> HIDE DEF S
    <2>1. \A n \in 0 .. N : n \in S
        BY <1>1, <1>2, Induction
    <2> QED
        BY <2>1
<1> QED
    BY <1>3

(* What the steps keep, every value of the recursion has. *)
LEMMA RecursionKeeps ==
    ASSUME NEW T, NEW N \in Nat, NEW W, W[0] \in T,
           \A n \in 1 .. N : W[n - 1] \in T => W[n] \in T
    PROVE  \A n \in 0 .. N : W[n] \in T
<1> DEFINE S == {n \in 0 .. N : W[n] \in T}
<1>1. 0 \in S
    OBVIOUS
<1>2. \A n \in 0 .. N - 1 : n \in S => n + 1 \in S
    OBVIOUS
<1> HIDE DEF S
<1>3. \A n \in 0 .. N : n \in S
    BY <1>1, <1>2, Induction
<1> QED
    BY <1>3 DEF S
=============================================================================
