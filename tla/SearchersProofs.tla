--------------------------- MODULE SearchersProofs ---------------------------
(***************************************************************************)
(* Regular chains of searchers agree with the executor and with each       *)
(* other, for any number of states and any choice of searchers.            *)
(***************************************************************************)
EXTENDS SearchersProperties, InductionProofs, SequenceTheorems, FiniteSetTheorems

(***************************************************************************)
(* Queues.                                                                 *)
(***************************************************************************)

(* Places f of q, in their order, hold the elements of w. *)
Places(f, w, q) ==
    /\ f \in [1 .. Len(w) -> 1 .. Len(q)]
    /\ \A i \in 1 .. Len(w) : w[i] = q[f[i]]
    /\ \A i, j \in 1 .. Len(w) : i < j => f[i] < f[j]

(* What is left of the first n elements. *)
KeptOf(w, q, n, S) ==
    /\ w \in Seq(ES)
    /\ \A i \in 1 .. n : q[i] \notin S => \E k \in 1 .. Len(w) : w[k] = q[i]
    /\ \E f : Places(f, w, q) /\ \A k \in 1 .. Len(w) : f[k] <= n /\ q[f[k]] \notin S

(* The recursion by which Without is defined. *)
WithoutBy(W, q, S) ==
    /\ \A n \in 0 .. Len(q) : W[n] \in Seq(ES)
    /\ Without(q, S) = W[Len(q)] /\ W[0] = << >>
    /\ \A n \in 1 .. Len(q) :
           IF q[n] \in S THEN W[n] = W[n - 1] ELSE W[n] = Append(W[n - 1], q[n])

(* Without goes through the queue. *)
LEMMA WithoutRecursion ==
    ASSUME NEW q \in Seq(ES), NEW S
    PROVE  \E W : WithoutBy(W, q, S)
<1> DEFINE N == Len(q)
           Q == Seq(ES)
           A(n, w) == IF q[n] \in S THEN w ELSE Append(w, q[n])
           F(W) == [n \in 0 .. N |-> IF n = 0 THEN << >> ELSE A(n, W[n - 1])]
           V == CHOOSE W : W = F(W)
<1>1. N \in Nat /\ << >> \in Q /\ \A n \in 1 .. N, w \in Q : A(n, w) \in Q
    OBVIOUS
<1>2. Without(q, S) = V[N]
    BY Zenon DEF Without
<1>3. SUFFICES (\A n \in 0 .. N : V[n] \in Q) /\ V[0] = << >> /\ \A n \in 1 .. N : V[n] = A(n, V[n - 1])
    <2> HIDE DEF V
    <2>1. SUFFICES WithoutBy(V, q, S)
        OBVIOUS
    <2> QED
        BY <1>2, <1>3 DEF WithoutBy
<1> HIDE DEF N, Q, A
<1>4. PICK f : f = F(f)
    <2> DEFINE G == [n \in 1 .. N |-> [w \in Q |-> A(n, w)]]
    <2>1. PICK f : Follows(f, Q, << >>, N, G)
        <3>1. G \in Steps(N, Q)
            BY <1>1 DEF Steps
        <3> HIDE DEF G
        <3> QED
            BY <1>1, <3>1, Recursion
    <2>2. \A n \in 1 .. N : f[n - 1] \in Q
        BY <1>1, <2>1 DEF Follows
    <2>3. \A n \in 1 .. N : f[n] = A(n, f[n - 1])
        BY <2>1, <2>2 DEF Follows
    <2>4. f = F(f)
        BY <1>1, <2>1, <2>3 DEF Follows
    <2> QED
        BY <2>4
<1>5. V = F(V)
    <2> HIDE DEF F
    <2> QED
        BY <1>4
<1> HIDE DEF V
<1>6. V[0] = << >> /\ \A n \in 1 .. N : V[n] = A(n, V[n - 1])
    BY <1>1, <1>5
<1>7. \A n \in 1 .. N : V[n - 1] \in Q => V[n] \in Q
    BY <1>1, <1>6
<1>8. \A n \in 0 .. N : V[n] \in Q
    BY <1>1, <1>6, <1>7, RecursionKeeps
<1> QED
    BY <1>6, <1>8

(* Without keeps the elements that are not in S, in their order. *)
LEMMA WithoutKeeps ==
    ASSUME NEW q \in Seq(ES), NEW S
    PROVE  KeptOf(Without(q, S), q, Len(q), S)
<1>1. PICK W : WithoutBy(W, q, S)
    BY WithoutRecursion
<1> DEFINE N == Len(q)
           P == {n \in 0 .. N : KeptOf(W[n], q, n, S)}
<1>2. N \in Nat /\ \A n \in 0 .. N : W[n] \in Seq(ES)
    BY <1>1 DEF WithoutBy
<1>3. 0 \in P
    <2>1. Places(<< >>, << >>, q)
        BY DEF Places
    <2>2. << >> \in Seq(ES) /\ Len(<< >>) = 0 /\ 1 .. 0 = {}
        OBVIOUS
    <2>3. KeptOf(<< >>, q, 0, S)
        BY <2>1, <2>2 DEF KeptOf
    <2> QED
        BY <1>1, <1>2, <2>3 DEF WithoutBy
<1>4. ASSUME NEW m \in 0 .. N - 1, m \in P
      PROVE  m + 1 \in P
    <2> DEFINE w == W[m]
               e == q[m + 1]
    <2>1. m + 1 \in 1 .. N /\ w \in Seq(ES) /\ e \in ES /\ m \in 0 .. N /\ m + 1 - 1 = m
        BY <1>2
    <2>2. KeptOf(w, q, m, S)
        BY <1>4
    <2>3. PICK f : Places(f, w, q) /\ \A k \in 1 .. Len(w) : f[k] <= m /\ q[f[k]] \notin S
        BY <2>2 DEF KeptOf
    <2>4. CASE e \in S
        <3>1. W[m + 1] = w
            BY <1>1, <2>1, <2>4 DEF WithoutBy
        <3>2. KeptOf(w, q, m + 1, S)
            <4>1. \A i \in 1 .. m + 1 : q[i] \notin S => i \in 1 .. m
                BY <2>1, <2>4
            <4>2. \A k \in 1 .. Len(w) : f[k] \in 1 .. N
                BY <2>3 DEF Places
            <4> QED
                BY <2>1, <2>2, <2>3, <4>1, <4>2 DEF KeptOf
        <3> QED
            BY <2>1, <3>1, <3>2
    <2>5. CASE e \notin S
        <3> DEFINE v == Append(w, e)
                   g == [k \in 1 .. Len(w) + 1 |-> IF k = Len(w) + 1 THEN m + 1 ELSE f[k]]
        <3>1. W[m + 1] = v
            BY <1>1, <2>1, <2>5 DEF WithoutBy
        <3>2. /\ v \in Seq(ES) /\ Len(v) = Len(w) + 1 /\ Len(w) \in Nat
              /\ v[Len(w) + 1] = e /\ \A k \in 1 .. Len(w) : v[k] = w[k]
            BY <2>1
        <3>3. \A k \in 1 .. Len(w) : f[k] \in 1 .. N /\ f[k] <= m
            BY <2>3 DEF Places
        <3>4. Places(g, v, q)
            <4>1. g \in [1 .. Len(v) -> 1 .. N]
                BY <2>1, <3>2, <3>3
            <4>2. \A i \in 1 .. Len(v) : v[i] = q[g[i]]
                BY <2>1, <2>3, <3>2 DEF Places
            <4>3. ASSUME NEW i \in 1 .. Len(v), NEW j \in 1 .. Len(v), i < j
                  PROVE  g[i] < g[j]
                <5>1. i \in 1 .. Len(w) /\ g[i] = f[i] /\ f[i] <= m /\ f[i] \in 1 .. N
                    BY <3>2, <3>3, <4>3
                <5>2. CASE j = Len(w) + 1
                    BY <2>1, <3>2, <5>1, <5>2
                <5>3. CASE j # Len(w) + 1
                    <6>1. j \in 1 .. Len(w) /\ g[j] = f[j]
                        BY <3>2, <5>3
                    <6> QED
                        BY <2>3, <4>3, <5>1, <6>1 DEF Places
                <5> QED
                    BY <5>2, <5>3
            <4> QED
                BY <4>1, <4>2, <4>3 DEF Places
        <3>5. ASSUME NEW k \in 1 .. Len(v)
              PROVE  g[k] <= m + 1 /\ q[g[k]] \notin S
            <4>1. CASE k = Len(w) + 1
                <5>1. g[k] = m + 1
                    BY <3>2, <4>1
                <5> QED
                    BY <2>1, <2>5, <5>1
            <4>2. CASE k # Len(w) + 1
                <5>1. k \in 1 .. Len(w) /\ g[k] = f[k]
                    BY <3>2, <4>2
                <5> HIDE DEF g, v
                <5> QED
                    BY <2>1, <2>3, <3>3, <5>1
            <4> QED
                BY <4>1, <4>2
        <3>6. \A i \in 1 .. m + 1 : q[i] \notin S => \E k \in 1 .. Len(v) : v[k] = q[i]
            <4>1. SUFFICES ASSUME NEW i \in 1 .. m + 1, q[i] \notin S
                           PROVE  \E k \in 1 .. Len(v) : v[k] = q[i]
                OBVIOUS
            <4>2. CASE i = m + 1
                BY <3>2, <4>2
            <4>3. CASE i # m + 1
                <5>1. PICK k \in 1 .. Len(w) : w[k] = q[i]
                    BY <2>1, <2>2, <4>1, <4>3 DEF KeptOf
                <5>2. k \in 1 .. Len(v) /\ v[k] = q[i]
                    BY <3>2, <5>1
                <5> QED
                    BY <5>2
            <4> QED
                BY <4>2, <4>3
        <3> HIDE DEF v, g
        <3>7. KeptOf(v, q, m + 1, S)
            BY <3>2, <3>4, <3>5, <3>6 DEF KeptOf
        <3> QED
            BY <2>1, <3>1, <3>7
    <2> QED
        BY <2>4, <2>5
<1>5. \A n \in 0 .. N : n \in P
    <2> HIDE DEF P, N
    <2> QED
        BY <1>2, <1>3, <1>4, Induction
<1> QED
    BY <1>1, <1>2, <1>5 DEF WithoutBy

(* The elements of a queue. *)
LEMMA ListingElements ==
    ASSUME NEW q \in Seq(ES), NEW X
    PROVE  /\ Len(q) \in Nat /\ DOMAIN q = 1 .. Len(q)
           /\ Listing(q, X) <=>
                 /\ \A i \in 1 .. Len(q) : q[i] \in X
                 /\ \A x \in X : \E i \in 1 .. Len(q) : q[i] = x
                 /\ \A i, j \in 1 .. Len(q) : q[i] = q[j] => i = j
<1>1. Len(q) \in Nat /\ DOMAIN q = 1 .. Len(q)
    OBVIOUS
<1>2. ToSet(q) = X <=> /\ \A i \in 1 .. Len(q) : q[i] \in X
                       /\ \A x \in X : \E i \in 1 .. Len(q) : q[i] = x
    BY <1>1 DEF ToSet
<1> QED
    BY <1>1, <1>2 DEF Listing, IsInjective

(* An empty queue. *)
LEMMA EmptyListing == Listing(<< >>, {})
<1> DEFINE q == << >>
<1>1. q \in Seq(ES) /\ Len(q) = 0
    OBVIOUS
<1> HIDE DEF q
<1>2. 1 .. Len(q) = {}
    BY <1>1
<1>3. Listing(q, {})
    BY <1>1, <1>2, ListingElements
<1> QED
    BY <1>3 DEF q

(* A queue lists states. *)
LEMMA ListingStates ==
    ASSUME NEW q, NEW X, Listing(q, X)
    PROVE  X \subseteq ES /\ Null \notin X
<1>1. q \in Seq(ES)
    BY DEF Listing
<1>2. \A i \in 1 .. Len(q) : q[i] \in ES
    BY <1>1
<1>3. X \subseteq ES
    BY <1>1, <1>2, ListingElements
<1> QED
    BY <1>3, SearchersAssumption DEF ES, Null

(* A queue is empty when it lists no state. *)
LEMMA ListingOfNone ==
    ASSUME NEW q, NEW X, Listing(q, X)
    PROVE  q = << >> <=> X = {}
<1>1. q \in Seq(ES)
    BY DEF Listing
<1>2. q = << >> <=> Len(q) = 0
    BY <1>1
<1> QED
    BY <1>1, <1>2, ListingElements

(* A queue of one state. *)
LEMMA ListingOfOne ==
    ASSUME NEW x \in ES
    PROVE  Listing(<<x>>, {x})
<1> DEFINE q == <<x>>
<1>1. q \in Seq(ES) /\ Len(q) = 1 /\ q[1] = x
    OBVIOUS
<1> HIDE DEF q
<1>2. 1 .. Len(q) = {1}
    BY <1>1
<1>3. Listing(q, {x})
    BY <1>1, <1>2, ListingElements
<1> QED
    BY <1>3 DEF q

(* Removing states from a queue. *)
LEMMA WithoutListing ==
    ASSUME NEW q, NEW X, Listing(q, X), NEW S
    PROVE  Listing(Without(q, S), X \ S)
<1>1. q \in Seq(ES)
    BY DEF Listing
<1> DEFINE w == Without(q, S)
<1>2. KeptOf(w, q, Len(q), S)
    BY <1>1, WithoutKeeps
<1> HIDE DEF w
<1>3. w \in Seq(ES)
    BY <1>2 DEF KeptOf
<1>4. PICK f : Places(f, w, q) /\ \A k \in 1 .. Len(w) : f[k] <= Len(q) /\ q[f[k]] \notin S
    BY <1>2 DEF KeptOf
<1>5. \A k \in 1 .. Len(w) : f[k] \in 1 .. Len(q) /\ w[k] = q[f[k]] /\ w[k] \notin S
    BY <1>4 DEF Places
<1>6. \A i \in 1 .. Len(w) : w[i] \in X \ S
    BY <1>1, <1>5, ListingElements
<1>7. \A x \in X \ S : \E i \in 1 .. Len(w) : w[i] = x
    BY <1>1, <1>2, ListingElements DEF KeptOf
<1>8. \A i, j \in 1 .. Len(w) : w[i] = w[j] => i = j
    <2>1. \A i, j \in 1 .. Len(w) : w[i] = w[j] => f[i] = f[j]
        BY <1>1, <1>5, ListingElements
    <2>2. \A i, j \in 1 .. Len(w) : i < j => f[i] < f[j]
        BY <1>4 DEF Places
    <2>3. Len(w) \in Nat /\ Len(q) \in Nat
        BY <1>1, <1>3
    <2> QED
        BY <1>5, <2>1, <2>2, <2>3
<1>9. Listing(w, X \ S)
    BY <1>3, <1>6, <1>7, <1>8, ListingElements
<1> QED
    BY <1>9 DEF w

(* One queue after another. *)
LEMMA ConcatListing ==
    ASSUME NEW q, NEW X, Listing(q, X), NEW r, NEW Y, Listing(r, Y), X \cap Y = {}
    PROVE  Listing(q \o r, X \cup Y)
<1>1. q \in Seq(ES) /\ r \in Seq(ES)
    BY DEF Listing
<1> DEFINE w == q \o r
           m == Len(q)
           n == Len(r)
<1>2. /\ w \in Seq(ES) /\ Len(w) = m + n /\ m \in Nat /\ n \in Nat
      /\ \A i \in 1 .. m : w[i] = q[i]
      /\ \A i \in m + 1 .. m + n : w[i] = r[i - m] /\ i - m \in 1 .. n
      /\ \A j \in 1 .. n : w[m + j] = r[j] /\ m + j \in 1 .. m + n
    BY <1>1, ConcatProperties
<1>3. /\ \A i \in 1 .. m : q[i] \in X
      /\ \A x \in X : \E i \in 1 .. m : q[i] = x
      /\ \A i, j \in 1 .. m : q[i] = q[j] => i = j
    BY <1>1, ListingElements
<1>4. /\ \A i \in 1 .. n : r[i] \in Y
      /\ \A x \in Y : \E i \in 1 .. n : r[i] = x
      /\ \A i, j \in 1 .. n : r[i] = r[j] => i = j
    BY <1>1, ListingElements
<1> HIDE DEF w, m, n
<1>5. \A i \in 1 .. m + n : i \in 1 .. m \/ i \in m + 1 .. m + n
    BY <1>2
<1>a. (\A i \in 1 .. m : w[i] \in X) /\ (\A i \in m + 1 .. m + n : w[i] \in Y)
    BY <1>2, <1>3, <1>4
<1>6. \A i \in 1 .. m + n : w[i] \in X \cup Y
    BY <1>a, <1>5
<1>7. \A x \in X \cup Y : \E i \in 1 .. m + n : w[i] = x
    <2>1. \A x \in X : \E i \in 1 .. m + n : w[i] = x
        BY <1>2, <1>3
    <2>2. ASSUME NEW x \in Y PROVE \E i \in 1 .. m + n : w[i] = x
        <3>1. PICK j \in 1 .. n : r[j] = x
            BY <1>4
        <3>2. w[m + j] = x /\ m + j \in 1 .. m + n
            BY <1>2, <3>1
        <3> QED
            BY <3>2
    <2> QED
        BY <2>1, <2>2
<1>8. ASSUME NEW i \in 1 .. m + n, NEW j \in 1 .. m + n, w[i] = w[j]
      PROVE  i = j
    <2>1. CASE i \in 1 .. m /\ j \in 1 .. m
        BY <1>2, <1>3, <1>8, <2>1
    <2>2. CASE i \in m + 1 .. m + n /\ j \in m + 1 .. m + n
        BY <1>2, <1>4, <1>8, <2>2
    <2>3. CASE i \in 1 .. m /\ j \in m + 1 .. m + n
        BY <1>a, <1>8, <2>3
    <2>4. CASE j \in 1 .. m /\ i \in m + 1 .. m + n
        BY <1>a, <1>8, <2>4
    <2> QED
        BY <1>5, <2>1, <2>2, <2>3, <2>4
<1>9. Listing(w, X \cup Y)
    <2>1. \A i, j \in 1 .. m + n : w[i] = w[j] => i = j
        BY <1>8
    <2>2. w \in Seq(ES) /\ Len(w) = m + n
        BY <1>2
    <2> QED
        BY <1>6, <1>7, <2>1, <2>2, ListingElements
<1> QED
    BY <1>9 DEF w

(* What is in two queues, one after the other. *)
LEMMA ConcatElements ==
    ASSUME NEW q \in Seq(ES), NEW r \in Seq(ES)
    PROVE  ToSet(q \o r) = ToSet(q) \cup ToSet(r)
<1> DEFINE w == q \o r
           m == Len(q)
           n == Len(r)
<1>1. /\ w \in Seq(ES) /\ Len(w) = m + n /\ m \in Nat /\ n \in Nat
      /\ \A i \in 1 .. m : w[i] = q[i]
      /\ \A i \in m + 1 .. m + n : w[i] = r[i - m] /\ i - m \in 1 .. n
      /\ \A j \in 1 .. n : w[m + j] = r[j] /\ m + j \in 1 .. m + n
    BY ConcatProperties
<1>2. DOMAIN w = 1 .. m + n /\ DOMAIN q = 1 .. m /\ DOMAIN r = 1 .. n
    BY <1>1
<1> HIDE DEF w, m, n
<1>3. \A i \in 1 .. m + n : i \in 1 .. m \/ i \in m + 1 .. m + n
    BY <1>1
<1>4. \A i \in 1 .. m : i \in 1 .. m + n
    BY <1>1
<1>5. ToSet(w) \subseteq ToSet(q) \cup ToSet(r)
    BY <1>1, <1>2, <1>3 DEF ToSet
<1>6. \A i \in 1 .. m : w[i] = q[i] /\ i \in DOMAIN w
    BY <1>1, <1>2, <1>4
<1>7. \A j \in 1 .. n : w[m + j] = r[j] /\ m + j \in DOMAIN w
    BY <1>1, <1>2
<1>8. ToSet(q) \subseteq ToSet(w)
    BY <1>2, <1>6 DEF ToSet
<1>9. ToSet(r) \subseteq ToSet(w)
    BY <1>2, <1>7 DEF ToSet
<1> QED
    BY <1>5, <1>8, <1>9 DEF w

(* A state at the end of a queue. *)
LEMMA AppendListing ==
    ASSUME NEW q, NEW X, Listing(q, X), NEW x \in ES, x \notin X
    PROVE  Listing(Append(q, x), X \cup {x})
<1>1. Listing(<<x>>, {x})
    BY ListingOfOne
<1>2. X \cap {x} = {}
    OBVIOUS
<1>3. Append(q, x) = q \o <<x>>
    BY AppendIsConcat DEF Listing
<1> QED
    BY <1>1, <1>2, <1>3, ConcatListing

(* The states of a set, one after another. *)
LEMMA SetToSeqListing ==
    ASSUME NEW X \in SUBSET ES
    PROVE  Listing(SetToSeq(X), X)
<1>1. IsFiniteSet(X)
    <2>1. MaxStates \in Int
        BY SearchersAssumption
    <2>2. IsFiniteSet(ES)
        BY <2>1, FS_Interval DEF ES
    <2> QED
        BY <2>2, FS_Subset
<1> DEFINE n == Cardinality(X)
           q == SetToSeq(X)
<1>2. n \in Nat /\ ExistsBijection(1 .. n, X)
    BY <1>1, FS_CardinalityType
<1>3. PICK g : g \in Bijection(1 .. n, X)
    BY <1>2 DEF ExistsBijection
<1>4. g \in [1 .. n -> X] /\ IsInjective(g)
    BY <1>3 DEF Bijection, Injection
<1>5. q \in [1 .. n -> X] /\ IsInjective(q)
    <2>1. \E f \in [1 .. n -> X] : IsInjective(f)
        BY <1>4
    <2>2. q = CHOOSE f \in [1 .. n -> X] : IsInjective(f)
        BY Zenon DEF SetToSeq
    <2> HIDE DEF q, n
    <2> QED
        BY <2>1, <2>2
<1>6. IsFiniteSet(1 .. n) /\ Cardinality(1 .. n) = n
    BY <1>2, FS_Interval
<1> HIDE DEF q
<1>7. q \in Injection(1 .. n, X)
    BY <1>5 DEF Injection
<1>8. q \in Surjection(1 .. n, X)
    BY <1>1, <1>6, <1>7, FS_Injection
<1> HIDE DEF n
<1>9. q \in Seq(ES) /\ Len(q) = n
    BY <1>2, <1>5
<1>10. Listing(q, X)
    <2>1. \A x \in X : \E i \in 1 .. n : q[i] = x
        BY <1>8 DEF Surjection
    <2>2. \A i, j \in 1 .. n : q[i] = q[j] => i = j
        BY <1>5 DEF IsInjective
    <2> QED
        BY <1>5, <1>9, <2>1, <2>2, ListingElements
<1> QED
    BY <1>10 DEF q

-----------------------------------------------------------------------------
(***************************************************************************)
(* update(), along the chain.                                              *)
(***************************************************************************)

(* The options. *)
LEMMA Options ==
    ASSUME search \in Searches
    PROVE  /\ Len(search.core) \in Nat /\ Len(search.core) >= 1 /\ Core = 1 .. Len(search.core)
           /\ 1 \in Core
           /\ search.batching \in BOOLEAN /\ search.deepening \in BOOLEAN /\ search.merge \in BOOLEAN
           /\ search.merge => \A i \in Core : Lists(i)
<1>1. search.core \in Seq(CoreSearchType) /\ search.core # << >>
    BY SearchersAssumption
<1>2. Core = 1 .. Len(search.core) /\ Len(search.core) \in Nat /\ Len(search.core) >= 1
    BY <1>1 DEF Core
<1>3. search.batching \in BOOLEAN /\ search.deepening \in BOOLEAN /\ search.merge \in BOOLEAN
    BY SearchersAssumption
<1>4. search.merge => "random-path" \notin ToSet(search.core)
    BY SearchersAssumption
<1> QED
    BY <1>2, <1>3, <1>4 DEF Lists, Core, ToSet

(* One searcher: its queue gets the states that are added and loses the    *)
(* states that are removed, and no assertion fails.                        *)
LEMMA CoreUpdateKeeps ==
    ASSUME NEW type, type # "random-path", NEW q, NEW X, Listing(q, X),
           NEW cur \in X \cup {Null}, NEW added, NEW A, Listing(added, A), X \cap A = {},
           NEW removed, ToSet(removed) \subseteq X \cup A
    PROVE  /\ Listing(CoreUpdate(type, q, cur, added, removed), (X \cup A) \ ToSet(removed))
           /\ ~CoreUpdateFails(type, q, cur, added, removed)
<1> DEFINE R == ToSet(removed)
           r == IF type = "bfs" /\ Evolved(cur, added, removed) THEN Append(Without(q, {cur}), cur) ELSE q
<1>1. X \subseteq ES
    BY ListingStates
<1>2. Listing(r, X)
    <2>1. CASE type = "bfs" /\ Evolved(cur, added, removed)
        <3>1. cur \in X /\ cur \in ES
            BY <1>1, <2>1 DEF Evolved
        <3>2. Listing(Without(q, {cur}), X \ {cur})
            BY WithoutListing
        <3>3. Listing(Append(Without(q, {cur}), cur), (X \ {cur}) \cup {cur})
            BY <3>1, <3>2, AppendListing
        <3>4. (X \ {cur}) \cup {cur} = X
            BY <3>1
        <3> QED
            BY <2>1, <3>3, <3>4
    <2>2. CASE ~(type = "bfs" /\ Evolved(cur, added, removed))
        BY <2>2
    <2> QED
        BY <2>1, <2>2
<1> HIDE DEF r
<1>3. Listing(r \o added, X \cup A)
    BY <1>2, ConcatListing
<1>4. Listing(Without(r \o added, R), (X \cup A) \ R)
    BY <1>3, WithoutListing
<1>5. CoreUpdate(type, q, cur, added, removed) = Without(r \o added, R)
    BY DEF CoreUpdate, r
<1>6. ToSet(q) = X /\ ToSet(added) = A
    BY DEF Listing
<1>7. ~CoreUpdateFails(type, q, cur, added, removed)
    BY <1>6 DEF CoreUpdateFails, Evolved
<1> QED
    BY <1>4, <1>5, <1>7

(* All of them. *)
LEMMA InterleavedUpdateKeeps ==
    ASSUME search \in Searches, NEW c, NEW X, NEW D, ChainOf(c, X, D),
           NEW cur \in X \cup {Null}, NEW added, NEW A, Listing(added, A), X \cap A = {},
           NEW removed, ToSet(removed) \subseteq X \cup A, c.lastState \notin ToSet(removed)
    PROVE  ChainOf(InterleavedUpdate(c, cur, added, removed), (X \cup A) \ ToSet(removed), D)
<1> DEFINE d == InterleavedUpdate(c, cur, added, removed)
           Y == (X \cup A) \ ToSet(removed)
           U(i) == CoreUpdate(search.core[i], c.held[i], cur, added, removed)
           F(i) == CoreUpdateFails(search.core[i], c.held[i], cur, added, removed)
<1>1. c \in Chains /\ c.failed = FALSE
    BY DEF ChainOf, Chains
<1>2. \A i \in Core : c.held[i] \in Seq(ES)
    BY <1>1 DEF Chains
<1>3. ASSUME NEW i \in Core, Lists(i)
      PROVE  Listing(U(i), Y) /\ ~F(i)
    <2>1. Listing(c.held[i], X)
        BY <1>2, <1>3 DEF ChainOf, Listing
    <2> QED
        BY <1>3, <2>1, CoreUpdateKeeps DEF Lists
<1>4. ASSUME NEW i \in Core, ~Lists(i)
      PROVE  U(i) = << >> /\ ~F(i)
    BY <1>4 DEF Lists, ChainOf, CoreUpdate, CoreUpdateFails
<1> HIDE DEF U, F
<1>5. \A i \in Core : U(i) \in Seq(ES)
    <2>1. << >> \in Seq(ES)
        OBVIOUS
    <2>2. \A i \in Core : Lists(i) \/ ~Lists(i)
        OBVIOUS
    <2>3. \A i \in Core : Lists(i) => U(i) \in Seq(ES)
        BY <1>3 DEF Listing
    <2> QED
        BY <1>4, <2>1, <2>3
<1>6. d = [c EXCEPT !.held = [i \in Core |-> U(i)], !.failed = @ \/ \E i \in Core : F(i)]
    BY DEF InterleavedUpdate, U, F
<1>7. ~\E i \in Core : F(i)
    BY <1>3, <1>4
<1> HIDE DEF d
<1>8. /\ d.held = [i \in Core |-> U(i)] /\ d.failed = FALSE
      /\ d.index = c.index /\ d.lastState = c.lastState /\ d.deepened = c.deepened
      /\ d = [held |-> d.held, index |-> d.index, lastState |-> d.lastState,
              deepened |-> d.deepened, failed |-> d.failed]
    BY <1>1, <1>6, <1>7 DEF Chains
<1>9. d \in Chains
    BY <1>1, <1>5, <1>8 DEF Chains
<1>10. \A i \in Core : IF Lists(i) THEN Listing(d.held[i], Y) ELSE d.held[i] = << >>
    BY <1>3, <1>4, <1>8
<1>11. d.lastState \in Y \cup {Null} /\ (~search.batching => d.lastState = Null)
    BY <1>8 DEF ChainOf
<1>12. ChainOf(d, Y, D)
    BY <1>8, <1>9, <1>10, <1>11 DEF ChainOf, Listing
<1> QED
    BY <1>12 DEF d

(* A batch does not go on with a state that has ended. *)
LEMMA BatchingUpdateKeeps ==
    ASSUME search \in Searches, NEW c, NEW X \in SUBSET ES, NEW D, ChainOf(c, X, D),
           NEW cur \in X \cup {Null}, NEW added, NEW A, Listing(added, A), X \cap A = {},
           NEW removed, ToSet(removed) \subseteq X \cup A
    PROVE  ChainOf(BatchingUpdate(c, cur, added, removed), (X \cup A) \ ToSet(removed), D)
<1> DEFINE R == ToSet(removed)
           b == [c EXCEPT !.lastState = IF @ \in R THEN Null ELSE @]
<1>1. Null \notin X \cup A
    BY ListingStates, SearchersAssumption DEF ES, Null
<1>2. b.lastState \notin R
    <2>1. b.lastState = IF c.lastState \in R THEN Null ELSE c.lastState
        BY DEF ChainOf, Chains
    <2> QED
        BY <1>1, <2>1
<1>3. ChainOf(b, X, D)
    BY DEF ChainOf, Chains, Lists
<1>4. BatchingUpdate(c, cur, added, removed) = InterleavedUpdate(b, cur, added, removed)
    BY DEF BatchingUpdate
<1> HIDE DEF b
<1> QED
    BY <1>2, <1>3, <1>4, InterleavedUpdateKeeps

(* The set of states that are put aside changes. *)
LEMMA DeepenedChanges ==
    ASSUME NEW c, NEW X, NEW D, ChainOf(c, X, D), NEW E \in SUBSET ES
    PROVE  ChainOf([c EXCEPT !.deepened = E], X, E)
BY DEF ChainOf, Chains, Lists

(* Where every searcher walks the tree, nothing is kept. *)
LEMMA WanderingUpdateKeeps ==
    ASSUME search \in Searches, Wandering, RegularChain(search),
           NEW c, NEW X, NEW D, ChainOf(c, X, D), NEW cur, NEW added, NEW removed, NEW Y
    PROVE  ChainOf(BatchingUpdate(c, cur, added, removed), Y, D)
<1> DEFINE R == ToSet(removed)
           b == [c EXCEPT !.lastState = IF @ \in R THEN Null ELSE @]
           d == InterleavedUpdate(b, cur, added, removed)
<1>1. ~search.batching /\ \A i \in Core : search.core[i] = "random-path"
    BY DEF Wandering, RegularChain, ToSet, Core
<1>2. \A i \in Core : ~Lists(i)
    BY <1>1 DEF Lists
<1>3. /\ b \in Chains /\ b.failed = FALSE /\ b.lastState = Null /\ b.deepened = D
      /\ b.held \in [Core -> Seq(ES)] /\ \A i \in Core : b.held[i] = << >>
    BY <1>1, <1>2 DEF ChainOf, Chains
<1> HIDE DEF b
<1>4. \A i \in Core : /\ CoreUpdate(search.core[i], b.held[i], cur, added, removed) = << >>
                      /\ ~CoreUpdateFails(search.core[i], b.held[i], cur, added, removed)
    BY <1>1, <1>3 DEF CoreUpdate, CoreUpdateFails
<1>5. b.held = [i \in Core |-> CoreUpdate(search.core[i], b.held[i], cur, added, removed)]
    BY <1>3, <1>4
<1>6. /\ d \in Chains /\ d.failed = FALSE /\ d.lastState = Null /\ d.deepened = D
      /\ d.held = [i \in Core |-> CoreUpdate(search.core[i], b.held[i], cur, added, removed)]
    BY <1>3, <1>4, <1>5 DEF InterleavedUpdate, Chains
<1> HIDE DEF d
<1>7. ChainOf(d, Y, D)
    BY <1>2, <1>3, <1>5, <1>6 DEF ChainOf
<1> QED
    BY <1>7 DEF d, b, BatchingUpdate

(* What is still to be shown of a chain after an update. *)
LEMMA ScheduledBy ==
    ASSUME NEW c, NEW X, NEW D, ChainOf(c, X, D), NEW T, X = T \ D, D \subseteq T,
           D # {} => search.deepening, ~Wandering => (X = {} => D = {})
    PROVE  Scheduled(c, T) /\ c.deepened = D
<1>1. c.deepened = D
    BY DEF ChainOf
<1>2. ~Wandering => (T \subseteq D => D = {})
    OBVIOUS
<1> QED
    BY <1>1, <1>2 DEF Scheduled

(* Iterative deepening, with lists of states. *)
LEMMA DeepeningUpdateKeeps ==
    ASSUME search \in Searches, RegularChain(search), search.deepening, ~Wandering,
           NEW T \in SUBSET ES, NEW c, Scheduled(c, T),
           NEW cur \in (T \ c.deepened) \cup {Null},
           NEW added, NEW A, Listing(added, A), T \cap A = {},
           NEW removed, NEW R, Listing(removed, R), R \subseteq T \cup A, NEW elapsed \in BOOLEAN
    PROVE  /\ Scheduled(DeepeningUpdate(c, cur, added, removed, elapsed), (T \cup A) \ R)
           /\ ~elapsed => DeepeningUpdate(c, cur, added, removed, elapsed).deepened \subseteq c.deepened
<1> DEFINE D == c.deepened
           X == T \ D
           Z == (T \cup A) \ R
           alt == Without(removed, D)
           upd == BatchingUpdate(c, cur, added, alt)
           base == [upd EXCEPT !.deepened = @ \ R]
           off == elapsed /\ cur # Null /\ cur \notin R
           out == BatchingUpdate(base, Null, << >>, <<cur>>)
           left == IF off THEN [out EXCEPT !.deepened = @ \cup {cur}] ELSE base
           back == BatchingUpdate(left, Null, SetToSeq(left.deepened), << >>)
           E == IF off THEN (D \ R) \cup {cur} ELSE D \ R
<1>1. ChainOf(c, X, D) /\ D \subseteq T /\ A \subseteq ES /\ ToSet(removed) = R
    BY ListingStates DEF Scheduled, Listing
<1>2. ChainOf(base, (X \cup A) \ R, D \ R)
    <2>1. Listing(alt, R \ D)
        BY WithoutListing
    <2>2. ToSet(alt) = R \ D
        BY <2>1 DEF Listing
    <2> HIDE DEF alt
    <2>3. ChainOf(upd, (X \cup A) \ ToSet(alt), D)
        BY <1>1, <2>2, BatchingUpdateKeeps
    <2>4. upd.deepened = D
        BY <2>3 DEF ChainOf
    <2> HIDE DEF upd
    <2>5. base = [upd EXCEPT !.deepened = D \ R]
        BY <2>4
    <2>6. ChainOf(base, (X \cup A) \ ToSet(alt), D \ R)
        BY <1>1, <2>3, <2>5, DeepenedChanges
    <2>7. (X \cup A) \ ToSet(alt) = (X \cup A) \ R
        BY <1>1, <2>2
    <2> QED
        BY <2>6, <2>7
<1> HIDE DEF base
<1>3. ChainOf(left, Z \ E, E)
    <2>1. CASE ~off
        <3>1. (X \cup A) \ R = Z \ E
            BY <1>1, <2>1
        <3> QED
            BY <1>2, <2>1, <3>1
    <2>2. CASE off
        <3>1. cur \in X /\ cur \in ES /\ cur \notin R
            BY <2>2
        <3>2. ToSet(<<cur>>) = {cur}
            BY <3>1, ListingOfOne DEF Listing
        <3>3. Listing(<< >>, {})
            BY EmptyListing
        <3>4. ChainOf(out, (((X \cup A) \ R) \cup {}) \ ToSet(<<cur>>), D \ R)
            <4>1. (X \cup A) \ R \in SUBSET ES /\ Null \in ((X \cup A) \ R) \cup {Null}
                BY <1>1
            <4>2. ToSet(<<cur>>) \subseteq ((X \cup A) \ R) \cup {} /\ ((X \cup A) \ R) \cap {} = {}
                BY <3>1, <3>2
            <4> HIDE DEF X
            <4> QED
                BY <1>2, <3>3, <4>1, <4>2, BatchingUpdateKeeps
        <3>5. out.deepened = D \ R
            BY <3>4 DEF ChainOf
        <3> HIDE DEF out
        <3>6. left = [out EXCEPT !.deepened = E]
            BY <2>2, <3>5
        <3>7. ChainOf(left, (((X \cup A) \ R) \cup {}) \ ToSet(<<cur>>), E)
            <4>1. E \in SUBSET ES
                BY <1>1, <3>1
            <4> HIDE DEF E, X
            <4> QED
                BY <3>4, <3>6, <4>1, DeepenedChanges
        <3>8. (((X \cup A) \ R) \cup {}) \ ToSet(<<cur>>) = Z \ E
            BY <1>1, <2>2, <3>1, <3>2
        <3> QED
            BY <3>7, <3>8
    <2> QED
        BY <2>1, <2>2
<1>4. E \subseteq Z /\ (~elapsed => E \subseteq D) /\ Z \subseteq ES
    BY <1>1
<1>5. DeepeningUpdate(c, cur, added, removed, elapsed)
        = IF BaseEmpty(left) THEN [back EXCEPT !.deepened = {}] ELSE left
    BY <1>1 DEF DeepeningUpdate, Resumed, base
<1> HIDE DEF left, E, Z
<1>6. left.deepened = E
    BY <1>3 DEF ChainOf
<1>7. BaseEmpty(left) <=> Z \ E = {}
    <2>1. 1 \in Core
        BY Options
    <2>2. Lists(1)
        BY <2>1 DEF Lists, Wandering, ToSet, Core
    <2>3. Listing(left.held[1], Z \ E)
        BY <1>3, <2>1, <2>2 DEF ChainOf, Listing, Chains
    <2>4. BaseEmpty(left) <=> left.held[1] = << >>
        BY <2>2 DEF BaseEmpty, Lists
    <2> QED
        BY <2>3, <2>4, ListingOfNone
<1>8. CASE BaseEmpty(left)
    <2>1. Listing(SetToSeq(E), E)
        BY <1>4, SetToSeqListing
    <2>2. Z = E
        BY <1>4, <1>7, <1>8
    <2>3. ToSet(<< >>) = {}
        BY EmptyListing DEF Listing
    <2>4. ChainOf(back, ({} \cup E) \ ToSet(<< >>), E)
        <3>1. ChainOf(left, {}, E)
            BY <1>3, <2>2
        <3> QED
            BY <1>6, <2>1, <2>3, <3>1, BatchingUpdateKeeps
    <2>5. ({} \cup E) \ ToSet(<< >>) = E
        BY <2>3
    <2>6. ChainOf([back EXCEPT !.deepened = {}], E, {})
        <3> HIDE DEF back
        <3> QED
            BY <2>4, <2>5, DeepenedChanges
    <2> DEFINE final == [back EXCEPT !.deepened = {}]
    <2> HIDE DEF final
    <2>7. Scheduled(final, Z) /\ final.deepened = {}
        <3>1. ChainOf(final, E, {}) /\ E = Z \ {}
            BY <2>2, <2>6 DEF final
        <3> QED
            BY <3>1, ScheduledBy
    <2> QED
        BY <1>5, <1>8, <2>7 DEF final, Z
<1>9. CASE ~BaseEmpty(left)
    <2>1. Scheduled(left, Z)
        BY <1>3, <1>4, <1>7, <1>9, ScheduledBy
    <2> QED
        BY <1>4, <1>5, <1>6, <1>9, <2>1 DEF Z
<1> QED
    BY <1>8, <1>9

(* Iterative deepening, with random walks. *)
LEMMA WanderingDeepeningKeeps ==
    ASSUME search \in Searches, RegularChain(search), Wandering,
           NEW T \in SUBSET ES, NEW c, Scheduled(c, T), NEW cur \in T \cup {Null},
           NEW added, NEW A, Listing(added, A),
           NEW removed, NEW R, Listing(removed, R), NEW elapsed \in BOOLEAN
    PROVE  /\ Scheduled(DeepeningUpdate(c, cur, added, removed, elapsed), (T \cup A) \ R)
           /\ ~elapsed => DeepeningUpdate(c, cur, added, removed, elapsed).deepened \subseteq c.deepened
<1> DEFINE D == c.deepened
           Z == (T \cup A) \ R
           upd == BatchingUpdate(c, cur, added, Without(removed, D))
           base == [upd EXCEPT !.deepened = @ \ R]
           off == elapsed /\ cur # Null /\ cur \notin R
           out == BatchingUpdate(base, Null, << >>, <<cur>>)
           left == IF off THEN [out EXCEPT !.deepened = @ \cup {cur}] ELSE base
           back == BatchingUpdate(left, Null, SetToSeq(left.deepened), << >>)
           E == IF off THEN (D \ R) \cup {cur} ELSE D \ R
<1>1. ChainOf(c, T \ D, D) /\ D \subseteq T /\ A \subseteq ES /\ ToSet(removed) = R
    BY ListingStates DEF Scheduled, Listing
<1>2. E \subseteq Z /\ (~elapsed => E \subseteq D) /\ Z \subseteq ES
    BY <1>1
<1>3. ChainOf(base, Z, D \ R)
    <2>1. ChainOf(upd, Z, D)
        BY <1>1, WanderingUpdateKeeps
    <2>2. upd.deepened = D
        BY <2>1 DEF ChainOf
    <2> HIDE DEF upd
    <2>3. base = [upd EXCEPT !.deepened = D \ R]
        BY <2>2
    <2> QED
        BY <1>1, <2>1, <2>3, DeepenedChanges
<1> HIDE DEF base
<1>4. ChainOf(left, Z, E)
    <2>1. CASE ~off
        BY <1>3, <2>1
    <2>2. CASE off
        <3>1. ChainOf(out, Z, D \ R)
            BY <1>3, WanderingUpdateKeeps
        <3>2. out.deepened = D \ R
            BY <3>1 DEF ChainOf
        <3> HIDE DEF out
        <3>3. left = [out EXCEPT !.deepened = E]
            BY <2>2, <3>2
        <3>4. E \in SUBSET ES
            BY <1>2
        <3> HIDE DEF E, Z
        <3> QED
            BY <3>1, <3>3, <3>4, DeepenedChanges
    <2> QED
        BY <2>1, <2>2
<1>5. DeepeningUpdate(c, cur, added, removed, elapsed)
        = IF BaseEmpty(left) THEN [back EXCEPT !.deepened = {}] ELSE left
    BY <1>1 DEF DeepeningUpdate, Resumed, base
<1>6. search.deepening
    BY DEF Wandering
<1> HIDE DEF left, E
<1>7. CASE BaseEmpty(left)
    <2>1. ChainOf(back, Z, E)
        BY <1>4, WanderingUpdateKeeps
    <2> DEFINE final == [back EXCEPT !.deepened = {}]
    <2>2. ChainOf(final, Z, {})
        <3> HIDE DEF back
        <3> QED
            BY <2>1, DeepenedChanges
    <2> HIDE DEF final
    <2>3. Scheduled(final, Z) /\ final.deepened = {}
        <3>1. Z = Z \ {}
            OBVIOUS
        <3> HIDE DEF Z
        <3> QED
            BY <2>2, <3>1, ScheduledBy
    <2> QED
        BY <1>5, <1>7, <2>3 DEF final
<1>8. CASE ~BaseEmpty(left)
    <2>1. ChainOf(left, Z \ E, E)
        <3>1. left.lastState = Null
            BY <1>4 DEF ChainOf, Wandering, RegularChain
        <3>2. \A i \in Core : ~Lists(i)
            BY DEF Wandering, RegularChain, Lists, ToSet, Core
        <3> QED
            BY <1>4, <3>1, <3>2 DEF ChainOf
    <2>2. Scheduled(left, Z) /\ left.deepened = E
        <3> HIDE DEF Z
        <3> QED
            BY <1>2, <1>6, <2>1, ScheduledBy
    <2> QED
        BY <1>2, <1>5, <1>8, <2>2
<1> QED
    BY <1>7, <1>8

(* The chain: the states that are added are scheduled, and those that are  *)
(* removed are not.                                                        *)
LEMMA BaseUpdateKeeps ==
    ASSUME search \in Searches, RegularChain(search),
           NEW T \in SUBSET ES, NEW c, Scheduled(c, T), NEW cur \in T \cup {Null},
           ~Wandering => cur \notin c.deepened,
           NEW added, NEW A, Listing(added, A), T \cap A = {},
           NEW removed, NEW R, Listing(removed, R), R \subseteq T \cup A, NEW elapsed \in Elapsed
    PROVE  /\ Scheduled(BaseUpdate(c, cur, added, removed, elapsed), (T \cup A) \ R)
           /\ ~elapsed => BaseUpdate(c, cur, added, removed, elapsed).deepened \subseteq c.deepened
<1>1. elapsed \in BOOLEAN /\ search.deepening \in BOOLEAN
    BY Options DEF Elapsed
<1>2. CASE search.deepening
    <2>1. BaseUpdate(c, cur, added, removed, elapsed) = DeepeningUpdate(c, cur, added, removed, elapsed)
        BY <1>2 DEF BaseUpdate
    <2> DEFINE d == DeepeningUpdate(c, cur, added, removed, elapsed)
               Z == (T \cup A) \ R
    <2>2. CASE Wandering
        <3>1. Scheduled(d, Z) /\ (~elapsed => d.deepened \subseteq c.deepened)
            BY <1>1, <2>2, WanderingDeepeningKeeps
        <3> QED
            BY <2>1, <3>1
    <2>3. CASE ~Wandering
        <3>1. cur \in (T \ c.deepened) \cup {Null}
            BY <2>3
        <3> QED
            <4>1. Scheduled(d, Z) /\ (~elapsed => d.deepened \subseteq c.deepened)
                BY <1>1, <1>2, <2>3, <3>1, DeepeningUpdateKeeps
            <4> QED
                BY <2>1, <4>1
    <2> QED
        BY <2>2, <2>3
<1>3. CASE ~search.deepening
    <2>1. c.deepened = {} /\ ChainOf(c, T \ c.deepened, c.deepened) /\ ToSet(removed) = R
        BY <1>3 DEF Scheduled, Listing
    <2>2. ChainOf(c, T, {})
        BY <2>1
    <2> DEFINE d == BaseUpdate(c, cur, added, removed, elapsed)
    <2>3. ChainOf(d, (T \cup A) \ R, {})
        <3>1. CASE search.batching
            <4>1. d = BatchingUpdate(c, cur, added, removed)
                BY <1>3, <3>1 DEF BaseUpdate
            <4> QED
                BY <2>1, <2>2, <4>1, BatchingUpdateKeeps
        <3>2. CASE ~search.batching
            <4>1. d = InterleavedUpdate(c, cur, added, removed)
                BY <1>3, <3>2 DEF BaseUpdate
            <4>2. c.lastState \notin ToSet(removed)
                BY <2>1, <2>2, <3>2, ListingStates DEF ChainOf
            <4> QED
                BY <2>1, <2>2, <4>1, <4>2, InterleavedUpdateKeeps
        <3> QED
            BY <3>1, <3>2
    <2> HIDE DEF d
    <2>4. Scheduled(d, (T \cup A) \ R) /\ d.deepened = {}
        <3> DEFINE Z == (T \cup A) \ R
        <3>1. Z = Z \ {}
            OBVIOUS
        <3>2. ChainOf(d, Z, {})
            BY <2>3
        <3> HIDE DEF Z
        <3>3. Scheduled(d, Z) /\ d.deepened = {}
            BY <3>1, <3>2, ScheduledBy
        <3> QED
            BY <3>3 DEF Z
    <2> QED
        BY <2>4 DEF d
<1> QED
    BY <1>1, <1>2, <1>3

(* The states that come back, one after another. *)
Continues(c, q, n) == BaseUpdate(c, Null, <<q[n]>>, << >>, FALSE)
ContinuesWith(f, q) ==
    /\ f[0] = chain
    /\ \A n \in 1 .. Len(q) :
          Continues(f[n - 1], q, n) \in Chains => f[n] = Continues(f[n - 1], q, n)
Firsts(q, n) == {q[i] : i \in 1 .. n}
ContinuedTo(c, T) == Scheduled(c, T) /\ c.deepened \subseteq chain.deepened

(* Each of them is scheduled. *)
LEMMA ContinuesKeeps ==
    ASSUME search \in Searches, RegularChain(search), NEW T \in SUBSET ES, Scheduled(chain, T),
           NEW R \in SUBSET ES, T \cap R = {}, NEW q, Listing(q, R),
           NEW f, ContinuesWith(f, q)
    PROVE  /\ \A n \in 0 .. Len(q) : ContinuedTo(f[n], T \cup Firsts(q, n))
           /\ \A n \in 1 .. Len(q) : Continues(f[n - 1], q, n) \in Chains
<1> DEFINE N == Len(q)
           Good(n) == ContinuedTo(f[n], T \cup Firsts(q, n))
           S == {n \in 0 .. N : Good(n)}
<1>1. /\ q \in Seq(ES) /\ N \in Nat
      /\ \A i \in 1 .. N : q[i] \in R /\ q[i] \in ES
      /\ \A i, j \in 1 .. N : q[i] = q[j] => i = j
    BY ListingElements DEF Listing
<1>a. f[0] = chain /\ \A n \in 1 .. N : Continues(f[n - 1], q, n) \in Chains => f[n] = Continues(f[n - 1], q, n)
    BY DEF ContinuesWith
<1> HIDE DEF N
<1>2. Good(0)
    <2>1. T \cup Firsts(q, 0) = T
        BY DEF Firsts
    <2> QED
        BY <1>a, <2>1 DEF ContinuedTo
<1>3. ASSUME NEW n \in 1 .. N, Good(n - 1)
      PROVE  Good(n) /\ Continues(f[n - 1], q, n) \in Chains
    <2> DEFINE e == q[n]
               c == f[n - 1]
               d == Continues(c, q, n)
               Q == T \cup Firsts(q, n - 1)
    <2>1. e \in ES /\ e \in R
        BY <1>1
    <2>2. Q \in SUBSET ES /\ Q \cap {e} = {} /\ (Q \cup {e}) \ {} = T \cup Firsts(q, n)
        BY <1>1, <2>1 DEF Firsts
    <2>3. Listing(<<e>>, {e}) /\ Listing(<< >>, {})
        BY <2>1, ListingOfOne, EmptyListing
    <2>4. Scheduled(c, Q) /\ c.deepened \subseteq chain.deepened
        BY <1>3 DEF ContinuedTo
    <2>5. d = BaseUpdate(c, Null, <<e>>, << >>, FALSE)
        BY DEF Continues
    <2> HIDE DEF Q, e, c, d
    <2>6. Scheduled(d, (Q \cup {e}) \ {}) /\ d.deepened \subseteq c.deepened
        <3>1. FALSE \in Elapsed
            BY DEF Elapsed
        <3>2. Null \notin c.deepened
            <4>1. c.deepened \subseteq ES
                BY <2>4 DEF Scheduled, ChainOf, Chains
            <4> QED
                BY <4>1, SearchersAssumption DEF ES, Null
        <3>3. Null \in Q \cup {Null} /\ {} \subseteq Q \cup {e}
            OBVIOUS
        <3> QED
            BY <2>2, <2>3, <2>4, <2>5, <3>1, <3>2, <3>3, BaseUpdateKeeps
    <2>7. d \in Chains /\ ContinuedTo(d, T \cup Firsts(q, n))
        BY <2>2, <2>4, <2>6 DEF Scheduled, ChainOf, ContinuedTo
    <2>8. f[n] = d
        BY <1>a, <2>7 DEF c, d
    <2> QED
        BY <2>7, <2>8 DEF c, d
<1> HIDE DEF Good
<1>4. \A n \in 0 .. N : n \in S
    <2>1. 0 \in S
        BY <1>1, <1>2
    <2>2. \A n \in 0 .. N - 1 : n \in S => n + 1 \in S
        <3>1. SUFFICES ASSUME NEW n \in 0 .. N - 1, Good(n) PROVE Good(n + 1)
            BY <1>1
        <3>2. n + 1 \in 1 .. N /\ (n + 1) - 1 = n
            BY <1>1
        <3>3. Good((n + 1) - 1)
            BY <3>1, <3>2
        <3> QED
            BY <1>3, <3>2, <3>3
    <2> HIDE DEF S
    <2> QED
        BY <1>1, <2>1, <2>2, Induction
<1>5. \A n \in 0 .. N : Good(n)
    BY <1>4
<1>6. \A n \in 1 .. N : Continues(f[n - 1], q, n) \in Chains
    <2>1. \A n \in 1 .. N : n - 1 \in 0 .. N
        BY <1>1
    <2> QED
        BY <1>3, <1>5, <2>1
<1> QED
    BY <1>5, <1>6 DEF N, Good

(* continueState, for all states of R. *)
LEMMA ContinuedKeeps ==
    ASSUME search \in Searches, RegularChain(search), NEW T \in SUBSET ES, Scheduled(chain, T),
           NEW R \in SUBSET ES, T \cap R = {}
    PROVE  Scheduled(Continued(R), T \cup R) /\ Continued(R).deepened \subseteq chain.deepened
<1> DEFINE q == SetToSeq(R)
           N == Len(q)
           F(C) == [n \in 0 .. N |-> IF n = 0 THEN chain ELSE Continues(C[n - 1], q, n)]
           V == CHOOSE C : C = F(C)
<1>1. Continued(R) = V[N]
    BY Zenon DEF Continued, Continues
<1>2. Listing(q, R) /\ N \in Nat
    <2>1. Listing(q, R)
        BY SetToSeqListing
    <2> HIDE DEF q
    <2>2. q \in Seq(ES)
        BY <2>1 DEF Listing
    <2> QED
        BY <2>1, <2>2
<1> HIDE DEF q
<1>3. PICK f : f = F(f)
    <2> DEFINE B(n, c) == IF Continues(c, q, n) \in Chains THEN Continues(c, q, n) ELSE c
               G == [n \in 1 .. N |-> [c \in Chains |-> B(n, c)]]
    <2>1. PICK f : Follows(f, Chains, chain, N, G)
        <3>1. G \in Steps(N, Chains)
            <4> HIDE DEF N
            <4> QED
                BY DEF Steps
        <3>2. chain \in Chains
            BY DEF Scheduled, ChainOf
        <3> HIDE DEF G, N
        <3> QED
            BY <1>2, <3>1, <3>2, Recursion
    <2>2. f[0] = chain /\ f \in [0 .. N -> Chains]
        BY <2>1 DEF Follows
    <2>3. \A n \in 1 .. N : f[n] = B(n, f[n - 1])
        <3> HIDE DEF N
        <3>1. \A n \in 1 .. N : f[n - 1] \in Chains
            BY <1>2, <2>2
        <3> HIDE DEF B
        <3> QED
            BY <2>1, <3>1 DEF Follows
    <2>4. ContinuesWith(f, q)
        BY <2>2, <2>3 DEF ContinuesWith
    <2>5. \A n \in 1 .. N : Continues(f[n - 1], q, n) \in Chains
        BY <1>2, <2>4, ContinuesKeeps
    <2>6. \A n \in 1 .. N : f[n] = Continues(f[n - 1], q, n)
        BY <2>3, <2>5
    <2>7. f = F(f)
        <3> HIDE DEF N
        <3> QED
            BY <1>2, <2>2, <2>6
    <2> QED
        BY <2>7
<1>4. V = F(V)
    <2> HIDE DEF F
    <2> QED
        BY <1>3
<1> HIDE DEF V
<1>5. V[0] = chain /\ \A n \in 1 .. N : V[n] = Continues(V[n - 1], q, n)
    <2> HIDE DEF N
    <2> QED
        BY <1>2, <1>4
<1>6. ContinuesWith(V, q)
    BY <1>5 DEF ContinuesWith
<1>7. \A n \in 0 .. N : ContinuedTo(V[n], T \cup Firsts(q, n))
    BY <1>2, <1>6, ContinuesKeeps
<1>8. Firsts(q, N) = R
    <2>1. q \in Seq(ES)
        BY <1>2 DEF Listing
    <2>2. (\A i \in 1 .. N : q[i] \in R) /\ (\A x \in R : \E i \in 1 .. N : q[i] = x)
        BY <1>2, <2>1, ListingElements
    <2> QED
        BY <2>2 DEF Firsts
<1>9. ContinuedTo(V[N], T \cup R)
    <2>1. N \in 0 .. N
        BY <1>2
    <2> HIDE DEF N
    <2> QED
        BY <1>7, <1>8, <2>1
<1> QED
    BY <1>1, <1>9 DEF ContinuedTo
-----------------------------------------------------------------------------
(***************************************************************************)
(* The process tree.                                                       *)
(***************************************************************************)
Nodes == Seq({0, 1})

(* One way is the beginning of another. *)
LEMMA PrefixElements ==
    ASSUME NEW m \in Nodes, NEW n \in Nodes
    PROVE  IsPrefix(m, n) <=> Len(m) <= Len(n) /\ \A i \in 1 .. Len(m) : m[i] = n[i]
BY DEF IsPrefix, Nodes

(* Ways are ordered by their beginnings. *)
LEMMA PrefixOrder ==
    /\ << >> \in Nodes
    /\ \A n \in Nodes : IsPrefix(<< >>, n) /\ IsPrefix(n, n)
    /\ \A m, n \in Nodes : IsPrefix(m, n) /\ IsPrefix(n, m) => m = n
    /\ \A k, m, n \in Nodes : IsPrefix(k, m) /\ IsPrefix(m, n) => IsPrefix(k, n)
<1>1. << >> \in Nodes /\ \A n \in Nodes : Len(n) \in Nat
    BY DEF Nodes
<1>2. ASSUME NEW n \in Nodes PROVE IsPrefix(<< >>, n) /\ IsPrefix(n, n)
    <2> DEFINE e == << >>
    <2>1. Len(e) = 0
        OBVIOUS
    <2> HIDE DEF e
    <2>2. IsPrefix(e, n)
        BY <1>1, <2>1, PrefixElements DEF e
    <2>3. IsPrefix(n, n)
        BY <1>1, PrefixElements
    <2> QED
        BY <2>2, <2>3 DEF e
<1>3. ASSUME NEW m \in Nodes, NEW n \in Nodes, IsPrefix(m, n), IsPrefix(n, m) PROVE m = n
    <2>1. Len(m) = Len(n) /\ \A i \in 1 .. Len(m) : m[i] = n[i]
        BY <1>1, <1>3, PrefixElements
    <2> QED
        BY <2>1 DEF Nodes
<1>4. ASSUME NEW k \in Nodes, NEW m \in Nodes, NEW n \in Nodes, IsPrefix(k, m), IsPrefix(m, n)
      PROVE  IsPrefix(k, n)
    <2>1. /\ Len(k) <= Len(m) /\ Len(m) <= Len(n)
          /\ \A i \in 1 .. Len(k) : k[i] = m[i]
          /\ \A i \in 1 .. Len(m) : m[i] = n[i]
        BY <1>4, PrefixElements
    <2>2. \A i \in 1 .. Len(k) : i \in 1 .. Len(m)
        BY <1>1, <2>1
    <2>3. Len(k) <= Len(n) /\ \A i \in 1 .. Len(k) : k[i] = n[i]
        BY <1>1, <2>1, <2>2
    <2> QED
        BY <2>3, PrefixElements
<1> QED
    BY <1>1, <1>2, <1>3, <1>4

(* One more node on a way. *)
LEMMA PrefixAppend ==
    ASSUME NEW n \in Nodes, NEW b \in {0, 1}
    PROVE  /\ Append(n, b) \in Nodes /\ IsPrefix(n, Append(n, b)) /\ Append(n, b) # << >>
           /\ \A m \in Nodes : IsPrefix(m, Append(n, b)) => m = Append(n, b) \/ IsPrefix(m, n)
           /\ \A d \in {0, 1} : d # b => ~IsPrefix(Append(n, d), Append(n, b))
<1> DEFINE a == Append(n, b)
<1>1. a \in Nodes /\ Len(a) = Len(n) + 1 /\ a[Len(n) + 1] = b /\ \A i \in 1 .. Len(n) : a[i] = n[i]
    BY DEF Nodes
<1>2. \A m \in Nodes : Len(m) \in Nat
    BY DEF Nodes
<1>3. a # << >>
    BY <1>1, <1>2
<1>4. \A d \in {0, 1} : d # b => ~IsPrefix(Append(n, d), a)
    <2>1. SUFFICES ASSUME NEW d \in {0, 1}, d # b, IsPrefix(Append(n, d), a) PROVE FALSE
        OBVIOUS
    <2>2. Append(n, d) \in Nodes /\ Len(Append(n, d)) = Len(n) + 1 /\ Append(n, d)[Len(n) + 1] = d
        BY DEF Nodes
    <2>3. Append(n, d)[Len(n) + 1] = a[Len(n) + 1]
        <3> DEFINE e == Append(n, d)
        <3>1. e \in Nodes /\ Len(e) = Len(n) + 1 /\ IsPrefix(e, a)
            BY <2>1, <2>2
        <3> HIDE DEF a, e
        <3>2. \A i \in 1 .. Len(e) : e[i] = a[i]
            BY <1>1, <3>1, PrefixElements
        <3>3. Len(n) + 1 \in 1 .. Len(e)
            BY <1>2, <3>1
        <3>4. e[Len(n) + 1] = a[Len(n) + 1]
            BY <3>2, <3>3
        <3> QED
            BY <3>4 DEF e
    <2> QED
        BY <1>1, <2>1, <2>2, <2>3
<1> HIDE DEF a
<1>5. IsPrefix(n, a)
    BY <1>1, <1>2, PrefixElements
<1>6. ASSUME NEW m \in Nodes, IsPrefix(m, a), m # a PROVE IsPrefix(m, n)
    <2>1. Len(m) <= Len(a) /\ \A i \in 1 .. Len(m) : m[i] = a[i]
        BY <1>1, <1>6, PrefixElements
    <2>2. Len(m) # Len(a)
        <3>1. SUFFICES ASSUME Len(m) = Len(a) PROVE m = a
            BY <1>6
        <3> QED
            BY <1>1, <2>1, <3>1 DEF Nodes
    <2> QED
        BY <1>1, <1>2, <2>1, <2>2, PrefixElements
<1> QED
    BY <1>1, <1>3, <1>4, <1>5, <1>6 DEF a

(* The leaves are the places of the living states. *)
LEMMA LeavesOfTree ==
    ASSUME NEW living \in SUBSET ES, living # {}, TreeOf(tree, ptreeNode, living)
    PROVE  Leaves = {ptreeNode[s] : s \in living}
<1>1. /\ \A s \in living : ptreeNode[s] \in tree
      /\ \A s, t \in living : s # t => ~IsPrefix(ptreeNode[s], ptreeNode[t])
      /\ \A n \in tree \ {<< >>} : \E s \in living : IsPrefix(n, ptreeNode[s])
      /\ tree \subseteq Nodes /\ \A s \in living : ptreeNode[s] \in Nodes
    BY DEF TreeOf, Nodes
<1>2. ASSUME NEW s \in living PROVE ptreeNode[s] \in Leaves
    <2>1. SUFFICES ASSUME NEW m \in tree, m # ptreeNode[s], IsPrefix(ptreeNode[s], m) PROVE FALSE
        BY <1>1 DEF Leaves
    <2>2. m # << >>
        BY <1>1, <2>1, PrefixOrder
    <2>3. PICK t \in living : IsPrefix(m, ptreeNode[t])
        BY <1>1, <2>2
    <2>4. IsPrefix(ptreeNode[s], ptreeNode[t])
        BY <1>1, <2>1, <2>3, PrefixOrder
    <2>5. s = t
        BY <1>1, <2>4
    <2> QED
        BY <1>1, <2>1, <2>3, <2>5, PrefixOrder
<1>3. ASSUME NEW n \in Leaves PROVE \E s \in living : n = ptreeNode[s]
    <2>1. n \in tree /\ \A m \in tree : m # n => ~IsPrefix(n, m)
        BY DEF Leaves
    <2>2. \E s \in living : IsPrefix(n, ptreeNode[s])
        BY <1>1, <2>1, PrefixOrder
    <2> QED
        BY <1>1, <2>1, <2>2
<1> QED
    BY <1>2, <1>3

(* PTree::attach, with the two states of a fork. *)
LEMMA TreeForked ==
    ASSUME NEW living \in SUBSET ES, TreeOf(tree, ptreeNode, living),
           NEW es \in living, NEW ns \in ES, ns \notin living
    PROVE  TreeOf(tree \cup {Append(ptreeNode[es], 0), Append(ptreeNode[es], 1)},
                  [ptreeNode EXCEPT ![ns] = Append(ptreeNode[es], 0), ![es] = Append(@, 1)],
                  living \cup {ns})
<1> DEFINE n == ptreeNode[es]
           l == Append(n, 0)
           r == Append(n, 1)
           p == [ptreeNode EXCEPT ![ns] = Append(ptreeNode[es], 0), ![es] = Append(@, 1)]
<1>1. /\ \A s \in living : ptreeNode[s] \in tree
      /\ \A s, t \in living : s # t => ~IsPrefix(ptreeNode[s], ptreeNode[t])
      /\ \A m \in tree \ {<< >>} : \E s \in living : IsPrefix(m, ptreeNode[s])
      /\ tree \subseteq Nodes /\ << >> \in tree /\ \A s \in living : ptreeNode[s] \in Nodes
      /\ ptreeNode \in [ES -> Nodes]
    BY DEF TreeOf, Nodes
<1>2. /\ l \in Nodes /\ IsPrefix(n, l) /\ r \in Nodes /\ IsPrefix(n, r)
      /\ \A m \in Nodes : IsPrefix(m, l) => m = l \/ IsPrefix(m, n)
      /\ \A m \in Nodes : IsPrefix(m, r) => m = r \/ IsPrefix(m, n)
      /\ ~IsPrefix(l, r) /\ ~IsPrefix(r, l)
    BY <1>1, PrefixAppend
<1>3. p \in [ES -> Nodes] /\ p[ns] = l /\ p[es] = r /\ \A s \in living \ {es} : p[s] = ptreeNode[s]
    BY <1>1, <1>2
<1> HIDE DEF p, l, r
<1>4. \A s \in living \ {es} : ~IsPrefix(ptreeNode[s], l) /\ ~IsPrefix(ptreeNode[s], r)
    BY <1>1, <1>2
<1>5. \A s \in living \ {es} : ~IsPrefix(l, ptreeNode[s]) /\ ~IsPrefix(r, ptreeNode[s])
    BY <1>1, <1>2, PrefixOrder
<1>6. \A s \in living \cup {ns} : p[s] \in tree \cup {l, r}
    BY <1>1, <1>3
<1>7. \A s, t \in living \cup {ns} : s # t => ~IsPrefix(p[s], p[t])
    BY <1>1, <1>2, <1>3, <1>4, <1>5
<1>8. ASSUME NEW m \in (tree \cup {l, r}) \ {<< >>}
      PROVE  \E s \in living \cup {ns} : IsPrefix(m, p[s])
    <2>1. CASE m = l
        BY <1>2, <1>3, <2>1, PrefixOrder
    <2>2. CASE m = r
        BY <1>2, <1>3, <2>2, PrefixOrder
    <2>3. CASE m \in tree
        <3>1. PICK s \in living : IsPrefix(m, ptreeNode[s])
            BY <1>1, <2>3
        <3>2. CASE s = es
            <4>1. IsPrefix(m, r)
                BY <1>1, <1>2, <2>3, <3>1, <3>2, PrefixOrder
            <4> QED
                BY <1>3, <4>1
        <3>3. CASE s # es
            BY <1>3, <3>1, <3>3
        <3> QED
            BY <3>2, <3>3
    <2> QED
        BY <2>1, <2>2, <2>3
<1>9. TreeOf(tree \cup {l, r}, p, living \cup {ns})
    BY <1>1, <1>2, <1>3, <1>6, <1>7, <1>8 DEF TreeOf, Nodes
<1> QED
    BY <1>9 DEF p, l, r

(* PTree::remove, for the states of S. *)
LEMMA TreeRemoved ==
    ASSUME NEW living \in SUBSET ES, living # {}, TreeOf(tree, ptreeNode, living),
           NEW S \in SUBSET living
    PROVE  TreeOf(PTreeRemove({ptreeNode[s] : s \in S}), ptreeNode, living \ S)
<1> DEFINE t == PTreeRemove({ptreeNode[s] : s \in S})
<1>1. /\ \A s \in living : ptreeNode[s] \in tree
      /\ \A s, u \in living : s # u => ~IsPrefix(ptreeNode[s], ptreeNode[u])
      /\ tree \subseteq Nodes /\ << >> \in tree /\ \A s \in living : ptreeNode[s] \in Nodes
    BY DEF TreeOf, Nodes
<1>2. Leaves = {ptreeNode[s] : s \in living}
    BY LeavesOfTree
<1>3. Leaves \ {ptreeNode[s] : s \in S} = {ptreeNode[s] : s \in living \ S}
    <2>1. \A s, u \in living : ptreeNode[s] = ptreeNode[u] => s = u
        BY <1>1, PrefixOrder
    <2> QED
        BY <1>2, <2>1
<1>4. t = {n \in tree : n = << >> \/ \E s \in living \ S : IsPrefix(n, ptreeNode[s])}
    BY <1>3 DEF PTreeRemove
<1> HIDE DEF t
<1>5. \A s \in living \ S : ptreeNode[s] \in t
    BY <1>1, <1>4, PrefixOrder
<1>6. t \subseteq tree /\ << >> \in t /\ \A n \in t \ {<< >>} : \E s \in living \ S : IsPrefix(n, ptreeNode[s])
    BY <1>1, <1>4
<1>7. TreeOf(t, ptreeNode, living \ S)
    BY <1>1, <1>5, <1>6 DEF TreeOf, Nodes
<1> QED
    BY <1>7 DEF t
-----------------------------------------------------------------------------
(***************************************************************************)
(* The invariant.                                                          *)
(***************************************************************************)

(* The states are among those that can be created, and the chain that was  *)
(* asked for is regular.                                                   *)
LEMMA StatesFacts ==
    ASSUME RegularChains, StatesInv
    PROVE  /\ RegularChain(search) /\ search \in Searches
           /\ 1 .. created \subseteq ES /\ states \subseteq ES /\ ToSet(addedStates) \subseteq ES
           /\ Null \notin ES
           /\ phase # "memory" \/ ~TerminatedTwice => Listing(removedStates, Ended)
<1>1. MaxStates \in Nat /\ created \in 1 .. MaxStates
    BY SearchersAssumption DEF StatesInv
<1>2. 1 .. created \subseteq ES /\ Null \notin ES
    BY <1>1 DEF ES, Null
<1>3. phase # "memory" \/ ~TerminatedTwice => Listing(removedStates, Ended)
    BY DEF StatesInv, TerminatedTwice, Listing, Ended
<1> QED
    BY <1>2, <1>3 DEF RegularChains, StatesInv

(* ChainInv of the next state. *)
LEMMA ChainInvNext ==
    ASSUME UNCHANGED search, Scheduled(chain', states' \ pausedStates'),
           ~Wandering => current' \notin chain'.deepened
    PROVE  ChainInv'
BY DEF ChainInv, Scheduled, ChainOf, Chains, Core, Lists, Wandering

(* A plain queue: there is one searcher. *)
LEMMA PlainQueue ==
    ASSUME PlainBFS, RunInv
    PROVE  /\ Core = {1} /\ Lists(1) /\ search.core[1] = "bfs" /\ pausedStates = {}
           /\ Listing(chain.held[1], states) /\ chain.index = 1
           /\ chain.deepened = {}
<1>1. Core = {1} /\ search.core[1] = "bfs" /\ Lists(1)
    BY DEF PlainBFS, Core, Lists
<1>2. pausedStates = {} /\ chain.deepened = {}
    BY DEF PlainBFS, RunInv, StatesInv, ChainInv, Scheduled
<1>3. ChainOf(chain, states, {})
    <2>1. (states \ pausedStates) \ chain.deepened = states
        BY <1>2
    <2> QED
        BY <1>2, <2>1 DEF RunInv, ChainInv, Scheduled
<1> QED
    BY <1>1, <1>2, <1>3 DEF ChainOf, Chains

(* What a searcher selects is a state of the executor that is not paused,  *)
(* and there is one.                                                       *)
LEMMA CoreSelects ==
    ASSUME RegularChains, RunInv, phase = "select", NEW i \in Core
    PROVE  /\ CoreSelect(i) \subseteq states \ pausedStates
           /\ ~Wandering => CoreSelect(i) \cap chain.deepened = {}
           /\ states # {} => CoreSelect(i) # {}
<1> DEFINE D == chain.deepened
           X == (states \ pausedStates) \ D
           q == chain.held[i]
<1> USE DEF RunInv
<1>1. search \in Searches /\ states \subseteq ES /\ addedStates = << >> /\ RegularChain(search)
    BY StatesFacts DEF StatesInv
<1>2. CASE Lists(i)
    <2>1. Listing(q, X)
        BY <1>2 DEF ChainInv, Scheduled, ChainOf
    <2>2. ~Wandering
        BY <1>1, <1>2 DEF Wandering, RegularChain, Lists, Core, ToSet
    <2>3. states # {} => X # {}
        BY <2>2 DEF ChainInv, Scheduled, StatesInv
    <2>4. q \in Seq(ES) /\ ToSet(q) = X /\ (q = << >> <=> X = {})
        BY <2>1, ListingOfNone DEF Listing
    <2>5. q # << >> => Last(q) \in X /\ Head(q) \in X
        <3>1. SUFFICES ASSUME q # << >> PROVE Last(q) \in X /\ Head(q) \in X
            OBVIOUS
        <3>2. Len(q) \in Nat /\ Len(q) > 0 /\ Head(q) = q[1] /\ Last(q) = q[Len(q)]
            BY <2>4, <3>1 DEF Last
        <3>3. 1 \in 1 .. Len(q) /\ Len(q) \in 1 .. Len(q)
            BY <3>2
        <3> HIDE DEF q, X
        <3> QED
            BY <2>1, <2>4, <3>2, <3>3, ListingElements
    <2> HIDE DEF q, X
    <2>6. CoreSelect(i) \subseteq X /\ (X # {} => CoreSelect(i) # {})
        BY <1>2, <2>4, <2>5 DEF CoreSelect, Lists, q
    <2> QED
        BY <2>3, <2>6 DEF X
<1>3. CASE ~Lists(i)
    <2>1. pausedStates = {}
        BY <1>1, <1>3, Options DEF StatesInv
    <2>2. ~Wandering => D = {}
        BY <1>3 DEF ChainInv, Scheduled, Wandering, Lists, Core, ToSet
    <2>3. ToSet(addedStates) = {}
        BY <1>1, EmptyListing DEF Listing
    <2>4. CoreSelect(i) = {s \in states : ptreeNode[s] \in Leaves}
        BY <1>3, <2>3 DEF CoreSelect, Lists
    <2>5. states # {} => Leaves = {ptreeNode[s] : s \in states}
        <3>1. TreeOf(tree, ptreeNode, states)
            BY <2>3 DEF TreeInv
        <3> QED
            BY <1>1, <3>1, LeavesOfTree
    <2> QED
        BY <2>1, <2>2, <2>4, <2>5
<1> QED
    BY <1>2, <1>3

(* A state is selected. *)
LEMMA SelectStateKeeps ==
    ASSUME RegularChains, RunInv, SelectState
    PROVE  RunInv' /\ current' \in states \ pausedStates
<1> USE DEF RunInv
<1> DEFINE T == states \ pausedStates
<1>1. /\ phase = "select" /\ phase' = "execute" /\ search \in Searches /\ RegularChain(search)
      /\ UNCHANGED <<search, pausedStates, states, addedStates, removedStates, tree, ptreeNode,
                     depth, steps, created>>
    BY StatesFacts DEF SelectState, SelectFromCore, Selected
<1>2. chain.index \in Core /\ chain \in Chains /\ Scheduled(chain, T)
    BY DEF ChainInv, Scheduled, ChainOf, Chains
<1>3. /\ current' \in T /\ (~Wandering => current' \notin chain'.deepened)
      /\ Scheduled(chain', T) /\ chain'.held = chain.held
    <2>1. CASE SelectFromCore
        <3> DEFINE next == IF chain.index = 1 THEN Len(search.core) ELSE chain.index - 1
        <3>1. PICK x \in CoreSelect(chain.index) :
                  /\ current' = x
                  /\ chain' = [chain EXCEPT !.index = next, !.lastState = IF search.batching THEN x ELSE @]
            BY <2>1 DEF SelectFromCore, Selected
        <3>2. x \in T /\ (~Wandering => x \notin chain.deepened) /\ x \in ES
            BY <1>1, <1>2, <3>1, CoreSelects, StatesFacts
        <3>3. next \in Core
            BY <1>1, <1>2, Options
        <3> HIDE DEF next
        <3>4. /\ chain' \in Chains /\ chain'.held = chain.held /\ chain'.deepened = chain.deepened
              /\ chain'.failed = chain.failed
              /\ chain'.lastState = IF search.batching THEN x ELSE chain.lastState
            BY <1>2, <3>1, <3>2, <3>3 DEF Chains
        <3>5. search.batching => ~Wandering
            BY <1>1 DEF RegularChain, Wandering
        <3>6. Scheduled(chain', T)
            BY <1>2, <3>2, <3>4, <3>5 DEF Scheduled, ChainOf
        <3> QED
            BY <3>1, <3>2, <3>4, <3>6
    <2>2. CASE BatchedState /\ Selected(chain.lastState) /\ UNCHANGED chain
        <3>1. current' \in T \ chain.deepened /\ chain' = chain
            BY <1>2, <2>2 DEF BatchedState, Selected, Scheduled, ChainOf
        <3> QED
            BY <1>2, <3>1
    <2> QED
        BY <2>1, <2>2 DEF SelectState
<1>4. StatesInv'
    BY <1>1, <1>3 DEF StatesInv, Ended, TerminatedTwice
<1>5. ChainInv'
    BY <1>1, <1>3, ChainInvNext
<1>6. TreeInv'
    BY <1>1 DEF TreeInv
<1>7. DepthInv'
    <2>1. SUFFICES ASSUME PlainBFS PROVE current' = chain.held[1][1]
        BY <1>1, <1>3 DEF DepthInv, PlainBFS, StatesInv
    <2>2. chain.index = 1 /\ Listing(chain.held[1], states) /\ search.core[1] = "bfs" /\ ~search.batching
        BY <2>1, PlainQueue DEF PlainBFS
    <2>3. current' \in CoreSelect(1)
        BY <2>2 DEF SelectState, SelectFromCore, Selected, BatchedState
    <2>4. chain.held[1] # << >> /\ current' = Head(chain.held[1])
        BY <2>2, <2>3 DEF CoreSelect
    <2> QED
        BY <2>2, <2>4 DEF Listing
<1> QED
    BY <1>3, <1>4, <1>5, <1>6, <1>7

(* The depths, where nothing that they depend on changes. *)
LEMMA DepthInvStutters ==
    ASSUME DepthInv, UNCHANGED <<search, chain, addedStates, depth, current>>
    PROVE  DepthInv'
BY DEF DepthInv, PlainBFS

(* A state forks. *)
LEMMA ForkKeeps ==
    ASSUME RegularChains, RunInv, Fork
    PROVE  RunInv'
<1> USE DEF RunInv
<1> DEFINE A == ToSet(addedStates)
           living == states \cup A
           ns == created + 1
<1>1. /\ phase = "execute" /\ current \in states /\ current \notin pausedStates
      /\ UNCHANGED <<search, chain, pausedStates, states, removedStates, current, phase>>
      /\ states \subseteq 1 .. created /\ A \subseteq (1 .. created) \ states
      /\ created \in Nat /\ created' = ns /\ ns \in 1 .. MaxStates
    <2>1. MaxStates \in Nat
        BY SearchersAssumption
    <2> QED
        BY <2>1 DEF Fork, Executing, StatesInv
<1>2. PICK es \in {current} \cup (IF search.branch THEN A ELSE {}) :
          /\ es = current /\ ~search.branch => addedStates = << >>
          /\ addedStates' = Append(addedStates, ns)
          /\ tree' = tree \cup {Append(ptreeNode[es], 0), Append(ptreeNode[es], 1)}
          /\ ptreeNode' = [ptreeNode EXCEPT ![ns] = Append(ptreeNode[es], 0), ![es] = Append(@, 1)]
          /\ depth' = DepthAfterFork(es, ns)
    BY DEF Fork
<1>3. ns \in ES /\ ns \notin living /\ es \in living /\ living \subseteq ES
    <2>1. ns \in ES
        BY <1>1 DEF ES
    <2>2. ns \notin 1 .. created
        BY <1>1
    <2> QED
        BY <1>1, <1>2, <2>1, <2>2, StatesFacts
<1>4. Listing(addedStates', A \cup {ns}) /\ ToSet(addedStates') = A \cup {ns}
    <2>1. Listing(addedStates, A)
        BY DEF StatesInv
    <2>2. Listing(addedStates', A \cup {ns})
        BY <1>2, <1>3, <2>1, AppendListing
    <2> QED
        BY <2>2 DEF Listing
<1> HIDE DEF ns, A
<1>5. StatesInv'
    <2>1. 1 .. created \subseteq 1 .. created' /\ ns \in 1 .. created' /\ ns \notin states
        BY <1>1, <1>3 DEF ns
    <2>2. created' \in 1 .. MaxStates /\ states' \subseteq 1 .. created'
        BY <1>1, <2>1
    <2>3. Listing(addedStates', ToSet(addedStates')) /\ ToSet(addedStates') \subseteq (1 .. created') \ states'
        BY <1>1, <1>4, <2>1
    <2> QED
        BY <1>1, <2>2, <2>3 DEF StatesInv, Ended, TerminatedTwice
<1>6. ChainInv'
    <2>1. Scheduled(chain', states' \ pausedStates') /\ (~Wandering => current' \notin chain'.deepened)
        BY <1>1 DEF ChainInv
    <2> QED
        BY <1>1, <2>1, ChainInvNext
<1>7. TreeInv'
    <2>1. TreeOf(tree', ptreeNode', living \cup {ns})
        BY <1>2, <1>3, TreeForked DEF TreeInv, A
    <2>2. living \cup {ns} = states' \cup ToSet(addedStates')
        BY <1>1, <1>4
    <2> QED
        BY <2>1, <2>2 DEF TreeInv
<1>8. DepthInv'
    <2>1. depth \in [ES -> Nat]
        BY DEF DepthInv
    <2>2. depth' \in [ES -> Nat] /\ depth'[es] = depth[es] + 1 /\ depth'[ns] = depth[es] + 1
          /\ \A x \in ES \ {es, ns} : depth'[x] = depth[x]
        BY <1>2, <1>3, <2>1 DEF DepthAfterFork
    <2>3. ASSUME PlainBFS
          PROVE  LET q == chain'.held[1]
                 IN  /\ current' # Null => current' = q[1]
                     /\ \A i, j \in DOMAIN q : 1 < i /\ i < j => depth'[q[j]] - depth'[q[i]] \in {0, 1}
                     /\ \A j \in DOMAIN q \ {1} :
                           IF addedStates' = << >> THEN depth'[q[j]] - depth'[q[1]] \in {0, 1}
                                                   ELSE depth'[q[1]] - depth'[q[j]] \in {0, 1}
                     /\ addedStates' # << >> =>
                           /\ current' # Null /\ Len(addedStates') = 1
                           /\ depth'[addedStates'[1]] = depth'[current']
        <3> DEFINE q == chain.held[1]
        <3>1. Listing(q, states) /\ chain' = chain /\ current' = current
            BY <1>1, <2>3, PlainQueue
        <3>2. es = current /\ addedStates = << >>
            BY <1>2, <2>3 DEF PlainBFS
        <3>3. current # Null /\ current = q[1]
            BY <1>1, <2>3, StatesFacts DEF DepthInv
        <3>4. addedStates' = <<ns>>
            BY <1>2, <3>2
        <3>5. addedStates' # << >> /\ Len(addedStates') = 1 /\ addedStates'[1] = ns
            BY <3>4
        <3>6. /\ \A i, j \in DOMAIN q : 1 < i /\ i < j => depth[q[j]] - depth[q[i]] \in {0, 1}
              /\ \A j \in DOMAIN q \ {1} : depth[q[j]] - depth[q[1]] \in {0, 1}
            BY <2>3, <3>2 DEF DepthInv
        <3>7. q \in Seq(ES) /\ Len(q) \in Nat /\ DOMAIN q = 1 .. Len(q)
            BY <3>1 DEF Listing
        <3> HIDE DEF q
        <3>8. 1 \in DOMAIN q /\ \A j \in DOMAIN q \ {1} : q[j] \in ES \ {es, ns} /\ q[1] = es
            <4>1. \A j \in 1 .. Len(q) : q[j] \in states /\ q[j] \in ES
                BY <1>3, <3>1, <3>7, ListingElements
            <4>2. \A i, j \in 1 .. Len(q) : q[i] = q[j] => i = j
                BY <3>1, <3>7, ListingElements
            <4>3. Len(q) >= 1
                <5>1. q # << >>
                    BY <1>1, <3>1, ListingOfNone
                <5> QED
                    BY <3>7, <5>1
            <4>4. 1 \in 1 .. Len(q)
                BY <3>7, <4>3
            <4> QED
                BY <1>3, <3>2, <3>3, <3>7, <4>1, <4>2, <4>4
        <3>9. \A j \in DOMAIN q \ {1} : depth'[q[j]] = depth[q[j]]
            BY <2>2, <3>8
        <3>10. \A i, j \in DOMAIN q : 1 < i /\ i < j => depth'[q[j]] - depth'[q[i]] \in {0, 1}
            BY <3>6, <3>7, <3>9
        <3>11. \A j \in DOMAIN q \ {1} : depth'[q[1]] - depth'[q[j]] \in {0, 1}
            <4>1. depth'[q[1]] = depth[q[1]] + 1 /\ depth[q[1]] \in Nat
                BY <1>3, <2>1, <2>2, <3>2, <3>3
            <4>2. \A j \in DOMAIN q \ {1} : depth[q[j]] \in Nat
                BY <2>1, <3>8
            <4> QED
                BY <3>6, <3>9, <4>1, <4>2
        <3> QED
            BY <2>2, <3>1, <3>2, <3>3, <3>5, <3>10, <3>11 DEF q
    <2>4. PlainBFS' => PlainBFS
        BY <1>1 DEF PlainBFS
    <2> QED
        BY <2>2, <2>3, <2>4 DEF DepthInv
<1> QED
    BY <1>5, <1>6, <1>7, <1>8

(* A state ends. *)
LEMMA TerminateStateKeeps ==
    ASSUME RegularChains, RunInv, TerminateState
    PROVE  RunInv'
<1> USE DEF RunInv
<1> DEFINE A == ToSet(addedStates)
           living == states \cup A
<1>1. /\ phase \in {"execute", "closed"} /\ current \in states /\ current \in ES
      /\ UNCHANGED <<search, chain, pausedStates, states, ptreeNode, depth, steps, created, current, phase>>
      /\ Listing(addedStates, A) /\ Listing(removedStates, Ended) /\ living \subseteq ES
    BY StatesFacts DEF TerminateState, Executing, StatesInv
<1>2. PICK s \in {current} \cup (IF search.error THEN ToSet(addedStates) ELSE {}) :
          /\ s \notin pausedStates \cup Ended
          /\ IF s \in ToSet(addedStates)
             THEN /\ addedStates' = Without(addedStates, {s})
                  /\ tree' = PTreeRemove({ptreeNode[s]})
                  /\ UNCHANGED removedStates
             ELSE /\ removedStates' = Append(removedStates, s)
                  /\ UNCHANGED <<addedStates, tree>>
    BY DEF TerminateState
<1>3. s \in living /\ s \in ES
    BY <1>1, <1>2
<1>4. ChainInv'
    <2>1. Scheduled(chain', states' \ pausedStates') /\ (~Wandering => current' \notin chain'.deepened)
        BY <1>1 DEF ChainInv
    <2> QED
        BY <1>1, <2>1, ChainInvNext
<1>5. CASE s \in A
    <2>1. Listing(addedStates', A \ {s}) /\ ToSet(addedStates') = A \ {s}
        <3>1. Listing(addedStates', A \ {s})
            BY <1>1, <1>2, <1>5, WithoutListing
        <3> QED
            BY <3>1 DEF Listing
    <2>2. search.error /\ phase # "closed" /\ UNCHANGED removedStates
        <3>1. addedStates # << >>
            BY <1>1, <1>5, ListingOfNone
        <3> QED
            BY <1>1, <1>2, <1>5, <3>1 DEF StatesInv
    <2>3. StatesInv'
        BY <1>1, <2>1, <2>2 DEF StatesInv, Ended, TerminatedTwice
    <2>4. TreeInv'
        <3>1. TreeOf(PTreeRemove({ptreeNode[x] : x \in {s}}), ptreeNode, living \ {s})
            BY <1>1, <1>3, TreeRemoved DEF TreeInv
        <3>2. {ptreeNode[x] : x \in {s}} = {ptreeNode[s]}
            OBVIOUS
        <3>3. living \ {s} = states' \cup ToSet(addedStates')
            BY <1>1, <1>5, <2>1 DEF StatesInv
        <3> QED
            BY <1>1, <1>2, <1>5, <3>1, <3>2, <3>3 DEF TreeInv
    <2>5. DepthInv'
        BY <1>1, <2>2 DEF DepthInv, PlainBFS
    <2> QED
        BY <1>4, <2>3, <2>4, <2>5
<1>6. CASE s \notin A
    <2>1. s \in states /\ removedStates' = Append(removedStates, s) /\ UNCHANGED <<addedStates, tree>>
        BY <1>2, <1>3, <1>6
    <2>2. Listing(removedStates', Ended \cup {s}) /\ ToSet(removedStates') = Ended \cup {s}
        <3>1. Listing(removedStates', Ended \cup {s})
            BY <1>1, <1>2, <1>3, <2>1, AppendListing
        <3> QED
            BY <3>1 DEF Listing
    <2>3. StatesInv'
        <3>1. current \notin pausedStates
            BY <1>1, <1>2, <1>6, <2>1
        <3> QED
            BY <1>1, <1>2, <2>1, <2>2, <3>1 DEF StatesInv, Ended, Listing, TerminatedTwice
    <2>4. TreeInv' /\ DepthInv'
        BY <1>1, <2>1, DepthInvStutters DEF TreeInv
    <2> QED
        BY <1>4, <2>3, <2>4
<1> QED
    BY <1>5, <1>6

(* The current state waits at the end of a merge region. *)
LEMMA PauseStateKeeps ==
    ASSUME RegularChains, RunInv, PauseState
    PROVE  RunInv'
<1> USE DEF RunInv
<1> DEFINE T == states \ pausedStates
<1>1. /\ phase = "execute" /\ search.merge /\ current \in states /\ current \in ES
      /\ current \notin pausedStates /\ addedStates = << >> /\ removedStates = << >>
      /\ pausedStates' = pausedStates \cup {current}
      /\ chain' = BaseUpdate(chain, Null, << >>, <<current>>, FALSE)
      /\ phase' = "closed" /\ search \in Searches /\ RegularChain(search)
      /\ T \in SUBSET ES /\ Null \notin ES
      /\ UNCHANGED <<search, states, addedStates, removedStates, tree, ptreeNode, depth, steps, created, current>>
    BY StatesFacts DEF PauseState, Executing, StatesInv
<1>2. StatesInv'
    <2>1. Ended = {} /\ Ended' = {}
        BY <1>1, EmptyListing DEF Ended, Listing
    <2> QED
        BY <1>1, <2>1 DEF StatesInv, TerminatedTwice
<1>3. Scheduled(chain', (T \cup {}) \ {current})
    <2>1. Scheduled(chain, T)
        BY DEF ChainInv
    <2>2. Null \notin chain.deepened
        BY <1>1, <2>1 DEF Scheduled
    <2>3. Listing(<<current>>, {current}) /\ Listing(<< >>, {}) /\ FALSE \in Elapsed
        BY <1>1, ListingOfOne, EmptyListing DEF Elapsed
    <2>4. T \cap {} = {} /\ {current} \subseteq T \cup {} /\ Null \in T \cup {Null}
        BY <1>1
    <2> HIDE DEF T
    <2> QED
        BY <1>1, <2>1, <2>2, <2>3, <2>4, BaseUpdateKeeps
<1>4. (T \cup {}) \ {current} = states' \ pausedStates'
    BY <1>1
<1>5. ChainInv'
    <2>1. current' \notin chain'.deepened
        BY <1>1, <1>3 DEF Scheduled
    <2> QED
        BY <1>1, <1>3, <1>4, <2>1, ChainInvNext
<1>6. TreeInv' /\ DepthInv'
    BY <1>1 DEF TreeInv, DepthInv, PlainBFS
<1> QED
    BY <1>2, <1>5, <1>6

(* States that waited go on. *)
LEMMA ContinueStatesKeeps ==
    ASSUME RegularChains, RunInv, NEW R \in SUBSET pausedStates, ContinueStates(R),
           UNCHANGED <<search, states, current>>
    PROVE  ChainInv' /\ pausedStates' = pausedStates \ R
<1> USE DEF RunInv
<1> DEFINE T == states \ pausedStates
<1>1. pausedStates' = pausedStates \ R /\ chain' = Continued(R)
    BY DEF ContinueStates
<1>2. /\ T \in SUBSET ES /\ R \in SUBSET ES /\ T \cap R = {} /\ T \cup R = states' \ pausedStates'
      /\ search \in Searches /\ RegularChain(search)
    BY <1>1, StatesFacts DEF StatesInv
<1>3. Scheduled(chain, T) /\ (~Wandering => current \notin chain.deepened)
    BY DEF ChainInv
<1>4. Scheduled(chain', T \cup R) /\ chain'.deepened \subseteq chain.deepened
    <2> HIDE DEF T
    <2> QED
        BY <1>1, <1>2, <1>3, ContinuedKeeps
<1>5. Scheduled(chain', states' \ pausedStates')
    BY <1>2, <1>4
<1>6. ~Wandering => current' \notin chain'.deepened
    BY <1>3, <1>4
<1> QED
    BY <1>1, <1>5, <1>6, ChainInvNext

(* The last state of a merge group has come. *)
LEMMA ReleaseAtCloseKeeps ==
    ASSUME RegularChains, RunInv, ReleaseAtClose
    PROVE  RunInv' /\ pausedStates' \subseteq pausedStates
<1> USE DEF RunInv
<1>1. /\ phase \in {"execute", "closed"} /\ current \in states /\ current \in pausedStates
      /\ UNCHANGED <<search, states, addedStates, tree, ptreeNode, depth, steps, created, current, phase>>
      /\ states \subseteq ES /\ phase = "closed" /\ search.merge /\ removedStates = << >>
    BY StatesFacts DEF ReleaseAtClose, Executing, StatesInv
<1>2. PICK R \in SUBSET pausedStates :
          /\ current \in R /\ ContinueStates(R)
          /\ \E merged \in SUBSET R : removedStates' = removedStates \o SetToSeq(merged)
    BY DEF ReleaseAtClose
<1>3. PICK merged \in SUBSET R : removedStates' = removedStates \o SetToSeq(merged)
    BY <1>2
<1>4. ChainInv' /\ pausedStates' = pausedStates \ R
    BY <1>1, <1>2, ContinueStatesKeeps
<1>5. Listing(removedStates', merged) /\ Ended' = merged
    <2>1. Listing(SetToSeq(merged), merged)
        BY <1>1, SetToSeqListing DEF StatesInv
    <2>2. removedStates' = SetToSeq(merged)
        BY <1>1, <1>3, <2>1, ConcatEmptySeq DEF Listing
    <2> QED
        BY <2>1, <2>2 DEF Listing, Ended
<1>6. StatesInv'
    <2>1. Listing(removedStates', Ended') /\ Ended' \subseteq states' \ pausedStates'
        BY <1>1, <1>4, <1>5 DEF StatesInv
    <2>2. current' \notin pausedStates' /\ pausedStates' \subseteq states'
        BY <1>1, <1>2, <1>4 DEF StatesInv
    <2> QED
        BY <1>1, <2>1, <2>2 DEF StatesInv, Listing, TerminatedTwice
<1>7. TreeInv' /\ DepthInv'
    BY <1>1 DEF TreeInv, DepthInv, PlainBFS
<1> QED
    BY <1>4, <1>6, <1>7

(* The last open state of a merge group has been deleted. *)
LEMMA ReleaseAtDeleteKeeps ==
    ASSUME RegularChains, RunInv, ReleaseAtDelete
    PROVE  RunInv' /\ pausedStates' \subseteq pausedStates
<1> USE DEF RunInv
<1>1. /\ phase = "delete" /\ current = Null /\ addedStates = << >> /\ removedStates = << >>
      /\ UNCHANGED <<search, states, addedStates, removedStates, tree, ptreeNode, depth, steps,
                     created, current, phase>>
      /\ Null \notin ES /\ states \subseteq ES
    BY StatesFacts DEF ReleaseAtDelete, StatesInv
<1>2. PICK R \in (SUBSET pausedStates) \ {{}} : ContinueStates(R)
    BY DEF ReleaseAtDelete
<1>3. ChainInv' /\ pausedStates' = pausedStates \ R /\ search.merge
    <2>1. R \in SUBSET pausedStates /\ pausedStates # {}
        BY <1>2
    <2> QED
        BY <1>1, <1>2, <2>1, ContinueStatesKeeps DEF StatesInv
<1>4. Ended = {} /\ Ended' = {}
    BY <1>1, EmptyListing DEF Ended, Listing
<1>5. StatesInv'
    BY <1>1, <1>3, <1>4 DEF StatesInv, TerminatedTwice
<1>6. TreeInv' /\ DepthInv'
    BY <1>1, <1>3 DEF TreeInv, DepthInv, PlainBFS
<1> QED
    BY <1>3, <1>5, <1>6

(* Nothing more happens after the deletion of states. *)
LEMMA DeletedKeeps ==
    ASSUME RunInv, Deleted
    PROVE  RunInv'
<1> USE DEF RunInv
<1>1. /\ phase = "delete" /\ phase' = "select" /\ states \ pausedStates # {}
      /\ UNCHANGED <<search, chain, pausedStates, states, addedStates, removedStates, tree,
                     ptreeNode, depth, steps, created, current>>
    BY DEF Deleted
<1>2. StatesInv'
    BY <1>1 DEF StatesInv, Ended, TerminatedTwice
<1>3. ChainInv'
    BY <1>1, ChainInvNext DEF ChainInv
<1>4. TreeInv' /\ DepthInv'
    BY <1>1, DepthInvStutters DEF TreeInv
<1> QED
    BY <1>2, <1>3, <1>4

(* A queue that is ordered by depth, as wide as one fork. *)
Ordered(q) == \A i, j \in 1 .. Len(q) : i < j => depth[q[j]] - depth[q[i]] \in {0, 1}

(* What is left of it is ordered. *)
LEMMA OrderedWithout ==
    ASSUME NEW q \in Seq(ES), NEW S,
           \A i, j \in 1 .. Len(q) : i < j /\ q[i] \notin S /\ q[j] \notin S =>
              depth[q[j]] - depth[q[i]] \in {0, 1}
    PROVE  Ordered(Without(q, S))
<1> DEFINE w == Without(q, S)
<1>1. KeptOf(w, q, Len(q), S)
    BY WithoutKeeps
<1> HIDE DEF w
<1>2. PICK f : Places(f, w, q) /\ \A k \in 1 .. Len(w) : f[k] <= Len(q) /\ q[f[k]] \notin S
    BY <1>1 DEF KeptOf
<1>3. \A k \in 1 .. Len(w) : f[k] \in 1 .. Len(q) /\ w[k] = q[f[k]] /\ q[f[k]] \notin S
    BY <1>2 DEF Places
<1>4. \A i, j \in 1 .. Len(w) : i < j => f[i] < f[j]
    BY <1>2 DEF Places
<1>5. Ordered(w)
    BY <1>3, <1>4 DEF Ordered
<1> QED
    BY <1>5 DEF w

(* States of the last depth come at its end. *)
LEMMA OrderedAppend ==
    ASSUME NEW q \in Seq(ES), Ordered(q), NEW x,
           \A i \in 1 .. Len(q) : depth[x] - depth[q[i]] \in {0, 1}
    PROVE  Ordered(Append(q, x))
<1> DEFINE w == Append(q, x)
<1>1. /\ Len(q) \in Nat /\ Len(w) = Len(q) + 1 /\ w[Len(q) + 1] = x
      /\ \A i \in 1 .. Len(q) : w[i] = q[i]
    OBVIOUS
<1> HIDE DEF w
<1>2. ASSUME NEW i \in 1 .. Len(w), NEW j \in 1 .. Len(w), i < j
      PROVE  depth[w[j]] - depth[w[i]] \in {0, 1}
    <2>1. i \in 1 .. Len(q) /\ (j \in 1 .. Len(q) \/ j = Len(q) + 1)
        BY <1>1, <1>2
    <2> QED
        BY <1>1, <1>2, <2>1 DEF Ordered
<1> QED
    BY <1>2 DEF Ordered, w

(* The queue after an update. *)
LEMMA QueueOrdered ==
    ASSUME RegularChains, RunInv, PlainBFS, current \in states
    PROVE  Ordered(CoreUpdate("bfs", chain.held[1], current, addedStates, removedStates))
<1> USE DEF RunInv
<1> DEFINE q == chain.held[1]
           R == ToSet(removedStates)
           cur == current
<1>1. q \in Seq(ES) /\ Listing(q, states) /\ states \subseteq ES /\ depth \in [ES -> Nat] /\ cur \in ES /\ cur # Null
    BY PlainQueue, StatesFacts DEF Listing, DepthInv
<1>2. /\ Len(q) \in Nat /\ DOMAIN q = 1 .. Len(q) /\ q[1] = cur
      /\ \A i, j \in 1 .. Len(q) : q[i] = q[j] => i = j
      /\ \A i \in 1 .. Len(q) : q[i] \in ES
      /\ \A x \in states : \E i \in 1 .. Len(q) : q[i] = x
    BY <1>1, ListingElements DEF DepthInv
<1>3. /\ \A i, j \in DOMAIN q : 1 < i /\ i < j => depth[q[j]] - depth[q[i]] \in {0, 1}
      /\ \A j \in DOMAIN q \ {1} :
            IF addedStates = << >> THEN depth[q[j]] - depth[q[1]] \in {0, 1}
                                   ELSE depth[q[1]] - depth[q[j]] \in {0, 1}
      /\ addedStates # << >> => /\ Len(addedStates) = 1
                                /\ depth[addedStates[1]] = depth[cur]
    BY DEF DepthInv
<1>4. addedStates \in Seq(ES) /\ ToSet(addedStates) \cap states = {}
    BY DEF StatesInv, Listing
<1> HIDE DEF q
<1>5. CASE addedStates = << >>
    <2>1. CoreUpdate("bfs", q, cur, addedStates, removedStates) = Without(q, R)
        <3>1. q \o << >> = q
            BY <1>1, ConcatEmptySeq
        <3> QED
            BY <1>5, <3>1 DEF CoreUpdate, Evolved
    <2>2. \A i, j \in 1 .. Len(q) : i < j => depth[q[j]] - depth[q[i]] \in {0, 1}
        <3>1. SUFFICES ASSUME NEW i \in 1 .. Len(q), NEW j \in 1 .. Len(q), i < j
                       PROVE  depth[q[j]] - depth[q[i]] \in {0, 1}
            OBVIOUS
        <3>2. CASE i = 1
            BY <1>2, <1>3, <1>5, <3>1, <3>2
        <3>3. CASE i # 1
            BY <1>2, <1>3, <3>1, <3>3
        <3> QED
            BY <3>2, <3>3
    <2> QED
        BY <1>1, <2>1, <2>2, OrderedWithout DEF q
<1>6. CASE addedStates # << >>
    <2> DEFINE ns == addedStates[1]
               w == Without(q, {cur})
    <2>1. addedStates = <<ns>> /\ ns \in ES
        BY <1>3, <1>4, <1>6
    <2>2. depth[ns] = depth[cur]
        BY <1>3, <1>6
    <2> HIDE DEF ns
    <2>3. \A i \in 2 .. Len(q) : depth[cur] - depth[q[i]] \in {0, 1}
        BY <1>2, <1>3, <1>6
    <2>4. CASE Evolved(cur, addedStates, removedStates)
        <3>1. w \in Seq(ES) /\ Listing(w, states \ {cur})
            BY <1>1, WithoutListing DEF Listing
        <3>2. Ordered(w)
            <4>1. \A i, j \in 1 .. Len(q) : i < j /\ q[i] \notin {cur} /\ q[j] \notin {cur} =>
                      depth[q[j]] - depth[q[i]] \in {0, 1}
                BY <1>2, <1>3
            <4> QED
                BY <1>1, <4>1, OrderedWithout
        <3>3. \A i \in 1 .. Len(w) : depth[cur] - depth[w[i]] \in {0, 1}
            <4>1. SUFFICES ASSUME NEW i \in 1 .. Len(w) PROVE depth[cur] - depth[w[i]] \in {0, 1}
                OBVIOUS
            <4>2. w[i] \in states \ {cur}
                BY <3>1, ListingElements
            <4>3. PICK k \in 1 .. Len(q) : q[k] = w[i]
                BY <1>2, <4>2
            <4>4. k \in 2 .. Len(q)
                BY <1>2, <4>2, <4>3
            <4> QED
                BY <2>3, <4>3, <4>4
        <3> HIDE DEF w
        <3> DEFINE v == Append(w, cur)
                   u == Append(v, ns)
        <3>4. v \in Seq(ES) /\ Ordered(v)
            <4>1. v \in Seq(ES)
                BY <1>1, <3>1
            <4>2. Ordered(v)
                BY <3>1, <3>2, <3>3, OrderedAppend
            <4> QED
                BY <4>1, <4>2
        <3>5. \A i \in 1 .. Len(v) : depth[ns] - depth[v[i]] \in {0, 1}
            <4>1. Len(w) \in Nat /\ Len(v) = Len(w) + 1 /\ v[Len(w) + 1] = cur /\ \A i \in 1 .. Len(w) : v[i] = w[i]
                BY <3>1
            <4> HIDE DEF v
            <4>2. \A i \in 1 .. Len(v) : i \in 1 .. Len(w) \/ i = Len(w) + 1
                BY <4>1
            <4>3. depth[cur] \in Nat
                BY <1>1
            <4> QED
                BY <2>2, <3>3, <4>1, <4>2, <4>3
        <3> HIDE DEF v
        <3>6. u \in Seq(ES) /\ Ordered(u)
            BY <2>1, <3>4, <3>5, OrderedAppend
        <3>7. v \o addedStates = u
            BY <2>1, <3>4, AppendIsConcat
        <3>8. CoreUpdate("bfs", q, cur, addedStates, removedStates) = Without(u, R)
            BY <2>4, <3>7 DEF CoreUpdate, v, w
        <3> HIDE DEF u
        <3> QED
            BY <3>6, <3>8, OrderedWithout DEF Ordered, q
    <2>5. CASE ~Evolved(cur, addedStates, removedStates)
        <3>1. cur \in R
            BY <1>1, <1>6, <2>5 DEF Evolved
        <3> DEFINE u == Append(q, ns)
        <3>2. CoreUpdate("bfs", q, cur, addedStates, removedStates) = Without(u, R)
            <4>1. q \o addedStates = u
                BY <1>1, <2>1, AppendIsConcat
            <4> QED
                BY <2>5, <4>1 DEF CoreUpdate
        <3>3. /\ u \in Seq(ES) /\ Len(u) = Len(q) + 1 /\ u[Len(q) + 1] = ns
              /\ \A i \in 1 .. Len(q) : u[i] = q[i]
            BY <1>1, <2>1
        <3> HIDE DEF u
        <3>4. ASSUME NEW i \in 1 .. Len(u), NEW j \in 1 .. Len(u), i < j, u[i] \notin R, u[j] \notin R
              PROVE  depth[u[j]] - depth[u[i]] \in {0, 1}
            <4>1. i \in 1 .. Len(q) /\ u[i] = q[i]
                BY <1>2, <3>3, <3>4
            <4>2. i \in 2 .. Len(q)
                BY <1>2, <3>1, <3>4, <4>1
            <4>3. CASE j = Len(q) + 1
                BY <2>2, <2>3, <3>3, <4>1, <4>2, <4>3
            <4>4. CASE j # Len(q) + 1
                <5>1. j \in 1 .. Len(q) /\ u[j] = q[j]
                    BY <1>2, <3>3, <4>4
                <5> QED
                    BY <1>2, <1>3, <3>4, <4>1, <4>2, <5>1
            <4> QED
                BY <4>3, <4>4
        <3> QED
            BY <3>2, <3>3, <3>4, OrderedWithout DEF q
    <2> QED
        BY <2>4, <2>5
<1> QED
    BY <1>5, <1>6

(* The memory limit ends states, some of them a second time. *)
LEMMA CheckMemoryUsageKeeps ==
    ASSUME RegularChains, RunInv, CheckMemoryUsage
    PROVE  RunInv'
<1> USE DEF RunInv
<1>1. /\ phase \in {"execute", "closed"} /\ phase' = "memory" /\ current \in states
      /\ UNCHANGED <<search, chain, pausedStates, states, addedStates, tree, ptreeNode, depth,
                     steps, created, current>>
      /\ RegularChain(search) /\ states \subseteq ES /\ Listing(removedStates, Ended)
    BY StatesFacts DEF CheckMemoryUsage, Executing, StatesInv
<1>2. PICK killed \in IF search.kill THEN SUBSET states ELSE {{}} :
          removedStates' = removedStates \o SetToSeq(killed)
    BY DEF CheckMemoryUsage
<1>3. killed \subseteq states /\ (killed # {} => search.kill /\ pausedStates = {})
    <2>1. killed \subseteq states /\ (killed # {} => search.kill)
        BY <1>2
    <2> QED
        BY <1>1, <2>1 DEF RegularChain, StatesInv
<1>4. Listing(SetToSeq(killed), killed)
    BY <1>1, <1>3, SetToSeqListing DEF StatesInv
<1>5. removedStates' \in Seq(ES) /\ Ended' = Ended \cup killed
    <2>1. removedStates \in Seq(ES) /\ SetToSeq(killed) \in Seq(ES)
        BY <1>1, <1>4 DEF Listing
    <2>2. ToSet(removedStates \o SetToSeq(killed)) = ToSet(removedStates) \cup ToSet(SetToSeq(killed))
        BY <2>1, ConcatElements
    <2> QED
        BY <1>2, <1>4, <2>1, <2>2 DEF Ended, Listing
<1>6. killed = {} => removedStates' = removedStates
    <2>1. SetToSeq({}) = << >>
        BY <1>4, ListingOfNone, SetToSeqListing
    <2> QED
        BY <1>1, <1>2, <2>1, ConcatEmptySeq DEF Listing
<1>7. StatesInv'
    <2>1. Ended' \subseteq states' \ pausedStates'
        BY <1>1, <1>3, <1>5 DEF StatesInv
    <2>2. ~search.kill => ~TerminatedTwice'
        BY <1>1, <1>3, <1>6 DEF Listing, TerminatedTwice
    <2>3. current \in pausedStates => addedStates = << >> /\ removedStates' = << >>
        BY <1>1, <1>3, <1>6 DEF StatesInv
    <2> QED
        BY <1>1, <1>5, <2>1, <2>2, <2>3 DEF StatesInv
<1>8. ChainInv'
    BY <1>1, ChainInvNext DEF ChainInv
<1>9. TreeInv' /\ DepthInv'
    BY <1>1, DepthInvStutters DEF TreeInv
<1> QED
    BY <1>7, <1>8, <1>9

(* The searchers, the tree and the executor take note of what happened. *)
LEMMA UpdateStatesKeeps ==
    ASSUME RegularChains, RunInv, UpdateStates
    PROVE  RunInv'
<1> USE DEF RunInv
<1> DEFINE T == states \ pausedStates
           A == ToSet(addedStates)
           living == states \cup A
<1>1. /\ phase = "memory" /\ ~TerminatedTwice /\ current \in states
      /\ states' = living \ Ended
      /\ tree' = PTreeRemove({ptreeNode[s] : s \in Ended})
      /\ addedStates' = << >> /\ removedStates' = << >> /\ current' = Null
      /\ phase' = IF pausedStates = {} THEN "select" ELSE "delete"
      /\ UNCHANGED <<search, pausedStates, ptreeNode, depth, created>>
    BY DEF UpdateStates, StatesInv
<1>2. /\ search \in Searches /\ RegularChain(search) /\ T \in SUBSET ES /\ living \subseteq ES /\ Null \notin ES
      /\ Listing(addedStates, A) /\ Listing(removedStates, Ended) /\ T \cap A = {}
      /\ Ended \subseteq T /\ pausedStates \subseteq states /\ A \cap states = {}
    BY <1>1, StatesFacts DEF StatesInv
<1>3. ToSet(<< >>) = {} /\ Listing(<< >>, {})
    BY EmptyListing DEF Listing
<1>4. PICK elapsed \in Elapsed :
          chain' = IF current \in pausedStates THEN chain
                   ELSE BaseUpdate(chain, current, addedStates, removedStates, elapsed)
    BY DEF UpdateStates
<1>5. Scheduled(chain, T) /\ (~Wandering => current \notin chain.deepened)
    BY DEF ChainInv
<1>6. Scheduled(chain', states' \ pausedStates')
    <2>1. CASE current \in pausedStates
        <3>1. addedStates = << >> /\ removedStates = << >>
            BY <1>1, <2>1 DEF StatesInv
        <3>2. A = {} /\ Ended = {}
            BY <1>3, <3>1 DEF Ended
        <3>3. states' \ pausedStates' = T
            BY <1>1, <3>2
        <3> QED
            BY <1>4, <1>5, <2>1, <3>3
    <2>2. CASE current \notin pausedStates
        <3>1. Ended \subseteq T \cup A /\ current \in T \cup {Null}
            BY <1>1, <1>2, <2>2
        <3>2. Scheduled(chain', (T \cup A) \ Ended)
            <4> HIDE DEF T, A
            <4> QED
                BY <1>2, <1>4, <1>5, <2>2, <3>1, BaseUpdateKeeps
        <3>3. (T \cup A) \ Ended = states' \ pausedStates'
            BY <1>1, <1>2
        <3> QED
            BY <3>2, <3>3
    <2> QED
        BY <2>1, <2>2
<1>7. ChainInv'
    <2>1. current' \notin chain'.deepened
        BY <1>1, <1>2, <1>6 DEF Scheduled
    <2> QED
        BY <1>1, <1>6, <2>1, ChainInvNext
<1>8. StatesInv'
    <2>1. Ended' = {} /\ ToSet(addedStates') = {}
        BY <1>1, <1>3 DEF Ended
    <2>2. states' \subseteq 1 .. created /\ pausedStates \subseteq states'
        BY <1>1, <1>2 DEF StatesInv
    <2> QED
        BY <1>1, <1>2, <1>3, <2>1, <2>2 DEF StatesInv, Listing, TerminatedTwice
<1>9. TreeInv'
    <2>1. TreeOf(tree', ptreeNode, living \ Ended)
        BY <1>1, <1>2, TreeRemoved DEF TreeInv
    <2>2. states' \cup ToSet(addedStates') = living \ Ended
        BY <1>1, <1>3
    <2> QED
        BY <1>1, <2>1, <2>2 DEF TreeInv
<1>10. DepthInv'
    <2>1. SUFFICES ASSUME PlainBFS PROVE Ordered(chain'.held[1]) /\ chain'.held[1] \in Seq(ES)
        <3> DEFINE q == chain'.held[1]
        <3>1. ASSUME q \in Seq(ES), Ordered(q)
              PROVE  /\ \A i, j \in DOMAIN q : 1 < i /\ i < j => depth'[q[j]] - depth'[q[i]] \in {0, 1}
                     /\ \A j \in DOMAIN q \ {1} : depth'[q[j]] - depth'[q[1]] \in {0, 1}
            <4>1. DOMAIN q = 1 .. Len(q) /\ Len(q) \in Nat
                BY <3>1
            <4> HIDE DEF q
            <4>2. \A j \in DOMAIN q \ {1} : 1 \in DOMAIN q /\ 1 < j
                BY <4>1
            <4> QED
                BY <1>1, <3>1, <4>1, <4>2 DEF Ordered
        <3>2. PlainBFS' => PlainBFS
            BY <1>1 DEF PlainBFS
        <3> QED
            BY <1>1, <2>1, <3>1, <3>2 DEF DepthInv
    <2>2. /\ pausedStates = {} /\ Core = {1} /\ search.core[1] = "bfs" /\ chain \in Chains
          /\ Listing(chain.held[1], states)
        BY <1>5, <2>1, PlainQueue DEF Scheduled, ChainOf
    <2>3. chain' = InterleavedUpdate(chain, current, addedStates, removedStates)
        BY <1>4, <2>1, <2>2 DEF BaseUpdate, PlainBFS
    <2>4. chain'.held[1] = CoreUpdate("bfs", chain.held[1], current, addedStates, removedStates)
        BY <2>2, <2>3 DEF InterleavedUpdate, Chains
    <2>5. Ordered(chain'.held[1])
        BY <1>1, <2>1, <2>4, QueueOrdered
    <2>6. chain'.held[1] \in Seq(ES)
        BY <1>6, <2>2 DEF Scheduled, ChainOf, Chains
    <2> QED
        BY <2>5, <2>6
<1> QED
    BY <1>7, <1>8, <1>9, <1>10

(* The first state. *)
LEMMA InitRunInv ==
    ASSUME RegularChains, Init
    PROVE  RunInv
<1>1. 1 \in ES /\ Null \notin ES /\ 1 \in 1 .. MaxStates
    BY SearchersAssumption DEF ES, Null
<1>2. Listing(<<1>>, {1}) /\ Listing(<< >>, {}) /\ ToSet(<< >>) = {} /\ << >> \in Seq(ES) /\ <<1>> \in Seq(ES)
    BY <1>1, ListingOfOne, EmptyListing DEF Listing
<1>3. search \in Searches
    BY DEF Init
<1>4. StatesInv
    <2>1. Ended = {} /\ ToSet(addedStates) = {}
        BY <1>2 DEF Init, Ended
    <2>2. created \in 1 .. MaxStates /\ states \subseteq 1 .. created
        BY <1>1 DEF Init
    <2> QED
        BY <1>2, <1>3, <2>1, <2>2 DEF Init, StatesInv, Listing, TerminatedTwice
<1>5. ChainInv
    <2>1. chain = [held |-> [i \in Core |-> IF search.core[i] = "random-path" THEN << >> ELSE <<1>>],
                   index |-> 1, lastState |-> Null, deepened |-> {}, failed |-> FALSE]
        BY DEF Init
    <2>2. chain \in Chains
        <3>1. 1 \in Core
            BY <1>3, Options
        <3>2. [i \in Core |-> IF search.core[i] = "random-path" THEN << >> ELSE <<1>>] \in [Core -> Seq(ES)]
            BY <1>2
        <3> QED
            BY <2>1, <3>1, <3>2 DEF Chains
    <2>3. ChainOf(chain, {1}, {})
        <3>1. \A i \in Core : IF Lists(i) THEN chain.held[i] = <<1>> ELSE chain.held[i] = << >>
            BY <2>1 DEF Lists
        <3>2. ~chain.failed /\ chain.deepened = {} /\ chain.lastState = Null
            BY <2>1
        <3> QED
            BY <1>2, <2>2, <3>1, <3>2 DEF ChainOf
    <2>4. states \ pausedStates = {1} /\ {1} = {1} \ {} /\ current = Null
        BY DEF Init
    <2>5. Scheduled(chain, {1}) /\ chain.deepened = {}
        BY <2>3, <2>4, ScheduledBy
    <2> QED
        BY <2>4, <2>5 DEF ChainInv
<1>6. TreeInv
    <2>1. states \cup ToSet(addedStates) = {1}
        BY <1>2 DEF Init
    <2>2. ptreeNode \in [ES -> Seq({0, 1})] /\ tree = {<< >>} /\ ptreeNode[1] = << >>
        BY <1>1 DEF Init
    <2> QED
        BY <2>1, <2>2 DEF TreeInv, TreeOf
<1>7. DepthInv
    <2>1. depth \in [ES -> Nat] /\ current = Null /\ addedStates = << >>
        BY DEF Init
    <2>2. PlainBFS => chain.held[1] = <<1>>
        BY DEF Init, PlainBFS, Core
    <2>3. DOMAIN <<1>> = {1}
        OBVIOUS
    <2> QED
        BY <2>1, <2>2, <2>3 DEF DepthInv
<1> QED
    BY <1>4, <1>5, <1>6, <1>7 DEF RunInv

(* Every step keeps the invariant. *)
LEMMA NextRunInv ==
    ASSUME RegularChains, RunInv, [Next]_vars
    PROVE  RunInv' \/ AbortInUpdate
<1>1. CASE UNCHANGED vars
    <2>1. UNCHANGED <<search, chain, pausedStates, states, addedStates, removedStates, tree, ptreeNode,
                      depth, steps, created, current, phase>>
        BY <1>1 DEF vars
    <2>2. StatesInv' /\ TreeInv'
        BY <2>1 DEF RunInv, StatesInv, Ended, TerminatedTwice, TreeInv
    <2>3. ChainInv'
        BY <2>1, ChainInvNext DEF RunInv, ChainInv
    <2>4. DepthInv'
        BY <2>1, DepthInvStutters DEF RunInv
    <2> QED
        BY <2>2, <2>3, <2>4 DEF RunInv
<1>2. CASE SelectState
    BY <1>2, SelectStateKeeps
<1>3. CASE Fork
    BY <1>3, ForkKeeps
<1>4. CASE TerminateState
    BY <1>4, TerminateStateKeeps
<1>5. CASE PauseState
    BY <1>5, PauseStateKeeps
<1>6. CASE ReleaseAtClose
    BY <1>6, ReleaseAtCloseKeeps
<1>7. CASE UpdateStates
    BY <1>7, UpdateStatesKeeps
<1>8. CASE ReleaseAtDelete
    BY <1>8, ReleaseAtDeleteKeeps
<1>9. CASE Deleted
    BY <1>9, DeletedKeeps
<1>10. CASE CheckMemoryUsage
    BY <1>10, CheckMemoryUsageKeeps
<1> QED
    BY <1>1, <1>2, <1>3, <1>4, <1>5, <1>6, <1>7, <1>8, <1>9, <1>10 DEF Next, Finished

(* Nothing happens after an abort. *)
LEMMA AbortedStutters ==
    ASSUME AbortedInUpdate, [Next]_vars
    PROVE  UNCHANGED vars
BY DEF AbortedInUpdate, Next, SelectState, Fork, TerminateState, PauseState, ReleaseAtClose,
       CheckMemoryUsage, UpdateStates, AbortInUpdate, ReleaseAtDelete, Deleted, Finished, Executing

(* So the invariant holds for ever. *)
LEMMA NextSearchInv ==
    ASSUME RegularChains, SearchInv, [Next]_vars
    PROVE  SearchInv'
<1>1. CASE AbortedInUpdate
    BY <1>1, AbortedStutters DEF SearchInv, AbortedInUpdate, TerminatedTwice, vars
<1>2. CASE RunInv /\ AbortInUpdate
    <2>1. search \in Searches /\ search.kill /\ phase = "memory" /\ TerminatedTwice /\ chain \in Chains
        BY <1>2 DEF AbortInUpdate, RunInv, StatesInv, ChainInv, Scheduled, ChainOf
    <2>2. chain'.failed
        BY <1>2, <2>1 DEF AbortInUpdate, Chains
    <2> QED
        BY <1>2, <2>1, <2>2 DEF AbortInUpdate, SearchInv, AbortedInUpdate, TerminatedTwice
<1>3. CASE RunInv /\ ~AbortInUpdate
    BY <1>3, NextRunInv DEF SearchInv
<1> QED
    BY <1>1, <1>2, <1>3 DEF SearchInv

(* What every regular chain keeps up with the executor: SearchInv, for any *)
(* number of states and steps.                                             *)
THEOREM SearchInvTheorem ==
    ASSUME RegularChains
    PROVE  Spec => []SearchInv
<1>1. Init => SearchInv
    BY InitRunInv DEF SearchInv
<1>2. SearchInv /\ [Next]_vars => SearchInv'
    BY NextSearchInv
<1> QED
    BY <1>1, <1>2, PTL DEF Spec

(* No assertion of a searcher fails in any order of forks, ends, pauses    *)
(* and releases but for a state that the memory limit has terminated a     *)
(* second time, and what selectState takes a state from is not empty.      *)
THEOREM NoSearcherFailureTheorem ==
    ASSUME RegularChains
    PROVE  Spec => []NoSearcherFailure
<1>1. SearchInv => NoSearcherFailure
    <2>1. SUFFICES ASSUME SearchInv PROVE NoSearcherFailure
        OBVIOUS
    <2>2. CASE AbortedInUpdate
        BY <2>2 DEF AbortedInUpdate, NoSearcherFailure
    <2>3. CASE RunInv
        <3>1. ~chain.failed /\ chain.index \in Core
            BY <2>3 DEF RunInv, ChainInv, Scheduled, ChainOf, Chains
        <3>2. phase = "select" /\ states # {} => CoreSelect(chain.index) # {}
            BY <2>3, <3>1, CoreSelects
        <3> QED
            BY <3>1, <3>2 DEF NoSearcherFailure
    <2> QED
        BY <2>1, <2>2, <2>3 DEF SearchInv
<1> QED
    BY <1>1, SearchInvTheorem, PTL

(* The searchers that are interleaved hold the same states, those that can *)
(* run, and a batch goes on with one of them.                              *)
THEOREM SearchersAgreeTheorem ==
    ASSUME RegularChains
    PROVE  Spec => []SearchersAgree
<1>1. SearchInv => SearchersAgree
    <2>1. SUFFICES ASSUME RunInv PROVE SearchersAgree
        BY DEF SearchInv, AbortedInUpdate, SearchersAgree
    <2>2. (states \ pausedStates) \ chain.deepened = states \ (pausedStates \cup chain.deepened)
        OBVIOUS
    <2>3. ChainOf(chain, states \ (pausedStates \cup chain.deepened), chain.deepened)
        BY <2>1, <2>2 DEF RunInv, ChainInv, Scheduled
    <2> QED
        BY <2>3 DEF SearchersAgree, ChainOf, Listing, Lists
<1> QED
    BY <1>1, SearchInvTheorem, PTL

(* Between two instructions the leaves of the process tree are the states  *)
(* of the executor, each with a leaf of its own.                           *)
THEOREM LeavesAreStatesTheorem ==
    ASSUME RegularChains
    PROVE  Spec => []LeavesAreStates
<1>1. SearchInv => LeavesAreStates
    <2>1. SUFFICES ASSUME RunInv, phase = "select", states # {}
                   PROVE  /\ Leaves = {ptreeNode[s] : s \in states}
                          /\ \A s, t \in states : ptreeNode[s] = ptreeNode[t] => s = t
        BY DEF LeavesAreStates, SearchInv, AbortedInUpdate
    <2>2. states \cup ToSet(addedStates) = states /\ states \subseteq ES
        <3>1. addedStates = << >> /\ ToSet(<< >>) = {}
            BY <2>1, EmptyListing DEF RunInv, StatesInv, Listing
        <3> QED
            BY <2>1, <3>1, StatesFacts DEF RunInv
    <2>3. TreeOf(tree, ptreeNode, states)
        BY <2>1, <2>2 DEF RunInv, TreeInv
    <2>4. Leaves = {ptreeNode[s] : s \in states}
        BY <2>1, <2>2, <2>3, LeavesOfTree
    <2>5. \A s, t \in states : ptreeNode[s] = ptreeNode[t] => s = t
        BY <2>2, <2>3, PrefixOrder DEF TreeOf, Nodes
    <2> QED
        BY <2>4, <2>5
<1> QED
    BY <1>1, SearchInvTheorem, PTL

(* Breadth-first search takes the states in the order of their depths.  *)
THEOREM BreadthFirstTheorem ==
    ASSUME RegularChains
    PROVE  Spec => []BreadthFirst
<1>1. SearchInv => BreadthFirst
    <2>1. SUFFICES ASSUME RunInv, PlainBFS, phase = "select",
                          NEW i \in DOMAIN chain.held[1], NEW j \in DOMAIN chain.held[1], i < j
                   PROVE  depth[chain.held[1][j]] - depth[chain.held[1][i]] \in {0, 1}
        BY DEF BreadthFirst, SearchInv, AbortedInUpdate
    <2>2. addedStates = << >>
        BY <2>1 DEF RunInv, StatesInv
    <2>3. i \in Nat /\ j \in Nat /\ i >= 1
        BY <2>1, PlainQueue DEF Listing
    <2>4. CASE i = 1
        BY <2>1, <2>2, <2>3, <2>4 DEF RunInv, DepthInv
    <2>5. CASE i # 1
        BY <2>1, <2>3, <2>5 DEF RunInv, DepthInv
    <2> QED
        BY <2>4, <2>5
<1> QED
    BY <1>1, SearchInvTheorem, PTL
-----------------------------------------------------------------------------
(***************************************************************************)
(* Seen from outside, the chain is a set of states.                        *)
(***************************************************************************)
Sched == IF search.core[1] = "random-path" THEN states
         ELSE ToSet(chain.held[1]) \cup chain.deepened

(* The set is of the states that are not paused. *)
LEMMA SchedStates ==
    ASSUME RegularChains, RunInv
    PROVE  Sched = states \ pausedStates
<1>1. search \in Searches /\ 1 \in Core
    BY StatesFacts, Options DEF RunInv
<1>2. CASE Lists(1)
    <2>1. ToSet(chain.held[1]) = (states \ pausedStates) \ chain.deepened
        BY <1>1, <1>2 DEF RunInv, ChainInv, Scheduled, ChainOf, Listing
    <2>2. chain.deepened \subseteq states \ pausedStates
        BY DEF RunInv, ChainInv, Scheduled
    <2> QED
        BY <1>2, <2>1, <2>2 DEF Sched, Lists
<1>3. CASE ~Lists(1)
    <2>1. pausedStates = {}
        BY <1>1, <1>3, Options DEF RunInv, StatesInv
    <2> QED
        BY <1>3, <2>1 DEF Sched, Lists
<1> QED
    BY <1>2, <1>3

(* Each step of the chain is one of the abstract searcher, or none. *)
LEMMA StepsOfBase ==
    ASSUME RegularChains, RunInv, RunInv', [Next]_vars,
           Sched = states \ pausedStates, (Sched = states \ pausedStates)'
    PROVE  \/ Base!Next
           \/ UNCHANGED <<Sched, current, ToSet(addedStates), ToSet(removedStates), pausedStates>>
<1> DEFINE S == states \ pausedStates
<1>1. Sched = S /\ Sched' = S'
    OBVIOUS
<1>2. /\ states \subseteq ES /\ Null \notin ES /\ ToSet(addedStates) \subseteq ES
      /\ Ended \subseteq S /\ pausedStates \subseteq states
      /\ phase \in {"select", "delete"} => current = Null
      /\ phase \in {"execute", "closed", "memory"} => current \in states
    BY StatesFacts DEF RunInv, StatesInv
<1>3. (ToSet(addedStates))' \subseteq ES /\ (ToSet(removedStates))' \subseteq ES
    <2>1. (ToSet(addedStates))' \subseteq ES
        BY ListingStates DEF RunInv, StatesInv
    <2>2. (ToSet(removedStates))' \subseteq ES
        BY DEF RunInv, StatesInv, ToSet
    <2> QED
        BY <2>1, <2>2
<1> HIDE DEF S
<1>4. CASE SelectState
    <2>1. current' \in S /\ current = Null
        BY <1>2, <1>4, SelectStateKeeps DEF SelectState, S
    <2>2. UNCHANGED <<states, pausedStates, addedStates, removedStates>>
        BY <1>4 DEF SelectState
    <2>3. Sched' = Sched /\ current' \in Sched
        BY <1>1, <2>1, <2>2 DEF S
    <2> QED
        BY <2>1, <2>2, <2>3 DEF Base!Next, Base!Select, Sched
<1>5. CASE Fork \/ TerminateState \/ CheckMemoryUsage
    <2>1. current # Null /\ UNCHANGED <<states, pausedStates, current>>
        BY <1>2, <1>5 DEF Fork, TerminateState, CheckMemoryUsage, Executing
    <2>2. Sched' = Sched
        BY <1>1, <2>1 DEF S
    <2> QED
        BY <1>3, <2>1, <2>2 DEF Base!Next, Base!Execute, Sched
<1>6. CASE PauseState
    <2>1. /\ current \in S /\ pausedStates' = pausedStates \cup {current}
          /\ UNCHANGED <<states, current, addedStates, removedStates>>
        BY <1>6 DEF PauseState, RunInv, StatesInv, S
    <2>2. Sched' = Sched \ {current} /\ current \in Sched
        BY <1>1, <2>1 DEF S
    <2> QED
        BY <2>1, <2>2 DEF Base!Next, Base!Pause, Sched
<1>7. CASE ReleaseAtClose \/ ReleaseAtDelete
    <2>1. pausedStates' \in SUBSET pausedStates /\ UNCHANGED <<states, current, addedStates>>
        BY <1>7, ReleaseAtCloseKeeps, ReleaseAtDeleteKeeps DEF ReleaseAtClose, ReleaseAtDelete
    <2>2. Sched' = Sched \cup (pausedStates \ pausedStates')
        BY <1>1, <1>2, <2>1 DEF S
    <2> QED
        BY <1>3, <2>1, <2>2 DEF Base!Next, Base!Continue, Sched
<1>8. CASE UpdateStates
    <2>1. /\ current # Null /\ states' = (states \cup ToSet(addedStates)) \ Ended
          /\ addedStates' = << >> /\ removedStates' = << >> /\ current' = Null /\ UNCHANGED pausedStates
        BY <1>2, <1>8 DEF UpdateStates
    <2>2. ToSet(<< >>) = {}
        BY EmptyListing DEF Listing
    <2>3. (ToSet(addedStates))' = {} /\ (ToSet(removedStates))' = {}
        BY <2>1, <2>2
    <2>4. Sched' = IF current \in pausedStates THEN Sched
                   ELSE (Sched \cup ToSet(addedStates)) \ ToSet(removedStates)
        <3>1. CASE current \in pausedStates
            <4>1. addedStates = << >> /\ removedStates = << >>
                BY <1>8, <3>1 DEF UpdateStates, RunInv, StatesInv
            <4>2. Ended = {} /\ ToSet(addedStates) = {}
                BY <2>2, <4>1 DEF Ended
            <4> QED
                BY <1>1, <2>1, <3>1, <4>2 DEF S
        <3>2. CASE current \notin pausedStates
            <4>1. ToSet(addedStates) \cap states = {}
                BY DEF RunInv, StatesInv
            <4> QED
                BY <1>1, <1>2, <2>1, <3>2, <4>1 DEF S, Ended
        <3> QED
            BY <3>1, <3>2
    <2> QED
        BY <2>1, <2>3, <2>4 DEF Base!Next, Base!Update, Sched
<1>9. CASE Deleted \/ Finished \/ UNCHANGED vars
    <2>1. UNCHANGED <<states, current, addedStates, removedStates, pausedStates>>
        BY <1>9 DEF Deleted, Finished, vars
    <2> QED
        BY <1>1, <2>1 DEF S
<1>10. ~AbortInUpdate
    <2>1. ~chain'.failed
        BY DEF RunInv, ChainInv, Scheduled, ChainOf
    <2>2. chain \in Chains
        BY DEF RunInv, ChainInv, Scheduled, ChainOf
    <2> QED
        BY <2>1, <2>2 DEF AbortInUpdate, Chains
<1> QED
    BY <1>4, <1>5, <1>6, <1>7, <1>8, <1>9, <1>10 DEF Next

(* An abort is seen by no one outside. *)
LEMMA AbortedIsNoStep ==
    ASSUME RunInv, AbortInUpdate
    PROVE  UNCHANGED <<Sched, current, ToSet(addedStates), ToSet(removedStates), pausedStates>>
<1>1. chain \in Chains
    BY DEF RunInv, ChainInv, Scheduled, ChainOf
<1>2. chain'.held = chain.held /\ chain'.deepened = chain.deepened
    BY <1>1 DEF AbortInUpdate, Chains
<1>3. UNCHANGED <<search, states, pausedStates, addedStates, removedStates, current>>
    BY DEF AbortInUpdate
<1> QED
    BY <1>2, <1>3 DEF Sched

(* Batching, iterative deepening, interleaving and the walks in the tree   *)
(* implement a set of states: Base!Spec.                                   *)
THEOREM ImplementsBaseSearcherTheorem ==
    ASSUME RegularChains
    PROVE  Spec => ImplementsBaseSearcher
<1>1. Init => Base!Init
    <2>1. SUFFICES ASSUME Init PROVE Base!Init
        OBVIOUS
    <2>2. Sched = {1} /\ 1 \in ES
        <3>1. Sched = states \ pausedStates
            BY <2>1, InitRunInv, SchedStates
        <3> QED
            BY <2>1, <3>1, SearchersAssumption DEF Init, ES
    <2>3. ToSet(addedStates) = {} /\ ToSet(removedStates) = {}
        BY <2>1, EmptyListing DEF Init, Listing
    <2> QED
        BY <2>1, <2>2, <2>3 DEF Init, Base!Init, Sched
<1>2. RunInv => Sched = states \ pausedStates
    BY SchedStates
<1>3. RunInv /\ RunInv' /\ Sched = states \ pausedStates /\ (Sched = states \ pausedStates)' /\ [Next]_vars
        => [Base!Next]_<<IF search.core[1] = "random-path" THEN states
                         ELSE ToSet(chain.held[1]) \cup chain.deepened,
                         current, ToSet(addedStates), ToSet(removedStates), pausedStates>>
    BY StepsOfBase DEF Sched
<1>4. RunInv /\ [Next]_vars => RunInv' \/ AbortInUpdate
    BY NextRunInv
<1>5. RunInv /\ AbortInUpdate
        => [Base!Next]_<<IF search.core[1] = "random-path" THEN states
                         ELSE ToSet(chain.held[1]) \cup chain.deepened,
                         current, ToSet(addedStates), ToSet(removedStates), pausedStates>>
    BY AbortedIsNoStep DEF Sched
<1>6. AbortedInUpdate /\ [Next]_vars
        => [Base!Next]_<<IF search.core[1] = "random-path" THEN states
                         ELSE ToSet(chain.held[1]) \cup chain.deepened,
                         current, ToSet(addedStates), ToSet(removedStates), pausedStates>>
    <2>1. SUFFICES ASSUME AbortedInUpdate, [Next]_vars
                   PROVE  UNCHANGED <<Sched, current, ToSet(addedStates), ToSet(removedStates),
                                      pausedStates>>
        BY DEF Sched
    <2>2. UNCHANGED vars
        BY <2>1, AbortedStutters
    <2> QED
        BY <2>2 DEF vars, Sched
<1>7. SearchInv <=> RunInv \/ AbortedInUpdate
    BY DEF SearchInv
<1> QED
    BY <1>1, <1>2, <1>3, <1>4, <1>5, <1>6, <1>7, SearchInvTheorem, PTL
    DEF Spec, ImplementsBaseSearcher, Base!Spec
=============================================================================
