------------------------------ MODULE ValueRange ------------------------------
(***************************************************************************)
(* ValueRange, the intervals of the FastCexSolver with their bitwise       *)
(* operations, and the binary searches of Solver::getRange.                *)
(***************************************************************************)
EXTENDS Integers, FiniteSetsExt

CONSTANT Width           \* bound: the bits of an integer, 64 in the code

ASSUME WidthAssumption == Width \in Nat \ {0}

Bits == 0 .. Width - 1
maxValueOfNBits(n) == 2 ^ n - 1
Words == 0 .. maxValueOfNBits(Width)
Bit(x, i) == (x \div 2 ^ i) % 2

And(x, y) == MapThenSumSet(LAMBDA i : 2 ^ i * (Bit(x, i) * Bit(y, i)), Bits)
Or(x, y)  == x + y - And(x, y)
Xor(x, y) == x + y - 2 * And(x, y)

Interval(lo, hi) == [min |-> lo, max |-> hi]
Empty == Interval(1, 0)
isFixed(r) == r.min = r.max
isEmpty(r) == r.min > r.max
contains(r, x) == r.min <= x /\ x <= r.max

set_intersection(r, s) ==
    Interval(IF r.min > s.min THEN r.min ELSE s.min, IF r.max < s.max THEN r.max ELSE s.max)

set_difference(r, s) ==
    IF isEmpty(s) \/ s.min > r.max \/ s.max < r.min THEN r
    ELSE IF s.min <= r.min /\ s.max >= r.max THEN Empty
    ELSE IF s.min <= r.min THEN Interval(s.max + 1, r.max)
    ELSE Interval(r.min, s.min - 1)

-----------------------------------------------------------------------------
(***************************************************************************)
(* The bounds of a bitwise operation on a .. b and c .. d.  Each loop ends *)
(* at the highest bit at which a bound can be moved.                       *)
(***************************************************************************)
(* The bit set and those below clear, and the bit clear and those below    *)
(* set.                                                                    *)
Raise(x, i) == (x \div 2 ^ (i + 1)) * 2 ^ (i + 1) + 2 ^ i
Lower(x, i) == (x \div 2 ^ (i + 1)) * 2 ^ (i + 1) + 2 ^ i - 1

minOR(a, b, c, d) ==
    LET left  == {i \in Bits : Bit(a, i) = 0 /\ Bit(c, i) = 1 /\ Raise(a, i) <= b}
        right == {i \in Bits : Bit(a, i) = 1 /\ Bit(c, i) = 0 /\ Raise(c, i) <= d}
        m     == Max(left \cup right)
    IN  IF left \cup right = {} THEN Or(a, c)
        ELSE IF m \in left THEN Or(Raise(a, m), c) ELSE Or(a, Raise(c, m))

maxOR(a, b, c, d) ==
    LET both  == {i \in Bits : Bit(b, i) = 1 /\ Bit(d, i) = 1}
        left  == {i \in both : Lower(b, i) >= a}
        right == {i \in both : Lower(d, i) >= c}
        m     == Max(left \cup right)
    IN  IF left \cup right = {} THEN Or(b, d)
        ELSE IF m \in left THEN Or(Lower(b, m), d) ELSE Or(b, Lower(d, m))

minAND(a, b, c, d) ==
    LET both  == {i \in Bits : Bit(a, i) = 0 /\ Bit(c, i) = 0}
        left  == {i \in both : Raise(a, i) <= b}
        right == {i \in both : Raise(c, i) <= d}
        m     == Max(left \cup right)
    IN  IF left \cup right = {} THEN And(a, c)
        ELSE IF m \in left THEN And(Raise(a, m), c) ELSE And(a, Raise(c, m))

(* Mutant: the loop does not look at the bits of the other operand. *)
maxANDAny(a, b, c, d) ==
    LET left == {i \in Bits : Bit(b, i) = 1 /\ Lower(b, i) >= a}
    IN  IF left = {} THEN And(b, d) ELSE And(Lower(b, Max(left)), d)

maxAND(a, b, c, d) ==
    LET left  == {i \in Bits : Bit(b, i) = 1 /\ Bit(d, i) = 0 /\ Lower(b, i) >= a}
        right == {i \in Bits : Bit(b, i) = 0 /\ Bit(d, i) = 1 /\ Lower(d, i) >= c}
        m     == Max(left \cup right)
    IN  IF left \cup right = {} THEN And(b, d)
        ELSE IF m \in left THEN And(Lower(b, m), d) ELSE And(b, Lower(d, m))

binaryAnd(r, s) ==
    IF isFixed(r) /\ isFixed(s) THEN Interval(And(r.min, s.min), And(r.min, s.min))
    ELSE Interval(minAND(r.min, r.max, s.min, s.max), maxAND(r.min, r.max, s.min, s.max))

binaryOr(r, s) ==
    IF isFixed(r) /\ isFixed(s) THEN Interval(Or(r.min, s.min), Or(r.min, s.min))
    ELSE Interval(minOR(r.min, r.max, s.min, s.max), maxOR(r.min, r.max, s.min, s.max))

(* All values up to the highest bit of either. *)
binaryXor(r, s) ==
    IF isFixed(r) /\ isFixed(s) THEN Interval(Xor(r.min, s.min), Xor(r.min, s.min))
    ELSE Interval(0, 2 ^ (Max({i \in Bits : Bit(Or(r.max, s.max), i) = 1}) + 1) - 1)

binaryShiftLeft(r, n) == Interval((r.min * 2 ^ n) % 2 ^ Width, (r.max * 2 ^ n) % 2 ^ Width)
binaryShiftRight(r, n) == Interval(r.min \div 2 ^ n, r.max \div 2 ^ n)
concat(r, s, n) == binaryOr(binaryShiftLeft(r, n), s)

extract(r, lowBit, maxBit) ==
    LET mask == maxValueOfNBits(maxBit - lowBit)
    IN  binaryAnd(binaryShiftRight(r, lowBit), Interval(mask, mask))

Signed(x, n) == IF x >= 2 ^ (n - 1) THEN x - 2 ^ n ELSE x
minSigned(r, n) == IF r.max >= 2 ^ (n - 1) THEN -(2 ^ (n - 1)) ELSE r.min

maxSigned(r, n) ==
    IF r.min < 2 ^ (n - 1) /\ r.max >= 2 ^ (n - 1) THEN 2 ^ (n - 1) - 1 ELSE Signed(r.max, n)

-----------------------------------------------------------------------------
(* The least value from lo to hi at which P holds, if it holds from there  *)
(* on.                                                                     *)
BinarySearch(lo, hi, P(_)) ==
    LET S[l, h \in 0 .. 2 ^ Width] ==
            LET mid == l + (h - l) \div 2
            IN  IF l >= h THEN l ELSE IF P(mid) THEN S[l, mid] ELSE S[mid + 1, h]
    IN  S[lo, hi]

(* Solver::getRange, where S are the values the expression can have:       *)
(* mustBeTrue asks about all of them and mayBeTrue about some.  The number *)
(* of bits in use is searched for first.                                   *)
getRange(S) ==
    LET bits == BinarySearch(0, Width, LAMBDA k : \A v \in S : v \div 2 ^ k = 0)
        top  == maxValueOfNBits(bits)
        low  == IF 0 \in S THEN 0 ELSE BinarySearch(0, top, LAMBDA k : \E v \in S : v <= k)
    IN  Interval(low, BinarySearch(low, top, LAMBDA k : \A v \in S : v <= k))
=============================================================================
