--------------------------- MODULE SolverProperties ---------------------------
(***************************************************************************)
(* What the executor relies on when it asks the chain of solvers.          *)
(***************************************************************************)
EXTENDS SolverChain

(* The assertions of the solvers hold, whichever assignment the core       *)
(* solver finds, whichever entry a lookup returns, and whenever it times   *)
(* out.                                                                    *)
NoFailedAssertion == ~solvers.failed

(* What the counterexample cache keeps is true: an assignment satisfies    *)
(* the key, with zero for the arrays it does not bind, and a key without   *)
(* one has none.  A timeout leaves nothing behind.                         *)
CounterexamplesHold ==
    \A K \in DOMAIN solvers.cex :
        IF solvers.cex[K] = {} THEN Models(K) = {} ELSE \A a \in solvers.cex[K] : Satisfies(a, K)

(* What the branch cache keeps is true of the query it stands for, in both *)
(* polarities.                                                             *)
BranchesHold ==
    \A k \in DOMAIN solvers.branch :
        LET M == Models(k[1])
            T == {m \in M : Holds(k[2], m)}
        IN  CASE solvers.branch[k] = "MustBeTrue" -> T = M
              [] solvers.branch[k] = "MustBeFalse" -> T = {}
              [] solvers.branch[k] = "MayBeTrue" -> T # {}
              [] solvers.branch[k] = "MayBeFalse" -> T # M
              [] OTHER -> T # {} /\ T # M

(* The instructions that the program executes on an input. *)
Visits(m) ==
    LET code == program.code
        V[pc \in 0 .. Len(code)] ==
            {pc} \cup (IF pc = 0 THEN {}
                       ELSE IF code[pc].op = "value" \/ Holds(code[pc].e, m) THEN V[code[pc].then]
                       ELSE IF code[pc].op = "branch" THEN V[code[pc].else] ELSE {})
    IN  V[1]

Concretised(m) == \E pc \in Visits(m) \ {0} : program.code[pc].op = "value"

(* Every path has an input, no input has two paths, and a state is where   *)
(* the program goes with its inputs.  Unless values are concretised, every *)
(* input that the assumptions allow has a path: exploration is sound and   *)
(* complete, although each answer was computed from part of the            *)
(* constraints or taken from a cache that other paths have filled.         *)
PathsPartitionInputs ==
    LET all == paths \cup ended
    IN  /\ \A p \in all : Models(p.cs) # {}
        /\ \A p, q \in all : p # q => Models(p.cs) \cap Models(q.cs) = {}
        /\ \A p \in paths : \A m \in Models(p.cs) : p.pc \in Visits(m)
        /\ \A m \in Valuations :
              0 \in Visits(m) /\ ~Concretised(m) => \E p \in all : m \in Models(p.cs)

(* A test case replays the path it was written for, and it does what       *)
(* klee_prefer_cex asks for first, if that is possible and the solver has  *)
(* answered.                                                               *)
TestCasesReplay ==
    \A p \in ended : \A t \in p.test :
        /\ t \in Models(p.cs)
        /\ program.prefs # << >> /\ ~options.timeouts /\ ~options.experimental =>
              \/ Holds(Head(program.prefs), t)
              \/ \A m \in Models(p.cs) : ~Holds(Head(program.prefs), m)

(* Without a timeout of the core solver no state ends early, none is       *)
(* without a test case, and the process is not aborted.                    *)
NoLossWithoutTimeout ==
    ~options.timeouts /\ ~options.experimental =>
        /\ \A p \in ended : p.how # "early" /\ p.test # {}
        /\ ~solvers.aborted

-----------------------------------------------------------------------------
(***************************************************************************)
(* Two of the algorithms, for more values than an exploration meets.  What *)
(* they compute does not depend on the state, so they are checked once, at *)
(* the start of one program with one chain that uses them.                 *)
(***************************************************************************)
AtStart ==
    /\ Init
    /\ program = (CHOOSE p \in Programs : TRUE)
    /\ options = (CHOOSE o \in Options : o.fast)

Intervals == {Interval(lo, hi) : lo, hi \in Words}
Ranges == {r \in Intervals : ~isEmpty(r)}
Within(r) == r.min .. r.max

(* The range of a bitwise operation holds every result: for And and Or,    *)
(* whose loops stop at one bit, it is the smallest such range.  A          *)
(* difference of ranges is empty only if the difference of the sets is.    *)
BitwiseHold ==
    \A r, s \in Ranges :
        LET pairs == Within(r) \X Within(s)
            ands  == {And(p[1], p[2]) : p \in pairs}
            ors   == {Or(p[1], p[2]) : p \in pairs}
            left  == Within(r) \ Within(s)
        IN  /\ binaryAnd(r, s) = Interval(Min(ands), Max(ands))
            /\ binaryOr(r, s) = Interval(Min(ors), Max(ors))
            /\ \A p \in pairs : contains(binaryXor(r, s), Xor(p[1], p[2]))
            /\ Within(set_difference(r, s)) \subseteq left
            /\ left # {} => ~isEmpty(set_difference(r, s))

(* A part of a value, two values side by side and the signed reading of a  *)
(* value stay in the range that is computed for them.                      *)
PartsHold ==
    \A r \in Ranges : \A x \in Within(r) :
        /\ \A lo \in Bits : \A hi \in lo + 1 .. Width :
              contains(extract(r, lo, hi), (x \div 2 ^ lo) % 2 ^ (hi - lo))
        /\ \A n \in Bits : r.max < 2 ^ (Width - n) =>
              \A s \in Ranges : s.max < 2 ^ n =>
                 \A y \in Within(s) : contains(concat(r, s, n), x * 2 ^ n + y)
        /\ minSigned(r, Width) <= Signed(x, Width) /\ Signed(x, Width) <= maxSigned(r, Width)

(* What ValueRange computes from ranges is true of all their values, and   *)
(* getRange ends with the smallest and the largest value, whichever values *)
(* the constraints leave.                                                  *)
RangesHold ==
  AtStart =>
    /\ BitwiseHold
    /\ PartsHold
    /\ \A S \in (SUBSET Words) \ {{}} : getRange(S) = Interval(Min(S), Max(S))

(* Bytes with more values than the exploration has. *)
x0 == <<"x", 0>>
x1 == <<"x", 1>>
Wide == INSTANCE FastCex WITH Elements <- {x0, x1}, MaxByte <- 3

WideExpressions ==
    {Eq(l, r, neg) : l \in {Const(v) : v \in 0 .. 3}, r \in {x0, x1}, neg \in BOOLEAN}
    \cup {Eq(x0, x1, neg) : neg \in BOOLEAN}

(* What the FastCexSolver decides is right, for every query of a state     *)
(* with up to two constraints: no solution of the constraints contradicts  *)
(* "valid", and the assignment that refutes a query, a guess made from one *)
(* constraint after the other, does refute it.  Its exact ranges never     *)
(* become empty.                                                           *)
FastAnswersHold ==
  AtStart =>
    \A e, f, g \in WideExpressions :
        LET q      == Query({e, f}, g)
            fast   == Wide!propogateValues(q, TRUE)
            models == {m \in [{x0, x1} -> 0 .. 3] : Holds(e, m) /\ Holds(f, m)}
        IN  models # {} /\ simplifyExpr({e, f}, g) = g =>
                /\ fast.ok
                /\ fast.proved = "valid" => \A m \in models : Holds(g, m)
                /\ fast.proved = "refuted" => fast.value \in models /\ ~Holds(g, fast.value)
=============================================================================
