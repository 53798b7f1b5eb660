----------------------------- MODULE SolverChain -----------------------------
(***************************************************************************)
(* The solvers that constructSolverChain stacks on the core solver, and    *)
(* the executor asking them while it explores a program of branches,       *)
(* assumptions and concretisations:                                        *)
(*                                                                         *)
(*   TimingSolver - IndependentSolver - CachingSolver - CexCachingSolver - *)
(*   StagedSolver with the FastCexSolver - the core solver                 *)
(*                                                                         *)
(* A call of a solver is the set of its outcomes: v holds the              *)
(* out-parameter, and is empty when the call returns false; c is what the  *)
(* solvers keep afterwards.                                                *)
(***************************************************************************)
EXTENDS FastCex

CONSTANTS Programs,      \* [code: instructions [op, e, then, else], with the pc after each outcome
                         \* (0 is the exit); prefs: what klee_prefer_cex asks for]
          Options        \* the configurations of the chain

ASSUME SolverAssumption ==
    /\ \A p \in Programs :
          /\ p.prefs \in Seq(Exprs)
          /\ Len(p.code) \in Nat \ {0} /\ DOMAIN p.code = 1 .. Len(p.code)
          /\ \A i \in DOMAIN p.code :
                /\ p.code[i].op \in {"branch", "assume", "value"} /\ p.code[i].e \in Exprs
                /\ {p.code[i].then, p.code[i].else} \subseteq {0} \cup (i + 1 .. Len(p.code))
    /\ Options \subseteq [{"independent", "branchCache", "cexCache", "fast", "timeouts", "superset",
                          "tryAll", "experimental", "rewrite"} -> BOOLEAN]

-----------------------------------------------------------------------------
VARIABLES
    options,             \* the configuration of this run
    program,
    solvers,             \* [branch, cex, table, failed, aborted]: the entries of the two caches,
                         \* the assignments the second one keeps, a failed assertion, the end of the
                         \* process at a solver failure that is not handled
    paths,               \* the states: [cs, pc]
    ended                \* what has become of the others: [cs, how, test]

vars == <<options, program, solvers, paths, ended>>

Init ==
    /\ options \in Options /\ program \in Programs
    /\ solvers = [branch |-> << >>, cex |-> << >>, table |-> {}, failed |-> FALSE,
                  aborted |-> FALSE]
    /\ paths = {[cs |-> {}, pc |-> 1]}
    /\ ended = {}

Return(v, c) == [v |-> {v}, c |-> c]
Fail(c) == [v |-> {}, c |-> c]
Check(ok, c) == [c EXCEPT !.failed = @ \/ ~ok]

(* "FIXME: Unhandled solver failure" *)
Unhandled(c) == [c EXCEPT !.aborted = TRUE]

(* An entry of a cache that is there is kept. *)
Inserted(cache, k, v) ==
    [x \in DOMAIN cache \cup {k} |-> IF x \in DOMAIN cache THEN cache[x] ELSE v]

(* Each outcome of a call that returns true goes on with F. *)
Then(outcomes, F(_, _)) ==
    UNION {IF o.v = {} THEN {o} ELSE UNION {F(v, o.c) : v \in o.v} : o \in outcomes}

-----------------------------------------------------------------------------
(***************************************************************************)
(* The core solver: any assignment that refutes the query, for the arrays  *)
(* it is asked for; {} if there is none.  It may time out.                 *)
(***************************************************************************)
Refuting(q) == Models(q.cs \cup {Negate(q.e)})

CoreAnswers(q, A, c) ==
    IF Refuting(q) = {} THEN {Return({}, c)}
    ELSE {Return({[x \in ElementsOf(A) |-> m[x]]}, c) : m \in Refuting(q)}

CoreInitialValues(q, A, c) == CoreAnswers(q, A, c) \cup (IF options.timeouts THEN {Fail(c)} ELSE {})

CoreTruth(q, c) == Then(CoreInitialValues(q, {}, c), LAMBDA a, d : {Return(a = {}, d)})

(* An element without a value reads as zero. *)
Evaluate(e, a) == Holds(e, [x \in Elements |-> IF x \in DOMAIN a THEN a[x] ELSE 0])

ArraysOf(K) == {x[1] : x \in UNION {Reads(e) : e \in K}}

CoreValue(q, c) ==
    Then(CoreInitialValues(withFalse(q), ArraysOf({q.e}), c),
         LAMBDA a, d : {Return(Evaluate(q.e, b), d) : b \in a})

-----------------------------------------------------------------------------
(***************************************************************************)
(* StagedSolverImpl over the FastCexSolver.                                *)
(***************************************************************************)
(* SolverImpl::computeValidity *)
CoreValidity(q, c) ==
    Then(CoreTruth(q, c), LAMBDA isTrue, d :
        IF isTrue THEN {Return("True", d)}
        ELSE Then(CoreTruth(negateExpr(q), d),
                  LAMBDA isFalse, f : {Return(IF isFalse THEN "False" ELSE "Unknown", f)}))

Fast(q, checkExpr) ==
    IF options.fast THEN propogateValues(q, checkExpr)
    ELSE [proved |-> "none", value |-> [x \in Elements |-> 0], ok |-> TRUE]

StagedTruth(q, c) ==
    LET fast == Fast(q, TRUE)
    IN  IF fast.proved = "none" THEN CoreTruth(q, Check(fast.ok, c))
        ELSE {Return(fast.proved = "valid", Check(fast.ok, c))}

(* IncompleteSolver::computeValidity decides what the second stage is      *)
(* asked for.                                                              *)
StagedValidity(q, c) ==
    LET t == Fast(q, TRUE)
        f == Fast(negateExpr(q), TRUE)
        d == Check(t.ok /\ (t.proved = "valid" \/ f.ok), c)
    IN  CASE t.proved = "valid" -> {Return("True", d)}
          [] t.proved # "valid" /\ f.proved = "valid" -> {Return("False", d)}
          [] t.proved = "refuted" /\ f.proved = "refuted" -> {Return("Unknown", d)}
          \* MayBeTrue
          [] t.proved = "none" /\ f.proved = "refuted" ->
               Then(CoreTruth(q, d), LAMBDA b, e : {Return(IF b THEN "True" ELSE "Unknown", e)})
          \* MayBeFalse
          [] t.proved = "refuted" /\ f.proved = "none" ->
               Then(CoreTruth(negateExpr(q), d),
                    LAMBDA b, e : {Return(IF b THEN "False" ELSE "Unknown", e)})
          [] OTHER -> CoreValidity(q, d)

StagedValue(q, c) ==
    LET fast == Fast(q, FALSE)
    IN  IF fast.proved = "refuted" THEN {Return(Evaluate(q.e, fast.value), Check(fast.ok, c))}
        ELSE CoreValue(q, Check(fast.ok, c))

StagedInitialValues(q, A, c) ==
    LET fast == Fast(q, TRUE)
        d    == Check(fast.ok, c)
    IN  CASE fast.proved = "valid" -> {Return({}, d)}
          [] fast.proved = "refuted" -> {Return({[x \in ElementsOf(A) |-> fast.value[x]]}, d)}
          [] OTHER -> CoreInitialValues(q, A, d)

-----------------------------------------------------------------------------
(***************************************************************************)
(* CexCachingSolver: from sets of constraints to an assignment ({} if      *)
(* there is none).                                                         *)
(***************************************************************************)
Satisfies(a, K) == \A e \in K : Evaluate(e, a)

Key(q) == q.cs \cup ({Negate(q.e)} \ {True})

(* Mutant: the assignment of a subset is taken as it is. *)
searchForAssignmentUnchecked(K, c) ==
    IF K \in DOMAIN c.cex THEN {c.cex[K]} ELSE {c.cex[k] : k \in {k \in DOMAIN c.cex : k \subseteq K}}

(* What may be found: findSuperset and findSubset return any of those that *)
(* match.                                                                  *)
searchForAssignment(K, c) ==
    LET supersets == {c.cex[k] : k \in {k \in DOMAIN c.cex : options.superset /\ K \subseteq k}} \ {{}}
        subsets   == {c.cex[k] : k \in {k \in DOMAIN c.cex : k \subseteq K}}
        null      == subsets \cap {{}}
        satisfying(S) == {s \in S : \A a \in s : Satisfies(a, K)}
    IN  IF K \in DOMAIN c.cex THEN {c.cex[K]}
        ELSE IF supersets # {} THEN supersets
        ELSE IF options.tryAll
             THEN IF null # {} THEN null ELSE satisfying({{a} : a \in c.table})
        ELSE satisfying(subsets)

lookupAssignment(q, c) ==
    IF q.e = True THEN {{}} ELSE searchForAssignment(Key(q), c)

(* Mutant: a timeout is taken for an unsatisfiable key. *)
getAssignmentOrNull(q, c) ==
    IF lookupAssignment(q, c) # {} THEN {Return(a, c) : a \in lookupAssignment(q, c)}
    ELSE {LET a == UNION o.v
          IN  Return(a, [o.c EXCEPT !.table = @ \cup a, !.cex = Inserted(@, Key(q), a)]) :
            o \in StagedInitialValues(q, ArraysOf(Key(q)), c)}

getAssignment(q, c) ==
    IF lookupAssignment(q, c) # {} THEN {Return(a, c) : a \in lookupAssignment(q, c)}
    ELSE Then(StagedInitialValues(q, ArraysOf(Key(q)), c), LAMBDA a, d :
            {Return(a, [d EXCEPT !.table = @ \cup a, !.cex = Inserted(@, Key(q), a)])})

(* "computeValidity() must have assignment", "computeValue() must ..." *)
StateAssignment(q, c, F(_, _)) ==
    Then(getAssignment(withFalse(q), c), LAMBDA a, d :
        IF a = {} THEN {Fail(Check(FALSE, d))} ELSE UNION {F(b, d) : b \in a})

CexValidity(q, c) ==
    StateAssignment(q, c, LAMBDA a, d :
        IF Evaluate(q.e, a)
        THEN Then(getAssignment(q, d), LAMBDA b, f : {Return(IF b = {} THEN "True" ELSE "Unknown", f)})
        ELSE Then(getAssignment(negateExpr(q), d),
                  LAMBDA b, f : {Return(IF b = {} THEN "False" ELSE "Unknown", f)}))

CexTruth(q, c) ==
    IF options.experimental /\ {} \in lookupAssignment(negateExpr(q), c) THEN {Fail(c)}
    ELSE Then(getAssignment(q, c), LAMBDA a, d : {Return(a = {}, d)})

CexValue(q, c) == StateAssignment(q, c, LAMBDA a, d : {Return(Evaluate(q.e, a), d)})

CexInitialValues(q, A, c) ==
    Then(getAssignment(q, c), LAMBDA a, d :
        {Return({[x \in ElementsOf(A) |-> IF x \in DOMAIN b THEN b[x] ELSE 0] : b \in a}, d)})

-----------------------------------------------------------------------------
(***************************************************************************)
(* CachingSolver, the branch cache, over the one above or, without it,     *)
(* over the staged solver.                                                 *)
(***************************************************************************)
BelowTruth(q, c)    == IF options.cexCache THEN CexTruth(q, c) ELSE StagedTruth(q, c)
BelowValidity(q, c) == IF options.cexCache THEN CexValidity(q, c) ELSE StagedValidity(q, c)

negatePartialValidity(pv) ==
    CASE pv = "MustBeTrue" -> "MustBeFalse" [] pv = "MustBeFalse" -> "MustBeTrue"
      [] pv = "MayBeTrue" -> "MayBeFalse"   [] pv = "MayBeFalse" -> "MayBeTrue"
      [] OTHER -> "TrueOrFalse"

(* Of an expression and its negation, the smaller one; negationUsed holds  *)
(* if it is the negation.                                                  *)
Canonical(e) == [e EXCEPT !.neg = FALSE]
negationUsed(e) == e.neg

Entry(q) == <<q.cs, Canonical(q.e)>>

(* {} on a miss *)
cacheLookup(q, c) ==
    IF Entry(q) \notin DOMAIN c.branch THEN {}
    ELSE {IF negationUsed(q.e) THEN negatePartialValidity(c.branch[Entry(q)]) ELSE c.branch[Entry(q)]}

(* Mutant: what is known of the negation is entered for the query. *)
cacheInsertAsAsked(q, pv, c) == [c EXCEPT !.branch = Inserted(@, Entry(q), pv)]

(* insert() keeps an entry that is there. *)
cacheInsert(q, pv, c) ==
    [c EXCEPT !.branch =
        Inserted(@, Entry(q), IF negationUsed(q.e) THEN negatePartialValidity(pv) ELSE pv)]

(* The truth of the query, or of its negation, settles what is known of it *)
Settle(q, asked, proved, validity, c) ==
    Then(BelowTruth(asked, c), LAMBDA b, d :
        {IF b THEN Return(validity, cacheInsert(q, proved, d))
              ELSE Return("Unknown", cacheInsert(q, "TrueOrFalse", d))})

BranchValidity(q, c) ==
    LET hit == cacheLookup(q, c)
    IN  CASE hit = {"MustBeTrue"}  -> {Return("True", c)}
          [] hit = {"MustBeFalse"} -> {Return("False", c)}
          [] hit = {"TrueOrFalse"} -> {Return("Unknown", c)}
          [] hit = {"MayBeTrue"}   -> Settle(q, q, "MustBeTrue", "True", c)
          [] hit = {"MayBeFalse"}  -> Settle(q, negateExpr(q), "MustBeFalse", "False", c)
          [] OTHER -> Then(BelowValidity(q, c), LAMBDA v, d :
                {Return(v, cacheInsert(q, CASE v = "True" -> "MustBeTrue"
                                            [] v = "False" -> "MustBeFalse"
                                            [] OTHER -> "TrueOrFalse", d))})

BranchTruth(q, c) ==
    LET hit == cacheLookup(q, c)
    IN  IF hit \notin {{}, {"MayBeTrue"}} THEN {Return(hit = {"MustBeTrue"}, c)}
        ELSE Then(BelowTruth(q, c), LAMBDA b, d :
                {Return(b, cacheInsert(q, IF b THEN "MustBeTrue"
                                          ELSE IF hit = {} THEN "MayBeFalse" ELSE "TrueOrFalse", d))})

-----------------------------------------------------------------------------
(***************************************************************************)
(* IndependentSolver: only the constraints that the query depends on, and  *)
(* initial values factor by factor.                                        *)
(***************************************************************************)
NextTruth(q, c)    == IF options.branchCache THEN BranchTruth(q, c) ELSE BelowTruth(q, c)
NextValidity(q, c) == IF options.branchCache THEN BranchValidity(q, c) ELSE BelowValidity(q, c)
NextValue(q, c)    == IF options.cexCache THEN CexValue(q, c) ELSE StagedValue(q, c)
NextInitialValues(q, A, c) ==
    IF options.cexCache THEN CexInitialValues(q, A, c) ELSE StagedInitialValues(q, A, c)

Sharing(K, X) == {e \in K : Reads(e) \cap X # {}}

(* Mutant: one pass. *)
getIndependentConstraintsOnce(K, X) == Sharing(K, X)

(* The constraints connected with the elements X. *)
getIndependentConstraints(K, X) ==
    LET elts[n \in 0 .. Cardinality(K)] ==
            IF n = 0 THEN X
            ELSE LET Y == elts[n - 1] IN Y \cup UNION {Reads(e) : e \in Sharing(K, Y)}
    IN  Sharing(K, elts[Cardinality(K)])

Independent(q) ==
    IF options.independent THEN Query(getIndependentConstraints(q.cs, Reads(q.e)), q.e) ELSE q

getAllIndependentConstraintsSets(K) == {getIndependentConstraints(K, Reads(e)) : e \in K}

(* Mutant: the values of a factor replace the whole of an array. *)
PlaceWhole(ret, values, factor) == values @@ ret

(* An array that has values from another factor gets those of the elements *)
(* this factor is about.                                                   *)
Place(ret, values, factor) ==
    [x \in DOMAIN ret \cup DOMAIN values |->
        IF x \in DOMAIN values /\ (x \notin DOMAIN ret \/ x \in UNION {Reads(e) : e \in factor})
        THEN values[x] ELSE ret[x]]

Placed(ret, values, factor) == {Place(r, v, factor) : r \in ret, v \in values}

FactorValues(outcomes, factor) ==
    Then(outcomes, LAMBDA ret, c :
        IF ret = {} THEN {Return(ret, c)}
        ELSE Then(NextInitialValues(Query(factor, False), ArraysOf(factor), c),
                  LAMBDA values, d : {Return(Placed(ret, values, factor), d)}))

AllFactorValues(factors, c) ==
    LET F[n \in 0 .. Len(factors)] ==
            IF n = 0 THEN {Return({<< >>}, c)} ELSE FactorValues(F[n - 1], factors[n])
    IN  F[Len(factors)]

IndependentInitialValues(q, c) ==
    LET K == Key(q)
    IN  Then(AllFactorValues(SetToSeq(getAllIndependentConstraintsSets(K)), c),
             LAMBDA ret, d :
                 LET values == {[x \in Elements |-> IF x \in DOMAIN r THEN r[x] ELSE 0] : r \in ret}
                 \* "should satisfy the equation"
                 IN  {Return(values, Check(\A v \in values : Satisfies(v, K), d))})

InitialValues(q, c) ==
    IF options.independent THEN IndependentInitialValues(q, c) ELSE NextInitialValues(q, Arrays, c)

-----------------------------------------------------------------------------
(***************************************************************************)
(* TimingSolver and Solver: what the executor calls.                       *)
(***************************************************************************)
evaluate(C, e, c) ==
    LET s == simplifyExpr(C, e)
    IN  IF IsConstant(s) THEN {Return(IF s = True THEN "True" ELSE "False", c)}
        ELSE NextValidity(Independent(Query(C, s)), c)

mustBeTrue(C, e, c) ==
    LET s == simplifyExpr(C, e)
    IN  IF IsConstant(s) THEN {Return(s = True, c)} ELSE NextTruth(Independent(Query(C, s)), c)

getValue(C, e, c) ==
    LET s == simplifyExpr(C, e)
    IN  IF IsConstant(s) THEN {Return(s = True, c)} ELSE NextValue(Independent(Query(C, s)), c)

(* false, too, if there is no solution *)
getInitialValues(C, c) ==
    Then(InitialValues(Query(C, False), c), LAMBDA a, d : {[v |-> a, c |-> d]})

-----------------------------------------------------------------------------
(***************************************************************************)
(* The executor.                                                           *)
(***************************************************************************)
Add(C, e) == addConstraint(C, e, options.rewrite)

(* Mutant: a preference is added without asking. *)
PreferredAlways(C, i, c) ==
    LET P[n \in 0 .. i] == IF n = 0 THEN C ELSE Add(P[n - 1], program.prefs[n])
    IN  {[cs |-> P[i], go |-> TRUE, c |-> c]}

(* The preferences are constraints as long as they are possible and the    *)
(* solver answers.                                                         *)
Preferred(C, i, c) ==
    LET P[n \in 0 .. i] ==
            IF n = 0 THEN {[cs |-> C, go |-> TRUE, c |-> c]}
            ELSE UNION {IF ~p.go THEN {p}
                        ELSE {[cs |-> IF o.v = {FALSE} THEN Add(p.cs, program.prefs[n]) ELSE p.cs,
                               go |-> o.v # {}, c |-> o.c] :
                                 o \in mustBeTrue(p.cs, Negate(program.prefs[n]), p.c)} :
                          p \in P[n - 1]}
    IN  P[i]

getSymbolicSolution(C, c) ==
    UNION {getInitialValues(p.cs, p.c) : p \in Preferred(C, Len(program.prefs), c)}

(* The state ends, with a test case unless there is no solution. *)
End(p, how, c) ==
    \E o \in getSymbolicSolution(p.cs, c) :
        /\ solvers' = o.c
        /\ paths' = paths \ {p}
        /\ ended' = ended \cup {[cs |-> p.cs, how |-> how, test |-> o.v]}

Advance(C, pc) == [cs |-> C, pc |-> pc]

Replace(p, new) == paths' = (paths \ {p}) \cup new

Running == ~solvers.failed /\ ~solvers.aborted

Executing(p, op) == Running /\ p.pc # 0 /\ program.code[p.pc].op = op

(* Executor::fork; a query that fails ends the state early. *)
Branch ==
    /\ \E p \in paths :
          /\ Executing(p, "branch")
          /\ LET i == program.code[p.pc]
             IN  \E o \in evaluate(p.cs, i.e, solvers) :
                    \/ o.v = {} /\ End(p, "early", o.c)
                    \/ /\ o.v # {} /\ solvers' = o.c
                       /\ Replace(p, CASE o.v = {"True"} -> {Advance(p.cs, i.then)}
                                       [] o.v = {"False"} -> {Advance(p.cs, i.else)}
                                       [] OTHER -> {Advance(Add(p.cs, i.e), i.then),
                                                    Advance(Add(p.cs, Negate(i.e)), i.else)})
                       /\ UNCHANGED ended
    /\ UNCHANGED <<options, program>>

(* handleAssume: mustBeFalse, which must not fail. *)
Assume ==
    /\ \E p \in paths :
          /\ Executing(p, "assume")
          /\ LET i == program.code[p.pc]
             IN  \E o \in mustBeTrue(p.cs, Negate(i.e), solvers) :
                    \/ o.v = {} /\ solvers' = Unhandled(o.c) /\ UNCHANGED <<paths, ended>>
                    \/ o.v = {TRUE} /\ End(p, "assume", o.c)
                    \/ /\ o.v = {FALSE} /\ solvers' = o.c
                       /\ Replace(p, {Advance(Add(p.cs, i.e), i.then)})
                       /\ UNCHANGED ended
    /\ UNCHANGED <<options, program>>

(* toConstant: getValue, which must not fail. *)
ToConstant ==
    /\ \E p \in paths :
          /\ Executing(p, "value")
          /\ LET i == program.code[p.pc]
             IN  \E o \in getValue(p.cs, i.e, solvers) :
                    \/ o.v = {} /\ solvers' = Unhandled(o.c) /\ UNCHANGED <<paths, ended>>
                    \/ /\ o.v # {} /\ solvers' = o.c
                       /\ Replace(p, {Advance(Add(p.cs, IF o.v = {TRUE} THEN i.e ELSE Negate(i.e)), i.then)})
                       /\ UNCHANGED ended
    /\ UNCHANGED <<options, program>>

(* terminateStateOnExit *)
Exit ==
    /\ Running
    /\ \E p \in paths : p.pc = 0 /\ End(p, "exit", solvers)
    /\ UNCHANGED <<options, program>>

Stopped == (paths = {} \/ ~Running) /\ UNCHANGED vars

Next == Branch \/ Assume \/ ToConstant \/ Exit \/ Stopped

Spec == Init /\ [][Next]_vars
=============================================================================
