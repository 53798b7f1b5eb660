------------------------------- MODULE MCSolver -------------------------------
(* Two arrays, of two bytes and of one byte, and programs of two to six    *)
(* instructions.                                                           *)
EXTENDS SolverProperties

a0 == <<"a", 0>>
a1 == <<"a", 1>>
b0 == <<"b", 0>>

MCElements == {a0, a1, b0}

Is(x, v) == Eq(Const(v), x, FALSE)
Same(x, y) == Eq(x, y, FALSE)

Instr(op, e, then, else) == [op |-> op, e |-> e, then |-> then, else |-> else]

(* A chain of equalities, whose end decides its start. *)
Chained ==
    {[code |-> <<Instr("branch", Same(a0, b0), 2, 2), Instr("branch", Same(b0, a1), 0, 0)>>,
      prefs |-> <<Is(a0, 1)>>],
     [code |-> <<Instr("branch", Same(a0, b0), 2, 2), Instr("branch", Is(b0, 1), 3, 3),
                 Instr("branch", Is(a0, 1), 0, 0)>>, prefs |-> << >>]}

(* Independent bytes of one array. *)
Factors ==
    {[code |-> <<Instr("branch", Is(a0, 1), 2, 2), Instr("branch", Is(a1, 1), 0, 0)>>,
      prefs |-> <<Same(a0, a1), Is(b0, 1)>>]}

(* One side asks whether a condition may hold, the other decides it. *)
Shared ==
    {[code |-> <<Instr("branch", Is(a0, 1), 2, 3), Instr("assume", Same(b0, a1), 0, 0),
                 Instr(op, Negate(Same(b0, a1)), 0, 0)>>, prefs |-> << >>] :
        op \in {"branch", "assume"}}
    \cup
    {[code |-> <<Instr("assume", Same(a1, b0), 2, 0), Instr("assume", Is(b0, 1), 3, 0),
                 Instr("branch", Is(a0, 1), 4, 5), Instr("assume", Is(a1, 1), 0, 0),
                 Instr("branch", d, 0, 6), Instr("branch", Is(a0, 1), 0, 0)>>, prefs |-> << >>] :
        d \in {Is(a1, 1), Negate(Is(a1, 1))}}

(* The constraints of one side are a subset of those of the other. *)
Nested ==
    {[code |-> <<Instr("branch", Is(a0, 1), 2, 4), Instr("assume", Same(a1, b0), 3, 0),
                 Instr("assume", Is(b0, 1), 0, 0), Instr("assume", Is(b0, 1), 0, 0)>>,
      prefs |-> << >>],
     [code |-> <<Instr("branch", Is(a0, 1), 2, 3), Instr("assume", Same(a1, b0), 5, 0),
                 Instr("assume", Same(a1, b0), 4, 0), Instr("assume", Negate(Same(a0, b0)), 5, 0),
                 Instr("assume", Is(b0, 1), 6, 0), Instr("branch", Is(a1, 1), 0, 0)>>,
      prefs |-> << >>]}

(* An assumption that is known to hold or to fail, and a concretisation. *)
Known ==
    {[code |-> <<Instr("branch", Is(b0, 1), 2, 2), Instr("assume", Negate(Is(b0, 1)), 0, 0)>>,
      prefs |-> << >>],
     [code |-> <<Instr("branch", Same(a0, a1), 2, 2), Instr("value", Same(a0, b0), 3, 0),
                 Instr("branch", Negate(Same(b0, a1)), 4, 4), Instr("assume", Same(b0, a1), 0, 0)>>,
      prefs |-> << >>]}

MCPrograms == Chained \cup Factors \cup Shared \cup Nested \cup Known

Chain(ind, br, cex, fast, t) ==
    [independent |-> ind, branchCache |-> br, cexCache |-> cex, fast |-> fast, timeouts |-> t,
     superset |-> FALSE, tryAll |-> FALSE, experimental |-> FALSE, rewrite |-> FALSE]

MCOptions ==
    {[Chain(TRUE, TRUE, TRUE, FALSE, FALSE) EXCEPT !.rewrite = TRUE],
     Chain(TRUE, TRUE, TRUE, FALSE, TRUE),
     [Chain(TRUE, TRUE, TRUE, FALSE, FALSE) EXCEPT !.superset = TRUE],
     [Chain(TRUE, FALSE, TRUE, FALSE, FALSE) EXCEPT !.tryAll = TRUE, !.experimental = TRUE],
     Chain(FALSE, TRUE, FALSE, TRUE, TRUE),
     Chain(TRUE, TRUE, TRUE, TRUE, FALSE),
     Chain(FALSE, FALSE, TRUE, FALSE, FALSE)}
=============================================================================
