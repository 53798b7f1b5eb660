----------------------------- MODULE MCSearchers -----------------------------
(***************************************************************************)
(* Instances on which the searchers are checked.                           *)
(***************************************************************************)
EXTENDS SearchersProperties

Options(core, on) ==
    [core |-> core, batching |-> "batching" \in on, deepening |-> "deepening" \in on,
     merge |-> "merge" \in on, branch |-> "branch" \in on,
     error |-> "error" \in on, kill |-> "kill" \in on]

MCSearches ==
    {Options(core, {"branch", "error", "kill"}) : core \in {<<"dfs">>, <<"random-path">>}}
    \cup {Options(<<"bfs">>, {"kill"}), Options(<<"bfs">>, {"branch", "error", "batching"})}
    \cup {Options(<<"random-path", "nurs:covnew">>, on) : on \in {{"branch", "error", "batching"}, {"kill"}}}
    \cup {Options(<<"random-path">>, {"deepening"})}
    \cup {Options(<<"dfs", "nurs:covnew", "random-state">>, {"kill", "batching", "deepening"})}
    \cup {Options(core, {"merge", "error", "batching", "deepening"}) :
             core \in {<<"nurs:covnew">>, <<"bfs", "nurs:depth">>}}
    \cup {Options(<<"dfs">>, {"merge", "error"})}

(* The chains are those that the searchers' theorems are about. *)
ASSUME MCSearchesAssumption == RegularChains
=============================================================================
