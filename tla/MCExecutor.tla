------------------------------ MODULE MCExecutor ------------------------------
(***************************************************************************)
(* Programs on which the executor is checked.                              *)
(***************************************************************************)
EXTENDS ExecutorProperties, TLC

InputSymmetry == Permutations(Inputs)

I(op, succ, block) == [op |-> op, succ |-> succ, block |-> block]

(* if (c) { switch (x) { three cases } }: the states of the inner switch   *)
(* meet, and merge, inside the outer region.                               *)
NestedSwitch ==
    << I("br", <<2, 7>>, 1),
       I("switch", <<3, 4, 5>>, 2),
       I("plain", <<6>>, 3), I("plain", <<6>>, 4), I("plain", <<6>>, 5),
       I("plain", <<7>>, 6),
       I("plain", <<8>>, 7), I("exit", << >>, 7) >>

(* if (c) { switch (x) { two cases, one of which allocates } } and then a  *)
(* region, opened by the intrinsic, around an access by symbolic address:  *)
(* every state that gets there forks in a region of its own, and the       *)
(* groups meet at the same close point, one after the other.               *)
TwoGroups ==
    << I("br", <<2, 5>>, 1),
       I("switch", <<3, 4>>, 2),
       I("alloc", <<5>>, 3), I("plain", <<5>>, 4),
       I("plain", <<6>>, 5), I("open", <<7>>, 5), I("load", <<8>>, 5),
       I("close", <<9>>, 5), I("exit", << >>, 5) >>

(* test/Merging/easy_merge.c *)
EasyMerge ==
    << I("br", <<2, 10>>, 1),
       I("open", <<3>>, 2), I("br", <<4, 5>>, 2),
       I("plain", <<8>>, 3),
       I("br", <<6, 7>>, 4),
       I("plain", <<8>>, 5), I("plain", <<8>>, 6),
       I("close", <<9>>, 7), I("plain", <<10>>, 7),
       I("plain", <<11>>, 8), I("exit", << >>, 8) >>

(* A region opened by the intrinsic around a switch, of whose cases one    *)
(* allocates an object.                                                    *)
ExplicitRegion ==
    << I("open", <<2>>, 1), I("switch", <<3, 4, 5, 6>>, 1),
       I("plain", <<7>>, 2), I("alloc", <<7>>, 3), I("plain", <<7>>, 4), I("plain", <<7>>, 5),
       I("plain", <<8>>, 6), I("close", <<9>>, 6), I("exit", << >>, 6) >>

(* NestedSwitch with one case that takes longer than the others, joined at *)
(* an access by symbolic address.                                          *)
SlowCase ==
    << I("br", <<2, 11>>, 1),
       I("switch", <<3, 7, 8>>, 2),
       I("plain", <<4>>, 3), I("plain", <<5>>, 3), I("plain", <<6>>, 3), I("plain", <<9>>, 3),
       I("plain", <<9>>, 4), I("plain", <<9>>, 5),
       I("plain", <<10>>, 6), I("plain", <<11>>, 6),
       I("load", <<12>>, 7), I("exit", << >>, 7) >>

(* Programs whose regions are closed before a state ends. *)
ASSUME MCProgramAssumption ==
    /\ Program = ExplicitRegion =>
          RegionBounds(<<0, 1, 1, 1, 1, 1, 1, 1, 0>>,
                       <<{}, {}, {6}, {6}, {6}, {6}, {6}, {}, {}>>)
    /\ Program = NestedSwitch =>
          RegionBounds([i \in Inst |-> 0],
                       <<{}, {7}, {6, 7}, {6, 7}, {6, 7}, {6, 7}, {7}, {}>>)
=============================================================================
