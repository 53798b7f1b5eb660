----------------------------- MODULE ControlFlow -----------------------------
(***************************************************************************)
(* The program under symbolic execution, and the control-flow questions    *)
(* that Executor::run asks LLVM about it when it looks for merge regions.  *)
(*                                                                         *)
(* Program is a sequence of instructions in the layout order of a KLEE     *)
(* KFunction.  PHI nodes are left out, so the first instruction of a block *)
(* in this sequence is the block's getFirstNonPHI().  An instruction keeps *)
(* only what the executor's control depends on: its kind, its successors   *)
(* (in the order in which the executor visits them: the true and the false *)
(* one of a branch, the cases and then the default of a switch) and its    *)
(* basic block.                                                            *)
(***************************************************************************)
EXTENDS Integers, Sequences

CONSTANT Program

(***************************************************************************)
(* "load" stands for every instruction that forks inside                   *)
(* executeMemoryOperation; "exit" for every instruction that terminates    *)
(* its state; "open" and "close" for the two merge intrinsics; "alloc" for *)
(* the creation of a memory object.                                        *)
(***************************************************************************)
Ops == {"plain", "alloc", "load", "br", "switch", "open", "close", "exit"}

Inst  == 1 .. Len(Program)
Entry == 1
NoBlock == 0

Op(i)      == Program[i].op
Succ(i)    == Program[i].succ
BlockOf(i) == Program[i].block

ASSUME ProgramAssumption ==
    /\ Program \in Seq([op : Ops, succ : Seq(Nat), block : Nat \ {NoBlock}])
    /\ Program # << >>
    /\ \A i \in Inst :
          /\ \A k \in 1 .. Len(Succ(i)) : Succ(i)[k] \in Inst
          /\ Op(i) = "exit" => Len(Succ(i)) = 0
          /\ Op(i) = "br" => Len(Succ(i)) = 2
          /\ Op(i) = "switch" => Len(Succ(i)) >= 2
          /\ Op(i) \notin {"exit", "br", "switch"} => Len(Succ(i)) = 1

(* A terminator with getNumSuccessors() > 1. *)
IsBranching(i) == Op(i) \in {"br", "switch"}

(* Mutant: pc runs past the end of the function. *)
NextInstPastTheEnd(i) == i + 1

(* What ++state.pc leaves in pc; terminators overwrite it. *)
NextInst(i) == IF Len(Succ(i)) = 0 THEN i ELSE Succ(i)[1]

-----------------------------------------------------------------------------

Blocks == {BlockOf(i) : i \in Inst}

IsFirstNonPHI(i) == \A j \in Inst : BlockOf(j) = BlockOf(i) => i <= j

(* The edges of the control-flow graph: jumps to the start of a block. *)
BlockEdge ==
    {e \in Blocks \X Blocks :
        \E i \in Inst : /\ BlockOf(i) = e[1]
                        /\ \E k \in 1 .. Len(Succ(i)) : /\ BlockOf(Succ(i)[k]) = e[2]
                                                        /\ IsFirstNonPHI(Succ(i)[k])}

ExitBlocks == {b \in Blocks : \A c \in Blocks : <<b, c>> \notin BlockEdge}

(***************************************************************************)
(* The blocks on the paths from b that stay out of Avoid: those on paths   *)
(* of at most as many edges as there are instructions.                     *)
(***************************************************************************)
ReachableAvoiding(b, Avoid) ==
    LET within[n \in 0 .. Len(Program)] ==
            IF n = 0 THEN {b} \ Avoid
            ELSE UNION {{d} \cup {c \in Blocks \ Avoid : <<d, c>> \in BlockEdge} :
                            d \in within[n - 1]}
    IN  within[Len(Program)]

IsPotentiallyReachable(b, c) == c \in ReachableAvoiding(b, {})

(* llvm::PostDominatorTree: a post-dominates b when no path from b to an   *)
(* exit avoids a.                                                          *)
PostDominators ==
    [b \in Blocks |-> {a \in Blocks : ReachableAvoiding(b, {a}) \cap ExitBlocks = {}}]

(***************************************************************************)
(* The fold of PDT->findNearestCommonDominator over the successors of bb:  *)
(* the nearest block that post-dominates all of them, or NoBlock when only *)
(* the virtual root does.                                                  *)
(***************************************************************************)
NearestCommonPostDominator(B) ==
    LET common == {a \in Blocks : \A b \in B : a \in PostDominators[b]}
        nearest == {a \in common : common \subseteq PostDominators[a]}
    IN  IF nearest = {} THEN NoBlock ELSE CHOOSE a \in nearest : TRUE

(***************************************************************************)
(* The close block that run() computes for a block whose terminator        *)
(* forked; NoBlock when it opens no region there.                          *)
(***************************************************************************)
CloseBlock ==
    [b \in Blocks |->
        LET close == NearestCommonPostDominator({c \in Blocks : <<b, c>> \in BlockEdge})
        IN  IF close # NoBlock /\ IsPotentiallyReachable(b, close) THEN close ELSE NoBlock]
=============================================================================
