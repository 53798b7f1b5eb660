---------------------------- MODULE MergeDecision ----------------------------
(***************************************************************************)
(* MergeHandler::merge_or_not: whether a group of states that can merge is *)
(* merged.  In "query" mode the decision is read off the text that curl    *)
(* got from the model server, of which one thing is looked at: whether it  *)
(* contains the character 0.                                               *)
(***************************************************************************)

CONSTANT MergeDecisionMode

(***************************************************************************)
(* What the server, or its absence, makes curl print: the two class        *)
(* probabilities, an error document, or nothing at all.                    *)
(***************************************************************************)
Responses == {"probabilities", "error document", "nothing"}

(* A probability below 1 is printed as 0.x and an error code may or may    *)
(* not have a 0.                                                           *)
MayContainZero(r) == r \in {"probabilities", "error document"}
MayLackZero(r)    == r \in {"error document", "nothing"}

(***************************************************************************)
(* The decisions merge_or_not can return.  With an unknown mode it returns *)
(* no value, and the caller reads either.                                  *)
(***************************************************************************)
MergeOrNot ==
    CASE MergeDecisionMode = "random"  -> BOOLEAN
      [] MergeDecisionMode = "merge"   -> {TRUE}
      [] MergeDecisionMode = "unmerge" -> {FALSE}
      [] MergeDecisionMode = "query"   -> {d \in BOOLEAN : \E r \in Responses :
                                             IF d THEN MayContainZero(r) ELSE MayLackZero(r)}
      [] OTHER -> BOOLEAN
=============================================================================
