----------------------------- MODULE MCModelQuery -----------------------------
(* Two KLEE processes, of one or two queries each. *)
EXTENDS ModelQueryProperties

MCJobs == Processes \X (1 .. MaxQueries)
(* A probability whose text need not have a zero, and two whose text has. *)
Tiny == {"tiny"}
Likely == {"low", "high"}
=============================================================================
