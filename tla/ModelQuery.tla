----------------------------- MODULE ModelQuery -----------------------------
(***************************************************************************)
(* merge_or_not in "query" mode, in several KLEE processes that share one  *)
(* model server.  The features of the states are written to a file, curl   *)
(* uploads it, and the decision is read off what curl prints.              *)
(***************************************************************************)
EXTENDS ModelServer

CONSTANTS Processes,     \* the KLEE processes
          MaxQueries     \* bound: queries of a process

(* Nothing on curl's output: no file, no connection, or an empty reply. *)
Nothing == [kind |-> "nothing"]

ASSUME ModelQueryAssumption ==
    /\ MaxQueries \in Nat /\ Nothing # None
    /\ Jobs = Processes \X (1 .. MaxQueries)

VARIABLE klee            \* [pc, queries, res, decision]

vars == <<serverVars, klee>>

Init ==
    /\ ServerInit
    /\ klee = [c \in Processes |-> [pc |-> "running", queries |-> 0, res |-> None, decision |-> None]]

(* The ofstream is open while curl reads the file: a document shorter than *)
(* what it buffers is not in there yet.  Its directory may not exist.      *)
OnDisk(size) == CASE size = "long" -> "whole" [] size = "short" -> "empty" [] OTHER -> "missing"

CurrentJob(c) == <<c, klee[c].queries>>

Query(c) ==
    /\ klee[c].pc = "running" /\ klee[c].queries < MaxQueries
    /\ \E size \in {"long", "short", "no directory"} :
          LET n    == klee[c].queries + 1
              sent == up /\ OnDisk(size) # "missing"
          IN  /\ klee' = [klee EXCEPT ![c] = [pc |-> "waiting", queries |-> n, decision |-> None,
                                             res |-> IF sent THEN None ELSE Nothing]]
              /\ IF sent THEN AddJob(<<c, n>>, OnDisk(size)) ELSE UNCHANGED serverVars

(* A float prints as 0.x or 1.0 or, below 10^-4, with an exponent of two   *)
(* digits, where there need be no zero from e-10 on.                       *)
FloatHasZero(p) == p # "tiny"

CodeHasZero(code) == \E d \in {1, 10, 100} : (code \div d) % 10 = 0

(* What curl prints in the end: the response, or nothing. *)
Result(c) ==
    IF klee[c].res # None THEN klee[c].res
    ELSE IF answers[CurrentJob(c)] # << >> THEN Head(answers[CurrentJob(c)]) ELSE Nothing

(* Mutant: only a prediction is looked at. *)
HasZeroOfPrediction(res) == res.kind = "prediction"

(* res.find("0") *)
HasZero(res) ==
    CASE res.kind = "nothing" -> FALSE
      [] res.kind = "error" -> CodeHasZero(res.code)
      [] res.kind = "prediction" -> FloatHasZero(res.merge) \/ FloatHasZero(Complement[res.merge])

(* curl ends, and the file is removed. *)
Decide(c) ==
    /\ klee[c].pc = "waiting"
    /\ klee[c].res # None \/ ~up \/ answers[CurrentJob(c)] # << >>
    /\ klee' = [klee EXCEPT ![c].pc = "running", ![c].res = Result(c),
                            ![c].decision = HasZero(Result(c))]
    /\ Close(CurrentJob(c))

(* The server ends, and its connections with it. *)
Down ==
    /\ up /\ Fault /\ up' = FALSE
    /\ UNCHANGED <<queue, worker, content, answers, stale, klee>>

Server(w) == (WorkerStep(w) \/ WorkerFault(w)) /\ UNCHANGED klee

Next ==
    \/ \E c \in Processes : Query(c) \/ Decide(c)
    \/ \E w \in Workers : Server(w)
    \/ Down

(* Threads, processes and schedulers go on; faults need not happen. *)
Fairness ==
    /\ \A c \in Processes : WF_vars(Decide(c))
    /\ \A w \in Workers :
          /\ WF_vars(Connect(w) /\ UNCHANGED klee) /\ WF_vars(Poll(w) /\ UNCHANGED klee)
          /\ WF_vars(Receive(w) /\ UNCHANGED klee) /\ WF_vars(Interrupt(w) /\ UNCHANGED klee)
          /\ WF_vars(Stop(w) /\ UNCHANGED klee) /\ WF_vars(Handle(w) /\ UNCHANGED klee)

Spec == Init /\ [][Next]_vars /\ Fairness
=============================================================================
