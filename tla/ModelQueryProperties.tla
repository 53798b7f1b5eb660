------------------------ MODULE ModelQueryProperties ------------------------
(***************************************************************************)
(* What KLEE can expect of a query, whatever happens to the processes of   *)
(* the model server.                                                       *)
(***************************************************************************)
EXTENDS ModelQuery

(* Where a request can be in the server. *)
Queued(j) == {i \in DOMAIN queue : queue[i] = j}
Held(j)   == {w \in Workers : j \in worker[w].jobs}

(* The request that a process waits for. *)
Open(j) == klee[j[1]].pc = "waiting" /\ j = CurrentJob(j[1])

(* No request is answered twice, by its reply and by an error of the       *)
(* thread that gives up or starts again; it is in the queue or with one    *)
(* worker, and none that has ended is still in the server.                 *)
AnsweredOnce ==
    up => \A j \in Jobs :
             /\ Len(answers[j]) <= 1
             /\ \A i, k \in Queued(j) : i = k
             /\ \A v, w \in Held(j) : v = w
             /\ answers[j] # << >> => Queued(j) = {} /\ Held(j) = {}
             /\ Queued(j) # {} => Held(j) = {}
             /\ ~Open(j) => answers[j] = << >> /\ Queued(j) = {} /\ Held(j) = {}

(* A prediction that reaches a KLEE process was computed for its request,  *)
(* from its whole document, although replies can come late and are taken   *)
(* for those to other requests.                                            *)
PredictionsAreOwn ==
    \A j \in Jobs : \A i \in DOMAIN answers[j] :
        answers[j][i].kind = "prediction" => answers[j][i].job = j /\ content[j] = "whole"

(* States are merged exactly if the server has answered: with a prediction *)
(* of either kind, and also with any of its errors.                        *)
MergedIfAnswered ==
    \A c \in Processes :
        klee[c].pc = "running" /\ klee[c].queries > 0 =>
            klee[c].decision = (klee[c].res.kind # "nothing")

(***************************************************************************)
(* The inductive invariant behind the three.                               *)
(***************************************************************************)
Errors == {Error(code) : code \in {500, 503, 507}}
Responses == Errors \cup {Prediction(j, p) : j \in Jobs, p \in Likelihoods}
Replies == [code : {200, 503, 507}, predictions : SUBSET {Prediction(j, p) : j \in Jobs, p \in Likelihoods}]

ServerTypeOK ==
    /\ queue \in Seq(Jobs)
    /\ worker \in [Workers ->
                     [thread : {"scheduled", "polling", "waiting", "stopping", "dead"},
                      state : {None, "STARTED", "MODEL_LOADED", "STOPPED", "ERROR"},
                      channel : BOOLEAN, connected : BOOLEAN,
                      control : Seq({Load}), req : Jobs \cup {Load, None},
                      jobs : SUBSET (Jobs \cup {Load}),
                      socket : Seq(Jobs \cup {Load}), replies : Seq(Replies)]]
    /\ content \in [Jobs -> {None, "whole", "empty"}]
    /\ answers \in [Jobs -> Seq(Responses)]
    /\ klee \in [Processes ->
                   [pc : {"running", "waiting"}, queries : 0 .. MaxQueries,
                    res : Responses \cup {None, Nothing}, decision : BOOLEAN \cup {None}]]
    /\ \A c \in Processes : klee[c].pc = "waiting" => klee[c].queries > 0

(* A worker holds the request at hand, and none between two requests. *)
WorkersHoldOne ==
    \A w \in Workers :
        /\ worker[w].jobs = IF worker[w].req = None THEN {} ELSE {worker[w].req}
        /\ worker[w].thread \in {"scheduled", "polling", "dead"} => worker[w].req = None

(* A process that waits with nothing to wait for has sent nothing. *)
UnsentAreNowhere ==
    up => \A j \in Jobs :
             Open(j) /\ klee[j[1]].res # None => answers[j] = << >> /\ Queued(j) = {} /\ Held(j) = {}

Started(j) == j[2] <= klee[j[1]].queries

(* What is on its way to or from a process belongs to a request that has   *)
(* been sent, and a prediction that comes in time to a whole document.     *)
RepliesAreKnown ==
    \A w \in Workers :
        /\ \A i \in DOMAIN worker[w].socket : worker[w].socket[i] # Load => Started(worker[w].socket[i])
        /\ \A i \in DOMAIN worker[w].replies : \A p \in worker[w].replies[i].predictions :
              Started(p.job) /\ (Open(p.job) => content[p.job] = "whole")

QueryInv ==
    /\ ServerTypeOK
    /\ WorkersHoldOne
    /\ UnsentAreNowhere
    /\ RepliesAreKnown
    /\ AnsweredOnce
    /\ PredictionsAreOwn
    /\ MergedIfAnswered

(* A query ends, if the server is up or not, however its processes die or  *)
(* hang, unless no thread has survived its first start, or a reply of a    *)
(* process that is gone was left over and taken for one of the next.       *)
QueriesEnd ==
    \A c \in Processes :
        klee[c].pc = "waiting" ~>
            klee[c].pc # "waiting" \/ stale \/ \A w \in Workers : worker[w].thread = "dead"

(* The guidance is followed: what the model would rather not merge is not  *)
(* merged.                                                                 *)
GuidanceFollowed ==
    \A c \in Processes :
        klee[c].pc = "running" /\ klee[c].queries > 0 =>
            (klee[c].res.kind = "prediction" /\ klee[c].res.merge \in {"tiny", "low"}
                => ~klee[c].decision)
=============================================================================
