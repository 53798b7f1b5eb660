--------------------------- MODULE ModelQueryProofs ---------------------------
(***************************************************************************)
(* For any number of KLEE processes, queries, workers and faults, and any  *)
(* length of the queue, a query is answered at most once and with its own  *)
(* prediction, and states are merged exactly if the server answers.        *)
(***************************************************************************)
EXTENDS ModelQueryProperties, TLAPS

(* The records of the worker threads. *)
WorkerRecords ==
    [thread : {"scheduled", "polling", "waiting", "stopping", "dead"},
     state : {None, "STARTED", "MODEL_LOADED", "STOPPED", "ERROR"},
     channel : BOOLEAN, connected : BOOLEAN,
     control : Seq({Load}), req : Jobs \cup {Load, None},
     jobs : SUBSET (Jobs \cup {Load}),
     socket : Seq(Jobs \cup {Load}), replies : Seq(Replies)]

(* A worker is one of these records. *)
LEMMA WorkerType == ServerTypeOK => worker \in [Workers -> WorkerRecords]
BY DEF ServerTypeOK, WorkerRecords

(* A request is a process and the number of its query. *)
LEMMA JobFields ==
    ASSUME NEW j \in Jobs PROVE j[1] \in Processes /\ j[2] \in 1 .. MaxQueries /\ j = <<j[1], j[2]>>
BY ModelQueryAssumption

(* The requests that the server holds, when a step changes neither them    *)
(* nor the answers.                                                        *)
LEMMA RequestsKept ==
    ASSUME QueryInv, UNCHANGED <<up, queue, content, answers, klee>>,
           \A v \in Workers : worker'[v].jobs = worker[v].jobs
    PROVE  /\ UnsentAreNowhere' /\ AnsweredOnce' /\ PredictionsAreOwn' /\ MergedIfAnswered'
           /\ \A j : Open(j)' = Open(j) /\ Started(j)' = Started(j)
<1>1. \A j : Held(j)' = Held(j) /\ Queued(j)' = Queued(j)
    BY DEF Held, Queued
<1>2. \A j : Open(j)' = Open(j) /\ Started(j)' = Started(j)
    BY DEF Open, Started, CurrentJob
<1>3. UnsentAreNowhere'
    BY <1>1, <1>2 DEF QueryInv, UnsentAreNowhere
<1>4. AnsweredOnce'
    BY <1>1, <1>2 DEF QueryInv, AnsweredOnce
<1>5. PredictionsAreOwn' /\ MergedIfAnswered'
    BY DEF QueryInv, PredictionsAreOwn, MergedIfAnswered
<1> QED
    BY <1>2, <1>3, <1>4, <1>5

(* One worker takes a step that keeps its request. *)
LEMMA WorkerKeepsRequest ==
    ASSUME QueryInv, UNCHANGED <<up, queue, content, answers, klee>>,
           NEW w \in Workers, NEW r \in WorkerRecords, worker' = [worker EXCEPT ![w] = r],
           r.jobs = worker[w].jobs, r.req = worker[w].req,
           r.thread \in {"scheduled", "polling", "dead"} => worker[w].req = None,
           \A i \in DOMAIN r.socket : r.socket[i] # Load => Started(r.socket[i]),
           \A i \in DOMAIN r.replies : \A p \in r.replies[i].predictions :
               Started(p.job) /\ (Open(p.job) => content[p.job] = "whole")
    PROVE  QueryInv'
<1>1. worker \in [Workers -> WorkerRecords] /\ worker' \in [Workers -> WorkerRecords]
    BY WorkerType DEF QueryInv
<1>2. \A v \in Workers : worker'[v] = IF v = w THEN r ELSE worker[v]
    BY <1>1
<1>3. \A v \in Workers : worker'[v].jobs = worker[v].jobs
    BY <1>2
<1>4. /\ UnsentAreNowhere' /\ AnsweredOnce' /\ PredictionsAreOwn' /\ MergedIfAnswered'
      /\ \A j : Open(j)' = Open(j) /\ Started(j)' = Started(j)
    BY <1>3, RequestsKept
<1>5. ServerTypeOK'
    BY <1>1 DEF QueryInv, ServerTypeOK, WorkerRecords
<1>6. WorkersHoldOne'
    BY <1>2 DEF QueryInv, WorkersHoldOne
<1>7. RepliesAreKnown'
    <2> SUFFICES ASSUME NEW v \in Workers
                 PROVE  /\ \A i \in DOMAIN worker'[v].socket :
                              worker'[v].socket[i] # Load => Started(worker'[v].socket[i])
                        /\ \A i \in DOMAIN worker'[v].replies : \A p \in worker'[v].replies[i].predictions :
                              Started(p.job) /\ (Open(p.job) => content[p.job] = "whole")
        BY <1>4 DEF RepliesAreKnown, Started, Open, CurrentJob
    <2> QED
        BY <1>2 DEF QueryInv, RepliesAreKnown
<1> QED
    BY <1>4, <1>5, <1>6, <1>7 DEF QueryInv

(* The fields of a worker. *)
LEMMA WorkerFields ==
    ASSUME QueryInv, NEW w \in Workers
    PROVE  /\ worker[w] \in WorkerRecords
           /\ worker[w].jobs = IF worker[w].req = None THEN {} ELSE {worker[w].req}
           /\ worker[w].thread \in {"scheduled", "polling", "dead"} => worker[w].req = None
           /\ \A i \in DOMAIN worker[w].socket : worker[w].socket[i] # Load => Started(worker[w].socket[i])
           /\ \A i \in DOMAIN worker[w].replies : \A p \in worker[w].replies[i].predictions :
                 Started(p.job) /\ (Open(p.job) => content[p.job] = "whole")
BY WorkerType DEF QueryInv, WorkersHoldOne, RepliesAreKnown

(* An empty socket. *)
LEMMA EmptySocket == << >> \in Seq(Jobs \cup {Load}) /\ \A i \in DOMAIN << >> : FALSE
OBVIOUS

(* Starting a worker process keeps the invariant. *)
LEMMA ConnectKeeps == ASSUME QueryInv, NEW w \in Workers, Connect(w), UNCHANGED klee PROVE QueryInv'
<1> DEFINE r == [worker[w] EXCEPT !.thread = "polling", !.state = "STARTED", !.channel = TRUE,
                                  !.connected = TRUE, !.control = Append(@, Load), !.socket = << >>]
<1>1. worker[w] \in WorkerRecords /\ worker[w].thread = "scheduled"
    BY WorkerFields DEF Connect
<1>2. Append(worker[w].control, Load) \in Seq({Load}) /\ << >> \in Seq(Jobs \cup {Load})
    BY <1>1 DEF WorkerRecords
<1>3. /\ r \in WorkerRecords /\ r.jobs = worker[w].jobs /\ r.req = worker[w].req
      /\ r.socket = << >> /\ r.replies = worker[w].replies /\ r.thread = "polling"
    BY <1>1, <1>2 DEF WorkerRecords
<1>4. worker' = [worker EXCEPT ![w] = r] /\ UNCHANGED <<up, queue, content, answers, klee>>
    BY DEF Connect
<1> HIDE DEF r
<1> QED
    BY <1>1, <1>3, <1>4, EmptySocket, WorkerFields, WorkerKeepsRequest

(* A start that fails keeps the invariant. *)
LEMMA StartFailsKeeps == ASSUME QueryInv, NEW w \in Workers, StartFails(w), UNCHANGED klee PROVE QueryInv'
<1> DEFINE r == [worker[w] EXCEPT !.thread = IF worker[w].connected THEN "stopping" ELSE "dead"]
<1>1. worker[w] \in WorkerRecords /\ worker[w].thread = "scheduled"
    BY WorkerFields DEF StartFails
<1>2. /\ r \in WorkerRecords /\ r.jobs = worker[w].jobs /\ r.req = worker[w].req
      /\ r.socket = worker[w].socket /\ r.replies = worker[w].replies
    BY <1>1 DEF WorkerRecords
<1>3. worker' = [worker EXCEPT ![w] = r] /\ UNCHANGED <<up, queue, content, answers, klee>>
    BY DEF StartFails
<1> HIDE DEF r
<1> QED
    BY <1>1, <1>2, <1>3, WorkerFields, WorkerKeepsRequest

(* A timeout or an interrupt of the worker thread keeps the invariant. *)
LEMMA GivesUpKeeps ==
    ASSUME QueryInv, NEW w \in Workers, Timeout(w) \/ Interrupt(w), UNCHANGED klee PROVE QueryInv'
<1> DEFINE r == [worker[w] EXCEPT !.thread = "stopping"]
<1>1. worker[w] \in WorkerRecords
    BY WorkerFields
<1>2. /\ r \in WorkerRecords /\ r.jobs = worker[w].jobs /\ r.req = worker[w].req
      /\ r.socket = worker[w].socket /\ r.replies = worker[w].replies /\ r.thread = "stopping"
    BY <1>1 DEF WorkerRecords
<1>3. worker' = [worker EXCEPT ![w] = r] /\ UNCHANGED <<up, queue, content, answers, klee>>
    BY DEF Timeout, Interrupt
<1> HIDE DEF r
<1> QED
    BY <1>2, <1>3, WorkerFields, WorkerKeepsRequest

(* The death of a worker process keeps the invariant. *)
LEMMA CrashKeeps == ASSUME QueryInv, NEW w \in Workers, Crash(w), UNCHANGED klee PROVE QueryInv'
<1> DEFINE r == [worker[w] EXCEPT !.channel = FALSE, !.socket = << >>]
<1>1. worker[w] \in WorkerRecords
    BY WorkerFields
<1>2. /\ r \in WorkerRecords /\ r.jobs = worker[w].jobs /\ r.req = worker[w].req
      /\ r.socket = << >> /\ r.replies = worker[w].replies /\ r.thread = worker[w].thread
    BY <1>1, EmptySocket DEF WorkerRecords
<1>3. worker' = [worker EXCEPT ![w] = r] /\ UNCHANGED <<up, queue, content, answers, klee>>
    BY DEF Crash
<1> HIDE DEF r
<1> QED
    BY <1>2, <1>3, EmptySocket, WorkerFields, WorkerKeepsRequest

(* What the process behind a worker can reply. *)
LEMMA OutcomesKnown ==
    ASSUME ServerTypeOK, NEW req \in Jobs \cup {Load}, req # Load => Started(req), NEW reply \in Outcomes(req)
    PROVE  /\ reply \in Replies
           /\ \A p \in reply.predictions : Started(p.job) /\ content[p.job] = "whole"
<1>1. CASE reply \in {[code |-> 507, predictions |-> {}], [code |-> 200, predictions |-> {}],
                      [code |-> 503, predictions |-> {}]}
    BY <1>1 DEF Replies
<1>2. CASE req # Load /\ content[req] = "whole" /\
           \E p \in Likelihoods : reply = [code |-> 200, predictions |-> {Prediction(req, p)}]
    <2> PICK p \in Likelihoods : reply = [code |-> 200, predictions |-> {Prediction(req, p)}]
        BY <1>2
    <2>1. Prediction(req, p).job = req
        BY DEF Prediction
    <2> QED
        BY <1>2, <2>1 DEF Replies
<1> QED
    BY <1>1, <1>2 DEF Outcomes

(* The handling of a request by the worker process keeps the invariant. *)
LEMMA HandleKeeps == ASSUME QueryInv, NEW w \in Workers, Handle(w), UNCHANGED klee PROVE QueryInv'
<1> DEFINE req == Head(worker[w].socket)
           full == worker[w].replies # << >>
<1>0. PICK reply \in Outcomes(req) :
          worker' = [worker EXCEPT
                        ![w].replies = IF full THEN @ ELSE <<reply>>,
                        ![w].channel = ~(full \/ Dies(req, reply)),
                        ![w].socket  = IF full \/ Dies(req, reply) THEN << >> ELSE Tail(@)]
    BY DEF Handle
<1>1. /\ worker[w] \in WorkerRecords /\ worker[w].socket # << >>
      /\ worker[w].socket \in Seq(Jobs \cup {Load}) /\ worker[w].replies \in Seq(Replies)
      /\ UNCHANGED <<up, queue, content, answers, klee>>
    BY WorkerFields DEF Handle, WorkerRecords
<1>2. req \in Jobs \cup {Load} /\ (req # Load => Started(req))
    <2>1. 1 \in DOMAIN worker[w].socket /\ worker[w].socket[1] = req /\ req \in Jobs \cup {Load}
        BY <1>1
    <2> HIDE DEF req
    <2> QED
        BY <2>1, WorkerFields
<1>3. /\ reply \in Replies
      /\ \A p \in reply.predictions : Started(p.job) /\ content[p.job] = "whole"
    BY <1>0, <1>2, OutcomesKnown DEF QueryInv
<1> DEFINE replies == IF full THEN worker[w].replies ELSE <<reply>>
           close == full \/ Dies(req, reply)
           socket == IF close THEN << >> ELSE Tail(worker[w].socket)
           r == [worker[w] EXCEPT !.replies = replies, !.channel = ~close, !.socket = socket]
<1>4. /\ replies \in Seq(Replies)
      /\ \A i \in DOMAIN replies : \A p \in replies[i].predictions :
            Started(p.job) /\ (Open(p.job) => content[p.job] = "whole")
    <2>1. CASE full
        BY <1>1, <2>1, WorkerFields
    <2>2. CASE ~full
        <3>1. replies = <<reply>>
            BY <2>2
        <3>2. <<reply>> \in Seq(Replies) /\ DOMAIN <<reply>> = {1} /\ <<reply>>[1] = reply
            BY <1>3
        <3> HIDE DEF replies
        <3> QED
            BY <1>3, <3>1, <3>2
    <2> QED
        BY <2>1, <2>2
<1>5. /\ socket \in Seq(Jobs \cup {Load})
      /\ \A i \in DOMAIN socket : socket[i] # Load => Started(socket[i])
    <2>1. CASE close
        <3>1. socket = << >>
            BY <2>1
        <3> HIDE DEF socket
        <3> QED
            BY <3>1, EmptySocket
    <2>2. CASE ~close
        <3>1. socket = Tail(worker[w].socket)
            BY <2>2
        <3>2. \A i \in DOMAIN worker[w].socket : worker[w].socket[i] # Load => Started(worker[w].socket[i])
            BY WorkerFields
        <3> HIDE DEF socket
        <3>3. socket \in Seq(Jobs \cup {Load})
            BY <1>1, <3>1
        <3>4. \A i \in DOMAIN socket : i + 1 \in DOMAIN worker[w].socket /\ socket[i] = worker[w].socket[i + 1]
            BY <1>1, <3>1
        <3> QED
            BY <3>2, <3>3, <3>4
    <2> QED
        BY <2>1, <2>2
<1>6. worker' = [worker EXCEPT ![w] = r]
    BY <1>0
<1>7. (~close) \in BOOLEAN
    OBVIOUS
<1> HIDE DEF replies, close, socket, full
<1>8. /\ r \in WorkerRecords /\ r.jobs = worker[w].jobs /\ r.req = worker[w].req
      /\ r.socket = socket /\ r.replies = replies /\ r.thread = worker[w].thread
    <2> DEFINE channel == ~close
    <2>1. channel \in BOOLEAN /\ r = [worker[w] EXCEPT !.replies = replies, !.channel = channel, !.socket = socket]
        BY <1>7
    <2> HIDE DEF channel, r
    <2> QED
        BY <1>1, <1>4, <1>5, <2>1 DEF WorkerRecords
<1> HIDE DEF r
<1> QED
    BY <1>1, <1>4, <1>5, <1>6, <1>8, WorkerFields, WorkerKeepsRequest

(***************************************************************************)
(* A worker answers the request at hand, or drops it, and forgets it.      *)
(***************************************************************************)
LEMMA WorkerEndsRequest ==
    ASSUME QueryInv, up, UNCHANGED <<up, queue, content, klee>>,
           NEW w \in Workers, NEW r \in WorkerRecords, worker' = [worker EXCEPT ![w] = r],
           r.jobs = {}, r.req = None,
           r.socket = worker[w].socket \/ r.socket = << >>,
           r.replies = worker[w].replies \/ r.replies = << >>,
           answers' \in [Jobs -> Seq(Responses)],
           \A j \in Jobs : \/ answers'[j] = answers[j]
                           \/ /\ j \in worker[w].jobs
                              /\ \E a \in Responses :
                                    /\ answers'[j] = Append(answers[j], a)
                                    /\ a.kind = "prediction" => a.job = j /\ (Open(j) => content[j] = "whole")
    PROVE  QueryInv'
<1>1. worker \in [Workers -> WorkerRecords] /\ worker' \in [Workers -> WorkerRecords]
    BY WorkerType DEF QueryInv
<1>2. \A v \in Workers : worker'[v] = IF v = w THEN r ELSE worker[v]
    BY <1>1
<1>3. \A j : Open(j)' = Open(j) /\ Started(j)' = Started(j) /\ Queued(j)' = Queued(j)
    BY DEF Open, Started, CurrentJob, Queued
<1>4. \A j : Held(j)' = Held(j) \ {w}
    BY <1>2 DEF Held
<1>5. ServerTypeOK'
    BY <1>1 DEF QueryInv, ServerTypeOK, WorkerRecords
<1>6. WorkersHoldOne'
    <2> SUFFICES ASSUME NEW v \in Workers
                 PROVE  /\ worker'[v].jobs = IF worker'[v].req = None THEN {} ELSE {worker'[v].req}
                        /\ worker'[v].thread \in {"scheduled", "polling", "dead"} => worker'[v].req = None
        BY DEF WorkersHoldOne
    <2>1. CASE v = w
        BY <1>2, <2>1
    <2>2. CASE v # w
        <3>1. worker'[v] = worker[v]
            BY <1>2, <2>2
        <3>2. /\ worker[v].jobs = IF worker[v].req = None THEN {} ELSE {worker[v].req}
              /\ worker[v].thread \in {"scheduled", "polling", "dead"} => worker[v].req = None
            BY WorkerFields
        <3> QED
            BY <3>1, <3>2
    <2> QED
        BY <2>1, <2>2
<1>7. RepliesAreKnown'
    <2> SUFFICES ASSUME NEW v \in Workers
                 PROVE  /\ \A i \in DOMAIN worker'[v].socket :
                              worker'[v].socket[i] # Load => Started(worker'[v].socket[i])
                        /\ \A i \in DOMAIN worker'[v].replies : \A p \in worker'[v].replies[i].predictions :
                              Started(p.job) /\ (Open(p.job) => content[p.job] = "whole")
        BY <1>3 DEF RepliesAreKnown, Started, Open, CurrentJob
    <2>1. /\ worker'[v].socket = worker[v].socket \/ worker'[v].socket = << >>
          /\ worker'[v].replies = worker[v].replies \/ worker'[v].replies = << >>
        BY <1>2
    <2>2. /\ \A i \in DOMAIN worker[v].socket : worker[v].socket[i] # Load => Started(worker[v].socket[i])
          /\ \A i \in DOMAIN worker[v].replies : \A p \in worker[v].replies[i].predictions :
                Started(p.job) /\ (Open(p.job) => content[p.job] = "whole")
        BY WorkerFields
    <2>3. \A i \in DOMAIN worker'[v].socket :
              worker'[v].socket[i] # Load => Started(worker'[v].socket[i])
        BY <2>1, <2>2, EmptySocket
    <2>4. \A i \in DOMAIN worker'[v].replies : \A p \in worker'[v].replies[i].predictions :
              Started(p.job) /\ (Open(p.job) => content[p.job] = "whole")
        BY <2>1, <2>2, EmptySocket
    <2> QED
        BY <2>3, <2>4
<1>8. ASSUME NEW j \in Jobs
      PROVE  /\ Len(answers'[j]) <= 1
             /\ answers'[j] # << >> => Queued(j) = {} /\ Held(j) \ {w} = {}
             /\ ~Open(j) => answers'[j] = << >>
             /\ answers'[j] # answers[j] => w \in Held(j)
             /\ \A i \in DOMAIN answers'[j] : answers'[j][i].kind = "prediction" =>
                   answers'[j][i].job = j /\ content[j] = "whole"
    <2>1. answers[j] \in Seq(Responses)
        BY DEF QueryInv, ServerTypeOK
    <2>2. /\ Len(answers[j]) <= 1
          /\ \A v1, v2 \in Held(j) : v1 = v2
          /\ answers[j] # << >> => Queued(j) = {} /\ Held(j) = {}
          /\ Queued(j) # {} => Held(j) = {}
          /\ ~Open(j) => answers[j] = << >> /\ Queued(j) = {} /\ Held(j) = {}
        BY DEF QueryInv, AnsweredOnce
    <2>3. \A i \in DOMAIN answers[j] : answers[j][i].kind = "prediction" =>
              answers[j][i].job = j /\ content[j] = "whole"
        BY DEF QueryInv, PredictionsAreOwn
    <2>4. CASE answers'[j] = answers[j]
        BY <2>2, <2>3, <2>4
    <2>5. CASE answers'[j] # answers[j]
        <3> PICK a \in Responses : 
                /\ j \in worker[w].jobs
                /\ answers'[j] = Append(answers[j], a)
                /\ a.kind = "prediction" => a.job = j /\ (Open(j) => content[j] = "whole")
            BY <2>5
        <3>1. w \in Held(j)
            BY DEF Held
        <3>2. answers[j] = << >> /\ Queued(j) = {} /\ Held(j) = {w} /\ Open(j)
            BY <2>2, <3>1
        <3>3. answers'[j] = <<a>> 
            BY <3>2
        <3>4. Len(answers'[j]) = 1 /\ \A i \in DOMAIN answers'[j] : answers'[j][i] = a
            BY <3>3
        <3> QED
            BY <3>1, <3>2, <3>4
    <2> QED
        BY <2>4, <2>5
<1>9. AnsweredOnce'
    BY <1>3, <1>4, <1>8 DEF QueryInv, AnsweredOnce
<1>10. UnsentAreNowhere'
    BY <1>3, <1>4, <1>8 DEF QueryInv, UnsentAreNowhere
<1>11. PredictionsAreOwn' /\ MergedIfAnswered'
    BY <1>8 DEF QueryInv, PredictionsAreOwn, MergedIfAnswered
<1> QED
    BY <1>5, <1>6, <1>7, <1>9, <1>10, <1>11 DEF QueryInv

(* A reply is an error, or has one prediction, or is that to a load.  What  *)
(* is appended to the answers of the request at hand is its own.           *)
LEMMA ReceiveKeeps == ASSUME QueryInv, NEW w \in Workers, Receive(w), UNCHANGED klee PROVE QueryInv'
<1> DEFINE reply == Head(worker[w].replies)
<1>1. /\ worker[w] \in WorkerRecords /\ worker[w].replies # << >> /\ worker[w].thread = "waiting"
      /\ worker[w].replies \in Seq(Replies) /\ up /\ UNCHANGED <<up, queue, content, klee>>
    BY WorkerFields DEF Receive, WorkerRecords
<1>2. /\ reply \in Replies
      /\ \A p \in reply.predictions : Started(p.job) /\ (Open(p.job) => content[p.job] = "whole")
    <2>1. 1 \in DOMAIN worker[w].replies /\ worker[w].replies[1] = reply /\ reply \in Replies
        BY <1>1
    <2> HIDE DEF reply
    <2> QED
        BY <2>1, WorkerFields
<1>3. CASE ~Expected(w, reply)
    <2> DEFINE r == [worker[w] EXCEPT !.replies = << >>, !.thread = "stopping"]
    <2>1. worker' = [worker EXCEPT ![w] = r] /\ UNCHANGED answers
        BY <1>3 DEF Receive
    <2>2. << >> \in Seq(Replies)
        OBVIOUS
    <2>3. /\ r \in WorkerRecords /\ r.jobs = worker[w].jobs /\ r.req = worker[w].req
          /\ r.socket = worker[w].socket /\ r.replies = << >> /\ r.thread = "stopping"
        BY <1>1, <2>2 DEF WorkerRecords
    <2> HIDE DEF r
    <2> QED
        BY <1>1, <2>1, <2>3, EmptySocket, WorkerFields, WorkerKeepsRequest
<1>4. CASE Expected(w, reply)
    <2> DEFINE r == AfterReply(w, reply)
    <2>1. worker' = [worker EXCEPT ![w] = r] /\ answers' = Answered(w, reply)
        BY <1>4 DEF Receive
    <2>2. << >> \in Seq(Replies)
        OBVIOUS
    <2>3. /\ r \in WorkerRecords /\ r.jobs = {} /\ r.req = None
          /\ r.socket = worker[w].socket /\ r.replies = << >> /\ r.thread = "polling"
        BY <1>1, <2>2 DEF WorkerRecords, AfterReply
    <2>4. answers \in [Jobs -> Seq(Responses)] /\ reply.code \in {200, 503, 507}
          /\ reply.predictions \subseteq {Prediction(j, p) : j \in Jobs, p \in Likelihoods}
        BY <1>2 DEF QueryInv, ServerTypeOK, Replies
    <2>5. worker[w].jobs = {} \/ \E q : worker[w].jobs = {q}
        BY WorkerFields
    <2> HIDE DEF r, reply
    <2>6. CASE reply.code # 200
        <3> DEFINE a == Error(Status(reply.code))
        <3>1. a \in Responses /\ a.kind = "error"
            BY <2>4, <2>6 DEF Responses, Errors, Error, Status
        <3>2. answers' = [j \in Jobs |-> IF j \in worker[w].jobs THEN Append(answers[j], a) ELSE answers[j]]
            BY <2>1, <2>6 DEF Answered, Respond
        <3> HIDE DEF a
        <3>3. answers' \in [Jobs -> Seq(Responses)]
            BY <2>4, <3>1, <3>2
        <3>4. \A j \in Jobs : answers'[j] = IF j \in worker[w].jobs THEN Append(answers[j], a) ELSE answers[j]
            BY <3>2
        <3> QED
            BY <1>1, <2>1, <2>3, <3>1, <3>3, <3>4, WorkerEndsRequest
    <2>7. CASE reply.code = 200 /\ reply.predictions # {}
        <3> DEFINE a == CHOOSE p \in reply.predictions : TRUE
        <3>1. a \in reply.predictions
            BY <2>7
        <3>2. answers' = [j \in Jobs |-> IF j \in worker[w].jobs THEN Append(answers[j], a) ELSE answers[j]]
            BY <2>1, <2>7 DEF Answered
        <3> HIDE DEF a
        <3>3. a \in Responses
            BY <2>4, <3>1 DEF Responses
        <3>4. a.job \in worker[w].jobs
            BY <1>4, <2>7, <3>1 DEF Expected
        <3>5. \A j \in worker[w].jobs : a.job = j /\ (Open(j) => content[j] = "whole")
            BY <1>2, <2>5, <3>1, <3>4
        <3>6. answers' \in [Jobs -> Seq(Responses)]
            BY <2>4, <3>2, <3>3
        <3>7. \A j \in Jobs : answers'[j] = IF j \in worker[w].jobs THEN Append(answers[j], a) ELSE answers[j]
            BY <3>2
        <3> QED
            BY <1>1, <2>1, <2>3, <3>3, <3>5, <3>6, <3>7, WorkerEndsRequest
    <2>8. CASE reply.code = 200 /\ reply.predictions = {}
        <3>1. answers' = [j \in Jobs |-> answers[j]]
            BY <2>1, <2>8 DEF Answered
        <3>2. answers' \in [Jobs -> Seq(Responses)] /\ \A j \in Jobs : answers'[j] = answers[j]
            BY <2>4, <3>1
        <3> QED
            BY <1>1, <2>1, <2>3, <3>2, WorkerEndsRequest
    <2> QED
        BY <2>6, <2>7, <2>8
<1> QED
    BY <1>3, <1>4

(* The thread that gives up answers the request at hand with an error. *)
LEMMA StopKeeps == ASSUME QueryInv, NEW w \in Workers, Stop(w), UNCHANGED klee PROVE QueryInv'
<1> DEFINE r == [worker[w] EXCEPT !.thread = "scheduled", !.state = "STOPPED", !.channel = FALSE,
                                  !.req = None, !.jobs = {}, !.socket = << >>]
<1>1. /\ worker[w] \in WorkerRecords /\ up /\ UNCHANGED <<up, queue, content, klee>>
      /\ worker' = [worker EXCEPT ![w] = r]
    <2>1. worker[w] \in WorkerRecords
        BY WorkerFields
    <2>2. worker' = [worker EXCEPT ![w].thread = "scheduled", ![w].state = "STOPPED",
                                   ![w].channel = FALSE, ![w].req = None, ![w].jobs = {},
                                   ![w].socket = << >>]
        BY Zenon DEF Stop
    <2>3. worker' = [worker EXCEPT ![w] = r]
        BY <2>1, <2>2 DEF WorkerRecords
    <2> QED
        BY <2>1, <2>3 DEF Stop
<1>2. << >> \in Seq(Jobs \cup {Load})
    OBVIOUS
<1>3. /\ r \in WorkerRecords /\ r.jobs = {} /\ r.req = None
      /\ r.socket = << >> /\ r.replies = worker[w].replies
    BY <1>1, <1>2 DEF WorkerRecords
<1>4. PICK status \in {500, 413} :
          answers' = IF worker[w].req \in Jobs
                     THEN Respond(answers, worker[w].jobs \cap {worker[w].req}, Error(Status(status)))
                     ELSE answers
    BY DEF Stop
<1>5. answers \in [Jobs -> Seq(Responses)]
    BY DEF QueryInv, ServerTypeOK
<1> HIDE DEF r
<1>6. CASE worker[w].req \notin Jobs
    <2>1. answers' = answers
        BY <1>4, <1>6
    <2> QED
        BY <1>1, <1>3, <1>5, <2>1, WorkerEndsRequest
<1>7. CASE worker[w].req \in Jobs
    <2> DEFINE a == Error(Status(status))
               J == worker[w].jobs \cap {worker[w].req}
    <2>1. a \in Responses /\ a.kind = "error"
        BY DEF Responses, Errors, Error, Status
    <2>2. answers' = [j \in Jobs |-> IF j \in J THEN Append(answers[j], a) ELSE answers[j]]
        BY <1>4, <1>7 DEF Respond
    <2>3. J \subseteq worker[w].jobs
        OBVIOUS
    <2> HIDE DEF a, J
    <2>4. answers' \in [Jobs -> Seq(Responses)]
        BY <1>5, <2>1, <2>2
    <2>5. \A j \in Jobs : answers'[j] = IF j \in J THEN Append(answers[j], a) ELSE answers[j]
        BY <2>2
    <2> QED
        <3>1. \A j \in Jobs : \/ answers'[j] = answers[j]
                              \/ j \in worker[w].jobs /\ answers'[j] = Append(answers[j], a)
            <4> SUFFICES ASSUME NEW j \in Jobs, answers'[j] # answers[j]
                         PROVE  j \in worker[w].jobs /\ answers'[j] = Append(answers[j], a)
                OBVIOUS
            <4>1. j \in J
                BY <2>5
            <4> QED
                BY <2>3, <2>5, <4>1
        <3>2. a.kind # "prediction"
            BY <2>1
        <3>3. \A j \in Jobs :
                 \/ answers'[j] = answers[j]
                 \/ /\ j \in worker[w].jobs
                    /\ \E b \in Responses :
                          /\ answers'[j] = Append(answers[j], b)
                          /\ b.kind = "prediction" => b.job = j /\ (Open(j) => content[j] = "whole")
            BY <2>1, <3>1, <3>2, Zenon
        <3> QED
            BY <1>1, <1>3, <2>4, <3>3, WorkerEndsRequest
<1> QED
    BY <1>6, <1>7

(* A worker that held no request takes one up: a load command of its own,  *)
(* or the first in the queue.                                              *)
LEMMA WorkerTakesRequest ==
    ASSUME QueryInv, up, UNCHANGED <<up, content, answers, klee>>,
           NEW w \in Workers, NEW r \in WorkerRecords, worker' = [worker EXCEPT ![w] = r],
           worker[w].jobs = {}, NEW req \in Jobs \cup {Load}, r.req = req, r.jobs = {req},
           r.thread \in {"waiting", "stopping"}, r.replies = worker[w].replies,
           r.socket = worker[w].socket \/ r.socket = Append(worker[w].socket, req),
           \/ req = Load /\ queue' = queue
           \/ queue # << >> /\ req = Head(queue) /\ queue' = Tail(queue)
    PROVE  QueryInv'
<1>1. worker \in [Workers -> WorkerRecords] /\ worker' \in [Workers -> WorkerRecords]
    BY WorkerType DEF QueryInv
<1>2. \A v \in Workers : worker'[v] = IF v = w THEN r ELSE worker[v]
    BY <1>1
<1>3. \A j : Open(j)' = Open(j) /\ Started(j)' = Started(j)
    BY DEF Open, Started, CurrentJob
<1>4. \A j \in Jobs : Held(j)' = IF j = req THEN Held(j) \cup {w} ELSE Held(j)
    BY <1>2 DEF Held
<1>5. queue \in Seq(Jobs) /\ queue' \in Seq(Jobs)
    <2>1. queue \in Seq(Jobs)
        BY DEF QueryInv, ServerTypeOK
    <2> QED
        BY <2>1
<1>6. ServerTypeOK'
    BY <1>1, <1>5 DEF QueryInv, ServerTypeOK, WorkerRecords
<1>7. ASSUME NEW j \in Jobs
      PROVE  /\ Len(answers[j]) <= 1
             /\ \A i, k \in Queued(j) : i = k
             /\ \A v1, v2 \in Held(j) : v1 = v2
             /\ answers[j] # << >> => Queued(j) = {} /\ Held(j) = {}
             /\ Queued(j) # {} => Held(j) = {}
             /\ ~Open(j) => answers[j] = << >> /\ Queued(j) = {} /\ Held(j) = {}
             /\ Open(j) /\ klee[j[1]].res # None => answers[j] = << >> /\ Queued(j) = {} /\ Held(j) = {}
    BY DEF QueryInv, AnsweredOnce, UnsentAreNowhere
<1>8. \A j \in Jobs : /\ \A i, k \in Queued(j)' : i = k
                      /\ Queued(j) = {} => Queued(j)' = {}
                      /\ j = req => 1 \in Queued(j) /\ Queued(j)' = {}
    <2>1. CASE req = Load
        <3>1. queue' = queue
            <4>1. queue # << >> => Head(queue) \in Jobs
                BY <1>5
            <4> QED
                BY <2>1, <4>1, ModelServerAssumption
        <3>2. \A j : Queued(j)' = Queued(j)
            BY <3>1 DEF Queued
        <3>3. \A j \in Jobs : j # req /\ \A i, k \in Queued(j) : i = k
            BY <1>7, <2>1, ModelServerAssumption
        <3> QED
            BY <3>2, <3>3
    <2>2. CASE req # Load
        <3>1. queue # << >> /\ req = Head(queue) /\ queue' = Tail(queue)
            BY <2>2
        <3>2. 1 \in DOMAIN queue /\ queue[1] = req
            BY <1>5, <3>1
        <3>3. \A i \in DOMAIN queue' : i + 1 \in DOMAIN queue /\ i + 1 # 1 /\ queue'[i] = queue[i + 1] /\ i \in Nat
            BY <1>5, <3>1
        <3>4. \A j \in Jobs : \A i \in Queued(j)' : i + 1 \in Queued(j) /\ i + 1 # 1 /\ i \in Nat
            BY <3>3 DEF Queued
        <3>5. \A j \in Jobs : j = req => 1 \in Queued(j)
            BY <3>2 DEF Queued
        <3>6. \A j \in Jobs : \A i, k \in Queued(j)' : i = k
            <4> TAKE j \in Jobs
            <4> TAKE i, k \in Queued(j)'
            <4>1. i + 1 = k + 1
                BY <1>7, <3>4
            <4> QED
                BY <3>4, <4>1
        <3>7. \A j \in Jobs : j = req => Queued(j)' = {}
            BY <1>7, <3>4, <3>5
        <3> QED
            BY <3>4, <3>5, <3>6, <3>7
    <2> QED
        BY <2>1, <2>2
<1>9. AnsweredOnce'
    <2> SUFFICES ASSUME NEW j \in Jobs
                 PROVE  /\ Len(answers[j]) <= 1
                        /\ \A i, k \in Queued(j)' : i = k
                        /\ \A v1, v2 \in Held(j)' : v1 = v2
                        /\ answers[j] # << >> => Queued(j)' = {} /\ Held(j)' = {}
                        /\ Queued(j)' # {} => Held(j)' = {}
                        /\ ~Open(j) => answers[j] = << >> /\ Queued(j)' = {} /\ Held(j)' = {}
        BY <1>3 DEF AnsweredOnce
    <2>1. CASE j # req
        <3>1. Held(j)' = Held(j)
            BY <1>4, <2>1
        <3> QED
            BY <1>7, <1>8, <3>1
    <2>2. CASE j = req
        <3>1. /\ Held(j)' = Held(j) \cup {w} /\ 1 \in Queued(j) /\ Queued(j)' = {}
            BY <1>4, <1>8, <2>2
        <3> QED
            BY <1>7, <3>1
    <2> QED
        BY <2>1, <2>2
<1>10. UnsentAreNowhere'
    <2> SUFFICES ASSUME NEW j \in Jobs, Open(j) /\ klee[j[1]].res # None
                 PROVE  answers[j] = << >> /\ Queued(j)' = {} /\ Held(j)' = {}
        BY <1>3 DEF UnsentAreNowhere
    <2> QED
        BY <1>4, <1>7, <1>8
<1>11. PredictionsAreOwn' /\ MergedIfAnswered'
    BY DEF QueryInv, PredictionsAreOwn, MergedIfAnswered
<1>12. WorkersHoldOne'
    <2> SUFFICES ASSUME NEW v \in Workers
                 PROVE  /\ worker'[v].jobs = IF worker'[v].req = None THEN {} ELSE {worker'[v].req}
                        /\ worker'[v].thread \in {"scheduled", "polling", "dead"} => worker'[v].req = None
        BY DEF WorkersHoldOne
    <2>1. CASE v = w
        BY <1>2, <2>1, ModelServerAssumption
    <2>2. CASE v # w
        <3>1. worker'[v] = worker[v]
            BY <1>2, <2>2
        <3>2. /\ worker[v].jobs = IF worker[v].req = None THEN {} ELSE {worker[v].req}
              /\ worker[v].thread \in {"scheduled", "polling", "dead"} => worker[v].req = None
            BY WorkerFields
        <3> QED
            BY <3>1, <3>2
    <2> QED
        BY <2>1, <2>2
<1>13. req # Load => Started(req)
    <2> HAVE req # Load
    <2>1. req \in Jobs /\ Open(req)
        BY <1>7, <1>8
    <2>2. klee[req[1]].queries \in 0 .. MaxQueries
        BY <2>1, JobFields DEF QueryInv, ServerTypeOK
    <2>3. req[2] = klee[req[1]].queries
        BY <2>1 DEF Open, CurrentJob
    <2> QED
        BY <2>2, <2>3 DEF Started
<1>14. RepliesAreKnown'
    <2> SUFFICES ASSUME NEW v \in Workers
                 PROVE  /\ \A i \in DOMAIN worker'[v].socket :
                              worker'[v].socket[i] # Load => Started(worker'[v].socket[i])
                        /\ \A i \in DOMAIN worker'[v].replies : \A p \in worker'[v].replies[i].predictions :
                              Started(p.job) /\ (Open(p.job) => content[p.job] = "whole")
        BY <1>3 DEF RepliesAreKnown, Started, Open, CurrentJob
    <2>1. /\ worker'[v].socket = worker[v].socket \/ worker'[v].socket = Append(worker[v].socket, req)
          /\ worker'[v].replies = worker[v].replies
        BY <1>2
    <2>2. /\ \A i \in DOMAIN worker[v].socket : worker[v].socket[i] # Load => Started(worker[v].socket[i])
          /\ \A i \in DOMAIN worker[v].replies : \A p \in worker[v].replies[i].predictions :
                Started(p.job) /\ (Open(p.job) => content[p.job] = "whole")
          /\ worker[v].socket \in Seq(Jobs \cup {Load})
        BY WorkerFields DEF WorkerRecords
    <2>3. \A i \in DOMAIN worker'[v].socket :
              worker'[v].socket[i] # Load => Started(worker'[v].socket[i])
        <3>1. CASE worker'[v].socket = worker[v].socket
            BY <2>2, <3>1
        <3>2. CASE worker'[v].socket = Append(worker[v].socket, req)
            <4>1. \A i \in DOMAIN worker'[v].socket :
                      \/ i \in DOMAIN worker[v].socket /\ worker'[v].socket[i] = worker[v].socket[i]
                      \/ worker'[v].socket[i] = req
                BY <2>2, <3>2
            <4> QED
                BY <1>13, <2>2, <4>1
        <3> QED
            BY <2>1, <3>1, <3>2
    <2> QED
        BY <2>1, <2>2, <2>3
<1> QED
    BY <1>6, <1>9, <1>10, <1>11, <1>12, <1>14 DEF QueryInv

(* The thread takes a control command or a job. *)
LEMMA PollKeeps == ASSUME QueryInv, NEW w \in Workers, Poll(w), UNCHANGED klee PROVE QueryInv'
<1>1. /\ worker[w] \in WorkerRecords /\ worker[w].jobs = {}
      /\ up /\ UNCHANGED <<up, content, answers, klee>>
    <2>1. worker[w].thread = "polling"
        BY DEF Poll
    <2> QED
        BY <2>1, WorkerFields DEF Poll
<1>2. ASSUME NEW control \in Seq({Load}), NEW req \in Jobs \cup {Load}, Send(w, control, req),
             \/ req = Load /\ queue' = queue
             \/ queue # << >> /\ req = Head(queue) /\ queue' = Tail(queue)
      PROVE  QueryInv'
    <2> DEFINE thread == IF worker[w].channel THEN "waiting" ELSE "stopping"
               socket == IF worker[w].channel THEN Append(worker[w].socket, req) ELSE worker[w].socket
               r == [worker[w] EXCEPT !.control = control, !.req = req, !.jobs = {req},
                                      !.thread = thread, !.socket = socket]
    <2>1. worker' = [worker EXCEPT ![w] = r]
        BY <1>1, <1>2 DEF Send, WorkerRecords
    <2>2. worker[w].socket \in Seq(Jobs \cup {Load})
        BY <1>1 DEF WorkerRecords
    <2>3. thread \in {"waiting", "stopping"} /\ socket \in Seq(Jobs \cup {Load})
        BY <2>2
    <2>4. socket = worker[w].socket \/ socket = Append(worker[w].socket, req)
        OBVIOUS
    <2> HIDE DEF thread, socket
    <2>5. /\ r \in WorkerRecords /\ r.jobs = {req} /\ r.req = req /\ r.thread = thread
          /\ r.socket = socket /\ r.replies = worker[w].replies
        BY <1>1, <2>3 DEF WorkerRecords
    <2> HIDE DEF r
    <2> QED
        BY <1>1, <1>2, <2>1, <2>3, <2>4, <2>5, WorkerTakesRequest
<1>3. worker[w].control \in Seq({Load})
    BY <1>1 DEF WorkerRecords
<1>4. queue \in Seq(Jobs)
    BY DEF QueryInv, ServerTypeOK
<1>5. CASE worker[w].control # << >>
    <2>1. Send(w, Tail(worker[w].control), Head(worker[w].control)) /\ UNCHANGED queue
        BY <1>5 DEF Poll
    <2>2. Tail(worker[w].control) \in Seq({Load}) /\ Head(worker[w].control) = Load
        BY <1>3, <1>5
    <2> QED
        BY <1>2, <2>1, <2>2
<1>6. CASE worker[w].control = << >>
    <2>1. queue # << >> /\ Send(w, worker[w].control, Head(queue)) /\ queue' = Tail(queue)
        BY <1>6 DEF Poll
    <2>2. Head(queue) \in Jobs
        BY <1>4, <2>1
    <2> QED
        BY <1>2, <1>3, <2>1, <2>2
<1> QED
    BY <1>5, <1>6

(***************************************************************************)
(* The KLEE processes.                                                     *)
(***************************************************************************)
KleeRecords ==
    [pc : {"running", "waiting"}, queries : 0 .. MaxQueries,
     res : Responses \cup {None, Nothing}, decision : BOOLEAN \cup {None}]

(* The fields of a KLEE process. *)
LEMMA KleeFields ==
    ASSUME QueryInv, NEW c \in Processes
    PROVE  /\ klee \in [Processes -> KleeRecords] /\ klee[c] \in KleeRecords
           /\ klee[c].queries \in 0 .. MaxQueries
           /\ klee[c].pc = "waiting" => klee[c].queries > 0
           /\ klee[c].res \in Responses \cup {None, Nothing}
<1>1. klee \in [Processes -> KleeRecords]
    BY DEF QueryInv, ServerTypeOK, KleeRecords
<1>2. klee[c] \in KleeRecords
    BY <1>1
<1> QED
    BY <1>1, <1>2 DEF QueryInv, ServerTypeOK, KleeRecords

(* What a query with the request k does to the KLEE process. *)
Opens(c, k, res) ==
    /\ klee[c].pc = "running" /\ klee[c].queries < MaxQueries
    /\ k = <<c, klee[c].queries + 1>>
    /\ klee' = [klee EXCEPT ![c] = [pc |-> "waiting", queries |-> klee[c].queries + 1,
                                    decision |-> None, res |-> res]]

(* A new query opens a request that the server has never seen. *)
LEMMA QueryOpens ==
    ASSUME QueryInv, NEW c \in Processes, NEW res \in {None, Nothing}, NEW k, Opens(c, k, res)
    PROVE  /\ k \in Jobs /\ ~Started(k) /\ Started(k)'
           /\ \A j \in Jobs : j = k => ~Open(j) /\ Open(j)'
           /\ \A j \in Jobs : j # k => (Open(j)' = Open(j) /\ (Open(j) => klee'[j[1]] = klee[j[1]]))
           /\ \A j \in Jobs : Started(j) => Started(j)'
           /\ klee'[c].res = res
           /\ klee' \in [Processes -> KleeRecords]
           /\ \A d \in Processes : klee'[d].pc = "waiting" => klee'[d].queries > 0
           /\ MergedIfAnswered'
<1> DEFINE n == klee[c].queries + 1
           r == [pc |-> "waiting", queries |-> n, decision |-> None, res |-> res]
<1>0. klee[c].pc = "running" /\ klee[c].queries < MaxQueries /\ k = <<c, n>> /\ n = klee[c].queries + 1
    BY DEF Opens
<1>1. klee \in [Processes -> KleeRecords] /\ klee[c].queries \in 0 .. MaxQueries
    BY KleeFields
<1>2. n \in 1 .. MaxQueries /\ n = klee[c].queries + 1
    BY <1>0, <1>1, ModelQueryAssumption
<1>3. k \in Jobs /\ k[1] = c /\ k[2] = n
    BY <1>0, <1>2, ModelQueryAssumption
<1>4. n \in 0 .. MaxQueries /\ n > 0
    BY <1>2
<1>5. klee' = [klee EXCEPT ![c] = r]
    BY DEF Opens
<1>6. r \in KleeRecords /\ r.pc = "waiting" /\ r.queries = n /\ r.res = res
    BY <1>4 DEF KleeRecords
<1> HIDE DEF r, n
<1>7. \A d \in Processes : klee'[d] = IF d = c THEN r ELSE klee[d]
    BY <1>1, <1>5
<1>8. klee' \in [Processes -> KleeRecords]
    BY <1>1, <1>5, <1>6
<1>9. ~Started(k) /\ Started(k)' /\ klee'[c].res = res
    <2>1. klee'[c] = r
        BY <1>7
    <2> QED
        BY <1>1, <1>2, <1>3, <1>6, <2>1 DEF Started
<1>10. ~Open(k) /\ Open(k)'
    <2>1. klee'[c] = r
        BY <1>7
    <2> QED
        BY <1>0, <1>3, <1>6, <2>1 DEF Open, CurrentJob
<1>11. ASSUME NEW j \in Jobs, j # k
       PROVE  Open(j)' = Open(j) /\ (Open(j) => klee'[j[1]] = klee[j[1]])
    <2>1. j[1] \in Processes
        BY JobFields
    <2>2. CASE j[1] # c
        <3>1. klee'[j[1]] = klee[j[1]]
            BY <1>7, <2>1, <2>2
        <3> QED
            BY <3>1 DEF Open, CurrentJob
    <2>3. CASE j[1] = c
        <3>1. ~Open(j)
            BY <1>0, <2>3 DEF Open
        <3>2. klee'[j[1]] = r
            BY <1>7, <2>3
        <3>3. ~Open(j)'
            BY <1>0, <1>6, <1>11, <2>3, <3>2, JobFields DEF Open, CurrentJob
        <3> QED
            BY <3>1, <3>3 DEF Open
    <2> QED
        BY <2>2, <2>3
<1>12. ASSUME NEW j \in Jobs, Started(j)
       PROVE  Started(j)'
    <2>1. j[1] \in Processes /\ j[2] \in 1 .. MaxQueries
        BY JobFields
    <2>2. CASE j[1] # c
        BY <1>7, <1>12, <2>1, <2>2 DEF Started
    <2>3. CASE j[1] = c
        <3>1. klee'[j[1]].queries = n /\ j[2] <= klee[c].queries
            BY <1>6, <1>7, <1>12, <2>3 DEF Started
        <3> QED
            BY <1>1, <1>2, <2>1, <3>1 DEF Started
    <2> QED
        BY <2>2, <2>3
<1>13. \A d \in Processes : klee'[d].pc = "waiting" => klee'[d].queries > 0
    BY <1>4, <1>6, <1>7, KleeFields
<1>14. MergedIfAnswered'
    BY <1>6, <1>7 DEF QueryInv, MergedIfAnswered
<1> QED
    BY <1>3, <1>8, <1>9, <1>10, <1>11, <1>12, <1>13, <1>14

(* What the query does to the server: its request is queued, refused, or   *)
(* not sent.                                                               *)
ServerTakes(k, res) ==
    /\ UNCHANGED <<up, worker>>
    /\ content' \in [Jobs -> {None, "whole", "empty"}] /\ answers' \in [Jobs -> Seq(Responses)]
    /\ queue' \in Seq(Jobs)
    /\ \A j \in Jobs : j # k => content'[j] = content[j] /\ answers'[j] = answers[j]
                                /\ Queued(j)' = Queued(j)
    /\ up => /\ \A i, m \in Queued(k)' : i = m
             /\ res # None => answers'[k] = << >> /\ Queued(k)' = {}
             /\ \/ answers'[k] = << >>
                \/ Queued(k)' = {} /\ \E a \in Errors : answers'[k] = <<a>>
    /\ ~up => UNCHANGED <<content, answers>>

(* A request that the server has not seen can be queued or refused. *)
LEMMA QueryOpensKeeps ==
    ASSUME QueryInv, NEW c \in Processes, NEW res \in {None, Nothing}, NEW k,
           Opens(c, k, res), ServerTakes(k, res)
    PROVE  QueryInv'
<1>1. /\ k \in Jobs /\ ~Started(k) /\ Started(k)' /\ ~Open(k) /\ Open(k)'
      /\ \A j \in Jobs : j # k => (Open(j)' = Open(j) /\ (Open(j) => klee'[j[1]] = klee[j[1]]))
      /\ \A j \in Jobs : Started(j) => Started(j)'
      /\ klee'[c].res = res
      /\ klee' \in [Processes -> KleeRecords]
      /\ \A d \in Processes : klee'[d].pc = "waiting" => klee'[d].queries > 0
      /\ MergedIfAnswered'
    BY QueryOpens
<1>2. \A j : Held(j)' = Held(j)
    BY DEF Held, ServerTakes
<1>3. ServerTypeOK'
    BY <1>1 DEF QueryInv, ServerTypeOK, KleeRecords, ServerTakes
<1>4. WorkersHoldOne'
    BY DEF QueryInv, WorkersHoldOne, ServerTakes
<1>5. up => /\ Held(k)' = {}
            /\ Len(answers'[k]) <= 1
            /\ \A i \in DOMAIN answers'[k] : answers'[k][i].kind # "prediction"
    <2> HAVE up
    <2>1. Held(k)' = {}
        BY <1>1, <1>2 DEF QueryInv, AnsweredOnce
    <2>2. CASE answers'[k] = << >>
        <3>1. Len(<< >>) = 0 /\ DOMAIN << >> = {}
            OBVIOUS
        <3> QED
            BY <2>1, <2>2, <3>1
    <2>3. CASE \E a \in Errors : answers'[k] = <<a>>
        <3> PICK a \in Errors : answers'[k] = <<a>>
            BY <2>3
        <3>1. a.kind = "error"
            BY DEF Errors, Error
        <3>2. Len(<<a>>) = 1 /\ DOMAIN <<a>> = {1} /\ <<a>>[1] = a
            OBVIOUS
        <3> QED
            BY <2>1, <3>1, <3>2
    <2> QED
        BY <2>2, <2>3 DEF ServerTakes
<1>6. AnsweredOnce'
    <2> SUFFICES ASSUME up, NEW j \in Jobs
                 PROVE  /\ Len(answers'[j]) <= 1
                        /\ \A i, m \in Queued(j)' : i = m
                        /\ \A v, w \in Held(j)' : v = w
                        /\ answers'[j] # << >> => Queued(j)' = {} /\ Held(j)' = {}
                        /\ Queued(j)' # {} => Held(j)' = {}
                        /\ ~Open(j)' => answers'[j] = << >> /\ Queued(j)' = {} /\ Held(j)' = {}
        BY DEF AnsweredOnce, ServerTakes
    <2>1. CASE j = k
        BY <1>1, <1>5, <2>1 DEF ServerTakes
    <2>2. CASE j # k
        <3>1. answers'[j] = answers[j] /\ Queued(j)' = Queued(j) /\ Open(j)' = Open(j)
            BY <1>1, <2>2 DEF ServerTakes
        <3> QED
            BY <1>2, <3>1 DEF QueryInv, AnsweredOnce
    <2> QED
        BY <2>1, <2>2
<1>7. UnsentAreNowhere'
    <2> SUFFICES ASSUME up, NEW j \in Jobs, Open(j)', klee'[j[1]].res # None
                 PROVE  answers'[j] = << >> /\ Queued(j)' = {} /\ Held(j)' = {}
        BY DEF UnsentAreNowhere, ServerTakes
    <2>1. CASE j = k
        <3>1. j[1] = c
            BY <2>1 DEF Opens
        <3> QED
            BY <1>1, <1>5, <2>1, <3>1 DEF ServerTakes
    <2>2. CASE j # k
        <3>1. answers'[j] = answers[j] /\ Queued(j)' = Queued(j) /\ Open(j) /\ klee[j[1]].res # None
            BY <1>1, <2>2 DEF ServerTakes
        <3> QED
            BY <1>2, <3>1 DEF QueryInv, UnsentAreNowhere
    <2> QED
        BY <2>1, <2>2
<1>8. RepliesAreKnown'
    <2> SUFFICES ASSUME NEW w \in Workers
                 PROVE  /\ \A i \in DOMAIN worker[w].socket :
                              worker[w].socket[i] # Load => Started(worker[w].socket[i])'
                        /\ \A i \in DOMAIN worker[w].replies : \A p \in worker[w].replies[i].predictions :
                              Started(p.job)' /\ (Open(p.job)' => content'[p.job] = "whole")
        BY DEF RepliesAreKnown, Started, Open, CurrentJob, ServerTakes
    <2>1. \A i \in DOMAIN worker[w].socket : worker[w].socket[i] # Load => Started(worker[w].socket[i])'
        <3> SUFFICES ASSUME NEW s, s \in Jobs, Started(s)
                     PROVE  Started(s)'
            <4>1. worker[w].socket \in Seq(Jobs \cup {Load})
                BY WorkerFields DEF WorkerRecords
            <4>2. \A i \in DOMAIN worker[w].socket : worker[w].socket[i] \in Jobs \cup {Load}
                BY <4>1
            <4>3. \A i \in DOMAIN worker[w].socket : worker[w].socket[i] # Load => Started(worker[w].socket[i])
                BY WorkerFields
            <4> QED
                BY <4>2, <4>3 DEF Started, ServerTakes
        <3> QED
            BY <1>1
    <2>2. ASSUME NEW i \in DOMAIN worker[w].replies, NEW p \in worker[w].replies[i].predictions
          PROVE  Started(p.job)' /\ (Open(p.job)' => content'[p.job] = "whole")
        <3>1. worker[w].replies \in Seq(Replies)
            BY WorkerFields DEF WorkerRecords
        <3>2. worker[w].replies[i] \in Replies
            BY <3>1
        <3>3. p \in {Prediction(j, q) : j \in Jobs, q \in Likelihoods}
            BY <3>2 DEF Replies
        <3>4. p.job \in Jobs
            BY <3>3 DEF Prediction
        <3>5. Started(p.job) /\ (Open(p.job) => content[p.job] = "whole")
            BY WorkerFields
        <3>6. p.job # k
            BY <1>1, <3>5
        <3> QED
            BY <1>1, <3>4, <3>5, <3>6 DEF ServerTakes
    <2> QED
        BY <2>1, <2>2
<1>9. PredictionsAreOwn'
    <2> SUFFICES ASSUME NEW j \in Jobs, NEW i \in DOMAIN answers'[j], answers'[j][i].kind = "prediction"
                 PROVE  answers'[j][i].job = j /\ content'[j] = "whole"
        BY DEF PredictionsAreOwn
    <2>1. answers'[j] = answers[j] /\ content'[j] = content[j]
        BY <1>5 DEF ServerTakes
    <2> QED
        BY <2>1 DEF QueryInv, PredictionsAreOwn
<1> QED
    BY <1>1, <1>3, <1>4, <1>6, <1>7, <1>8, <1>9 DEF QueryInv

(* The server takes a request, or is too busy. *)
LEMMA AddJobKeeps ==
    ASSUME QueryInv, NEW c \in Processes, NEW k \in Jobs, ~Open(k), Opens(c, k, None),
           NEW doc \in {"whole", "empty"}, AddJob(k, doc)
    PROVE  QueryInv'
<1>1. /\ content \in [Jobs -> {None, "whole", "empty"}] /\ answers \in [Jobs -> Seq(Responses)]
      /\ queue \in Seq(Jobs)
    BY DEF QueryInv, ServerTypeOK
<1>2. up /\ UNCHANGED <<up, worker>> /\ content' = [content EXCEPT ![k] = doc]
    BY DEF AddJob
<1>3. answers[k] = << >> /\ Queued(k) = {}
    BY <1>2 DEF QueryInv, AnsweredOnce
<1>4. /\ content' \in [Jobs -> {None, "whole", "empty"}]
      /\ \A j \in Jobs : j # k => content'[j] = content[j]
    BY <1>1, <1>2
<1>5. CASE queue' = Append(queue, k) /\ UNCHANGED answers
    <2>1. /\ queue' \in Seq(Jobs)
          /\ DOMAIN queue' = DOMAIN queue \cup {Len(queue) + 1}
          /\ Len(queue) + 1 \notin DOMAIN queue
          /\ queue'[Len(queue) + 1] = k
          /\ \A i \in DOMAIN queue : queue'[i] = queue[i]
        BY <1>1, <1>5
    <2>2. \A j \in Jobs : j # k => Queued(j)' = Queued(j)
        BY <2>1 DEF Queued
    <2>3. Queued(k)' = {Len(queue) + 1}
        BY <1>3, <2>1 DEF Queued
    <2>4. ServerTakes(k, None)
        BY <1>1, <1>2, <1>3, <1>4, <1>5, <2>1, <2>2, <2>3 DEF ServerTakes
    <2> QED
        BY <2>4, QueryOpensKeeps
<1>6. CASE answers' = Respond(answers, {k}, Error(503)) /\ UNCHANGED queue
    <2> DEFINE a == Error(503)
    <2>1. a \in Errors /\ a \in Responses
        BY DEF Errors, Responses, Error
    <2>2. answers' = [j \in Jobs |-> IF j = k THEN Append(answers[j], a) ELSE answers[j]]
        BY <1>6 DEF Respond
    <2> HIDE DEF a
    <2>3. answers' \in [Jobs -> Seq(Responses)]
        BY <1>1, <2>1, <2>2
    <2>4. \A j \in Jobs : j # k => answers'[j] = answers[j]
        BY <2>2
    <2>5. answers'[k] = <<a>>
        <3>1. answers'[k] = Append(answers[k], a)
            BY <2>2
        <3>2. Append(<< >>, a) = <<a>>
            OBVIOUS
        <3> QED
            BY <1>3, <3>1, <3>2
    <2>6. \A j : Queued(j)' = Queued(j)
        BY <1>6 DEF Queued
    <2>7. ServerTakes(k, None)
        <3>1. Queued(k)' = {} /\ \E b \in Errors : answers'[k] = <<b>>
            BY <1>3, <2>1, <2>5, <2>6
        <3>2. \A j \in Jobs : j # k => content'[j] = content[j] /\ answers'[j] = answers[j]
                                       /\ Queued(j)' = Queued(j)
            BY <1>4, <2>4, <2>6
        <3> QED
            BY <1>1, <1>2, <1>4, <1>6, <2>3, <3>1, <3>2 DEF ServerTakes
    <2> QED
        BY <2>7, QueryOpensKeeps
<1> QED
    BY <1>5, <1>6 DEF AddJob

(* A new query. *)
LEMMA QueryKeeps == ASSUME QueryInv, NEW c \in Processes, Query(c) PROVE QueryInv'
<1>1. klee[c].pc = "running" /\ klee[c].queries < MaxQueries /\ klee[c].queries \in 0 .. MaxQueries
    BY KleeFields DEF Query
<1>2. klee[c].queries + 1 \in 1 .. MaxQueries
    BY <1>1, ModelQueryAssumption
<1>3. PICK k \in Jobs : k = <<c, klee[c].queries + 1>>
    BY <1>2, ModelQueryAssumption
<1>4. k[1] = c /\ ~Open(k)
    BY <1>1, <1>3 DEF Open
<1>5. ASSUME NEW doc \in {"whole", "empty", "missing"},
             klee' = [klee EXCEPT ![c] =
                        [pc |-> "waiting", queries |-> klee[c].queries + 1, decision |-> None,
                         res |-> IF up /\ doc # "missing" THEN None ELSE Nothing]],
             IF up /\ doc # "missing" THEN AddJob(k, doc) ELSE UNCHANGED serverVars
      PROVE  QueryInv'
    <2>1. CASE up /\ doc # "missing"
        <3>1. Opens(c, k, None)
            BY <1>1, <1>3, <1>5, <2>1 DEF Opens
        <3> QED
            BY <1>4, <1>5, <2>1, <3>1, AddJobKeeps
    <2>2. CASE ~(up /\ doc # "missing")
        <3>1. Opens(c, k, Nothing)
            BY <1>1, <1>3, <1>5, <2>2 DEF Opens
        <3>2. UNCHANGED <<up, worker, content, answers, queue>>
            BY <1>5, <2>2 DEF serverVars
        <3>3. \A j : Queued(j)' = Queued(j)
            BY <3>2 DEF Queued
        <3>4. up => answers[k] = << >> /\ Queued(k) = {}
            BY <1>4 DEF QueryInv, AnsweredOnce
        <3>5. /\ content \in [Jobs -> {None, "whole", "empty"}] /\ answers \in [Jobs -> Seq(Responses)]
              /\ queue \in Seq(Jobs)
            BY DEF QueryInv, ServerTypeOK
        <3>6. ServerTakes(k, Nothing)
            BY <3>2, <3>3, <3>4, <3>5 DEF ServerTakes
        <3> QED
            BY <3>1, <3>6, QueryOpensKeeps
    <2> QED
        BY <2>1, <2>2
<1>6. \A size \in {"long", "short", "no directory"} : OnDisk(size) \in {"whole", "empty", "missing"}
    BY DEF OnDisk
<1> QED
    BY <1>3, <1>5, <1>6 DEF Query

(* Every response of the server has a zero in it, whatever it says: the    *)
(* codes of the errors do, and of a probability and its complement one is  *)
(* not tiny.                                                               *)
LEMMA ResponsesHaveZero ==
    /\ \A r \in Responses : HasZero(r) = TRUE /\ r.kind # "nothing"
    /\ HasZero(Nothing) = FALSE /\ Nothing.kind = "nothing"
<1>1. ASSUME NEW r \in Errors PROVE HasZero(r) = TRUE /\ r.kind # "nothing"
    <2> PICK code \in {500, 503, 507} : r = Error(code)
        BY DEF Errors
    <2>1. r.kind = "error" /\ r.code = code
        BY DEF Error
    <2>2. (code \div 10) % 10 = 0
        OBVIOUS
    <2>3. CodeHasZero(code) = TRUE
        BY <2>2 DEF CodeHasZero
    <2> QED
        BY <2>1, <2>3 DEF HasZero
<1>2. ASSUME NEW j \in Jobs, NEW p \in Likelihoods
      PROVE  HasZero(Prediction(j, p)) = TRUE /\ Prediction(j, p).kind # "nothing"
    <2>1. Prediction(j, p).kind = "prediction" /\ Prediction(j, p).merge = p
        BY DEF Prediction
    <2>2. p \in {"tiny", "low", "high", "near one"}
        BY ModelServerAssumption
    <2>3. p = "tiny" => Complement[p] = "near one"
        BY <2>2 DEF Complement
    <2>4. (FloatHasZero(p) \/ FloatHasZero(Complement[p])) = TRUE
        BY <2>3 DEF FloatHasZero
    <2> QED
        BY <2>1, <2>4 DEF HasZero
<1>3. HasZero(Nothing) = FALSE /\ Nothing.kind = "nothing"
    BY DEF HasZero, Nothing
<1>4. ASSUME NEW r \in Responses PROVE HasZero(r) = TRUE /\ r.kind # "nothing"
    <2>1. CASE r \in Errors
        BY <1>1, <2>1
    <2>2. CASE \E j \in Jobs, p \in Likelihoods : r = Prediction(j, p)
        BY <1>2, <2>2
    <2>3. r \in Errors \/ \E j \in Jobs, p \in Likelihoods : r = Prediction(j, p)
        BY DEF Responses, Prediction
    <2> QED
        BY <2>1, <2>2, <2>3
<1> QED
    BY <1>3, <1>4

(* What curl prints in the end is a response, or nothing. *)
LEMMA ResultType ==
    ASSUME QueryInv, NEW c \in Processes, klee[c].pc = "waiting"
    PROVE  /\ Result(c) \in Responses \cup {Nothing}
           /\ CurrentJob(c) \in Jobs /\ CurrentJob(c)[1] = c /\ Open(CurrentJob(c))
<1> DEFINE k == CurrentJob(c)
<1>1. klee[c].queries \in 1 .. MaxQueries
    BY KleeFields, ModelQueryAssumption
<1>2. k \in Jobs /\ k[1] = c
    BY <1>1, ModelQueryAssumption DEF CurrentJob
<1>3. Open(k)
    BY <1>2 DEF Open
<1>4. answers[k] \in Seq(Responses)
    BY <1>2 DEF QueryInv, ServerTypeOK
<1>5. klee[c].res \in Responses \cup {None, Nothing}
    BY KleeFields
<1> HIDE DEF k
<1>6. answers[k] # << >> => Head(answers[k]) \in Responses
    BY <1>4
<1>7. Result(c) \in Responses \cup {Nothing}
    BY <1>5, <1>6 DEF Result, k
<1> QED
    BY <1>2, <1>3, <1>7 DEF k

(* The query ends, and the connection with it. *)
LEMMA DecideKeeps == ASSUME QueryInv, NEW c \in Processes, Decide(c) PROVE QueryInv'
<1>0. klee[c].pc = "waiting"
    BY DEF Decide
<1>1. PICK k \in Jobs : k = CurrentJob(c) /\ k[1] = c /\ Open(k)
    BY <1>0, ResultType
<1>2. PICK res \in Responses \cup {Nothing} : res = Result(c)
    BY <1>0, ResultType
<1>3. PICK decision \in BOOLEAN : decision = HasZero(res)
    BY <1>2, ResponsesHaveZero
<1> DEFINE r == [klee[c] EXCEPT !.pc = "running", !.res = res, !.decision = decision]
<1>4. klee' = [klee EXCEPT ![c] = r]
    BY <1>2, <1>3 DEF Decide
<1>5. /\ klee \in [Processes -> KleeRecords] /\ klee[c] \in KleeRecords
    BY KleeFields
<1>6. /\ r \in KleeRecords /\ r.pc = "running" /\ r.res = res /\ r.decision = decision
      /\ r.queries = klee[c].queries
    BY <1>5 DEF KleeRecords
<1> HIDE DEF r
<1>7. /\ klee' \in [Processes -> KleeRecords]
      /\ \A d \in Processes : klee'[d] = IF d = c THEN r ELSE klee[d]
    BY <1>4, <1>5, <1>6
<1>8. /\ answers' = [answers EXCEPT ![k] = << >>]
      /\ content' = [content EXCEPT ![k] = None]
      /\ UNCHANGED <<up, queue, worker>>
    BY <1>1 DEF Decide, Close
<1>9. /\ content \in [Jobs -> {None, "whole", "empty"}] /\ answers \in [Jobs -> Seq(Responses)]
    BY DEF QueryInv, ServerTypeOK
<1>10. /\ answers'[k] = << >> /\ \A j \in Jobs : j # k => answers'[j] = answers[j] /\ content'[j] = content[j]
       /\ content' \in [Jobs -> {None, "whole", "empty"}] /\ answers' \in [Jobs -> Seq(Responses)]
    <2>1. << >> \in Seq(Responses)
        OBVIOUS
    <2> QED
        BY <1>8, <1>9, <2>1
<1>11. \A j : Held(j)' = Held(j) /\ Queued(j)' = Queued(j)
    BY <1>8 DEF Held, Queued
<1>12. ServerTypeOK'
    <2>1. \A d \in Processes : klee'[d].pc = "waiting" => klee'[d].queries > 0
        BY <1>6, <1>7, KleeFields
    <2> QED
        BY <1>7, <1>8, <1>10, <2>1 DEF QueryInv, ServerTypeOK, KleeRecords
<1>13. WorkersHoldOne'
    BY <1>8 DEF QueryInv, WorkersHoldOne
<1>14. \A j \in Jobs : Started(j)' = Started(j)
    BY <1>6, <1>7, JobFields DEF Started
<1>15. ~Open(k)'
    BY <1>1, <1>6, <1>7 DEF Open
<1>16. \A j \in Jobs : j # k => Open(j)' = Open(j) /\ (Open(j) => klee'[j[1]] = klee[j[1]])
    <2> SUFFICES ASSUME NEW j \in Jobs, j # k
                 PROVE  Open(j)' = Open(j) /\ (Open(j) => klee'[j[1]] = klee[j[1]])
        OBVIOUS
    <2>1. j[1] \in Processes
        BY JobFields
    <2>2. CASE j[1] # c
        <3>1. klee'[j[1]] = klee[j[1]]
            BY <1>7, <2>1, <2>2
        <3> QED
            BY <3>1 DEF Open, CurrentJob
    <2>3. CASE j[1] = c
        <3>1. ~Open(j)
            BY <1>1, <2>3 DEF Open
        <3>2. ~Open(j)'
            BY <1>6, <1>7, <2>3 DEF Open
        <3> QED
            BY <3>1, <3>2 DEF Open
    <2> QED
        BY <2>2, <2>3
<1>17. up => Queued(k) = {} /\ Held(k) = {}
    <2>1. klee[c].res # None \/ ~up \/ answers[k] # << >>
        BY <1>1 DEF Decide
    <2> QED
        BY <1>1, <2>1 DEF QueryInv, AnsweredOnce, UnsentAreNowhere
<1>18. AnsweredOnce'
    <2> SUFFICES ASSUME up, NEW j \in Jobs
                 PROVE  /\ Len(answers'[j]) <= 1
                        /\ \A i, m \in Queued(j) : i = m
                        /\ \A v, w \in Held(j) : v = w
                        /\ answers'[j] # << >> => Queued(j) = {} /\ Held(j) = {}
                        /\ Queued(j) # {} => Held(j) = {}
                        /\ ~Open(j)' => answers'[j] = << >> /\ Queued(j) = {} /\ Held(j) = {}
        BY <1>8, <1>11 DEF AnsweredOnce
    <2>1. CASE j = k
        BY <1>10, <1>17, <2>1
    <2>2. CASE j # k
        <3>1. answers'[j] = answers[j] /\ Open(j)' = Open(j)
            BY <1>10, <1>16, <2>2
        <3> QED
            BY <3>1 DEF QueryInv, AnsweredOnce
    <2> QED
        BY <2>1, <2>2
<1>19. UnsentAreNowhere'
    <2> SUFFICES ASSUME up, NEW j \in Jobs, Open(j)', klee'[j[1]].res # None
                 PROVE  answers'[j] = << >> /\ Queued(j) = {} /\ Held(j) = {}
        BY <1>8, <1>11 DEF UnsentAreNowhere
    <2>1. j # k /\ Open(j) /\ klee[j[1]].res # None /\ answers'[j] = answers[j]
        BY <1>10, <1>15, <1>16
    <2> QED
        BY <2>1 DEF QueryInv, UnsentAreNowhere
<1>20. PredictionsAreOwn'
    <2> SUFFICES ASSUME NEW j \in Jobs, NEW i \in DOMAIN answers'[j], answers'[j][i].kind = "prediction"
                 PROVE  answers'[j][i].job = j /\ content'[j] = "whole"
        BY DEF PredictionsAreOwn
    <2>1. j # k
        BY <1>10, EmptySocket
    <2>2. answers'[j] = answers[j] /\ content'[j] = content[j]
        BY <1>10, <2>1
    <2> QED
        BY <2>2 DEF QueryInv, PredictionsAreOwn
<1>21. MergedIfAnswered'
    <2>1. decision = (res.kind # "nothing")
        BY <1>3, ResponsesHaveZero
    <2> QED
        BY <1>6, <1>7, <2>1 DEF QueryInv, MergedIfAnswered
<1>22. RepliesAreKnown'
    <2> SUFFICES ASSUME NEW w \in Workers
                 PROVE  /\ \A i \in DOMAIN worker[w].socket :
                              worker[w].socket[i] # Load => Started(worker[w].socket[i])'
                        /\ \A i \in DOMAIN worker[w].replies : \A p \in worker[w].replies[i].predictions :
                              Started(p.job)' /\ (Open(p.job)' => content'[p.job] = "whole")
        BY <1>8 DEF RepliesAreKnown, Started, Open, CurrentJob
    <2>1. \A i \in DOMAIN worker[w].socket : worker[w].socket[i] # Load => Started(worker[w].socket[i])'
        <3> SUFFICES ASSUME NEW s \in Jobs, Started(s)
                     PROVE  Started(s)'
            <4>1. worker[w].socket \in Seq(Jobs \cup {Load})
                BY WorkerFields DEF WorkerRecords
            <4>2. \A i \in DOMAIN worker[w].socket : worker[w].socket[i] \in Jobs \cup {Load}
                BY <4>1
            <4>3. \A i \in DOMAIN worker[w].socket : worker[w].socket[i] # Load => Started(worker[w].socket[i])
                BY WorkerFields
            <4> QED
                BY <1>8, <4>2, <4>3 DEF Started
        <3> QED
            BY <1>14
    <2>2. ASSUME NEW i \in DOMAIN worker[w].replies, NEW p \in worker[w].replies[i].predictions
          PROVE  Started(p.job)' /\ (Open(p.job)' => content'[p.job] = "whole")
        <3>1. worker[w].replies \in Seq(Replies)
            BY WorkerFields DEF WorkerRecords
        <3>2. worker[w].replies[i] \in Replies
            BY <3>1
        <3>3. p \in {Prediction(j, q) : j \in Jobs, q \in Likelihoods}
            BY <3>2 DEF Replies
        <3>4. p.job \in Jobs
            BY <3>3 DEF Prediction
        <3>5. Started(p.job) /\ (Open(p.job) => content[p.job] = "whole")
            BY WorkerFields
        <3> QED
            BY <1>10, <1>14, <1>15, <1>16, <3>4, <3>5
    <2> QED
        BY <2>1, <2>2
<1> QED
    BY <1>12, <1>13, <1>18, <1>19, <1>20, <1>21, <1>22 DEF QueryInv

(* The server ends. *)
LEMMA DownKeeps == ASSUME QueryInv, Down PROVE QueryInv'
<1>1. ~up' /\ UNCHANGED <<queue, worker, content, answers, klee>>
    BY DEF Down
<1>2. \A j : Open(j)' = Open(j) /\ Started(j)' = Started(j)
    BY <1>1 DEF Open, Started, CurrentJob
<1>3. ServerTypeOK'
    BY <1>1 DEF QueryInv, ServerTypeOK
<1>4. WorkersHoldOne' /\ PredictionsAreOwn' /\ MergedIfAnswered'
    BY <1>1 DEF QueryInv, WorkersHoldOne, PredictionsAreOwn, MergedIfAnswered
<1>5. AnsweredOnce' /\ UnsentAreNowhere'
    BY <1>1 DEF AnsweredOnce, UnsentAreNowhere
<1>6. RepliesAreKnown'
    BY <1>1 DEF QueryInv, RepliesAreKnown, Open, Started, CurrentJob
<1> QED
    BY <1>3, <1>4, <1>5, <1>6 DEF QueryInv

(* The invariant holds initially. *)
LEMMA QueryInvInit == Init => QueryInv
<1> SUFFICES ASSUME Init PROVE QueryInv
    OBVIOUS
<1> USE DEF Init, ServerInit
<1>1. \A w \in Workers : /\ worker[w].jobs = {} /\ worker[w].req = None
                         /\ worker[w].socket = << >> /\ worker[w].replies = << >>
    BY DEF NewWorker
<1>2. /\ << >> \in Seq(Jobs) /\ << >> \in Seq({Load}) /\ << >> \in Seq(Jobs \cup {Load})
      /\ << >> \in Seq(Replies) /\ << >> \in Seq(Responses)
    OBVIOUS
<1>3. NewWorker \in WorkerRecords
    BY <1>2 DEF NewWorker, WorkerRecords
<1>4. worker \in [Workers -> WorkerRecords]
    BY <1>3
<1>5. \A c \in Processes : klee[c].pc = "running" /\ klee[c].queries = 0
    OBVIOUS
<1>6. 0 \in 0 .. MaxQueries
    BY ModelQueryAssumption
<1>7. klee \in [Processes -> KleeRecords]
    BY <1>6 DEF KleeRecords
<1>8. ServerTypeOK
    BY <1>2, <1>4, <1>5, <1>7 DEF ServerTypeOK, WorkerRecords, KleeRecords
<1>9. WorkersHoldOne
    BY <1>1 DEF WorkersHoldOne
<1>10. \A j \in Jobs : ~Open(j) /\ Queued(j) = {} /\ Held(j) = {} /\ answers[j] = << >>
    BY <1>1, <1>5, JobFields DEF Open, Queued, Held
<1>11. Len(<< >>) = 0 /\ DOMAIN << >> = {}
    OBVIOUS
<1>12. AnsweredOnce /\ UnsentAreNowhere
    BY <1>10, <1>11 DEF AnsweredOnce, UnsentAreNowhere
<1>13. PredictionsAreOwn
    BY <1>10, <1>11 DEF PredictionsAreOwn
<1>14. RepliesAreKnown
    BY <1>1, <1>11 DEF RepliesAreKnown
<1>15. MergedIfAnswered
    BY <1>5 DEF MergedIfAnswered
<1> QED
    BY <1>8, <1>9, <1>12, <1>13, <1>14, <1>15 DEF QueryInv

(* Every step keeps the invariant. *)
LEMMA QueryInvNext == QueryInv /\ [Next]_vars => QueryInv'
<1> SUFFICES ASSUME QueryInv, [Next]_vars PROVE QueryInv'
    OBVIOUS
<1>1. ASSUME NEW w \in Workers, Server(w) PROVE QueryInv'
    <2>1. UNCHANGED klee
        BY <1>1 DEF Server
    <2>2. WorkerStep(w) \/ WorkerFault(w)
        BY <1>1 DEF Server
    <2> QED
        BY <2>1, <2>2, ConnectKeeps, PollKeeps, ReceiveKeeps, GivesUpKeeps, StopKeeps, HandleKeeps,
           StartFailsKeeps, CrashKeeps DEF WorkerStep, WorkerFault
<1>2. CASE UNCHANGED vars
    <2>1. UNCHANGED <<up, queue, worker, content, answers, klee>>
        BY <1>2 DEF vars, serverVars
    <2>2. UnsentAreNowhere' /\ AnsweredOnce' /\ PredictionsAreOwn' /\ MergedIfAnswered'
        BY <2>1, RequestsKept
    <2>3. ServerTypeOK'
        BY <2>1 DEF QueryInv, ServerTypeOK
    <2>4. WorkersHoldOne'
        BY <2>1 DEF QueryInv, WorkersHoldOne
    <2>5. RepliesAreKnown'
        BY <2>1 DEF QueryInv, RepliesAreKnown, Open, Started, CurrentJob
    <2> QED
        BY <2>2, <2>3, <2>4, <2>5 DEF QueryInv
<1> QED
    BY <1>1, <1>2, QueryKeeps, DecideKeeps, DownKeeps DEF Next

(* The inductive invariant of the model query. *)
LEMMA QueryInvariant == Spec => []QueryInv
<1>1. Spec => Init /\ [][Next]_vars
    BY DEF Spec
<1> QED
    BY <1>1, QueryInvInit, QueryInvNext, PTL

(* However the processes of the server die or hang, a request is answered  *)
(* at most once, it is in one place until then, and nothing of it is left  *)
(* in the server when the query has ended: KLEE never reads the answer to  *)
(* one of its earlier queries.                                             *)
THEOREM AnsweredOnceTheorem == Spec => []AnsweredOnce
<1>1. QueryInv => AnsweredOnce
    BY DEF QueryInv
<1> QED
    BY <1>1, QueryInvariant, PTL

(* A prediction in an answer was computed for that very request, from the  *)
(* whole document, although a reply can stay in the queue of a worker and  *)
(* be taken for that to a later request: sendResponse compares the ids.    *)
THEOREM PredictionsAreOwnTheorem == Spec => []PredictionsAreOwn
<1>1. QueryInv => PredictionsAreOwn
    BY DEF QueryInv
<1> QED
    BY <1>1, QueryInvariant, PTL

(* The decision of merge_or_not depends on nothing but whether the server  *)
(* answered: the search for a "0" finds one in every response.             *)
THEOREM MergedIfAnsweredTheorem == Spec => []MergedIfAnswered
<1>1. QueryInv => MergedIfAnswered
    BY DEF QueryInv
<1> QED
    BY <1>1, QueryInvariant, PTL
=============================================================================
