----------------------------- MODULE ModelServer -----------------------------
(***************************************************************************)
(* The model server: the queue of inference jobs, the worker threads of    *)
(* the frontend, each with its aggregator and its reply queue, and the     *)
(* Python process behind each of them.                                     *)
(*                                                                         *)
(* A thread takes one job (the batch size is 1, the handler supports no    *)
(* other), sends it to its process and waits for a reply; when the reply   *)
(* does not come in time, or the process dies, it answers the job with an  *)
(* error and starts over with a new process.                               *)
(***************************************************************************)
EXTENDS Naturals, Sequences, FiniteSets

CONSTANTS Workers,       \* default_workers_per_model
          Jobs,          \* the requests, by request id
          Load,          \* the request that makes a process load the model
          None,          \* null
          Likelihoods,   \* the probabilities of SHOULD_MERGE
          QueueSize,     \* job_queue_size
          MaxFaults      \* bound: processes that die or hang, and the end of the server

ASSUME ModelServerAssumption ==
    /\ Load \notin Jobs \cup {None} /\ None \notin Jobs
    /\ IsFiniteSet(Workers) /\ Workers # {}
    /\ QueueSize \in Nat \ {0} /\ MaxFaults \in Nat
    /\ Likelihoods \subseteq {"tiny", "low", "high", "near one"}

(* The probability of SHOULD_NOT_MERGE: the softmax of two values.  "tiny" *)
(* is below 10^-9, "low" and "high" are on the two sides of one half.      *)
Complement ==
    [p \in {"tiny", "low", "high", "near one"} |->
        CASE p = "tiny" -> "near one" [] p = "low" -> "high" [] p = "high" -> "low" [] OTHER -> "tiny"]

VARIABLES
    up,                  \* the server is running
    queue,               \* DEFAULT_DATA_QUEUE
    worker,              \* [thread, state, channel, connected, control, req, jobs, socket, replies]
    content,             \* the document of a job
    answers,             \* the HTTP responses to a job
    faults,
    stale                \* a process has been started with a reply of the one before in the queue

serverVars == <<up, queue, worker, content, answers, faults, stale>>

(* thread: scheduled to run, polling for a job, waiting for a reply, in    *)
(* the finally block (stopping), or dead.  channel: it is open, with the   *)
(* requests the process has not yet handled in socket.                     *)
NewWorker ==
    [thread |-> "scheduled", state |-> None, channel |-> FALSE, connected |-> FALSE,
     control |-> << >>, req |-> None, jobs |-> {}, socket |-> << >>, replies |-> << >>]

ServerInit ==
    /\ up \in BOOLEAN
    /\ queue = << >>
    /\ worker = [w \in Workers |-> NewWorker]
    /\ content = [j \in Jobs |-> None]
    /\ answers = [j \in Jobs |-> << >>]
    /\ faults = 0 /\ stale = FALSE

Fault == faults < MaxFaults /\ faults' = faults + 1

Error(code) == [kind |-> "error", code |-> code]
Prediction(j, p) == [kind |-> "prediction", job |-> j, merge |-> p]

(* RestJob::response and sendError: the load job has no client. *)
Respond(A, J, r) == [j \in Jobs |-> IF j \in J THEN Append(A[j], r) ELSE A[j]]

(* Netty's status for HTTP_ENTITY_TOO_LARGE *)
Status(code) == IF code = 413 THEN 507 ELSE code

-----------------------------------------------------------------------------
(***************************************************************************)
(* The frontend.                                                           *)
(***************************************************************************)
(* addRESTInferenceJob: the request is queued, or refused with a 503. *)
AddJob(j, doc) ==
    /\ up
    /\ content' = [content EXCEPT ![j] = doc]
    /\ \/ Len(queue) < QueueSize /\ queue' = Append(queue, j) /\ UNCHANGED answers
       \/ Len(queue) = QueueSize /\ answers' = Respond(answers, {j}, Error(503)) /\ UNCHANGED queue
    /\ UNCHANGED <<up, worker, faults, stale>>

(* The connection of a request is closed, with its first response. *)
Close(j) ==
    /\ answers' = [answers EXCEPT ![j] = << >>]
    /\ content' = [content EXCEPT ![j] = None]
    /\ UNCHANGED <<up, queue, worker, faults, stale>>

(* connect(): a process is started, and a load job added to the queue of   *)
(* the worker, where one may be left from a start before.                  *)
Connect(w) ==
    /\ up /\ worker[w].thread = "scheduled"
    /\ worker' = [worker EXCEPT ![w].thread = "polling", ![w].state = "STARTED",
                                ![w].channel = TRUE, ![w].connected = TRUE,
                                ![w].control = Append(@, Load), ![w].socket = << >>]
    /\ stale' = (stale \/ worker[w].replies # << >>)
    /\ UNCHANGED <<up, queue, content, answers, faults>>

(* The process does not start, or not in time.  The finally block uses     *)
(* backendChannel, which the first start has not set: the exception ends   *)
(* the thread and it is not scheduled again.                               *)
StartFails(w) ==
    /\ up /\ worker[w].thread = "scheduled" /\ Fault
    /\ worker' = [worker EXCEPT ![w].thread = IF worker[w].connected THEN "stopping" ELSE "dead"]
    /\ UNCHANGED <<up, queue, content, answers, stale>>

(* The request is written to the channel, which may be closed by now. *)
Send(w, control, req) ==
    worker' = [worker EXCEPT ![w].control = control, ![w].req = req, ![w].jobs = {req},
                             ![w].thread = IF worker[w].channel THEN "waiting" ELSE "stopping",
                             ![w].socket = IF worker[w].channel THEN Append(@, req) ELSE @]

(* getRequest: a control command first, then the data queue. *)
Poll(w) ==
    /\ up /\ worker[w].thread = "polling"
    /\ LET control == worker[w].control
       IN  \/ control # << >> /\ Send(w, Tail(control), Head(control)) /\ UNCHANGED queue
           \/ /\ control = << >> /\ queue # << >>
              /\ Send(w, control, Head(queue)) /\ queue' = Tail(queue)
    /\ UNCHANGED <<up, content, answers, faults, stale>>

(* Mutant: a prediction goes to the job at hand, whatever its request id. *)
ExpectedAny(w, reply) == TRUE

(* sendResponse: "Unexpected job in sendResponse() with 200 status code" *)
Expected(w, reply) ==
    reply.code = 200 => \A p \in reply.predictions : p.job \in worker[w].jobs

Answered(w, reply) ==
    IF reply.code # 200 THEN Respond(answers, worker[w].jobs, Error(Status(reply.code)))
    ELSE [j \in Jobs |-> IF j \in worker[w].jobs /\ reply.predictions # {}
                         THEN Append(answers[j], CHOOSE p \in reply.predictions : TRUE)
                         ELSE answers[j]]

(* Mutant: the request is not forgotten when its reply has been handled. *)
AfterReplyKeepingReq(w, reply) ==
    [worker[w] EXCEPT !.replies = << >>, !.thread = "polling"]

AfterReply(w, reply) ==
    [worker[w] EXCEPT !.replies = << >>, !.jobs = {}, !.req = None, !.thread = "polling",
                      !.state = CASE worker[w].req # Load -> @
                                  [] worker[w].req = Load /\ reply.code = 200 -> "MODEL_LOADED"
                                  [] OTHER -> "ERROR"]

(* A reply is taken for that to the request at hand. *)
Receive(w) ==
    /\ up /\ worker[w].thread = "waiting" /\ worker[w].replies # << >>
    /\ LET reply == Head(worker[w].replies)
       IN  IF Expected(w, reply)
           THEN worker' = [worker EXCEPT ![w] = AfterReply(w, reply)] /\ answers' = Answered(w, reply)
           ELSE /\ worker' = [worker EXCEPT ![w].replies = << >>, ![w].thread = "stopping"]
                /\ UNCHANGED answers
    /\ UNCHANGED <<up, queue, content, faults, stale>>

(* "Backend worker did not respond in given time" *)
Timeout(w) ==
    /\ up /\ worker[w].thread = "waiting" /\ worker[w].replies = << >> /\ Fault
    /\ worker' = [worker EXCEPT ![w].thread = "stopping"]
    /\ UNCHANGED <<up, queue, content, answers, stale>>

(* The listener of the closed channel interrupts the thread. *)
Interrupt(w) ==
    /\ up /\ worker[w].thread \in {"polling", "waiting"} /\ ~worker[w].channel
    /\ worker' = [worker EXCEPT ![w].thread = "stopping"]
    /\ UNCHANGED <<up, queue, content, answers, faults, stale>>

(* Mutant: the error is only logged. *)
StopSilently(w) ==
    /\ up /\ worker[w].thread = "stopping"
    /\ worker' = [worker EXCEPT ![w].thread = "scheduled", ![w].state = "STOPPED",
                                ![w].channel = FALSE, ![w].req = None, ![w].jobs = {},
                                ![w].socket = << >>]
    /\ UNCHANGED <<up, queue, content, answers, faults, stale>>

(* The finally block of run(): the channel is closed, the request at hand  *)
(* is answered with an error, the process is killed and the thread         *)
(* scheduled again.  What is in the reply queue stays there.  A process    *)
(* that ended with 137 had no memory.                                      *)
Stop(w) ==
    /\ up /\ worker[w].thread = "stopping"
    /\ \E status \in IF worker[w].channel THEN {500} ELSE {500, 413} :
          answers' = IF worker[w].req \in Jobs
                     THEN Respond(answers, worker[w].jobs \cap {worker[w].req}, Error(Status(status)))
                     ELSE answers
    /\ worker' = [worker EXCEPT ![w].thread = "scheduled", ![w].state = "STOPPED",
                                ![w].channel = FALSE, ![w].req = None, ![w].jobs = {},
                                ![w].socket = << >>]
    /\ UNCHANGED <<up, queue, content, faults, stale>>

-----------------------------------------------------------------------------
(***************************************************************************)
(* The process behind a thread, and the channel between them.              *)
(***************************************************************************)
(* handle_connection and Service.predict: the model is loaded; a document  *)
(* is answered with a prediction, or with an error if it cannot be read or *)
(* the handler fails.  Memory may be short.                                *)
Outcomes(req) ==
    {[code |-> 507, predictions |-> {}]}
    \cup (IF req = Load THEN {[code |-> 200, predictions |-> {}]}
          ELSE {[code |-> 503, predictions |-> {}]})
    \cup {[code |-> 200, predictions |-> {Prediction(req, p)}] :
             p \in IF req # Load /\ content[req] = "whole" THEN Likelihoods ELSE {}}

(* A load that fails also ends the process. *)
Dies(req, reply) == req = Load /\ reply.code # 200

(* The process handles a request and its reply is delivered; the channel   *)
(* is closed if there is a reply in the queue already.                     *)
Handle(w) ==
    /\ up /\ worker[w].channel /\ worker[w].socket # << >>
    /\ LET req == Head(worker[w].socket)
       IN  \E reply \in Outcomes(req) :
              /\ IF reply.code = 507 THEN Fault ELSE UNCHANGED faults
              /\ LET full  == worker[w].replies # << >>
                     close == full \/ Dies(req, reply)
                 IN  worker' = [worker EXCEPT
                        ![w].replies = IF full THEN @ ELSE <<reply>>,
                        ![w].channel = ~close,
                        ![w].socket  = IF close THEN << >> ELSE Tail(@)]
    /\ UNCHANGED <<up, queue, content, answers, stale>>

(* The process dies. *)
Crash(w) ==
    /\ up /\ worker[w].channel /\ Fault
    /\ worker' = [worker EXCEPT ![w].channel = FALSE, ![w].socket = << >>]
    /\ UNCHANGED <<up, queue, content, answers, stale>>

WorkerStep(w) == Connect(w) \/ Poll(w) \/ Receive(w) \/ Interrupt(w) \/ Stop(w) \/ Handle(w)

WorkerFault(w) == StartFails(w) \/ Timeout(w) \/ Crash(w)
=============================================================================
