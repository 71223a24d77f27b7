---------------------------- MODULE UploadPipeline ----------------------------
(***************************************************************************)
(* One upload from the gateway's request to the end of its job.            *)
(*                                                                         *)
(*   - FileUploadService.uploadTransactionFile (api-gateway) sends the     *)
(*     file and waits 30 s;                                                *)
(*   - FileProcessingService.processTransactionFile stores it in GridFS,   *)
(*     creates the status document and adds a Bull job;                    *)
(*   - Bull hands the job to a worker, again after a failure (attempts)    *)
(*     and again when the worker's lock expires (stalled jobs);            *)
(*   - FileProcessingProcessor.processFile runs it batch by batch and      *)
(*     writes the status document as it goes.                              *)
(*                                                                         *)
(* A status write is awaited 30 s at most and its failure is swallowed; an *)
(* Excel progress write is not awaited at all.  What a batch does row by   *)
(* row is BatchImport's subject: here it is stored, or not, or late.       *)
(* The file-processing service runs as one process, one job at a time.     *)
(***************************************************************************)
EXTENDS Naturals, FiniteSets

CONSTANTS
  Batches,        \* number of batches of the file
  ProgressEvery,  \* CSV: batches between two progress writes (10)
  Formats,        \* the file formats considered
  Environments,   \* the sets of faults considered together
  Attempts,       \* attempts: 3 in queue.add
  MaxStalls,      \* maxStalledCount: 1
  MaxCrashes,     \* bound: crashes of the file-processing service
  MaxOverdue      \* bound: overdue status writes, and overdue batches

(***************************************************************************)
(* "db": MongoDB refuses an operation, or commits it and reports an error; *)
(* "redis": the same for Bull; "slow": an answer comes after its timeout;  *)
(* "call": a create_transactions call fails; "stall": the event loop is    *)
(* blocked so long that Bull takes the lock away; "crash": the process     *)
(* ends and is started again.                                              *)
(***************************************************************************)
FaultKind == {"db", "redis", "slow", "call", "stall", "crash"}

ASSUME UploadPipelineAssumption ==
  /\ Batches \in Nat \ {0}
  /\ ProgressEvery \in Nat \ {0}
  /\ Formats \subseteq {"csv", "excel"}
  /\ Environments \subseteq SUBSET FaultKind
  /\ Attempts \in Nat \ {0}
  /\ MaxStalls \in Nat
  /\ MaxCrashes \in Nat
  /\ MaxOverdue \in Nat

VARIABLES
  faults,    \* the faults that may happen (never changes)
  format,    \* the format of the file (never changes)
  readable,  \* can its content be parsed?  (never changes)
  client,    \* the gateway's request: "waiting", "accepted" or "refused"
  service,   \* where processTransactionFile is
  gridfs,    \* is the file in GridFS?
  status,    \* the status document: "none", or its status field
  job,       \* the Bull job
  attempts,  \* attemptsMade
  stalls,    \* stalledCounter
  worker,    \* where processFile is, "idle" between runs
  run,       \* number of runs of processFile started
  lock,      \* does the current run hold the lock of the job?
  batch,     \* the batch the current run is at
  writes,    \* status writes in progress in MongoDB
  stored,    \* how many times each batch was inserted
  overdue,   \* batches given up by a run and still to be inserted
  finished,  \* history: the runs that went through the whole file
  threw,     \* history: the runs that reached the catch block
  emitted,   \* history: the outcome events, with the run that emitted them
  crashes    \* crashes so far

inputs == <<faults, format, readable>>
request == <<client, service, gridfs, crashes>>
queue == <<job, attempts, stalls>>
data == <<stored, overdue>>
history == <<finished, threw, emitted>>
processor == <<worker, run, lock, batch, writes, stored, overdue, finished,
               threw, emitted>>
vars == <<faults, format, readable, client, service, gridfs, status, job, attempts,
          stalls, worker, run, lock, batch, writes, stored, overdue, finished,
          threw, emitted, crashes>>

Fault(f) == f \in faults

Init ==
  /\ faults \in Environments
  /\ format \in Formats
  /\ readable \in BOOLEAN
  /\ client = "waiting"
  /\ service = "store"
  /\ gridfs = FALSE
  /\ status = "none"
  /\ job = "none"
  /\ attempts = 0
  /\ stalls = 0
  /\ worker = "idle"
  /\ run = 0
  /\ lock = FALSE
  /\ batch = 0
  /\ writes = {}
  /\ stored = [b \in 1..Batches |-> 0]
  /\ overdue = {}
  /\ finished = {}
  /\ threw = {}
  /\ emitted = {}
  /\ crashes = 0

------------------------------------------------------------------------------
(* The request: processTransactionFile, one action per awaited call.       *)

(***************************************************************************)
(* uploadFile resolves when the stream has finished and rejects what is no *)
(* buffer, an empty one, and an error of the stream, after which the file  *)
(* may be there all the same.                                              *)
(***************************************************************************)
UploadFile ==
  \/ gridfs' = TRUE /\ service' = "record"
  \/ service' = "reject" /\ gridfs' = FALSE
  \/ Fault("db") /\ service' = "reject" /\ gridfs' = TRUE

(***************************************************************************)
(* The type of the file is checked and the file goes to GridFS.  An error  *)
(* here leaves no file id, so nothing is cleaned up.                       *)
(***************************************************************************)
StoreFile ==
  /\ service = "store"
  /\ UploadFile
  /\ UNCHANGED <<inputs, client, status, queue, processor, crashes>>

(***************************************************************************)
(* fileProcessingsRepository.create, in a transaction; when the commit     *)
(* fails the document may exist all the same.                              *)
(***************************************************************************)
CreateRecord ==
  /\ service = "record"
  /\ \/ status' = "PENDING" /\ service' = "enqueue"
     \/ Fault("db") /\ status' \in {"none", "PENDING"} /\ service' = "cleanup"
  /\ UNCHANGED <<inputs, client, gridfs, queue, processor, crashes>>

(* Mutant of Enqueue: an error of Redis is logged and the upload accepted. *)
EnqueueSwallowing ==
  /\ service = "enqueue"
  /\ \/ job' = "waiting"
     \/ Fault("redis") /\ job' \in {"none", "waiting"}
  /\ service' = "accept"
  /\ UNCHANGED <<inputs, client, gridfs, status, attempts, stalls, processor,
                 crashes>>

(* fileProcessingQueue.add; Redis may keep the job and lose the answer. *)
Enqueue ==
  /\ service = "enqueue"
  /\ \/ job' = "waiting" /\ service' = "accept"
     \/ Fault("redis") /\ job' \in {"none", "waiting"} /\ service' = "cleanup"
  /\ UNCHANGED <<inputs, client, gridfs, status, attempts, stalls, processor,
                 crashes>>

(* deleteFile, which may throw. *)
DeleteFile == gridfs' \in {FALSE} \union (IF Fault("db") THEN {TRUE} ELSE {})

(* The catch block deletes the file; a failure of that is only logged. *)
Cleanup ==
  /\ service = "cleanup"
  /\ DeleteFile
  /\ service' = "reject"
  /\ UNCHANGED <<inputs, client, status, queue, processor, crashes>>

(* The answer, for a gateway that still waits for it. *)
Reply ==
  /\ service \in {"accept", "reject"}
  /\ service' = "done"
  /\ client' = IF client # "waiting" THEN client
               ELSE IF service = "accept" THEN "accepted" ELSE "refused"
  /\ UNCHANGED <<inputs, gridfs, status, queue, processor, crashes>>

(* Mutant of GatewayGivesUp: no timeout, and a lost connection unnoticed. *)
GatewayGivesUpNever == FALSE

(***************************************************************************)
(* The gateway waits 30 s for the answer, or loses the connection to a     *)
(* service that stopped: "Failed to process file", whatever the file       *)
(* processing service goes on doing.                                       *)
(***************************************************************************)
GatewayGivesUp ==
  /\ client = "waiting"
  /\ Fault("slow") \/ service = "dead"
  /\ client' = "refused"
  /\ UNCHANGED <<inputs, service, gridfs, status, queue, processor, crashes>>

------------------------------------------------------------------------------
(* Status writes: findOneAndUpdate in a transaction of its own.            *)

(* A write is named by its run and by its place in the run: 0 before the   *)
(* first batch, b after batch b, Batches + 1 at the end.                   *)
Write(s, place) == [status |-> s, run |-> run, place |-> place]

WriteType == [status : {"PROCESSING", "COMPLETED", "FAILED"},
              run : Nat, place : 0..(Batches + 1)]

Apply(w) ==
  /\ w \in writes
  /\ status' = w.status
  /\ writes' = writes \ {w}
  /\ UNCHANGED <<inputs, request, queue, worker, run, lock, batch, data,
                 history>>

(***************************************************************************)
(* The write fails: on the database, or because two transactions touch the *)
(* same document (WriteConflict aborts one, and nothing retries it).       *)
(***************************************************************************)
Discard(w) ==
  /\ w \in writes
  /\ Fault("db") \/ writes # {w}
  /\ writes' = writes \ {w}
  /\ UNCHANGED <<inputs, request, status, queue, worker, run, lock, batch, data,
                 history>>

(***************************************************************************)
(* A write nobody waits for goes on by itself.  (At most MaxOverdue writes *)
(* are followed; beyond that it is taken to fail.)                         *)
(***************************************************************************)
LeftBehind(w) == IF Cardinality(writes) <= MaxOverdue THEN writes ELSE writes \ {w}

(* Mutant of Awaited: the update is awaited without a timeout. *)
AwaitedForever(w) == w \notin writes /\ UNCHANGED writes

(* updateFileStatus returns: the write it awaits is over, or 30 s are. *)
Awaited(w) ==
  IF w \notin writes THEN UNCHANGED writes
                     ELSE Fault("slow") /\ writes' = LeftBehind(w)

------------------------------------------------------------------------------
(* The job: Bull hands it out, the processor runs it.                      *)

Take ==
  /\ job = "waiting"
  /\ worker = "idle"
  /\ job' = "active"
  /\ worker' = "check"
  /\ run' = run + 1
  /\ lock' = TRUE
  /\ batch' = 0
  /\ UNCHANGED <<inputs, request, status, attempts, stalls, writes, data,
                 history>>

(* The catch block: the FAILED write first, errors = [the message]. *)
Throw ==
  /\ worker' = "failing"
  /\ threw' = threw \union {run}
  /\ writes' = writes \union {Write("FAILED", Batches + 1)}
  /\ UNCHANGED <<run, lock, batch, finished, emitted>>

(* fileExists answers false when the lookup itself fails. *)
CheckFile ==
  /\ worker = "check"
  /\ \/ /\ gridfs
        /\ worker' = "mark"
        /\ writes' = writes \union {Write("PROCESSING", 0)}
        /\ UNCHANGED <<run, lock, batch, history>>
     \/ (~gridfs \/ Fault("db")) /\ Throw
  /\ UNCHANGED <<inputs, request, status, queue, data>>

Marked ==
  /\ worker = "mark"
  /\ Awaited(Write("PROCESSING", 0))
  /\ worker' = "read"
  /\ UNCHANGED <<inputs, request, status, queue, run, lock, batch, data,
                 history>>

(* Mutant of ReadFile: a parser error is logged, and nothing is left to do. *)
ReadFileSwallowing ==
  /\ worker = "read"
  /\ \/ /\ gridfs
        /\ readable
        /\ worker' = "call"
        /\ batch' = 1
        /\ UNCHANGED writes
     \/ /\ ~gridfs \/ ~readable \/ Fault("db")
        /\ worker' = "completing"
        /\ writes' = writes \union {Write("COMPLETED", Batches + 1)}
        /\ UNCHANGED batch
  /\ UNCHANGED <<inputs, request, status, queue, run, lock, data, history>>

(* getFileBuffer and the parser; both may throw. *)
ReadFile ==
  /\ worker = "read"
  /\ \/ /\ gridfs
        /\ readable
        /\ worker' = "call"
        /\ batch' = 1
        /\ UNCHANGED <<run, lock, writes, history>>
     \/ (~gridfs \/ ~readable \/ Fault("db")) /\ Throw
  /\ UNCHANGED <<inputs, request, status, queue, data>>

(***************************************************************************)
(* To the next batch, or out of the loop with the COMPLETED write; `left`  *)
(* are the writes still in progress.                                       *)
(***************************************************************************)
NextBatch(left) ==
  IF batch < Batches
  THEN worker' = "call" /\ batch' = batch + 1 /\ writes' = left
       /\ UNCHANGED finished
  ELSE /\ worker' = "completing"
       /\ finished' = finished \union {run}
       /\ writes' = left \union {Write("COMPLETED", Batches + 1)}
       /\ UNCHANGED batch

(***************************************************************************)
(* CSV reports progress after the first batch, every ProgressEvery batches *)
(* and after the last.  Excel does after the last, and after others        *)
(* according to the counters BatchImport keeps.                            *)
(***************************************************************************)
MustReport ==
  \/ batch = Batches
  \/ format = "csv" /\ (batch - 1) % ProgressEvery = 0

MayReport == MustReport \/ format = "excel"

(* create_transactions stored the batch: count it, report if it is time. *)
CallSucceeds ==
  /\ worker = "call"
  /\ stored' = [stored EXCEPT ![batch] = @ + 1]
  /\ \/ /\ MayReport
        /\ worker' = "report"
        /\ writes' = writes \union {Write("PROCESSING", batch)}
        /\ UNCHANGED <<batch, finished>>
     \/ ~MustReport /\ NextBatch(writes)
  /\ UNCHANGED <<inputs, request, status, queue, run, lock, overdue, threw,
                 emitted>>

(* Mutant of CallFails: a batch that timed out is sent again by the loop. *)
CallFailsRetrying ==
  /\ worker = "call"
  /\ Fault("slow")
  /\ Cardinality(overdue) < MaxOverdue
  /\ overdue' = overdue \union {<<run, batch>>}
  /\ UNCHANGED <<inputs, request, status, queue, worker, run, lock, batch,
                 writes, stored, history>>

(***************************************************************************)
(* The call fails or times out: the batch goes into the error list and the *)
(* loop goes on.  It was not stored, or was stored without an answer, or   *)
(* the transaction service has yet to store it.                            *)
(***************************************************************************)
CallFails ==
  /\ worker = "call"
  /\ \/ Fault("call") /\ UNCHANGED data
     \/ /\ Fault("call")
        /\ Fault("db")
        /\ stored' = [stored EXCEPT ![batch] = @ + 1]
        /\ UNCHANGED overdue
     \/ /\ Fault("slow")
        /\ Cardinality(overdue) < MaxOverdue
        /\ overdue' = overdue \union {<<run, batch>>}
        /\ UNCHANGED stored
  /\ NextBatch(writes)
  /\ UNCHANGED <<inputs, request, status, queue, run, lock, threw, emitted>>

(* A batch nobody waits for any more is inserted, or is not. *)
StoredLate(late) ==
  /\ late \in overdue
  /\ overdue' = overdue \ {late}
  /\ \/ stored' = [stored EXCEPT ![late[2]] = @ + 1]
     \/ UNCHANGED stored
  /\ UNCHANGED <<inputs, request, status, queue, worker, run, lock, batch,
                 writes, history>>

(***************************************************************************)
(* CSV awaits the progress write and job.progress together, and stops      *)
(* waiting when the write is overdue or job.progress fails.  Excel awaits  *)
(* job.progress alone: the write goes on by itself.                        *)
(***************************************************************************)
Reported ==
  /\ worker = "report"
  /\ LET w == Write("PROCESSING", batch)
     IN  IF w \notin writes
         THEN NextBatch(writes)
         ELSE /\ format = "excel" \/ Fault("slow") \/ Fault("redis")
              /\ NextBatch(LeftBehind(w))
  /\ UNCHANGED <<inputs, request, status, queue, run, lock, data, threw, emitted>>

(* Mutant of Completed: the update is not awaited. *)
CompletedUnawaited ==
  /\ worker = "completing"
  /\ emitted' = emitted \union {<<"completed", run>>}
  /\ worker' = "return"
  /\ UNCHANGED <<inputs, request, status, queue, run, lock, batch, writes, data,
                 finished, threw>>

(* The outcome is written, then told to the notification service. *)
Completed ==
  /\ worker = "completing"
  /\ Awaited(Write("COMPLETED", Batches + 1))
  /\ emitted' = emitted \union {<<"completed", run>>}
  /\ worker' = "return"
  /\ UNCHANGED <<inputs, request, status, queue, run, lock, batch, data,
                 finished, threw>>

Failed ==
  /\ worker = "failing"
  /\ Awaited(Write("FAILED", Batches + 1))
  /\ emitted' = emitted \union {<<"failed", run>>}
  /\ worker' = "rethrow"
  /\ UNCHANGED <<inputs, request, status, queue, run, lock, batch, data,
                 finished, threw>>

------------------------------------------------------------------------------
(* Bull.  It believes a run only while the run holds the job's lock.       *)

EndRun ==
  /\ worker' = "idle"
  /\ lock' = FALSE
  /\ UNCHANGED <<inputs, request, status, stalls, run, batch, writes, data,
                 history>>

Return ==
  /\ worker = "return"
  /\ job' = IF lock THEN "completed" ELSE job
  /\ EndRun
  /\ UNCHANGED attempts

(* Mutant of Rethrow: a failed job is always tried again. *)
RethrowEndless ==
  /\ worker = "rethrow"
  /\ IF lock THEN attempts' = attempts + 1 /\ job' = "delayed"
             ELSE UNCHANGED <<attempts, job>>
  /\ EndRun

Rethrow ==
  /\ worker = "rethrow"
  /\ IF lock THEN /\ attempts' = attempts + 1
                  /\ job' = IF attempts' < Attempts THEN "delayed" ELSE "failed"
             ELSE UNCHANGED <<attempts, job>>
  /\ EndRun

(* The exponential backoff is over. *)
Promote ==
  /\ job = "delayed"
  /\ job' = "waiting"
  /\ UNCHANGED <<inputs, request, status, attempts, stalls, processor>>

(***************************************************************************)
(* The check for stalled jobs, every 30 s: the lock of an active job has   *)
(* expired, because its process ended or because its event loop was        *)
(* blocked and could not renew it.  In the second case the run goes on.    *)
(***************************************************************************)
Stalled ==
  /\ job = "active"
  /\ lock => Fault("stall")
  /\ stalls' = stalls + 1
  /\ job' = IF stalls' > MaxStalls THEN "failed" ELSE "waiting"
  /\ lock' = FALSE
  /\ UNCHANGED <<inputs, request, status, attempts, worker, run, batch, writes,
                 data, history>>

(***************************************************************************)
(* The file-processing service ends and starts again.  A status write it   *)
(* had begun may have been committed or not, and so may the batch it was   *)
(* waiting for.                                                            *)
(***************************************************************************)
Crash ==
  /\ Fault("crash")
  /\ crashes < MaxCrashes
  /\ worker # "idle" \/ service \notin {"done", "dead"}
  /\ crashes' = crashes + 1
  /\ service' = IF service = "done" THEN "done" ELSE "dead"
  /\ worker' = "idle"
  /\ lock' = FALSE
  /\ writes' \in SUBSET writes
  /\ \/ UNCHANGED overdue
     \/ /\ worker = "call"
        /\ Cardinality(overdue) < MaxOverdue
        /\ overdue' = overdue \union {<<run, batch>>}
  /\ UNCHANGED <<inputs, client, gridfs, status, queue, run, batch, stored,
                 history>>

------------------------------------------------------------------------------
Handler ==
  StoreFile \/ CreateRecord \/ Enqueue \/ Cleanup \/ Reply \/ GatewayGivesUp

RunStep ==
  \/ CheckFile \/ Marked \/ ReadFile \/ CallSucceeds \/ CallFails \/ Reported
  \/ Completed \/ Failed \/ Return \/ Rethrow

Settle == \E w \in writes : Apply(w) \/ Discard(w)

Next ==
  \/ Handler
  \/ Take
  \/ RunStep
  \/ Settle
  \/ \E late \in overdue : StoredLate(late)
  \/ Promote
  \/ Stalled
  \/ Crash

(***************************************************************************)
(* The event loop runs the handler and the processor; Bull delivers,       *)
(* promotes and finds the jobs whose lock is gone.  MongoDB answers by     *)
(* itself only where nothing is slow: otherwise only the timeouts of the   *)
(* code count.                                                             *)
(***************************************************************************)
Fairness ==
  /\ WF_vars(Handler)
  /\ WF_vars(Take)
  /\ WF_vars(RunStep)
  /\ WF_vars(Promote)
  /\ WF_vars(Stalled /\ ~lock)
  /\ Fault("slow") \/ WF_vars(Settle)

Spec == Init /\ [][Next]_vars /\ Fairness

------------------------------------------------------------------------------
(* Types, by the part of the system the variables belong to. *)
RequestType ==
  /\ faults \subseteq FaultKind
  /\ format \in {"csv", "excel"}
  /\ readable \in BOOLEAN
  /\ client \in {"waiting", "accepted", "refused"}
  /\ service \in {"store", "record", "enqueue", "cleanup", "accept", "reject",
                  "done", "dead"}
  /\ gridfs \in BOOLEAN
  /\ crashes \in 0..MaxCrashes

QueueType ==
  /\ job \in {"none", "waiting", "active", "delayed", "completed", "failed"}
  /\ attempts \in 0..Attempts
  /\ stalls \in 0..(MaxStalls + 1)
  /\ lock \in BOOLEAN

RunType ==
  /\ worker \in {"idle", "check", "mark", "read", "call", "report",
                 "completing", "failing", "return", "rethrow"}
  /\ run \in Nat
  /\ batch \in 0..Batches

StatusType ==
  /\ status \in {"none", "PENDING", "PROCESSING", "COMPLETED", "FAILED"}
  /\ writes \subseteq WriteType

DataType ==
  /\ stored \in [1..Batches -> Nat]
  /\ overdue \subseteq Nat \X (1..Batches)

HistoryType ==
  /\ finished \subseteq Nat
  /\ threw \subseteq Nat
  /\ emitted \subseteq {"completed", "failed"} \X Nat

TypeOK ==
  RequestType /\ QueueType /\ RunType /\ StatusType /\ DataType /\ HistoryType

(***************************************************************************)
(* A job never exists without its status document, and an upload the user  *)
(* was told is queued has its job, and its file for as long as the job may *)
(* need it, whatever failed in which order.                                *)
(***************************************************************************)
AcceptedUploadIsWhole ==
  /\ job # "none" => status # "none"
  /\ client = "accepted" => job # "none" /\ gridfs

(***************************************************************************)
(* Nothing makes an import idempotent: a run inserts every batch again.    *)
(* What the queue guarantees is a bound: a batch is in the database at     *)
(* most once per run, and there are at most Attempts + MaxStalls runs.     *)
(***************************************************************************)
Late(b) == {late \in overdue : late[2] = b}

Insertions(b) == stored[b] + Cardinality(Late(b))

DuplicatesAreBounded ==
  /\ run <= Attempts + MaxStalls
  /\ \A b \in 1..Batches : Insertions(b) <= run

(***************************************************************************)
(* The status never tells of an outcome that did not happen, and neither   *)
(* do the events: COMPLETED only after a run went through the whole file,  *)
(* FAILED only after a run threw.                                          *)
(***************************************************************************)
OutcomeHappened ==
  /\ status = "COMPLETED" => finished # {}
  /\ status = "FAILED" => threw # {}
  /\ \A e \in emitted :
       e[2] \in (IF e[1] = "completed" THEN finished ELSE threw)
  /\ job = "completed" => finished # {}
  /\ finished \cap threw = {}

(***************************************************************************)
(* With MongoDB reliable and the process alive, a CSV upload whose job is  *)
(* over shows the outcome of that job, and so does one between two tries.  *)
(* (For Excel this fails: see CompletedStatusStays.)                       *)
(***************************************************************************)
CalmCsv == format = "csv" /\ faults \subseteq {"call"}

StatusTellsOutcome ==
  CalmCsv /\ worker = "idle" =>
    /\ job = "completed" => status = "COMPLETED"
    /\ job \in {"delayed", "failed"} => status = "FAILED"

(***************************************************************************)
(* The user's request is answered, and a job that was queued reaches an    *)
(* end: no status write, call or lost lock keeps it from there.            *)
(***************************************************************************)
RequestIsAnswered == <>(client # "waiting")

JobSettles == job # "none" ~> job \in {"completed", "failed"}

(***************************************************************************)
(* "Current status" (FileStatusResponseDto): once the job is completed the *)
(* status document does not go back to PROCESSING.                         *)
(***************************************************************************)
CompletedStatusStays ==
  [][job = "completed" /\ status = "COMPLETED" => status' = "COMPLETED"]_vars

(***************************************************************************)
(* "Dead Letter Queue: Failed job handling" (README): a job that Bull      *)
(* gives up is handled, so that its upload shows FAILED, also when Bull    *)
(* gives it up as stalled and no run of it ever threw.                     *)
(***************************************************************************)
FailedJobIsHandled == job = "failed" /\ threw = {} ~> status = "FAILED"

------------------------------------------------------------------------------
(***************************************************************************)
(* Why it holds: an inductive invariant, one part for each of the three    *)
(* invariants above.  A request knows of no job before it queues one, and  *)
(* a file is deleted only on the way to a refusal.                         *)
(***************************************************************************)
RequestInOrder ==
  /\ service \in {"store", "record", "enqueue"} => job = "none"
  /\ service \in {"record", "enqueue", "accept"} => gridfs
  /\ service = "enqueue" => status # "none"
  /\ service = "accept" => job # "none"
  /\ client = "accepted" => service = "done"
  /\ AcceptedUploadIsWhole

(* A run ends by completing the job, by using up an attempt or by stalling. *)
RunsCounted ==
  /\ lock => job = "active"
  /\ run = attempts + stalls + IF job \in {"active", "completed"} THEN 1 ELSE 0
  /\ job # "failed" => attempts < Attempts /\ stalls <= MaxStalls
  /\ job = "failed" => attempts + stalls <= Attempts + MaxStalls

(* Has the current run yet to insert batch b? *)
Ahead(b) ==
  \/ worker \in {"check", "mark", "read"}
  \/ worker = "call" /\ batch <= b
  \/ worker = "report" /\ batch < b

InsertsCounted ==
  /\ IsFiniteSet(overdue)
  /\ worker \in {"call", "report"} => batch \in 1..Batches
  /\ \A b \in 1..Batches :
       /\ Insertions(b) <= run
       /\ Ahead(b) => Insertions(b) < run

(* One outcome for each run: the one its place in the code tells. *)
Decided ==
  /\ \A r \in finished \union threw : r <= run
  /\ worker \in {"completing", "return"} => run \in finished
  /\ worker \in {"failing", "rethrow"} => run \in threw
  /\ worker \in {"check", "mark", "read", "call", "report"} =>
       run \notin finished \union threw
  /\ finished \cap threw = {}

(* An outcome is decided once for each run, before anything tells of it. *)
OutcomesDecided ==
  /\ Decided
  /\ \A w \in writes :
       /\ w.status = "COMPLETED" => w.run \in finished
       /\ w.status = "FAILED" => w.run \in threw
  /\ OutcomeHappened

IInv ==
  /\ TypeOK
  /\ RequestInOrder
  /\ RunsCounted
  /\ InsertsCounted
  /\ OutcomesDecided
==============================================================================
