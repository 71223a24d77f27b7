------------------------- MODULE UploadPipelineProofs -------------------------
(***************************************************************************)
(* Theorems about UploadPipeline, for every number of batches, attempts    *)
(* and stalls, and every set of faults.                                    *)
(***************************************************************************)
EXTENDS UploadPipeline, FiniteSetTheorems, TLAPS

------------------------------------------------------------------------------
(* What the groups of actions leave alone. *)

LEMMA HandlerFrame ==
  Handler => UNCHANGED <<inputs, attempts, stalls, crashes, processor>>
BY DEF Handler, StoreFile, UploadFile, CreateRecord, Enqueue, Cleanup, DeleteFile, Reply,
       GatewayGivesUp, queue

LEMMA RunFrame ==
  RunStep => UNCHANGED <<inputs, request, status, stalls, run>>
<1>1. CheckFile \/ ReadFile => UNCHANGED <<inputs, request, status, stalls, run>>
  BY DEF CheckFile, ReadFile, Throw, queue
<1>2. Marked \/ Completed \/ Failed => UNCHANGED <<inputs, request, status, stalls, run>>
  BY DEF Marked, Completed, Failed, queue
<1>3. CallSucceeds \/ CallFails \/ Reported
        => UNCHANGED <<inputs, request, status, stalls, run>>
  BY DEF CallSucceeds, CallFails, Reported, queue
<1>4. Return \/ Rethrow => UNCHANGED <<inputs, request, status, stalls, run>>
  BY DEF Return, Rethrow, EndRun
<1> QED
  BY <1>1, <1>2, <1>3, <1>4 DEF RunStep

(* A run that goes on leaves the queue alone. *)
LEMMA RunQueueFrame ==
  RunStep /\ ~Return /\ ~Rethrow => UNCHANGED <<job, attempts, stalls, lock>>
<1>1. CheckFile \/ ReadFile => UNCHANGED <<job, attempts, stalls, lock>>
  BY DEF CheckFile, ReadFile, Throw, queue
<1>2. Marked \/ Completed \/ Failed => UNCHANGED <<job, attempts, stalls, lock>>
  BY DEF Marked, Completed, Failed, queue
<1>3. CallSucceeds \/ CallFails \/ Reported => UNCHANGED <<job, attempts, stalls, lock>>
  BY DEF CallSucceeds, CallFails, Reported, queue
<1> QED
  BY <1>1, <1>2, <1>3 DEF RunStep

LEMMA SettleFrame ==
  ASSUME NEW w, Apply(w) \/ Discard(w)
  PROVE  UNCHANGED <<inputs, request, queue, worker, run, lock, batch, data, history>>
BY DEF Apply, Discard

------------------------------------------------------------------------------
(* Types. *)

LEMMA InitType == Init => TypeOK
<1> SUFFICES ASSUME Init PROVE TypeOK
  OBVIOUS
<1>1. RequestType
  <2>1. faults \subseteq FaultKind /\ format \in {"csv", "excel"} /\ crashes \in 0..MaxCrashes
    BY UploadPipelineAssumption DEF Init
  <2>2. readable \in BOOLEAN /\ gridfs \in BOOLEAN
    BY DEF Init
  <2>3. client = "waiting" /\ service = "store"
    BY DEF Init
  <2> QED
    BY <2>1, <2>2, <2>3 DEF RequestType
<1>2. QueueType
  <2>1. attempts \in 0..Attempts /\ stalls \in 0..(MaxStalls + 1)
    BY UploadPipelineAssumption DEF Init
  <2>2. lock \in BOOLEAN
    BY DEF Init
  <2>3. job = "none"
    BY DEF Init
  <2> QED
    BY <2>1, <2>2, <2>3 DEF QueueType
<1>3. RunType
  BY UploadPipelineAssumption DEF Init, RunType
<1>4. StatusType
  BY DEF Init, StatusType
<1>5. DataType
  <2>1. stored \in [1..Batches -> Nat]
    BY DEF Init
  <2>2. overdue = {}
    BY DEF Init
  <2> QED
    BY <2>1, <2>2 DEF DataType
<1>6. HistoryType
  <2>1. finished = {} /\ threw = {} /\ emitted = {}
    BY DEF Init
  <2> QED
    BY <2>1 DEF HistoryType
<1> QED
  BY <1>1, <1>2, <1>3, <1>4, <1>5, <1>6 DEF TypeOK

LEMMA RequestTypeStep ==
  ASSUME RequestType, [Next]_vars
  PROVE  RequestType'
<1>1. CASE Handler
  <2>1. UNCHANGED <<faults, format, readable, crashes>>
    BY <1>1, HandlerFrame DEF inputs
  <2>2. /\ client' \in {"waiting", "accepted", "refused"}
        /\ service' \in {"store", "record", "enqueue", "cleanup", "accept",
                         "reject", "done", "dead"}
        /\ gridfs' \in BOOLEAN
    BY <1>1 DEF RequestType, Handler, StoreFile, UploadFile, CreateRecord, Enqueue, Cleanup, DeleteFile,
                Reply, GatewayGivesUp
  <2> QED
    BY <2>1, <2>2 DEF RequestType
<1>2. CASE Crash
  BY <1>2, UploadPipelineAssumption DEF Crash, RequestType, inputs
<1>3. CASE UNCHANGED <<inputs, request>>
  BY <1>3 DEF inputs, request, RequestType
<1>4. Take \/ Promote \/ Stalled \/ (\E late \in overdue : StoredLate(late))
        => UNCHANGED <<inputs, request>>
  BY DEF Take, Promote, Stalled, StoredLate
<1>5. UNCHANGED vars => UNCHANGED <<inputs, request>>
  BY DEF vars, inputs, request
<1> QED
  BY <1>1, <1>2, <1>3, <1>4, <1>5, RunFrame, SettleFrame DEF Next, Settle

(***************************************************************************)
(* The queue: its counters stay within their limits, and count the runs.   *)
(***************************************************************************)
(* A job that waits, and one that Bull gave up, with every run accounted for. *)
LEMMA QueueCounted ==
  ASSUME job' \in {"waiting", "delayed"}, lock' = FALSE,
         attempts' \in 0..(Attempts - 1), stalls' \in 0..MaxStalls,
         run' = attempts' + stalls'
  PROVE  QueueType' /\ RunsCounted'
<1>1. /\ attempts' \in 0..Attempts /\ attempts' < Attempts
      /\ stalls' \in 0..(MaxStalls + 1) /\ stalls' <= MaxStalls
  BY UploadPipelineAssumption
<1>2. lock' \in BOOLEAN /\ ~lock'
  OBVIOUS
<1>3. job' \notin {"active", "completed", "failed"}
  OBVIOUS
<1>4. QueueType'
  BY <1>1, <1>2 DEF QueueType
<1>5. RunsCounted'
  BY <1>1, <1>2, <1>3 DEF RunsCounted
<1> QED
  BY <1>4, <1>5

LEMMA QueueGivenUp ==
  ASSUME job' = "failed", lock' = FALSE,
         attempts' \in 0..Attempts, stalls' \in 0..(MaxStalls + 1),
         attempts' + stalls' <= Attempts + MaxStalls,
         run' = attempts' + stalls'
  PROVE  QueueType' /\ RunsCounted'
<1>1. attempts' \in Nat /\ stalls' \in Nat
  BY UploadPipelineAssumption
<1>2. QueueType'
  BY UploadPipelineAssumption DEF QueueType
<1>3. run' = attempts' + stalls' + 0
  BY <1>1
<1>4. RunsCounted'
  BY <1>3 DEF RunsCounted
<1> QED
  BY <1>2, <1>4

LEMMA QueueStep ==
  ASSUME QueueType, RunType, RequestInOrder, RunsCounted, [Next]_vars
  PROVE  QueueType' /\ RunsCounted'
<1>1. CASE Enqueue
  <2>1. job = "none" /\ job' \in {"none", "waiting"}
    BY <1>1 DEF Enqueue, RequestInOrder
  <2>2. UNCHANGED <<attempts, stalls, lock, run>>
    BY <1>1 DEF Enqueue, processor
  <2> QED
    BY <2>1, <2>2 DEF QueueType, RunsCounted
<1>2. CASE Take
  <2>1. /\ job = "waiting" /\ job' = "active"
        /\ run' = run + 1 /\ lock' = TRUE
        /\ UNCHANGED <<attempts, stalls>>
    BY <1>2 DEF Take
  <2> QED
    BY <2>1, UploadPipelineAssumption DEF QueueType, RunType, RunsCounted
<1>3. CASE Return
  <2>1. /\ job' = IF lock THEN "completed" ELSE job
        /\ lock' = FALSE
        /\ UNCHANGED <<attempts, stalls, run>>
    BY <1>3 DEF Return, EndRun
  <2> QED
    BY <2>1, UploadPipelineAssumption DEF QueueType, RunType, RunsCounted
<1>4. CASE Rethrow
  <2>1. /\ IF lock THEN /\ attempts' = attempts + 1
                       /\ job' = IF attempts' < Attempts THEN "delayed" ELSE "failed"
                  ELSE UNCHANGED <<attempts, job>>
        /\ lock' = FALSE
        /\ UNCHANGED <<stalls, run>>
    BY <1>4 DEF Rethrow, EndRun
  <2>2. CASE ~lock
    BY <2>1, <2>2 DEF QueueType, RunsCounted
  <2>3. CASE lock
    <3>1. job = "active" /\ attempts \in 0..(Attempts - 1) /\ stalls \in 0..MaxStalls
      BY <2>3, UploadPipelineAssumption DEF QueueType, RunsCounted
    <3>2. attempts' = attempts + 1 /\ run = attempts + stalls + 1
      BY <2>1, <2>3, <3>1 DEF RunsCounted
    <3>3. CASE attempts' < Attempts
      <4>1. job' = "delayed"
        BY <2>1, <2>3, <3>3
      <4>2. /\ attempts' \in 0..(Attempts - 1) /\ stalls' \in 0..MaxStalls
            /\ run' = attempts' + stalls'
        BY <2>1, <3>1, <3>2, <3>3, UploadPipelineAssumption
      <4> QED
        BY <2>1, <4>1, <4>2, QueueCounted
    <3>4. CASE ~(attempts' < Attempts)
      <4>1. job' = "failed"
        BY <2>1, <2>3, <3>4
      <4>2. /\ attempts' \in 0..Attempts /\ stalls' \in 0..(MaxStalls + 1)
            /\ attempts' + stalls' <= Attempts + MaxStalls
            /\ run' = attempts' + stalls'
        BY <2>1, <3>1, <3>2, UploadPipelineAssumption
      <4> QED
        BY <2>1, <4>1, <4>2, QueueGivenUp
    <3> QED
      BY <3>3, <3>4
  <2> QED
    BY <2>2, <2>3
<1>5. CASE Promote
  <2>1. job = "delayed" /\ job' = "waiting" /\ UNCHANGED <<attempts, stalls, run, lock>>
    BY <1>5 DEF Promote, processor
  <2> QED
    BY <2>1 DEF QueueType, RunsCounted
<1>6. CASE Stalled
  <2>1. /\ job = "active" /\ stalls' = stalls + 1
        /\ job' = IF stalls' > MaxStalls THEN "failed" ELSE "waiting"
        /\ lock' = FALSE
        /\ UNCHANGED <<attempts, run>>
    BY <1>6 DEF Stalled
  <2>2. /\ attempts \in 0..(Attempts - 1) /\ stalls \in 0..MaxStalls
        /\ run = attempts + stalls + 1
    BY <2>1, UploadPipelineAssumption DEF QueueType, RunsCounted
  <2>3. CASE stalls' > MaxStalls
    <3>1. job' = "failed"
      BY <2>1, <2>3
    <3>2. /\ attempts' \in 0..Attempts /\ stalls' \in 0..(MaxStalls + 1)
          /\ attempts' + stalls' <= Attempts + MaxStalls
          /\ run' = attempts' + stalls'
      BY <2>1, <2>2, UploadPipelineAssumption
    <3> QED
      BY <2>1, <3>1, <3>2, QueueGivenUp
  <2>4. CASE ~(stalls' > MaxStalls)
    <3>1. job' = "waiting"
      BY <2>1, <2>4
    <3>2. /\ attempts' \in 0..(Attempts - 1) /\ stalls' \in 0..MaxStalls
          /\ run' = attempts' + stalls'
      BY <2>1, <2>2, <2>4, UploadPipelineAssumption
    <3> QED
      BY <2>1, <3>1, <3>2, QueueCounted
  <2> QED
    BY <2>3, <2>4
<1>7. CASE Crash
  <2>1. lock' = FALSE /\ UNCHANGED <<job, attempts, stalls, run>>
    BY <1>7 DEF Crash, queue
  <2> QED
    BY <2>1 DEF QueueType, RunsCounted
<1>8. CASE UNCHANGED <<job, attempts, stalls, lock, run>>
  BY <1>8 DEF QueueType, RunsCounted
<1>9. Handler /\ ~Enqueue => UNCHANGED <<job, attempts, stalls, lock, run>>
  BY DEF Handler, StoreFile, UploadFile, CreateRecord, Cleanup, DeleteFile, Reply, GatewayGivesUp,
         queue, processor
<1>10. RunStep /\ ~Return /\ ~Rethrow => UNCHANGED <<job, attempts, stalls, lock, run>>
  BY RunFrame, RunQueueFrame
<1>11. (\E late \in overdue : StoredLate(late)) \/ Settle
         => UNCHANGED <<job, attempts, stalls, lock, run>>
  BY SettleFrame DEF StoredLate, Settle, queue
<1>12. UNCHANGED vars => UNCHANGED <<job, attempts, stalls, lock, run>>
  BY DEF vars
<1> QED
  BY <1>1, <1>2, <1>3, <1>4, <1>5, <1>6, <1>7, <1>8, <1>9, <1>10, <1>11, <1>12
     DEF Next

------------------------------------------------------------------------------
(* The runs. *)

LEMMA RunTypeStep ==
  ASSUME RunType, [Next]_vars
  PROVE  RunType'
<1>1. CASE Take
  BY <1>1, UploadPipelineAssumption DEF Take, RunType
<1>2. CASE CheckFile \/ Marked
  <2>1. worker' \in {"mark", "failing", "read"} /\ UNCHANGED <<run, batch>>
    BY <1>2 DEF CheckFile, Marked, Throw
  <2> QED
    BY <2>1 DEF RunType
<1>3. CASE ReadFile
  <2>1. worker' \in {"call", "failing"} /\ UNCHANGED run /\ batch' \in {1, batch}
    BY <1>3 DEF ReadFile, Throw
  <2> QED
    BY <2>1, UploadPipelineAssumption DEF RunType
<1>4. CASE CallSucceeds \/ CallFails \/ Reported
  <2>1. batch \in 0..Batches /\ Batches \in Nat
    BY UploadPipelineAssumption DEF RunType
  <2>2. ASSUME NEW left, NextBatch(left)
        PROVE  worker' \in {"call", "completing"} /\ batch' \in 0..Batches
    <3>1. CASE batch < Batches
      BY <2>1, <2>2, <3>1 DEF NextBatch
    <3>2. CASE ~(batch < Batches)
      BY <2>1, <2>2, <3>2 DEF NextBatch
    <3> QED
      BY <3>1, <3>2
  <2>3. UNCHANGED run
    BY <1>4, RunFrame DEF RunStep
  <2>4. worker' \in {"call", "completing", "report"} /\ batch' \in 0..Batches
    BY <1>4, <2>1, <2>2 DEF CallSucceeds, CallFails, Reported
  <2> QED
    BY <2>3, <2>4 DEF RunType
<1>5. CASE Completed \/ Failed \/ Return \/ Rethrow \/ Crash
  <2>1. worker' \in {"return", "rethrow", "idle"} /\ UNCHANGED <<run, batch>>
    BY <1>5 DEF Completed, Failed, Return, Rethrow, EndRun, Crash
  <2> QED
    BY <2>1 DEF RunType
<1>6. CASE UNCHANGED <<worker, run, batch>>
  BY <1>6 DEF RunType
<1>7. Handler \/ Promote \/ Stalled \/ (\E late \in overdue : StoredLate(late)) \/ Settle
        => UNCHANGED <<worker, run, batch>>
  BY HandlerFrame, SettleFrame DEF Promote, Stalled, StoredLate, Settle, processor
<1>8. UNCHANGED vars => UNCHANGED <<worker, run, batch>>
  BY DEF vars
<1> QED
  BY <1>1, <1>2, <1>3, <1>4, <1>5, <1>6, <1>7, <1>8 DEF Next, RunStep

(* Giving up on a write adds none. *)
LEMMA NothingAwaited ==
  ASSUME NEW w
  PROVE  /\ LeftBehind(w) \subseteq writes
         /\ Awaited(w) => writes' \subseteq writes
BY DEF LeftBehind, Awaited

LEMMA WriteIsTyped ==
  ASSUME RunType, NEW s \in {"PROCESSING", "COMPLETED", "FAILED"},
         NEW place \in 0..(Batches + 1)
  PROVE  /\ Write(s, place) \in WriteType
         /\ Write(s, place).run = run /\ Write(s, place).status = s
BY DEF Write, WriteType, RunType

(* A run begins writes of its own, and that of an outcome once it is decided. *)
LEMMA RunWrites ==
  ASSUME RunType, RunStep, NEW w \in writes', w \notin writes
  PROVE  /\ w \in WriteType
         /\ w.run = run
         /\ w.status = "COMPLETED" => run \in finished'
         /\ w.status = "FAILED" => run \in threw'
<1> USE UploadPipelineAssumption
<1>1. ASSUME NEW place \in 0..(Batches + 1), w = Write("PROCESSING", place)
      PROVE  /\ w \in WriteType /\ w.run = run
             /\ w.status # "COMPLETED" /\ w.status # "FAILED"
  BY <1>1, WriteIsTyped
<1>2. CASE CheckFile \/ ReadFile
  <2>1. CASE w = Write("PROCESSING", 0)
    BY <1>1, <2>1
  <2>2. CASE Throw /\ w = Write("FAILED", Batches + 1)
    <3>1. run \in threw'
      BY <2>2 DEF Throw
    <3>2. w \in WriteType /\ w.run = run /\ w.status = "FAILED"
      BY <2>2, WriteIsTyped
    <3> QED
      BY <3>1, <3>2
  <2> QED
    BY <1>2, <2>1, <2>2 DEF CheckFile, ReadFile, Throw
<1>3. ~Marked /\ ~Completed /\ ~Failed /\ ~Return /\ ~Rethrow
  BY NothingAwaited DEF Marked, Completed, Failed, Return, Rethrow, EndRun
<1>4. ASSUME NEW left, NextBatch(left), left \subseteq writes
      PROVE  /\ w \in WriteType /\ w.run = run
             /\ w.status = "COMPLETED" => run \in finished'
             /\ w.status # "FAILED"
  <2>1. run \in finished' /\ w = Write("COMPLETED", Batches + 1)
    BY <1>4 DEF NextBatch
  <2>2. w \in WriteType /\ w.run = run /\ w.status = "COMPLETED"
    BY <2>1, WriteIsTyped
  <2> QED
    BY <2>1, <2>2
<1>5. CASE CallSucceeds
  <2>1. CASE w = Write("PROCESSING", batch)
    BY <1>1, <2>1 DEF RunType
  <2>2. CASE NextBatch(writes)
    BY <1>4, <2>2
  <2> QED
    BY <1>5, <2>1, <2>2 DEF CallSucceeds
<1>6. CASE CallFails
  BY <1>4, <1>6 DEF CallFails
<1>7. CASE Reported
  BY <1>4, <1>7, NothingAwaited DEF Reported
<1> QED
  BY <1>2, <1>3, <1>5, <1>6, <1>7 DEF RunStep

LEMMA StatusTypeStep ==
  ASSUME StatusType, RunType, [Next]_vars
  PROVE  StatusType'
<1> DEFINE Status == {"none", "PENDING", "PROCESSING", "COMPLETED", "FAILED"}
<1>1. CASE Handler
  <2>1. UNCHANGED writes
    BY <1>1, HandlerFrame DEF processor
  <2>2. status' \in Status
    BY <1>1 DEF Handler, StoreFile, UploadFile, CreateRecord, Enqueue, Cleanup, DeleteFile, Reply,
                GatewayGivesUp, StatusType
  <2> QED
    BY <2>1, <2>2 DEF StatusType
<1>2. CASE RunStep
  <2>1. UNCHANGED status
    BY <1>2, RunFrame
  <2>2. writes' \subseteq WriteType
    BY <1>2, RunWrites DEF StatusType
  <2> QED
    BY <2>1, <2>2 DEF StatusType
<1>3. CASE Settle
  <2>1. PICK w \in writes : Apply(w) \/ Discard(w)
    BY <1>3 DEF Settle
  <2>2. writes' \subseteq writes /\ status' \in {status, w.status}
    BY <2>1 DEF Apply, Discard
  <2>3. w.status \in {"PROCESSING", "COMPLETED", "FAILED"}
    BY DEF StatusType, WriteType
  <2> QED
    BY <2>2, <2>3 DEF StatusType
<1>4. CASE Crash
  BY <1>4 DEF Crash, StatusType
<1>5. CASE UNCHANGED <<status, writes>>
  BY <1>5 DEF StatusType
<1>6. Take \/ Promote \/ Stalled \/ (\E late \in overdue : StoredLate(late))
        => UNCHANGED <<status, writes>>
  BY DEF Take, Promote, Stalled, StoredLate, processor
<1>7. UNCHANGED vars => UNCHANGED <<status, writes>>
  BY DEF vars
<1> QED
  BY <1>1, <1>2, <1>3, <1>4, <1>5, <1>6, <1>7 DEF Next

LEMMA HistoryTypeStep ==
  ASSUME HistoryType, RunType, [Next]_vars
  PROVE  HistoryType'
<1>1. run \in Nat
  BY DEF RunType
<1>2. CASE CheckFile \/ ReadFile
  BY <1>1, <1>2 DEF CheckFile, ReadFile, Throw, HistoryType, history
<1>3. CASE CallSucceeds \/ CallFails \/ Reported
  <2>1. finished' \subseteq finished \union {run} /\ UNCHANGED <<threw, emitted>>
    BY <1>3 DEF CallSucceeds, CallFails, Reported, NextBatch
  <2> QED
    BY <1>1, <2>1 DEF HistoryType
<1>4. CASE Completed \/ Failed
  <2>1. /\ UNCHANGED <<finished, threw>>
        /\ emitted' \subseteq emitted \union {<<"completed", run>>, <<"failed", run>>}
    BY <1>4 DEF Completed, Failed
  <2> QED
    BY <1>1, <2>1 DEF HistoryType
<1>5. CASE UNCHANGED history
  BY <1>5 DEF history, HistoryType
<1>6. Handler => UNCHANGED history
  BY HandlerFrame DEF processor, history
<1>7. Settle \/ Promote => UNCHANGED history
  BY SettleFrame DEF Settle, Promote, processor, history
<1>8. Take \/ Marked \/ Return \/ Rethrow \/ Stalled \/ Crash
      \/ (\E late \in overdue : StoredLate(late)) => UNCHANGED history
  BY DEF Take, Marked, Return, Rethrow, EndRun, Stalled, Crash, StoredLate
<1>9. UNCHANGED vars => UNCHANGED history
  BY DEF vars, history
<1> QED
  BY <1>2, <1>3, <1>4, <1>5, <1>6, <1>7, <1>8, <1>9 DEF Next, RunStep

------------------------------------------------------------------------------
(* The batches: what is stored, and what may still be. *)

LEMMA LateIsFinite ==
  ASSUME IsFiniteSet(overdue), NEW b
  PROVE  IsFiniteSet(Late(b)) /\ Cardinality(Late(b)) \in Nat
<1>1. Late(b) \subseteq overdue
  BY DEF Late
<1>2. IsFiniteSet(Late(b))
  BY <1>1, FS_Subset
<1> QED
  BY <1>2, FS_CardinalityType

(* A call of batch c makes one insertion of c at most, and none of another. *)
LEMMA CallInserts ==
  ASSUME DataType, RunType, IsFiniteSet(overdue), NEW c \in 1..Batches,
         \/ UNCHANGED data
         \/ stored' = [stored EXCEPT ![c] = @ + 1] /\ UNCHANGED overdue
         \/ UNCHANGED stored /\ overdue' = overdue \union {<<run, c>>}
  PROVE  /\ DataType' /\ IsFiniteSet(overdue')
         /\ \A b \in 1..Batches :
              /\ Insertions(b)' <= Insertions(b) + 1
              /\ b # c => Insertions(b)' <= Insertions(b)
<1>1. stored \in [1..Batches -> Nat] /\ run \in Nat
  BY DEF DataType, RunType
<1>2. CASE UNCHANGED data
  <2>1. /\ UNCHANGED <<stored, overdue>>
        /\ \A b \in 1..Batches : Late(b)' = Late(b)
    BY <1>2 DEF data, Late
  <2> QED
    BY <1>1, <2>1, LateIsFinite DEF DataType, Insertions
<1>3. CASE stored' = [stored EXCEPT ![c] = @ + 1] /\ UNCHANGED overdue
  <2>1. \A b \in 1..Batches : Late(b)' = Late(b)
    BY <1>3 DEF Late
  <2> QED
    BY <1>1, <1>3, <2>1, LateIsFinite DEF DataType, Insertions
<1>4. CASE UNCHANGED stored /\ overdue' = overdue \union {<<run, c>>}
  <2>1. DataType'
    BY <1>1, <1>4 DEF DataType
  <2>2. IsFiniteSet(overdue')
    BY <1>4, FS_AddElement
  <2>3. ASSUME NEW b \in 1..Batches, b # c
        PROVE  Late(b)' = Late(b)
    BY <1>4, <2>3 DEF Late
  <2>4. Late(c)' = Late(c) \union {<<run, c>>}
    BY <1>4 DEF Late
  <2>5. Cardinality(Late(c)') <= Cardinality(Late(c)) + 1
    <3>1. Cardinality(Late(c)) \in Nat /\ IsFiniteSet(Late(c))
      BY LateIsFinite
    <3>2. Cardinality(Late(c)') \in {Cardinality(Late(c)), Cardinality(Late(c)) + 1}
      BY <2>4, <3>1, FS_AddElement
    <3> QED
      BY <3>1, <3>2
  <2>6. Cardinality(Late(c)') \in Nat
    BY <2>4, LateIsFinite, FS_AddElement, FS_CardinalityType
  <2>7. Insertions(c)' <= Insertions(c) + 1
    <3>1. stored[c] \in Nat /\ stored'[c] = stored[c] /\ Cardinality(Late(c)) \in Nat
      BY <1>1, <1>4, LateIsFinite
    <3> QED
      BY <2>5, <2>6, <3>1 DEF Insertions
  <2>8. ASSUME NEW b \in 1..Batches
        PROVE  Insertions(b) \in Nat
    BY <1>1, LateIsFinite DEF Insertions
  <2>9. ASSUME NEW b \in 1..Batches, b # c
        PROVE  Insertions(b)' = Insertions(b)
    BY <1>4, <2>3, <2>9 DEF Insertions
  <2> QED
    BY <2>1, <2>2, <2>7, <2>8, <2>9
<1> QED
  BY <1>2, <1>3, <1>4

(* A late insertion was counted before it happened. *)
LEMMA LateInserts ==
  ASSUME DataType, IsFiniteSet(overdue), NEW late \in overdue, StoredLate(late)
  PROVE  /\ DataType' /\ IsFiniteSet(overdue')
         /\ \A b \in 1..Batches : Insertions(b)' <= Insertions(b)
<1>1. stored \in [1..Batches -> Nat] /\ late[2] \in 1..Batches
  BY DEF DataType
<1>2. /\ overdue' = overdue \ {late}
      /\ stored' = [stored EXCEPT ![late[2]] = @ + 1] \/ UNCHANGED stored
  BY DEF StoredLate
<1>3. DataType'
  BY <1>1, <1>2 DEF DataType
<1>4. IsFiniteSet(overdue')
  BY <1>2, FS_RemoveElement
<1>5. ASSUME NEW b \in 1..Batches, b # late[2]
      PROVE  Insertions(b)' <= Insertions(b)
  <2>1. Late(b)' = Late(b)
    BY <1>2, <1>5 DEF Late
  <2>2. stored'[b] = stored[b] /\ stored[b] \in Nat
    BY <1>1, <1>2, <1>5
  <2> QED
    BY <2>1, <2>2, LateIsFinite DEF Insertions
<1>6. Insertions(late[2])' <= Insertions(late[2])
  <2>1. Late(late[2])' = Late(late[2]) \ {late} /\ late \in Late(late[2])
    BY <1>2 DEF Late
  <2>2. Cardinality(Late(late[2])') = Cardinality(Late(late[2])) - 1
    BY <2>1, LateIsFinite, FS_RemoveElement
  <2>3. stored[late[2]] \in Nat /\ stored'[late[2]] \in {stored[late[2]], stored[late[2]] + 1}
    BY <1>1, <1>2
  <2>4. Cardinality(Late(late[2])) \in Nat
    BY LateIsFinite
  <2> QED
    BY <2>2, <2>3, <2>4 DEF Insertions
<1> QED
  BY <1>1, <1>3, <1>4, <1>5, <1>6

(***************************************************************************)
(* Where a run may be after a step, as far as its calls are concerned: it  *)
(* never goes back to a batch it has called.                               *)
(***************************************************************************)
Onward ==
  /\ worker' \in {"call", "report"} => batch' \in 1..Batches
  /\ \A b \in 1..Batches : Ahead(b)' => Ahead(b) \/ run' > run
  /\ run' \in Nat /\ run' >= run

LEMMA NextBatchIsOnward ==
  ASSUME RunType, NEW left, NextBatch(left), batch \in 1..Batches, UNCHANGED run
  PROVE  /\ worker' \in {"call", "report"} => batch' \in 1..Batches
         /\ \A b \in 1..Batches : Ahead(b)' => b > batch
         /\ run' \in Nat /\ run' >= run
<1>1. run \in Nat /\ batch \in 1..Batches /\ Batches \in Nat
  BY UploadPipelineAssumption DEF RunType
<1>2. CASE batch < Batches
  <2>1. worker' = "call" /\ batch' = batch + 1
    BY <1>2 DEF NextBatch
  <2> QED
    BY <1>1, <1>2, <2>1 DEF Ahead
<1>3. CASE ~(batch < Batches)
  <2>1. worker' = "completing" /\ UNCHANGED batch
    BY <1>3 DEF NextBatch
  <2> QED
    BY <1>1, <2>1 DEF Ahead
<1> QED
  BY <1>2, <1>3

LEMMA RunIsOnward ==
  ASSUME RunType, InsertsCounted, [Next]_vars
  PROVE  Onward
<1>1. run \in Nat /\ batch \in 0..Batches /\ Batches \in Nat \ {0}
  BY UploadPipelineAssumption DEF RunType
<1>2. CASE Take
  BY <1>1, <1>2 DEF Take, Onward
<1>3. CASE CheckFile \/ Marked
  <2>1. /\ worker \in {"check", "mark"} /\ worker' \in {"mark", "read", "failing"}
        /\ UNCHANGED run
    BY <1>3 DEF CheckFile, Marked, Throw
  <2> QED
    BY <1>1, <2>1 DEF Onward, Ahead
<1>4. CASE ReadFile
  <2>1. worker = "read" /\ UNCHANGED run
    BY <1>4 DEF ReadFile, Throw
  <2>2. CASE Throw
    BY <1>1, <2>1, <2>2 DEF Throw, Onward, Ahead
  <2>3. CASE worker' = "call" /\ batch' = 1
    BY <1>1, <2>1, <2>3 DEF Onward, Ahead
  <2> QED
    BY <1>4, <2>2, <2>3 DEF ReadFile
<1>5. CASE CallSucceeds \/ CallFails \/ Reported
  <2>1. worker \in {"call", "report"} /\ UNCHANGED run
    BY <1>5 DEF CallSucceeds, CallFails, Reported
  <2>2. batch \in 1..Batches
    BY <2>1 DEF InsertsCounted
  <2>3. ASSUME NEW left, NextBatch(left)
        PROVE  Onward
    <3>1. /\ worker' \in {"call", "report"} => batch' \in 1..Batches
          /\ \A b \in 1..Batches : Ahead(b)' => b > batch
          /\ run' \in Nat /\ run' >= run
      BY <2>1, <2>2, <2>3, NextBatchIsOnward
    <3>2. ASSUME NEW b \in 1..Batches, b > batch
          PROVE  Ahead(b)
      BY <2>1, <2>2, <3>2 DEF Ahead
    <3> QED
      BY <3>1, <3>2 DEF Onward
  <2>4. CASE worker = "call" /\ worker' = "report" /\ UNCHANGED batch
    BY <1>1, <2>1, <2>2, <2>4 DEF Onward, Ahead
  <2> QED
    BY <1>5, <2>3, <2>4 DEF CallSucceeds, CallFails, Reported
<1>6. CASE Completed \/ Failed \/ Return \/ Rethrow \/ Crash
  <2>1. worker' \in {"return", "rethrow", "idle"} /\ UNCHANGED run
    BY <1>6 DEF Completed, Failed, Return, Rethrow, EndRun, Crash
  <2> QED
    BY <1>1, <2>1 DEF Onward, Ahead
<1>7. CASE UNCHANGED <<worker, run, batch>>
  BY <1>1, <1>7 DEF Onward, Ahead, InsertsCounted
<1>8. Handler \/ Promote \/ Stalled \/ (\E late \in overdue : StoredLate(late)) \/ Settle
        => UNCHANGED <<worker, run, batch>>
  BY HandlerFrame, SettleFrame DEF Promote, Stalled, StoredLate, Settle, processor
<1>9. UNCHANGED vars => UNCHANGED <<worker, run, batch>>
  BY DEF vars
<1> QED
  BY <1>2, <1>3, <1>4, <1>5, <1>6, <1>7, <1>8, <1>9 DEF Next, RunStep

LEMMA InsertsStep ==
  ASSUME DataType, RunType, InsertsCounted, [Next]_vars
  PROVE  DataType' /\ InsertsCounted'
<1>1. Onward /\ IsFiniteSet(overdue) /\ run \in Nat
  BY RunIsOnward DEF InsertsCounted, RunType
<1>2. ASSUME NEW b \in 1..Batches
      PROVE  Insertions(b) \in Nat
  BY <1>1, LateIsFinite DEF Insertions, DataType
<1>3. ASSUME DataType', IsFiniteSet(overdue'), NEW b \in 1..Batches
      PROVE  Insertions(b)' \in Nat
  <2>1. Late(b)' \subseteq overdue'
    BY DEF Late
  <2>2. Cardinality(Late(b)') \in Nat
    BY <1>3, <2>1, FS_Subset, FS_CardinalityType
  <2> QED
    BY <1>3, <2>2 DEF Insertions, DataType
<1>4. ASSUME DataType', IsFiniteSet(overdue'),
             \A b \in 1..Batches : Insertions(b)' <= Insertions(b)
      PROVE  DataType' /\ InsertsCounted'
  <2>1. ASSUME NEW b \in 1..Batches
        PROVE  Insertions(b)' <= run' /\ (Ahead(b)' => Insertions(b)' < run')
    <3>1. Insertions(b) \in Nat /\ Insertions(b)' \in Nat /\ run' \in Nat
      BY <1>1, <1>2, <1>3, <1>4 DEF Onward
    <3>2. /\ Insertions(b)' <= Insertions(b) /\ Insertions(b) <= run /\ run <= run'
          /\ Ahead(b) => Insertions(b) < run
          /\ Ahead(b)' => Ahead(b) \/ run' > run
      BY <1>1, <1>4 DEF InsertsCounted, Onward
    <3> QED
      BY <1>1, <3>1, <3>2
  <2> QED
    BY <1>1, <1>4, <2>1 DEF InsertsCounted, Onward
<1>5. CASE \E late \in overdue : StoredLate(late)
  BY <1>1, <1>4, <1>5, LateInserts
<1>6. CASE UNCHANGED data
  <2>1. DataType' /\ IsFiniteSet(overdue')
    BY <1>1, <1>6 DEF data, DataType
  <2>2. \A b \in 1..Batches : Insertions(b)' = Insertions(b)
    BY <1>6 DEF data, Insertions, Late
  <2> QED
    BY <1>2, <1>4, <2>1, <2>2
<1>7. CASE CallSucceeds \/ CallFails \/ (Crash /\ worker = "call")
  <2>1. worker = "call" /\ batch \in 1..Batches /\ UNCHANGED run
    BY <1>7 DEF CallSucceeds, CallFails, Crash, InsertsCounted
  <2>2. \/ UNCHANGED data
        \/ stored' = [stored EXCEPT ![batch] = @ + 1] /\ UNCHANGED overdue
        \/ UNCHANGED stored /\ overdue' = overdue \union {<<run, batch>>}
    BY <1>7 DEF CallSucceeds, CallFails, Crash, data
  <2>3. /\ DataType' /\ IsFiniteSet(overdue')
        /\ \A b \in 1..Batches :
             /\ Insertions(b)' <= Insertions(b) + 1
             /\ b # batch => Insertions(b)' <= Insertions(b)
    BY <1>1, <2>1, <2>2, CallInserts
  <2>4. ASSUME NEW b \in 1..Batches, Ahead(b)'
        PROVE  b > batch
    <3>1. ASSUME NEW left, NextBatch(left)
          PROVE  b > batch
      BY <2>1, <2>4, <3>1, NextBatchIsOnward
    <3>2. CASE worker' = "report" /\ UNCHANGED batch
      BY <2>4, <3>2 DEF Ahead
    <3>3. CASE worker' = "idle"
      BY <2>4, <3>3 DEF Ahead
    <3> QED
      BY <1>7, <3>1, <3>2, <3>3 DEF CallSucceeds, CallFails, Crash
  <2>5. ASSUME NEW b \in 1..Batches
        PROVE  Insertions(b)' <= run' /\ (Ahead(b)' => Insertions(b)' < run')
    <3>1. Insertions(b) \in Nat /\ Insertions(b)' \in Nat /\ run' = run
      BY <1>2, <1>3, <2>1, <2>3
    <3>2. Insertions(b) <= run /\ (b >= batch => Insertions(b) < run)
      BY <2>1 DEF InsertsCounted, Ahead
    <3>3. CASE b = batch
      BY <1>1, <2>1, <2>3, <2>4, <3>1, <3>2, <3>3
    <3>4. CASE b # batch
      BY <1>1, <2>1, <2>3, <2>4, <3>1, <3>2, <3>4
    <3> QED
      BY <3>3, <3>4
  <2> QED
    BY <1>1, <2>3, <2>5 DEF InsertsCounted, Onward
<1>8. CASE Crash /\ worker # "call"
  BY <1>6, <1>8 DEF Crash, data
<1>9. RunStep /\ ~CallSucceeds /\ ~CallFails => UNCHANGED data
  BY DEF RunStep, CheckFile, Marked, ReadFile, Reported, Completed, Failed,
         Return, Rethrow, EndRun
<1>10. Handler \/ Promote \/ Settle => UNCHANGED data
  BY HandlerFrame, SettleFrame DEF Promote, Settle, processor, data
<1>11. Take \/ Stalled => UNCHANGED data
  BY DEF Take, Stalled
<1>12. UNCHANGED vars => UNCHANGED data
  BY DEF vars, data
<1> QED
  BY <1>5, <1>6, <1>7, <1>8, <1>9, <1>10, <1>11, <1>12 DEF Next

------------------------------------------------------------------------------
(* The request: the queue and the processor neither lose a job nor make one. *)

LEMMA JobAndStatusStay ==
  ASSUME StatusType, RunsCounted, [Next]_vars, ~Handler
  PROVE  /\ job' = "none" <=> job = "none"
         /\ status # "none" => status' # "none"
<1>1. Return \/ Rethrow => (job' = "none" <=> job = "none")
  BY DEF Return, Rethrow, RunsCounted
<1>2. Take \/ Promote \/ Stalled => (job' = "none" <=> job = "none")
  BY DEF Take, Promote, Stalled
<1>3. Settle \/ Crash \/ (\E late \in overdue : StoredLate(late)) => job' = job
  BY SettleFrame DEF Settle, Crash, StoredLate, queue
<1>4. RunStep \/ Take \/ Promote \/ Stalled \/ Crash
      \/ (\E late \in overdue : StoredLate(late)) => status' = status
  BY RunFrame DEF Take, Promote, Stalled, Crash, StoredLate
<1>5. Settle /\ status # "none" => status' # "none"
  BY DEF Settle, Apply, Discard, StatusType, WriteType
<1>6. UNCHANGED vars => job' = job /\ status' = status
  BY DEF vars
<1> QED
  BY <1>1, <1>2, <1>3, <1>4, <1>5, <1>6, RunQueueFrame DEF Next

LEMMA RequestStep ==
  ASSUME StatusType, RunsCounted, RequestInOrder, [Next]_vars
  PROVE  RequestInOrder'
<1>1. CASE StoreFile
  BY <1>1 DEF StoreFile, UploadFile, RequestInOrder, AcceptedUploadIsWhole, queue
<1>2. CASE CreateRecord
  BY <1>2 DEF CreateRecord, RequestInOrder, AcceptedUploadIsWhole, queue
<1>3. CASE Enqueue
  BY <1>3 DEF Enqueue, RequestInOrder, AcceptedUploadIsWhole
<1>4. CASE Cleanup
  BY <1>4 DEF Cleanup, DeleteFile, RequestInOrder, AcceptedUploadIsWhole, queue
<1>5. CASE Reply
  BY <1>5 DEF Reply, RequestInOrder, AcceptedUploadIsWhole, queue
<1>6. CASE GatewayGivesUp
  BY <1>6 DEF GatewayGivesUp, RequestInOrder, AcceptedUploadIsWhole, queue
<1>7. CASE ~Handler
  <2>1. UNCHANGED <<client, gridfs>>
    BY <1>7, RunFrame, SettleFrame
       DEF Next, vars, Take, Settle, StoredLate, Promote, Stalled, Crash, request
  <2>2. service' = service \/ (service # "done" /\ service' = "dead")
    <3>1. CASE Crash
      BY <3>1 DEF Crash
    <3>2. ~Crash => service' = service
      BY <1>7, RunFrame, SettleFrame
         DEF Next, vars, Take, Settle, StoredLate, Promote, Stalled, request
    <3> QED
      BY <3>1, <3>2
  <2> QED
    BY <1>7, <2>1, <2>2, JobAndStatusStay DEF RequestInOrder, AcceptedUploadIsWhole
<1> QED
  BY <1>1, <1>2, <1>3, <1>4, <1>5, <1>6, <1>7 DEF Handler

------------------------------------------------------------------------------
(* The outcomes: what a run decides stays decided, and only that is told. *)

LEMMA DecidedStays ==
  ASSUME [Next]_vars
  PROVE  /\ finished \subseteq finished' /\ threw \subseteq threw'
         /\ finished' \union threw' \subseteq finished \union threw \union {run}
<1>1. CASE CheckFile \/ ReadFile
  BY <1>1 DEF CheckFile, ReadFile, Throw, history
<1>2. CASE CallSucceeds \/ CallFails \/ Reported
  BY <1>2 DEF CallSucceeds, CallFails, Reported, NextBatch
<1>3. CASE UNCHANGED <<finished, threw>>
  BY <1>3
<1>4. Handler \/ Promote \/ Settle => UNCHANGED <<finished, threw>>
  BY HandlerFrame, SettleFrame DEF Promote, Settle, processor, history
<1>5. Take \/ Marked \/ Completed \/ Failed \/ Return \/ Rethrow \/ Stalled \/ Crash
      \/ (\E late \in overdue : StoredLate(late)) => UNCHANGED <<finished, threw>>
  BY DEF Take, Marked, Completed, Failed, Return, Rethrow, EndRun, Stalled, Crash,
         StoredLate, history
<1>6. UNCHANGED vars => UNCHANGED <<finished, threw>>
  BY DEF vars
<1> QED
  BY <1>1, <1>2, <1>3, <1>4, <1>5, <1>6 DEF Next, RunStep

LEMMA DecidedStep ==
  ASSUME HistoryType, RunType, Decided, [Next]_vars
  PROVE  Decided'
<1>1. run \in Nat /\ \A r \in finished \union threw : r \in Nat
  BY DEF HistoryType, RunType
<1>2. CASE Take
  BY <1>1, <1>2 DEF Take, history, Decided
<1>3. CASE CheckFile \/ ReadFile
  <2>1. /\ worker \in {"check", "read"} /\ UNCHANGED <<run, finished>>
        /\ \/ worker' \in {"mark", "call"} /\ UNCHANGED threw
           \/ worker' = "failing" /\ threw' = threw \union {run}
    BY <1>3 DEF CheckFile, ReadFile, Throw, history
  <2> QED
    BY <1>1, <2>1 DEF Decided
<1>4. CASE Marked
  <2>1. worker = "mark" /\ worker' = "read" /\ UNCHANGED <<run, finished, threw>>
    BY <1>4 DEF Marked, history
  <2> QED
    BY <2>1 DEF Decided
<1>5. CASE CallSucceeds \/ CallFails \/ Reported
  <2>1. /\ worker \in {"call", "report"} /\ UNCHANGED <<run, threw>>
        /\ \/ worker' \in {"report", "call"} /\ UNCHANGED finished
           \/ worker' = "completing" /\ finished' = finished \union {run}
    BY <1>5 DEF CallSucceeds, CallFails, Reported, NextBatch
  <2> QED
    BY <1>1, <2>1 DEF Decided
<1>6. CASE Completed \/ Failed
  <2>1. /\ UNCHANGED <<run, finished, threw>>
        /\ \/ worker = "completing" /\ worker' = "return"
           \/ worker = "failing" /\ worker' = "rethrow"
    BY <1>6 DEF Completed, Failed
  <2> QED
    BY <2>1 DEF Decided
<1>7. CASE Return \/ Rethrow \/ Crash
  <2>1. worker' = "idle" /\ UNCHANGED <<run, finished, threw>>
    BY <1>7 DEF Return, Rethrow, EndRun, Crash, history
  <2> QED
    BY <2>1 DEF Decided
<1>8. CASE UNCHANGED <<worker, run, finished, threw>>
  BY <1>8 DEF Decided
<1>9. Handler \/ Promote \/ Settle => UNCHANGED <<worker, run, finished, threw>>
  BY HandlerFrame, SettleFrame DEF Promote, Settle, processor, history
<1>10. Stalled \/ (\E late \in overdue : StoredLate(late))
         => UNCHANGED <<worker, run, finished, threw>>
  BY DEF Stalled, StoredLate, history
<1>11. UNCHANGED vars => UNCHANGED <<worker, run, finished, threw>>
  BY DEF vars
<1> QED
  BY <1>2, <1>3, <1>4, <1>5, <1>6, <1>7, <1>8, <1>9, <1>10, <1>11 DEF Next, RunStep

LEMMA OutcomesStep ==
  ASSUME StatusType, HistoryType, RunType, RunsCounted, OutcomesDecided, [Next]_vars
  PROVE  OutcomesDecided'
<1>1. /\ finished \subseteq finished' /\ threw \subseteq threw'
      /\ Decided /\ Decided'
  BY DecidedStays, DecidedStep DEF OutcomesDecided, OutcomeHappened, Decided
<1>2. ASSUME NEW w \in writes'
      PROVE  /\ w.status = "COMPLETED" => w.run \in finished'
             /\ w.status = "FAILED" => w.run \in threw'
  <2>1. CASE w \in writes
    BY <1>1, <2>1 DEF OutcomesDecided
  <2>2. CASE w \notin writes
    <3>1. RunStep
      BY <1>2, <2>2, HandlerFrame
         DEF Next, vars, Take, Settle, Apply, Discard, StoredLate, Promote, Stalled,
             Crash, processor
    <3> QED
      BY <2>2, <3>1, RunWrites
  <2> QED
    BY <2>1, <2>2
<1>3. /\ status' = "COMPLETED" => finished' # {}
      /\ status' = "FAILED" => threw' # {}
  <2>1. CASE UNCHANGED status
    BY <1>1, <2>1 DEF OutcomesDecided, OutcomeHappened
  <2>2. CASE Settle
    <3>1. PICK w \in writes : status' \in {status, w.status}
      BY <2>2 DEF Settle, Apply, Discard
    <3> QED
      BY <1>1, <3>1 DEF OutcomesDecided, OutcomeHappened
  <2>3. CASE status' \in {"none", "PENDING"}
    BY <2>3
  <2>4. CASE Handler
    BY <2>1, <2>3, <2>4 DEF Handler, StoreFile, UploadFile, CreateRecord, Enqueue, Cleanup, DeleteFile, Reply,
                GatewayGivesUp
  <2> QED
    BY <2>1, <2>2, <2>4, RunFrame
       DEF Next, vars, Take, StoredLate, Promote, Stalled, Crash
<1>4. ASSUME NEW e \in emitted'
      PROVE  e[2] \in (IF e[1] = "completed" THEN finished' ELSE threw')
  <2>1. CASE e \in emitted
    BY <1>1, <2>1 DEF OutcomesDecided, OutcomeHappened
  <2>2. CASE Completed /\ e = <<"completed", run>>
    BY <1>1, <2>2 DEF Completed, Decided
  <2>3. CASE Failed /\ e = <<"failed", run>>
    BY <1>1, <2>3 DEF Failed, Decided
  <2>4. ~Completed /\ ~Failed => emitted' = emitted
    BY HandlerFrame, SettleFrame
       DEF Next, vars, RunStep, Take, CheckFile, Marked, ReadFile, Throw, CallSucceeds,
           CallFails, Reported, Return, Rethrow, EndRun, Settle, StoredLate, Promote,
           Stalled, Crash, processor, history
  <2> QED
    BY <2>1, <2>2, <2>3, <2>4 DEF Completed, Failed
<1>5. job' = "completed" => finished' # {}
  <2>1. CASE Return
    BY <1>1, <2>1 DEF Return, Decided, OutcomesDecided, OutcomeHappened
  <2>2. ~Return => (job' = "completed" => job = "completed")
    BY RunQueueFrame, SettleFrame
       DEF Next, vars, Handler, StoreFile, UploadFile, CreateRecord, Enqueue, Cleanup, DeleteFile, Reply,
           GatewayGivesUp, Take, Rethrow, Settle, StoredLate, Promote, Stalled, Crash,
           queue
  <2> QED
    BY <1>1, <2>1, <2>2 DEF OutcomesDecided, OutcomeHappened
<1> QED
  BY <1>1, <1>2, <1>3, <1>4, <1>5 DEF OutcomesDecided, OutcomeHappened, Decided

------------------------------------------------------------------------------
(* The inductive invariant, and what follows from it. *)

LEMMA InitIInv == Init => IInv
<1> SUFFICES ASSUME Init PROVE IInv
  OBVIOUS
<1>1. TypeOK
  BY InitType
<1>2. RequestInOrder
  BY DEF Init, RequestInOrder, AcceptedUploadIsWhole
<1>3. RunsCounted
  BY UploadPipelineAssumption DEF Init, RunsCounted
<1>4. InsertsCounted
  <2>1. overdue = {} /\ worker = "idle" /\ run = 0
        /\ \A b \in 1..Batches : stored[b] = 0
    BY DEF Init
  <2>2. \A b : Cardinality(Late(b)) = 0
    BY <2>1, FS_EmptySet DEF Late
  <2> QED
    BY <2>1, <2>2, FS_EmptySet DEF InsertsCounted, Insertions, Ahead
<1>5. OutcomesDecided
  BY DEF Init, OutcomesDecided, Decided, OutcomeHappened
<1> QED
  BY <1>1, <1>2, <1>3, <1>4, <1>5 DEF IInv

LEMMA StepIInv == IInv /\ [Next]_vars => IInv'
<1> SUFFICES ASSUME IInv, [Next]_vars PROVE IInv'
  OBVIOUS
<1>1. /\ RequestType /\ QueueType /\ RunType /\ StatusType /\ DataType /\ HistoryType
      /\ RequestInOrder /\ RunsCounted /\ InsertsCounted /\ OutcomesDecided
  BY DEF IInv, TypeOK
<1>2. TypeOK'
  BY <1>1, RequestTypeStep, QueueStep, RunTypeStep, StatusTypeStep, InsertsStep,
     HistoryTypeStep DEF TypeOK
<1>3. RequestInOrder' /\ RunsCounted' /\ InsertsCounted' /\ OutcomesDecided'
  BY <1>1, RequestStep, QueueStep, InsertsStep, OutcomesStep
<1> QED
  BY <1>2, <1>3 DEF IInv

(* The inductive invariant holds of every upload, whatever fails.          *)
THEOREM Invariance == Spec => []IInv
BY InitIInv, StepIInv, PTL DEF Spec

(* The variables keep their types, and the queue's counters their limits. *)
THEOREM TypeCorrect == Spec => []TypeOK
<1>1. IInv => TypeOK
  BY DEF IInv
<1> QED
  BY <1>1, Invariance, PTL

(***************************************************************************)
(* processTransactionFile and the queue: an upload that was accepted has   *)
(* its job and its file, and a job its status document, whatever fails.    *)
(***************************************************************************)
THEOREM AcceptedIsWhole == Spec => []AcceptedUploadIsWhole
<1>1. IInv => AcceptedUploadIsWhole
  BY DEF IInv, RequestInOrder
<1> QED
  BY <1>1, Invariance, PTL

(***************************************************************************)
(* Bull's retries and stalls: at most Attempts + MaxStalls runs, and no    *)
(* batch inserted more often than that, the inserts of calls that timed    *)
(* out included.                                                           *)
(***************************************************************************)
THEOREM DuplicatesBounded == Spec => []DuplicatesAreBounded
<1>1. IInv => DuplicatesAreBounded
  <2> SUFFICES ASSUME IInv PROVE DuplicatesAreBounded
    OBVIOUS
  <2>1. run <= Attempts + MaxStalls
    <3>1. attempts \in Nat /\ stalls \in Nat /\ Attempts \in Nat /\ MaxStalls \in Nat
      BY UploadPipelineAssumption DEF IInv, TypeOK, QueueType
    <3>2. CASE job = "failed"
      BY <3>1, <3>2 DEF IInv, RunsCounted
    <3>3. CASE job # "failed"
      BY <3>1, <3>3 DEF IInv, RunsCounted
    <3> QED
      BY <3>2, <3>3
  <2> QED
    BY <2>1 DEF IInv, InsertsCounted, DuplicatesAreBounded
<1> QED
  BY <1>1, Invariance, PTL

(***************************************************************************)
(* processFile's status writes and events: an outcome shown or told is one *)
(* that a run came to, also when a write is applied late.                  *)
(***************************************************************************)
THEOREM OutcomesHappened == Spec => []OutcomeHappened
<1>1. IInv => OutcomeHappened
  BY DEF IInv, OutcomesDecided
<1> QED
  BY <1>1, Invariance, PTL

------------------------------------------------------------------------------
(* A CSV upload while MongoDB is reliable and the process alive. *)

(* The write that belongs to the place where the run is. *)
Begun(w) ==
  \/ worker = "mark" /\ w = Write("PROCESSING", 0)
  \/ worker = "report" /\ w = Write("PROCESSING", batch)
  \/ worker = "completing" /\ w = Write("COMPLETED", Batches + 1)
  \/ worker = "failing" /\ w = Write("FAILED", Batches + 1)

(***************************************************************************)
(* A run keeps its lock, and no write but the one it waits for is in       *)
(* progress; so the outcome is in the document before the run ends.        *)
(***************************************************************************)
CalmRun ==
  /\ worker # "idle" => job = "active" /\ lock
  /\ worker = "idle" => job # "active"
  /\ \A w \in writes : Begun(w)
  /\ worker = "return" \/ (worker = "completing" /\ writes = {}) => status = "COMPLETED"
  /\ worker = "rethrow" \/ (worker = "failing" /\ writes = {}) => status = "FAILED"
  /\ worker = "idle" /\ job = "completed" => status = "COMPLETED"
  /\ worker = "idle" /\ job \in {"delayed", "failed"} => status = "FAILED"

CalmInv == CalmCsv => CalmRun

(* The file and the faults of an upload stay what they are. *)
LEMMA CalmStays ==
  ASSUME [Next]_vars
  PROVE  CalmCsv' = CalmCsv
<1>1. Handler \/ RunStep => UNCHANGED inputs
  BY HandlerFrame, RunFrame
<1>2. Settle \/ (\E late \in overdue : StoredLate(late)) => UNCHANGED inputs
  BY SettleFrame DEF Settle, StoredLate
<1>3. Take \/ Promote \/ Stalled \/ Crash \/ UNCHANGED vars => UNCHANGED inputs
  BY DEF Take, Promote, Stalled, Crash, vars, inputs
<1>4. UNCHANGED inputs
  BY <1>1, <1>2, <1>3 DEF Next
<1> QED
  BY <1>4 DEF CalmCsv, inputs

LEMMA CalmStep ==
  ASSUME TypeOK, RequestInOrder, CalmCsv, CalmRun, [Next]_vars
  PROVE  CalmRun'
<1>0. /\ ~Fault("db") /\ ~Fault("redis") /\ ~Fault("slow") /\ ~Fault("stall") /\ ~Fault("crash")
      /\ format = "csv"
  BY DEF CalmCsv, Fault
<1>1. ASSUME UNCHANGED <<worker, job, lock, writes, status, batch, run>> PROVE CalmRun'
  BY <1>1 DEF CalmRun, Begun, Write
<1>2. CASE Handler
  <2>1. CASE CreateRecord \/ Enqueue
    <3>1. /\ UNCHANGED <<worker, lock, writes, batch, run>> /\ job = "none"
          /\ job' \in {"none", "waiting"}
      BY <2>1 DEF CreateRecord, Enqueue, RequestInOrder, queue, processor
    <3>2. worker = "idle" /\ writes = {}
      BY <3>1 DEF CalmRun, Begun
    <3> QED
      BY <3>1, <3>2 DEF CalmRun, Begun
  <2>2. CASE ~(CreateRecord \/ Enqueue)
    BY <1>1, <1>2, <2>2 DEF Handler, StoreFile, UploadFile, Cleanup, DeleteFile, Reply, GatewayGivesUp, queue, processor
  <2> QED
    BY <2>1, <2>2
<1>3. CASE Take
  BY <1>3 DEF Take, CalmRun, Begun
<1>4. CASE CheckFile
  BY <1>0, <1>4 DEF CheckFile, Throw, CalmRun, Begun, Write, queue, request
<1>5. CASE Marked
  BY <1>0, <1>5 DEF Marked, Awaited, CalmRun, Begun, Write, queue, request
<1>6. CASE ReadFile
  BY <1>0, <1>6 DEF ReadFile, Throw, CalmRun, Begun, Write, queue, request
<1>7. ASSUME NextBatch(writes), writes = {}, worker \in {"call", "report"},
             UNCHANGED <<job, lock, status, run>>
      PROVE  CalmRun'
  BY <1>7 DEF NextBatch, CalmRun, Begun, Write
<1>8. CASE CallSucceeds
  <2>1. worker = "call" /\ writes = {} /\ UNCHANGED <<job, lock, status, run>>
    BY <1>8 DEF CallSucceeds, CalmRun, Begun, queue
  <2>2. CASE NextBatch(writes)
    BY <1>7, <2>1, <2>2
  <2>3. CASE /\ worker' = "report" /\ UNCHANGED batch
             /\ writes' = writes \union {Write("PROCESSING", batch)}
    BY <2>1, <2>3 DEF CalmRun, Begun, Write
  <2> QED
    BY <1>8, <2>2, <2>3 DEF CallSucceeds
<1>9. CASE CallFails
  <2>1. worker = "call" /\ writes = {} /\ UNCHANGED <<job, lock, status, run>>
    BY <1>9 DEF CallFails, CalmRun, Begun, queue
  <2> QED
    BY <1>7, <1>9, <2>1 DEF CallFails
<1>10. CASE Reported
  <2>1. worker = "report" /\ UNCHANGED <<job, lock, status, run>>
    BY <1>10 DEF Reported, queue
  <2>2. Write("PROCESSING", batch) \notin writes /\ NextBatch(writes)
    BY <1>0, <1>10 DEF Reported
  <2>3. writes = {}
    BY <2>1, <2>2 DEF CalmRun, Begun
  <2> QED
    BY <1>7, <2>1, <2>2, <2>3
<1>11. CASE Completed
  BY <1>0, <1>11 DEF Completed, Awaited, CalmRun, Begun, Write, queue, request
<1>12. CASE Failed
  BY <1>0, <1>12 DEF Failed, Awaited, CalmRun, Begun, Write, queue, request
<1>13. CASE Return \/ Rethrow
  BY <1>13 DEF Return, Rethrow, EndRun, CalmRun, Begun, request
<1>14. CASE Promote
  BY <1>14 DEF Promote, CalmRun, Begun, Write, processor
<1>15. CASE Stalled \/ Crash
  BY <1>0, <1>15 DEF Stalled, Crash, CalmRun
<1>16. ASSUME NEW w \in writes, Apply(w) PROVE CalmRun'
  <2>1. /\ status' = w.status /\ writes' = writes \ {w}
        /\ UNCHANGED <<worker, job, lock, batch, run>>
    BY <1>16 DEF Apply, queue
  <2>2. /\ worker \in {"mark", "report", "completing", "failing"}
        /\ worker = "completing" => w.status = "COMPLETED"
        /\ worker = "failing" => w.status = "FAILED"
    BY DEF CalmRun, Begun, Write
  <2> QED
    BY <2>1, <2>2 DEF CalmRun, Begun, Write
<1>17. ASSUME NEW w \in writes, Discard(w) PROVE FALSE
  BY <1>0, <1>17 DEF Discard, CalmRun, Begun
<1>18. ASSUME NEW late \in overdue, StoredLate(late) PROVE CalmRun'
  BY <1>1, <1>18 DEF StoredLate, queue
<1>19. CASE UNCHANGED vars
  BY <1>1, <1>19 DEF vars
<1> QED
  BY <1>2, <1>3, <1>4, <1>5, <1>6, <1>8, <1>9, <1>10, <1>11, <1>12, <1>13, <1>14, <1>15, <1>16,
     <1>17, <1>18, <1>19 DEF Next, RunStep, Settle

(***************************************************************************)
(* processFile's awaited status writes: while MongoDB, Redis and the event *)
(* loop do their part, however many calls fail and whatever the file is,   *)
(* a CSV upload whose job completed shows COMPLETED, and one whose run     *)
(* threw shows FAILED until the next run.                                  *)
(***************************************************************************)
THEOREM StatusIsOutcome == Spec => []StatusTellsOutcome
<1>1. Init => IInv /\ CalmInv
  <2>1. Init => CalmInv
    BY DEF Init, CalmInv, CalmRun
  <2> QED
    BY <2>1, InitIInv
<1>2. IInv /\ CalmInv /\ [Next]_vars => IInv' /\ CalmInv'
  BY StepIInv, CalmStays, CalmStep DEF IInv, CalmInv
<1>3. CalmInv => StatusTellsOutcome
  BY DEF CalmInv, CalmRun, StatusTellsOutcome
<1> QED
  BY <1>1, <1>2, <1>3, PTL DEF Spec
==============================================================================
