----------------------------- MODULE BatchImport -----------------------------
(***************************************************************************)
(* One attempt of the file processor over the rows of one uploaded file:   *)
(* the batch loops processRecordsInBatches (CSV) and                       *)
(* processExcelFileStreaming (Excel), the call each batch makes to the     *)
(* transaction service through processBatch, and the transaction service's *)
(* create_transactions handler, which inserts a batch in one MongoDB       *)
(* transaction.                                                            *)
(*                                                                         *)
(* The processor waits 45 s for an answer and then gives a batch up; the   *)
(* transaction service knows nothing of that and may still insert the      *)
(* batch, during a later batch or after the attempt has ended.             *)
(***************************************************************************)
EXTENDS Naturals, Sequences, FiniteSets

CONSTANTS
  BatchSize,      \* batchSize, 500 in both loops
  MaxErrors,      \* maxErrors, 1000 in both loops
  ProgressEvery,  \* batches between two progress reports: 10 (CSV), 20 (Excel)
  Files           \* the files considered, each the sequence of its data rows

Format == {"csv", "excel"}

(***************************************************************************)
(* What a row is to the import: parseTransactionRow rejects an             *)
(* "unparsable" row; an "unstorable" one passes it and is refused by the   *)
(* Transaction schema (empty content, which the schema requires).          *)
(***************************************************************************)
RowKind == {"valid", "unparsable", "unstorable"}

ASSUME BatchImportAssumption ==
  /\ BatchSize \in Nat \ {0, 1}
  /\ MaxErrors \in Nat \ {0}
  /\ ProgressEvery \in [Format -> Nat \ {0}]
  /\ Files \subseteq Seq(RowKind)

VARIABLES
  file,        \* the rows of the file (never changes)
  format,      \* its format (never changes)
  pc,          \* where the attempt is
  start,       \* i (CSV) or startRow (Excel): the loop variable
  processed,   \* processedRecords
  successful,  \* successfulRecords
  errors,      \* allErrors
  reply,       \* the answer to the call in progress, "none" while there is none
  pending,     \* batches the transaction service holds and has not finished
  copies,      \* transactions collection: documents stored for each row
  counted      \* history: the rows counted in successfulRecords

inputs == <<file, format>>
counters == <<processed, successful, errors, counted>>
service == <<pending, copies>>
vars == <<file, format, pc, start, processed, successful, errors, reply,
          pending, copies, counted>>

------------------------------------------------------------------------------
(* The shape of a file.                                                    *)

Rows == 1..Len(file)

(* Papa strips the CSV header; the Excel loop counts the header row and    *)
(* drops it from the first chunk.  (That chunk has data rows, BatchSize    *)
(* being more than 1: "Only header in first batch" never happens.)         *)
Header == IF format = "excel" THEN 1 ELSE 0

(* parsedData.length (CSV) or totalRows (Excel): the bound of the loop.    *)
Slots == Len(file) + Header

(* The number an error message gives a row: i + index + 1 for CSV, the     *)
(* number of the row in the sheet for Excel.                               *)
RowNumber(r) == r + Header

(* Mutant of Batch: slice(i, i + batchSize + 1), one row too many. *)
BatchOverlapping(s) ==
  {r \in Rows : s < r + Header /\ r + Header <= s + BatchSize + 1}

(* The data rows of the batch that begins at s. *)
Batch(s) == {r \in Rows : s < r + Header /\ r + Header <= s + BatchSize}

(* The transactions of a batch: its rows that parseTransactionRow accepts. *)
Transactions(s) == {r \in Batch(s) : file[r] # "unparsable"}

RowErrors(s) ==
  {[row |-> RowNumber(r), cause |-> "row"] : r \in Batch(s) \ Transactions(s)}

BatchError(s) == [row |-> s, cause |-> "batch"]

ErrorEntry == [row : Nat, cause : {"row", "batch"}]

(* insertMany validates every document before it writes one. *)
Storable(s) == \A r \in Transactions(s) : file[r] = "valid"

Smaller(m, n) == IF m <= n THEN m ELSE n

(* errors.slice(0, remainingSpace): the first of the row errors found, as  *)
(* many as there is room for.                                              *)
Room == MaxErrors - Cardinality(errors)

FirstOf(kept, found) ==
  /\ kept \subseteq found
  /\ Cardinality(kept) = Smaller(Room, Cardinality(found))
  /\ \A e \in kept, f \in found \ kept : e.row < f.row

------------------------------------------------------------------------------
Init ==
  /\ file \in Files
  /\ format \in Format
  /\ pc = "open"
  /\ start = 0
  /\ processed = 0
  /\ successful = 0
  /\ errors = {}
  /\ reply = "none"
  /\ pending = {}
  /\ copies = [r \in Rows |-> 0]
  /\ counted = {}

(***************************************************************************)
(* parseCsvFile or XLSX.read.  A file without data rows is refused, and so *)
(* is one the parser rejects (one malformed CSV line is enough): the       *)
(* attempt throws before its first batch.                                  *)
(***************************************************************************)
Open ==
  /\ pc = "open"
  /\ pc' = IF file = <<>> THEN "thrown" ELSE "loop"
  /\ UNCHANGED <<inputs, counters, service, start, reply>>

Unreadable ==
  /\ pc = "open"
  /\ pc' = "thrown"
  /\ UNCHANGED <<inputs, counters, service, start, reply>>

NextBatch ==
  /\ start' = start + BatchSize
  /\ pc' = "loop"

(***************************************************************************)
(* processBatch sends the transactions of the batch.  The message reaches  *)
(* the transaction service or the connection fails at once.                *)
(***************************************************************************)
Send ==
  /\ pc = "loop"
  /\ start < Slots
  /\ Transactions(start) # {}
  /\ pc' = "calling"
  /\ \/ /\ pending' = pending \union {start}
        /\ reply' = "none"
     \/ /\ reply' = "error"
        /\ UNCHANGED pending
  /\ UNCHANGED <<inputs, counters, start, copies>>

------------------------------------------------------------------------------
(* The transaction service.  Its answer matters to the processor only      *)
(* while the processor waits for this very call.                           *)

Awaited(s) == pc = "calling" /\ s = start

Answer(s, answers) ==
  IF Awaited(s) THEN reply' \in answers ELSE UNCHANGED reply

(***************************************************************************)
(* bulkInsert commits.  The caller is told so, or told of an error         *)
(* (commitTransaction failed after the server had committed), or never     *)
(* hears of it (the connection is gone).                                   *)
(***************************************************************************)
Commit(s) ==
  /\ s \in pending
  /\ Storable(s)
  /\ pending' = pending \ {s}
  /\ copies' = [r \in Rows |-> IF r \in Transactions(s) THEN copies[r] + 1
                                                        ELSE copies[r]]
  /\ Answer(s, {"ok", "error", "none"})
  /\ UNCHANGED <<inputs, counters, pc, start>>

(***************************************************************************)
(* bulkInsert fails, on a document the schema refuses or on the database,  *)
(* and aborts; or the service stops with the call unfinished.              *)
(***************************************************************************)
Abort(s) ==
  /\ s \in pending
  /\ pending' = pending \ {s}
  /\ Answer(s, {"error", "none"})
  /\ UNCHANGED <<inputs, counters, copies, pc, start>>

------------------------------------------------------------------------------
(* Back in the processor.                                                  *)

(* Is a progress report due once `done` records are processed?  The CSV    *)
(* loop tests the loop variable, the Excel loop tests processedRecords.    *)
ProgressDue(done) ==
  \/ start + BatchSize >= Slots
  \/ format = "csv"   /\ start % (BatchSize * ProgressEvery["csv"]) = 0
  \/ format = "excel" /\ done % (BatchSize * ProgressEvery["excel"]) = 0

(***************************************************************************)
(* The batch went through: the transaction service answered, or there was  *)
(* nothing to send.                                                        *)
(***************************************************************************)
CountBatch ==
  /\ processed' = processed + Cardinality(Batch(start))
  /\ successful' = successful + Cardinality(Transactions(start))
  /\ counted' = counted \union Transactions(start)
  /\ \E kept \in SUBSET RowErrors(start) :
       /\ FirstOf(kept, RowErrors(start))
       /\ errors' = errors \union kept
  /\ IF ProgressDue(processed') THEN pc' = "progress" /\ UNCHANGED start
                                ELSE NextBatch

BatchDone ==
  /\ pc = "calling"
  /\ reply = "ok"
  /\ CountBatch
  /\ reply' = "none"
  /\ UNCHANGED <<inputs, service>>

NothingToSend ==
  /\ pc = "loop"
  /\ start < Slots
  /\ Transactions(start) = {}
  /\ CountBatch
  /\ UNCHANGED <<inputs, service, reply>>

(* Mutants of CatchBatch: it takes back records it never counted; it       *)
(* reports no error; it leaves the batch out of processedRecords.          *)
CatchBatchUndoing ==
  /\ errors' = IF Room > 0 THEN errors \union {BatchError(start)} ELSE errors
  /\ processed' = processed - Cardinality(Batch(start))
  /\ NextBatch
  /\ UNCHANGED <<successful, counted>>

CatchBatchSilent ==
  /\ processed' = processed + Cardinality(Batch(start))
  /\ NextBatch
  /\ UNCHANGED <<successful, errors, counted>>

CatchBatchUnprocessed ==
  /\ errors' = IF Room > 0 THEN errors \union {BatchError(start)} ELSE errors
  /\ NextBatch
  /\ UNCHANGED <<processed, successful, counted>>

(***************************************************************************)
(* The catch block of the loop: one error entry for the whole batch, and   *)
(* the batch counts as processed; Excel adds a full batchSize whatever the *)
(* batch held.                                                             *)
(***************************************************************************)
CatchBatch ==
  /\ errors' = IF Room > 0 THEN errors \union {BatchError(start)} ELSE errors
  /\ processed' = processed + IF format = "csv" THEN Cardinality(Batch(start))
                                                ELSE BatchSize
  /\ NextBatch
  /\ UNCHANGED <<successful, counted>>

(* Mutant of BatchFailed: processBatch logs the error without rethrowing. *)
BatchFailedSwallowed ==
  /\ pc = "calling"
  /\ reply = "error"
  /\ CountBatch
  /\ reply' = "none"
  /\ UNCHANGED <<inputs, service>>

BatchFailed ==
  /\ pc = "calling"
  /\ reply = "error"
  /\ CatchBatch
  /\ reply' = "none"
  /\ UNCHANGED <<inputs, service>>

(* Mutants of BatchTimeout: no timeout; the batch is sent once more; the   *)
(* loop goes on without the bookkeeping of the catch block.                *)
BatchTimeoutNever == FALSE

BatchTimeoutResends ==
  /\ pc = "calling"
  /\ reply = "none"
  /\ pending' = pending \union {start}
  /\ UNCHANGED <<inputs, counters, pc, start, reply, copies>>

BatchTimeoutSkips ==
  /\ pc = "calling"
  /\ reply = "none"
  /\ NextBatch
  /\ UNCHANGED <<inputs, counters, service, reply>>

(* rxjs timeout(45000): the call is given up, the request is not. *)
BatchTimeout ==
  /\ pc = "calling"
  /\ reply = "none"
  /\ CatchBatch
  /\ UNCHANGED <<inputs, service, reply>>

(* await job.progress(...): done, or rejected by Redis, which lands in the *)
(* catch block although the batch was already counted.                     *)
Progress ==
  /\ pc = "progress"
  /\ NextBatch
  /\ UNCHANGED <<inputs, counters, service, reply>>

ProgressFailed ==
  /\ pc = "progress"
  /\ CatchBatch
  /\ UNCHANGED <<inputs, service, reply>>

Return ==
  /\ pc = "loop"
  /\ start >= Slots
  /\ pc' = "returned"
  /\ UNCHANGED <<inputs, counters, service, start, reply>>

------------------------------------------------------------------------------
Processor ==
  \/ Open \/ Unreadable \/ Send \/ BatchDone \/ NothingToSend
  \/ BatchFailed \/ BatchTimeout \/ Progress \/ ProgressFailed \/ Return

Next ==
  \/ Processor
  \/ \E s \in pending : Commit(s) \/ Abort(s)

(***************************************************************************)
(* The processor's promises settle (the call's because of the timeout), so *)
(* it never stops for good while it can step.  Nothing is assumed of the   *)
(* transaction service.                                                    *)
(***************************************************************************)
Spec == Init /\ [][Next]_vars /\ WF_vars(Processor)

------------------------------------------------------------------------------
(* Types. *)
TypeOK ==
  /\ file \in Seq(RowKind)
  /\ format \in Format
  /\ pc \in {"open", "loop", "calling", "progress", "returned", "thrown"}
  /\ start \in Nat
  /\ processed \in Nat
  /\ successful \in Nat
  /\ errors \in SUBSET ErrorEntry
  /\ reply \in {"none", "ok", "error"}
  /\ pending \in SUBSET Nat
  /\ copies \in [Rows -> Nat]
  /\ counted \in SUBSET Rows

(***************************************************************************)
(* Within one attempt no row is stored twice, however late the transaction *)
(* service commits a batch the processor has given up: consecutive batches *)
(* do not overlap and no batch is sent again.                              *)
(***************************************************************************)
StoredAtMostOnce == \A r \in Rows : copies[r] <= 1

(***************************************************************************)
(* successfulRecords claims nothing that is not in the database: it is the *)
(* number of the rows counted, and each of those is stored.                *)
(***************************************************************************)
SuccessIsStored ==
  /\ successful = Cardinality(counted)
  /\ \A r \in counted : copies[r] >= 1

Reported(r) ==
  \/ [row |-> RowNumber(r), cause |-> "row"] \in errors
  \/ \E e \in errors : e.cause = "batch" /\ r \in Batch(e.row)

(***************************************************************************)
(* No row vanishes from the books: when the attempt returns with room left *)
(* in its error list, each row was counted, or has an error of its own, or *)
(* belongs to a batch with an error entry.                                 *)
(***************************************************************************)
NoRowUnaccounted ==
  pc = "returned" /\ Cardinality(errors) < MaxErrors =>
    \A r \in Rows : r \in counted \/ Reported(r)

(***************************************************************************)
(* A row in the database that successfulRecords does not count belongs to  *)
(* a batch that was given up or reported as failed: while the loop runs it *)
(* may also be of the batch in progress.                                   *)
(***************************************************************************)
UncountedRowsAreInDoubt ==
  Cardinality(errors) < MaxErrors =>
    \A r \in Rows :
      copies[r] > 0 /\ r \notin counted =>
        \/ pc = "calling" /\ r \in Batch(start)
        \/ \E e \in errors : e.cause = "batch" /\ r \in Batch(e.row)

(***************************************************************************)
(* The progress the user is shown reaches the end: an attempt that returns *)
(* has counted every row as processed (Excel, and a batch whose progress   *)
(* report failed, may count more).  The error list stays within its cap.   *)
(***************************************************************************)
BooksAtReturn ==
  /\ Cardinality(errors) <= MaxErrors
  /\ pc = "returned" => processed >= Len(file)

(***************************************************************************)
(* The attempt ends, whatever the transaction service does: a batch it     *)
(* never answers costs the timeout and no more.                            *)
(***************************************************************************)
AttemptEnds == <>(pc \in {"returned", "thrown"})

(***************************************************************************)
(* The fields of the upload status add up: the records processed are the   *)
(* successful ones and the failed ones (FileStatusResponseDto).            *)
(***************************************************************************)
TotalsAddUp ==
  pc = "returned" => processed = successful + Cardinality(errors)

(* What one attempt promises, without its batches, calls and counters. *)
Contract == INSTANCE ImportContract WITH
  copies <- copies,
  claimed <- counted,
  over <- pc \in {"returned", "thrown"}

ImplementsContract == Contract!Spec

------------------------------------------------------------------------------
(***************************************************************************)
(* Why it holds: an inductive invariant.  The batches handed out so far    *)
(* fill the slots up to Reach; those whose outcome is in the books fill    *)
(* the slots up to Settled.                                                *)
(***************************************************************************)
Reach == IF pc \in {"calling", "progress"} THEN start + BatchSize ELSE start

Settled == IF pc = "progress" THEN start + BatchSize ELSE start

(* A batch the transaction service holds is the one being called or one    *)
(* that ended before the current one; two of them share no slot.           *)
PendingBehind ==
  \A s \in pending : (pc = "calling" /\ s = start) \/ s + BatchSize <= start

PendingDisjoint ==
  \A s, t \in pending : s # t => s + BatchSize <= t \/ t + BatchSize <= s

(* What it holds is not stored yet; what is stored was handed out. *)
PendingNotStored == \A s \in pending : \A r \in Batch(s) : copies[r] = 0

StoredWithinReach == \A r \in Rows : copies[r] > 0 => r + Header <= Reach

(* Once there is an answer the batch is settled, and stored if it is "ok". *)
AnswerIsTrue ==
  pc = "calling" =>
    /\ reply # "none" => start \notin pending
    /\ reply = "ok" => \A r \in Transactions(start) : copies[r] = 1

CountedWithinSettled ==
  \A r \in counted : copies[r] = 1 /\ r + Header <= Settled

IInv ==
  /\ TypeOK
  /\ PendingBehind
  /\ PendingDisjoint
  /\ PendingNotStored
  /\ StoredWithinReach
  /\ AnswerIsTrue
  /\ CountedWithinSettled
  /\ StoredAtMostOnce
  /\ successful = Cardinality(counted)
==============================================================================
