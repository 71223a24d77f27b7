-------------------------- MODULE BatchImportProofs --------------------------
(***************************************************************************)
(* Theorems about BatchImport, for every batch size, error cap, progress   *)
(* interval and file.                                                      *)
(***************************************************************************)
EXTENDS BatchImport, FiniteSetTheorems, TLAPS

(* A batch is part of the file, and so is finite. *)
LEMMA BatchType ==
  ASSUME TypeOK, NEW s \in Nat
  PROVE  /\ Batch(s) \subseteq Rows
         /\ Transactions(s) \subseteq Batch(s)
         /\ IsFiniteSet(Batch(s))
         /\ IsFiniteSet(Transactions(s))
         /\ Cardinality(Batch(s)) \in Nat
         /\ Cardinality(Transactions(s)) \in Nat
<1>1. Batch(s) \subseteq Rows /\ Transactions(s) \subseteq Batch(s)
  BY DEF Batch, Transactions
<1>2. Len(file) \in Nat
  BY DEF TypeOK
<1>3. IsFiniteSet(Rows)
  BY <1>2, FS_Interval DEF Rows
<1>4. IsFiniteSet(Batch(s)) /\ IsFiniteSet(Transactions(s))
  BY <1>1, <1>3, FS_Subset
<1> QED
  BY <1>1, <1>4, FS_CardinalityType

(* Two batches share a row only if their slots overlap. *)
LEMMA DisjointBatches ==
  ASSUME TypeOK, NEW s \in Nat, NEW t \in Nat,
         s + BatchSize <= t \/ t + BatchSize <= s
  PROVE  Batch(s) \cap Batch(t) = {}
BY BatchImportAssumption DEF Batch, TypeOK, Rows, Header

(* The errors found in a batch are error entries. *)
LEMMA RowErrorsType ==
  ASSUME TypeOK, NEW s \in Nat
  PROVE  /\ RowErrors(s) \subseteq ErrorEntry
         /\ BatchError(s) \in ErrorEntry
BY DEF RowErrors, BatchError, ErrorEntry, TypeOK, RowNumber, Header, Batch, Rows

------------------------------------------------------------------------------
(* The invariant holds initially. *)
LEMMA InitIInv == Init => IInv
<1> SUFFICES ASSUME Init PROVE IInv
  OBVIOUS
<1>1. TypeOK
  BY BatchImportAssumption DEF Init, TypeOK, Rows
<1>2. successful = Cardinality(counted)
  BY FS_EmptySet DEF Init
<1> QED
  BY <1>1, <1>2
  DEF Init, IInv, PendingBehind, PendingDisjoint, PendingNotStored, Rows,
      StoredWithinReach, AnswerIsTrue, CountedWithinSettled, StoredAtMostOnce

(* A step that moves neither the loop nor anything the service holds.     *)
LEMMA PcStepIInv ==
  ASSUME IInv, Open \/ Unreadable \/ Return
  PROVE  IInv'
<1>1. TypeOK'
  BY DEF IInv, TypeOK, Open, Unreadable, Return, inputs, counters, service, Rows
<1> QED
  BY <1>1
  DEF IInv, Open, Unreadable, Return, inputs, counters, service, Rows, Header,
      PendingBehind, PendingDisjoint, PendingNotStored, StoredWithinReach, Reach,
      AnswerIsTrue, CountedWithinSettled, Settled, StoredAtMostOnce, Batch,
      Transactions

(* The loop goes on to the next batch with its calls and rows as they are. *)
LEMMA NextBatchIInv ==
  ASSUME IInv, NextBatch, UNCHANGED <<inputs, service, successful, counted>>,
         TypeOK', pc \in {"loop", "calling", "progress"}
  PROVE  IInv'
<1>1. start \in Nat /\ start' = start + BatchSize /\ pc' = "loop"
  BY DEF IInv, TypeOK, NextBatch
<1>2. UNCHANGED <<file, format, pending, copies, counted, successful>>
  BY DEF inputs, service
<1>3. PendingBehind'
  BY <1>1, <1>2, BatchImportAssumption DEF IInv, TypeOK, PendingBehind
<1>4. PendingDisjoint' /\ PendingNotStored' /\ StoredAtMostOnce'
  BY <1>2
  DEF IInv, PendingDisjoint, PendingNotStored, StoredAtMostOnce, Batch, Rows, Header
<1>5. StoredWithinReach'
  BY <1>1, <1>2, BatchImportAssumption
  DEF IInv, TypeOK, StoredWithinReach, Reach, Rows, Header
<1>6. AnswerIsTrue'
  BY <1>1 DEF AnswerIsTrue
<1>7. CountedWithinSettled'
  BY <1>1, <1>2, BatchImportAssumption
  DEF IInv, TypeOK, CountedWithinSettled, Settled, Rows, Header
<1> QED
  BY <1>2, <1>3, <1>4, <1>5, <1>6, <1>7 DEF IInv

LEMMA CatchBatchIInv ==
  ASSUME IInv, CatchBatch, UNCHANGED <<inputs, service>>,
         reply' \in {"none", "ok", "error"},
         pc \in {"calling", "progress"}
  PROVE  IInv'
<1>1. TypeOK /\ start \in Nat
  BY DEF IInv, TypeOK
<1>2. UNCHANGED <<file, format, pending, copies, counted, successful>>
  BY DEF inputs, service, CatchBatch
<1>3. errors' \in SUBSET ErrorEntry
  BY <1>1, RowErrorsType DEF CatchBatch, TypeOK
<1>4. processed' \in Nat
  <2>1. Cardinality(Batch(start)) \in Nat
    BY <1>1, BatchType
  <2> QED
    BY <1>1, <2>1, BatchImportAssumption DEF CatchBatch, TypeOK
<1>5. TypeOK'
  BY <1>1, <1>2, <1>3, <1>4, BatchImportAssumption
  DEF TypeOK, CatchBatch, NextBatch, Rows
<1> QED
  BY <1>5, NextBatchIInv DEF CatchBatch

LEMMA ProgressIInv ==
  ASSUME IInv, Progress
  PROVE  IInv'
<1>1. TypeOK'
  BY BatchImportAssumption
  DEF IInv, TypeOK, Progress, NextBatch, inputs, counters, service, Rows
<1> QED
  BY <1>1, NextBatchIInv DEF Progress, counters

(* The batch sent is new: nothing of it is stored or held by the service.  *)
LEMMA SendIInv ==
  ASSUME IInv, Send
  PROVE  IInv'
<1>1. start \in Nat /\ pc = "loop" /\ pc' = "calling" /\ pending \subseteq Nat
  BY DEF IInv, TypeOK, Send
<1>2. UNCHANGED <<file, format, start, processed, successful, errors, counted, copies>>
  BY DEF Send, inputs, counters
<1>3. pending' = pending \/ (pending' = pending \union {start} /\ reply' = "none")
  BY DEF Send
<1>4. reply' \in {"none", "error"}
  BY DEF Send
<1>5. TypeOK'
  BY <1>1, <1>2, <1>3, <1>4 DEF IInv, TypeOK, Rows
<1>6. \A s \in pending : s + BatchSize <= start
  BY <1>1 DEF IInv, PendingBehind
<1>7. PendingBehind' /\ PendingDisjoint'
  BY <1>1, <1>2, <1>3, <1>6, BatchImportAssumption
  DEF IInv, PendingBehind, PendingDisjoint
<1>8. \A r \in Batch(start) : copies[r] = 0
  BY <1>1, BatchImportAssumption
  DEF IInv, TypeOK, StoredWithinReach, Reach, Batch, Rows, Header
<1>9. PendingNotStored'
  BY <1>2, <1>3, <1>8 DEF IInv, PendingNotStored, Batch, Rows, Header
<1>10. StoredWithinReach' /\ StoredAtMostOnce'
  BY <1>1, <1>2, BatchImportAssumption
  DEF IInv, TypeOK, StoredWithinReach, Reach, Rows, Header, StoredAtMostOnce
<1>11. AnswerIsTrue'
  BY <1>1, <1>2, <1>3, <1>4, <1>6, BatchImportAssumption DEF AnswerIsTrue, Send
<1>12. CountedWithinSettled'
  BY <1>1, <1>2 DEF IInv, CountedWithinSettled, Settled, Header
<1> QED
  BY <1>2, <1>5, <1>7, <1>9, <1>10, <1>11, <1>12 DEF IInv

(* A batch leaves the service; its rows are stored or they are not.        *)
LEMMA AbortIInv ==
  ASSUME IInv, NEW s \in pending, Abort(s)
  PROVE  IInv'
<1>1. UNCHANGED <<file, format, pc, start, processed, successful, errors, counted, copies>>
  BY DEF Abort, inputs, counters
<1>2. pending' = pending \ {s}
  BY DEF Abort
<1>3. reply' = reply \/ (s = start /\ reply' \in {"error", "none"})
  BY DEF Abort, Answer, Awaited
<1>4. TypeOK'
  BY <1>1, <1>2, <1>3 DEF IInv, TypeOK, Rows
<1>5. AnswerIsTrue'
  BY <1>1, <1>2, <1>3
  DEF IInv, AnswerIsTrue, Transactions, Batch, Rows, Header
<1> QED
  BY <1>1, <1>2, <1>4, <1>5
  DEF IInv, PendingBehind, PendingDisjoint, PendingNotStored, StoredWithinReach,
      Reach, CountedWithinSettled, Settled, StoredAtMostOnce, Batch, Rows, Header

LEMMA CommitIInv ==
  ASSUME IInv, NEW s \in pending, Commit(s)
  PROVE  IInv'
<1>1. UNCHANGED <<file, format, pc, start, processed, successful, errors, counted>>
  BY DEF Commit, inputs, counters
<1>2. pending' = pending \ {s}
  BY DEF Commit
<1>3. /\ copies \in [Rows -> Nat]
      /\ copies' = [r \in Rows |-> IF r \in Transactions(s) THEN copies[r] + 1
                                                            ELSE copies[r]]
  BY DEF Commit, IInv, TypeOK
<1>4. \/ reply' = reply /\ ~(pc = "calling" /\ s = start)
      \/ pc = "calling" /\ s = start /\ reply' \in {"ok", "error", "none"}
  BY DEF Commit, Answer, Awaited
<1>5. TypeOK'
  BY <1>1, <1>2, <1>3, <1>4 DEF IInv, TypeOK, Rows
<1>6. s \in Nat /\ TypeOK
  BY DEF IInv, TypeOK
<1>7. Transactions(s) \subseteq Batch(s) /\ Batch(s) \subseteq Rows
  BY <1>6, BatchType
<1>8. \A r \in Transactions(s) : copies[r] = 0
  BY <1>7 DEF IInv, PendingNotStored
<1>9. \A r \in Transactions(s) : copies'[r] = 1
  BY <1>3, <1>7, <1>8
<1>10. \A r \in Rows : r \notin Transactions(s) => copies'[r] = copies[r]
  BY <1>3
<1>11. PendingBehind' /\ PendingDisjoint'
  BY <1>1, <1>2 DEF IInv, PendingBehind, PendingDisjoint
<1>12. PendingNotStored'
  <2>1. SUFFICES ASSUME NEW t \in pending', NEW r \in Batch(t)
                 PROVE  copies'[r] = 0
    BY <1>1 DEF PendingNotStored, Batch, Rows, Header
  <2>2. t \in pending /\ t # s /\ t \in Nat
    BY <1>2 DEF IInv, TypeOK
  <2>3. Batch(t) \cap Batch(s) = {}
    BY <1>6, <2>2, DisjointBatches DEF IInv, PendingDisjoint
  <2>4. r \in Rows /\ r \notin Transactions(s)
    BY <1>6, <1>7, <2>2, <2>3, BatchType
  <2> QED
    BY <1>10, <2>2, <2>4 DEF IInv, PendingNotStored
<1>13. StoredWithinReach'
  <2>1. \A r \in Transactions(s) : r + Header <= Reach
    BY <1>6, <1>7, BatchImportAssumption
    DEF IInv, TypeOK, PendingBehind, Batch, Rows, Header, Reach
  <2>2. UNCHANGED <<Rows, Header, Reach>>
    BY <1>1 DEF Rows, Header, Reach
  <2> QED
    BY <1>10, <2>1, <2>2 DEF IInv, StoredWithinReach
<1>14. StoredAtMostOnce'
  BY <1>1, <1>9, <1>10 DEF IInv, StoredAtMostOnce, Rows
<1>15. AnswerIsTrue'
  <2>1. Transactions(start)' = Transactions(start)
    BY <1>1 DEF Transactions, Batch, Rows, Header
  <2>2. CASE s = start
    BY <1>1, <1>2, <1>4, <1>9, <2>1, <2>2 DEF IInv, AnswerIsTrue
  <2>3. CASE s # start
    <3>1. ASSUME pc = "calling" PROVE Batch(start) \cap Batch(s) = {}
      BY <1>6, <2>3, <3>1, DisjointBatches DEF IInv, TypeOK, PendingBehind
    <3>2. ASSUME pc = "calling" PROVE Transactions(start) \cap Transactions(s) = {}
      BY <1>6, <3>1, <3>2, BatchType DEF TypeOK
    <3>3. Transactions(start) \subseteq Rows
      BY <1>6, BatchType DEF TypeOK
    <3> QED
      BY <1>1, <1>2, <1>4, <1>10, <2>1, <2>3, <3>2, <3>3 DEF IInv, AnswerIsTrue
  <2> QED
    BY <2>2, <2>3
<1>16. CountedWithinSettled'
  <2>1. \A r \in counted : r \in Rows /\ r \notin Transactions(s)
    BY <1>8 DEF IInv, TypeOK, CountedWithinSettled
  <2>2. UNCHANGED <<Rows, Header, Settled>>
    BY <1>1 DEF Rows, Header, Settled
  <2> QED
    BY <1>1, <1>10, <2>1, <2>2 DEF IInv, CountedWithinSettled
<1> QED
  BY <1>1, <1>5, <1>11, <1>12, <1>13, <1>14, <1>15, <1>16 DEF IInv

(* The rows of a batch that went through were not counted before. *)
LEMMA CountBatchIInv ==
  ASSUME IInv, CountBatch, UNCHANGED <<inputs, service>>,
         reply' \in {"none", "ok", "error"},
         pc \in {"loop", "calling"},
         \A r \in Transactions(start) : copies[r] = 1,
         pc = "calling" => start \notin pending
  PROVE  IInv'
<1>1. TypeOK /\ start \in Nat
  BY DEF IInv, TypeOK
<1>2. UNCHANGED <<file, format, pending, copies>>
  BY DEF inputs, service
<1>3. \/ pc' = "progress" /\ start' = start
      \/ pc' = "loop" /\ start' = start + BatchSize
  BY DEF CountBatch, NextBatch
<1>4. /\ counted' = counted \union Transactions(start)
      /\ successful' = successful + Cardinality(Transactions(start))
      /\ processed' = processed + Cardinality(Batch(start))
  BY DEF CountBatch
<1>5. /\ Transactions(start) \subseteq Batch(start)
      /\ Batch(start) \subseteq Rows
      /\ IsFiniteSet(Transactions(start))
      /\ Cardinality(Batch(start)) \in Nat
      /\ Cardinality(Transactions(start)) \in Nat
  BY <1>1, BatchType
<1>6. errors' \in SUBSET ErrorEntry
  <2>1. RowErrors(start) \subseteq ErrorEntry
    BY <1>1, RowErrorsType
  <2> QED
    BY <1>1, <2>1 DEF CountBatch, TypeOK
<1>7. TypeOK'
  <2>1. counted' \in SUBSET Rows
    BY <1>1, <1>4, <1>5 DEF TypeOK
  <2>2. processed' \in Nat /\ successful' \in Nat
    BY <1>1, <1>4, <1>5 DEF TypeOK
  <2>3. start' \in Nat
    BY <1>1, <1>3, BatchImportAssumption
  <2>4. Rows' = Rows
    BY <1>2 DEF Rows
  <2> QED
    BY <1>1, <1>2, <1>3, <1>6, <2>1, <2>2, <2>3, <2>4 DEF TypeOK
<1>8. successful' = Cardinality(counted')
  <2>1. counted \cap Transactions(start) = {}
    BY <1>1, <1>5, BatchImportAssumption
    DEF IInv, TypeOK, CountedWithinSettled, Settled, Batch, Rows, Header
  <2>2. IsFiniteSet(counted)
    <3>1. Len(file) \in Nat
      BY <1>1 DEF TypeOK
    <3>2. IsFiniteSet(Rows)
      BY <3>1, FS_Interval DEF Rows
    <3> QED
      BY <1>1, <3>2, FS_Subset DEF TypeOK
  <2>3. Cardinality(counted') =
          Cardinality(counted) + Cardinality(Transactions(start)) - Cardinality({})
    BY <1>4, <1>5, <2>1, <2>2, FS_Union
  <2>4. Cardinality({}) = 0
    BY FS_EmptySet
  <2>5. Cardinality(counted) \in Nat
    BY <2>2, FS_CardinalityType
  <2> QED
    BY <1>4, <1>5, <2>3, <2>4, <2>5 DEF IInv
<1>9. PendingBehind'
  BY <1>1, <1>2, <1>3, BatchImportAssumption DEF IInv, TypeOK, PendingBehind
<1>10. PendingDisjoint' /\ PendingNotStored' /\ StoredAtMostOnce'
  BY <1>2
  DEF IInv, PendingDisjoint, PendingNotStored, StoredAtMostOnce, Batch, Rows, Header
<1>11. StoredWithinReach'
  BY <1>1, <1>2, <1>3, BatchImportAssumption
  DEF IInv, TypeOK, StoredWithinReach, Reach, Rows, Header
<1>12. AnswerIsTrue'
  BY <1>3 DEF AnswerIsTrue
<1>13. CountedWithinSettled'
  <2>1. Settled' = start + BatchSize /\ Header' = Header
    BY <1>2, <1>3 DEF Settled, Header
  <2>2. \A r \in counted : copies[r] = 1 /\ r + Header <= start + BatchSize
    BY <1>1, BatchImportAssumption
    DEF IInv, TypeOK, CountedWithinSettled, Settled, Rows, Header
  <2>3. \A r \in Transactions(start) : r + Header <= start + BatchSize
    BY <1>5 DEF Batch
  <2> QED
    BY <1>2, <1>4, <2>1, <2>2, <2>3 DEF CountedWithinSettled
<1> QED
  BY <1>7, <1>8, <1>9, <1>10, <1>11, <1>12, <1>13 DEF IInv

------------------------------------------------------------------------------
LEMMA StepIInv == IInv /\ [Next]_vars => IInv'
<1> SUFFICES ASSUME IInv, [Next]_vars PROVE IInv'
  OBVIOUS
<1>1. CASE Open \/ Unreadable \/ Return
  BY <1>1, PcStepIInv
<1>2. CASE Send
  BY <1>2, SendIInv
<1>3. CASE BatchDone
  <2>1. \A r \in Transactions(start) : copies[r] = 1
    BY <1>3 DEF BatchDone, IInv, AnswerIsTrue
  <2> QED
    BY <1>3, <2>1, CountBatchIInv DEF BatchDone, IInv, AnswerIsTrue
<1>4. CASE NothingToSend
  <2>1. reply \in {"none", "ok", "error"}
    BY DEF IInv, TypeOK
  <2> QED
    BY <1>4, <2>1, CountBatchIInv DEF NothingToSend
<1>5. CASE BatchFailed \/ BatchTimeout \/ ProgressFailed
  <2>1. reply \in {"none", "ok", "error"}
    BY DEF IInv, TypeOK
  <2> QED
    BY <1>5, <2>1, CatchBatchIInv DEF BatchFailed, BatchTimeout, ProgressFailed
<1>6. CASE Progress
  BY <1>6, ProgressIInv
<1>7. ASSUME NEW s \in pending, Commit(s) \/ Abort(s)
      PROVE  IInv'
  BY <1>7, CommitIInv, AbortIInv
<1>8. CASE UNCHANGED vars
  BY <1>8
  DEF vars, IInv, TypeOK, PendingBehind, PendingDisjoint, PendingNotStored,
      StoredWithinReach, Reach, AnswerIsTrue, CountedWithinSettled, Settled,
      StoredAtMostOnce, Transactions, Batch, Rows, Header
<1> QED
  BY <1>1, <1>2, <1>3, <1>4, <1>5, <1>6, <1>7, <1>8 DEF Next, Processor

------------------------------------------------------------------------------
(* The inductive invariant holds of every behaviour. *)
THEOREM Invariance == Spec => []IInv
BY InitIInv, StepIInv, PTL DEF Spec

(* Type correctness, for every batch size and file. *)
THEOREM TypeCorrect == Spec => []TypeOK
<1>1. IInv => TypeOK
  BY DEF IInv
<1> QED
  BY Invariance, <1>1, PTL

(***************************************************************************)
(* Within one attempt no row reaches the transactions collection twice,    *)
(* although a batch that timed out may be committed at any later time.     *)
(***************************************************************************)
THEOREM NeverTwice == Spec => []StoredAtMostOnce
<1>1. IInv => StoredAtMostOnce
  BY DEF IInv
<1> QED
  BY Invariance, <1>1, PTL

(***************************************************************************)
(* successfulRecords is the number of the rows counted, all of them in the *)
(* database.                                                               *)
(***************************************************************************)
THEOREM HonestCount == Spec => []SuccessIsStored
<1>1. IInv => SuccessIsStored
  BY DEF IInv, SuccessIsStored, CountedWithinSettled, TypeOK
<1> QED
  BY Invariance, <1>1, PTL

------------------------------------------------------------------------------
(* The refinement of ImportContract.                                       *)

Over == pc \in {"returned", "thrown"}

LEMMA InitContract == Init => Contract!Init
BY DEF Init, Contract!Init

(* A commit is one Store: none of the rows it adds was there. *)
LEMMA CommitStores ==
  ASSUME IInv, NEW s \in pending, Commit(s)
  PROVE  Contract!Store
<1>1. s \in Nat /\ TypeOK
  BY DEF IInv, TypeOK
<1>2. Transactions(s) \subseteq Batch(s) /\ Batch(s) \subseteq Rows
  BY <1>1, BatchType
<1>3. DOMAIN copies = Rows
  BY <1>1 DEF TypeOK
<1>4. \A r \in Transactions(s) : copies[r] = 0
  BY <1>2 DEF IInv, PendingNotStored
<1>5. Transactions(s) \in SUBSET Contract!Missing
  BY <1>2, <1>3, <1>4 DEF Contract!Missing
<1>6. copies' = [r \in DOMAIN copies |->
                   IF r \in Transactions(s) THEN 1 ELSE copies[r]]
  BY <1>3, <1>4 DEF Commit
<1>7. UNCHANGED <<counted, Over>>
  BY DEF Commit, counters, Over
<1> QED
  BY <1>5, <1>6, <1>7 DEF Contract!Store, Over

(* Counting a batch is one Claim: its rows are there, and not yet claimed. *)
LEMMA CountClaims ==
  ASSUME IInv, CountBatch, UNCHANGED service, pc \in {"loop", "calling"},
         \A r \in Transactions(start) : copies[r] = 1
  PROVE  Contract!Claim
<1>1. TypeOK /\ start \in Nat
  BY DEF IInv, TypeOK
<1>2. Transactions(start) \subseteq Batch(start) /\ Batch(start) \subseteq Rows
  BY <1>1, BatchType
<1>3. DOMAIN copies = Rows
  BY <1>1 DEF TypeOK
<1>4. counted \cap Transactions(start) = {}
  BY <1>1, <1>2, BatchImportAssumption
  DEF IInv, TypeOK, CountedWithinSettled, Settled, Batch, Rows, Header
<1>5. Transactions(start) \in SUBSET (Contract!Present \ counted)
  BY <1>2, <1>3, <1>4 DEF Contract!Present, Contract!Missing
<1>6. counted' = counted \union Transactions(start)
  BY DEF CountBatch
<1>7. ~Over /\ UNCHANGED <<copies, Over>>
  BY DEF CountBatch, NextBatch, service, Over
<1> QED
  BY <1>5, <1>6, <1>7 DEF Contract!Claim, Over

LEMMA StepContract ==
  IInv /\ [Next]_vars => [Contract!Next]_(Contract!contractVars)
<1> SUFFICES ASSUME IInv, [Next]_vars
             PROVE  Contract!Next \/ UNCHANGED <<copies, counted, Over>>
  BY DEF Contract!contractVars, Over
<1>1. CASE Open \/ Unreadable \/ Return
  BY <1>1
  DEF Open, Unreadable, Return, counters, service, Over, Contract!Next, Contract!Stop
<1>2. CASE Send \/ Progress
  BY <1>2 DEF Send, Progress, NextBatch, counters, service, Over
<1>3. CASE BatchDone
  <2>1. \A r \in Transactions(start) : copies[r] = 1
    BY <1>3 DEF BatchDone, IInv, AnswerIsTrue
  <2> QED
    BY <1>3, <2>1, CountClaims DEF BatchDone, Contract!Next
<1>4. CASE NothingToSend
  BY <1>4, CountClaims DEF NothingToSend, Contract!Next
<1>5. CASE BatchFailed \/ BatchTimeout \/ ProgressFailed
  BY <1>5
  DEF BatchFailed, BatchTimeout, ProgressFailed, CatchBatch, NextBatch, service, Over
<1>6. ASSUME NEW s \in pending, Commit(s) \/ Abort(s)
      PROVE  Contract!Next \/ UNCHANGED <<copies, counted, Over>>
  BY <1>6, CommitStores DEF Abort, counters, Over, Contract!Next
<1>7. CASE UNCHANGED vars
  BY <1>7 DEF vars, Over
<1> QED
  BY <1>1, <1>2, <1>3, <1>4, <1>5, <1>6, <1>7 DEF Next, Processor

(***************************************************************************)
(* One attempt implements the contract of an import: rows appear in        *)
(* groups and once, are claimed only when they are there, and nothing is   *)
(* claimed after the attempt is over.                                      *)
(***************************************************************************)
THEOREM Implementation == Spec => ImplementsContract
<1>1. Spec => []IInv /\ Init /\ [][Next]_vars
  BY Invariance, PTL DEF Spec
<1> QED
  BY <1>1, InitContract, StepContract, PTL DEF ImplementsContract, Contract!Spec

------------------------------------------------------------------------------
(* The books. *)

(* The rows up to slot n. *)
Through(n) == {r \in Rows : r + Header <= n}

(* A batch with an error entry that tells of row r. *)
InDoubt(r) == \E e \in errors : e.cause = "batch" /\ r \in Batch(e.row)

(* While the list has room, it tells of every row that was not counted, of *)
(* every batch that was given up, and of every row that these may store.   *)
ErrorsTell ==
  /\ \A r \in Through(Settled) : r \in counted \/ Reported(r)
  /\ \A s \in pending : (pc = "calling" /\ s = start) \/ BatchError(s) \in errors
  /\ \A r \in Rows : copies[r] > 0 =>
       r \in counted \/ (pc = "calling" /\ r \in Batch(start)) \/ InDoubt(r)

(***************************************************************************)
(* The row errors in the list are of batches already settled, so that what *)
(* a batch adds takes up the room it is given.                             *)
(***************************************************************************)
BooksInv ==
  /\ IsFiniteSet(errors) /\ Cardinality(errors) <= MaxErrors
  /\ \A e \in errors : e.cause = "row" => e.row <= Settled
  /\ processed >= Cardinality(Through(Settled))
  /\ \A r \in Rows : copies[r] > 0 => file[r] # "unparsable"
  /\ Cardinality(errors) < MaxErrors => ErrorsTell

(* The rows up to a slot are those of the batch and those before it. *)
LEMMA ThroughBatch ==
  ASSUME TypeOK, NEW s \in Nat
  PROVE  /\ Through(s + BatchSize) = Through(s) \union Batch(s)
         /\ Through(s) \cap Batch(s) = {}
         /\ IsFiniteSet(Through(s)) /\ Cardinality(Through(s)) \in Nat
         /\ Cardinality(Through(s + BatchSize)) = Cardinality(Through(s)) + Cardinality(Batch(s))
         /\ Cardinality(Batch(s)) <= BatchSize
<1>1. Len(file) \in Nat /\ Header \in {0, 1} /\ BatchSize \in Nat /\ Rows \subseteq Nat
  BY BatchImportAssumption DEF TypeOK, Header, Rows
<1>2. /\ Through(s + BatchSize) = Through(s) \union Batch(s)
      /\ Through(s) \cap Batch(s) = {}
  <2>1. ASSUME NEW r \in Rows
        PROVE  /\ r + Header <= s + BatchSize <=>
                    r + Header <= s \/ (s < r + Header /\ r + Header <= s + BatchSize)
               /\ ~(r + Header <= s /\ s < r + Header)
    <3>1. PICK n \in Int : n = r + Header
      BY <1>1
    <3> QED
      BY <1>1, <3>1
  <2> QED
    BY <2>1 DEF Through, Batch
<1>3. IsFiniteSet(Rows)
  BY <1>1, FS_Interval DEF Rows
<1>4. IsFiniteSet(Through(s)) /\ Cardinality(Through(s)) \in Nat
  BY <1>3, FS_Subset, FS_CardinalityType DEF Through
<1>5. Cardinality(Through(s + BatchSize)) = Cardinality(Through(s)) + Cardinality(Batch(s))
  <2>1. Cardinality(Through(s) \union Batch(s)) =
          Cardinality(Through(s)) + Cardinality(Batch(s)) - Cardinality(Through(s) \cap Batch(s))
    BY <1>4, BatchType, FS_Union
  <2>2. Cardinality(Through(s) \cap Batch(s)) = 0
    BY <1>2, FS_EmptySet
  <2>3. Cardinality(Batch(s)) \in Nat
    BY BatchType
  <2>4. Cardinality(Through(s + BatchSize)) = Cardinality(Through(s) \union Batch(s))
    BY <1>2, Zenon
  <2>5. PICK n \in Nat, m \in Nat : n = Cardinality(Through(s)) /\ m = Cardinality(Batch(s))
    BY <1>4, <2>3
  <2>6. Cardinality(Through(s) \union Batch(s)) = n + m - 0
    BY <2>1, <2>2, <2>5, Zenon
  <2> QED
    BY <2>4, <2>5, <2>6
<1>6. Cardinality(Batch(s)) <= BatchSize
  <2>1. PICK a \in Int, b \in Int : a = s + 1 - Header /\ b = s + BatchSize - Header
    BY <1>1
  <2>2. a <= b /\ b - a + 1 = BatchSize
    BY <1>1, <2>1, BatchImportAssumption
  <2>3. ASSUME NEW r \in Batch(s) PROVE r \in a..b
    <3>1. r \in Nat /\ s < r + Header /\ r + Header <= s + BatchSize
      BY <1>1 DEF Batch
    <3> QED
      BY <1>1, <2>1, <3>1
  <2>4. IsFiniteSet(a..b) /\ Cardinality(a..b) = BatchSize
    BY <2>2, FS_Interval
  <2> QED
    BY <2>3, <2>4, FS_Subset
<1> QED
  BY <1>2, <1>4, <1>5, <1>6

(* A step that settles no batch, and stores nothing, leaves the books in order. *)
LEMMA BooksCarry ==
  ASSUME BooksInv, UNCHANGED <<inputs, counters, copies>>, Settled' = Settled,
         pc = "calling" => pc' = "calling" /\ start' = start,
         \A s \in pending' : s \in pending \/ (pc' = "calling" /\ s = start')
  PROVE  BooksInv'
<1>1. UNCHANGED <<file, format, processed, errors, counted, Rows, Header>>
  BY DEF inputs, counters, Rows, Header
<1>2. Through(Settled)' = Through(Settled)
  BY <1>1 DEF Through
<1>3. ASSUME ErrorsTell PROVE ErrorsTell'
  <2>1. \A r \in Through(Settled)' : r \in counted' \/ Reported(r)'
    BY <1>1, <1>2, <1>3 DEF ErrorsTell, Reported, RowNumber, Batch
  <2>2. \A s \in pending' : (pc' = "calling" /\ s = start') \/ BatchError(s) \in errors'
    BY <1>1, <1>3 DEF ErrorsTell
  <2>3. \A r \in Rows' : copies'[r] > 0 =>
          r \in counted' \/ (pc' = "calling" /\ r \in Batch(start)') \/ InDoubt(r)'
    BY <1>1, <1>3 DEF ErrorsTell, InDoubt, Batch
  <2> QED
    BY <2>1, <2>2, <2>3 DEF ErrorsTell, BatchError
<1> QED
  BY <1>1, <1>2, <1>3 DEF BooksInv

(* A batch is stored while the call waits, or after its error was entered. *)
LEMMA BooksCommit ==
  ASSUME IInv, BooksInv, NEW s \in pending, Commit(s)
  PROVE  BooksInv'
<1>1. UNCHANGED <<file, format, pc, start, processed, errors, counted, Rows, Header, Settled>>
  BY DEF Commit, inputs, counters, Rows, Header, Settled
<1>2. s \in Nat /\ TypeOK /\ copies \in [Rows -> Nat]
  BY DEF IInv, TypeOK
<1>3. \A r \in Rows : copies'[r] > 0 => copies[r] > 0 \/ r \in Transactions(s)
  BY <1>2 DEF Commit
<1>4. \A r \in Transactions(s) : r \in Batch(s) /\ file[r] # "unparsable"
  BY DEF Transactions
<1>5. Through(Settled)' = Through(Settled)
  BY <1>1 DEF Through
<1>6. ASSUME ErrorsTell PROVE ErrorsTell'
  <2>1. \A r \in Through(Settled)' : r \in counted' \/ Reported(r)'
    BY <1>1, <1>5, <1>6 DEF ErrorsTell, Reported, RowNumber, Batch
  <2>2. \A t \in pending' : (pc' = "calling" /\ t = start') \/ BatchError(t)' \in errors'
    BY <1>1, <1>6 DEF ErrorsTell, Commit, BatchError
  <2>3. ASSUME NEW r \in Rows, copies'[r] > 0
        PROVE  r \in counted' \/ (pc' = "calling" /\ r \in Batch(start)') \/ InDoubt(r)'
    <3>1. CASE copies[r] > 0
      BY <1>1, <1>6, <3>1 DEF ErrorsTell, InDoubt, Batch
    <3>2. CASE r \in Transactions(s)
      <4>1. BatchError(s).cause = "batch" /\ BatchError(s).row = s /\ r \in Batch(s)
        BY <1>4, <3>2 DEF BatchError
      <4>2. (pc = "calling" /\ s = start) \/ BatchError(s) \in errors
        BY <1>6 DEF ErrorsTell
      <4> QED
        BY <1>1, <4>1, <4>2 DEF InDoubt, Batch
    <3> QED
      BY <1>3, <2>3, <3>1, <3>2
  <2> QED
    BY <1>1, <2>1, <2>2, <2>3 DEF ErrorsTell
<1> QED
  BY <1>1, <1>3, <1>4, <1>5, <1>6 DEF BooksInv

(* What a step of the loop may do to the books, and what then holds of them. *)
LEMMA ErrorsKeep ==
  ASSUME UNCHANGED inputs, errors \subseteq errors', NEW r, Reported(r) \/ InDoubt(r)
  PROVE  (Reported(r) => Reported(r)') /\ (InDoubt(r) => InDoubt(r)')
BY DEF inputs, Reported, InDoubt, RowNumber, Header, Batch, Rows

LEMMA RowErrorsFinite ==
  ASSUME TypeOK, NEW s \in Nat
  PROVE  IsFiniteSet(RowErrors(s)) /\ Cardinality(RowErrors(s)) \in Nat
<1> DEFINE S == Batch(s) \ Transactions(s)
           f == [r \in S |-> [row |-> RowNumber(r), cause |-> "row"]]
<1>1. IsFiniteSet(S)
  BY BatchType, FS_Subset
<1>2. f \in Surjection(S, RowErrors(s))
  BY DEF Surjection, RowErrors
<1>3. IsFiniteSet(RowErrors(s))
  <2> HIDE DEF S, f
  <2> QED
    BY <1>1, <1>2, FS_Surjection
<1> QED
  BY <1>3, FS_CardinalityType

(* Within the room of the list a batch's errors are all kept. *)
LEMMA KeptAll ==
  ASSUME TypeOK, BooksInv, NEW found, IsFiniteSet(found), NEW kept, FirstOf(kept, found),
         errors \cap found = {}
  PROVE  /\ IsFiniteSet(errors \union kept) /\ Cardinality(errors \union kept) <= MaxErrors
         /\ Cardinality(errors \union kept) < MaxErrors =>
              kept = found /\ Cardinality(errors) < MaxErrors
<1>1. /\ Cardinality(errors) \in Nat /\ MaxErrors \in Nat /\ Cardinality(errors) <= MaxErrors
      /\ IsFiniteSet(errors)
  BY FS_CardinalityType, BatchImportAssumption DEF BooksInv
<1>2. /\ kept \subseteq found /\ IsFiniteSet(kept) /\ Cardinality(kept) \in Nat
      /\ Cardinality(found) \in Nat
      /\ Cardinality(kept) = Cardinality(found) => kept = found
  BY FS_Subset, FS_CardinalityType DEF FirstOf
<1>3. PICK n \in Nat, k \in Nat, m \in Nat :
        n = Cardinality(errors) /\ k = Cardinality(kept) /\ m = Cardinality(found)
  BY <1>1, <1>2
<1>4. k = IF MaxErrors - n <= m THEN MaxErrors - n ELSE m
  BY <1>3 DEF FirstOf, Smaller, Room
<1>5. IsFiniteSet(errors \union kept) /\ Cardinality(errors \union kept) = n + k
  <2>1. /\ IsFiniteSet(errors \union kept)
        /\ Cardinality(errors \union kept) = n + k - Cardinality(errors \cap kept)
    BY <1>1, <1>2, <1>3, FS_Union
  <2>2. Cardinality(errors \cap kept) = 0
    <3>1. errors \cap kept = {}
      BY <1>2
    <3> QED
      BY <3>1, FS_EmptySet
  <2> QED
    BY <2>1, <2>2
<1> QED
  BY <1>1, <1>2, <1>3, <1>4, <1>5

(* A batch that went through: each of its rows is counted or has its error. *)
LEMMA BooksCount ==
  ASSUME IInv, BooksInv, CountBatch, UNCHANGED <<inputs, service>>,
         pc \in {"loop", "calling"}, pc = "calling" => start \notin pending
  PROVE  BooksInv'
<1> DEFINE next == start + BatchSize
<1>1. /\ TypeOK /\ start \in Nat /\ BatchSize \in Nat /\ next \in Nat /\ Header \in {0, 1}
      /\ Rows \subseteq Nat /\ start <= next
  BY BatchImportAssumption DEF IInv, TypeOK, Header, Rows
<1>2. UNCHANGED <<file, format, pending, copies, Rows, Header>>
  BY DEF inputs, service, Rows, Header
<1>3. Settled = start /\ Settled' = next /\ pc' # "calling"
  BY DEF Settled, CountBatch, NextBatch
<1>4. PICK kept \in SUBSET RowErrors(start) :
        FirstOf(kept, RowErrors(start)) /\ errors' = errors \union kept
  BY DEF CountBatch
<1>5. \A e \in RowErrors(start) :
        e.cause = "row" /\ start < e.row /\ e.row <= next
  BY <1>1 DEF RowErrors, RowNumber, Batch
<1>6. errors \cap RowErrors(start) = {}
  <2>1. ASSUME NEW e \in errors, e \in RowErrors(start) PROVE FALSE
    <3>1. e.row <= start /\ start < e.row
      BY <1>3, <1>5, <2>1 DEF BooksInv
    <3>2. e.row \in Nat
      BY <1>1, <2>1 DEF TypeOK, ErrorEntry
    <3> QED
      BY <1>1, <3>1, <3>2
  <2> QED
    BY <2>1
<1>7. /\ IsFiniteSet(errors') /\ Cardinality(errors') <= MaxErrors
      /\ Cardinality(errors') < MaxErrors =>
           kept = RowErrors(start) /\ Cardinality(errors) < MaxErrors
  BY <1>1, <1>4, <1>6, KeptAll, RowErrorsFinite
<1>8. ASSUME NEW e \in errors', e.cause = "row" PROVE e.row <= Settled'
  <2>1. CASE e \in errors
    <3>1. e.row <= start /\ e.row \in Nat
      BY <1>1, <1>3, <1>8, <2>1 DEF BooksInv, TypeOK, ErrorEntry
    <3> QED
      BY <1>1, <1>3, <3>1
  <2>2. CASE e \in kept
    BY <1>3, <1>5, <2>2
  <2> QED
    BY <1>4, <2>1, <2>2
<1>9. Through(Settled)' = Through(start) \union Batch(start)
  <2>1. Through(Settled)' = Through(next)
    BY <1>2, <1>3 DEF Through
  <2> QED
    BY <1>1, <2>1, ThroughBatch
<1>10. processed' >= Cardinality(Through(Settled)')
  <2>1. PICK p \in Nat, n \in Nat, m \in Nat :
          /\ p = processed /\ n = Cardinality(Through(start)) /\ m = Cardinality(Batch(start))
          /\ Cardinality(Through(next)) = n + m
    BY <1>1, ThroughBatch, BatchType DEF TypeOK
  <2>2. p >= n /\ processed' = p + m
    BY <1>3, <2>1 DEF BooksInv, CountBatch
  <2>3. Through(Settled)' = Through(next)
    BY <1>2, <1>3 DEF Through
  <2> QED
    BY <2>1, <2>2, <2>3
<1>11. ASSUME Cardinality(errors') < MaxErrors PROVE ErrorsTell'
  <2>1. ErrorsTell /\ errors' = errors \union RowErrors(start)
    BY <1>4, <1>7, <1>11 DEF BooksInv
  <2>2. ASSUME NEW r, Reported(r) \/ InDoubt(r)
        PROVE  (Reported(r) => Reported(r)') /\ (InDoubt(r) => InDoubt(r)')
    BY <2>1, <2>2, ErrorsKeep
  <2>3. counted' = counted \union Transactions(start)
    BY DEF CountBatch
  <2>4. ASSUME NEW r \in Through(Settled)' PROVE r \in counted' \/ Reported(r)'
    <3>1. CASE r \in Through(start)
      BY <1>3, <2>1, <2>2, <2>3, <3>1 DEF ErrorsTell
    <3>2. CASE r \in Batch(start) \ Transactions(start)
      <4>1. [row |-> RowNumber(r), cause |-> "row"] \in errors'
        BY <2>1, <3>2 DEF RowErrors
      <4>2. RowNumber(r)' = RowNumber(r)
        BY <1>2 DEF RowNumber
      <4> QED
        BY <4>1, <4>2 DEF Reported
    <3> QED
      BY <1>9, <2>3, <2>4, <3>1, <3>2
  <2>5. ASSUME NEW s \in pending' PROVE BatchError(s) \in errors'
    BY <1>2, <2>1, <2>5 DEF ErrorsTell
  <2>6. ASSUME NEW r \in Rows', copies'[r] > 0 PROVE r \in counted' \/ InDoubt(r)'
    <3>1. copies[r] > 0 /\ r \in Rows /\ file[r] # "unparsable"
      BY <1>2, <2>6 DEF BooksInv
    <3>2. r \in counted \/ r \in Batch(start) \/ InDoubt(r)
      BY <2>1, <3>1 DEF ErrorsTell
    <3>3. r \in Batch(start) => r \in counted'
      BY <2>3, <3>1 DEF Transactions
    <3> QED
      BY <2>2, <2>3, <3>2, <3>3
  <2> QED
    BY <2>4, <2>5, <2>6 DEF ErrorsTell, BatchError
<1>12. \A r \in Rows' : copies'[r] > 0 => file'[r] # "unparsable"
  BY <1>2 DEF BooksInv
<1> QED
  BY <1>7, <1>8, <1>10, <1>11, <1>12 DEF BooksInv

(* A batch given up: its error speaks for each of its rows. *)
LEMMA BooksCatch ==
  ASSUME IInv, BooksInv, CatchBatch, UNCHANGED <<inputs, service>>,
         pc \in {"calling", "progress"}
  PROVE  BooksInv'
<1> DEFINE next == start + BatchSize
<1>1. /\ TypeOK /\ start \in Nat /\ BatchSize \in Nat /\ next \in Nat /\ Header \in {0, 1}
      /\ Rows \subseteq Nat /\ start <= next /\ MaxErrors \in Nat
  BY BatchImportAssumption DEF IInv, TypeOK, Header, Rows
<1>2. UNCHANGED <<file, format, pending, copies, Rows, Header>>
  BY DEF inputs, service, Rows, Header
<1>3. Settled \in {start, next} /\ Settled' = next /\ pc' = "loop" /\ counted' = counted
  BY DEF Settled, CatchBatch, NextBatch
<1>4. Cardinality(errors) \in Nat /\ IsFiniteSet(errors) /\ Cardinality(errors) <= MaxErrors
  BY FS_CardinalityType DEF BooksInv
<1>5. errors' = IF Room > 0 THEN errors \union {BatchError(start)} ELSE errors
  BY DEF CatchBatch
<1>6. /\ IsFiniteSet(errors') /\ Cardinality(errors') <= MaxErrors
      /\ Cardinality(errors') < MaxErrors =>
           /\ errors' = errors \union {BatchError(start)}
           /\ Cardinality(errors) < MaxErrors
  <2>1. PICK n \in Nat : n = Cardinality(errors) /\ Room = MaxErrors - n
    BY <1>4 DEF Room
  <2>2. CASE Room > 0
    <3>1. /\ IsFiniteSet(errors')
          /\ Cardinality(errors') = n \/ Cardinality(errors') = n + 1
      BY <1>4, <1>5, <2>1, <2>2, FS_AddElement
    <3> QED
      BY <1>1, <1>5, <2>1, <2>2, <3>1
  <2>3. CASE ~(Room > 0)
    BY <1>1, <1>4, <1>5, <2>1, <2>3
  <2> QED
    BY <2>2, <2>3
<1>7. ASSUME NEW e \in errors', e.cause = "row" PROVE e.row <= Settled'
  <2>1. e \in errors
    BY <1>5, <1>7 DEF BatchError
  <2>2. e.row <= Settled /\ e.row \in Nat
    BY <1>1, <1>7, <2>1 DEF BooksInv, TypeOK, ErrorEntry
  <2> QED
    BY <1>1, <1>3, <2>2
<1>8. /\ Through(next) = Through(start) \union Batch(start)
      /\ Through(Settled)' = Through(next)
  <2>1. Through(Settled)' = Through(next)
    BY <1>2, <1>3 DEF Through
  <2> QED
    BY <1>1, <2>1, ThroughBatch
<1>9. processed' >= Cardinality(Through(Settled)')
  <2>1. PICK p \in Nat, n \in Nat, m \in Nat :
          /\ p = processed /\ n = Cardinality(Through(start)) /\ m = Cardinality(Batch(start))
          /\ Cardinality(Through(next)) = n + m /\ m <= BatchSize
    <3>1. /\ Cardinality(Through(start)) \in Nat
          /\ Cardinality(Through(next)) = Cardinality(Through(start)) + Cardinality(Batch(start))
          /\ Cardinality(Batch(start)) <= BatchSize
      BY <1>1, ThroughBatch
    <3>2. processed \in Nat /\ Cardinality(Batch(start)) \in Nat
      BY <1>1, BatchType DEF TypeOK
    <3> QED
      BY <3>1, <3>2
  <2>2. p >= n
    <3>1. p >= Cardinality(Through(Settled))
      BY <2>1 DEF BooksInv
    <3>2. CASE Settled = start
      BY <2>1, <3>1, <3>2
    <3>3. CASE Settled = next
      BY <2>1, <3>1, <3>3
    <3> QED
      BY <1>3, <3>2, <3>3
  <2>3. processed' = p + m \/ processed' = p + BatchSize
    BY <2>1 DEF CatchBatch
  <2> QED
    BY <1>1, <1>8, <2>1, <2>2, <2>3
<1>10. ASSUME Cardinality(errors') < MaxErrors PROVE ErrorsTell'
  <2>1. ErrorsTell /\ errors' = errors \union {BatchError(start)}
    BY <1>6, <1>10 DEF BooksInv
  <2>2. ASSUME NEW r, Reported(r) \/ InDoubt(r)
        PROVE  (Reported(r) => Reported(r)') /\ (InDoubt(r) => InDoubt(r)')
    BY <2>1, <2>2, ErrorsKeep
  <2>3. ASSUME NEW r \in Batch(start) PROVE Reported(r)' /\ InDoubt(r)'
    <3>1. /\ BatchError(start) \in errors' /\ BatchError(start).cause = "batch"
          /\ BatchError(start).row = start
      BY <2>1 DEF BatchError
    <3>2. \A s : Batch(s)' = Batch(s)
      BY <1>2 DEF Batch
    <3>3. \E e \in errors' : e.cause = "batch" /\ r \in Batch(e.row)
      BY <2>3, <3>1
    <3> QED
      BY <1>2, <3>3 DEF Reported, InDoubt, Batch
  <2>4. ASSUME NEW r \in Through(Settled)' PROVE r \in counted' \/ Reported(r)'
    <3>1. CASE r \in Through(start)
      <4>1. r \in Through(Settled)
        <5>1. Through(start) \subseteq Through(Settled)
          BY <1>3, <1>8
        <5> QED
          BY <3>1, <5>1
      <4> QED
        BY <1>3, <2>1, <2>2, <4>1 DEF ErrorsTell
    <3>2. CASE r \in Batch(start)
      BY <2>3, <3>2
    <3> QED
      BY <1>8, <2>4, <3>1, <3>2
  <2>5. ASSUME NEW s \in pending' PROVE BatchError(s) \in errors'
    BY <1>2, <2>1, <2>5 DEF ErrorsTell
  <2>6. ASSUME NEW r \in Rows', copies'[r] > 0 PROVE r \in counted' \/ InDoubt(r)'
    <3>1. copies[r] > 0 /\ r \in Rows
      BY <1>2, <2>6
    <3>2. r \in counted \/ r \in Batch(start) \/ InDoubt(r)
      BY <2>1, <3>1 DEF ErrorsTell
    <3> QED
      BY <1>3, <2>2, <2>3, <3>2
  <2> QED
    BY <2>4, <2>5, <2>6 DEF ErrorsTell, BatchError
<1>11. \A r \in Rows' : copies'[r] > 0 => file'[r] # "unparsable"
  BY <1>2 DEF BooksInv
<1> QED
  BY <1>6, <1>7, <1>9, <1>10, <1>11 DEF BooksInv

LEMMA BooksInit == Init => BooksInv
<1> SUFFICES ASSUME Init PROVE BooksInv
  OBVIOUS
<1>1. TypeOK /\ Len(file) \in Nat
  BY InitIInv DEF IInv, TypeOK
<1>2. Settled = 0 /\ processed = 0 /\ errors = {} /\ pending = {}
  BY DEF Init, Settled
<1>3. Through(0) = {}
  BY <1>1 DEF Through, Rows, Header
<1>4. ErrorsTell
  BY <1>2, <1>3 DEF Init, ErrorsTell
<1>5. IsFiniteSet(errors) /\ Cardinality(errors) = 0 /\ Cardinality(Through(Settled)) = 0
  BY <1>2, <1>3, FS_EmptySet
<1> QED
  BY <1>2, <1>4, <1>5, BatchImportAssumption DEF BooksInv, Init

LEMMA BooksNext == IInv /\ BooksInv /\ [Next]_vars => BooksInv'
<1> SUFFICES ASSUME IInv, BooksInv, [Next]_vars PROVE BooksInv'
  OBVIOUS
<1>1. CASE Open \/ Unreadable \/ Return
  BY <1>1, BooksCarry DEF Open, Unreadable, Return, counters, service, Settled
<1>2. CASE Send
  BY <1>2, BooksCarry DEF Send, Settled
<1>3. CASE Progress
  BY <1>3, BooksCarry DEF Progress, NextBatch, service, Settled
<1>4. CASE BatchDone
  BY <1>4, BooksCount DEF BatchDone, IInv, AnswerIsTrue
<1>5. CASE NothingToSend
  BY <1>5, BooksCount DEF NothingToSend
<1>6. CASE BatchFailed \/ BatchTimeout \/ ProgressFailed
  BY <1>6, BooksCatch DEF BatchFailed, BatchTimeout, ProgressFailed
<1>7. ASSUME NEW s \in pending, Commit(s)
      PROVE  BooksInv'
  BY <1>7, BooksCommit
<1>8. ASSUME NEW s \in pending, Abort(s)
      PROVE  BooksInv'
  BY <1>8, BooksCarry DEF Abort, Settled
<1>9. CASE UNCHANGED vars
  BY <1>9, BooksCarry DEF vars, inputs, counters, Settled
<1> QED
  BY <1>1, <1>2, <1>3, <1>4, <1>5, <1>6, <1>7, <1>8, <1>9 DEF Next, Processor

(* An attempt returns when the loop is past the last slot. *)
PastTheEnd == pc = "returned" => start >= Slots

LEMMA ReturnsPastTheEnd == Spec => []PastTheEnd
<1>1. Init => PastTheEnd
  BY DEF Init, PastTheEnd
<1>2. PastTheEnd /\ [Next]_vars => PastTheEnd'
  <2> SUFFICES ASSUME PastTheEnd, [Next]_vars PROVE PastTheEnd'
    OBVIOUS
  <2>1. CASE Return
    BY <2>1 DEF Return, PastTheEnd, Slots, Header, inputs
  <2>2. CASE UNCHANGED vars
    BY <2>2 DEF vars, PastTheEnd, Slots, Header
  <2>3. CASE BatchDone \/ NothingToSend
    BY <2>3 DEF BatchDone, NothingToSend, CountBatch, NextBatch, PastTheEnd
  <2>4. CASE BatchFailed \/ BatchTimeout \/ ProgressFailed
    BY <2>4
    DEF BatchFailed, BatchTimeout, ProgressFailed, CatchBatch, NextBatch, PastTheEnd
  <2>5. CASE Open \/ Unreadable \/ Send \/ Progress
    BY <2>5 DEF Open, Unreadable, Send, Progress, NextBatch, PastTheEnd
  <2>6. ASSUME NEW s \in pending, Commit(s) \/ Abort(s) PROVE PastTheEnd'
    BY <2>6 DEF Commit, Abort, PastTheEnd, Slots, Header, inputs
  <2> QED
    BY <2>1, <2>2, <2>3, <2>4, <2>5, <2>6 DEF Next, Processor
<1> QED
  BY <1>1, <1>2, PTL DEF Spec

LEMMA ReturnedThrough ==
  ASSUME IInv, PastTheEnd, pc = "returned"
  PROVE  Through(Settled) = Rows
<1>1. Settled = start /\ start >= Len(file) + Header
  BY DEF PastTheEnd, Slots, Settled
<1>2. start \in Nat /\ Len(file) \in Nat /\ Header \in {0, 1}
  BY DEF IInv, TypeOK, Header
<1> QED
  BY <1>1, <1>2 DEF Through, Rows

LEMMA BooksHold == Spec => []BooksInv
<1>1. Init => IInv /\ BooksInv
  BY InitIInv, BooksInit
<1>2. IInv /\ BooksInv /\ [Next]_vars => IInv' /\ BooksInv'
  BY StepIInv, BooksNext
<1> QED
  BY <1>1, <1>2, PTL DEF Spec

(***************************************************************************)
(* No row vanishes from the books: an attempt that returns with room in    *)
(* its error list has counted each row, given it an error of its own, or   *)
(* entered an error for its batch, however its calls ended.                *)
(***************************************************************************)
THEOREM RowsAreAccounted == Spec => []NoRowUnaccounted
<1>1. IInv /\ BooksInv /\ PastTheEnd => NoRowUnaccounted
  <2> SUFFICES ASSUME IInv, BooksInv, PastTheEnd,
                      pc = "returned", Cardinality(errors) < MaxErrors,
                      NEW r \in Rows
               PROVE  r \in counted \/ Reported(r)
    BY DEF NoRowUnaccounted
  <2>1. r \in Through(Settled)
    BY ReturnedThrough
  <2> QED
    BY <2>1 DEF BooksInv, ErrorsTell
<1> QED
  BY <1>1, Invariance, BooksHold, ReturnsPastTheEnd, PTL

(***************************************************************************)
(* A row that is stored and not counted is of the batch in progress or of  *)
(* one with an error entry: where successfulRecords is too low, the list   *)
(* of errors says so, as long as it has room.                              *)
(***************************************************************************)
THEOREM DoubtIsReported == Spec => []UncountedRowsAreInDoubt
<1>1. BooksInv => UncountedRowsAreInDoubt
  BY DEF BooksInv, ErrorsTell, InDoubt, UncountedRowsAreInDoubt
<1> QED
  BY <1>1, BooksHold, PTL

(***************************************************************************)
(* The error list never outgrows its cap, and an attempt that returns has  *)
(* counted at least the rows of the file as processed.                     *)
(***************************************************************************)
THEOREM BooksClose == Spec => []BooksAtReturn
<1>1. IInv /\ BooksInv /\ PastTheEnd => BooksAtReturn
  <2> SUFFICES ASSUME IInv, BooksInv, PastTheEnd PROVE BooksAtReturn
    OBVIOUS
  <2>1. ASSUME pc = "returned" PROVE processed >= Len(file)
    <3>1. Through(Settled) = Rows
      BY <2>1, ReturnedThrough
    <3>2. Cardinality(Rows) = Len(file)
      <4>1. Len(file) \in Nat
        BY DEF IInv, TypeOK
      <4>2. PICK n \in Nat : n = Len(file)
        BY <4>1
      <4>3. Cardinality(1..n) = IF 1 > n THEN 0 ELSE n - 1 + 1
        BY FS_Interval
      <4>4. Cardinality(1..n) = n
        BY <4>3
      <4> QED
        BY <4>2, <4>4 DEF Rows
    <3> QED
      BY <3>1, <3>2 DEF BooksInv
  <2> QED
    BY <2>1 DEF BooksInv, BooksAtReturn
<1> QED
  BY <1>1, Invariance, BooksHold, ReturnsPastTheEnd, PTL
==============================================================================
