---------------------------- MODULE Notification ----------------------------
(***************************************************************************)
(* The notification service: the events of the other services become       *)
(* records in a Map of the process and jobs of a Bull queue in Redis; one  *)
(* worker sends each notification to its channels, again when a channel    *)
(* failed (NotificationService, notification.service.ts).                  *)
(*                                                                         *)
(* The record and the counters live in memory and end with the process,    *)
(* the job does not.  An attempt is counted twice: `tries` in the record   *)
(* decides whether a failure is retried, attemptsMade in Bull decides      *)
(* whether the job is.                                                     *)
(***************************************************************************)
EXTENDS Integers, Sequences, FiniteSets, SequencesExt

CONSTANTS
  Notifications,  \* one id for each event received
  Percents,       \* the values of data.progress considered
  MaxAttempts,    \* maxAttempts: 3
  MaxStalls,      \* maxStalledCount: 1, Bull's default
  MaxCrashes,     \* bound: crashes of the notification service
  None            \* no notification

EventName == {"transaction_created", "file_processing_started",
              "file_processing_progress", "file_processing_completed",
              "file_processing_failed"}

ASSUME NotificationAssumption ==
  /\ Percents \subseteq 0..100
  /\ MaxAttempts \in Nat \ {0}
  /\ MaxStalls \in Nat
  /\ MaxCrashes \in Nat
  /\ None \notin Notifications

VARIABLES
  event,      \* the event behind each notification (never changes)
  percent,    \* and its data.progress (never changes)
  arrived,    \* the notifications created, in their order
  status,     \* the status of each record, "none" where the Map has no record
  tries,      \* notification.attempts of each record
  metrics,    \* totalSent, totalFailed and totalPending
  queue,      \* Bull's wait list, in the order its jobs are taken
  job,        \* the state of each Bull job
  attempts,   \* attemptsMade
  stalls,     \* stalledCounter
  current,    \* the notification the worker is sending, or None
  delivered,  \* history: how many times each was given to the realtime gateway
  crashes     \* crashes so far

source == <<event, percent>>
bull == <<queue, job, attempts, stalls>>
vars == <<event, percent, arrived, status, tries, metrics, queue, job, attempts,
          stalls, current, delivered, crashes>>

------------------------------------------------------------------------------
(* What each handler asks for.                                             *)

Priority(n) ==
  CASE event[n] = "transaction_created" -> "medium"
    [] event[n] = "file_processing_progress" -> "low"
    [] OTHER -> "high"

Channels(n) ==
  IF event[n] \in {"file_processing_started", "file_processing_progress"}
  THEN {"websocket"}
  ELSE {"websocket", "email"}

Type(n) ==
  CASE event[n] = "transaction_created" -> "transaction"
    [] event[n] = "file_processing_failed" -> "error"
    [] OTHER -> "file_processing"

(* "Only send progress updates every 10% or for significant milestones". *)
Wanted(n) ==
  event[n] = "file_processing_progress" =>
    percent[n] % 10 = 0 \/ percent[n] > 95

(* getPriorityValue.  Bull takes the smallest value first. *)
PriorityValue(n) ==
  CASE Priority(n) = "high" -> 10
    [] Priority(n) = "medium" -> 5
    [] Priority(n) = "low" -> 1

(***************************************************************************)
(* sendToChannel: the gateway never rejects; the email is looked up under  *)
(* the type of the notification in a table keyed by event names, and is    *)
(* queued in Redis, which may fail, only if it is found there.             *)
(***************************************************************************)
Templates == EventName

MayReject(n) == "email" \in Channels(n)

MustReject(n) == "email" \in Channels(n) /\ Type(n) \notin Templates

------------------------------------------------------------------------------
(* Bull's wait list.                                                       *)

(* Mutant of Insert: the newest of the jobs of one value goes first (lifo). *)
InsertNewestFirst(n) ==
  LET ahead == {i \in 1..Len(queue) : PriorityValue(queue[i]) < PriorityValue(n)}
      place == IF ahead = {} THEN 1 ELSE Max(ahead) + 1
  IN  InsertAt(queue, place, n)

(* A job goes behind the jobs whose value is not greater. *)
Insert(n) ==
  LET ahead == {i \in 1..Len(queue) : PriorityValue(queue[i]) <= PriorityValue(n)}
      place == IF ahead = {} THEN 1 ELSE Max(ahead) + 1
  IN  InsertAt(queue, place, n)

Count(name, n) == [metrics EXCEPT ![name] = @ + n]

NoMetrics == [totalSent |-> 0, totalFailed |-> 0, totalPending |-> 0]

Init ==
  /\ event \in [Notifications -> EventName]
  /\ percent \in [Notifications -> Percents]
  /\ arrived = <<>>
  /\ status = [n \in Notifications |-> "none"]
  /\ tries = [n \in Notifications |-> 0]
  /\ metrics = NoMetrics
  /\ queue = <<>>
  /\ job = [n \in Notifications |-> "none"]
  /\ attempts = [n \in Notifications |-> 0]
  /\ stalls = [n \in Notifications |-> 0]
  /\ current = None
  /\ delivered = [n \in Notifications |-> 0]
  /\ crashes = 0

(***************************************************************************)
(* A handler and sendNotification: the record, the counter, the job.  When *)
(* Redis refuses the job the handler throws and the record stays.          *)
(***************************************************************************)
Receive(n) ==
  /\ n \notin Range(arrived)
  /\ Wanted(n)
  /\ arrived' = Append(arrived, n)
  /\ status' = [status EXCEPT ![n] = "pending"]
  /\ metrics' = Count("totalPending", 1)
  /\ \/ /\ queue' = Insert(n)
        /\ job' = [job EXCEPT ![n] = "waiting"]
     \/ UNCHANGED <<queue, job>>
  /\ UNCHANGED <<source, tries, attempts, stalls, current, delivered, crashes>>

(***************************************************************************)
(* The worker takes the first job.  processNotification counts the try and *)
(* sends to the sockets at once; the other channels may take a while.      *)
(***************************************************************************)
Begin ==
  /\ current = None
  /\ queue # <<>>
  /\ LET n == Head(queue)
     IN  /\ current' = n
         /\ job' = [job EXCEPT ![n] = "active"]
         /\ IF status[n] = "none"
            THEN UNCHANGED <<status, tries, delivered>>
            ELSE /\ status' = [status EXCEPT ![n] = "processing"]
                 /\ tries' = [tries EXCEPT ![n] = @ + 1]
                 /\ delivered' = [delivered EXCEPT ![n] = @ + 1]
  /\ queue' = Tail(queue)
  /\ UNCHANGED <<source, arrived, metrics, attempts, stalls, crashes>>

(* The job's processor threw: Bull tries it again, up to its attempts. *)
JobThrows(n) ==
  /\ attempts' = [attempts EXCEPT ![n] = @ + 1]
  /\ job' = [job EXCEPT ![n] =
               IF attempts'[n] < MaxAttempts THEN "delayed" ELSE "failed"]
  /\ current' = None
  /\ UNCHANGED <<source, arrived, tries, queue, stalls, delivered, crashes>>

(* "Notification not found": the record ended with an earlier process. *)
NotFound ==
  /\ current # None
  /\ status[current] = "none"
  /\ JobThrows(current)
  /\ UNCHANGED <<status, metrics>>

(* Mutants of Retry: it retries after a success; it retries after the last *)
(* try.                                                                    *)
RetryWithoutFailure ==
  /\ current # None
  /\ status[current] = "processing"
  /\ tries[current] < MaxAttempts
  /\ status' = [status EXCEPT ![current] = "failed"]
  /\ metrics' = [metrics EXCEPT !.totalFailed = @ + 1, !.totalPending = @ - 1]
  /\ JobThrows(current)

RetryOnLastTry ==
  /\ current # None
  /\ status[current] = "processing"
  /\ MayReject(current)
  /\ tries[current] <= MaxAttempts
  /\ status' = [status EXCEPT ![current] = "failed"]
  /\ metrics' = [metrics EXCEPT !.totalFailed = @ + 1, !.totalPending = @ - 1]
  /\ JobThrows(current)

(* A channel failed and a try is left: FAILED, and the job goes back. *)
Retry ==
  /\ current # None
  /\ status[current] = "processing"
  /\ MayReject(current)
  /\ tries[current] < MaxAttempts
  /\ status' = [status EXCEPT ![current] = "failed"]
  /\ metrics' = [metrics EXCEPT !.totalFailed = @ + 1, !.totalPending = @ - 1]
  /\ JobThrows(current)

(* Mutants of Sent: the notification stays in totalPending; the last try   *)
(* waits for a failing channel to succeed.                                 *)
SentStillPending ==
  /\ current # None
  /\ status[current] = "processing"
  /\ MustReject(current) => tries[current] >= MaxAttempts
  /\ status' = [status EXCEPT ![current] = "sent"]
  /\ metrics' = Count("totalSent", 1)
  /\ job' = [job EXCEPT ![current] = "completed"]
  /\ current' = None
  /\ UNCHANGED <<source, arrived, tries, queue, attempts, stalls, delivered,
                 crashes>>

SentOnSuccess ==
  /\ current # None
  /\ status[current] = "processing"
  /\ ~MustReject(current)
  /\ status' = [status EXCEPT ![current] = "sent"]
  /\ metrics' = [metrics EXCEPT !.totalSent = @ + 1, !.totalPending = @ - 1]
  /\ job' = [job EXCEPT ![current] = "completed"]
  /\ current' = None
  /\ UNCHANGED <<source, arrived, tries, queue, attempts, stalls, delivered,
                 crashes>>

(***************************************************************************)
(* No channel failed, or one did on the last try: SENT either way.         *)
(***************************************************************************)
Sent ==
  /\ current # None
  /\ status[current] = "processing"
  /\ MustReject(current) => tries[current] >= MaxAttempts
  /\ status' = [status EXCEPT ![current] = "sent"]
  /\ metrics' = [metrics EXCEPT !.totalSent = @ + 1, !.totalPending = @ - 1]
  /\ job' = [job EXCEPT ![current] = "completed"]
  /\ current' = None
  /\ UNCHANGED <<source, arrived, tries, queue, attempts, stalls, delivered,
                 crashes>>

(* The backoff of a failed job is over. *)
Promote(n) ==
  /\ job[n] = "delayed"
  /\ job' = [job EXCEPT ![n] = "waiting"]
  /\ queue' = Insert(n)
  /\ UNCHANGED <<source, arrived, status, tries, metrics, attempts, stalls,
                 current, delivered, crashes>>

(* A job whose process ended goes to the head of the list, once. *)
Stalled(n) ==
  /\ job[n] = "active"
  /\ current # n
  /\ stalls' = [stalls EXCEPT ![n] = @ + 1]
  /\ IF stalls'[n] > MaxStalls
     THEN job' = [job EXCEPT ![n] = "failed"] /\ UNCHANGED queue
     ELSE job' = [job EXCEPT ![n] = "waiting"] /\ queue' = <<n>> \o queue
  /\ UNCHANGED <<source, arrived, status, tries, metrics, attempts, current,
                 delivered, crashes>>

(* The service ends and starts again, with an empty Map and new counters. *)
Crash ==
  /\ crashes < MaxCrashes
  /\ crashes' = crashes + 1
  /\ status' = [n \in Notifications |-> "none"]
  /\ tries' = [n \in Notifications |-> 0]
  /\ metrics' = NoMetrics
  /\ current' = None
  /\ UNCHANGED <<source, arrived, bull, delivered>>

Worker == Begin \/ NotFound \/ Retry \/ Sent

Next ==
  \/ \E n \in Notifications : Receive(n) \/ Promote(n) \/ Stalled(n)
  \/ Worker
  \/ Crash

(***************************************************************************)
(* The worker and Bull's timers go on; events and crashes need not come.   *)
(***************************************************************************)
Fairness ==
  /\ WF_vars(Worker)
  /\ \A n \in Notifications : WF_vars(Promote(n)) /\ WF_vars(Stalled(n))

Spec == Init /\ [][Next]_vars /\ Fairness

------------------------------------------------------------------------------
(* Types. *)
TypeOK ==
  /\ event \in [Notifications -> EventName]
  /\ percent \in [Notifications -> Percents]
  /\ arrived \in Seq(Notifications)
  /\ status \in [Notifications -> {"none", "pending", "processing", "sent",
                                  "failed"}]
  /\ tries \in [Notifications -> 0..MaxAttempts]
  /\ metrics \in [totalSent : Nat, totalFailed : Nat, totalPending : Int]
  /\ queue \in Seq(Notifications)
  /\ job \in [Notifications -> {"none", "waiting", "active", "delayed",
                               "completed", "failed"}]
  /\ attempts \in [Notifications -> 0..MaxAttempts]
  /\ stalls \in [Notifications -> 0..(MaxStalls + 1)]
  /\ current \in Notifications \union {None}
  /\ delivered \in [Notifications -> Nat]
  /\ crashes \in 0..MaxCrashes

(***************************************************************************)
(* A notification is sent to the user at least once if its job completes,  *)
(* at most MaxAttempts times whatever fails or crashes; more than once     *)
(* only because its email failed: a retry goes to every channel again.     *)
(***************************************************************************)
DeliveryIsBounded ==
  \A n \in Notifications :
    /\ job[n] = "completed" => delivered[n] >= 1
    /\ delivered[n] <= MaxAttempts
    /\ delivered[n] > 1 => "email" \in Channels(n)

(***************************************************************************)
(* The two counts of the attempts agree, so FAILED is never the last word: *)
(* the try at which Bull would give up is the one that marks the           *)
(* notification SENT, whatever its channels did.  A job fails for good     *)
(* only when the record is gone.                                           *)
(***************************************************************************)
FailureIsNeverFinal ==
  \A n \in Notifications :
    /\ job[n] = "failed" => status[n] = "none"
    /\ job[n] = "completed" => status[n] \in {"sent", "none"}

(***************************************************************************)
(* What totalPending counts: the records not yet SENT, less one for every  *)
(* failed attempt, so it falls below their number, and below zero, with    *)
(* every retry.                                                            *)
(***************************************************************************)
PendingIsShortByFailures ==
  metrics.totalPending + metrics.totalFailed =
    Cardinality({n \in Notifications : status[n] \notin {"none", "sent"}})

(***************************************************************************)
(* "Started" is not told after "completed": of two notifications of one    *)
(* priority that Redis accepted, the one created first reaches the user    *)
(* first, retries included, as long as the service does not crash.         *)
(***************************************************************************)
DeliveredInOrder ==
  crashes = 0 =>
    \A i, j \in 1..Len(arrived) :
      LET first == arrived[i]
          second == arrived[j]
      IN  /\ i < j
          /\ Priority(first) = Priority(second)
          /\ job[first] # "none"
          /\ delivered[second] > 0
          => delivered[first] > 0

(***************************************************************************)
(* A queued notification comes to an end, also when its record was lost.   *)
(***************************************************************************)
JobsSettle ==
  \A n \in Notifications :
    job[n] = "waiting" ~> job[n] \in {"completed", "failed"}
==============================================================================
