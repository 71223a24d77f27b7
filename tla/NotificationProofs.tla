-------------------------- MODULE NotificationProofs --------------------------
(***************************************************************************)
(* Theorems about Notification, for every set of notifications, number of  *)
(* attempts, of stalls and of crashes.                                     *)
(***************************************************************************)
EXTENDS Notification, SequenceTheorems, FiniteSetTheorems, WellFoundedInduction, TLAPS

------------------------------------------------------------------------------
(* The inductive invariant. *)

(* What has not been received has left no trace. *)
Untouched(n) ==
  /\ status[n] = "none" /\ job[n] = "none"
  /\ tries[n] = 0 /\ attempts[n] = 0 /\ stalls[n] = 0 /\ delivered[n] = 0

(***************************************************************************)
(* While there is a record, its tries are the times it was delivered, and  *)
(* they agree with the attempts Bull has counted: one more while the       *)
(* worker is sending.  FAILED is left for another try, of an email.        *)
(***************************************************************************)
RecordTells(n) ==
  status[n] # "none" =>
    /\ delivered[n] = tries[n]
    /\ status[n] = "pending" => tries[n] = 0 /\ attempts[n] = 0 /\ job[n] \in {"none", "waiting"}
    /\ status[n] = "processing" => current = n /\ tries[n] = attempts[n] + 1
    /\ status[n] = "failed" =>
         /\ job[n] \in {"delayed", "waiting"} /\ "email" \in Channels(n)
         /\ tries[n] = attempts[n] /\ tries[n] >= 1
    /\ status[n] = "sent" => job[n] = "completed" /\ tries[n] >= 1

(* What is known of a job, also when its record is gone. *)
JobTells(n) ==
  /\ current = n => job[n] = "active" /\ status[n] \in {"none", "processing"}
  /\ job[n] \in {"waiting", "active", "delayed"} =>
       attempts[n] < MaxAttempts /\ stalls[n] <= MaxStalls
  /\ job[n] = "none" => delivered[n] = 0
  /\ job[n] = "completed" => delivered[n] >= 1 /\ status[n] \in {"sent", "none"}
  /\ job[n] = "failed" => status[n] = "none"
  /\ delivered[n] <= MaxAttempts
  /\ delivered[n] > 1 => "email" \in Channels(n)

Known(n) ==
  /\ n \notin Range(arrived) => Untouched(n)
  /\ crashes = 0 /\ n \in Range(arrived) => status[n] # "none"
  /\ RecordTells(n) /\ JobTells(n)

(* The wait list has the jobs that wait, each once. *)
QueueIsWaiting ==
  /\ \A i \in 1..Len(queue) : job[queue[i]] = "waiting"
  /\ \A i, j \in 1..Len(queue) : queue[i] = queue[j] => i = j
  /\ \A n \in Notifications : job[n] = "waiting" => \E i \in 1..Len(queue) : queue[i] = n

Ahead(first, second) ==
  \A p, q \in 1..Len(queue) : queue[p] = first /\ queue[q] = second => p < q

(* Two of one priority wait in the order they were created in. *)
InTurn(first, second) ==
  /\ Priority(first) = Priority(second)
  /\ job[first] # "none" /\ job[second] # "none"
  /\ delivered[first] = 0
  => delivered[second] = 0 /\ Ahead(first, second)

QueueInTurn ==
  crashes = 0 => \A i, j \in 1..Len(arrived) : i < j => InTurn(arrived[i], arrived[j])

(* The records that are not yet SENT. *)
Open == {n \in Notifications : status[n] \notin {"none", "sent"}}

PendingTells ==
  IsFiniteSet(Open) /\ metrics.totalPending + metrics.totalFailed = Cardinality(Open)

IInv ==
  /\ TypeOK /\ \A n \in Notifications : Known(n)
  /\ QueueIsWaiting /\ QueueInTurn /\ PendingTells

------------------------------------------------------------------------------
(* Places in the wait list. *)

LEMMA MaxOfSome ==
  ASSUME NEW n \in Nat, NEW S \in SUBSET (1..n), S # {}
  PROVE  Max(S) \in S /\ \A y \in S : Max(S) >= y
<1> DEFINE T == {n - x : x \in S}
<1>1. T \subseteq Nat /\ T # {}
  <2>1. PICK e \in S : TRUE
    OBVIOUS
  <2>2. n - e \in T
    BY <2>1
  <2> QED
    BY <2>2
<1>2. PICK m \in T : \A y \in T : ~(<<y, m>> \in OpToRel(<, Nat))
  BY <1>1, NatLessThanWellFounded, WFMin
<1>3. \A y \in T : ~(y < m)
  BY <1>1, <1>2 DEF OpToRel
<1>4. PICK x \in S : m = n - x
  BY <1>2
<1>5. \A y \in S : x >= y
  BY <1>3, <1>4
<1> QED
  BY <1>5 DEF Max

(* s is t with e put in at place p. *)
PutIn(s, t, p, e) ==
  /\ Len(s) = Len(t) + 1 /\ p \in 1..Len(s) /\ s[p] = e
  /\ \A i \in 1..Len(t) : i < p => s[i] = t[i]
  /\ \A i \in 1..Len(t) : i >= p => s[i + 1] = t[i]

LEMMA InsertAtPuts ==
  ASSUME NEW S, NEW t \in Seq(S), NEW e \in S, NEW p \in 1..(Len(t) + 1)
  PROVE  InsertAt(t, p, e) \in Seq(S) /\ PutIn(InsertAt(t, p, e), t, p, e)
<1> DEFINE a == SubSeq(t, 1, p - 1)
           b == SubSeq(t, p, Len(t))
<1>0. Len(t) \in Nat /\ \A i \in 1..Len(t) : t[i] \in S
  BY ElementOfSeq, LenProperties
<1>1. /\ a \in Seq(S) /\ Len(a) = p - 1 /\ \A i \in 1..(p - 1) : a[i] = t[i]
  BY <1>0, SubSeqProperties
<1>2. /\ b \in Seq(S) /\ Len(b) = Len(t) - p + 1
      /\ \A i \in 1..(Len(t) - p + 1) : b[i] = t[p + i - 1]
  BY <1>0, SubSeqProperties
<1>3. /\ <<e>> \in Seq(S) /\ Len(<<e>>) = 1 /\ <<e>>[1] = e
  OBVIOUS
<1> HIDE DEF a, b
<1> DEFINE c == a \o <<e>>
<1>4. c \in Seq(S) /\ Len(c) = p /\ \A i \in 1..p : c[i] = IF i < p THEN t[i] ELSE e
  BY <1>1, <1>3, ConcatProperties
<1>6. InsertAt(t, p, e) = c \o b
  BY DEF InsertAt, a, b
<1> HIDE DEF c
<1>5. /\ c \o b \in Seq(S) /\ Len(c \o b) = Len(t) + 1
      /\ \A i \in 1..(Len(t) + 1) : (c \o b)[i] = IF i <= p THEN c[i] ELSE b[i - p]
  <2>1. /\ c \o b \in Seq(S) /\ Len(c \o b) = Len(c) + Len(b)
        /\ \A i \in 1..(Len(c) + Len(b)) : (c \o b)[i] = IF i <= Len(c) THEN c[i] ELSE b[i - Len(c)]
    BY <1>2, <1>4, ConcatProperties
  <2>2. Len(c) + Len(b) = Len(t) + 1
    BY <1>0, <1>2, <1>4
  <2> QED
    BY <1>4, <2>1, <2>2
<1> DEFINE s == InsertAt(t, p, e)
<1>7. ASSUME NEW i \in 1..Len(t), i < p PROVE s[i] = t[i]
  BY <1>0, <1>4, <1>5, <1>6, <1>7
<1>8. ASSUME NEW i \in 1..Len(t), i >= p PROVE s[i + 1] = t[i]
  <2>1. s[i + 1] = b[i + 1 - p]
    BY <1>0, <1>5, <1>6, <1>8
  <2>2. i + 1 - p \in 1..(Len(t) - p + 1) /\ p + (i + 1 - p) - 1 = i
    BY <1>0, <1>8
  <2> QED
    BY <1>2, <2>1, <2>2
<1>9. s[p] = e /\ p \in 1..(Len(t) + 1)
  BY <1>4, <1>5, <1>6
<1> QED
  BY <1>5, <1>6, <1>7, <1>8, <1>9 DEF PutIn

LEMMA Priorities ==
  ASSUME event \in [Notifications -> EventName], NEW n \in Notifications
  PROVE  PriorityValue(n) \in Nat
BY DEF PriorityValue, Priority, EventName

(* A job is put behind all those of its priority. *)
LEMMA InsertPuts ==
  ASSUME TypeOK, NEW n \in Notifications
  PROVE  /\ Insert(n) \in Seq(Notifications)
         /\ \E p \in 1..(Len(queue) + 1) :
              /\ PutIn(Insert(n), queue, p, n)
              /\ \A i \in 1..Len(queue) : Priority(queue[i]) = Priority(n) => i < p
<1> DEFINE ahead == {i \in 1..Len(queue) : PriorityValue(queue[i]) <= PriorityValue(n)}
           place == IF ahead = {} THEN 1 ELSE Max(ahead) + 1
<1>0. queue \in Seq(Notifications) /\ Len(queue) \in Nat
      /\ \A i \in 1..Len(queue) : queue[i] \in Notifications
  BY ElementOfSeq, LenProperties DEF TypeOK
<1>1. ahead # {} => Max(ahead) \in ahead /\ \A i \in ahead : Max(ahead) >= i
  BY <1>0, MaxOfSome
<1>2. place \in 1..(Len(queue) + 1)
  BY <1>0, <1>1
<1>3. \A i \in ahead : i < place
  BY <1>0, <1>1
<1>4. ASSUME NEW i \in 1..Len(queue), Priority(queue[i]) = Priority(n) PROVE i \in ahead
  <2>1. PriorityValue(queue[i]) = PriorityValue(n) /\ PriorityValue(n) \in Nat
    BY <1>4, Priorities DEF PriorityValue, TypeOK
  <2> QED
    BY <2>1
<1>5. Insert(n) = InsertAt(queue, place, n)
  BY DEF Insert
<1> HIDE DEF place
<1>6. Insert(n) \in Seq(Notifications) /\ PutIn(Insert(n), queue, place, n)
  BY <1>0, <1>2, <1>5, InsertAtPuts
<1> QED
  BY <1>2, <1>3, <1>4, <1>6

LEMMA ArrivedRange ==
  ASSUME TypeOK, NEW n \in Notifications, arrived' = Append(arrived, n)
  PROVE  /\ arrived' \in Seq(Notifications) /\ Len(arrived') = Len(arrived) + 1
         /\ arrived'[Len(arrived) + 1] = n /\ \A i \in 1..Len(arrived) : arrived'[i] = arrived[i]
         /\ Range(arrived)' = Range(arrived) \union {n}
<1>1. arrived \in Seq(Notifications) /\ Len(arrived) \in Nat /\ DOMAIN arrived = 1..Len(arrived)
  BY LenProperties DEF TypeOK
<1>2. /\ arrived' \in Seq(Notifications) /\ Len(arrived') = Len(arrived) + 1
      /\ arrived'[Len(arrived) + 1] = n /\ \A i \in 1..Len(arrived) : arrived'[i] = arrived[i]
  BY <1>1, AppendProperties
<1>3. DOMAIN arrived' = 1..(Len(arrived) + 1)
  BY <1>2, LenProperties
<1> QED
  BY <1>1, <1>2, <1>3 DEF Range

LEMMA HeadWaits ==
  ASSUME TypeOK, QueueIsWaiting, queue # <<>>
  PROVE  /\ Head(queue) \in Notifications /\ job[Head(queue)] = "waiting"
         /\ Head(queue) = queue[1] /\ 1 \in 1..Len(queue) /\ Len(queue) \in Nat
         /\ Tail(queue) \in Seq(Notifications) /\ Len(Tail(queue)) = Len(queue) - 1
         /\ \A i \in 1..Len(Tail(queue)) : Tail(queue)[i] = queue[i + 1]
<1>1. queue \in Seq(Notifications)
  BY DEF TypeOK
<1>2. /\ Head(queue) \in Notifications /\ Head(queue) = queue[1] /\ 1 \in 1..Len(queue)
      /\ Tail(queue) \in Seq(Notifications) /\ Len(Tail(queue)) = Len(queue) - 1
      /\ \A i \in 1..Len(Tail(queue)) : Tail(queue)[i] = queue[i + 1]
      /\ Len(queue) \in Nat
  BY <1>1, HeadTailProperties, EmptySeq, LenProperties
<1> QED
  BY <1>2 DEF QueueIsWaiting

------------------------------------------------------------------------------
(* Each part of the invariant is preserved. *)

(* What JobThrows does to the current job. *)
LEMMA ThrowEffect ==
  ASSUME TypeOK, NEW n \in Notifications, Known(n), current = n, JobThrows(n)
  PROVE  /\ attempts' = [attempts EXCEPT ![n] = attempts[n] + 1] /\ attempts[n] + 1 <= MaxAttempts
         /\ attempts'[n] = attempts[n] + 1
         /\ job' = [job EXCEPT ![n] = job'[n]]
         /\ job'[n] = IF attempts[n] + 1 < MaxAttempts THEN "delayed" ELSE "failed"
         /\ current' = None
         /\ UNCHANGED <<source, arrived, tries, queue, stalls, delivered, crashes>>
<1>1. attempts \in [Notifications -> 0..MaxAttempts] /\ DOMAIN job = Notifications
      /\ MaxAttempts \in Nat /\ MaxStalls \in Nat
  BY NotificationAssumption DEF TypeOK
<1>2. /\ attempts' = [attempts EXCEPT ![n] = attempts[n] + 1] /\ attempts'[n] = attempts[n] + 1
      /\ job' = [job EXCEPT ![n] = IF attempts'[n] < MaxAttempts THEN "delayed" ELSE "failed"]
      /\ current' = None
      /\ UNCHANGED <<source, arrived, tries, queue, stalls, delivered, crashes>>
  BY <1>1 DEF JobThrows
<1>3. attempts[n] < MaxAttempts
  BY DEF Known, JobTells
<1> QED
  BY <1>1, <1>2, <1>3

Statuses == {"none", "pending", "processing", "sent", "failed"}

Jobs == {"none", "waiting", "active", "delayed", "completed", "failed"}

Metrics == [totalSent : Nat, totalFailed : Nat, totalPending : Int]

(* TypeOK in two halves: what Bull keeps, and the rest. *)
BullShape ==
  /\ queue \in Seq(Notifications) /\ job \in [Notifications -> Jobs]
  /\ attempts \in [Notifications -> 0..MaxAttempts]
  /\ stalls \in [Notifications -> 0..(MaxStalls + 1)]
  /\ current \in Notifications \union {None}

RecordShape ==
  /\ event \in [Notifications -> EventName] /\ percent \in [Notifications -> Percents]
  /\ arrived \in Seq(Notifications) /\ status \in [Notifications -> Statuses]
  /\ tries \in [Notifications -> 0..MaxAttempts] /\ metrics \in Metrics
  /\ delivered \in [Notifications -> Nat] /\ crashes \in 0..MaxCrashes

LEMMA TypeParts ==
  (TypeOK <=> BullShape /\ RecordShape) /\ (TypeOK' <=> BullShape' /\ RecordShape')
BY DEF TypeOK, BullShape, RecordShape, Statuses, Jobs, Metrics

LEMMA Numbers ==
  ASSUME TypeOK
  PROVE  /\ MaxAttempts \in Nat \ {0} /\ MaxStalls \in Nat /\ crashes \in Nat
         /\ MaxCrashes \in Nat
         /\ \A n \in Notifications : /\ delivered[n] \in Nat /\ stalls[n] \in Nat
                                     /\ tries[n] \in Nat /\ attempts[n] \in Nat
                                     /\ status[n] \in Statuses /\ job[n] \in Jobs
         /\ DOMAIN delivered = Notifications /\ DOMAIN stalls = Notifications
         /\ DOMAIN tries = Notifications /\ DOMAIN attempts = Notifications
         /\ DOMAIN status = Notifications /\ DOMAIN job = Notifications
         /\ current \in Notifications \union {None}
BY NotificationAssumption, TypeParts DEF BullShape, RecordShape

LEMMA MetricsMove ==
  ASSUME metrics \in Metrics
  PROVE  /\ Count("totalPending", 1) \in Metrics
         /\ Count("totalPending", 1).totalPending = metrics.totalPending + 1
         /\ Count("totalPending", 1).totalFailed = metrics.totalFailed
         /\ [metrics EXCEPT !.totalFailed = @ + 1, !.totalPending = @ - 1] \in Metrics
         /\ [metrics EXCEPT !.totalFailed = @ + 1, !.totalPending = @ - 1].totalPending
              = metrics.totalPending - 1
         /\ [metrics EXCEPT !.totalFailed = @ + 1, !.totalPending = @ - 1].totalFailed
              = metrics.totalFailed + 1
         /\ [metrics EXCEPT !.totalSent = @ + 1, !.totalPending = @ - 1] \in Metrics
         /\ [metrics EXCEPT !.totalSent = @ + 1, !.totalPending = @ - 1].totalPending
              = metrics.totalPending - 1
         /\ [metrics EXCEPT !.totalSent = @ + 1, !.totalPending = @ - 1].totalFailed
              = metrics.totalFailed
<1>1. metrics.totalSent \in Nat /\ metrics.totalFailed \in Nat /\ metrics.totalPending \in Int
  BY DEF Metrics
<1>2. DOMAIN metrics = {"totalSent", "totalFailed", "totalPending"}
  BY DEF Metrics
<1>3. ASSUME NEW x, x = [metrics EXCEPT !.totalFailed = @ + 1, !.totalPending = @ - 1]
      PROVE  /\ x \in Metrics /\ x.totalPending = metrics.totalPending - 1
             /\ x.totalFailed = metrics.totalFailed + 1
  <2>1. x = [totalSent |-> metrics.totalSent, totalFailed |-> metrics.totalFailed + 1,
             totalPending |-> metrics.totalPending - 1]
    BY <1>2, <1>3 DEF Metrics
  <2> QED
    BY <1>1, <2>1 DEF Metrics
<1>4. ASSUME NEW x, x = [metrics EXCEPT !.totalSent = @ + 1, !.totalPending = @ - 1]
      PROVE  /\ x \in Metrics /\ x.totalPending = metrics.totalPending - 1
             /\ x.totalFailed = metrics.totalFailed
  <2>1. x = [totalSent |-> metrics.totalSent + 1, totalFailed |-> metrics.totalFailed,
             totalPending |-> metrics.totalPending - 1]
    BY <1>2, <1>4 DEF Metrics
  <2> QED
    BY <1>1, <2>1 DEF Metrics
<1>5. ASSUME NEW x, x = [metrics EXCEPT !["totalPending"] = @ + 1]
      PROVE  /\ x \in Metrics /\ x.totalPending = metrics.totalPending + 1
             /\ x.totalFailed = metrics.totalFailed
  BY <1>1, <1>5 DEF Metrics
<1> QED
  BY <1>3, <1>4, <1>5 DEF Count

LEMMA TypeStep ==
  ASSUME TypeOK, \A n \in Notifications : Known(n), QueueIsWaiting, [Next]_vars
  PROVE  TypeOK'
<1> SUFFICES BullShape' /\ RecordShape'
  BY TypeParts
<1>0. BullShape /\ RecordShape /\ MaxAttempts \in Nat \ {0} /\ MaxStalls \in Nat
      /\ MaxCrashes \in Nat
  BY TypeParts, Numbers
<1> USE DEF Statuses, Jobs, source
<1>1. CASE UNCHANGED vars
  BY <1>0, <1>1 DEF vars, bull, BullShape, RecordShape
<1>2. ASSUME NEW n \in Notifications, Receive(n) PROVE BullShape' /\ RecordShape'
  <2>1. arrived' \in Seq(Notifications) /\ Insert(n) \in Seq(Notifications)
    BY <1>2, ArrivedRange, InsertPuts DEF Receive
  <2>2. metrics' \in Metrics
    BY <1>0, <1>2, MetricsMove DEF Receive, RecordShape
  <2> QED
    BY <1>0, <1>2, <2>1, <2>2 DEF Receive, BullShape, RecordShape
<1>3. ASSUME NEW n \in Notifications, Promote(n) PROVE BullShape' /\ RecordShape'
  BY <1>0, <1>3, InsertPuts DEF Promote, BullShape, RecordShape
<1>4. ASSUME NEW n \in Notifications, Stalled(n) PROVE BullShape' /\ RecordShape'
  <2>1. <<n>> \o queue \in Seq(Notifications)
    BY <1>0, ConcatProperties DEF BullShape
  <2>2. stalls[n] <= MaxStalls /\ stalls[n] \in Nat
    BY <1>4, Numbers DEF Stalled, Known, JobTells
  <2>3. stalls[n] + 1 \in 0..(MaxStalls + 1)
    BY <1>0, <2>2
  <2> QED
    BY <1>0, <1>4, <2>1, <2>3 DEF Stalled, BullShape, RecordShape
<1>5. CASE Begin
  <2>1. PICK n \in Notifications : n = Head(queue) /\ job[n] = "waiting"
    BY <1>5, HeadWaits DEF Begin
  <2>2. Tail(queue) \in Seq(Notifications)
    BY <1>5, HeadWaits DEF Begin
  <2>3. current # n
    BY <2>1 DEF Known, JobTells
  <2>4. status[n] # "none" => tries[n] + 1 \in 0..MaxAttempts
    BY <2>1, <2>3, Numbers DEF Known, RecordTells, JobTells
  <2>5. BullShape'
    BY <1>0, <1>5, <2>1, <2>2 DEF Begin, BullShape
  <2>6. \/ UNCHANGED <<status, tries, delivered>>
        \/ /\ tries[n] + 1 \in 0..MaxAttempts /\ tries' = [tries EXCEPT ![n] = tries[n] + 1]
           /\ status' = [status EXCEPT ![n] = "processing"]
           /\ delivered' = [delivered EXCEPT ![n] = delivered[n] + 1]
    BY <1>5, <2>1, <2>4 DEF Begin
  <2>7. /\ status' \in [Notifications -> Statuses] /\ tries' \in [Notifications -> 0..MaxAttempts]
        /\ delivered' \in [Notifications -> Nat]
    <3>1. CASE UNCHANGED <<status, tries, delivered>>
      BY <1>0, <3>1 DEF RecordShape
    <3>2. CASE /\ tries[n] + 1 \in 0..MaxAttempts /\ tries' = [tries EXCEPT ![n] = tries[n] + 1]
               /\ status' = [status EXCEPT ![n] = "processing"]
               /\ delivered' = [delivered EXCEPT ![n] = delivered[n] + 1]
      <4>1. tries' \in [Notifications -> 0..MaxAttempts]
        BY <1>0, <2>1, <3>2 DEF RecordShape
      <4>2. status' \in [Notifications -> Statuses]
        BY <1>0, <2>1, <3>2 DEF RecordShape
      <4>3. delivered[n] + 1 \in Nat
        BY Numbers, <2>1
      <4>4. delivered' \in [Notifications -> Nat]
        BY <1>0, <2>1, <3>2, <4>3 DEF RecordShape
      <4> QED
        BY <4>1, <4>2, <4>4
    <3> QED
      BY <2>6, <3>1, <3>2
  <2>8. RecordShape'
    BY <1>0, <1>5, <2>7 DEF Begin, RecordShape
  <2> QED
    BY <2>5, <2>8
<1>6. CASE NotFound \/ Retry
  <2>1. PICK n \in Notifications : n = current /\ JobThrows(n)
    BY <1>0, <1>6 DEF NotFound, Retry, BullShape
  <2>2. /\ attempts' = [attempts EXCEPT ![n] = attempts[n] + 1]
        /\ attempts[n] + 1 <= MaxAttempts /\ attempts[n] \in Nat
        /\ job' = [job EXCEPT ![n] = job'[n]]
        /\ job'[n] \in {"delayed", "failed"} /\ current' = None
        /\ UNCHANGED <<source, arrived, tries, queue, stalls, delivered, crashes>>
    BY <2>1, ThrowEffect, Numbers
  <2>3. attempts[n] + 1 \in 0..MaxAttempts
    BY <1>0, <2>2
  <2>4. /\ status' = status \/ status' = [status EXCEPT ![n] = "failed"]
        /\ metrics' \in Metrics
    BY <1>0, <1>6, <2>1, MetricsMove DEF NotFound, Retry, RecordShape
  <2>5. job' \in [Notifications -> Jobs]
    BY <1>0, <2>2 DEF BullShape
  <2>6. attempts' \in [Notifications -> 0..MaxAttempts]
    BY <1>0, <2>2, <2>3 DEF BullShape
  <2> QED
    BY <1>0, <2>2, <2>4, <2>5, <2>6 DEF BullShape, RecordShape
<1>7. CASE Sent
  <2>1. metrics' \in Metrics
    BY <1>0, <1>7, MetricsMove DEF Sent, RecordShape
  <2> QED
    BY <1>0, <1>7, <2>1 DEF Sent, BullShape, RecordShape
<1>8. CASE Crash
  BY <1>0, <1>8 DEF Crash, NoMetrics, bull, BullShape, RecordShape, Metrics
<1> QED
  BY <1>1, <1>2, <1>3, <1>4, <1>5, <1>6, <1>7, <1>8 DEF Next, Worker

LEMMA KnownStep ==
  ASSUME TypeOK, \A n \in Notifications : Known(n), QueueIsWaiting, [Next]_vars,
         NEW m \in Notifications
  PROVE  Known(m)'
<1> USE NotificationAssumption DEF Known, Untouched, RecordTells, JobTells, Statuses
<1>0. /\ MaxAttempts \in Nat \ {0} /\ MaxStalls \in Nat /\ crashes \in Nat
      /\ \A n \in Notifications : /\ delivered[n] \in Nat /\ stalls[n] \in Nat
                                  /\ tries[n] \in Nat /\ attempts[n] \in Nat
                                  /\ status[n] \in Statuses /\ job[n] \in Jobs
      /\ DOMAIN delivered = Notifications /\ DOMAIN stalls = Notifications
      /\ DOMAIN tries = Notifications /\ DOMAIN attempts = Notifications
      /\ DOMAIN status = Notifications /\ DOMAIN job = Notifications
      /\ current \in Notifications \union {None} /\ Known(m)
  BY Numbers
<1>1. CASE UNCHANGED vars
  BY <1>1 DEF vars, bull, source, Channels
<1>2. ASSUME NEW n \in Notifications, Receive(n) PROVE Known(m)'
  <2>1. Range(arrived)' = Range(arrived) \union {n} /\ n \notin Range(arrived)
    BY <1>2, ArrivedRange DEF Receive
  <2>2. /\ status' = [status EXCEPT ![n] = "pending"]
        /\ UNCHANGED <<source, tries, attempts, stalls, current, delivered, crashes>>
        /\ job' = [job EXCEPT ![n] = "waiting"] \/ job' = job
    BY <1>2 DEF Receive
  <2>3. Channels(m)' = Channels(m)
    BY <2>2 DEF Channels, source
  <2>4. CASE m # n
    <3>1. status'[m] = status[m] /\ job'[m] = job[m]
      BY <1>0, <2>2, <2>4
    <3> QED
      BY <1>0, <2>1, <2>2, <2>3, <2>4, <3>1
  <2>5. CASE m = n
    <3>1. status'[n] = "pending" /\ job'[n] \in {"waiting", "none"}
      BY <1>0, <2>1, <2>2, <2>5
    <3> QED
      BY <1>0, <2>1, <2>2, <2>3, <2>5, <3>1
  <2> QED
    BY <2>4, <2>5
<1>3. ASSUME NEW n \in Notifications, Promote(n) PROVE Known(m)'
  <2>1. /\ job[n] = "delayed" /\ job' = [job EXCEPT ![n] = "waiting"]
        /\ UNCHANGED <<source, arrived, status, tries, attempts, stalls, current, delivered,
                       crashes>>
    BY <1>3 DEF Promote
  <2>2. Channels(m)' = Channels(m)
    BY <2>1 DEF Channels, source
  <2> QED
    BY <1>0, <2>1, <2>2
<1>4. ASSUME NEW n \in Notifications, Stalled(n) PROVE Known(m)'
  <2>1. /\ job[n] = "active" /\ current # n
        /\ stalls' = [stalls EXCEPT ![n] = @ + 1]
        /\ \/ stalls[n] + 1 > MaxStalls /\ job' = [job EXCEPT ![n] = "failed"]
           \/ stalls[n] + 1 <= MaxStalls /\ job' = [job EXCEPT ![n] = "waiting"]
        /\ UNCHANGED <<source, arrived, status, tries, attempts, current, delivered, crashes>>
    BY <1>0, <1>4 DEF Stalled
  <2>2. Channels(m)' = Channels(m)
    BY <2>1 DEF Channels, source
  <2>3. status[n] = "none"
    BY <2>1 DEF TypeOK
  <2>4. CASE m # n
    BY <1>0, <2>1, <2>2, <2>4
  <2>5. CASE m = n
    BY <1>0, <2>1, <2>2, <2>3, <2>5
  <2> QED
    BY <2>4, <2>5
<1>5. CASE Begin
  <2>1. PICK n \in Notifications : n = Head(queue) /\ job[n] = "waiting"
    BY <1>5, HeadWaits DEF Begin
  <2>2. /\ current = None /\ current' = n /\ job' = [job EXCEPT ![n] = "active"]
        /\ \/ status[n] = "none" /\ UNCHANGED <<status, tries, delivered>>
           \/ /\ status[n] # "none" /\ status' = [status EXCEPT ![n] = "processing"]
              /\ tries' = [tries EXCEPT ![n] = @ + 1]
              /\ delivered' = [delivered EXCEPT ![n] = @ + 1]
        /\ UNCHANGED <<source, arrived, attempts, stalls, crashes>>
    BY <1>5, <2>1 DEF Begin
  <2>3. Channels(m)' = Channels(m)
    BY <2>2 DEF Channels, source
  <2>4. CASE m # n
    BY <1>0, <2>2, <2>3, <2>4
  <2>5. CASE m = n /\ status[n] = "none"
    BY <1>0, <2>1, <2>2, <2>3, <2>5
  <2>6. CASE m = n /\ status[n] # "none"
    <3>1. status[n] \in {"pending", "failed"}
      BY <1>0, <2>1, <2>2, <2>6 DEF TypeOK
    <3>2. /\ status'[n] = "processing" /\ tries'[n] = tries[n] + 1 /\ job'[n] = "active"
          /\ delivered'[n] = tries'[n] /\ tries[n] = attempts[n]
      BY <1>0, <2>1, <2>2, <2>6, <3>1
    <3>3. delivered'[n] > 1 => status[n] = "failed"
      BY <1>0, <2>6, <3>1, <3>2
    <3> QED
      BY <1>0, <2>1, <2>2, <2>3, <2>6, <3>1, <3>2, <3>3
  <2> QED
    BY <2>4, <2>5, <2>6
<1>6. CASE NotFound \/ Retry
  <2>1. PICK n \in Notifications : n = current /\ Known(n)
    BY <1>0, <1>6 DEF NotFound, Retry
  <2>2. /\ attempts' = [attempts EXCEPT ![n] = attempts[n] + 1]
        /\ job' = [job EXCEPT ![n] = job'[n]]
        /\ job'[n] = IF attempts[n] + 1 < MaxAttempts THEN "delayed" ELSE "failed"
        /\ current' = None
        /\ UNCHANGED <<source, arrived, tries, queue, stalls, delivered, crashes>>
    BY <1>6, <2>1, ThrowEffect DEF NotFound, Retry
  <2>3. Channels(m)' = Channels(m)
    BY <2>2 DEF Channels, source
  <2>4. \/ status[n] = "none" /\ status' = status
        \/ /\ status[n] = "processing" /\ "email" \in Channels(n) /\ tries[n] < MaxAttempts
           /\ status' = [status EXCEPT ![n] = "failed"]
    BY <1>6, <2>1 DEF NotFound, Retry, MayReject
  <2>5. CASE m # n
    BY <1>0, <2>1, <2>2, <2>3, <2>4, <2>5
  <2>6. CASE m = n
    BY <1>0, <2>1, <2>2, <2>3, <2>4, <2>6
  <2> QED
    BY <2>5, <2>6
<1>7. CASE Sent
  <2>1. PICK n \in Notifications : n = current /\ Known(n)
    BY <1>0, <1>7 DEF Sent
  <2>2. /\ status[n] = "processing" /\ status' = [status EXCEPT ![n] = "sent"]
        /\ job' = [job EXCEPT ![n] = "completed"] /\ current' = None
        /\ UNCHANGED <<source, arrived, tries, queue, attempts, stalls, delivered, crashes>>
    BY <1>7, <2>1 DEF Sent
  <2>3. Channels(m)' = Channels(m)
    BY <2>2 DEF Channels, source
  <2> QED
    BY <1>0, <2>1, <2>2, <2>3
<1>8. CASE Crash
  <2>1. /\ \A n \in Notifications : status'[n] = "none" /\ tries'[n] = 0
        /\ current' = None /\ crashes' = crashes + 1
        /\ UNCHANGED <<source, arrived, bull, delivered>>
    BY <1>8 DEF Crash
  <2>2. Channels(m)' = Channels(m)
    BY <2>1 DEF Channels, source
  <2> QED
    BY <1>0, <2>1, <2>2 DEF bull
<1> QED
  BY <1>1, <1>2, <1>3, <1>4, <1>5, <1>6, <1>7, <1>8 DEF Next, Worker

(* A job put in waits behind those of its priority; the others keep their order. *)
LEMMA PutInEffect ==
  ASSUME TypeOK, QueueIsWaiting, NEW n \in Notifications, job[n] # "waiting",
         queue' = Insert(n), job' = [job EXCEPT ![n] = "waiting"]
  PROVE  /\ QueueIsWaiting'
         /\ \A a, b \in Notifications \ {n} : Ahead(a, b) => Ahead(a, b)'
         /\ \A a \in Notifications \ {n} : Priority(a) = Priority(n) => Ahead(a, n)'
<1>1. PICK p \in 1..(Len(queue) + 1) :
        /\ PutIn(queue', queue, p, n)
        /\ \A i \in 1..Len(queue) : Priority(queue[i]) = Priority(n) => i < p
  BY InsertPuts
<1>2. /\ Len(queue) \in Nat /\ \A i \in 1..Len(queue) : queue[i] \in Notifications
      /\ DOMAIN job = Notifications
  BY ElementOfSeq, LenProperties DEF TypeOK
<1>3. /\ Len(queue') = Len(queue) + 1 /\ queue'[p] = n
      /\ \A i \in 1..Len(queue) : queue[i] # n /\ job[queue[i]] = "waiting"
      /\ job'[n] = "waiting" /\ \A m \in Notifications \ {n} : job'[m] = job[m]
  BY <1>1, <1>2 DEF PutIn, QueueIsWaiting
<1>4. ASSUME NEW i \in 1..Len(queue'), i # p
      PROVE  \E k \in 1..Len(queue) : queue'[i] = queue[k] /\ i = IF k < p THEN k ELSE k + 1
  <2>1. CASE i < p
    <3>1. i \in 1..Len(queue)
      BY <1>2, <1>3, <1>4, <2>1
    <3> QED
      BY <1>1, <2>1, <3>1 DEF PutIn
  <2>2. CASE i > p
    <3>1. i - 1 \in 1..Len(queue) /\ i - 1 >= p /\ (i - 1) + 1 = i
      BY <1>2, <1>3, <1>4, <2>2
    <3>2. queue'[(i - 1) + 1] = queue[i - 1]
      BY <1>1, <3>1 DEF PutIn
    <3> QED
      BY <3>1, <3>2
  <2> QED
    BY <1>2, <1>3, <1>4, <2>1, <2>2
<1>5. ASSUME NEW k \in 1..Len(queue)
      PROVE  \E i \in 1..Len(queue') : queue'[i] = queue[k]
  <2>1. k < p => queue'[k] = queue[k] /\ k \in 1..Len(queue')
    BY <1>1, <1>2, <1>3 DEF PutIn
  <2>2. k >= p => queue'[k + 1] = queue[k] /\ k + 1 \in 1..Len(queue')
    BY <1>1, <1>2, <1>3 DEF PutIn
  <2> QED
    BY <1>1, <2>1, <2>2
<1>6. QueueIsWaiting'
  <2>1. ASSUME NEW i \in 1..Len(queue') PROVE job'[queue'[i]] = "waiting"
    BY <1>2, <1>3, <1>4
  <2>2. ASSUME NEW i \in 1..Len(queue'), NEW j \in 1..Len(queue'), queue'[i] = queue'[j]
        PROVE  i = j
    <3>1. CASE i = p \/ j = p
      BY <1>3, <1>4, <2>2, <3>1
    <3>2. CASE i # p /\ j # p
      <4>1. PICK k \in 1..Len(queue), l \in 1..Len(queue) :
              /\ queue'[i] = queue[k] /\ i = IF k < p THEN k ELSE k + 1
              /\ queue'[j] = queue[l] /\ j = IF l < p THEN l ELSE l + 1
        BY <1>4, <3>2
      <4>2. k = l
        <5>1. queue[k] = queue[l]
          BY <2>2, <4>1
        <5> QED
          BY <5>1 DEF QueueIsWaiting
      <4> QED
        BY <4>1, <4>2
    <3> QED
      BY <3>1, <3>2
  <2>3. ASSUME NEW m \in Notifications, job'[m] = "waiting"
        PROVE  \E i \in 1..Len(queue') : queue'[i] = m
    <3>1. CASE m = n
      BY <1>1, <1>3, <3>1
    <3>2. CASE m # n
      <4>1. PICK k \in 1..Len(queue) : queue[k] = m
        BY <1>3, <2>3, <3>2 DEF QueueIsWaiting
      <4> QED
        BY <1>5, <4>1
    <3> QED
      BY <3>1, <3>2
  <2> QED
    BY <2>1, <2>2, <2>3 DEF QueueIsWaiting
<1>7. ASSUME NEW a \in Notifications \ {n}, NEW b \in Notifications \ {n}, Ahead(a, b),
             NEW x \in 1..Len(queue'), NEW y \in 1..Len(queue'), queue'[x] = a, queue'[y] = b
      PROVE  x < y
  <2>1. x # p /\ y # p
    BY <1>3, <1>7
  <2>2. PICK k \in 1..Len(queue), l \in 1..Len(queue) :
          /\ queue'[x] = queue[k] /\ x = IF k < p THEN k ELSE k + 1
          /\ queue'[y] = queue[l] /\ y = IF l < p THEN l ELSE l + 1
    BY <1>4, <2>1
  <2>3. k < l
    BY <1>7, <2>2 DEF Ahead
  <2> QED
    BY <1>1, <1>2, <2>2, <2>3
<1>8. ASSUME NEW a \in Notifications \ {n}, Priority(a) = Priority(n),
             NEW x \in 1..Len(queue'), NEW y \in 1..Len(queue'), queue'[x] = a, queue'[y] = n
      PROVE  x < y
  <2>1. y = p /\ x # p
    BY <1>3, <1>4, <1>8
  <2>2. PICK k \in 1..Len(queue) : queue'[x] = queue[k] /\ x = IF k < p THEN k ELSE k + 1
    BY <1>4, <2>1
  <2>3. k < p
    BY <1>1, <1>8, <2>2
  <2> QED
    BY <2>1, <2>2, <2>3
<1>9. /\ \A a, b \in Notifications \ {n} : Ahead(a, b) => Ahead(a, b)'
      /\ \A a \in Notifications \ {n} : Priority(a) = Priority(n) => Ahead(a, n)'
  BY <1>7, <1>8 DEF Ahead
<1> QED
  BY <1>6, <1>9

(* The first job is taken. *)
LEMMA TakeEffect ==
  ASSUME TypeOK, QueueIsWaiting, queue # <<>>, NEW n \in Notifications, n = Head(queue),
         queue' = Tail(queue), job' = [job EXCEPT ![n] = "active"]
  PROVE  /\ QueueIsWaiting'
         /\ \A a, b \in Notifications : Ahead(a, b) => Ahead(a, b)'
         /\ \A a \in Notifications : job[a] = "waiting" => ~Ahead(a, n)
<1>1. /\ n = queue[1] /\ 1 \in 1..Len(queue) /\ Len(queue) \in Nat
      /\ Len(queue') = Len(queue) - 1 /\ \A i \in 1..Len(queue') : queue'[i] = queue[i + 1]
      /\ DOMAIN job = Notifications /\ \A i \in 1..Len(queue) : queue[i] \in Notifications
  BY HeadWaits, ElementOfSeq DEF TypeOK
<1>2. \A i \in 1..Len(queue') : i + 1 \in 1..Len(queue) /\ queue'[i] # n
  BY <1>1 DEF QueueIsWaiting
<1>3. \A m \in Notifications \ {n} : job'[m] = job[m]
  BY <1>1
<1>4. job'[n] = "active"
  BY <1>1
<1>5. \A i \in 1..Len(queue') : job'[queue'[i]] = "waiting"
  BY <1>1, <1>2, <1>3 DEF QueueIsWaiting
<1>6. ASSUME NEW i \in 1..Len(queue'), NEW j \in 1..Len(queue'), queue'[i] = queue'[j]
      PROVE  i = j
  <2>1. i + 1 = j + 1
    BY <1>1, <1>2, <1>6 DEF QueueIsWaiting
  <2> QED
    BY <2>1
<1>7. ASSUME NEW m \in Notifications, job'[m] = "waiting"
      PROVE  \E i \in 1..Len(queue') : queue'[i] = m
  <2>1. PICK k \in 1..Len(queue) : queue[k] = m
    BY <1>3, <1>4, <1>7 DEF QueueIsWaiting
  <2>2. k # 1
    BY <1>1, <1>4, <1>7, <2>1
  <2>3. k - 1 \in 1..Len(queue') /\ (k - 1) + 1 = k
    BY <1>1, <2>2
  <2> QED
    BY <1>1, <2>1, <2>3
<1>8. QueueIsWaiting'
  BY <1>5, <1>6, <1>7 DEF QueueIsWaiting
<1>9. ASSUME NEW a \in Notifications, NEW b \in Notifications, Ahead(a, b),
             NEW x \in 1..Len(queue'), NEW y \in 1..Len(queue'), queue'[x] = a, queue'[y] = b
      PROVE  x < y
  <2>1. x + 1 < y + 1
    BY <1>1, <1>2, <1>9 DEF Ahead
  <2> QED
    BY <2>1
<1>10. ASSUME NEW a \in Notifications, job[a] = "waiting", Ahead(a, n) PROVE FALSE
  BY <1>1, <1>10 DEF QueueIsWaiting, Ahead
<1>11. \A a, b \in Notifications : Ahead(a, b) => Ahead(a, b)'
  BY <1>9 DEF Ahead
<1> QED
  BY <1>8, <1>10, <1>11

(* A job that stalled is first again. *)
LEMMA StalledQueue ==
  ASSUME TypeOK, QueueIsWaiting, NEW n \in Notifications, job[n] = "active",
         queue' = <<n>> \o queue, job' = [job EXCEPT ![n] = "waiting"]
  PROVE  QueueIsWaiting'
<1>1. /\ Len(queue) \in Nat /\ \A i \in 1..Len(queue) : queue[i] \in Notifications
      /\ DOMAIN job = Notifications /\ queue \in Seq(Notifications)
      /\ <<n>> \in Seq(Notifications) /\ Len(<<n>>) = 1 /\ <<n>>[1] = n
  BY ElementOfSeq, LenProperties DEF TypeOK
<1>2. /\ Len(queue') = 1 + Len(queue)
      /\ \A i \in 1..(1 + Len(queue)) : queue'[i] = IF i <= 1 THEN n ELSE queue[i - 1]
  BY <1>1, ConcatProperties
<1>3. /\ \A i \in 1..Len(queue) : queue[i] # n /\ job[queue[i]] = "waiting"
      /\ job'[n] = "waiting" /\ \A m \in Notifications \ {n} : job'[m] = job[m]
  BY <1>1 DEF QueueIsWaiting
<1>4. ASSUME NEW i \in 1..Len(queue')
      PROVE  (i = 1 /\ queue'[i] = n) \/ (i - 1 \in 1..Len(queue) /\ queue'[i] = queue[i - 1])
  BY <1>1, <1>2
<1>5. \A i \in 1..Len(queue') : job'[queue'[i]] = "waiting"
  BY <1>1, <1>3, <1>4
<1>6. ASSUME NEW i \in 1..Len(queue'), NEW j \in 1..Len(queue'), queue'[i] = queue'[j]
      PROVE  i = j
  <2>1. CASE i = 1 \/ j = 1
    BY <1>3, <1>4, <1>6, <2>1
  <2>2. CASE i # 1 /\ j # 1
    <3>1. i - 1 \in 1..Len(queue) /\ j - 1 \in 1..Len(queue) /\ queue[i - 1] = queue[j - 1]
      BY <1>4, <1>6, <2>2
    <3>2. i - 1 = j - 1
      BY <3>1 DEF QueueIsWaiting
    <3> QED
      BY <1>1, <1>2, <3>2
  <2> QED
    BY <2>1, <2>2
<1>7. ASSUME NEW m \in Notifications, job'[m] = "waiting"
      PROVE  \E i \in 1..Len(queue') : queue'[i] = m
  <2>1. CASE m = n
    BY <1>1, <1>2, <2>1
  <2>2. CASE m # n
    <3>1. PICK k \in 1..Len(queue) : queue[k] = m
      BY <1>3, <1>7, <2>2 DEF QueueIsWaiting
    <3>2. k + 1 \in 1..Len(queue') /\ (k + 1) - 1 = k /\ ~(k + 1 <= 1)
      BY <1>1, <1>2
    <3> QED
      BY <1>2, <3>1, <3>2
  <2> QED
    BY <2>1, <2>2
<1> QED
  BY <1>5, <1>6, <1>7 DEF QueueIsWaiting

(* A job that is not in the list, and does not come to it, leaves it as it is. *)
LEMMA SameQueue ==
  ASSUME TypeOK, QueueIsWaiting, queue' = queue, NEW n \in Notifications, NEW state,
         job' = [job EXCEPT ![n] = state], job[n] # "waiting", state # "waiting"
  PROVE  QueueIsWaiting'
BY Numbers, ElementOfSeq, LenProperties DEF QueueIsWaiting, TypeOK

LEMMA QueueStep ==
  ASSUME TypeOK, \A n \in Notifications : Known(n), QueueIsWaiting, [Next]_vars
  PROVE  QueueIsWaiting'
<1>1. CASE UNCHANGED bull
  BY <1>1 DEF bull, QueueIsWaiting
<1>2. ASSUME NEW n \in Notifications, Receive(n) PROVE QueueIsWaiting'
  <2>1. job[n] = "none"
    BY <1>2 DEF Receive, Known, Untouched
  <2> QED
    BY <1>2, <2>1, PutInEffect DEF Receive, QueueIsWaiting
<1>3. ASSUME NEW n \in Notifications, Promote(n) PROVE QueueIsWaiting'
  BY <1>3, PutInEffect DEF Promote
<1>4. ASSUME NEW n \in Notifications, Stalled(n) PROVE QueueIsWaiting'
  BY <1>4, StalledQueue, SameQueue DEF Stalled
<1>5. CASE Begin
  BY <1>5, TakeEffect, HeadWaits DEF Begin
<1>6. CASE NotFound \/ Retry
  <2>1. PICK n \in Notifications : n = current /\ JobThrows(n)
    BY <1>6, Numbers DEF NotFound, Retry
  <2>2. job' = [job EXCEPT ![n] = job'[n]] /\ job'[n] \in {"delayed", "failed"} /\ queue' = queue
    BY <2>1, ThrowEffect
  <2>3. job[n] # "waiting"
    BY <2>1 DEF Known, JobTells
  <2> QED
    BY <2>2, <2>3, SameQueue
<1>7. CASE Sent
  <2>1. PICK n \in Notifications : n = current
    BY <1>7, Numbers DEF Sent
  <2>2. job' = [job EXCEPT ![n] = "completed"] /\ queue' = queue
    BY <1>7, <2>1 DEF Sent
  <2>3. job[n] # "waiting"
    BY <2>1 DEF Known, JobTells
  <2> QED
    BY <2>2, <2>3, SameQueue
<1> QED
  BY <1>1, <1>2, <1>3, <1>4, <1>5, <1>6, <1>7 DEF Next, Worker, vars, Crash, bull

(* Before any crash a job that was not delivered waits. *)
LEMMA UndeliveredWaits ==
  ASSUME TypeOK, NEW n \in Notifications, Known(n), crashes = 0, job[n] # "none",
         delivered[n] = 0
  PROVE  status[n] = "pending" /\ job[n] = "waiting"
BY Numbers DEF Known, Untouched, RecordTells, Statuses

LEMMA TurnStep ==
  ASSUME TypeOK, \A n \in Notifications : Known(n), QueueIsWaiting, QueueInTurn, [Next]_vars
  PROVE  QueueInTurn'
<1> SUFFICES ASSUME crashes' = 0, NEW i \in 1..Len(arrived'), NEW j \in 1..Len(arrived'), i < j,
                    NEW a, NEW b, a = arrived'[i], b = arrived'[j],
                    Priority(a)' = Priority(b)', job'[a] # "none", job'[b] # "none",
                    delivered'[a] = 0
             PROVE  delivered'[b] = 0 /\ Ahead(a, b)'
  BY DEF QueueInTurn, InTurn, Ahead, Priority
<1>0. /\ Len(arrived) \in Nat /\ \A k \in 1..Len(arrived) : arrived[k] \in Notifications
      /\ crashes \in Nat /\ DOMAIN arrived = 1..Len(arrived)
  BY ElementOfSeq, LenProperties, Numbers DEF TypeOK
<1>1. ~Crash
  BY <1>0 DEF Crash
<1>2. crashes = 0 /\ \A n \in Notifications : Priority(n)' = Priority(n)
  BY <1>1 DEF Next, Worker, vars, Receive, Promote, Stalled, Begin, NotFound, Retry, Sent,
              JobThrows, source, Priority
<1>3. ASSUME UNCHANGED arrived, job[a] # "none", job[b] # "none", delivered[a] = 0
      PROVE  /\ a \in Notifications /\ b \in Notifications /\ Priority(a) = Priority(b)
             /\ job[a] = "waiting" /\ job[b] = "waiting" /\ delivered[b] = 0 /\ Ahead(a, b)
             /\ status[a] # "none" /\ status[b] # "none"
  <2>1. a \in Notifications /\ b \in Notifications /\ Priority(a) = Priority(b)
    BY <1>0, <1>2, <1>3
  <2>2. delivered[b] = 0 /\ Ahead(a, b)
    BY <1>2, <1>3, <2>1 DEF QueueInTurn, InTurn
  <2>3. /\ status[a] = "pending" /\ job[a] = "waiting"
        /\ status[b] = "pending" /\ job[b] = "waiting"
    BY <1>2, <1>3, <2>1, <2>2, UndeliveredWaits
  <2> QED
    BY <2>1, <2>2, <2>3
<1>4. CASE UNCHANGED vars
  BY <1>3, <1>4 DEF vars, bull, Ahead
<1>5. ASSUME NEW n \in Notifications, Receive(n) PROVE delivered'[b] = 0 /\ Ahead(a, b)'
  <2>1. /\ Len(arrived') = Len(arrived) + 1 /\ arrived'[Len(arrived) + 1] = n
        /\ \A k \in 1..Len(arrived) : arrived'[k] = arrived[k]
        /\ n \notin Range(arrived) /\ delivered' = delivered
    BY <1>5, ArrivedRange DEF Receive
  <2>2. i \in 1..Len(arrived) /\ a = arrived[i] /\ a \in Notifications /\ a # n
    BY <1>0, <2>1 DEF Range
  <2>3. job[n] = "none" /\ delivered[n] = 0
    BY <2>1 DEF Known, Untouched
  <2>4. CASE queue' = Insert(n) /\ job' = [job EXCEPT ![n] = "waiting"]
    <3>1. /\ \A x, y \in Notifications \ {n} : Ahead(x, y) => Ahead(x, y)'
          /\ \A x \in Notifications \ {n} : Priority(x) = Priority(n) => Ahead(x, n)'
      BY <2>3, <2>4, PutInEffect
    <3>2. CASE j = Len(arrived) + 1
      BY <1>2, <2>1, <2>2, <2>3, <3>1, <3>2
    <3>3. CASE j \in 1..Len(arrived)
      <4>1. b = arrived[j] /\ b \in Notifications /\ b # n
        BY <1>0, <2>1, <3>3 DEF Range
      <4>2. job[a] # "none" /\ job[b] # "none" /\ Priority(a) = Priority(b)
        BY <1>2, <2>2, <2>4, <4>1, Numbers
      <4>3. delivered[b] = 0 /\ Ahead(a, b)
        BY <1>2, <2>1, <2>2, <3>3, <4>1, <4>2 DEF QueueInTurn, InTurn
      <4> QED
        BY <2>1, <2>2, <3>1, <4>1, <4>3
    <3> QED
      BY <1>0, <2>1, <3>2, <3>3
  <2>5. CASE UNCHANGED <<queue, job>>
    <3>1. j \in 1..Len(arrived) /\ b = arrived[j] /\ b \in Notifications
      BY <1>0, <2>1, <2>3, <2>5
    <3>2. delivered[b] = 0 /\ Ahead(a, b)
      BY <1>2, <2>1, <2>2, <2>5, <3>1 DEF QueueInTurn, InTurn
    <3> QED
      BY <2>1, <2>5, <3>2 DEF Ahead
  <2> QED
    BY <1>5, <2>4, <2>5 DEF Receive
<1>6. ASSUME NEW n \in Notifications, Promote(n) PROVE delivered'[b] = 0 /\ Ahead(a, b)'
  <2>1. /\ job[n] = "delayed" /\ queue' = Insert(n) /\ job' = [job EXCEPT ![n] = "waiting"]
        /\ UNCHANGED <<arrived, delivered>>
    BY <1>6 DEF Promote
  <2>2. a \in Notifications /\ b \in Notifications
    BY <1>0, <2>1
  <2>3. \A x \in Notifications : job'[x] = IF x = n THEN "waiting" ELSE job[x]
    <3>1. DOMAIN job = Notifications
      BY Numbers
    <3> QED
      BY <2>1, <3>1
  <2>4. job[a] # "none" /\ job[b] # "none"
    BY <2>1, <2>2, <2>3
  <2>5. a # n /\ b # n
    BY <1>3, <2>1, <2>4
  <2> QED
    BY <1>3, <2>1, <2>4, <2>5, PutInEffect
<1>7. ASSUME NEW n \in Notifications, Stalled(n) PROVE FALSE
  <2>1. job[n] = "active" /\ current # n
    BY <1>7 DEF Stalled
  <2> QED
    BY <1>2, <2>1, Numbers DEF Known, Untouched, RecordTells, Statuses
<1>8. CASE Begin
  <2>1. PICK n \in Notifications : n = Head(queue) /\ job[n] = "waiting"
    BY <1>8, HeadWaits DEF Begin
  <2>2. /\ queue # <<>> /\ queue' = Tail(queue) /\ job' = [job EXCEPT ![n] = "active"]
        /\ delivered' = delivered \/ delivered' = [delivered EXCEPT ![n] = @ + 1]
        /\ UNCHANGED arrived
    BY <1>8, <2>1 DEF Begin
  <2>. a \in Notifications /\ b \in Notifications
    BY <1>0, <2>2
  <2>3. job[a] # "none" /\ job[b] # "none"
    BY <2>1, <2>2, Numbers
  <2>4. delivered[a] = 0
    <3>1. delivered[n] + 1 # 0 /\ DOMAIN delivered = Notifications
      BY Numbers
    <3>2. delivered' = [delivered EXCEPT ![n] = delivered[n] + 1] => a # n
      BY <3>1
    <3> QED
      BY <2>2, <3>1, <3>2
  <2>5. b # n
    BY <1>3, <2>1, <2>2, <2>3, <2>4, TakeEffect
  <2>6. delivered'[b] = 0
    <3>1. delivered[b] = 0 /\ DOMAIN delivered = Notifications
      BY <1>3, <2>2, <2>3, <2>4, Numbers
    <3> QED
      BY <2>2, <2>5, <3>1
  <2> QED
    BY <1>3, <2>1, <2>2, <2>3, <2>4, <2>6, TakeEffect
<1>9. CASE NotFound \/ Retry \/ Sent
  <2>1. PICK n \in Notifications : n = current
    BY <1>9, Numbers DEF NotFound, Retry, Sent
  <2>2. UNCHANGED <<arrived, queue, delivered>> /\ \E s : job' = [job EXCEPT ![n] = s]
    BY <1>9, <2>1, ThrowEffect DEF NotFound, Retry, Sent
  <2>3. job[n] = "active"
    BY <2>1 DEF Known, JobTells
  <2>4. a \in Notifications /\ b \in Notifications
    BY <1>0, <2>2
  <2>5. PICK s : job' = [job EXCEPT ![n] = s]
    BY <2>2
  <2>6. job[a] # "none" /\ job[b] # "none"
    BY <2>3, <2>4, <2>5
  <2> QED
    BY <1>3, <2>2, <2>6 DEF Ahead
<1> QED
  BY <1>1, <1>4, <1>5, <1>6, <1>7, <1>8, <1>9 DEF Next, Worker

LEMMA PendingStep ==
  ASSUME TypeOK, \A n \in Notifications : Known(n), QueueIsWaiting, PendingTells, [Next]_vars
  PROVE  PendingTells'
<1>0. /\ metrics \in Metrics /\ metrics.totalPending \in Int /\ metrics.totalFailed \in Nat
      /\ DOMAIN status = Notifications /\ \A n \in Notifications : status[n] \in Statuses
  BY TypeParts, Numbers DEF RecordShape, Metrics
<1>1. ASSUME UNCHANGED metrics, Open' = Open PROVE PendingTells'
  BY <1>1 DEF PendingTells
<1>2. CASE UNCHANGED <<status, metrics>>
  BY <1>1, <1>2 DEF Open
<1>3. ASSUME NEW n \in Notifications, Receive(n) PROVE PendingTells'
  <2>1. n \notin Open
    BY <1>3 DEF Receive, Known, Untouched, Open
  <2>2. Open' = Open \union {n}
    BY <1>0, <1>3 DEF Receive, Open
  <2>3. IsFiniteSet(Open') /\ Cardinality(Open') = Cardinality(Open) + 1
    BY <2>1, <2>2, FS_AddElement DEF PendingTells
  <2>4. metrics'.totalPending = metrics.totalPending + 1
        /\ metrics'.totalFailed = metrics.totalFailed
    BY <1>0, <1>3, MetricsMove DEF Receive
  <2> QED
    BY <1>0, <2>3, <2>4, FS_CardinalityType DEF PendingTells
<1>4. CASE Begin
  <2>1. PICK n \in Notifications : n = Head(queue) /\ job[n] = "waiting"
    BY <1>4, HeadWaits DEF Begin
  <2>2. status[n] # "sent"
    BY <2>1 DEF Known, RecordTells
  <2>3. UNCHANGED status \/ (status[n] # "none" /\ status' = [status EXCEPT ![n] = "processing"])
    BY <1>4, <2>1 DEF Begin
  <2>4. Open' = Open
    BY <1>0, <2>2, <2>3 DEF Open
  <2> QED
    BY <1>1, <1>4, <2>4 DEF Begin
<1>5. CASE NotFound
  BY <1>2, <1>5 DEF NotFound
<1>6. CASE Retry
  <2>1. Open' = Open
    BY <1>0, <1>6 DEF Retry, Open
  <2>2. metrics'.totalPending = metrics.totalPending - 1
        /\ metrics'.totalFailed = metrics.totalFailed + 1
    BY <1>0, <1>6, MetricsMove DEF Retry
  <2> QED
    BY <1>0, <2>1, <2>2 DEF PendingTells
<1>7. CASE Sent
  <2>1. PICK n \in Notifications : n = current /\ status[n] = "processing"
    BY <1>7, Numbers DEF Sent
  <2>2. status' = [status EXCEPT ![n] = "sent"]
    BY <1>7, <2>1 DEF Sent
  <2>3. n \in Open /\ Open' = Open \ {n}
    BY <1>0, <2>1, <2>2 DEF Open
  <2>4. IsFiniteSet(Open') /\ Cardinality(Open') = Cardinality(Open) - 1
    BY <2>3, FS_RemoveElement DEF PendingTells
  <2>5. metrics'.totalPending = metrics.totalPending - 1
        /\ metrics'.totalFailed = metrics.totalFailed
    BY <1>0, <1>7, MetricsMove DEF Sent
  <2> QED
    BY <1>0, <2>4, <2>5, FS_CardinalityType DEF PendingTells
<1>8. CASE Crash
  <2>1. Open' = {}
    BY <1>8 DEF Crash, Open
  <2>2. metrics'.totalPending + metrics'.totalFailed = 0
    BY <1>8 DEF Crash, NoMetrics
  <2> QED
    BY <2>1, <2>2, FS_EmptySet DEF PendingTells
<1>9. ASSUME NEW n \in Notifications, Promote(n) \/ Stalled(n) PROVE PendingTells'
  BY <1>2, <1>9 DEF Promote, Stalled
<1> QED
  BY <1>2, <1>3, <1>4, <1>5, <1>6, <1>7, <1>8, <1>9 DEF Next, Worker, vars

------------------------------------------------------------------------------
(* Theorems. *)

LEMMA InitIInv == Init => IInv
<1> SUFFICES ASSUME Init PROVE IInv
  OBVIOUS
<1>1. TypeOK
  <2>1. /\ MaxAttempts \in Nat \ {0} /\ MaxStalls \in Nat /\ MaxCrashes \in Nat
        /\ <<>> \in Seq(Notifications)
    BY NotificationAssumption, EmptySeq
  <2>2. metrics \in [totalSent : Nat, totalFailed : Nat, totalPending : Int]
    BY DEF Init, NoMetrics
  <2> QED
    BY <2>1, <2>2 DEF Init, TypeOK
<1>2. \A n \in Notifications : Known(n)
  BY NotificationAssumption DEF Init, Known, Untouched, RecordTells, JobTells, Range
<1>3. QueueIsWaiting /\ QueueInTurn
  BY DEF Init, QueueIsWaiting, QueueInTurn
<1>4. PendingTells
  <2>1. Open = {} /\ metrics.totalPending + metrics.totalFailed = 0
    BY DEF Init, Open, NoMetrics
  <2> QED
    BY <2>1, FS_EmptySet DEF PendingTells
<1> QED
  BY <1>1, <1>2, <1>3, <1>4 DEF IInv

LEMMA NextIInv == IInv /\ [Next]_vars => IInv'
BY TypeStep, KnownStep, QueueStep, TurnStep, PendingStep DEF IInv

LEMMA Invariance == Spec => []IInv
BY InitIInv, NextIInv, PTL DEF Spec

(* Records, counters, jobs and queue have their types, whatever fails. *)
THEOREM TypeCorrect == Spec => []TypeOK
<1>1. IInv => TypeOK
  BY DEF IInv
<1> QED
  BY <1>1, Invariance, PTL

(***************************************************************************)
(* A completed job told its user, no user is told a notification more than *)
(* MaxAttempts times, over all crashes and stalls, and only one with an    *)
(* email is told twice: `delivered` counts the calls of the gateway.       *)
(***************************************************************************)
THEOREM DeliveriesAreBounded == Spec => []DeliveryIsBounded
<1>1. IInv => DeliveryIsBounded
  BY DEF IInv, DeliveryIsBounded, Known, JobTells
<1> QED
  BY <1>1, Invariance, PTL

(***************************************************************************)
(* notification.attempts and Bull's attemptsMade never drift apart, so the *)
(* failure at which Bull would give a job up is never left as FAILED: the  *)
(* job of a record that is still there never fails for good.               *)
(***************************************************************************)
THEOREM FailedIsRetried == Spec => []FailureIsNeverFinal
<1>1. IInv => FailureIsNeverFinal
  BY DEF IInv, FailureIsNeverFinal, Known, JobTells
<1> QED
  BY <1>1, Invariance, PTL

(***************************************************************************)
(* totalPending is the number of unsent records less the failed attempts   *)
(* since the service started: each retry takes one off a second time.      *)
(***************************************************************************)
THEOREM PendingCountsShort == Spec => []PendingIsShortByFailures
<1>1. IInv => PendingIsShortByFailures
  BY DEF IInv, PendingTells, PendingIsShortByFailures, Open
<1> QED
  BY <1>1, Invariance, PTL

(***************************************************************************)
(* Without a crash, notifications of one priority reach their users in the *)
(* order the events came in: a later one is not sent while an earlier one  *)
(* that Redis accepted has not been tried.                                 *)
(***************************************************************************)
THEOREM SentInTurn == Spec => []DeliveredInOrder
<1>1. IInv => DeliveredInOrder
  <2> SUFFICES ASSUME IInv, crashes = 0, NEW i \in 1..Len(arrived), NEW j \in 1..Len(arrived),
                      i < j, Priority(arrived[i]) = Priority(arrived[j]),
                      job[arrived[i]] # "none", delivered[arrived[j]] > 0
               PROVE  delivered[arrived[i]] > 0
    BY DEF DeliveredInOrder
  <2>1. arrived[i] \in Notifications /\ arrived[j] \in Notifications
    BY ElementOfSeq, LenProperties DEF IInv, TypeOK
  <2>2. delivered[arrived[i]] \in Nat /\ job[arrived[j]] # "none"
    BY <2>1, Numbers DEF IInv, Known, JobTells
  <2>3. delivered[arrived[i]] # 0
    BY <2>1, <2>2 DEF IInv, QueueInTurn, InTurn
  <2> QED
    BY <2>2, <2>3
<1> QED
  BY <1>1, Invariance, PTL
==============================================================================
