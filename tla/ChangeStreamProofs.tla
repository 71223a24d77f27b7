-------------------------- MODULE ChangeStreamProofs --------------------------
(***************************************************************************)
(* Theorems about ChangeStream, for every set of documents, whatever is    *)
(* written to them and however often the stream fails.                     *)
(***************************************************************************)
EXTENDS ChangeStream, SequenceTheorems, TLAPS

------------------------------------------------------------------------------
(* The inductive invariant. *)

(***************************************************************************)
(* The log tells the history of each document: its versions do not go      *)
(* back, it begins with its insertion and ends with its deletion.          *)
(***************************************************************************)
LogIsHistory ==
  /\ \A k \in deleted : version[k] >= 1
  /\ \A i \in 1..Len(log) :
       /\ 1 <= log[i].version /\ log[i].version <= version[log[i].key]
       /\ log[i].op = "insert" => log[i].version = 1
       /\ log[i].op = "delete" => log[i].key \in deleted
  /\ \A i, j \in 1..Len(log) :
       i < j /\ log[i].key = log[j].key =>
         /\ log[i].op # "delete" /\ log[j].op # "insert"
         /\ log[i].version <= log[j].version

(* How much of the log has been handled, or was passed over by opening. *)
Seen == cursor - Len(fetched)

(***************************************************************************)
(* What is fetched are the changes after those, each with a document that  *)
(* is not older than the change, nor than the one fetched before it.       *)
(***************************************************************************)
Matches(f, change) ==
  /\ f.op = change.op /\ f.key = change.key /\ f.full <= version[f.key]
  /\ f.op = "insert" => f.full = 1
  /\ f.op = "update" => f.full >= change.version \/ (f.full = 0 /\ f.key \in deleted)
  /\ f.op = "delete" => f.full = 0

FetchedInOrder ==
  /\ stage # "open" => fetched = <<>>
  /\ \A j \in 1..Len(fetched) : Matches(fetched[j], log[Seen + j])
  /\ \A i, j \in 1..Len(fetched) :
       i < j /\ fetched[i].key = fetched[j].key /\ fetched[j].full # 0 =>
         fetched[i].full <= fetched[j].full

(* The cache is not ahead of what the open stream is still to tell. *)
CacheIsBehind ==
  stage = "open" =>
    /\ \A j \in 1..Len(fetched) :
         fetched[j].full # 0 => cache[fetched[j].key] <= fetched[j].full
    /\ \A i \in 1..Len(log) :
         i > cursor /\ log[i].op = "insert" => cache[log[i].key] = 0

(* Nothing more will be told of k. *)
IsOver(k) ==
  /\ k \in deleted
  /\ \A j \in 1..Len(fetched) : fetched[j].key # k
  /\ \A i \in 1..Len(log) : i > cursor => log[i].key # k

(* The cache goes on from the last report, unless the document is over. *)
ReportsReachCache ==
  /\ stage = "loading" => reports = <<>>
  /\ \A i \in 1..Len(reports) :
       reports[i].new <= cache[reports[i].key] \/ IsOver(reports[i].key)

IInv ==
  /\ TypeOK /\ LogIsHistory /\ FetchedInOrder /\ CacheIsBehind /\ ReportsReachCache
  /\ CacheKeepsUp /\ ReportsAreChained

------------------------------------------------------------------------------
(* What the steps do. *)

FetchedChange == [op : {"insert", "update", "delete"}, key : Keys, full : Nat]

Reported == [key : Keys, old : Nat, new : Nat]

(* TypeOK, apart from its numbers. *)
Shape ==
  /\ version \in [Keys -> Nat] /\ deleted \subseteq Keys /\ log \in Seq(Change)
  /\ stage \in {"loading", "opening", "open", "waiting"} /\ loading \subseteq Collected
  /\ fetched \in Seq(FetchedChange) /\ cache \in [Keys -> Nat]
  /\ reports \in Seq(Reported) /\ told \subseteq [key : Keys, old : Nat]

Places ==
  /\ opened \in 0..cursor /\ cursor \in 0..Len(log) /\ Len(fetched) <= cursor - opened
  /\ errors \in 0..MaxErrors

LEMMA TypeParts == (TypeOK <=> Shape /\ Places) /\ (TypeOK' <=> Shape' /\ Places')
BY DEF TypeOK, Shape, Places, FetchedChange, Reported

LEMMA TypeFacts ==
  ASSUME TypeOK
  PROVE  /\ Len(log) \in Nat /\ Len(fetched) \in Nat /\ Len(reports) \in Nat
         /\ cursor \in Nat /\ opened \in Nat /\ cursor <= Len(log)
         /\ Seen \in Nat /\ opened <= Seen /\ Seen + Len(fetched) = cursor
         /\ \A i \in 1..Len(log) : log[i] \in Change
         /\ \A j \in 1..Len(fetched) : fetched[j] \in FetchedChange
         /\ \A i \in 1..Len(reports) : reports[i] \in Reported
         /\ \A k \in Keys : version[k] \in Nat /\ cache[k] \in Nat
<1>1. /\ log \in Seq(Change) /\ fetched \in Seq(FetchedChange)
      /\ reports \in Seq(Reported)
  BY TypeParts DEF Shape
<1>2. /\ cursor \in 0..Len(log) /\ opened \in 0..cursor /\ Len(fetched) <= cursor - opened
      /\ version \in [Keys -> Nat] /\ cache \in [Keys -> Nat]
  BY DEF TypeOK
<1>3. /\ Len(log) \in Nat /\ Len(fetched) \in Nat /\ Len(reports) \in Nat
      /\ \A i \in 1..Len(log) : log[i] \in Change
      /\ \A j \in 1..Len(fetched) : fetched[j] \in FetchedChange
      /\ \A i \in 1..Len(reports) : reports[i] \in Reported
  BY <1>1, ElementOfSeq, LenProperties
<1> QED
  BY <1>2, <1>3 DEF Seen

(* A write adds one change at the end of the log. *)
LEMMA CommitEffect ==
  ASSUME TypeOK, NEW k \in Keys, Insert(k) \/ Update(k) \/ Delete(k)
  PROVE  /\ log' \in Seq(Change) /\ Len(log') = Len(log) + 1
         /\ \A i \in 1..Len(log) : log'[i] = log[i]
         /\ log'[Len(log) + 1].key = k /\ log'[Len(log) + 1].version = version'[k]
         /\ version' \in [Keys -> Nat] /\ \A j \in Keys \ {k} : version'[j] = version[j]
         /\ \/ /\ log'[Len(log) + 1].op = "insert" /\ version[k] = 0 /\ version'[k] = 1
               /\ deleted' = deleted
            \/ /\ log'[Len(log) + 1].op = "update" /\ k \notin deleted /\ version[k] > 0
               /\ version'[k] = version[k] + 1 /\ deleted' = deleted
            \/ /\ log'[Len(log) + 1].op = "delete" /\ k \notin deleted /\ version[k] > 0
               /\ version'[k] = version[k] /\ deleted' = deleted \union {k}
         /\ UNCHANGED <<stream, cache, reports, told>>
<1>1. ASSUME NEW op \in {"insert", "update", "delete"}, version' \in [Keys -> Nat], Commit(op, k)
      PROVE  /\ log' \in Seq(Change) /\ Len(log') = Len(log) + 1
             /\ \A i \in 1..Len(log) : log'[i] = log[i]
             /\ log'[Len(log) + 1] = [op |-> op, key |-> k, version |-> version'[k]]
             /\ UNCHANGED <<stream, cache, reports, told>>
  <2>1. [op |-> op, key |-> k, version |-> version'[k]] \in Change
    BY <1>1 DEF Change
  <2>2. log \in Seq(Change)
    BY DEF TypeOK
  <2> QED
    BY <1>1, <2>1, <2>2, AppendProperties DEF Commit
<1>2. CASE Insert(k)
  <2>1. /\ version[k] = 0 /\ version' = [version EXCEPT ![k] = 1] /\ deleted' = deleted
        /\ Commit("insert", k) /\ version \in [Keys -> Nat]
    BY <1>2 DEF Insert, TypeOK
  <2>2. version' \in [Keys -> Nat] /\ version'[k] = 1
    BY <2>1
  <2> QED
    BY <1>1, <2>1, <2>2
<1>3. CASE Update(k)
  <2>1. /\ version[k] # 0 /\ version' = [version EXCEPT ![k] = @ + 1] /\ deleted' = deleted
        /\ Commit("update", k) /\ version \in [Keys -> Nat] /\ k \notin deleted
    BY <1>3 DEF Update, TypeOK, Current
  <2>2. version' \in [Keys -> Nat] /\ version'[k] = version[k] + 1 /\ version[k] > 0
    BY <2>1
  <2> QED
    BY <1>1, <2>1, <2>2
<1>4. CASE Delete(k)
  BY <1>1, <1>4 DEF Delete, TypeOK, Current
<1> QED
  BY <1>2, <1>3, <1>4

LEMMA FetchEffect ==
  ASSUME TypeOK, LogIsHistory, Fetch
  PROVE  /\ stage = "open" /\ cursor < Len(log) /\ cursor' = cursor + 1 /\ Seen' = Seen
         /\ Len(fetched') = Len(fetched) + 1
         /\ fetched' \in Seq(FetchedChange)
         /\ \A j \in 1..Len(fetched) : fetched'[j] = fetched[j]
         /\ Matches(fetched'[Len(fetched) + 1], log[cursor + 1])
         /\ fetched'[Len(fetched) + 1].op = "update" =>
              fetched'[Len(fetched) + 1].full \in {0, version[log[cursor + 1].key]}
         /\ UNCHANGED <<database, stage, loading, opened, cache, reports, told, errors>>
<1> DEFINE change == log[cursor + 1]
           new == [op |-> change.op, key |-> change.key, full |-> FullDocument(change)]
<1>1. /\ stage = "open" /\ cursor < Len(log) /\ cursor' = cursor + 1
      /\ fetched' = Append(fetched, new)
      /\ UNCHANGED <<database, stage, loading, opened, cache, reports, told, errors>>
  BY DEF Fetch
<1>2. change \in Change /\ cursor + 1 \in 1..Len(log)
  BY <1>1, TypeFacts
<1>3. /\ 1 <= change.version /\ change.version <= version[change.key]
      /\ change.op = "insert" => change.version = 1
      /\ change.op = "delete" => change.key \in deleted
  BY <1>2 DEF LogIsHistory
<1>4. /\ FullDocument(change) \in Nat /\ FullDocument(change) <= version[change.key]
      /\ change.op = "insert" => FullDocument(change) = 1
      /\ change.op = "update" => \/ FullDocument(change) = version[change.key]
                                 \/ FullDocument(change) = 0 /\ change.key \in deleted
      /\ change.op = "delete" => FullDocument(change) = 0
  BY <1>2, <1>3, TypeFacts DEF FullDocument, Current, Change
<1>5. new \in FetchedChange /\ fetched \in Seq(FetchedChange)
  BY <1>2, <1>4 DEF FetchedChange, Change, TypeOK
<1>6. /\ Len(fetched') = Len(fetched) + 1 /\ fetched' \in Seq(FetchedChange)
      /\ \A j \in 1..Len(fetched) : fetched'[j] = fetched[j]
      /\ fetched'[Len(fetched) + 1] = new
  BY <1>1, <1>5, AppendProperties
<1>7. Seen' = Seen
  BY <1>1, <1>6, TypeFacts DEF Seen
<1>8. Matches(new, change)
  BY <1>2, <1>3, <1>4 DEF Matches, Change
<1>9. new.op = "update" => new.full \in {0, version[change.key]}
  BY <1>4
<1> HIDE DEF new
<1> QED
  BY <1>1, <1>6, <1>7, <1>8, <1>9

LEMMA HandleEffect ==
  ASSUME TypeOK, Handle
  PROVE  /\ stage = "open" /\ fetched # <<>> /\ 1 \in 1..Len(fetched)
         /\ fetched' \in Seq(FetchedChange)
         /\ Len(fetched') = Len(fetched) - 1 /\ Seen' = Seen + 1
         /\ \A j \in 1..Len(fetched') : fetched'[j] = fetched[j + 1]
         /\ UNCHANGED <<database, stage, loading, opened, cursor, errors>>
         /\ \/ HandleInsert(fetched[1]) \/ HandleUpdate(fetched[1]) \/ HandleDelete(fetched[1])
<1>1. fetched \in Seq(FetchedChange) /\ fetched # <<>>
  BY DEF TypeOK, FetchedChange, Handle
<1>2. /\ fetched' = Tail(fetched) /\ stage = "open"
      /\ UNCHANGED <<database, stage, loading, opened, cursor, errors>>
      /\ \/ HandleInsert(Head(fetched)) \/ HandleUpdate(Head(fetched))
         \/ HandleDelete(Head(fetched))
  BY DEF Handle
<1>3. /\ Head(fetched) = fetched[1] /\ 1 \in 1..Len(fetched)
      /\ fetched' \in Seq(FetchedChange) /\ Len(fetched') = Len(fetched) - 1
      /\ \A j \in 1..Len(fetched') : fetched'[j] = fetched[j + 1]
  BY <1>1, <1>2, HeadTailProperties, EmptySeq, LenProperties
<1>4. Seen' = Seen + 1
  BY <1>2, <1>3, TypeFacts DEF Seen
<1> QED
  BY <1>1, <1>2, <1>3, <1>4

(* The steps that neither write, nor fetch, nor handle. *)
Opens == (\E k \in Keys : Load(k)) \/ Loaded \/ Open \/ StreamFails \/ Reconnect

LEMMA StepsByKind ==
  ASSUME [Next]_vars
  PROVE  \/ UNCHANGED vars
         \/ \E k \in Keys : Insert(k) \/ Update(k) \/ Delete(k)
         \/ Opens \/ Fetch \/ Handle
BY DEF Next, Opens

------------------------------------------------------------------------------
(* Each part of the invariant is preserved. *)

LEMMA OpensEffect ==
  ASSUME TypeOK, Opens
  PROVE  /\ UNCHANGED <<database, reports, told>>
         /\ cache' \in [Keys -> Nat]
         /\ \/ /\ UNCHANGED <<cache, fetched, cursor, opened>>
               /\ stage' \in {"opening"} /\ stage \in {"loading", "waiting"}
            \/ /\ UNCHANGED <<cursor, opened, stage, fetched>> /\ stage = "loading"
               /\ \E k \in Keys : cache' = [cache EXCEPT ![k] = Current(k)]
            \/ /\ cache' = cache /\ fetched' = <<>> /\ cursor' = Len(log) /\ opened' = Len(log)
               /\ stage = "opening" /\ stage' = "open"
            \/ /\ UNCHANGED <<cache, cursor, opened>> /\ fetched' = <<>>
               /\ stage \in {"opening", "open"} /\ stage' = "waiting"
         /\ errors' \in 0..MaxErrors /\ loading' \subseteq Collected
<1> USE DEF database, TypeOK
<1>1. ASSUME NEW k \in Keys, Load(k)
      PROVE  /\ UNCHANGED <<database, reports, told, cursor, opened, stage, fetched, errors>>
             /\ stage = "loading" /\ cache' = [cache EXCEPT ![k] = Current(k)]
             /\ cache' \in [Keys -> Nat] /\ loading' \subseteq Collected
  BY <1>1 DEF Load, Current
<1>2. CASE Loaded
  BY <1>2, ChangeStreamAssumption DEF Loaded
<1>3. CASE Open
  BY <1>3 DEF Open
<1>4. CASE StreamFails
  BY <1>4, ChangeStreamAssumption DEF StreamFails
<1>5. CASE Reconnect
  BY <1>5 DEF Reconnect
<1> QED
  BY <1>1, <1>2, <1>3, <1>4, <1>5 DEF Opens

LEMMA TypeStep ==
  ASSUME TypeOK, LogIsHistory, [Next]_vars
  PROVE  TypeOK'
<1>0. Shape /\ Places /\ Len(log) \in Nat /\ Len(fetched) \in Nat
  BY TypeParts, TypeFacts
<1>1. CASE UNCHANGED vars
  BY <1>0, <1>1, TypeParts DEF vars, Shape, Places, Change
<1>2. ASSUME NEW k \in Keys, Insert(k) \/ Update(k) \/ Delete(k) PROVE TypeOK'
  <2>1. /\ log' \in Seq(Change) /\ Len(log') = Len(log) + 1 /\ version' \in [Keys -> Nat]
        /\ deleted' \subseteq deleted \union {k} /\ UNCHANGED <<stream, cache, reports, told>>
    BY <1>2, CommitEffect
  <2>2. Shape'
    BY <1>0, <2>1 DEF Shape, stream
  <2>3. Places'
    BY <1>0, <2>1 DEF Places, stream
  <2> QED
    BY <2>2, <2>3, TypeParts
<1>3. CASE Opens
  <2>1. /\ UNCHANGED <<database, reports, told>> /\ cache' \in [Keys -> Nat]
        /\ errors' \in 0..MaxErrors /\ loading' \subseteq Collected
        /\ stage' \in {"loading", "opening", "open", "waiting"}
        /\ \/ UNCHANGED <<fetched, cursor, opened>>
           \/ UNCHANGED <<cursor, opened>> /\ fetched' = <<>>
           \/ fetched' = <<>> /\ cursor' = Len(log) /\ opened' = Len(log)
    BY <1>0, <1>3, OpensEffect DEF Shape
  <2>2. fetched' \in Seq(FetchedChange)
    BY <1>0, <2>1, EmptySeq DEF Shape
  <2>3. Shape'
    BY <1>0, <2>1, <2>2 DEF Shape, database
  <2>4. Places'
    BY <1>0, <2>1 DEF Places, database
  <2> QED
    BY <2>3, <2>4, TypeParts
<1>4. CASE Fetch
  <2>1. /\ cursor' = cursor + 1 /\ cursor < Len(log) /\ Len(fetched') = Len(fetched) + 1
        /\ fetched' \in Seq(FetchedChange)
        /\ UNCHANGED <<database, stage, loading, opened, cache, reports, told, errors>>
    BY <1>4, FetchEffect
  <2>2. Shape'
    BY <1>0, <2>1 DEF Shape, database
  <2>3. Places'
    BY <1>0, <2>1 DEF Places, database
  <2> QED
    BY <2>2, <2>3, TypeParts
<1>5. CASE Handle
  <2>1. /\ fetched' \in Seq(FetchedChange) /\ Len(fetched') = Len(fetched) - 1
        /\ UNCHANGED <<database, stage, loading, opened, cursor, errors>>
        /\ HandleInsert(fetched[1]) \/ HandleUpdate(fetched[1]) \/ HandleDelete(fetched[1])
        /\ fetched[1] \in FetchedChange
    BY <1>5, HandleEffect, TypeFacts
  <2>2. cache' \in [Keys -> Nat] /\ told' \subseteq [key : Keys, old : Nat]
    BY <1>0, <2>1 DEF Shape, HandleInsert, HandleUpdate, HandleDelete, Remember, FetchedChange
  <2>3. Report(fetched[1]) \in Reported
    BY <1>0, <2>1 DEF Shape, Report, Reported, FetchedChange
  <2>4. reports' = reports \/ reports' = Append(reports, Report(fetched[1]))
    BY <2>1 DEF HandleInsert, HandleUpdate, HandleDelete
  <2>5. reports' \in Seq(Reported)
    <3>1. reports \in Seq(Reported)
      BY <1>0 DEF Shape
    <3> HIDE DEF Reported
    <3> QED
      BY <2>3, <2>4, <3>1, AppendProperties
  <2>6. Shape'
    BY <1>0, <2>1, <2>2, <2>5 DEF Shape, database
  <2>7. Places'
    BY <1>0, <2>1 DEF Places, database
  <2> QED
    BY <2>6, <2>7, TypeParts
<1> QED
  BY <1>1, <1>2, <1>3, <1>4, <1>5, StepsByKind

LEMMA LogStep ==
  ASSUME TypeOK, LogIsHistory, [Next]_vars
  PROVE  LogIsHistory'
<1>1. CASE UNCHANGED database
  BY <1>1 DEF database, LogIsHistory
<1>2. ASSUME NEW k \in Keys, Insert(k) \/ Update(k) \/ Delete(k) PROVE LogIsHistory'
  <2> DEFINE n == Len(log)
  <2>1. /\ Len(log') = n + 1 /\ n \in Nat
        /\ \A i \in 1..n : log'[i] = log[i] /\ log[i].key \in Keys /\ log[i].version \in Nat
        /\ log'[n + 1].key = k /\ log'[n + 1].version = version'[k]
        /\ \A j \in Keys : version[j] \in Nat /\ version'[j] \in Nat
        /\ \A j \in Keys \ {k} : version'[j] = version[j]
        /\ deleted \subseteq Keys
    BY <1>2, CommitEffect, TypeFacts DEF Change, TypeOK
  <2>2. \/ /\ log'[n + 1].op = "insert" /\ version[k] = 0 /\ version'[k] = 1 /\ deleted' = deleted
        \/ /\ log'[n + 1].op = "update" /\ k \notin deleted /\ version[k] > 0
           /\ version'[k] = version[k] + 1 /\ deleted' = deleted
        \/ /\ log'[n + 1].op = "delete" /\ k \notin deleted /\ version[k] > 0
           /\ version'[k] = version[k] /\ deleted' = deleted \union {k}
    BY <1>2, CommitEffect
  <2>3. /\ \A j \in Keys : version[j] <= version'[j]
        /\ version'[k] >= 1 /\ deleted \subseteq deleted'
    BY <2>1, <2>2
  <2>4. \A j \in deleted' : version'[j] >= 1
    BY <2>1, <2>2, <2>3 DEF LogIsHistory
  <2>5. \A i \in 1..n : /\ 1 <= log[i].version /\ log[i].version <= version[log[i].key]
                        /\ log[i].op = "insert" => log[i].version = 1
                        /\ log[i].op = "delete" => log[i].key \in deleted
    BY DEF LogIsHistory
  <2>6. ASSUME NEW i \in 1..(n + 1)
        PROVE  /\ 1 <= log'[i].version /\ log'[i].version <= version'[log'[i].key]
               /\ log'[i].op = "insert" => log'[i].version = 1
               /\ log'[i].op = "delete" => log'[i].key \in deleted'
    <3>1. CASE i = n + 1
      BY <2>1, <2>2, <2>3, <3>1
    <3>2. CASE i \in 1..n
      BY <2>1, <2>3, <2>5, <3>2
    <3> QED
      BY <2>1, <3>1, <3>2
  <2>7. ASSUME NEW i \in 1..n, log[i].key = k
        PROVE  log[i].op # "delete" /\ log'[n + 1].op # "insert" /\ log[i].version <= version'[k]
    BY <2>1, <2>2, <2>5, <2>7
  <2>8. ASSUME NEW i \in 1..(n + 1), NEW j \in 1..(n + 1), i < j, log'[i].key = log'[j].key
        PROVE  /\ log'[i].op # "delete" /\ log'[j].op # "insert"
               /\ log'[i].version <= log'[j].version
    <3>1. i \in 1..n
      BY <2>1, <2>8
    <3>2. CASE j = n + 1
      BY <2>1, <2>7, <2>8, <3>1, <3>2
    <3>3. CASE j \in 1..n
      BY <2>1, <2>8, <3>1, <3>3 DEF LogIsHistory
    <3> QED
      BY <2>1, <3>2, <3>3
  <2> QED
    BY <2>1, <2>4, <2>6, <2>8 DEF LogIsHistory
<1> QED
  BY <1>1, <1>2, OpensEffect, FetchEffect, HandleEffect, StepsByKind DEF vars, database

(* What is known of the changes that are fetched: their places in the log. *)
LEMMA FetchedFacts ==
  ASSUME TypeOK, FetchedInOrder, NEW j \in 1..Len(fetched)
  PROVE  /\ Matches(fetched[j], log[Seen + j]) /\ Seen + j \in 1..Len(log) /\ Seen + j <= cursor
         /\ log[Seen + j].key \in Keys /\ log[Seen + j].version \in Nat
         /\ fetched[j].full \in Nat
BY TypeFacts DEF FetchedInOrder, Change, FetchedChange

(* A write only adds: to the log, to the versions, to the deleted. *)
LEMMA WritesAdd ==
  ASSUME TypeOK, NEW k \in Keys, Insert(k) \/ Update(k) \/ Delete(k)
  PROVE  /\ Len(log') = Len(log) + 1 /\ \A i \in 1..Len(log) : log'[i] = log[i]
         /\ \A j \in Keys : version'[j] \in Nat /\ version[j] <= version'[j]
         /\ deleted \subseteq deleted' /\ Seen' = Seen
         /\ UNCHANGED <<stage, loading, opened, fetched, cursor, cache, reports, told>>
<1>1. /\ Len(log') = Len(log) + 1 /\ \A i \in 1..Len(log) : log'[i] = log[i]
      /\ version' \in [Keys -> Nat] /\ \A j \in Keys \ {k} : version'[j] = version[j]
      /\ version'[k] \in {version[k], version[k] + 1} \/ version[k] = 0
      /\ deleted \subseteq deleted' /\ UNCHANGED <<stream, cache, reports, told>>
  BY CommitEffect
<1>2. ASSUME NEW j \in Keys
      PROVE  version'[j] \in Nat /\ version[j] <= version'[j]
  <2>1. version[j] \in Nat /\ version'[j] \in Nat
    BY <1>1, TypeFacts
  <2> QED
    BY <1>1, <2>1
<1>3. UNCHANGED <<stage, loading, opened, fetched, cursor>>
  BY <1>1 DEF stream
<1> QED
  BY <1>1, <1>2, <1>3 DEF Seen

LEMMA FetchedStep ==
  ASSUME TypeOK, LogIsHistory, FetchedInOrder, [Next]_vars
  PROVE  FetchedInOrder'
<1>1. CASE UNCHANGED vars
  BY <1>1 DEF vars, FetchedInOrder, Seen, Matches
<1>2. ASSUME NEW k \in Keys, Insert(k) \/ Update(k) \/ Delete(k) PROVE FetchedInOrder'
  <2>1. /\ \A i \in 1..Len(log) : log'[i] = log[i]
        /\ \A x \in Keys : version'[x] \in Nat /\ version[x] <= version'[x]
        /\ deleted \subseteq deleted' /\ Seen' = Seen
        /\ UNCHANGED <<stage, fetched>>
    BY <1>2, WritesAdd
  <2>2. ASSUME NEW j \in 1..Len(fetched) PROVE Matches(fetched[j], log[Seen + j])'
    <3>1. /\ Matches(fetched[j], log[Seen + j]) /\ log'[Seen + j] = log[Seen + j]
          /\ log[Seen + j].key \in Keys /\ fetched[j].full \in Nat
      BY <2>1, FetchedFacts
    <3>2. version[fetched[j].key] \in Nat /\ version[fetched[j].key] <= version'[fetched[j].key]
          /\ version'[fetched[j].key] \in Nat
      BY <2>1, <3>1, TypeFacts DEF Matches
    <3> QED
      BY <2>1, <3>1, <3>2 DEF Matches
  <2> QED
    BY <2>1, <2>2 DEF FetchedInOrder
<1>3. CASE Opens
  <2>1. UNCHANGED database /\ \/ fetched' = <<>>
                              \/ /\ UNCHANGED <<fetched, cursor>>
                                 /\ stage' = "open" => stage = "open"
    BY <1>3, OpensEffect
  <2>2. ASSUME fetched' = <<>> PROVE FetchedInOrder'
    BY <2>2 DEF FetchedInOrder
  <2>3. ASSUME UNCHANGED <<fetched, cursor>>, fetched' # <<>>, stage' = stage
        PROVE FetchedInOrder'
    BY <2>1, <2>3 DEF FetchedInOrder, database, Seen, Matches
  <2>4. ASSUME fetched' = fetched PROVE fetched = <<>> \/ stage = "open"
    BY DEF FetchedInOrder
  <2>5. stage = "open" /\ fetched' # <<>> => UNCHANGED <<fetched, cursor, stage>>
    BY <1>3, OpensEffect
  <2> QED
    BY <2>1, <2>2, <2>3, <2>4, <2>5
<1>4. CASE Fetch
  <2> DEFINE n == Len(fetched)
             new == fetched'[n + 1]
  <2>1. /\ stage = "open" /\ cursor < Len(log) /\ Seen' = Seen /\ Len(fetched') = n + 1
        /\ \A j \in 1..n : fetched'[j] = fetched[j]
        /\ Matches(new, log[cursor + 1])
        /\ new.op = "update" => new.full \in {0, version[log[cursor + 1].key]}
        /\ UNCHANGED <<log, version, deleted, stage>>
    BY <1>4, FetchEffect DEF database
  <2>2. n \in Nat /\ Seen \in Nat /\ Seen + (n + 1) = cursor + 1 /\ cursor + 1 \in 1..Len(log)
        /\ log[cursor + 1] \in Change
    BY <2>1, TypeFacts
  <2>3. ASSUME NEW j \in 1..(n + 1) PROVE Matches(fetched[j], log[Seen + j])'
    <3>1. CASE j = n + 1
      BY <2>1, <2>2, <3>1 DEF Matches
    <3>2. CASE j \in 1..n
      BY <2>1, <3>2, FetchedFacts DEF Matches
    <3> QED
      BY <2>2, <3>1, <3>2
  <2>4. ASSUME NEW i \in 1..n, fetched[i].key = new.key, new.full # 0
        PROVE  fetched[i].full <= new.full
    <3>0. /\ Matches(fetched[i], log[Seen + i]) /\ Seen + i \in 1..Len(log)
          /\ Seen + i <= cursor
      BY <2>4, FetchedFacts
    <3>1. /\ fetched[i].full <= version[fetched[i].key] /\ log[Seen + i].key = new.key
          /\ Seen + i \in 1..Len(log) /\ Seen + i < cursor + 1
      BY <2>2, <2>4, <3>0, TypeFacts DEF Matches
    <3>2. new.key = log[cursor + 1].key /\ new.op = log[cursor + 1].op
      BY <2>1 DEF Matches
    <3>3. new.op # "insert"
      BY <2>2, <3>1, <3>2 DEF LogIsHistory
    <3>4. new.op = "update"
      BY <2>1, <2>2, <2>4, <3>2, <3>3 DEF Matches, Change
    <3> QED
      BY <2>1, <2>4, <3>1, <3>2, <3>4
  <2>5. ASSUME NEW i \in 1..(n + 1), NEW j \in 1..(n + 1), i < j,
               fetched'[i].key = fetched'[j].key, fetched'[j].full # 0
        PROVE  fetched'[i].full <= fetched'[j].full
    <3>1. i \in 1..n
      BY <2>2, <2>5
    <3>2. CASE j = n + 1
      BY <2>1, <2>4, <2>5, <3>1, <3>2
    <3>3. CASE j \in 1..n
      BY <2>1, <2>5, <3>1, <3>3 DEF FetchedInOrder
    <3> QED
      BY <2>2, <3>2, <3>3
  <2> QED
    BY <2>1, <2>3, <2>5 DEF FetchedInOrder
<1>5. CASE Handle
  <2>1. /\ stage = "open" /\ stage' = stage /\ Len(fetched') = Len(fetched) - 1 /\ Seen' = Seen + 1
        /\ \A j \in 1..Len(fetched') : fetched'[j] = fetched[j + 1]
        /\ UNCHANGED <<log, version, deleted>> /\ Len(fetched) \in Nat /\ Seen \in Nat
    BY <1>5, HandleEffect, TypeFacts DEF database
  <2>2. ASSUME NEW j \in 1..Len(fetched') PROVE Matches(fetched[j], log[Seen + j])'
    <3>1. j + 1 \in 1..Len(fetched) /\ Seen' + j = Seen + (j + 1)
      BY <2>1
    <3> QED
      BY <2>1, <3>1 DEF FetchedInOrder, Matches
  <2>3. ASSUME NEW i \in 1..Len(fetched'), NEW j \in 1..Len(fetched'), i < j,
               fetched'[i].key = fetched'[j].key, fetched'[j].full # 0
        PROVE  fetched'[i].full <= fetched'[j].full
    <3>1. i + 1 \in 1..Len(fetched) /\ j + 1 \in 1..Len(fetched) /\ i + 1 < j + 1
      BY <2>1, <2>3
    <3> QED
      BY <2>1, <2>3, <3>1 DEF FetchedInOrder
  <2> QED
    BY <2>1, <2>2, <2>3 DEF FetchedInOrder
<1> QED
  BY <1>1, <1>2, <1>3, <1>4, <1>5, StepsByKind

(***************************************************************************)
(* Handling a change: the cache of its document goes to a version that is  *)
(* not older, or is emptied when the document is deleted.                  *)
(***************************************************************************)
LEMMA HandledCache ==
  ASSUME TypeOK, LogIsHistory, FetchedInOrder, CacheIsBehind, Handle
  PROVE  LET f == fetched[1] IN
         /\ f.key \in Keys /\ f.full \in Nat /\ f.op \in {"insert", "update", "delete"}
         /\ cache' \in [Keys -> Nat] /\ \A k \in Keys \ {f.key} : cache'[k] = cache[k]
         /\ f.op = "delete" => cache'[f.key] = 0
         /\ f.op # "delete" => cache'[f.key] = IF f.full # 0 THEN f.full ELSE cache[f.key]
         /\ f.op # "delete" => cache[f.key] <= cache'[f.key]
         /\ \/ reports' = reports
            \/ /\ f.op = "update" /\ f.full # 0
               /\ reports' = Append(reports, Report(f))
<1> DEFINE f == fetched[1]
<1>1. /\ stage = "open" /\ 1 \in 1..Len(fetched)
      /\ HandleInsert(f) \/ HandleUpdate(f) \/ HandleDelete(f)
  BY HandleEffect
<1>2. f \in FetchedChange /\ cache \in [Keys -> Nat]
  BY <1>1, TypeFacts DEF TypeOK
<1>3. f.key \in Keys /\ f.full \in Nat /\ f.op \in {"insert", "update", "delete"}
  BY <1>2 DEF FetchedChange
<1>4. f.full # 0 => cache[f.key] <= f.full
  BY <1>1 DEF CacheIsBehind
<1>5. CASE f.op = "delete"
  <2>1. /\ cache' = IF cache[f.key] # 0 THEN [cache EXCEPT ![f.key] = 0] ELSE cache
        /\ reports' = reports
    BY <1>1, <1>5 DEF HandleInsert, HandleUpdate, HandleDelete
  <2> HIDE DEF f
  <2>2. /\ cache' \in [Keys -> Nat] /\ \A k \in Keys \ {f.key} : cache'[k] = cache[k]
        /\ cache'[f.key] = 0
    BY <1>2, <1>3, <2>1
  <2> QED
    BY <1>3, <1>5, <2>1, <2>2 DEF f
<1>6. CASE f.op # "delete"
  <2>1. /\ cache' = IF f.full # 0 THEN [cache EXCEPT ![f.key] = f.full] ELSE cache
        /\ reports' = reports \/ (f.op = "update" /\ f.full # 0 /\ reports' = Append(reports, Report(f)))
    BY <1>1, <1>6 DEF HandleInsert, HandleUpdate, HandleDelete, Remember
  <2> HIDE DEF f
  <2>2. /\ cache' \in [Keys -> Nat] /\ \A k \in Keys \ {f.key} : cache'[k] = cache[k]
        /\ cache'[f.key] = IF f.full # 0 THEN f.full ELSE cache[f.key]
    BY <1>2, <1>3, <2>1
  <2>3. cache[f.key] <= cache'[f.key]
    <3>1. cache[f.key] \in Nat
      BY <1>2, <1>3
    <3>2. f.full # 0 => cache'[f.key] = f.full
      BY <2>2
    <3>3. f.full = 0 => cache'[f.key] = cache[f.key]
      BY <2>2
    <3> QED
      BY <1>4, <3>1, <3>2, <3>3
  <2> QED
    BY <1>3, <1>6, <2>1, <2>2, <2>3 DEF f
<1> QED
  BY <1>5, <1>6

LEMMA CacheStep ==
  ASSUME TypeOK, LogIsHistory, FetchedInOrder, CacheIsBehind, CacheKeepsUp, [Next]_vars
  PROVE  CacheIsBehind'
<1>1. CASE UNCHANGED vars
  BY <1>1 DEF vars, CacheIsBehind
<1>2. ASSUME NEW k \in Keys, Insert(k) \/ Update(k) \/ Delete(k) PROVE CacheIsBehind'
  <2> DEFINE n == Len(log)
  <2>1. /\ Len(log') = n + 1 /\ \A i \in 1..n : log'[i] = log[i]
        /\ UNCHANGED <<stage, fetched, cursor, cache>> /\ n \in Nat
    BY <1>2, WritesAdd, TypeFacts
  <2>2. log'[n + 1].op = "insert" => cache[log'[n + 1].key] = 0
    <3>1. log'[n + 1].key = k /\ (log'[n + 1].op = "insert" => version[k] = 0)
      BY <1>2, CommitEffect
    <3>2. cache[k] <= version[k] /\ cache[k] \in Nat
      BY TypeFacts DEF CacheKeepsUp
    <3> QED
      BY <3>1, <3>2
  <2>3. ASSUME NEW i \in 1..(n + 1), stage = "open", i > cursor, log'[i].op = "insert"
        PROVE  cache[log'[i].key] = 0
    <3>1. CASE i = n + 1
      BY <2>2, <2>3, <3>1
    <3>2. CASE i \in 1..n
      BY <2>1, <2>3, <3>2 DEF CacheIsBehind
    <3> QED
      BY <2>1, <3>1, <3>2
  <2> QED
    BY <2>1, <2>3 DEF CacheIsBehind
<1>3. CASE Opens
  <2>1. stage' = "open" =>
          /\ UNCHANGED <<database, cache>>
          /\ fetched' = <<>> /\ cursor' = Len(log)
    BY <1>3, OpensEffect
  <2>2. Len(log) \in Nat /\ 1..Len(<<>>) = {}
    BY TypeFacts
  <2> QED
    BY <2>1, <2>2 DEF CacheIsBehind, database
<1>4. CASE Fetch
  <2> DEFINE n == Len(fetched)
             new == fetched'[n + 1]
  <2>1. /\ stage = "open" /\ cursor < Len(log) /\ cursor' = cursor + 1 /\ Len(fetched') = n + 1
        /\ \A j \in 1..n : fetched'[j] = fetched[j]
        /\ Matches(new, log[cursor + 1])
        /\ new.op = "update" => new.full \in {0, version[log[cursor + 1].key]}
        /\ UNCHANGED <<log, cache>>
    BY <1>4, FetchEffect DEF database
  <2>2. /\ n \in Nat /\ cursor + 1 \in 1..Len(log) /\ log[cursor + 1] \in Change
        /\ cursor \in Nat /\ Len(log) \in Nat
    BY <2>1, TypeFacts
  <2>3. new.full # 0 => cache[new.key] <= new.full
    <3>1. new.key = log[cursor + 1].key /\ new.op = log[cursor + 1].op /\ new.key \in Keys
          /\ (new.op = "insert" => new.full = 1) /\ (new.op = "delete" => new.full = 0)
      BY <2>1, <2>2 DEF Matches, Change
    <3>2. cache[new.key] <= version[new.key]
      BY <3>1 DEF CacheKeepsUp
    <3>3. new.op = "insert" => cache[new.key] = 0
      <4>1. log[cursor + 1].op = "insert" => cache[log[cursor + 1].key] = 0
        <5>1. \A i \in 1..Len(log) : i > cursor /\ log[i].op = "insert" => cache[log[i].key] = 0
          BY <2>1 DEF CacheIsBehind
        <5>2. cursor + 1 > cursor
          BY <2>2
        <5> QED
          BY <2>2, <5>1, <5>2
      <4> QED
        BY <3>1, <4>1
    <3>4. new.op \in {"insert", "update", "delete"}
      BY <2>2, <3>1 DEF Change
    <3> QED
      BY <2>1, <3>1, <3>2, <3>3, <3>4
  <2>4. ASSUME NEW j \in 1..(n + 1), fetched'[j].full # 0
        PROVE  cache[fetched'[j].key] <= fetched'[j].full
    <3>1. CASE j = n + 1
      BY <2>3, <2>4, <3>1
    <3>2. CASE j \in 1..n
      BY <2>1, <2>4, <3>2 DEF CacheIsBehind
    <3> QED
      BY <2>2, <3>1, <3>2
  <2>5. ASSUME NEW i \in 1..Len(log), i > cursor + 1, log[i].op = "insert"
        PROVE  cache[log[i].key] = 0
    BY <2>1, <2>2, <2>5 DEF CacheIsBehind
  <2> QED
    BY <2>1, <2>4, <2>5 DEF CacheIsBehind
<1>5. CASE Handle
  <2> DEFINE f == fetched[1]
  <2>1. /\ stage = "open" /\ 1 \in 1..Len(fetched) /\ Len(fetched') = Len(fetched) - 1
        /\ \A j \in 1..Len(fetched') : fetched'[j] = fetched[j + 1]
        /\ UNCHANGED <<log, cursor>>
    BY <1>5, HandleEffect DEF database
  <2>2. /\ f.key \in Keys /\ f.full \in Nat /\ f.op \in {"insert", "update", "delete"}
        /\ \A k \in Keys \ {f.key} : cache'[k] = cache[k]
        /\ f.op = "delete" => cache'[f.key] = 0
        /\ f.op # "delete" => cache'[f.key] = IF f.full # 0 THEN f.full ELSE cache[f.key]
    BY <1>5, HandledCache
  <2>3. Len(fetched) \in Nat /\ Len(log) \in Nat /\ cursor \in Nat
    BY TypeFacts
  <2>4. ASSUME NEW j \in 1..Len(fetched'), fetched'[j].full # 0
        PROVE  cache'[fetched'[j].key] <= fetched'[j].full
    <3> DEFINE g == fetched[j + 1]
    <3>1. j + 1 \in 1..Len(fetched) /\ 1 < j + 1 /\ fetched'[j] = g
      BY <2>1, <2>3
    <3>2. cache[g.key] <= g.full /\ g.key \in Keys /\ g.full \in Nat
      BY <2>1, <2>4, <3>1, FetchedFacts DEF CacheIsBehind, Matches
    <3>3. CASE g.key # f.key
      BY <2>2, <3>1, <3>2, <3>3
    <3>4. CASE g.key = f.key
      <4>1. f.full <= g.full
        BY <2>1, <2>4, <3>1, <3>4 DEF FetchedInOrder
      <4> QED
        BY <2>2, <3>1, <3>2, <3>4, <4>1
    <3> QED
      BY <3>3, <3>4
  <2>5. ASSUME NEW i \in 1..Len(log), i > cursor, log[i].op = "insert"
        PROVE  cache'[log[i].key] = 0
    <3>1. cache[log[i].key] = 0 /\ log[i].key \in Keys
      BY <2>1, <2>5, TypeFacts DEF CacheIsBehind, Change
    <3>2. /\ log[Seen + 1].key = f.key /\ Seen + 1 \in 1..Len(log) /\ Seen + 1 < i
      <4>1. Matches(f, log[Seen + 1]) /\ Seen + 1 \in 1..Len(log) /\ Seen + 1 <= cursor
        BY <2>1, FetchedFacts
      <4> QED
        BY <2>3, <2>5, <4>1 DEF Matches
    <3>3. log[i].key # f.key
      BY <2>5, <3>2 DEF LogIsHistory
    <3> QED
      BY <2>2, <3>1, <3>3
  <2> QED
    BY <2>1, <2>4, <2>5 DEF CacheIsBehind
<1> QED
  BY <1>1, <1>2, <1>3, <1>4, <1>5, StepsByKind

(* What the cache must be at a change that has been handled. *)
LEMMA KeepsUpStep ==
  ASSUME TypeOK, LogIsHistory, FetchedInOrder, CacheIsBehind, CacheKeepsUp, [Next]_vars
  PROVE  CacheKeepsUp'
<1> USE DEF HandledOf, Handled
<1>1. CASE UNCHANGED vars
  BY <1>1 DEF vars, CacheKeepsUp
<1>2. ASSUME NEW k \in Keys, Insert(k) \/ Update(k) \/ Delete(k) PROVE CacheKeepsUp'
  <2>1. /\ \A i \in 1..Len(log) : log'[i] = log[i]
        /\ \A j \in Keys : version'[j] \in Nat /\ version[j] <= version'[j]
        /\ deleted \subseteq deleted'
        /\ UNCHANGED <<stage, opened, fetched, cursor, cache>>
    BY <1>2, WritesAdd
  <2>2. ASSUME NEW j \in Keys PROVE cache[j] <= version'[j]
    <3>1. cache[j] <= version[j] /\ cache[j] \in Nat /\ version[j] \in Nat
      BY TypeFacts DEF CacheKeepsUp
    <3> QED
      BY <2>1, <3>1
  <2>3. ASSUME NEW i \in (opened + 1)..(cursor - Len(fetched)) PROVE log'[i] = log[i]
    <3>1. i \in 1..Len(log)
      BY TypeFacts DEF Seen
    <3> QED
      BY <2>1, <3>1
  <2> QED
    BY <2>1, <2>2, <2>3 DEF CacheKeepsUp
<1>3. CASE Opens
  <2>1. UNCHANGED database
    BY <1>3, OpensEffect
  <2>2. ASSUME NEW j \in Keys PROVE cache'[j] <= version[j]
    <3>1. cache[j] <= version[j] /\ cache[j] \in Nat /\ version[j] \in Nat /\ Current(j) <= version[j]
      BY TypeFacts DEF CacheKeepsUp, Current
    <3>2. cache' = cache \/ \E k \in Keys : cache' = [cache EXCEPT ![k] = Current(k)]
      BY <1>3, OpensEffect
    <3>3. cache'[j] \in {cache[j], Current(j)}
      BY <3>2 DEF TypeOK
    <3> QED
      BY <3>1, <3>3
  <2>3. ASSUME NEW j \in Keys PROVE HandledOf(j)' = {}
    <3>1. stage' = "open" => fetched' = <<>> /\ cursor' = Len(log) /\ opened' = Len(log)
      BY <1>3, OpensEffect
    <3>2. Len(<<>>) = 0 /\ Len(log) \in Nat
      BY TypeFacts
    <3>3. Handled' = {}
      BY <3>1, <3>2
    <3> QED
      BY <3>3
  <2> QED
    BY <2>1, <2>2, <2>3 DEF CacheKeepsUp, database
<1>4. CASE Fetch
  <2>1. /\ UNCHANGED <<database, stage, opened, cache>> /\ Seen' = Seen
    BY <1>4, FetchEffect
  <2> QED
    BY <2>1 DEF CacheKeepsUp, Seen, database
<1>5. CASE Handle
  <2> DEFINE f == fetched[1]
             p == Seen + 1
  <2>1. /\ stage = "open" /\ 1 \in 1..Len(fetched) /\ Seen' = Seen + 1
        /\ UNCHANGED <<log, version, deleted, stage, opened, cursor>>
    BY <1>5, HandleEffect DEF database
  <2>2. /\ f.key \in Keys /\ f.full \in Nat /\ f.op \in {"insert", "update", "delete"}
        /\ cache' \in [Keys -> Nat] /\ \A k \in Keys \ {f.key} : cache'[k] = cache[k]
        /\ f.op = "delete" => cache'[f.key] = 0
        /\ f.op # "delete" => cache'[f.key] = IF f.full # 0 THEN f.full ELSE cache[f.key]
        /\ f.op # "delete" => cache[f.key] <= cache'[f.key]
    BY <1>5, HandledCache
  <2>3. /\ Matches(f, log[p]) /\ p \in 1..Len(log) /\ log[p].version \in Nat
        /\ Seen \in Nat /\ opened \in Nat /\ opened <= Seen
    BY <2>1, FetchedFacts, TypeFacts
  <2>4. ASSUME NEW k \in Keys PROVE cache'[k] <= version[k]
    <3>1. cache[k] <= version[k] /\ cache[k] \in Nat /\ version[k] \in Nat
      BY TypeFacts DEF CacheKeepsUp
    <3>2. k = f.key => f.full <= version[k]
      BY <2>3 DEF Matches
    <3>3. cache'[k] \in {cache[k], f.full, 0} /\ (cache'[k] = f.full => k = f.key \/ f.full \in {0, cache[k]})
      BY <2>2
    <3> QED
      BY <2>2, <3>1, <3>2, <3>3
  <2>5. ASSUME NEW k \in Keys, NEW i \in (opened + 1)..(Seen + 1), log[i].key = k
        PROVE  IF log[i].op = "delete" THEN cache'[k] = 0
               ELSE k \in deleted \/ cache'[k] >= log[i].version
    <3>1. CASE i = p
      <4>1. log[i].op = f.op /\ k = f.key
        BY <2>3, <2>5, <3>1 DEF Matches
      <4>2. CASE f.op = "delete"
        BY <2>2, <4>1, <4>2
      <4>3. CASE f.op = "insert"
        <5>1. f.full = 1 /\ log[p].version = 1
          BY <2>3, <3>1, <4>1, <4>3 DEF Matches, LogIsHistory
        <5> QED
          BY <2>2, <3>1, <4>1, <4>3, <5>1
      <4>4. CASE f.op = "update"
        <5>1. f.full >= log[p].version \/ k \in deleted
          BY <2>3, <4>1, <4>4 DEF Matches
        <5>2. 1 <= log[p].version
          BY <2>3 DEF LogIsHistory
        <5> QED
          BY <2>2, <2>3, <3>1, <4>1, <4>4, <5>1, <5>2
      <4> QED
        BY <2>2, <4>2, <4>3, <4>4
    <3>2. CASE i \in (opened + 1)..Seen
      <4>1. i \in HandledOf(k)
        BY <2>1, <2>5, <3>2 DEF Seen
      <4>2. IF log[i].op = "delete" THEN cache[k] = 0
            ELSE k \in deleted \/ cache[k] >= log[i].version
        BY <4>1 DEF CacheKeepsUp
      <4>3. CASE k # f.key
        BY <2>2, <4>2, <4>3
      <4>4. CASE k = f.key
        <5>1. i \in 1..Len(log) /\ i < p /\ log[p].key = k
          BY <2>3, <3>2, <4>4 DEF Matches
        <5>2. log[i].op # "delete" /\ log[i].version \in Nat
          BY <2>3, <2>5, <5>1, TypeFacts DEF LogIsHistory, Change
        <5>3. f.op = "delete" => k \in deleted
          BY <2>3, <5>1 DEF LogIsHistory, Matches
        <5>4. cache[k] \in Nat /\ cache'[k] \in Nat
          BY <2>2, TypeFacts
        <5> QED
          BY <2>2, <4>2, <4>4, <5>2, <5>3, <5>4
      <4> QED
        BY <4>3, <4>4
    <3> QED
      BY <2>3, <3>1, <3>2
  <2>6. \A k \in Keys : HandledOf(k)' = {i \in (opened + 1)..(Seen + 1) : log[i].key = k}
    BY <2>1 DEF Seen
  <2> QED
    BY <2>1, <2>4, <2>5, <2>6 DEF CacheKeepsUp
<1> QED
  BY <1>1, <1>2, <1>3, <1>4, <1>5, StepsByKind

(* What is over stays so. *)
LEMMA OverStays ==
  ASSUME TypeOK, LogIsHistory, FetchedInOrder, [Next]_vars, NEW k \in Keys, IsOver(k)
  PROVE  IsOver(k)'
<1>1. CASE UNCHANGED vars
  BY <1>1 DEF vars, IsOver
<1>2. ASSUME NEW j \in Keys, Insert(j) \/ Update(j) \/ Delete(j) PROVE IsOver(k)'
  <2>1. /\ Len(log') = Len(log) + 1 /\ \A i \in 1..Len(log) : log'[i] = log[i]
        /\ deleted \subseteq deleted' /\ UNCHANGED <<fetched, cursor>> /\ Len(log) \in Nat
    BY <1>2, WritesAdd, TypeFacts
  <2>2. log'[Len(log) + 1].key # k
    <3>1. k \in deleted /\ version[k] >= 1 /\ log'[Len(log) + 1].key = j
          /\ (version[j] = 0 \/ j \notin deleted)
      BY <1>2, CommitEffect DEF LogIsHistory, IsOver
    <3> QED
      BY <3>1
  <2>3. ASSUME NEW i \in 1..(Len(log) + 1), i > cursor PROVE log'[i].key # k
    <3>1. i = Len(log) + 1 \/ i \in 1..Len(log)
      BY <2>1
    <3> QED
      BY <2>1, <2>2, <2>3, <3>1 DEF IsOver
  <2> QED
    BY <2>1, <2>3 DEF IsOver
<1>3. CASE Opens
  <2>1. UNCHANGED database
    BY <1>3, OpensEffect
  <2>2. \/ UNCHANGED <<fetched, cursor>>
        \/ fetched' = <<>> /\ (cursor' = cursor \/ cursor' = Len(log))
    BY <1>3, OpensEffect
  <2>3. Len(<<>>) = 0 /\ Len(log) \in Nat
    BY TypeFacts
  <2> QED
    BY <2>1, <2>2, <2>3 DEF IsOver, database
<1>4. CASE Fetch
  <2> DEFINE n == Len(fetched)
  <2>1. /\ cursor < Len(log) /\ cursor' = cursor + 1 /\ Len(fetched') = n + 1
        /\ \A j \in 1..n : fetched'[j] = fetched[j]
        /\ fetched'[n + 1].key = log[cursor + 1].key /\ UNCHANGED database
    BY <1>4, FetchEffect DEF Matches
  <2>2. n \in Nat /\ cursor \in Nat /\ Len(log) \in Nat /\ cursor + 1 \in 1..Len(log)
        /\ cursor + 1 > cursor
    BY <2>1, TypeFacts
  <2>3. log[cursor + 1].key # k
    BY <2>2 DEF IsOver
  <2>4. ASSUME NEW j \in 1..(n + 1) PROVE fetched'[j].key # k
    <3>1. j = n + 1 \/ j \in 1..n
      BY <2>2
    <3> QED
      BY <2>1, <2>3, <3>1 DEF IsOver
  <2>5. ASSUME NEW i \in 1..Len(log), i > cursor + 1 PROVE log[i].key # k
    BY <2>2, <2>5 DEF IsOver
  <2> QED
    BY <2>1, <2>4, <2>5 DEF IsOver, database
<1>5. CASE Handle
  <2>1. /\ Len(fetched') = Len(fetched) - 1 /\ Len(fetched) \in Nat
        /\ \A j \in 1..Len(fetched') : fetched'[j] = fetched[j + 1]
        /\ UNCHANGED <<database, cursor>>
    BY <1>5, HandleEffect, TypeFacts
  <2>2. ASSUME NEW j \in 1..Len(fetched') PROVE fetched'[j].key # k
    <3>1. j + 1 \in 1..Len(fetched)
      BY <2>1
    <3> QED
      BY <2>1, <3>1 DEF IsOver
  <2> QED
    BY <2>1, <2>2 DEF IsOver, database
<1> QED
  BY <1>1, <1>2, <1>3, <1>4, <1>5, StepsByKind

(* A document whose deletion is being handled is over. *)
LEMMA DeletionIsLast ==
  ASSUME TypeOK, LogIsHistory, FetchedInOrder, Handle, fetched[1].op = "delete",
         NEW k \in Keys, k = fetched[1].key
  PROVE  IsOver(k)'
<1> DEFINE p == Seen + 1
<1>1. /\ 1 \in 1..Len(fetched) /\ Len(fetched') = Len(fetched) - 1
      /\ \A j \in 1..Len(fetched') : fetched'[j] = fetched[j + 1]
      /\ UNCHANGED <<log, deleted, cursor>>
  BY HandleEffect DEF database
<1>2. /\ log[p].op = "delete" /\ log[p].key = k /\ p \in 1..Len(log) /\ p <= cursor
      /\ k \in deleted
  BY <1>1, FetchedFacts DEF Matches, LogIsHistory
<1>3. \A i \in 1..Len(log) : i > p => log[i].key # k
  BY <1>2 DEF LogIsHistory
<1>4. ASSUME NEW j \in 1..Len(fetched') PROVE fetched'[j].key # k
  <2>1. j + 1 \in 1..Len(fetched) /\ Seen + (j + 1) > p /\ fetched'[j] = fetched[j + 1]
    BY <1>1, TypeFacts
  <2>2. Matches(fetched[j + 1], log[Seen + (j + 1)]) /\ Seen + (j + 1) \in 1..Len(log)
    BY <2>1, FetchedFacts
  <2> QED
    BY <1>3, <2>1, <2>2 DEF Matches
<1>5. \A i \in 1..Len(log) : i > cursor => log[i].key # k
  BY <1>2, <1>3, TypeFacts
<1> QED
  BY <1>1, <1>2, <1>4, <1>5 DEF IsOver

LEMMA ReportsStep ==
  ASSUME TypeOK, LogIsHistory, FetchedInOrder, CacheIsBehind, ReportsReachCache, [Next]_vars
  PROVE  ReportsReachCache'
<1>1. ASSUME UNCHANGED reports, NEW i \in 1..Len(reports),
             cache'[reports[i].key] = cache[reports[i].key]
      PROVE  reports'[i].new <= cache'[reports'[i].key] \/ IsOver(reports[i].key)'
  <2>1. PICK k \in Keys : k = reports[i].key
    BY TypeFacts DEF Reported
  <2>2. IsOver(k) => IsOver(k)'
    BY OverStays
  <2>3. reports[i].new <= cache[k] \/ IsOver(k)
    BY <2>1 DEF ReportsReachCache
  <2> QED
    BY <1>1, <2>1, <2>2, <2>3 DEF IsOver
<1>2. CASE UNCHANGED <<reports, cache>> /\ (stage' = "loading" => stage = "loading")
  <2>1. \A i \in 1..Len(reports) : reports'[i].new <= cache'[reports'[i].key]
                                   \/ IsOver(reports[i].key)'
    BY <1>1, <1>2
  <2> QED
    BY <1>2, <2>1 DEF ReportsReachCache, IsOver
<1>3. CASE Opens
  <2>1. CASE UNCHANGED cache
    BY <1>2, <1>3, <2>1, OpensEffect
  <2>2. CASE ~ UNCHANGED cache
    <3>1. UNCHANGED reports /\ reports = <<>>
      BY <1>3, <2>2, OpensEffect DEF ReportsReachCache
    <3> QED
      BY <3>1 DEF ReportsReachCache
  <2> QED
    BY <2>1, <2>2
<1>4. CASE Handle
  <2> DEFINE f == fetched[1]
             n == Len(reports)
  <2>1. /\ f.key \in Keys /\ f.full \in Nat /\ f.op \in {"insert", "update", "delete"}
        /\ cache' \in [Keys -> Nat] /\ \A k \in Keys \ {f.key} : cache'[k] = cache[k]
        /\ f.op # "delete" => cache'[f.key] = IF f.full # 0 THEN f.full ELSE cache[f.key]
        /\ f.op # "delete" => cache[f.key] <= cache'[f.key]
        /\ \/ reports' = reports
           \/ f.op = "update" /\ f.full # 0 /\ reports' = Append(reports, Report(f))
    BY <1>4, HandledCache
  <2>2. stage' = "open" /\ n \in Nat /\ reports \in Seq(Reported)
    BY <1>4, HandleEffect, TypeFacts DEF TypeOK, Reported
  <2>3. ASSUME NEW i \in 1..n, NEW k \in Keys, k = reports[i].key
        PROVE  reports[i].new <= cache'[k] \/ IsOver(k)'
    <3>1. reports[i].new \in Nat /\ cache[k] \in Nat /\ cache'[k] \in Nat
      BY <2>1, TypeFacts DEF Reported
    <3>2. CASE IsOver(k)
      BY <3>2, OverStays
    <3>3. CASE f.key = k /\ f.op = "delete"
      BY <1>4, <3>3, DeletionIsLast
    <3>4. CASE ~ (f.key = k /\ f.op = "delete") /\ ~ IsOver(k)
      <4>1. reports[i].new <= cache[k]
        BY <2>3, <3>4 DEF ReportsReachCache
      <4>2. cache[k] <= cache'[k]
        BY <2>1, <3>1, <3>4
      <4> QED
        BY <3>1, <4>1, <4>2
    <3> QED
      BY <3>2, <3>3, <3>4
  <2>4. CASE reports' = reports
    BY <2>2, <2>3, <2>4, TypeFacts DEF ReportsReachCache, IsOver, Reported
  <2>5. CASE f.op = "update" /\ f.full # 0 /\ reports' = Append(reports, Report(f))
    <3>1. Report(f) \in Reported
      BY <2>1, TypeFacts DEF Report, Reported
    <3>2. Len(reports') = n + 1 /\ (\A i \in 1..n : reports'[i] = reports[i])
          /\ reports'[n + 1] = Report(f)
      BY <2>2, <2>5, <3>1, AppendProperties
    <3>3. reports'[n + 1].new = f.full /\ reports'[n + 1].key = f.key
      BY <3>2 DEF Report
    <3>4. reports'[n + 1].new <= cache'[reports'[n + 1].key]
      BY <2>1, <2>5, <3>3
    <3>5. ASSUME NEW i \in 1..(n + 1), NEW k \in Keys, k = reports'[i].key
          PROVE  reports'[i].new <= cache'[k] \/ IsOver(k)'
      <4>1. i = n + 1 \/ i \in 1..n
        BY <2>2
      <4>2. CASE i \in 1..n
        BY <2>3, <3>2, <3>5, <4>2
      <4> QED
        BY <3>4, <3>5, <4>1, <4>2
    <3>6. ASSUME NEW i \in 1..(n + 1) PROVE reports'[i].key \in Keys
      <4>1. i = n + 1 \/ i \in 1..n
        BY <2>2
      <4> QED
        BY <2>1, <3>2, <3>3, <4>1, TypeFacts DEF Reported
    <3> QED
      BY <2>2, <3>2, <3>5, <3>6 DEF ReportsReachCache, IsOver
  <2> QED
    BY <2>1, <2>4, <2>5
<1>5. CASE UNCHANGED vars \/ Fetch \/ \E k \in Keys : Insert(k) \/ Update(k) \/ Delete(k)
  BY <1>2, <1>5, WritesAdd, FetchEffect DEF vars
<1> QED
  BY <1>3, <1>4, <1>5, StepsByKind

LEMMA ChainedStep ==
  ASSUME TypeOK, LogIsHistory, FetchedInOrder, CacheIsBehind, ReportsReachCache,
         ReportsAreChained, [Next]_vars
  PROVE  ReportsAreChained'
<1>1. CASE UNCHANGED reports
  BY <1>1 DEF ReportsAreChained
<1>2. CASE Handle /\ ~ UNCHANGED reports
  <2> DEFINE f == fetched[1]
             n == Len(reports)
  <2>1. f.key \in Keys /\ f.full \in Nat /\ reports' = Append(reports, Report(f))
    BY <1>2, HandledCache
  <2>2. n \in Nat /\ reports \in Seq(Reported) /\ Report(f) \in Reported
    BY <2>1, TypeFacts DEF TypeOK, Report, Reported
  <2>3. Len(reports') = n + 1 /\ (\A i \in 1..n : reports'[i] = reports[i])
        /\ reports'[n + 1] = Report(f)
    BY <2>1, <2>2, AppendProperties
  <2>4. reports'[n + 1].key = f.key /\ reports'[n + 1].old = cache[f.key]
    BY <2>3 DEF Report
  <2>5. ~ IsOver(f.key)
    BY <1>2, HandleEffect DEF IsOver
  <2>6. ASSUME NEW i \in 1..n, reports[i].key = f.key
        PROVE  reports[i].new <= cache[f.key]
    BY <2>5, <2>6 DEF ReportsReachCache
  <2>7. ASSUME NEW i \in 1..(n + 1), NEW j \in 1..(n + 1), i < j,
               reports'[i].key = reports'[j].key
        PROVE  reports'[i].new <= reports'[j].old
    <3>1. i \in 1..n /\ (j = n + 1 \/ j \in 1..n)
      BY <2>2, <2>7
    <3>2. CASE j = n + 1
      BY <2>3, <2>4, <2>6, <2>7, <3>1, <3>2
    <3>3. CASE j \in 1..n
      BY <2>3, <2>7, <3>1, <3>3 DEF ReportsAreChained
    <3> QED
      BY <3>1, <3>2, <3>3
  <2> QED
    BY <2>3, <2>7 DEF ReportsAreChained
<1> QED
  BY <1>1, <1>2, WritesAdd, OpensEffect, FetchEffect, StepsByKind DEF vars

------------------------------------------------------------------------------
LEMMA InitIInv == Init => IInv
<1> SUFFICES ASSUME Init PROVE IInv
  OBVIOUS
<1>1. /\ version \in [Keys -> 0..1] /\ deleted = {} /\ log = <<>> /\ stage = "loading"
      /\ loading = Collected /\ opened = 0 /\ fetched = <<>> /\ cursor = 0
      /\ cache = [k \in Keys |-> 0] /\ reports = <<>> /\ told = {} /\ errors = 0
  BY DEF Init
<1>2. version \in [Keys -> Nat]
  BY <1>1
<1>3. Len(<<>>) = 0 /\ \A S : <<>> \in Seq(S)
  OBVIOUS
<1>4. TypeOK
  BY <1>1, <1>2, <1>3, ChangeStreamAssumption DEF TypeOK
<1>5. LogIsHistory /\ FetchedInOrder /\ CacheIsBehind /\ ReportsReachCache /\ ReportsAreChained
  BY <1>1, <1>3 DEF LogIsHistory, FetchedInOrder, CacheIsBehind, ReportsReachCache,
                    ReportsAreChained
<1>6. CacheKeepsUp
  <2>1. ASSUME NEW k \in Keys PROVE cache[k] <= version[k]
    <3>1. cache[k] = 0 /\ version[k] \in Nat
      BY <1>1, <1>2
    <3> QED
      BY <3>1
  <2>2. Handled = {}
    BY <1>1 DEF Handled
  <2>3. \A k \in Keys : HandledOf(k) = {}
    BY <2>2 DEF HandledOf
  <2> QED
    BY <2>1, <2>3 DEF CacheKeepsUp
<1> QED
  BY <1>4, <1>5, <1>6 DEF IInv

LEMMA NextIInv == IInv /\ [Next]_vars => IInv'
BY TypeStep, LogStep, FetchedStep, CacheStep, ReportsStep, KeepsUpStep, ChainedStep DEF IInv

LEMMA Invariance == Spec => []IInv
BY InitIInv, NextIInv, PTL DEF Spec

(* Every variable keeps its type; the fetched changes fit between the      *)
(* place the stream was opened at and how far MongoDB has sent the log.    *)
THEOREM TypeCorrect == Spec => []TypeOK
<1>1. IInv => TypeOK
  BY DEF IInv
<1> QED
  BY <1>1, Invariance, PTL

(***************************************************************************)
(* The cache holds no document the database never had, and for each change *)
(* the open stream has handled it holds that change or a later one, or,    *)
(* after a deletion, nothing.                                              *)
(***************************************************************************)
THEOREM CacheFollows == Spec => []CacheKeepsUp
<1>1. IInv => CacheKeepsUp
  BY DEF IInv
<1> QED
  BY <1>1, Invariance, PTL

(***************************************************************************)
(* Each report of a document begins where the report before it ended, or   *)
(* later: no part of its history is told twice, whatever lookup ran ahead  *)
(* of the changes and however often the stream was closed between them.    *)
(***************************************************************************)
THEOREM NothingToldTwice == Spec => []ReportsAreChained
<1>1. IInv => ReportsAreChained
  BY DEF IInv
<1> QED
  BY <1>1, Invariance, PTL
==============================================================================
