----------------------------- MODULE ChangeStream -----------------------------
(***************************************************************************)
(* MongoChangeStreamManager (api-gateway): a cache of the documents of the *)
(* database, kept by a MongoDB change stream, from which each update is    *)
(* reported with the document before it.                                   *)
(*                                                                         *)
(* A document is known by its versions: 1 when inserted, one more at each  *)
(* update.  Its key is an ObjectId: deleted, it does not come back.  The   *)
(* database belongs to everyone: its writes are the environment.  They are *)
(* inserts, updates and deletes: the services of the repository make no    *)
(* other change of a document.  0 is "no document".                        *)
(***************************************************************************)
EXTENDS Naturals, Sequences

CONSTANTS
  Keys,       \* the documents
  Collected,  \* those of the collections initializeCache reads
  MaxWrites,  \* bound: writes to the database
  MaxErrors   \* bound: errors of MongoDB

ASSUME ChangeStreamAssumption ==
  /\ Collected \subseteq Keys
  /\ MaxWrites \in Nat
  /\ MaxErrors \in Nat

VARIABLES
  version,   \* the version of each document; 0 before its insertion
  deleted,   \* the documents deleted
  log,       \* the changes, in the order of their commits (the oplog)
  stage,     \* "loading", "opening", "open", or "waiting" to open again
  loading,   \* the documents initializeCache has yet to read
  opened,    \* the length of the log when the stream was opened
  fetched,   \* the changes sent by MongoDB and not handled yet
  cursor,    \* how much of the log MongoDB has sent
  cache,     \* documentCache
  reports,   \* history: the updates processMongoChange reported
  told,      \* history: the deletions told, with the document before
  errors     \* errors so far

database == <<version, deleted, log>>
stream == <<stage, loading, opened, fetched, cursor, errors>>
vars == <<version, deleted, log, stage, loading, opened, fetched, cursor, cache,
          reports, told, errors>>

Current(k) == IF k \in deleted THEN 0 ELSE version[k]

Init ==
  /\ version \in [Keys -> 0..1]
  /\ deleted = {}
  /\ log = <<>>
  /\ stage = "loading"
  /\ loading = Collected
  /\ opened = 0
  /\ fetched = <<>>
  /\ cursor = 0
  /\ cache = [k \in Keys |-> 0]
  /\ reports = <<>>
  /\ told = {}
  /\ errors = 0

------------------------------------------------------------------------------
(* The database: any service, any time. *)
Commit(op, k) ==
  /\ Len(log) < MaxWrites
  /\ log' = Append(log, [op |-> op, key |-> k, version |-> version'[k]])
  /\ UNCHANGED <<stream, cache, reports, told>>

Insert(k) ==
  /\ version[k] = 0
  /\ version' = [version EXCEPT ![k] = 1]
  /\ UNCHANGED deleted
  /\ Commit("insert", k)

Update(k) ==
  /\ Current(k) # 0
  /\ version' = [version EXCEPT ![k] = @ + 1]
  /\ UNCHANGED deleted
  /\ Commit("update", k)

Delete(k) ==
  /\ Current(k) # 0
  /\ deleted' = deleted \union {k}
  /\ UNCHANGED version
  /\ Commit("delete", k)

------------------------------------------------------------------------------
(* initializeCache reads the collections, then the stream is opened. *)
Load(k) ==
  /\ stage = "loading"
  /\ k \in loading
  /\ cache' = [cache EXCEPT ![k] = Current(k)]
  /\ loading' = loading \ {k}
  /\ UNCHANGED <<database, stage, opened, fetched, cursor, reports, told, errors>>

(* An error is logged, and the collections not read yet are left out. *)
Loaded ==
  /\ stage = "loading"
  /\ \/ loading = {} /\ UNCHANGED errors
     \/ loading # {} /\ errors < MaxErrors /\ errors' = errors + 1
  /\ loading' = {}
  /\ stage' = "opening"
  /\ UNCHANGED <<database, opened, fetched, cursor, cache, reports, told>>

(* Mutant of Open: the stream is resumed from where it was first opened. *)
OpenFromStart ==
  /\ stage = "opening"
  /\ stage' = "open"
  /\ UNCHANGED opened
  /\ cursor' = opened
  /\ fetched' = <<>>
  /\ UNCHANGED <<database, loading, cache, reports, told, errors>>

(* Without a resume token a stream begins at the moment it is opened. *)
Open ==
  /\ stage = "opening"
  /\ stage' = "open"
  /\ opened' = Len(log)
  /\ cursor' = Len(log)
  /\ fetched' = <<>>
  /\ UNCHANGED <<database, loading, cache, reports, told, errors>>

(* Mutant of StreamFails: the error is logged and no timer is set. *)
StreamFailsForGood ==
  /\ stage \in {"opening", "open"}
  /\ errors < MaxErrors
  /\ errors' = errors + 1
  /\ stage' = "closed"
  /\ fetched' = <<>>
  /\ UNCHANGED <<database, loading, opened, cursor, cache, reports, told>>

(***************************************************************************)
(* An error the driver does not recover from closes the stream.  What it   *)
(* had fetched is lost, and so is what happens until it is open again.     *)
(***************************************************************************)
StreamFails ==
  /\ stage \in {"opening", "open"}
  /\ errors < MaxErrors
  /\ errors' = errors + 1
  /\ stage' = "waiting"
  /\ fetched' = <<>>
  /\ UNCHANGED <<database, loading, opened, cursor, cache, reports, told>>

(* setTimeout(() => this.initChangeStream(), 5000) *)
Reconnect ==
  /\ stage = "waiting"
  /\ stage' = "opening"
  /\ UNCHANGED <<database, loading, opened, fetched, cursor, cache, reports, told,
                 errors>>

------------------------------------------------------------------------------
(***************************************************************************)
(* MongoDB sends the next change.  The fullDocument of an insertion is the *)
(* document inserted; that of an update is looked up now ("updateLookup"): *)
(* it may be newer than the change, or be gone.                            *)
(***************************************************************************)
FullDocument(change) ==
  CASE change.op = "insert" -> 1
    [] change.op = "update" -> Current(change.key)
    [] change.op = "delete" -> 0

Fetch ==
  /\ stage = "open"
  /\ cursor < Len(log)
  /\ cursor' = cursor + 1
  /\ LET change == log[cursor + 1]
     IN  fetched' = Append(fetched, [op |-> change.op, key |-> change.key,
                                     full |-> FullDocument(change)])
  /\ UNCHANGED <<database, stage, loading, opened, cache, reports, told, errors>>

(* Mutant of Remember: the new document is not put into the cache. *)
Forget(change) == UNCHANGED cache

(* if (change.fullDocument) this.documentCache.set(cacheKey, ...) *)
Remember(change) ==
  cache' = IF change.full # 0 THEN [cache EXCEPT ![change.key] = change.full]
                              ELSE cache

HandleInsert(change) ==
  /\ change.op = "insert"
  /\ Remember(change)
  /\ UNCHANGED <<reports, told>>

Report(change) ==
  [key |-> change.key, old |-> cache[change.key], new |-> change.full]

(***************************************************************************)
(* prevDocument is the cached document or {}, an empty document, and so    *)
(* never missing: processMongoChange reports every update that comes with  *)
(* a fullDocument.  (What it reports of the fields: EntityChange.)         *)
(***************************************************************************)
HandleUpdate(change) ==
  /\ change.op = "update"
  /\ Remember(change)
  /\ reports' = IF change.full = 0 THEN reports ELSE Append(reports, Report(change))
  /\ UNCHANGED told

(* A deletion is told, and the document forgotten, if it is in the cache. *)
HandleDelete(change) ==
  /\ change.op = "delete"
  /\ IF cache[change.key] # 0
     THEN /\ told' = told \union {[key |-> change.key, old |-> cache[change.key]]}
          /\ cache' = [cache EXCEPT ![change.key] = 0]
     ELSE UNCHANGED <<told, cache>>
  /\ UNCHANGED reports

Handle ==
  /\ stage = "open"
  /\ fetched # <<>>
  /\ LET change == Head(fetched)
     IN  HandleInsert(change) \/ HandleUpdate(change) \/ HandleDelete(change)
  /\ fetched' = Tail(fetched)
  /\ UNCHANGED <<database, stage, loading, opened, cursor, errors>>

------------------------------------------------------------------------------
Next ==
  \/ \E k \in Keys : Insert(k) \/ Update(k) \/ Delete(k) \/ Load(k)
  \/ Loaded \/ Open \/ StreamFails \/ Reconnect \/ Fetch \/ Handle

(* The event loop, its timer and the driver go on; nobody has to write. *)
Fairness ==
  /\ \A k \in Keys : WF_vars(Load(k))
  /\ WF_vars(Loaded)
  /\ WF_vars(Open)
  /\ WF_vars(Reconnect)
  /\ WF_vars(Fetch)
  /\ WF_vars(Handle)

Spec == Init /\ [][Next]_vars /\ Fairness

------------------------------------------------------------------------------
Change == [op : {"insert", "update", "delete"}, key : Keys, version : Nat]

TypeOK ==
  /\ version \in [Keys -> Nat]
  /\ deleted \subseteq Keys
  /\ log \in Seq(Change)
  /\ stage \in {"loading", "opening", "open", "waiting"}
  /\ loading \subseteq Collected
  /\ opened \in 0..cursor
  /\ cursor \in 0..Len(log)
  /\ fetched \in Seq([op : {"insert", "update", "delete"}, key : Keys, full : Nat])
  /\ Len(fetched) <= cursor - opened
  /\ cache \in [Keys -> Nat]
  /\ reports \in Seq([key : Keys, old : Nat, new : Nat])
  /\ told \subseteq [key : Keys, old : Nat]
  /\ errors \in 0..MaxErrors

(* The changes an open stream has handled, by their places in the log. *)
Handled == IF stage = "open" THEN (opened + 1)..(cursor - Len(fetched)) ELSE {}

HandledOf(k) == {i \in Handled : log[i].key = k}

(***************************************************************************)
(* However far the lookups run ahead of the changes, the cache holds no    *)
(* document the database never had; once a change of a document has been   *)
(* handled, it holds that change or a later one; and a document whose      *)
(* deletion has been handled is not in it.  So a stream that has caught up *)
(* agrees with the database on all it has heard of.                        *)
(***************************************************************************)
CacheKeepsUp ==
  \A k \in Keys :
    /\ cache[k] <= version[k]
    /\ \A i \in HandledOf(k) :
         IF log[i].op = "delete" THEN cache[k] = 0
         ELSE k \in deleted \/ cache[k] >= log[i].version

(***************************************************************************)
(* The reports of a document are told in the order of its versions, each   *)
(* starting where the one before it ended or later: nothing that happened  *)
(* to it is reported twice, across lost connections too.                   *)
(***************************************************************************)
ReportsAreChained ==
  \A i, j \in 1..Len(reports) :
    i < j /\ reports[i].key = reports[j].key => reports[i].new <= reports[j].old

(* Whatever fails, the stream is open again in the end. *)
StreamRecovers == stage # "open" ~> stage = "open"

(***************************************************************************)
(* A comment of processMongoChange: "Only process updates with previous    *)
(* documents available".                                                   *)
(***************************************************************************)
PreviousIsAvailable == \A i \in 1..Len(reports) : reports[i].old # 0
==============================================================================
