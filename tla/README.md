# Formal models of the bank-reconciliation services

TLA+ models of the NestJS services in `src/`, checked with TLC and, where the
theorem is worth it, proved with TLAPS. Paths below are relative to `src/`
inside the repository (`src/apps/...`).

## 1. Inventory

Four processes share a MongoDB replica set and a Redis instance. They call each
other over TCP with NestJS's `send` (request and reply, with an rxjs `timeout`
at the caller only) and `emit` (no reply, at most once).

| Component | State | Operations | Talks to |
|---|---|---|---|
| **API gateway**, file upload (`apps/api-gateway/.../file-upload`) | none | upload, status, history | file processing, `send`, 30 s / 10 s |
| **File processing**, service (`file-processing.service.ts`) | GridFS files, `fileprocessings` documents, Bull queue `file-processing` | `processTransactionFile`, status and history queries | GridFS, MongoDB, Redis; `emit` to notification |
| **File processing**, processor (`file-processing.processor.ts`) | the loop's counters and error list; one job at a time | `processFile`, the CSV and the Excel loop, `processBatch`, `updateFileStatus` | transaction service, `send`, 45 s; `emit` to notification |
| **Transaction service** (`apps/transaction-service`) | `transactions` collection | `createTransactions`, `createTransaction`, queries | MongoDB |
| **Notification service** (`notification.service.ts`) | a Map of records and counters in memory; Bull queues | five event handlers, `sendNotification`, `processNotification` | Redis, the realtime gateway |
| **Realtime gateways** (two copies) | socket ids of each user, rooms | connect, disconnect, join, leave, send | clients; JWT check on connect |
| **Change stream** (`services/mongo`) | a cache of the last version of each document | insert, update, delete, reconnect | MongoDB; local events |
| **Entity change service** | none | comparison of documents and of arrays, one event per difference | local events |
| **Auth and sessions** (gateway) | `sessions`, tokens | login, refresh, logout, revoke, password reset | MongoDB |
| **Users, roles, permissions** (gateway) | `users`, `roles`, Redis cache | create, update, assign, delete, check | MongoDB, Redis |
| **Base repository and service** | none | CRUD in a transaction, soft deletion, pagination | MongoDB |
| Mail, health, seeders, swagger, bootstrap, DTOs, transformers | none | I/O and wiring | |

What is hard, and what makes each part correct:

- **Import of a file.** The caller's timeout does not cancel a batch; one batch
  fails and the loop goes on; the same job runs again after a failure or after
  Bull believes its worker dead. Correct means: a row is stored at most once by
  an attempt, a row counted as successful is stored, no row disappears from the
  report, and duplicates stay within the runs the queue allows.
- **Status of an upload.** Status writes race with their own timeout, with each
  other (two transactions on one document conflict) and with the end of the job;
  their failure is swallowed. Correct means: a status or an event never tells of
  an outcome that did not happen, and the final one stays.
- **Request.** File, document and job are three systems written one after the
  other, the gateway gives up after 30 s. Correct means: what was accepted is
  whole, the request is answered, the job ends.
- **Notifications.** Records in memory, jobs in Redis, two counts of the same
  attempts, a retry that repeats channels that succeeded. Correct means: bounded
  repetition, the order of events of one priority, counters that can be explained.
- **Change stream.** Lookups run ahead of the changes, a connection is lost and what
  happens meanwhile is never seen. Correct means: the cache never goes back, nothing is
  reported twice, the events suffice to follow a document.
- **Sessions and users.** Every request checks something, awaits and then writes; two
  requests read a whole document and write it back. Correct means: a revoked session
  stays revoked and opens no others, a confirmed change is lost only to such a
  request, two users never share an address, a user and its profile come and go together.
- **Realtime.** A socket may close, and its session be revoked, while its token is
  checked; messages are served meanwhile. Correct means: a notification for a user
  reaches each of the user's open and checked sockets once and no other, and a failed check
  costs the socket, not the process.
- **Roles and seeders.** Instances seed one database together, find and then create,
  crash in between; the guard reads roles and permissions at different moments. Correct
  means: the seeding is whole when an instance serves, everyone comes up, nobody is
  let in who was allowed at no moment.
- **Lists.** Counting and reading are two queries, and pages follow each other while the
  collection changes; a query is a small language. Correct means: the client sees each
  document that is due, once, nothing else, and comes to an end.

The hazards, each at its line and with the properties that watch it, are listed
in `PROJECT.json`.

## 2. Modules

| Module | Subject |
|---|---|
| `BatchImport` | one attempt over the rows of one file: both batch loops, the call, the transaction service's insertion |
| `ImportContract` | what an attempt promises of the `transactions` collection; `BatchImport` implements it |
| `BatchImportProofs` | theorems about `BatchImport` |
| `MCBatchImport` | files and bounds for TLC |
| `UploadPipeline` | one upload: gateway, service, GridFS, status document, Bull job, processor, status writes |
| `UploadPipelineProofs` | theorems about `UploadPipeline` |
| `MCUploadPipeline` | fault environments and bounds for TLC |
| `Notification` | the notification service over Bull |
| `NotificationProofs` | theorems about `Notification` |
| `MCNotification` | bounds for TLC |
| `ChangeStream` | the document cache kept by MongoDB's change stream |
| `ChangeStreamProofs` | theorems about `ChangeStream` |
| `MCChangeStream` | bounds for TLC |
| `EntityChange` | the comparison of two versions of a document and the events told of it |
| `EntityChangeProofs` | theorems about `EntityChange` |
| `MCEntityChange` | the documents TLC compares |
| `Accounts` | users, profiles, sessions and tokens: the requests of auth, session and user |
| `Realtime` | the socket gateway: token check, socket map, rooms |
| `Gateway` | `Accounts` and `Realtime` composed: one process, one database |
| `GatewayProofs` | theorems about the requests of `Gateway` |
| `SocketProofs` | theorems about the sockets of `Gateway`, resting on those |
| `MCGateway` | groups of requests and bounds for TLC |
| `Search` | what a list query selects (`queryHandle.ts`) |
| `Listing` | a client that reads a list page by page |
| `Roles` | seeders, roles, the permission guard; the collection that `Listing` reads |
| `RolesProofs` | theorems about `Roles` and `Listing` |
| `MCRoles` | roles, texts and queries for TLC |

`Gateway` EXTENDS `Accounts` and `Realtime`; `Roles` EXTENDS `Listing`, which EXTENDS
`Search`.

### BatchImport

`file` is the sequence of the data rows, each `"valid"`, `"unparsable"`
(`parseTransactionRow` throws) or `"unstorable"` (it passes, with an empty content
that the schema refuses); every choice of rows is an initial state. `start` is
`i` or `startRow`, `processed`, `successful` and `errors` are `processedRecords`,
`successfulRecords` and `allErrors`. Rows keep their numbers: the Excel loop
counts the header row (`Header`), so its first batch has one data row less.
(The branch for a first chunk without data rows needs a batch size of one and is
dead with the code's 500; `BatchImportAssumption` excludes it.)

The two loops are one module because they share `processBatch` and differ in
three places, written as such: the header, when progress is due (`ProgressDue`: the
CSV loop tests its loop variable, the Excel loop `processedRecords`), and what a failed batch
adds to `processed` (`CatchBatch`). The loop body is cut where it awaits:
`Send`, then `BatchDone`, `BatchFailed` or `BatchTimeout`, then `Progress` or
`ProgressFailed`. The last one shows a detail of the code: `job.progress` is
awaited inside the `try`, after the batch was counted, so its failure counts the
batch again and adds an error for it.

`pending` is what the transaction service holds. `Commit` and `Abort` may happen
at any time after `Send`; they answer only the call that is still awaited. A commit
may be reported as an error (`executeWithTransaction` aborts and rethrows when
`commitTransaction` throws) or not at all (the connection is gone).

Histories: `counted`, the rows behind `successfulRecords`, and `copies`, the
documents of each row.

### UploadPipeline

A batch is one thing here, stored or not, because `BatchImport` tells how. The
module adds what happens around it. `service` walks through
`processTransactionFile` one awaited call at a time (`UploadFile` and `DeleteFile` are
GridFS, either of which may fail after it was done); `job`, `attempts`, `stalls`
and `lock` are Bull's view of the job; `worker` walks through `processFile`.

A status write is a member of `writes` from the moment the code begins it until
MongoDB has applied (`Apply`) or refused it (`Discard`). `updateFileStatus` waits for
it, or for 30 s (`Awaited`): a write that is overdue stays in `writes` and may be applied later, by
then over a newer status. `Discard` includes WriteConflict: two writes in progress
at once may cost one of them. The Excel progress write is left in `writes`
without waiting at all (`Reported`).

Bull: a throw leads to `delayed` and back to `waiting`, up to `Attempts`. `Stalled`
gives an active job to another run when its lock is gone: the process ended, or its event
loop was blocked (`"stall"`), and then the first run goes on and its result no
longer counts. After `MaxStalls` Bull fails the job without its processor.
`Crash` ends the process: the handler and the run stop where they are, each write in progress
is either with MongoDB or lost.

`faults` selects which failures a behaviour may contain, so that properties which
need a quiet environment say so, and TLC can check a few combinations instead of
all.

### Notification

`status` and `tries` are the record in the Map, `job` and `attempts` the Bull job;
a restart empties the first and keeps the second. `Begin` takes the head of the
wait list, counts the try and hands the notification to the socket gateway; `Retry` and
`Sent` are the two ends of `processNotification`. `Insert` is Bull's insertion of a job with a priority.

An email is never sent in the code as it is: `sendEmailNotification` looks its
template up by `NotificationType` (`file_processing`) in a table keyed by event
names (`file_processing_completed`). So `MustReject` holds for every notification with
an email channel, its three attempts all happen, the socket gateway is handed it three times, and the
last attempt marks it SENT.

### ChangeStream

The database is the environment: `Insert`, `Update` and `Delete` by anyone, in the
order of `log`. A document is its number of versions, because only what is newer than what
matters. `Load` and `Loaded` are `initializeCache` (its `catch` leaves the rest
unread), `Open` is `watch`, `StreamFails` and `Reconnect` the error and its timer.
MongoDB sends a change with `Fetch`, which looks the document up for an update,
and the callback handles it later (`Handle`). A stream starts at the end of the log
as it is then (`opened`): what happened while it was closed is not seen.

### EntityChange

`EmitChangeEvents(old, new)` is the sequence of events the service emits for an
update, from the operators that model each comparison. Two histories, `view` and `items`, belong
to a listener that starts with the document and then hears the events only. It is not in the
code (`UserListener` only logs); it makes precise what the events are good for.
`ChangeStream` provides the two documents. `compareArrays` filters one array by the other: `Missing` and
the listener's `Told` are recursive functions, which both TLC and the proofs can unfold.
`EntityChangeAssumption` states what every Mongoose document is: a function from finitely many fields, whose
arrays are sequences, subdocuments with distinct `_id`s.

### Accounts

A request is a member of `Calls`, made once; `call[c]` is where it is between two awaits
and what it has read (`user`, `token`, `doc`). A document's fields hold the id of the
request that set them, and `last` the id of the last request that meant to, so that
"the change was lost" is `users[u][f] # last[u][f]`. The phone number and the user
name, unique like the address, stand under `Emails`; `createUser` draws names until one is
free. `createUser` and `permanentlyDelete` are atomic where `executeWithTransaction`
makes them so. `Fail` ends a request at any await.

- `updateUser`, `updatePassword` and `assignRoles` write the fields they change. `forgotPassword`
  and `resetPassword` write back the document they read; `WriteReset` sets the two token fields to
  `undefined`, which are left out of `$set`: the reset token stays in the document, and is
  good until it expires.
- A token is its user and the second it was signed in (`Token`), as nothing else is in its
  payload: two logins of one second share it. The session and its `iat` are one step.
  `Refresh` opens a new session and leaves the old one. `expires_at` is made of
  the access token's life, so a session is not live any longer than that, whatever the refresh
  token says; and the other way round `.env.example` has `JWT_REFRESH_EXPIRATION=6M`, with the
  comment "6 months", which the parser of `jsonwebtoken` takes for six minutes.
  Either life may be the shorter one in the model (`AccessLife`, `RefreshLife`).
- Requests that are refused before they change anything are not steps; the
  answer of the permission guard is left open here (`Roles` models it).
- `RemoveUser` leaves the user's sessions. The TTL index removes expired sessions only, which
  `Live` does not find anyway.

### Realtime

`socket[k].at` is where `handleConnection` is with the token of `k`: at the query for the
session, at the one for the user, or past them. `Disconnect`, `Join` and `Leave` happen at any
time, since the handlers are registered before the check ends. `early` and `live`
are histories: closed while it was checked; its session was live when it connected.
`userSocketMap` counts the places a socket has in a user's list: the map that the API gateway keeps
"for later use" and sends nothing by, since only the notification service's copy has
`sendNotificationToUser`.

The two copies differ in the guard. The API gateway's (`FindSession`, `FindUser`)
takes the answer `{data: null}` of `findById` for a user. The notification service's
answers with the payload of the token, which has no `data`. In both cases
`client.data.user.id` throws outside of any `try` (`EndProcess`), and Docker starts
the process again with an empty map. So the map of the notification service is always empty, and what
`Notification` counts as delivered is handed to a gateway that knows no socket.

Messages to rooms and broadcasts change no state. `sendEntityEvent` and `RealtimeService` are called by nothing.

### Gateway

One process serves both, and both read one database: `Handshake`, `FindSession` and `FindUser`
get what the queries find (`Dated`, `Live`, `Exists`) from `Accounts`. When a socket ends
the API gateway's process, the requests under way end with it (`Restarted`).

### Roles

`inst[i]` is an instance in `onModuleInit` of the three seeders, one database call per action;
several instances are what a rolling start gives. A collision with a unique index ends the process
(`Down`), and it is started again. The two lookups of `seedSuperAdmin` are one step.
`createUser` gives the `super_admin` role to every user it creates, the seeded one included.

`roles` has the permissions of a role, or `None` where there is no role, which is therefore
assumed to be no set of permissions. Roles are known by their names: a role that is deleted and created again
under its name is, in the model, the same document that went and came back.

`CreateRole` and `UpdateRole` look permissions up with a query that is paged, first page only
(`FirstPages`): with the code's 18 permissions and pages of 10, `createRole` refuses more than ten
and `updateRole` stores ten of them without a word.

`check` is a request in the guard: `JwtStrategy` loads the user, the guard
reads it once more and populates the roles. `moments` collects the answers the
question would have had at each moment since. The cache in front of these reads lives a
millisecond and is left out.

### Search and Listing

`Matches(q, d)` is what `buildQueryCondition` and `findAll` together select: the operator of
each term, `searchJoin`, `searchDate`, `searchNull`, and `deleted_at: null`. Texts are abstract: `Texts` orders
them, `Within` and `Words` say which is found in which, `Reads` what becomes of a
value (`"007"` is read as `7`, `"null"` as null). A field that is not in a document (`Absent`) differs from one
that is null for `exist` and `notexist` only (`Held`): `deleted_at` is stored as null, the display name of a
role that a user created is not stored. Dates are texts among the others, and are compared with dates only. Four kinds of queries do not mean what they
say (`Surprising`): values that are read as something else; `between` with an open end, whose
`-Infinity` or `Infinity` is a text once the field is one; a `searchDate` whose end is a day, of which only the
start is taken, so that the day itself is left out; and
`searchNull=deleted_at:not` alone, which `swagger.decorator.ts` documents and `findAll` overrides.

`walk` is a client that follows `next` links. `CountDocuments` and `FindDocuments` are sent
together and may be served in either order. `limit=0` arrives as the string `"0"`,
which is true in one place and zero in another: `skip` is 0 on every page, the page reported is
the first and the link never ends. `Inserting` and `Removing` are called by the actions of `Roles` that
change the collection; `inserted`, `removed` and `stayed` are the histories they keep.

A page is a set of documents: those selected whose `Place` in the `Line` falls into the page. The order of
documents on a page tells the properties nothing. The `Line` is the order of names if the list is
`Arranged`: if clients ask for it with `orderBy`, or if the condition is on the name, since
`findAll` gives MongoDB no sort of its own and MongoDB then reads the unique index of `role.entity.ts`
(`UsesIndex`). A search joined by `or` can use the index only if all of its terms are on the name; a term joined by
`and`, or `searchNull`, is enough alone. Every operator the code has can be answered from the index, `exist`,
`!=` and the regular expressions included, and MongoDB reads the whole collection only when it has no index to use. Any other list comes
in the order of the collection, in which a role is inserted at the end.

## 3. Runs

| Run | Module, cfg | Question | Result |
|---|---|---|---|
| `batch_import` | `MCBatchImport` | is one attempt consistent with the database and with what it reports? | pass |
| `batch_totals` | `MCBatchImportTotals.cfg` | do the counts of the status add up? | violated |
| `upload_pipeline` | `MCUploadPipeline` | is an upload whole, honest and finite under faults? | pass |
| `upload_status` | `MCUploadPipelineStatus.cfg` | does COMPLETED stay? | violated |
| `upload_given_up` | `MCUploadPipelineGivenUp.cfg` | is a job that Bull gives up handled? | violated |
| `change_stream` | `MCChangeStream` | does the cache follow the database, are updates reported once? | pass |
| `change_previous` | `MCChangeStreamPrevious.cfg` | is an update processed only with its previous document? | violated |
| `entity_change` | `MCEntityChange` | do the events tell all and nothing else? | pass |
| `notification` | `MCNotification` | how often is a notification delivered, in which order, how does it end? | pass |
| `gateway` | `MCGateway` | what do concurrent requests and sockets lose, reach and end? | pass |
| `realtime_stored` | `MCGatewayStored.cfg` | is a good connection stored? | violated |
| `roles` | `MCRoles` | is the seeding whole, the guard right, a list read? | pass |

**batch_import.** `StoredAtMostOnce`, `SuccessIsStored`, `NoRowUnaccounted`,
`UncountedRowsAreInDoubt`, `BooksAtReturn`, the refinement `ImplementsContract`
and the liveness `AttemptEnds`. Batches of two rows and files of up to five: three batches, with a
short last one, for CSV and for Excel; a batch given up during the first may commit
during the second, the third, or after the end. `MaxErrors` = 3 is reached,
with and without a slice of row errors. Every assignment of the three kinds to the rows is an
initial state.

**batch_totals.** A finding: `processedRecords` is not `successfulRecords` +
`failedRecords`, because a failed batch is one error and many processed rows.

**upload_pipeline.** Two batches, two attempts (three in the code; two give the same
transitions: a first, a repeated and a last failure), one stall allowed as in the code, one crash,
at most one overdue batch and one overdue write. Three environments: only
calls fail; everything fails but nothing crashes or stalls; crashes, stalls and slow answers.
`AcceptedUploadIsWhole`, `DuplicatesAreBounded`, `OutcomeHappened`, `StatusTellsOutcome`
(CSV without infrastructure faults), `RequestIsAnswered`, `JobSettles`.

**upload_status.** A finding, with no fault: Excel's last PROCESSING write lands after COMPLETED.

**upload_given_up.** A finding: two crashes, and the job is failed in Redis while the
document stays PENDING; nothing listens to Bull's `failed` event and no dead letter queue exists.

**notification.** Two notifications of any two events with three
attempts, a stall and two crashes. `DeliveryIsBounded`, `DeliveredInOrder`, `JobsSettle`. `FailureIsNeverFinal` states something the code's status names hide:
FAILED is only ever an intermediate status. `PendingIsShortByFailures` states how
far `totalPending` is from the number of pending records: by one for each failed attempt.

**change_stream.** Two documents, one of them in a collection that is read at the start; four writes
and two errors: enough for a document to be inserted, updated and deleted with a lost
connection between any two of these, and for the second document to be changed in a gap. `CacheKeepsUp`,
`ReportsAreChained` and the liveness `StreamRecovers`.

**change_previous.** A finding, without any error: a document inserted between
the initial read and the opening of the stream is not cached; its first
update is compared with `{}`.

**entity_change.** Documents with or without a name (two values), tags (repeated ones
too) and teams (up to two objects with different `_id`s, in both orders, one of them with two contents): every
pair of them is a step. `FieldEventsTellAll` and `ItemEventsTellAll`. The order of an array and repeated tags are not told by item events.

**gateway.** Three requests of one group of kinds, the groups chosen so that the kinds in
each touch the same documents (`MCScenarios`), and in one group two requests and two
sockets. `LostUpdateNeedsOverlap` names the two requests that can undo a confirmed change, and
that only one that overlaps it can. `RevocationReaches` names what escapes a revocation: sessions
opened after it, refreshes past their check, and a session that shares the token. `AccountsAreWhole`,
`NoSessionForTheGone`, `OnlineIsStored`, `StaleEntriesAreLateChecks`, `StoredWasAuthentic`,
`EndsOnlyForTheGone`. Requests are interchangeable, and so are sockets: the run uses this symmetry,
and it has no liveness property.

**realtime_stored.** A finding, in both copies: see `Realtime` above.

**roles.** Three activities, each with the operations on roles it is sensitive to: two instances start
on a database that is empty or that an earlier list of permissions left; a request in
the guard; a client with one of twenty queries. `SeededWhole`, `AllowedWasGranted` (with two changes during
one check a request that was never allowed may pass), `ListIsRead`, `SearchIsAnswered`, `EveryoneStarts`
and `WalkEnds`. While a list is read, roles are created without permissions, which a list does not show. What each query asks for is written down by hand next to it (`Meant`): the
selection is not compared with itself. `ListIsRead` is about the pages, whatever the query selects; `SearchIsAnswered` is
about the selection: nothing but what the words ask for is shown, and all of it when no role comes or goes.
A list in the order of the collection can show a document twice, if it was deleted and created again meanwhile;
that takes more changes than the bound of this run, and the theorem about `ListIsRead` covers it.

The type invariants of `ChangeStream`, `Notification` and `Roles` are definitions of these modules and are proved,
but are not among the runs' properties: each run is kept for what could be wrong.

CHECK_DEADLOCK is FALSE where the system may stop: an attempt, an upload and a set of
notifications come to an end, requests are served and lists read, and nobody has to write to the database.

### Fairness

- `BatchImport`: weak fairness of the processor only. Its promises settle, the call's
  because of its timeout; nothing is assumed of the transaction service.
- `UploadPipeline`: weak fairness of the handler, of Bull's delivery and timers, of the
  processor's steps (each awaited promise settles or times out) and of the detection of lost
  locks. MongoDB answers status writes by itself only where `"slow"` is not
  among the faults; where it is, the code's own 30 s timeout must do.
- `ChangeStream`: weak fairness of the initial read, the opening, the timer, the
  driver and the callback; none of the writes or errors.
- `Notification`: weak fairness of the worker and of Bull's timers.
- `Roles`: weak fairness of each instance's start (a running process goes on, and
  the restart policy of its container starts one that ended) and of the client, which follows the links it is
  given. None of operations, crashes or the guard.
- `Gateway`: none; its properties are invariants.

### Bounds

`MaxCrashes` bounds crashes, `MaxOverdue` the batches and the writes followed past
their timeout, `MaxFileRows` the files, `MaxWrites` and `MaxErrors` the writes to the
watched database and its errors, `MaxClock` the ticks of `Accounts`, `MaxRequests` the
requests served while sockets are connected, `MaxChanges` the operations on roles.

`gateway`: three requests are one that reads and writes late, one that crosses it and one
that shows it (a login, a second user, a deletion); two sockets are needed for a user
with two and for a process that ends under another one; one room, because rooms are independent;
two ticks let every token and every session expire and two logins share a second or not. `roles`: two
instances collide on every insertion; four roles and pages of one or two make lists of
up to four pages; two changes are what `AllowedWasGranted` tells apart (three passed as well, in a
run too long to keep); three permissions are more than a page, as in the code. The other constants are
parameters of the code (`batchSize` 500, `maxErrors` 1000, `attempts` 3,
`maxStalledCount` 1) scaled down.

## 4. Proofs

`BatchImportProofs`, for every set of files, batch size, error limit and progress interval
allowed by `BatchImportAssumption`:

- `Invariance`: the inductive invariant `IInv`.
- `TypeCorrect`, `NeverTwice`, `HonestCount`: `TypeOK`, `StoredAtMostOnce`, `SuccessIsStored`.
- `Implementation`: an attempt implements `ImportContract`.
- `RowsAreAccounted`, `DoubtIsReported`, `BooksClose`: `NoRowUnaccounted`, `UncountedRowsAreInDoubt`,
  `BooksAtReturn`.

`StoredAtMostOnce` alone is not inductive: a batch in `pending` could overlap
a stored one. `IInv` orders the file: batches start `BatchSize` apart, so two
pending batches share no slot (`PendingDisjoint`), a pending batch is the one being
called or lies wholly before it (`PendingBehind`), it is not stored yet
(`PendingNotStored`), and nothing beyond `Reach` is stored (`StoredWithinReach`). For the
count, `AnswerIsTrue` ties an "ok" to stored rows and `CountedWithinSettled`
keeps the counted rows before the current batch, so that adding a batch
adds exactly its number of transactions. Each action preserves each part in a lemma of its own.
The refinement maps `copies` to itself, `claimed` to `counted` and `over` to the
end of the attempt; every step is `Store`, `Claim`, `Stop` or a stutter.

The last three are about what the attempt reports, and need an invariant of their own beside `IInv`. `BooksInv`
says, as long as the error list has room (`ErrorsTell`), that every row up to the last settled batch is counted or
reported; that every batch given up while still pending has its entry; and that a stored row
is counted, or in the batch being called, or in a batch with an entry (`InDoubt`). That the room lasts
needs two facts more: row errors in the list are of settled batches only, so that what a batch adds is
new, and `processed` counts at least the rows that were settled. `PastTheEnd` gives the
books at the return: every row is settled then.

`UploadPipelineProofs`, for every number of batches, attempts and stalls and every
set of faults allowed by `UploadPipelineAssumption`:

- `Invariance`: the inductive invariant `IInv`.
- `TypeCorrect`, `AcceptedIsWhole`, `DuplicatesBounded`, `OutcomesHappened`: `TypeOK`,
  `AcceptedUploadIsWhole`, `DuplicatesAreBounded`, `OutcomeHappened`.
- `StatusIsOutcome`: `StatusTellsOutcome`.

`IInv` (checked by TLC before it was proved) has a part for each. `RequestInOrder` says what the handler
has made by the time it reaches each of its calls, and that an accepted request is past the
catch block that deletes the file. `RunsCounted` is an equation: a run ends by completing the
job, by using an attempt or by a stall, so `run` is `attempts + stalls`,
plus one while the job is active or completed; a run that lost its lock is
counted as the stall it caused. `InsertsCounted` needs a strict bound for the
batches a run has yet to call (`Ahead`), and counts the overdue inserts with
the stored ones, so that a late insert changes nothing of the sum. `OutcomesDecided`
ties every status write still in progress, of any run, to the outcome of that run: a
write may be applied after later runs began, so `status` alone is not inductive.
For `StatusIsOutcome`, `CalmRun` says what the quiet environment of that property preserves: a run keeps
its lock, and the only write in progress is the one it waits for (`Begun`), so the document has the
outcome before the run ends.

`GatewayProofs`, for every number of requests, sockets, users and addresses, every life of
the tokens and every group of requests allowed by `AccountsAssumption` and
`GatewayAssumption`, of the specification `GatewaySpec` itself, in which a socket may end the
process under the requests:

- `Invariance`: the inductive invariant `IInv`.
- `TypeCorrect`, `WholeAccounts`, `OrphansWereThere`, `ChangesStay`, `RevocationsReach`: `TypeOK`,
  `AccountsAreWhole`, `NoSessionForTheGone`, `LostUpdateNeedsOverlap`, `RevocationReaches`.

`IInv` (checked by TLC before it was proved) says what a request between two of its awaits may
rely on. `Shape` is the type, with what each place of a request holds (`Memory`).
`HeldIsCurrent`: a document to be written back is as stored, field by field, unless a change
crossed it; without it nothing ties what `WriteForgot` and `WriteReset` write to what was
confirmed. `NotYetCreated`: the id of a new user is free until its insertion. `OpenersWereLate`: a
request about to open a session for a user who is gone was under way at the removal, and
the removal recorded it. `SeenAreThere` and `RefreshersHoldOthers`: what a revocation revoked is
still there, and a request that validated a token after it has it from a session it did not
revoke; so the session it will open is accounted for before it exists. The steps are grouped by
what they touch (`StepsByKind`: asking, writing sessions, editing, inserting and removing
users), one lemma says what each group does, and each part of `IInv` has a lemma over the groups.
The assumption that `None` is no document has to be stated: a document is a function, and nothing
else says that a constant is not one.

`SocketProofs`, under the same assumptions and from the invariant of `GatewayProofs`:

- `OpenAreStored`, `StaleWereEarly`, `StoredAreAuthentic`, `EndedByDeletion`: `OnlineIsStored`,
  `StaleEntriesAreLateChecks`, `StoredWasAuthentic`, `EndsOnlyForTheGone`.

`CheckedInTurn` says what a connection has found by each stage of its check, and that it is nobody's
until the last. `MapTells` is an equation for the whole map: a socket has one place in its user's list
from the end of its check until it is disconnected, or, if it was disconnected before that, for good; each of the first two theorems
reads one half of it. `EndedByTheGone` needs that a user who is gone does not return, hence
`UnbornHaveNothing`: an id that is not created yet owns no session.

`ChangeStreamProofs`, for every set of documents, every number of writes and of errors:

- `TypeCorrect`: `TypeOK`. `CacheFollows`, `NothingToldTwice`: `CacheKeepsUp`, `ReportsAreChained`.

A lookup may return a version newer than its change, even one whose own change is still to come, so neither the cache nor
the reports follow the log. What is ordered are the versions: `FetchedInOrder` says that a fetched document is not older than its
change nor than the one fetched before it, `CacheIsBehind` that the cache is not ahead of
what is fetched, and `ReportsReachCache` that the cache goes on from the last report. `LogIsHistory` is the
database: an insertion is a document's first entry and a deletion its last.

`NotificationProofs`, for every set of notifications, every number of attempts, stalls and crashes:

- `TypeCorrect`: `TypeOK`. `DeliveriesAreBounded`, `FailedIsRetried`, `PendingCountsShort`, `SentInTurn`:
  `DeliveryIsBounded`, `FailureIsNeverFinal`, `PendingIsShortByFailures`, `DeliveredInOrder`.

`Known` relates the three accounts of a notification, the record in memory, the job in Redis and what was
delivered: `RecordTells` while there is a record, `JobTells` also after a restart has lost
it. `QueueIsWaiting` makes the wait list a list without repetition of the jobs that wait. `QueueInTurn` is the order:
of two of one priority, while the first has not been delivered, neither has the second, and it
waits behind the first; retries keep it, because only what was delivered is retried. `PendingTells` counts the records not
yet SENT.

`EntityChangeProofs`, for every set of documents, fields and values that `EntityChangeAssumption` allows:

- `FieldsAreTold`, `ItemsAreTold`: `FieldEventsTellAll`, `ItemEventsTellAll`.

A listener folds the events of an update one by one. Rather than to follow the fold, the proof calls an
event true if the new document has what it says, and shows that a listener who hears only
true events, among which is one for each difference, has the new document in the end,
whatever their order (`ToldAll`); then, comparison by comparison, that the events of an update are true
and leave out no difference (`EventsTell`). The induction over sequences is over the numbers of their elements,
from the library's theorem that the naturals are well-founded (`Induction`).

`RolesProofs`, for every list of permissions, any number of instances, crashes and operations on roles, and
every set of queries and limits:

- `TypeCorrect`: `TypeOK`. `SeedingIsWhole`, `AllowedIsGranted`: `SeededWhole`, `AllowedWasGranted`.
- `ListsAreRead`: `ListIsRead`.

`SeedInv` says what each instance has seen at each step of its start (`StartTells`); it
is preserved by the steps of the others because what was seen is not taken back (`Onward`): permissions
stay, and a seeded role stays what it is unless users change it. `GuardTells` follows a check: what the user is permitted
now is among the moments; and after one change, either the roles read are still the
user's, or it was the assignment that changed, and then what the roles permit did not.

For lists, `OrderTells` says that the collection has each role once. The argument is about places:
an insertion never moves a document up the line (`AfterInsertion`), a removal never moves one down (`AfterRemoval`).
So, while nothing is removed, what stayed and has its place on a page already read was shown (`MissTells`), and while nothing is
inserted into an arranged list, what was shown keeps to the pages already read (`RepeatTells`). `Pages` is the arithmetic of
the link: there is a next page exactly if the count exceeds what was skipped and
read. Where the order of the line comes from, a sort or an index, makes no difference to the argument.

The proof of `ListsAreRead` corrected the model's property: a list in the order of the collection was thought to show no document twice,
which no run within its bounds refutes, but a role that is deleted and created again is one.

Only model-checked:

- Liveness: `AttemptEnds`, `RequestIsAnswered`, `JobSettles`, `JobsSettle`, `StreamRecovers`, `EveryoneStarts`,
  `WalkEnds`. TLAPS proves no fairness or ENABLED arguments here.
- `SearchIsAnswered`: that the selection of a query is what its words say. `Meant` is a table written by hand for the
  instance, of which nothing can be proved for all values of the constants.

## 5. Plan

1. `BatchImport`, `ImportContract` and proofs: done.
2. `UploadPipeline` and proofs: done.
3. `Notification` and proofs: done.
4. `ChangeStream`, `EntityChange` and proofs: done.
5. `Accounts`, `Realtime`, `Gateway` and proofs about requests and sockets: done.
6. `Search`, `Listing`, `Roles` and proofs: done.
   To prove next: lemmas about `Search` that need no table, such as that the order of terms does not matter.
7. Open: `include`; the rules of the permission guard that compare ids.

## 6. Not modelled

- Data: parsing of CSV, of workbooks, of dates and amounts (a row is acceptable or not), the
  content of notifications, templates and mails, DTO validation; GridFS beyond the
  existence of the file.
- Reads that change nothing: the status and history queries, the summary of transactions, the
  reads of one user, role or transaction. Their lists are read as `Listing` says.
- One request on one document: `createTransaction` and its deletion.
- Of lists: `additionalConditions`, `include` and `aggregate`, sorting by a field whose values
  repeat, where MongoDB promises no order between pages, and a `searchDate` that names no date.
- Of roles: renaming one, and the rules of the guard that compare ids in the request.
- Wiring and I/O: mail, logging, swagger, configuration, health checks, bootstrap. The
  `timing` module is imported by nothing.
- What is called by nothing: `FileProcessingService.updateFileStatus`, the second path to update a
  status; `softDelete`, `softDeleteMany` and `permanentlyDeleteMany` of the base repository.

The process of file processing is single: its Bull worker has concurrency one and one instance.
