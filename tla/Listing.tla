------------------------------ MODULE Listing ------------------------------
(***************************************************************************)
(* A list read page by page: the list handlers of the controllers          *)
(* (getAllRoles, getUsers, getAll, getUserSessions, getAllTransactions),   *)
(* findAll of the base repository and the link that addMetaNextLink gives  *)
(* the client, who follows it until there is none.                         *)
(*                                                                         *)
(* The collection belongs to the module that extends this one: its         *)
(* documents in the order in which they were inserted.  Documents that     *)
(* enter or leave the condition of the list count as inserted and removed. *)
(***************************************************************************)
EXTENDS Integers, FiniteSets, Search

CONSTANTS
  Indexed,       \* the field with a unique index, by which clients sort as well
  Sorted,        \* every document there may be, in the order of that field
  Queries,       \* what clients ask for: conditions, and whether orderBy is there
  Meant,         \* the documents that each query asks for, by its words
  Limits,        \* the values of the query parameter limit, 0 among them
  DefaultLimit   \* QueryParams.limit, and what findAll takes instead of 0: 10

ASSUME ListingAssumption ==
  /\ Sorted \in Seq(Range(Sorted)) /\ IsInjective(Sorted)
  /\ DOMAIN Content = Range(Sorted)
  /\ DOMAIN Meant = Queries
  /\ Limits \subseteq Nat
  /\ DefaultLimit \in Nat \ {0}

VARIABLE walk    \* the client, and the page it is asking for

Documents == Range(Sorted)

(* The documents of the collection that satisfy the condition. *)
Selected(coll, q) == {d \in Range(coll) : Matches(q, d)}

(***************************************************************************)
(* A condition on the indexed field is answered from the index, in its     *)
(* order; terms joined by "or" only when every one of them is on it, and   *)
(* MongoDB reads the index once for them all.                              *)
(***************************************************************************)
UsesIndex(q) ==
  \/ /\ q.search # <<>>
     /\ \/ q.searchJoin = "or" /\ \A term \in Range(q.search) : term.field = Indexed
        \/ q.searchJoin # "or" /\ \E term \in Range(q.search) : term.field = Indexed
  \/ q.searchNull # NoText /\ ~Replaced(q) /\ q.searchNull.field = Indexed

(* In the order of the indexed field, whether by the sort of               *)
(* buildQueryOptions or because the query uses the index.                  *)
Arranged(q) == q.orderBy \/ UsesIndex(q)

(* Without a sort and an index, the collection as it is stored. *)
Line(coll, q) == IF Arranged(q) THEN Sorted ELSE coll

(* e is d, or comes before it. *)
Precedes(line, e, d) ==
  \E j \in DOMAIN line : line[j] = d /\ \E i \in 1..j : line[i] = e

(* The place of a document among those selected. *)
Place(coll, q, d) ==
  Cardinality({e \in Selected(coll, q) : Precedes(Line(coll, q), e, d)})

(***************************************************************************)
(* The handler: skip = (page - 1) * limit, with the limit of the query.    *)
(* findAll: a limit that is 0 (as a string) gives way to the default, and  *)
(* the page it reports is reckoned with that.                              *)
(***************************************************************************)
Skip(page, limit) == (page - 1) * limit

PerPage(limit) == IF limit = 0 THEN DefaultLimit ELSE limit

(* Mutant of CurrentPage: the pages are counted from 0. *)
CurrentPageFromZero(page, limit) == Skip(page, limit) \div PerPage(limit)

CurrentPage(page, limit) == Skip(page, limit) \div PerPage(limit) + 1

(* Mutant of TotalPages: a last page that is not full is not counted. *)
TotalPagesDown(total, limit) == total \div PerPage(limit)

TotalPages(total, limit) == (total + PerPage(limit) - 1) \div PerPage(limit)

(* The documents of a page; their order on it is left out. *)
Page(coll, q, page, limit) ==
  {d \in Selected(coll, q) :
     Place(coll, q, d) \in (Skip(page, limit) + 1)..(Skip(page, limit) + PerPage(limit))}

(* A query that asks for no page, as services make them: the first page. *)
FirstPages(found) ==
  {p \in SUBSET found :
     Cardinality(p) = IF Cardinality(found) < DefaultLimit THEN Cardinality(found)
                      ELSE DefaultLimit}

NotAsked == -1

(* The client before it starts. *)
NoWalk ==
  [at |-> "idle", query |-> NoSearch, limit |-> 0, page |-> 1, total |-> NotAsked,
   found |-> FALSE, items |-> {}, times |-> [d \in Documents |-> 0],
   stayed |-> {}, removed |-> {}, inserted |-> {}, torn |-> FALSE]

(* buildQueryCondition may throw, and the client is told of an error. *)
StartWalk(coll) ==
  \E q \in Queries, limit \in Limits :
    /\ walk.at = "idle"
    /\ walk' = [NoWalk EXCEPT !.at = IF Throws(q) THEN "refused" ELSE "asking",
                              !.query = q, !.limit = limit,
                              !.stayed = Range(coll)]

(* findAll sends the two queries together, and either may be served first. *)
CountDocuments(coll) ==
  /\ walk.at = "asking" /\ walk.total = NotAsked
  /\ walk' = [walk EXCEPT !.total = Cardinality(Selected(coll, walk.query))]

FindDocuments(coll) ==
  /\ walk.at = "asking" /\ ~walk.found
  /\ walk' = [walk EXCEPT !.found = TRUE,
                          !.items = Page(coll, walk.query, walk.page, walk.limit)]

(* addMetaNextLink. *)
HasNext == CurrentPage(walk.page, walk.limit) < TotalPages(walk.total, walk.limit)

(* The answer reaches the client; `times` is kept below 3. *)
AnswerPage ==
  /\ walk.at = "asking" /\ walk.total # NotAsked /\ walk.found
  /\ LET seen == [d \in Documents |->
                    IF d \in walk.items /\ walk.times[d] < 2
                    THEN walk.times[d] + 1 ELSE walk.times[d]]
     IN  walk' = [walk EXCEPT
                    !.times = seen, !.total = NotAsked, !.found = FALSE, !.items = {},
                    !.at = IF HasNext THEN "asking" ELSE "done",
                    !.page = IF HasNext THEN CurrentPage(@, walk.limit) + 1 ELSE @]

Walk(coll) ==
  \/ StartWalk(coll) \/ CountDocuments(coll) \/ FindDocuments(coll) \/ AnswerPage

Walking == walk.at = "asking"

(* History: what happens to the collection while the client is walking. *)
Inserting(w, d) ==
  IF w.at # "asking" \/ ~Matches(w.query, d) THEN w
  ELSE [w EXCEPT !.inserted = @ \union {d},
                 !.torn = @ \/ (w.total # NotAsked /\ ~w.found)]

Removing(w, d) ==
  IF w.at # "asking" \/ ~Matches(w.query, d) THEN w
  ELSE [w EXCEPT !.removed = @ \union {d}, !.stayed = @ \ {d}]

------------------------------------------------------------------------------
(* What is due to the client: what the words of its query say, unless they *)
(* are among those the code takes otherwise.                               *)
Due(q) == IF Surprising(q) THEN {d \in Documents : Matches(q, d)} ELSE Meant[q]

(***************************************************************************)
(* A client that follows the links sees every document of the list that    *)
(* was there from the start to the end, unless one was removed meanwhile,  *)
(* so that later ones moved up into pages already read, or, in an arranged *)
(* list, one was inserted after the documents of a page were counted and   *)
(* before they were read, so that the count lacks the page the last ones   *)
(* moved to.                                                               *)
(***************************************************************************)
MissedNeedsChange ==
  walk.at = "done" /\ walk.limit # 0 =>
    \/ \A d \in walk.stayed : Matches(walk.query, d) => walk.times[d] > 0
    \/ walk.removed # {}
    \/ Arranged(walk.query) /\ walk.torn

(***************************************************************************)
(* It sees a document twice only in an arranged list, when an insertion    *)
(* moved it down to a page not yet read, or if it is another of the same   *)
(* name: the first was removed and the second inserted meanwhile.          *)
(***************************************************************************)
RepeatedNeedsInsertion ==
  walk.limit # 0 =>
    \A d \in Documents : walk.times[d] > 1 =>
      \/ Arranged(walk.query) /\ walk.inserted # {}
      \/ d \in walk.removed \intersect walk.inserted

(* The list as a client reads it is the collection, up to what happened to *)
(* the collection meanwhile, whether clients sort it or MongoDB does so by *)
(* answering them from an index.                                           *)
ListIsRead == MissedNeedsChange /\ RepeatedNeedsInsertion

(***************************************************************************)
(* By the words of the API's documentation, a client is shown nothing it   *)
(* did not ask for, and all it asked for when nothing happens to the list  *)
(* meanwhile.  Excepted are the queries that Surprising names: a value     *)
(* read as something else, a range left open or ending in a day, deleted   *)
(* documents.                                                              *)
(***************************************************************************)
SearchIsAnswered ==
  /\ \A d \in Documents : walk.times[d] > 0 => d \in Due(walk.query)
  /\ walk.at = "done" /\ walk.limit # 0 /\ walk.removed = {} /\ walk.inserted = {} =>
       \A d \in walk.stayed \intersect Due(walk.query) : walk.times[d] > 0

(***************************************************************************)
(* The links come to an end.  With limit=0 they need not: the page stays   *)
(* the first while the link keeps naming the second.                       *)
(***************************************************************************)
WalkEnds == (Walking /\ walk.limit # 0) ~> walk.at = "done"
==============================================================================
