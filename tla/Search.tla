------------------------------- MODULE Search -------------------------------
(***************************************************************************)
(* The conditions of a list query: buildQueryCondition and its parsers     *)
(* (helpers/queryHandle.ts), as they select documents once findAll has     *)
(* added deleted_at: null.                                                 *)
(*                                                                         *)
(* A field holds a text or null, or is not in the document.  A text is a   *)
(* model value: where it stands in the order of texts and which texts are  *)
(* found in it are given.  Dates are texts, a day alone being its start.   *)
(***************************************************************************)
EXTENDS Naturals, Sequences, SequencesExt

CONSTANTS
  Texts,      \* the texts there are, in the order in which MongoDB compares them
  NoText,     \* null: as a field holds it, or as a value is read
  Absent,     \* for a field that is not in the document
  Within,     \* <<s, t>>: $regex with s, escaped and case-insensitive, finds t
  Words,      \* <<s, t>>: s is in t as a word of its own
  Reads,      \* what parseSingleValue, and the schema after it, make of a text
  Days,       \* the texts that are a day alone
  Least,      \* the text of -Infinity
  Greatest,   \* the text of Infinity
  Content     \* what each document has in each field

ASSUME SearchAssumption ==
  /\ IsInjective(Texts) 
  /\ NoText \notin Range(Texts) /\ Absent \notin Range(Texts) \union {NoText}
  /\ {Least, Greatest} \union Days \subseteq Range(Texts)
  /\ DOMAIN Reads = Range(Texts)
  /\ \A t \in Range(Texts) : Reads[t] \in Range(Texts) \union {NoText}

(***************************************************************************)
(* A query: the terms of search, each a field and the texts between the    *)
(* commas of its value; the operators of searchFields; searchJoin;         *)
(* searchDate, the two ends of which one may be missing and the field; and *)
(* searchNull, a field and whether ":" and something follows it.           *)
(***************************************************************************)
NoSearch == [search |-> <<>>, searchFields |-> <<>>, searchJoin |-> "or",
             searchDate |-> NoText, searchNull |-> NoText, orderBy |-> FALSE]

Operators == {"notexist", "exist", "=", "!=", ">", ">=", "<", "<=", "like", "in",
              "between", "contains"}

(* parseSearchFields: the last one given for a field; none, and it is like. *)
Operator(q, f) ==
  LET given == SelectSeq(q.searchFields, LAMBDA pair : pair.field = f)
  IN  IF given = <<>> THEN "like" ELSE Last(given).operator

Value(term) == Reads[term.values[1]]

(* buildFieldCondition throws; so does value.toString() of null. *)
Throws(q) ==
  \E term \in Range(q.search) :
    LET operator == Operator(q, term.field)
    IN  \/ operator \notin Operators
        \/ operator \in {"like", "contains"} /\ Value(term) = NoText

Below(s, t) ==
  NoText \notin {s, t}
    /\ SelectInSeq(Texts, LAMBDA u : u = s) < SelectInSeq(Texts, LAMBDA u : u = t)

(* $gte and $lte hold of equals, of two nulls as well. *)
AtMost(s, t) == s = t \/ Below(s, t)

(***************************************************************************)
(* between takes -Infinity and Infinity for what is missing or null; a     *)
(* field of texts makes texts of them.                                     *)
(***************************************************************************)
Bound(term, i, infinity) ==
  IF Len(term.values) < i THEN infinity
  ELSE IF Reads[term.values[i]] = NoText THEN infinity ELSE Reads[term.values[i]]

(* Every comparison takes a field that is not there for one that is null. *)
Held(d, f) == IF Content[d][f] = Absent THEN NoText ELSE Content[d][f]

(* buildFieldCondition. *)
Satisfies(d, operator, term) ==
  LET held == Held(d, term.field)
  IN
  CASE operator = "notexist" -> Content[d][term.field] = Absent
    [] operator = "exist"    -> Content[d][term.field] # Absent
    [] operator = "="        -> held = Value(term)
    [] operator = "!="       -> held # Value(term)
    [] operator = ">"        -> Below(Value(term), held)
    [] operator = ">="       -> AtMost(Value(term), held)
    [] operator = "<"        -> Below(held, Value(term))
    [] operator = "<="       -> AtMost(held, Value(term))
    [] operator = "like"     -> <<Value(term), held>> \in Within
    [] operator = "contains" -> <<Value(term), held>> \in Words
    [] operator = "in"       -> held \in {Reads[v] : v \in Range(term.values)}
    [] operator = "between"  -> /\ AtMost(Bound(term, 1, Least), held)
                                /\ AtMost(held, Bound(term, 2, Greatest))

(* Mutant of SearchCondition: searchJoin is not looked at. *)
SearchConditionOr(q, d) ==
  \E term \in Range(q.search) : Satisfies(d, Operator(q, term.field), term)

SearchCondition(q, d) ==
  LET holds(term) == Satisfies(d, Operator(q, term.field), term)
  IN  IF q.searchJoin = "or" THEN \E term \in Range(q.search) : holds(term)
                             ELSE \A term \in Range(q.search) : holds(term)

(* buildDateCondition; created_at unless a field is named. *)
DateCondition(q, d) ==
  LET held == Held(d, IF q.searchDate.field = NoText THEN "created_at" ELSE q.searchDate.field)
  IN  /\ q.searchDate.from # NoText => AtMost(q.searchDate.from, held)
      /\ q.searchDate.to # NoText => AtMost(held, q.searchDate.to)

NullCondition(q, d) == q.searchNull.set <=> Held(d, q.searchNull.field) # NoText

(***************************************************************************)
(* findAll spreads the condition and sets deleted_at to null in the copy.  *)
(* A searchNull on deleted_at that stands alone is replaced by that; next  *)
(* to a search it is inside $and, and stays.                               *)
(***************************************************************************)
Replaced(q) ==
  q.search = <<>> /\ q.searchNull # NoText /\ q.searchNull.field = "deleted_at"

Matches(q, d) ==
  /\ Held(d, "deleted_at") = NoText
  /\ q.search # <<>> => SearchCondition(q, d)
  /\ q.searchDate # NoText => DateCondition(q, d)
  /\ q.searchNull # NoText /\ ~Replaced(q) => NullCondition(q, d)

(***************************************************************************)
(* The queries that may not mean what they say: a value that is read as    *)
(* something else ("007", "null"), a range that is open, dates up to a day *)
(* of which only the start is taken, and searchNull on deleted_at.         *)
(***************************************************************************)
Surprising(q) ==
  \/ \E term \in Range(q.search) :
       \/ \E v \in Range(term.values) : Reads[v] # v
       \/ Operator(q, term.field) = "between" /\ Len(term.values) < 2
  \/ q.searchDate # NoText /\ q.searchDate.to \in Days
  \/ q.searchNull # NoText /\ q.searchNull.field = "deleted_at"
==============================================================================
