---------------------------- MODULE MCEntityChange ----------------------------
(***************************************************************************)
(* EntityChange for TLC: documents with and without a name, an array of    *)
(* tags, which may repeat, and an array of teams, with different _ids.     *)
(***************************************************************************)
EXTENDS EntityChange

CONSTANTS nameA, nameB, tagA, tagB, idA, idB

MCScalars == {"name"}
MCScalarArrays == {"tags"}
MCObjectArrays == {"teams"}

MCTeam == {[_id |-> idA, title |-> "a"], [_id |-> idA, title |-> "b"], [_id |-> idB, title |-> "a"]}

ArraysOf(S) == {<<>>} \union {<<x>> : x \in S} \union {<<x, y>> : x, y \in S}

MCValues(f) ==
  CASE f = "name" -> {nameA, nameB}
    [] f = "tags" -> {<<>>, <<tagA>>, <<tagA, tagA>>, <<tagB, tagA>>}
    [] f = "teams" -> {a \in ArraysOf(MCTeam) : Len(a) = 2 => a[1]._id # a[2]._id}

MCDocuments ==
  UNION {{d \in [fs -> UNION {MCValues(f) : f \in fs}] : \A f \in fs : d[f] \in MCValues(f)} :
           fs \in SUBSET {"name", "tags", "teams"}}
==============================================================================
