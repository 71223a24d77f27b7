----------------------------- MODULE EntityChange -----------------------------
(***************************************************************************)
(* EntityChangeService: the events told of an update, from the document    *)
(* before and the document after it.  A listener that knows nothing but    *)
(* these events follows one document here: what it believes is in `view`   *)
(* (from the events of the fields) and `items` (from those of the items).  *)
(*                                                                         *)
(* entity.change, field.<f>.changed and array.<f>.changed are not modelled:*)
(* they repeat what the events below say.  Documents come from different   *)
(* messages of MongoDB, so two of them never share an object.              *)
(***************************************************************************)
EXTENDS Naturals, SequencesExt

CONSTANTS
  Documents,     \* documents: functions from some fields to their values
  Scalars,       \* the fields with a plain value
  ScalarArrays,  \* the fields with an array of plain values
  ObjectArrays   \* the fields with an array of objects, each with an _id

Arrays == ScalarArrays \union ObjectArrays

Fields == Scalars \union Arrays

(* Mongoose gives each object of an array an _id of its own. *)
IdsAreDistinct(array) ==
  \A i, j \in DOMAIN array : array[i]._id = array[j]._id => i = j

ASSUME EntityChangeAssumption ==
  /\ IsFiniteSet(Fields)
  /\ Scalars \intersect Arrays = {} /\ ScalarArrays \intersect ObjectArrays = {}
  /\ \A d \in Documents :
       /\ DOMAIN d \subseteq Fields /\ d = [f \in DOMAIN d |-> d[f]]
       /\ \A f \in DOMAIN d \intersect Arrays : d[f] \in Seq(ToSet(d[f]))
       /\ \A f \in DOMAIN d \intersect ObjectArrays : IdsAreDistinct(d[f])

VARIABLES
  doc,    \* the document, as the cache of the change stream has it
  view,   \* history: the document according to the events of its fields
  items   \* history: the items of its arrays according to their events

vars == <<doc, view, items>>

------------------------------------------------------------------------------
(* Comparing documents. *)

(* compareDocuments: which fields were added, removed and modified. *)
Added(old, new) == DOMAIN new \ DOMAIN old

Removed(old, new) == DOMAIN old \ DOMAIN new

Modified(old, new) == {f \in DOMAIN old \intersect DOMAIN new : old[f] # new[f]}

(***************************************************************************)
(* compareArrays, for an array of field f.  _.includes compares objects by *)
(* identity, so an array never includes an object of another document.     *)
(***************************************************************************)
Includes(f, array, item) == f \notin ObjectArrays /\ item \in ToSet(array)

(* The items of one array that the other does not include, in their order. *)
Missing(f, array, other) ==
  LET kept[i \in 0..Len(array)] ==
        IF i = 0 THEN <<>>
        ELSE IF Includes(f, other, array[i]) THEN kept[i - 1]
             ELSE Append(kept[i - 1], array[i])
  IN  kept[Len(array)]

CompareArrays(f, old, new) ==
  [added |-> Missing(f, new, old), removed |-> Missing(f, old, new), modified |-> <<>>]

(* The _ids of an array, and the item of an _id: Map keeps the last one. *)
Ids(array) == {item._id : item \in ToSet(array)}

ItemOf(array, id) ==
  array[CHOOSE i \in DOMAIN array :
          /\ array[i]._id = id
          /\ \A j \in DOMAIN array : array[j]._id = id => j <= i]

ItemsOf(array, ids) == SetToSeq({ItemOf(array, id) : id \in ids})

(* compareArrayOfObjects: by _id; a common item is modified if it differs. *)
CompareArrayOfObjects(old, new) ==
  LET common == Ids(old) \intersect Ids(new)
  IN  [added    |-> ItemsOf(new, Ids(new) \ Ids(old)),
       removed  |-> ItemsOf(old, Ids(old) \ Ids(new)),
       modified |-> SetToSeq({[old |-> ItemOf(old, id), new |-> ItemOf(new, id)] :
                        id \in {i \in common : ItemOf(old, i) # ItemOf(new, i)}})]

------------------------------------------------------------------------------
(* The events, in the order in which they are emitted. *)

Event(kind, f, old, new) == [kind |-> kind, field |-> f, old |-> old, new |-> new]

(* There is no item: undefined. *)
None == <<>>

EventsOf(set, E(_)) == LET s == SetToSeq(set) IN [i \in DOMAIN s |-> E(s[i])]

(* Mutant of ArrayChanges: objects are compared like plain values. *)
ArrayChangesPlain(f, old, new) == CompareArrays(f, old, new)

(***************************************************************************)
(* typeof oldValue[0] === 'object' chooses the comparison; an array that   *)
(* was empty is compared as one of plain values, whatever comes into it.   *)
(***************************************************************************)
ArrayChanges(f, old, new) ==
  IF f \in ObjectArrays /\ old # <<>> THEN CompareArrayOfObjects(old, new)
                                      ELSE CompareArrays(f, old, new)

ItemEvents(f, old, new) ==
  LET changes == ArrayChanges(f, old, new)
      Each(s, E(_)) == [i \in DOMAIN s |-> E(s[i])]
  IN     Each(changes.added, LAMBDA item : Event("item.added", f, None, item))
      \o Each(changes.removed, LAMBDA item : Event("item.removed", f, item, None))
      \o Each(changes.modified, LAMBDA c : Event("item.modified", f, c.old, c.new))

ModifiedEvents(f, old, new) ==
  <<Event("field.modified", f, old, new)>>
    \o IF f \in Arrays THEN ItemEvents(f, old, new) ELSE <<>>

(* Mutant of EmitChangeEvents: removed fields are told by nothing. *)
EmitChangeEventsNotRemoved(old, new) ==
     EventsOf(Added(old, new), LAMBDA f : Event("field.added", f, None, new[f]))
  \o FlattenSeq(EventsOf(Modified(old, new), LAMBDA f : ModifiedEvents(f, old[f], new[f])))

EmitChangeEvents(old, new) ==
     EventsOf(Added(old, new), LAMBDA f : Event("field.added", f, None, new[f]))
  \o EventsOf(Removed(old, new), LAMBDA f : Event("field.removed", f, old[f], None))
  \o FlattenSeq(EventsOf(Modified(old, new), LAMBDA f : ModifiedEvents(f, old[f], new[f])))

------------------------------------------------------------------------------
(* The listener. *)

FollowField(v, e) ==
  CASE e.kind \in {"field.added", "field.modified"} ->
         [f \in DOMAIN v \union {e.field} |-> IF f = e.field THEN e.new ELSE v[f]]
    [] e.kind = "field.removed" -> [f \in DOMAIN v \ {e.field} |-> v[f]]
    [] OTHER -> v

(* A field that comes or goes brings or takes its items. *)
FollowItem(v, e) ==
  IF e.field \notin Arrays THEN v
  ELSE [v EXCEPT ![e.field] =
          CASE e.kind = "field.added" -> ToSet(e.new)
            [] e.kind = "field.removed" -> {}
            [] e.kind = "item.added" -> @ \union {e.new}
            [] e.kind = "item.removed" -> @ \ {e.old}
            [] e.kind = "item.modified" -> (@ \ {e.old}) \union {e.new}
            [] OTHER -> @]

(* The listener hears the events one after the other. *)
Follow(s, e) == [view |-> FollowField(s.view, e), items |-> FollowItem(s.items, e)]

Told(start, events) ==
  LET heard[n \in 0..Len(events)] ==
        IF n = 0 THEN start ELSE Follow(heard[n - 1], events[n])
  IN  heard[Len(events)]

Items(d) == [f \in Arrays |-> IF f \in DOMAIN d THEN ToSet(d[f]) ELSE {}]

Init ==
  /\ doc \in Documents
  /\ view = doc
  /\ items = Items(doc)

(***************************************************************************)
(* processMongoChange.  The document before is the cached one.             *)
(***************************************************************************)
ProcessMongoChange(new) ==
  LET told == Told([view |-> view, items |-> items], EmitChangeEvents(doc, new))
  IN  doc' = new /\ view' = told.view /\ items' = told.items

Next == \E new \in Documents : ProcessMongoChange(new)

Spec == Init /\ [][Next]_vars

------------------------------------------------------------------------------
(* The events of the fields tell all there is to know of the document. *)
FieldEventsTellAll == view = doc

(***************************************************************************)
(* The events of the items tell which items each array has (not their      *)
(* order, nor how often each), in whichever way the arrays are compared,   *)
(* in the order in which additions, removals and changes are told, and     *)
(* while the array is emptied, filled, dropped and brought back.           *)
(***************************************************************************)
ItemEventsTellAll == items = Items(doc)
==============================================================================
