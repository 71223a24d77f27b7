-------------------------- MODULE EntityChangeProofs --------------------------
(***************************************************************************)
(* Theorems about EntityChange, for every set of documents, fields and     *)
(* values.                                                                 *)
(*                                                                         *)
(* The events are a sequence and the listener is a recursive function over *)
(* it, so this module needs induction.  It is had from the library's       *)
(* theorem that the natural numbers are well-founded: a set that has 0,    *)
(* and with each number the next, has them all (Induction).                *)
(***************************************************************************)
EXTENDS EntityChange, Integers, FiniteSetTheorems, SequenceTheorems,
        WellFoundedInduction, TLAPS

LEMMA Induction ==
  ASSUME NEW P, 0 \in P, \A n \in Nat : n \in P => n + 1 \in P
  PROVE  \A n \in Nat : n \in P
<1> SUFFICES ASSUME Nat \ P # {} PROVE FALSE
  OBVIOUS
<1>1. PICK n \in Nat \ P : \A m \in Nat \ P : ~(<<m, n>> \in OpToRel(<, Nat))
  BY NatLessThanWellFounded, WFMin
<1>2. \A m \in Nat \ P : ~(m < n)
  BY <1>1 DEF OpToRel
<1>3. n \in Nat /\ n \notin P
  OBVIOUS
<1>4. n # 0 /\ n - 1 \in Nat /\ n - 1 < n /\ (n - 1) + 1 = n
  BY <1>3
<1>5. n - 1 \in P
  BY <1>2, <1>4
<1> QED
  BY <1>3, <1>4, <1>5

------------------------------------------------------------------------------
(* Sequences. *)

(* A finite set as a sequence: its members, each at one place. *)
LEMMA SetToSeqHas ==
  ASSUME NEW S, IsFiniteSet(S)
  PROVE  /\ SetToSeq(S) \in Seq(S)
         /\ DOMAIN SetToSeq(S) = 1..Len(SetToSeq(S))
         /\ ToSet(SetToSeq(S)) = S
<1>1. Cardinality(S) \in Nat /\ ExistsBijection(1..Cardinality(S), S)
  BY FS_CardinalityType
<1>2. PICK g \in [1..Cardinality(S) -> S] :
        /\ IsInjective(g)
        /\ \A x \in S : \E i \in 1..Cardinality(S) : g[i] = x
  BY <1>1 DEF ExistsBijection, Bijection, Injection, Surjection
<1> DEFINE f == SetToSeq(S)
<1>3. f \in [1..Cardinality(S) -> S] /\ IsInjective(f)
  BY <1>2 DEF SetToSeq
<1> HIDE DEF f
<1>4. f \in Injection(1..Cardinality(S), S)
  BY <1>3 DEF Injection
<1>5. IsFiniteSet(1..Cardinality(S)) /\ Cardinality(1..Cardinality(S)) = Cardinality(S)
  BY <1>1, FS_Interval
<1>6. f \in Surjection(1..Cardinality(S), S)
  BY <1>4, <1>5, FS_Injection
<1>7. f \in Seq(S) /\ Len(f) = Cardinality(S) /\ DOMAIN f = 1..Cardinality(S)
  BY <1>1, <1>3
<1>8. ToSet(f) = S
  BY <1>3, <1>6 DEF ToSet, Surjection
<1> QED
  BY <1>7, <1>8 DEF f

LEMMA ConcatHas ==
  ASSUME NEW S, NEW s \in Seq(S), NEW t \in Seq(S)
  PROVE  s \o t \in Seq(S) /\ ToSet(s \o t) = ToSet(s) \union ToSet(t)
<1>1. s \o t \in Seq(S)
  BY ConcatProperties
<1>2. Range(s \o t) = Range(s) \union Range(t)
  BY RangeConcatenation
<1>3. \A u : ToSet(u) = Range(u)
  BY DEF ToSet, Range
<1> QED
  BY <1>1, <1>2, <1>3

LEMMA AppendHas ==
  ASSUME NEW S, NEW s \in Seq(S), NEW x \in S
  PROVE  Append(s, x) \in Seq(S) /\ ToSet(Append(s, x)) = ToSet(s) \union {x}
<1>1. /\ Append(s, x) \in Seq(S) /\ Len(s) \in Nat /\ Len(Append(s, x)) = Len(s) + 1
      /\ \A i \in 1..Len(s) : Append(s, x)[i] = s[i]
      /\ Append(s, x)[Len(s) + 1] = x
  BY AppendProperties, LenProperties
<1>2. /\ DOMAIN s = 1..Len(s) /\ DOMAIN Append(s, x) = 1..(Len(s) + 1)
      /\ 1..(Len(s) + 1) = (1..Len(s)) \union {Len(s) + 1}
  BY <1>1, LenProperties
<1> QED
  BY <1>1, <1>2 DEF ToSet

(* What FlattenSeq makes of a sequence of sequences. *)
LEMMA FlattenHas ==
  ASSUME NEW S, NEW seqs \in Seq(Seq(S))
  PROVE  /\ FlattenSeq(seqs) \in Seq(S)
         /\ ToSet(FlattenSeq(seqs)) = UNION {ToSet(seqs[i]) : i \in 1..Len(seqs)}
<1> DEFINE L == Len(seqs)
           Flat(f, k) == f = [i \in 1..k |-> IF i = 1 THEN seqs[i] ELSE f[i - 1] \o seqs[i]]
           Upto(k) == UNION {ToSet(seqs[i]) : i \in 1..k}
           P == {k \in Nat : \E f : Flat(f, k)}
<1>1. L \in Nat /\ \A i \in 1..L : seqs[i] \in Seq(S)
  BY LenProperties, ElementOfSeq
<1>2. CASE L = 0
  BY <1>2, EmptySeq DEF FlattenSeq, ToSet
<1>3. CASE L # 0
  <2>1. 0 \in P
    <3> DEFINE f == [i \in 1..0 |-> seqs[i]]
    <3>1. Flat(f, 0)
      OBVIOUS
    <3> QED
      BY <3>1
  <2>2. ASSUME NEW k \in Nat, k \in P PROVE k + 1 \in P
    <3>1. PICK g : Flat(g, k)
      BY <2>2
    <3> DEFINE f == [i \in 1..(k + 1) |-> IF i = 1 THEN seqs[i]
                                          ELSE IF i = k + 1 THEN g[i - 1] \o seqs[i] ELSE g[i]]
    <3>2. Flat(f, k + 1)
      <4>1. ASSUME NEW i \in 1..(k + 1)
            PROVE  f[i] = IF i = 1 THEN seqs[i] ELSE f[i - 1] \o seqs[i]
        <5>1. \A j \in 1..k : g[j] = IF j = 1 THEN seqs[j] ELSE g[j - 1] \o seqs[j]
          BY <3>1
        <5>2. \A j \in 1..k : f[j] = g[j]
          BY <5>1
        <5>3. CASE i = 1
          BY <5>3
        <5>4. CASE i # 1 /\ i = k + 1
          <6>1. k \in 1..k /\ i - 1 = k
            BY <5>4
          <6>2. f[i] = g[k] \o seqs[i]
            BY <5>4, <6>1
          <6>3. f[i - 1] = g[k]
            BY <5>2, <6>1
          <6> QED
            BY <5>4, <6>2, <6>3
        <5>5. CASE i # 1 /\ i # k + 1
          <6>1. i \in 1..k /\ i - 1 \in 1..k
            BY <5>5
          <6> QED
            BY <5>1, <5>2, <5>5, <6>1
        <5> QED
          BY <5>3, <5>4, <5>5
      <4> HIDE DEF f
      <4>2. f = [i \in 1..(k + 1) |-> f[i]]
        BY DEF f
      <4> QED
        BY <4>1, <4>2
    <3> HIDE DEF f, Flat
    <3> QED
      BY <3>2
  <2>3. L \in P
    <3> HIDE DEF P
    <3> QED
      BY <1>1, <2>1, <2>2, Induction
  <2> DEFINE f == CHOOSE f : Flat(f, L)
             Q == {k \in Nat : 1 <= k /\ k <= L => f[k] \in Seq(S) /\ ToSet(f[k]) = Upto(k)}
  <2>4. Flat(f, L) /\ FlattenSeq(seqs) = f[L]
    BY <1>3, <2>3 DEF FlattenSeq
  <2> HIDE DEF f
  <2>5. 0 \in Q
    OBVIOUS
  <2>6. ASSUME NEW k \in Nat, k \in Q PROVE k + 1 \in Q
    <3> SUFFICES ASSUME k + 1 <= L
                 PROVE  f[k + 1] \in Seq(S) /\ ToSet(f[k + 1]) = Upto(k + 1)
      OBVIOUS
    <3>1. seqs[k + 1] \in Seq(S) /\ k + 1 \in 1..L
      BY <1>1
    <3>2. CASE k = 0
      <4>1. f[1] = seqs[1] /\ Upto(1) = ToSet(seqs[1])
        BY <2>4, <3>1, <3>2
      <4> QED
        BY <3>1, <3>2, <4>1
    <3>3. CASE k # 0
      <4>1. f[k + 1] = f[k] \o seqs[k + 1]
        <5>1. \A i \in 1..L : f[i] = IF i = 1 THEN seqs[i] ELSE f[i - 1] \o seqs[i]
          BY <2>4
        <5>2. k + 1 # 1 /\ (k + 1) - 1 = k
          BY <3>3
        <5> QED
          BY <3>1, <5>1, <5>2
      <4>2. f[k] \in Seq(S) /\ ToSet(f[k]) = Upto(k)
        BY <1>1, <2>6, <3>3
      <4>3. Upto(k + 1) = Upto(k) \union ToSet(seqs[k + 1])
        <5>1. 1..(k + 1) = (1..k) \union {k + 1}
          OBVIOUS
        <5> QED
          BY <5>1
      <4> HIDE DEF Upto
      <4>4. f[k] \o seqs[k + 1] \in Seq(S)
        BY <3>1, <4>2, ConcatHas
      <4>5. ToSet(f[k] \o seqs[k + 1]) = ToSet(f[k]) \union ToSet(seqs[k + 1])
        BY <3>1, <4>2, ConcatHas
      <4> QED
        BY <4>1, <4>2, <4>3, <4>4, <4>5
    <3> QED
      BY <3>2, <3>3
  <2>7. L \in Q
    <3> HIDE DEF Q
    <3> QED
      BY <1>1, <2>5, <2>6, Induction
  <2>8. 1 <= L /\ L <= L
    BY <1>1, <1>3
  <2> HIDE DEF Flat
  <2> QED
    BY <2>4, <2>7, <2>8
<1> QED
  BY <1>1, <1>2, <1>3

(* What Missing keeps of an array: the items that the other does not include. *)
LEMMA MissingHas ==
  ASSUME NEW S, NEW array \in Seq(S), NEW f, NEW other
  PROVE  /\ Missing(f, array, other) \in Seq(S)
         /\ ToSet(Missing(f, array, other)) = {x \in ToSet(array) : ~Includes(f, other, x)}
<1> DEFINE L == Len(array)
           Next1(kept, i) == IF Includes(f, other, array[i]) THEN kept ELSE Append(kept, array[i])
           Kept(h, k) == h = [i \in 0..k |-> IF i = 0 THEN <<>>
                                ELSE IF Includes(f, other, array[i]) THEN h[i - 1]
                                     ELSE Append(h[i - 1], array[i])]
           Upto(k) == {x \in {array[i] : i \in 1..k} : ~Includes(f, other, x)}
           P == {k \in Nat : \E h : Kept(h, k)}
<1>1. L \in Nat /\ \A i \in 1..L : array[i] \in S
  BY LenProperties, ElementOfSeq
<1>2. 0 \in P
  <2> DEFINE h == [i \in 0..0 |-> <<>>]
  <2>1. Kept(h, 0)
    OBVIOUS
  <2> QED
    BY <2>1
<1>3. ASSUME NEW k \in Nat, k \in P PROVE k + 1 \in P
  <2>1. PICK g : Kept(g, k)
    BY <1>3
  <2> DEFINE h == [i \in 0..(k + 1) |-> IF i = k + 1 THEN Next1(g[k], k + 1) ELSE g[i]]
  <2>2. Kept(h, k + 1)
    <3>1. ASSUME NEW i \in 0..(k + 1)
          PROVE  h[i] = IF i = 0 THEN <<>>
                        ELSE IF Includes(f, other, array[i]) THEN h[i - 1]
                             ELSE Append(h[i - 1], array[i])
      <4>1. \A j \in 0..k : g[j] = IF j = 0 THEN <<>> ELSE Next1(g[j - 1], j)
        BY <2>1
      <4>2. \A j \in 0..k : h[j] = g[j]
        OBVIOUS
      <4>3. CASE i = k + 1
        <5>1. i - 1 = k /\ k \in 0..k /\ i # 0
          BY <4>3
        <5>2. h[i] = Next1(g[k], i)
          BY <4>3
        <5>3. h[i - 1] = g[k]
          BY <4>2, <5>1
        <5> QED
          BY <5>1, <5>2, <5>3
      <4>4. CASE i # k + 1
        <5>1. i \in 0..k /\ (i # 0 => i - 1 \in 0..k)
          BY <4>4
        <5>2. h[i] = g[i] /\ (i # 0 => h[i - 1] = g[i - 1])
          BY <4>2, <5>1
        <5> QED
          BY <4>1, <5>1, <5>2
      <4> QED
        BY <4>3, <4>4
    <3> HIDE DEF h
    <3>2. h = [i \in 0..(k + 1) |-> h[i]]
      BY DEF h
    <3> QED
      BY <3>1, <3>2
  <2> HIDE DEF h, Kept
  <2> QED
    BY <2>2
<1>4. L \in P
  <2> HIDE DEF P
  <2> QED
    BY <1>1, <1>2, <1>3, Induction
<1> DEFINE h == CHOOSE h : Kept(h, L)
           Q == {k \in Nat : k <= L => h[k] \in Seq(S) /\ ToSet(h[k]) = Upto(k)}
<1>5. Kept(h, L) /\ Missing(f, array, other) = h[L]
  BY <1>4 DEF Missing
<1> HIDE DEF h
<1>6. 0 \in Q
  BY <1>1, <1>5, EmptySeq DEF ToSet
<1>7. ASSUME NEW k \in Nat, k \in Q PROVE k + 1 \in Q
  <2> SUFFICES ASSUME k + 1 <= L
               PROVE  h[k + 1] \in Seq(S) /\ ToSet(h[k + 1]) = Upto(k + 1)
    OBVIOUS
  <2>1. /\ array[k + 1] \in S /\ h[k] \in Seq(S) /\ ToSet(h[k]) = Upto(k)
        /\ h[k + 1] = Next1(h[k], k + 1)
    <3>1. \A i \in 0..L : h[i] = IF i = 0 THEN <<>> ELSE Next1(h[i - 1], i)
      BY <1>5
    <3>2. k + 1 \in 0..L /\ k + 1 \in 1..L /\ k + 1 # 0 /\ (k + 1) - 1 = k /\ k <= L
      BY <1>1
    <3>3. h[k + 1] = Next1(h[k], k + 1)
      BY <3>1, <3>2
    <3> QED
      BY <1>1, <1>7, <3>2, <3>3
  <2>2. 1..(k + 1) = (1..k) \union {k + 1}
    OBVIOUS
  <2>3. CASE Includes(f, other, array[k + 1])
    <3>1. Upto(k + 1) = Upto(k)
      BY <2>2, <2>3
    <3> QED
      BY <2>1, <2>3, <3>1
  <2>4. CASE ~Includes(f, other, array[k + 1])
    <3>1. Upto(k + 1) = Upto(k) \union {array[k + 1]}
      BY <2>2, <2>4
    <3>2. h[k + 1] = Append(h[k], array[k + 1])
      BY <2>1, <2>4
    <3> HIDE DEF Upto
    <3>3. Append(h[k], array[k + 1]) \in Seq(S)
      BY <2>1, AppendHas
    <3>4. ToSet(Append(h[k], array[k + 1])) = ToSet(h[k]) \union {array[k + 1]}
      BY <2>1, AppendHas
    <3> QED
      BY <2>1, <3>1, <3>2, <3>3, <3>4
  <2> QED
    BY <2>3, <2>4
<1>8. L \in Q
  <2> HIDE DEF Q
  <2> QED
    BY <1>1, <1>6, <1>7, Induction
<1>9. h[L] \in Seq(S) /\ ToSet(h[L]) = Upto(L)
  BY <1>1, <1>8
<1>10. ToSet(array) = {array[i] : i \in 1..L}
  BY LenProperties DEF ToSet
<1> HIDE DEF Kept
<1> QED
  BY <1>5, <1>9, <1>10

------------------------------------------------------------------------------
(* What events may hold. *)

Vals == UNION {{d[f] : f \in DOMAIN d} : d \in Documents}

ItemVals == UNION {UNION {ToSet(d[f]) : f \in DOMAIN d \intersect Arrays} : d \in Documents}

Data == Vals \union ItemVals \union {None}

FieldKinds == {"field.added", "field.removed", "field.modified"}

ItemKinds == {"item.added", "item.removed", "item.modified"}

Events == [kind : FieldKinds \union ItemKinds, field : Fields, old : Data, new : Data]

(* Event e tells of field f, or of item x in array f. *)
TellsField(e, f) == e.field = f /\ e.kind \in FieldKinds

TellsItem(e, f, x) ==
  /\ e.field = f
  /\ \/ e.kind \in {"field.added", "field.removed"}
     \/ e.kind = "item.added" /\ x = e.new
     \/ e.kind = "item.removed" /\ x = e.old
     \/ e.kind = "item.modified" /\ x \in {e.old, e.new}

(***************************************************************************)
(* What an event tells is true of the document `new`, whatever was told    *)
(* before it: this is why the order of the events does not matter.         *)
(***************************************************************************)
TrueOfField(e, new) ==
  /\ e.kind \in {"field.added", "field.modified"} =>
       e.field \in DOMAIN new /\ e.new = new[e.field]
  /\ e.kind = "field.removed" => e.field \notin DOMAIN new

TrueOfItem(e, new) ==
  e.field \in Arrays =>
    /\ e.kind = "field.added" => ToSet(e.new) = Items(new)[e.field]
    /\ e.kind = "field.removed" => Items(new)[e.field] = {}
    /\ e.kind = "item.added" => e.new \in Items(new)[e.field]
    /\ e.kind = "item.removed" => e.old \notin Items(new)[e.field]
    /\ e.kind = "item.modified" =>
         e.old \notin Items(new)[e.field] /\ e.new \in Items(new)[e.field]

(* What the listener believes once the fields T and the items R are told. *)
ViewAfter(old, new, T) ==
  [f \in (DOMAIN old \ T) \union (DOMAIN new \intersect T) |->
     IF f \in T THEN new[f] ELSE old[f]]

ItemsAfter(old, new, R) ==
  [f \in Arrays |-> (Items(old)[f] \ R[f]) \union (Items(new)[f] \intersect R[f])]

(* The items told after one more event, of the items in X. *)
WithItems(R, X, e) == [f \in Arrays |-> R[f] \union {x \in X : TellsItem(e, f, x)}]

LEMMA FollowFieldTrue ==
  ASSUME NEW old, NEW new, NEW T, NEW e \in Events, TrueOfField(e, new)
  PROVE  FollowField(ViewAfter(old, new, T), e) =
           ViewAfter(old, new, T \union {f \in Fields : TellsField(e, f)})
<1> DEFINE U == T \union {f \in Fields : TellsField(e, f)}
           v == ViewAfter(old, new, T)
<1>1. e.field \in Fields /\ e.kind \in FieldKinds \union ItemKinds
  BY DEF Events
<1>2. CASE e.kind \in {"field.added", "field.modified"}
  <2>1. U = T \union {e.field} /\ e.field \in DOMAIN new /\ e.new = new[e.field]
    BY <1>1, <1>2 DEF TellsField, FieldKinds, TrueOfField
  <2>2. FollowField(v, e) =
          [f \in DOMAIN v \union {e.field} |-> IF f = e.field THEN e.new ELSE v[f]]
    BY <1>2 DEF FollowField
  <2> QED
    BY <2>1, <2>2 DEF ViewAfter
<1>3. CASE e.kind = "field.removed"
  <2>1. U = T \union {e.field} /\ e.field \notin DOMAIN new
    BY <1>1, <1>3 DEF TellsField, FieldKinds, TrueOfField
  <2>2. FollowField(v, e) = [f \in DOMAIN v \ {e.field} |-> v[f]]
    BY <1>3 DEF FollowField
  <2> QED
    BY <2>1, <2>2 DEF ViewAfter
<1>4. CASE e.kind \in ItemKinds
  <2>1. U = T
    BY <1>4 DEF TellsField, FieldKinds, ItemKinds
  <2>2. FollowField(v, e) = v
    BY <1>4 DEF FollowField, ItemKinds
  <2> QED
    BY <2>1, <2>2
<1> QED
  BY <1>1, <1>2, <1>3, <1>4 DEF FieldKinds

LEMMA FollowItemTrue ==
  ASSUME NEW old, NEW new, NEW X, NEW R \in [Arrays -> SUBSET X], NEW e \in Events,
         \A f \in Arrays : Items(old)[f] \subseteq X /\ Items(new)[f] \subseteq X,
         TrueOfItem(e, new)
  PROVE  FollowItem(ItemsAfter(old, new, R), e) =
           ItemsAfter(old, new, WithItems(R, X, e))
<1> USE DEF WithItems
<1> DEFINE Q == [f \in Arrays |-> R[f] \union {x \in X : TellsItem(e, f, x)}]
           v == ItemsAfter(old, new, R)
           w == ItemsAfter(old, new, Q)
           g == e.field
           has == Items(new)[g]
<1> SUFFICES FollowItem(v, e) = w
  OBVIOUS
<1>1. g \in Fields /\ e.kind \in FieldKinds \union ItemKinds
  BY DEF Events
<1>2. v = [f \in Arrays |-> v[f]] /\ w = [f \in Arrays |-> w[f]] /\ DOMAIN v = Arrays
  BY DEF ItemsAfter
<1>3. ASSUME NEW f \in Arrays, f # g PROVE w[f] = v[f]
  <2>1. Q[f] = R[f]
    BY <1>3 DEF TellsItem
  <2> QED
    BY <2>1 DEF ItemsAfter
<1>4. CASE g \notin Arrays
  BY <1>2, <1>3, <1>4 DEF FollowItem
<1>5. CASE g \in Arrays
  <2> DEFINE s == (Items(old)[g] \ R[g]) \union (has \intersect R[g])
             t == (Items(old)[g] \ Q[g]) \union (has \intersect Q[g])
  <2>1. v[g] = s /\ w[g] = t
    BY <1>5 DEF ItemsAfter
  <2>2. /\ Items(old)[g] \subseteq X /\ has \subseteq X
        /\ Q[g] = R[g] \union {x \in X : TellsItem(e, g, x)}
    BY <1>5
  <2>3. CASE e.kind = "field.added"
    <3>1. {x \in X : TellsItem(e, g, x)} = X
      BY <2>3 DEF TellsItem
    <3>2. t = ToSet(e.new)
      BY <1>5, <2>2, <2>3, <3>1 DEF TrueOfItem
    <3>3. FollowItem(v, e) = [v EXCEPT ![g] = ToSet(e.new)]
      BY <1>5, <2>3 DEF FollowItem
    <3> HIDE DEF Q, s, t, v, w, has
    <3> QED
      BY <1>2, <1>3, <2>1, <3>2, <3>3
  <2>4. CASE e.kind = "field.removed"
    <3>1. {x \in X : TellsItem(e, g, x)} = X
      BY <2>4 DEF TellsItem
    <3>2. t = {}
      BY <1>5, <2>2, <2>4, <3>1 DEF TrueOfItem
    <3>3. FollowItem(v, e) = [v EXCEPT ![g] = {}]
      BY <1>5, <2>4 DEF FollowItem
    <3> HIDE DEF Q, s, t, v, w, has
    <3> QED
      BY <1>2, <1>3, <2>1, <3>2, <3>3
  <2>5. CASE e.kind = "item.added"
    <3>1. {x \in X : TellsItem(e, g, x)} = {e.new} \intersect X /\ e.new \in has
      BY <1>5, <2>5 DEF TellsItem, TrueOfItem
    <3>2. t = s \union {e.new}
      BY <2>2, <3>1
    <3>3. FollowItem(v, e) = [v EXCEPT ![g] = v[g] \union {e.new}]
      BY <1>5, <2>5 DEF FollowItem
    <3> HIDE DEF Q, s, t, v, w, has
    <3> QED
      BY <1>2, <1>3, <2>1, <3>2, <3>3
  <2>6. CASE e.kind = "item.removed"
    <3>1. {x \in X : TellsItem(e, g, x)} = {e.old} \intersect X /\ e.old \notin has
      BY <1>5, <2>6 DEF TellsItem, TrueOfItem
    <3>2. t = s \ {e.old}
      BY <2>2, <3>1
    <3>3. FollowItem(v, e) = [v EXCEPT ![g] = v[g] \ {e.old}]
      BY <1>5, <2>6 DEF FollowItem
    <3> HIDE DEF Q, s, t, v, w, has
    <3> QED
      BY <1>2, <1>3, <2>1, <3>2, <3>3
  <2>7. CASE e.kind = "item.modified"
    <3>1. /\ {x \in X : TellsItem(e, g, x)} = {e.old, e.new} \intersect X
          /\ e.old \notin has /\ e.new \in has
      BY <1>5, <2>7 DEF TellsItem, TrueOfItem
    <3>2. t = (s \ {e.old}) \union {e.new}
      BY <2>2, <3>1
    <3>3. FollowItem(v, e) = [v EXCEPT ![g] = (v[g] \ {e.old}) \union {e.new}]
      BY <1>5, <2>7 DEF FollowItem
    <3> HIDE DEF Q, s, t, v, w, has
    <3> QED
      BY <1>2, <1>3, <2>1, <3>2, <3>3
  <2>8. CASE e.kind = "field.modified"
    <3>1. {x \in X : TellsItem(e, g, x)} = {}
      BY <2>8 DEF TellsItem
    <3>2. t = s
      BY <2>2, <3>1
    <3>3. FollowItem(v, e) = [v EXCEPT ![g] = v[g]]
      BY <1>5, <2>8 DEF FollowItem
    <3> HIDE DEF Q, s, t, v, w, has
    <3> QED
      BY <1>2, <1>3, <2>1, <3>2, <3>3
  <2> QED
    BY <1>1, <2>3, <2>4, <2>5, <2>6, <2>7, <2>8 DEF FieldKinds, ItemKinds
<1> QED
  BY <1>4, <1>5

(***************************************************************************)
(* A listener that hears only what is true of the document, and hears of   *)
(* every field and item that differ, ends up with the document.            *)
(***************************************************************************)
LEMMA ToldAll ==
  ASSUME NEW old \in Documents, NEW new \in Documents, NEW events \in Seq(Events),
         \A e \in ToSet(events) : TrueOfField(e, new) /\ TrueOfItem(e, new),
         \A f \in Added(old, new) \union Removed(old, new) \union Modified(old, new) :
           \E e \in ToSet(events) : TellsField(e, f),
         \A f \in Arrays : \A x \in Items(old)[f] \union Items(new)[f] :
           \/ x \in Items(old)[f] /\ x \in Items(new)[f]
           \/ \E e \in ToSet(events) : TellsItem(e, f, x)
  PROVE  Told([view |-> old, items |-> Items(old)], events) =
           [view |-> new, items |-> Items(new)]
<1> DEFINE L == Len(events)
           start == [view |-> old, items |-> Items(old)]
           Heard(h, k) == h = [n \in 0..k |-> IF n = 0 THEN start
                                              ELSE Follow(h[n - 1], events[n])]
           P == {k \in Nat : \E h : Heard(h, k)}
<1>1. L \in Nat /\ \A i \in 1..L : events[i] \in Events
  BY LenProperties, ElementOfSeq
<1>2. 0 \in P
  <2> DEFINE h == [n \in 0..0 |-> start]
  <2>1. Heard(h, 0)
    OBVIOUS
  <2> HIDE DEF h, Heard
  <2> QED
    BY <2>1
<1>3. ASSUME NEW k \in Nat, k \in P PROVE k + 1 \in P
  <2>1. PICK g : Heard(g, k)
    BY <1>3
  <2> DEFINE h == [n \in 0..(k + 1) |-> IF n = k + 1 THEN Follow(g[k], events[k + 1]) ELSE g[n]]
  <2>2. Heard(h, k + 1)
    <3>1. ASSUME NEW n \in 0..(k + 1)
          PROVE  h[n] = IF n = 0 THEN start ELSE Follow(h[n - 1], events[n])
      <4>1. \A j \in 0..k : g[j] = IF j = 0 THEN start ELSE Follow(g[j - 1], events[j])
        BY <2>1
      <4>2. \A j \in 0..k : h[j] = g[j]
        OBVIOUS
      <4>3. CASE n = k + 1
        <5>1. n - 1 = k /\ k \in 0..k /\ n # 0
          BY <4>3
        <5>2. h[n] = Follow(g[k], events[n])
          BY <4>3
        <5>3. h[n - 1] = g[k]
          BY <4>2, <5>1
        <5> QED
          BY <5>1, <5>2, <5>3
      <4>4. CASE n # k + 1
        <5>1. n \in 0..k /\ (n # 0 => n - 1 \in 0..k)
          BY <4>4
        <5>2. h[n] = g[n] /\ (n # 0 => h[n - 1] = g[n - 1])
          BY <4>2, <5>1
        <5> QED
          BY <4>1, <5>1, <5>2
      <4> QED
        BY <4>3, <4>4
    <3> HIDE DEF h
    <3>2. h = [n \in 0..(k + 1) |-> h[n]]
      BY DEF h
    <3> QED
      BY <3>1, <3>2
  <2> HIDE DEF h, Heard
  <2> QED
    BY <2>2
<1>4. L \in P
  <2> HIDE DEF P
  <2> QED
    BY <1>1, <1>2, <1>3, Induction
<1> DEFINE h == CHOOSE h : Heard(h, L)
<1>5. Heard(h, L) /\ Told(start, events) = h[L]
  BY <1>4 DEF Told
<1> HIDE DEF h
<1> DEFINE X == UNION {Items(old)[f] \union Items(new)[f] : f \in Arrays}
           T(n) == {f \in Fields : \E i \in 1..n : TellsField(events[i], f)}
           R(n) == [f \in Arrays |-> {x \in X : \E i \in 1..n : TellsItem(events[i], f, x)}]
           After(n) == [view |-> ViewAfter(old, new, T(n)), items |-> ItemsAfter(old, new, R(n))]
           Q == {n \in Nat : n <= L => h[n] = After(n)}
<1>6. 0 \in Q
  <2>1. h[0] = start
    BY <1>1, <1>5
  <2>2. T(0) = {} /\ R(0) = [f \in Arrays |-> {}]
    OBVIOUS
  <2>3. ViewAfter(old, new, {}) = old
    <3>1. old = [f \in DOMAIN old |-> old[f]]
      BY EntityChangeAssumption
    <3> QED
      BY <3>1 DEF ViewAfter
  <2>4. ItemsAfter(old, new, [f \in Arrays |-> {}]) = Items(old)
    BY DEF ItemsAfter, Items
  <2> QED
    BY <2>1, <2>2, <2>3, <2>4
<1>7. ASSUME NEW n \in Nat, n \in Q PROVE n + 1 \in Q
  <2> SUFFICES ASSUME n + 1 <= L PROVE h[n + 1] = After(n + 1)
    OBVIOUS
  <2> DEFINE e == events[n + 1]
  <2>1. n + 1 \in 1..L /\ n + 1 # 0 /\ (n + 1) - 1 = n /\ n <= L
    BY <1>1
  <2>2. h[n + 1] = Follow(After(n), e)
    <3>1. \A i \in 0..L : h[i] = IF i = 0 THEN start ELSE Follow(h[i - 1], events[i])
      BY <1>5
    <3>2. h[n + 1] = Follow(h[n], e)
      BY <1>1, <2>1, <3>1
    <3>3. h[n] = After(n)
      BY <1>7, <2>1
    <3> QED
      BY <3>2, <3>3
  <2>3. e \in Events /\ TrueOfField(e, new) /\ TrueOfItem(e, new)
    BY <1>1, <2>1, LenProperties DEF ToSet
  <2>4. 1..(n + 1) = (1..n) \union {n + 1}
    OBVIOUS
  <2>5. T(n + 1) = T(n) \union {f \in Fields : TellsField(e, f)}
    BY <2>4
  <2>6. R(n + 1) = WithItems(R(n), X, e)
    BY <2>4 DEF WithItems
  <2>7. /\ R(n) \in [Arrays -> SUBSET X]
        /\ \A f \in Arrays : Items(old)[f] \subseteq X /\ Items(new)[f] \subseteq X
    OBVIOUS
  <2> HIDE DEF T, R, X, e
  <2>8. FollowField(ViewAfter(old, new, T(n)), e) = ViewAfter(old, new, T(n + 1))
    BY <2>3, <2>5, FollowFieldTrue
  <2>9. FollowItem(ItemsAfter(old, new, R(n)), e) = ItemsAfter(old, new, R(n + 1))
    <3>1. PICK r \in [Arrays -> SUBSET X] : r = R(n)
      BY <2>7
    <3>2. FollowItem(ItemsAfter(old, new, r), e) =
            ItemsAfter(old, new, WithItems(r, X, e))
      BY <2>3, <2>7, FollowItemTrue
    <3> QED
      BY <2>6, <3>1, <3>2
  <2> QED
    BY <2>2, <2>8, <2>9 DEF Follow
<1>8. h[L] = After(L)
  <2> HIDE DEF Q
  <2>1. L \in Q
    BY <1>1, <1>6, <1>7, Induction
  <2> QED
    BY <1>1, <2>1 DEF Q
<1>9. ToSet(events) = {events[i] : i \in 1..L}
  BY LenProperties DEF ToSet
<1>10. ViewAfter(old, new, T(L)) = new
  <2>1. /\ new = [f \in DOMAIN new |-> new[f]]
        /\ DOMAIN old \subseteq Fields /\ DOMAIN new \subseteq Fields
    BY EntityChangeAssumption
  <2>2. \A f \in Added(old, new) \union Removed(old, new) \union Modified(old, new) : f \in T(L)
    <3>1. Added(old, new) \union Removed(old, new) \union Modified(old, new) \subseteq Fields
      BY <2>1 DEF Added, Removed, Modified
    <3> QED
      BY <1>9, <3>1
  <2> HIDE DEF T
  <2>4. (DOMAIN old \ T(L)) \union (DOMAIN new \intersect T(L)) = DOMAIN new
    BY <2>2 DEF Added, Removed
  <2>5. \A f \in DOMAIN new \ T(L) : old[f] = new[f]
    BY <2>2 DEF Added, Modified
  <2> QED
    BY <2>1, <2>4, <2>5 DEF ViewAfter
<1>11. ItemsAfter(old, new, R(L)) = Items(new)
  <2>1. \A f \in Arrays : \A x \in Items(old)[f] \union Items(new)[f] :
          (x \in Items(old)[f] /\ x \in Items(new)[f]) \/ x \in R(L)[f]
    BY <1>9
  <2> HIDE DEF R
  <2>2. \A f \in Arrays :
          (Items(old)[f] \ R(L)[f]) \union (Items(new)[f] \intersect R(L)[f]) = Items(new)[f]
    BY <2>1
  <2>3. Items(new) = [f \in Arrays |-> Items(new)[f]]
    BY DEF Items
  <2> QED
    BY <2>2, <2>3 DEF ItemsAfter
<1> QED
  BY <1>5, <1>8, <1>10, <1>11

------------------------------------------------------------------------------
(* The items that two arrays do not share are among the changes found. *)

LEMMA ImageFinite ==
  ASSUME NEW S, IsFiniteSet(S), NEW g, DOMAIN g = S
  PROVE  IsFiniteSet({g[x] : x \in S})
<1> DEFINE T == {g[x] : x \in S}
           h == [x \in S |-> g[x]]
<1>1. h \in Surjection(S, T)
  BY DEF Surjection
<1> HIDE DEF T, h
<1>2. IsFiniteSet(T)
  BY <1>1, FS_Surjection
<1> QED
  BY <1>2 DEF T

LEMMA ToSetFinite ==
  ASSUME NEW S, NEW s \in Seq(S)
  PROVE  IsFiniteSet(ToSet(s)) /\ ToSet(s) \subseteq S
<1>1. Len(s) \in Nat /\ DOMAIN s = 1..Len(s) /\ s \in [1..Len(s) -> S]
  BY LenProperties
<1>2. IsFiniteSet(1..Len(s))
  BY <1>1, FS_Interval
<1>3. IsFiniteSet({s[i] : i \in DOMAIN s})
  BY <1>1, <1>2, ImageFinite
<1> QED
  BY <1>1, <1>3 DEF ToSet

LEMMA IdsHave ==
  ASSUME NEW S, NEW s \in Seq(S), IdsAreDistinct(s)
  PROVE  /\ IsFiniteSet(Ids(s))
         /\ \A id \in Ids(s) : ItemOf(s, id) \in ToSet(s) /\ ItemOf(s, id)._id = id
         /\ \A x \in ToSet(s) : x._id \in Ids(s) /\ ItemOf(s, x._id) = x
<1>1. Len(s) \in Nat /\ DOMAIN s = 1..Len(s)
  BY LenProperties
<1>2. IsFiniteSet(Ids(s))
  <2> DEFINE g == [x \in ToSet(s) |-> x._id]
  <2>1. DOMAIN g = ToSet(s) /\ Ids(s) = {g[x] : x \in ToSet(s)}
    BY DEF Ids
  <2> HIDE DEF g
  <2>2. IsFiniteSet({g[x] : x \in ToSet(s)})
    BY <2>1, ToSetFinite, ImageFinite
  <2> QED
    BY <2>1, <2>2
<1>3. ASSUME NEW i \in DOMAIN s PROVE ItemOf(s, s[i]._id) = s[i]
  <2> DEFINE Last1(k) == /\ s[k]._id = s[i]._id
                         /\ \A j \in DOMAIN s : s[j]._id = s[i]._id => j <= k
             c == CHOOSE k \in DOMAIN s : Last1(k)
  <2>1. Last1(i)
    BY <1>1 DEF IdsAreDistinct
  <2>2. c \in DOMAIN s /\ Last1(c)
    <3> HIDE DEF Last1
    <3> QED
      BY <2>1
  <2>3. c = i
    BY <2>2 DEF IdsAreDistinct
  <2> QED
    BY <2>3 DEF ItemOf
<1> QED
  BY <1>2, <1>3 DEF Ids, ToSet

(* What ItemsOf picks from an array by their _ids. *)
LEMMA ItemsOfHave ==
  ASSUME NEW S, NEW s \in Seq(S), IdsAreDistinct(s), NEW ids \in SUBSET Ids(s)
  PROVE  /\ ItemsOf(s, ids) \in Seq(ToSet(s))
         /\ ToSet(ItemsOf(s, ids)) = {x \in ToSet(s) : x._id \in ids}
<1> DEFINE g == [id \in ids |-> ItemOf(s, id)]
           M == {ItemOf(s, id) : id \in ids}
<1>1. IsFiniteSet(ids)
  BY IdsHave, FS_Subset
<1>2. IsFiniteSet(M)
  <2>1. DOMAIN g = ids /\ M = {g[id] : id \in ids}
    OBVIOUS
  <2> HIDE DEF g, M
  <2>2. IsFiniteSet({g[id] : id \in ids})
    BY <1>1, <2>1, ImageFinite
  <2> QED
    BY <2>1, <2>2
<1>3. M = {x \in ToSet(s) : x._id \in ids}
  BY IdsHave
<1> HIDE DEF M
<1>4. SetToSeq(M) \in Seq(M) /\ ToSet(SetToSeq(M)) = M
  BY <1>2, SetToSeqHas
<1>5. SetToSeq(M) \in Seq(ToSet(s))
  BY <1>3, <1>4, SeqMonotonic
<1> QED
  BY <1>3, <1>4, <1>5 DEF ItemsOf, M

(* What the changes found between arrays o and n must tell. *)
ChangesTell(c, o, n) ==
  /\ c.added \in Seq(ToSet(n))
  /\ c.removed \in Seq(ToSet(o)) /\ ToSet(c.removed) \intersect ToSet(n) = {}
  /\ c.modified \in Seq([old : ToSet(o), new : ToSet(n)])
  /\ \A p \in ToSet(c.modified) : p.old \notin ToSet(n)
  /\ \A x \in ToSet(o) \ ToSet(n) :
       x \in ToSet(c.removed) \/ \E p \in ToSet(c.modified) : p.old = x
  /\ \A x \in ToSet(n) \ ToSet(o) :
       x \in ToSet(c.added) \/ \E p \in ToSet(c.modified) : p.new = x

LEMMA PlainChangesTell ==
  ASSUME NEW f, NEW S, NEW o \in Seq(S), NEW n \in Seq(S), o \in Seq(ToSet(o)), n \in Seq(ToSet(n)),
         f \in ObjectArrays => o = <<>>
  PROVE  ChangesTell(CompareArrays(f, o, n), o, n)
<1> DEFINE c == CompareArrays(f, o, n)
<1>1. c.added = Missing(f, n, o) /\ c.removed = Missing(f, o, n) /\ c.modified = <<>>
  BY DEF CompareArrays
<1>2. c.added \in Seq(ToSet(n)) /\ ToSet(c.added) = {x \in ToSet(n) : ~Includes(f, o, x)}
  BY <1>1, MissingHas
<1>3. c.removed \in Seq(ToSet(o)) /\ ToSet(c.removed) = {x \in ToSet(o) : ~Includes(f, n, x)}
  BY <1>1, MissingHas
<1>4. c.modified \in Seq([old : ToSet(o), new : ToSet(n)]) /\ ToSet(c.modified) = {}
  BY <1>1, EmptySeq DEF ToSet
<1>5. f \in ObjectArrays => ToSet(o) = {}
  BY DEF ToSet
<1> HIDE DEF c
<1> QED
  BY <1>2, <1>3, <1>4, <1>5 DEF ChangesTell, Includes, c

LEMMA ObjectChangesTell ==
  ASSUME NEW S, NEW o \in Seq(S), NEW n \in Seq(S), IdsAreDistinct(o), IdsAreDistinct(n)
  PROVE  ChangesTell(CompareArrayOfObjects(o, n), o, n)
<1> DEFINE c == CompareArrayOfObjects(o, n)
           common == Ids(o) \intersect Ids(n)
           differ == {id \in common : ItemOf(o, id) # ItemOf(n, id)}
           M == {[old |-> ItemOf(o, id), new |-> ItemOf(n, id)] : id \in differ}
           g == [id \in differ |-> [old |-> ItemOf(o, id), new |-> ItemOf(n, id)]]
<1>1. /\ c.added = ItemsOf(n, Ids(n) \ Ids(o))
      /\ c.removed = ItemsOf(o, Ids(o) \ Ids(n))
      /\ c.modified = SetToSeq(M)
  BY DEF CompareArrayOfObjects
<1>2. /\ c.added \in Seq(ToSet(n))
      /\ ToSet(c.added) = {x \in ToSet(n) : x._id \in Ids(n) \ Ids(o)}
  BY <1>1, ItemsOfHave
<1>3. /\ c.removed \in Seq(ToSet(o))
      /\ ToSet(c.removed) = {x \in ToSet(o) : x._id \in Ids(o) \ Ids(n)}
  BY <1>1, ItemsOfHave
<1>4. /\ \A id \in Ids(o) : ItemOf(o, id) \in ToSet(o) /\ ItemOf(o, id)._id = id
      /\ \A id \in Ids(n) : ItemOf(n, id) \in ToSet(n) /\ ItemOf(n, id)._id = id
      /\ \A x \in ToSet(o) : x._id \in Ids(o) /\ ItemOf(o, x._id) = x
      /\ \A x \in ToSet(n) : x._id \in Ids(n) /\ ItemOf(n, x._id) = x
      /\ IsFiniteSet(Ids(o))
  BY IdsHave
<1>5. /\ c.modified \in Seq([old : ToSet(o), new : ToSet(n)])
      /\ ToSet(c.modified) = M
  <2>1. IsFiniteSet(differ)
    BY <1>4, FS_Subset
  <2>2. DOMAIN g = differ /\ M = {g[id] : id \in differ}
    OBVIOUS
  <2>3. M \subseteq [old : ToSet(o), new : ToSet(n)]
    BY <1>4
  <2> HIDE DEF g, M, differ
  <2>4. IsFiniteSet(M)
    <3>1. IsFiniteSet({g[id] : id \in differ})
      BY <2>1, <2>2, ImageFinite
    <3> QED
      BY <2>2, <3>1
  <2>5. SetToSeq(M) \in Seq(M) /\ ToSet(SetToSeq(M)) = M
    BY <2>4, SetToSeqHas
  <2>6. SetToSeq(M) \in Seq([old : ToSet(o), new : ToSet(n)])
    BY <2>3, <2>5, SeqMonotonic
  <2> QED
    BY <1>1, <2>5, <2>6
<1> HIDE DEF c
<1>6. ToSet(c.removed) \intersect ToSet(n) = {}
  BY <1>3, <1>4
<1>7. ASSUME NEW p \in M PROVE p.old \notin ToSet(n)
  <2>1. PICK id \in differ : p = [old |-> ItemOf(o, id), new |-> ItemOf(n, id)]
    OBVIOUS
  <2>2. p.old = ItemOf(o, id) /\ p.old._id = id
    BY <1>4, <2>1
  <2> QED
    BY <1>4, <2>1, <2>2
<1>8. ASSUME NEW x \in ToSet(o) \ ToSet(n)
      PROVE  x \in ToSet(c.removed) \/ \E p \in M : p.old = x
  <2>1. CASE x._id \in Ids(n)
    <3>1. x._id \in differ
      BY <1>4, <1>8, <2>1
    <3>2. [old |-> ItemOf(o, x._id), new |-> ItemOf(n, x._id)] \in M
      BY <3>1
    <3> QED
      BY <1>4, <3>2
  <2>2. CASE x._id \notin Ids(n)
    BY <1>3, <1>4, <2>2
  <2> QED
    BY <2>1, <2>2
<1>9. ASSUME NEW x \in ToSet(n) \ ToSet(o)
      PROVE  x \in ToSet(c.added) \/ \E p \in M : p.new = x
  <2>1. CASE x._id \in Ids(o)
    <3>1. x._id \in differ
      BY <1>4, <1>9, <2>1
    <3>2. [old |-> ItemOf(o, x._id), new |-> ItemOf(n, x._id)] \in M
      BY <3>1
    <3> QED
      BY <1>4, <3>2
  <2>2. CASE x._id \notin Ids(o)
    BY <1>2, <1>4, <2>2
  <2> QED
    BY <2>1, <2>2
<1> HIDE DEF M
<1> QED
  BY <1>2, <1>3, <1>5, <1>6, <1>7, <1>8, <1>9 DEF ChangesTell, c

------------------------------------------------------------------------------
(* The events of an update. *)

(* One event for each member of a sequence. *)
Mapped(E, s) == [i \in DOMAIN s |-> E[s[i]]]

LEMMA EachEvent ==
  ASSUME NEW S, NEW s \in Seq(S), NEW E \in [S -> Events]
  PROVE  Mapped(E, s) \in Seq(Events) /\ ToSet(Mapped(E, s)) = {E[x] : x \in ToSet(s)}
<1> DEFINE g == [i \in DOMAIN s |-> E[s[i]]]
<1>1. Len(s) \in Nat /\ DOMAIN s = 1..Len(s) /\ s \in [1..Len(s) -> S]
  BY LenProperties
<1>2. g \in [1..Len(s) -> Events]
  BY <1>1
<1>3. g \in Seq(Events)
  BY <1>1, <1>2
<1>4. DOMAIN g = DOMAIN s
  OBVIOUS
<1> QED
  BY <1>3, <1>4 DEF ToSet, Mapped

(* Arrays of a document. *)
LEMMA ArrayOf ==
  ASSUME NEW d \in Documents, NEW f \in Arrays \intersect DOMAIN d
  PROVE  /\ d[f] \in Seq(ToSet(d[f])) /\ ToSet(d[f]) \subseteq Data /\ d[f] \in Data
         /\ f \in ObjectArrays => IdsAreDistinct(d[f])
         /\ Items(d)[f] = ToSet(d[f])
<1>1. d[f] \in Seq(ToSet(d[f])) /\ (f \in ObjectArrays => IdsAreDistinct(d[f]))
  BY EntityChangeAssumption
<1>2. ToSet(d[f]) \subseteq ItemVals /\ d[f] \in Vals
  BY DEF ItemVals, Vals
<1> QED
  BY <1>1, <1>2 DEF Data, Items

(* What the item events of a field tell is true, and is all that differs. *)
LEMMA ItemEventsTell ==
  ASSUME NEW old \in Documents, NEW new \in Documents,
         NEW f \in Arrays \intersect DOMAIN old \intersect DOMAIN new
  PROVE  LET events == ItemEvents(f, old[f], new[f]) IN
         /\ events \in Seq(Events)
         /\ \A e \in ToSet(events) :
              e.field = f /\ e.kind \in ItemKinds /\ TrueOfItem(e, new)
         /\ \A x \in Items(old)[f] \union Items(new)[f] :
              \/ x \in Items(old)[f] /\ x \in Items(new)[f]
              \/ \E e \in ToSet(events) : TellsItem(e, f, x)
<1> DEFINE o == old[f]
           n == new[f]
           c == ArrayChanges(f, o, n)
           Pairs == [old : ToSet(o), new : ToSet(n)]
           AddedE == [x \in ToSet(n) |-> Event("item.added", f, None, x)]
           RemovedE == [x \in ToSet(o) |-> Event("item.removed", f, x, None)]
           ModifiedE == [p \in Pairs |-> Event("item.modified", f, p.old, p.new)]
           as == [i \in DOMAIN c.added |-> AddedE[c.added[i]]]
           rs == [i \in DOMAIN c.removed |-> RemovedE[c.removed[i]]]
           ms == [i \in DOMAIN c.modified |-> ModifiedE[c.modified[i]]]
           events == ItemEvents(f, o, n)
<1>1. /\ o \in Seq(ToSet(o)) /\ n \in Seq(ToSet(n))
      /\ ToSet(o) \subseteq Data /\ ToSet(n) \subseteq Data /\ None \in Data /\ f \in Fields
      /\ f \in ObjectArrays => IdsAreDistinct(o) /\ IdsAreDistinct(n)
      /\ Items(old)[f] = ToSet(o) /\ Items(new)[f] = ToSet(n)
  BY ArrayOf DEF Data, Fields
<1>0. o \in Seq(Data) /\ n \in Seq(Data)
  BY <1>1, SeqMonotonic
<1>2. ChangesTell(c, o, n)
  <2>1. CASE f \in ObjectArrays /\ o # <<>>
    <3>1. c = CompareArrayOfObjects(o, n)
      BY <2>1 DEF ArrayChanges
    <3>2. ChangesTell(CompareArrayOfObjects(o, n), o, n)
      BY <1>1, <1>0, <2>1, ObjectChangesTell
    <3> QED
      BY <3>1, <3>2
  <2>2. CASE ~(f \in ObjectArrays /\ o # <<>>)
    <3>1. c = CompareArrays(f, o, n)
      BY <2>2 DEF ArrayChanges
    <3>2. ChangesTell(CompareArrays(f, o, n), o, n)
      BY <1>1, <1>0, <2>2, PlainChangesTell
    <3> QED
      BY <3>1, <3>2
  <2> QED
    BY <2>1, <2>2
<1>3. events = (as \o rs) \o ms
  <2>1. /\ c.added \in Seq(ToSet(n)) /\ c.removed \in Seq(ToSet(o)) /\ c.modified \in Seq(Pairs)
    BY <1>2 DEF ChangesTell
  <2>2. as = [i \in DOMAIN c.added |-> Event("item.added", f, None, c.added[i])]
    BY <2>1, ElementOfSeq, LenProperties
  <2>3. rs = [i \in DOMAIN c.removed |-> Event("item.removed", f, c.removed[i], None)]
    BY <2>1, ElementOfSeq, LenProperties
  <2>4. ms = [i \in DOMAIN c.modified |->
                Event("item.modified", f, c.modified[i].old, c.modified[i].new)]
    BY <2>1, ElementOfSeq, LenProperties
  <2> HIDE DEF as, rs, ms, c
  <2> QED
    BY <2>2, <2>3, <2>4 DEF ItemEvents, c
<1>4. /\ AddedE \in [ToSet(n) -> Events] /\ RemovedE \in [ToSet(o) -> Events]
      /\ ModifiedE \in [Pairs -> Events]
  BY <1>1 DEF Event, Events, ItemKinds
<1>5. /\ as \in Seq(Events) /\ ToSet(as) = {AddedE[x] : x \in ToSet(c.added)}
      /\ ToSet(c.added) \subseteq ToSet(n)
  <2>1. c.added \in Seq(ToSet(n))
    BY <1>2 DEF ChangesTell
  <2> HIDE DEF AddedE, c
  <2>2. ToSet(c.added) \subseteq ToSet(n)
    BY <2>1, ToSetFinite
  <2>3. PICK s \in Seq(ToSet(n)) : s = c.added
    BY <2>1
  <2>4. Mapped(AddedE, s) \in Seq(Events) /\ ToSet(Mapped(AddedE, s)) = {AddedE[x] : x \in ToSet(s)}
    BY <1>4, EachEvent
  <2> QED
    BY <2>2, <2>3, <2>4 DEF Mapped
<1>6. /\ rs \in Seq(Events) /\ ToSet(rs) = {RemovedE[x] : x \in ToSet(c.removed)}
      /\ ToSet(c.removed) \subseteq ToSet(o)
  <2>1. c.removed \in Seq(ToSet(o))
    BY <1>2 DEF ChangesTell
  <2> HIDE DEF RemovedE, c
  <2>2. ToSet(c.removed) \subseteq ToSet(o)
    BY <2>1, ToSetFinite
  <2>3. PICK s \in Seq(ToSet(o)) : s = c.removed
    BY <2>1
  <2>4. Mapped(RemovedE, s) \in Seq(Events) /\ ToSet(Mapped(RemovedE, s)) = {RemovedE[x] : x \in ToSet(s)}
    BY <1>4, EachEvent
  <2> QED
    BY <2>2, <2>3, <2>4 DEF Mapped
<1>7. /\ ms \in Seq(Events) /\ ToSet(ms) = {ModifiedE[x] : x \in ToSet(c.modified)}
      /\ ToSet(c.modified) \subseteq Pairs
  <2>1. c.modified \in Seq(Pairs)
    BY <1>2 DEF ChangesTell
  <2> HIDE DEF ModifiedE, c, Pairs
  <2>2. ToSet(c.modified) \subseteq Pairs
    BY <2>1, ToSetFinite
  <2>3. PICK s \in Seq(Pairs) : s = c.modified
    BY <2>1
  <2>4. Mapped(ModifiedE, s) \in Seq(Events) /\ ToSet(Mapped(ModifiedE, s)) = {ModifiedE[x] : x \in ToSet(s)}
    BY <1>4, EachEvent
  <2> QED
    BY <2>2, <2>3, <2>4 DEF Mapped
<1>8. /\ events \in Seq(Events)
      /\ ToSet(events) = ToSet(as) \union ToSet(rs) \union ToSet(ms)
  <2> HIDE DEF as, rs, ms, events
  <2>1. as \o rs \in Seq(Events) /\ ToSet(as \o rs) = ToSet(as) \union ToSet(rs)
    <3>1. as \in Seq(Events) /\ rs \in Seq(Events)
      BY <1>5, <1>6
    <3> QED
      BY <3>1, ConcatHas
  <2>2. ms \in Seq(Events)
    BY <1>7
  <2>3. PICK s \in Seq(Events) : s = as \o rs
    BY <2>1
  <2>4. s \o ms \in Seq(Events) /\ ToSet(s \o ms) = ToSet(s) \union ToSet(ms)
    BY <2>2, ConcatHas
  <2> QED
    BY <1>3, <2>1, <2>3, <2>4
<1>9. ASSUME NEW e \in ToSet(events)
      PROVE  e.field = f /\ e.kind \in ItemKinds /\ TrueOfItem(e, new)
  <2> HIDE DEF as, rs, ms, events, c
  <2>1. CASE e \in ToSet(as)
    <3>1. PICK x \in ToSet(n) : e = Event("item.added", f, None, x)
      BY <1>5, <2>1
    <3> QED
      BY <1>1, <3>1 DEF Event, ItemKinds, TrueOfItem
  <2>2. CASE e \in ToSet(rs)
    <3>1. PICK x \in ToSet(c.removed) : e = Event("item.removed", f, x, None)
      BY <1>6, <2>2
    <3>2. x \notin ToSet(n)
      BY <1>2, <3>1 DEF ChangesTell
    <3> QED
      BY <1>1, <3>1, <3>2 DEF Event, ItemKinds, TrueOfItem
  <2>3. CASE e \in ToSet(ms)
    <3>1. PICK p \in ToSet(c.modified) : e = Event("item.modified", f, p.old, p.new)
      BY <1>7, <2>3
    <3>2. p.old \notin ToSet(n) /\ p.new \in ToSet(n)
      BY <1>2, <1>7, <3>1 DEF ChangesTell
    <3> QED
      BY <1>1, <3>1, <3>2 DEF Event, ItemKinds, TrueOfItem
  <2> QED
    BY <1>8, <2>1, <2>2, <2>3
<1>10. ASSUME NEW x \in ToSet(o) \ ToSet(n)
       PROVE  \E e \in ToSet(events) : TellsItem(e, f, x)
  <2> HIDE DEF as, rs, ms, events, c
  <2>1. CASE x \in ToSet(c.removed)
    <3>1. Event("item.removed", f, x, None) \in ToSet(events)
      BY <1>6, <1>8, <2>1
    <3> QED
      BY <3>1 DEF TellsItem, Event
  <2>2. ASSUME NEW p \in ToSet(c.modified), p.old = x
        PROVE  \E e \in ToSet(events) : TellsItem(e, f, x)
    <3>1. Event("item.modified", f, p.old, p.new) \in ToSet(events)
      BY <1>7, <1>8
    <3> QED
      BY <2>2, <3>1 DEF TellsItem, Event
  <2> QED
    BY <1>2, <2>1, <2>2 DEF ChangesTell
<1>11. ASSUME NEW x \in ToSet(n) \ ToSet(o)
       PROVE  \E e \in ToSet(events) : TellsItem(e, f, x)
  <2> HIDE DEF as, rs, ms, events, c
  <2>1. CASE x \in ToSet(c.added)
    <3>1. Event("item.added", f, None, x) \in ToSet(events)
      BY <1>5, <1>8, <2>1
    <3> QED
      BY <3>1 DEF TellsItem, Event
  <2>2. ASSUME NEW p \in ToSet(c.modified), p.new = x
        PROVE  \E e \in ToSet(events) : TellsItem(e, f, x)
    <3>1. Event("item.modified", f, p.old, p.new) \in ToSet(events)
      BY <1>7, <1>8
    <3> QED
      BY <2>2, <3>1 DEF TellsItem, Event
  <2> QED
    BY <1>2, <2>1, <2>2 DEF ChangesTell
<1> HIDE DEF events
<1>12. \A x \in Items(old)[f] \union Items(new)[f] :
         \/ x \in Items(old)[f] /\ x \in Items(new)[f]
         \/ \E e \in ToSet(events) : TellsItem(e, f, x)
  BY <1>1, <1>10, <1>11
<1> QED
  BY <1>8, <1>9, <1>12 DEF events

(* What the events of one modified field tell. *)
LEMMA ModifiedEventsTell ==
  ASSUME NEW old \in Documents, NEW new \in Documents, NEW f \in Modified(old, new)
  PROVE  LET events == ModifiedEvents(f, old[f], new[f]) IN
         /\ events \in Seq(Events)
         /\ \A e \in ToSet(events) : TrueOfField(e, new) /\ TrueOfItem(e, new)
         /\ \E e \in ToSet(events) : TellsField(e, f)
         /\ f \in Arrays =>
              \A x \in Items(old)[f] \union Items(new)[f] :
                \/ x \in Items(old)[f] /\ x \in Items(new)[f]
                \/ \E e \in ToSet(events) : TellsItem(e, f, x)
<1> DEFINE events == ModifiedEvents(f, old[f], new[f])
           first == Event("field.modified", f, old[f], new[f])
           rest == IF f \in Arrays THEN ItemEvents(f, old[f], new[f]) ELSE <<>>
<1>1. f \in DOMAIN old /\ f \in DOMAIN new /\ f \in Fields
  BY EntityChangeAssumption DEF Modified
<1>2. first \in Events
  <2>1. old[f] \in Data /\ new[f] \in Data
    BY <1>1 DEF Data, Vals
  <2> QED
    BY <1>1, <2>1 DEF Event, Events, FieldKinds
<1>3. <<first>> \in Seq(Events) /\ ToSet(<<first>>) = {first}
  <2> HIDE DEF first
  <2> QED
    BY <1>2 DEF ToSet
<1>4. /\ rest \in Seq(Events)
      /\ \A e \in ToSet(rest) : e.field = f /\ e.kind \in ItemKinds /\ TrueOfItem(e, new)
      /\ f \in Arrays =>
           \A x \in Items(old)[f] \union Items(new)[f] :
             \/ x \in Items(old)[f] /\ x \in Items(new)[f]
             \/ \E e \in ToSet(rest) : TellsItem(e, f, x)
  <2>1. CASE f \in Arrays
    <3>1. rest = ItemEvents(f, old[f], new[f])
      BY <2>1
    <3> HIDE DEF rest
    <3> QED
      BY <1>1, <2>1, <3>1, ItemEventsTell
  <2>2. CASE f \notin Arrays
    BY <2>2, EmptySeq DEF ToSet
  <2> QED
    BY <2>1, <2>2
<1>5. events \in Seq(Events) /\ ToSet(events) = {first} \union ToSet(rest)
  <2>1. events = <<first>> \o rest
    BY DEF ModifiedEvents
  <2> HIDE DEF events, first, rest
  <2>2. PICK s \in Seq(Events) : s = <<first>>
    BY <1>3
  <2>3. s \o rest \in Seq(Events) /\ ToSet(s \o rest) = ToSet(s) \union ToSet(rest)
    BY <1>4, ConcatHas
  <2> QED
    BY <1>3, <2>1, <2>2, <2>3
<1>6. TrueOfField(first, new) /\ TrueOfItem(first, new) /\ TellsField(first, f)
  BY <1>1 DEF Event, TrueOfField, TrueOfItem, TellsField, FieldKinds
<1>7. \A e \in ToSet(rest) : TrueOfField(e, new) /\ TrueOfItem(e, new)
  <2> HIDE DEF rest
  <2> QED
    BY <1>4 DEF TrueOfField, ItemKinds
<1> HIDE DEF events, first, rest
<1>8. /\ \A e \in ToSet(events) : TrueOfField(e, new) /\ TrueOfItem(e, new)
      /\ \E e \in ToSet(events) : TellsField(e, f)
  BY <1>5, <1>6, <1>7
<1>9. f \in Arrays =>
        \A x \in Items(old)[f] \union Items(new)[f] :
          \/ x \in Items(old)[f] /\ x \in Items(new)[f]
          \/ \E e \in ToSet(events) : TellsItem(e, f, x)
  BY <1>4, <1>5
<1> QED
  BY <1>5, <1>8, <1>9 DEF events

(***************************************************************************)
(* The events of an update are true of the document after it, and tell of  *)
(* every field and of every item that differ.                              *)
(***************************************************************************)
LEMMA EventsTell ==
  ASSUME NEW old \in Documents, NEW new \in Documents
  PROVE  LET events == EmitChangeEvents(old, new) IN
         /\ events \in Seq(Events)
         /\ \A e \in ToSet(events) : TrueOfField(e, new) /\ TrueOfItem(e, new)
         /\ \A f \in Added(old, new) \union Removed(old, new) \union Modified(old, new) :
              \E e \in ToSet(events) : TellsField(e, f)
         /\ \A f \in Arrays : \A x \in Items(old)[f] \union Items(new)[f] :
              \/ x \in Items(old)[f] /\ x \in Items(new)[f]
              \/ \E e \in ToSet(events) : TellsItem(e, f, x)
<1> DEFINE A == Added(old, new)
           D == Removed(old, new)
           M == Modified(old, new)
           AddedE == [f \in A |-> Event("field.added", f, None, new[f])]
           RemovedE == [f \in D |-> Event("field.removed", f, old[f], None)]
           as == Mapped(AddedE, SetToSeq(A))
           ds == Mapped(RemovedE, SetToSeq(D))
           groups == [i \in DOMAIN SetToSeq(M) |->
                        ModifiedEvents(SetToSeq(M)[i], old[SetToSeq(M)[i]], new[SetToSeq(M)[i]])]
           ms == FlattenSeq(groups)
           events == EmitChangeEvents(old, new)
           Of(f) == ModifiedEvents(f, old[f], new[f])
<1>1. /\ A \subseteq DOMAIN new /\ D \subseteq DOMAIN old /\ M \subseteq DOMAIN old \intersect DOMAIN new
      /\ DOMAIN old \subseteq Fields /\ DOMAIN new \subseteq Fields
      /\ IsFiniteSet(A) /\ IsFiniteSet(D) /\ IsFiniteSet(M)
  <2>1. IsFiniteSet(Fields) /\ DOMAIN old \subseteq Fields /\ DOMAIN new \subseteq Fields
    BY EntityChangeAssumption
  <2>2. A \subseteq DOMAIN new /\ D \subseteq DOMAIN old /\ M \subseteq DOMAIN old \intersect DOMAIN new
    BY DEF Added, Removed, Modified
  <2>3. A \in SUBSET Fields /\ D \in SUBSET Fields /\ M \in SUBSET Fields
    BY <2>1, <2>2
  <2> HIDE DEF A, D, M
  <2> QED
    BY <2>1, <2>2, <2>3, FS_Subset
<1>2. /\ SetToSeq(A) \in Seq(A) /\ ToSet(SetToSeq(A)) = A
      /\ SetToSeq(D) \in Seq(D) /\ ToSet(SetToSeq(D)) = D
      /\ SetToSeq(M) \in Seq(M) /\ ToSet(SetToSeq(M)) = M
  BY <1>1, SetToSeqHas
<1>3. AddedE \in [A -> Events] /\ RemovedE \in [D -> Events]
  <2>1. \A f \in A : new[f] \in Data
    BY <1>1 DEF Data, Vals
  <2>2. \A f \in D : old[f] \in Data
    BY <1>1 DEF Data, Vals
  <2>3. None \in Data
    BY DEF Data
  <2> QED
    BY <1>1, <2>1, <2>2, <2>3 DEF Event, Events, FieldKinds
<1>4. as \in Seq(Events) /\ ToSet(as) = {AddedE[f] : f \in A}
  <2> HIDE DEF AddedE, A
  <2> QED
    BY <1>2, <1>3, EachEvent
<1>5. ds \in Seq(Events) /\ ToSet(ds) = {RemovedE[f] : f \in D}
  <2> HIDE DEF RemovedE, D
  <2> QED
    BY <1>2, <1>3, EachEvent
<1>6. ms \in Seq(Events) /\ ToSet(ms) = UNION {ToSet(Of(f)) : f \in M}
  <2> DEFINE s == SetToSeq(M)
  <2>1. \A f \in M : Of(f) \in Seq(Events)
    BY ModifiedEventsTell
  <2>2. s \in Seq(M) /\ ToSet(s) = M /\ groups = [i \in DOMAIN s |-> Of(s[i])]
    BY <1>2
  <2> HIDE DEF M, Of, s, groups
  <2>3. Len(s) \in Nat /\ DOMAIN s = 1..Len(s) /\ s \in [1..Len(s) -> M]
    BY <2>2, LenProperties
  <2>4. groups \in [1..Len(s) -> Seq(Events)]
    BY <2>1, <2>2, <2>3
  <2>5. groups \in Seq(Seq(Events)) /\ Len(groups) = Len(s)
    BY <2>3, <2>4
  <2>6. /\ FlattenSeq(groups) \in Seq(Events)
        /\ ToSet(FlattenSeq(groups)) = UNION {ToSet(groups[i]) : i \in 1..Len(groups)}
    BY <2>5, FlattenHas
  <2>7. UNION {ToSet(groups[i]) : i \in 1..Len(groups)} = UNION {ToSet(Of(f)) : f \in M}
    <3>1. \A i \in 1..Len(s) : s[i] \in M /\ groups[i] = Of(s[i])
      BY <2>2, <2>3
    <3>2. \A f \in M : \E i \in 1..Len(s) : f = s[i]
      BY <2>2, <2>3 DEF ToSet
    <3>3. ASSUME NEW x
          PROVE  (\E i \in 1..Len(s) : x \in ToSet(groups[i])) <=> (\E f \in M : x \in ToSet(Of(f)))
      BY <3>1, <3>2
    <3>4. ASSUME NEW x
          PROVE  x \in UNION {ToSet(groups[i]) : i \in 1..Len(groups)} <=>
                   x \in UNION {ToSet(Of(f)) : f \in M}
      BY <2>5, <3>3
    <3> QED
      BY <3>4
  <2> QED
    BY <2>6, <2>7
<1>7. events = (as \o ds) \o ms
  <2>1. as = [i \in DOMAIN SetToSeq(A) |->
                Event("field.added", SetToSeq(A)[i], None, new[SetToSeq(A)[i]])]
    BY <1>2, ElementOfSeq, LenProperties DEF Mapped
  <2>2. ds = [i \in DOMAIN SetToSeq(D) |->
                Event("field.removed", SetToSeq(D)[i], old[SetToSeq(D)[i]], None)]
    BY <1>2, ElementOfSeq, LenProperties DEF Mapped
  <2> HIDE DEF as, ds
  <2> QED
    BY <2>1, <2>2 DEF EmitChangeEvents, EventsOf
<1> HIDE DEF as, ds, ms, events
<1>8. /\ events \in Seq(Events)
      /\ ToSet(events) = ToSet(as) \union ToSet(ds) \union ToSet(ms)
  <2>1. as \in Seq(Events) /\ ds \in Seq(Events) /\ ms \in Seq(Events)
    BY <1>4, <1>5, <1>6
  <2>2. PICK s \in Seq(Events) : s = as \o ds /\ ToSet(s) = ToSet(as) \union ToSet(ds)
    BY <2>1, ConcatHas
  <2>3. s \o ms \in Seq(Events) /\ ToSet(s \o ms) = ToSet(s) \union ToSet(ms)
    BY <2>1, ConcatHas
  <2> QED
    BY <1>7, <2>2, <2>3
<1>9. ASSUME NEW f \in A
      PROVE  LET e == AddedE[f] IN
             /\ e \in ToSet(events) /\ TrueOfField(e, new) /\ TrueOfItem(e, new)
             /\ TellsField(e, f) /\ \A x : TellsItem(e, f, x)
  <2>1. AddedE[f] \in ToSet(events)
    BY <1>4, <1>8
  <2> QED
    BY <1>1, <2>1
    DEF Event, TrueOfField, TrueOfItem, TellsField, TellsItem, FieldKinds, Items
<1>10. ASSUME NEW f \in D
       PROVE  LET e == RemovedE[f] IN
              /\ e \in ToSet(events) /\ TrueOfField(e, new) /\ TrueOfItem(e, new)
              /\ TellsField(e, f) /\ \A x : TellsItem(e, f, x)
  <2>1. RemovedE[f] \in ToSet(events)
    BY <1>5, <1>8
  <2>2. f \notin DOMAIN new
    BY DEF Removed
  <2> QED
    BY <1>1, <2>1, <2>2
    DEF Event, TrueOfField, TrueOfItem, TellsField, TellsItem, FieldKinds, Items
<1>11. ASSUME NEW e \in ToSet(events) PROVE TrueOfField(e, new) /\ TrueOfItem(e, new)
  <2>1. CASE e \in ToSet(as)
    BY <1>4, <1>9, <2>1
  <2>2. CASE e \in ToSet(ds)
    BY <1>5, <1>10, <2>2
  <2>3. CASE e \in ToSet(ms)
    <3>1. PICK f \in M : e \in ToSet(Of(f))
      BY <1>6, <2>3
    <3> QED
      BY <3>1, ModifiedEventsTell
  <2> QED
    BY <1>8, <2>1, <2>2, <2>3
<1>12. ASSUME NEW f \in A \union D \union M PROVE \E e \in ToSet(events) : TellsField(e, f)
  <2>1. CASE f \in M
    <3>1. \E e \in ToSet(Of(f)) : TellsField(e, f)
      BY <2>1, ModifiedEventsTell
    <3>2. ToSet(Of(f)) \subseteq ToSet(events)
      BY <1>6, <1>8, <2>1
    <3> QED
      BY <3>1, <3>2
  <2> QED
    BY <1>9, <1>10, <2>1
<1>13. ASSUME NEW f \in Arrays, NEW x \in Items(old)[f] \union Items(new)[f]
       PROVE  \/ x \in Items(old)[f] /\ x \in Items(new)[f]
              \/ \E e \in ToSet(events) : TellsItem(e, f, x)
  <2>1. CASE f \in M
    <3>1. \/ x \in Items(old)[f] /\ x \in Items(new)[f]
          \/ \E e \in ToSet(Of(f)) : TellsItem(e, f, x)
      BY <2>1, ModifiedEventsTell
    <3>2. ToSet(Of(f)) \subseteq ToSet(events)
      BY <1>6, <1>8, <2>1
    <3> QED
      BY <3>1, <3>2
  <2>2. CASE f \in A
    BY <1>9, <2>2
  <2>3. CASE f \in D
    BY <1>10, <2>3
  <2>4. CASE f \notin A \union D \union M
    <3>1. Items(old)[f] = Items(new)[f]
      BY <2>4 DEF Added, Removed, Modified, Items
    <3> QED
      BY <3>1
  <2> QED
    BY <2>1, <2>2, <2>3, <2>4
<1> QED
  BY <1>8, <1>11, <1>12, <1>13 DEF events

------------------------------------------------------------------------------
(* The document is one of those considered, and the listener has it. *)
Follows == doc \in Documents /\ FieldEventsTellAll /\ ItemEventsTellAll

LEMMA FollowsAlways == Spec => []Follows
<1>1. Init => Follows
  BY DEF Init, Follows, FieldEventsTellAll, ItemEventsTellAll
<1>2. Follows /\ [Next]_vars => Follows'
  <2> SUFFICES ASSUME Follows, [Next]_vars PROVE Follows'
    OBVIOUS
  <2>1. ASSUME NEW new \in Documents, ProcessMongoChange(new) PROVE Follows'
    <3>1. doc \in Documents /\ view = doc /\ items = Items(doc)
      BY DEF Follows, FieldEventsTellAll, ItemEventsTellAll
    <3> DEFINE told == Told([view |-> view, items |-> items], EmitChangeEvents(doc, new))
    <3>2. told = [view |-> new, items |-> Items(new)]
      <4> DEFINE events == EmitChangeEvents(doc, new)
      <4>1. /\ events \in Seq(Events)
            /\ \A e \in ToSet(events) : TrueOfField(e, new) /\ TrueOfItem(e, new)
            /\ \A f \in Added(doc, new) \union Removed(doc, new) \union Modified(doc, new) :
                 \E e \in ToSet(events) : TellsField(e, f)
            /\ \A f \in Arrays : \A x \in Items(doc)[f] \union Items(new)[f] :
                 \/ x \in Items(doc)[f] /\ x \in Items(new)[f]
                 \/ \E e \in ToSet(events) : TellsItem(e, f, x)
        BY <3>1, EventsTell
      <4> HIDE DEF events
      <4>2. Told([view |-> doc, items |-> Items(doc)], events) =
              [view |-> new, items |-> Items(new)]
        BY <3>1, <4>1, ToldAll
      <4> QED
        BY <3>1, <4>2 DEF events
    <3>3. doc' = new /\ view' = told.view /\ items' = told.items
      BY <2>1 DEF ProcessMongoChange
    <3>4. view' = new /\ items' = Items(new)
      BY <3>2, <3>3
    <3>5. Items(doc)' = Items(new)
      BY <3>3 DEF Items
    <3> QED
      BY <3>3, <3>4, <3>5 DEF Follows, FieldEventsTellAll, ItemEventsTellAll
  <2>2. CASE UNCHANGED vars
    BY <2>2 DEF vars, Follows, FieldEventsTellAll, ItemEventsTellAll, Items
  <2> QED
    BY <2>1, <2>2 DEF Next
<1> QED
  BY <1>1, <1>2, PTL DEF Spec

(***************************************************************************)
(* A listener that knows nothing but the events of the fields has the      *)
(* document, after any number of updates, in whichever order the events of *)
(* one update are emitted.                                                 *)
(***************************************************************************)
THEOREM FieldsAreTold == Spec => []FieldEventsTellAll
<1>1. Follows => FieldEventsTellAll
  BY DEF Follows
<1> QED
  BY <1>1, FollowsAlways, PTL

(***************************************************************************)
(* A listener that knows nothing but the events of the items has the items *)
(* of each array, however the array is compared, emptied, filled, dropped  *)
(* and brought back.                                                       *)
(***************************************************************************)
THEOREM ItemsAreTold == Spec => []ItemEventsTellAll
<1>1. Follows => ItemEventsTellAll
  BY DEF Follows
<1> QED
  BY <1>1, FollowsAlways, PTL
==============================================================================
