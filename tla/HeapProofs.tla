----------------------------- MODULE HeapProofs -----------------------------
(***************************************************************************)
(* Proofs about the heap, for any number of objects, shapes, keys, values  *)
(* and sites: nothing a step may follow leads to a cell that was freed,    *)
(* the inline caches tell the truth, layouts are shared, and the heap      *)
(* keeps the promise of PropertyBags.                                      *)
(*                                                                         *)
(* The inductive invariant IInv says of each shape, object and cache that  *)
(* it is as it should be (ShapesOK, ObjectsOK, CachesOK), and of the call  *)
(* under way what it has found out and which of its cells it has rooted    *)
(* (CallOK), which is what keeps them over a collection.                   *)
(***************************************************************************)
EXTENDS Heap, FiniteSetTheorems, SequenceTheorems, WellFoundedInduction, TLAPS

LiveIn(h) == {s \in Shape : h[s] # None}

(* A shape is its parent's and one key more.                               *)
ChildOf(h, s, p, k) ==
  /\ s \in LiveIn(h) \ {Root} /\ p \in LiveIn(h) /\ k \in Key
  /\ h[s].parent = p /\ h[s].key = k
  /\ h[s].keys = Append(h[p].keys, k)
  /\ SlotsOf(h[p].keys, k) = {}

NoRepeats(keys) == \A m, n \in DOMAIN keys : keys[m] = keys[n] => m = n

(* Its parent leads to it, but for the one that has just been made.        *)
ShapesOK ==
  /\ shape \in [Shape -> ShapeCell \cup {None}]
  /\ Root \in Shapes /\ shape[Root].parent = None /\ shape[Root].keys = <<>>
  /\ \A s \in Shapes \ {Root} :
       /\ ChildOf(shape, s, shape[s].parent, shape[s].key)
       /\ \/ shape[shape[s].parent].edges[shape[s].key] = s
          \/ op.at = "edge" /\ s = op.next
  /\ \A s \in Shapes, k \in Key :
       shape[s].edges[k] # None => ChildOf(shape, shape[s].edges[k], s, k)
  /\ \A s \in Shapes : NoRepeats(shape[s].keys)
  /\ OneShapePerLayout

(* An object of a heap of the shapes h and the objects live.               *)
Good(h, live, o) ==
  /\ o \in ObjectCell
  /\ Len(o.slots) = Len(KeysIn(h, o))
  /\ o.shape # None => /\ o.shape \in LiveIn(h)
                       /\ o.keys = <<>>
                       /\ Len(o.slots) <= o.capacity
  /\ \A n \in DOMAIN o.slots : o.slots[n] \in live \cup Datum
ObjectsOK ==
  /\ object \in [Object -> ObjectCell \cup {None}]
  /\ \A o \in Objects : Good(shape, Objects, object[o])

(* What the site s remembers is true.                                      *)
Truth(h, s, c) ==
  IF c.shape = Absent THEN c.added = None
  ELSE /\ c.shape \in LiveIn(h)
       /\ IF c.added = None
          THEN c.slot \in DOMAIN h[c.shape].keys /\ h[c.shape].keys[c.slot] = KeyOf[s]
          ELSE /\ s \notin Reads /\ c.added \in LiveIn(h)
               /\ SlotsOf(h[c.shape].keys, KeyOf[s]) = {}
               /\ c.slot = Len(h[c.shape].keys) + 1
               /\ h[c.added].keys = Append(h[c.shape].keys, KeyOf[s])
CachesOK ==
  /\ cache \in [Site -> Cache]
  /\ \A s \in Site : Truth(shape, s, cache[s])

(* What a way to store or delete has looked for.                           *)
Defining == way = "define"
Allowed(w, o, k) ==
  /\ o.frozen => w \in Bags!Unfrozen
  /\ k \in o.guarded => w \in Bags!Unguarded \cup {"define", "delete"}

(* What a call has rooted, and what it has found out, which stays so until *)
(* it is over.                                                             *)
Carried == Rooted(op.object, op.value)
Pinned ==
  CASE op.at = "child" -> Append(Carried, op.before)
    [] op.at = "edge" -> Append(Append(Carried, op.before), op.next)
    [] op.at = "room" -> Append(Carried, op.next)
    [] op.at = "own" \/ (op.at = "convert" /\ ~Defining) -> Carried
    [] op.at = "delete" -> <<op.object>>
    [] OTHER -> <<>>

Target == object[op.object]
Adding ==
  /\ ~Defining /\ op.before \in Shapes
  /\ Target.shape = op.before
  /\ SlotsOf(shape[op.before].keys, op.key) = {}
  /\ op.at # "room" => shape[op.before].edges[op.key] = None
  /\ op.at # "child" => ChildOf(shape, op.next, op.before, op.key)
CallOK ==
  /\ op \in Call /\ temps = Pinned
  /\ op.at = "idle" => op = Idle
  /\ op.at # "idle" =>
       /\ op.object \in Objects /\ op.key \in Key /\ Allowed(way, Target, op.key)
       /\ op.site # None => op.site \notin Reads /\ op.key = KeyOf[op.site]
       /\ IF op.at = "delete" THEN op.value = None ELSE op.value \in Objects \cup Datum
       /\ op.at \notin {"edge", "room"} => op.next = None
       /\ (way = "delete") = (op.at = "delete")
  /\ op.at \in {"child", "edge", "room"} => Adding
  /\ op.at = "convert" =>
       /\ Target.shape # None
       /\ Defining => op.object \in held /\ op.value \in held \cup Datum
  /\ op.at = "own" => Target.shape = None
  /\ op.at = "delete" => Target.shape # None /\ Has(op.object, op.key)

IInv ==
  /\ ShapesOK /\ ObjectsOK /\ CachesOK /\ CallOK
  /\ held \subseteq Objects /\ way \in Ways /\ calls \in Nat

-----------------------------------------------------------------------------
(* What an operation makes of an object.                                   *)

(* The keys of an object, whichever layout it has.                         *)
LEMMA KeysTyped ==
  ASSUME NEW h \in [Shape -> ShapeCell \cup {None}], NEW o \in ObjectCell,
         o.shape # None => o.shape \in LiveIn(h)
  PROVE  KeysIn(h, o) \in Seq(Key)
  BY HeapAssumption DEF KeysIn, ShapeCell, ObjectCell, LiveIn

(* csShapeLookup finds a place of the key if there is one.                 *)
LEMMA LookupFinds ==
  ASSUME NEW keys, NEW k, SlotsOf(keys, k) # {}
  PROVE  csShapeLookup(keys, k) \in DOMAIN keys /\ keys[csShapeLookup(keys, k)] = k
  BY DEF csShapeLookup, SlotsOf

(* One more key is at the end, if it was not there.                        *)
LEMMA KeyAtEnd ==
  ASSUME NEW keys \in Seq(Key), NEW k \in Key, SlotsOf(keys, k) = {}
  PROVE  /\ SlotsOf(Append(keys, k), k) = {Len(keys) + 1}
         /\ csShapeLookup(Append(keys, k), k) = Len(keys) + 1
         /\ Append(keys, k) # keys
         /\ NoRepeats(keys) => NoRepeats(Append(keys, k))
  <1>1. /\ DOMAIN Append(keys, k) = 1 .. Len(keys) + 1 /\ DOMAIN keys = 1 .. Len(keys)
        /\ \A n \in 1 .. Len(keys) : Append(keys, k)[n] = keys[n]
        /\ Append(keys, k)[Len(keys) + 1] = k /\ Len(keys) \in Nat
    OBVIOUS
  <1>2. SlotsOf(Append(keys, k), k) = {Len(keys) + 1}
    BY <1>1 DEF SlotsOf
  <1>3. csShapeLookup(Append(keys, k), k) = Len(keys) + 1
    BY <1>2 DEF csShapeLookup
  <1> DEFINE longer == Append(keys, k)
  <1>4. Len(longer) = Len(keys) + 1 /\ Len(keys) \in Nat
    OBVIOUS
  <1> HIDE DEF longer
  <1>5. longer # keys
    BY <1>4
  <1>6. ASSUME NoRepeats(keys), NEW m \in 1 .. Len(keys) + 1, NEW n \in 1 .. Len(keys) + 1,
               longer[m] = longer[n]
        PROVE  m = n
    <2>1. \A i \in 1 .. Len(keys) + 1 : i \in 1 .. Len(keys) \/ i = Len(keys) + 1
      BY <1>1
    <2>2. \A i \in 1 .. Len(keys) : longer[i] = keys[i] /\ keys[i] # k
      BY <1>1 DEF longer, SlotsOf
    <2>3. longer[Len(keys) + 1] = k
      BY <1>1 DEF longer
    <2> QED BY <1>1, <1>6, <2>1, <2>2, <2>3 DEF NoRepeats
  <1>7. NoRepeats(keys) => NoRepeats(longer)
    BY <1>1, <1>6 DEF NoRepeats, longer
  <1> QED BY <1>2, <1>3, <1>5, <1>7 DEF longer

LEMMA FreshGood ==
  ASSUME NEW h \in [Shape -> ShapeCell \cup {None}], NEW live,
         Root \in LiveIn(h), h[Root].keys = <<>>
  PROVE  Good(h, live, Fresh)
  BY HeapAssumption DEF Good, Fresh, KeysIn, ObjectCell, LiveIn

LEMMA ConvertGood ==
  ASSUME NEW live, ShapesOK, NEW o, Good(shape, live, o)
  PROVE  /\ Good(shape, live, convertToDictionary(o))
         /\ convertToDictionary(o).shape = None
         /\ convertToDictionary(o).keys = KeysIn(shape, o)
  BY KeysTyped, HeapAssumption DEF ShapesOK, Good, convertToDictionary, KeysIn, ObjectCell

(* Elements of a sequence replaced by a value.                             *)
LEMMA Overwriting ==
  ASSUME NEW S, NEW V \in SUBSET S, NEW seq \in Seq(S), \A n \in DOMAIN seq : seq[n] \in V,
         NEW v \in V, NEW places
  PROVE  LET new == [n \in DOMAIN seq |-> IF n \in places THEN v ELSE seq[n]] IN
         /\ new \in Seq(S) /\ Len(new) = Len(seq)
         /\ \A n \in DOMAIN new : new[n] \in V
  <1> DEFINE new == [n \in DOMAIN seq |-> IF n \in places THEN v ELSE seq[n]]
  <1>1. Len(seq) \in Nat /\ DOMAIN seq = 1 .. Len(seq)
    OBVIOUS
  <1>2. \A n \in DOMAIN seq : (IF n \in places THEN v ELSE seq[n]) \in V
    OBVIOUS
  <1>3. new \in [1 .. Len(seq) -> S] /\ \A n \in DOMAIN new : new[n] \in V
    BY <1>1, <1>2
  <1> HIDE DEF new
  <1>4. new \in Seq(S) /\ Len(new) = Len(seq)
    BY <1>1, <1>3
  <1> QED BY <1>3, <1>4 DEF new

LEMMA PutGood ==
  ASSUME NEW live \in SUBSET Object, ShapesOK, NEW o, Good(shape, live, o), NEW k \in Key,
         NEW v \in live \cup Datum,
         o.shape = None \/ SlotsOf(KeysIn(shape, o), k) # {}
  PROVE  /\ Good(shape, live, dictionaryPut(o, k, v))
         /\ dictionaryPut(o, k, v).shape = o.shape
         /\ dictionaryPut(o, k, v).frozen = o.frozen
         /\ dictionaryPut(o, k, v).guarded = o.guarded
  <1> DEFINE places == SlotsOf(KeysIn(shape, o), k)
             p == dictionaryPut(o, k, v)
  <1>1. o \in ObjectCell /\ KeysIn(shape, o) \in Seq(Key)
    BY KeysTyped DEF ShapesOK, Good
  <1>2. CASE places = {}
    <2> DEFINE keys == Append(o.keys, k)
               slots == Append(o.slots, v)
    <2>0. keys \in Seq(Key) /\ slots \in Seq(Object \cup Datum)
      BY <1>1 DEF ObjectCell
    <2>1. p = [o EXCEPT !.keys = keys, !.slots = slots] /\ o.shape = None
      BY <1>1, <1>2 DEF dictionaryPut, ObjectCell
    <2> HIDE DEF keys, slots, p
    <2>2. p \in ObjectCell /\ p.shape = None /\ p.keys = keys /\ p.slots = slots
          /\ p.frozen = o.frozen /\ p.guarded = o.guarded
      BY <1>1, <2>0, <2>1 DEF ObjectCell
    <2>3. Len(p.slots) = Len(KeysIn(shape, p))
      BY <1>1, <2>1, <2>2 DEF Good, KeysIn, ObjectCell, keys, slots
    <2>4. \A n \in DOMAIN p.slots : p.slots[n] \in live \cup Datum
      BY <1>1, <2>2 DEF Good, ObjectCell, slots
    <2>5. Good(shape, live, p)
      BY <2>2, <2>3, <2>4 DEF Good
    <2> QED BY <2>1, <2>2, <2>5 DEF p
  <1>3. CASE places # {}
    <2> DEFINE new == [n \in DOMAIN o.slots |-> IF n \in places THEN v ELSE o.slots[n]]
    <2>1. p = [o EXCEPT !.slots = new]
      BY <1>3, <1>1 DEF dictionaryPut, ObjectCell
    <2>2. /\ new \in Seq(Object \cup Datum) /\ Len(new) = Len(o.slots)
          /\ \A n \in DOMAIN new : new[n] \in live \cup Datum
      <3> DEFINE V == live \cup Datum
                 S == Object \cup Datum
                 seq == o.slots
      <3>1. seq \in Seq(S) /\ V \in SUBSET S
        BY <1>1 DEF ObjectCell
      <3>2. \A n \in DOMAIN seq : seq[n] \in V
        BY DEF Good
      <3>3. v \in V
        OBVIOUS
      <3> HIDE DEF V, S, seq, places
      <3>4. /\ [n \in DOMAIN seq |-> IF n \in places THEN v ELSE seq[n]] \in Seq(S)
            /\ Len([n \in DOMAIN seq |-> IF n \in places THEN v ELSE seq[n]]) = Len(seq)
            /\ \A n \in DOMAIN [n \in DOMAIN seq |-> IF n \in places THEN v ELSE seq[n]] :
                 [m \in DOMAIN seq |-> IF m \in places THEN v ELSE seq[m]][n] \in V
        BY <3>1, <3>2, <3>3, Overwriting
      <3> QED BY <3>4 DEF V, S, seq
    <2> HIDE DEF new
    <2>3. p \in ObjectCell /\ p.shape = o.shape /\ p.keys = o.keys /\ p.slots = new
          /\ p.capacity = o.capacity /\ p.frozen = o.frozen /\ p.guarded = o.guarded
      BY <1>1, <2>1, <2>2 DEF ObjectCell
    <2>4. KeysIn(shape, p) = KeysIn(shape, o)
      BY <2>3 DEF KeysIn
    <2> QED BY <2>2, <2>3, <2>4 DEF Good
  <1> QED BY <1>2, <1>3

(* Taking an element out of a sequence.                                    *)
LEMMA MovingUp ==
  ASSUME NEW S, NEW seq \in Seq(S), NEW n \in DOMAIN seq
  PROVE  /\ MovedUp(seq, n) \in Seq(S)
         /\ Len(MovedUp(seq, n)) = Len(seq) - 1
         /\ DOMAIN MovedUp(seq, n) = 1 .. Len(seq) - 1
         /\ \A m \in 1 .. Len(seq) - 1 :
              MovedUp(seq, n)[m] = IF m < n THEN seq[m] ELSE seq[m + 1]
  <1>1. Len(seq) \in Nat \ {0} /\ n \in 1 .. Len(seq) /\ \A m \in 1 .. Len(seq) : seq[m] \in S
    OBVIOUS
  <1>2. \A m \in 1 .. Len(seq) - 1 : m \in 1 .. Len(seq) /\ m + 1 \in 1 .. Len(seq)
    BY <1>1
  <1>3. \A m \in 1 .. Len(seq) - 1 : (IF m < n THEN seq[m] ELSE seq[m + 1]) \in S
    BY <1>1, <1>2
  <1>4. Len(seq) - 1 \in Nat
    BY <1>1
  <1> QED BY <1>3, <1>4 DEF MovedUp

LEMMA DeleteGood ==
  ASSUME NEW live, NEW o, Good(shape, live, o), o.shape = None, NEW k, SlotsOf(o.keys, k) # {}
  PROVE  /\ Good(shape, live, csObjectDelete(o, k))
         /\ csObjectDelete(o, k).shape = None
  <1> DEFINE n == csShapeLookup(o.keys, k)
             p == csObjectDelete(o, k)
  <1>1. o \in ObjectCell /\ Len(o.slots) = Len(o.keys)
    BY DEF Good, KeysIn
  <1>2. n \in DOMAIN o.keys /\ n \in DOMAIN o.slots
    BY LookupFinds, <1>1 DEF ObjectCell
  <1> HIDE DEF n
  <1>3. /\ MovedUp(o.keys, n) \in Seq(Key) /\ MovedUp(o.slots, n) \in Seq(Object \cup Datum)
        /\ Len(MovedUp(o.keys, n)) = Len(MovedUp(o.slots, n))
        /\ \A m \in DOMAIN MovedUp(o.slots, n) : MovedUp(o.slots, n)[m] \in live \cup Datum
    <2>1. o.keys \in Seq(Key) /\ o.slots \in Seq(Object \cup Datum)
      BY <1>1 DEF ObjectCell
    <2>2. /\ MovedUp(o.keys, n) \in Seq(Key) /\ MovedUp(o.slots, n) \in Seq(Object \cup Datum)
          /\ Len(MovedUp(o.keys, n)) = Len(MovedUp(o.slots, n))
      BY <2>1, <1>1, <1>2, MovingUp
    <2>3. ASSUME NEW m \in DOMAIN MovedUp(o.slots, n)
          PROVE  MovedUp(o.slots, n)[m] \in live \cup Datum
      <3>0. DOMAIN MovedUp(o.slots, n) = 1 .. Len(o.slots) - 1
        BY <2>1, <1>2, MovingUp
      <3>1. m \in 1 .. Len(o.slots) - 1 /\ Len(o.slots) \in Nat /\ DOMAIN o.slots = 1 .. Len(o.slots)
        BY <2>1, <2>3, <3>0, LenProperties
      <3>2. m \in DOMAIN o.slots /\ m + 1 \in DOMAIN o.slots
        BY <3>1
      <3>3. MovedUp(o.slots, n)[m] = IF m < n THEN o.slots[m] ELSE o.slots[m + 1]
        BY <3>1, <2>1, <1>2, MovingUp
      <3> QED BY <3>2, <3>3 DEF Good
    <2> QED BY <2>2, <2>3
  <1>4. p = [o EXCEPT !.keys = MovedUp(o.keys, n), !.slots = MovedUp(o.slots, n)]
    BY <1>1 DEF csObjectDelete, n, ObjectCell
  <1>5. p \in ObjectCell /\ p.shape = None /\ p.keys = MovedUp(o.keys, n)
        /\ p.slots = MovedUp(o.slots, n)
    BY <1>1, <1>3, <1>4 DEF ObjectCell
  <1> QED BY <1>3, <1>5 DEF Good, KeysIn

(* An object in shape mode gets one more property: room is made if need be,*)
(* the value goes in, and the object adopts the shape with the key.        *)
LEMMA AdoptGood ==
  ASSUME NEW live \in SUBSET Object, ShapesOK, NEW o, Good(shape, live, o),
         NEW v \in live \cup Datum, NEW k \in Key, NEW s \in Shapes, o.shape # None,
         shape[s].keys = Append(KeysIn(shape, o), k),
         NEW p \in ObjectCell, p.shape = s, p.keys = o.keys, p.slots = Append(o.slots, v),
         p.capacity >= Len(o.slots) + 1
  PROVE  Good(shape, live, p)
  <1>1. o \in ObjectCell /\ KeysIn(shape, o) \in Seq(Key) /\ s \in Shape /\ s # None
    BY KeysTyped, HeapAssumption DEF ShapesOK, Good, Shapes
  <1>2. /\ Len(p.slots) = Len(o.slots) + 1
        /\ \A n \in DOMAIN p.slots : p.slots[n] \in live \cup Datum
    BY <1>1, SMTT(30) DEF ObjectCell, Good
  <1>3. KeysIn(shape, p) = Append(KeysIn(shape, o), k)
        /\ Len(KeysIn(shape, p)) = Len(KeysIn(shape, o)) + 1
    <2>1. KeysIn(shape, p) = Append(KeysIn(shape, o), k)
      BY <1>1 DEF KeysIn
    <2> QED BY <1>1, <2>1
  <1> QED BY <1>1, <1>2, <1>3 DEF Good, LiveIn, Shapes

-----------------------------------------------------------------------------
(* What a site learns, and what a call roots.                              *)

LEMMA LearntTruth ==
  ASSUME ShapesOK, CachesOK, NEW k \in Key,
         NEW s, s = None \/ (s \in Site \ Reads /\ k = KeyOf[s]),
         NEW before, NEW o,
         o.shape # None =>
           /\ o.shape \in Shapes
           /\ \/ before = o.shape /\ SlotsOf(shape[before].keys, k) # {}
              \/ /\ before \in Shapes /\ SlotsOf(shape[before].keys, k) = {}
                 /\ shape[o.shape].keys = Append(shape[before].keys, k)
  PROVE  /\ Learnt(s, before, o, k) \in [Site -> Cache]
         /\ \A t \in Site : Truth(shape, t, Learnt(s, before, o, k)[t])
  <1>1. CASE s = None \/ o.shape = None
    BY <1>1 DEF Learnt, CachesOK
  <1>2. CASE s # None /\ o.shape # None
    <2> DEFINE keys == shape[before].keys
               slot == csShapeLookup(shape[o.shape].keys, k)
               c == [shape |-> before, added |-> IF before = o.shape THEN None ELSE o.shape,
                     slot |-> slot]
    <2>1. Learnt(s, before, o, k) = [cache EXCEPT ![s] = c] /\ s \in Site \ Reads /\ k = KeyOf[s]
      BY <1>2 DEF Learnt
    <2>2. o.shape \in Shapes /\ before \in Shapes /\ before # None /\ before # Absent
          /\ o.shape # None
      BY <1>2, HeapAssumption DEF Shapes
    <2>3. keys \in Seq(Key) /\ shape[o.shape].keys \in Seq(Key)
      BY <2>2 DEF ShapesOK, ShapeCell, Shapes
    <2>4. c \in Cache /\ Truth(shape, s, c)
      <3>1. CASE before = o.shape /\ SlotsOf(keys, k) # {}
        <4>1. slot \in DOMAIN keys /\ keys[slot] = k
          BY <3>1, LookupFinds
        <4>2. slot \in Nat
          BY <4>1, <2>3
        <4> HIDE DEF slot
        <4> QED BY <4>1, <4>2, <2>1, <2>2, <3>1 DEF Cache, Truth, LiveIn, Shapes
      <3>2. CASE SlotsOf(keys, k) = {} /\ shape[o.shape].keys = Append(keys, k)
        <4>1. slot = Len(keys) + 1 /\ Append(keys, k) # keys
          BY <3>2, <2>3, KeyAtEnd
        <4>2. slot \in Nat
          BY <4>1, <2>3
        <4>3. before # o.shape
          BY <3>2, <4>1
        <4> HIDE DEF slot
        <4> QED BY <4>1, <4>2, <4>3, <2>1, <2>2, <3>2 DEF Cache, Truth, LiveIn, Shapes
      <3> QED BY <1>2, <3>1, <3>2
    <2> HIDE DEF c
    <2> QED BY <2>1, <2>4 DEF CachesOK
  <1> QED BY <1>1, <1>2

(* What is pushed on the list of roots and popped again.                   *)
LEMMA Popping ==
  ASSUME NEW S, NEW r \in Seq(S), NEW a \in S
  PROVE  SubSeq(Append(r, a), 1, Len(r)) = r
  <1> DEFINE longer == Append(r, a)
  <1>1. /\ longer \in Seq(S) /\ Len(longer) = Len(r) + 1 /\ Len(r) \in Nat
        /\ \A i \in 1 .. Len(r) : longer[i] = r[i]
    BY AppendProperties, LenProperties
  <1> HIDE DEF longer
  <1>2. \A i \in 1 .. Len(r) : longer[i] \in S
    BY <1>1, ElementOfSeq
  <1>3. /\ SubSeq(longer, 1, Len(r)) \in Seq(S)
        /\ Len(SubSeq(longer, 1, Len(r))) = Len(r)
        /\ \A i \in 1 .. Len(r) : SubSeq(longer, 1, Len(r))[i] = longer[i]
    BY <1>1, <1>2, SubSeqProperties
  <1>4. SubSeq(longer, 1, Len(r)) = r
    BY <1>1, <1>3, SeqEqual
  <1> QED BY <1>4 DEF longer

LEMMA PoppingTwo ==
  ASSUME NEW S, NEW r \in Seq(S), NEW a \in S, NEW b \in S
  PROVE  SubSeq(Append(Append(r, a), b), 1, Len(r)) = r
  <1> DEFINE longer == Append(r, a)
             longest == Append(longer, b)
  <1>1. /\ longer \in Seq(S) /\ Len(longer) = Len(r) + 1 /\ Len(r) \in Nat
        /\ \A i \in 1 .. Len(r) : longer[i] = r[i]
    BY AppendProperties, LenProperties
  <1> HIDE DEF longer
  <1>2. /\ longest \in Seq(S) /\ Len(longest) = Len(longer) + 1
        /\ \A i \in 1 .. Len(longer) : longest[i] = longer[i]
    BY <1>1, AppendProperties
  <1> HIDE DEF longest
  <1>3. \A i \in 1 .. Len(r) : longest[i] = r[i] /\ longest[i] \in S
    BY <1>1, <1>2, ElementOfSeq
  <1>4. /\ SubSeq(longest, 1, Len(r)) \in Seq(S)
        /\ Len(SubSeq(longest, 1, Len(r))) = Len(r)
        /\ \A i \in 1 .. Len(r) : SubSeq(longest, 1, Len(r))[i] = longest[i]
    BY <1>1, <1>3, SubSeqProperties
  <1>5. SubSeq(longest, 1, Len(r)) = r
    BY <1>1, <1>3, <1>4, SeqEqual
  <1> QED BY <1>5 DEF longer, longest

LEMMA RootedTyped ==
  ASSUME NEW S, NEW o \in S, NEW v, v \in Object => v \in S
  PROVE  Rooted(o, v) \in Seq(S)
  BY DEF Rooted

-----------------------------------------------------------------------------
(* What a step leaves as it was.                                           *)

LEMMA ShapesStay ==
  ASSUME ShapesOK, shape' = shape, op.at # "edge"
  PROVE  ShapesOK' /\ Shapes' = Shapes
  BY DEF ShapesOK, OneShapePerLayout, Shapes

LEMMA ObjectsStay ==
  ASSUME ObjectsOK, shape' = shape, object' = object
  PROVE  ObjectsOK' /\ Objects' = Objects
  BY DEF ObjectsOK, Objects

LEMMA ObjectChanges ==
  ASSUME ObjectsOK, shape' = shape, NEW t \in Objects,
         NEW o, Good(shape, Objects, o), object' = [object EXCEPT ![t] = o]
  PROVE  /\ ObjectsOK' /\ Objects' = Objects
         /\ object'[t] = o /\ \A u \in Object \ {t} : object'[u] = object[u]
  <1>1. o \in ObjectCell /\ o # None /\ t \in Object
    BY HeapAssumption DEF Good, Objects
  <1>2. /\ object' \in [Object -> ObjectCell \cup {None}]
        /\ object'[t] = o /\ \A u \in Object \ {t} : object'[u] = object[u]
    BY <1>1 DEF ObjectsOK
  <1>3. Objects' = Objects
    BY <1>1, <1>2 DEF Objects
  <1>4. \A u \in Objects : Good(shape, Objects, object'[u])
    BY <1>2 DEF ObjectsOK, Objects
  <1>5. ObjectsOK'
    BY <1>2, <1>3, <1>4 DEF ObjectsOK
  <1> QED BY <1>2, <1>3, <1>5

LEMMA CachesStay ==
  ASSUME CachesOK, shape' = shape, cache' = cache
  PROVE  CachesOK'
  BY DEF CachesOK

(* A call is over, or none is under way.                                   *)
LEMMA CallEnds ==
  ASSUME temps' = <<>>, op' = Idle
  PROVE  CallOK'
  <1>1. /\ op'.at = "idle" /\ op' \in Call
        /\ op' = [at |-> "idle", site |-> None, object |-> None, key |-> None, value |-> None,
                  before |-> None, next |-> None]
    BY DEF Idle, Call, Phases
  <1>2. Pinned' = <<>>
    BY <1>1 DEF Pinned
  <1> QED BY <1>1, <1>2 DEF CallOK

LEMMA NoneCalled ==
  ASSUME CallOK, ~Calling
  PROVE  op = Idle /\ temps = <<>> /\ op.at = "idle"
  BY DEF CallOK, Calling, Pinned

(* The first roots of a call.                                              *)
LEMMA Rooting ==
  ASSUME temps = <<>>, NEW o, NEW v, NEW x
  PROVE  /\ temps \o Rooted(o, v) = Rooted(o, v)
         /\ (temps \o Rooted(o, v)) \o <<>> = Rooted(o, v)
         /\ (temps \o Rooted(o, v)) \o <<x>> = Append(Rooted(o, v), x)
  <1> DEFINE S == {o, v, x}
             r == Rooted(o, v)
  <1>1. r \in Seq(S) /\ x \in S
    BY RootedTyped
  <1> HIDE DEF S, r
  <1>2. r \o <<>> = r /\ <<>> \o r = r
    BY <1>1, ConcatEmptySeq
  <1>3. Append(r, x) = r \o <<x>>
    BY <1>1, AppendIsConcat
  <1> QED BY <1>2, <1>3 DEF r

-----------------------------------------------------------------------------
(* The invariant holds at first and after every step.                      *)

LEMMA InitOK == Init => IInv
  <1> SUFFICES ASSUME Init
               PROVE  IInv
    OBVIOUS
  <1>1. ShapesOK
    <2> DEFINE first == [parent |-> None, key |-> None, keys |-> <<>>, edges |-> NoEdges]
    <2>0. first \in ShapeCell /\ first # None /\ first.edges = NoEdges
          /\ first.parent = None /\ first.keys = <<>>
      <3>1. <<>> \in Seq(Key)
        OBVIOUS
      <3>2. NoEdges \in [Key -> Shape \cup {None}]
        BY DEF NoEdges
      <3>3. first \in ShapeCell
        BY <3>1, <3>2 DEF ShapeCell
      <3>4. first # None
        BY <3>3, HeapAssumption
      <3> QED BY <3>3, <3>4
    <2>1. /\ shape \in [Shape -> ShapeCell \cup {None}] /\ Shapes = {Root}
          /\ shape[Root] = first
      <3>1. shape = [s \in Shape |-> IF s = Root THEN first ELSE None]
        BY DEF Init
      <3> HIDE DEF first
      <3> QED BY <2>0, <3>1, HeapAssumption DEF Shapes
    <2> HIDE DEF first
    <2> QED BY <2>0, <2>1 DEF ShapesOK, OneShapePerLayout, NoEdges, NoRepeats
  <1>2. ObjectsOK /\ Objects = {}
    BY DEF Init, ObjectsOK, Objects
  <1>3. CachesOK
    BY DEF Init, CachesOK, EmptyCache, Cache, Truth
  <1>4. CallOK
    BY DEF Init, CallOK, Idle, Call, Phases, Pinned, Defining
  <1> QED BY <1>1, <1>2, <1>3, <1>4 DEF Init, IInv, Ways

LEMMA NewOK ==
  ASSUME IInv, NEW o \in Object, New(o)
  PROVE  IInv'
  <1> USE DEF IInv, New, Called
  <1>1. op = Idle /\ temps = <<>> /\ op.at = "idle"
    BY NoneCalled
  <1>2. ShapesOK' /\ CachesOK' /\ CallOK'
    BY <1>1, ShapesStay, CachesStay, CallEnds
  <1>3. Good(shape, Objects \cup {o}, Fresh)
    BY FreshGood, HeapAssumption DEF ShapesOK, LiveIn, Shapes
  <1>4. Fresh \in ObjectCell /\ Fresh # None
    BY <1>3, HeapAssumption DEF Good
  <1>5. /\ object' \in [Object -> ObjectCell \cup {None}] /\ object'[o] = Fresh
        /\ \A u \in Object \ {o} : object'[u] = object[u]
    BY <1>4 DEF ObjectsOK
  <1>6. Objects' = Objects \cup {o}
    BY <1>4, <1>5 DEF Objects
  <1>7. \A u \in Objects : Good(shape, Objects \cup {o}, object[u])
    BY DEF ObjectsOK, Good
  <1>8. ObjectsOK'
    BY <1>3, <1>5, <1>6, <1>7 DEF ObjectsOK, Objects
  <1>10. held' \subseteq Objects' /\ way' \in Ways /\ calls' \in Nat
    BY <1>6
  <1> QED BY <1>2, <1>8, <1>10

LEMMA DropOK ==
  ASSUME IInv, NEW o \in Object, Drop(o)
  PROVE  IInv'
  <1> USE DEF IInv, Drop
  <1>1. op = Idle /\ temps = <<>> /\ op.at = "idle"
    BY NoneCalled
  <1>2. ShapesOK' /\ CachesOK' /\ CallOK' /\ ObjectsOK' /\ Objects' = Objects
    BY <1>1, ShapesStay, CachesStay, CallEnds, ObjectsStay
  <1> QED BY <1>2

(* What a slot of a live object holds is live, if it is an object.         *)
LEMMA SlotLive ==
  ASSUME IInv, NEW o \in Objects, NEW n \in DOMAIN KeysOf(o)
  PROVE  n \in DOMAIN object[o].slots /\ object[o].slots[n] \in Objects \cup Datum
  <1>1. Good(shape, Objects, object[o])
    BY DEF IInv, ObjectsOK
  <1>2. KeysOf(o) \in Seq(Key)
    BY <1>1, KeysTyped DEF KeysOf, Good, IInv, ShapesOK
  <1>3. n \in DOMAIN object[o].slots
    BY <1>1, <1>2 DEF Good, KeysOf, ObjectCell
  <1> QED BY <1>1, <1>3 DEF Good

(* A site that hits has a shape, and the object has it too.                *)
LEMMA HitIsTrue ==
  ASSUME IInv, NEW o \in Objects, NEW s \in Site, Hits(s, o)
  PROVE  /\ object[o].shape # None /\ object[o].shape \in Shapes
         /\ KeysOf(o) = shape[cache[s].shape].keys
         /\ cache[s].shape # Absent
         /\ Truth(shape, s, cache[s])
  <1>1. Good(shape, Objects, object[o]) /\ Truth(shape, s, cache[s]) /\ cache[s] \in Cache
    BY DEF IInv, ObjectsOK, CachesOK
  <1>2. object[o].shape # None
    BY <1>1, HeapAssumption DEF Cache, Hits
  <1>3. object[o].shape \in Shapes /\ object[o].shape # Absent
    BY <1>1, <1>2, HeapAssumption DEF Good, LiveIn, Shapes
  <1> QED BY <1>1, <1>2, <1>3 DEF Hits, KeysOf, KeysIn

LEMMA CacheTurns ==
  ASSUME NEW c \in Cache, NEW x, NEW y
  PROVE  [c EXCEPT !.shape = x, !.slot = y] = [shape |-> x, added |-> c.added, slot |-> y]
  <1> DEFINE d == [c EXCEPT !.shape = x]
             e == [d EXCEPT !.slot = y]
  <1>1. d = [shape |-> x, added |-> c.added, slot |-> c.slot]
    BY DEF Cache
  <1> HIDE DEF d
  <1>2. e = [shape |-> x, added |-> c.added, slot |-> y]
    BY <1>1
  <1> QED BY <1>2 DEF d

LEMMA ReadOK ==
  ASSUME IInv, NEW s \in Site, NEW o \in Object, Read(s, o)
  PROVE  IInv'
  <1> USE DEF IInv, Called
  <1>1. op = Idle /\ temps = <<>> /\ op.at = "idle" /\ o \in Objects /\ s \in Reads
    BY NoneCalled DEF Read
  <1>2. UNCHANGED <<shape, object, temps, op>> /\ way' \in Ways /\ calls' \in Nat
    BY DEF Read
  <1>3. ShapesOK' /\ CallOK' /\ ObjectsOK' /\ Objects' = Objects
    BY <1>1, <1>2, ShapesStay, CallEnds, ObjectsStay
  <1>4. CASE Hits(s, o)
    <2>1. cache' = cache /\ held' = held \cup ({object[o].slots[cache[s].slot]} \cap Object)
      BY <1>4 DEF Read
    <2>2. Truth(shape, s, cache[s]) /\ cache[s].shape # Absent
          /\ KeysOf(o) = shape[cache[s].shape].keys
      BY <1>1, <1>4, HitIsTrue
    <2>3. cache[s].slot \in DOMAIN KeysOf(o)
      BY <1>1, <2>2 DEF Truth
    <2>4. object[o].slots[cache[s].slot] \in Objects \cup Datum
      BY <1>1, <2>3, SlotLive
    <2>5. held' \subseteq Objects
      BY <2>1, <2>4, HeapAssumption
    <2> QED BY <1>2, <1>3, <2>1, <2>5, CachesStay
  <1>5. CASE ~Hits(s, o) /\ Has(o, KeyOf[s])
    <2> DEFINE slot == csShapeLookup(KeysOf(o), KeyOf[s])
    <2>1. slot \in DOMAIN KeysOf(o) /\ KeysOf(o)[slot] = KeyOf[s]
      BY <1>5, LookupFinds DEF Has
    <2>2. object[o].slots[slot] \in Objects \cup Datum
      BY <1>1, <2>1, SlotLive
    <2> HIDE DEF slot
    <2>3. /\ held' = held \cup ({object[o].slots[slot]} \cap Object)
          /\ cache' = IF object[o].shape = None THEN cache
                      ELSE [cache EXCEPT ![s].shape = object[o].shape, ![s].slot = slot]
      BY <1>5 DEF Read, slot
    <2>4. held' \subseteq Objects
      BY <2>2, <2>3, HeapAssumption
    <2>5. CachesOK'
      <3>1. CASE object[o].shape = None
        BY <3>1, <2>3, <1>2, CachesStay
      <3>2. CASE object[o].shape # None
        <4> DEFINE c == [shape |-> object[o].shape, added |-> None, slot |-> slot]
        <4>1. cache[s] \in Cache /\ cache[s].added = None
          BY <1>1 DEF CachesOK, Truth
        <4>2. /\ cache'[s] = c /\ cache' \in [Site -> {cache[t] : t \in Site} \cup {c}]
              /\ \A t \in Site \ {s} : cache'[t] = cache[t]
          <5>1. cache' = [cache EXCEPT ![s] = [@ EXCEPT !.shape = object[o].shape, !.slot = slot]]
            BY <3>2, <2>3 DEF CachesOK
          <5>2. [cache[s] EXCEPT !.shape = object[o].shape, !.slot = slot] = c
            BY <4>1, CacheTurns
          <5> HIDE DEF c
          <5> QED BY <5>1, <5>2 DEF CachesOK
        <4>3. object[o].shape \in Shapes /\ KeysOf(o) = shape[object[o].shape].keys
              /\ KeysOf(o) \in Seq(Key)
          BY <1>1, <3>2, KeysTyped DEF ObjectsOK, Good, KeysOf, KeysIn, ShapesOK, LiveIn, Shapes
        <4>4. c \in Cache /\ Truth(shape, s, c)
          BY <4>3, <2>1, HeapAssumption DEF Cache, Truth, Shapes, LiveIn
        <4> HIDE DEF c
        <4> QED BY <1>2, <4>2, <4>4 DEF CachesOK
      <3> QED BY <3>1, <3>2
    <2> QED BY <1>2, <1>3, <2>4, <2>5
  <1> QED BY <1>4, <1>5 DEF Read

(* What can be stored is there.                                            *)
LEMMA AvailableLive ==
  ASSUME IInv, NEW v \in Available
  PROVE  v \in Objects \cup Datum /\ v \in held \cup Datum
  BY DEF Available, IInv

(* A call with all its parts, one by one.                                  *)
IsCall(c, at, s, o, k, v, before, next) ==
  c \in [at : {at}, site : {s}, object : {o}, key : {k}, value : {v}, before : {before},
         next : {next}]

LEMMA StartedParts ==
  ASSUME NEW at, NEW s, NEW o, NEW k, NEW v
  PROVE  LET c == Started(at, s, o, k, v)
         IN /\ IsCall(c, at, s, o, k, v, object[o].shape, None)
            /\ IsCall([c EXCEPT !.at = "convert"], "convert", s, o, k, v, object[o].shape, None)
            /\ \A next : IsCall([c EXCEPT !.at = "room", !.next = next], "room", s, o, k, v,
                               object[o].shape, next)
  BY DEF Started, IsCall

(* A call that starts, in any phase it may start in.                       *)
LEMMA CallStarts ==
  ASSUME NEW at \in {"child", "room", "convert", "own"}, NEW s \in (Site \ Reads) \cup {None},
         NEW o \in Objects, NEW k \in Key, NEW v \in Objects \cup Datum,
         NEW next,
         s # None => k = KeyOf[s],
         ShapesOK, ObjectsOK, object[o].shape \in Shapes \cup {None},
         UNCHANGED <<shape, object>>,
         Allowed(way', object[o], k), way' # "delete",
         at \in {"child", "room"} =>
           /\ ~Defining' /\ object[o].shape \in Shapes
           /\ SlotsOf(shape[object[o].shape].keys, k) = {},
         at = "child" => next = None /\ shape[object[o].shape].edges[k] = None
                         /\ temps' = Append(Rooted(o, v), object[o].shape),
         at = "room" => ChildOf(shape, next, object[o].shape, k)
                        /\ temps' = Append(Rooted(o, v), next),
         at = "convert" => /\ next = None /\ object[o].shape # None
                           /\ IF Defining' THEN o \in held' /\ v \in held' \cup Datum /\ temps' = <<>>
                              ELSE temps' = Rooted(o, v),
         at = "own" => next = None /\ object[o].shape = None /\ temps' = Rooted(o, v),
         IsCall(op', at, s, o, k, v, object[o].shape, next)
  PROVE  CallOK'
  <1>1. /\ op'.at = at /\ op'.site = s /\ op'.object = o /\ op'.key = k /\ op'.value = v
        /\ op'.before = object[o].shape /\ op'.next = next
    BY DEF IsCall
  <1>2. next \in Shape \cup {None}
    BY DEF ChildOf, LiveIn
  <1>3. op' \in Call
    <2>1. /\ at \in Phases /\ s \in Site \cup {None} /\ o \in Object /\ v \in Value
          /\ object[o].shape \in Shape \cup {None}
      BY DEF Phases, Value, Objects, Shapes
    <2> QED BY <1>2, <2>1 DEF Call, IsCall
  <1>4. Carried' = Rooted(o, v)
    BY <1>1 DEF Carried
  <1>5. temps' = Pinned'
    BY <1>1, <1>4 DEF Pinned
  <1>6. at \in {"child", "room"} => Adding'
    BY <1>1 DEF Adding, Target, Shapes
  <1>7. Shapes' = Shapes /\ Objects' = Objects /\ Target' = object[o]
    BY <1>1 DEF Shapes, Objects, Target
  <1> QED BY <1>1, <1>3, <1>5, <1>6, <1>7 DEF CallOK

(* csObjectPut, whoever calls it.                                          *)
LEMMA PutCalled ==
  ASSUME IInv, op = Idle, temps = <<>>, NEW s \in (Site \ Reads) \cup {None},
         NEW o \in Objects, NEW k \in Key, NEW v \in Objects \cup Datum,
         s # None => k = KeyOf[s],
         Allowed(way', object[o], k), way' \notin {"define", "delete"},
         shape' = shape, csObjectPut(s, o, k, v)
  PROVE  /\ ShapesOK' /\ ObjectsOK' /\ CachesOK' /\ CallOK' /\ Objects' = Objects
  <1> DEFINE old == object[o]
  <1> USE DEF IInv
  <1>0. op.at = "idle"
    BY DEF Idle
  <1>1. ShapesOK'
    BY <1>0, ShapesStay
  <1>2. /\ Good(shape, Objects, old) /\ old.shape \in Shapes \cup {None}
        /\ KeysIn(shape, old) = KeysOf(o)
        /\ old.shape # None => KeysOf(o) = shape[old.shape].keys
    BY DEF ObjectsOK, Good, LiveIn, Shapes, KeysOf, KeysIn
  <1>3. CASE old.shape # None /\ Has(o, k)
            /\ Finish(s, o, k, old.shape, dictionaryPut(old, k, v), temps)
    <2> DEFINE p == dictionaryPut(old, k, v)
    <2>1. SlotsOf(KeysIn(shape, old), k) # {}
      BY <1>2, <1>3 DEF Has
    <2>a. Objects \in SUBSET Object
      BY DEF Objects
    <2>2. Good(shape, Objects, p) /\ p.shape = old.shape /\ p.frozen = old.frozen
          /\ p.guarded = old.guarded
      BY <1>2, <2>1, <2>a, PutGood
    <2> HIDE DEF p
    <2>3. object' = [object EXCEPT ![o] = p] /\ cache' = Learnt(s, old.shape, p, k)
          /\ temps' = temps /\ op' = Idle
      BY <1>3 DEF Finish, p
    <2>4. /\ ObjectsOK' /\ Objects' = Objects
          /\ object'[o] = p /\ \A u \in Object \ {o} : object'[u] = object[u]
      BY <1>2, <2>2, <2>3, ObjectChanges
    <2>6. /\ Learnt(s, old.shape, p, k) \in [Site -> Cache]
          /\ \A t \in Site : Truth(shape, t, Learnt(s, old.shape, p, k)[t])
      BY <1>2, <1>3, <2>1, <2>2, LearntTruth
    <2>7. CachesOK'
      BY <2>3, <2>6 DEF CachesOK
    <2> QED BY <1>1, <2>3, <2>4, <2>7, CallEnds
  <1>4. CASE /\ old.shape = None
             /\ temps' = temps \o Rooted(o, v)
             /\ op' = Started("own", s, o, k, v)
             /\ UNCHANGED <<object, cache>>
    <2>1. IsCall(op', "own", s, o, k, v, object[o].shape, None)
      BY <1>4, StartedParts
    <2>2. temps' = Rooted(o, v)
      BY <1>4, Rooting
    <2>3. CallOK'
      BY <1>2, <1>4, <2>1, <2>2, CallStarts
    <2> QED BY <1>1, <1>4, <2>3, CachesStay, ObjectsStay
  <1>5. CASE /\ old.shape # None /\ ~Has(o, k)
             /\ LET next == shape[old.shape].edges[k]
                    full == Len(shape[old.shape].keys) >= MaxSlots
                    call == Started("child", s, o, k, v)
                IN /\ temps' = (temps \o Rooted(o, v))
                               \o (IF next # None THEN <<next>> ELSE IF full THEN <<>> ELSE <<old.shape>>)
                   /\ op' = IF next # None THEN [call EXCEPT !.at = "room", !.next = next]
                            ELSE IF full THEN [call EXCEPT !.at = "convert"] ELSE call
             /\ UNCHANGED <<object, cache>>
    <2> DEFINE next == shape[old.shape].edges[k]
               full == Len(shape[old.shape].keys) >= MaxSlots
               rooted == temps \o Rooted(o, v)
               call == Started("child", s, o, k, v)
    <2>1. old.shape \in Shapes /\ SlotsOf(shape[old.shape].keys, k) = {}
      BY <1>2, <1>5 DEF Has
    <2>2. CASE next # None
      <3>1. IsCall(op', "room", s, o, k, v, object[o].shape, next)
        <4>1. op' = [call EXCEPT !.at = "room", !.next = next]
          BY <1>5, <2>2
        <4> HIDE DEF next
        <4> QED BY <4>1, StartedParts
      <3>2. temps' = rooted \o <<next>>
        BY <1>5, <2>2
      <3>3. temps' = Append(Rooted(o, v), next)
        BY <3>2, Rooting
      <3>4. ChildOf(shape, next, old.shape, k)
        BY <2>1, <2>2 DEF ShapesOK
      <3>5. CallOK'
        BY <1>2, <1>5, <2>1, <3>1, <3>3, <3>4, CallStarts DEF Defining
      <3> QED BY <1>1, <1>5, <3>5, CachesStay, ObjectsStay
    <2>3. CASE next = None /\ full
      <3>1. IsCall(op', "convert", s, o, k, v, object[o].shape, None)
        <4>1. op' = [call EXCEPT !.at = "convert"]
          BY <1>5, <2>3
        <4> QED BY <4>1, StartedParts
      <3>2. temps' = rooted \o <<>>
        BY <1>5, <2>3
      <3>3. temps' = Rooted(o, v)
        BY <3>2, Rooting
      <3>4. CallOK'
        BY <1>2, <1>5, <2>1, <3>1, <3>3, CallStarts DEF Defining
      <3> QED BY <1>1, <1>5, <3>4, CachesStay, ObjectsStay
    <2>4. CASE next = None /\ ~full
      <3>1. IsCall(op', "child", s, o, k, v, object[o].shape, None)
        <4>1. op' = call
          BY <1>5, <2>4
        <4> QED BY <4>1, StartedParts
      <3>2. temps' = rooted \o <<old.shape>>
        BY <1>5, <2>4
      <3>3. temps' = Append(Rooted(o, v), old.shape)
        BY <3>2, Rooting
      <3>4. CallOK'
        BY <1>2, <1>5, <2>1, <2>4, <3>1, <3>3, CallStarts DEF Defining
      <3> QED BY <1>1, <1>5, <3>4, CachesStay, ObjectsStay
    <2> QED BY <2>2, <2>3, <2>4
  <1> QED BY <1>3, <1>4, <1>5 DEF csObjectPut

(* The cached store: an overwrite of the slot, or an add.                  *)
LEMMA StoreCached ==
  ASSUME IInv, NEW s \in Site, NEW o \in Objects, NEW v \in Objects \cup Datum,
         Hits(s, o), CanStoreCached(s, o)
  PROVE  LET p == csVMStoreCached(s, object[o], v)
         IN /\ Good(shape, Objects, p)
            /\ p.frozen = object[o].frozen /\ p.guarded = object[o].guarded
            /\ p.keys = object[o].keys
            /\ IF cache[s].added = None
               THEN /\ p.shape = object[o].shape
                    /\ p.slots = [object[o].slots EXCEPT ![cache[s].slot] = v]
               ELSE /\ p.shape = cache[s].added
                    /\ p.slots = Append(object[o].slots, v)
  <1> DEFINE old == object[o]
             p == csVMStoreCached(s, old, v)
  <1>1. /\ old.shape \in Shapes /\ old.shape # None
        /\ KeysOf(o) = shape[cache[s].shape].keys /\ Truth(shape, s, cache[s])
        /\ cache[s].shape # Absent
    BY HitIsTrue
  <1>2. old \in ObjectCell /\ Good(shape, Objects, old) /\ ShapesOK /\ Objects \in SUBSET Object
        /\ KeysOf(o) = KeysIn(shape, old) /\ Len(old.slots) = Len(KeysIn(shape, old))
    BY DEF IInv, ObjectsOK, Good, Objects, KeysOf
  <1>3. CASE cache[s].added = None
    <2> DEFINE slot == cache[s].slot
               new == [old.slots EXCEPT ![slot] = v]
    <2>1. slot \in DOMAIN KeysOf(o)
      BY <1>1, <1>3 DEF Truth
    <2>2. old.slots \in Seq(Object \cup Datum) /\ v \in Object \cup Datum
      BY <1>2 DEF ObjectCell
    <2>3. /\ new \in Seq(Object \cup Datum) /\ Len(new) = Len(old.slots)
          /\ \A n \in DOMAIN new : new[n] \in Objects \cup Datum
      <3>1. slot \in DOMAIN old.slots /\ DOMAIN old.slots = 1 .. Len(old.slots)
        BY <2>1, <2>2, SlotLive, LenProperties
      <3> HIDE DEF slot
      <3>2. new \in Seq(Object \cup Datum) /\ Len(new) = Len(old.slots)
        BY <2>2, <3>1, ExceptSeq
      <3>3. \A n \in DOMAIN old.slots : new[n] = v \/ new[n] = old.slots[n]
        BY <3>1
      <3>4. DOMAIN new = DOMAIN old.slots
        OBVIOUS
      <3> QED BY <3>2, <3>3, <3>4, <1>2 DEF Good
    <2> HIDE DEF new
    <2>4. p = [old EXCEPT !.slots = new]
      BY <1>2, <1>3 DEF csVMStoreCached, new, ObjectCell
    <2>5. p \in ObjectCell /\ p.shape = old.shape /\ p.slots = new /\ p.keys = old.keys
          /\ p.capacity = old.capacity /\ p.frozen = old.frozen /\ p.guarded = old.guarded
      BY <1>2, <2>3, <2>4 DEF ObjectCell
    <2>6. KeysIn(shape, p) = KeysIn(shape, old)
      BY <2>5 DEF KeysIn
    <2> HIDE DEF p
    <2>7. Good(shape, Objects, p)
      BY <1>2, <2>3, <2>5, <2>6 DEF Good
    <2> QED BY <1>3, <2>5, <2>7 DEF p, new
  <1>4. CASE cache[s].added # None
    <2> DEFINE new == Append(old.slots, v)
               then == cache[s].added
    <2>1. /\ then \in Shapes /\ shape[then].keys = Append(KeysIn(shape, old), KeyOf[s])
          /\ cache[s].slot = Len(KeysIn(shape, old)) + 1
      BY <1>1, <1>2, <1>4 DEF Truth, LiveIn, Shapes
    <2>2. new \in Seq(Object \cup Datum)
      BY <1>2 DEF ObjectCell
    <2> HIDE DEF new, then
    <2>3. p = [old EXCEPT !.slots = new, !.shape = then]
      BY <1>2, <1>4 DEF csVMStoreCached, new, then, ObjectCell
    <2>4. p \in ObjectCell /\ p.shape = then /\ p.slots = new /\ p.keys = old.keys
          /\ p.capacity = old.capacity /\ p.frozen = old.frozen /\ p.guarded = old.guarded
      BY <1>2, <2>1, <2>2, <2>3 DEF ObjectCell, Shapes
    <2>5. old.capacity >= Len(old.slots) + 1
      BY <1>2, <1>4, <2>1 DEF CanStoreCached
    <2> HIDE DEF p
    <2>6. KeyOf[s] \in Key
      BY HeapAssumption
    <2>7. Good(shape, Objects, p)
      BY <1>1, <1>2, <2>1, <2>4, <2>5, <2>6, AdoptGood DEF new
    <2> QED BY <1>4, <2>4, <2>7 DEF p, new, then
  <1> QED BY <1>3, <1>4

LEMMA WriteOK ==
  ASSUME IInv, NEW s \in Site, NEW o \in Object, NEW v \in Value, Write(s, o, v)
  PROVE  IInv'
  <1> USE DEF IInv, Called
  <1>1. op = Idle /\ temps = <<>> /\ op.at = "idle" /\ o \in Objects /\ s \in Site \ Reads
    BY NoneCalled DEF Write, Storing
  <1>2. shape' = shape /\ held' = held /\ way' \in {"cache", "site"} /\ way' \in Ways /\ calls' \in Nat
    BY DEF Write, Storing, Ways
  <1>3. v \in Objects \cup Datum
    BY AvailableLive DEF Write
  <1>4. CASE Hits(s, o) /\ CanStoreCached(s, o)
             /\ object' = [object EXCEPT ![o] = csVMStoreCached(s, @, v)]
             /\ UNCHANGED <<cache, temps, op>>
    <2> DEFINE p == csVMStoreCached(s, object[o], v)
    <2>1. object' = [object EXCEPT ![o] = p]
      BY <1>1, <1>4 DEF ObjectsOK, Objects
    <2>2. /\ Good(shape, Objects, p) /\ p.frozen = object[o].frozen
          /\ p.guarded = object[o].guarded
      BY <1>1, <1>3, <1>4, StoreCached
    <2>3. object[o].shape # None
      BY <1>1, <1>4, HitIsTrue
    <2> HIDE DEF p
    <2>4. /\ ObjectsOK' /\ Objects' = Objects
          /\ object'[o] = p /\ \A u \in Object \ {o} : object'[u] = object[u]
      BY <1>1, <1>2, <2>1, <2>2, ObjectChanges
    <2>6. ShapesOK' /\ CachesOK' /\ CallOK'
      BY <1>1, <1>2, <1>4, ShapesStay, CachesStay, CallEnds
    <2> QED BY <1>2, <2>4, <2>6
  <1>5. CASE /\ ~object[o].frozen /\ KeyOf[s] \notin object[o].guarded
             /\ csObjectPut(s, o, KeyOf[s], v)
    <2>1. KeyOf[s] \in Key
      BY HeapAssumption
    <2>2. ShapesOK' /\ ObjectsOK' /\ CachesOK' /\ CallOK' /\ Objects' = Objects
      BY <1>1, <1>2, <1>3, <1>5, <2>1, PutCalled DEF Allowed
    <2> QED BY <1>2, <2>2
  <1> QED BY <1>4, <1>5 DEF Write

(* The stores that look for less, or for nothing.                          *)
LEMMA StoreOK ==
  ASSUME IInv, NEW o \in Object, NEW k \in Key, NEW v \in Value,
         IndexStore(o, k, v) \/ Assign(o, k, v)
  PROVE  IInv'
  <1> USE DEF IInv, Called
  <1>1. op = Idle /\ temps = <<>> /\ o \in Objects
    BY NoneCalled DEF IndexStore, Assign, Storing
  <1>2. shape' = shape /\ held' \subseteq held /\ way' \in Ways /\ calls' \in Nat
    BY DEF IndexStore, Assign, Storing, Ways
  <1>3. v \in Objects \cup Datum
    BY AvailableLive DEF IndexStore, Assign
  <1>4. Allowed(way', object[o], k) /\ way' \notin {"define", "delete"}
    BY DEF Allowed, IndexStore, Assign, Storing, Bags!Unfrozen, Bags!Unguarded
  <1>5. csObjectPut(None, o, k, v)
    BY DEF IndexStore, Assign
  <1>6. ShapesOK' /\ ObjectsOK' /\ CachesOK' /\ CallOK' /\ Objects' = Objects
    BY <1>1, <1>2, <1>3, <1>4, <1>5, PutCalled
  <1> QED BY <1>2, <1>6

LEMMA DeleteOK ==
  ASSUME IInv, NEW o \in Object, NEW k \in Key, Delete(o, k)
  PROVE  IInv'
  <1> USE DEF IInv, Called
  <1>1. op = Idle /\ temps = <<>> /\ op.at = "idle" /\ o \in Objects /\ ~object[o].frozen
    BY NoneCalled DEF Delete, Storing
  <1>2. shape' = shape /\ cache' = cache /\ held' \subseteq held /\ way' = "delete" /\ way' \in Ways
        /\ calls' \in Nat
    BY DEF Delete, Storing, Ways
  <1>3. ShapesOK' /\ CachesOK'
    BY <1>1, <1>2, ShapesStay, CachesStay
  <1>4. CASE UNCHANGED <<object, temps, op>>
    BY <1>1, <1>2, <1>3, <1>4, CallEnds, ObjectsStay
  <1>5. CASE /\ object[o].shape = None /\ Has(o, k)
             /\ object' = [object EXCEPT ![o] = csObjectDelete(@, k)]
             /\ UNCHANGED <<temps, op>>
    <2> DEFINE p == csObjectDelete(object[o], k)
    <2>1. object' = [object EXCEPT ![o] = p]
      BY <1>1, <1>5 DEF ObjectsOK, Objects
    <2>2. SlotsOf(object[o].keys, k) # {} /\ Good(shape, Objects, object[o])
      BY <1>1, <1>5 DEF Has, KeysOf, KeysIn, ObjectsOK
    <2>3. Good(shape, Objects, p) /\ p.shape = None
      BY <1>5, <2>2, DeleteGood
    <2> HIDE DEF p
    <2>4. /\ ObjectsOK' /\ Objects' = Objects
          /\ object'[o] = p /\ \A u \in Object \ {o} : object'[u] = object[u]
      BY <1>1, <1>2, <2>1, <2>3, ObjectChanges
    <2>6. CallOK'
      BY <1>1, <1>5, CallEnds
    <2> QED BY <1>2, <1>3, <2>4, <2>6
  <1>6. CASE /\ object[o].shape # None /\ Has(o, k)
             /\ temps' = Append(temps, o)
             /\ op' = Started("delete", None, o, k, None)
             /\ object' = object
    <2>1. ObjectsOK' /\ Objects' = Objects
      BY <1>2, <1>6, ObjectsStay
    <2>2. object[o].shape \in Shape
      BY <1>1, <1>6 DEF ObjectsOK, Good, LiveIn
    <2>3. /\ op'.at = "delete" /\ op'.site = None /\ op'.object = o /\ op'.key = k
          /\ op'.value = None /\ op'.next = None /\ op' \in Call
      BY <1>6, <2>2 DEF Started, Call, Phases
    <2>4. temps' = <<o>>
      BY <1>1, <1>6
    <2>5. temps' = Pinned'
      BY <2>3, <2>4 DEF Pinned
    <2>6. Target' = object[o] /\ Has(o, k)'
      BY <1>2, <1>6, <2>3 DEF Target, Has, KeysOf
    <2>7. CallOK'
      BY <1>1, <1>2, <1>6, <2>1, <2>3, <2>5, <2>6 DEF CallOK, Allowed
    <2> QED BY <1>2, <1>3, <2>1, <2>7
  <1> QED BY <1>4, <1>5, <1>6 DEF Delete

LEMMA DefineOK ==
  ASSUME IInv, NEW o \in Object, NEW k \in Key, NEW v \in Value, Define(o, k, v)
  PROVE  IInv'
  <1> USE DEF IInv, Called
  <1>1. op = Idle /\ temps = <<>> /\ op.at = "idle" /\ o \in Objects /\ ~object[o].frozen
    BY NoneCalled DEF Define, Storing
  <1>2. UNCHANGED <<shape, object, cache, held>> /\ way' = "define" /\ way' \in Ways
        /\ calls' \in Nat
    BY DEF Define, Storing, Ways
  <1>3. /\ ShapesOK' /\ CachesOK' /\ ObjectsOK' /\ Objects' = Objects
    BY <1>1, <1>2, ShapesStay, CachesStay, ObjectsStay
  <1>4. v \in Objects \cup Datum /\ v \in held \cup Datum /\ o \in held
    BY AvailableLive DEF Define
  <1>5. object[o].shape \in Shapes \cup {None}
    BY <1>1 DEF ObjectsOK, Good, LiveIn, Shapes
  <1>a. Allowed(way', object[o], k) /\ way' # "delete"
    BY <1>1, <1>2 DEF Allowed
  <1>6. CASE object[o].shape # None
    <2>1. IsCall(op', "convert", None, o, k, v, object[o].shape, None)
      <3>1. op' = Started("convert", None, o, k, v)
        BY <1>6 DEF Define
      <3> QED BY <3>1, StartedParts
    <2>2. temps' = <<>>
      BY <1>1, <1>6 DEF Define
    <2>3. CallOK'
      BY <1>1, <1>2, <1>4, <1>5, <1>6, <1>a, <2>1, <2>2, CallStarts DEF Defining
    <2> QED BY <1>2, <1>3, <2>3
  <1>7. CASE object[o].shape = None
    <2>1. IsCall(op', "own", None, o, k, v, object[o].shape, None)
      <3>1. op' = Started("own", None, o, k, v)
        BY <1>7 DEF Define
      <3> QED BY <3>1, StartedParts
    <2>2. temps' = Rooted(o, v)
      BY <1>1, <1>7, Rooting DEF Define
    <2>3. CallOK'
      BY <1>1, <1>2, <1>4, <1>5, <1>7, <1>a, <2>1, <2>2, CallStarts DEF Defining
    <2> QED BY <1>2, <1>3, <2>3
  <1> QED BY <1>6, <1>7

(* What freezing and guarding change is not what makes an object good.     *)
LEMMA MarkedGood ==
  ASSUME NEW live, NEW o, Good(shape, live, o), NEW p \in ObjectCell,
         p.shape = o.shape, p.keys = o.keys, p.slots = o.slots, p.capacity = o.capacity
  PROVE  Good(shape, live, p)
  <1>1. KeysIn(shape, p) = KeysIn(shape, o)
    BY DEF KeysIn
  <1> QED BY <1>1 DEF Good

LEMMA FreezeOK ==
  ASSUME IInv, NEW o \in Object, Freeze(o)
  PROVE  IInv'
  <1> USE DEF IInv, Called
  <1>1. op = Idle /\ temps = <<>> /\ op.at = "idle" /\ o \in Objects
    BY NoneCalled DEF Freeze
  <1>2. UNCHANGED <<shape, cache, held, temps, op>> /\ way' \in Ways /\ calls' \in Nat
    BY DEF Freeze
  <1>3. ShapesOK' /\ CachesOK' /\ CallOK'
    BY <1>1, <1>2, ShapesStay, CachesStay, CallEnds
  <1> DEFINE p == [object[o] EXCEPT !.frozen = TRUE]
  <1>4. Good(shape, Objects, object[o]) /\ object[o] \in ObjectCell
    BY <1>1 DEF ObjectsOK, Good
  <1>5. p \in ObjectCell /\ p.shape = object[o].shape /\ p.keys = object[o].keys
        /\ p.slots = object[o].slots /\ p.capacity = object[o].capacity
    BY <1>4 DEF ObjectCell
  <1>6. object' = [object EXCEPT ![o] = p]
    BY <1>1 DEF Freeze, ObjectsOK
  <1> HIDE DEF p
  <1>7. Good(shape, Objects, p)
    BY <1>4, <1>5, MarkedGood
  <1>8. /\ ObjectsOK' /\ Objects' = Objects
        /\ object'[o] = p /\ \A u \in Object \ {o} : object'[u] = object[u]
    BY <1>1, <1>2, <1>6, <1>7, ObjectChanges
  <1> QED BY <1>2, <1>3, <1>8

LEMMA RelinkOK ==
  ASSUME IInv, NEW o \in Object, NEW k \in Key, Relink(o, k)
  PROVE  IInv'
  <1> USE DEF IInv, Called
  <1>1. op = Idle /\ temps = <<>> /\ op.at = "idle" /\ o \in Objects
    BY NoneCalled DEF Relink
  <1>2. UNCHANGED <<shape, cache, held, temps, op>> /\ way' \in Ways /\ calls' \in Nat
    BY DEF Relink
  <1>3. ShapesOK' /\ CachesOK' /\ CallOK'
    BY <1>1, <1>2, ShapesStay, CachesStay, CallEnds
  <1> DEFINE guarded == object[o].guarded \cup {k}
             p == [object[o] EXCEPT !.guarded = guarded]
  <1>4. Good(shape, Objects, object[o]) /\ object[o] \in ObjectCell
    BY <1>1 DEF ObjectsOK, Good
  <1>5. p \in ObjectCell /\ p.shape = object[o].shape /\ p.keys = object[o].keys
        /\ p.slots = object[o].slots /\ p.capacity = object[o].capacity
    BY <1>4 DEF ObjectCell
  <1>6. object' = [object EXCEPT ![o] = p]
    BY <1>1, <1>4 DEF Relink, ObjectsOK, ObjectCell
  <1> HIDE DEF p
  <1>7. Good(shape, Objects, p)
    BY <1>4, <1>5, MarkedGood
  <1>8. /\ ObjectsOK' /\ Objects' = Objects
        /\ object'[o] = p /\ \A u \in Object \ {o} : object'[u] = object[u]
    BY <1>1, <1>2, <1>6, <1>7, ObjectChanges
  <1> QED BY <1>2, <1>3, <1>8

-----------------------------------------------------------------------------
(* The heap of shapes grows, is linked and pruned.                         *)

(* The shape s is in both heaps, and the same but for its edges.           *)
Kept(h, g, s) ==
  /\ s \in LiveIn(h) /\ s \in LiveIn(g)
  /\ g[s].parent = h[s].parent /\ g[s].key = h[s].key /\ g[s].keys = h[s].keys

LEMMA ChildKept ==
  ASSUME NEW h, NEW g, NEW s, NEW p, NEW k, ChildOf(h, s, p, k), Kept(h, g, s), Kept(h, g, p)
  PROVE  ChildOf(g, s, p, k)
  BY DEF ChildOf, Kept

LEMMA GoodKept ==
  ASSUME NEW h, NEW g, NEW live, NEW kept, NEW o, Good(h, live, o),
         o.shape # None => Kept(h, g, o.shape),
         \A n \in DOMAIN o.slots : o.slots[n] \in kept \cup Datum
  PROVE  Good(g, kept, o) /\ KeysIn(g, o) = KeysIn(h, o)
  BY DEF Good, Kept, KeysIn

LEMMA TruthKept ==
  ASSUME NEW h, NEW g, NEW s, NEW c, Truth(h, s, c),
         c.shape # Absent => /\ Kept(h, g, c.shape)
                             /\ c.added # None => Kept(h, g, c.added)
  PROVE  Truth(g, s, c)
  BY DEF Truth, Kept

(* No shape is lost and no object changes.                                 *)
LEMMA NoneLost ==
  ASSUME IInv, \A s \in Shapes : Kept(shape, shape', s), object' = object, cache' = cache
  PROVE  /\ ObjectsOK' /\ Objects' = Objects /\ CachesOK'
         /\ \A o \in Objects : KeysOf(o)' = KeysOf(o)
  <1> USE DEF IInv
  <1>1. Objects' = Objects
    BY DEF Objects
  <1>2. \A o \in Objects : Good(shape', Objects, object[o]) /\ KeysIn(shape', object[o]) = KeysIn(shape, object[o])
    <2> SUFFICES ASSUME NEW o \in Objects
                 PROVE  Good(shape', Objects, object[o])
                        /\ KeysIn(shape', object[o]) = KeysIn(shape, object[o])
      OBVIOUS
    <2>1. Good(shape, Objects, object[o])
      BY DEF ObjectsOK
    <2>2. object[o].shape # None => Kept(shape, shape', object[o].shape)
      BY <2>1 DEF Good, LiveIn, Shapes
    <2>3. \A n \in DOMAIN object[o].slots : object[o].slots[n] \in Objects \cup Datum
      BY <2>1 DEF Good
    <2> QED BY <2>1, <2>2, <2>3, GoodKept
  <1>3. ObjectsOK'
    BY <1>1, <1>2 DEF ObjectsOK
  <1>4. \A s \in Site : Truth(shape', s, cache[s])
    <2> SUFFICES ASSUME NEW s \in Site
                 PROVE  Truth(shape', s, cache[s])
      OBVIOUS
    <2>1. Truth(shape, s, cache[s])
      BY DEF CachesOK
    <2>2. cache[s].shape # Absent => /\ Kept(shape, shape', cache[s].shape)
                                     /\ cache[s].added # None => Kept(shape, shape', cache[s].added)
      BY <2>1 DEF Truth, LiveIn, Shapes
    <2> QED BY <2>1, <2>2, TruthKept
  <1>5. CachesOK'
    BY <1>4 DEF CachesOK
  <1>7. \A o \in Objects : KeysOf(o)' = KeysOf(o)
    BY <1>2 DEF KeysOf
  <1> QED BY <1>1, <1>3, <1>5, <1>7

LEMMA AllocateChildOK ==
  ASSUME IInv, AllocateChild
  PROVE  IInv'
  <1> USE DEF IInv
  <1> DEFINE before == op.before
             keys == Append(shape[before].keys, op.key)
  <1>1. PICK c \in Shape \ Shapes :
          /\ shape' = [shape EXCEPT ![c] = [parent |-> before, key |-> op.key,
                                            edges |-> NoEdges, keys |-> keys]]
          /\ temps' = Append(temps, c)
          /\ op' = [op EXCEPT !.at = "edge", !.next = c]
    BY DEF AllocateChild
  <1>2. op.at = "child" /\ UNCHANGED <<object, cache, held, way, calls>>
    BY DEF AllocateChild
  <1>3. /\ before \in Shapes /\ op.key \in Key /\ Adding /\ op \in Call
        /\ shape[before].edges[op.key] = None /\ SlotsOf(shape[before].keys, op.key) = {}
    BY <1>2 DEF CallOK, Adding
  <1>4. /\ shape \in [Shape -> ShapeCell \cup {None}] /\ before \in Shape /\ before # None
        /\ shape[before] \in ShapeCell
    BY <1>3, HeapAssumption DEF ShapesOK, Shapes
  <1> DEFINE new == [parent |-> before, key |-> op.key, edges |-> NoEdges, keys |-> keys]
  <1>5. new \in ShapeCell /\ new # None /\ new.edges = NoEdges
        /\ new.parent = before /\ new.key = op.key /\ new.keys = keys
    <2>1. keys \in Seq(Key)
      BY <1>3, <1>4 DEF ShapeCell
    <2>2. NoEdges \in [Key -> Shape \cup {None}]
      BY DEF NoEdges
    <2> HIDE DEF keys
    <2>3. new \in ShapeCell
      BY <1>3, <1>4, <2>1, <2>2 DEF ShapeCell
    <2> QED BY <2>3, HeapAssumption
  <1>6. shape' = [shape EXCEPT ![c] = new]
    BY <1>1
  <1> HIDE DEF new, keys
  <1>7. /\ shape' \in [Shape -> ShapeCell \cup {None}] /\ shape'[c] = new
        /\ \A s \in Shapes : s # c /\ shape'[s] = shape[s]
        /\ Shapes' = Shapes \cup {c} /\ c # Root
    BY <1>4, <1>5, <1>6 DEF Shapes, ShapesOK
  <1>8. \A s \in Shapes : Kept(shape, shape', s)
    BY <1>7 DEF Kept, LiveIn, Shapes
  <1>9. ObjectsOK' /\ Objects' = Objects /\ CachesOK'
    BY <1>2, <1>8, NoneLost
  <1>10. /\ op'.at = "edge" /\ op'.next = c /\ op'.object = op.object /\ op'.value = op.value
         /\ op'.site = op.site /\ op'.key = op.key /\ op'.before = before /\ Defining' = Defining
         /\ op' \in Call
    BY <1>1, <1>2, <1>3, ZenonT(40) DEF Call, Phases, Defining
  <1>11. ChildOf(shape', c, before, op.key)
    BY <1>3, <1>5, <1>7 DEF ChildOf, LiveIn, Shapes, keys
  <1>12. ShapesOK'
    <2>1. Root \in Shapes' /\ shape'[Root].parent = None /\ shape'[Root].keys = <<>>
      BY <1>7 DEF ShapesOK
    <2>2. ASSUME NEW s \in Shapes' \ {Root}
          PROVE  /\ ChildOf(shape', s, shape'[s].parent, shape'[s].key)
                 /\ \/ shape'[shape'[s].parent].edges[shape'[s].key] = s
                    \/ op'.at = "edge" /\ s = op'.next
      <3>1. CASE s = c
        BY <3>1, <1>5, <1>7, <1>10, <1>11
      <3>2. CASE s # c
        <4>1. s \in Shapes \ {Root} /\ shape'[s] = shape[s]
          BY <1>7, <3>2
        <4>2. /\ ChildOf(shape, s, shape[s].parent, shape[s].key)
              /\ shape[shape[s].parent].edges[shape[s].key] = s
          BY <1>2, <4>1 DEF ShapesOK
        <4>3. shape[s].parent \in Shapes
          BY <4>2 DEF ChildOf, LiveIn, Shapes
        <4> QED BY <1>7, <1>8, <4>1, <4>2, <4>3, ChildKept
      <3> QED BY <3>1, <3>2
    <2>3. ASSUME NEW s \in Shapes', NEW k \in Key, shape'[s].edges[k] # None
          PROVE  ChildOf(shape', shape'[s].edges[k], s, k)
      <3>1. s # c
        BY <2>3, <1>5, <1>7 DEF NoEdges
      <3>2. s \in Shapes /\ shape'[s] = shape[s]
        BY <1>7, <3>1
      <3>3. ChildOf(shape, shape[s].edges[k], s, k)
        BY <2>3, <3>2 DEF ShapesOK
      <3>4. shape[s].edges[k] \in Shapes
        BY <3>3 DEF ChildOf, LiveIn, Shapes
      <3> QED BY <1>8, <3>2, <3>3, <3>4, ChildKept
    <2>4. ASSUME NEW s \in Shapes', NEW t \in Shapes', shape'[s].keys = shape'[t].keys
          PROVE  s = t
      <3>1. \A u \in Shapes : shape[u].keys # keys
        <4> SUFFICES ASSUME NEW u \in Shapes, shape[u].keys = keys
                     PROVE  FALSE
          OBVIOUS
        <4>1. u # Root
          <5>1. keys # <<>>
            BY <1>3, <1>4, AppendProperties DEF ShapeCell, keys
          <5> QED BY <5>1 DEF ShapesOK
        <4> DEFINE p == shape[u].parent
                   k == shape[u].key
        <4>2. ChildOf(shape, u, p, k) /\ shape[p].edges[k] = u
          BY <1>2, <4>1 DEF ShapesOK
        <4>3. p \in Shapes /\ k \in Key /\ Append(shape[p].keys, k) = Append(shape[before].keys, op.key)
          BY <4>2 DEF ChildOf, keys, LiveIn, Shapes
        <4>4. shape[p].keys \in Seq(Key) /\ shape[before].keys \in Seq(Key)
          BY <1>4, <4>3 DEF ShapeCell, Shapes
        <4> HIDE DEF p, k
        <4> DEFINE there == shape[p].keys
                   here == shape[before].keys
                   added == op.key
        <4>5. there = here /\ k = added
          <5>1. there \in Seq(Key) /\ here \in Seq(Key) /\ k \in Key /\ added \in Key
                /\ Append(there, k) = Append(here, added)
            BY <1>3, <4>3, <4>4
          <5> HIDE DEF there, here, added
          <5> QED BY <5>1, AppendInjective
        <4>6. p = before
          BY <1>3, <4>3, <4>5 DEF ShapesOK, OneShapePerLayout
        <4>7. u # None
          BY HeapAssumption DEF Shapes
        <4> QED BY <1>3, <4>2, <4>5, <4>6, <4>7
      <3>2. CASE s \in Shapes /\ t \in Shapes
        BY <2>4, <3>2, <1>7 DEF ShapesOK, OneShapePerLayout
      <3>3. CASE s \in Shapes /\ t = c
        BY <2>4, <3>1, <3>3, <1>5, <1>7
      <3>4. CASE s = c /\ t \in Shapes
        BY <2>4, <3>1, <3>4, <1>5, <1>7
      <3> QED BY <1>7, <3>2, <3>3, <3>4
    <2>5. ASSUME NEW s \in Shapes'
          PROVE  NoRepeats(shape'[s].keys)
      <3>1. CASE s = c
        <4>1. shape[before].keys \in Seq(Key) /\ NoRepeats(shape[before].keys)
          BY <1>3, <1>4 DEF ShapeCell, ShapesOK
        <4>2. NoRepeats(keys)
          BY <1>3, <4>1, KeyAtEnd DEF keys
        <4> QED BY <3>1, <4>2, <1>5, <1>7
      <3>2. CASE s # c
        BY <3>2, <1>7 DEF ShapesOK
      <3> QED BY <3>1, <3>2
    <2> QED BY <1>7, <2>1, <2>2, <2>3, <2>4, <2>5 DEF ShapesOK, OneShapePerLayout
  <1>13. CallOK'
    <2>1. temps = Append(Carried, before)
      BY <1>2 DEF CallOK, Pinned
    <2>2. temps' = Pinned'
      BY <1>1, <1>10, <2>1 DEF Pinned, Carried
    <2>3. Target' = Target /\ shape'[before] = shape[before] /\ before \in Shapes'
      BY <1>2, <1>3, <1>7, <1>10 DEF Target
    <2>4. Adding'
      BY <1>3, <1>10, <1>11, <2>3 DEF Adding
    <2> QED BY <1>2, <1>9, <1>10, <2>2, <2>3, <2>4 DEF CallOK
  <1> QED BY <1>2, <1>9, <1>12, <1>13

LEMMA RecordEdgeOK ==
  ASSUME IInv, RecordEdge
  PROVE  IInv'
  <1> USE DEF IInv
  <1> DEFINE before == op.before
             next == op.next
             key == op.key
  <1>1. /\ op.at = "edge" /\ UNCHANGED <<object, cache, held, way, calls>>
        /\ shape' = [shape EXCEPT ![before].edges[key] = next]
        /\ temps' = Append(Popped(2), next)
        /\ op' = [op EXCEPT !.at = "room"]
    BY DEF RecordEdge
  <1>2. /\ before \in Shapes /\ key \in Key /\ Adding /\ op \in Call
        /\ shape[before].edges[key] = None /\ ChildOf(shape, next, before, key)
        /\ SlotsOf(shape[before].keys, key) = {}
    BY <1>1 DEF CallOK, Adding
  <1> HIDE DEF before, next, key
  <1>3. /\ shape \in [Shape -> ShapeCell \cup {None}] /\ before \in Shape /\ before # None
        /\ shape[before] \in ShapeCell /\ next \in Shapes \ {Root} /\ next \in Shape
    BY <1>2, HeapAssumption DEF ShapesOK, Shapes, ChildOf, LiveIn
  <1> DEFINE edges == [shape[before].edges EXCEPT ![key] = next]
             new == [shape[before] EXCEPT !.edges = edges]
  <1>4. edges \in [Key -> Shape \cup {None}] /\ edges[key] = next
        /\ \A k \in Key \ {key} : edges[k] = shape[before].edges[k]
    BY <1>2, <1>3 DEF ShapeCell
  <1>5. shape' = [shape EXCEPT ![before] = new]
    BY <1>1, <1>2, <1>3 DEF ShapeCell
  <1> HIDE DEF edges
  <1>6. new \in ShapeCell /\ new # None /\ new.edges = edges
        /\ new.parent = shape[before].parent /\ new.key = shape[before].key
        /\ new.keys = shape[before].keys
    <2>1. new \in ShapeCell /\ new.edges = edges
          /\ new.parent = shape[before].parent /\ new.key = shape[before].key
          /\ new.keys = shape[before].keys
      BY <1>3, <1>4 DEF ShapeCell
    <2> QED BY <2>1, HeapAssumption
  <1> HIDE DEF new
  <1>7. /\ shape' \in [Shape -> ShapeCell \cup {None}] /\ shape'[before] = new
        /\ \A s \in Shapes \ {before} : shape'[s] = shape[s]
        /\ Shapes' = Shapes
    BY <1>2, <1>3, <1>5, <1>6 DEF Shapes
  <1>8. \A s \in Shapes : Kept(shape, shape', s)
    BY <1>6, <1>7 DEF Kept, LiveIn, Shapes
  <1>9. ObjectsOK' /\ Objects' = Objects /\ CachesOK'
    BY <1>1, <1>8, NoneLost
  <1>10. /\ op'.at = "room" /\ op'.next = op.next /\ op'.object = op.object /\ op'.value = op.value
         /\ op'.site = op.site /\ op'.key = op.key /\ op'.before = op.before
         /\ Defining' = Defining /\ op' \in Call
    BY <1>1, <1>2 DEF Call, Phases, Defining
  <1>11. ChildOf(shape', next, before, key)
    BY <1>2, <1>3, <1>8, ChildKept
  <1>12. ShapesOK'
    <2>1. Root \in Shapes' /\ shape'[Root].parent = None /\ shape'[Root].keys = <<>>
      BY <1>7, <1>6 DEF ShapesOK
    <2>2. ASSUME NEW s \in Shapes' \ {Root}
          PROVE  /\ ChildOf(shape', s, shape'[s].parent, shape'[s].key)
                 /\ shape'[shape'[s].parent].edges[shape'[s].key] = s
      <3> DEFINE p == shape[s].parent
                 k == shape[s].key
      <3>1. s \in Shapes \ {Root} /\ Kept(shape, shape', s)
        BY <1>7, <1>8
      <3>2. shape'[s].parent = p /\ shape'[s].key = k
        BY <3>1 DEF Kept
      <3>3. /\ ChildOf(shape, s, p, k)
            /\ shape[p].edges[k] = s \/ s = next
        BY <1>1, <3>1 DEF ShapesOK, next
      <3>4. p \in Shapes /\ k \in Key
        BY <3>3 DEF ChildOf, LiveIn, Shapes
      <3>5. ChildOf(shape', s, p, k)
        BY <3>1, <3>3, <3>4, <1>8, ChildKept
      <3>6. shape'[p].edges[k] = s
        <4>1. CASE s = next
          <5>1. p = before /\ k = key
            BY <1>2, <4>1 DEF ChildOf
          <5> HIDE DEF p, k
          <5> QED BY <4>1, <5>1, <1>4, <1>6, <1>7
        <4>2. CASE s # next
          <5>1. shape[p].edges[k] = s
            BY <3>3, <4>2
          <5>2. ~(p = before /\ k = key)
            <6>1. s # None
              BY <3>1, HeapAssumption DEF Shapes
            <6> HIDE DEF p, k
            <6> QED BY <6>1, <5>1, <1>2
          <5> HIDE DEF p, k
          <5> QED BY <5>1, <5>2, <3>4, <1>4, <1>6, <1>7
        <4> QED BY <4>1, <4>2
      <3> QED BY <3>2, <3>5, <3>6
    <2>3. ASSUME NEW s \in Shapes', NEW k \in Key, shape'[s].edges[k] # None
          PROVE  ChildOf(shape', shape'[s].edges[k], s, k)
      <3>1. CASE s = before /\ k = key
        BY <3>1, <1>4, <1>6, <1>7, <1>11
      <3>2. CASE ~(s = before /\ k = key)
        <4>1. s \in Shapes /\ shape'[s].edges[k] = shape[s].edges[k]
          BY <3>2, <1>4, <1>6, <1>7
        <4>2. ChildOf(shape, shape[s].edges[k], s, k)
          BY <2>3, <4>1 DEF ShapesOK
        <4>3. shape[s].edges[k] \in Shapes
          BY <4>2 DEF ChildOf, LiveIn, Shapes
        <4> QED BY <1>8, <4>1, <4>2, <4>3, ChildKept
      <3> QED BY <3>1, <3>2
    <2>4. OneShapePerLayout' /\ \A s \in Shapes' : NoRepeats(shape'[s].keys)
      BY <1>7, <1>8 DEF ShapesOK, OneShapePerLayout, Kept
    <2> QED BY <1>7, <2>1, <2>2, <2>3, <2>4 DEF ShapesOK
  <1>13. CallOK'
    <2> DEFINE S == {op.object, op.value, before, next}
               r == Carried
    <2>1. temps = Append(Append(r, before), next)
      BY <1>1 DEF CallOK, Pinned, before, next
    <2>2. r \in Seq(S) /\ before \in S /\ next \in S
      BY RootedTyped DEF Carried
    <2> HIDE DEF r, S
    <2>3. Len(temps) - 2 = Len(r)
      <3>1. Append(r, before) \in Seq(S) /\ Len(Append(r, before)) = Len(r) + 1 /\ Len(r) \in Nat
        BY <2>2, AppendProperties, LenProperties
      <3> DEFINE longer == Append(r, before)
      <3> HIDE DEF longer
      <3>2. Len(Append(longer, next)) = Len(longer) + 1
        BY <2>2, <3>1, AppendProperties DEF longer
      <3> QED BY <2>1, <3>1, <3>2 DEF longer
    <2>4. Popped(2) = r
      BY <2>1, <2>2, <2>3, PoppingTwo DEF Popped
    <2>5. temps' = Append(r, next)
      BY <1>1, <2>4 DEF next
    <2>6. temps' = Pinned'
      BY <1>10, <2>5 DEF Pinned, Carried, r, next
    <2>7. Target' = Target /\ shape'[before].keys = shape[before].keys /\ before \in Shapes'
      BY <1>1, <1>2, <1>6, <1>7, <1>10 DEF Target
    <2>8. Adding'
      BY <1>2, <1>10, <1>11, <2>7 DEF Adding, before, next, key
    <2> QED BY <1>1, <1>9, <1>10, <2>6, <2>7, <2>8 DEF CallOK
  <1> QED BY <1>1, <1>9, <1>12, <1>13

(* The roots of a call are popped when it is over.                         *)
LEMMA PoppedAll ==
  ASSUME NEW o, NEW v, NEW x
  PROVE  /\ temps = Rooted(o, v) => Popped(Len(Rooted(o, v))) = <<>>
         /\ temps = Append(Rooted(o, v), x) => Popped(Len(Rooted(o, v)) + 1) = <<>>
         /\ temps = <<o>> => Popped(1) = <<>>
  <1> DEFINE S == {o, v, x}
             r == Rooted(o, v)
  <1>1. r \in Seq(S) /\ x \in S
    BY RootedTyped
  <1> HIDE DEF S, r
  <1>2. Len(r) \in Nat /\ Len(Append(r, x)) = Len(r) + 1
    BY <1>1, AppendProperties, LenProperties
  <1>3. Len(r) - Len(r) = 0 /\ Len(Append(r, x)) - (Len(r) + 1) = 0 /\ 0 \in Int /\ 1 \in Int /\ 0 < 1
    BY <1>2
  <1>4. temps = r => Popped(Len(r)) = <<>>
    BY <1>3, SubSeqEmpty DEF Popped
  <1>5. temps = Append(r, x) => Popped(Len(r) + 1) = <<>>
    BY <1>3, SubSeqEmpty DEF Popped
  <1>6. temps = <<o>> => Popped(1) = <<>>
    <2>1. Len(<<o>>) - 1 = 0
      OBVIOUS
    <2> QED BY <1>3, <2>1, SubSeqEmpty DEF Popped
  <1> QED BY <1>4, <1>5, <1>6 DEF r

(* Room is made for one more slot than there are.                          *)
LEMMA SlotsEnough ==
  ASSUME NEW c \in Nat, NEW needed \in Nat, needed <= c + 1
  PROVE  ensureSlots(c, needed) \in Nat /\ ensureSlots(c, needed) >= needed
  <1>1. FirstSlots \in Nat /\ FirstSlots >= 1
    BY HeapAssumption
  <1> QED BY <1>1 DEF ensureSlots

(* The object that Adopt leaves.                                           *)
Adopted ==
  [Target EXCEPT !.capacity = ensureSlots(@, Len(shape[op.next].keys)),
                 !.slots = Append(@, op.value), !.shape = op.next]

LEMMA AdoptedGood ==
  ASSUME IInv, op.at = "room"
  PROVE  /\ Good(shape, Objects, Adopted)
         /\ Adopted.shape = op.next /\ Adopted.slots = Append(Target.slots, op.value)
         /\ Adopted.frozen = Target.frozen /\ Adopted.guarded = Target.guarded
         /\ op.next \in Shapes /\ op.next # None
         /\ Target.shape = op.before /\ op.before \in Shapes /\ op.before # None
         /\ shape[op.next].keys = Append(shape[op.before].keys, op.key)
         /\ SlotsOf(shape[op.before].keys, op.key) = {}
  <1> DEFINE old == Target
             c == ensureSlots(old.capacity, Len(shape[op.next].keys))
             slots == Append(old.slots, op.value)
  <1> USE DEF IInv
  <1>1. /\ op.object \in Objects /\ op.key \in Key /\ op.value \in Objects \cup Datum
        /\ op.before \in Shapes /\ old.shape = op.before
        /\ SlotsOf(shape[op.before].keys, op.key) = {}
        /\ ChildOf(shape, op.next, op.before, op.key)
    BY DEF CallOK, Adding
  <1>2. /\ op.next \in Shapes /\ op.next # None /\ op.before # None
        /\ shape[op.next].keys = Append(shape[op.before].keys, op.key)
    BY <1>1, HeapAssumption DEF ChildOf, LiveIn, Shapes
  <1>3. Good(shape, Objects, old) /\ old \in ObjectCell /\ Objects \in SUBSET Object
    BY <1>1 DEF ObjectsOK, Target, Good, Objects
  <1>4. KeysIn(shape, old) = shape[op.before].keys /\ KeysIn(shape, old) \in Seq(Key)
        /\ Len(old.slots) = Len(KeysIn(shape, old))
    BY <1>1, <1>2, <1>3, KeysTyped DEF KeysIn, Good, ShapesOK
  <1>5. Len(shape[op.next].keys) = Len(old.slots) + 1 /\ Len(old.slots) \in Nat
        /\ old.capacity \in Nat /\ Len(old.slots) <= old.capacity
    <2>1. Len(shape[op.next].keys) = Len(shape[op.before].keys) + 1
      BY <1>1, <1>2, <1>4, AppendProperties
    <2> QED BY <2>1, <1>1, <1>2, <1>3, <1>4 DEF Good, ObjectCell
  <1>6. c \in Nat /\ c >= Len(old.slots) + 1
    <2> DEFINE needed == Len(shape[op.next].keys)
    <2>1. needed \in Nat /\ needed = Len(old.slots) + 1 /\ needed <= old.capacity + 1
          /\ old.capacity \in Nat
      BY <1>5
    <2> HIDE DEF needed
    <2>2. ensureSlots(old.capacity, needed) \in Nat /\ ensureSlots(old.capacity, needed) >= needed
      BY <2>1, SlotsEnough
    <2> QED BY <2>1, <2>2 DEF needed
  <1>7. slots \in Seq(Object \cup Datum)
    BY <1>1, <1>3 DEF ObjectCell
  <1> HIDE DEF c, slots
  <1>8. Adopted = [old EXCEPT !.capacity = c, !.slots = slots, !.shape = op.next]
    BY <1>3 DEF Adopted, c, slots, ObjectCell
  <1>9. /\ Adopted \in ObjectCell /\ Adopted.shape = op.next /\ Adopted.slots = slots
        /\ Adopted.keys = old.keys /\ Adopted.capacity = c
        /\ Adopted.frozen = old.frozen /\ Adopted.guarded = old.guarded
    BY <1>2, <1>3, <1>6, <1>7, <1>8 DEF ObjectCell, Shapes
  <1>10. Good(shape, Objects, Adopted)
    BY <1>1, <1>2, <1>3, <1>4, <1>6, <1>9, AdoptGood DEF slots
  <1> QED BY <1>1, <1>2, <1>9, <1>10 DEF slots

LEMMA AdoptOK ==
  ASSUME IInv, Adopt
  PROVE  IInv'
  <1> USE DEF IInv
  <1>1. /\ op.at = "room" /\ UNCHANGED <<shape, held, way, calls>>
        /\ object' = [object EXCEPT ![op.object] = Adopted]
        /\ cache' = Learnt(op.site, op.before, Adopted, op.key)
        /\ temps' = Popped(Len(Carried) + 1) /\ op' = Idle
    BY DEF Adopt, Finish, Adopted, Target, Carried
  <1>2. /\ op.object \in Objects /\ op.key \in Key
        /\ op.site \in (Site \ Reads) \cup {None}
        /\ (op.site # None => op.key = KeyOf[op.site])
        /\ temps = Append(Carried, op.next)
    BY <1>1 DEF CallOK, Pinned, Call
  <1>3. /\ Good(shape, Objects, Adopted)
        /\ Adopted.shape = op.next
        /\ Adopted.frozen = Target.frozen /\ Adopted.guarded = Target.guarded
        /\ op.next \in Shapes /\ Target.shape = op.before /\ op.before \in Shapes
        /\ op.before # None
        /\ shape[op.next].keys = Append(shape[op.before].keys, op.key)
        /\ SlotsOf(shape[op.before].keys, op.key) = {}
    BY <1>1, AdoptedGood
  <1>4. /\ ObjectsOK' /\ Objects' = Objects /\ object'[op.object] = Adopted
        /\ \A u \in Object \ {op.object} : object'[u] = object[u]
    BY <1>1, <1>2, <1>3, ObjectChanges
  <1>6. CachesOK'
    <2> DEFINE p == Adopted
               before == op.before
               k == op.key
               s == op.site
    <2>1. /\ k \in Key /\ s \in (Site \ Reads) \cup {None} /\ (s # None => k = KeyOf[s])
          /\ p.shape \in Shapes /\ before \in Shapes /\ SlotsOf(shape[before].keys, k) = {}
          /\ shape[p.shape].keys = Append(shape[before].keys, k)
      BY <1>2, <1>3
    <2>2. cache' = Learnt(s, before, p, k)
      BY <1>1
    <2> HIDE DEF p, before, k, s
    <2>3. /\ Learnt(s, before, p, k) \in [Site -> Cache]
          /\ \A t \in Site : Truth(shape, t, Learnt(s, before, p, k)[t])
      BY <2>1, LearntTruth
    <2> QED BY <1>1, <2>2, <2>3 DEF CachesOK
  <1>7. temps' = <<>>
    BY <1>1, <1>2, PoppedAll DEF Carried
  <1>8. CallOK' /\ ShapesOK'
    BY <1>1, <1>7, CallEnds, ShapesStay
  <1> QED BY <1>1, <1>4, <1>6, <1>8

LEMMA ConvertOK ==
  ASSUME IInv, Convert
  PROVE  IInv'
  <1> USE DEF IInv
  <1> DEFINE p == convertToDictionary(Target)
  <1>1. /\ op.at = "convert" /\ UNCHANGED <<shape, cache, held, way, calls>>
        /\ temps' = IF Defining THEN temps \o Carried ELSE temps
        /\ op' = [op EXCEPT !.at = "own"]
    BY DEF Convert, Carried, Defining
  <1>2. /\ op.object \in Objects /\ op.key \in Key /\ op.value \in Objects \cup Datum
        /\ Allowed(way, Target, op.key) /\ way # "delete" /\ op \in Call
        /\ op.site # None => op.site \notin Reads /\ op.key = KeyOf[op.site]
        /\ op.next = None
    BY <1>1 DEF CallOK, Call
  <1>3. object' = [object EXCEPT ![op.object] = p]
    BY <1>2 DEF Convert, Target, ObjectsOK, Objects
  <1>4. Good(shape, Objects, Target) /\ Target \in ObjectCell
    BY <1>2 DEF ObjectsOK, Target, Good
  <1>5. Good(shape, Objects, p) /\ p.shape = None
    BY <1>4, ConvertGood
  <1>6. p.frozen = Target.frozen /\ p.guarded = Target.guarded
    BY <1>4 DEF convertToDictionary, ObjectCell
  <1> HIDE DEF p
  <1>7. /\ ObjectsOK' /\ Objects' = Objects /\ object'[op.object] = p
        /\ \A u \in Object \ {op.object} : object'[u] = object[u]
    BY <1>1, <1>2, <1>3, <1>5, ObjectChanges
  <1>9. ShapesOK' /\ CachesOK'
    BY <1>1, ShapesStay, CachesStay
  <1>10. /\ op'.at = "own" /\ op'.next = op.next /\ op'.object = op.object /\ op'.value = op.value
         /\ op'.site = op.site /\ op'.key = op.key /\ op'.before = op.before
         /\ Defining' = Defining /\ op' \in Call
    BY <1>1, <1>2 DEF Call, Phases, Defining
  <1>11. temps' = Carried
    <2>1. CASE Defining
      <3>1. temps = <<>>
        BY <1>1, <2>1 DEF CallOK, Pinned
      <3> QED BY <1>1, <2>1, <3>1, Rooting DEF Carried
    <2>2. CASE ~Defining
      BY <1>1, <2>2 DEF CallOK, Pinned
    <2> QED BY <2>1, <2>2
  <1>12. temps' = Pinned'
    BY <1>10, <1>11 DEF Pinned, Carried
  <1>13. Target' = p
    BY <1>7, <1>10 DEF Target
  <1>14. CallOK'
    BY <1>1, <1>2, <1>5, <1>6, <1>7, <1>10, <1>12, <1>13 DEF CallOK, Allowed
  <1> QED BY <1>1, <1>7, <1>9, <1>14

(* The object that PutOwn leaves.                                          *)
Owned ==
  LET o == dictionaryPut(Target, op.key, op.value)
  IN IF Defining THEN [o EXCEPT !.guarded = @ \cup {op.key}] ELSE o

LEMMA OwnedGood ==
  ASSUME IInv, op.at = "own"
  PROVE  /\ Good(shape, Objects, Owned)
         /\ Owned.shape = None /\ Owned.frozen = Target.frozen
         /\ LET o == dictionaryPut(Target, op.key, op.value)
            IN /\ Owned.keys = o.keys /\ Owned.slots = o.slots
               /\ Owned.guarded = IF Defining THEN Target.guarded \cup {op.key} ELSE Target.guarded
  <1> USE DEF IInv
  <1> DEFINE o == dictionaryPut(Target, op.key, op.value)
             guarded == o.guarded \cup {op.key}
  <1>1. op.object \in Objects /\ op.key \in Key /\ op.value \in Objects \cup Datum
        /\ Target.shape = None /\ Objects \in SUBSET Object
    BY DEF CallOK, Objects
  <1>2. Good(shape, Objects, Target)
    BY <1>1 DEF ObjectsOK, Target
  <1>3. /\ Good(shape, Objects, o) /\ o.shape = None
        /\ o.frozen = Target.frozen /\ o.guarded = Target.guarded
    BY <1>1, <1>2, PutGood
  <1> HIDE DEF o
  <1>4. o \in ObjectCell /\ op.key \in Key
    BY <1>1, <1>3 DEF Good
  <1>5. CASE Defining
    <2>1. Owned = [o EXCEPT !.guarded = guarded]
      BY <1>4, <1>5 DEF Owned, o, ObjectCell
    <2>2. guarded \in SUBSET Key
      BY <1>4 DEF ObjectCell
    <2> HIDE DEF guarded
    <2>3. Owned \in ObjectCell /\ Owned.shape = o.shape /\ Owned.keys = o.keys
          /\ Owned.slots = o.slots /\ Owned.capacity = o.capacity
          /\ Owned.frozen = o.frozen /\ Owned.guarded = guarded
      BY <1>4, <2>1, <2>2 DEF ObjectCell
    <2>4. Good(shape, Objects, Owned)
      BY <1>3, <2>3, MarkedGood
    <2> QED BY <1>3, <1>5, <2>3, <2>4 DEF o, guarded
  <1>6. CASE ~Defining
    <2>1. Owned = o
      BY <1>6 DEF Owned, o
    <2> QED BY <1>3, <1>6, <2>1 DEF o
  <1> QED BY <1>5, <1>6

LEMMA PutOwnOK ==
  ASSUME IInv, PutOwn
  PROVE  IInv'
  <1> USE DEF IInv
  <1>1. /\ op.at = "own" /\ UNCHANGED <<shape, held, way, calls>>
        /\ object' = [object EXCEPT ![op.object] = Owned]
        /\ cache' = Learnt(None, None, Owned, op.key)
        /\ temps' = Popped(Len(Carried)) /\ op' = Idle
    BY DEF PutOwn, Finish, Owned, Target, Carried, Defining
  <1>2. op.object \in Objects /\ temps = Carried
    BY <1>1 DEF CallOK, Pinned
  <1>3. Good(shape, Objects, Owned) /\ Owned.shape = None
    BY <1>1, OwnedGood
  <1>4. /\ ObjectsOK' /\ Objects' = Objects /\ object'[op.object] = Owned
        /\ \A u \in Object \ {op.object} : object'[u] = object[u]
    BY <1>1, <1>2, <1>3, ObjectChanges
  <1>6. cache' = cache
    BY <1>1 DEF Learnt
  <1>7. temps' = <<>>
    BY <1>1, <1>2, PoppedAll DEF Carried
  <1>8. CallOK' /\ ShapesOK' /\ CachesOK'
    BY <1>1, <1>6, <1>7, CallEnds, ShapesStay, CachesStay
  <1> QED BY <1>1, <1>4, <1>8

LEMMA ConvertAndDeleteOK ==
  ASSUME IInv, ConvertAndDelete
  PROVE  IInv'
  <1> USE DEF IInv
  <1> DEFINE c == convertToDictionary(Target)
             p == csObjectDelete(c, op.key)
  <1>1. /\ op.at = "delete" /\ UNCHANGED <<shape, held, way, calls>>
        /\ object' = [object EXCEPT ![op.object] = p]
        /\ cache' = Learnt(None, None, p, op.key)
        /\ temps' = Popped(1) /\ op' = Idle
    BY DEF ConvertAndDelete, Finish, Target
  <1>2. op.object \in Objects /\ temps = <<op.object>> /\ Has(op.object, op.key)
    BY <1>1 DEF CallOK, Pinned
  <1>3. Good(shape, Objects, Target)
    BY <1>2 DEF ObjectsOK, Target
  <1>4. Good(shape, Objects, c) /\ c.shape = None /\ c.keys = KeysOf(op.object)
    BY <1>3, ConvertGood DEF KeysOf, Target
  <1> HIDE DEF c
  <1>5. Good(shape, Objects, p) /\ p.shape = None
    BY <1>2, <1>4, DeleteGood DEF Has
  <1> HIDE DEF p
  <1>6. /\ ObjectsOK' /\ Objects' = Objects /\ object'[op.object] = p
        /\ \A u \in Object \ {op.object} : object'[u] = object[u]
    BY <1>1, <1>2, <1>5, ObjectChanges
  <1>8. cache' = cache
    BY <1>1 DEF Learnt
  <1>9. temps' = <<>>
    BY <1>1, <1>2, PoppedAll
  <1>10. CallOK' /\ ShapesOK' /\ CachesOK'
    BY <1>1, <1>8, <1>9, CallEnds, ShapesStay, CachesStay
  <1> QED BY <1>1, <1>6, <1>10

-----------------------------------------------------------------------------
(* What the invariant says of the references there are.                    *)

Elements(s) == {s[n] : n \in DOMAIN s}

LEMMA AppendElements ==
  ASSUME NEW S, NEW r \in Seq(S), NEW a \in S
  PROVE  Append(r, a) \in Seq(S) /\ Elements(Append(r, a)) = Elements(r) \cup {a}
  <1> DEFINE longer == Append(r, a)
  <1>1. /\ longer \in Seq(S) /\ Len(longer) = Len(r) + 1 /\ Len(r) \in Nat
        /\ \A i \in 1 .. Len(r) : longer[i] = r[i]
        /\ longer[Len(r) + 1] = a
        /\ DOMAIN r = 1 .. Len(r)
    BY AppendProperties, LenProperties
  <1> HIDE DEF longer
  <1>2. DOMAIN longer = 1 .. Len(r) + 1
    BY <1>1, LenProperties
  <1>3. Elements(longer) = Elements(r) \cup {a}
    BY <1>1, <1>2 DEF Elements
  <1> QED BY <1>1, <1>3 DEF longer

LEMMA RootedElements ==
  ASSUME NEW S, NEW o \in S, NEW v, v \in Object => v \in S
  PROVE  Rooted(o, v) \in Seq(S) /\ Elements(Rooted(o, v)) = {o} \cup ({v} \cap Object)
  <1>1. CASE v \in Object
    <2>1. Rooted(o, v) = <<o, v>>
      BY <1>1 DEF Rooted
    <2>2. <<o, v>> \in Seq(S) /\ Elements(<<o, v>>) = {o, v}
      BY <1>1 DEF Elements
    <2> QED BY <1>1, <2>1, <2>2
  <1>2. CASE v \notin Object
    <2>1. Rooted(o, v) = <<o>>
      BY <1>2 DEF Rooted
    <2>2. <<o>> \in Seq(S) /\ Elements(<<o>>) = {o}
      BY <1>2 DEF Elements
    <2> QED BY <1>2, <2>1, <2>2
  <1> QED BY <1>1, <1>2

(* The temporary roots are the cells the call under way needs.             *)
Needed ==
  CASE op.at \in {"child", "edge", "room"} ->
         {op.object} \cup ({op.value} \cap Object)
           \cup (IF op.at = "room" THEN {} ELSE {op.before})
           \cup (IF op.at = "child" THEN {} ELSE {op.next})
    [] op.at = "own" \/ (op.at = "convert" /\ ~Defining) -> {op.object} \cup ({op.value} \cap Object)
    [] op.at = "delete" -> {op.object}
    [] OTHER -> {}

LEMMA TempsNeeded ==
  ASSUME IInv
  PROVE  temps \in Seq(Cells) /\ Elements(temps) = Needed
  <1> USE DEF IInv
  <1>1. op.at \in Phases /\ temps = Pinned
    BY DEF CallOK, Call
  <1>2. CASE op.at \in {"child", "edge", "room", "own", "convert"}
    <2>1. op.object \in Cells /\ (op.value \in Object => op.value \in Cells)
      BY <1>2, HeapAssumption DEF CallOK, Cells
    <2>2. Carried \in Seq(Cells) /\ Elements(Carried) = {op.object} \cup ({op.value} \cap Object)
      BY <2>1, RootedElements, ZenonT(40) DEF Carried
    <2>3. CASE op.at = "child"
      <3>1. op.before \in Cells
        BY <2>3 DEF CallOK, Adding, Cells
      <3> QED BY <1>1, <2>2, <2>3, <3>1, AppendElements DEF Pinned, Needed
    <2>4. CASE op.at = "edge"
      <3>1. op.before \in Cells /\ op.next \in Cells
        BY <2>4 DEF CallOK, Adding, Cells, ChildOf, LiveIn, Shapes
      <3>2. Append(Carried, op.before) \in Seq(Cells)
            /\ Elements(Append(Carried, op.before)) = Elements(Carried) \cup {op.before}
        BY <2>2, <3>1, AppendElements
      <3> DEFINE r == Append(Carried, op.before)
      <3>a. r \in Seq(Cells)
        BY <3>2
      <3> HIDE DEF r
      <3>3. Append(r, op.next) \in Seq(Cells)
            /\ Elements(Append(r, op.next)) = Elements(r) \cup {op.next}
        BY <3>1, <3>a, AppendElements
      <3> QED BY <1>1, <2>2, <2>4, <3>2, <3>3 DEF Pinned, Needed, r
    <2>5. CASE op.at = "room"
      <3>1. op.next \in Cells
        BY <2>5 DEF CallOK, Adding, Cells, ChildOf, LiveIn, Shapes
      <3> QED BY <1>1, <2>2, <2>5, <3>1, AppendElements DEF Pinned, Needed
    <2>6. CASE op.at = "own" \/ (op.at = "convert" /\ ~Defining)
      BY <1>1, <2>2, <2>6 DEF Pinned, Needed
    <2>7. CASE op.at = "convert" /\ Defining
      BY <1>1, <2>7 DEF Pinned, Needed, Elements
    <2> QED BY <1>2, <2>3, <2>4, <2>5, <2>6, <2>7
  <1>3. CASE op.at = "delete"
    <2>1. op.object \in Cells
      BY <1>3 DEF CallOK, Cells
    <2>2. <<op.object>> \in Seq(Cells) /\ Elements(<<op.object>>) = {op.object}
      BY <2>1 DEF Elements
    <2> QED BY <1>1, <1>3, <2>2 DEF Pinned, Needed
  <1>4. CASE op.at = "idle"
    <2>1. temps = <<>> /\ Needed = {}
      BY <1>1, <1>4 DEF Pinned, Needed
    <2> QED BY <2>1 DEF Elements
  <1> QED BY <1>1, <1>2, <1>3, <1>4 DEF Phases

(* Every cell keeps cells that are there.                                  *)
LEMMA KeepsCells ==
  ASSUME IInv, NEW c \in Cells
  PROVE  Keeps(c) \subseteq Cells
  <1> USE DEF IInv
  <1>1. CASE c \in Shape
    <2>1. c \in Shapes
      BY <1>1, HeapAssumption DEF Cells, Objects
    <2>2. shape[c].parent \in Shapes \cup {None}
      BY <2>1 DEF ShapesOK, ChildOf, LiveIn, Shapes
    <2> QED BY <1>1, <2>2 DEF Keeps, Cells
  <1>2. CASE c \notin Shape
    <2>1. c \in Objects
      BY <1>2 DEF Cells, Shapes
    <2>2. Good(shape, Objects, object[c])
      BY <2>1 DEF ObjectsOK
    <2>3. object[c].shape \in Shapes \cup {None}
      BY <2>2 DEF Good, LiveIn, Shapes
    <2>4. \A n \in DOMAIN KeysIn(shape, object[c]) : object[c].slots[n] \in Objects \cup Datum
      BY <2>1, SlotLive DEF KeysOf
    <2> QED BY <1>2, <2>3, <2>4, HeapAssumption DEF Keeps, Cells
  <1> QED BY <1>1, <1>2

(* The type of every variable follows from the invariant.                  *)
LEMMA Typed == IInv => TypeOK
  <1> SUFFICES ASSUME IInv
               PROVE  TypeOK
    OBVIOUS
  <1> USE DEF IInv
  <1>1. /\ shape \in [Shape -> ShapeCell \cup {None}]
        /\ object \in [Object -> ObjectCell \cup {None}]
        /\ cache \in [Site -> Cache] /\ op \in Call /\ way \in Ways /\ calls \in Nat
    BY DEF ShapesOK, ObjectsOK, CachesOK, CallOK
  <1>2. \A o \in Objects :
          /\ Len(object[o].slots) = Len(KeysOf(o))
          /\ object[o].shape # None => /\ object[o].keys = <<>>
                                       /\ Len(object[o].slots) <= object[o].capacity
    BY DEF ObjectsOK, Good, KeysOf
  <1>3. held \subseteq Object
    BY DEF Objects
  <1>4. temps \in Seq(Shape \cup Object)
    <2>1. temps \in Seq(Cells) /\ Cells \subseteq Shape \cup Object
      BY TempsNeeded DEF Cells, Shapes, Objects
    <2> QED BY <2>1
  <1> QED BY <1>1, <1>2, <1>3, <1>4 DEF TypeOK

LEMMA NothingDangles == IInv => NoDangling
  <1> SUFFICES ASSUME IInv
               PROVE  NoDangling
    OBVIOUS
  <1> USE DEF IInv
  <1>1. TypeOK /\ held \subseteq Objects
    BY Typed
  <1>2. \A n \in DOMAIN temps : temps[n] \in Cells
    BY TempsNeeded, ElementOfSeq, LenProperties
  <1>3. {op.object, op.value, op.next} \ ({None} \cup Datum) \subseteq Cells
    <2>1. CASE op.at = "idle"
      BY <2>1 DEF CallOK, Idle
    <2>2. CASE op.at # "idle"
      <3>1. op.object \in Cells
        BY <2>2 DEF CallOK, Cells
      <3>2. op.value \in Cells \cup Datum \cup {None}
        BY <2>2 DEF CallOK, Cells
      <3>3. op.next \in Cells \cup {None}
        BY <2>2 DEF CallOK, Adding, ChildOf, LiveIn, Cells, Shapes
      <3> QED BY <3>1, <3>2, <3>3
    <2> QED BY <2>1, <2>2
  <1>4. op.at \in {"child", "edge", "room"} => op.before \in Cells
    BY DEF CallOK, Adding, Cells
  <1>5. \A c \in Cells : Keeps(c) \subseteq Cells
    BY KeepsCells
  <1>6. \A s \in Shapes, k \in Key : shape[s].edges[k] \in Shapes \cup {None}
    BY DEF ShapesOK, ChildOf, LiveIn, Shapes
  <1>7. \A s \in Site : {cache[s].shape, cache[s].added} \subseteq Shapes \cup {Absent, None}
    BY DEF CachesOK, Truth, LiveIn, Shapes
  <1> QED BY <1>1, <1>2, <1>3, <1>4, <1>5, <1>6, <1>7 DEF NoDangling

LEMMA CachesTrue == IInv => CachesTellTruth
  BY DEF IInv, CachesOK, Truth, CachesTellTruth

-----------------------------------------------------------------------------
(* A collection.                                                           *)

(* Marking reaches the roots and whatever a marked cell keeps.             *)
LEMMA Marking ==
  ASSUME IInv
  PROVE  /\ Marked \subseteq Cells /\ Roots \subseteq Marked
         /\ \A c \in Marked : Keeps(c) \subseteq Marked
  <1> DEFINE keeps == [c \in Cells |-> Keeps(c)]
             closed == {S \in SUBSET Cells : Roots \subseteq S /\ \A c \in S : keeps[c] \subseteq S}
  <1>1. Marked = {c \in Cells : \A S \in closed : c \in S}
    BY DEF Marked
  <1>2. Roots \subseteq Cells
    <2>1. \A n \in DOMAIN temps : temps[n] \in Cells
      BY NothingDangles DEF NoDangling
    <2> QED BY <2>1 DEF Roots, IInv, Cells, ShapesOK
  <1>3. Roots \subseteq Marked
    BY <1>1, <1>2
  <1>4. ASSUME NEW c \in Marked, NEW d \in Keeps(c)
        PROVE  d \in Marked
    <2>1. c \in Cells /\ d \in Cells
      BY <1>1, <1>4, KeepsCells
    <2>2. ASSUME NEW S \in closed
          PROVE  d \in S
      <3>1. c \in S /\ S \subseteq Cells /\ \A e \in S : keeps[e] \subseteq S
        BY <1>1, <1>4
      <3>2. keeps[c] = Keeps(c)
        BY <2>1
      <3> QED BY <1>4, <3>1, <3>2
    <2> QED BY <1>1, <2>1, <2>2
  <1> QED BY <1>1, <1>3, <1>4

(* A marked object keeps its shape and what is in its slots.               *)
LEMMA MarkedObject ==
  ASSUME IInv, NEW o \in Objects, o \in Marked
  PROVE  /\ object[o].shape # None => object[o].shape \in Marked
         /\ \A n \in DOMAIN object[o].slots : object[o].slots[n] \in (Marked \cap Objects) \cup Datum
  <1>1. o \notin Shape /\ Keeps(o) \subseteq Marked
    BY Marking, HeapAssumption DEF Objects
  <1>2. Good(shape, Objects, object[o])
    BY DEF IInv, ObjectsOK
  <1>3. object[o].shape # None => object[o].shape \in Marked
    BY <1>1 DEF Keeps
  <1>4. DOMAIN object[o].slots = DOMAIN KeysIn(shape, object[o])
    BY <1>2, KeysTyped DEF Good, ObjectCell, IInv, ShapesOK
  <1>5. ASSUME NEW n \in DOMAIN object[o].slots, object[o].slots[n] \notin Datum
        PROVE  object[o].slots[n] \in Marked \cap Objects
    <2>1. object[o].slots[n] \in Objects /\ Objects \subseteq Object
      BY <1>2, <1>5 DEF Good, Objects
    <2> QED BY <1>1, <1>4, <1>5, <2>1 DEF Keeps
  <1> QED BY <1>3, <1>5

(* A marked shape keeps its parent.                                        *)
LEMMA MarkedShape ==
  ASSUME IInv, NEW s \in Shapes, s \in Marked, s # Root
  PROVE  shape[s].parent \in Marked \cap Shapes
  <1>1. shape[s].parent \in Shapes /\ shape[s].parent # None
    BY HeapAssumption DEF IInv, ShapesOK, ChildOf, LiveIn, Shapes
  <1> QED BY <1>1, Marking DEF Keeps, Shapes

LEMMA CollectOK ==
  ASSUME IInv, csCollectGarbage
  PROVE  IInv'
  <1> USE DEF IInv
  <1>1. /\ shape' = [s \in Shape |-> IF s \in Marked
                                     THEN csShapePruneTransitions(shape[s], Marked) ELSE None]
        /\ object' = [o \in Object |-> IF o \in Marked THEN object[o] ELSE None]
        /\ cache' = csChunkPruneCaches(Marked)
        /\ UNCHANGED <<held, temps, op, way, calls>>
    BY DEF csCollectGarbage
  <1>2. Marked \subseteq Cells /\ Roots \subseteq Marked /\ \A c \in Marked : Keeps(c) \subseteq Marked
    BY Marking
  <1>3. \A s \in Shape : s \in Marked => s \in Shapes
    BY <1>2, HeapAssumption DEF Cells, Objects
  <1>4. \A o \in Object : o \in Marked => o \in Objects
    BY <1>2, HeapAssumption DEF Cells, Shapes
  <1> DEFINE pruned(s) == [k \in Key |-> IF shape[s].edges[k] \in Marked
                                         THEN shape[s].edges[k] ELSE None]
  <1>5. ASSUME NEW s \in Shape, s \in Marked
        PROVE  /\ shape'[s] \in ShapeCell /\ shape'[s] # None
               /\ shape'[s].parent = shape[s].parent /\ shape'[s].key = shape[s].key
               /\ shape'[s].keys = shape[s].keys
               /\ \A k \in Key : shape'[s].edges[k] = IF shape[s].edges[k] \in Marked
                                                      THEN shape[s].edges[k] ELSE None
    <2>1. shape[s] \in ShapeCell
      BY <1>3, <1>5 DEF ShapesOK, Shapes
    <2>2. pruned(s) \in [Key -> Shape \cup {None}]
      BY <2>1 DEF ShapeCell
    <2> DEFINE edges == pruned(s)
    <2>3. shape'[s] = [shape[s] EXCEPT !.edges = edges]
      BY <1>1, <1>5, <2>1 DEF csShapePruneTransitions, ShapeCell
    <2>4. edges \in [Key -> Shape \cup {None}]
          /\ \A k \in Key : edges[k] = IF shape[s].edges[k] \in Marked
                                       THEN shape[s].edges[k] ELSE None
      BY <2>2
    <2> HIDE DEF edges
    <2>5. shape'[s] \in ShapeCell /\ shape'[s].edges = edges
          /\ shape'[s].parent = shape[s].parent /\ shape'[s].key = shape[s].key
          /\ shape'[s].keys = shape[s].keys
      BY <2>1, <2>3, <2>4 DEF ShapeCell
    <2> QED BY <2>4, <2>5, HeapAssumption
  <1>6. /\ shape' \in [Shape -> ShapeCell \cup {None}] /\ Shapes' = Marked \cap Shapes
        /\ \A s \in Shapes' : s \in Shape /\ s \in Marked /\ s \in Shapes
    <2>1. shape' \in [Shape -> ShapeCell \cup {None}]
      <3>1. \A s \in Shape : shape'[s] \in ShapeCell \cup {None}
        BY <1>1, <1>5
      <3> QED BY <1>1, <3>1
    <2>2. \A s \in Shape : s \notin Marked => shape'[s] = None
      BY <1>1
    <2> QED BY <1>3, <1>5, <2>1, <2>2 DEF Shapes
  <1>7. /\ object' \in [Object -> ObjectCell \cup {None}] /\ Objects' = Marked \cap Objects
        /\ \A o \in Objects' : object'[o] = object[o] /\ o \in Marked /\ o \in Objects
    <2>1. object' \in [Object -> ObjectCell \cup {None}]
      BY <1>1 DEF ObjectsOK
    <2>2. \A o \in Object : object'[o] = IF o \in Marked THEN object[o] ELSE None
      BY <1>1
    <2> QED BY <1>4, <2>1, <2>2 DEF Objects
  <1>8. \A s \in Shapes' : Kept(shape, shape', s)
    BY <1>5, <1>6 DEF Kept, LiveIn, Shapes
  <1>9. Root \in Marked /\ held \subseteq Marked /\ Elements(temps) \subseteq Marked
    BY <1>2 DEF Roots, Elements
  <1>10. ShapesOK'
    <2>1. Root \in Shapes' /\ shape'[Root].parent = None /\ shape'[Root].keys = <<>>
      BY <1>5, <1>6, <1>9 DEF ShapesOK, Shapes
    <2>2. ASSUME NEW s \in Shapes' \ {Root}
          PROVE  /\ ChildOf(shape', s, shape'[s].parent, shape'[s].key)
                 /\ \/ shape'[shape'[s].parent].edges[shape'[s].key] = s
                    \/ op'.at = "edge" /\ s = op'.next
      <3> DEFINE p == shape[s].parent
                 k == shape[s].key
      <3>1. shape'[s].parent = p /\ shape'[s].key = k /\ s \in Shapes \ {Root} /\ s \in Marked
        BY <1>5, <1>6
      <3>2. /\ ChildOf(shape, s, p, k)
            /\ shape[p].edges[k] = s \/ (op.at = "edge" /\ s = op.next)
        BY <3>1 DEF ShapesOK
      <3>3. p \in Marked /\ p \in Shapes /\ p \in Shape
        BY <3>1, MarkedShape DEF Shapes
      <3>4. p \in Shapes' /\ k \in Key
        BY <1>6, <3>2, <3>3 DEF ChildOf
      <3>5. ChildOf(shape', s, p, k)
        BY <1>8, <3>2, <3>4, ChildKept
      <3>6. shape'[p].edges[k] = IF shape[p].edges[k] \in Marked THEN shape[p].edges[k] ELSE None
        BY <1>5, <3>3, <3>4
      <3> QED BY <1>1, <3>1, <3>2, <3>5, <3>6
    <2>3. ASSUME NEW s \in Shapes', NEW k \in Key, shape'[s].edges[k] # None
          PROVE  ChildOf(shape', shape'[s].edges[k], s, k)
      <3>1. shape'[s].edges[k] = shape[s].edges[k] /\ shape[s].edges[k] \in Marked
            /\ shape[s].edges[k] # None /\ s \in Shapes
        BY <1>5, <1>6, <2>3
      <3>2. ChildOf(shape, shape[s].edges[k], s, k)
        BY <3>1 DEF ShapesOK
      <3>3. shape[s].edges[k] \in Shapes'
        BY <1>6, <3>1, <3>2 DEF ChildOf, LiveIn, Shapes
      <3> QED BY <1>8, <3>1, <3>2, <3>3, ChildKept
    <2>4. OneShapePerLayout' /\ \A s \in Shapes' : NoRepeats(shape'[s].keys)
      BY <1>5, <1>6 DEF ShapesOK, OneShapePerLayout
    <2> QED BY <1>6, <2>1, <2>2, <2>3, <2>4 DEF ShapesOK
  <1>11. \A o \in Objects' : Good(shape', Objects', object'[o])
                             /\ KeysIn(shape', object[o]) = KeysIn(shape, object[o])
    <2> SUFFICES ASSUME NEW o \in Objects'
                 PROVE  Good(shape', Objects', object'[o])
                        /\ KeysIn(shape', object[o]) = KeysIn(shape, object[o])
      OBVIOUS
    <2>1. o \in Objects /\ o \in Marked /\ object'[o] = object[o]
      BY <1>7
    <2>2. Good(shape, Objects, object[o])
      BY <2>1 DEF ObjectsOK
    <2>3. object[o].shape # None => Kept(shape, shape', object[o].shape)
      <3> SUFFICES ASSUME object[o].shape # None
                   PROVE  Kept(shape, shape', object[o].shape)
        OBVIOUS
      <3>1. object[o].shape \in Marked /\ object[o].shape \in Shapes
        BY <2>1, <2>2, MarkedObject DEF Good, LiveIn, Shapes
      <3> QED BY <1>6, <1>8, <3>1
    <2>4. \A n \in DOMAIN object[o].slots : object[o].slots[n] \in Objects' \cup Datum
      BY <1>7, <2>1, MarkedObject
    <2> QED BY <2>1, <2>2, <2>3, <2>4, GoodKept
  <1>12. ObjectsOK'
    BY <1>7, <1>11 DEF ObjectsOK
  <1>13. CachesOK'
    <2>1. cache' \in [Site -> Cache]
      BY <1>1 DEF csChunkPruneCaches, CachesOK, EmptyCache, Cache
    <2>2. ASSUME NEW s \in Site
          PROVE  Truth(shape', s, cache'[s])
      <3>1. CASE cache[s].shape \in Marked \cup {Absent} /\ cache[s].added \in Marked \cup {None}
        <4>1. cache'[s] = cache[s]
          BY <1>1, <3>1 DEF csChunkPruneCaches
        <4>2. Truth(shape, s, cache[s])
          BY DEF CachesOK
        <4>3. cache[s].shape # Absent =>
                /\ Kept(shape, shape', cache[s].shape)
                /\ cache[s].added # None => Kept(shape, shape', cache[s].added)
          BY <1>6, <1>8, <3>1, <4>2 DEF Truth, LiveIn, Shapes
        <4> QED BY <4>1, <4>2, <4>3, TruthKept
      <3>2. CASE ~(cache[s].shape \in Marked \cup {Absent} /\ cache[s].added \in Marked \cup {None})
        <4>1. cache'[s] = EmptyCache
          BY <1>1, <3>2 DEF csChunkPruneCaches
        <4> QED BY <4>1 DEF EmptyCache, Truth
      <3> QED BY <3>1, <3>2
    <2> QED BY <2>1, <2>2 DEF CachesOK
  <1>14. CallOK'
    <2>1. Needed \subseteq Marked
      BY <1>9, TempsNeeded
    <2>2. CASE op.at = "idle"
      <3>1. temps = <<>> /\ op = Idle
        BY <2>2, NoneCalled DEF Calling
      <3> QED BY <1>1, <3>1, CallEnds
    <2>3. CASE op.at # "idle"
      <3>1. /\ op.object \in Objects' /\ object'[op.object] = object[op.object]
            /\ op.at # "delete" => op.value \in Objects' \cup Datum
        <4>1. op.object \in Objects /\ (op.at # "delete" => op.value \in Objects \cup Datum)
              /\ op.at \in Phases
          BY <2>3 DEF CallOK, Call
        <4>2. CASE op.at = "convert" /\ Defining
          <5>1. op.object \in held /\ op.value \in held \cup Datum
            BY <4>2 DEF CallOK
          <5> QED BY <1>7, <1>9, <4>1, <5>1
        <4>3. CASE ~(op.at = "convert" /\ Defining)
          <5>1. op.object \in Needed
                /\ (op.at # "delete" /\ op.value \in Object => op.value \in Needed)
            BY <2>3, <4>1, <4>3 DEF Needed, Phases
          <5>2. Objects \subseteq Object
            BY DEF Objects
          <5> QED BY <1>7, <2>1, <4>1, <5>1, <5>2
        <4> QED BY <4>2, <4>3
      <3>2. Target' = Target /\ KeysOf(op.object)' = KeysOf(op.object)
        BY <1>1, <1>7, <1>11, <3>1 DEF Target, KeysOf
      <3>3. temps' = Pinned' /\ Defining' = Defining
        BY <1>1 DEF CallOK, Pinned, Carried, Defining
      <3>4. ASSUME op.at \in {"child", "edge", "room"}
            PROVE  Adding'
        <4>1. Adding
          BY <3>4 DEF CallOK
        <4>2. op.before \in Shapes'
          <5>1. Target.shape = op.before /\ op.before # None /\ op.before \in Shapes
            BY <4>1, HeapAssumption DEF Adding, Shapes
          <5>2. op.before \in Marked
            BY <1>7, <3>1, <5>1, MarkedObject DEF Target
          <5> QED BY <1>6, <5>1, <5>2
        <4>3. op.key \in Key /\ Kept(shape, shape', op.before)
          BY <1>8, <2>3, <4>2 DEF CallOK
        <4>4. op.at # "room" => shape'[op.before].edges[op.key] = None
          BY <1>5, <1>6, <4>1, <4>2, <4>3 DEF Adding
        <4>5. op.at # "child" => ChildOf(shape', op.next, op.before, op.key)
          <5> SUFFICES ASSUME op.at # "child"
                       PROVE  ChildOf(shape', op.next, op.before, op.key)
            OBVIOUS
          <5>1. ChildOf(shape, op.next, op.before, op.key) /\ op.next \in Needed
            BY <3>4, <4>1 DEF Adding, Needed
          <5>2. op.next \in Shapes'
            BY <1>6, <2>1, <5>1 DEF ChildOf, LiveIn, Shapes
          <5> QED BY <1>8, <4>2, <5>1, <5>2, ChildKept
        <4> QED BY <1>1, <3>2, <3>3, <4>1, <4>2, <4>3, <4>4, <4>5 DEF Adding, Kept
      <3>5. Has(op.object, op.key)' = Has(op.object, op.key)
        BY <1>1, <3>2 DEF Has
      <3> QED BY <1>1, <2>3, <3>1, <3>2, <3>3, <3>4, <3>5 DEF CallOK
    <2> QED BY <2>2, <2>3
  <1>15. held' \subseteq Objects' /\ way' \in Ways /\ calls' \in Nat
    BY <1>1, <1>7, <1>9
  <1> QED BY <1>10, <1>12, <1>13, <1>14, <1>15

-----------------------------------------------------------------------------
(* The invariants.                                                         *)

LEMMA NextOK ==
  ASSUME IInv, Next
  PROVE  IInv'
  <1>1. CASE csCollectGarbage
    BY <1>1, CollectOK
  <1>2. CASE AllocateChild
    BY <1>2, AllocateChildOK
  <1>3. CASE RecordEdge
    BY <1>3, RecordEdgeOK
  <1>4. CASE Adopt
    BY <1>4, AdoptOK
  <1>5. CASE Convert
    BY <1>5, ConvertOK
  <1>6. CASE PutOwn
    BY <1>6, PutOwnOK
  <1>7. CASE ConvertAndDelete
    BY <1>7, ConvertAndDeleteOK
  <1>8. CASE \E o \in Object : New(o) \/ Drop(o) \/ Freeze(o)
    BY <1>8, NewOK, DropOK, FreezeOK
  <1>9. CASE \E o \in Object, k \in Key : Delete(o, k) \/ Relink(o, k)
    BY <1>9, DeleteOK, RelinkOK
  <1>10. CASE \E o \in Object, k \in Key, v \in Value :
       IndexStore(o, k, v) \/ Assign(o, k, v) \/ Define(o, k, v)
    BY <1>10, StoreOK, DefineOK
  <1>11. CASE \E s \in Site, o \in Object : Read(s, o)
    BY <1>11, ReadOK
  <1>12. CASE \E s \in Site, o \in Object, v \in Value : Write(s, o, v)
    BY <1>12, WriteOK
  <1> QED BY <1>1, <1>2, <1>3, <1>4, <1>5, <1>6, <1>7, <1>8, <1>9, <1>10, <1>11, <1>12 DEF Next

LEMMA StutterOK ==
  ASSUME IInv, UNCHANGED vars
  PROVE  IInv'
  <1> USE DEF IInv, vars
  <1>1. ShapesOK' /\ ObjectsOK' /\ CachesOK'
    BY DEF ShapesOK, OneShapePerLayout, Shapes, ObjectsOK, Objects, CachesOK
  <1>2. CallOK'
    BY DEF CallOK, Pinned, Carried, Target, Adding, Has, KeysOf, Shapes, Objects, Defining
  <1>3. held' \subseteq Objects' /\ way' \in Ways /\ calls' \in Nat
    BY DEF Objects
  <1> QED BY <1>1, <1>2, <1>3

(* The invariant holds in every state the heap can reach.                  *)
THEOREM Invariant == Spec => []IInv
  <1>1. IInv /\ [Next]_vars => IInv'
    BY NextOK, StutterOK
  <1> QED BY InitOK, <1>1, PTL DEF Spec

(* Every variable keeps its type: an object in shape mode has just the     *)
(* slots its shape counts, and room for them.                              *)
THEOREM TypeCorrect == Spec => []TypeOK
  BY Invariant, Typed, PTL

(* No step follows a reference to a cell the collector has freed: not the  *)
(* stack, not a temporary root, not the call that stops to allocate, not a *)
(* field, and not the weak references of edges and inline caches either.   *)
THEOREM NoReferenceDangles == Spec => []NoDangling
  BY Invariant, NothingDangles, PTL

(* A site that hits does what the lookup it saves would have done, however *)
(* the layouts around it were pruned and made again.                       *)
THEOREM CachesAreTrue == Spec => []CachesTellTruth
  BY Invariant, CachesTrue, PTL

(* Objects built the same way share one layout.                            *)
THEOREM LayoutsAreShared == Spec => []OneShapePerLayout
  <1>1. IInv => OneShapePerLayout
    BY DEF IInv, ShapesOK
  <1> QED BY Invariant, <1>1, PTL

-----------------------------------------------------------------------------
(* The heap keeps the promise of PropertyBags: what each operation makes   *)
(* of the named properties of an object.                                   *)

EntriesOf(h, o) == [n \in DOMAIN KeysIn(h, o) |-> [key |-> KeysIn(h, o)[n], value |-> o.slots[n]]]
Content(h, o) == [entries |-> EntriesOf(h, o), frozen |-> o.frozen, guarded |-> o.guarded]
Entry == [key : Key, value : Object \cup Datum]

LEMMA EntriesTyped ==
  ASSUME NEW h \in [Shape -> ShapeCell \cup {None}], NEW live \in SUBSET Object, NEW o,
         Good(h, live, o)
  PROVE  /\ EntriesOf(h, o) \in Seq(Entry) /\ Len(EntriesOf(h, o)) = Len(o.slots)
         /\ KeysIn(h, o) \in Seq(Key) /\ o.slots \in Seq(Object \cup Datum)
         /\ Len(o.slots) = Len(KeysIn(h, o)) /\ Len(o.slots) \in Nat
         /\ \A n \in 1 .. Len(o.slots) :
              EntriesOf(h, o)[n] = [key |-> KeysIn(h, o)[n], value |-> o.slots[n]]
         /\ \A k : Bags!Named(EntriesOf(h, o), k) = SlotsOf(KeysIn(h, o), k)
         /\ Content(h, o) \in BagCell /\ Content(h, o) # None
  <1> DEFINE keys == KeysIn(h, o)
             entries == EntriesOf(h, o)
  <1>1. o \in ObjectCell /\ keys \in Seq(Key) /\ o.slots \in Seq(Object \cup Datum)
        /\ Len(o.slots) = Len(keys) /\ o.guarded \in SUBSET Key /\ o.frozen \in BOOLEAN
    BY KeysTyped DEF Good, ObjectCell
  <1> HIDE DEF keys
  <1>2. Len(keys) \in Nat /\ DOMAIN keys = 1 .. Len(keys) /\ DOMAIN o.slots = 1 .. Len(keys)
        /\ \A n \in 1 .. Len(keys) : keys[n] \in Key /\ o.slots[n] \in Object \cup Datum
    BY <1>1, LenProperties, ElementOfSeq
  <1>3. entries = [n \in 1 .. Len(keys) |-> [key |-> keys[n], value |-> o.slots[n]]]
    BY <1>2 DEF EntriesOf, keys
  <1> HIDE DEF entries
  <1>4. \A n \in 1 .. Len(keys) : [key |-> keys[n], value |-> o.slots[n]] \in Entry
    BY <1>2 DEF Entry
  <1>5. entries \in Seq(Entry) /\ Len(entries) = Len(keys)
        /\ DOMAIN entries = 1 .. Len(keys)
        /\ \A n \in 1 .. Len(keys) : entries[n] = [key |-> keys[n], value |-> o.slots[n]]
    BY <1>2, <1>3, <1>4
  <1>6. \A k : Bags!Named(entries, k) = SlotsOf(keys, k)
    BY <1>2, <1>5 DEF Bags!Named, SlotsOf
  <1>7. Content(h, o) \in BagCell
    BY <1>1, <1>5 DEF Content, BagCell, Entry, entries
  <1>8. Content(h, o) # None
    BY <1>7, HeapAssumption
  <1> QED BY <1>1, <1>2, <1>5, <1>6, <1>7, <1>8 DEF keys, entries

(* The entries e spell out what the slots hold under the keys.             *)
Spells(e, keys, slots) ==
  /\ e \in Seq(Entry) /\ Len(e) = Len(slots) /\ keys \in Seq(Key)
  /\ slots \in Seq(Object \cup Datum) /\ Len(slots) = Len(keys) /\ Len(slots) \in Nat
  /\ \A n \in 1 .. Len(slots) : e[n] = [key |-> keys[n], value |-> slots[n]]

LEMMA EntriesSpell ==
  ASSUME NEW h \in [Shape -> ShapeCell \cup {None}], NEW live \in SUBSET Object, NEW o,
         Good(h, live, o)
  PROVE  Spells(EntriesOf(h, o), KeysIn(h, o), o.slots)
  BY EntriesTyped DEF Spells

LEMMA SpelledNames ==
  ASSUME NEW e, NEW keys, NEW slots, Spells(e, keys, slots)
  PROVE  \A k : Bags!Named(e, k) = SlotsOf(keys, k)
  <1>1. DOMAIN e = 1 .. Len(keys) /\ DOMAIN keys = 1 .. Len(keys)
        /\ \A n \in 1 .. Len(keys) : e[n] = [key |-> keys[n], value |-> slots[n]]
    BY LenProperties DEF Spells
  <1> QED BY <1>1 DEF Bags!Named, SlotsOf

LEMMA StoredNew ==
  ASSUME NEW e, NEW k, NEW v, Bags!Named(e, k) = {}
  PROVE  Bags!Stored(e, k, v) = Append(e, [key |-> k, value |-> v])
  BY Zenon DEF Bags!Stored

LEMMA StoredOver ==
  ASSUME NEW e, NEW k, NEW v, Bags!Named(e, k) # {}
  PROVE  Bags!Stored(e, k, v)
           = [n \in DOMAIN e |-> IF e[n].key = k THEN [key |-> k, value |-> v] ELSE e[n]]
  BY Zenon DEF Bags!Stored

LEMMA AppendParts ==
  ASSUME NEW S, NEW seq \in Seq(S), NEW e \in S
  PROVE  /\ Append(seq, e) \in Seq(S) /\ Len(Append(seq, e)) = Len(seq) + 1
         /\ \A n \in 1 .. Len(seq) : Append(seq, e)[n] = seq[n]
         /\ Append(seq, e)[Len(seq) + 1] = e
  BY AppendProperties

LEMMA AppendStores ==
  ASSUME NEW h \in [Shape -> ShapeCell \cup {None}], NEW live \in SUBSET Object,
         NEW o, Good(h, live, o), NEW p, Good(h, live, p),
         NEW k \in Key, NEW v \in Object \cup Datum, SlotsOf(KeysIn(h, o), k) = {},
         KeysIn(h, p) = Append(KeysIn(h, o), k), p.slots = Append(o.slots, v)
  PROVE  EntriesOf(h, p) = Bags!Stored(EntriesOf(h, o), k, v)
  <1> DEFINE e == EntriesOf(h, o)
             f == EntriesOf(h, p)
             new == [key |-> k, value |-> v]
             keys == KeysIn(h, o)
             more == KeysIn(h, p)
             slots == o.slots
             put == p.slots
             V == Object \cup Datum
             g == Append(e, new)
  <1>1. \A q : Bags!Named(e, q) = SlotsOf(keys, q)
    BY EntriesTyped
  <1>20. Spells(e, keys, slots) /\ Spells(f, more, put)
    BY EntriesSpell
  <1>4. new \in Entry /\ v \in V
    BY DEF Entry
  <1>5. more = Append(keys, k) /\ put = Append(slots, v) /\ SlotsOf(keys, k) = {}
    OBVIOUS
  <1> HIDE DEF e, f, new, keys, slots, more, put, g
  <1>2. e \in Seq(Entry) /\ Len(e) = Len(slots) /\ keys \in Seq(Key)
        /\ slots \in Seq(V) /\ Len(slots) = Len(keys) /\ Len(slots) \in Nat
        /\ \A n \in 1 .. Len(slots) : e[n] = [key |-> keys[n], value |-> slots[n]]
    BY <1>20 DEF Spells
  <1>3. f \in Seq(Entry) /\ Len(f) = Len(put)
        /\ \A n \in 1 .. Len(put) : f[n] = [key |-> more[n], value |-> put[n]]
    BY <1>20 DEF Spells
  <1> HIDE DEF V
  <1>6. Bags!Stored(e, k, v) = g
    <2>1. Bags!Named(e, k) = {}
      BY <1>1, <1>5
    <2>2. Bags!Stored(e, k, v) = Append(e, [key |-> k, value |-> v])
      BY <2>1, StoredNew
    <2> QED BY <2>2 DEF g, new
  <1>7. g \in Seq(Entry) /\ Len(g) = Len(e) + 1 /\ g[Len(e) + 1] = new
        /\ \A n \in 1 .. Len(e) : g[n] = e[n]
    BY <1>2, <1>4, AppendParts DEF g
  <1>8. Len(more) = Len(keys) + 1 /\ more[Len(keys) + 1] = k
        /\ \A n \in 1 .. Len(keys) : more[n] = keys[n]
    BY <1>2, <1>5, AppendParts
  <1>9. Len(put) = Len(slots) + 1 /\ put[Len(slots) + 1] = v
        /\ \A n \in 1 .. Len(slots) : put[n] = slots[n]
    BY <1>2, <1>4, <1>5, AppendParts
  <1>10. ASSUME NEW n \in 1 .. Len(f)
         PROVE  f[n] = g[n]
    <2>1. f[n] = [key |-> more[n], value |-> put[n]]
      BY <1>3
    <2>2. n \in 1 .. Len(slots) \/ n = Len(slots) + 1
      BY <1>2, <1>3, <1>9
    <2>3. CASE n \in 1 .. Len(slots)
      BY <2>1, <2>3, <1>2, <1>7, <1>8, <1>9
    <2>4. CASE n = Len(slots) + 1
      BY <2>1, <2>4, <1>2, <1>7, <1>8, <1>9 DEF new
    <2> QED BY <2>2, <2>3, <2>4
  <1>11. f = g
    BY <1>2, <1>3, <1>7, <1>9, <1>10, SeqEqual
  <1> QED BY <1>6, <1>11 DEF e, f

LEMMA OverwriteStores ==
  ASSUME NEW h \in [Shape -> ShapeCell \cup {None}], NEW live \in SUBSET Object,
         NEW o, Good(h, live, o), NEW p, Good(h, live, p),
         NEW k \in Key, NEW v \in Object \cup Datum, SlotsOf(KeysIn(h, o), k) # {},
         KeysIn(h, p) = KeysIn(h, o),
         \A n \in DOMAIN o.slots : p.slots[n] = IF KeysIn(h, o)[n] = k THEN v ELSE o.slots[n]
  PROVE  EntriesOf(h, p) = Bags!Stored(EntriesOf(h, o), k, v)
  <1> DEFINE e == EntriesOf(h, o)
             f == EntriesOf(h, p)
             new == [key |-> k, value |-> v]
             keys == KeysIn(h, o)
             slots == o.slots
             put == p.slots
             g == [n \in DOMAIN e |-> IF e[n].key = k THEN new ELSE e[n]]
  <1>1. \A q : Bags!Named(e, q) = SlotsOf(keys, q)
    BY EntriesTyped
  <1> DEFINE more == KeysIn(h, p)
  <1>20. Spells(e, keys, slots) /\ Spells(f, more, put)
    BY EntriesSpell
  <1>31. more = keys
    OBVIOUS
  <1>4. SlotsOf(keys, k) # {}
        /\ \A n \in DOMAIN slots : put[n] = IF keys[n] = k THEN v ELSE slots[n]
    OBVIOUS
  <1> HIDE DEF e, f, keys, slots, put, new, g, more
  <1>2. e \in Seq(Entry) /\ Len(e) = Len(slots) /\ keys \in Seq(Key)
        /\ slots \in Seq(Object \cup Datum) /\ Len(slots) = Len(keys) /\ Len(slots) \in Nat
        /\ \A n \in 1 .. Len(slots) : e[n] = [key |-> keys[n], value |-> slots[n]]
    BY <1>20 DEF Spells
  <1>3. f \in Seq(Entry) /\ Len(f) = Len(put) /\ Len(put) = Len(keys)
        /\ \A n \in 1 .. Len(put) : f[n] = [key |-> keys[n], value |-> put[n]]
    BY <1>20, <1>31 DEF Spells
  <1>5. Bags!Stored(e, k, v) = g
    <2>1. Bags!Named(e, k) # {}
      BY <1>1, <1>4
    <2>2. Bags!Stored(e, k, v)
            = [n \in DOMAIN e |-> IF e[n].key = k THEN [key |-> k, value |-> v] ELSE e[n]]
      BY <2>1, StoredOver
    <2> QED BY <2>2 DEF g, new
  <1>6. DOMAIN e = 1 .. Len(slots) /\ DOMAIN f = 1 .. Len(slots) /\ DOMAIN slots = 1 .. Len(slots)
    BY <1>2, <1>3, LenProperties
  <1>7. f = [n \in 1 .. Len(slots) |-> f[n]]
    BY <1>3, <1>6, LenProperties
  <1>8. ASSUME NEW n \in 1 .. Len(slots)
        PROVE  f[n] = IF e[n].key = k THEN new ELSE e[n]
    <2>1. f[n] = [key |-> keys[n], value |-> put[n]] /\ e[n] = [key |-> keys[n], value |-> slots[n]]
      BY <1>2, <1>3
    <2>2. put[n] = IF keys[n] = k THEN v ELSE slots[n]
      BY <1>4, <1>6
    <2>3. e[n].key = keys[n]
      BY <2>1
    <2> QED BY <2>1, <2>2, <2>3 DEF new
  <1>9. f = g
    BY <1>6, <1>7, <1>8 DEF g
  <1> QED BY <1>5, <1>9 DEF e, f

(* The bags of a heap, as the refinement mapping has them.                 *)
Mapped(h, objects) == [o \in Object |-> IF objects[o] = None THEN None ELSE Content(h, objects[o])]

LEMMA MappedIs ==
  /\ [o \in Object |-> BagOf(o)] = Mapped(shape, object)
  /\ [o \in Object |-> BagOf(o)]' = Mapped(shape', object')
  BY DEF BagOf, Mapped, Content, EntriesOf, KeysOf

LEMMA MappedTyped ==
  ASSUME NEW h \in [Shape -> ShapeCell \cup {None}], NEW objects, NEW live \in SUBSET Object,
         live = {o \in Object : objects[o] # None}, \A o \in live : Good(h, live, objects[o])
  PROVE  /\ Mapped(h, objects) \in [Object -> BagCell \cup {None}]
         /\ {o \in Object : Mapped(h, objects)[o] # None} = live
         /\ \A o \in live : Mapped(h, objects)[o] = Content(h, objects[o])
         /\ \A o \in live : Mapped(h, objects)[o] \in BagCell
  <1>1. ASSUME NEW o \in live
        PROVE  Content(h, objects[o]) \in BagCell /\ Content(h, objects[o]) # None
    <2> DEFINE x == objects[o]
    <2>1. Good(h, live, x)
      OBVIOUS
    <2> HIDE DEF x
    <2>2. Content(h, x) \in BagCell /\ Content(h, x) # None
      BY <2>1, EntriesTyped
    <2> QED BY <2>2 DEF x
  <1> QED BY <1>1 DEF Mapped

LEMMA BagReplaced ==
  ASSUME NEW b \in [Object -> BagCell \cup {None}], NEW c \in [Object -> BagCell \cup {None}],
         NEW t \in Object, b[t] \in BagCell, c[t] \in BagCell,
         \A u \in Object \ {t} : c[u] = b[u]
  PROVE  /\ (c[t].frozen = b[t].frozen /\ c[t].guarded = b[t].guarded)
              => \A entries : c[t].entries = entries => c = [b EXCEPT ![t].entries = entries]
         /\ (c[t].entries = b[t].entries /\ c[t].guarded = b[t].guarded)
              => \A frozen : c[t].frozen = frozen => c = [b EXCEPT ![t].frozen = frozen]
         /\ (c[t].entries = b[t].entries /\ c[t].frozen = b[t].frozen)
              => \A guarded : c[t].guarded = guarded => c = [b EXCEPT ![t].guarded = guarded]
         /\ c[t].frozen = b[t].frozen
              => \A entries, guarded : (c[t].entries = entries /\ c[t].guarded = guarded)
                   => c = [b EXCEPT ![t].entries = entries, ![t].guarded = guarded]
  <1>1. /\ c[t] = [entries |-> c[t].entries, frozen |-> c[t].frozen, guarded |-> c[t].guarded]
        /\ b[t] = [entries |-> b[t].entries, frozen |-> b[t].frozen, guarded |-> b[t].guarded]
    BY DEF BagCell
  <1>2. c = [b EXCEPT ![t] = c[t]]
    OBVIOUS
  <1> QED BY <1>1, <1>2, ZenonT(40)

LEMMA StoreMapped ==
  ASSUME NEW o \in Object, NEW k \in Key, NEW v,
         NEW b, b = Mapped(shape, object), NEW c, c = Mapped(shape', object'),
         b[o] # None, v \in {u \in Object : b[u] # None} \cup Datum,
         b[o].frozen => way' \in Bags!Unfrozen, k \in b[o].guarded => way' \in Bags!Unguarded,
         c = [b EXCEPT ![o].entries = Bags!Stored(b[o].entries, k, v)],
         held' \in {held, held \ {v}}
  PROVE  Bags!Store(o, k, v)
  BY MappedIs DEF Bags!Store, Bags!Live

LEMMA DefineMapped ==
  ASSUME NEW o \in Object, NEW k \in Key, NEW v,
         NEW b, b = Mapped(shape, object), NEW c, c = Mapped(shape', object'),
         b[o] # None, v \in {u \in Object : b[u] # None} \cup Datum, ~b[o].frozen,
         c = [b EXCEPT ![o].entries = Bags!Stored(b[o].entries, k, v),
                       ![o].guarded = b[o].guarded \cup {k}],
         held' = held, way' = "define"
  PROVE  Bags!Define(o, k, v)
  BY MappedIs DEF Bags!Define, Bags!Live

LEMMA RemoveMapped ==
  ASSUME NEW o \in Object, NEW k \in Key,
         NEW b, b = Mapped(shape, object), NEW c, c = Mapped(shape', object'),
         b[o] # None, ~b[o].frozen, way' = "delete",
         NEW n \in Bags!Named(b[o].entries, k),
         c = [b EXCEPT ![o].entries = Bags!Without(b[o].entries, n)],
         held' \in {held, held \ {o}}
  PROVE  Bags!Remove(o, k)
  BY MappedIs DEF Bags!Remove, Bags!Live

LEMMA FreezeMapped ==
  ASSUME NEW o \in Object,
         NEW b, b = Mapped(shape, object), NEW c, c = Mapped(shape', object'),
         b[o] # None, c = [b EXCEPT ![o].frozen = TRUE], held' = held
  PROVE  Bags!Freeze(o)
  BY MappedIs DEF Bags!Freeze, Bags!Live

LEMMA GuardMapped ==
  ASSUME NEW o \in Object, NEW k \in Key,
         NEW b, b = Mapped(shape, object), NEW c, c = Mapped(shape', object'),
         b[o] # None, c = [b EXCEPT ![o].guarded = b[o].guarded \cup {k}], held' = held
  PROVE  Bags!Guard(o, k)
  BY MappedIs DEF Bags!Guard, Bags!Live

LEMMA NewMapped ==
  ASSUME NEW o \in Object,
         NEW b, b = Mapped(shape, object), NEW c, c = Mapped(shape', object'),
         b[o] = None, c = [b EXCEPT ![o] = [entries |-> <<>>, frozen |-> FALSE, guarded |-> {}]],
         held' = held \cup {o}
  PROVE  Bags!New(o)
  BY MappedIs DEF Bags!New, Bags!Live, Bags!Empty

LEMMA FetchMapped ==
  ASSUME NEW o \in Object, NEW k \in Key,
         NEW b, b = Mapped(shape, object), b = Mapped(shape', object'),
         o \in held, NEW n \in Bags!Named(b[o].entries, k),
         held' = held \cup ({b[o].entries[n].value} \cap Object)
  PROVE  Bags!Fetch(o, k)
  BY MappedIs DEF Bags!Fetch

LEMMA ReleaseMapped ==
  ASSUME NEW o \in Object, Mapped(shape', object') = Mapped(shape, object), held' = held \ {o}
  PROVE  Bags!Release(o)
  BY MappedIs DEF Bags!Release

LEMMA StutterMapped ==
  ASSUME Mapped(shape', object') = Mapped(shape, object), held' = held
  PROVE  Bags!Turn
  BY MappedIs DEF Bags!Turn

Before == Mapped(shape, object)
After == Mapped(shape', object')

(* Both sides of a step of the heap.                                       *)
LEMMA Sides ==
  ASSUME IInv, IInv'
  PROVE  /\ Before \in [Object -> BagCell \cup {None}] /\ After \in [Object -> BagCell \cup {None}]
         /\ {o \in Object : Before[o] # None} = Objects
         /\ {o \in Object : After[o] # None} = Objects'
         /\ \A o \in Objects : Before[o] = Content(shape, object[o]) /\ Before[o] \in BagCell
         /\ \A o \in Objects' : After[o] = Content(shape', object'[o]) /\ After[o] \in BagCell
  <1>1. shape \in [Shape -> ShapeCell \cup {None}] /\ Objects \subseteq Object
        /\ Objects = {o \in Object : object[o] # None}
        /\ \A o \in Objects : Good(shape, Objects, object[o])
    BY DEF IInv, ShapesOK, ObjectsOK, Objects
  <1>2. shape' \in [Shape -> ShapeCell \cup {None}] /\ Objects' \subseteq Object
        /\ Objects' = {o \in Object : object'[o] # None}
        /\ \A o \in Objects' : Good(shape', Objects', object'[o])
    BY DEF IInv, ShapesOK, ObjectsOK, Objects
  <1>3. /\ Before \in [Object -> BagCell \cup {None}]
        /\ {o \in Object : Before[o] # None} = Objects
        /\ \A o \in Objects : Before[o] = Content(shape, object[o])
        /\ \A o \in Objects : Before[o] \in BagCell
    BY <1>1, MappedTyped DEF Before
  <1>4. /\ After \in [Object -> BagCell \cup {None}]
        /\ {o \in Object : After[o] # None} = Objects'
        /\ \A o \in Objects' : After[o] = Content(shape', object'[o])
        /\ \A o \in Objects' : After[o] \in BagCell
    BY <1>2, MappedTyped DEF After
  <1> QED BY <1>3, <1>4

(* No bag changes where the objects and their keys stay.                   *)
LEMMA BagsStay ==
  ASSUME IInv, object' = object, \A o \in Objects : KeysOf(o)' = KeysOf(o)
  PROVE  After = Before
  <1>1. \A o \in Objects : Content(shape', object[o]) = Content(shape, object[o])
    BY DEF Content, EntriesOf, KeysOf
  <1> QED BY <1>1 DEF After, Before, Mapped, Objects

(* One object changes.                                                     *)
LEMMA OneChanges ==
  ASSUME IInv, IInv', NEW t \in Objects, shape' = shape, Objects' = Objects,
         \A u \in Object \ {t} : object'[u] = object[u]
  PROVE  /\ Before \in [Object -> BagCell \cup {None}] /\ After \in [Object -> BagCell \cup {None}]
         /\ t \in Object /\ {o \in Object : Before[o] # None} = Objects
         /\ Before[t] \in BagCell /\ After[t] \in BagCell
         /\ Before[t] = Content(shape, object[t]) /\ After[t] = Content(shape, object'[t])
         /\ \A u \in Object \ {t} : After[u] = Before[u]
  <1>1. \A u \in Object \ {t} : After[u] = Before[u]
    BY DEF After, Before, Mapped
  <1> QED BY <1>1, Sides DEF Objects

(* What a put makes of the properties of an object.                        *)
LEMMA PutStores ==
  ASSUME NEW live \in SUBSET Object, ShapesOK, NEW o, Good(shape, live, o), NEW k \in Key,
         NEW v \in live \cup Datum,
         o.shape = None \/ SlotsOf(KeysIn(shape, o), k) # {}
  PROVE  EntriesOf(shape, dictionaryPut(o, k, v)) = Bags!Stored(EntriesOf(shape, o), k, v)
  <1> DEFINE places == SlotsOf(KeysIn(shape, o), k)
             p == dictionaryPut(o, k, v)
  <1>1. /\ o \in ObjectCell /\ KeysIn(shape, o) \in Seq(Key) /\ v \in Object \cup Datum
        /\ shape \in [Shape -> ShapeCell \cup {None}] /\ Len(o.slots) = Len(KeysIn(shape, o))
    BY KeysTyped DEF ShapesOK, Good
  <1>2. Good(shape, live, p) /\ p.shape = o.shape
    BY PutGood
  <1>3. CASE places = {}
    <2> DEFINE keys == Append(o.keys, k)
               slots == Append(o.slots, v)
    <2>1. p = [o EXCEPT !.keys = keys, !.slots = slots] /\ o.shape = None
      BY <1>1, <1>3 DEF dictionaryPut, ObjectCell
    <2> HIDE DEF keys, slots, p
    <2>2. p.keys = keys /\ p.slots = slots
      BY <1>1, <2>1 DEF ObjectCell
    <2>3. KeysIn(shape, p) = Append(KeysIn(shape, o), k) /\ p.slots = Append(o.slots, v)
      BY <1>2, <2>1, <2>2 DEF KeysIn, keys, slots
    <2> QED BY <1>1, <1>2, <1>3, <2>3, AppendStores DEF p
  <1>4. CASE places # {}
    <2> DEFINE new == [n \in DOMAIN o.slots |-> IF n \in places THEN v ELSE o.slots[n]]
    <2>1. p = [o EXCEPT !.slots = new]
      BY <1>4, <1>1 DEF dictionaryPut, ObjectCell
    <2>2. DOMAIN o.slots = DOMAIN KeysIn(shape, o)
      BY <1>1 DEF ObjectCell
    <2>3. \A n \in DOMAIN o.slots : new[n] = IF KeysIn(shape, o)[n] = k THEN v ELSE o.slots[n]
      BY <2>2 DEF SlotsOf
    <2> HIDE DEF new, p
    <2>4. p.keys = o.keys /\ p.slots = new
      BY <1>1, <2>1 DEF ObjectCell
    <2>5. KeysIn(shape, p) = KeysIn(shape, o)
      BY <1>2, <2>4 DEF KeysIn
    <2>6. \A n \in DOMAIN o.slots :
            p.slots[n] = IF KeysIn(shape, o)[n] = k THEN v ELSE o.slots[n]
      BY <2>3, <2>4
    <2> QED BY <1>1, <1>2, <1>4, <2>5, <2>6, OverwriteStores DEF p
  <1> QED BY <1>3, <1>4

(* What the cached store makes of them.                                    *)
LEMMA CachedStores ==
  ASSUME IInv, NEW s \in Site, NEW o \in Objects, NEW v \in Objects \cup Datum,
         Hits(s, o), CanStoreCached(s, o)
  PROVE  EntriesOf(shape, csVMStoreCached(s, object[o], v))
           = Bags!Stored(EntriesOf(shape, object[o]), KeyOf[s], v)
  <1> DEFINE old == object[o]
             p == csVMStoreCached(s, old, v)
             k == KeyOf[s]
             keys == KeysIn(shape, old)
  <1>1. /\ old.shape \in Shapes /\ old.shape # None
        /\ keys = shape[cache[s].shape].keys /\ Truth(shape, s, cache[s])
        /\ cache[s].shape # Absent
    BY HitIsTrue DEF KeysOf
  <1>2. /\ Good(shape, Objects, old) /\ old \in ObjectCell /\ Objects \in SUBSET Object
        /\ shape \in [Shape -> ShapeCell \cup {None}] /\ k \in Key /\ v \in Object \cup Datum
        /\ keys = shape[old.shape].keys /\ NoRepeats(keys)
    BY <1>1, HeapAssumption DEF IInv, ShapesOK, ObjectsOK, Good, Objects, KeysIn
  <1>3. /\ Good(shape, Objects, p)
        /\ IF cache[s].added = None
           THEN p.shape = old.shape /\ p.slots = [old.slots EXCEPT ![cache[s].slot] = v]
           ELSE p.shape = cache[s].added /\ p.slots = Append(old.slots, v)
    BY StoreCached
  <1> HIDE DEF p
  <1>4. CASE cache[s].added = None
    <2> DEFINE slot == cache[s].slot
    <2>1. slot \in DOMAIN keys /\ keys[slot] = k
      BY <1>1, <1>4 DEF Truth
    <2>2. DOMAIN old.slots = DOMAIN keys
      <3>1. keys \in Seq(Key) /\ old.slots \in Seq(Object \cup Datum) /\ Len(old.slots) = Len(keys)
        BY <1>2, EntriesTyped
      <3> HIDE DEF keys, old
      <3> QED BY <3>1, LenProperties
    <2>3. KeysIn(shape, p) = keys
      BY <1>1, <1>3, <1>4 DEF KeysIn
    <2>4. \A n \in DOMAIN keys : keys[n] = k <=> n = slot
      BY <1>2, <2>1 DEF NoRepeats
    <2> HIDE DEF slot, keys
    <2>5. \A n \in DOMAIN old.slots : p.slots[n] = IF keys[n] = k THEN v ELSE old.slots[n]
      BY <1>3, <1>4, <2>2, <2>4 DEF slot
    <2>6. SlotsOf(keys, k) # {}
      BY <2>1 DEF SlotsOf
    <2> QED BY <1>2, <1>3, <2>3, <2>5, <2>6, OverwriteStores DEF p, keys
  <1>5. CASE cache[s].added # None
    <2>1. /\ cache[s].added \in Shapes /\ shape[cache[s].added].keys = Append(keys, k)
          /\ SlotsOf(keys, k) = {}
      BY <1>1, <1>5 DEF Truth, LiveIn, Shapes
    <2>2. KeysIn(shape, p) = Append(keys, k)
      BY <1>3, <1>5, <2>1, HeapAssumption DEF KeysIn, Shapes
    <2>3. p.slots = Append(old.slots, v)
      BY <1>3, <1>5
    <2> HIDE DEF k, old, keys
    <2>4. /\ Good(shape, Objects, old) /\ Objects \in SUBSET Object /\ Good(shape, Objects, p)
          /\ shape \in [Shape -> ShapeCell \cup {None}] /\ k \in Key /\ v \in Object \cup Datum
      BY <1>2, <1>3
    <2>5. SlotsOf(KeysIn(shape, old), k) = {}
      BY <2>1 DEF keys
    <2>6. KeysIn(shape, p) = Append(KeysIn(shape, old), k)
      BY <2>2 DEF keys
    <2>7. EntriesOf(shape, p) = Bags!Stored(EntriesOf(shape, old), k, v)
      BY <2>3, <2>4, <2>5, <2>6, AppendStores
    <2> QED BY <2>7 DEF p, k, old
  <1> QED BY <1>4, <1>5

(* The steps of PropertyBags, to which those of the heap are mapped.       *)
Shown ==
  \/ \E o \in Object : Bags!New(o) \/ Bags!Release(o) \/ Bags!Freeze(o)
  \/ \E o \in Object, k \in Key : Bags!Fetch(o, k) \/ Bags!Remove(o, k) \/ Bags!Guard(o, k)
  \/ \E o \in Object, k \in Key, v \in Object \cup Datum :
       Bags!Store(o, k, v) \/ Bags!Define(o, k, v)
  \/ Bags!Reclaim \/ Bags!Turn

(* One object stores a property: a step of PropertyBags.                   *)
LEMMA StoringShows ==
  ASSUME IInv, IInv', NEW t \in Objects, NEW k \in Key, NEW v \in Objects \cup Datum,
         NEW p, shape' = shape, object' = [object EXCEPT ![t] = p], p # None,
         EntriesOf(shape, p) = Bags!Stored(EntriesOf(shape, object[t]), k, v),
         p.frozen = object[t].frozen, p.guarded = object[t].guarded,
         object[t].frozen => way' \in Bags!Unfrozen,
         k \in object[t].guarded => way' \in Bags!Unguarded, held' \in {held, held \ {v}}
  PROVE  Bags!Store(t, k, v)
  <1>1. /\ object'[t] = p /\ \A u \in Object \ {t} : object'[u] = object[u]
        /\ Objects' = Objects /\ t \in Object
    BY DEF IInv, ObjectsOK, Objects
  <1>2. /\ Before \in [Object -> BagCell \cup {None}] /\ After \in [Object -> BagCell \cup {None}]
        /\ {o \in Object : Before[o] # None} = Objects
        /\ Before[t] \in BagCell /\ After[t] \in BagCell
        /\ Before[t] = Content(shape, object[t]) /\ After[t] = Content(shape, p)
        /\ \A u \in Object \ {t} : After[u] = Before[u]
    BY <1>1, OneChanges
  <1>3. /\ Before[t].entries = EntriesOf(shape, object[t]) /\ Before[t].frozen = object[t].frozen
        /\ Before[t].guarded = object[t].guarded
        /\ After[t].entries = EntriesOf(shape, p) /\ After[t].frozen = p.frozen
        /\ After[t].guarded = p.guarded
    BY <1>2 DEF Content
  <1>4. After = [Before EXCEPT ![t].entries = Bags!Stored(Before[t].entries, k, v)]
    BY <1>1, <1>2, <1>3, BagReplaced
  <1>5. Before[t] # None /\ v \in {u \in Object : Before[u] # None} \cup Datum
    BY <1>2
  <1> QED BY <1>1, <1>3, <1>4, <1>5, StoreMapped DEF Before, After

(* ... or defines it.                                                      *)
LEMMA DefiningShows ==
  ASSUME IInv, IInv', NEW t \in Objects, NEW k \in Key, NEW v \in Objects \cup Datum,
         NEW p, shape' = shape, object' = [object EXCEPT ![t] = p], p # None,
         EntriesOf(shape, p) = Bags!Stored(EntriesOf(shape, object[t]), k, v),
         p.frozen = object[t].frozen, p.guarded = object[t].guarded \cup {k},
         ~object[t].frozen, held' = held, way' = "define"
  PROVE  Bags!Define(t, k, v)
  <1>1. /\ object'[t] = p /\ \A u \in Object \ {t} : object'[u] = object[u]
        /\ Objects' = Objects /\ t \in Object
    BY DEF IInv, ObjectsOK, Objects
  <1>2. /\ Before \in [Object -> BagCell \cup {None}] /\ After \in [Object -> BagCell \cup {None}]
        /\ {o \in Object : Before[o] # None} = Objects
        /\ Before[t] \in BagCell /\ After[t] \in BagCell
        /\ Before[t] = Content(shape, object[t]) /\ After[t] = Content(shape, p)
        /\ \A u \in Object \ {t} : After[u] = Before[u]
    BY <1>1, OneChanges
  <1>3. /\ Before[t].entries = EntriesOf(shape, object[t]) /\ Before[t].frozen = object[t].frozen
        /\ Before[t].guarded = object[t].guarded
        /\ After[t].entries = EntriesOf(shape, p) /\ After[t].frozen = p.frozen
        /\ After[t].guarded = p.guarded
    BY <1>2 DEF Content
  <1>4. After = [Before EXCEPT ![t].entries = Bags!Stored(Before[t].entries, k, v),
                               ![t].guarded = Before[t].guarded \cup {k}]
    BY <1>1, <1>2, <1>3, BagReplaced
  <1>5. Before[t] # None /\ v \in {u \in Object : Before[u] # None} \cup Datum
    BY <1>2
  <1> QED BY <1>1, <1>3, <1>4, <1>5, DefineMapped DEF Before, After

(* No object changes, and one may leave the stack.                         *)
LEMMA LettingGo ==
  ASSUME IInv, shape' = shape, object' = object, NEW v \in Value, held' \in {held, held \ {v}}
  PROVE  Shown
  <1>1. Mapped(shape', object') = Mapped(shape, object)
    OBVIOUS
  <1>2. CASE held' = held
    BY <1>1, <1>2, StutterMapped DEF Shown
  <1>3. CASE held' = held \ {v} /\ v \in Object
    BY <1>1, <1>3, ReleaseMapped DEF Shown
  <1>4. CASE held' = held \ {v} /\ v \notin Object
    <2>1. held' = held
      BY <1>4 DEF IInv, Objects
    <2> QED BY <1>2, <2>1
  <1> QED BY <1>2, <1>3, <1>4

(* A put, whoever calls it: it stores or is only begun.                    *)
LEMMA PutKeeps ==
  ASSUME IInv, IInv', NEW s, NEW o \in Objects, NEW k \in Key, NEW v \in Objects \cup Datum,
         Allowed(way', object[o], k), way' \notin {"define", "delete"},
         shape' = shape, held' \in {held, held \ {v}}, csObjectPut(s, o, k, v)
  PROVE  Shown
  <1> DEFINE old == object[o]
             p == dictionaryPut(old, k, v)
  <1>1. CASE object' = object
    <2>1. v \in Value
      BY DEF Value, Objects
    <2> QED BY <1>1, <2>1, LettingGo
  <1>2. CASE old.shape # None /\ Has(o, k) /\ Finish(s, o, k, old.shape, p, temps)
    <2>1. /\ Good(shape, Objects, old) /\ SlotsOf(KeysIn(shape, old), k) # {} /\ ShapesOK
          /\ Objects \in SUBSET Object
      <3>1. ObjectsOK /\ ShapesOK
        BY DEF IInv
      <3>2. /\ Good(shape, Objects, old) /\ Objects \in SUBSET Object
        BY <3>1 DEF ObjectsOK, Objects
      <3>3. SlotsOf(KeysIn(shape, old), k) # {}
        <4>1. Has(o, k)
          BY <1>2
        <4> QED BY <4>1 DEF Has, KeysOf
      <3> QED BY <3>1, <3>2, <3>3
    <2>2. Good(shape, Objects, p) /\ p.frozen = old.frozen /\ p.guarded = old.guarded
      <3> HIDE DEF old
      <3> QED BY ONLY HeapAssumption, v \in Objects \cup Datum, k \in Key, <2>1, PutGood
    <2>3. EntriesOf(shape, p) = Bags!Stored(EntriesOf(shape, old), k, v)
      BY <2>1, PutStores
    <2> HIDE DEF p
    <2>4. object' = [object EXCEPT ![o] = p] /\ p # None
      BY <1>2, <2>2, HeapAssumption DEF Finish, Good
    <2>5. Bags!Store(o, k, v)
      BY <2>2, <2>3, <2>4, StoringShows DEF Allowed
    <2>6. o \in Object /\ v \in Object \cup Datum
      BY DEF Objects
    <2> QED BY <2>5, <2>6 DEF Shown
  <1> QED BY <1>1, <1>2 DEF csObjectPut

LEMMA WriteKeeps ==
  ASSUME IInv, IInv', NEW s \in Site, NEW o \in Object, NEW v \in Value,
         Write(s, o, v)
  PROVE  Shown
  <1> DEFINE k == KeyOf[s]
             p == csVMStoreCached(s, object[o], v)
  <1>1. o \in Objects /\ k \in Key /\ shape' = shape /\ held' = held
    BY HeapAssumption DEF Write, IInv
  <1>2. v \in Objects \cup Datum /\ v \in Object \cup Datum
    BY AvailableLive DEF Write, Value
  <1>3. CASE /\ Hits(s, o) /\ CanStoreCached(s, o) /\ way' = "cache"
             /\ object' = [object EXCEPT ![o] = csVMStoreCached(s, @, v)]
    <2>1. /\ Good(shape, Objects, p) /\ p.frozen = object[o].frozen
          /\ p.guarded = object[o].guarded
      BY <1>1, <1>2, <1>3, StoreCached
    <2>2. EntriesOf(shape, p) = Bags!Stored(EntriesOf(shape, object[o]), k, v)
      BY <1>1, <1>2, <1>3, CachedStores
    <2>3. object' = [object EXCEPT ![o] = p]
      BY <1>1, <1>3 DEF IInv, ObjectsOK
    <2>4. p # None
      BY <2>1, HeapAssumption DEF Good
    <2>5. way' \in Bags!Unfrozen /\ way' \in Bags!Unguarded
      BY <1>3 DEF Bags!Unfrozen, Bags!Unguarded
    <2> HIDE DEF p, k
    <2>6. Bags!Store(o, k, v)
      BY <1>1, <1>2, <2>1, <2>2, <2>3, <2>4, <2>5, StoringShows
    <2> QED BY <1>1, <1>2, <2>6 DEF Shown
  <1>4. CASE /\ ~object[o].frozen /\ k \notin object[o].guarded /\ way' = "site"
             /\ csObjectPut(s, o, k, v)
    BY <1>1, <1>2, <1>4, PutKeeps DEF Allowed
  <1> QED BY <1>3, <1>4 DEF Write, Storing

LEMMA StoreKeeps ==
  ASSUME IInv, IInv', NEW o \in Object, NEW k \in Key, NEW v \in Value,
         IndexStore(o, k, v) \/ Assign(o, k, v)
  PROVE  Shown
  <1>1. o \in Objects /\ v \in Objects \cup Datum
    BY AvailableLive DEF IndexStore, Assign, IInv
  <1>2. Allowed(way', object[o], k) /\ way' \notin {"define", "delete"}
    BY DEF Allowed, IndexStore, Assign, Storing, Bags!Unfrozen, Bags!Unguarded
  <1>3. shape' = shape /\ held' \in {held, held \ {v}} /\ csObjectPut(None, o, k, v)
    BY DEF IndexStore, Assign
  <1> QED BY <1>1, <1>2, <1>3, PutKeeps

LEMMA AdoptKeeps ==
  ASSUME IInv, IInv', Adopt
  PROVE  Shown
  <1>1. /\ op.at = "room" /\ shape' = shape /\ held' = held /\ way' = way
        /\ object' = [object EXCEPT ![op.object] = Adopted]
    BY DEF Adopt, Finish, Adopted, Target
  <1>2. /\ op.object \in Objects /\ op.key \in Key /\ op.value \in Objects \cup Datum
        /\ Allowed(way, Target, op.key) /\ way \notin {"define", "delete"}
        /\ Good(shape, Objects, Target) /\ Objects \in SUBSET Object
        /\ shape \in [Shape -> ShapeCell \cup {None}]
    BY <1>1 DEF IInv, CallOK, Adding, ObjectsOK, ShapesOK, Target, Objects, Defining
  <1>3. /\ Good(shape, Objects, Adopted)
        /\ Adopted.shape = op.next /\ Adopted.slots = Append(Target.slots, op.value)
        /\ Adopted.frozen = Target.frozen /\ Adopted.guarded = Target.guarded
        /\ op.next # None /\ Target.shape = op.before /\ op.before # None
        /\ shape[op.next].keys = Append(shape[op.before].keys, op.key)
        /\ SlotsOf(shape[op.before].keys, op.key) = {}
    BY <1>1, AdoptedGood
  <1>4. /\ KeysIn(shape, Adopted) = Append(KeysIn(shape, Target), op.key)
        /\ SlotsOf(KeysIn(shape, Target), op.key) = {}
    BY <1>3 DEF KeysIn
  <1>5. op.value \in Object \cup Datum /\ op.object \in Object
    BY <1>2
  <1>6. EntriesOf(shape, Adopted) = Bags!Stored(EntriesOf(shape, Target), op.key, op.value)
    <2> DEFINE o == Target
               p == Adopted
               k == op.key
               v == op.value
    <2>1. Good(shape, Objects, o) /\ Good(shape, Objects, p) /\ k \in Key /\ v \in Object \cup Datum
          /\ SlotsOf(KeysIn(shape, o), k) = {} /\ Objects \in SUBSET Object
          /\ shape \in [Shape -> ShapeCell \cup {None}]
      BY <1>2, <1>3, <1>4, <1>5
    <2>2. KeysIn(shape, p) = Append(KeysIn(shape, o), k) /\ p.slots = Append(o.slots, v)
      BY <1>3, <1>4
    <2> HIDE DEF o, p, k, v
    <2>3. EntriesOf(shape, p) = Bags!Stored(EntriesOf(shape, o), k, v)
      BY <2>1, <2>2, AppendStores
    <2> QED BY <2>3 DEF o, p, k, v
  <1>7. Adopted # None
    BY <1>3, HeapAssumption DEF Good
  <1>8. Bags!Store(op.object, op.key, op.value)
    BY <1>1, <1>2, <1>3, <1>6, <1>7, StoringShows DEF Target, Allowed
  <1> QED BY <1>2, <1>5, <1>8 DEF Shown

LEMMA PutOwnKeeps ==
  ASSUME IInv, IInv', PutOwn
  PROVE  Shown
  <1> DEFINE p == dictionaryPut(Target, op.key, op.value)
  <1>1. /\ op.at = "own" /\ shape' = shape /\ held' = held /\ way' = way
        /\ object' = [object EXCEPT ![op.object] = Owned]
    BY DEF PutOwn, Finish, Owned, Target, Defining
  <1>2. /\ op.object \in Objects /\ op.key \in Key /\ op.value \in Objects \cup Datum
        /\ Allowed(way, Target, op.key) /\ way # "delete" /\ Target.shape = None
        /\ Good(shape, Objects, Target) /\ Objects \in SUBSET Object /\ ShapesOK
    BY <1>1 DEF IInv, CallOK, ObjectsOK, Target, Objects
  <1>3. /\ Good(shape, Objects, Owned) /\ Owned.shape = None /\ Owned.frozen = Target.frozen
        /\ Owned.keys = p.keys /\ Owned.slots = p.slots
        /\ Owned.guarded = IF Defining THEN Target.guarded \cup {op.key} ELSE Target.guarded
    BY <1>1, OwnedGood
  <1>4. p.shape = None
    BY <1>2, PutGood
  <1>5. EntriesOf(shape, p) = Bags!Stored(EntriesOf(shape, Target), op.key, op.value)
    BY <1>2, PutStores
  <1> HIDE DEF p
  <1>6. EntriesOf(shape, Owned) = EntriesOf(shape, p)
    BY <1>3, <1>4 DEF EntriesOf, KeysIn
  <1>7. Owned # None /\ op.object \in Object /\ op.value \in Object \cup Datum
    BY <1>2, <1>3, HeapAssumption DEF Good
  <1>8. CASE Defining
    <2>1. Bags!Define(op.object, op.key, op.value)
      BY <1>1, <1>2, <1>3, <1>5, <1>6, <1>7, <1>8, DefiningShows
        DEF Target, Defining, Allowed, Bags!Unfrozen
    <2> QED BY <1>2, <1>7, <1>8, <2>1 DEF Shown
  <1>9. CASE ~Defining
    <2>1. Bags!Store(op.object, op.key, op.value)
      BY <1>1, <1>2, <1>3, <1>5, <1>6, <1>7, <1>9, StoringShows
        DEF Target, Defining, Allowed
    <2> QED BY <1>2, <1>7, <2>1 DEF Shown
  <1> QED BY <1>8, <1>9

(* What a deletion makes of the properties.                                *)
LEMMA TakenOut ==
  ASSUME NEW h \in [Shape -> ShapeCell \cup {None}], NEW live \in SUBSET Object,
         NEW o, Good(h, live, o), NEW p, Good(h, live, p), NEW n \in DOMAIN KeysIn(h, o),
         KeysIn(h, p) = MovedUp(KeysIn(h, o), n), p.slots = MovedUp(o.slots, n)
  PROVE  /\ n \in Bags!Named(EntriesOf(h, o), KeysIn(h, o)[n])
         /\ EntriesOf(h, p) = Bags!Without(EntriesOf(h, o), n)
  <1> DEFINE e == EntriesOf(h, o)
             f == EntriesOf(h, p)
             keys == KeysIn(h, o)
             slots == o.slots
             mkeys == KeysIn(h, p)
             mslots == p.slots
             V == Object \cup Datum
  <1>20. Spells(e, keys, slots)
    BY EntriesSpell
  <1>3. n \in DOMAIN keys /\ mkeys = MovedUp(keys, n) /\ mslots = MovedUp(slots, n)
        /\ f = [m \in DOMAIN mkeys |-> [key |-> mkeys[m], value |-> mslots[m]]]
    BY DEF EntriesOf
  <1> HIDE DEF e, f, keys, slots, mkeys, mslots
  <1>1. \A q : Bags!Named(e, q) = SlotsOf(keys, q)
    BY <1>20, SpelledNames
  <1>2. e \in Seq(Entry) /\ Len(e) = Len(slots) /\ keys \in Seq(Key)
        /\ slots \in Seq(V) /\ Len(slots) = Len(keys) /\ Len(slots) \in Nat
        /\ \A m \in 1 .. Len(slots) : e[m] = [key |-> keys[m], value |-> slots[m]]
    BY <1>20 DEF Spells
  <1> HIDE DEF V
  <1>4. DOMAIN keys = 1 .. Len(slots) /\ DOMAIN slots = 1 .. Len(slots) /\ DOMAIN e = 1 .. Len(slots)
    BY <1>2, LenProperties
  <1>5. n \in Bags!Named(e, keys[n])
    BY <1>1, <1>3 DEF SlotsOf
  <1>6. /\ DOMAIN mkeys = 1 .. Len(slots) - 1
        /\ \A m \in 1 .. Len(slots) - 1 : mkeys[m] = IF m < n THEN keys[m] ELSE keys[m + 1]
    BY <1>2, <1>3, MovingUp, ZenonT(40)
  <1>7. \A m \in 1 .. Len(slots) - 1 : mslots[m] = IF m < n THEN slots[m] ELSE slots[m + 1]
    <2>1. n \in DOMAIN slots /\ slots \in Seq(V)
      BY <1>2, <1>3, <1>4
    <2> QED BY <1>3, <2>1, MovingUp, ZenonT(40)
  <1>8. ASSUME NEW m \in 1 .. Len(slots) - 1
        PROVE  [key |-> mkeys[m], value |-> mslots[m]] = IF m < n THEN e[m] ELSE e[m + 1]
    <2>1. m \in 1 .. Len(slots) /\ m + 1 \in 1 .. Len(slots)
      BY <1>2
    <2> QED BY <2>1, <1>2, <1>6, <1>7
  <1>9. Bags!Without(e, n) = [m \in 1 .. Len(slots) - 1 |-> IF m < n THEN e[m] ELSE e[m + 1]]
    BY <1>2 DEF Bags!Without
  <1>10. f = [m \in 1 .. Len(slots) - 1 |-> [key |-> mkeys[m], value |-> mslots[m]]]
    BY <1>3, <1>6
  <1>11. f = Bags!Without(e, n)
    BY <1>8, <1>9, <1>10
  <1> QED BY <1>5, <1>11 DEF e, f, keys

LEMMA DeleteRemoves ==
  ASSUME NEW live \in SUBSET Object, ShapesOK, NEW o, Good(shape, live, o), o.shape = None,
         NEW k, SlotsOf(o.keys, k) # {}
  PROVE  LET n == csShapeLookup(o.keys, k)
         IN /\ n \in Bags!Named(EntriesOf(shape, o), k)
            /\ EntriesOf(shape, csObjectDelete(o, k)) = Bags!Without(EntriesOf(shape, o), n)
            /\ csObjectDelete(o, k).frozen = o.frozen /\ csObjectDelete(o, k).guarded = o.guarded
  <1> DEFINE n == csShapeLookup(o.keys, k)
             p == csObjectDelete(o, k)
             mkeys == MovedUp(o.keys, n)
             mslots == MovedUp(o.slots, n)
  <1>1. shape \in [Shape -> ShapeCell \cup {None}] /\ o \in ObjectCell /\ KeysIn(shape, o) = o.keys
    BY DEF ShapesOK, Good, KeysIn
  <1>2. n \in DOMAIN o.keys /\ o.keys[n] = k
    BY LookupFinds
  <1>3. p = [o EXCEPT !.keys = mkeys, !.slots = mslots]
    BY <1>1 DEF csObjectDelete, ObjectCell
  <1>4. Good(shape, live, p) /\ p.shape = None
    BY SMTT(60), DeleteGood
  <1> HIDE DEF n, mkeys, mslots, p
  <1>5. p.keys = mkeys /\ p.slots = mslots /\ p.frozen = o.frozen /\ p.guarded = o.guarded
    BY <1>1, <1>3 DEF ObjectCell
  <1>6. KeysIn(shape, p) = MovedUp(KeysIn(shape, o), n) /\ p.slots = MovedUp(o.slots, n)
        /\ n \in DOMAIN KeysIn(shape, o) /\ KeysIn(shape, o)[n] = k
    BY <1>1, <1>2, <1>4, <1>5 DEF KeysIn, mkeys, mslots
  <1>7. n \in Bags!Named(EntriesOf(shape, o), k)
        /\ EntriesOf(shape, p) = Bags!Without(EntriesOf(shape, o), n)
    BY <1>1, <1>4, <1>6, TakenOut
  <1> QED BY <1>5, <1>7 DEF p, n

LEMMA Removing ==
  ASSUME IInv, IInv', NEW t \in Objects, NEW k \in Key, NEW p,
         shape' = shape, object' = [object EXCEPT ![t] = p], p # None,
         NEW n \in Bags!Named(EntriesOf(shape, object[t]), k),
         EntriesOf(shape, p) = Bags!Without(EntriesOf(shape, object[t]), n),
         p.frozen = object[t].frozen, p.guarded = object[t].guarded,
         ~object[t].frozen, held' \in {held, held \ {t}}, way' = "delete"
  PROVE  Bags!Remove(t, k)
  <1>1. /\ object'[t] = p /\ \A u \in Object \ {t} : object'[u] = object[u]
        /\ Objects' = Objects /\ t \in Object
    BY DEF IInv, ObjectsOK, Objects
  <1>2. /\ Before \in [Object -> BagCell \cup {None}] /\ After \in [Object -> BagCell \cup {None}]
        /\ {o \in Object : Before[o] # None} = Objects
        /\ Before[t] \in BagCell /\ After[t] \in BagCell
        /\ Before[t] = Content(shape, object[t]) /\ After[t] = Content(shape, p)
        /\ \A u \in Object \ {t} : After[u] = Before[u]
    BY <1>1, OneChanges
  <1>3. /\ Before[t].entries = EntriesOf(shape, object[t]) /\ Before[t].frozen = object[t].frozen
        /\ Before[t].guarded = object[t].guarded
        /\ After[t].entries = EntriesOf(shape, p) /\ After[t].frozen = p.frozen
        /\ After[t].guarded = p.guarded
    BY <1>2 DEF Content
  <1>4. After = [Before EXCEPT ![t].entries = Bags!Without(Before[t].entries, n)]
    BY <1>1, <1>2, <1>3, BagReplaced
  <1>5. Before[t] # None /\ n \in Bags!Named(Before[t].entries, k)
    BY <1>2, <1>3
  <1> QED BY <1>1, <1>3, <1>4, <1>5, RemoveMapped DEF Before, After

LEMMA DeleteKeeps ==
  ASSUME IInv, IInv', NEW o \in Object, NEW k \in Key, Delete(o, k)
  PROVE  Shown
  <1>1. /\ o \in Objects /\ ~object[o].frozen /\ shape' = shape /\ held' \in {held, held \ {o}}
        /\ o \in Value /\ way' = "delete"
    BY DEF Delete, Storing, IInv, Value
  <1>2. CASE object' = object
    BY <1>1, <1>2, LettingGo
  <1>3. CASE /\ object[o].shape = None /\ Has(o, k)
             /\ object' = [object EXCEPT ![o] = csObjectDelete(@, k)]
    <2> DEFINE old == object[o]
               p == csObjectDelete(old, k)
               n == csShapeLookup(old.keys, k)
    <2>1. /\ Good(shape, Objects, old) /\ old.shape = None /\ SlotsOf(old.keys, k) # {}
          /\ ShapesOK /\ Objects \in SUBSET Object
      BY <1>1, <1>3 DEF IInv, ObjectsOK, Has, KeysOf, KeysIn, Objects
    <2>2. /\ n \in Bags!Named(EntriesOf(shape, old), k)
          /\ EntriesOf(shape, p) = Bags!Without(EntriesOf(shape, old), n)
          /\ p.frozen = old.frozen /\ p.guarded = old.guarded
      BY <2>1, DeleteRemoves
    <2>3. Good(shape, Objects, p)
      BY <2>1, DeleteGood
    <2>4. object' = [object EXCEPT ![o] = p]
      BY <1>1, <1>3 DEF IInv, ObjectsOK
    <2> HIDE DEF p, n
    <2>6. p # None
      BY <2>3, HeapAssumption DEF Good
    <2>5. Bags!Remove(o, k)
      BY <1>1, <2>2, <2>4, <2>6, Removing
    <2> QED BY <2>5 DEF Shown
  <1> QED BY <1>2, <1>3 DEF Delete

LEMMA ConvertAndDeleteKeeps ==
  ASSUME IInv, IInv', ConvertAndDelete
  PROVE  Shown
  <1> DEFINE o == op.object
             k == op.key
             old == object[o]
             c == convertToDictionary(old)
             p == csObjectDelete(c, k)
             n == csShapeLookup(c.keys, k)
  <1>1. /\ op.at = "delete" /\ shape' = shape /\ held' = held /\ way' = way
        /\ object' = [object EXCEPT ![o] = p]
    BY DEF ConvertAndDelete, Finish
  <1>2. /\ o \in Objects /\ k \in Key /\ ~old.frozen /\ way = "delete" /\ Has(o, k)
        /\ Good(shape, Objects, old) /\ Objects \in SUBSET Object /\ ShapesOK
    BY <1>1 DEF IInv, CallOK, ObjectsOK, Target, Objects, Allowed, Bags!Unfrozen
  <1>3. Good(shape, Objects, c) /\ c.shape = None /\ c.keys = KeysIn(shape, old)
    BY <1>2, ConvertGood
  <1>4. c.slots = old.slots /\ c.frozen = old.frozen /\ c.guarded = old.guarded
    BY <1>2 DEF convertToDictionary, Good, ObjectCell
  <1> HIDE DEF c
  <1>5. EntriesOf(shape, c) = EntriesOf(shape, old) /\ SlotsOf(c.keys, k) # {}
    BY <1>2, <1>3, <1>4 DEF EntriesOf, KeysIn, Has, KeysOf
  <1>6. /\ n \in Bags!Named(EntriesOf(shape, c), k)
        /\ EntriesOf(shape, p) = Bags!Without(EntriesOf(shape, c), n)
        /\ p.frozen = c.frozen /\ p.guarded = c.guarded
    BY <1>2, <1>3, <1>5, DeleteRemoves
  <1>7. Good(shape, Objects, p)
    BY <1>3, <1>5, DeleteGood
  <1> HIDE DEF p, n, k, o
  <1>9. p # None
    BY <1>7, HeapAssumption DEF Good
  <1>8. Bags!Remove(o, k)
    BY <1>1, <1>2, <1>4, <1>5, <1>6, <1>9, Removing
  <1> QED BY <1>2, <1>8 DEF Shown

LEMMA NewKeeps ==
  ASSUME IInv, IInv', NEW o \in Object, New(o)
  PROVE  Shown
  <1>1. o \notin Objects /\ shape' = shape /\ object' = [object EXCEPT ![o] = Fresh]
        /\ held' = held \cup {o} /\ object \in [Object -> ObjectCell \cup {None}]
    BY DEF New, IInv, ObjectsOK
  <1>2. Before[o] = None /\ object'[o] = Fresh /\ \A u \in Object \ {o} : object'[u] = object[u]
    BY <1>1 DEF Before, Mapped, Objects
  <1>3. Content(shape, Fresh) = [entries |-> <<>>, frozen |-> FALSE, guarded |-> {}]
    <2>1. KeysIn(shape, Fresh) = <<>>
      BY HeapAssumption DEF IInv, ShapesOK, KeysIn, Fresh
    <2>2. EntriesOf(shape, Fresh) = <<>>
      BY <2>1 DEF EntriesOf
    <2>3. Fresh.frozen = FALSE /\ Fresh.guarded = {}
      BY DEF Fresh
    <2> QED BY <2>2, <2>3 DEF Content
  <1>4. Fresh # None
    <2>1. Good(shape, Objects, Fresh)
      BY FreshGood, HeapAssumption DEF IInv, ShapesOK, LiveIn, Shapes
    <2> QED BY <2>1, HeapAssumption DEF Good
  <1>5. After = [Before EXCEPT ![o] = [entries |-> <<>>, frozen |-> FALSE, guarded |-> {}]]
    BY <1>1, <1>2, <1>3, <1>4 DEF After, Before, Mapped
  <1>6. Bags!New(o)
    BY <1>1, <1>2, <1>5, NewMapped DEF Before, After
  <1> QED BY <1>6 DEF Shown

LEMMA DropKeeps ==
  ASSUME IInv, NEW o \in Object, Drop(o)
  PROVE  Shown
  BY LettingGo DEF Drop, Value

LEMMA FreezeKeeps ==
  ASSUME IInv, IInv', NEW o \in Object, Freeze(o)
  PROVE  Shown
  <1> DEFINE p == [object[o] EXCEPT !.frozen = TRUE]
  <1>1. o \in Objects /\ shape' = shape /\ held' = held /\ object[o] \in ObjectCell
    BY DEF Freeze, IInv, ObjectsOK, Good
  <1>2. object' = [object EXCEPT ![o] = p]
    BY <1>1 DEF Freeze, IInv, ObjectsOK
  <1>3. p \in ObjectCell /\ p.shape = object[o].shape /\ p.keys = object[o].keys
        /\ p.slots = object[o].slots /\ p.frozen = TRUE /\ p.guarded = object[o].guarded
    BY <1>1 DEF ObjectCell
  <1> HIDE DEF p
  <1>4. object'[o] = p /\ Objects' = Objects /\ \A u \in Object \ {o} : object'[u] = object[u]
    BY <1>1, <1>2, <1>3, HeapAssumption DEF IInv, ObjectsOK, Objects
  <1>5. /\ Before \in [Object -> BagCell \cup {None}] /\ After \in [Object -> BagCell \cup {None}]
        /\ {u \in Object : Before[u] # None} = Objects
        /\ Before[o] \in BagCell /\ After[o] \in BagCell
        /\ Before[o] = Content(shape, object[o]) /\ After[o] = Content(shape, p)
        /\ \A u \in Object \ {o} : After[u] = Before[u]
    BY <1>1, <1>4, OneChanges
  <1>6. EntriesOf(shape, p) = EntriesOf(shape, object[o])
    BY <1>3 DEF EntriesOf, KeysIn
  <1>7. /\ After[o].entries = Before[o].entries /\ After[o].guarded = Before[o].guarded
        /\ After[o].frozen = TRUE
    BY <1>3, <1>5, <1>6 DEF Content
  <1>8. After = [Before EXCEPT ![o].frozen = TRUE]
    BY <1>5, <1>7, BagReplaced
  <1>9. Bags!Freeze(o)
    BY <1>1, <1>5, <1>8, FreezeMapped DEF Before, After
  <1> QED BY <1>9 DEF Shown

LEMMA RelinkKeeps ==
  ASSUME IInv, IInv', NEW o \in Object, NEW k \in Key, Relink(o, k)
  PROVE  Shown
  <1> DEFINE guarded == object[o].guarded \cup {k}
             p == [object[o] EXCEPT !.guarded = guarded]
  <1>1. o \in Objects /\ shape' = shape /\ held' = held /\ object[o] \in ObjectCell
    BY DEF Relink, IInv, ObjectsOK, Good
  <1>2. object' = [object EXCEPT ![o] = p] /\ guarded \in SUBSET Key
    BY <1>1 DEF Relink, IInv, ObjectsOK, ObjectCell
  <1> HIDE DEF guarded
  <1>3. p \in ObjectCell /\ p.shape = object[o].shape /\ p.keys = object[o].keys
        /\ p.slots = object[o].slots /\ p.frozen = object[o].frozen /\ p.guarded = guarded
    BY <1>1, <1>2 DEF ObjectCell
  <1> HIDE DEF p
  <1>4. object'[o] = p /\ Objects' = Objects /\ \A u \in Object \ {o} : object'[u] = object[u]
    BY <1>1, <1>2, <1>3, HeapAssumption DEF IInv, ObjectsOK, Objects
  <1>5. /\ Before \in [Object -> BagCell \cup {None}] /\ After \in [Object -> BagCell \cup {None}]
        /\ {u \in Object : Before[u] # None} = Objects
        /\ Before[o] \in BagCell /\ After[o] \in BagCell
        /\ Before[o] = Content(shape, object[o]) /\ After[o] = Content(shape, p)
        /\ \A u \in Object \ {o} : After[u] = Before[u]
    BY <1>1, <1>4, OneChanges
  <1>6. EntriesOf(shape, p) = EntriesOf(shape, object[o])
    BY <1>3 DEF EntriesOf, KeysIn
  <1>7. /\ After[o].entries = Before[o].entries /\ After[o].frozen = Before[o].frozen
        /\ After[o].guarded = Before[o].guarded \cup {k}
    BY <1>3, <1>5, <1>6 DEF Content, guarded
  <1>8. After = [Before EXCEPT ![o].guarded = Before[o].guarded \cup {k}]
    BY <1>5, <1>7, BagReplaced
  <1>9. Bags!Guard(o, k)
    BY <1>1, <1>5, <1>8, GuardMapped DEF Before, After
  <1> QED BY <1>9 DEF Shown

LEMMA ReadKeeps ==
  ASSUME IInv, IInv', NEW s \in Site, NEW o \in Object, Read(s, o)
  PROVE  Shown
  <1> DEFINE k == KeyOf[s]
             n == IF Hits(s, o) THEN cache[s].slot ELSE csShapeLookup(KeysOf(o), k)
             keys == KeysIn(shape, object[o])
  <1>1. o \in Objects /\ o \in held /\ shape' = shape /\ object' = object /\ k \in Key /\ s \in Reads
    BY HeapAssumption DEF Read, IInv
  <1>2. held' = held \cup ({object[o].slots[n]} \cap Object)
    BY DEF Read
  <1>3. n \in DOMAIN keys /\ keys[n] = k
    <2>1. CASE Hits(s, o)
      <3>1. Truth(shape, s, cache[s]) /\ cache[s].shape # Absent
            /\ keys = shape[cache[s].shape].keys
        BY <1>1, <2>1, HitIsTrue DEF KeysOf
      <3> QED BY <1>1, <2>1, <3>1 DEF Truth
    <2>2. CASE ~Hits(s, o)
      <3>1. SlotsOf(keys, k) # {}
        BY <2>2 DEF Read, Has, KeysOf
      <3> QED BY <2>2, <3>1, LookupFinds DEF KeysOf
    <2> QED BY <2>1, <2>2
  <1> HIDE DEF n, k
  <1>4. /\ Good(shape, Objects, object[o]) /\ Objects \in SUBSET Object
        /\ shape \in [Shape -> ShapeCell \cup {None}]
    BY <1>1 DEF IInv, ObjectsOK, ShapesOK, Objects
  <1>5. n \in Bags!Named(EntriesOf(shape, object[o]), k)
    <2>1. Bags!Named(EntriesOf(shape, object[o]), k) = SlotsOf(keys, k)
      <3> DEFINE old == object[o]
      <3>1. Good(shape, Objects, old)
        BY <1>4
      <3> HIDE DEF old
      <3>2. \A q : Bags!Named(EntriesOf(shape, old), q) = SlotsOf(KeysIn(shape, old), q)
        BY <1>4, <3>1, EntriesTyped
      <3> QED BY <3>2 DEF old
    <2> QED BY <1>3, <2>1 DEF SlotsOf
  <1>6. EntriesOf(shape, object[o])[n].value = object[o].slots[n]
    BY <1>3 DEF EntriesOf
  <1>7. Before[o].entries = EntriesOf(shape, object[o])
    <2>1. Before[o] = Content(shape, object[o])
      BY <1>1, Sides
    <2> QED BY <2>1 DEF Content
  <1>8. Before = Mapped(shape, object) /\ Before = Mapped(shape', object')
    BY <1>1 DEF Before
  <1>9. n \in Bags!Named(Before[o].entries, k)
        /\ held' = held \cup ({Before[o].entries[n].value} \cap Object)
    BY <1>2, <1>5, <1>6, <1>7
  <1>10. Bags!Fetch(o, k)
    BY <1>1, <1>8, <1>9, FetchMapped
  <1> QED BY <1>1, <1>10 DEF Shown, k

(* The steps of a call that store nothing do not show.                     *)
LEMMA NothingShows ==
  ASSUME IInv, After = Before, held' = held
  PROVE  Shown
  BY StutterMapped DEF After, Before, Shown

LEMMA DefineKeeps ==
  ASSUME IInv, NEW o \in Object, NEW k \in Key, NEW v \in Value, Define(o, k, v)
  PROVE  Shown
  BY NothingShows DEF Define, After, Before

LEMMA ConvertKeeps ==
  ASSUME IInv, IInv', Convert
  PROVE  Shown
  <1> DEFINE o == op.object
             p == convertToDictionary(Target)
  <1>1. op.at = "convert" /\ shape' = shape /\ held' = held
    BY DEF Convert
  <1>2. /\ o \in Objects /\ Good(shape, Objects, Target) /\ Target \in ObjectCell
        /\ Target = object[o] /\ ShapesOK
    BY <1>1 DEF IInv, CallOK, ObjectsOK, Target, Good
  <1>3. object' = [object EXCEPT ![o] = p]
    BY <1>2 DEF Convert, Target, IInv, ObjectsOK, Objects
  <1>4. /\ Good(shape, Objects, p) /\ p.shape = None /\ p.keys = KeysIn(shape, Target)
        /\ p.slots = Target.slots /\ p.frozen = Target.frozen /\ p.guarded = Target.guarded
    <2>1. p.slots = Target.slots /\ p.frozen = Target.frozen /\ p.guarded = Target.guarded
      BY <1>2 DEF convertToDictionary, ObjectCell
    <2> QED BY <1>2, <2>1, ConvertGood
  <1> HIDE DEF p, o
  <1>5. Content(shape, p) = Content(shape, Target)
    BY <1>4 DEF Content, EntriesOf, KeysIn
  <1>6. object'[o] = p /\ Objects' = Objects /\ \A u \in Object \ {o} : object'[u] = object[u]
    BY <1>1, <1>2, <1>3, <1>4, ObjectChanges DEF IInv
  <1>7. /\ Before \in [Object -> BagCell \cup {None}] /\ After \in [Object -> BagCell \cup {None}]
        /\ Before[o] = Content(shape, Target) /\ After[o] = Content(shape, p)
        /\ \A u \in Object \ {o} : After[u] = Before[u]
    BY <1>1, <1>2, <1>6, OneChanges
  <1>8. After = Before
    BY <1>5, <1>7
  <1> QED BY <1>1, <1>8, NothingShows

LEMMA AllocateChildKeeps ==
  ASSUME IInv, AllocateChild
  PROVE  Shown
  <1>1. object' = object /\ held' = held
    BY DEF AllocateChild
  <1>2. \A s \in Shapes : shape'[s] = shape[s]
    BY DEF AllocateChild, IInv, ShapesOK, Shapes
  <1>3. ASSUME NEW o \in Objects
        PROVE  KeysOf(o)' = KeysOf(o)
    <2>1. object[o].shape \in Shapes \cup {None}
      BY DEF IInv, ObjectsOK, Good, LiveIn, Shapes
    <2> QED BY <1>1, <1>2, <2>1 DEF KeysOf, KeysIn
  <1> QED BY <1>1, <1>3, BagsStay, NothingShows

LEMMA RecordEdgeKeeps ==
  ASSUME IInv, RecordEdge
  PROVE  Shown
  <1> DEFINE edges == [shape[op.before].edges EXCEPT ![op.key] = op.next]
             new == [shape[op.before] EXCEPT !.edges = edges]
  <1>1. object' = object /\ held' = held /\ op.at = "edge"
    BY DEF RecordEdge
  <1>2. op.before \in Shapes /\ op.before \in Shape /\ shape[op.before] \in ShapeCell
        /\ shape \in [Shape -> ShapeCell \cup {None}]
    BY <1>1 DEF IInv, CallOK, Adding, ShapesOK, Shapes
  <1>3. shape' = [shape EXCEPT ![op.before] = new]
    BY <1>2 DEF RecordEdge, ShapeCell
  <1> HIDE DEF edges
  <1>4. new.keys = shape[op.before].keys
    BY <1>2 DEF ShapeCell
  <1> HIDE DEF new
  <1>5. \A s \in Shapes : shape'[s].keys = shape[s].keys
    BY <1>2, <1>3, <1>4 DEF Shapes
  <1>6. ASSUME NEW o \in Objects
        PROVE  KeysOf(o)' = KeysOf(o)
    <2>1. object[o].shape \in Shapes \cup {None}
      BY DEF IInv, ObjectsOK, Good, LiveIn, Shapes
    <2> QED BY <1>1, <1>5, <2>1 DEF KeysOf, KeysIn
  <1> QED BY <1>1, <1>6, BagsStay, NothingShows

(* What the program can reach the collector marks.                         *)
LEMMA ReachedMarked ==
  ASSUME IInv
  PROVE  Bags!Reached \subseteq Marked
  <1> DEFINE S == Marked \cap Object
             bag == [o \in Object |-> BagOf(o)]
  <1>1. /\ Marked \subseteq Cells /\ held \subseteq Marked /\ held \subseteq Objects
        /\ Objects \subseteq Object
    BY Marking DEF Roots, IInv, Objects
  <1>2. S \in SUBSET Object /\ held \subseteq S
    BY <1>1
  <1>3. ASSUME NEW x \in S
        PROVE  Bags!Refers(x) \subseteq S
    <2>1. x \in Objects /\ x \in Marked
      BY <1>1, HeapAssumption DEF Cells, Shapes
    <2>2. \A n \in DOMAIN object[x].slots : object[x].slots[n] \in (Marked \cap Objects) \cup Datum
      BY <2>1, MarkedObject
    <2>3. DOMAIN KeysIn(shape, object[x]) = DOMAIN object[x].slots
      BY <2>1, KeysTyped DEF IInv, ObjectsOK, ShapesOK, Good, ObjectCell
    <2>4. bag[x] = Content(shape, object[x])
      BY <2>1 DEF BagOf, Content, EntriesOf, KeysOf, Objects
    <2>5. bag[x].entries = EntriesOf(shape, object[x])
      BY <2>4 DEF Content
    <2>6. /\ DOMAIN bag[x].entries = DOMAIN object[x].slots
          /\ \A n \in DOMAIN object[x].slots : bag[x].entries[n].value = object[x].slots[n]
      BY <2>3, <2>5 DEF EntriesOf
    <2>7. Bags!Refers(x) = {bag[x].entries[n].value : n \in DOMAIN bag[x].entries} \cap Object
      BY DEF Bags!Refers
    <2> HIDE DEF bag
    <2> QED BY <1>1, <2>2, <2>6, <2>7, HeapAssumption
  <1> HIDE DEF S, bag
  <1>4. Bags!Reached \subseteq S
    BY <1>2, <1>3 DEF Bags!Reached
  <1> QED BY <1>4 DEF S

LEMMA ReclaimMapped ==
  ASSUME NEW b, b = Mapped(shape, object), NEW c, c = Mapped(shape', object'),
         c \in [Object -> {None} \cup {b[o] : o \in Object}],
         \A o \in Object : c[o] \in {b[o], None},
         \A o \in Bags!Reached : c[o] = b[o], held' = held
  PROVE  Bags!Reclaim
  BY MappedIs DEF Bags!Reclaim

(* A collection takes away what the program cannot reach.                  *)
LEMMA CollectKeeps ==
  ASSUME IInv, IInv', csCollectGarbage
  PROVE  Shown
  <1>1. /\ shape' = [s \in Shape |-> IF s \in Marked
                                     THEN csShapePruneTransitions(shape[s], Marked) ELSE None]
        /\ object' = [o \in Object |-> IF o \in Marked THEN object[o] ELSE None]
        /\ held' = held
    BY DEF csCollectGarbage
  <1>2. Marked \subseteq Cells
    BY Marking
  <1>3. ASSUME NEW s \in Shapes, s \in Marked
        PROVE  shape'[s].keys = shape[s].keys
    <2>1. s \in Shape /\ shape[s] \in ShapeCell
      BY DEF IInv, ShapesOK, Shapes
    <2> DEFINE edges == [k \in Key |-> IF shape[s].edges[k] \in Marked THEN shape[s].edges[k] ELSE None]
    <2>2. shape'[s] = [shape[s] EXCEPT !.edges = edges]
      BY <1>1, <1>3, <2>1 DEF csShapePruneTransitions, ShapeCell
    <2> HIDE DEF edges
    <2> QED BY <2>1, <2>2 DEF ShapeCell
  <1>4. ASSUME NEW o \in Objects, o \in Marked
        PROVE  After[o] = Before[o]
    <2>1. o \in Object /\ object'[o] = object[o] /\ object[o] # None
      BY <1>1, <1>4 DEF Objects
    <2>2. object[o].shape # None => object[o].shape \in Marked /\ object[o].shape \in Shapes
      BY <1>4, MarkedObject DEF IInv, ObjectsOK, Good, LiveIn, Shapes
    <2>3. KeysIn(shape', object[o]) = KeysIn(shape, object[o])
      BY <1>3, <2>2 DEF KeysIn
    <2> QED BY <2>1, <2>3 DEF After, Before, Mapped, Content, EntriesOf
  <1>5. ASSUME NEW o \in Object, o \notin Marked
        PROVE  After[o] = None
    BY <1>1, <1>5 DEF After, Mapped
  <1>6. ASSUME NEW o \in Object, o \in Marked
        PROVE  o \in Objects
    BY <1>2, <1>6, HeapAssumption DEF Cells, Shapes
  <1>7. \A o \in Object : After[o] \in {Before[o], None}
    BY <1>4, <1>5, <1>6
  <1>8. \A o \in Bags!Reached : After[o] = Before[o]
    <2>1. Bags!Reached \subseteq Object
      BY DEF Bags!Reached
    <2> QED BY <1>4, <1>6, <2>1, ReachedMarked
  <1>9. After = [o \in Object |-> After[o]]
    BY DEF After, Mapped
  <1>10. After \in [Object -> {None} \cup {Before[o] : o \in Object}]
    BY <1>7, <1>9
  <1>11. Bags!Reclaim
    BY <1>1, <1>7, <1>8, <1>10, ReclaimMapped DEF Before, After
  <1> QED BY <1>11 DEF Shown

LEMMA InitKeeps == Init => Bags!Init
  BY DEF Init, Bags!Init, BagOf

LEMMA NextKeeps ==
  ASSUME IInv, IInv', Next
  PROVE  Shown
  <1>1. CASE csCollectGarbage
    BY <1>1, CollectKeeps
  <1>2. CASE AllocateChild
    BY <1>2, AllocateChildKeeps
  <1>3. CASE RecordEdge
    BY <1>3, RecordEdgeKeeps
  <1>4. CASE Adopt
    BY <1>4, AdoptKeeps
  <1>5. CASE Convert
    BY <1>5, ConvertKeeps
  <1>6. CASE PutOwn
    BY <1>6, PutOwnKeeps
  <1>7. CASE ConvertAndDelete
    BY <1>7, ConvertAndDeleteKeeps
  <1>8. CASE \E o \in Object : New(o) \/ Drop(o) \/ Freeze(o)
    BY <1>8, NewKeeps, DropKeeps, FreezeKeeps
  <1>9. CASE \E o \in Object, k \in Key : Delete(o, k) \/ Relink(o, k)
    BY <1>9, DeleteKeeps, RelinkKeeps
  <1>10. CASE \E o \in Object, k \in Key, v \in Value :
       IndexStore(o, k, v) \/ Assign(o, k, v) \/ Define(o, k, v)
    BY <1>10, StoreKeeps, DefineKeeps
  <1>11. CASE \E s \in Site, o \in Object : Read(s, o)
    BY <1>11, ReadKeeps
  <1>12. CASE \E s \in Site, o \in Object, v \in Value : Write(s, o, v)
    BY <1>12, WriteKeeps
  <1> QED BY <1>1, <1>2, <1>3, <1>4, <1>5, <1>6, <1>7, <1>8, <1>9, <1>10, <1>11, <1>12 DEF Next

(* Layouts, caches and collections do not show: every step of the heap is  *)
(* a step of PropertyBags or none, whatever is frozen, made read-only or   *)
(* given a prototype with setters, and however objects are laid out then.  *)
THEOREM BagsAreKept == Spec => KeepsBags
  <1>1. IInv /\ IInv' /\ [Next]_vars => [Bags!Next]_(Bags!vars)
    <2> SUFFICES ASSUME IInv, IInv', [Next]_vars
                 PROVE  [Bags!Next]_(Bags!vars)
      OBVIOUS
    <2>1. CASE UNCHANGED vars
      <3>1. After = Before /\ held' = held
        BY <2>1 DEF vars, After, Before
      <3>2. Bags!Turn
        BY <3>1, StutterMapped DEF After, Before
      <3> QED BY <3>2 DEF Bags!Next
    <2>2. Shown => Bags!Next
      BY DEF Shown, Bags!Next
    <2> QED BY <2>1, <2>2, NextKeeps
  <1> QED BY Invariant, InitKeeps, <1>1, PTL DEF Spec, KeepsBags, Bags!Spec

(* A step of PropertyBags that changes the properties of a frozen object   *)
(* stores to it by one of the ways that do not look.                       *)
LEMMA FrozenBag ==
  ASSUME NEW b \in [Object -> BagCell \cup {None}], b = Mapped(shape, object),
         NEW c, c = Mapped(shape', object'), NEW o \in Object,
         b[o] # None, b[o].frozen, c[o] # None, Shown, way' \notin Bags!Unfrozen
  PROVE  c[o].entries = b[o].entries
  <1>1. [u \in Object |-> BagOf(u)] = b /\ [u \in Object |-> BagOf(u)]' = c
    BY MappedIs
  <1>2. b[o] \in BagCell /\ o \in {u \in Object : b[u] # None}
    OBVIOUS
  <1>3. CASE Bags!Turn
    BY <1>1, <1>3 DEF Bags!Turn
  <1>4. ASSUME NEW u \in Object, Bags!New(u) \/ Bags!Release(u) \/ Bags!Freeze(u)
        PROVE  c[o].entries = b[o].entries
    <2>1. CASE Bags!New(u)
      BY <1>1, <1>2, <2>1 DEF Bags!New, Bags!Live
    <2>2. CASE Bags!Release(u)
      BY <1>1, <2>2 DEF Bags!Release
    <2>3. CASE Bags!Freeze(u)
      <3>1. c = [b EXCEPT ![u].frozen = TRUE]
        BY <1>1, <2>3 DEF Bags!Freeze
      <3> QED BY <1>2, <3>1 DEF BagCell
    <2> QED BY <1>4, <2>1, <2>2, <2>3
  <1>5. ASSUME NEW u \in Object, NEW k \in Key, Bags!Fetch(u, k) \/ Bags!Remove(u, k) \/ Bags!Guard(u, k)
        PROVE  c[o].entries = b[o].entries
    <2>1. CASE Bags!Fetch(u, k)
      BY <1>1, <2>1 DEF Bags!Fetch
    <2>2. CASE Bags!Remove(u, k)
      <3>1. ~b[u].frozen /\ \E e : c = [b EXCEPT ![u].entries = e]
        BY <1>1, <2>2 DEF Bags!Remove
      <3> QED BY <3>1
    <2>3. CASE Bags!Guard(u, k)
      <3>1. c = [b EXCEPT ![u].guarded = b[u].guarded \cup {k}]
        BY <1>1, <2>3 DEF Bags!Guard
      <3> QED BY <1>2, <3>1 DEF BagCell
    <2> QED BY <1>5, <2>1, <2>2, <2>3
  <1>6. ASSUME NEW u \in Object, NEW k \in Key, NEW v \in Object \cup Datum,
               Bags!Store(u, k, v) \/ Bags!Define(u, k, v)
        PROVE  c[o].entries = b[o].entries
    <2>1. (b[u].frozen => way' \in Bags!Unfrozen) /\ \A w \in Object \ {u} : c[w] = b[w]
      <3>1. CASE Bags!Store(u, k, v)
        BY <1>1, <3>1 DEF Bags!Store
      <3>2. CASE Bags!Define(u, k, v)
        BY <1>1, <3>2 DEF Bags!Define
      <3> QED BY <1>6, <3>1, <3>2
    <2> QED BY <2>1
  <1>7. CASE Bags!Reclaim
    BY <1>1, <1>7 DEF Bags!Reclaim
  <1> QED BY <1>3, <1>4, <1>5, <1>6, <1>7 DEF Shown

(* The properties of an object tell what its slots hold.                   *)
LEMMA SlotsShow ==
  ASSUME NEW h \in [Shape -> ShapeCell \cup {None}], NEW g \in [Shape -> ShapeCell \cup {None}],
         NEW live \in SUBSET Object, NEW kept \in SUBSET Object,
         NEW o, Good(h, live, o), NEW p, Good(g, kept, p),
         Content(g, p).entries = Content(h, o).entries
  PROVE  p.slots = o.slots
  <1> DEFINE e == EntriesOf(h, o)
             f == EntriesOf(g, p)
             V == Object \cup Datum
             slots == o.slots
             put == p.slots
             keys == KeysIn(h, o)
             more == KeysIn(g, p)
  <1>0. Spells(e, keys, slots) /\ Spells(f, more, put)
    BY EntriesSpell
  <1>3. f = e
    BY DEF Content
  <1> HIDE DEF e, f, slots, put, keys, more
  <1>1. /\ Len(e) = Len(slots) /\ slots \in Seq(V) /\ Len(slots) \in Nat
        /\ \A n \in 1 .. Len(slots) : e[n] = [key |-> keys[n], value |-> slots[n]]
    BY <1>0 DEF Spells
  <1>2. /\ Len(f) = Len(put) /\ put \in Seq(V)
        /\ \A n \in 1 .. Len(put) : f[n] = [key |-> more[n], value |-> put[n]]
    BY <1>0 DEF Spells
  <1> HIDE DEF V
  <1>4. \A n \in 1 .. Len(slots) : put[n] = slots[n]
    <2> SUFFICES ASSUME NEW n \in 1 .. Len(slots)
                 PROVE  put[n] = slots[n]
      OBVIOUS
    <2>1. e[n] = [key |-> keys[n], value |-> slots[n]]
      BY <1>1
    <2>2. n \in 1 .. Len(put)
      BY <1>1, <1>2, <1>3
    <2>3. f[n] = [key |-> more[n], value |-> put[n]]
      BY <1>2, <2>2
    <2>4. e[n].value = slots[n] /\ f[n].value = put[n]
      BY <2>1, <2>3
    <2> QED BY <2>4, <1>3
  <1>5. put = slots
    BY <1>1, <1>2, <1>3, <1>4, SeqEqual
  <1> QED BY <1>5 DEF put, slots

(* What a frozen object holds is changed by the fast path of a site and by *)
(* Object.assign, and in no other way: not by a site that misses, not by   *)
(* o[k] = v, delete or Object.defineProperty, nor by what a call left to   *)
(* do when a collection came between its steps.                            *)
THEOREM FrozenObjectsStay == Spec => FrozenChangesTwoWays
  <1>1. IInv /\ IInv' /\ [Next]_vars
          => [\A o \in Objects : object[o].frozen /\ Changed(o) => way' \in {"cache", "assign"}]_vars
    <2> SUFFICES ASSUME IInv, IInv', Next, NEW o \in Objects, object[o].frozen,
                        object'[o] # None, way' \notin {"cache", "assign"}
                 PROVE  object'[o].slots = object[o].slots
      BY DEF Changed
    <2>1. Shown /\ way' \notin Bags!Unfrozen
      BY NextKeeps DEF Bags!Unfrozen
    <2>2. o \in Object /\ o \in Objects' /\ Objects \subseteq Object /\ Objects' \subseteq Object
      BY DEF Objects
    <2>3. /\ Before \in [Object -> BagCell \cup {None}]
          /\ Before[o] = Content(shape, object[o]) /\ Before[o] # None
          /\ After[o] = Content(shape', object'[o]) /\ After[o] # None
      BY <2>2, Sides, HeapAssumption
    <2>4. Before[o].frozen
      BY <2>3 DEF Content
    <2>5. After[o].entries = Before[o].entries
      BY <2>1, <2>2, <2>3, <2>4, FrozenBag DEF Before, After
    <2>6. /\ shape \in [Shape -> ShapeCell \cup {None}] /\ shape' \in [Shape -> ShapeCell \cup {None}]
          /\ Good(shape, Objects, object[o]) /\ Good(shape', Objects', object'[o])
      BY <2>2 DEF IInv, ShapesOK, ObjectsOK
    <2> QED BY <2>2, <2>3, <2>5, <2>6, SlotsShow
  <1> QED BY Invariant, <1>1, PTL DEF Spec, FrozenChangesTwoWays

(* What the properties of a name hold; storing under another name, taking  *)
(* one out or leaving them alone adds nothing.                             *)
Valued(e, k) == {e[n].value : n \in Bags!Named(e, k)}

LEMMA StoredElsewhere ==
  ASSUME NEW e \in Seq(Entry), NEW k, NEW q \in Key, NEW v \in Object \cup Datum, k # q
  PROVE  Valued(Bags!Stored(e, q, v), k) \subseteq Valued(e, k)
  <1> DEFINE new == [key |-> q, value |-> v]
  <1>1. new \in Entry /\ new.key = q /\ new.value = v
    BY DEF Entry
  <1>2. DOMAIN e = 1 .. Len(e) /\ Len(e) \in Nat
    BY LenProperties
  <1> HIDE DEF new
  <1>3. CASE Bags!Named(e, q) = {}
    <2> DEFINE g == Append(e, new)
    <2>1. Bags!Stored(e, q, v) = g
      BY <1>3, StoredNew DEF new
    <2>2. g \in Seq(Entry) /\ Len(g) = Len(e) + 1 /\ g[Len(e) + 1] = new
          /\ \A n \in 1 .. Len(e) : g[n] = e[n]
      BY <1>1, AppendParts
    <2> HIDE DEF g
    <2>3. DOMAIN g = 1 .. Len(e) + 1
      BY <2>2, LenProperties
    <2>4. ASSUME NEW n \in DOMAIN g, g[n].key = k
          PROVE  n \in DOMAIN e /\ g[n] = e[n]
      BY <1>1, <1>2, <2>2, <2>3, <2>4
    <2> QED BY <2>1, <2>4 DEF Valued, Bags!Named
  <1>4. CASE Bags!Named(e, q) # {}
    <2> DEFINE g == [n \in DOMAIN e |-> IF e[n].key = q THEN new ELSE e[n]]
    <2>1. Bags!Stored(e, q, v) = g
      BY <1>4, StoredOver DEF new
    <2>2. ASSUME NEW n \in DOMAIN g, g[n].key = k
          PROVE  n \in DOMAIN e /\ g[n] = e[n]
      BY <1>1, <2>2
    <2> HIDE DEF g
    <2> QED BY <2>1, <2>2 DEF Valued, Bags!Named
  <1> QED BY <1>3, <1>4

LEMMA WithoutLess ==
  ASSUME NEW e \in Seq(Entry), NEW k, NEW n
  PROVE  Valued(Bags!Without(e, n), k) \subseteq Valued(e, k)
  <1> DEFINE g == Bags!Without(e, n)
  <1>1. DOMAIN e = 1 .. Len(e) /\ Len(e) \in Nat
    BY LenProperties
  <1>2. g = [m \in 1 .. Len(e) - 1 |-> IF m < n THEN e[m] ELSE e[m + 1]]
    BY DEF Bags!Without
  <1> HIDE DEF g
  <1>3. ASSUME NEW m \in DOMAIN g
        PROVE  \E i \in DOMAIN e : g[m] = e[i]
    <2>1. m \in DOMAIN e /\ m + 1 \in DOMAIN e
      BY <1>1, <1>2
    <2> QED BY <1>2, <2>1
  <1>4. ASSUME NEW x \in Valued(g, k)
        PROVE  x \in Valued(e, k)
    <2>1. PICK m \in DOMAIN g : g[m].key = k /\ x = g[m].value
      BY <1>4 DEF Valued, Bags!Named
    <2>2. PICK i \in DOMAIN e : g[m] = e[i]
      BY <1>3
    <2>3. i \in Bags!Named(e, k) /\ x = e[i].value
      BY <2>1, <2>2 DEF Bags!Named
    <2> QED BY <2>3 DEF Valued
  <1> QED BY <1>4 DEF g

(* A step that stores under a guarded name defines it, or stores by one of *)
(* the ways that do not look for it.                                       *)
LEMMA GuardedBag ==
  ASSUME NEW b \in [Object -> BagCell \cup {None}], b = Mapped(shape, object),
         NEW c, c = Mapped(shape', object'), NEW o \in Object,
         b[o] # None, c[o] # None, NEW k \in b[o].guarded, Shown,
         way' \notin Bags!Unguarded, way' # "define"
  PROVE  Valued(c[o].entries, k) \subseteq Valued(b[o].entries, k)
  <1>1. [u \in Object |-> BagOf(u)] = b /\ [u \in Object |-> BagOf(u)]' = c
    BY MappedIs
  <1>2. b[o] \in BagCell /\ o \in {u \in Object : b[u] # None}
    OBVIOUS
  <1>3. b[o].entries \in Seq(Entry)
    BY <1>2 DEF BagCell, Entry
  <1>4. CASE c[o].entries = b[o].entries
    BY <1>4
  <1>5. CASE Bags!Turn
    BY <1>1, <1>4, <1>5 DEF Bags!Turn
  <1>6. ASSUME NEW u \in Object, Bags!New(u) \/ Bags!Release(u) \/ Bags!Freeze(u)
        PROVE  c[o].entries = b[o].entries
    <2>1. CASE Bags!New(u)
      BY <1>1, <1>2, <2>1 DEF Bags!New, Bags!Live
    <2>2. CASE Bags!Release(u)
      BY <1>1, <2>2 DEF Bags!Release
    <2>3. CASE Bags!Freeze(u)
      <3>1. c = [b EXCEPT ![u].frozen = TRUE]
        BY <1>1, <2>3 DEF Bags!Freeze
      <3> QED BY <1>2, <3>1 DEF BagCell
    <2> QED BY <1>6, <2>1, <2>2, <2>3
  <1>7. ASSUME NEW u \in Object, NEW q \in Key, Bags!Fetch(u, q) \/ Bags!Guard(u, q)
        PROVE  c[o].entries = b[o].entries
    <2>1. CASE Bags!Fetch(u, q)
      BY <1>1, <2>1 DEF Bags!Fetch
    <2>2. CASE Bags!Guard(u, q)
      <3>1. c = [b EXCEPT ![u].guarded = b[u].guarded \cup {q}]
        BY <1>1, <2>2 DEF Bags!Guard
      <3> QED BY <1>2, <3>1 DEF BagCell
    <2> QED BY <1>7, <2>1, <2>2
  <1>8. ASSUME NEW u \in Object, NEW q \in Key, Bags!Remove(u, q)
        PROVE  Valued(c[o].entries, k) \subseteq Valued(b[o].entries, k)
    <2>1. PICK n : c = [b EXCEPT ![u].entries = Bags!Without(b[u].entries, n)]
      BY <1>1, <1>8 DEF Bags!Remove
    <2> DEFINE e == Bags!Without(b[u].entries, n)
    <2>2. c = [b EXCEPT ![u].entries = e]
      BY <2>1
    <2>3. CASE u # o
      BY <1>4, <2>2, <2>3
    <2>4. CASE u = o
      <3> HIDE DEF e
      <3>1. c[o].entries = e
        BY <1>2, <2>2, <2>4 DEF BagCell
      <3> QED BY <1>3, <2>4, <3>1, WithoutLess DEF e
    <2> QED BY <2>3, <2>4
  <1>9. ASSUME NEW u \in Object, NEW q \in Key, NEW v \in Object \cup Datum, Bags!Store(u, q, v)
        PROVE  Valued(c[o].entries, k) \subseteq Valued(b[o].entries, k)
    <2> DEFINE e == Bags!Stored(b[u].entries, q, v)
    <2>1. c = [b EXCEPT ![u].entries = e] /\ q \notin b[u].guarded
      BY <1>1, <1>9 DEF Bags!Store
    <2>2. CASE u # o
      BY <1>4, <2>1, <2>2
    <2>3. CASE u = o
      <3>1. q # k
        BY <2>1, <2>3
      <3> HIDE DEF e
      <3>2. c[o].entries = e
        BY <1>2, <2>1, <2>3 DEF BagCell
      <3> QED BY <1>3, <2>3, <3>1, <3>2, StoredElsewhere DEF e
    <2> QED BY <2>2, <2>3
  <1>10. CASE Bags!Reclaim
    BY <1>1, <1>4, <1>10 DEF Bags!Reclaim
  <1>11. \A u \in Object, q \in Key, v \in Object \cup Datum : ~Bags!Define(u, q, v)
    BY DEF Bags!Define
  <1> QED BY <1>4, <1>5, <1>6, <1>7, <1>8, <1>9, <1>10, <1>11 DEF Shown

HeldIn(h, o, k) == {o.slots[n] : n \in SlotsOf(KeysIn(h, o), k)}

LEMMA HoldsShow ==
  ASSUME NEW h \in [Shape -> ShapeCell \cup {None}], NEW live \in SUBSET Object,
         NEW o, Good(h, live, o)
  PROVE  \A k : Valued(Content(h, o).entries, k) = HeldIn(h, o, k)
  <1> TAKE k
  <1> DEFINE e == EntriesOf(h, o)
  <1>1. e = Content(h, o).entries
    BY DEF Content
  <1>2. Bags!Named(e, k) = SlotsOf(KeysIn(h, o), k)
    BY EntriesTyped
  <1>3. \A n \in DOMAIN KeysIn(h, o) : e[n].value = o.slots[n]
    BY DEF EntriesOf
  <1> HIDE DEF e
  <1>4. \A n \in SlotsOf(KeysIn(h, o), k) : e[n].value = o.slots[n]
    BY <1>3 DEF SlotsOf
  <1> QED BY <1>1, <1>2, <1>4 DEF Valued, HeldIn

(* Something new is stored under a name that is read-only, or that a      *)
(* setter takes, by the fast path of a site, o[k] = v, Object.assign and   *)
(* Object.defineProperty, and in no other way: not by a site that misses,  *)
(* whatever it remembered, and not by the deletion of another name.        *)
THEOREM GuardedNamesStay == Spec => SitesSpareGuarded
  <1> DEFINE Ways4 == {"cache", "index", "assign", "define"}
  <1>1. IInv /\ IInv' /\ [Next]_vars
          => [\A o \in Objects : \A k \in object[o].guarded : Taken(o, k) => way' \in Ways4]_vars
    <2> SUFFICES ASSUME IInv, IInv', Next, NEW o \in Objects, object'[o] # None,
                        NEW k \in object[o].guarded, way' \notin Ways4
                 PROVE  Holds(o, k, shape', object') \subseteq Holds(o, k, shape, object)
      BY DEF Taken
    <2>1. Shown /\ way' \notin Bags!Unguarded /\ way' # "define"
      BY NextKeeps DEF Bags!Unguarded
    <2>2. o \in Object /\ o \in Objects' /\ Objects \subseteq Object /\ Objects' \subseteq Object
      BY DEF Objects
    <2>3. /\ Before \in [Object -> BagCell \cup {None}]
          /\ Before[o] = Content(shape, object[o]) /\ Before[o] # None
          /\ After[o] = Content(shape', object'[o]) /\ After[o] # None
      BY <2>2, Sides, HeapAssumption
    <2>4. k \in Before[o].guarded
      BY <2>3 DEF Content
    <2>5. Valued(After[o].entries, k) \subseteq Valued(Before[o].entries, k)
      BY <2>1, <2>2, <2>3, <2>4, GuardedBag DEF Before, After
    <2>6. /\ shape \in [Shape -> ShapeCell \cup {None}] /\ shape' \in [Shape -> ShapeCell \cup {None}]
          /\ Good(shape, Objects, object[o]) /\ Good(shape', Objects', object'[o])
          /\ Objects \in SUBSET Object /\ Objects' \in SUBSET Object
      BY <2>2 DEF IInv, ShapesOK, ObjectsOK
    <2> DEFINE old == object[o]
               new == object'[o]
    <2>7. /\ Holds(o, k, shape, object) = HeldIn(shape, old, k)
          /\ Holds(o, k, shape', object') = HeldIn(shape', new, k)
      BY DEF Holds, HeldIn
    <2>8. /\ Valued(Content(shape, old).entries, k) = HeldIn(shape, old, k)
          /\ Valued(Content(shape', new).entries, k) = HeldIn(shape', new, k)
      <3> HIDE DEF old, new
      <3> QED BY <2>6, HoldsShow DEF old, new
    <2> QED BY <2>3, <2>5, <2>7, <2>8
  <1> QED BY Invariant, <1>1, PTL DEF Spec, SitesSpareGuarded

=============================================================================
