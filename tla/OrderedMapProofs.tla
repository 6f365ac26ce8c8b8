--------------------------- MODULE OrderedMapProofs ----------------------------
(* Proofs about Map, Set, WeakMap and WeakSet, for any keys, any hashes, any   *)
(* first sizes and any number of entries: a search finds the entry of a key,   *)
(* whatever was set, deleted, moved and collected before it, forEach meets     *)
(* each entry, and the structure implements the collection it stands for.      *)
EXTENDS OrderedMap, FiniteSetTheorems, SequenceTheorems, WellFoundedInduction, TLAPS

------------------------------------------------------------------------------
(* What holds at every step.                                                   *)

(* The place probed d steps after the first, in an index of n places.          *)
Spot(h, n, k, d) == ((h[k] + d) % n) + 1

(* Each key is in once.                                                        *)
Distinct(s) == \A i, j \in 1 .. Len(s) : s[i].key = s[j].key => i = j

(* The index leads to the first e entries of s, to each from one place, which  *)
(* a probe for its key comes to, and it leads nowhere else.                    *)
Leads(h, ix, k, j) ==
  \E d \in 0 .. Len(ix) - 1 :
    /\ ix[Spot(h, Len(ix), k, d)] = j
    /\ \A c \in 0 .. d - 1 : ix[Spot(h, Len(ix), k, c)] \notin {0, j}
Sound(h, ix, s, e) ==
  /\ ix \in Seq(0 .. e) /\ Len(ix) > 0
  /\ \A p, q \in 1 .. Len(ix) : ix[p] = ix[q] /\ ix[p] # 0 => p = q
  /\ \A j \in 1 .. e : Leads(h, ix, s[j].key, j)

(* A free place that a probe for k comes to before any other free one.         *)
Waits(h, ix, k, slot) ==
  /\ slot \in 1 .. Len(ix) /\ ix[slot] = 0
  /\ \E d \in 0 .. Len(ix) - 1 :
       /\ slot = Spot(h, Len(ix), k, d)
       /\ \A c \in 0 .. d - 1 : ix[Spot(h, Len(ix), k, c)] # 0

(* The load that Overfull allows, which leaves a place of the index free.      *)
Roomy(n, count) == 4 * count <= 3 * n

Maps == [entries : Seq(Entries), capacity : Nat, index : Seq(Nat), size : Nat]
Shape(m) ==
  /\ m \in Maps
  /\ m.size = Len(m.entries) /\ Len(m.entries) <= m.capacity
  /\ m.index \in Seq(0 .. m.capacity)
  /\ Distinct(m.entries)
  /\ Roomy(Len(m.index), Len(m.entries))
Whole(h, m) == m.index # <<>> => Sound(h, m.index, m.entries, Len(m.entries))

(* A key that is to go in, with room for it in an index of n places.           *)
Fresh(hd, m, o, n) ==
  /\ o.key \in hd /\ o.value \in Value
  /\ o.key \notin KeysOf(m.entries)
  /\ Roomy(n, Len(m.entries) + 1)

(* What a call that is about to allocate has found out.                        *)
CallOK(kd, h, hd, m, o) ==
  \/ o = Idle /\ Whole(h, m)
  \/ /\ o.at = "index" /\ o.then = "place" /\ o.size = IndexMin
     /\ m.index = <<>> /\ o.key \in hd /\ o.value \in Value
  \/ /\ o.at = "index" /\ o.then = "add" /\ o.size \in Nat
     /\ Fresh(hd, m, o, o.size)
  \/ /\ o.at = "index" /\ o.then = "deleted"
     /\ o.size = Len(m.index) /\ m.index # <<>>
  \/ /\ o.at = "grow" /\ m.index # <<>> /\ Whole(h, m)
     /\ Fresh(hd, m, o, Len(m.index))
     /\ o.slot \in 1 .. Len(m.index)
     /\ o = [at |-> "grow", key |-> o.key, value |-> o.value, slot |-> o.slot,
             struck |-> o.struck]
     /\ o.struck \in BOOLEAN
     /\ IF o.struck THEN kd = "weak" ELSE Waits(h, m.index, o.key, o.slot)

(* The entries of a walk that are to come, from place i on: what it owes, if   *)
(* no entry it had passed has gone, and at least part of that otherwise.       *)
From(m, i) == {m.entries[n].key : n \in i .. Len(m.entries)}
Ahead(m, i, ow, sp) == From(m, i) \subseteq ow /\ (~sp => ow = From(m, i))
Owes(m, w, ow, sp) ==
  /\ w.at = "none" => ow = {} /\ ~sp
  /\ w.at = "loop" => Ahead(m, w.i, ow, sp)
  /\ w.at = "callback" => /\ Ahead(m, w.i + 1, ow, sp)
                          /\ ~sp => w.i <= Len(m.entries)

WalkOK(kd, hd, m, o, w, ow, sp) ==
  /\ w \in [at : {"none", "loop", "callback"}, i : Nat]
  /\ w.at # "none" => w.i >= 1
  /\ ow \subseteq Key /\ sp \in BOOLEAN
  /\ w.at = "loop" => o = Idle
  /\ kd = "weak" => w = NoWalk
  /\ Owes(m, w, ow, sp)

Still == /\ kind \in Kinds /\ hash \in [Key -> Hashes] /\ held \subseteq Key
         /\ kind = "strong" => held = Key
         /\ did \in Happenings

Sane ==
  /\ Still
  /\ Shape(map)
  /\ CallOK(kind, hash, held, map, op)
  /\ WalkOK(kind, held, map, op, walk, owed, spoilt)

(* An entry can go astray in a weak collection only; from then on nothing is   *)
(* claimed of it, but that nothing walks it.                                   *)
IInv ==
  /\ kind \in Kinds
  /\ kind = "weak" => walk = NoWalk
  /\ IF astray THEN kind = "weak" ELSE Sane

(* Numbers up to a are numbers up to any b that is no less.                    *)
LEMMA Widened ==
  ASSUME NEW a \in Nat, NEW b \in Nat, a <= b, NEW s \in Seq(0 .. a)
  PROVE  s \in Seq(0 .. b)
<1>1. 0 .. a \subseteq 0 .. b
  OBVIOUS
<1> QED
  BY <1>1, SeqMonotonic

------------------------------------------------------------------------------
(* Searching.                                                                  *)

(* A set of natural numbers has a least one.                                   *)
LEMMA LeastOf ==
  ASSUME NEW S, S \subseteq Nat, S # {}
  PROVE  \E n \in S : \A k \in S : n <= k
<1> DEFINE R == {pair \in Nat \X Nat : pair[1] < pair[2]}
<1>1. OpToRel(<, Nat) = R
  BY Zenon DEF OpToRel
<1>2. PICK n \in S : \A k \in S : ~ (<<k, n>> \in R)
  <2> HIDE DEF R
  <2> QED
    BY <1>1, NatLessThanWellFounded, WFMin
<1>3. ASSUME NEW k \in S
      PROVE  n <= k
  <2>1. k < n => <<k, n>> \in R
    OBVIOUS
  <2>2. ~ (k < n)
    <3> HIDE DEF R
    <3> QED
      BY <2>1, <1>2
  <2> QED
    BY <2>2
<1> QED
  BY <1>3

(* What holds of 0, and of e if of e - 1, holds up to the last.                *)
LEMMA UpTheSet ==
  ASSUME NEW last \in Nat, NEW G, 0 \in G, \A e \in 1 .. last : e - 1 \in G => e \in G
  PROVE  \A e \in 0 .. last : e \in G
<1> DEFINE Bad == {e \in 0 .. last : e \notin G}
<1> SUFFICES ASSUME Bad # {} PROVE FALSE
  OBVIOUS
<1>1. PICK e \in Bad : \A c \in Bad : e <= c
  <2>1. Bad \subseteq Nat
    OBVIOUS
  <2> HIDE DEF Bad
  <2> QED
    BY <2>1, LeastOf
<1>2. e \in 1 .. last /\ e - 1 \in 0 .. last /\ ~(e <= e - 1)
  BY <1>1
<1>3. e - 1 \in G
  BY <1>1, <1>2
<1> QED
  BY <1>1, <1>2, <1>3

(* What is left over is less than n.                                           *)
LEMMA Remainder ==
  ASSUME NEW n \in Nat \ {0}, NEW q \in Int, NEW r \in 0 .. n - 1
  PROVE  (n * q + r) % n = r
OBVIOUS

(* How far d steps from x are, modulo n.                                       *)
LEMMA Wrapping ==
  ASSUME NEW x \in Nat, NEW n \in Nat \ {0}, NEW d \in 0 .. n - 1
  PROVE  /\ x % n \in 0 .. n - 1
         /\ (x + d) % n = IF (x % n) + d < n THEN (x % n) + d ELSE (x % n) + d - n
<1> DEFINE q == x \div n
           r == x % n
<1>1. q \in Int /\ r \in 0 .. n - 1 /\ x = n * q + r
  OBVIOUS
<1> HIDE DEF q, r
<1>2. CASE r + d < n
  <2>1. x + d = n * q + (r + d) /\ r + d \in 0 .. n - 1
    BY <1>1, <1>2
  <2>2. (x + d) % n = r + d
    BY <1>1, <2>1
  <2> QED
    BY <1>1, <1>2, <2>2 DEF r
<1>3. CASE ~(r + d < n)
  <2> DEFINE p == q + 1
  <2>1. p \in Int /\ n * p = n * q + n
    BY <1>1
  <2> HIDE DEF p
  <2>2. x + d = n * p + (r + d - n) /\ r + d - n \in 0 .. n - 1
    BY <1>1, <1>3, <2>1
  <2>3. (x + d) % n = r + d - n
    BY <2>1, <2>2, Remainder
  <2> QED
    BY <1>1, <1>3, <2>3 DEF r
<1> QED
  BY <1>2, <1>3

(* A probe passes each place of the index.                                     *)
LEMMA Probing ==
  ASSUME NEW h \in [Key -> Nat], NEW n \in Nat \ {0}, NEW k \in Key
  PROVE  /\ \A d \in Nat : Spot(h, n, k, d) \in 1 .. n
         /\ \A p \in 1 .. n : \E d \in 0 .. n - 1 : Spot(h, n, k, d) = p
<1> DEFINE r == h[k] % n
<1>0. h[k] \in Nat
  OBVIOUS
<1>1. r \in 0 .. n - 1
  <2>1. 0 \in 0 .. n - 1
    OBVIOUS
  <2> QED
    BY <1>0, <2>1, Wrapping
<1>2. \A d \in Nat : Spot(h, n, k, d) \in 1 .. n
  BY <1>0 DEF Spot
<1>3. \A d \in 0 .. n - 1 : (h[k] + d) % n = IF r + d < n THEN r + d ELSE r + d - n
  BY <1>0, Wrapping
<1> HIDE DEF r
<1>4. ASSUME NEW p \in 1 .. n
      PROVE  \E d \in 0 .. n - 1 : Spot(h, n, k, d) = p
  <2>1. CASE p - 1 >= r
    <3>1. (p - 1) - r \in 0 .. n - 1 /\ r + ((p - 1) - r) = p - 1
      BY <1>1, <2>1
    <3>2. (h[k] + ((p - 1) - r)) % n = p - 1
      BY <1>3, <3>1
    <3> QED
      BY <3>1, <3>2 DEF Spot
  <2>2. CASE p - 1 < r
    <3> DEFINE d == (p - 1) + n - r
    <3>1. d \in 0 .. n - 1 /\ r + d - n = p - 1 /\ ~(r + d < n)
      BY <1>1, <2>2
    <3> HIDE DEF d
    <3>2. (h[k] + d) % n = p - 1
      BY <1>3, <3>1
    <3> QED
      BY <3>1, <3>2 DEF Spot
  <2> QED
    BY <1>1, <2>1, <2>2
<1> QED
  BY <1>2, <1>4

(* Where the search for a key ends is where it first stops.                    *)
LEMMA FirstStop ==
  ASSUME hash \in [Key -> Nat], NEW m, NEW k \in Key, Len(m.index) \in Nat \ {0},
         NEW d \in 0 .. Len(m.index) - 1,
         Stops(m, k, Spot(hash, Len(m.index), k, d)),
         \A c \in 0 .. d - 1 : ~Stops(m, k, Spot(hash, Len(m.index), k, c))
  PROVE  findSlot(m, k) = Spot(hash, Len(m.index), k, d)
<1> DEFINE At(e) == Probed(m.index, k, e)
           First(e) == Stops(m, k, At(e)) /\ \A c \in 0 .. e - 1 : ~Stops(m, k, At(c))
<1>1. \A e : At(e) = Spot(hash, Len(m.index), k, e)
  BY DEF Probed, Spot
<1>2. First(d)
  BY <1>1
<1>3. ASSUME NEW e \in 0 .. Len(m.index) - 1, First(e) PROVE e = d
  <2>1. ~(e < d)
    <3>1. e < d => e \in 0 .. d - 1
      OBVIOUS
    <3> QED
      BY <1>2, <1>3, <3>1
  <2>2. ~(d < e)
    <3>1. d < e => d \in 0 .. e - 1
      OBVIOUS
    <3> QED
      BY <1>2, <1>3, <3>1
  <2> QED
    BY <2>1, <2>2
<1>4. findSlot(m, k) = At(CHOOSE e \in 0 .. Len(m.index) - 1 : First(e))
  BY DEF findSlot
<1> HIDE DEF First
<1>5. (CHOOSE e \in 0 .. Len(m.index) - 1 : First(e)) = d
  BY <1>2, <1>3
<1> QED
  BY <1>1, <1>4, <1>5

(* An index that is sound leaves a place free if it has more than entries.     *)
LEMMA FreePlace ==
  ASSUME NEW h, NEW ix, NEW s, NEW e \in Nat, Sound(h, ix, s, e), e < Len(ix)
  PROVE  \E p \in 1 .. Len(ix) : ix[p] = 0
<1> SUFFICES ASSUME \A p \in 1 .. Len(ix) : ix[p] # 0
             PROVE  FALSE
  OBVIOUS
<1> DEFINE n == Len(ix)
<1>1. ix \in Seq(0 .. e) /\ n \in Nat
  BY DEF Sound
<1>2. ix \in [1 .. n -> 1 .. e]
  BY <1>1
<1>3. /\ IsFiniteSet(1 .. n) /\ Cardinality(1 .. n) = n
      /\ IsFiniteSet(1 .. e) /\ Cardinality(1 .. e) = e
  <2> HIDE DEF n
  <2>1. \A x \in Nat : IsFiniteSet(1 .. x) /\ Cardinality(1 .. x) = x
    <3> TAKE x \in Nat
    <3>1. 1 \in Int /\ x \in Int
      OBVIOUS
    <3>2. IsFiniteSet(1 .. x) /\ Cardinality(1 .. x) = IF 1 > x THEN 0 ELSE x - 1 + 1
      BY <3>1, FS_Interval
    <3> QED
      BY <3>2
  <2> QED
    BY <1>1, <2>1
<1>4. \E p, q \in 1 .. n : p # q /\ ix[p] = ix[q]
  <2>1. Cardinality(1 .. e) < Cardinality(1 .. n)
    BY <1>3
  <2> QED
    BY <1>2, <1>3, <2>1, FS_PigeonHole
<1> QED
  BY <1>4 DEF Sound

(* The search for a key that is in finds its entry.                            *)
LEMMA FindsThere ==
  ASSUME hash \in [Key -> Nat], NEW m, NEW e \in 0 .. Len(m.entries), m.entries \in Seq(Entries),
         Distinct(m.entries), Sound(hash, m.index, m.entries, e), NEW j \in 1 .. e
  PROVE  LET slot == findSlot(m, m.entries[j].key)
         IN slot \in 1 .. Len(m.index) /\ m.index[slot] = j
<1> DEFINE k == m.entries[j].key
           n == Len(m.index)
<1>1. k \in Key /\ n \in Nat \ {0} /\ Len(m.entries) \in Nat /\ m.index \in Seq(0 .. e)
  <2>1. j \in 1 .. Len(m.entries)
    OBVIOUS
  <2>2. m.entries[j] \in Entries
    BY <2>1, ElementOfSeq
  <2>3. k \in Key
    BY <2>2 DEF Entries
  <2>4. m.index \in Seq(0 .. e) /\ Len(m.index) > 0
    BY DEF Sound
  <2> QED
    BY <2>3, <2>4
<1>2. PICK d \in 0 .. n - 1 : /\ m.index[Spot(hash, n, k, d)] = j
                              /\ \A c \in 0 .. d - 1 : m.index[Spot(hash, n, k, c)] \notin {0, j}
  BY DEF Sound, Leads
<1>3. \A c \in Nat : Spot(hash, n, k, c) \in 1 .. n
  BY <1>1, Probing
<1>4. Stops(m, k, Spot(hash, n, k, d))
  BY <1>2 DEF Stops
<1>5. ASSUME NEW c \in 0 .. d - 1 PROVE ~Stops(m, k, Spot(hash, n, k, c))
  <2> DEFINE i == m.index[Spot(hash, n, k, c)]
  <2>1. i # 0 /\ i # j
    BY <1>2
  <2>2. i \in 0 .. e
    <3>1. Spot(hash, n, k, c) \in 1 .. n
      <4>1. c \in Nat
        BY <1>1
      <4> HIDE DEF n, k
      <4> QED
        BY <1>3, <4>1
    <3> QED
      BY <1>1, <3>1, ElementOfSeq
  <2>3. m.entries[i].key # k
    <3> HIDE DEF i
    <3>1. i \in 1 .. Len(m.entries) /\ j \in 1 .. Len(m.entries)
      BY <1>1, <2>1, <2>2
    <3> QED
      BY <2>1, <3>1 DEF Distinct
  <2> QED
    BY <2>1, <2>3 DEF Stops
<1>6. findSlot(m, k) = Spot(hash, n, k, d)
  <2> HIDE DEF k
  <2> QED
    BY <1>1, <1>4, <1>5, FirstStop
<1> QED
  BY <1>2, <1>3, <1>6

(* The search for a key that is not in ends at a free place.                   *)
LEMMA FindsFree ==
  ASSUME hash \in [Key -> Nat], NEW m, NEW e \in 0 .. Len(m.entries), m.entries \in Seq(Entries),
         Sound(hash, m.index, m.entries, e), e < Len(m.index),
         NEW k \in Key, \A j \in 1 .. e : m.entries[j].key # k
  PROVE  Waits(hash, m.index, k, findSlot(m, k))
<1> DEFINE n == Len(m.index)
           At(c) == Spot(hash, n, k, c)
           Free == {c \in 0 .. n - 1 : m.index[At(c)] = 0}
<1>1. n \in Nat \ {0} /\ Len(m.entries) \in Nat /\ m.index \in Seq(0 .. e) /\ e \in Nat
  BY DEF Sound
<1>2. /\ \A c \in Nat : At(c) \in 1 .. n
      /\ \A p \in 1 .. n : \E c \in 0 .. n - 1 : At(c) = p
  <2>1. n \in Nat \ {0}
    BY <1>1
  <2> HIDE DEF n
  <2> QED
    BY <2>1, Probing
<1>3. Free # {}
  <2>1. PICK p \in 1 .. n : m.index[p] = 0
    BY <1>1, FreePlace
  <2>2. \E c \in 0 .. n - 1 : At(c) = p
    BY <1>2
  <2> QED
    BY <2>1, <2>2
<1>4. PICK d \in Free : \A c \in Free : d <= c
  <2>1. Free \subseteq Nat
    BY <1>1
  <2> HIDE DEF Free
  <2> QED
    BY <1>3, <2>1, LeastOf
<1>5. d \in 0 .. n - 1 /\ m.index[At(d)] = 0 /\ Stops(m, k, At(d))
  BY <1>4 DEF Stops
<1>6. ASSUME NEW c \in 0 .. d - 1 PROVE m.index[At(c)] # 0 /\ ~Stops(m, k, At(c))
  <2>1. c \in 0 .. n - 1 /\ ~(d <= c) /\ c \in Nat
    BY <1>1, <1>5
  <2>2. m.index[At(c)] # 0
    BY <1>4, <2>1
  <2>3. m.index[At(c)] \in 1 .. e
    <3>1. m.index[At(c)] \in 0 .. e
      BY <1>1, <1>2, <2>1, ElementOfSeq
    <3>2. \A x \in 0 .. e : x # 0 => x \in 1 .. e
      BY <1>1
    <3> QED
      BY <2>2, <3>1, <3>2
  <2> QED
    BY <2>2, <2>3 DEF Stops
<1>7. findSlot(m, k) = At(d)
  <2>1. /\ n \in Nat \ {0} /\ n = Len(m.index) /\ d \in 0 .. n - 1
        /\ Stops(m, k, Spot(hash, n, k, d))
        /\ \A c \in 0 .. d - 1 : ~Stops(m, k, Spot(hash, n, k, c))
    BY <1>1, <1>5, <1>6
  <2> HIDE DEF n, Free
  <2> QED
    BY <2>1, FirstStop
<1>8. At(d) \in 1 .. n
  BY <1>1, <1>2, <1>5
<1> QED
  BY <1>5, <1>6, <1>7, <1>8 DEF Waits

------------------------------------------------------------------------------
(* Building the index.                                                         *)

PutAt(ix, slot, j) == [ix EXCEPT ![slot] = j]

(* An index for e entries that gets the next one at the place where a search   *)
(* for its key ends.                                                           *)
LEMMA Entering ==
  ASSUME NEW h \in [Key -> Nat], NEW ix, NEW s, NEW e \in Nat, Sound(h, ix, s, e),
         NEW slot, s[e + 1].key \in Key, Waits(h, ix, s[e + 1].key, slot)
  PROVE  /\ Sound(h, PutAt(ix, slot, e + 1), s, e + 1)
         /\ Len(PutAt(ix, slot, e + 1)) = Len(ix)
<1> DEFINE n == Len(ix)
           jx == [ix EXCEPT ![slot] = e + 1]
<1>1. ix \in Seq(0 .. e) /\ n \in Nat \ {0}
  BY DEF Sound
<1>2. slot \in 1 .. n /\ ix[slot] = 0
  BY DEF Waits
<1>3. ix \in Seq(0 .. e + 1) /\ e + 1 \in 0 .. e + 1
  <2>1. e \in Nat /\ e + 1 \in Nat /\ e <= e + 1 /\ e + 1 \in 0 .. e + 1
    OBVIOUS
  <2> QED
    BY <1>1, <2>1, Widened
<1>4. /\ jx \in Seq(0 .. e + 1) /\ Len(jx) = n
      /\ \A p \in 1 .. n : jx[p] = IF p = slot THEN e + 1 ELSE ix[p]
  BY <1>2, <1>3, ExceptSeq
<1>5. \A p \in 1 .. n : ix[p] \in 0 .. e
  BY <1>1, ElementOfSeq
<1> HIDE DEF jx
<1>6. \A p, q \in 1 .. n : jx[p] = jx[q] /\ jx[p] # 0 => p = q
  <2>1. \A p, q \in 1 .. n : ix[p] = ix[q] /\ ix[p] # 0 => p = q
    BY DEF Sound
  <2>2. \A p \in 1 .. n : ix[p] # e + 1
    BY <1>5
  <2> HIDE DEF n
  <2> QED
    BY <1>4, <2>1, <2>2
<1>7. ASSUME NEW j \in 1 .. e PROVE Leads(h, jx, s[j].key, j)
  <2> DEFINE k == s[j].key
  <2>1. PICK d \in 0 .. n - 1 : /\ ix[Spot(h, n, k, d)] = j
                                /\ \A c \in 0 .. d - 1 : ix[Spot(h, n, k, c)] \notin {0, j}
    BY DEF Sound, Leads
  <2> HIDE DEF k
  <2>2. \A p : ix[p] # 0 /\ ix[p] \in 0 .. e => p # slot
    BY <1>2
  <2>3. ASSUME NEW c \in 0 .. d - 1 PROVE jx[Spot(h, n, k, c)] \notin {0, j}
    <3>1. ix[Spot(h, n, k, c)] \notin {0, j}
      BY <2>1
    <3>2. CASE Spot(h, n, k, c) = slot
      <4>1. jx[Spot(h, n, k, c)] = e + 1
        BY <1>2, <1>4, <3>2
      <4>2. e + 1 \notin {0, j}
        OBVIOUS
      <4> QED
        BY <4>1, <4>2
    <3>3. CASE Spot(h, n, k, c) # slot
      <4>1. jx[Spot(h, n, k, c)] = ix[Spot(h, n, k, c)]
        BY <1>1, <3>3 DEF jx
      <4> QED
        BY <3>1, <4>1
    <3> QED
      BY <3>2, <3>3
  <2>4. jx[Spot(h, n, k, d)] = j
    <3>1. Spot(h, n, k, d) # slot
      BY <1>2, <2>1
    <3> QED
      BY <1>1, <2>1, <3>1 DEF jx
  <2> QED
    BY <1>4, <2>3, <2>4 DEF Leads, k
<1>8. Leads(h, jx, s[e + 1].key, e + 1)
  <2> DEFINE k == s[e + 1].key
  <2>1. PICK d \in 0 .. n - 1 : /\ slot = Spot(h, n, k, d)
                                /\ \A c \in 0 .. d - 1 : ix[Spot(h, n, k, c)] # 0
    BY DEF Waits
  <2> HIDE DEF k
  <2>2. ASSUME NEW c \in 0 .. d - 1 PROVE jx[Spot(h, n, k, c)] \notin {0, e + 1}
    <3>1. ix[Spot(h, n, k, c)] # 0 /\ Spot(h, n, k, c) # slot
      BY <1>2, <2>1
    <3>2. jx[Spot(h, n, k, c)] = ix[Spot(h, n, k, c)]
      BY <1>1, <3>1 DEF jx
    <3>3. ix[Spot(h, n, k, c)] # e + 1
      <4>1. Spot(h, n, k, c) \in 1 .. n
        <5>1. k \in Key /\ c \in Nat
          BY <1>1 DEF k
        <5> HIDE DEF n
        <5> QED
          BY <1>1, <5>1, Probing
      <4> QED
        BY <1>5, <4>1
    <3> QED
      BY <3>1, <3>2, <3>3
  <2>3. jx[Spot(h, n, k, d)] = e + 1
    BY <1>2, <1>4, <2>1
  <2> QED
    BY <1>4, <2>2, <2>3 DEF Leads, k
<1>9. \A j \in 1 .. e + 1 : Leads(h, jx, s[j].key, j)
  BY <1>7, <1>8
<1> QED
  BY <1>1, <1>4, <1>6, <1>9 DEF Sound, jx, PutAt

(* An index does not depend on the values of the entries.                      *)
LEMMA SameKeys ==
  ASSUME NEW h, NEW ix, NEW s, NEW t, NEW e \in Nat, Sound(h, ix, s, e),
         \A j \in 1 .. e : t[j].key = s[j].key
  PROVE  Sound(h, ix, t, e)
BY DEF Sound

(* One entry more in the index.                                                *)
NextIndex(ix, s, e) ==
  [ix EXCEPT ![findSlot([index |-> ix, entries |-> s], s[e].key)] = e]

(* f is what the loop of rehash has made of the index after each entry.        *)
Builds(f, s, n, e) ==
  f = [i \in 0 .. e |-> IF i = 0 THEN EmptyIndex(n) ELSE NextIndex(f[i - 1], s, i)]

LEMMA BuildingUp ==
  ASSUME NEW s, NEW n, NEW last \in Nat
  PROVE  \E f : Builds(f, s, n, last)
<1> DEFINE G == {e \in Nat : \E f : Builds(f, s, n, e)}
<1>1. 0 \in G
  <2> DEFINE f == [i \in 0 .. 0 |-> EmptyIndex(n)]
  <2>1. Builds(f, s, n, 0)
    BY DEF Builds
  <2> QED
    BY <2>1
<1>2. ASSUME NEW e \in 1 .. last, e - 1 \in G PROVE e \in G
  <2>1. PICK g : Builds(g, s, n, e - 1)
    BY <1>2
  <2> DEFINE f == [i \in 0 .. e |-> IF i = 0 THEN EmptyIndex(n) ELSE NextIndex(g[i - 1], s, i)]
  <2>2. \A i \in 0 .. e - 1 : f[i] = g[i]
    <3>1. \A i \in 0 .. e - 1 : g[i] = IF i = 0 THEN EmptyIndex(n) ELSE NextIndex(g[i - 1], s, i)
      BY <2>1 DEF Builds
    <3>2. \A i \in 0 .. e - 1 : i \in 0 .. e
      OBVIOUS
    <3> QED
      BY <3>1, <3>2
  <2>3. \A i \in 0 .. e : i # 0 => f[i - 1] = g[i - 1]
    <3>1. \A i \in 0 .. e : i # 0 => i - 1 \in 0 .. e - 1
      OBVIOUS
    <3> QED
      BY <2>2, <3>1
  <2>4. Builds(f, s, n, e)
    BY <2>3 DEF Builds
  <2> QED
    BY <2>4
<1>3. last \in G
  <2> HIDE DEF G
  <2>1. \A e \in 0 .. last : e \in G
    BY <1>1, <1>2, UpTheSet
  <2> QED
    BY <2>1
<1> QED
  BY <1>3

(* rehash and csMapReindexInPlace: an index with room for all entries is sound.*)
LEMMA Indexing ==
  ASSUME hash \in [Key -> Nat], NEW s \in Seq(Entries), Distinct(s),
         NEW n \in Nat, Len(s) < n
  PROVE  Sound(hash, Indexed(s, n), s, Len(s)) /\ Len(Indexed(s, n)) = n
<1> DEFINE Chosen == CHOOSE f : Builds(f, s, n, Len(s))
<1>1. Len(s) \in Nat
  OBVIOUS
<1>2. Builds(Chosen, s, n, Len(s))
  BY <1>1, BuildingUp
<1>3. Indexed(s, n) = Chosen[Len(s)]
  BY DEF Indexed, Builds, NextIndex
<1> HIDE DEF Chosen
<1> DEFINE Holds(e) == Sound(hash, Chosen[e], s, e) /\ Len(Chosen[e]) = n
           G == {e \in 0 .. Len(s) : Holds(e)}
<1>4. Holds(0)
  <2>1. Chosen[0] = EmptyIndex(n)
    BY <1>1, <1>2 DEF Builds
  <2>2. EmptyIndex(n) \in Seq(0 .. 0) /\ Len(EmptyIndex(n)) = n
    BY DEF EmptyIndex
  <2>3. \A p \in 1 .. n : EmptyIndex(n)[p] = 0
    BY DEF EmptyIndex
  <2>4. n > 0
    BY <1>1
  <2> QED
    BY <2>1, <2>2, <2>3, <2>4 DEF Sound
<1>5. ASSUME NEW e \in 1 .. Len(s), Holds(e - 1) PROVE Holds(e)
  <2> DEFINE m == [index |-> Chosen[e - 1], entries |-> s]
             c == e - 1
             slot == findSlot(m, s[e].key)
  <2>1. Chosen[e] = [m.index EXCEPT ![slot] = e]
    <3>1. e \in 0 .. Len(s) /\ e # 0
      BY <1>1
    <3>2. Chosen[e] = NextIndex(Chosen[e - 1], s, e)
      BY <1>2, <3>1 DEF Builds
    <3> QED
      BY <3>2 DEF NextIndex
  <2>2. c \in Nat /\ c \in 0 .. Len(s) /\ c < n /\ e = c + 1
    BY <1>1
  <2>3. s[e].key \in Key
    <3>1. s[e] \in Entries
      BY ElementOfSeq
    <3> QED
      BY <3>1 DEF Entries
  <2>4. \A j \in 1 .. c : s[j].key # s[e].key
    BY <1>1 DEF Distinct
  <2>5. m.index = Chosen[c] /\ m.entries = s
    OBVIOUS
  <2>6. Sound(hash, m.index, s, c) /\ Len(m.index) = n
    BY <1>5, <2>5
  <2> HIDE DEF m, c
  <2>7. Waits(hash, m.index, s[e].key, slot)
    BY <2>2, <2>3, <2>4, <2>5, <2>6, FindsFree
  <2> HIDE DEF slot
  <2>8. /\ Sound(hash, PutAt(m.index, slot, c + 1), s, c + 1)
        /\ Len(PutAt(m.index, slot, c + 1)) = Len(m.index)
    <3>1. s[c + 1].key \in Key /\ Waits(hash, m.index, s[c + 1].key, slot)
      BY <2>2, <2>3, <2>7
    <3>2. c \in Nat /\ Sound(hash, m.index, s, c)
      BY <2>2, <2>6
    <3> QED
      BY <3>1, <3>2, Entering
  <2> QED
    BY <2>1, <2>2, <2>6, <2>8 DEF PutAt
<1>6. Holds(Len(s))
  <2> HIDE DEF Holds
  <2>1. 0 \in G /\ \A e \in 1 .. Len(s) : e - 1 \in G => e \in G
    BY <1>1, <1>4, <1>5
  <2>2. Len(s) \in G
    <3> HIDE DEF G
    <3>1. \A e \in 0 .. Len(s) : e \in G
      BY <1>1, <2>1, UpTheSet
    <3> QED
      BY <1>1, <3>1
  <2> QED
    BY <2>2
<1> QED
  BY <1>3, <1>6

------------------------------------------------------------------------------
(* Taking entries out.                                                         *)

(* g is what the loop that compacts the entries has kept after each of them.   *)
Gathers(g, s, S, e) ==
  g = [i \in 0 .. e |->
         IF i = 0 THEN <<>>
         ELSE IF s[i].key \in S THEN g[i - 1] ELSE Append(g[i - 1], s[i])]

LEMMA GatheringUp ==
  ASSUME NEW s, NEW S, NEW last \in Nat
  PROVE  \E g : Gathers(g, s, S, last)
<1> DEFINE G == {e \in Nat : \E g : Gathers(g, s, S, e)}
           Then(b, i) == IF s[i].key \in S THEN b ELSE Append(b, s[i])
<1>1. 0 \in G
  <2> DEFINE f == [i \in 0 .. 0 |-> <<>>]
  <2>1. Gathers(f, s, S, 0)
    BY DEF Gathers
  <2> QED
    BY <2>1
<1>2. ASSUME NEW e \in 1 .. last, e - 1 \in G PROVE e \in G
  <2>1. PICK g : Gathers(g, s, S, e - 1)
    BY <1>2
  <2> DEFINE f == [i \in 0 .. e |-> IF i = 0 THEN <<>> ELSE Then(g[i - 1], i)]
  <2>2. \A i \in 0 .. e - 1 : f[i] = g[i]
    <3>1. \A i \in 0 .. e - 1 : g[i] = IF i = 0 THEN <<>> ELSE Then(g[i - 1], i)
      BY <2>1 DEF Gathers
    <3>2. \A i \in 0 .. e - 1 : i \in 0 .. e
      OBVIOUS
    <3> HIDE DEF Then
    <3> QED
      BY <3>1, <3>2
  <2>3. \A i \in 0 .. e : i # 0 => f[i - 1] = g[i - 1]
    <3>1. \A i \in 0 .. e : i # 0 => i - 1 \in 0 .. e - 1
      OBVIOUS
    <3> HIDE DEF f
    <3> QED
      BY <2>2, <3>1
  <2>4. f = [i \in 0 .. e |-> IF i = 0 THEN <<>> ELSE Then(f[i - 1], i)]
    <3> HIDE DEF Then
    <3> QED
      BY <2>3
  <2>5. Gathers(f, s, S, e)
    <3> HIDE DEF f
    <3> QED
      BY <2>4 DEF Gathers
  <2> QED
    BY <2>5
<1>3. last \in G
  <2> HIDE DEF G
  <2>1. \A e \in 0 .. last : e \in G
    BY <1>1, <1>2, UpTheSet
  <2> QED
    BY <2>1
<1> QED
  BY <1>3

(* The loop, step by step.                                                     *)
LEMMA Gathering ==
  ASSUME NEW s, Len(s) \in Nat, NEW S
  PROVE  \E g : /\ g[0] = <<>>
                /\ \A i \in 1 .. Len(s) :
                     g[i] = IF s[i].key \in S THEN g[i - 1] ELSE Append(g[i - 1], s[i])
                /\ Without(s, S) = g[Len(s)]
<1> DEFINE g == CHOOSE f : Gathers(f, s, S, Len(s))
<1>1. Gathers(g, s, S, Len(s))
  BY GatheringUp
<1>2. Without(s, S) = g[Len(s)]
  BY DEF Without, Gathers
<1> HIDE DEF g
<1>3. g[0] = <<>>
  BY <1>1 DEF Gathers
<1>4. ASSUME NEW i \in 1 .. Len(s)
      PROVE  g[i] = IF s[i].key \in S THEN g[i - 1] ELSE Append(g[i - 1], s[i])
  <2>1. i \in 0 .. Len(s) /\ i # 0
    OBVIOUS
  <2> QED
    BY <1>1, <2>1 DEF Gathers
<1> QED
  BY <1>2, <1>3, <1>4

(* The keys of one entry more.                                                 *)
LEMMA AppendKeys ==
  ASSUME NEW s \in Seq(Entries), NEW x \in Entries
  PROVE  /\ Append(s, x) \in Seq(Entries)
         /\ KeysOf(Append(s, x)) = KeysOf(s) \cup {x.key}
         /\ Distinct(s) /\ x.key \notin KeysOf(s) => Distinct(Append(s, x))
<1> DEFINE t == Append(s, x)
           n == Len(s)
<1>1. /\ t \in Seq(Entries) /\ n \in Nat /\ Len(t) = n + 1
      /\ \A i \in 1 .. n : t[i] = s[i]
      /\ t[n + 1] = x
  BY AppendProperties
<1>2. DOMAIN s = 1 .. n /\ DOMAIN t = 1 .. n + 1
  BY <1>1, LenProperties
<1> HIDE DEF t, n
<1>3. KeysOf(t) = KeysOf(s) \cup {x.key}
  <2>1. \A i \in 1 .. n + 1 : i = n + 1 \/ i \in 1 .. n
    BY <1>1
  <2>2. \A i \in 1 .. n : i \in 1 .. n + 1
    BY <1>1
  <2>3. n + 1 \in 1 .. n + 1
    BY <1>1
  <2> QED
    BY <1>1, <1>2, <2>1, <2>2, <2>3 DEF KeysOf
<1>4. ASSUME Distinct(s), x.key \notin KeysOf(s) PROVE Distinct(t)
  <2>1. \A i \in 1 .. n : s[i].key # x.key
    BY <1>2, <1>4 DEF KeysOf
  <2>2. \A i, j \in 1 .. n : s[i].key = s[j].key => i = j
    BY <1>4 DEF Distinct, n
  <2> QED
    BY <1>1, <2>1, <2>2 DEF Distinct
<1> QED
  BY <1>1, <1>3, <1>4 DEF t

(* What is left when the entries with keys in S are taken out.                 *)
LEMMA Leaving ==
  ASSUME NEW s \in Seq(Entries), NEW S
  PROVE  /\ Without(s, S) \in Seq(Entries)
         /\ Len(Without(s, S)) <= Len(s)
         /\ KeysOf(Without(s, S)) = KeysOf(s) \ S
         /\ Distinct(s) => Distinct(Without(s, S))
         /\ (\A i \in 1 .. Len(s) : s[i].key \notin S) => Without(s, S) = s
<1> DEFINE n == Len(s)
           Keys(i) == {s[j].key : j \in 1 .. i}
<1>1. n \in Nat /\ DOMAIN s = 1 .. n /\ \A i \in 1 .. n : s[i] \in Entries
  BY LenProperties, ElementOfSeq
<1>2. PICK g : /\ g[0] = <<>>
               /\ \A i \in 1 .. n :
                    g[i] = IF s[i].key \in S THEN g[i - 1] ELSE Append(g[i - 1], s[i])
               /\ Without(s, S) = g[n]
  BY <1>1, Gathering
<1> DEFINE All(i) == \A j \in 1 .. i : s[j].key \notin S
           Same(i) == Len(g[i]) = i /\ \A j \in 1 .. i : g[i][j] = s[j]
           Holds(i) == /\ g[i] \in Seq(Entries) /\ Len(g[i]) <= i
                       /\ KeysOf(g[i]) = Keys(i) \ S
                       /\ Distinct(s) => Distinct(g[i])
                       /\ All(i) => Same(i)
           G == {i \in 0 .. n : Holds(i)}
<1>3. Holds(0)
  <2>1. KeysOf(<<>>) = {} /\ Keys(0) = {}
    BY DEF KeysOf
  <2>2. Distinct(<<>>) /\ <<>> \in Seq(Entries) /\ Len(<<>>) = 0
    BY DEF Distinct
  <2> QED
    BY <1>2, <2>1, <2>2
<1>4. ASSUME NEW i \in 1 .. n, Holds(i - 1) PROVE Holds(i)
  <2> DEFINE a == g[i - 1]
             b == g[i]
             x == s[i]
  <2>1. b = IF x.key \in S THEN a ELSE Append(a, x)
    BY <1>2
  <2>2. /\ a \in Seq(Entries) /\ Len(a) <= i - 1 /\ KeysOf(a) = Keys(i - 1) \ S
        /\ Distinct(s) => Distinct(a)
        /\ All(i - 1) => Same(i - 1)
    BY <1>4
  <2>3. x \in Entries /\ Len(a) \in Nat
    BY <1>1, <2>2
  <2>4. Keys(i) = Keys(i - 1) \cup {x.key}
    <3>1. \A j : j \in 1 .. i <=> j \in 1 .. i - 1 \/ j = i
      BY <1>1
    <3> QED
      BY <3>1
  <2>5. Distinct(s) => x.key \notin Keys(i - 1)
    <3>1. \A j \in 1 .. i - 1 : j \in 1 .. n /\ j # i
      BY <1>1
    <3> QED
      BY <3>1 DEF Distinct
  <2> HIDE DEF Keys
  <2>6. CASE x.key \in S
    <3>1. ~All(i)
      BY <1>1, <2>6
    <3>2. Len(a) <= i
      BY <1>1, <2>2, <2>3
    <3> HIDE DEF All, Same, a, b
    <3>3. /\ b \in Seq(Entries) /\ Len(b) <= i
          /\ KeysOf(b) = Keys(i) \ S
          /\ Distinct(s) => Distinct(b)
          /\ All(i) => Same(i)
      BY <2>1, <2>2, <2>4, <2>6, <3>1, <3>2
    <3> QED
      BY <3>3 DEF b
  <2>7. CASE x.key \notin S
    <3>1. b = Append(a, x)
      BY <2>1, <2>7
    <3>2. b \in Seq(Entries) /\ KeysOf(b) = KeysOf(a) \cup {x.key}
          /\ (Distinct(a) /\ x.key \notin KeysOf(a) => Distinct(b))
      <4> HIDE DEF a, b, x
      <4> QED
        BY <2>2, <2>3, <3>1, AppendKeys
    <3>3. /\ Len(b) = Len(a) + 1 /\ b[Len(a) + 1] = x
          /\ \A j \in 1 .. Len(a) : b[j] = a[j]
      <4> HIDE DEF a, b, x
      <4> QED
        BY <2>2, <2>3, <3>1, AppendProperties
    <3>4. All(i) => Same(i)
      <4> SUFFICES ASSUME All(i) PROVE Same(i)
        OBVIOUS
      <4>1. All(i - 1)
        BY <1>1
      <4>2. Len(a) = i - 1 /\ \A j \in 1 .. i - 1 : a[j] = s[j]
        BY <2>2, <4>1
      <4> HIDE DEF a, b
      <4>3. Len(b) = i /\ \A j \in 1 .. i : b[j] = s[j]
        BY <1>1, <3>3, <4>2
      <4> QED
        BY <4>3 DEF b
    <3>5. Len(b) <= i
      <4> HIDE DEF a, b
      <4> QED
        BY <1>1, <2>2, <2>3, <3>3
    <3>6. KeysOf(b) = Keys(i) \ S /\ (Distinct(s) => Distinct(b))
      <4> HIDE DEF a, b, x
      <4> QED
        BY <2>2, <2>4, <2>5, <2>7, <3>2
    <3> HIDE DEF All, Same
    <3> QED
      BY <3>2, <3>4, <3>5, <3>6
  <2> QED
    BY <2>6, <2>7
<1>5. Holds(n)
  <2> HIDE DEF Holds
  <2>1. 0 \in G /\ \A i \in 1 .. n : i - 1 \in G => i \in G
    BY <1>1, <1>3, <1>4
  <2>2. n \in G
    <3> HIDE DEF G, n
    <3>1. \A i \in 0 .. n : i \in G
      BY <1>1, <2>1, UpTheSet
    <3> QED
      BY <1>1, <3>1
  <2> QED
    BY <2>2
<1>6. Keys(n) = KeysOf(s)
  BY <1>1 DEF KeysOf
<1>7. Same(n) => Without(s, S) = s
  <2> SUFFICES ASSUME Same(n) PROVE g[n] = s
    BY <1>2
  <2>1. g[n] \in Seq(Entries) /\ Len(g[n]) = Len(s) /\ \A j \in 1 .. Len(g[n]) : g[n][j] = s[j]
    BY <1>5
  <2> QED
    BY <2>1, SeqEqual
<1> QED
  BY <1>2, <1>5, <1>6, <1>7

(* Taking all out.                                                             *)
(* Taking one out, which is what a deletion does.                              *)
LEMMA Removing ==
  ASSUME NEW s \in Seq(Entries), NEW p \in 1 .. Len(s)
  PROVE  /\ RemoveAt(s, p) \in Seq(Entries) /\ Len(RemoveAt(s, p)) = Len(s) - 1
         /\ \A j \in 1 .. Len(s) - 1 :
              RemoveAt(s, p)[j] = IF j < p THEN s[j] ELSE s[j + 1]
<1> DEFINE n == Len(s)
           a == SubSeq(s, 1, p - 1)
           b == SubSeq(s, p + 1, n)
<1>1. n \in Nat /\ p \in 1 .. n /\ \A j \in 1 .. n : s[j] \in Entries
  BY LenProperties, ElementOfSeq
<1> HIDE DEF n
<1>2. /\ a \in Seq(Entries) /\ Len(a) = p - 1
      /\ \A j \in 1 .. p - 1 : a[j] = s[j]
  <2>1. /\ 1 \in Int /\ p - 1 \in Int /\ \A j \in 1 .. p - 1 : s[j] \in Entries
        /\ (IF 1 <= p - 1 THEN p - 1 - 1 + 1 ELSE 0) = p - 1 /\ p - 1 - 1 + 1 = p - 1
        /\ \A j \in 1 .. p - 1 : 1 + j - 1 = j
    BY <1>1
  <2>2. /\ a \in Seq(Entries)
        /\ Len(a) = (IF 1 <= p - 1 THEN p - 1 - 1 + 1 ELSE 0)
        /\ \A j \in 1 .. p - 1 - 1 + 1 : a[j] = s[1 + j - 1]
    BY <2>1, SubSeqProperties
  <2> HIDE DEF a
  <2> QED
    BY <2>1, <2>2
<1>3. /\ b \in Seq(Entries) /\ Len(b) = n - p
      /\ \A j \in 1 .. n - p : b[j] = s[p + j]
  <2>1. /\ p + 1 \in Int /\ n \in Int /\ \A j \in p + 1 .. n : s[j] \in Entries
        /\ (IF p + 1 <= n THEN n - (p + 1) + 1 ELSE 0) = n - p /\ n - (p + 1) + 1 = n - p
        /\ \A j \in 1 .. n - p : p + 1 + j - 1 = p + j
    BY <1>1
  <2>2. /\ b \in Seq(Entries)
        /\ Len(b) = (IF p + 1 <= n THEN n - (p + 1) + 1 ELSE 0)
        /\ \A j \in 1 .. n - (p + 1) + 1 : b[j] = s[p + 1 + j - 1]
    BY <2>1, SubSeqProperties
  <2> HIDE DEF b
  <2> QED
    BY <2>1, <2>2
<1>4. RemoveAt(s, p) = a \o b
  BY DEF RemoveAt, n
<1> HIDE DEF a, b
<1>5. /\ a \o b \in Seq(Entries) /\ Len(a \o b) = Len(a) + Len(b)
      /\ \A i \in 1 .. Len(a) + Len(b) :
           (a \o b)[i] = IF i <= Len(a) THEN a[i] ELSE b[i - Len(a)]
  BY <1>2, <1>3, ConcatProperties
<1>6. ASSUME NEW j \in 1 .. n - 1
      PROVE  (a \o b)[j] = IF j < p THEN s[j] ELSE s[j + 1]
  <2>1. (a \o b)[j] = IF j <= p - 1 THEN a[j] ELSE b[j - (p - 1)]
    BY <1>1, <1>2, <1>3, <1>5
  <2>2. CASE j < p
    BY <1>1, <1>2, <2>1, <2>2
  <2>3. CASE ~(j < p)
    <3>1. j - (p - 1) \in 1 .. n - p /\ p + (j - (p - 1)) = j + 1
      BY <1>1, <2>3
    <3> QED
      BY <1>1, <1>3, <2>1, <2>3, <3>1
  <2> QED
    BY <2>2, <2>3
<1> QED
  BY <1>1, <1>2, <1>3, <1>4, <1>5, <1>6 DEF n

LEMMA LeavingOne ==
  ASSUME NEW s \in Seq(Entries), Distinct(s), NEW p \in 1 .. Len(s)
  PROVE  Without(s, {s[p].key}) = RemoveAt(s, p)
<1> DEFINE n == Len(s)
           S == {s[p].key}
<1>1. n \in Nat /\ p \in 1 .. n /\ \A j \in 1 .. n : s[j] \in Entries
  BY LenProperties, ElementOfSeq
<1>2. PICK g : /\ g[0] = <<>>
               /\ \A i \in 1 .. n :
                    g[i] = IF s[i].key \in S THEN g[i - 1] ELSE Append(g[i - 1], s[i])
               /\ Without(s, S) = g[n]
  BY <1>1, Gathering
<1>3. \A i \in 1 .. n : s[i].key \in S <=> i = p
  BY <1>1 DEF Distinct
<1> DEFINE Long(i) == IF i < p THEN i ELSE i - 1
           Holds(i) == /\ g[i] \in Seq(Entries) /\ Len(g[i]) = Long(i)
                       /\ \A j \in 1 .. Long(i) : g[i][j] = IF j < p THEN s[j] ELSE s[j + 1]
           G == {i \in 0 .. n : Holds(i)}
<1>4. Holds(0)
  <2>1. <<>> \in Seq(Entries) /\ Len(<<>>) = 0 /\ Long(0) = 0
    BY <1>1
  <2> QED
    BY <1>2, <2>1
<1>5. ASSUME NEW i \in 1 .. n, Holds(i - 1) PROVE Holds(i)
  <2> DEFINE a == g[i - 1]
             b == g[i]
  <2>1. b = IF i = p THEN a ELSE Append(a, s[i])
    BY <1>2, <1>3
  <2>2. /\ a \in Seq(Entries) /\ Len(a) = Long(i - 1)
        /\ \A j \in 1 .. Long(i - 1) : a[j] = IF j < p THEN s[j] ELSE s[j + 1]
    BY <1>5
  <2>3. s[i] \in Entries /\ i - 1 \in Nat
    BY <1>1
  <2> HIDE DEF a, b, n
  <2>4. CASE i = p
    <3>1. Long(i) = Long(i - 1)
      BY <1>1, <2>3, <2>4
    <3>2. b = a
      BY <2>1, <2>4
    <3> QED
      BY <2>2, <3>1, <3>2 DEF b
  <2>5. CASE i # p
    <3>1. Long(i) = Long(i - 1) + 1 /\ Long(i - 1) \in Nat
      BY <1>1, <2>3, <2>5
    <3>2. b = Append(a, s[i])
      BY <2>1, <2>5
    <3>3. /\ b \in Seq(Entries) /\ Len(b) = Len(a) + 1 /\ b[Len(a) + 1] = s[i]
          /\ \A j \in 1 .. Len(a) : b[j] = a[j]
      BY <2>2, <2>3, <3>2, AppendProperties
    <3>4. s[i] = IF Long(i) < p THEN s[Long(i)] ELSE s[Long(i) + 1]
      BY <1>1, <2>3, <2>5
    <3> HIDE DEF Long
    <3>5. \A j \in 1 .. Long(i) : b[j] = IF j < p THEN s[j] ELSE s[j + 1]
      <4> TAKE j \in 1 .. Long(i)
      <4>1. j = Long(i) \/ j \in 1 .. Long(i - 1)
        BY <3>1
      <4> QED
        BY <2>2, <3>1, <3>3, <3>4, <4>1
    <3> QED
      BY <2>2, <3>1, <3>3, <3>5 DEF b
  <2> QED
    BY <2>4, <2>5
<1>6. Holds(n)
  <2> HIDE DEF Holds
  <2>1. 0 \in G /\ \A i \in 1 .. n : i - 1 \in G => i \in G
    BY <1>1, <1>4, <1>5
  <2>2. n \in G
    <3> HIDE DEF G, n
    <3>1. \A i \in 0 .. n : i \in G
      BY <1>1, <2>1, UpTheSet
    <3> QED
      BY <1>1, <3>1
  <2> QED
    BY <2>2
<1>7. Long(n) = n - 1
  BY <1>1
<1>8. /\ RemoveAt(s, p) \in Seq(Entries) /\ Len(RemoveAt(s, p)) = n - 1
      /\ \A j \in 1 .. n - 1 : RemoveAt(s, p)[j] = IF j < p THEN s[j] ELSE s[j + 1]
  BY Removing
<1>9. g[n] = RemoveAt(s, p)
  <2>1. /\ g[n] \in Seq(Entries) /\ Len(g[n]) = Len(RemoveAt(s, p))
        /\ \A j \in 1 .. Len(g[n]) : g[n][j] = RemoveAt(s, p)[j]
    <3> HIDE DEF n, Long
    <3> QED
      BY <1>6, <1>7, <1>8
  <2> QED
    BY <1>8, <2>1, SeqEqual
<1> QED
  BY <1>2, <1>9

------------------------------------------------------------------------------
(* Looking up and adding.                                                      *)

(* A heap of hashes: what every lemma below needs of them.                     *)
LEMMA HashTypes ==
  ASSUME Still
  PROVE  hash \in [Key -> Nat] /\ held \subseteq Key
<1>1. Hashes \subseteq Nat
  BY OrderedMapAssumption
<1> QED
  BY <1>1 DEF Still

LEMMA ShapeFields ==
  ASSUME NEW m, Shape(m)
  PROVE  /\ m.entries \in Seq(Entries) /\ Len(m.entries) \in Nat
         /\ m.index \in Seq(0 .. m.capacity) /\ Len(m.index) \in Nat /\ m.capacity \in Nat
         /\ DOMAIN m.entries = 1 .. Len(m.entries) /\ DOMAIN m.index = 1 .. Len(m.index)
         /\ m.index # <<>> => Len(m.index) > 0 /\ Len(m.entries) < Len(m.index)
         /\ m.index = <<>> => m.entries = <<>>
         /\ (IndexCapacity(m) = 0 <=> m.index = <<>>)
         /\ \A n \in 1 .. Len(m.entries) : m.entries[n].key \in Key /\ m.entries[n].value \in Value
<1>1. /\ m.entries \in Seq(Entries) /\ m.capacity \in Nat /\ m.index \in Seq(0 .. m.capacity)
      /\ 4 * Len(m.entries) <= 3 * Len(m.index)
  BY DEF Shape, Maps, Roomy
<1>2. /\ Len(m.entries) \in Nat /\ Len(m.index) \in Nat
      /\ DOMAIN m.entries = 1 .. Len(m.entries) /\ DOMAIN m.index = 1 .. Len(m.index)
  BY <1>1, LenProperties
<1>3. m.index # <<>> => Len(m.index) > 0
  <2>1. m.index # <<>> => Len(m.index) \in Nat \ {0}
    BY <1>1, EmptySeq
  <2> QED
    BY <2>1
<1>4. Len(<<>>) = 0
  OBVIOUS
<1>5. m.index = <<>> => Len(m.entries) = 0
  BY <1>1, <1>2, <1>4
<1>6. m.index = <<>> => m.entries = <<>>
  <2>1. m.entries # <<>> => Len(m.entries) \in Nat \ {0}
    BY <1>1, EmptySeq
  <2> QED
    BY <1>5, <2>1
<1>7. \A n \in 1 .. Len(m.entries) : m.entries[n].key \in Key /\ m.entries[n].value \in Value
  <2> TAKE n \in 1 .. Len(m.entries)
  <2>1. m.entries[n] \in Entries
    BY <1>1, ElementOfSeq
  <2> QED
    BY <2>1 DEF Entries
<1>8. IndexCapacity(m) = 0 <=> m.index = <<>>
  BY <1>3, <1>4 DEF IndexCapacity
<1>9. m.index # <<>> => Len(m.entries) < Len(m.index)
  BY <1>1, <1>2, <1>3
<1> QED
  BY <1>1, <1>2, <1>3, <1>6, <1>7, <1>8, <1>9

(* A search in a whole map.                                                    *)
LEMMA Searching ==
  ASSUME hash \in [Key -> Nat], NEW m, Shape(m), Whole(hash, m), m.index # <<>>, NEW k \in Key
  PROVE  /\ findSlot(m, k) \in 1 .. Len(m.index)
         /\ k \in KeysOf(m.entries) =>
              /\ m.index[findSlot(m, k)] \in 1 .. Len(m.entries)
              /\ m.entries[m.index[findSlot(m, k)]].key = k
         /\ k \notin KeysOf(m.entries) => Waits(hash, m.index, k, findSlot(m, k))
<1> DEFINE e == Len(m.entries)
<1>1. /\ m.entries \in Seq(Entries) /\ e \in Nat /\ e < Len(m.index)
      /\ DOMAIN m.entries = 1 .. e /\ Distinct(m.entries)
  BY ShapeFields DEF Shape
<1>2. Sound(hash, m.index, m.entries, e)
  BY DEF Whole
<1>3. e \in 0 .. Len(m.entries)
  BY <1>1
<1>4. CASE k \in KeysOf(m.entries)
  <2>1. PICK j \in 1 .. e : m.entries[j].key = k
    BY <1>1, <1>4 DEF KeysOf
  <2>2. LET slot == findSlot(m, m.entries[j].key)
        IN slot \in 1 .. Len(m.index) /\ m.index[slot] = j
    <3> HIDE DEF e
    <3> QED
      BY <1>1, <1>2, <1>3, FindsThere
  <2>3. findSlot(m, k) \in 1 .. Len(m.index) /\ m.index[findSlot(m, k)] = j
    BY <2>1, <2>2
  <2> QED
    BY <1>4, <2>1, <2>3
<1>5. CASE k \notin KeysOf(m.entries)
  <2>1. \A j \in 1 .. e : m.entries[j].key # k
    BY <1>1, <1>5 DEF KeysOf
  <2>2. Waits(hash, m.index, k, findSlot(m, k))
    <3> HIDE DEF e
    <3> QED
      BY <1>1, <1>2, <1>3, <2>1, FindsFree
  <2> QED
    BY <1>5, <2>2 DEF Waits
<1> QED
  BY <1>4, <1>5

(* csMapGet finds the entry of a key that is in, and no other.                 *)
LEMMA Getting ==
  ASSUME hash \in [Key -> Nat], NEW m, Shape(m), Whole(hash, m), NEW k \in Key
  PROVE  /\ \A n \in 1 .. Len(m.entries) : m.entries[n].key = k => EntryOf(m, k) = n
         /\ k \notin KeysOf(m.entries) => EntryOf(m, k) = 0
         /\ k \in KeysOf(m.entries) =>
              EntryOf(m, k) \in 1 .. Len(m.entries) /\ m.entries[EntryOf(m, k)].key = k
<1>1. /\ DOMAIN m.entries = 1 .. Len(m.entries) /\ Distinct(m.entries)
      /\ m.index = <<>> => m.entries = <<>> /\ Len(m.entries) = 0
      /\ (IndexCapacity(m) = 0 <=> m.index = <<>>)
  BY ShapeFields DEF Shape
<1>2. \A n \in 1 .. Len(m.entries) : m.entries[n].key \in KeysOf(m.entries)
  BY <1>1 DEF KeysOf
<1>3. CASE m.index = <<>>
  <2>1. EntryOf(m, k) = 0 /\ Len(m.entries) = 0
    BY <1>1, <1>3 DEF EntryOf
  <2>2. KeysOf(m.entries) = {}
    BY <1>1, <2>1 DEF KeysOf
  <2> QED
    BY <2>1, <2>2
<1>4. CASE m.index # <<>>
  <2>1. EntryOf(m, k) = m.index[findSlot(m, k)]
    BY <1>1, <1>4 DEF EntryOf
  <2>2. k \notin KeysOf(m.entries) => EntryOf(m, k) = 0
    BY <1>4, <2>1, Searching DEF Waits
  <2>3. k \in KeysOf(m.entries) =>
          EntryOf(m, k) \in 1 .. Len(m.entries) /\ m.entries[EntryOf(m, k)].key = k
    BY <1>4, <2>1, Searching
  <2> QED
    BY <1>1, <1>2, <2>2, <2>3 DEF Distinct
<1> QED
  BY <1>3, <1>4

(* A map with another index over its entries.                                  *)
Reindexed(m, n) == [m EXCEPT !.index = Indexed(m.entries, n)]

LEMMA Rebuilding ==
  ASSUME hash \in [Key -> Nat], NEW m, Shape(m), NEW n \in Nat \ {0}, Roomy(n, Len(m.entries))
  PROVE  /\ Shape(Reindexed(m, n)) /\ Whole(hash, Reindexed(m, n))
         /\ Reindexed(m, n).entries = m.entries
         /\ Reindexed(m, n).capacity = m.capacity
         /\ Reindexed(m, n).index # <<>> /\ Len(Reindexed(m, n).index) = n
<1> DEFINE ix == Indexed(m.entries, n)
           r == Reindexed(m, n)
<1>1. /\ m.entries \in Seq(Entries) /\ Len(m.entries) \in Nat /\ m.capacity \in Nat
      /\ Distinct(m.entries) /\ Len(m.entries) <= m.capacity /\ m \in Maps
  BY ShapeFields DEF Shape
<1>2. Len(m.entries) < n
  BY <1>1 DEF Roomy
<1>3. Sound(hash, ix, m.entries, Len(m.entries)) /\ Len(ix) = n
  BY <1>1, <1>2, Indexing
<1>4. ix \in Seq(0 .. m.capacity) /\ ix \in Seq(Nat)
  <2>1. ix \in Seq(0 .. Len(m.entries))
    BY <1>3 DEF Sound
  <2>2. Len(m.entries) <= m.capacity /\ 0 .. m.capacity \subseteq Nat
    BY <1>1
  <2>3. ix \in Seq(0 .. m.capacity)
    BY <1>1, <2>1, <2>2, Widened
  <2> QED
    BY <2>2, <2>3, SeqMonotonic
<1> HIDE DEF ix
<1>5. /\ r \in Maps /\ r.entries = m.entries /\ r.capacity = m.capacity
      /\ r.size = m.size /\ r.index = ix
  BY <1>1, <1>4 DEF Reindexed, Maps, ix
<1> HIDE DEF r
<1>6. r.index # <<>>
  <2>1. Len(<<>>) = 0
    OBVIOUS
  <2> QED
    BY <1>3, <1>5, <2>1
<1>7. Shape(r)
  BY <1>1, <1>3, <1>4, <1>5 DEF Shape
<1>8. Whole(hash, r)
  BY <1>3, <1>5 DEF Whole
<1> QED
  BY <1>3, <1>5, <1>6, <1>7, <1>8 DEF r

Entry(k, v) == [key |-> k, value |-> v]

(* One entry more, at the place that waits for it.                             *)
LEMMA AppendedWhole ==
  ASSUME hash \in [Key -> Nat], NEW m, Shape(m), Whole(hash, m), m.index # <<>>,
         NEW k \in Key, k \notin KeysOf(m.entries), NEW v \in Value,
         Roomy(Len(m.index), Len(m.entries) + 1), Len(m.entries) + 1 <= m.capacity,
         NEW slot, Waits(hash, m.index, k, slot)
  PROVE  /\ Shape(Appended(m, slot, k, v)) /\ Whole(hash, Appended(m, slot, k, v))
         /\ Appended(m, slot, k, v).entries = Append(m.entries, Entry(k, v))
<1> DEFINE e == Len(m.entries)
           x == Entry(k, v)
           s == Append(m.entries, x)
           ix == PutAt(m.index, slot, e + 1)
           r == Appended(m, slot, k, v)
<1>1. /\ m.entries \in Seq(Entries) /\ e \in Nat /\ m.capacity \in Nat /\ m \in Maps
      /\ Distinct(m.entries) /\ m.size = e
  BY ShapeFields DEF Shape
<1>2. x \in Entries /\ x.key = k
  BY DEF Entries, Entry
<1>3. s \in Seq(Entries) /\ Distinct(s)
  BY <1>1, <1>2, AppendKeys
<1>4. Len(s) = e + 1 /\ s[e + 1] = x /\ \A j \in 1 .. e : s[j] = m.entries[j]
  BY <1>1, <1>2, AppendProperties
<1> HIDE DEF s, x
<1>5. Sound(hash, m.index, s, e)
  <2>1. Sound(hash, m.index, m.entries, e)
    BY DEF Whole
  <2>2. \A j \in 1 .. e : s[j].key = m.entries[j].key
    BY <1>4
  <2> HIDE DEF e
  <2> QED
    BY <1>1, <2>1, <2>2, SameKeys
<1>6. Sound(hash, ix, s, e + 1) /\ Len(ix) = Len(m.index)
  <2>1. s[e + 1].key \in Key /\ Waits(hash, m.index, s[e + 1].key, slot)
    BY <1>2, <1>4
  <2> HIDE DEF e
  <2> QED
    BY <1>1, <1>5, <2>1, Entering
<1>7. ix \in Seq(0 .. m.capacity) /\ ix \in Seq(Nat)
  <2>1. ix \in Seq(0 .. e + 1)
    BY <1>6 DEF Sound
  <2>2. 0 .. e + 1 \subseteq 0 .. m.capacity /\ 0 .. m.capacity \subseteq Nat
    BY <1>1
  <2>3. ix \in Seq(0 .. m.capacity)
    BY <2>1, <2>2, SeqMonotonic
  <2> QED
    BY <2>2, <2>3, SeqMonotonic
<1>8. /\ r.entries = s /\ r.index = ix /\ r.size = e + 1 /\ r.capacity = m.capacity
      /\ r = [entries |-> s, capacity |-> m.capacity, index |-> ix, size |-> e + 1]
  <2>1. m = [entries |-> m.entries, capacity |-> m.capacity, index |-> m.index, size |-> m.size]
    BY <1>1 DEF Maps
  <2>2. r = [m EXCEPT !.entries = s, !.index = ix, !.size = e + 1]
    BY <1>1 DEF Appended, PutAt, Entry, x, s
  <2> HIDE DEF ix, e, r
  <2> QED
    BY <2>1, <2>2
<1> HIDE DEF ix, r
<1>9. r \in Maps
  BY <1>1, <1>3, <1>7, <1>8 DEF Maps
<1>10. Shape(r)
  <2> HIDE DEF e
  <2> QED
    BY <1>3, <1>4, <1>6, <1>7, <1>8, <1>9 DEF Shape, e
<1>11. Whole(hash, r)
  BY <1>4, <1>6, <1>8 DEF Whole
<1> QED
  BY <1>8, <1>10, <1>11 DEF r, s, x

(* A longer array.                                                             *)
Enlarged(m) == [m EXCEPT !.capacity = GrowCapacity(@)]

LEMMA Enlarging ==
  ASSUME NEW m, Shape(m)
  PROVE  /\ Shape(Enlarged(m)) /\ Len(m.entries) + 1 <= Enlarged(m).capacity
         /\ Enlarged(m).entries = m.entries /\ Enlarged(m).index = m.index
<1> DEFINE r == Enlarged(m)
           c == GrowCapacity(m.capacity)
<1>1. /\ m.entries \in Seq(Entries) /\ Len(m.entries) \in Nat /\ m.capacity \in Nat
      /\ m.index \in Seq(0 .. m.capacity) /\ m \in Maps /\ Len(m.entries) <= m.capacity
  BY ShapeFields DEF Shape
<1>2. c \in Nat /\ m.capacity + 1 <= c
  BY <1>1, OrderedMapAssumption DEF GrowCapacity
<1> HIDE DEF c, r
<1>3. m.index \in Seq(0 .. c)
  <2>1. m.capacity <= c
    BY <1>1, <1>2
  <2> QED
    BY <1>1, <1>2, <2>1, Widened
<1>4. /\ r \in Maps /\ r.entries = m.entries /\ r.index = m.index
      /\ r.size = m.size /\ r.capacity = c
  BY <1>1, <1>2 DEF Enlarged, Maps, c, r
<1>5. Shape(r)
  BY <1>1, <1>2, <1>3, <1>4 DEF Shape
<1>6. Len(m.entries) + 1 <= c
  BY <1>1, <1>2
<1> QED
  BY <1>4, <1>5, <1>6 DEF r

------------------------------------------------------------------------------
(* The pieces of csMapSet.                                                     *)

(* What a piece does to the entries s and to what a walk owes: nothing yet,    *)
(* an entry at the end, or another value in an entry that was there.           *)
Keeps(s) == map'.entries = s /\ owed' = owed /\ did' = Nothing
Adds(s, k, v) ==
  /\ k \notin KeysOf(s)
  /\ map'.entries = Append(s, Entry(k, v))
  /\ owed' = IF walk.at # "none" THEN owed \cup {k} ELSE owed
  /\ did' = Did("set", k, v)
Valued(s, k, v) ==
  [n \in DOMAIN s |-> IF s[n].key = k THEN [s[n] EXCEPT !.value = v] ELSE s[n]]
Alters(s, k, v) ==
  /\ k \in KeysOf(s)
  /\ map'.entries = Valued(s, k, v)
  /\ owed' = owed /\ did' = Did("set", k, v)
Puts(s, k, v) == Keeps(s) \/ Adds(s, k, v) \/ Alters(s, k, v)

Settled == Shape(map') /\ CallOK(kind', hash, held, map', op')

LEMMA AddStep ==
  ASSUME hash \in [Key -> Nat], held \subseteq Key,
         NEW m, Shape(m), Whole(hash, m), m.index # <<>>,
         NEW k \in held, k \notin KeysOf(m.entries), NEW v \in Value,
         Roomy(Len(m.index), Len(m.entries) + 1),
         NEW slot, Waits(hash, m.index, k, slot), Add(m, slot, k, v)
  PROVE  Settled /\ Puts(m.entries, k, v)
<1>1. Len(m.entries) \in Nat /\ m.capacity \in Nat /\ Len(m.entries) <= m.capacity /\ k \in Key
  BY ShapeFields DEF Shape
<1>2. CASE m.capacity < Len(m.entries) + 1
  <2>1. /\ map' = m /\ owed' = owed /\ did' = Nothing
        /\ op' = [at |-> "grow", key |-> k, value |-> v, slot |-> slot, struck |-> FALSE]
    BY <1>2 DEF Add
  <2>2. slot \in 1 .. Len(m.index)
    BY DEF Waits
  <2>3. CallOK(kind', hash, held, m, op')
    <3>1. /\ op'.at = "grow" /\ op'.key = k /\ op'.value = v /\ op'.slot = slot
          /\ op'.struck = FALSE
          /\ op' = [at |-> "grow", key |-> op'.key, value |-> op'.value, slot |-> op'.slot,
                    struck |-> op'.struck]
      BY <2>1
    <3>2. Fresh(held, m, op', Len(m.index))
      BY <3>1 DEF Fresh
    <3> QED
      BY <2>2, <3>1, <3>2 DEF CallOK
  <2> QED
    BY <2>1, <2>3 DEF Settled, Puts, Keeps
<1>3. CASE ~(m.capacity < Len(m.entries) + 1)
  <2>1. /\ map' = Appended(m, slot, k, v) /\ op' = Idle /\ did' = Did("set", k, v)
        /\ owed' = IF walk.at # "none" THEN owed \cup {k} ELSE owed
    BY <1>3 DEF Add, Enter
  <2>2. Len(m.entries) + 1 <= m.capacity
    BY <1>1, <1>3
  <2>3. /\ Shape(map') /\ Whole(hash, map')
        /\ map'.entries = Append(m.entries, Entry(k, v))
    BY <1>1, <2>1, <2>2, AppendedWhole
  <2> QED
    BY <2>1, <2>3 DEF Settled, CallOK, Puts, Adds
<1> QED
  BY <1>2, <1>3

(* Another value for a key that is in.                                         *)
LEMMA AlterStep ==
  ASSUME NEW m, Shape(m), Whole(hash, m), NEW p \in 1 .. Len(m.entries), NEW v \in Value
  PROVE  LET r == [m EXCEPT !.entries[p].value = v]
         IN /\ Shape(r) /\ Whole(hash, r)
            /\ r.entries = Valued(m.entries, m.entries[p].key, v)
<1> DEFINE s == m.entries
           e == Len(s)
           x == [s[p] EXCEPT !.value = v]
           t == [s EXCEPT ![p] = x]
           r == [m EXCEPT !.entries[p].value = v]
<1>1. /\ s \in Seq(Entries) /\ e \in Nat /\ m \in Maps /\ Distinct(s) /\ DOMAIN s = 1 .. e
      /\ \A i \in 1 .. e : s[i] \in Entries
  BY ShapeFields, ElementOfSeq DEF Shape
<1>2. x \in Entries /\ x.key = s[p].key
  BY <1>1 DEF Entries
<1> HIDE DEF x
<1>3. t \in Seq(Entries) /\ Len(t) = e /\ \A i \in 1 .. e : t[i] = IF i = p THEN x ELSE s[i]
  BY <1>1, <1>2, ExceptSeq
<1>4. \A i \in 1 .. e : t[i].key = s[i].key
  BY <1>2, <1>3
<1>5. t = Valued(s, s[p].key, v)
  <2> DEFINE u == Valued(s, s[p].key, v)
  <2>1. DOMAIN u = 1 .. e /\ DOMAIN t = 1 .. e
    BY <1>1 DEF Valued
  <2>2. \A i \in 1 .. e : s[i].key = s[p].key => i = p
    BY <1>1 DEF Distinct
  <2>3. \A i \in 1 .. e : u[i] = IF i = p THEN x ELSE s[i]
    BY <1>1, <2>2 DEF Valued, x
  <2>4. u = [i \in 1 .. e |-> u[i]] /\ t = [i \in 1 .. e |-> t[i]]
    BY <1>1 DEF Valued
  <2> HIDE DEF u, t
  <2>5. \A i \in 1 .. e : u[i] = t[i]
    BY <1>3, <2>3
  <2>6. u = t
    BY <2>4, <2>5
  <2> QED
    BY <2>6 DEF u
<1>6. r = [m EXCEPT !.entries = t]
  BY DEF x
<1> HIDE DEF t, r
<1>7. /\ r \in Maps /\ r.entries = t /\ r.capacity = m.capacity
      /\ r.index = m.index /\ r.size = m.size
  BY <1>1, <1>3, <1>6 DEF Maps
<1>8. Shape(r)
  <2>1. Distinct(t)
    BY <1>1, <1>3, <1>4 DEF Distinct
  <2> QED
    BY <1>3, <1>7, <2>1 DEF Shape
<1>9. Whole(hash, r)
  <2> SUFFICES ASSUME m.index # <<>> PROVE Sound(hash, m.index, t, e)
    BY <1>3, <1>7 DEF Whole
  <2>1. Sound(hash, m.index, s, e)
    BY DEF Whole
  <2> HIDE DEF e, s
  <2> QED
    BY <1>1, <1>4, <2>1, SameKeys
<1> QED
  BY <1>5, <1>7, <1>8, <1>9 DEF r

LEMMA PlaceStep ==
  ASSUME hash \in [Key -> Nat], held \subseteq Key,
         NEW m, Shape(m), Whole(hash, m), m.index # <<>>,
         NEW k \in held, NEW v \in Value, Place(m, k, v)
  PROVE  Settled /\ Puts(m.entries, k, v)
<1> DEFINE slot == findSlot(m, k)
           p == m.index[slot]
           n == Len(m.index)
           e == Len(m.entries)
<1>1. k \in Key /\ e \in Nat /\ n \in Nat /\ n > 0 /\ e < n /\ 4 * e <= 3 * n
  BY ShapeFields DEF Shape, Roomy
<1>2. /\ slot \in 1 .. n
      /\ k \in KeysOf(m.entries) => p \in 1 .. e /\ m.entries[p].key = k
      /\ k \notin KeysOf(m.entries) => Waits(hash, m.index, k, slot)
  BY <1>1, Searching
<1>3. k \notin KeysOf(m.entries) <=> p = 0
  BY <1>2 DEF Waits
<1> HIDE DEF slot
<1>4. CASE p # 0
  <2>1. k \in KeysOf(m.entries) /\ p \in 1 .. e /\ m.entries[p].key = k
    BY <1>2, <1>3, <1>4
  <2>2. /\ map' = [m EXCEPT !.entries[p].value = v] /\ op' = Idle /\ owed' = owed
        /\ did' = Did("set", k, v)
    BY <1>4 DEF Place, slot
  <2> HIDE DEF p
  <2>3. Shape(map') /\ Whole(hash, map') /\ map'.entries = Valued(m.entries, k, v)
    BY <2>1, <2>2, AlterStep
  <2> QED
    BY <2>1, <2>2, <2>3 DEF Settled, CallOK, Puts, Alters
<1>5. CASE p = 0 /\ Overfull(m)
  <2>1. /\ map' = m /\ owed' = owed /\ did' = Nothing
        /\ op' = [at |-> "index", then |-> "add", size |-> 2 * IndexCapacity(m),
                  key |-> k, value |-> v]
    BY <1>5 DEF Place, slot
  <2>2. 2 * IndexCapacity(m) = 2 * n /\ 2 * n \in Nat
    BY <1>1 DEF IndexCapacity
  <2>3. Roomy(2 * n, e + 1)
    <3>1. 4 * (e + 1) <= 3 * (2 * n)
      BY <1>1
    <3> QED
      BY <3>1 DEF Roomy
  <2>4. CallOK(kind', hash, held, m, op')
    <3> HIDE DEF n, e
    <3>1. /\ op'.at = "index" /\ op'.then = "add" /\ op'.size = 2 * n
          /\ op'.key = k /\ op'.value = v
      BY <2>1, <2>2
    <3> QED
      BY <1>3, <1>5, <2>2, <2>3, <3>1 DEF CallOK, Fresh, e
  <2> QED
    BY <2>1, <2>4 DEF Settled, Puts, Keeps
<1>6. CASE p = 0 /\ ~Overfull(m)
  <2>1. Add(m, slot, k, v)
    BY <1>6 DEF Place, slot
  <2>2. Roomy(n, e + 1)
    <3>1. 4 * (e + 1) <= 3 * n
      BY <1>1, <1>6 DEF Overfull, IndexCapacity
    <3> QED
      BY <3>1 DEF Roomy
  <2> QED
    BY <1>2, <1>3, <1>6, <2>1, <2>2, AddStep
<1> QED
  BY <1>4, <1>5, <1>6

------------------------------------------------------------------------------
(* Walks.                                                                      *)

(* The keys of the entries do not change, and those of the last n stay last.   *)
LEMMA SameFrom ==
  ASSUME NEW m, NEW r, Len(r.entries) = Len(m.entries), Len(m.entries) \in Nat,
         \A n \in 1 .. Len(m.entries) : r.entries[n].key = m.entries[n].key,
         NEW i \in Nat, i >= 1
  PROVE  From(r, i) = From(m, i)
<1>1. \A n \in i .. Len(m.entries) : n \in 1 .. Len(m.entries)
  OBVIOUS
<1> QED
  BY <1>1 DEF From

LEMMA MoreFrom ==
  ASSUME NEW m, NEW r, m.entries \in Seq(Entries), NEW x \in Entries,
         r.entries = Append(m.entries, x),
         NEW i \in Nat, i >= 1
  PROVE  /\ From(r, i) \subseteq From(m, i) \cup {x.key}
         /\ i <= Len(m.entries) + 1 => From(r, i) = From(m, i) \cup {x.key}
<1> DEFINE e == Len(m.entries)
<1>1. /\ e \in Nat /\ Len(r.entries) = e + 1 /\ r.entries[e + 1] = x
      /\ \A n \in 1 .. e : r.entries[n] = m.entries[n]
  BY AppendProperties
<1> HIDE DEF e
<1>2. /\ \A n \in i .. e + 1 : n \in i .. e \/ n = e + 1
      /\ \A n \in i .. e : n \in i .. e + 1
      /\ i <= e + 1 => e + 1 \in i .. e + 1
  BY <1>1 DEF e
<1>3. \A n \in i .. e : r.entries[n].key = m.entries[n].key
  <2>1. \A n \in i .. e : n \in 1 .. e
    BY <1>1
  <2> QED
    BY <1>1, <2>1
<1> QED
  BY <1>1, <1>2, <1>3 DEF From, e

(* Setting a key in the callback.                                              *)
LEMMA WalkGoesOn ==
  ASSUME WalkOK(kind, held, map, op, walk, owed, spoilt), walk.at # "loop",
         map.entries \in Seq(Entries),
         NEW k \in Key, NEW v \in Value, Puts(map.entries, k, v)
  PROVE  WalkOK(kind, held, map', op', walk, owed', spoilt)
<1> DEFINE s == map.entries
           e == Len(s)
<1>1. e \in Nat /\ DOMAIN s = 1 .. e /\ \A i \in 1 .. e : s[i] \in Entries
  BY LenProperties, ElementOfSeq
<1>2. /\ walk \in [at : {"none", "loop", "callback"}, i : Nat]
      /\ walk.at # "none" => walk.i >= 1
      /\ owed \subseteq Key /\ spoilt \in BOOLEAN
      /\ kind = "weak" => walk = NoWalk
      /\ Owes(map, walk, owed, spoilt)
  BY DEF WalkOK
<1>3. ASSUME Keeps(s) \/ Alters(s, k, v)
      PROVE  WalkOK(kind, held, map', op', walk, owed', spoilt)
  <2>1. owed' = owed
    BY <1>3 DEF Keeps, Alters
  <2>2. /\ Len(map'.entries) = e
        /\ \A n \in 1 .. e : map'.entries[n].key = s[n].key
    <3>1. CASE Keeps(s)
      BY <3>1 DEF Keeps
    <3>2. CASE Alters(s, k, v)
      <4>1. map'.entries = [n \in 1 .. e |-> IF s[n].key = k THEN [s[n] EXCEPT !.value = v] ELSE s[n]]
        BY <1>1, <3>2 DEF Alters, Valued
      <4>2. Len(map'.entries) = e
        BY <1>1, <4>1
      <4>3. \A n \in 1 .. e : map'.entries[n].key = s[n].key
        BY <1>1, <4>1 DEF Entries
      <4> QED
        BY <4>2, <4>3
    <3> QED
      BY <1>3, <3>1, <3>2
  <2>3. walk.i \in Nat
    BY <1>2
  <2>4. \A i \in Nat : i >= 1 => From(map', i) = From(map, i)
    BY <1>1, <2>2, SameFrom
  <2>5. Owes(map', walk, owed', spoilt)
    <3>1. walk.at = "callback" => From(map', walk.i + 1) = From(map, walk.i + 1)
      <4>1. walk.i + 1 \in Nat /\ walk.i + 1 >= 1
        BY <2>3
      <4> QED
        BY <2>4, <4>1
    <3> QED
      BY <1>2, <2>1, <2>2, <3>1 DEF Owes, Ahead
  <2> QED
    BY <1>2, <2>1, <2>5 DEF WalkOK
<1>4. ASSUME Adds(s, k, v)
      PROVE  WalkOK(kind, held, map', op', walk, owed', spoilt)
  <2>1. /\ map'.entries = Append(s, Entry(k, v))
        /\ owed' = IF walk.at # "none" THEN owed \cup {k} ELSE owed
    BY <1>4 DEF Adds
  <2>2. Entry(k, v) \in Entries /\ Entry(k, v).key = k
    BY DEF Entry, Entries
  <2>3. Len(map'.entries) = e + 1
    BY <2>1, <2>2, AppendProperties
  <2>4. walk.i \in Nat
    BY <1>2
  <2>5. Owes(map', walk, owed', spoilt)
    <3> DEFINE i == walk.i + 1
    <3> SUFFICES ASSUME walk.at = "callback"
                 PROVE  /\ Ahead(map', i, owed', spoilt)
                        /\ ~spoilt => walk.i <= Len(map'.entries)
      BY <1>2, <2>1 DEF Owes
    <3>1. Ahead(map, i, owed, spoilt) /\ (~spoilt => walk.i <= e) /\ owed' = owed \cup {k}
      BY <1>2, <2>1 DEF Owes
    <3>2. i \in Nat /\ i >= 1 /\ (~spoilt => i <= e + 1 /\ walk.i <= e + 1)
      BY <1>1, <2>4, <3>1
    <3>3. /\ From(map', i) \subseteq From(map, i) \cup {k}
          /\ i <= e + 1 => From(map', i) = From(map, i) \cup {k}
      <4> DEFINE x == Entry(k, v)
      <4>1. map'.entries = Append(map.entries, x) /\ x \in Entries /\ x.key = k
        BY <2>1, <2>2
      <4> HIDE DEF x, i
      <4> QED
        BY <3>2, <4>1, MoreFrom
    <3> HIDE DEF i
    <3> QED
      BY <2>3, <3>1, <3>2, <3>3 DEF Ahead
  <2>6. owed' \subseteq Key
    BY <1>2, <2>1
  <2> QED
    BY <1>2, <2>5, <2>6 DEF WalkOK
<1> QED
  BY <1>3, <1>4 DEF Puts

------------------------------------------------------------------------------
(* What the steps are to the collection.                                       *)

(* What WalkMeetsEach says of a step.                                          *)
Meets ==
  /\ walk.at = "loop" /\ walk'.at = "callback" => map.entries[walk.i].key \in owed
  /\ walk.at = "loop" /\ walk'.at = "none" => owed = {} \/ spoilt

(* A step keeps the invariant, is a step of the collection and meets what it   *)
(* should.                                                                     *)
Stepping == IInv' /\ Contract!Next /\ Meets

LEMMA SameLeaving ==
  ASSUME NEW s, NEW S
  PROVE  Contract!Without(s, S) = Without(s, S) /\ Contract!KeysOf(s) = KeysOf(s)
BY DEF Contract!Without, Without, Contract!KeysOf, KeysOf

LEMMA Facts ==
  ASSUME IInv, ~astray
  PROVE  /\ hash \in [Key -> Nat] /\ held \subseteq Key
         /\ map.entries \in Seq(Entries) /\ Len(map.entries) \in Nat
         /\ DOMAIN map.entries = 1 .. Len(map.entries)
         /\ Shape(map) /\ Distinct(map.entries) /\ owed \subseteq Key
         /\ walk \in [at : {"none", "loop", "callback"}, i : Nat]
         /\ op # Idle => walk.at # "loop"
BY HashTypes, ShapeFields DEF IInv, Sane, WalkOK, Shape

(* Nothing of the collection changes.                                          *)
LEMMA NothingContract ==
  ASSUME map'.entries = map.entries, owed' = owed, did' = Nothing, held' = held,
         kind' = kind, spoilt' = spoilt, (walk'.at # "none") = (walk.at # "none")
  PROVE  Contract!Next
<1>1. Contract!Pause
  BY DEF Contract!Pause, Contract!Nothing, Contract!Did, Nothing, Did
<1> QED
  BY <1>1 DEF Contract!Next

LEMMA PutsContract ==
  ASSUME held \subseteq Key, NEW k \in held, NEW v \in Value,
         Puts(map.entries, k, v), UNCHANGED <<kind, held, walk, spoilt>>
  PROVE  Contract!Next
<1>1. CASE Keeps(map.entries)
  BY <1>1, NothingContract DEF Keeps
<1>2. CASE Adds(map.entries, k, v)
  <2>1. Contract!Put(k, v)
    BY <1>2, SameLeaving DEF Adds, Entry, Contract!Put, Contract!Did, Did
  <2> QED
    BY <2>1 DEF Contract!Next
<1>3. CASE Alters(map.entries, k, v)
  <2>1. Contract!Put(k, v)
    BY <1>3, SameLeaving DEF Alters, Valued, Contract!Put, Contract!Did, Did
  <2> QED
    BY <2>1 DEF Contract!Next
<1> QED
  BY <1>1, <1>2, <1>3 DEF Puts

(* A piece of csMapSet, whichever call it belongs to.                          *)
LEMMA PutsStepping ==
  ASSUME IInv, ~astray, NEW k \in held, NEW v \in Value, Settled, Puts(map.entries, k, v),
         walk.at # "loop", UNCHANGED <<kind, hash, held, walk, spoilt>>, ~astray'
  PROVE  Stepping
<1>1. map.entries \in Seq(Entries) /\ held \subseteq Key /\ k \in Key
  BY Facts
<1>2. WalkOK(kind, held, map', op', walk, owed', spoilt)
  BY <1>1, WalkGoesOn DEF IInv, Sane
<1>3. Contract!Next
  BY <1>1, PutsContract
<1>4. did' \in Happenings
  BY <1>1 DEF Puts, Keeps, Adds, Alters, Nothing, Did, Happenings
<1>5. IInv'
  BY <1>2, <1>4 DEF IInv, Sane, Still, Settled
<1> QED
  BY <1>3, <1>5 DEF Stepping, Meets

------------------------------------------------------------------------------
(* The steps.                                                                  *)

LEMMA SetStep ==
  ASSUME IInv, ~astray, NEW k \in Key, NEW v \in Value, set(k, v)
  PROVE  Stepping
<1>1. /\ op = Idle /\ walk.at # "loop" /\ k \in held
      /\ UNCHANGED <<kind, hash, held, walk, spoilt, astray>>
  BY DEF set, Running
<1>2. Whole(hash, map)
  BY <1>1 DEF IInv, Sane, CallOK, Idle
<1>3. CASE IndexCapacity(map) = 0
  <2>1. /\ op' = [at |-> "index", then |-> "place", size |-> IndexMin, key |-> k, value |-> v]
        /\ map' = map /\ owed' = owed /\ did' = Nothing
    BY <1>3 DEF set
  <2>2. map.index = <<>> /\ Shape(map)
    BY <1>3, Facts, ShapeFields
  <2>3. CallOK(kind', hash, held, map, op')
    BY <1>1, <2>1, <2>2 DEF CallOK
  <2>4. Settled /\ Puts(map.entries, k, v)
    BY <2>1, <2>2, <2>3 DEF Settled, Puts, Keeps
  <2> QED
    BY <1>1, <2>4, PutsStepping
<1>4. CASE IndexCapacity(map) # 0
  <2>1. Place(map, k, v)
    BY <1>4 DEF set
  <2>2. map.index # <<>>
    BY <1>4, Facts, ShapeFields
  <2>3. Settled /\ Puts(map.entries, k, v)
    BY <1>1, <1>2, <2>1, <2>2, Facts, PlaceStep
  <2> QED
    BY <1>1, <2>3, PutsStepping
<1> QED
  BY <1>3, <1>4

LEMMA RehashStep ==
  ASSUME IInv, ~astray, rehash
  PROVE  Stepping
<1> DEFINE m == Reindexed(map, op.size)
<1>1. /\ op.at = "index" /\ UNCHANGED <<kind, hash, held, walk, spoilt, astray>>
      /\ \/ op.then = "place" /\ Place(m, op.key, op.value)
         \/ op.then = "add" /\ Add(m, findSlot(m, op.key), op.key, op.value)
         \/ /\ op.then \notin {"place", "add"} /\ map' = m /\ op' = Idle
            /\ did' = Nothing /\ owed' = owed
  BY DEF rehash, Reindexed
<1>2. op # Idle /\ walk.at # "loop"
  BY <1>1, Facts DEF Idle
<1>3. \/ /\ op.then = "place" /\ op.size = IndexMin
         /\ map.index = <<>> /\ op.key \in held /\ op.value \in Value
      \/ /\ op.then = "add" /\ op.size \in Nat /\ Fresh(held, map, op, op.size)
      \/ /\ op.then = "deleted" /\ op.size = Len(map.index) /\ map.index # <<>>
  BY <1>1, <1>2 DEF IInv, Sane, CallOK
<1>4. /\ Shape(map) /\ Len(map.entries) \in Nat /\ hash \in [Key -> Nat] /\ held \subseteq Key
      /\ map.entries \in Seq(Entries)
  BY Facts
<1>5. op.size \in Nat \ {0} /\ Roomy(op.size, Len(map.entries))
  <2>1. CASE op.then = "place"
    <3>1. map.entries = <<>> /\ Len(<<>>) = 0 /\ op.size \in Nat \ {0}
      BY <1>3, <1>4, <2>1, ShapeFields, OrderedMapAssumption
    <3> QED
      BY <3>1 DEF Roomy
  <2>2. CASE op.then = "add"
    <3>1. op.size \in Nat /\ 4 * (Len(map.entries) + 1) <= 3 * op.size
      BY <1>3, <2>2 DEF Fresh, Roomy
    <3> QED
      BY <1>4, <3>1 DEF Roomy
  <2>3. CASE op.then = "deleted"
    <3>1. op.size = Len(map.index) /\ map.index # <<>>
      BY <1>3, <2>3
    <3> QED
      BY <1>4, <3>1, ShapeFields DEF Shape
  <2> QED
    BY <1>3, <2>1, <2>2, <2>3
<1>6. /\ Shape(m) /\ Whole(hash, m) /\ m.entries = map.entries
      /\ m.index # <<>> /\ Len(m.index) = op.size
  BY <1>4, <1>5, Rebuilding
<1> HIDE DEF m
<1>7. CASE op.then = "place"
  <2>1. op.key \in held /\ op.value \in Value /\ Place(m, op.key, op.value)
    BY <1>1, <1>3, <1>7
  <2>2. Settled /\ Puts(map.entries, op.key, op.value)
    BY <1>4, <1>6, <2>1, PlaceStep
  <2> QED
    BY <1>1, <1>2, <2>1, <2>2, PutsStepping
<1>8. CASE op.then = "add"
  <2>1. /\ op.key \in held /\ op.value \in Value /\ op.key \notin KeysOf(m.entries)
        /\ Roomy(Len(m.index), Len(m.entries) + 1)
        /\ Add(m, findSlot(m, op.key), op.key, op.value)
    BY <1>1, <1>3, <1>6, <1>8 DEF Fresh
  <2>2. Waits(hash, m.index, op.key, findSlot(m, op.key))
    BY <1>4, <1>6, <2>1, Searching
  <2>3. Settled /\ Puts(map.entries, op.key, op.value)
    BY <1>4, <1>6, <2>1, <2>2, AddStep
  <2> QED
    BY <1>1, <1>2, <2>1, <2>3, PutsStepping
<1>9. CASE op.then = "deleted"
  <2>1. map' = m /\ op' = Idle /\ did' = Nothing /\ owed' = owed
    BY <1>1, <1>9
  <2>2. Contract!Next
    BY <1>1, <1>6, <2>1, NothingContract
  <2>3. WalkOK(kind, held, m, Idle, walk, owed, spoilt)
    <3>1. Owes(map, walk, owed, spoilt) => Owes(m, walk, owed, spoilt)
      BY <1>6 DEF Owes, Ahead, From
    <3> QED
      BY <3>1 DEF IInv, Sane, WalkOK
  <2>4. IInv'
    BY <1>1, <1>6, <2>1, <2>3 DEF IInv, Sane, Still, CallOK, Nothing, Did, Happenings
  <2> QED
    BY <1>1, <1>2, <2>2, <2>4 DEF Stepping, Meets
<1> QED
  BY <1>3, <1>7, <1>8, <1>9

LEMMA GrowStep ==
  ASSUME IInv, ~astray, grow
  PROVE  Stepping
<1> DEFINE m == Enlarged(map)
           k == op.key
           v == op.value
           right == findSlot(map, k) = op.slot
<1>1. /\ op.at = "grow" /\ op' = Idle /\ UNCHANGED <<kind, hash, held, walk, spoilt>>
      /\ map' = Appended(m, op.slot, k, v) /\ did' = Did("set", k, v)
      /\ owed' = IF walk.at # "none" THEN owed \cup {k} ELSE owed
      /\ astray' = (op.struck /\ ~right)
  BY DEF grow, Enter, Enlarged
<1>2. op # Idle /\ walk.at # "loop"
  BY <1>1, Facts DEF Idle
<1>3. /\ map.index # <<>> /\ Whole(hash, map) /\ Fresh(held, map, op, Len(map.index))
      /\ op.struck \in BOOLEAN
      /\ IF op.struck THEN kind = "weak" ELSE Waits(hash, map.index, k, op.slot)
  BY <1>1, <1>2 DEF IInv, Sane, CallOK
<1>4. Shape(map) /\ hash \in [Key -> Nat] /\ held \subseteq Key
  BY Facts
<1>5. /\ Shape(m) /\ Len(m.entries) + 1 <= m.capacity
      /\ m.entries = map.entries /\ m.index = map.index
  BY <1>4, Enlarging
<1>6. /\ k \in held /\ k \in Key /\ v \in Value /\ k \notin KeysOf(m.entries)
      /\ Roomy(Len(m.index), Len(m.entries) + 1)
  BY <1>3, <1>4, <1>5 DEF Fresh
<1>7. Whole(hash, m)
  BY <1>3, <1>5 DEF Whole
<1>8. op.struck /\ right => Waits(hash, map.index, k, op.slot)
  BY <1>3, <1>4, <1>5, <1>6, Searching
<1> HIDE DEF m, k, v, right
<1>9. CASE op.struck /\ ~right
  <2>1. map'.entries = Append(map.entries, Entry(k, v))
    <3>1. m \in Maps
      BY <1>5 DEF Shape
    <3> QED
      BY <1>1, <1>5, <3>1 DEF Appended, Maps, Entry
  <2>2. Puts(map.entries, k, v)
    BY <1>1, <1>5, <1>6, <2>1 DEF Puts, Adds
  <2>3. Contract!Next
    BY <1>1, <1>4, <1>6, <2>2, PutsContract
  <2>4. IInv'
    BY <1>1, <1>3, <1>9 DEF IInv
  <2> QED
    BY <1>1, <1>2, <2>3, <2>4 DEF Stepping, Meets
<1>10. CASE ~(op.struck /\ ~right)
  <2> DEFINE slot == op.slot
             r == Appended(m, slot, k, v)
  <2>1. Waits(hash, m.index, k, slot) /\ m.index # <<>>
    BY <1>3, <1>5, <1>8, <1>10
  <2>2. map' = r
    BY <1>1
  <2> HIDE DEF slot
  <2>3. /\ Shape(r) /\ Whole(hash, r)
        /\ r.entries = Append(m.entries, Entry(k, v))
    BY <1>4, <1>5, <1>6, <1>7, <2>1, AppendedWhole
  <2> HIDE DEF r
  <2>4. /\ Shape(map') /\ Whole(hash, map')
        /\ map'.entries = Append(map.entries, Entry(k, v))
    BY <1>5, <2>2, <2>3
  <2>5. Settled /\ Puts(map.entries, k, v)
    BY <1>1, <1>5, <1>6, <2>4 DEF Settled, CallOK, Puts, Adds
  <2>6. ~astray'
    BY <1>1, <1>3, <1>10
  <2> QED
    BY <1>1, <1>2, <1>6, <2>5, <2>6, PutsStepping
<1> QED
  BY <1>9, <1>10

(* What a walk owes from place i on, when the entry at place p goes.           *)
LEMMA LessFrom ==
  ASSUME NEW m, NEW r, m.entries \in Seq(Entries), Distinct(m.entries),
         NEW p \in 1 .. Len(m.entries), r.entries = RemoveAt(m.entries, p),
         NEW i \in Nat, i >= 1
  PROVE  /\ From(r, i) \subseteq From(m, i) \ {m.entries[p].key}
         /\ p >= i => From(r, i) = From(m, i) \ {m.entries[p].key}
         /\ m.entries[p].key \in From(m, i) <=> p >= i
<1> DEFINE s == m.entries
           e == Len(s)
           t == r.entries
<1>1. /\ e \in Nat /\ p \in 1 .. e /\ Len(t) = e - 1
      /\ \A j \in 1 .. e - 1 : t[j] = IF j < p THEN s[j] ELSE s[j + 1]
  BY LenProperties, Removing
<1>2. \A a, b \in 1 .. e : s[a].key = s[b].key => a = b
  BY DEF Distinct
<1>3. /\ From(m, i) = {s[n].key : n \in i .. e}
      /\ From(r, i) = {t[n].key : n \in i .. e - 1}
  BY <1>1 DEF From
<1> HIDE DEF s, e, t
<1>4. ASSUME NEW n \in i .. e - 1
      PROVE  t[n].key \in {s[j].key : j \in i .. e} \ {s[p].key}
  <2>1. n \in 1 .. e - 1 /\ n \in 1 .. e /\ n + 1 \in 1 .. e /\ n \in i .. e /\ n + 1 \in i .. e
    BY <1>1
  <2>2. CASE n < p
    BY <1>1, <1>2, <2>1, <2>2
  <2>3. CASE ~(n < p)
    <3>1. t[n] = s[n + 1] /\ n + 1 # p
      BY <1>1, <2>1, <2>3
    <3> QED
      BY <1>1, <1>2, <2>1, <3>1
  <2> QED
    BY <2>2, <2>3
<1>5. ASSUME p >= i, NEW j \in i .. e, s[j].key # s[p].key
      PROVE  s[j].key \in {t[n].key : n \in i .. e - 1}
  <2>1. j # p /\ j \in 1 .. e
    BY <1>1, <1>5
  <2>2. CASE j < p
    <3>1. j \in i .. e - 1 /\ j \in 1 .. e - 1 /\ t[j] = s[j]
      BY <1>1, <1>5, <2>1, <2>2
    <3> QED
      BY <3>1
  <2>3. CASE ~(j < p)
    <3>1. j - 1 \in i .. e - 1 /\ j - 1 \in 1 .. e - 1 /\ ~(j - 1 < p) /\ (j - 1) + 1 = j
      BY <1>1, <1>5, <2>1, <2>3
    <3>2. t[j - 1] = s[j]
      BY <1>1, <3>1
    <3> QED
      BY <3>1, <3>2
  <2> QED
    BY <2>2, <2>3
<1>6. s[p].key \in {s[j].key : j \in i .. e} <=> p >= i
  <2>1. ASSUME NEW j \in i .. e, s[j].key = s[p].key PROVE p >= i
    <3>1. j \in 1 .. e
      BY <1>1
    <3> QED
      BY <1>1, <1>2, <2>1, <3>1
  <2>2. p >= i => p \in i .. e
    BY <1>1
  <2> QED
    BY <2>1, <2>2
<1> QED
  BY <1>3, <1>4, <1>5, <1>6 DEF s

LEMMA DeleteStep ==
  ASSUME IInv, ~astray, NEW k \in Key, delete(k)
  PROVE  Stepping
<1> DEFINE s == map.entries
           p == EntryOf(map, k)
           t == RemoveAt(s, p)
<1>1. /\ op = Idle /\ walk.at # "loop" /\ k \in held /\ p # 0
      /\ map' = [map EXCEPT !.entries = t, !.size = @ - 1]
      /\ op' = [at |-> "index", then |-> "deleted", size |-> IndexCapacity(map)]
      /\ owed' = owed \ {k} /\ did' = Did("delete", k, None)
      /\ spoilt' = (spoilt \/ (walk.at # "none" /\ p <= walk.i))
      /\ UNCHANGED <<kind, hash, held, walk, astray>>
  BY DEF delete, Running
<1>2. /\ Shape(map) /\ hash \in [Key -> Nat] /\ held \subseteq Key
      /\ s \in Seq(Entries) /\ Distinct(s) /\ Len(s) \in Nat /\ owed \subseteq Key
  BY Facts
<1>3. Whole(hash, map)
  BY <1>1 DEF IInv, Sane, CallOK, Idle
<1>4. p \in 1 .. Len(s) /\ s[p].key = k
  BY <1>1, <1>2, <1>3, Getting
<1> HIDE DEF p
<1>5. /\ t \in Seq(Entries) /\ Len(t) = Len(s) - 1 /\ t = Without(s, {k})
  BY <1>2, <1>4, Removing, LeavingOne
<1> DEFINE i == walk.i + 1
<1>0. /\ walk.i \in Nat /\ i \in Nat /\ i >= 1 /\ (p <= walk.i <=> ~(p >= i))
      /\ spoilt \in BOOLEAN /\ walk.at \in {"none", "callback"}
      /\ walk.at = "none" => owed = {} /\ ~spoilt
      /\ walk.at = "callback" => Ahead(map, i, owed, spoilt)
  BY <1>1, <1>2, <1>4, Facts DEF IInv, Sane, WalkOK, Owes
<1>S. spoilt' \in BOOLEAN /\ (spoilt' <=> spoilt \/ (walk.at # "none" /\ p <= walk.i))
  BY <1>0, <1>1
<1>F. ASSUME NEW r, r.entries = t
      PROVE  /\ From(r, i) \subseteq From(map, i) \ {k}
             /\ p >= i => From(r, i) = From(map, i) \ {k}
             /\ k \in From(map, i) <=> p >= i
  <2>1. /\ map.entries \in Seq(Entries) /\ Distinct(map.entries)
        /\ p \in 1 .. Len(map.entries) /\ r.entries = RemoveAt(map.entries, p)
        /\ map.entries[p].key = k /\ i \in Nat /\ i >= 1
    BY <1>0, <1>2, <1>4, <1>F
  <2> HIDE DEF i, s, t
  <2> QED
    BY <2>1, LessFrom
<1>6. Distinct(t)
  BY <1>2, <1>5, Leaving
<1> HIDE DEF t
<1>7. map.index # <<>>
  <2>1. map.index = <<>> => Len(s) = 0
    BY <1>2, ShapeFields
  <2> QED
    BY <1>2, <1>4, <2>1
<1>8. /\ map' \in Maps /\ map'.entries = t /\ map'.index = map.index
      /\ map'.size = map.size - 1 /\ map'.capacity = map.capacity
  <2>1. /\ map \in Maps /\ map.size = Len(s) /\ Len(s) - 1 \in Nat
    BY <1>2, <1>4 DEF Shape
  <2> QED
    BY <1>1, <1>5, <2>1 DEF Maps
<1>9. Shape(map')
  <2>1. /\ map.size = Len(s) /\ Len(s) <= map.capacity /\ map.capacity \in Nat
        /\ map.index \in Seq(0 .. map.capacity) /\ 4 * Len(s) <= 3 * Len(map.index)
        /\ Len(map.index) \in Nat
    BY <1>2, ShapeFields DEF Shape, Roomy
  <2>2. /\ map'.size = Len(map'.entries) /\ Len(map'.entries) <= map'.capacity
        /\ 4 * Len(map'.entries) <= 3 * Len(map'.index)
    <3>1. ASSUME NEW n \in Nat, NEW c \in Nat, NEW x \in Nat, n <= c, 4 * n <= 3 * x
          PROVE  n - 1 <= c /\ 4 * (n - 1) <= 3 * x
      BY <3>1
    <3>2. Len(s) \in Nat /\ Len(t) = Len(s) - 1
      BY <1>2, <1>5
    <3>3. Len(t) <= map.capacity /\ 4 * Len(t) <= 3 * Len(map.index)
      BY <2>1, <3>1, <3>2
    <3> QED
      BY <1>8, <2>1, <3>2, <3>3
  <2> QED
    BY <1>6, <1>8, <2>1, <2>2 DEF Shape, Roomy
<1>10. CallOK(kind, hash, held, map', op')
  BY <1>1, <1>7, <1>8 DEF CallOK, IndexCapacity
<1>11. WalkOK(kind, held, map', op', walk, owed', spoilt')
  <2>1. CASE walk.at = "none"
    BY <1>1, <1>2, <1>0, <2>1 DEF IInv, Sane, WalkOK, Owes
  <2>2. CASE walk.at = "callback"
    <3>1. /\ From(map', i) \subseteq From(map, i) \ {k}
          /\ p >= i => From(map', i) = From(map, i) \ {k}
      BY <1>8, <1>F
    <3>2. Ahead(map, i, owed, spoilt) /\ owed' = owed \ {k}
          /\ (spoilt' <=> spoilt \/ ~(p >= i))
      BY <1>0, <1>1, <1>S, <2>2
    <3>3. Ahead(map', i, owed', spoilt')
      <4> HIDE DEF i
      <4> QED
        BY <3>1, <3>2 DEF Ahead
    <3>4. ~spoilt' => walk.i <= Len(map'.entries)
      <4>1. ~spoilt' => p >= walk.i + 1
        BY <3>2
      <4>2. p \in Nat /\ p <= Len(s) /\ Len(map'.entries) = Len(s) - 1
        BY <1>2, <1>4, <1>5, <1>8
      <4> QED
        BY <1>0, <1>2, <4>1, <4>2
    <3> QED
      BY <1>1, <1>2, <1>0, <2>2, <3>3, <3>4, Facts DEF IInv, Sane, WalkOK, Owes
  <2> QED
    BY <1>0, <2>1, <2>2
<1>12. IInv'
  <2>1. did' \in Happenings
    BY <1>1 DEF Did, Happenings
  <2> QED
    BY <1>1, <1>9, <1>10, <1>11, <2>1 DEF IInv, Sane, Still
<1>13. Contract!Next
  <2>1. k \in held /\ map'.entries = Without(map.entries, {k}) /\ k \in KeysOf(map.entries)
    BY <1>1, <1>2, <1>4, <1>5, <1>8, Facts DEF KeysOf
  <2>2. spoilt' = (spoilt \/ (walk.at # "none" /\ k \in KeysOf(map.entries) \ owed))
    <3>1. CASE walk.at = "none"
      BY <1>1, <3>1
    <3>2. CASE walk.at # "none" /\ spoilt
      BY <1>1, <3>2
    <3>3. CASE walk.at # "none" /\ ~spoilt
      <4>1. owed = From(map, i)
        BY <1>0, <3>3 DEF Ahead
      <4>2. k \in owed <=> p >= i
        BY <4>1, <1>8, <1>F
      <4>3. spoilt' <=> k \notin owed
        BY <1>0, <1>S, <3>3, <4>2
      <4> QED
        BY <1>0, <1>S, <2>1, <3>3, <4>3
    <3> QED
      BY <3>1, <3>2, <3>3
  <2>3. Contract!Remove(k)
    BY <1>1, <2>1, <2>2, SameLeaving DEF Contract!Remove, Contract!Did, Did
  <2> QED
    BY <2>3 DEF Contract!Next
<1> QED
  BY <1>1, <1>12, <1>13 DEF Stepping, Meets

LEMMA ClearStep ==
  ASSUME IInv, ~astray, clear
  PROVE  Stepping
<1> DEFINE n == Len(map.index)
           ix == EmptyIndex(n)
<1>1. /\ op = Idle /\ walk.at # "loop" /\ kind = "strong"
      /\ map' = [map EXCEPT !.entries = <<>>, !.size = 0, !.index = ix]
      /\ owed' = {} /\ did' = Did("clear", None, None) /\ spoilt' = (walk.at # "none")
      /\ UNCHANGED <<kind, hash, held, op, walk, astray>>
  BY DEF clear, Running, IndexCapacity
<1>2. /\ Shape(map) /\ held \subseteq Key /\ map.entries \in Seq(Entries)
      /\ Len(map.entries) \in Nat /\ owed \subseteq Key
      /\ DOMAIN map.entries = 1 .. Len(map.entries)
  BY Facts
<1>3. n \in Nat /\ map.capacity \in Nat /\ map \in Maps
  BY <1>2, ShapeFields DEF Shape
<1>4. /\ ix \in Seq(0 .. 0) /\ Len(ix) = n /\ \A p \in 1 .. n : ix[p] = 0
  BY <1>3 DEF EmptyIndex
<1>5. ix \in Seq(0 .. map.capacity) /\ ix \in Seq(Nat)
  <2>1. 0 .. 0 \subseteq 0 .. map.capacity /\ 0 .. 0 \subseteq Nat
    BY <1>3
  <2> QED
    BY <1>4, <2>1, SeqMonotonic
<1> HIDE DEF ix, n
<1>6. /\ map' \in Maps /\ map'.entries = <<>> /\ map'.index = ix
      /\ map'.size = 0 /\ map'.capacity = map.capacity
  <2>1. <<>> \in Seq(Entries)
    OBVIOUS
  <2> QED
    BY <1>1, <1>3, <1>5, <2>1 DEF Maps
<1>7. Len(<<>>) = 0 /\ Distinct(<<>>)
  BY DEF Distinct
<1>8. Shape(map')
  BY <1>3, <1>4, <1>5, <1>6, <1>7 DEF Shape, Roomy
<1>9. Whole(hash, map')
  <2> SUFFICES ASSUME ix # <<>> PROVE Sound(hash, ix, <<>>, 0)
    BY <1>6, <1>7 DEF Whole
  <2>1. Len(ix) > 0
    <3>1. Len(ix) \in Nat \ {0}
      BY <1>4, EmptySeq
    <3> QED
      BY <3>1
  <2> QED
    BY <1>4, <2>1 DEF Sound
<1>10. WalkOK(kind, held, map', op', walk, owed', spoilt')
  <2>1. walk \in [at : {"none", "loop", "callback"}, i : Nat]
    BY Facts
  <2>2. \A j \in walk.i + 1 .. 0 : FALSE
    BY <2>1
  <2>3. From(map', walk.i + 1) = {}
    BY <1>6, <1>7, <2>2 DEF From
  <2>4. Owes(map', walk, owed', spoilt')
    BY <1>1, <2>3 DEF Owes, Ahead
  <2> QED
    BY <1>1, <2>4 DEF IInv, Sane, WalkOK
<1>11. IInv'
  <2>1. did' \in Happenings
    BY <1>1 DEF Did, Happenings
  <2> QED
    BY <1>1, <1>8, <1>9, <1>10, <2>1 DEF IInv, Sane, Still, CallOK
<1>12. Contract!Clear
  BY <1>1, <1>6 DEF Contract!Clear, Contract!Did, Did
<1> QED
  BY <1>1, <1>11, <1>12 DEF Stepping, Meets, Contract!Next

LEMMA GetStep ==
  ASSUME IInv, ~astray, NEW k \in Key, get(k)
  PROVE  Stepping
<1> DEFINE s == map.entries
           p == EntryOf(map, k)
<1>1. /\ op = Idle /\ walk.at # "loop" /\ k \in held
      /\ did' = Did("get", k, csMapGet(map, k))
      /\ UNCHANGED <<kind, hash, held, map, op, walk, owed, spoilt, astray>>
  BY DEF get, Running
<1>2. /\ Shape(map) /\ hash \in [Key -> Nat] /\ Distinct(s) /\ DOMAIN s = 1 .. Len(s)
  BY Facts
<1>3. Whole(hash, map)
  BY <1>1 DEF IInv, Sane, CallOK, Idle
<1>4. /\ k \notin KeysOf(s) => p = 0
      /\ k \in KeysOf(s) => p \in 1 .. Len(s) /\ s[p].key = k
  BY <1>2, <1>3, Getting
<1>5. csMapGet(map, k) = IF p = 0 THEN None ELSE s[p].value
  BY DEF csMapGet
<1>6. csMapGet(map, k) = Contract!ValueOf(k)
  <2>1. Contract!ValueOf(k) = IF k \in KeysOf(s)
                              THEN s[CHOOSE n \in DOMAIN s : s[n].key = k].value ELSE None
    BY SameLeaving DEF Contract!ValueOf
  <2>2. CASE k \in KeysOf(s)
    <3>1. p \in DOMAIN s /\ s[p].key = k /\ p # 0
      BY <1>2, <1>4, <2>2
    <3>2. \A n \in DOMAIN s : s[n].key = k => n = p
      BY <1>2, <3>1 DEF Distinct
    <3> HIDE DEF p, s
    <3>3. (CHOOSE n \in DOMAIN s : s[n].key = k) = p
      BY <3>1, <3>2
    <3> QED
      BY <1>5, <2>1, <2>2, <3>1, <3>3
  <2>3. CASE k \notin KeysOf(s)
    BY <1>4, <1>5, <2>1, <2>3
  <2> QED
    BY <2>2, <2>3
<1>7. Contract!Next
  <2>1. Contract!Ask(k)
    BY <1>1, <1>6 DEF Contract!Ask, Contract!Did, Did
  <2> QED
    BY <2>1 DEF Contract!Next
<1>8. csMapGet(map, k) \in Value \cup {None}
  <2>1. p # 0 => s[p].value \in Value
    BY <1>2, <1>4, ShapeFields
  <2> QED
    BY <1>5, <2>1
<1>9. IInv'
  BY <1>1, <1>8 DEF IInv, Sane, Still, Did, Happenings
<1> QED
  BY <1>1, <1>7, <1>9 DEF Stepping, Meets

LEMMA EachStartStep ==
  ASSUME IInv, ~astray, eachStart
  PROVE  Stepping
<1>1. /\ op = Idle /\ walk.at = "none" /\ kind = "strong"
      /\ walk' = [at |-> "loop", i |-> 1] /\ owed' = KeysOf(map.entries) /\ did' = Nothing
      /\ UNCHANGED <<kind, hash, held, map, op, spoilt, astray>>
  BY DEF eachStart, Running
<1>2. Shape(map) /\ DOMAIN map.entries = 1 .. Len(map.entries)
  BY Facts
<1>3. owed' = From(map, 1) /\ owed' \subseteq Key
  BY <1>1, <1>2, ShapeFields DEF KeysOf, From
<1>4. WalkOK(kind, held, map, op, walk', owed', spoilt)
  BY <1>1, <1>3 DEF IInv, Sane, WalkOK, Owes, Ahead
<1>5. IInv'
  BY <1>1, <1>4 DEF IInv, Sane, Still, Nothing, Did, Happenings
<1>6. Contract!Begin
  BY <1>1, SameLeaving DEF Contract!Begin, Contract!Nothing, Contract!Did, Nothing, Did
<1> QED
  BY <1>1, <1>5, <1>6 DEF Stepping, Meets, Contract!Next

(* What a walk owes from place i on: the key there, and what comes after.      *)
LEMMA FirstOwed ==
  ASSUME NEW m, Shape(m), NEW i \in 1 .. Len(m.entries)
  PROVE  /\ m.entries[i].key \in From(m, i)
         /\ \A j \in 1 .. i - 1 : m.entries[j].key \notin From(m, i)
         /\ From(m, i + 1) = From(m, i) \ {m.entries[i].key}
<1> DEFINE e == Len(m.entries)
<1>1. e \in Nat /\ \A a, b \in 1 .. e : m.entries[a].key = m.entries[b].key => a = b
  BY ShapeFields DEF Shape, Distinct
<1>2. i \in i .. e /\ \A n \in i .. e : n \in 1 .. e
  BY <1>1
<1>3. \A n : n \in i + 1 .. e <=> n \in i .. e /\ n # i
  BY <1>1
<1>4. \A j \in 1 .. i - 1 : j \in 1 .. e /\ j \notin i .. e
  BY <1>1
<1> HIDE DEF e
<1>5. m.entries[i].key \in From(m, i)
  BY <1>2 DEF From, e
<1>6. ASSUME NEW j \in 1 .. i - 1, m.entries[j].key \in From(m, i) PROVE FALSE
  <2>1. PICK n \in i .. e : m.entries[n].key = m.entries[j].key
    BY <1>6 DEF From, e
  <2>2. n \in 1 .. e /\ j \in 1 .. e /\ n # j
    BY <1>2, <1>4, <2>1
  <2> QED
    BY <1>1, <2>1, <2>2
<1>7. From(m, i + 1) = From(m, i) \ {m.entries[i].key}
  <2>1. \A n \in i .. e : m.entries[n].key = m.entries[i].key => n = i
    BY <1>1, <1>2
  <2>2. From(m, i + 1) = {m.entries[n].key : n \in i + 1 .. e}
        /\ From(m, i) = {m.entries[n].key : n \in i .. e}
    BY DEF From, e
  <2> QED
    BY <1>3, <2>1, <2>2
<1> QED
  BY <1>5, <1>6, <1>7

LEMMA EachCallStep ==
  ASSUME IInv, ~astray, eachCall
  PROVE  Stepping
<1> DEFINE i == walk.i
           k == map.entries[i].key
           v == map.entries[i].value
<1>1. /\ walk.at = "loop" /\ i <= Len(map.entries)
      /\ walk' = [walk EXCEPT !.at = "callback"] /\ owed' = owed \ {k}
      /\ did' = Did("meet", k, v)
      /\ UNCHANGED <<kind, hash, held, map, op, spoilt, astray>>
  BY DEF eachCall
<1>2. /\ Shape(map) /\ Len(map.entries) \in Nat /\ DOMAIN map.entries = 1 .. Len(map.entries)
      /\ walk \in [at : {"none", "loop", "callback"}, i : Nat] /\ owed \subseteq Key
  BY Facts
<1>3. i >= 1 /\ kind # "weak" /\ spoilt \in BOOLEAN /\ Ahead(map, i, owed, spoilt)
  BY <1>1 DEF IInv, Sane, WalkOK, NoWalk, Owes
<1>4. i \in 1 .. Len(map.entries)
  BY <1>1, <1>2, <1>3
<1>5. /\ walk'.at = "callback" /\ walk'.i = i
      /\ walk' \in [at : {"none", "loop", "callback"}, i : Nat]
  BY <1>1, <1>2
<1>6. /\ k \in From(map, i)
      /\ \A j \in 1 .. i - 1 : map.entries[j].key \notin From(map, i)
      /\ From(map, i + 1) = From(map, i) \ {k}
  BY <1>2, <1>4, FirstOwed
<1>7. Owes(map, walk', owed', spoilt)
  <2>1. Ahead(map, i + 1, owed', spoilt)
    <3> HIDE DEF i, k
    <3> QED
      BY <1>1, <1>3, <1>6 DEF Ahead
  <2> QED
    BY <1>1, <1>5, <2>1 DEF Owes
<1>8. WalkOK(kind, held, map, op, walk', owed', spoilt)
  BY <1>1, <1>2, <1>3, <1>5, <1>7 DEF IInv, Sane, WalkOK
<1>9. IInv'
  <2>1. k \in Key /\ v \in Value
    BY <1>2, <1>4, ShapeFields
  <2>2. did' \in Happenings
    BY <1>1, <2>1 DEF Did, Happenings
  <2> QED
    BY <1>1, <1>3, <1>8, <2>2 DEF IInv, Sane, Still
<1>10. Contract!Meet /\ k \in owed
  <2>1. k \in owed /\ (spoilt \/ owed = From(map, i))
    BY <1>3, <1>6 DEF Ahead
  <2>2. i \in DOMAIN map.entries
    BY <1>2, <1>4
  <2>3. spoilt \/ \A j \in 1 .. i - 1 : map.entries[j].key \notin owed
    BY <1>6, <2>1
  <2> QED
    BY <1>1, <1>5, <2>1, <2>2, <2>3 DEF Contract!Meet, Contract!Did, Did
<1> QED
  BY <1>1, <1>5, <1>9, <1>10 DEF Stepping, Meets, Contract!Next

LEMMA EachReturnStep ==
  ASSUME IInv, ~astray, eachReturn
  PROVE  Stepping
<1>1. /\ walk.at = "callback" /\ op = Idle
      /\ walk' = [at |-> "loop", i |-> walk.i + 1] /\ did' = Nothing
      /\ UNCHANGED <<kind, hash, held, map, op, owed, spoilt, astray>>
  BY DEF eachReturn, Running
<1>2. walk \in [at : {"none", "loop", "callback"}, i : Nat]
  BY Facts
<1>3. kind # "weak" /\ WalkOK(kind, held, map, op, walk', owed, spoilt)
  <2>1. walk.i + 1 \in Nat /\ walk.i + 1 >= 1
    BY <1>2
  <2> QED
    BY <1>1, <2>1 DEF IInv, Sane, WalkOK, Owes, NoWalk
<1>4. IInv'
  BY <1>1, <1>3 DEF IInv, Sane, Still, Nothing, Did, Happenings
<1>5. Contract!Next
  BY <1>1, NothingContract
<1> QED
  BY <1>1, <1>4, <1>5 DEF Stepping, Meets

(* The walk is over: nothing is owed any more.                                 *)
LEMMA OverStep ==
  ASSUME IInv, ~astray, NEW how \in {"end", "throw"}, walk.at # "none", WalkOver(how),
         op = Idle
  PROVE  IInv' /\ Contract!Over(how)
<1>1. /\ walk' = NoWalk /\ owed' = {} /\ spoilt' = FALSE /\ did' = Did(how, None, None)
      /\ UNCHANGED <<kind, hash, held, map, op, astray>>
  BY DEF WalkOver
<1>2. WalkOK(kind, held, map, op, walk', owed', spoilt')
  BY <1>1 DEF IInv, Sane, WalkOK, Owes, NoWalk
<1>3. IInv'
  BY <1>1, <1>2 DEF IInv, Sane, Still, Did, Happenings
<1>4. Contract!Over(how)
  BY <1>1 DEF Contract!Over, Contract!Did, Did, NoWalk
<1> QED
  BY <1>3, <1>4

LEMMA EachEndStep ==
  ASSUME IInv, ~astray, eachEnd
  PROVE  Stepping
<1>1. walk.at = "loop" /\ walk.i > Len(map.entries) /\ WalkOver("end") /\ walk' = NoWalk
  BY DEF eachEnd, WalkOver
<1>2. /\ walk \in [at : {"none", "loop", "callback"}, i : Nat]
      /\ Len(map.entries) \in Nat /\ op = Idle
  BY <1>1, Facts
<1>3. owed = {} \/ spoilt
  <2>1. Ahead(map, walk.i, owed, spoilt)
    BY <1>1 DEF IInv, Sane, WalkOK, Owes
  <2>2. \A n \in walk.i .. Len(map.entries) : FALSE
    BY <1>1, <1>2
  <2>3. From(map, walk.i) = {}
    BY <2>2 DEF From
  <2> QED
    BY <2>1, <2>3 DEF Ahead
<1>4. IInv' /\ Contract!Over("end")
  BY <1>1, <1>2, OverStep
<1>5. Contract!End
  BY <1>3, <1>4 DEF Contract!End
<1> QED
  BY <1>1, <1>3, <1>4, <1>5 DEF Stepping, Meets, Contract!Next, NoWalk

LEMMA EachThrowStep ==
  ASSUME IInv, ~astray, eachThrow
  PROVE  Stepping
<1>1. walk.at = "callback" /\ op = Idle /\ WalkOver("throw")
  BY DEF eachThrow, Running
<1>2. IInv' /\ Contract!Over("throw")
  BY <1>1, OverStep
<1> QED
  BY <1>1, <1>2 DEF Stepping, Meets, Contract!Next, Contract!Abandon

LEMMA DieStep ==
  ASSUME IInv, ~astray, NEW k \in Key, die(k)
  PROVE  Stepping
<1>1. /\ op = Idle /\ walk.at # "loop" /\ kind = "weak" /\ held' = held \ {k}
      /\ did' = Nothing /\ UNCHANGED <<kind, hash, map, op, walk, owed, spoilt, astray>>
  BY DEF die, Running
<1>2. CallOK(kind, hash, held', map, op)
  BY <1>1 DEF IInv, Sane, CallOK, Idle
<1>3. WalkOK(kind, held', map, op, walk, owed, spoilt)
  BY DEF IInv, Sane, WalkOK
<1>4. IInv'
  BY <1>1, <1>2, <1>3 DEF IInv, Sane, Still, Nothing, Did, Happenings
<1>5. Contract!Die(k)
  BY <1>1 DEF Contract!Die, Contract!Nothing, Contract!Did, Nothing, Did
<1> QED
  BY <1>1, <1>4, <1>5 DEF Stepping, Meets, Contract!Next

(* A collection, at whichever allocation.                                      *)
LEMMA CollectStep ==
  ASSUME IInv, ~astray, collect
  PROVE  Stepping
<1> DEFINE s == map.entries
           dead == KeysOf(s) \ held
           rest == Without(s, dead)
           n == Len(map.index)
           m == [map EXCEPT !.entries = rest, !.size = Len(rest)]
           r == Reindexed(m, n)
<1>1. /\ kind = "weak" /\ dead # {} /\ did' = Nothing
      /\ op' = IF op.at = "grow" THEN [op EXCEPT !.struck = TRUE] ELSE op
      /\ UNCHANGED <<kind, hash, held, walk, owed, spoilt, astray>>
  BY DEF collect
<1>2. /\ Shape(map) /\ hash \in [Key -> Nat] /\ held \subseteq Key /\ s \in Seq(Entries)
      /\ Len(s) \in Nat /\ Distinct(s) /\ DOMAIN s = 1 .. Len(s)
  BY Facts
<1>3. /\ rest \in Seq(Entries) /\ Len(rest) <= Len(s) /\ Distinct(rest)
      /\ KeysOf(rest) = KeysOf(s) \ dead
  BY <1>2, Leaving
<1>4. Len(rest) \in Nat
  BY <1>3, LenProperties
<1> HIDE DEF rest
<1>5. map.index # <<>> /\ n \in Nat \ {0}
  <2>1. map.index = <<>> => s = <<>> /\ Len(s) = 0
    BY <1>2, ShapeFields
  <2>2. Len(s) = 0 => KeysOf(s) = {}
    BY <1>2 DEF KeysOf
  <2>3. map.index # <<>>
    BY <1>1, <2>1, <2>2
  <2> QED
    BY <1>2, <2>3, ShapeFields
<1>6. /\ m \in Maps /\ m.entries = rest /\ m.size = Len(rest)
      /\ m.index = map.index /\ m.capacity = map.capacity
  <2>1. map \in Maps
    BY <1>2 DEF Shape
  <2> QED
    BY <1>3, <1>4, <2>1 DEF Maps
<1> HIDE DEF m
<1>7. Shape(m) /\ Roomy(n, Len(m.entries))
  <2>1. /\ Len(s) <= map.capacity /\ map.capacity \in Nat
        /\ map.index \in Seq(0 .. map.capacity) /\ 4 * Len(s) <= 3 * n
    BY <1>2, ShapeFields DEF Shape, Roomy
  <2>2. Len(rest) <= map.capacity /\ 4 * Len(rest) <= 3 * n
    BY <1>2, <1>3, <1>4, <1>5, <2>1
  <2> QED
    BY <1>3, <1>6, <2>1, <2>2 DEF Shape, Roomy
<1> HIDE DEF n
<1>8. /\ Shape(r) /\ Whole(hash, r) /\ r.entries = rest
      /\ r.capacity = m.capacity /\ r.index # <<>> /\ Len(r.index) = n
  BY <1>2, <1>5, <1>6, <1>7, Rebuilding
<1>9. map' = r
  <2>1. map' = [map EXCEPT !.entries = rest, !.size = Len(rest), !.index = Indexed(rest, n)]
    BY DEF collect, rest, n, IndexCapacity
  <2>2. r = [m EXCEPT !.index = Indexed(rest, n)]
    BY <1>6 DEF Reindexed
  <2>3. map \in Maps
    BY <1>2 DEF Shape
  <2> QED
    BY <2>1, <2>2, <2>3 DEF m, Maps
<1> HIDE DEF r
<1>10. CallOK(kind, hash, held, r, op')
  <2>1. CallOK(kind, hash, held, map, op)
    BY DEF IInv, Sane
  <2>2. ASSUME NEW o, NEW x \in Nat, o.key = op.key, o.value = op.value, Fresh(held, map, op, x)
        PROVE  Fresh(held, r, o, x)
    <3>1. o.key \in held /\ o.value \in Value /\ o.key \notin KeysOf(r.entries)
      BY <1>3, <1>8, <2>2 DEF Fresh
    <3>2. Roomy(x, Len(r.entries) + 1)
      <4>1. 4 * (Len(s) + 1) <= 3 * x
        BY <2>2 DEF Fresh, Roomy
      <4>2. 4 * (Len(rest) + 1) <= 3 * x
        BY <1>2, <1>3, <1>4, <4>1
      <4> QED
        BY <1>8, <4>2 DEF Roomy
    <3> QED
      BY <3>1, <3>2 DEF Fresh
  <2>3. CASE op = Idle
    BY <1>1, <1>8, <2>3 DEF CallOK, Idle
  <2>4. CASE op.at = "index" /\ op.then = "add" /\ op.size \in Nat /\ Fresh(held, map, op, op.size)
    <3>1. op' = op /\ Fresh(held, r, op, op.size)
      BY <1>1, <2>2, <2>4
    <3> QED
      BY <2>4, <3>1 DEF CallOK
  <2>5. CASE op.at = "index" /\ op.then = "deleted" /\ op.size = Len(map.index)
    BY <1>1, <1>8, <2>5 DEF CallOK, n
  <2>6. CASE op.at = "grow" /\ op # Idle
    <3>1. /\ Fresh(held, map, op, n) /\ op.slot \in 1 .. n
          /\ op = [at |-> "grow", key |-> op.key, value |-> op.value, slot |-> op.slot,
                   struck |-> op.struck]
      BY <2>1, <2>6 DEF CallOK, n
    <3>2. op' = [at |-> "grow", key |-> op.key, value |-> op.value, slot |-> op.slot,
                 struck |-> TRUE]
      <4> DEFINE a == op.key
                 b == op.value
                 c == op.slot
                 d == op.struck
      <4>1. op' = [op EXCEPT !.struck = TRUE]
        BY <1>1, <2>6
      <4>2. op = [at |-> "grow", key |-> a, value |-> b, slot |-> c, struck |-> d]
        BY <3>1
      <4> HIDE DEF a, b, c, d
      <4>3. op' = [at |-> "grow", key |-> a, value |-> b, slot |-> c, struck |-> TRUE]
        BY <4>1, <4>2
      <4> QED
        BY <4>3 DEF a, b, c
    <3>3. /\ op'.at = "grow" /\ op'.key = op.key /\ op'.value = op.value
          /\ op'.slot = op.slot /\ op'.struck = TRUE
          /\ op' = [at |-> "grow", key |-> op'.key, value |-> op'.value, slot |-> op'.slot,
                   struck |-> op'.struck]
      BY <3>2
    <3>4. Fresh(held, r, op', n)
      BY <1>5, <2>2, <3>1, <3>3
    <3> QED
      BY <1>1, <1>8, <3>1, <3>3, <3>4 DEF CallOK
  <2> QED
    BY <1>5, <2>1, <2>3, <2>4, <2>5, <2>6 DEF CallOK
<1>11. WalkOK(kind, held, r, op', walk, owed, spoilt)
  BY <1>1 DEF IInv, Sane, WalkOK, Owes, NoWalk
<1>12. IInv'
  BY <1>1, <1>8, <1>9, <1>10, <1>11 DEF IInv, Sane, Still, Nothing, Did, Happenings
<1>13. Contract!Next
  <2>1. map'.entries = Without(map.entries, KeysOf(map.entries) \ held)
    BY <1>8, <1>9 DEF rest
  <2>2. Contract!Forget
    BY <1>1, <2>1, SameLeaving DEF Contract!Forget, Contract!Nothing, Contract!Did, Nothing, Did
  <2> QED
    BY <2>2 DEF Contract!Next
<1> QED
  BY <1>1, <1>12, <1>13 DEF Stepping, Meets, IInv, Sane, WalkOK, NoWalk

------------------------------------------------------------------------------
(* What follows.                                                               *)

LEMMA InitKeeps ==
  ASSUME Init
  PROVE  IInv /\ Contract!Init
<1>1. /\ kind \in Kinds /\ hash \in [Key -> Hashes] /\ held = Key /\ map = csMapNew
      /\ op = Idle /\ walk = NoWalk /\ did = Nothing
      /\ owed = {} /\ spoilt = FALSE /\ astray = FALSE
  BY DEF Init
<1>2. <<>> \in Seq(Entries) /\ <<>> \in Seq(Nat) /\ <<>> \in Seq(0 .. 0) /\ Len(<<>>) = 0
  OBVIOUS
<1>3. /\ map \in Maps /\ map.entries = <<>> /\ map.capacity = 0
      /\ map.index = <<>> /\ map.size = 0
  BY <1>1, <1>2 DEF csMapNew, Maps
<1>4. Shape(map)
  BY <1>2, <1>3 DEF Shape, Roomy, Distinct
<1>5. CallOK(kind, hash, held, map, op)
  BY <1>1, <1>3 DEF CallOK, Whole
<1>6. WalkOK(kind, held, map, op, walk, owed, spoilt)
  BY <1>1 DEF WalkOK, Owes, NoWalk
<1>7. IInv
  BY <1>1, <1>4, <1>5, <1>6 DEF IInv, Sane, Still, Nothing, Did, Happenings
<1>8. Contract!Init
  BY <1>1, <1>3 DEF Contract!Init, NoWalk, Contract!Nothing, Contract!Did, Nothing, Did
<1> QED
  BY <1>7, <1>8

LEMMA NextKeeps ==
  ASSUME IInv, ~astray, Next
  PROVE  Stepping
BY SetStep, RehashStep, GrowStep, DeleteStep, ClearStep, GetStep, EachStartStep, EachCallStep,
   EachReturnStep, EachEndStep, EachThrowStep, DieStep, CollectStep DEF Next

(* What has gone astray stays so.                                              *)
LEMMA StaysAstray ==
  ASSUME IInv, astray, Next
  PROVE  IInv' /\ Meets
<1>1. kind = "weak" /\ walk = NoWalk
  BY DEF IInv
<1>2. kind' = kind /\ astray' = astray /\ walk' = walk
  BY <1>1 DEF Next, set, rehash, grow, delete, clear, get, eachStart, eachCall, eachReturn,
     eachEnd, eachThrow, WalkOver, die, collect, NoWalk
<1> QED
  BY <1>1, <1>2 DEF IInv, Meets, NoWalk

LEMMA StepKeeps ==
  ASSUME IInv, [Next]_vars
  PROVE  IInv' /\ [Meets]_vars
<1>1. CASE Next
  BY <1>1, NextKeeps, StaysAstray DEF Stepping
<1>2. CASE UNCHANGED vars
  BY <1>2 DEF vars, IInv, Sane, Still
<1> QED
  BY <1>1, <1>2

(* The entries are those of distinct keys, and the index leads a search to each*)
(* of them and to nothing else, with room for one more; so does the one that a *)
(* call under way will build; and a walk has yet to meet what follows its place*)
(* at least - until a weak collection that is collected while its array grows  *)
(* has an entry astray.                                                        *)
THEOREM Invariance == Spec => []IInv
<1>1. Init => IInv
  BY InitKeeps
<1>2. IInv /\ [Next]_vars => IInv'
  BY StepKeeps
<1> QED
  BY <1>1, <1>2, PTL DEF Spec

(* findSlot finds every entry, only entries that are there, and comes to an    *)
(* end, whatever was set, deleted, moved and collected before; only in a weak  *)
(* collection, and by the place csMapSet keeps over an allocation, can an entry*)
(* go astray.                                                                  *)
THEOREM EveryLookupFinds == Spec => []LookupFinds
<1>1. IInv => LookupFinds
  <2> SUFFICES ASSUME IInv, ~astray PROVE LookupFinds
    BY DEF IInv, LookupFinds
  <2>1. /\ hash \in [Key -> Nat] /\ Shape(map) /\ owed \subseteq Key
        /\ DOMAIN map.entries = 1 .. Len(map.entries) /\ Len(map.entries) \in Nat
        /\ walk \in [at : {"none", "loop", "callback"}, i : Nat]
    BY Facts
  <2>2. /\ map.entries \in Seq(Entries) /\ map.capacity \in Nat
        /\ Len(map.entries) <= map.capacity /\ map.index \in Seq(0 .. map.capacity)
        /\ map.size = Len(map.entries)
    BY <2>1, ShapeFields DEF Shape
  <2>3. op.at \in {"program", "index", "grow"}
    BY DEF IInv, Sane, CallOK, Idle
  <2>4. TypeOK
    BY <2>1, <2>2, <2>3 DEF TypeOK, IInv, Sane, Still
  <2>5. ASSUME op = Idle
        PROVE  /\ \A n \in DOMAIN map.entries : EntryOf(map, map.entries[n].key) = n
               /\ \A p \in DOMAIN map.index : map.index[p] \in 0..Len(map.entries)
               /\ map.index # <<>> => \E p \in DOMAIN map.index : map.index[p] = 0
    <3>1. Whole(hash, map)
      BY <2>5 DEF IInv, Sane, CallOK, Idle
    <3>2. \A n \in DOMAIN map.entries : EntryOf(map, map.entries[n].key) = n
      BY <2>1, <3>1, ShapeFields, Getting
    <3>3. CASE map.index = <<>>
      BY <3>2, <3>3
    <3>4. CASE map.index # <<>>
      <4>1. Sound(hash, map.index, map.entries, Len(map.entries))
            /\ Len(map.entries) < Len(map.index) /\ DOMAIN map.index = 1 .. Len(map.index)
        BY <2>1, <3>1, <3>4, ShapeFields DEF Whole
      <4>2. \E p \in 1 .. Len(map.index) : map.index[p] = 0
        BY <2>1, <4>1, FreePlace
      <4>3. map.index \in Seq(0 .. Len(map.entries))
        BY <4>1 DEF Sound
      <4>4. \A p \in DOMAIN map.index : map.index[p] \in 0..Len(map.entries)
        BY <4>1, <4>3, ElementOfSeq
      <4> QED
        BY <3>2, <4>1, <4>2, <4>4
    <3> QED
      BY <3>3, <3>4
  <2> QED
    BY <2>4, <2>5 DEF LookupFinds, Finds
<1> QED
  BY <1>1, Invariance, PTL

(* forEach meets no entry twice, and each that stays, those added on the way   *)
(* included, unless its callback took out one that it had passed.              *)
THEOREM WalksMeetEach == Spec => WalkMeetsEach
<1>1. IInv /\ [Next]_vars => [Meets]_vars
  BY StepKeeps
<1>2. [Meets]_vars => [/\ walk.at = "loop" /\ walk'.at = "callback" => map.entries[walk.i].key \in owed
                       /\ walk.at = "loop" /\ walk'.at = "none" => owed = {} \/ spoilt]_vars
  BY DEF Meets
<1> QED
  BY <1>1, <1>2, Invariance, PTL DEF Spec, WalkMeetsEach

(* Every step is one of the collection, until an entry has gone astray.        *)
LEMMA StepImplements ==
  ASSUME IInv, ~astray, [Next]_vars
  PROVE  [Contract!Next]_(Contract!vars)
<1>1. CASE Next
  BY <1>1, NextKeeps DEF Stepping
<1>2. CASE UNCHANGED vars
  BY <1>2 DEF vars, Contract!vars
<1> QED
  BY <1>1, <1>2

(* To a program the structure is a map that remembers the order of its keys:   *)
(* what a lookup answers, what each call changes, what a walk meets and what a *)
(* collection takes is what KeyedCollection says, until an entry has gone      *)
(* astray.                                                                     *)
THEOREM ImplementsCollection == Spec => KeepsCollection
<1>1. Init => Contract!Init
  BY InitKeeps
<1>2. IInv /\ [Next]_vars => [Contract!Next \/ astray]_(Contract!vars)
  BY StepImplements
<1> QED
  BY <1>1, <1>2, Invariance, PTL DEF Spec, KeepsCollection

(* Of a Map or a Set this holds without exception, whatever callbacks do.      *)
THEOREM StrongIsCollection == Kinds = {"strong"} => (Spec => Contract!Spec)
<1> SUFFICES ASSUME Kinds = {"strong"} PROVE Spec => Contract!Spec
  OBVIOUS
<1>1. Init => Contract!Init
  BY InitKeeps
<1>2. IInv => ~astray
  BY DEF IInv
<1>3. IInv /\ [Next]_vars => [Contract!Next]_(Contract!vars)
  BY <1>2, StepImplements
<1> QED
  BY <1>1, <1>3, Invariance, PTL DEF Spec, Contract!Spec

================================================================================
