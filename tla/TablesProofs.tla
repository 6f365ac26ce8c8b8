----------------------------- MODULE TablesProofs -----------------------------
(* Proofs about the hash table, for any number of keys, any hashes and any     *)
(* capacities: a probe ends, the pointers that sites keep are good, and the    *)
(* table implements a map, whatever is deleted, collected and moved.           *)
EXTENDS Tables, FiniteSetTheorems, WellFoundedInduction, TLAPS

------------------------------------------------------------------------------
(* Probing.                                                                    *)

(* A set of natural numbers has a least one.                                   *)
LEMMA LeastOf ==
  ASSUME NEW S, S \subseteq Nat, S # {}
  PROVE  \E n \in S : \A k \in S : n <= k
<1> DEFINE R == {pair \in Nat \X Nat : pair[1] < pair[2]}
<1>1. OpToRel(<, Nat) = R
  BY Zenon DEF OpToRel
<1>2. PICK n \in S : \A k \in S : ~ (<<k, n>> \in R)
  <2> HIDE DEF R
  <2> QED
    BY <1>1, NatLessThanWellFounded, WFMin
<1>3. ASSUME NEW k \in S
      PROVE  n <= k
  <2>1. k \in Nat /\ n \in Nat
    OBVIOUS
  <2>2. k < n => <<k, n>> \in R
    BY <2>1
  <2>3. ~ (k < n)
    <3> HIDE DEF R
    <3> QED
      BY <2>2, <1>2
  <2> QED
    BY <2>1, <2>3
<1> QED
  BY <1>3

(* The probe for a key passes each place of the array once.                    *)
LEMMA Probing ==
  ASSUME NEW n \in Nat \ {0}, NEW k \in Key
  PROVE  /\ \A d \in 0 .. n - 1 : Place(n, k, d) \in 0 .. n - 1
         /\ \A i \in 0 .. n - 1 : \E d \in 0 .. n - 1 : Place(n, k, d) = i
<1> DEFINE h == Hash[k] % n
<1>1. h \in 0 .. n - 1
  BY TablesAssumption
<1> HIDE DEF h
<1>2. \A d \in Nat : Place(n, k, d) = IF h + d < n THEN h + d ELSE h + d - n
  BY <1>1 DEF Place, h
<1>3. ASSUME NEW i \in 0 .. n - 1
      PROVE  \E d \in 0 .. n - 1 : Place(n, k, d) = i
  <2>1. CASE i >= h
    <3>1. i - h \in 0 .. n - 1 /\ h + (i - h) = i
      BY <1>1, <2>1
    <3> QED
      BY <1>2, <3>1
  <2>2. CASE i < h
    <3> DEFINE d == i + n - h
    <3>1. d \in 0 .. n - 1 /\ d \in Nat /\ h + d - n = i /\ ~(h + d < n)
      BY <1>1, <2>2
    <3> HIDE DEF d
    <3>2. Place(n, k, d) = i
      BY <1>2, <3>1
    <3> QED
      BY <3>1, <3>2
  <2> QED
    BY <1>1, <2>1, <2>2
<1> QED
  BY <1>1, <1>2, <1>3

(* A table is sound if each key is in it once, where a probe comes to it.      *)
Reached(e, n) ==
  \A i \in 0 .. n - 1 : e[i].key # NoKey =>
    \E d \in 0 .. n - 1 : Place(n, e[i].key, d) = i /\ Meets(e, n, e[i].key, d)
Once(e, n) ==
  \A i, j \in 0 .. n - 1 : e[i].key = e[j].key /\ e[i].key # NoKey => i = j
Sound(e, n) == e \in Arrays(n) /\ Reached(e, n) /\ Once(e, n)

Has(e, n, k) == \E i \in 0 .. n - 1 : e[i].key = k
Room(e, n) == \E i \in 0 .. n - 1 : e[i] = Empty

(* A key that is there is found, where it is.                                  *)
LEMMA FoundThere ==
  ASSUME NEW n \in Nat \ {0}, NEW e, Sound(e, n),
         NEW i \in 0 .. n - 1, e[i].key \in Key
  PROVE  findEntry(e, n, e[i].key) = i /\ Present(e, n, e[i].key)
<1> DEFINE k == e[i].key
<1>1. k # NoKey
  BY TablesAssumption
<1>2. PICK d \in 0 .. n - 1 : Place(n, k, d) = i /\ Meets(e, n, k, d)
  BY <1>1 DEF Sound, Reached
<1>3. Present(e, n, k)
  BY <1>2 DEF Present
<1> DEFINE c == CHOOSE x \in 0 .. n - 1 : Meets(e, n, k, x)
<1>4. findEntry(e, n, k) = Place(n, k, c)
  BY <1>3 DEF findEntry
<1>5. c \in 0 .. n - 1 /\ Meets(e, n, k, c)
  BY <1>2
<1> HIDE DEF c
<1>6. Place(n, k, c) \in 0 .. n - 1 /\ e[Place(n, k, c)].key = k
  BY <1>5, Probing DEF Meets
<1>7. Place(n, k, c) = i
  BY <1>1, <1>6 DEF Sound, Once
<1> QED
  BY <1>3, <1>4, <1>7

(* For one that is not, the place found has no key, and none before it had.    *)
LEMMA FoundFree ==
  ASSUME NEW n \in Nat \ {0}, NEW e, NEW k \in Key, Room(e, n), ~Has(e, n, k)
  PROVE  /\ ~Present(e, n, k)
         /\ findEntry(e, n, k) \in 0 .. n - 1
         /\ e[findEntry(e, n, k)].key = NoKey
         /\ \E d \in 0 .. n - 1 :
              /\ Place(n, k, d) = findEntry(e, n, k)
              /\ \A c \in 0 .. d - 1 : e[Place(n, k, c)].key # NoKey
<1>1. ~Present(e, n, k)
  BY Probing DEF Present, Meets, Has
<1>2. \E d \in 0 .. n - 1 : Free(e, n, k, d)
  <2> DEFINE S == {d \in 0 .. n - 1 : e[Place(n, k, d)].key = NoKey}
  <2>1. S # {} /\ S \subseteq Nat
    BY Probing DEF Room, Empty
  <2> HIDE DEF S
  <2>2. PICK d \in S : \A c \in S : d <= c
    BY <2>1, LeastOf
  <2>3. d \in 0 .. n - 1 /\ e[Place(n, k, d)].key = NoKey
    BY <2>2 DEF S
  <2>4. \A c \in 0 .. d - 1 : e[Place(n, k, c)].key # NoKey
    BY <2>2, <2>3 DEF S
  <2> QED
    BY <2>3, <2>4 DEF Free
<1> DEFINE c == CHOOSE d \in 0 .. n - 1 : Free(e, n, k, d)
<1>3. findEntry(e, n, k) = Place(n, k, c)
  BY <1>1 DEF findEntry
<1>4. c \in 0 .. n - 1 /\ Free(e, n, k, c)
  BY <1>2
<1> HIDE DEF c
<1> QED
  BY <1>1, <1>3, <1>4, Probing DEF Free

(* A search of a sound table with room ends at the key, if it is there.        *)
LEMMA Searching ==
  ASSUME NEW n \in Nat \ {0}, NEW e, Sound(e, n), Room(e, n), NEW k \in Key
  PROVE  /\ findEntry(e, n, k) \in 0 .. n - 1
         /\ e[findEntry(e, n, k)].key = IF Has(e, n, k) THEN k ELSE NoKey
         /\ Present(e, n, k) <=> Has(e, n, k)
<1>1. CASE Has(e, n, k)
  <2>1. PICK i \in 0 .. n - 1 : e[i].key = k
    BY <1>1 DEF Has
  <2> QED
    BY <1>1, <2>1, FoundThere
<1>2. CASE ~Has(e, n, k)
  BY <1>2, FoundFree
<1> QED
  BY <1>1, <1>2

------------------------------------------------------------------------------
(* Counting.                                                                   *)

(* The places that are, or were, used: what count counts.                      *)
Used(e, n) == {i \in 0 .. n - 1 : e[i] # Empty}

(* There are no more of them than places, and one that is not if there are less. *)
LEMMA Counting ==
  ASSUME NEW n \in Nat, NEW e
  PROVE  /\ IsFiniteSet(Used(e, n)) /\ Cardinality(Used(e, n)) \in 0 .. n
         /\ Cardinality(Used(e, n)) < n => Room(e, n)
         /\ Cardinality(Used(e, n)) = 0 => Used(e, n) = {}
<1>1. IsFiniteSet(0 .. n - 1) /\ Cardinality(0 .. n - 1) = n
  BY FS_Interval
<1>2. Used(e, n) \in SUBSET (0 .. n - 1)
  BY DEF Used
<1>3. IsFiniteSet(Used(e, n)) /\ Cardinality(Used(e, n)) <= n
  BY <1>1, <1>2, FS_Subset
<1>4. Cardinality(Used(e, n)) \in Nat
  BY <1>3, FS_CardinalityType
<1>5. Cardinality(Used(e, n)) < n => Room(e, n)
  <2>1. Cardinality(Used(e, n)) < n => Used(e, n) # 0 .. n - 1
    BY <1>1, <1>4
  <2> QED
    BY <2>1 DEF Used, Room
<1>6. Cardinality(Used(e, n)) = 0 => Used(e, n) = {}
  BY <1>3, FS_EmptySet
<1> QED
  BY <1>3, <1>4, <1>5, <1>6

------------------------------------------------------------------------------
(* Entering and deleting.                                                      *)

Entered(e, n, k, v) == [e EXCEPT ![findEntry(e, n, k)] = [key |-> k, value |-> v]]

(* A sound table stays sound, with one key more or another value for one.      *)
LEMMA Entering ==
  ASSUME NEW n \in Nat \ {0}, NEW e, Sound(e, n), Room(e, n), NEW k \in Key, NEW v \in Value
  PROVE  LET i == findEntry(e, n, k)
             f == Entered(e, n, k, v)
         IN  /\ Sound(f, n)
             /\ i \in 0 .. n - 1 /\ f[i].key = k /\ f[i].value = v
             /\ e[i].key \in {k, NoKey}
             /\ \A x \in 0 .. n - 1 : x # i => f[x] = e[x] /\ e[x].key # k
             /\ Cardinality(Used(f, n)) = Counted(Cardinality(Used(e, n)), e, i)
<1> DEFINE i == findEntry(e, n, k)
<1> DEFINE f == Entered(e, n, k, v)
<1>1. i \in 0 .. n - 1 /\ e[i].key = IF Has(e, n, k) THEN k ELSE NoKey
  BY Searching
<1>2. e \in [0 .. n - 1 -> Entry] /\ k # NoKey
  BY TablesAssumption DEF Sound, Arrays
<1>3. /\ f \in [0 .. n - 1 -> Entry]
      /\ f[i].key = k /\ f[i].value = v
      /\ \A x \in 0 .. n - 1 : x # i => f[x] = e[x]
  BY <1>1, <1>2 DEF Entry, Entered
<1>4. \A x \in 0 .. n - 1 : x # i => e[x].key # k
  BY <1>1, <1>2 DEF Sound, Once, Has
<1>5. \A x \in 0 .. n - 1 : e[x] # Empty => f[x] # Empty
  BY <1>2, <1>3 DEF Empty
<1>6. Once(f, n)
  BY <1>1, <1>2, <1>3, <1>4 DEF Sound, Once
<1>7. \E d \in 0 .. n - 1 : Place(n, k, d) = i /\ \A c \in 0 .. d - 1 : e[Place(n, k, c)] # Empty
  <2>1. CASE Has(e, n, k)
    <3>1. PICK d \in 0 .. n - 1 : Place(n, k, d) = i /\ Meets(e, n, k, d)
      BY <1>1, <1>2, <2>1 DEF Sound, Reached
    <3> QED
      BY <3>1 DEF Meets
  <2>2. CASE ~Has(e, n, k)
    <3>1. PICK d \in 0 .. n - 1 :
            Place(n, k, d) = i /\ \A c \in 0 .. d - 1 : e[Place(n, k, c)].key # NoKey
      BY <2>2, FoundFree
    <3> QED
      BY <3>1 DEF Empty
  <2> QED
    BY <2>1, <2>2
<1> HIDE DEF i, f
<1>8. Reached(f, n)
  <2> SUFFICES ASSUME NEW x \in 0 .. n - 1, f[x].key # NoKey
               PROVE  \E d \in 0 .. n - 1 : Place(n, f[x].key, d) = x /\ Meets(f, n, f[x].key, d)
    BY DEF Reached
  <2> DEFINE q == f[x].key
  <2>1. q \in Key
    BY <1>3 DEF Entry
  <2>2. PICK d \in 0 .. n - 1 : Place(n, q, d) = x /\ \A c \in 0 .. d - 1 : e[Place(n, q, c)] # Empty
    <3>1. CASE x = i
      BY <1>3, <1>7, <3>1
    <3>2. CASE x # i
      <4>1. f[x] = e[x]
        BY <1>3, <3>2
      <4> QED
        BY <4>1 DEF Sound, Reached, Meets
    <3> QED
      BY <3>1, <3>2
  <2> HIDE DEF q
  <2>3. \A c \in 0 .. d - 1 : Place(n, q, c) \in 0 .. n - 1
    <3>1. \A c \in 0 .. n - 1 : Place(n, q, c) \in 0 .. n - 1
      BY <2>1, Probing
    <3>2. d \in 0 .. n - 1 /\ 0 .. d - 1 \subseteq 0 .. n - 1
      BY <2>2
    <3> QED
      BY <3>1, <3>2
  <2>4. ASSUME NEW c \in 0 .. d - 1
        PROVE  f[Place(n, q, c)] # Empty
    <3> DEFINE p == Place(n, q, c)
    <3>1. p \in 0 .. n - 1 /\ e[p] # Empty
      BY <2>2, <2>3
    <3> HIDE DEF p
    <3>2. f[p] # Empty
      BY <1>5, <3>1
    <3> QED
      BY <3>2 DEF p
  <2> QED
    BY <2>2, <2>4 DEF Meets, q
<1>9. Sound(f, n)
  BY <1>3, <1>6, <1>8 DEF Sound, Arrays
<1>10. Cardinality(Used(f, n)) = Counted(Cardinality(Used(e, n)), e, i)
  <2>1. Used(f, n) = Used(e, n) \cup {i}
    BY <1>1, <1>2, <1>3, <1>5 DEF Used, Empty
  <2>2. IsFiniteSet(Used(e, n))
    BY Counting
  <2>3. i \in Used(e, n) <=> e[i] # Empty
    BY <1>1 DEF Used
  <2> QED
    BY <2>1, <2>2, <2>3, FS_AddElement DEF Counted
<1> QED
  BY <1>1, <1>3, <1>4, <1>9, <1>10 DEF i, f

Gone(e, n, ks) ==
  [i \in 0 .. n - 1 |-> IF \E k \in ks : i = findEntry(e, n, k) THEN Tombstone ELSE e[i]]

(* Deleting keys leaves the others where they are found.                       *)
LEMMA Deleting ==
  ASSUME NEW n \in Nat \ {0}, NEW e, Sound(e, n), NEW ks \in SUBSET Key,
         \A k \in ks : Has(e, n, k)
  PROVE  LET f == Gone(e, n, ks)
         IN  /\ Sound(f, n)
             /\ Used(f, n) = Used(e, n)
             /\ \A x \in 0 .. n - 1 : f[x] = IF e[x].key \in ks THEN Tombstone ELSE e[x]
<1> DEFINE f == Gone(e, n, ks)
<1>1. e \in [0 .. n - 1 -> Entry] /\ NoKey \notin ks
  BY TablesAssumption DEF Sound, Arrays
<1>2. \A k \in ks : findEntry(e, n, k) \in 0 .. n - 1 /\ e[findEntry(e, n, k)].key = k
  <2> TAKE k \in ks
  <2>1. PICK i \in 0 .. n - 1 : e[i].key = k
    BY DEF Has
  <2> QED
    BY <2>1, FoundThere
<1>3. ASSUME NEW x \in 0 .. n - 1
      PROVE  f[x] = IF e[x].key \in ks THEN Tombstone ELSE e[x]
  <2>1. e[x].key \in ks <=> \E k \in ks : x = findEntry(e, n, k)
    BY <1>1, <1>2 DEF Sound, Once
  <2> QED
    BY <2>1 DEF Gone
<1>4. f \in [0 .. n - 1 -> Entry]
  <2>1. Tombstone \in Entry
    BY TablesAssumption DEF Tombstone, Entry
  <2> QED
    BY <1>1, <2>1 DEF Gone
<1>5. \A x \in 0 .. n - 1 : f[x] # Empty <=> e[x] # Empty
  <2>1. Tombstone # Empty
    BY TablesAssumption DEF Tombstone, Empty
  <2>2. \A x \in 0 .. n - 1 : e[x].key \in ks => e[x] # Empty
    BY <1>1 DEF Empty
  <2> QED
    BY <1>3, <2>1, <2>2
<1>6. \A x \in 0 .. n - 1 : f[x].key # NoKey => f[x] = e[x]
  BY <1>3 DEF Tombstone
<1> HIDE DEF f
<1>7. Once(f, n)
  BY <1>6 DEF Sound, Once
<1>8. Reached(f, n)
  <2> SUFFICES ASSUME NEW x \in 0 .. n - 1, f[x].key # NoKey
               PROVE  \E d \in 0 .. n - 1 : Place(n, f[x].key, d) = x /\ Meets(f, n, f[x].key, d)
    BY DEF Reached
  <2> DEFINE q == f[x].key
  <2>1. q \in Key /\ f[x] = e[x]
    BY <1>4, <1>6 DEF Entry
  <2>2. PICK d \in 0 .. n - 1 : Place(n, q, d) = x /\ Meets(e, n, q, d)
    BY <2>1 DEF Sound, Reached
  <2>3. \A c \in 0 .. d - 1 : Place(n, q, c) \in 0 .. n - 1
    <3>1. \A c \in 0 .. n - 1 : Place(n, q, c) \in 0 .. n - 1
      BY <2>1, Probing
    <3>2. d \in 0 .. n - 1 /\ 0 .. d - 1 \subseteq 0 .. n - 1
      BY <2>2
    <3> QED
      BY <3>1, <3>2
  <2>4. \A c \in 0 .. d - 1 : f[Place(n, q, c)] # Empty
    BY <1>5, <2>2, <2>3 DEF Meets
  <2> QED
    BY <2>2, <2>4 DEF Meets
<1>9. Used(f, n) = Used(e, n)
  BY <1>5 DEF Used
<1> QED
  BY <1>3, <1>4, <1>7, <1>8, <1>9 DEF Sound, Arrays, f

------------------------------------------------------------------------------
(* Answers.                                                                    *)

(* What a sound table answers.                                                 *)
Reads(e, n, k) == IF Has(e, n, k) THEN e[findEntry(e, n, k)].value ELSE Absent

(* Sound, counted, and with a quarter of its places free.                      *)
Whole(e, n, c) ==
  Sound(e, n) /\ c = Cardinality(Used(e, n)) /\ 4 * c <= 3 * n

(* The answer is what an entry with the key says.                              *)
LEMMA Reading ==
  ASSUME NEW n \in Nat, NEW e, Sound(e, n), NEW i \in 0 .. n - 1, e[i].key \in Key
  PROVE  Has(e, n, e[i].key) /\ Reads(e, n, e[i].key) = e[i].value
<1>1. n \in Nat \ {0}
  OBVIOUS
<1>2. Has(e, n, e[i].key)
  BY DEF Has
<1> QED
  BY <1>1, <1>2, FoundThere DEF Reads

(* Two tables that have the same entry for a key answer the same.              *)
LEMMA Answering ==
  ASSUME NEW n \in Nat, NEW e, Sound(e, n), NEW m \in Nat, NEW f, Sound(f, m), NEW k \in Key,
         \A i \in 0 .. n - 1 : e[i].key = k => \E j \in 0 .. m - 1 : f[j] = e[i],
         \A j \in 0 .. m - 1 : f[j].key = k => \E i \in 0 .. n - 1 : e[i] = f[j]
  PROVE  /\ Has(f, m, k) <=> Has(e, n, k)
         /\ Reads(f, m, k) = Reads(e, n, k)
<1>1. Has(f, m, k) <=> Has(e, n, k)
  BY DEF Has
<1>2. CASE Has(e, n, k)
  <2>1. PICK i \in 0 .. n - 1 : e[i].key = k
    BY <1>2 DEF Has
  <2>2. PICK j \in 0 .. m - 1 : f[j] = e[i]
    BY <2>1
  <2>3. Reads(e, n, k) = e[i].value
    BY <2>1, Reading
  <2>4. Reads(f, m, k) = f[j].value
    BY <2>1, <2>2, Reading
  <2> QED
    BY <1>1, <2>2, <2>3, <2>4
<1>3. CASE ~Has(e, n, k)
  BY <1>1, <1>3 DEF Reads
<1> QED
  BY <1>2, <1>3

(* A whole table always has room, whatever its size.                           *)
LEMMA HavingRoom ==
  ASSUME NEW n \in Nat, NEW e, NEW c, Whole(e, n, c)
  PROVE  c \in Nat /\ (n # 0 => Room(e, n)) /\ (n = 0 => c = 0)
<1>1. c \in 0 .. n /\ (c < n => Room(e, n))
  BY Counting DEF Whole
<1>2. 4 * c <= 3 * n
  BY DEF Whole
<1>3. n # 0 => c < n
  BY <1>1, <1>2
<1> QED
  BY <1>1, <1>3

(* What csTableGet, csTableFindEntry and csTableFindString say of it.          *)
LEMMA Getting ==
  ASSUME NEW n \in Nat, NEW e, NEW c, Whole(e, n, c), NEW k \in Key
  PROVE  LET found == c # 0 /\ e[findEntry(e, n, k)].key # NoKey
         IN  /\ found <=> Has(e, n, k)
             /\ (IF found THEN e[findEntry(e, n, k)].value ELSE Absent) = Reads(e, n, k)
             /\ (c # 0 /\ Present(e, n, k)) <=> Has(e, n, k)
<1>1. k # NoKey /\ Sound(e, n)
  BY TablesAssumption DEF Whole
<1>2. CASE c = 0
  <2>1. Used(e, n) = {}
    BY <1>2, Counting DEF Whole
  <2>2. ~Has(e, n, k)
    BY <1>1, <2>1 DEF Has, Used, Empty
  <2> QED
    BY <1>2, <2>2 DEF Reads
<1>3. CASE c # 0
  <2>1. n \in Nat \ {0} /\ Room(e, n)
    BY <1>3, HavingRoom
  <2>2. /\ e[findEntry(e, n, k)].key = IF Has(e, n, k) THEN k ELSE NoKey
        /\ Present(e, n, k) <=> Has(e, n, k)
    BY <1>1, <2>1, Searching
  <2> QED
    BY <1>1, <1>3, <2>2 DEF Reads
<1> QED
  BY <1>2, <1>3

(* Entering gives one key its answer and no other key another.                 *)
LEMMA AnsweringEntered ==
  ASSUME NEW n \in Nat \ {0}, NEW e, Sound(e, n), Room(e, n), NEW k \in Key, NEW v \in Value
  PROVE  \A j \in Key : Reads(Entered(e, n, k, v), n, j) = IF j = k THEN v ELSE Reads(e, n, j)
<1> DEFINE i == findEntry(e, n, k)
<1> DEFINE f == Entered(e, n, k, v)
<1>1. /\ Sound(f, n)
      /\ i \in 0 .. n - 1 /\ f[i].key = k /\ f[i].value = v /\ e[i].key \in {k, NoKey}
      /\ \A x \in 0 .. n - 1 : x # i => f[x] = e[x] /\ e[x].key # k
  BY Entering
<1> HIDE DEF i, f
<1>2. Reads(f, n, k) = v
  BY <1>1, Reading
<1>3. ASSUME NEW j \in Key, j # k
      PROVE  Reads(f, n, j) = Reads(e, n, j)
  <2>1. \A x \in 0 .. n - 1 : f[x].key = j \/ e[x].key = j => f[x] = e[x]
    BY <1>1, <1>3, TablesAssumption
  <2>2. \A x \in 0 .. n - 1 : e[x].key = j => \E y \in 0 .. n - 1 : f[y] = e[x]
    BY <2>1
  <2>3. \A y \in 0 .. n - 1 : f[y].key = j => \E x \in 0 .. n - 1 : e[x] = f[y]
    BY <2>1
  <2>4. n \in Nat
    OBVIOUS
  <2> QED
    BY <1>1, <2>2, <2>3, <2>4, Answering
<1> QED
  BY <1>2, <1>3 DEF f

------------------------------------------------------------------------------
(* The inductive invariant.                                                    *)

(* The entries of e that are in f, and nothing else, tombstones included.      *)
Moved(e, m, f, n) ==
  /\ \A j \in 0 .. n - 1 : IF f[j].key = NoKey THEN f[j] = Empty
                           ELSE \E i \in 0 .. m - 1 : e[i] = f[j]
  /\ \A i \in 0 .. m - 1 : e[i].key # NoKey => \E j \in 0 .. n - 1 : f[j] = e[i]

(* A table that is growing has moved the entries before growing.at.            *)
Moving ==
  LET g == growing
  IN  /\ g \in [at : 0 .. capacity, entries : Arrays(Larger(capacity)), capacity : {Larger(capacity)},
                count : Nat, key : Key, value : Value]
      /\ Sound(g.entries, g.capacity)
      /\ Moved(entries, g.at, g.entries, g.capacity)
      /\ g.count = Cardinality(Used(g.entries, g.capacity))
      /\ g.count <= Cardinality(Used(entries, g.at))
      /\ use = "pool" => ~Has(entries, capacity, g.key)

(* What a site keeps: good as long as the version stands, and it does not      *)
(* while the entries are on the move.                                          *)
CachesOK ==
  \A s \in Site : cache[s].filled =>
    /\ use = "globals" /\ cache[s].version <= version
    /\ Valid(s) => /\ growing = Settled
                   /\ cache[s].entry \in 0 .. capacity - 1
                   /\ entries[cache[s].entry].key = Named[s]

Scalars ==
  /\ use \in {"globals", "object", "pool"}
  /\ use \in Uses
  /\ capacity \in Nat /\ (capacity = 0 \/ capacity >= FirstCapacity)
  /\ count \in Nat /\ version \in Nat
  /\ cache \in [Site -> [filled : BOOLEAN, entry : Nat, version : Nat]]

IInv ==
  /\ Scalars
  /\ Whole(entries, capacity, count)
  /\ growing = Settled \/ Moving
  /\ CachesOK

(* A larger array has room for one entry more than the old one could hold.     *)
LEMMA Growth ==
  ASSUME NEW n \in Nat, n = 0 \/ n >= FirstCapacity, NEW c \in Nat, 4 * c <= 3 * n
  PROVE  /\ Larger(n) \in Nat \ {0} /\ Larger(n) >= FirstCapacity
         /\ 4 * (c + 1) <= 3 * Larger(n) /\ c < Larger(n)
<1>1. FirstCapacity \in Nat /\ FirstCapacity >= 2
  BY TablesAssumption
<1>2. CASE n = 0
  BY <1>1, <1>2 DEF Larger
<1>3. CASE n # 0
  <2>1. n >= 2 /\ Larger(n) = 2 * n
    BY <1>1, <1>3 DEF Larger
  <2> QED
    BY <1>1, <1>3, <2>1
<1> QED
  BY <1>2, <1>3

(* Growing says what its key says.                                             *)
LEMMA GrowingIs ==
  ASSUME IInv
  PROVE  /\ Growing <=> growing # Settled
         /\ Growing <=> Moving
<1>1. NoKey \notin Key
  BY TablesAssumption
<1>2. Settled.key = NoKey
  BY DEF Settled
<1>3. Moving => growing.key \in Key
  BY DEF Moving
<1> QED
  BY <1>1, <1>2, <1>3 DEF IInv, Growing

(* The answers of the table in every reachable state.                          *)
LEMMA Answers ==
  ASSUME IInv, NEW k \in Key
  PROVE  /\ Found(k) <=> Has(entries, capacity, k)
         /\ Interned(k) <=> Has(entries, capacity, k)
         /\ csTableGet(k) = Reads(entries, capacity, k)
<1>1. capacity \in Nat /\ Whole(entries, capacity, count)
  BY DEF IInv, Scalars
<1> QED
  BY <1>1, Getting DEF Found, Interned, csTableGet

(* The same of the state after a step.                                         *)
LEMMA AnswersThen ==
  ASSUME IInv', NEW k \in Key
  PROVE  csTableGet(k)' = Reads(entries', capacity', k)
<1>1. capacity' \in Nat /\ Whole(entries', capacity', count')
  BY DEF IInv, Scalars
<1> QED
  BY <1>1, Getting DEF Found, csTableGet

(* What an action does to the map the table stands for.                        *)
Sets(k, v) ==
  \A j \in Key : Reads(entries', capacity', j) = IF j = k THEN v ELSE Reads(entries, capacity, j)
Keeps == \A j \in Key : Reads(entries', capacity', j) = Reads(entries, capacity, j)
Loses(ks) ==
  \A j \in Key : Reads(entries', capacity', j) = IF j \in ks THEN Absent ELSE Reads(entries, capacity, j)

------------------------------------------------------------------------------
(* Each action.                                                                *)

(* csTableSet finds room: one key has its new value.                           *)
LEMMA SetStep ==
  ASSUME IInv, NEW k \in Key, NEW v \in Value, csTableSet(k, v)
  PROVE  IInv' /\ Sets(k, v) /\ use' = use /\ (use = "pool" => ~Has(entries, capacity, k))
<1> DEFINE i == findEntry(entries, capacity, k)
<1>1. /\ ~Growing /\ ~Crowded /\ MayEnter(k, v)
      /\ capacity' = capacity /\ use' = use /\ version' = version
      /\ growing' = growing /\ cache' = cache
      /\ Enter(entries, count, k, v)
  BY DEF csTableSet
<1>2. Scalars /\ Whole(entries, capacity, count) /\ CachesOK /\ growing = Settled
  BY <1>1, GrowingIs DEF IInv
<1>3. count \in Nat /\ capacity \in Nat /\ 4 * (count + 1) <= 3 * capacity
  BY <1>1, <1>2 DEF Scalars, Crowded
<1>4. capacity \in Nat \ {0} /\ Sound(entries, capacity) /\ Room(entries, capacity)
  BY <1>2, <1>3, HavingRoom DEF Whole
<1>5. entries' = Entered(entries, capacity, k, v) /\ count' = Counted(count, entries, i)
  BY <1>1 DEF Enter, Entered
<1>6. /\ Sound(entries', capacity)
      /\ i \in 0 .. capacity - 1 /\ entries'[i].key = k
      /\ entries[i].key \in {k, NoKey}
      /\ \A x \in 0 .. capacity - 1 : x # i => entries'[x] = entries[x]
      /\ Cardinality(Used(entries', capacity)) = Counted(Cardinality(Used(entries, capacity)), entries, i)
  BY <1>4, <1>5, Entering
<1> HIDE DEF i
<1>7. Whole(entries', capacity', count') /\ count' \in Nat
  <2>1. count = Cardinality(Used(entries, capacity))
    BY <1>2 DEF Whole
  <2>2. count' \in {count, count + 1}
    BY <1>5 DEF Counted
  <2> QED
    BY <1>1, <1>3, <1>5, <1>6, <2>1, <2>2 DEF Whole
<1>8. CachesOK'
  <2> SUFFICES ASSUME NEW s \in Site, cache[s].filled, Valid(s)
               PROVE  entries'[cache[s].entry].key = Named[s]
    BY <1>1, <1>2 DEF CachesOK, Valid
  <2>1. cache[s].entry \in 0 .. capacity - 1 /\ entries[cache[s].entry].key = Named[s]
    BY <1>2 DEF CachesOK
  <2>2. Named[s] # NoKey
    BY TablesAssumption
  <2> QED
    BY <1>6, <2>1, <2>2
<1>9. IInv'
  BY <1>1, <1>2, <1>7, <1>8 DEF IInv, Scalars
<1>10. Sets(k, v)
  BY <1>1, <1>4, <1>5, AnsweringEntered DEF Sets
<1>11. use = "pool" => ~Has(entries, capacity, k)
  BY <1>1, Answers DEF MayEnter
<1> QED
  BY <1>1, <1>9, <1>10, <1>11

(* adjustCapacity takes a new version first, so that no pointer is good while  *)
(* the entries move.                                                           *)
LEMMA AdjustStep ==
  ASSUME IInv, NEW k \in Key, NEW v \in Value, adjustCapacity(k, v)
  PROVE  IInv' /\ Keeps /\ use' = use
<1> DEFINE n == Larger(capacity)
<1> DEFINE f == [i \in 0 .. n - 1 |-> Empty]
<1>1. /\ ~Growing /\ MayEnter(k, v)
      /\ capacity' = capacity /\ use' = use /\ entries' = entries /\ count' = count /\ cache' = cache
      /\ version' = version + 1
      /\ growing' = [at |-> 0, entries |-> f, capacity |-> n, count |-> 0, key |-> k, value |-> v]
  BY DEF adjustCapacity, Bumped
<1>2. Scalars /\ Whole(entries, capacity, count) /\ CachesOK /\ growing = Settled
  BY <1>1, GrowingIs DEF IInv
<1>3. n \in Nat \ {0}
  BY <1>2, Growth DEF Scalars, Whole
<1>4. Empty \in Entry /\ Empty.key = NoKey
  BY TablesAssumption DEF Empty, Entry
<1> HIDE DEF n
<1>5. Sound(f, n)
  BY <1>4 DEF Sound, Arrays, Reached, Once
<1>6. Used(f, n) = {} /\ Cardinality(Used(f, n)) = 0
  BY FS_EmptySet DEF Used
<1>7. Moving'
  <2>1. growing' \in [at : 0 .. capacity, entries : Arrays(n), capacity : {n}, count : Nat, key : Key, value : Value]
    BY <1>1, <1>2, <1>5 DEF Scalars, Sound
  <2>2. Moved(entries, 0, f, n)
    BY <1>4 DEF Moved
  <2>3. Cardinality(Used(entries, 0)) \in Nat
    BY Counting
  <2>4. use = "pool" => ~Has(entries, capacity, k)
    BY <1>1, Answers DEF MayEnter
  <2> HIDE DEF f
  <2>5. /\ growing'.at = 0 /\ growing'.entries = f /\ growing'.capacity = n /\ growing'.count = 0 /\ growing'.key = k
    BY <1>1
  <2>6. Larger(capacity') = n
    BY <1>1 DEF n
  <2> QED
    BY <1>1, <1>5, <1>6, <2>1, <2>2, <2>3, <2>4, <2>5, <2>6 DEF Moving
<1>8. CachesOK'
  <2>1. \A s \in Site : cache[s].version \in Nat
    BY <1>2 DEF Scalars
  <2> QED
    BY <1>1, <1>2, <2>1 DEF CachesOK, Scalars, Valid
<1> QED
  BY <1>1, <1>2, <1>7, <1>8 DEF IInv, Scalars, Keeps

(* A growing table with one entry more.                                        *)
LEMMA Advanced ==
  ASSUME NEW A, NEW E, NEW C, NEW K, NEW V, NEW f \in E, NEW a \in A, NEW c \in Nat,
         NEW g \in [at : A, entries : E, capacity : C, count : Nat, key : K, value : V]
  PROVE  LET h == [g EXCEPT !.at = a, !.entries = f, !.count = c]
         IN  /\ h \in [at : A, entries : E, capacity : C, count : Nat, key : K, value : V]
             /\ h.at = a /\ h.entries = f /\ h.count = c /\ h.capacity = g.capacity /\ h.key = g.key
OBVIOUS

(* One entry more is in the larger array, or was a tombstone or never used.    *)
LEMMA MoveStep ==
  ASSUME IInv, MoveEntry
  PROVE  IInv' /\ Keeps /\ use' = use
<1> DEFINE g == growing
<1> DEFINE m == g.at
<1> DEFINE e == entries[m]
<1> DEFINE n == g.capacity
<1> DEFINE i == findEntry(g.entries, n, e.key)
<1>1. /\ Growing /\ m < capacity
      /\ growing' = IF e.key = NoKey THEN [g EXCEPT !.at = @ + 1]
                    ELSE [g EXCEPT !.at = @ + 1, !.entries[i] = e, !.count = @ + 1]
      /\ capacity' = capacity /\ use' = use /\ entries' = entries /\ count' = count
      /\ version' = version /\ cache' = cache
  BY DEF MoveEntry
<1>2. Scalars /\ Whole(entries, capacity, count) /\ CachesOK /\ Moving /\ growing # Settled
  BY <1>1, GrowingIs DEF IInv
<1>3. /\ g \in [at : 0 .. capacity, entries : Arrays(n), capacity : {Larger(capacity)},
                count : Nat, key : Key, value : Value]
      /\ Sound(g.entries, n) /\ Moved(entries, m, g.entries, n)
      /\ g.count = Cardinality(Used(g.entries, n)) /\ g.count <= Cardinality(Used(entries, m))
      /\ use = "pool" => ~Has(entries, capacity, g.key)
      /\ n = Larger(capacity)
  BY <1>2 DEF Moving
<1>4. /\ capacity \in Nat /\ m \in 0 .. capacity - 1 /\ m + 1 \in 0 .. capacity /\ m \in Nat
      /\ 0 .. (m + 1) - 1 = (0 .. m - 1) \cup {m} /\ m \notin 0 .. m - 1
  <2>1. capacity \in Nat
    BY <1>2 DEF Scalars
  <2>2. m \in 0 .. capacity /\ m < capacity
    BY <1>1, <1>3
  <2> HIDE DEF m
  <2> QED
    BY <2>1, <2>2
<1>5. entries \in [0 .. capacity - 1 -> Entry] /\ e \in Entry /\ Once(entries, capacity)
  BY <1>2, <1>4 DEF Whole, Sound, Arrays
<1>6. /\ IsFiniteSet(Used(entries, m)) /\ Cardinality(Used(entries, m)) \in 0 .. m
      /\ IsFiniteSet(Used(entries, m + 1)) /\ Cardinality(Used(entries, m + 1)) \in Nat
  <2>1. m \in Nat /\ m + 1 \in Nat
    BY <1>4
  <2> QED
    BY <2>1, Counting
<1>7. Used(entries, m + 1) = IF e = Empty THEN Used(entries, m) ELSE Used(entries, m) \cup {m}
  BY <1>4 DEF Used
<1>8. Cardinality(Used(entries, m + 1)) = Cardinality(Used(entries, m)) + (IF e = Empty THEN 0 ELSE 1)
  <2>1. m \notin Used(entries, m)
    BY <1>4 DEF Used
  <2> QED
    BY <1>6, <1>7, <2>1, FS_AddElement
<1>9. n \in Nat \ {0} /\ g.count < n
  <2>1. Cardinality(Used(entries, m)) <= Cardinality(Used(entries, capacity))
    <3>1. IsFiniteSet(Used(entries, capacity)) /\ Used(entries, m) \in SUBSET Used(entries, capacity)
      BY <1>4, Counting DEF Used
    <3> QED
      BY <3>1, FS_Subset
  <2>2. count \in Nat /\ 4 * count <= 3 * capacity /\ count = Cardinality(Used(entries, capacity))
    BY <1>2 DEF Scalars, Whole
  <2>3. n \in Nat \ {0} /\ count < n
    BY <1>2, <1>3, <2>2, Growth DEF Scalars
  <2> QED
    BY <1>3, <1>6, <2>1, <2>2, <2>3
<1>10. Room(g.entries, n)
  BY <1>3, <1>9, Counting
<1> HIDE DEF e, n, m, i
<1>11. Moving'
  <2>1. CASE e.key = NoKey
    <3>1. growing' = [g EXCEPT !.at = @ + 1]
      BY <1>1, <2>1
    <3>2. /\ growing'.at = m + 1 /\ growing'.entries = g.entries /\ growing'.capacity = n
          /\ growing'.count = g.count /\ growing'.key = g.key
          /\ growing' \in [at : 0 .. capacity, entries : Arrays(n), capacity : {n},
                           count : Nat, key : Key, value : Value]
      BY <1>3, <1>4, <3>1 DEF m, n
    <3>3. Moved(entries, m + 1, g.entries, n)
      <4>1. e = entries[m]
        BY DEF e
      <4> QED
        BY <1>3, <1>4, <2>1, <4>1 DEF Moved
    <3>4. g.count <= Cardinality(Used(entries, m + 1))
      BY <1>3, <1>6, <1>8
    <3>5. Larger(capacity') = n
      BY <1>1, <1>3
    <3> QED
      BY <1>1, <1>3, <3>2, <3>3, <3>4, <3>5 DEF Moving
  <2>2. CASE e.key # NoKey
    <3> DEFINE f == Entered(g.entries, n, e.key, e.value)
    <3>1. e.key \in Key /\ e.value \in Value /\ e = [key |-> e.key, value |-> e.value] /\ e # Empty
      BY <1>5, <2>2 DEF Entry, Empty
    <3>2. ~Has(g.entries, n, e.key)
      <4>1. ASSUME NEW j \in 0 .. n - 1, g.entries[j].key = e.key
            PROVE  FALSE
        <5>1. PICK x \in 0 .. m - 1 : entries[x] = g.entries[j]
          BY <1>3, <2>2, <4>1 DEF Moved
        <5>2. x \in 0 .. capacity - 1 /\ x # m /\ entries[x].key = entries[m].key
          BY <1>4, <4>1, <5>1 DEF e
        <5> QED
          BY <1>4, <1>5, <2>2, <5>2 DEF Once, e
      <4> QED
        BY <4>1 DEF Has
    <3>3. /\ Sound(f, n) /\ i \in 0 .. n - 1 /\ f[i].key = e.key /\ f[i].value = e.value
          /\ g.entries[i].key \in {e.key, NoKey}
          /\ \A x \in 0 .. n - 1 : x # i => f[x] = g.entries[x]
          /\ Cardinality(Used(f, n)) = Counted(Cardinality(Used(g.entries, n)), g.entries, i)
      BY <1>3, <1>9, <1>10, <3>1, Entering DEF i
    <3>4. g.entries[i] = Empty
      BY <1>3, <3>2, <3>3 DEF Moved, Has
    <3>5. Cardinality(Used(f, n)) = g.count + 1
      BY <1>3, <3>3, <3>4 DEF Counted
    <3>6. f[i] = e
      <4>1. f[i] \in Entry
        BY <3>3 DEF Sound, Arrays
      <4> QED
        BY <3>1, <3>3, <4>1 DEF Entry
    <3>7. f = [g.entries EXCEPT ![i] = e]
      BY <3>1 DEF Entered, i
    <3> HIDE DEF f
    <3>8. growing' = [g EXCEPT !.at = @ + 1, !.entries = f, !.count = @ + 1]
      BY <1>1, <2>2, <3>7
    <3>9. /\ growing'.at = m + 1 /\ growing'.entries = f /\ growing'.capacity = n
          /\ growing'.count = g.count + 1 /\ growing'.key = g.key
          /\ growing' \in [at : 0 .. capacity, entries : Arrays(n), capacity : {n},
                           count : Nat, key : Key, value : Value]
      <4>1. f \in Arrays(n) /\ g.at = m /\ g.capacity = n
        BY <3>3 DEF Sound, m, n
      <4>2. g \in [at : 0 .. capacity, entries : Arrays(n), capacity : {n},
                   count : Nat, key : Key, value : Value]
        BY <1>3
      <4>3. growing' = [g EXCEPT !.at = m + 1, !.entries = f, !.count = g.count + 1]
        BY <3>8, <4>1
      <4>4. m + 1 \in 0 .. capacity /\ g.count + 1 \in Nat
        BY <1>4, <4>2
      <4> QED
        BY <4>1, <4>2, <4>3, <4>4, Advanced
    <3>10. Moved(entries, m + 1, f, n)
      <4>1. \A j \in 0 .. n - 1 : IF f[j].key = NoKey THEN f[j] = Empty
                                  ELSE \E x \in 0 .. (m + 1) - 1 : entries[x] = f[j]
        BY <1>3, <1>4, <2>2, <3>3, <3>6 DEF Moved, e
      <4>2. ASSUME NEW x \in 0 .. (m + 1) - 1, entries[x].key # NoKey
            PROVE  \E j \in 0 .. n - 1 : f[j] = entries[x]
        <5>1. CASE x = m
          BY <3>3, <3>6, <5>1 DEF e
        <5>2. CASE x # m
          <6>1. PICK j \in 0 .. n - 1 : g.entries[j] = entries[x]
            BY <1>3, <1>4, <4>2, <5>2 DEF Moved
          <6>2. j # i
            BY <3>4, <4>2, <6>1 DEF Empty
          <6> QED
            BY <3>3, <6>1, <6>2
        <5> QED
          BY <5>1, <5>2
      <4> QED
        BY <4>1, <4>2 DEF Moved
    <3>11. g.count + 1 <= Cardinality(Used(entries, m + 1))
      BY <1>3, <1>6, <1>8, <3>1
    <3>12. Larger(capacity') = n
      BY <1>1, <1>3
    <3> QED
      BY <1>1, <1>3, <3>3, <3>5, <3>9, <3>10, <3>11, <3>12 DEF Moving
  <2> QED
    BY <2>1, <2>2
<1>12. CachesOK'
  BY <1>1, <1>2 DEF CachesOK, Valid
<1> QED
  BY <1>1, <1>2, <1>11, <1>12 DEF IInv, Scalars, Keeps

(* The larger array says what the old one said, and takes the key.             *)
LEMMA MovedStep ==
  ASSUME IInv, EntriesMoved
  PROVE  /\ IInv' /\ use' = use
         /\ \E k \in Key, v \in Value : Sets(k, v) /\ (use = "pool" => ~Has(entries, capacity, k))
<1> DEFINE g == growing
<1> DEFINE n == g.capacity
<1> DEFINE f == g.entries
<1> DEFINE i == findEntry(f, n, g.key)
<1>1. /\ Growing /\ g.at = capacity
      /\ capacity' = n /\ Enter(f, g.count, g.key, g.value)
      /\ growing' = Settled /\ use' = use /\ version' = version /\ cache' = cache
  BY DEF EntriesMoved
<1>2. Scalars /\ Whole(entries, capacity, count) /\ CachesOK /\ Moving /\ growing # Settled
  BY <1>1, GrowingIs DEF IInv
<1>3. /\ Sound(f, n) /\ Moved(entries, capacity, f, n)
      /\ g.count = Cardinality(Used(f, n)) /\ g.count <= Cardinality(Used(entries, capacity))
      /\ use = "pool" => ~Has(entries, capacity, g.key)
      /\ n = Larger(capacity) /\ g.count \in Nat /\ g.key \in Key /\ g.value \in Value
  BY <1>1, <1>2 DEF Moving
<1>4. count \in Nat /\ 4 * count <= 3 * capacity /\ g.count <= count /\ capacity \in Nat
  BY <1>2, <1>3 DEF Scalars, Whole
<1>5. n \in Nat \ {0} /\ n >= FirstCapacity /\ 4 * (count + 1) <= 3 * n /\ count < n
  BY <1>2, <1>3, <1>4, Growth DEF Scalars
<1>6. Room(f, n)
  BY <1>3, <1>4, <1>5, Counting
<1>7. entries' = Entered(f, n, g.key, g.value) /\ count' = Counted(g.count, f, i)
  BY <1>1 DEF Enter, Entered
<1>8. /\ Sound(entries', n)
      /\ Cardinality(Used(entries', n)) = Counted(Cardinality(Used(f, n)), f, i)
  BY <1>3, <1>5, <1>6, <1>7, Entering
<1> HIDE DEF f, i, n
<1>9. Whole(entries', capacity', count') /\ count' \in Nat
  <2>1. count' \in {g.count, g.count + 1}
    BY <1>7 DEF Counted
  <2>2. count' \in Nat /\ 4 * count' <= 3 * n
    BY <1>3, <1>4, <1>5, <2>1
  <2> QED
    BY <1>1, <1>3, <1>7, <1>8, <2>2 DEF Whole
<1>10. CachesOK'
  BY <1>1, <1>2 DEF CachesOK, Valid
<1>11. IInv'
  BY <1>1, <1>2, <1>5, <1>9, <1>10 DEF IInv, Scalars
<1>12. ASSUME NEW j \in Key
       PROVE  Reads(f, n, j) = Reads(entries, capacity, j)
  <2>1. Sound(entries, capacity) /\ j # NoKey
    BY <1>2, TablesAssumption DEF Whole
  <2>2. \A x \in 0 .. capacity - 1 : entries[x].key = j => \E y \in 0 .. n - 1 : f[y] = entries[x]
    BY <1>3, <2>1 DEF Moved
  <2>3. \A y \in 0 .. n - 1 : f[y].key = j => \E x \in 0 .. capacity - 1 : entries[x] = f[y]
    BY <1>3, <2>1 DEF Moved
  <2> QED
    BY <1>3, <1>4, <1>5, <2>1, <2>2, <2>3, Answering
<1>13. Sets(g.key, g.value)
  BY <1>1, <1>3, <1>5, <1>6, <1>7, <1>12, AnsweringEntered DEF Sets
<1> QED
  BY <1>1, <1>3, <1>11, <1>13

(* Deleting keys that are there, between two steps of a table that is not      *)
(* moving entries yet.                                                         *)
LEMMA Losing ==
  ASSUME IInv, NEW ks \in SUBSET Key, \A k \in ks : Has(entries, capacity, k),
         entries' = Buried(ks), capacity' = capacity, count' = count
  PROVE  /\ Whole(entries', capacity', count')
         /\ \A k \in Key : Has(entries', capacity', k) => Has(entries, capacity, k)
         /\ Loses(ks)
<1>1. capacity \in Nat /\ Whole(entries, capacity, count) /\ Sound(entries, capacity)
  BY DEF IInv, Scalars, Whole
<1>2. DOMAIN entries = 0 .. capacity - 1
  BY <1>1 DEF Sound, Arrays
<1>3. entries' = Gone(entries, capacity, ks)
  BY <1>2 DEF Buried, Gone
<1>4. CASE capacity = 0
  <2>1. entries' = entries
    BY <1>1, <1>2, <1>3, <1>4 DEF Sound, Arrays, Gone
  <2>2. \A k \in Key : ~Has(entries, capacity, k)
    BY <1>4 DEF Has
  <2> QED
    BY <1>1, <2>1, <2>2 DEF Loses, Reads
<1>5. CASE capacity # 0
  <2>1. /\ Sound(entries', capacity)
        /\ Used(entries', capacity) = Used(entries, capacity)
        /\ \A x \in 0 .. capacity - 1 :
             entries'[x] = IF entries[x].key \in ks THEN Tombstone ELSE entries[x]
    BY <1>1, <1>3, <1>5, Deleting
  <2>2. NoKey \notin Key /\ Tombstone.key = NoKey
    BY TablesAssumption DEF Tombstone
  <2>3. ASSUME NEW j \in Key
        PROVE  /\ Has(entries', capacity, j) => Has(entries, capacity, j)
               /\ Reads(entries', capacity, j) = IF j \in ks THEN Absent ELSE Reads(entries, capacity, j)
    <3>1. CASE j \in ks
      <4>1. ~Has(entries', capacity, j)
        BY <2>1, <2>2, <3>1 DEF Has
      <4> QED
        BY <3>1, <4>1 DEF Reads
    <3>2. CASE j \notin ks
      <4>1. \A x \in 0 .. capacity - 1 : entries[x].key = j \/ entries'[x].key = j => entries'[x] = entries[x]
        BY <2>1, <2>2, <3>2
      <4>2. \A x \in 0 .. capacity - 1 :
              entries[x].key = j => \E y \in 0 .. capacity - 1 : entries'[y] = entries[x]
        BY <4>1
      <4>3. \A y \in 0 .. capacity - 1 :
              entries'[y].key = j => \E x \in 0 .. capacity - 1 : entries[x] = entries'[y]
        BY <4>1
      <4> QED
        BY <1>1, <2>1, <3>2, <4>2, <4>3, Answering
    <3> QED
      BY <3>1, <3>2
  <2> QED
    BY <1>1, <2>1, <2>3 DEF Whole, Loses
<1> QED
  BY <1>4, <1>5

(* csTableDelete.                                                              *)
LEMMA DeleteStep ==
  ASSUME IInv, NEW k \in Key, csTableDelete(k)
  PROVE  IInv' /\ Loses({k}) /\ use' = use /\ use = "object"
<1>1. /\ use = "object" /\ ~Growing /\ Found(k)
      /\ entries' = Buried({k}) /\ count' = count /\ version' = version + 1
      /\ use' = use /\ capacity' = capacity /\ growing' = growing /\ cache' = cache
  BY DEF csTableDelete, CountWithout
<1>2. Scalars /\ CachesOK /\ growing = Settled
  BY <1>1, GrowingIs DEF IInv
<1>3. Has(entries, capacity, k)
  BY <1>1, Answers
<1>4. Whole(entries', capacity', count') /\ Loses({k})
  BY <1>1, <1>3, Losing
<1>5. CachesOK'
  BY <1>1, <1>2 DEF CachesOK
<1> QED
  BY <1>1, <1>2, <1>4, <1>5 DEF IInv, Scalars

(* A collection, in the allocation that growing begins with or elsewhere.      *)
LEMMA RemoveStep ==
  ASSUME IInv, NEW ks \in SUBSET Key, csTableRemoveWhite(ks)
  PROVE  IInv' /\ Loses(ks) /\ use' = use /\ use = "pool"
<1>1. /\ use = "pool" /\ (Growing => growing.at = 0) /\ \A k \in ks : Interned(k)
      /\ entries' = Buried(ks) /\ count' = count /\ version' = version + Cardinality(ks)
      /\ use' = use /\ capacity' = capacity /\ growing' = growing /\ cache' = cache
  BY DEF csTableRemoveWhite, CountWithout
<1>2. Scalars /\ CachesOK /\ capacity \in Nat /\ Whole(entries, capacity, count)
  BY DEF IInv, Scalars
<1>3. \A k \in ks : Has(entries, capacity, k)
  BY <1>1, Answers
<1>4. /\ Whole(entries', capacity', count') /\ Loses(ks)
      /\ \A k \in Key : Has(entries', capacity', k) => Has(entries, capacity, k)
  BY <1>1, <1>3, Losing
<1>5. Cardinality(ks) \in Nat
  <2> DEFINE where == [k \in ks |-> CHOOSE i \in 0 .. capacity - 1 : entries[i].key = k]
  <2>1. \A k \in ks : where[k] \in 0 .. capacity - 1 /\ entries[where[k]].key = k
    BY <1>3 DEF Has
  <2> HIDE DEF where
  <2>2. \A j, k \in ks : where[j] = where[k] => j = k
    BY <2>1
  <2>3. where \in Injection(ks, 0 .. capacity - 1)
    <3>1. where \in [ks -> 0 .. capacity - 1]
      BY <2>1 DEF where
    <3> QED
      BY <2>2, <3>1 DEF Injection, IsInjective
  <2>4. IsFiniteSet(0 .. capacity - 1)
    BY <1>2, FS_Interval
  <2>5. IsFiniteSet(ks)
    BY <2>3, <2>4, FS_Injection
  <2> QED
    BY <2>5, FS_CardinalityType
<1>6. CachesOK'
  BY <1>1, <1>2 DEF CachesOK
<1>7. Moving => Moving'
  <2> SUFFICES ASSUME Moving
               PROVE  Moving'
    OBVIOUS
  <2>1. growing.at = 0 /\ growing.key \in Key
    BY <1>1, GrowingIs DEF Moving
  <2>2. Moved(entries', 0, growing.entries, growing.capacity)
    BY <2>1 DEF Moving, Moved
  <2>3. Used(entries', 0) = Used(entries, 0)
    BY DEF Used
  <2> QED
    BY <1>1, <1>4, <2>1, <2>2, <2>3 DEF Moving
<1>8. growing' = Settled \/ Moving'
  BY <1>1, <1>7 DEF IInv
<1> QED
  BY <1>1, <1>2, <1>4, <1>5, <1>6, <1>8 DEF IInv, Scalars

(* A name that is there is found where it is.                                  *)
LEMMA Pointing ==
  ASSUME IInv, ~Growing, NEW s \in Site, Found(Named[s])
  PROVE  LET i == findEntry(entries, capacity, Named[s])
         IN  i \in 0 .. capacity - 1 /\ entries[i].key = Named[s]
<1>1. Named[s] \in Key
  BY TablesAssumption
<1>2. Has(entries, capacity, Named[s]) /\ Sound(entries, capacity) /\ capacity \in Nat
  BY <1>1, Answers DEF IInv, Whole, Scalars
<1>3. PICK i \in 0 .. capacity - 1 : entries[i].key = Named[s]
  BY <1>2 DEF Has
<1>4. capacity \in Nat \ {0}
  BY <1>2, <1>3
<1> QED
  BY <1>1, <1>2, <1>3, <1>4, FoundThere

(* Keeping a pointer.                                                          *)
LEMMA GetStep ==
  ASSUME IInv, NEW s \in Site, GetGlobal(s)
  PROVE  IInv' /\ Keeps /\ use' = use
<1>1. /\ use = "globals" /\ ~Growing /\ Found(Named[s])
      /\ cache' = [cache EXCEPT ![s] = Kept(Named[s])]
      /\ use' = use /\ entries' = entries /\ capacity' = capacity /\ count' = count
      /\ version' = version /\ growing' = growing
  BY DEF GetGlobal
<1>2. Scalars /\ CachesOK /\ growing = Settled
  BY <1>1, GrowingIs DEF IInv
<1> DEFINE i == findEntry(entries, capacity, Named[s])
<1>3. i \in 0 .. capacity - 1 /\ entries[i].key = Named[s] /\ i \in Nat
  BY <1>1, Pointing
<1>4. Kept(Named[s]) = [filled |-> TRUE, entry |-> i, version |-> version]
  BY DEF Kept
<1> HIDE DEF i
<1>5. cache' \in [Site -> [filled : BOOLEAN, entry : Nat, version : Nat]]
  BY <1>1, <1>2, <1>3, <1>4 DEF Scalars
<1>6. CachesOK'
  <2> SUFFICES ASSUME NEW t \in Site, cache'[t].filled
               PROVE  /\ use' = "globals" /\ cache'[t].version <= version'
                      /\ Valid(t)' => /\ growing' = Settled
                                      /\ cache'[t].entry \in 0 .. capacity' - 1
                                      /\ entries'[cache'[t].entry].key = Named[t]
    BY DEF CachesOK
  <2>1. CASE t = s
    BY <1>1, <1>2, <1>3, <1>4, <2>1 DEF Scalars
  <2>2. CASE t # s
    BY <1>1, <1>2, <2>2 DEF Scalars, CachesOK, Valid
  <2> QED
    BY <2>1, <2>2
<1> QED
  BY <1>1, <1>2, <1>5, <1>6 DEF IInv, Scalars, Keeps

(* Storing through one, or through the entry found.                            *)
LEMMA StoreStep ==
  ASSUME IInv, NEW s \in Site, NEW v \in Value, SetGlobal(s, v)
  PROVE  IInv' /\ Sets(Named[s], v) /\ use' = use /\ use = "globals"
<1> DEFINE k == Named[s]
<1> DEFINE i == IF Valid(s) THEN cache[s].entry ELSE findEntry(entries, capacity, k)
<1>1. /\ use = "globals" /\ ~Growing /\ (Valid(s) \/ Found(k))
      /\ entries' = [entries EXCEPT ![i].value = v]
      /\ cache' = IF Valid(s) THEN cache ELSE [cache EXCEPT ![s] = Kept(k)]
      /\ use' = use /\ capacity' = capacity /\ count' = count
      /\ version' = version /\ growing' = growing
  BY DEF SetGlobal
<1>2. Scalars /\ CachesOK /\ growing = Settled /\ Whole(entries, capacity, count)
  BY <1>1, GrowingIs DEF IInv
<1>3. k \in Key /\ k # NoKey
  BY TablesAssumption
<1>4. i \in 0 .. capacity - 1 /\ entries[i].key = k
  <2>1. CASE Valid(s)
    BY <1>2, <2>1 DEF CachesOK, Valid
  <2>2. CASE ~Valid(s)
    BY <1>1, <2>2, Pointing
  <2> QED
    BY <2>1, <2>2
<1> HIDE DEF i
<1>5. capacity \in Nat \ {0} /\ Sound(entries, capacity) /\ Room(entries, capacity)
  <2>1. capacity \in Nat
    BY <1>2 DEF Scalars
  <2> QED
    BY <1>2, <1>4, <2>1, HavingRoom DEF Whole
<1>6. findEntry(entries, capacity, k) = i
  BY <1>3, <1>4, <1>5, FoundThere
<1>7. entries' = Entered(entries, capacity, k, v)
  <2>1. entries \in [0 .. capacity - 1 -> Entry]
    BY <1>5 DEF Sound, Arrays
  <2>2. [entries[i] EXCEPT !.value = v] = [key |-> k, value |-> v]
    BY <1>4, <2>1 DEF Entry
  <2>3. entries' = [entries EXCEPT ![i] = [entries[i] EXCEPT !.value = v]]
    BY <1>1
  <2> QED
    BY <1>6, <2>2, <2>3 DEF Entered
<1>8. /\ Sound(entries', capacity) /\ entries'[i].key = k
      /\ \A x \in 0 .. capacity - 1 : x # i => entries'[x] = entries[x]
      /\ Cardinality(Used(entries', capacity)) = Counted(Cardinality(Used(entries, capacity)), entries, i)
  BY <1>3, <1>5, <1>6, <1>7, Entering
<1>9. Whole(entries', capacity', count')
  <2>1. entries[i] # Empty
    BY <1>3, <1>4 DEF Empty
  <2> QED
    BY <1>1, <1>2, <1>8, <2>1 DEF Whole, Counted
<1>10. \A x \in 0 .. capacity - 1 : entries'[x].key = entries[x].key
  BY <1>4, <1>8
<1>11. cache' \in [Site -> [filled : BOOLEAN, entry : Nat, version : Nat]] /\ CachesOK'
  <2>1. CASE Valid(s)
    BY <1>1, <1>2, <1>10, <2>1 DEF Scalars, CachesOK, Valid
  <2>2. CASE ~Valid(s)
    <3>1. Kept(k) = [filled |-> TRUE, entry |-> i, version |-> version] /\ i \in Nat
      BY <1>4, <1>6 DEF Kept
    <3>2. cache' = [cache EXCEPT ![s] = [filled |-> TRUE, entry |-> i, version |-> version]]
      BY <1>1, <2>2, <3>1
    <3>3. cache' \in [Site -> [filled : BOOLEAN, entry : Nat, version : Nat]]
      BY <1>2, <3>1, <3>2 DEF Scalars
    <3>4. ASSUME NEW t \in Site, cache'[t].filled
          PROVE  /\ use' = "globals" /\ cache'[t].version <= version'
                 /\ Valid(t)' => /\ growing' = Settled
                                 /\ cache'[t].entry \in 0 .. capacity' - 1
                                 /\ entries'[cache'[t].entry].key = Named[t]
      <4>1. CASE t = s
        BY <1>1, <1>2, <1>4, <1>8, <3>2, <4>1 DEF Scalars
      <4>2. CASE t # s
        <5>1. cache'[t] = cache[t]
          BY <1>2, <3>2, <4>2 DEF Scalars
        <5>2. /\ use = "globals" /\ cache[t].version <= version
              /\ Valid(t) => /\ growing = Settled
                             /\ cache[t].entry \in 0 .. capacity - 1
                             /\ entries[cache[t].entry].key = Named[t]
          BY <1>2, <3>4, <5>1 DEF CachesOK
        <5>3. Valid(t)' <=> Valid(t)
          BY <1>1, <5>1 DEF Valid
        <5> QED
          BY <1>1, <1>10, <5>1, <5>2, <5>3
      <4> QED
        BY <4>1, <4>2
    <3> QED
      BY <3>3, <3>4 DEF CachesOK
  <2> QED
    BY <2>1, <2>2
<1>12. Sets(k, v)
  <2>1. \A j \in Key : Reads(Entered(entries, capacity, k, v), capacity, j)
                       = IF j = k THEN v ELSE Reads(entries, capacity, j)
    BY <1>3, <1>5, AnsweringEntered
  <2> QED
    BY <1>1, <1>7, <2>1 DEF Sets
<1> QED
  BY <1>1, <1>2, <1>9, <1>11, <1>12 DEF IInv, Scalars

------------------------------------------------------------------------------
(* What every behaviour keeps.                                                 *)

(* A table begins with no array.                                               *)
LEMMA InitKeeps == Init => IInv
<1> SUFFICES ASSUME Init PROVE IInv
  OBVIOUS
<1>1. /\ use \in Uses /\ Uses \subseteq {"globals", "object", "pool"}
      /\ entries = [i \in {} |-> Empty] /\ capacity = 0 /\ count = 0 /\ version = 0
      /\ growing = Settled /\ cache = [s \in Site |-> Nothing]
  BY TablesAssumption DEF Init
<1>2. Scalars
  BY <1>1 DEF Scalars, Nothing
<1>3. Whole(entries, capacity, count)
  <2>1. 0 .. capacity - 1 = {}
    BY <1>1
  <2>2. Sound(entries, capacity)
    BY <1>1, <2>1 DEF Sound, Arrays, Reached, Once
  <2>3. Used(entries, capacity) = {}
    BY <2>1 DEF Used
  <2>4. count = Cardinality(Used(entries, capacity))
    BY <1>1, <2>3, FS_EmptySet
  <2>5. 4 * count <= 3 * capacity
    BY <1>1
  <2> QED
    BY <2>2, <2>4, <2>5 DEF Whole
<1>4. CachesOK
  BY <1>1 DEF CachesOK, Nothing
<1> QED
  BY <1>1, <1>2, <1>3, <1>4 DEF IInv

(* What a step is to the map: nothing, an entry, a removal or a collection.    *)
Maps ==
  \/ Keeps
  \/ \E k \in Key, v \in Value : Sets(k, v) /\ (use = "pool" => ~Has(entries, capacity, k))
  \/ \E k \in Key : use = "object" /\ Loses({k})
  \/ \E ks \in SUBSET Key : use = "pool" /\ Loses(ks)

(* Every step of the table is one of those.                                    *)
LEMMA StepKeeps == IInv /\ [Next]_vars => IInv' /\ use' = use /\ Maps
<1> SUFFICES ASSUME IInv, [Next]_vars
             PROVE  IInv' /\ use' = use /\ Maps
  OBVIOUS
<1>1. ASSUME NEW k \in Key, NEW v \in Value, csTableSet(k, v)
      PROVE  IInv' /\ use' = use /\ Maps
  BY <1>1, SetStep DEF Maps
<1>2. ASSUME NEW k \in Key, NEW v \in Value, adjustCapacity(k, v)
      PROVE  IInv' /\ use' = use /\ Maps
  BY <1>2, AdjustStep DEF Maps
<1>3. CASE MoveEntry
  BY <1>3, MoveStep DEF Maps
<1>4. CASE EntriesMoved
  BY <1>4, MovedStep DEF Maps
<1>5. ASSUME NEW k \in Key, csTableDelete(k)
      PROVE  IInv' /\ use' = use /\ Maps
  BY <1>5, DeleteStep DEF Maps
<1>6. ASSUME NEW ks \in SUBSET Key, csTableRemoveWhite(ks)
      PROVE  IInv' /\ use' = use /\ Maps
  BY <1>6, RemoveStep DEF Maps
<1>7. ASSUME NEW s \in Site, GetGlobal(s)
      PROVE  IInv' /\ use' = use /\ Maps
  BY <1>7, GetStep DEF Maps
<1>8. ASSUME NEW s \in Site, NEW v \in Value, SetGlobal(s, v)
      PROVE  IInv' /\ use' = use /\ Maps
  <2>1. Named[s] \in Key
    BY TablesAssumption
  <2> QED
    BY <1>8, <2>1, StoreStep DEF Maps
<1>9. CASE UNCHANGED vars
  <2>1. /\ use' = use /\ entries' = entries /\ capacity' = capacity /\ count' = count
        /\ version' = version /\ growing' = growing /\ cache' = cache
    BY <1>9 DEF vars
  <2>2. Scalars' /\ CachesOK'
    BY <2>1 DEF IInv, Scalars, CachesOK, Valid
  <2>3. Whole(entries, capacity, count)' /\ (growing = Settled \/ Moving)'
    BY <2>1 DEF IInv, Moving, Settled
  <2> QED
    BY <2>1, <2>2, <2>3 DEF IInv, Maps, Keeps
<1> QED
  BY <1>1, <1>2, <1>3, <1>4, <1>5, <1>6, <1>7, <1>8, <1>9 DEF Next

(* The table stays sound, each key in it once where a probe comes to it; the   *)
(* count is that of the places in use, tombstones among them, never more than  *)
(* three quarters; and what is moving is all there.                            *)
THEOREM Invariance == Spec => []IInv
<1> QED
  BY InitKeeps, StepKeeps, PTL DEF Spec

(* findEntry comes to an end: there is always a place that was never used.     *)
THEOREM ProbesAlwaysEnd == Spec => []ProbesEnd
<1>1. IInv => ProbesEnd
  <2> SUFFICES ASSUME IInv PROVE ProbesEnd
    OBVIOUS
  <2>1. Scalars /\ Whole(entries, capacity, count)
    BY DEF IInv
  <2>2. capacity > 0 => Room(entries, capacity)
    BY <2>1, HavingRoom DEF Scalars
  <2>3. entries \in Arrays(capacity)
    BY <2>1 DEF Whole, Sound
  <2>4. growing # Settled =>
          /\ growing.key \in Key /\ growing.value \in Value
          /\ growing.at \in 0 .. capacity /\ growing.count \in Nat
          /\ growing.capacity = Larger(capacity)
          /\ growing.entries \in Arrays(growing.capacity)
    BY DEF IInv, Moving
  <2>5. TypeOK
    BY <2>1, <2>3, <2>4 DEF TypeOK, Scalars
  <2> QED
    BY <2>2, <2>5 DEF ProbesEnd, Room
<1> QED
  BY <1>1, Invariance, PTL

(* The entry that OP_GET_GLOBAL and OP_SET_GLOBAL keep is that of their name   *)
(* as long as the table has the version they keep with it.                     *)
THEOREM PointersStayGood == Spec => []PointersGood
<1>1. IInv => PointersGood
  BY DEF IInv, CachesOK, PointersGood, Valid
<1> QED
  BY <1>1, Invariance, PTL

(* The table implements a map, through every insertion, deletion, collection   *)
(* and growth, and every store through a pointer that was kept.                *)
THEOREM ImplementsContract == Spec => KeepsContract
<1> DEFINE M == [k \in Key |-> csTableGet(k)]
<1>1. Init => Contract!Init
  <2> SUFFICES ASSUME Init PROVE Contract!Init
    OBVIOUS
  <2>1. use \in {"globals", "object", "pool"} /\ count = 0
    BY TablesAssumption DEF Init
  <2>2. \A k \in Key : csTableGet(k) = Absent
    BY <2>1 DEF csTableGet, Found
  <2> QED
    BY <2>1, <2>2 DEF Contract!Init
<1>2. IInv /\ [Next]_vars => [Contract!Next]_<<use, M>>
  <2> SUFFICES ASSUME IInv, [Next]_vars
               PROVE  Contract!Next \/ (use' = use /\ M' = M)
    OBVIOUS
  <2>1. IInv' /\ use' = use /\ Maps
    BY StepKeeps
  <2>2. M = [k \in Key |-> Reads(entries, capacity, k)]
    BY Answers
  <2>3. M' = [k \in Key |-> Reads(entries', capacity', k)]
    BY <2>1, AnswersThen DEF csTableGet, Found
  <2>4. CASE Keeps
    BY <2>1, <2>2, <2>3, <2>4 DEF Keeps
  <2>5. ASSUME NEW k \in Key, NEW v \in Value,
               Sets(k, v), use = "pool" => ~Has(entries, capacity, k)
        PROVE  Contract!Next
    <3>1. use = "pool" => M[k] = Absent
      BY <2>2, <2>5 DEF Reads
    <3>2. M' = [M EXCEPT ![k] = v]
      BY <2>2, <2>3, <2>5 DEF Sets
    <3>3. Contract!Put(k, v)
      BY <2>1, <3>1, <3>2 DEF Contract!Put
    <3> QED
      BY <3>3 DEF Contract!Next
  <2>6. ASSUME NEW k \in Key, use = "object", Loses({k})
        PROVE  Contract!Next
    <3>1. M' = [M EXCEPT ![k] = Absent]
      BY <2>2, <2>3, <2>6 DEF Loses
    <3>2. Contract!Remove(k)
      BY <2>1, <2>6, <3>1 DEF Contract!Remove
    <3> QED
      BY <3>2 DEF Contract!Next
  <2>7. ASSUME NEW ks \in SUBSET Key, use = "pool", Loses(ks)
        PROVE  Contract!Next
    <3>1. M' = [k \in Key |-> IF k \in ks THEN Absent ELSE M[k]]
      BY <2>2, <2>3, <2>7 DEF Loses
    <3>2. Contract!Forget(ks)
      BY <2>1, <2>7, <3>1 DEF Contract!Forget
    <3> QED
      BY <3>2 DEF Contract!Next
  <2> QED
    BY <2>1, <2>4, <2>5, <2>6, <2>7 DEF Maps
<1> QED
  BY <1>1, <1>2, Invariance, PTL DEF Spec, KeepsContract, Contract!Spec
===============================================================================
