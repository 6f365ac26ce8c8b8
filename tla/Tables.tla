-------------------------------- MODULE Tables --------------------------------
(***************************************************************************)
(* The hash table of the runtime (src/runtime/table.c): open addressing    *)
(* with linear probing, tombstones and growth, in three of its uses.       *)
(*                                                                         *)
(*   globals  of a module, whose entries code keeps pointers to            *)
(*            (OP_GET_GLOBAL, OP_SET_GLOBAL, assignGlobal)                 *)
(*   object   an object that has left its shape, whose properties may be   *)
(*            deleted (object_bag.c)                                       *)
(*   pool     of interned strings, which the collector takes out when      *)
(*            nothing else refers to them (object.c, csCollectGarbage)     *)
(*                                                                         *)
(* Moving the entries to a larger array is a step for each entry; nothing  *)
(* else can happen in between but the collection that allocating the array *)
(* may set off.                                                            *)
(***************************************************************************)
EXTENDS Naturals, FiniteSets

CONSTANTS
  Key,            \* interned strings
  Hash,           \* the hash each was created with
  Value,          \* what a table maps them to, null and true among them
  Null, True,     \* NULL_VAL, BOOL_VAL(true)
  NoKey,          \* a NULL key
  Absent,         \* no answer
  Site,           \* places in the code that read or assign a global
  Named,          \* the global each of them names
  FirstCapacity,  \* CS_GROW_CAPACITY of an empty table
  MaxCapacity,    \* a table of this capacity is not asked to grow
  MaxVersion,     \* deletions stop at this version
  MaxStrings,     \* strings that are in the pool at once, garbage among them
  Uses            \* the uses considered

ASSUME TablesAssumption ==
  /\ Hash \in [Key -> Nat]
  /\ NoKey \notin Key /\ Absent \notin Value
  /\ Null \in Value /\ True \in Value /\ Null # True
  /\ Named \in [Site -> Key]
  /\ FirstCapacity \in Nat /\ FirstCapacity >= 2
  /\ MaxCapacity \in Nat /\ MaxVersion \in Nat /\ MaxStrings \in Nat \ {0}
  /\ Uses \subseteq {"globals", "object", "pool"}

Entry == [key : Key \cup {NoKey}, value : Value]
Empty == [key |-> NoKey, value |-> Null]
Tombstone == [key |-> NoKey, value |-> True]

Arrays(n) == [0 .. n - 1 -> Entry]

VARIABLES
  use,       \* what the table is for; never changes
  entries, capacity, count, version,
  growing,   \* the csTableSet that is moving the entries, or Settled
  cache      \* what each site has kept: GlobalCache

vars == <<use, entries, capacity, count, version, growing, cache>>

Settled == [at |-> 0, entries |-> << >>, capacity |-> 0, count |-> 0,
            key |-> NoKey, value |-> Null]
Growing == growing.key # NoKey

-----------------------------------------------------------------------------
(* Probing.                                                                *)

(* The place d steps after the one a key hashes to.                        *)
Place(n, k, d) ==
  LET i == (Hash[k] % n) + d
  IN  IF i < n THEN i ELSE i - n

(* The probe for a key comes to it before a place that was never used.     *)
Meets(e, n, k, d) ==
  e[Place(n, k, d)].key = k /\ \A c \in 0 .. d - 1 : e[Place(n, k, c)] # Empty

(* The first place without a key, whether it had one or not.               *)
Free(e, n, k, d) ==
  e[Place(n, k, d)].key = NoKey /\ \A c \in 0 .. d - 1 : e[Place(n, k, c)].key # NoKey

Present(e, n, k) == \E d \in 0 .. n - 1 : Meets(e, n, k, d)

(* As if the first place without a key ended the probe.                    *)
MutFindEntry(e, n, k) ==
  Place(n, k, CHOOSE d \in 0 .. n - 1 :
    /\ e[Place(n, k, d)].key \in {k, NoKey}
    /\ \A c \in 0 .. d - 1 : e[Place(n, k, c)].key \notin {k, NoKey})

(* The place of the key, or else the first one it can be put.              *)
findEntry(e, n, k) ==
  Place(n, k, CHOOSE d \in 0 .. n - 1 :
    IF Present(e, n, k) THEN Meets(e, n, k, d) ELSE Free(e, n, k, d))

Found(k) == count # 0 /\ entries[findEntry(entries, capacity, k)].key # NoKey

csTableGet(k) == IF Found(k) THEN entries[findEntry(entries, capacity, k)].value ELSE Absent

(* csTableFindString compares the characters: the string is the same one.  *)
Interned(k) == count # 0 /\ Present(entries, capacity, k)

-----------------------------------------------------------------------------
(* Entering and growing: csTableSet, adjustCapacity.                       *)

(* count + 1 > capacity * TABLE_MAX_LOAD.                                  *)
Crowded == 4 * (count + 1) > 3 * capacity
Larger(n) == IF n < FirstCapacity THEN FirstCapacity ELSE 2 * n

(* A tombstone that is used again was counted already.                     *)
Counted(n, e, i) == IF e[i] = Empty THEN n + 1 ELSE n

(* What each use enters.  csStringCopy interns what csTableFindString does *)
(* not find.                                                               *)
MayEnter(k, v) ==
  use = "pool" =>
    /\ ~Interned(k) /\ v = Null
    /\ Cardinality({s \in Key : Interned(s)}) < MaxStrings

Enter(e, n, k, v) ==
  LET i == findEntry(e, capacity', k)
  IN  /\ entries' = [e EXCEPT ![i] = [key |-> k, value |-> v]]
      /\ count' = Counted(n, e, i)

csTableSet(k, v) ==
  /\ ~Growing /\ ~Crowded /\ MayEnter(k, v)
  /\ capacity' = capacity
  /\ Enter(entries, count, k, v)
  /\ UNCHANGED <<use, version, growing, cache>>

(* The version moves before the entries do.                                *)
MutBumped == version
Bumped == version + 1

adjustCapacity(k, v) ==
  /\ ~Growing /\ Crowded /\ MayEnter(k, v) /\ Larger(capacity) <= MaxCapacity
  /\ growing' = [at |-> 0, entries |-> [i \in 0 .. Larger(capacity) - 1 |-> Empty],
                 capacity |-> Larger(capacity), count |-> 0, key |-> k, value |-> v]
  /\ version' = Bumped
  /\ UNCHANGED <<use, entries, capacity, count, cache>>

(* Tombstones are left behind.                                             *)
MoveEntry ==
  LET g == growing
      e == entries[g.at]
      i == findEntry(g.entries, g.capacity, e.key)
  IN  /\ Growing /\ g.at < capacity
      /\ growing' = IF e.key = NoKey THEN [g EXCEPT !.at = @ + 1]
                    ELSE [g EXCEPT !.at = @ + 1, !.entries[i] = e, !.count = @ + 1]
      /\ UNCHANGED <<use, entries, capacity, count, version, cache>>

(* The larger array takes the place of the old one, and the key goes in.   *)
EntriesMoved ==
  /\ Growing /\ growing.at = capacity
  /\ capacity' = growing.capacity
  /\ Enter(growing.entries, growing.count, growing.key, growing.value)
  /\ growing' = Settled
  /\ UNCHANGED <<use, version, cache>>

-----------------------------------------------------------------------------
(* Deleting.                                                               *)

(* As if the place were given back at once.                                *)
MutBuried(ks) ==
  [i \in DOMAIN entries |->
     IF \E k \in ks : i = findEntry(entries, capacity, k) THEN Empty ELSE entries[i]]

Buried(ks) ==
  [i \in DOMAIN entries |->
     IF \E k \in ks : i = findEntry(entries, capacity, k) THEN Tombstone ELSE entries[i]]

(* A tombstone is still counted.                                           *)
MutCountWithout(ks) == count - Cardinality(ks)
CountWithout(ks) == count

csTableDelete(k) ==
  /\ use = "object" /\ ~Growing /\ version < MaxVersion
  /\ Found(k)
  /\ entries' = Buried({k})
  /\ count' = CountWithout({k})
  /\ version' = version + 1
  /\ UNCHANGED <<use, capacity, growing, cache>>

(* Any allocation may set a collection off, the one of a larger array among *)
(* them.  It takes out the strings that nothing refers to.                 *)
csTableRemoveWhite(ks) ==
  /\ use = "pool" /\ (Growing => growing.at = 0) /\ version + Cardinality(ks) <= MaxVersion
  /\ ks # {} /\ \A k \in ks : Interned(k)
  /\ entries' = Buried(ks)
  /\ count' = CountWithout(ks)
  /\ version' = version + Cardinality(ks)
  /\ UNCHANGED <<use, capacity, growing, cache>>

-----------------------------------------------------------------------------
(* Globals: OP_GET_GLOBAL, OP_SET_GLOBAL, assignGlobal.  The names that are *)
(* assigned are not constants.                                             *)

Nothing == [filled |-> FALSE, entry |-> 0, version |-> 0]
Kept(k) == [filled |-> TRUE, entry |-> findEntry(entries, capacity, k), version |-> version]

Valid(s) == cache[s].filled /\ cache[s].version = version

(* A site that reads looks its entry up once.                              *)
GetGlobal(s) ==
  /\ use = "globals" /\ ~Growing
  /\ ~Valid(s) /\ Found(Named[s])
  /\ cache' = [cache EXCEPT ![s] = Kept(Named[s])]
  /\ UNCHANGED <<use, entries, capacity, count, version, growing>>

(* A site that assigns stores through the pointer it has.                  *)
SetGlobal(s, v) ==
  LET i == IF Valid(s) THEN cache[s].entry ELSE findEntry(entries, capacity, Named[s])
  IN  /\ use = "globals" /\ ~Growing
      /\ Valid(s) \/ Found(Named[s])
      /\ entries' = [entries EXCEPT ![i].value = v]
      /\ cache' = IF Valid(s) THEN cache ELSE [cache EXCEPT ![s] = Kept(Named[s])]
      /\ UNCHANGED <<use, capacity, count, version, growing>>

-----------------------------------------------------------------------------
Init ==
  /\ use \in Uses
  /\ entries = [i \in {} |-> Empty] /\ capacity = 0 /\ count = 0 /\ version = 0
  /\ growing = Settled
  /\ cache = [s \in Site |-> Nothing]

Next ==
  \/ \E k \in Key, v \in Value : csTableSet(k, v) \/ adjustCapacity(k, v)
  \/ MoveEntry \/ EntriesMoved
  \/ \E k \in Key : csTableDelete(k)
  \/ \E ks \in SUBSET Key : csTableRemoveWhite(ks)
  \/ \E s \in Site : GetGlobal(s) \/ \E v \in Value : SetGlobal(s, v)

Spec == Init /\ [][Next]_vars

-----------------------------------------------------------------------------
(* Properties.                                                             *)

TypeOK ==
  /\ use \in Uses
  /\ capacity \in Nat /\ count \in Nat /\ version \in Nat
  /\ entries \in Arrays(capacity)
  /\ growing # Settled =>
       /\ growing.key \in Key /\ growing.value \in Value
       /\ growing.at \in 0 .. capacity /\ growing.count \in Nat
       /\ growing.capacity = Larger(capacity)
       /\ growing.entries \in Arrays(growing.capacity)
  /\ cache \in [Site -> [filled : BOOLEAN, entry : Nat, version : Nat]]

(* A probe always comes to a place that was never used: whatever was       *)
(* entered and deleted, the count, with its tombstones, keeps the table    *)
(* from filling up, and findEntry from going round for ever.               *)
ProbesEnd == TypeOK /\ (capacity > 0 => \E i \in 0 .. capacity - 1 : entries[i] = Empty)

(* As long as a site's version is that of the table, the entry it points   *)
(* at is still that of its name.                                           *)
PointersGood ==
  \A s \in Site : Valid(s) =>
    cache[s].entry \in 0 .. capacity - 1 /\ entries[cache[s].entry].key = Named[s]

(* A table is a map, for all that happens to it: no key is lost, found     *)
(* twice or given another's value by a deletion, a tombstone used again, a *)
(* collection in the middle of growing or a store through a pointer.       *)
Contract == INSTANCE TableContract WITH map <- [k \in Key |-> csTableGet(k)]
KeepsContract == Contract!Spec

(* The pool takes no more than what the strings that are in it at once     *)
(* call for.  A collection walks all of it, so that this is part of what a *)
(* collection costs.                                                       *)
SizeFollowsKeys ==
  use = "pool" => capacity <= FirstCapacity \/ 3 * capacity <= 8 * MaxStrings
===============================================================================
