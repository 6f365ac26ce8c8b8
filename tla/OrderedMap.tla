------------------------------ MODULE OrderedMap ------------------------------
(* native/native_map.c: Map, Set, WeakMap and WeakSet, which are one structure.*)
(* Entries stand in a dense array in the order they came; an open-addressed    *)
(* index beside it leads from the hash of a key to its entry.  Three things    *)
(* can come between the steps of one call: a collection, wherever the map      *)
(* allocates, which takes the dead entries of a weak map out and renumbers     *)
(* the rest; and the callback of forEach, which may do anything to the map     *)
(* that is being walked.                                                       *)
(*                                                                             *)
(* A deleted entry is cleared and the array compacted before the same call     *)
(* allocates (csMapDelete, pruneWeakReferences), so no tombstone is ever       *)
(* seen and `present` is not modelled.                                         *)
EXTENDS Integers, Sequences, SequencesExt

CONSTANTS
  Key, Value, None,
  Hashes,       \* the hashes keys may have
  IndexMin,     \* the first size of the index (8 in the code)
  EntriesMin,   \* the first size of the array (8 in the code)
  Kinds         \* "strong", "weak" or both

ASSUME OrderedMapAssumption ==
  /\ None \notin Value
  /\ Hashes \subseteq Nat
  /\ IndexMin \in Nat \ {0} /\ EntriesMin \in Nat \ {0}
  /\ Kinds \subseteq {"strong", "weak"}

VARIABLES
  kind,      \* what was constructed: a Map or Set, or a WeakMap or WeakSet
  hash,      \* the hash of each key: its address, or what it contains
  held,      \* the keys the program still holds
  map,       \* [entries, capacity, index, size]; size is liveCount
  op,        \* the call under way that is about to allocate, or Idle
  walk,      \* forEach: at "none", "loop" or "callback", and its counter i
  did,       \* history: what has just taken effect, as far as a program sees
  owed,      \* history: the entries forEach has yet to meet
  spoilt,    \* history: this forEach has seen an entry go that it had passed
  astray     \* history: an entry was put where a search does not look for it

vars == <<kind, hash, held, map, op, walk, did, owed, spoilt, astray>>

-------------------------------------------------------------------------------
(* The structure.                                                              *)

KeysOf(s) == {s[n].key : n \in DOMAIN s}
(* The entries that stay, moved together.                                     *)
Without(s, S) ==
  LET upTo[n \in 0..Len(s)] ==
        IF n = 0 THEN <<>>
        ELSE IF s[n].key \in S THEN upTo[n - 1] ELSE Append(upTo[n - 1], s[n])
  IN upTo[Len(s)]

IndexCapacity(m) == Len(m.index)
(* index is a sequence; Slot(i, n) is the n-th place probed, wrapping round.   *)
Probed(index, k, d) == ((hash[k] + d) % Len(index)) + 1

(* Probing stops at an empty place or at the entry that has the key.           *)
Stops(m, k, p) == m.index[p] = 0 \/ m.entries[m.index[p]].key = k

findSlot(m, k) ==
  LET d == CHOOSE d \in 0..(Len(m.index) - 1) :
             /\ Stops(m, k, Probed(m.index, k, d))
             /\ \A c \in 0..(d - 1) : ~Stops(m, k, Probed(m.index, k, c))
  IN Probed(m.index, k, d)

EmptyIndex(n) == [p \in 1..n |-> 0]

(* The index over the entries, entered one after the other.                    *)
Indexed(entries, n) ==
  LET upTo[e \in 0..Len(entries)] ==
        IF e = 0 THEN EmptyIndex(n)
        ELSE LET m == [index |-> upTo[e - 1], entries |-> entries]
             IN [upTo[e - 1] EXCEPT ![findSlot(m, entries[e].key)] = e]
  IN upTo[Len(entries)]

(* Where the index says the entry of a key is, or 0.                           *)
EntryOf(m, k) == IF IndexCapacity(m) = 0 THEN 0 ELSE m.index[findSlot(m, k)]

csMapGet(m, k) ==
  IF EntryOf(m, k) = 0 THEN None ELSE m.entries[EntryOf(m, k)].value

GrowCapacity(c) == IF c < EntriesMin THEN EntriesMin ELSE 2 * c

Overfull(m) == 4 * (Len(m.entries) + 1) > 3 * IndexCapacity(m)

csMapNew == [entries |-> <<>>, capacity |-> 0, index |-> <<>>, size |-> 0]

Idle == [at |-> "program"]
NoWalk == [at |-> "none", i |-> 0]

(* What took effect: a call with its answer, if it was a lookup, the meeting of*)
(* an entry, or the end of a walk.                                             *)
Did(call, k, v) == [call |-> call, key |-> k, value |-> v]
Nothing == Did("none", None, None)

Init ==
  /\ kind \in Kinds
  /\ hash \in [Key -> Hashes]
  /\ held = Key
  /\ map = csMapNew
  /\ op = Idle
  /\ walk = NoWalk
  /\ did = Nothing
  /\ owed = {} /\ spoilt = FALSE /\ astray = FALSE

(* Program code has the thread: the top level, or the callback of a forEach.   *)
Running == op = Idle /\ walk.at # "loop"

-------------------------------------------------------------------------------
(* csMapSet, in the pieces that the allocations divide it into.                *)

(* The entry goes where there is room, and the index gets it at `slot`.        *)
Appended(m, slot, k, v) ==
  [m EXCEPT !.entries = Append(@, [key |-> k, value |-> v]),
            !.index[slot] = Len(m.entries) + 1,
            !.size = @ + 1]

Enter(m, slot, k, v) ==
  /\ map' = Appended(m, slot, k, v)
  /\ op' = Idle /\ did' = Did("set", k, v)
  /\ owed' = IF walk.at # "none" THEN owed \cup {k} ELSE owed

(* The last piece: the array may have to grow first.                           *)
Add(m, slot, k, v) ==
  IF m.capacity < Len(m.entries) + 1
  THEN /\ map' = m
       /\ op' = [at |-> "grow", key |-> k, value |-> v, slot |-> slot, struck |-> FALSE]
       /\ owed' = owed /\ did' = Nothing
  ELSE Enter(m, slot, k, v)

(* As if a key that is in went to the end again.                               *)
MutPlace(m, k, v) ==
  LET slot == findSlot(m, k)
      rest == IF m.index[slot] = 0 THEN m ELSE [m EXCEPT !.entries = RemoveAt(@, m.index[slot])]
  IN Add([rest EXCEPT !.index = Indexed(rest.entries, IndexCapacity(m)),
                      !.size = Len(rest.entries)], slot, k, v)

(* The middle: is the key in, and is there room in the index for one more.     *)
Place(m, k, v) ==
  LET slot == findSlot(m, k)
  IN IF m.index[slot] # 0
     THEN /\ map' = [m EXCEPT !.entries[m.index[slot]].value = v]
          /\ op' = Idle /\ did' = Did("set", k, v) /\ owed' = owed
     ELSE IF Overfull(m)
     THEN /\ map' = m
          /\ op' = [at |-> "index", then |-> "add", size |-> 2 * IndexCapacity(m),
                    key |-> k, value |-> v]
          /\ owed' = owed /\ did' = Nothing
     ELSE Add(m, slot, k, v)

set(k, v) ==
  /\ Running /\ k \in held
  /\ IF IndexCapacity(map) = 0
     THEN /\ op' = [at |-> "index", then |-> "place", size |-> IndexMin,
                    key |-> k, value |-> v]
          /\ did' = Nothing /\ UNCHANGED <<map, owed>>
     ELSE Place(map, k, v)
  /\ UNCHANGED <<kind, hash, held, walk, spoilt, astray>>

(* The entries have been compacted before rehash allocates the new index.      *)
rehash ==
  /\ op.at = "index"
  /\ LET m == [map EXCEPT !.index = Indexed(map.entries, op.size)]
     IN CASE op.then = "place" -> Place(m, op.key, op.value)
          [] op.then = "add" -> Add(m, findSlot(m, op.key), op.key, op.value)
          [] OTHER -> map' = m /\ op' = Idle /\ did' = Nothing /\ owed' = owed
  /\ UNCHANGED <<kind, hash, held, walk, spoilt, astray>>

(* The slot is the one found before the array grew, which may not be the one   *)
(* that a search finds after a collection has renumbered the entries.          *)
grow ==
  /\ op.at = "grow"
  /\ Enter([map EXCEPT !.capacity = GrowCapacity(@)], op.slot, op.key, op.value)
  /\ astray' = (astray \/ (op.struck /\ findSlot(map, op.key) # op.slot))
  /\ UNCHANGED <<kind, hash, held, walk, spoilt>>

(* An entry that forEach has passed goes from under its counter.               *)
delete(k) ==
  /\ Running /\ k \in held
  /\ EntryOf(map, k) # 0
  /\ map' = [map EXCEPT !.entries = RemoveAt(@, EntryOf(map, k)), !.size = @ - 1]
  /\ op' = [at |-> "index", then |-> "deleted", size |-> IndexCapacity(map)]
  /\ did' = Did("delete", k, None)
  /\ owed' = owed \ {k}
  /\ spoilt' = (spoilt \/ (walk.at # "none" /\ EntryOf(map, k) <= walk.i))
  /\ UNCHANGED <<kind, hash, held, walk, astray>>

(* Weak collections have no clear.                                             *)
clear ==
  /\ Running /\ kind = "strong"
  /\ map' = [map EXCEPT !.entries = <<>>, !.size = 0,
                        !.index = EmptyIndex(IndexCapacity(map))]
  /\ did' = Did("clear", None, None)
  /\ owed' = {}
  /\ spoilt' = (walk.at # "none")
  /\ UNCHANGED <<kind, hash, held, op, walk, astray>>

get(k) ==
  /\ Running /\ k \in held
  /\ did' = Did("get", k, csMapGet(map, k))
  /\ UNCHANGED <<kind, hash, held, map, op, walk, owed, spoilt, astray>>

-------------------------------------------------------------------------------
(* forEach, which weak collections do not have.  Its counter runs over the     *)
(* array; the callback is program code.                                        *)

eachStart ==
  /\ Running /\ walk.at = "none" /\ kind = "strong"
  /\ walk' = [at |-> "loop", i |-> 1]
  /\ owed' = KeysOf(map.entries)
  /\ did' = Nothing
  /\ UNCHANGED <<kind, hash, held, map, op, spoilt, astray>>

eachCall ==
  /\ walk.at = "loop" /\ walk.i <= Len(map.entries)
  /\ walk' = [walk EXCEPT !.at = "callback"]
  /\ LET e == map.entries[walk.i]
     IN owed' = owed \ {e.key} /\ did' = Did("meet", e.key, e.value)
  /\ UNCHANGED <<kind, hash, held, map, op, spoilt, astray>>

eachReturn ==
  /\ walk.at = "callback" /\ Running
  /\ walk' = [at |-> "loop", i |-> walk.i + 1]
  /\ did' = Nothing
  /\ UNCHANGED <<kind, hash, held, map, op, owed, spoilt, astray>>

WalkOver(how) ==
  /\ walk' = NoWalk /\ owed' = {} /\ spoilt' = FALSE
  /\ did' = Did(how, None, None)
  /\ UNCHANGED <<kind, hash, held, map, op, astray>>

(* As if the loop stopped one short of the end.                                *)
MutEachEnd ==
  /\ walk.at = "loop" /\ walk.i >= Len(map.entries)
  /\ WalkOver("end")

eachEnd ==
  /\ walk.at = "loop" /\ walk.i > Len(map.entries)
  /\ WalkOver("end")

(* A throw from the callback ends the walk where it is.                        *)
eachThrow ==
  /\ walk.at = "callback" /\ Running
  /\ WalkOver("throw")

-------------------------------------------------------------------------------
(* The program lets go of a key: no variable, array or object leads to it.     *)
die(k) ==
  /\ Running /\ kind = "weak" /\ k \in held
  /\ held' = held \ {k}
  /\ did' = Nothing
  /\ UNCHANGED <<kind, hash, map, op, walk, owed, spoilt, astray>>

(* As if the index were left as it was.                                        *)
MutCollect ==
  /\ kind = "weak"
  /\ LET rest == Without(map.entries, KeysOf(map.entries) \ held)
     IN map' = [map EXCEPT !.entries = rest, !.size = Len(rest)]
  /\ did' = Nothing
  /\ UNCHANGED <<kind, hash, held, op, walk, owed, spoilt, astray>>

(* A collection, from the program's own allocations or from the map's:         *)
(* pruneWeakReferences, and csMapReindexInPlace if it took anything out.  The  *)
(* key of the call under way is on the stack, so it is held; the place it has  *)
(* found for the key is a number in a C local, and is not looked up again.     *)
collect ==
  /\ kind = "weak"
  /\ LET dead == KeysOf(map.entries) \ held
         rest == Without(map.entries, dead)
     IN /\ dead # {}
        /\ map' = [map EXCEPT !.entries = rest, !.size = Len(rest),
                              !.index = Indexed(rest, IndexCapacity(map))]
  /\ op' = IF op.at = "grow" THEN [op EXCEPT !.struck = TRUE] ELSE op
  /\ did' = Nothing
  /\ UNCHANGED <<kind, hash, held, walk, owed, spoilt, astray>>

Next ==
  \/ \E k \in Key : delete(k) \/ get(k) \/ die(k) \/ \E v \in Value : set(k, v)
  \/ rehash \/ grow \/ clear \/ collect
  \/ eachStart \/ eachCall \/ eachReturn \/ eachEnd \/ eachThrow

Spec == Init /\ [][Next]_vars

-------------------------------------------------------------------------------
(* Every variable stays within its type.                                       *)
Entries == [key : Key, value : Value]
Happenings == [call : {"none", "set", "delete", "clear", "get", "meet", "end", "throw"},
               key : Key \cup {None}, value : Value \cup {None}]
TypeOK ==
  /\ kind \in Kinds /\ hash \in [Key -> Hashes] /\ held \subseteq Key
  /\ map.entries \in Seq(Entries)
  /\ map.capacity \in Nat /\ Len(map.entries) <= map.capacity
  /\ map.index \in Seq(0..map.capacity)
  /\ map.size = Len(map.entries)
  /\ op.at \in {"program", "index", "grow"}
  /\ did \in Happenings
  /\ walk.at \in {"none", "loop", "callback"} /\ walk.i \in Nat
  /\ owed \subseteq Key

Finds(n) == EntryOf(map, map.entries[n].key) = n

(* findSlot finds every entry, and only entries that are there, whatever was   *)
(* set, deleted, collected and moved before; and a search for a key that is    *)
(* not in comes to an end, because the index never fills up.  The one way out  *)
(* is a weak collection that was collected while its array grew, after         *)
(* csMapSet had found a place that the collection then made another.           *)
LookupFinds ==
  IF astray THEN kind = "weak"
  ELSE /\ TypeOK
       /\ op = Idle =>
            /\ \A n \in DOMAIN map.entries : Finds(n)
            /\ \A p \in DOMAIN map.index : map.index[p] \in 0..Len(map.entries)
            /\ map.index # <<>> => \E p \in DOMAIN map.index : map.index[p] = 0

(* What the weak collections' test says: entries whose keys nothing else holds *)
(* go away, but only those; one whose key is held can be found.                *)
HeldKeysStay ==
  op = Idle => \A n \in DOMAIN map.entries : map.entries[n].key \in held => Finds(n)

(* forEach meets no entry twice, and each that stays, those added on the way   *)
(* included, unless its callback took out one that it had passed.              *)
WalkMeetsEach ==
  [][/\ walk.at = "loop" /\ walk'.at = "callback" => map.entries[walk.i].key \in owed
     /\ walk.at = "loop" /\ walk'.at = "none" => owed = {} \/ spoilt]_vars

(* What the comment in csMapDelete says: the order of everything after a       *)
(* deleted entry is undisturbed, so what a forEach has yet to meet when its    *)
(* callback deletes stays ahead of its counter.                                *)
WalkUndisturbed ==
  [][walk.at = "callback" /\ did'.call = "delete" =>
       \A n \in DOMAIN map'.entries : map'.entries[n].key \in owed' => n > walk.i]_vars

(* To a program the structure is a collection that remembers the order of its  *)
(* keys: what a lookup answers, what each call changes, what a walk meets and  *)
(* what a collection takes is what KeyedCollection says, until an entry has    *)
(* gone astray.                                                                *)
Contract == INSTANCE KeyedCollection WITH
  weak <- kind = "weak", items <- map.entries, walking <- walk.at # "none", excused <- spoilt
KeepsCollection == Contract!Init /\ [][Contract!Next \/ astray]_(Contract!vars)
===============================================================================
