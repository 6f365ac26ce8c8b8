--------------------------------- MODULE Heap ---------------------------------
(* Shapes (runtime/shape.c), property bags (runtime/object_bag.c), the inline  *)
(* caches of the sites that read and write properties (vm_ops_value.inc,       *)
(* vm_cache_miss.inc, compiler/chunk.c) and the collector (memory.c).          *)
(*                                                                             *)
(* An object shares its layout, a shape, with those built the same way, until  *)
(* it leaves shape mode and keeps a list of keys of its own.  A site remembers *)
(* the shape it saw last and where its property is in it.  Neither a site nor  *)
(* the edge from a shape to the one that adds a key keeps a shape alive.  Any  *)
(* step that allocates may collect first, so a call stops before each of its   *)
(* allocations, in the phase op.at.                                            *)
(*                                                                             *)
(* Keys are model values: strings, and the tables that find a key in a shape   *)
(* or in a dictionary, are not modelled.  The calls that end the program with  *)
(* an error (a store to a frozen object, where the code looks) are steps that  *)
(* are not taken.                                                              *)
EXTENDS Naturals, Sequences, FiniteSets

CONSTANTS
  Object, Shape,  \* the cells of memory that may hold an object or a shape
  Root,           \* vm.emptyShape
  Absent,         \* vm.absentShape: a shape no object ever has
  None,           \* NULL, and what a free cell holds
  Key, Datum,     \* the names of properties; the values that are no object
  Site,           \* the instructions that read or write a property ...
  Reads,          \* ... those of them that read
  KeyOf,          \* ... and the key each of them names
  MaxSlots,       \* CS_SHAPE_MAX_SLOTS (64 in the code)
  FirstSlots,     \* the first capacity of an array of slots (4 in the code)
  MaxCalls,       \* bound: the calls a program makes
  Definable,      \* bound: the keys that are made read-only ...
  Settable        \* ... and those that a setter of a prototype takes

(* What a cell for a shape, a cell for an object and a property bag may hold.  *)
ShapeCell ==
  [parent : Shape \cup {None}, key : Key \cup {None}, keys : Seq(Key),
   edges : [Key -> Shape \cup {None}]]
ObjectCell ==
  [shape : Shape \cup {None}, keys : Seq(Key), slots : Seq(Object \cup Datum),
   capacity : Nat, frozen : BOOLEAN, guarded : SUBSET Key]
BagCell ==
  [entries : Seq([key : Key, value : Object \cup Datum]), frozen : BOOLEAN,
   guarded : SUBSET Key]

(* The ways to store to a property or to delete one: the slow path of a site   *)
(* and its cache, o[k] = v, Object.assign and natives, Object.defineProperty,  *)
(* delete.                                                                     *)
Ways == {"none", "site", "cache", "index", "assign", "define", "delete"}

ASSUME HeapAssumption ==
  /\ IsFiniteSet(Object)
  /\ None \notin ShapeCell \cup ObjectCell \cup BagCell
  /\ Root \in Shape /\ Absent \notin Shape
  /\ None \notin Shape \cup Object \cup Datum \cup {Absent}
  /\ Shape \cap Object = {} /\ Datum \cap Object = {}
  /\ Reads \subseteq Site /\ KeyOf \in [Site -> Key]
  /\ MaxSlots \in Nat \ {0} /\ FirstSlots \in Nat \ {0}
  /\ MaxCalls \in Nat /\ Definable \cup Settable \subseteq Key

VARIABLES
  shape,    \* each cell for shapes: [parent, key, keys, edges] or None
  object,   \* each cell for objects: [shape, keys, slots, capacity, frozen, guarded] or None
  cache,    \* the inline cache of each site: [shape, added, slot]
  held,     \* the objects on the stack of the interpreter
  temps,    \* vm.tempRoots
  op,       \* the call under way: [at, site, object, key, value, before, next]
  way,      \* the way the store or deletion under way, or the last one, takes
  calls     \* how many calls the program has made

vars == <<shape, object, cache, held, temps, op, way, calls>>

Value == Object \cup Datum
Shapes == {s \in Shape : shape[s] # None}
Objects == {o \in Object : object[o] # None}
Calling == op.at # "idle"

-------------------------------------------------------------------------------
(* Layouts.                                                                    *)

(* The keys of an object, in the order they came, and how many slots count.    *)
KeysIn(h, o) == IF o.shape = None THEN o.keys ELSE h[o.shape].keys
KeysOf(o) == KeysIn(shape, object[o])
SlotsOf(keys, k) == {n \in DOMAIN keys : keys[n] = k}
Has(o, k) == SlotsOf(KeysOf(o), k) # {}
csShapeLookup(keys, k) == CHOOSE n \in SlotsOf(keys, k) : TRUE

NoEdges == [k \in Key |-> None]
(* What is needed is never more than one slot beyond the capacity.             *)
ensureSlots(c, needed) ==
  IF c >= needed THEN c ELSE IF c < FirstSlots THEN FirstSlots ELSE 2 * c

Fresh == [shape |-> Root, keys |-> <<>>, slots |-> <<>>, capacity |-> 0,
          frozen |-> FALSE, guarded |-> {}]
EmptyCache == [shape |-> Absent, added |-> None, slot |-> 0]
Idle == [at |-> "idle", site |-> None, object |-> None, key |-> None, value |-> None,
         before |-> None, next |-> None]

-------------------------------------------------------------------------------
(* The collector.                                                              *)

Cells == Shapes \cup Objects

(* What a cell keeps alive (csObjectBlacken, csShapeBlacken): a shape its      *)
(* parent, an object its shape and as many slots as its layout counts.         *)
Keeps(c) ==
  IF c \in Shape THEN {shape[c].parent} \ {None}
  ELSE LET o == object[c]
           counted == DOMAIN KeysIn(shape, o)
       IN ({o.shape} \ {None}) \cup ({o.slots[n] : n \in counted} \cap Object)

Roots == held \cup {Root} \cup {temps[n] : n \in DOMAIN temps}

(* What marking reaches: the cells of every set that holds the roots and       *)
(* whatever its members keep.                                                  *)
Marked ==
  LET keeps == [c \in Cells |-> Keeps(c)]
      closed == {S \in SUBSET Cells : Roots \subseteq S /\ \A c \in S : keeps[c] \subseteq S}
  IN {c \in Cells : \A S \in closed : c \in S}

(* Mutant: every edge goes, whether or not its child is in use.                *)
MutPruneTransitions(s, marked) == [s EXCEPT !.edges = NoEdges]

csShapePruneTransitions(s, marked) ==
  [s EXCEPT !.edges = [k \in Key |-> IF @[k] \in marked THEN @[k] ELSE None]]

(* Mutant: each half is given up by itself.                                    *)
MutPruneCaches(marked) ==
  [s \in Site |-> [cache[s] EXCEPT !.shape = IF @ \in marked THEN @ ELSE Absent,
                                   !.added = IF @ \in marked THEN @ ELSE None]]

(* Either half lost takes the whole entry with it.                             *)
csChunkPruneCaches(marked) ==
  [s \in Site |-> IF /\ cache[s].shape \in marked \cup {Absent}
                     /\ cache[s].added \in marked \cup {None}
                  THEN cache[s] ELSE EmptyCache]

(* A call is about to allocate, or something else the program does allocates.  *)
Allocating ==
  op.at = "room" => object[op.object].capacity < Len(shape[op.next].keys)

csCollectGarbage ==
  /\ Allocating
  /\ \E marked \in {Marked} :
       /\ shape' = [s \in Shape |-> IF s \in marked
                                    THEN csShapePruneTransitions(shape[s], marked) ELSE None]
       /\ object' = [o \in Object |-> IF o \in marked THEN object[o] ELSE None]
       /\ cache' = csChunkPruneCaches(marked)
  /\ UNCHANGED <<held, temps, op, way, calls>>

-------------------------------------------------------------------------------
(* Storing a property.                                                         *)

(* The layout an object leaves shape mode with is its own from then on.        *)
convertToDictionary(o) == [o EXCEPT !.keys = KeysIn(shape, o), !.shape = None, !.capacity = 0]

(* In dictionary mode, or over a property that is there.                       *)
dictionaryPut(o, k, v) ==
  LET places == SlotsOf(KeysIn(shape, o), k)
  IN IF places = {} THEN [o EXCEPT !.keys = Append(@, k), !.slots = Append(@, v)]
     ELSE [o EXCEPT !.slots = [n \in DOMAIN @ |-> IF n \in places THEN v ELSE @[n]]]

(* The end of propertyWriteSlow: what the site has learnt.                     *)
Learnt(s, before, o, k) ==
  IF s = None \/ o.shape = None THEN cache
  ELSE [cache EXCEPT ![s] = [shape |-> before,
                             added |-> IF before = o.shape THEN None ELSE o.shape,
                             slot |-> csShapeLookup(shape[o.shape].keys, k)]]

(* Mutant: the last property takes the place of the one that goes.             *)
MutDelete(o, k) ==
  LET last == Len(o.keys)
      filled(seq) == [n \in 1..(last - 1) |-> IF o.keys[n] = k THEN seq[last] ELSE seq[n]]
  IN [o EXCEPT !.keys = filled(@), !.slots = filled(@)]

(* What comes after the key moves up by one: the order is kept.                *)
MovedUp(seq, n) == [m \in 1..(Len(seq) - 1) |-> IF m < n THEN seq[m] ELSE seq[m + 1]]
csObjectDelete(o, k) ==
  LET n == csShapeLookup(o.keys, k)
  IN [o EXCEPT !.keys = MovedUp(@, n), !.slots = MovedUp(@, n)]

(* A put is over: o is the object as it is now.                                *)
Finish(s, target, key, before, o, roots) ==
  /\ object' = [object EXCEPT ![target] = o]
  /\ cache' = Learnt(s, before, o, key)
  /\ temps' = roots
  /\ op' = Idle

Rooted(o, v) == IF v \in Object THEN <<o, v>> ELSE <<o>>
Popped(n) == SubSeq(temps, 1, Len(temps) - n)

Started(at, s, o, k, v) ==
  [at |-> at, site |-> s, object |-> o, key |-> k, value |-> v,
   before |-> object[o].shape, next |-> None]

(* csObjectPut up to its first allocation.  An edge that is there is taken; a  *)
(* shape that is full sends the object into dictionary mode.                   *)
csObjectPut(s, o, k, v) ==
  LET old == object[o]
      rooted == temps \o Rooted(o, v)
  IN \/ /\ old.shape # None /\ Has(o, k)
        /\ Finish(s, o, k, old.shape, dictionaryPut(old, k, v), temps)
     \/ /\ old.shape = None
        /\ temps' = rooted
        /\ op' = Started("own", s, o, k, v)
        /\ UNCHANGED <<object, cache>>
     \/ /\ old.shape # None /\ ~Has(o, k)
        /\ LET next == shape[old.shape].edges[k]
               full == Len(shape[old.shape].keys) >= MaxSlots
               call == Started("child", s, o, k, v)
           IN /\ temps' = rooted \o (IF next # None THEN <<next>> ELSE IF full THEN <<>> ELSE <<old.shape>>)
              /\ op' = IF next # None THEN [call EXCEPT !.at = "room", !.next = next]
                       ELSE IF full THEN [call EXCEPT !.at = "convert"] ELSE call
        /\ UNCHANGED <<object, cache>>

(* csShapeTransition makes the child, a root until the call has got it.        *)
AllocateChild ==
  /\ op.at = "child"
  /\ \E c \in Shape \ Shapes :
       /\ shape' = [shape EXCEPT ![c] = [parent |-> op.before, key |-> op.key, edges |-> NoEdges,
                                         keys |-> Append(shape[op.before].keys, op.key)]]
       /\ temps' = Append(temps, c)
       /\ op' = [op EXCEPT !.at = "edge", !.next = c]
  /\ UNCHANGED <<object, cache, held, way, calls>>

(* Mutant: what the transition returned is not a root while room is made.      *)
MutRecordEdge ==
  /\ op.at = "edge"
  /\ shape' = [shape EXCEPT ![op.before].edges[op.key] = op.next]
  /\ temps' = Popped(2)
  /\ op' = [op EXCEPT !.at = "room"]
  /\ UNCHANGED <<object, cache, held, way, calls>>

(* The three roots of the transition go, and the caller pushes what it got.    *)
RecordEdge ==
  /\ op.at = "edge"
  /\ shape' = [shape EXCEPT ![op.before].edges[op.key] = op.next]
  /\ temps' = Append(Popped(2), op.next)
  /\ op' = [op EXCEPT !.at = "room"]
  /\ UNCHANGED <<object, cache, held, way, calls>>

(* Room is made, the value goes in, and only then the object adopts the shape. *)
Adopt ==
  /\ op.at = "room"
  /\ LET o == object[op.object]
         needed == Len(shape[op.next].keys)
     IN Finish(op.site, op.object, op.key, op.before,
               [o EXCEPT !.capacity = ensureSlots(@, needed),
                         !.slots = Append(@, op.value), !.shape = op.next],
               Popped(Len(Rooted(op.object, op.value)) + 1))
  /\ UNCHANGED <<shape, held, way, calls>>

(* An object leaves shape mode: its next shape would be too long, or one of    *)
(* its names is about to be read-only (csObjectLeaveShapeMode, whose caller    *)
(* goes on to csObjectPut).                                                    *)
Convert ==
  /\ op.at = "convert"
  /\ object' = [object EXCEPT ![op.object] = convertToDictionary(@)]
  /\ temps' = IF way = "define" THEN temps \o Rooted(op.object, op.value) ELSE temps
  /\ op' = [op EXCEPT !.at = "own"]
  /\ UNCHANGED <<shape, cache, held, way, calls>>

(* The value goes into the table of a dictionary; defineProperty records that  *)
(* the name is read-only.                                                      *)
PutOwn ==
  /\ op.at = "own"
  /\ LET o == dictionaryPut(object[op.object], op.key, op.value)
     IN Finish(None, op.object, op.key, None,
               IF way = "define" THEN [o EXCEPT !.guarded = @ \cup {op.key}] ELSE o,
               Popped(Len(Rooted(op.object, op.value))))
  /\ UNCHANGED <<shape, held, way, calls>>

-------------------------------------------------------------------------------
(* What the program does.                                                      *)

(* A call begins when the one before it is over.                               *)
Called == ~Calling /\ calls < MaxCalls /\ calls' = calls + 1
Storing(w) == Called /\ way' = w
Available == (held \cap Objects) \cup Datum

New(o) ==
  /\ Called
  /\ o \notin Objects
  /\ object' = [object EXCEPT ![o] = Fresh]
  /\ held' = held \cup {o}
  /\ UNCHANGED <<shape, cache, temps, op, way>>

(* An object leaves the stack.                                                 *)
Drop(o) ==
  /\ ~Calling
  /\ o \in held
  /\ held' = held \ {o}
  /\ UNCHANGED <<shape, object, cache, temps, op, way, calls>>

Hits(s, o) == object[o].shape = cache[s].shape

(* OP_GET_PROPERTY and propertyReadSlow, for an object's own properties.       *)
Read(s, o) ==
  /\ Called
  /\ s \in Reads /\ o \in held
  /\ \/ /\ Hits(s, o)
        /\ held' = held \cup ({object[o].slots[cache[s].slot]} \cap Object)
        /\ cache' = cache
     \/ /\ ~Hits(s, o)
        /\ Has(o, KeyOf[s])
        /\ LET slot == csShapeLookup(KeysOf(o), KeyOf[s])
           IN /\ held' = held \cup ({object[o].slots[slot]} \cap Object)
              /\ cache' = IF object[o].shape = None THEN cache
                          ELSE [cache EXCEPT ![s].shape = object[o].shape, ![s].slot = slot]
  /\ UNCHANGED <<shape, object, temps, op, way>>

(* csVMStoreCached: an overwrite, or an add for which there is room already.   *)
CanStoreCached(s, o) == cache[s].added = None \/ object[o].capacity >= cache[s].slot
csVMStoreCached(s, o, v) ==
  IF cache[s].added = None THEN [o EXCEPT !.slots[cache[s].slot] = v]
  ELSE [o EXCEPT !.slots = Append(@, v), !.shape = cache[s].added]

(* OP_SET_PROPERTY: the cached store, which asks nothing else; or              *)
(* propertyWriteSlow, which refuses a frozen object and a guarded name.        *)
Write(s, o, v) ==
  /\ s \in Site \ Reads /\ o \in held /\ v \in Available
  /\ \/ /\ Storing("cache")
        /\ Hits(s, o) /\ CanStoreCached(s, o)
        /\ object' = [object EXCEPT ![o] = csVMStoreCached(s, @, v)]
        /\ UNCHANGED <<cache, temps, op>>
     \/ /\ Storing("site")
        /\ ~(Hits(s, o) /\ CanStoreCached(s, o))
        /\ ~object[o].frozen /\ KeyOf[s] \notin object[o].guarded
        /\ csObjectPut(s, o, KeyOf[s], v)
  /\ UNCHANGED <<shape, held>>

(* o[k] = v, OP_SET_INDEX, looks for a frozen object, not for a guarded name.  *)
IndexStore(o, k, v) ==
  /\ Storing("index")
  /\ o \in held /\ v \in Available
  /\ ~object[o].frozen
  /\ csObjectPut(None, o, k, v)
  /\ UNCHANGED <<shape, held>>

(* Object.assign, and the natives that fill an object of their own, look for   *)
(* neither.  What they put may be in a variable of theirs only.                *)
Assign(o, k, v) ==
  /\ Storing("assign")
  /\ o \in held /\ v \in Available
  /\ held' \in {held, held \ {v}}
  /\ csObjectPut(None, o, k, v)
  /\ UNCHANGED shape

(* OP_DELETE_PROPERTY takes its operand off the stack before it looks for the  *)
(* property; an object in shape mode is converted first, which allocates.      *)
Delete(o, k) ==
  /\ Storing("delete")
  /\ o \in held
  /\ ~object[o].frozen
  /\ held' \in {held, held \ {o}}
  /\ \/ /\ ~Has(o, k)
        /\ UNCHANGED <<object, temps, op>>
     \/ /\ object[o].shape = None /\ Has(o, k)
        /\ object' = [object EXCEPT ![o] = csObjectDelete(@, k)]
        /\ UNCHANGED <<temps, op>>
     \/ /\ object[o].shape # None /\ Has(o, k)
        /\ temps' = Append(temps, o)
        /\ op' = Started("delete", None, o, k, None)
        /\ object' = object
  /\ UNCHANGED <<shape, cache>>

ConvertAndDelete ==
  /\ op.at = "delete"
  /\ Finish(None, op.object, op.key, None,
            csObjectDelete(convertToDictionary(object[op.object]), op.key), Popped(1))
  /\ UNCHANGED <<shape, held, way, calls>>

(* Object.defineProperty with writable: false.  The object leaves shape mode   *)
(* before the name is read-only.                                               *)
Define(o, k, v) ==
  /\ Storing("define")
  /\ o \in held /\ k \in Definable /\ v \in Available
  /\ ~object[o].frozen
  /\ LET inShape == object[o].shape # None
     IN /\ op' = Started(IF inShape THEN "convert" ELSE "own", None, o, k, v)
        /\ temps' = IF inShape THEN temps ELSE temps \o Rooted(o, v)
  /\ UNCHANGED <<shape, object, cache, held>>

(* Object.freeze, and Object.setPrototypeOf with a prototype that has a setter.*)
Freeze(o) ==
  /\ Called
  /\ o \in held
  /\ object' = [object EXCEPT ![o].frozen = TRUE]
  /\ UNCHANGED <<shape, cache, held, temps, op, way>>

Relink(o, k) ==
  /\ Called
  /\ o \in held /\ k \in Settable
  /\ object' = [object EXCEPT ![o].guarded = @ \cup {k}]
  /\ UNCHANGED <<shape, cache, held, temps, op, way>>

Init ==
  /\ shape = [s \in Shape |-> IF s = Root THEN [parent |-> None, key |-> None,
                                                keys |-> <<>>, edges |-> NoEdges]
                              ELSE None]
  /\ object = [o \in Object |-> None]
  /\ cache = [s \in Site |-> EmptyCache]
  /\ held = {} /\ temps = <<>> /\ op = Idle /\ way = "none" /\ calls = 0

Next ==
  \/ csCollectGarbage
  \/ AllocateChild \/ RecordEdge \/ Adopt
  \/ Convert \/ PutOwn \/ ConvertAndDelete
  \/ \E o \in Object : New(o) \/ Drop(o) \/ Freeze(o)
  \/ \E o \in Object, k \in Key : Delete(o, k) \/ Relink(o, k)
  \/ \E o \in Object, k \in Key, v \in Value :
       IndexStore(o, k, v) \/ Assign(o, k, v) \/ Define(o, k, v)
  \/ \E s \in Site, o \in Object : Read(s, o)
  \/ \E s \in Site, o \in Object, v \in Value : Write(s, o, v)

Spec == Init /\ [][Next]_vars

-------------------------------------------------------------------------------
(* Properties.                                                                 *)

Phases == {"idle", "child", "edge", "room", "convert", "own", "delete"}

(* Every variable has its type: an object in shape mode has a slot for every   *)
(* key of its shape and no keys of its own, and its slots fit its capacity.    *)
Cache == [shape : Shape \cup {Absent}, added : Shape \cup {None}, slot : Nat]
Call ==
  [at : Phases, site : Site \cup {None}, object : Object \cup {None}, key : Key \cup {None},
   value : Value \cup {None}, before : Shape \cup {None}, next : Shape \cup {None}]
TypeOK ==
  /\ shape \in [Shape -> ShapeCell \cup {None}]
  /\ object \in [Object -> ObjectCell \cup {None}]
  /\ \A o \in Objects :
       /\ Len(object[o].slots) = Len(KeysOf(o))
       /\ object[o].shape # None => /\ object[o].keys = <<>>
                                    /\ Len(object[o].slots) <= object[o].capacity
  /\ cache \in [Site -> Cache]
  /\ held \subseteq Object
  /\ temps \in Seq(Shape \cup Object)
  /\ op \in Call /\ way \in Ways
  /\ calls \in Nat

(* Whatever a step may follow leads to a cell that has not been freed: the     *)
(* stack, the temporary roots, the call under way, what a cell keeps, and the  *)
(* weak references as well, an edge of a shape and the cache of a site.        *)
NoDangling ==
  /\ TypeOK
  /\ held \subseteq Objects
  /\ \A n \in DOMAIN temps : temps[n] \in Cells
  /\ {op.object, op.value, op.next} \ ({None} \cup Datum) \subseteq Cells
  /\ op.at \in {"child", "edge", "room"} => op.before \in Cells
  /\ \A c \in Cells : Keeps(c) \subseteq Cells
  /\ \A s \in Shapes, k \in Key : shape[s].edges[k] \in Shapes \cup {None}
  /\ \A s \in Site : {cache[s].shape, cache[s].added} \subseteq Shapes \cup {Absent, None}

(* A site that hits does what the lookup it saves would have done: the slot is *)
(* that of its key, and an add leads to the one layout with the key at the end.*)
CachesTellTruth ==
  \A s \in Site : cache[s].shape # Absent =>
    LET keys == shape[cache[s].shape].keys
    IN IF cache[s].added = None
       THEN cache[s].slot \in DOMAIN keys /\ keys[cache[s].slot] = KeyOf[s]
       ELSE /\ SlotsOf(keys, KeyOf[s]) = {} /\ cache[s].slot = Len(keys) + 1
            /\ shape[cache[s].added].keys = Append(keys, KeyOf[s])

(* Objects built the same way share their layout, though nothing keeps the way *)
(* to it: no two shapes list the same keys, however often layouts were pruned. *)
OneShapePerLayout ==
  \A s, t \in Shapes : shape[s].keys = shape[t].keys => s = t

(* Layouts, caches and collections do not show: the heap keeps the promise of  *)
(* PropertyBags.                                                               *)
BagOf(o) ==
  IF object[o] = None THEN None
  ELSE [entries |-> [n \in DOMAIN KeysOf(o) |-> [key |-> KeysOf(o)[n], value |-> object[o].slots[n]]],
        frozen |-> object[o].frozen, guarded |-> object[o].guarded]
Bags == INSTANCE PropertyBags WITH Gone <- None, bag <- [o \in Object |-> BagOf(o)]
KeepsBags == Bags!Spec

-------------------------------------------------------------------------------
(* What may become of a frozen object and of a guarded name.  KeepsBags has    *)
(* the first two.  The other four are what the documents say, and each is      *)
(* violated by the way it names: README.md, section 4.                         *)

Changed(o) == object'[o] # None /\ object'[o].slots # object[o].slots
Holds(o, k, h, bags) == {bags[o].slots[n] : n \in SlotsOf(KeysIn(h, bags[o]), k)}
Taken(o, k) == /\ object'[o] # None
               /\ ~(Holds(o, k, shape', object') \subseteq Holds(o, k, shape, object))

(* What a frozen object holds is changed by no site that misses its cache, no  *)
(* o[k] = v, no definition and no deletion.                                    *)
FrozenChangesTwoWays ==
  [][\A o \in Objects : object[o].frozen /\ Changed(o) => way' \in {"cache", "assign"}]_vars

(* A site that misses its cache never stores to a name that is read-only or    *)
(* that a setter takes, and nothing is stored to it while others are deleted.  *)
SitesSpareGuarded ==
  [][\A o \in Objects : \A k \in object[o].guarded :
       Taken(o, k) => way' \in {"cache", "index", "assign", "define"}]_vars

(* docs/ARCHITECTURE.md:413: the fast path that skips the frozen check never   *)
(* meets a frozen object.                                                      *)
FastPathSparesFrozen ==
  [][\A o \in Objects : object[o].frozen /\ Changed(o) => way' # "cache"]_vars

(* native_object.c:130: a frozen object refuses every write.  The fast path    *)
(* has a property of its own.                                                  *)
FrozenRefuses ==
  [][\A o \in Objects : object[o].frozen /\ Changed(o) => way' = "cache"]_vars

(* docs/JAVASCRIPT.md:390: writing to a read-only property is refused.         *)
(* Assigning to o[k] is writing.                                               *)
GuardedRefuses ==
  [][\A o \in Objects : \A k \in object[o].guarded : Taken(o, k) => way' # "index"]_vars

(* vm_cache_miss.inc:361: a setter takes the write, so that its name never     *)
(* enters a shape and the caches stay out of it.                               *)
SettersTakeWrites ==
  [][\A o \in Objects : \A k \in object[o].guarded :
       way' = "cache" /\ ~Has(o, k) => ~Taken(o, k)]_vars
===============================================================================
