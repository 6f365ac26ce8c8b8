--------------------------- MODULE KeyedCollection ----------------------------
(* What a program may rely on of a Map, a Set or a WeakMap of CScript: a map   *)
(* from keys to values that remembers the order in which its keys came, keeps  *)
(* that order when others are deleted, answers by key, and is walked by        *)
(* forEach.  Entries change by the call that says so and by no other step,     *)
(* except that a weak one loses those whose keys nothing else holds.           *)
EXTENDS Integers, Sequences

CONSTANTS Key, Value, None

VARIABLES
  weak,     \* whether it is a WeakMap or a WeakSet
  held,     \* the keys the program still holds; the others are dead
  items,    \* the entries, in order of insertion
  did,      \* what has just taken effect, with what a lookup answered
  walking,  \* whether a forEach is under way
  owed,     \* the keys it has yet to meet
  excused   \* whether it may leave some of them out

vars == <<weak, held, items, did, walking, owed, excused>>

KeysOf(s) == {s[n].key : n \in DOMAIN s}
(* The entries that stay, moved together.                                     *)
Without(s, S) ==
  LET upTo[n \in 0..Len(s)] ==
        IF n = 0 THEN <<>>
        ELSE IF s[n].key \in S THEN upTo[n - 1] ELSE Append(upTo[n - 1], s[n])
  IN upTo[Len(s)]
ValueOf(k) == IF k \in KeysOf(items)
              THEN items[CHOOSE n \in DOMAIN items : items[n].key = k].value
              ELSE None

Did(call, k, v) == [call |-> call, key |-> k, value |-> v]
Nothing == Did("none", None, None)

Init ==
  /\ weak \in BOOLEAN
  /\ held = Key /\ items = <<>> /\ did = Nothing
  /\ walking = FALSE /\ owed = {} /\ excused = FALSE

(* A key keeps its place for as long as it stays in.                           *)
Put(k, v) ==
  /\ k \in held
  /\ did' = Did("set", k, v)
  /\ IF k \in KeysOf(items)
     THEN /\ items' = [n \in DOMAIN items |->
                         IF items[n].key = k THEN [items[n] EXCEPT !.value = v] ELSE items[n]]
          /\ owed' = owed
     ELSE /\ items' = Append(items, [key |-> k, value |-> v])
          /\ owed' = IF walking THEN owed \cup {k} ELSE owed
  /\ UNCHANGED <<weak, held, walking, excused>>

(* One key goes.  If forEach has met it, the walk may lose its place.          *)
Remove(k) ==
  /\ k \in held
  /\ did' = Did("delete", k, None)
  /\ items' = Without(items, {k})
  /\ owed' = owed \ {k}
  /\ excused' = (excused \/ (walking /\ k \in KeysOf(items) \ owed))
  /\ UNCHANGED <<weak, held, walking>>

Clear ==
  /\ ~weak
  /\ did' = Did("clear", None, None)
  /\ items' = <<>> /\ owed' = {} /\ excused' = walking
  /\ UNCHANGED <<weak, held, walking>>

Ask(k) == /\ k \in held
          /\ did' = Did("get", k, ValueOf(k))
          /\ UNCHANGED <<weak, held, items, walking, owed, excused>>

Die(k) == /\ weak /\ held' = held \ {k} /\ did' = Nothing
          /\ UNCHANGED <<weak, items, walking, owed, excused>>

(* Only entries of a weak one that nothing can ask for disappear of themselves.*)
Forget == /\ weak /\ items' = Without(items, KeysOf(items) \ held) /\ did' = Nothing
          /\ UNCHANGED <<weak, held, walking, owed, excused>>

Begin == /\ ~weak /\ ~walking /\ walking' = TRUE
         /\ owed' = KeysOf(items) /\ did' = Nothing
         /\ UNCHANGED <<weak, held, items, excused>>

(* No entry is met twice, and they are met in the order they came.             *)
Meet == /\ walking
        /\ \E n \in DOMAIN items :
             /\ items[n].key \in owed
             /\ excused \/ \A m \in 1..(n - 1) : items[m].key \notin owed
             /\ owed' = owed \ {items[n].key}
             /\ did' = Did("meet", items[n].key, items[n].value)
        /\ UNCHANGED <<weak, held, items, walking, excused>>

Over(how) == /\ walking /\ walking' = FALSE
             /\ owed' = {} /\ excused' = FALSE /\ did' = Did(how, None, None)
             /\ UNCHANGED <<weak, held, items>>

End == (owed = {} \/ excused) /\ Over("end")
(* Or are not all met, because a callback threw.                               *)
Abandon == Over("throw")

(* A call is under way, or a callback has returned.                            *)
Pause == did' = Nothing /\ UNCHANGED <<weak, held, items, walking, owed, excused>>

Next ==
  \/ \E k \in Key : Ask(k) \/ Die(k) \/ Remove(k) \/ \E v \in Value : Put(k, v)
  \/ Clear \/ Forget \/ Begin \/ Meet \/ End \/ Abandon \/ Pause

Spec == Init /\ [][Next]_vars
===============================================================================
