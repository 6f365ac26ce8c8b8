------------------------------ MODULE SyncProofs ------------------------------
(***************************************************************************)
(* Proofs about library/sync, for any number of workers, any size of       *)
(* semaphore, any capacity of channel and any number of values: never more *)
(* holders than permits, permits given in the order they were asked for,   *)
(* nobody lost between a list and the microtask queue, and every value     *)
(* delivered in the order it was sent.                                     *)
(***************************************************************************)
EXTENDS Sync, FiniteSetTheorems, SequenceTheorems, TLAPS

-----------------------------------------------------------------------------
(* Sequences.                                                              *)

(* What one more element does to a sequence.                               *)
LEMMA Appending ==
  ASSUME NEW S, NEW s \in Seq(S), NEW e \in S
  PROVE  /\ Append(s, e) \in Seq(S)
         /\ Len(Append(s, e)) = Len(s) + 1
         /\ Append(s, e) # <<>>
         /\ \A i \in 1 .. Len(s) : Append(s, e)[i] = s[i]
         /\ Append(s, e)[Len(s) + 1] = e
OBVIOUS

(* What a second sequence does to one.                                     *)
LEMMA Concatenating ==
  ASSUME NEW S, NEW s \in Seq(S), NEW t \in Seq(S)
  PROVE  /\ s \o t \in Seq(S)
         /\ Len(s \o t) = Len(s) + Len(t)
         /\ \A i \in 1 .. Len(s) : (s \o t)[i] = s[i]
         /\ \A i \in 1 .. Len(t) : (s \o t)[Len(s) + i] = t[i]
         /\ \A i \in Len(s) + 1 .. Len(s) + Len(t) : (s \o t)[i] = t[i - Len(s)]
OBVIOUS

LEMMA AppendedIsConcat ==
  ASSUME NEW S, NEW s \in Seq(S), NEW e \in S
  PROVE  Append(s, e) = s \o <<e>>
OBVIOUS

(* What is left of a sequence without its head.                            *)
LEMMA Beheading ==
  ASSUME NEW S, NEW s \in Seq(S), s # <<>>
  PROVE  /\ Tail(s) \in Seq(S)
         /\ Len(s) \in Nat \ {0}
         /\ Len(Tail(s)) = Len(s) - 1
         /\ \A i \in 1 .. Len(s) - 1 : Tail(s)[i] = s[i + 1]
         /\ Head(s) = s[1]
         /\ s[1] \in S
OBVIOUS

(* Two sequences with the same elements in the same places are the same.   *)
LEMMA SameSequence ==
  ASSUME NEW S, NEW s \in Seq(S), NEW t \in Seq(S), Len(s) = Len(t),
         \A i \in 1 .. Len(s) : s[i] = t[i]
  PROVE  s = t
OBVIOUS

(* The workers of a list of records.                                       *)
LEMMA WhoIs ==
  ASSUME NEW R, NEW s \in Seq(R), \A r \in R : r.who \in Worker
  PROVE  /\ Who(s) \in Seq(Worker)
         /\ Len(Who(s)) = Len(s)
         /\ \A i \in 1 .. Len(s) : Who(s)[i] = s[i].who
<1>1. \A i \in 1 .. Len(s) : s[i].who \in Worker
  OBVIOUS
<1> QED
  BY <1>1 DEF Who

LEMMA WorkersConcatenated ==
  \A p, q \in Seq(Worker) :
    /\ p \o q \in Seq(Worker)
    /\ Len(p \o q) = Len(p) + Len(q)
    /\ \A i \in 1 .. Len(p) : (p \o q)[i] = p[i]
    /\ \A i \in Len(p) + 1 .. Len(p) + Len(q) : (p \o q)[i] = q[i - Len(p)]
OBVIOUS

(* They come in the order of the records.                                  *)
LEMMA WhoOfConcat ==
  ASSUME NEW R, NEW s \in Seq(R), NEW t \in Seq(R), \A r \in R : r.who \in Worker
  PROVE  Who(s \o t) = Who(s) \o Who(t)
<1>1. s \o t \in Seq(R) /\ Len(s \o t) = Len(s) + Len(t)
  BY Concatenating
<1>2. /\ Who(s \o t) \in Seq(Worker) /\ Len(Who(s \o t)) = Len(s) + Len(t)
      /\ \A i \in 1 .. Len(s) + Len(t) : Who(s \o t)[i] = (s \o t)[i].who
  BY <1>1, WhoIs
<1>3. /\ Who(s) \in Seq(Worker) /\ Len(Who(s)) = Len(s)
      /\ \A i \in 1 .. Len(s) : Who(s)[i] = s[i].who
      /\ Who(t) \in Seq(Worker) /\ Len(Who(t)) = Len(t)
      /\ \A i \in 1 .. Len(t) : Who(t)[i] = t[i].who
  BY WhoIs
<1>4. /\ Who(s) \o Who(t) \in Seq(Worker)
      /\ Len(Who(s) \o Who(t)) = Len(s) + Len(t)
      /\ \A i \in 1 .. Len(s) : (Who(s) \o Who(t))[i] = s[i].who
      /\ \A i \in Len(s) + 1 .. Len(s) + Len(t) : (Who(s) \o Who(t))[i] = t[i - Len(s)].who
  <2>1. /\ Who(s) \o Who(t) \in Seq(Worker)
        /\ Len(Who(s) \o Who(t)) = Len(s) + Len(t)
        /\ \A i \in 1 .. Len(s) : (Who(s) \o Who(t))[i] = Who(s)[i]
        /\ \A i \in Len(s) + 1 .. Len(s) + Len(t) : (Who(s) \o Who(t))[i] = Who(t)[i - Len(s)]
    <3> DEFINE p == Who(s)
    <3> DEFINE q == Who(t)
    <3>1. p \in Seq(Worker) /\ q \in Seq(Worker)
      BY <1>3
    <3>3. Len(p) = Len(s) /\ Len(q) = Len(t)
      BY <1>3
    <3> HIDE DEF p, q
    <3>2. /\ p \o q \in Seq(Worker)
          /\ Len(p \o q) = Len(p) + Len(q)
          /\ \A i \in 1 .. Len(p) : (p \o q)[i] = p[i]
          /\ \A i \in Len(p) + 1 .. Len(p) + Len(q) : (p \o q)[i] = q[i - Len(p)]
      BY <3>1, WorkersConcatenated, Zenon
    <3> QED
      BY <3>1, <3>2, <3>3 DEF p, q
  <2>2. \A i \in Len(s) + 1 .. Len(s) + Len(t) : i - Len(s) \in 1 .. Len(t)
    BY <1>1
  <2> QED
    BY <2>1, <2>2, <1>3
<1>5. \A i \in 1 .. Len(s) + Len(t) : Who(s \o t)[i] = (Who(s) \o Who(t))[i]
  <2>1. \A i \in 1 .. Len(s) : (s \o t)[i] = s[i]
    BY Concatenating
  <2>2. \A i \in Len(s) + 1 .. Len(s) + Len(t) : (s \o t)[i] = t[i - Len(s)]
    BY Concatenating
  <2>3. \A i \in 1 .. Len(s) + Len(t) :
          i \in 1 .. Len(s) \/ i \in Len(s) + 1 .. Len(s) + Len(t)
    BY <1>1
  <2> QED
    BY <2>1, <2>2, <2>3, <1>2, <1>4
<1> QED
  BY <1>2, <1>4, <1>5, SameSequence

LEMMA WhoOfAppend ==
  ASSUME NEW R, NEW s \in Seq(R), NEW r \in R, \A x \in R : x.who \in Worker
  PROVE  Who(Append(s, r)) = Append(Who(s), r.who)
<1>1. Append(s, r) \in Seq(R) /\ Len(Append(s, r)) = Len(s) + 1
      /\ (\A i \in 1 .. Len(s) : Append(s, r)[i] = s[i]) /\ Append(s, r)[Len(s) + 1] = r
  BY Appending
<1>2. /\ Who(Append(s, r)) \in Seq(Worker) /\ Len(Who(Append(s, r))) = Len(s) + 1
      /\ \A i \in 1 .. Len(s) + 1 : Who(Append(s, r))[i] = Append(s, r)[i].who
  BY <1>1, WhoIs
<1>3. /\ Who(s) \in Seq(Worker) /\ Len(Who(s)) = Len(s)
      /\ \A i \in 1 .. Len(s) : Who(s)[i] = s[i].who
  BY WhoIs
<1>4. /\ Append(Who(s), r.who) \in Seq(Worker)
      /\ Len(Append(Who(s), r.who)) = Len(s) + 1
      /\ \A i \in 1 .. Len(s) : Append(Who(s), r.who)[i] = Who(s)[i]
      /\ Append(Who(s), r.who)[Len(s) + 1] = r.who
  BY <1>3
<1>5. \A i \in 1 .. Len(s) + 1 : Who(Append(s, r))[i] = Append(Who(s), r.who)[i]
  BY <1>1, <1>2, <1>3, <1>4
<1> QED
  BY <1>2, <1>4, <1>5, SameSequence

LEMMA WhoOfTail ==
  ASSUME NEW R, NEW s \in Seq(R), s # <<>>, \A x \in R : x.who \in Worker
  PROVE  Who(Tail(s)) = Tail(Who(s)) /\ Who(s) # <<>> /\ Head(Who(s)) = Head(s).who
<1>1. /\ Tail(s) \in Seq(R) /\ Len(s) \in Nat \ {0} /\ Len(Tail(s)) = Len(s) - 1
      /\ \A i \in 1 .. Len(s) - 1 : Tail(s)[i] = s[i + 1]
      /\ Head(s) = s[1]
  BY Beheading
<1>2. /\ Who(s) \in Seq(Worker) /\ Len(Who(s)) = Len(s)
      /\ \A i \in 1 .. Len(s) : Who(s)[i] = s[i].who
  BY WhoIs
<1>3. /\ Who(Tail(s)) \in Seq(Worker) /\ Len(Who(Tail(s))) = Len(s) - 1
      /\ \A i \in 1 .. Len(s) - 1 : Who(Tail(s))[i] = Tail(s)[i].who
  BY <1>1, WhoIs
<1>4. Who(s) # <<>>
  BY <1>1, <1>2
<1>5. /\ Tail(Who(s)) \in Seq(Worker) /\ Len(Tail(Who(s))) = Len(s) - 1
      /\ \A i \in 1 .. Len(s) - 1 : Tail(Who(s))[i] = Who(s)[i + 1]
      /\ Head(Who(s)) = Who(s)[1]
  BY <1>2, <1>4, Beheading
<1>6. \A i \in 1 .. Len(s) - 1 : Who(Tail(s))[i] = Tail(Who(s))[i]
  BY <1>1, <1>2, <1>3, <1>5
<1>7. Who(Tail(s)) = Tail(Who(s))
  BY <1>3, <1>5, <1>6, SameSequence
<1> QED
  BY <1>1, <1>2, <1>4, <1>5, <1>7

-----------------------------------------------------------------------------
(* Lists in which a worker may stand.                                      *)

(* One more at the end.                                                    *)
LEMMA InAppend ==
  ASSUME NEW s \in Seq(Worker), NEW x \in Worker
  PROVE  /\ \A w \in Worker : In(Append(s, x), w) <=> (In(s, w) \/ w = x)
         /\ NoneTwice(s) /\ ~In(s, x) => NoneTwice(Append(s, x))
<1>1. /\ Len(Append(s, x)) = Len(s) + 1
      /\ \A i \in 1 .. Len(s) : Append(s, x)[i] = s[i]
      /\ Append(s, x)[Len(s) + 1] = x
      /\ Len(s) \in Nat
  BY Appending
<1> QED
  BY <1>1 DEF In, NoneTwice

(* The first taken off.                                                    *)
LEMMA InTail ==
  ASSUME NEW s \in Seq(Worker), s # <<>>, NoneTwice(s)
  PROVE  /\ Head(s) \in Worker /\ In(s, Head(s))
         /\ \A w \in Worker : In(Tail(s), w) <=> (In(s, w) /\ w # Head(s))
         /\ NoneTwice(Tail(s))
<1>1. /\ Len(s) \in Nat \ {0}
      /\ Len(Tail(s)) = Len(s) - 1
      /\ \A i \in 1 .. Len(s) - 1 : Tail(s)[i] = s[i + 1]
      /\ Head(s) = s[1]
      /\ s[1] \in Worker
  BY Beheading
<1>2. \A w \in Worker : In(s, w) /\ w # Head(s) => In(Tail(s), w)
  <2> SUFFICES ASSUME NEW w \in Worker, NEW i \in 1 .. Len(s), s[i] = w, w # s[1]
               PROVE  \E j \in 1 .. Len(Tail(s)) : Tail(s)[j] = w
    BY <1>1 DEF In
  <2>1. i - 1 \in 1 .. Len(Tail(s)) /\ Tail(s)[i - 1] = s[i]
    BY <1>1
  <2> QED
    BY <2>1
<1>3. \A w \in Worker : In(Tail(s), w) => In(s, w) /\ w # Head(s)
  BY <1>1 DEF In, NoneTwice
<1>4. NoneTwice(Tail(s))
  BY <1>1 DEF NoneTwice
<1> QED
  BY <1>1, <1>2, <1>3, <1>4 DEF In

(* One list behind another with nobody in common.                          *)
LEMMA InConcat ==
  ASSUME NEW s \in Seq(Worker), NEW t \in Seq(Worker)
  PROVE  /\ \A w \in Worker : In(s \o t, w) <=> (In(s, w) \/ In(t, w))
         /\ NoneTwice(s) /\ NoneTwice(t) /\ (\A w \in Worker : In(t, w) => ~In(s, w))
              => NoneTwice(s \o t)
<1>1. /\ s \o t \in Seq(Worker)
      /\ Len(s \o t) = Len(s) + Len(t)
      /\ \A i \in 1 .. Len(s) : (s \o t)[i] = s[i]
      /\ \A i \in 1 .. Len(t) : (s \o t)[Len(s) + i] = t[i]
      /\ \A i \in Len(s) + 1 .. Len(s) + Len(t) : (s \o t)[i] = t[i - Len(s)]
      /\ Len(s) \in Nat /\ Len(t) \in Nat
  BY Concatenating
<1>2. \A i \in 1 .. Len(s) + Len(t) : i \in 1 .. Len(s) \/ i - Len(s) \in 1 .. Len(t)
  BY <1>1
<1>3. \A i \in 1 .. Len(s) + Len(t) :
        IF i \in 1 .. Len(s) THEN (s \o t)[i] = s[i] ELSE (s \o t)[i] = t[i - Len(s)]
  BY <1>1
<1>4. \A w \in Worker : In(s \o t, w) => In(s, w) \/ In(t, w)
  BY <1>1, <1>2, <1>3 DEF In
<1>5. \A w \in Worker : In(s, w) => In(s \o t, w)
  BY <1>1 DEF In
<1>6. \A w \in Worker : In(t, w) => In(s \o t, w)
  <2> SUFFICES ASSUME NEW w \in Worker, NEW i \in 1 .. Len(t), t[i] = w
               PROVE  \E j \in 1 .. Len(s \o t) : (s \o t)[j] = w
    BY DEF In
  <2>1. Len(s) + i \in 1 .. Len(s \o t)
    BY <1>1
  <2> QED
    BY <2>1, <1>1
<1>7. ASSUME NoneTwice(s), NoneTwice(t), \A w \in Worker : In(t, w) => ~In(s, w)
      PROVE  NoneTwice(s \o t)
  <2> SUFFICES ASSUME NEW i \in 1 .. Len(s) + Len(t), NEW j \in 1 .. Len(s) + Len(t),
                      (s \o t)[i] = (s \o t)[j]
               PROVE  i = j
    BY <1>1 DEF NoneTwice
  <2>1. CASE i \in 1 .. Len(s) /\ j \in 1 .. Len(s)
    BY <2>1, <1>1, <1>7 DEF NoneTwice
  <2>2. CASE i \notin 1 .. Len(s) /\ j \notin 1 .. Len(s)
    <3>1. i - Len(s) \in 1 .. Len(t) /\ j - Len(s) \in 1 .. Len(t)
      BY <2>2, <1>2
    <3>2. t[i - Len(s)] = t[j - Len(s)]
      BY <2>2, <1>3
    <3>3. i - Len(s) = j - Len(s)
      BY <3>1, <3>2, <1>7 DEF NoneTwice
    <3> QED
      BY <3>3, <1>1
  <2>3. ASSUME NEW a \in 1 .. Len(s), NEW b \in 1 .. Len(t)
        PROVE  s[a] # t[b]
    <3>1. t[b] \in Worker
      OBVIOUS
    <3> QED
      BY <3>1, <1>7 DEF In
  <2>4. CASE i \in 1 .. Len(s) /\ j \notin 1 .. Len(s)
    BY <2>3, <2>4, <1>2, <1>3
  <2>5. CASE i \notin 1 .. Len(s) /\ j \in 1 .. Len(s)
    BY <2>3, <2>5, <1>2, <1>3
  <2> QED
    BY <2>1, <2>2, <2>4, <2>5
<1> QED
  BY <1>4, <1>5, <1>6, <1>7

-----------------------------------------------------------------------------
(* The moves of a worker between the stack, the lists and the way back.    *)

(* The worker that runs stands in line.                                    *)
LEMMA Enters ==
  ASSUME NEW at, NEW at2, NEW lists, NEW lists2, NEW woken \in Seq(Worker),
         NEW w \in Worker, NEW place \in Awaiting,
         \A p \in Awaiting : lists[p] \in Seq(Worker),
         Consistent(at, lists, woken), at[w] \notin Awaiting,
         at2[w] = place, \A v \in Worker : v # w => at2[v] = at[v],
         lists2[place] = Append(lists[place], w),
         \A p \in Awaiting : p # place => lists2[p] = lists[p]
  PROVE  Consistent(at2, lists2, woken)
<1>1. /\ \A v \in Worker : In(lists2[place], v) <=> (In(lists[place], v) \/ v = w)
      /\ NoneTwice(lists[place]) /\ ~In(lists[place], w) => NoneTwice(lists2[place])
  BY InAppend
<1>2. ~In(woken, w) /\ \A p \in Awaiting : ~In(lists[p], w)
  BY DEF Consistent
<1>3. \A v \in Worker :
        /\ In(woken, v) => at2[v] \in Awaiting
        /\ at2[v] = place /\ place # "sleep" => In(lists2[place], v) \/ In(woken, v)
  BY <1>1, <1>2 DEF Consistent
<1>4. /\ NoneTwice(lists2[place])
      /\ \A v \in Worker : In(lists2[place], v) => at2[v] = place /\ ~In(woken, v)
  BY <1>1, <1>2 DEF Consistent
<1>5. ASSUME NEW p \in Awaiting, p # place
      PROVE  /\ NoneTwice(lists2[p])
             /\ \A v \in Worker :
                  /\ In(lists2[p], v) => at2[v] = p /\ ~In(woken, v)
                  /\ at2[v] = p /\ p # "sleep" => In(lists2[p], v) \/ In(woken, v)
  BY <1>2, <1>5 DEF Consistent
<1>6. \A p \in Awaiting :
        /\ NoneTwice(lists2[p])
        /\ \A v \in Worker :
             /\ In(lists2[p], v) => at2[v] = p /\ ~In(woken, v)
             /\ at2[v] = p /\ p # "sleep" => In(lists2[p], v) \/ In(woken, v)
  <2> SUFFICES ASSUME NEW p \in Awaiting
               PROVE  /\ NoneTwice(lists2[p])
                      /\ \A v \in Worker :
                           /\ In(lists2[p], v) => at2[v] = p /\ ~In(woken, v)
                           /\ at2[v] = p /\ p # "sleep" => In(lists2[p], v) \/ In(woken, v)
    OBVIOUS
  <2>1. CASE p = place
    BY <2>1, <1>3, <1>4
  <2>2. CASE p # place
    BY <2>2, <1>5
  <2> QED
    BY <2>1, <2>2
<1>7. NoneTwice(woken) /\ \A v \in Worker : In(woken, v) => at2[v] \in Awaiting
  BY <1>3 DEF Consistent
<1> QED
  BY <1>6, <1>7 DEF Consistent

(* The worker that runs awaits what is settled already.                    *)
LEMMA AwaitsSettled ==
  ASSUME NEW at, NEW at2, NEW lists, NEW lists2, NEW woken \in Seq(Worker),
         NEW w \in Worker, NEW place \in Awaiting,
         \A p \in Awaiting : lists2[p] = lists[p],
         Consistent(at, lists, woken), at[w] \notin Awaiting,
         at2[w] = place, \A v \in Worker : v # w => at2[v] = at[v]
  PROVE  Consistent(at2, lists2, Append(woken, w))
<1>1. /\ \A v \in Worker : In(Append(woken, w), v) <=> (In(woken, v) \/ v = w)
      /\ ~In(woken, w) => NoneTwice(Append(woken, w))
  BY InAppend DEF Consistent
<1>2. ~In(woken, w) /\ \A p \in Awaiting : ~In(lists[p], w)
  BY DEF Consistent
<1> QED
  BY <1>1, <1>2 DEF Consistent

(* The first in a line is woken.                                           *)
LEMMA WakesFirst ==
  ASSUME NEW at, NEW lists, NEW lists2, NEW woken \in Seq(Worker),
         NEW place \in Awaiting,
         \A p \in Awaiting : lists[p] \in Seq(Worker),
         Consistent(at, lists, woken), lists[place] # <<>>,
         lists2[place] = Tail(lists[place]),
         \A p \in Awaiting : p # place => lists2[p] = lists[p]
  PROVE  /\ Consistent(at, lists2, Append(woken, Head(lists[place])))
         /\ Head(lists[place]) \in Worker
         /\ In(lists[place], Head(lists[place]))
         /\ at[Head(lists[place])] = place
<1> DEFINE h == Head(lists[place])
<1>1. /\ h \in Worker /\ In(lists[place], h)
      /\ \A v \in Worker : In(lists2[place], v) <=> (In(lists[place], v) /\ v # h)
      /\ NoneTwice(lists2[place])
  BY InTail DEF Consistent
<1>2. at[h] = place /\ ~In(woken, h)
  BY <1>1 DEF Consistent
<1> HIDE DEF h
<1>3. /\ \A v \in Worker : In(Append(woken, h), v) <=> (In(woken, v) \/ v = h)
      /\ NoneTwice(Append(woken, h))
  BY <1>1, <1>2, InAppend DEF Consistent
<1>4. Consistent(at, lists2, Append(woken, h))
  BY <1>1, <1>2, <1>3 DEF Consistent
<1> QED
  BY <1>1, <1>2, <1>4 DEF h

(* A whole line is woken.                                                  *)
LEMMA WakesEveryone ==
  ASSUME NEW at, NEW lists, NEW lists2, NEW woken \in Seq(Worker),
         NEW place \in Awaiting,
         \A p \in Awaiting : lists[p] \in Seq(Worker),
         Consistent(at, lists, woken),
         lists2[place] = <<>>,
         \A p \in Awaiting : p # place => lists2[p] = lists[p]
  PROVE  Consistent(at, lists2, woken \o lists[place])
<1> DEFINE line == lists[place]
<1>1. /\ line \in Seq(Worker) /\ NoneTwice(line)
      /\ \A v \in Worker : In(line, v) => at[v] = place /\ ~In(woken, v)
      /\ NoneTwice(woken)
  BY DEF Consistent
<1> HIDE DEF line
<1>2. /\ \A v \in Worker : In(woken \o line, v) <=> (In(woken, v) \/ In(line, v))
      /\ NoneTwice(woken \o line)
  BY <1>1, InConcat
<1>3. (\A v : ~In(<<>>, v)) /\ NoneTwice(<<>>)
  BY DEF In, NoneTwice
<1>4. Consistent(at, lists2, woken \o line)
  <2>1. \A v \in Worker : In(woken \o line, v) => at[v] \in Awaiting
    BY <1>1, <1>2 DEF Consistent
  <2>2. ASSUME NEW p \in Awaiting, p # place
        PROVE  /\ NoneTwice(lists2[p])
               /\ \A v \in Worker :
                    /\ In(lists2[p], v) => at[v] = p /\ ~In(woken \o line, v)
                    /\ at[v] = p /\ p # "sleep" => In(lists2[p], v) \/ In(woken \o line, v)
    BY <2>2, <1>1, <1>2 DEF Consistent
  <2>3. /\ NoneTwice(lists2[place])
        /\ \A v \in Worker :
             /\ In(lists2[place], v) => at[v] = place /\ ~In(woken \o line, v)
             /\ at[v] = place /\ place # "sleep" =>
                  In(lists2[place], v) \/ In(woken \o line, v)
    BY <1>1, <1>2, <1>3 DEF Consistent, line
  <2> QED
    BY <1>2, <2>1, <2>2, <2>3 DEF Consistent
<1> QED
  BY <1>4 DEF line

(* The first of those woken goes on.                                       *)
LEMMA Resumes ==
  ASSUME NEW at, NEW at2, NEW lists, NEW woken \in Seq(Worker),
         NEW w \in Worker, woken # <<>>, w = Head(woken),
         Consistent(at, lists, woken),
         at2[w] \notin Awaiting,
         \A v \in Worker : v # w => at2[v] = at[v]
  PROVE  /\ Consistent(at2, lists, Tail(woken))
         /\ at[w] \in Awaiting /\ In(woken, w)
<1>1. /\ In(woken, w)
      /\ \A v \in Worker : In(Tail(woken), v) <=> (In(woken, v) /\ v # w)
      /\ NoneTwice(Tail(woken))
  BY InTail DEF Consistent
<1>2. at[w] \in Awaiting
  BY <1>1 DEF Consistent
<1>3. \A p \in Awaiting : ~In(lists[p], w)
  BY <1>1 DEF Consistent
<1> QED
  BY <1>1, <1>2, <1>3 DEF Consistent

(* A worker comes, ends or sleeps.                                         *)
LEMMA StandsNowhere ==
  ASSUME NEW at, NEW at2, NEW lists, NEW lists2, NEW woken, NEW w \in Worker,
         \A p \in Awaiting : lists2[p] = lists[p],
         Consistent(at, lists, woken), at[w] \notin Awaiting,
         at2[w] \notin Awaiting \ {"sleep"},
         \A v \in Worker : v # w => at2[v] = at[v]
  PROVE  Consistent(at2, lists2, woken)
BY DEF Consistent

-----------------------------------------------------------------------------
(* Values on their way to a consumer.                                      *)

(* A promise settled with nothing in it changes nothing of that.           *)
LEMMA CarriesNothing ==
  ASSUME NEW arrived \in Nat, NEW taken \in Int, NEW way \in Seq(Outcome),
         NEW more \in Seq(Outcome),
         Transit(arrived, taken, way),
         \A i \in 1 .. Len(more) : more[i].value = 0
  PROVE  Transit(arrived, taken, way \o more)
<1>1. /\ way \o more \in Seq(Outcome)
      /\ Len(way \o more) = Len(way) + Len(more)
      /\ \A i \in 1 .. Len(way) : (way \o more)[i] = way[i]
      /\ \A i \in Len(way) + 1 .. Len(way) + Len(more) : (way \o more)[i] = more[i - Len(way)]
      /\ Len(way) \in Nat /\ Len(more) \in Nat
  BY Concatenating
<1>2. \A i \in 1 .. Len(way) + Len(more) :
        i \in 1 .. Len(way) \/ (i \in Len(way) + 1 .. Len(way) + Len(more)
                                /\ i - Len(way) \in 1 .. Len(more))
  BY <1>1
<1>3. \A i \in 1 .. Len(way) + Len(more) :
        (way \o more)[i].value > 0 => i \in 1 .. Len(way) /\ (way \o more)[i] = way[i]
  BY <1>1, <1>2
<1>4. 1 .. Len(way) \subseteq 1 .. Len(way) + Len(more)
  BY <1>1
<1> QED
  BY <1>1, <1>3, <1>4 DEF Transit

(* The value just taken is put behind the others.                          *)
LEMMA CarriesTheNext ==
  ASSUME NEW arrived \in Nat, NEW taken \in Int, NEW way \in Seq(Outcome),
         NEW r \in Outcome,
         Transit(arrived, taken, way), r.value = taken + 1
  PROVE  Transit(arrived, taken + 1, Append(way, r))
<1> DEFINE n == Len(way)
<1> DEFINE way2 == Append(way, r)
<1>1. /\ n \in Nat /\ Len(way2) = n + 1
      /\ \A i \in 1 .. n : way2[i] = way[i]
      /\ way2[n + 1] = r
  BY Appending
<1>2. \A i \in 1 .. n : way[i].value \in Nat
  <2>1. \A i \in 1 .. n : way[i] \in Outcome
    OBVIOUS
  <2> QED
    BY <2>1 DEF Outcome
<1> HIDE DEF n, way2
<1>3. /\ arrived <= taken
      /\ \A i \in 1 .. n : way[i].value > 0 => way[i].value \in arrived + 1 .. taken
      /\ \A i, j \in 1 .. n :
           i < j /\ way[i].value > 0 /\ way[j].value > 0 => way[i].value < way[j].value
      /\ \A k \in arrived + 1 .. taken : \E i \in 1 .. n : way[i].value = k
  BY DEF Transit, n
<1>4. \A i \in 1 .. n + 1 : (i \in 1 .. n /\ way2[i] = way[i]) \/ (i = n + 1 /\ way2[i] = r)
  BY <1>1
<1>5. \A i \in 1 .. n + 1 : way2[i].value > 0 => way2[i].value \in arrived + 1 .. taken + 1
  BY <1>2, <1>3, <1>4
<1>6. \A i, j \in 1 .. n + 1 :
        i < j /\ way2[i].value > 0 /\ way2[j].value > 0 => way2[i].value < way2[j].value
  <2> SUFFICES ASSUME NEW i \in 1 .. n + 1, NEW j \in 1 .. n + 1, i < j,
                      way2[i].value > 0, way2[j].value > 0
               PROVE  way2[i].value < way2[j].value
    OBVIOUS
  <2>1. i \in 1 .. n /\ way2[i] = way[i]
    BY <1>1
  <2>2. CASE j \in 1 .. n
    <3>1. way2[j] = way[j]
      BY <1>1, <2>2
    <3> QED
      BY <2>1, <2>2, <3>1, <1>3
  <2>3. CASE j = n + 1
    <3>1. way2[j].value = taken + 1
      BY <1>1, <2>3
    <3>2. way[i].value <= taken
      BY <2>1, <1>2, <1>3
    <3>3. way[i].value \in Nat
      BY <2>1, <1>2
    <3> QED
      BY <2>1, <3>1, <3>2, <3>3
  <2> QED
    BY <1>1, <2>2, <2>3
<1>7. \A k \in arrived + 1 .. taken + 1 : \E i \in 1 .. n + 1 : way2[i].value = k
  <2> SUFFICES ASSUME NEW k \in arrived + 1 .. taken + 1
               PROVE  \E i \in 1 .. n + 1 : way2[i].value = k
    OBVIOUS
  <2>1. CASE k = taken + 1
    BY <2>1, <1>1
  <2>2. CASE k # taken + 1
    <3>1. k \in arrived + 1 .. taken
      BY <2>2
    <3>2. PICK i \in 1 .. n : way[i].value = k
      BY <3>1, <1>3
    <3> QED
      BY <3>2, <1>1
  <2> QED
    BY <2>1, <2>2
<1> QED
  BY <1>1, <1>3, <1>5, <1>6, <1>7 DEF Transit, way2

(* What arrives, if anything, is what was due.                             *)
LEMMA ArrivesInTurn ==
  ASSUME NEW arrived \in Nat, NEW taken \in Int, NEW way \in Seq(Outcome),
         Transit(arrived, taken, way), way # <<>>
  PROVE  Transit(IF Head(way).value > 0 THEN arrived + 1 ELSE arrived, taken, Tail(way))
<1> DEFINE n == Len(way)
<1> DEFINE rest == Tail(way)
<1>1. /\ n \in Nat \ {0} /\ Len(rest) = n - 1
      /\ \A i \in 1 .. n - 1 : rest[i] = way[i + 1]
      /\ Head(way) = way[1]
  BY Beheading
<1>2. \A i \in 1 .. n : way[i].value \in Nat
  <2>1. \A i \in 1 .. n : way[i] \in Outcome
    OBVIOUS
  <2> QED
    BY <2>1 DEF Outcome
<1>7. /\ arrived <= taken
      /\ \A i \in 1 .. n : way[i].value > 0 => way[i].value \in arrived + 1 .. taken
      /\ \A i, j \in 1 .. n :
           i < j /\ way[i].value > 0 /\ way[j].value > 0 => way[i].value < way[j].value
      /\ \A k \in arrived + 1 .. taken : \E i \in 1 .. n : way[i].value = k
  BY DEF Transit, n
<1> HIDE DEF n, rest
<1>3. \A i \in 1 .. n - 1 : i + 1 \in 1 .. n /\ rest[i] = way[i + 1] /\ 1 < i + 1
  BY <1>1
<1>4. \A i, j \in 1 .. n - 1 :
        i < j /\ rest[i].value > 0 /\ rest[j].value > 0 => rest[i].value < rest[j].value
  <2>1. \A i, j \in 1 .. n - 1 : i < j => i + 1 < j + 1
    BY <1>1
  <2> QED
    BY <2>1, <1>3, <1>7
<1>5. CASE way[1].value = 0
  <2>1. \A i \in 1 .. n - 1 : rest[i].value > 0 => rest[i].value \in arrived + 1 .. taken
    BY <1>3, <1>7
  <2>2. ASSUME NEW k \in arrived + 1 .. taken
        PROVE  \E i \in 1 .. n - 1 : rest[i].value = k
    <3>1. PICK i \in 1 .. n : way[i].value = k
      BY <1>7
    <3>2. i # 1
      BY <3>1, <1>5
    <3>3. i - 1 \in 1 .. n - 1 /\ rest[i - 1] = way[i]
      BY <3>2, <1>1, <1>3
    <3> QED
      BY <3>1, <3>3
  <2>3. Transit(arrived, taken, rest)
    BY <2>1, <2>2, <1>1, <1>4, <1>7 DEF Transit
  <2>4. ~(Head(way).value > 0)
    BY <1>1, <1>5
  <2> QED
    BY <2>3, <2>4 DEF rest
<1>6. CASE way[1].value > 0
  <2>0. 1 \in 1 .. n
    BY <1>1
  <2>1. way[1].value \in arrived + 1 .. taken
    BY <1>6, <2>0, <1>7
  <2>2. way[1].value = arrived + 1
    <3>1. PICK i \in 1 .. n : way[i].value = arrived + 1
      BY <2>1, <1>7
    <3>2. CASE i = 1
      BY <3>1, <3>2
    <3>3. CASE 1 < i
      <4>1. way[1].value < way[i].value
        BY <3>1, <3>3, <1>6, <2>0, <1>7
      <4> QED
        BY <4>1, <3>1, <2>1
    <3> QED
      BY <3>2, <3>3
  <2>3. \A i \in 1 .. n - 1 : rest[i].value > 0 => rest[i].value \in arrived + 2 .. taken
    <3> SUFFICES ASSUME NEW i \in 1 .. n - 1, rest[i].value > 0
                 PROVE  rest[i].value \in arrived + 2 .. taken
      OBVIOUS
    <3>1. way[i + 1].value > 0 /\ i + 1 \in 1 .. n /\ 1 < i + 1
      BY <1>3
    <3>2. way[1].value < way[i + 1].value /\ way[i + 1].value \in arrived + 1 .. taken
      BY <3>1, <1>6, <2>0, <1>7
    <3> QED
      BY <3>2, <2>2, <1>3
  <2>4. ASSUME NEW k \in arrived + 2 .. taken
        PROVE  \E i \in 1 .. n - 1 : rest[i].value = k
    <3>0. k \in arrived + 1 .. taken
      OBVIOUS
    <3>1. PICK i \in 1 .. n : way[i].value = k
      BY <3>0, <1>7
    <3>2. i # 1
      BY <3>1, <2>2
    <3>3. i - 1 \in 1 .. n - 1 /\ rest[i - 1] = way[i]
      BY <3>2, <1>1, <1>3
    <3> QED
      BY <3>1, <3>3
  <2>5. \A k \in (arrived + 1) + 1 .. taken : k \in arrived + 2 .. taken
    OBVIOUS
  <2>6. arrived + 1 <= taken
    BY <2>1
  <2>7. \A i \in 1 .. n - 1 :
          rest[i].value > 0 => rest[i].value \in (arrived + 1) + 1 .. taken
    BY <2>3
  <2>8. Transit(arrived + 1, taken, rest)
    BY <2>4, <2>5, <2>6, <2>7, <1>1, <1>4 DEF Transit
  <2>9. Head(way).value > 0
    BY <1>1, <1>6
  <2> QED
    BY <2>8, <2>9 DEF rest
<1> QED
  BY <1>1, <1>2, <1>5, <1>6, 1 \in 1 .. n

-----------------------------------------------------------------------------
(* What the steps have in common.                                          *)

WorkerType ==
  [Worker -> [at : {"idle", "runs"} \cup Awaiting, holds : BOOLEAN, counted : BOOLEAN]]

(* Where a worker is and in which line, before and after a step.           *)
LEMMA Standing ==
  /\ \A w \in Worker : Places[w] = worker[w].at /\ Places'[w] = worker'[w].at
  /\ Lists["acquire"] = semaphore.waiting /\ Lists'["acquire"] = semaphore'.waiting
  /\ Lists["wait"] = group.waiting /\ Lists'["wait"] = group'.waiting
  /\ Lists["send"] = Who(channel.senders) /\ Lists'["send"] = Who(channel'.senders)
  /\ Lists["receive"] = channel.receivers /\ Lists'["receive"] = channel'.receivers
  /\ Lists["sleep"] = <<>> /\ Lists'["sleep"] = <<>>
BY DEF Places, Lists, Awaiting

LEMMA Lined ==
  ASSUME TypeOK
  PROVE  /\ \A p \in Awaiting : Lists[p] \in Seq(Worker)
         /\ Woken \in Seq(Worker)
<1>1. /\ semaphore.waiting \in Seq(Worker) /\ group.waiting \in Seq(Worker)
      /\ channel.receivers \in Seq(Worker) /\ channel.senders \in Seq(Sender)
      /\ ready \in Seq(Outcome)
  BY DEF TypeOK, Semaphore, WaitGroup, Channel
<1>2. (\A r \in Sender : r.who \in Worker) /\ (\A r \in Outcome : r.who \in Worker)
  BY DEF Sender, Outcome
<1>3. Who(channel.senders) \in Seq(Worker) /\ Who(ready) \in Seq(Worker)
  BY <1>1, <1>2, WhoIs
<1>4. <<>> \in Seq(Worker)
  OBVIOUS
<1> QED
  BY <1>1, <1>3, <1>4, Standing DEF Awaiting, Woken

(* What a step may settle: nothing, one promise or two.                    *)
LEMMA Settling ==
  ASSUME TypeOK, NEW a \in Worker, NEW x \in Nat, NEW b \in Worker, NEW y \in Nat
  PROVE  /\ Wake(a, x) \in Outcome /\ Wake(a, x).who = a /\ Wake(a, x).value = x
         /\ <<>> \in Seq(Outcome)
         /\ <<Wake(a, x)>> \in Seq(Outcome)
         /\ <<Wake(a, x), Wake(b, y)>> \in Seq(Outcome)
         /\ ready \o <<>> = ready
         /\ ready \o <<Wake(a, x)>> = Append(ready, Wake(a, x))
         /\ ready \o <<Wake(a, x), Wake(b, y)>> =
              Append(Append(ready, Wake(a, x)), Wake(b, y))
         /\ Who(ready \o <<>>) = Woken
         /\ Who(ready \o <<Wake(a, x)>>) = Append(Woken, a)
         /\ Who(ready \o <<Wake(a, x), Wake(b, y)>>) = Append(Append(Woken, a), b)
<1> DEFINE p == Wake(a, x)
<1> DEFINE q == Wake(b, y)
<1>1. /\ p \in Outcome /\ p.who = a /\ p.value = x
      /\ q \in Outcome /\ q.who = b /\ q.value = y
  BY DEF Wake, Outcome
<1>2. ready \in Seq(Outcome) /\ \A r \in Outcome : r.who \in Worker
  BY DEF TypeOK, Outcome
<1> HIDE DEF p, q
<1>3. /\ <<>> \in Seq(Outcome) /\ <<p>> \in Seq(Outcome) /\ <<p, q>> \in Seq(Outcome)
      /\ ready \o <<>> = ready
      /\ ready \o <<p>> = Append(ready, p)
      /\ Append(ready, p) \in Seq(Outcome)
  BY <1>1, <1>2
<1>4. ready \o <<p, q>> = Append(Append(ready, p), q)
  BY <1>1, <1>2
<1>5. Who(Append(ready, p)) = Append(Woken, a)
  BY <1>1, <1>2, WhoOfAppend DEF Woken
<1>6. Who(Append(Append(ready, p), q)) = Append(Append(Woken, a), b)
  BY <1>1, <1>2, <1>3, <1>5, WhoOfAppend
<1> QED
  BY <1>1, <1>3, <1>4, <1>5, <1>6 DEF p, q, Woken

(* The same for one of them.                                               *)
LEMMA SettlingOne ==
  ASSUME TypeOK, NEW a \in Worker, NEW x \in Nat
  PROVE  /\ Wake(a, x) \in Outcome /\ Wake(a, x).value = x
         /\ <<Wake(a, x)>> \in Seq(Outcome)
         /\ ready \o <<Wake(a, x)>> = Append(ready, Wake(a, x))
         /\ Who(ready \o <<Wake(a, x)>>) = Append(Woken, a)
  BY Settling

(* Everyone in a line is told, with nothing in it.                         *)
LEMMA TellingAll ==
  ASSUME NEW ws \in Seq(Worker)
  PROVE  /\ WakeAll(ws) \in Seq(Outcome)
         /\ Who(WakeAll(ws)) = ws
         /\ \A i \in 1 .. Len(WakeAll(ws)) : WakeAll(ws)[i].value = 0
<1>1. Len(ws) \in Nat /\ \A i \in 1 .. Len(ws) : ws[i] \in Worker
  OBVIOUS
<1>2. /\ WakeAll(ws) \in Seq(Outcome) /\ Len(WakeAll(ws)) = Len(ws)
      /\ \A i \in 1 .. Len(ws) : WakeAll(ws)[i].who = ws[i] /\ WakeAll(ws)[i].value = 0
  BY <1>1 DEF WakeAll, Wake, Outcome
<1>3. /\ Who(WakeAll(ws)) \in Seq(Worker) /\ Len(Who(WakeAll(ws))) = Len(ws)
      /\ \A i \in 1 .. Len(ws) : Who(WakeAll(ws))[i] = ws[i]
  <2>1. \A r \in Outcome : r.who \in Worker
    BY DEF Outcome
  <2> QED
    BY <1>2, <2>1, WhoIs
<1>4. Who(WakeAll(ws)) = ws
  BY <1>3, SameSequence
<1> QED
  BY <1>2, <1>4

(* The worker that runs is the last on the stack.                          *)
LEMMA OnTop ==
  ASSUME TypeOK, OnStack, running # <<>>
  PROVE  /\ Top \in Worker /\ worker[Top].at = "runs"
         /\ Callers \in Seq(Worker) /\ NoneTwice(Callers)
         /\ \A v \in Worker : In(Callers, v) <=> (In(running, v) /\ v # Top)
<1> DEFINE n == Len(running)
<1>1. running \in Seq(Worker) /\ NoneTwice(running)
  BY DEF TypeOK, OnStack
<1>2. n \in Nat \ {0} /\ Top = running[n] /\ Top \in Worker
  BY <1>1 DEF Top
<1>3. /\ Callers \in Seq(Worker) /\ Len(Callers) = n - 1
      /\ \A i \in 1 .. n - 1 : Callers[i] = running[i]
  <2>1. n - 1 \in Int /\ \A i \in 1 .. n - 1 : running[i] \in Worker
    BY <1>1, <1>2
  <2>2. 1 \in Int /\ n - 1 = Len(running) - 1
    OBVIOUS
  <2> HIDE DEF n
  <2>3. /\ SubSeq(running, 1, n - 1) \in Seq(Worker)
        /\ Len(SubSeq(running, 1, n - 1)) = IF 1 <= n - 1 THEN (n - 1) - 1 + 1 ELSE 0
        /\ \A i \in 1 .. (n - 1) - 1 + 1 : SubSeq(running, 1, n - 1)[i] = running[1 + i - 1]
    BY <2>1, <2>2, SubSeqProperties
  <2>4. \A i \in 1 .. n - 1 : i \in 1 .. (n - 1) - 1 + 1 /\ 1 + i - 1 = i
    BY <1>2
  <2> QED
    BY <1>2, <2>2, <2>3, <2>4 DEF Callers
<1>4. In(running, Top)
  BY <1>2 DEF In
<1> HIDE DEF n
<1>5. \A i, j \in 1 .. n : running[i] = running[j] => i = j
  BY <1>1 DEF NoneTwice, n
<1>6. NoneTwice(Callers)
  BY <1>2, <1>3, <1>5 DEF NoneTwice
<1>7. ASSUME NEW v \in Worker
      PROVE  In(Callers, v) <=> (In(running, v) /\ v # Top)
  <2>1. In(Callers, v) => \E i \in 1 .. n - 1 : running[i] = v
    BY <1>3 DEF In
  <2>2. (\E i \in 1 .. n - 1 : running[i] = v) => In(running, v) /\ v # Top
    BY <1>2, <1>5 DEF In, n
  <2>3. In(running, v) /\ v # Top => \E i \in 1 .. n - 1 : running[i] = v
    BY <1>2 DEF In, n
  <2>4. (\E i \in 1 .. n - 1 : running[i] = v) => In(Callers, v)
    BY <1>2, <1>3 DEF In
  <2> QED
    BY <2>1, <2>2, <2>3, <2>4
<1> QED
  BY <1>2, <1>3, <1>4, <1>6, <1>7 DEF OnStack

(* What an await leaves of the thread.                                     *)
LEMMA Awaited ==
  ASSUME TypeOK, OnStack, NEW w \in Worker, Runs(w),
         NEW place \in Awaiting \cup {"idle"}, NEW settled \in Seq(Outcome),
         Awaits(w, place, settled), place = "acquire" => ~worker[w].holds
  PROVE  /\ worker' \in WorkerType /\ running' \in Seq(Worker)
         /\ ready' \in Seq(Outcome) /\ Woken' = Who(ready \o settled)
         /\ OnStack'
         /\ worker[w].at = "runs" /\ worker'[w].at = place
         /\ \A v \in Worker : v # w => worker'[v].at = worker[v].at
         /\ \A v \in Worker : worker'[v].holds = worker[v].holds
                              /\ worker'[v].counted = worker[v].counted
<1>1. /\ running # <<>> /\ w = Top /\ worker[w].at = "runs"
      /\ Callers \in Seq(Worker) /\ NoneTwice(Callers)
      /\ \A v \in Worker : In(Callers, v) <=> (In(running, v) /\ v # w)
  BY OnTop DEF Runs
<1>2. /\ worker \in WorkerType /\ worker' = [worker EXCEPT ![w].at = place]
      /\ running' = Callers /\ ready' = ready \o settled
  BY DEF TypeOK, WorkerType, Awaits, At
<1>3. /\ worker' \in WorkerType /\ worker'[w].at = place
      /\ \A v \in Worker : v # w => worker'[v].at = worker[v].at
      /\ \A v \in Worker : worker'[v].holds = worker[v].holds
                           /\ worker'[v].counted = worker[v].counted
  BY <1>2 DEF WorkerType
<1>4. ready' \in Seq(Outcome)
  BY <1>2, Concatenating DEF TypeOK
<1>5. place # "runs"
  BY DEF Awaiting
<1>6. OnStack'
  BY <1>1, <1>2, <1>3, <1>5 DEF OnStack
<1> QED
  BY <1>1, <1>2, <1>3, <1>4, <1>6 DEF Woken

(* A worker whose place does not change changes nothing of the thread.     *)
LEMMA WentOn ==
  ASSUME TypeOK, OnStack, NEW settled \in Seq(Outcome), GoesOn(settled),
         \A v \in Worker : worker'[v].at = worker[v].at
                           /\ (worker'[v].holds => worker[v].holds)
  PROVE  /\ running' \in Seq(Worker) /\ ready' \in Seq(Outcome)
         /\ Woken' = Who(ready \o settled)
         /\ OnStack'
<1>1. ready' = ready \o settled /\ running' = running
  BY DEF GoesOn
<1>2. ready' \in Seq(Outcome)
  BY <1>1, Concatenating DEF TypeOK
<1> QED
  BY <1>1, <1>2 DEF OnStack, TypeOK, Woken

-----------------------------------------------------------------------------
(* What a step that has nothing to do with a primitive leaves of it.       *)

(* A permit is held or on its way unless its worker still stands in line.  *)
LEMMA HoldersAre ==
  /\ OneWayBack =>
       \A v \in Worker : v \in Holders <=>
         worker[v].holds \/ (worker[v].at = "acquire" /\ ~In(semaphore.waiting, v))
  /\ OneWayBack' =>
       \A v \in Worker : v \in Holders' <=>
         worker'[v].holds \/ (worker'[v].at = "acquire" /\ ~In(semaphore'.waiting, v))
<1>1. "acquire" \in Awaiting /\ "acquire" # "sleep"
  BY DEF Awaiting
<1>2. ASSUME OneWayBack, NEW v \in Worker
      PROVE  v \in Holders <=>
               worker[v].holds \/ (worker[v].at = "acquire" /\ ~In(semaphore.waiting, v))
  <2>1. /\ In(semaphore.waiting, v) => ~In(Woken, v)
        /\ worker[v].at = "acquire" => In(semaphore.waiting, v) \/ In(Woken, v)
    BY <1>1, <1>2, Standing DEF OneWayBack, Consistent
  <2> QED
    BY <2>1 DEF Holders, Granted
<1>3. ASSUME OneWayBack', NEW v \in Worker
      PROVE  v \in Holders' <=>
               worker'[v].holds \/ (worker'[v].at = "acquire" /\ ~In(semaphore'.waiting, v))
  <2>1. /\ In(semaphore'.waiting, v) => ~In(Woken', v)
        /\ worker'[v].at = "acquire" => In(semaphore'.waiting, v) \/ In(Woken', v)
    BY <1>1, <1>3, Standing DEF OneWayBack, Consistent
  <2> QED
    BY <2>1 DEF Holders, Granted
<1> QED
  BY <1>2, <1>3

LEMMA PermitsUntouched ==
  ASSUME OneWayBack, OneWayBack', PermitsKept, semaphore' = semaphore,
         \A v \in Worker : worker'[v].holds = worker[v].holds
                           /\ (worker'[v].at = "acquire" <=> worker[v].at = "acquire")
  PROVE  PermitsKept'
<1>1. \A v \in Worker : v \in Holders' <=> v \in Holders
  BY HoldersAre
<1>2. Holders' = Holders
  <2>1. Holders \subseteq Worker /\ Holders' \subseteq Worker
    BY DEF Holders, Granted
  <2> QED
    BY <1>1, <2>1
<1> QED
  BY <1>2 DEF PermitsKept

LEMMA GroupUntouched ==
  ASSUME GroupCounts, group' = group,
         \A v \in Worker : worker'[v].counted = worker[v].counted
  PROVE  GroupCounts'
<1>1. Counted' = Counted
  BY DEF Counted
<1> QED
  BY <1>1 DEF GroupCounts

LEMMA ChannelUntouched ==
  ASSUME TypeOK, NobodyWaitsInVain, DeliveredInOrder,
         UNCHANGED <<channel, sent, refused, got>>,
         NEW settled \in Seq(Outcome), ready' = ready \o settled,
         \A i \in 1 .. Len(settled) : settled[i].value = 0
  PROVE  NobodyWaitsInVain' /\ DeliveredInOrder'
<1>1. NobodyWaitsInVain'
  BY DEF NobodyWaitsInVain, HasRoom
<1>2. Taken' = Taken
  BY DEF Taken
<1>3. InOrder'
  BY <1>2 DEF DeliveredInOrder, InOrder
<1>4. got \in Nat /\ ready \in Seq(Outcome) /\ Taken \in Int
  BY DEF TypeOK, Taken, Channel
<1>5. Transit(got, Taken, ready \o settled)
  BY <1>4, CarriesNothing DEF DeliveredInOrder, InTransit
<1> QED
  BY <1>1, <1>2, <1>3, <1>5 DEF DeliveredInOrder, InTransit

-----------------------------------------------------------------------------
(* Each step keeps the invariant.                                          *)

LEMMA AcquireKeepsIInv ==
  ASSUME IInv, NEW w \in Worker, acquire(w)
  PROVE  IInv'
<1> USE DEF IInv
<1>1. /\ Runs(w) /\ ~worker[w].holds /\ "acquire" \in Awaiting
      /\ askers' = Append(askers, w)
      /\ UNCHANGED <<group, channel, sent, refused, got>>
  BY DEF acquire, Awaiting
<1>2. "acquire" \in Awaiting \cup {"idle"}
  BY <1>1
<1>3. askers' \in Seq(Worker)
  BY <1>1 DEF TypeOK
<1>4. CASE semaphore.free > 0
  <2>1. /\ semaphore' = [semaphore EXCEPT !.free = @ - 1]
        /\ Awaits(w, "acquire", <<Wake(w, 0)>>)
    BY <1>4 DEF acquire
  <2>2. /\ <<Wake(w, 0)>> \in Seq(Outcome)
        /\ Wake(w, 0).value = 0
        /\ Who(ready \o <<Wake(w, 0)>>) = Append(Woken, w)
    BY Settling
  <2>3. /\ worker' \in WorkerType /\ running' \in Seq(Worker)
        /\ ready' \in Seq(Outcome) /\ Woken' = Append(Woken, w)
        /\ OnStack'
        /\ worker[w].at = "runs" /\ worker'[w].at = "acquire"
        /\ \A v \in Worker : v # w => worker'[v].at = worker[v].at
        /\ \A v \in Worker : worker'[v].holds = worker[v].holds
                             /\ worker'[v].counted = worker[v].counted
    BY <1>1, <1>2, <2>1, <2>2, Awaited
  <2>4. /\ semaphore' \in Semaphore /\ semaphore'.waiting = semaphore.waiting
        /\ semaphore'.permits = semaphore.permits /\ semaphore'.free = semaphore.free - 1
        /\ semaphore.waiting = <<>>
    <3>1. semaphore \in [permits : Nat \ {0}, free : Nat, waiting : Seq(Worker)]
      BY DEF TypeOK, Semaphore
    <3>2. semaphore.free - 1 \in Nat /\ semaphore.waiting = <<>>
      BY <1>4, <3>1 DEF PermitsKept
    <3> QED
      BY <2>1, <3>1, <3>2 DEF Semaphore
  <2>5. TypeOK'
    BY <1>1, <1>3, <2>3, <2>4 DEF TypeOK, WorkerType
  <2>6. OneWayBack'
    <3>1. \A p \in Awaiting : Lists'[p] = Lists[p]
      BY <1>1, <2>4, Standing DEF Awaiting
    <3>2. Places[w] \notin Awaiting /\ Places'[w] = "acquire"
          /\ \A v \in Worker : v # w => Places'[v] = Places[v]
      BY <2>3, Standing DEF Awaiting
    <3>3. Woken \in Seq(Worker)
      BY Lined
    <3>4. Consistent(Places, Lists, Woken)
      BY DEF OneWayBack
    <3> HIDE DEF IInv
    <3>5. Consistent(Places', Lists', Append(Woken, w))
      BY <1>1, <3>1, <3>2, <3>3, <3>4, AwaitsSettled
    <3> QED
      BY <2>3, <3>5 DEF OneWayBack
  <2>7. PermitsKept'
    <3>1. w \notin Holders /\ Holders' = Holders \cup {w}
      <4>1. \A v \in Worker : v \in Holders' <=> v \in Holders \/ v = w
        BY <2>3, <2>4, <2>6, HoldersAre DEF In
      <4>2. w \notin Holders
        BY <1>1, <2>3, HoldersAre
      <4>3. Holders \subseteq Worker /\ Holders' \subseteq Worker
        BY DEF Holders, Granted
      <4> QED
        BY <4>1, <4>2, <4>3
    <3>2. IsFiniteSet(Holders)
      BY SyncAssumption, FS_Subset DEF Holders, Granted
    <3>3. Cardinality(Holders') = Cardinality(Holders) + 1 /\ Cardinality(Holders) \in Nat
      BY <3>1, <3>2, FS_AddElement, FS_CardinalityType
    <3> QED
      BY <2>4, <3>3 DEF PermitsKept, TypeOK, Semaphore
  <2>8. GroupCounts'
    BY <1>1, <2>3, GroupUntouched
  <2>9. NobodyWaitsInVain' /\ DeliveredInOrder'
    <3>1. /\ ready' = ready \o <<Wake(w, 0)>>
          /\ \A i \in 1 .. Len(<<Wake(w, 0)>>) : <<Wake(w, 0)>>[i].value = 0
      BY <2>1, <2>2 DEF Awaits
    <3> QED
      BY <1>1, <2>2, <3>1, ChannelUntouched
  <2> QED
    BY <2>3, <2>5, <2>6, <2>7, <2>8, <2>9
<1>5. CASE ~(semaphore.free > 0)
  <2>1. /\ semaphore' = [semaphore EXCEPT !.waiting = Append(@, w)]
        /\ Awaits(w, "acquire", <<>>)
    BY <1>5 DEF acquire
  <2>2. <<>> \in Seq(Outcome) /\ ready \o <<>> = ready /\ Who(ready \o <<>>) = Woken
    BY Settling
  <2>3. /\ worker' \in WorkerType /\ running' \in Seq(Worker)
        /\ ready' \in Seq(Outcome) /\ Woken' = Woken
        /\ OnStack'
        /\ worker[w].at = "runs" /\ worker'[w].at = "acquire"
        /\ \A v \in Worker : v # w => worker'[v].at = worker[v].at
        /\ \A v \in Worker : worker'[v].holds = worker[v].holds
                             /\ worker'[v].counted = worker[v].counted
    BY <1>1, <1>2, <2>1, <2>2, Awaited
  <2>4. /\ semaphore' \in Semaphore /\ semaphore'.waiting = Append(semaphore.waiting, w)
        /\ semaphore'.permits = semaphore.permits /\ semaphore'.free = semaphore.free
        /\ semaphore.waiting \in Seq(Worker)
        /\ semaphore.free = 0
    <3>1. semaphore \in [permits : Nat \ {0}, free : Nat, waiting : Seq(Worker)]
      BY DEF TypeOK, Semaphore
    <3>2. semaphore.free = 0 /\ Append(semaphore.waiting, w) \in Seq(Worker)
      BY <1>5, <3>1
    <3> QED
      BY <2>1, <3>1, <3>2 DEF Semaphore
  <2>5. TypeOK'
    BY <1>1, <1>3, <2>3, <2>4 DEF TypeOK, WorkerType
  <2>6. OneWayBack'
    <3>1. /\ Lists'["acquire"] = Append(Lists["acquire"], w)
          /\ \A p \in Awaiting : p # "acquire" => Lists'[p] = Lists[p]
      BY <1>1, <2>4, Standing DEF Awaiting
    <3>2. Places[w] \notin Awaiting /\ Places'[w] = "acquire"
          /\ \A v \in Worker : v # w => Places'[v] = Places[v]
      BY <2>3, Standing DEF Awaiting
    <3>3. Woken \in Seq(Worker) /\ \A p \in Awaiting : Lists[p] \in Seq(Worker)
      BY Lined
    <3>4. Consistent(Places, Lists, Woken)
      BY DEF OneWayBack
    <3> HIDE DEF IInv
    <3>5. Consistent(Places', Lists', Woken)
      BY <1>1, <3>1, <3>2, <3>3, <3>4, Enters, SMTT(40)
    <3> QED
      BY <2>3, <3>5 DEF OneWayBack
  <2>7. PermitsKept'
    <3>1. Holders' = Holders
      <4>1. \A v \in Worker : In(semaphore'.waiting, v) <=> In(semaphore.waiting, v) \/ v = w
        BY <2>4, InAppend
      <4>2. \A v \in Worker : v \in Holders' <=> v \in Holders
        BY <1>1, <2>3, <2>6, <4>1, HoldersAre
      <4>3. Holders \subseteq Worker /\ Holders' \subseteq Worker
        BY DEF Holders, Granted
      <4> QED
        BY <4>2, <4>3
    <3> QED
      BY <2>4, <3>1 DEF PermitsKept
  <2>8. GroupCounts'
    BY <1>1, <2>3, GroupUntouched
  <2>9. NobodyWaitsInVain' /\ DeliveredInOrder'
    <3>1. ready' = ready \o <<>> /\ \A i \in 1 .. Len(<<>>) : <<>>[i].value = 0
      BY <2>1 DEF Awaits
    <3> QED
      BY <1>1, <2>2, <3>1, ChannelUntouched
  <2> QED
    BY <2>3, <2>5, <2>6, <2>7, <2>8, <2>9
<1> QED
  BY <1>4, <1>5

LEMMA ReleaseKeepsIInv ==
  ASSUME IInv, NEW w \in Worker, release(w)
  PROVE  IInv'
<1> USE DEF IInv
<1>1. /\ Runs(w) /\ worker[w].holds
      /\ worker' = [worker EXCEPT ![w].holds = FALSE]
      /\ UNCHANGED <<group, channel, sent, refused, got, askers>>
  BY DEF release, history
<1>2. /\ worker' \in WorkerType
      /\ \A v \in Worker : worker'[v].at = worker[v].at /\ worker'[v].counted = worker[v].counted
      /\ \A v \in Worker : v # w => worker'[v].holds = worker[v].holds
      /\ ~worker'[w].holds
  BY <1>1 DEF TypeOK, WorkerType
<1>3. worker[w].at = "runs"
  BY <1>1, OnTop DEF Runs
<1>4. semaphore \in [permits : Nat \ {0}, free : Nat, waiting : Seq(Worker)]
  BY DEF TypeOK, Semaphore
<1>5. IsFiniteSet(Holders) /\ Cardinality(Holders) \in Nat /\ w \in Holders
  <2>1. IsFiniteSet(Holders)
    BY SyncAssumption, FS_Subset DEF Holders, Granted
  <2> QED
    BY <1>1, <2>1, FS_CardinalityType DEF Holders
<1>6. IsFiniteSet(Holders \ {w}) /\ Cardinality(Holders \ {w}) = Cardinality(Holders) - 1
  BY <1>5, FS_RemoveElement
<1>7. GroupCounts'
  BY <1>1, <1>2, GroupUntouched
<1>8. CASE semaphore.waiting # <<>>
  <2> DEFINE h == Head(semaphore.waiting)
  <2>1. /\ semaphore' = [semaphore EXCEPT !.waiting = Tail(@)]
        /\ GoesOn(<<Wake(h, 0)>>)
    BY <1>8 DEF release
  <2>2. /\ Lists["acquire"] = semaphore.waiting
        /\ Consistent(Places, Lists, Woken)
        /\ "acquire" \in Awaiting
        /\ Woken \in Seq(Worker) /\ \A p \in Awaiting : Lists[p] \in Seq(Worker)
    BY Standing, Lined DEF OneWayBack, Awaiting
  <2>3. /\ Tail(semaphore.waiting) \in Seq(Worker)
        /\ \A v \in Worker :
             In(Tail(semaphore.waiting), v) <=> (In(semaphore.waiting, v) /\ v # h)
    BY <1>4, <1>8, <2>2, Beheading, InTail DEF Consistent
  <2>4. /\ semaphore' \in Semaphore /\ semaphore'.waiting = Tail(semaphore.waiting)
        /\ semaphore'.permits = semaphore.permits /\ semaphore'.free = semaphore.free
    BY <1>4, <2>1, <2>3 DEF Semaphore
  <2>5. /\ Consistent(Places, Lists', Append(Woken, h))
        /\ h \in Worker /\ In(semaphore.waiting, h) /\ worker[h].at = "acquire"
    <3>1. /\ Lists'["acquire"] = Tail(Lists["acquire"])
          /\ \A p \in Awaiting : p # "acquire" => Lists'[p] = Lists[p]
      BY <1>1, <2>4, Standing DEF Awaiting
    <3> HIDE DEF IInv
    <3>2. Lists["acquire"] # <<>>
      BY <1>8, <2>2
    <3>3. /\ Consistent(Places, Lists', Append(Woken, Head(Lists["acquire"])))
          /\ Head(Lists["acquire"]) \in Worker
          /\ In(Lists["acquire"], Head(Lists["acquire"]))
          /\ Places[Head(Lists["acquire"])] = "acquire"
      BY <2>2, <3>1, <3>2, WakesFirst
    <3> QED
      BY <2>2, <3>3, Standing
  <2> HIDE DEF h
  <2>6. /\ <<Wake(h, 0)>> \in Seq(Outcome) /\ Wake(h, 0).value = 0
        /\ Who(ready \o <<Wake(h, 0)>>) = Append(Woken, h)
    BY <2>5, Settling
  <2>7. /\ running' \in Seq(Worker) /\ ready' \in Seq(Outcome)
        /\ Woken' = Append(Woken, h) /\ OnStack'
    BY <1>2, <2>1, <2>6, WentOn
  <2>8. TypeOK'
    BY <1>1, <1>2, <2>4, <2>7 DEF TypeOK, WorkerType
  <2>9. OneWayBack'
    <3>1. \A v \in Worker : Places'[v] = Places[v]
      BY <1>2, Standing
    <3>2. Consistent(Places', Lists', Append(Woken, h))
      BY <2>5, <3>1 DEF Consistent
    <3> QED
      BY <2>7, <3>2 DEF OneWayBack
  <2>10. PermitsKept'
    <3>1. h \notin Holders \ {w}
      BY <2>5, HoldersAre DEF OnStack
    <3>2. \A v \in Worker : v \in Holders' <=> (v \in Holders \ {w} \/ v = h)
      BY <1>2, <1>3, <2>3, <2>4, <2>5, <2>9, HoldersAre
    <3>3. Holders' = (Holders \ {w}) \cup {h}
      <4>1. Holders \subseteq Worker /\ Holders' \subseteq Worker
        BY DEF Holders, Granted
      <4> QED
        BY <2>5, <3>2, <4>1
    <3>4. Cardinality(Holders') = Cardinality(Holders)
      <4>1. Cardinality((Holders \ {w}) \cup {h}) = Cardinality(Holders \ {w}) + 1
        BY <1>6, <3>1, FS_AddElement
      <4> QED
        BY <1>5, <1>6, <3>3, <4>1
    <3>5. semaphore.free = 0
      BY <1>8 DEF PermitsKept
    <3> QED
      BY <2>4, <3>4, <3>5 DEF PermitsKept
  <2>11. NobodyWaitsInVain' /\ DeliveredInOrder'
    <3>1. /\ ready' = ready \o <<Wake(h, 0)>>
          /\ \A i \in 1 .. Len(<<Wake(h, 0)>>) : <<Wake(h, 0)>>[i].value = 0
      BY <2>1, <2>6 DEF GoesOn
    <3> QED
      BY <1>1, <2>6, <3>1, ChannelUntouched
  <2> QED
    BY <1>7, <2>7, <2>8, <2>9, <2>10, <2>11
<1>9. CASE semaphore.waiting = <<>>
  <2>1. semaphore' = [semaphore EXCEPT !.free = @ + 1] /\ GoesOn(<<>>)
    BY <1>9 DEF release
  <2>2. <<>> \in Seq(Outcome) /\ ready \o <<>> = ready /\ Who(ready \o <<>>) = Woken
    BY <1>1, OnTop, Settling DEF Runs
  <2>3. /\ running' \in Seq(Worker) /\ ready' \in Seq(Outcome)
        /\ Woken' = Woken /\ OnStack'
    BY <1>2, <2>1, <2>2, WentOn
  <2>4. /\ semaphore' \in Semaphore /\ semaphore'.waiting = semaphore.waiting
        /\ semaphore'.permits = semaphore.permits /\ semaphore'.free = semaphore.free + 1
    BY <1>4, <2>1 DEF Semaphore
  <2>5. TypeOK'
    BY <1>1, <1>2, <2>3, <2>4 DEF TypeOK, WorkerType
  <2>6. OneWayBack'
    <3>1. \A v \in Worker : Places'[v] = Places[v]
      BY <1>2, Standing
    <3>2. \A p \in Awaiting : Lists'[p] = Lists[p]
      BY <1>1, <2>4, Standing DEF Awaiting
    <3>3. Consistent(Places', Lists', Woken)
      BY <3>1, <3>2 DEF OneWayBack, Consistent
    <3> QED
      BY <2>3, <3>3 DEF OneWayBack
  <2>7. PermitsKept'
    <3>1. \A v \in Worker : v \in Holders' <=> v \in Holders \ {w}
      BY <1>2, <1>3, <2>4, <2>6, HoldersAre
    <3>2. Holders' = Holders \ {w}
      <4>1. Holders \subseteq Worker /\ Holders' \subseteq Worker
        BY DEF Holders, Granted
      <4> QED
        BY <3>1, <4>1
    <3> QED
      BY <1>4, <1>5, <1>6, <1>9, <2>4, <3>2 DEF PermitsKept
  <2>8. NobodyWaitsInVain' /\ DeliveredInOrder'
    <3>1. ready' = ready \o <<>> /\ \A i \in 1 .. Len(<<>>) : <<>>[i].value = 0
      BY <2>1 DEF GoesOn
    <3> QED
      BY <1>1, <2>2, <3>1, ChannelUntouched
  <2> QED
    BY <1>7, <2>3, <2>5, <2>6, <2>7, <2>8
<1> QED
  BY <1>8, <1>9

(* Nobody new in a line and nobody woken: nothing changes for anyone else. *)
LEMMA LinesUntouched ==
  ASSUME UNCHANGED <<semaphore, group, channel>>
  PROVE  \A p \in Awaiting : Lists'[p] = Lists[p]
BY Standing DEF Awaiting

LEMMA AddKeepsIInv ==
  ASSUME IInv, NEW w \in Worker, add(w)
  PROVE  IInv'
<1> USE DEF IInv
<1>1. /\ Runs(w) /\ ~worker[w].counted
      /\ group' = [group EXCEPT !.count = @ + 1]
      /\ worker' = [worker EXCEPT ![w].counted = TRUE]
      /\ GoesOn(<<>>)
      /\ UNCHANGED <<semaphore, channel, sent, refused, got, askers>>
  BY DEF add, history
<1>2. /\ worker' \in WorkerType
      /\ \A v \in Worker : worker'[v].at = worker[v].at /\ worker'[v].holds = worker[v].holds
      /\ \A v \in Worker : v # w => worker'[v].counted = worker[v].counted
      /\ worker'[w].counted
  BY <1>1 DEF TypeOK, WorkerType
<1>3. /\ group \in [count : Nat, waiting : Seq(Worker)]
      /\ group' \in [count : Nat, waiting : Seq(Worker)]
      /\ group'.count = group.count + 1 /\ group'.waiting = group.waiting
  <2>1. group \in [count : Nat, waiting : Seq(Worker)]
    BY DEF TypeOK, WaitGroup
  <2>2. group' = [group EXCEPT !.count = @ + 1]
    BY <1>1
  <2> QED
    BY <2>1, <2>2
<1>4. <<>> \in Seq(Outcome) /\ ready \o <<>> = ready /\ Who(ready \o <<>>) = Woken
  BY <1>1, OnTop, Settling DEF Runs
<1>5. running' \in Seq(Worker) /\ ready' \in Seq(Outcome) /\ Woken' = Woken /\ OnStack'
  BY <1>1, <1>2, <1>4, WentOn
<1>6. TypeOK'
  BY <1>1, <1>2, <1>3, <1>5 DEF TypeOK, WorkerType, WaitGroup
<1>7. OneWayBack'
  <2>1. \A p \in Awaiting : Lists'[p] = Lists[p]
    BY <1>1, <1>3, Standing DEF Awaiting
  <2>2. Consistent(Places', Lists', Woken)
    BY <1>2, <2>1, Standing DEF OneWayBack, Consistent
  <2> QED
    BY <1>5, <2>2 DEF OneWayBack
<1>8. PermitsKept'
  BY <1>1, <1>2, <1>7, PermitsUntouched
<1>9. GroupCounts'
  <2>1. Counted' = Counted \cup {w} /\ w \notin Counted
    BY <1>1, <1>2 DEF Counted
  <2>2. IsFiniteSet(Counted)
    BY SyncAssumption, FS_Subset DEF Counted
  <2>3. Cardinality(Counted') = Cardinality(Counted) + 1
    BY <2>1, <2>2, FS_AddElement
  <2> QED
    BY <1>3, <2>3 DEF GroupCounts
<1>10. NobodyWaitsInVain' /\ DeliveredInOrder'
  <2>1. ready' = ready \o <<>> /\ \A i \in 1 .. Len(<<>>) : <<>>[i].value = 0
    BY <1>1 DEF GoesOn
  <2> QED
    BY <1>1, <1>4, <2>1, ChannelUntouched
<1> QED
  BY <1>5, <1>6, <1>7, <1>8, <1>9, <1>10

(* Nobody is counted in once the count is one and a last done() follows.   *)
LEMMA LastOne ==
  ASSUME TypeOK, GroupCounts, NEW w \in Worker, worker[w].counted,
         \A v \in Worker : v # w => worker'[v].counted = worker[v].counted,
         ~worker'[w].counted
  PROVE  /\ IsFiniteSet(Counted) /\ w \in Counted
         /\ Counted' = Counted \ {w}
         /\ Cardinality(Counted') = group.count - 1
         /\ group.count \in Nat /\ group.count > 0
         /\ group.count = 1 => Counted' = {}
<1>1. Counted' = Counted \ {w} /\ w \in Counted
  BY DEF Counted
<1>2. IsFiniteSet(Counted)
  BY SyncAssumption, FS_Subset DEF Counted
<1>3. /\ IsFiniteSet(Counted \ {w})
      /\ Cardinality(Counted \ {w}) = Cardinality(Counted) - 1
  BY <1>1, <1>2, FS_RemoveElement
<1>4. Cardinality(Counted) \in Nat /\ Cardinality(Counted \ {w}) \in Nat
  BY <1>2, <1>3, FS_CardinalityType
<1>5. group.count = Cardinality(Counted)
  BY DEF GroupCounts
<1>6. group.count = 1 => Counted \ {w} = {}
  <2>1. Cardinality(Counted \ {w}) = 0 => Counted \ {w} = {}
    BY <1>3, FS_EmptySet
  <2> QED
    BY <1>3, <1>5, <2>1
<1> QED
  BY <1>1, <1>2, <1>3, <1>4, <1>5, <1>6

LEMMA DoneKeepsIInv ==
  ASSUME IInv, NEW w \in Worker, done(w)
  PROVE  IInv'
<1> USE DEF IInv
<1>1. /\ Runs(w) /\ worker[w].counted
      /\ worker' = [worker EXCEPT ![w].counted = FALSE]
      /\ UNCHANGED <<semaphore, channel, sent, refused, got, askers>>
  BY DEF done, history
<1>2. /\ worker' \in WorkerType
      /\ \A v \in Worker : worker'[v].at = worker[v].at /\ worker'[v].holds = worker[v].holds
      /\ \A v \in Worker : v # w => worker'[v].counted = worker[v].counted
      /\ ~worker'[w].counted
  BY <1>1 DEF TypeOK, WorkerType
<1>3. group \in [count : Nat, waiting : Seq(Worker)]
  BY DEF TypeOK, WaitGroup
<1>4. /\ Cardinality(Counted') = group.count - 1
      /\ group.count \in Nat /\ group.count > 0
  BY <1>1, <1>2, LastOne
<1>5. CASE group.count > 1
  <2>1. group' = [group EXCEPT !.count = @ - 1] /\ GoesOn(<<>>)
    BY <1>5 DEF done
  <2>2. /\ group' \in [count : Nat, waiting : Seq(Worker)]
        /\ group'.count = group.count - 1 /\ group'.waiting = group.waiting
    BY <1>3, <1>5, <2>1
  <2>3. <<>> \in Seq(Outcome) /\ ready \o <<>> = ready /\ Who(ready \o <<>>) = Woken
    BY <1>1, OnTop, Settling DEF Runs
  <2>4. running' \in Seq(Worker) /\ ready' \in Seq(Outcome) /\ Woken' = Woken /\ OnStack'
    BY <1>2, <2>1, <2>3, WentOn
  <2>5. TypeOK'
    BY <1>1, <1>2, <2>2, <2>4 DEF TypeOK, WorkerType, WaitGroup
  <2>6. OneWayBack'
    <3>1. \A p \in Awaiting : Lists'[p] = Lists[p]
      BY <1>1, <2>2, Standing DEF Awaiting
    <3>2. Consistent(Places', Lists', Woken)
      BY <1>2, <3>1, Standing DEF OneWayBack, Consistent
    <3> QED
      BY <2>4, <3>2 DEF OneWayBack
  <2>7. PermitsKept'
    BY <1>1, <1>2, <2>6, PermitsUntouched
  <2>8. GroupCounts'
    BY <1>4, <1>5, <2>2 DEF GroupCounts
  <2>9. NobodyWaitsInVain' /\ DeliveredInOrder'
    <3>1. ready' = ready \o <<>> /\ \A i \in 1 .. Len(<<>>) : <<>>[i].value = 0
      BY <2>1 DEF GoesOn
    <3> QED
      BY <1>1, <2>3, <3>1, ChannelUntouched
  <2> QED
    BY <2>4, <2>5, <2>6, <2>7, <2>8, <2>9
<1>6. CASE ~(group.count > 1)
  <2> DEFINE told == WakeAll(group.waiting)
  <2>1. group' = [count |-> group.count - 1, waiting |-> <<>>] /\ GoesOn(told)
    BY <1>6 DEF done
  <2>2. /\ group' \in [count : Nat, waiting : Seq(Worker)]
        /\ group'.count = group.count - 1 /\ group'.waiting = <<>>
    BY <1>3, <1>4, <2>1
  <2>3. /\ told \in Seq(Outcome) /\ Who(told) = group.waiting
        /\ \A i \in 1 .. Len(told) : told[i].value = 0
    BY <1>3, TellingAll
  <2> HIDE DEF told
  <2>4. Who(ready \o told) = Woken \o group.waiting
    <3>1. \A r \in Outcome : r.who \in Worker
      BY DEF Outcome
    <3> QED
      BY <2>3, <3>1, WhoOfConcat DEF Woken, TypeOK
  <2>5. /\ running' \in Seq(Worker) /\ ready' \in Seq(Outcome)
        /\ Woken' = Woken \o group.waiting /\ OnStack'
    BY <1>2, <2>1, <2>3, <2>4, WentOn
  <2>6. TypeOK'
    BY <1>1, <1>2, <2>2, <2>5 DEF TypeOK, WorkerType, WaitGroup
  <2>7. OneWayBack'
    <3>1. /\ Lists["wait"] = group.waiting /\ Lists'["wait"] = <<>> /\ "wait" \in Awaiting
          /\ \A p \in Awaiting : p # "wait" => Lists'[p] = Lists[p]
      BY <1>1, <2>2, Standing DEF Awaiting
    <3>2. Woken \in Seq(Worker) /\ \A p \in Awaiting : Lists[p] \in Seq(Worker)
      BY Lined
    <3>3. Consistent(Places, Lists, Woken)
      BY DEF OneWayBack
    <3> HIDE DEF IInv
    <3>4. Consistent(Places, Lists', Woken \o group.waiting)
      <4>1. Consistent(Places, Lists', Woken \o Lists["wait"])
        BY <3>1, <3>2, <3>3, WakesEveryone
      <4> QED
        BY <4>1, <3>1
    <3>5. \A v \in Worker : Places'[v] = Places[v]
      BY <1>2, Standing
    <3>6. Consistent(Places', Lists', Woken \o group.waiting)
      BY <3>4, <3>5 DEF Consistent
    <3> QED
      BY <2>5, <3>6 DEF OneWayBack
  <2>8. PermitsKept'
    BY <1>1, <1>2, <2>7, PermitsUntouched
  <2>9. GroupCounts'
    BY <1>4, <2>2 DEF GroupCounts
  <2>10. NobodyWaitsInVain' /\ DeliveredInOrder'
    <3>1. ready' = ready \o told
      BY <2>1 DEF GoesOn
    <3> QED
      BY <1>1, <2>3, <3>1, ChannelUntouched
  <2> QED
    BY <2>5, <2>6, <2>7, <2>8, <2>9, <2>10
<1> QED
  BY <1>5, <1>6

LEMMA WaitKeepsIInv ==
  ASSUME IInv, NEW w \in Worker, wait(w)
  PROVE  IInv'
<1> USE DEF IInv
<1>1. /\ Runs(w) /\ "wait" \in Awaiting /\ "wait" \in Awaiting \cup {"idle"}
      /\ UNCHANGED <<semaphore, channel, sent, refused, got, askers>>
  BY DEF wait, history, Awaiting
<1>2. group \in [count : Nat, waiting : Seq(Worker)]
  BY DEF TypeOK, WaitGroup
<1>3. /\ Woken \in Seq(Worker) /\ \A p \in Awaiting : Lists[p] \in Seq(Worker)
      /\ Consistent(Places, Lists, Woken)
  BY Lined DEF OneWayBack
<1>4. CASE group.count = 0
  <2>1. Awaits(w, "wait", <<Wake(w, 0)>>) /\ group' = group
    BY <1>4 DEF wait
  <2>2. /\ <<Wake(w, 0)>> \in Seq(Outcome) /\ Wake(w, 0).value = 0
        /\ Who(ready \o <<Wake(w, 0)>>) = Append(Woken, w)
    BY Settling
  <2>3. /\ worker' \in WorkerType /\ running' \in Seq(Worker)
        /\ ready' \in Seq(Outcome) /\ Woken' = Append(Woken, w)
        /\ OnStack'
        /\ worker[w].at = "runs" /\ worker'[w].at = "wait"
        /\ \A v \in Worker : v # w => worker'[v].at = worker[v].at
        /\ \A v \in Worker : worker'[v].holds = worker[v].holds
                             /\ worker'[v].counted = worker[v].counted
    BY <1>1, <2>1, <2>2, Awaited
  <2>4. TypeOK'
    BY <1>1, <2>1, <2>3 DEF TypeOK, WorkerType
  <2>5. OneWayBack'
    <3>1. \A p \in Awaiting : Lists'[p] = Lists[p]
      BY <1>1, <2>1, LinesUntouched
    <3>2. Places[w] \notin Awaiting /\ Places'[w] = "wait"
          /\ \A v \in Worker : v # w => Places'[v] = Places[v]
      BY <2>3, Standing DEF Awaiting
    <3> HIDE DEF IInv
    <3>3. Consistent(Places', Lists', Append(Woken, w))
      BY <1>1, <1>3, <3>1, <3>2, AwaitsSettled
    <3> QED
      BY <2>3, <3>3 DEF OneWayBack
  <2>6. PermitsKept'
    BY <1>1, <2>3, <2>5, PermitsUntouched
  <2>7. GroupCounts'
    BY <2>1, <2>3, GroupUntouched
  <2>8. NobodyWaitsInVain' /\ DeliveredInOrder'
    <3>1. /\ ready' = ready \o <<Wake(w, 0)>>
          /\ \A i \in 1 .. Len(<<Wake(w, 0)>>) : <<Wake(w, 0)>>[i].value = 0
      BY <2>1, <2>2 DEF Awaits
    <3> QED
      BY <1>1, <2>2, <3>1, ChannelUntouched
  <2> QED
    BY <2>3, <2>4, <2>5, <2>6, <2>7, <2>8
<1>5. CASE group.count # 0
  <2>1. Awaits(w, "wait", <<>>) /\ group' = [group EXCEPT !.waiting = Append(@, w)]
    BY <1>5 DEF wait
  <2>2. <<>> \in Seq(Outcome) /\ ready \o <<>> = ready /\ Who(ready \o <<>>) = Woken
    BY Settling
  <2>3. /\ worker' \in WorkerType /\ running' \in Seq(Worker)
        /\ ready' \in Seq(Outcome) /\ Woken' = Woken
        /\ OnStack'
        /\ worker[w].at = "runs" /\ worker'[w].at = "wait"
        /\ \A v \in Worker : v # w => worker'[v].at = worker[v].at
        /\ \A v \in Worker : worker'[v].holds = worker[v].holds
                             /\ worker'[v].counted = worker[v].counted
    BY <1>1, <2>1, <2>2, Awaited
  <2>4. /\ group' \in [count : Nat, waiting : Seq(Worker)]
        /\ group'.count = group.count /\ group'.waiting = Append(group.waiting, w)
    <3>1. Append(group.waiting, w) \in Seq(Worker)
      BY <1>2
    <3> QED
      BY <1>2, <2>1, <3>1
  <2>5. TypeOK'
    BY <1>1, <2>3, <2>4 DEF TypeOK, WorkerType, WaitGroup
  <2>6. OneWayBack'
    <3>1. /\ Lists'["wait"] = Append(Lists["wait"], w)
          /\ \A p \in Awaiting : p # "wait" => Lists'[p] = Lists[p]
      BY <1>1, <2>4, Standing DEF Awaiting
    <3>2. Places[w] \notin Awaiting /\ Places'[w] = "wait"
          /\ \A v \in Worker : v # w => Places'[v] = Places[v]
      BY <2>3, Standing DEF Awaiting
    <3> HIDE DEF IInv
    <3>3. Consistent(Places', Lists', Woken)
      BY <1>1, <1>3, <3>1, <3>2, Enters, SMTT(40)
    <3> QED
      BY <2>3, <3>3 DEF OneWayBack
  <2>7. PermitsKept'
    BY <1>1, <2>3, <2>6, PermitsUntouched
  <2>8. GroupCounts'
    <3>1. Counted' = Counted
      BY <2>3 DEF Counted
    <3> QED
      BY <1>2, <1>5, <2>4, <3>1 DEF GroupCounts
  <2>9. NobodyWaitsInVain' /\ DeliveredInOrder'
    <3>1. ready' = ready \o <<>> /\ \A i \in 1 .. Len(<<>>) : <<>>[i].value = 0
      BY <2>1 DEF Awaits
    <3> QED
      BY <1>1, <2>2, <3>1, ChannelUntouched
  <2> QED
    BY <2>3, <2>5, <2>6, <2>7, <2>8, <2>9
<1> QED
  BY <1>4, <1>5

LEMMA StartKeepsIInv ==
  ASSUME IInv, NEW w \in Worker, start(w)
  PROVE  IInv'
<1> USE DEF IInv
<1>1. /\ worker[w].at = "idle"
      /\ worker' = [worker EXCEPT ![w].at = "runs"] /\ running' = Append(running, w)
      /\ UNCHANGED <<semaphore, group, channel, ready, sent, refused, got, askers>>
  BY DEF start, history, At
<1>2. /\ worker' \in WorkerType /\ worker'[w].at = "runs"
      /\ \A v \in Worker : v # w => worker'[v].at = worker[v].at
      /\ \A v \in Worker : worker'[v].holds = worker[v].holds
                           /\ worker'[v].counted = worker[v].counted
  BY <1>1 DEF TypeOK, WorkerType
<1>3. running' \in Seq(Worker)
  BY <1>1 DEF TypeOK
<1>4. TypeOK'
  BY <1>1, <1>2, <1>3 DEF TypeOK, WorkerType
<1>5. OnStack'
  <2>1. /\ running \in Seq(Worker) /\ NoneTwice(running) /\ ~In(running, w)
        /\ running' = Append(running, w)
    BY <1>1 DEF TypeOK, OnStack
  <2>2. /\ NoneTwice(running')
        /\ \A v \in Worker : In(running', v) <=> (In(running, v) \/ v = w)
    BY <2>1, InAppend
  <2> QED
    BY <1>1, <1>2, <2>2 DEF OnStack
<1>6. OneWayBack'
  <2>1. \A p \in Awaiting : Lists'[p] = Lists[p]
    BY <1>1, LinesUntouched
  <2>2. /\ Places[w] \notin Awaiting /\ Places'[w] \notin Awaiting \ {"sleep"}
        /\ \A v \in Worker : v # w => Places'[v] = Places[v]
    BY <1>1, <1>2, Standing DEF Awaiting
  <2>3. Consistent(Places, Lists, Woken)
    BY DEF OneWayBack
  <2> HIDE DEF IInv
  <2>4. Consistent(Places', Lists', Woken)
    BY <2>1, <2>2, <2>3, StandsNowhere
  <2> QED
    BY <1>1, <2>4 DEF OneWayBack, Woken
<1>7. PermitsKept'
  BY <1>1, <1>2, <1>6, PermitsUntouched
<1>8. GroupCounts'
  BY <1>1, <1>2, GroupUntouched
<1>9. NobodyWaitsInVain' /\ DeliveredInOrder'
  <2>1. /\ <<>> \in Seq(Outcome) /\ ready \o <<>> = ready
        /\ \A i \in 1 .. Len(<<>>) : <<>>[i].value = 0
    BY Settling
  <2> QED
    BY <1>1, <2>1, ChannelUntouched
<1> QED
  BY <1>4, <1>5, <1>6, <1>7, <1>8, <1>9

(* An await that settles nothing and stands in no line: a sleep or an end. *)
LEMMA LeavingKeepsIInv ==
  ASSUME IInv, NEW w \in Worker, Runs(w), NEW place \in {"sleep", "idle"},
         Awaits(w, place, <<>>),
         UNCHANGED <<semaphore, group, channel, sent, refused, got, askers>>
  PROVE  IInv'
<1> USE DEF IInv
<1>1. place \in Awaiting \cup {"idle"} /\ place # "acquire" /\ place # "runs"
  BY DEF Awaiting
<1>2. <<>> \in Seq(Outcome) /\ ready \o <<>> = ready /\ Who(ready \o <<>>) = Woken
  BY Settling
<1>3. /\ worker' \in WorkerType /\ running' \in Seq(Worker)
      /\ ready' \in Seq(Outcome) /\ Woken' = Woken
      /\ OnStack'
      /\ worker[w].at = "runs" /\ worker'[w].at = place
      /\ \A v \in Worker : v # w => worker'[v].at = worker[v].at
      /\ \A v \in Worker : worker'[v].holds = worker[v].holds
                           /\ worker'[v].counted = worker[v].counted
  <2> DEFINE none == <<>>
  <2>1. /\ TypeOK /\ OnStack /\ none \in Seq(Outcome) /\ Awaits(w, place, none)
        /\ Who(ready \o none) = Woken
    BY <1>2
  <2>2. place = "acquire" => ~worker[w].holds
    BY <1>1
  <2> HIDE DEF none, IInv
  <2>3. /\ worker' \in WorkerType /\ running' \in Seq(Worker)
        /\ ready' \in Seq(Outcome) /\ Woken' = Who(ready \o none)
        /\ OnStack'
        /\ worker[w].at = "runs" /\ worker'[w].at = place
        /\ \A v \in Worker : v # w => worker'[v].at = worker[v].at
        /\ \A v \in Worker : worker'[v].holds = worker[v].holds
                             /\ worker'[v].counted = worker[v].counted
    BY <1>1, <2>1, <2>2, Awaited, ZenonT(40)
  <2> QED
    BY <2>1, <2>3
<1>4. TypeOK'
  BY <1>3 DEF TypeOK, WorkerType
<1>5. OneWayBack'
  <2>1. \A p \in Awaiting : Lists'[p] = Lists[p]
    BY LinesUntouched
  <2>2. /\ Places[w] \notin Awaiting /\ Places'[w] \notin Awaiting \ {"sleep"}
        /\ \A v \in Worker : v # w => Places'[v] = Places[v]
    BY <1>3, Standing DEF Awaiting
  <2>3. Consistent(Places, Lists, Woken)
    BY DEF OneWayBack
  <2> HIDE DEF IInv
  <2>4. Consistent(Places', Lists', Woken)
    BY <2>1, <2>2, <2>3, StandsNowhere
  <2> QED
    BY <1>3, <2>4 DEF OneWayBack
<1>6. PermitsKept'
  BY <1>1, <1>3, <1>5, PermitsUntouched
<1>7. GroupCounts'
  BY <1>3, GroupUntouched
<1>8. NobodyWaitsInVain' /\ DeliveredInOrder'
  <2>1. ready' = ready \o <<>> /\ \A i \in 1 .. Len(<<>>) : <<>>[i].value = 0
    BY DEF Awaits
  <2> QED
    BY <1>2, <2>1, ChannelUntouched
<1> QED
  BY <1>3, <1>4, <1>5, <1>6, <1>7, <1>8

LEMMA WakeupKeepsIInv ==
  ASSUME IInv, NEW w \in Worker, wakeup(w)
  PROVE  IInv'
<1> USE DEF IInv
<1>1. /\ running = <<>> /\ ready = <<>> /\ worker[w].at = "sleep"
      /\ ready' = <<Wake(w, 0)>>
      /\ UNCHANGED <<semaphore, group, channel, running, worker, sent, refused, got, askers>>
  BY DEF wakeup, history
<1>2. /\ <<Wake(w, 0)>> \in Seq(Outcome) /\ Wake(w, 0).value = 0
      /\ Who(ready \o <<Wake(w, 0)>>) = Append(Woken, w)
      /\ ready \o <<Wake(w, 0)>> = Append(ready, Wake(w, 0))
  BY Settling
<1>3. ready' = ready \o <<Wake(w, 0)>>
  BY <1>1, <1>2
<1>4. TypeOK' /\ OnStack'
  BY <1>1, <1>2 DEF TypeOK, OnStack
<1>5. OneWayBack'
  <2>1. \A p \in Awaiting : Lists'[p] = Lists[p]
    BY <1>1, LinesUntouched
  <2>2. Woken' = Append(Woken, w) /\ Woken \in Seq(Worker)
    BY <1>2, <1>3, Lined DEF Woken
  <2>3. ~In(Woken, w)
    BY <1>1 DEF Woken, Who, In
  <2>4. /\ \A v \in Worker : In(Woken', v) <=> (In(Woken, v) \/ v = w)
        /\ NoneTwice(Woken')
    BY <2>2, <2>3, InAppend DEF OneWayBack, Consistent
  <2>5. /\ \A v \in Worker : Places'[v] = Places[v]
        /\ Places[w] = "sleep" /\ "sleep" \in Awaiting
        /\ Consistent(Places, Lists, Woken)
    BY <1>1, Standing DEF OneWayBack, Awaiting
  <2> HIDE DEF IInv
  <2>6. \A v \in Worker : In(Woken', v) => Places'[v] \in Awaiting
    BY <2>4, <2>5 DEF Consistent
  <2>7. ASSUME NEW p \in Awaiting
        PROVE  /\ NoneTwice(Lists'[p])
               /\ \A v \in Worker :
                    /\ In(Lists'[p], v) => Places'[v] = p /\ ~In(Woken', v)
                    /\ Places'[v] = p /\ p # "sleep" => In(Lists'[p], v) \/ In(Woken', v)
    <3>1. ~In(Lists[p], w)
      BY <2>5, Standing DEF Consistent, In
    <3> QED
      BY <2>1, <2>4, <2>5, <3>1 DEF Consistent
  <2> QED
    BY <2>4, <2>6, <2>7 DEF OneWayBack, Consistent
<1>6. PermitsKept'
  BY <1>1, <1>5, PermitsUntouched
<1>7. GroupCounts'
  BY <1>1, GroupUntouched
<1>8. NobodyWaitsInVain' /\ DeliveredInOrder'
  <2>1. \A i \in 1 .. Len(<<Wake(w, 0)>>) : <<Wake(w, 0)>>[i].value = 0
    BY <1>2
  <2> QED
    BY <1>1, <1>2, <1>3, <2>1, ChannelUntouched
<1> QED
  BY <1>4, <1>5, <1>6, <1>7, <1>8

LEMMA ResumeKeepsIInv ==
  ASSUME IInv, resume
  PROVE  IInv'
<1> USE DEF IInv
<1> DEFINE w == Head(ready).who
<1> DEFINE asked == worker[w].at = "acquire"
<1>1. /\ running = <<>> /\ ready # <<>>
      /\ ready' = Tail(ready) /\ running' = <<w>>
      /\ worker' = [worker EXCEPT ![w].at = "runs", ![w].holds = @ \/ asked]
      /\ got' = IF Head(ready).value > 0 THEN got + 1 ELSE got
      /\ UNCHANGED <<semaphore, group, channel, sent, refused>>
  BY DEF resume
<1>2. askers' \in Seq(Worker)
  <2>1. CASE askers' = askers
    BY <2>1 DEF TypeOK
  <2>2. ASSUME NEW i \in 1 .. Len(askers),
               askers' = SubSeq(askers, 1, i - 1) \o SubSeq(askers, i + 1, Len(askers))
        PROVE  askers' \in Seq(Worker)
    <3>1. /\ askers \in Seq(Worker) /\ Len(askers) \in Int
          /\ 1 \in Int /\ i - 1 \in Int /\ i + 1 \in Int
          /\ \A j \in 1 .. i - 1 : askers[j] \in Worker
          /\ \A j \in i + 1 .. Len(askers) : askers[j] \in Worker
      BY DEF TypeOK
    <3>2. SubSeq(askers, 1, i - 1) \in Seq(Worker)
      BY <3>1, SubSeqProperties
    <3>3. SubSeq(askers, i + 1, Len(askers)) \in Seq(Worker)
      BY <3>1, SubSeqProperties
    <3> QED
      BY <2>2, <3>2, <3>3, Concatenating
  <2> QED
    BY <2>1, <2>2 DEF resume
<1>3. /\ ready \in Seq(Outcome) /\ Tail(ready) \in Seq(Outcome)
      /\ Head(ready) \in Outcome /\ w \in Worker
      /\ Woken' = Tail(Woken) /\ Woken # <<>> /\ Head(Woken) = w
      /\ Woken \in Seq(Worker)
  <2>1. ready \in Seq(Outcome) /\ \A r \in Outcome : r.who \in Worker
    BY DEF TypeOK, Outcome
  <2>2. Tail(ready) \in Seq(Outcome) /\ Head(ready) \in Outcome
    BY <1>1, <2>1, Beheading
  <2>3. /\ Who(Tail(ready)) = Tail(Who(ready)) /\ Who(ready) # <<>>
        /\ Head(Who(ready)) = Head(ready).who
    BY <1>1, <2>1, WhoOfTail
  <2> QED
    BY <1>1, <2>1, <2>2, <2>3, Lined DEF Woken
<1> HIDE DEF w, asked
<1>4. /\ worker' \in WorkerType /\ worker'[w].at = "runs"
      /\ \A v \in Worker : v # w => worker'[v].at = worker[v].at
      /\ \A v \in Worker : v # w => worker'[v].holds = worker[v].holds
      /\ worker'[w].holds <=> worker[w].holds \/ asked
      /\ \A v \in Worker : worker'[v].counted = worker[v].counted
  <2>1. worker \in WorkerType
    BY DEF TypeOK, WorkerType
  <2>2. asked \in BOOLEAN /\ worker[w].holds \in BOOLEAN
    BY <1>3, <2>1 DEF WorkerType, asked
  <2> HIDE DEF IInv
  <2>3. worker' = [worker EXCEPT ![w] = [worker[w] EXCEPT !.at = "runs", !.holds = @ \/ asked]]
    BY <1>1, <1>3, <2>1 DEF WorkerType
  <2>4. worker[w] \in [at : {"idle", "runs"} \cup Awaiting, holds : BOOLEAN, counted : BOOLEAN]
    BY <1>3, <2>1 DEF WorkerType
  <2> DEFINE now == [worker[w] EXCEPT !.at = "runs", !.holds = @ \/ asked]
  <2>5. /\ now \in [at : {"idle", "runs"} \cup Awaiting, holds : BOOLEAN, counted : BOOLEAN]
        /\ now.at = "runs" /\ now.counted = worker[w].counted
        /\ now.holds <=> worker[w].holds \/ asked
    BY <2>2, <2>4
  <2>6. worker' = [worker EXCEPT ![w] = now]
    BY <2>3
  <2> HIDE DEF now
  <2> QED
    BY <1>3, <2>1, <2>5, <2>6 DEF WorkerType
<1>5. TypeOK'
  <2>1. got' \in Nat
    BY <1>1 DEF TypeOK
  <2> QED
    BY <1>1, <1>2, <1>3, <1>4, <2>1 DEF TypeOK, WorkerType
<1>6. OnStack'
  <2>1. \A v \in Worker : worker[v].at # "runs"
    BY <1>1 DEF OnStack, In
  <2>2. /\ NoneTwice(running')
        /\ \A v \in Worker : In(running', v) <=> v = w
    BY <1>1, <1>3 DEF NoneTwice, In
  <2>3. \A v \in Worker : worker'[v].at = "acquire" => ~worker'[v].holds
    BY <1>4 DEF OnStack
  <2> QED
    BY <1>4, <2>1, <2>2, <2>3 DEF OnStack
<1>7. OneWayBack' /\ worker[w].at \in Awaiting /\ In(Woken, w)
  <2>1. \A p \in Awaiting : Lists'[p] = Lists[p]
    BY <1>1, LinesUntouched
  <2>2. /\ Places'[w] \notin Awaiting
        /\ \A v \in Worker : v # w => Places'[v] = Places[v]
        /\ Places[w] = worker[w].at
        /\ Consistent(Places, Lists, Woken)
    BY <1>3, <1>4, Standing DEF Awaiting, OneWayBack
  <2> HIDE DEF IInv
  <2>3. /\ Consistent(Places', Lists', Tail(Woken))
        /\ Places[w] \in Awaiting /\ In(Woken, w)
    <3>1. w \in Worker /\ Woken \in Seq(Worker) /\ Woken # <<>> /\ w = Head(Woken)
      BY <1>3
    <3>2. /\ Consistent(Places', Lists, Tail(Woken))
          /\ Places[w] \in Awaiting /\ In(Woken, w)
      BY <2>2, <3>1, Resumes
    <3> QED
      BY <2>1, <3>2 DEF Consistent
  <2> QED
    BY <1>3, <2>2, <2>3 DEF OneWayBack
<1>8. PermitsKept'
  <2>1. ~In(semaphore.waiting, w)
    <3>1. ~In(Lists["acquire"], w)
      BY <1>3, <1>7 DEF OneWayBack, Consistent, Awaiting
    <3> QED
      BY <3>1, Standing
  <2>2. \A v \in Worker : v \in Holders' <=> v \in Holders
    BY <1>1, <1>4, <1>7, <2>1, HoldersAre DEF asked
  <2>3. Holders' = Holders
    <3>1. Holders \subseteq Worker /\ Holders' \subseteq Worker
      BY DEF Holders, Granted
    <3> QED
      BY <2>2, <3>1
  <2> QED
    BY <1>1, <2>3 DEF PermitsKept
<1>9. GroupCounts'
  BY <1>1, <1>4, GroupUntouched
<1>10. NobodyWaitsInVain'
  BY <1>1 DEF NobodyWaitsInVain, HasRoom
<1>11. DeliveredInOrder'
  <2>1. Taken' = Taken /\ Taken \in Int /\ got \in Nat
    BY <1>1 DEF Taken, TypeOK, Channel
  <2>2. InOrder'
    BY <1>1, <2>1 DEF DeliveredInOrder, InOrder
  <2>3. Transit(got, Taken, ready)
    BY DEF DeliveredInOrder, InTransit
  <2> HIDE DEF IInv
  <2>4. Transit(IF Head(ready).value > 0 THEN got + 1 ELSE got, Taken, Tail(ready))
    BY <1>1, <1>3, <2>1, <2>3, ArrivesInTurn
  <2> QED
    BY <1>1, <2>1, <2>2, <2>4 DEF DeliveredInOrder, InTransit
<1> QED
  BY <1>5, <1>6, <1>7, <1>8, <1>9, <1>10, <1>11

LEMMA CloseKeepsIInv ==
  ASSUME IInv, NEW w \in Worker, close(w)
  PROVE  IInv'
<1> USE DEF IInv
<1> DEFINE receivers == WakeAll(channel.receivers)
<1> DEFINE senders == WakeAll(Who(channel.senders))
<1>1. /\ Runs(w) /\ ~channel.closed
      /\ channel' = [channel EXCEPT !.closed = TRUE, !.receivers = <<>>, !.senders = <<>>]
      /\ GoesOn(receivers \o senders)
      /\ refused' = Len(channel.senders)
      /\ UNCHANGED <<semaphore, group, worker, sent, got, askers>>
  BY DEF close, Closed
<1>2. channel \in [capacity : Nat, queue : Seq(Nat), senders : Seq(Sender),
                   receivers : Seq(Worker), closed : BOOLEAN]
  BY DEF TypeOK, Channel
<1>3. /\ channel' \in [capacity : Nat, queue : Seq(Nat), senders : Seq(Sender),
                       receivers : Seq(Worker), closed : BOOLEAN]
      /\ channel'.queue = channel.queue /\ channel'.capacity = channel.capacity
      /\ channel'.receivers = <<>> /\ channel'.senders = <<>> /\ channel'.closed
  <2>1. <<>> \in Seq(Sender) /\ <<>> \in Seq(Worker) /\ TRUE \in BOOLEAN
    OBVIOUS
  <2> HIDE DEF IInv
  <2> QED
    BY <1>1, <1>2, <2>1
<1>4. Who(channel.senders) \in Seq(Worker) /\ channel.receivers \in Seq(Worker)
  <2>1. \A r \in Sender : r.who \in Worker
    BY DEF Sender
  <2> QED
    BY <1>2, <2>1, WhoIs
<1>5. /\ receivers \in Seq(Outcome) /\ Who(receivers) = channel.receivers
      /\ \A i \in 1 .. Len(receivers) : receivers[i].value = 0
      /\ senders \in Seq(Outcome) /\ Who(senders) = Who(channel.senders)
      /\ \A i \in 1 .. Len(senders) : senders[i].value = 0
  BY <1>4, TellingAll
<1> HIDE DEF receivers, senders
<1>6. /\ receivers \o senders \in Seq(Outcome)
      /\ \A i \in 1 .. Len(receivers \o senders) : (receivers \o senders)[i].value = 0
  <2>1. /\ receivers \o senders \in Seq(Outcome)
        /\ Len(receivers \o senders) = Len(receivers) + Len(senders)
        /\ \A i \in 1 .. Len(receivers) : (receivers \o senders)[i] = receivers[i]
        /\ \A i \in Len(receivers) + 1 .. Len(receivers) + Len(senders) :
             (receivers \o senders)[i] = senders[i - Len(receivers)]
        /\ Len(receivers) \in Nat /\ Len(senders) \in Nat
    BY <1>5, Concatenating
  <2>2. \A i \in 1 .. Len(receivers) + Len(senders) :
          i \in 1 .. Len(receivers)
            \/ (i \in Len(receivers) + 1 .. Len(receivers) + Len(senders)
                /\ i - Len(receivers) \in 1 .. Len(senders))
    BY <2>1
  <2> HIDE DEF IInv
  <2> QED
    BY <1>5, <2>1, <2>2
<1>7. Who(ready \o (receivers \o senders)) =
        (Woken \o channel.receivers) \o Who(channel.senders)
  <2>1. ready \in Seq(Outcome) /\ \A r \in Outcome : r.who \in Worker
    BY DEF TypeOK, Outcome
  <2>2. Who(ready \o (receivers \o senders)) = Who(ready) \o Who(receivers \o senders)
    BY <1>6, <2>1, WhoOfConcat
  <2>3. Who(receivers \o senders) = channel.receivers \o Who(channel.senders)
    <3> HIDE DEF IInv
    <3>1. Who(receivers \o senders) = Who(receivers) \o Who(senders)
      BY <1>5, <2>1, WhoOfConcat
    <3> QED
      BY <1>5, <3>1
  <2>4. Woken \in Seq(Worker)
    BY Lined
  <2>5. Woken \o (channel.receivers \o Who(channel.senders)) =
          (Woken \o channel.receivers) \o Who(channel.senders)
    <3> DEFINE p == Who(channel.senders)
    <3> DEFINE q == channel.receivers
    <3> DEFINE r == Woken
    <3>1. p \in Seq(Worker) /\ q \in Seq(Worker) /\ r \in Seq(Worker)
      BY <1>4, <2>4
    <3> HIDE DEF IInv, p, q, r
    <3>2. r \o (q \o p) = (r \o q) \o p
      BY <3>1, ConcatAssociative, SMTT(40)
    <3> QED
      BY <3>2 DEF p, q, r
  <2> QED
    BY <2>2, <2>3, <2>5 DEF Woken
<1>8. /\ running' \in Seq(Worker) /\ ready' \in Seq(Outcome)
      /\ Woken' = (Woken \o channel.receivers) \o Who(channel.senders)
      /\ OnStack'
  <2>1. \A v \in Worker : worker'[v].at = worker[v].at /\ (worker'[v].holds => worker[v].holds)
    BY <1>1
  <2> QED
    BY <1>1, <1>6, <1>7, <2>1, WentOn
<1>9. TypeOK'
  <2>1. refused' \in Nat
    BY <1>1, <1>2
  <2> QED
    BY <1>1, <1>3, <1>8, <2>1 DEF TypeOK, Channel
<1>10. OneWayBack'
  <2> DEFINE half == [Lists EXCEPT !["receive"] = <<>>]
  <2>1. /\ Woken \in Seq(Worker) /\ Woken \o channel.receivers \in Seq(Worker)
        /\ \A p \in Awaiting : Lists[p] \in Seq(Worker)
    BY <1>4, Lined, Concatenating
  <2>2. /\ Consistent(Places, Lists, Woken)
        /\ Lists["receive"] = channel.receivers /\ Lists["send"] = Who(channel.senders)
        /\ "receive" \in Awaiting /\ "send" \in Awaiting
    BY Standing DEF OneWayBack, Awaiting
  <2>3. /\ half["receive"] = <<>>
        /\ \A p \in Awaiting : p # "receive" => half[p] = Lists[p]
    BY DEF Lists, Awaiting
  <2>4. /\ Lists'["send"] = <<>>
        /\ \A p \in Awaiting : p # "send" => Lists'[p] = half[p]
    <3>1. Lists'["send"] = <<>>
      BY <1>3, Standing DEF Who
    <3> QED
      BY <1>1, <1>3, <2>3, <3>1, Standing DEF Awaiting
  <2> HIDE DEF IInv, half
  <2>5. Consistent(Places, half, Woken \o Lists["receive"])
    BY <2>1, <2>2, <2>3, WakesEveryone
  <2>6. /\ \A p \in Awaiting : half[p] \in Seq(Worker)
        /\ half["send"] = Who(channel.senders)
    <3>1. <<>> \in Seq(Worker) /\ "send" # "receive"
      OBVIOUS
    <3>2. \A p \in Awaiting : half[p] \in Seq(Worker)
      BY <2>1, <2>3, <3>1
    <3> QED
      BY <2>2, <2>3, <3>1, <3>2
  <2>7. Consistent(Places, half, Woken \o channel.receivers)
    BY <2>2, <2>5
  <2>8. Consistent(Places, Lists', (Woken \o channel.receivers) \o half["send"])
    BY <2>1, <2>2, <2>4, <2>6, <2>7, WakesEveryone
  <2>9. \A v \in Worker : Places'[v] = Places[v]
    BY <1>1, Standing
  <2>10. Consistent(Places', Lists', (Woken \o channel.receivers) \o Who(channel.senders))
    BY <2>6, <2>8, <2>9 DEF Consistent
  <2> QED
    BY <1>8, <2>10 DEF OneWayBack
<1>11. PermitsKept'
  BY <1>1, <1>10, PermitsUntouched
<1>12. GroupCounts'
  BY <1>1, GroupUntouched
<1>13. NobodyWaitsInVain'
  BY <1>3 DEF NobodyWaitsInVain, HasRoom
<1>14. DeliveredInOrder'
  <2>1. refused = 0
    BY <1>1 DEF DeliveredInOrder, InOrder
  <2>2. Len(channel'.senders) = 0 /\ Len(channel.senders) \in Nat /\ Len(channel.queue) \in Nat
    BY <1>2, <1>3
  <2>3. Taken' = Taken /\ Taken \in Int /\ got \in Nat /\ ready \in Seq(Outcome)
    BY <1>1, <1>3, <2>1, <2>2 DEF Taken, TypeOK
  <2>4. InOrder'
    BY <1>1, <1>3, <2>2, <2>3 DEF DeliveredInOrder, InOrder
  <2>5. Transit(got, Taken, ready)
    BY DEF DeliveredInOrder, InTransit
  <2>6. ready' = ready \o (receivers \o senders)
    BY <1>1 DEF GoesOn
  <2> HIDE DEF IInv
  <2>7. Transit(got, Taken, ready \o (receivers \o senders))
    BY <1>6, <2>3, <2>5, CarriesNothing
  <2> QED
    BY <1>1, <2>3, <2>4, <2>6, <2>7 DEF DeliveredInOrder, InTransit
<1> QED
  BY <1>8, <1>9, <1>10, <1>11, <1>12, <1>13, <1>14

-----------------------------------------------------------------------------
(* The channel's own steps.                                                *)

ChannelType ==
  [capacity : Nat, queue : Seq(Nat), senders : Seq(Sender),
   receivers : Seq(Worker), closed : BOOLEAN]

(* An await in a channel's line or on its way back leaves the semaphore    *)
(* and the group alone.                                                    *)
LEMMA OtherPrimitives ==
  ASSUME IInv, OneWayBack', UNCHANGED <<semaphore, group>>,
         \A v \in Worker : worker'[v].holds = worker[v].holds
                           /\ worker'[v].counted = worker[v].counted
                           /\ (worker'[v].at = "acquire" <=> worker[v].at = "acquire")
  PROVE  PermitsKept' /\ GroupCounts'
<1>1. PermitsKept'
  BY PermitsUntouched DEF IInv
<1>2. GroupCounts'
  BY GroupUntouched DEF IInv
<1> QED
  BY <1>1, <1>2

LEMMA SendKeepsIInv ==
  ASSUME IInv, NEW w \in Worker, send(w)
  PROVE  IInv'
<1>0. /\ TypeOK /\ OnStack /\ OneWayBack /\ NobodyWaitsInVain /\ InOrder
      /\ Transit(got, Taken, ready)
  BY DEF IInv, DeliveredInOrder, InTransit
<1>1. /\ Runs(w) /\ ~channel.closed /\ sent < MaxSends /\ sent' = sent + 1
      /\ UNCHANGED <<semaphore, group, refused, got, askers>>
      /\ "send" \in Awaiting /\ "send" \in Awaiting \cup {"idle"}
  BY DEF send, Awaiting
<1>2. channel \in ChannelType /\ ready \in Seq(Outcome) /\ got \in Nat /\ sent \in Nat
      /\ sent' \in 0 .. MaxSends /\ sent + 1 \in Nat
  BY <1>0, <1>1, SyncAssumption DEF TypeOK, Channel, ChannelType
<1>3. /\ Woken \in Seq(Worker) /\ \A p \in Awaiting : Lists[p] \in Seq(Worker)
      /\ Consistent(Places, Lists, Woken)
  BY <1>0, Lined DEF OneWayBack
<1>4. refused = 0 /\ Taken = sent - Len(channel.queue) - Len(channel.senders)
      /\ Taken \in Int /\ Len(channel.queue) \in Nat /\ Len(channel.senders) \in Nat
  <2>1. refused = 0
    BY <1>0, <1>1 DEF InOrder
  <2>2. Len(channel.queue) \in Nat /\ Len(channel.senders) \in Nat
    BY <1>2 DEF ChannelType
  <2> QED
    BY <1>2, <2>1, <2>2 DEF Taken
<1>5. CASE /\ channel.receivers # <<>>
           /\ channel' = [channel EXCEPT !.receivers = Tail(@)]
           /\ Awaits(w, "send", <<Wake(Head(channel.receivers), sent + 1), Wake(w, 0)>>)
  <2> DEFINE h == Head(channel.receivers)
  <2> DEFINE settled == <<Wake(h, sent + 1), Wake(w, 0)>>
  <2>1. /\ channel' \in ChannelType /\ channel'.receivers = Tail(channel.receivers)
        /\ channel'.queue = channel.queue /\ channel'.senders = channel.senders
        /\ channel'.capacity = channel.capacity /\ channel'.closed = channel.closed
        /\ h \in Worker
    <3>1. Tail(channel.receivers) \in Seq(Worker) /\ h \in Worker
      BY <1>2, <1>5 DEF ChannelType
    <3> QED
      BY <1>2, <1>5, <3>1 DEF ChannelType
  <2>2. channel.queue = <<>> /\ channel.senders = <<>>
    BY <1>0, <1>5 DEF NobodyWaitsInVain
  <2>3. Lists["receive"] = channel.receivers /\ "receive" \in Awaiting
    BY Standing DEF Awaiting
  <2> HIDE DEF h
  <2>4. /\ Wake(h, sent + 1) \in Outcome /\ Wake(h, sent + 1).value = sent + 1
        /\ Wake(w, 0) \in Outcome /\ Wake(w, 0).value = 0
        /\ settled \in Seq(Outcome)
        /\ ready \o settled = Append(Append(ready, Wake(h, sent + 1)), Wake(w, 0))
        /\ Append(ready, Wake(h, sent + 1)) \in Seq(Outcome)
        /\ Append(Append(ready, Wake(h, sent + 1)), Wake(w, 0)) =
             Append(ready, Wake(h, sent + 1)) \o <<Wake(w, 0)>>
        /\ Who(ready \o settled) = Append(Append(Woken, h), w)
    <3>1. /\ Wake(h, sent + 1) \in Outcome /\ Wake(h, sent + 1).value = sent + 1
          /\ Wake(w, 0) \in Outcome /\ Wake(w, 0).value = 0
          /\ settled \in Seq(Outcome)
          /\ ready \o settled = Append(Append(ready, Wake(h, sent + 1)), Wake(w, 0))
          /\ Who(ready \o settled) = Append(Append(Woken, h), w)
      <4>1. Wake(w, 0) \in Outcome /\ Wake(w, 0).value = 0
        BY <1>0, Settling
      <4>2. h \in Worker /\ sent + 1 \in Nat /\ w \in Worker /\ 0 \in Nat /\ TypeOK
        BY <1>0, <1>2, <2>1
      <4>3. /\ Wake(h, sent + 1) \in Outcome /\ Wake(h, sent + 1).value = sent + 1
            /\ settled \in Seq(Outcome)
        BY <4>2, Settling
      <4>4. ready \o settled = Append(Append(ready, Wake(h, sent + 1)), Wake(w, 0))
        BY <4>2, Settling
      <4>5. Who(ready \o settled) = Append(Append(Woken, h), w)
        <5> DEFINE p == Wake(h, sent + 1)
        <5> DEFINE q == Wake(w, 0)
        <5>1. /\ p \in Outcome /\ p.who = h /\ q \in Outcome /\ q.who = w
              /\ Append(ready, p) \in Seq(Outcome)
          <6>1. p \in Outcome /\ p.who = h /\ q \in Outcome /\ q.who = w
            BY <4>2 DEF Wake, Outcome
          <6> QED
            BY <1>2, <6>1, Appending
        <5>2. ready \o settled = Append(Append(ready, p), q)
          BY <4>4
        <5>3. \A r \in Outcome : r.who \in Worker
          BY DEF Outcome
        <5> HIDE DEF p, q, settled
        <5>4. Who(Append(ready, p)) = Append(Woken, h)
          BY <1>2, <5>1, <5>3, WhoOfAppend DEF Woken
        <5>5. Who(Append(Append(ready, p), q)) = Append(Append(Woken, h), w)
          BY <5>1, <5>3, <5>4, WhoOfAppend
        <5> QED
          BY <5>2, <5>5
      <4> QED
        BY <4>1, <4>3, <4>4, <4>5
    <3>2. Append(ready, Wake(h, sent + 1)) \in Seq(Outcome)
      BY <1>2, <3>1, Appending
    <3>3. Append(Append(ready, Wake(h, sent + 1)), Wake(w, 0)) =
            Append(ready, Wake(h, sent + 1)) \o <<Wake(w, 0)>>
      BY <3>1, <3>2, AppendedIsConcat
    <3> QED
      BY <3>1, <3>2, <3>3
  <2> HIDE DEF settled
  <2>5. Awaits(w, "send", settled)
    BY <1>5 DEF settled, h
  <2>6. /\ worker' \in WorkerType /\ running' \in Seq(Worker)
        /\ ready' \in Seq(Outcome) /\ Woken' = Append(Append(Woken, h), w)
        /\ OnStack'
        /\ worker[w].at = "runs" /\ worker'[w].at = "send"
        /\ \A v \in Worker : v # w => worker'[v].at = worker[v].at
        /\ \A v \in Worker : worker'[v].holds = worker[v].holds
                             /\ worker'[v].counted = worker[v].counted
    BY <1>0, <1>1, <2>4, <2>5, Awaited
  <2>7. TypeOK'
    BY <1>0, <1>1, <1>2, <2>1, <2>6 DEF TypeOK, WorkerType, ChannelType, Channel
  <2>8. OneWayBack'
    <3>1. /\ Lists'["receive"] = Tail(Lists["receive"])
          /\ \A p \in Awaiting : p # "receive" => Lists'[p] = Lists[p]
      BY <1>1, <2>1, Standing DEF Awaiting
    <3>2. Consistent(Places, Lists', Append(Woken, h))
      <4>1. Consistent(Places, Lists', Append(Woken, Head(Lists["receive"])))
        BY <1>3, <1>5, <2>3, <3>1, WakesFirst
      <4> QED
        BY <2>3, <4>1 DEF h
    <3>3. Append(Woken, h) \in Seq(Worker)
      BY <1>3, <2>1, Appending
    <3>4. /\ Places[w] \notin Awaiting /\ Places'[w] = "send"
          /\ \A v \in Worker : v # w => Places'[v] = Places[v]
      BY <2>6, Standing DEF Awaiting
    <3>5. Consistent(Places', Lists', Append(Append(Woken, h), w))
      BY <1>1, <3>2, <3>3, <3>4, AwaitsSettled
    <3> QED
      BY <2>6, <3>5 DEF OneWayBack
  <2>9. PermitsKept' /\ GroupCounts'
    BY <1>1, <2>6, <2>8, OtherPrimitives
  <2>10. NobodyWaitsInVain'
    BY <1>0, <1>1, <2>1, <2>2, <1>5 DEF NobodyWaitsInVain, HasRoom
  <2>11. DeliveredInOrder'
    <3>1. Taken' = Taken + 1 /\ Taken = sent
      BY <1>1, <1>2, <1>4, <2>1, <2>2 DEF Taken
    <3>2. InOrder'
      BY <1>1, <1>4, <2>1, <2>2 DEF InOrder
    <3>3. Transit(got, Taken + 1, Append(ready, Wake(h, sent + 1)))
      BY <1>0, <1>2, <1>4, <2>4, <3>1, CarriesTheNext
    <3>4. Transit(got, Taken + 1, Append(ready, Wake(h, sent + 1)) \o <<Wake(w, 0)>>)
      <4>1. /\ <<Wake(w, 0)>> \in Seq(Outcome)
            /\ \A i \in 1 .. Len(<<Wake(w, 0)>>) : <<Wake(w, 0)>>[i].value = 0
            /\ Taken + 1 \in Int
        BY <2>4, <1>4
      <4> QED
        BY <1>2, <2>4, <3>3, <4>1, CarriesNothing
    <3>5. ready' = Append(ready, Wake(h, sent + 1)) \o <<Wake(w, 0)>>
      BY <2>4, <2>5 DEF Awaits
    <3> QED
      BY <1>1, <3>1, <3>2, <3>4, <3>5 DEF DeliveredInOrder, InTransit
  <2> QED
    BY <2>6, <2>7, <2>8, <2>9, <2>10, <2>11 DEF IInv
<1>6. CASE /\ channel.receivers = <<>> /\ HasRoom
           /\ channel' = [channel EXCEPT !.queue = Append(@, sent + 1)]
           /\ Awaits(w, "send", <<Wake(w, 0)>>)
  <2>1. /\ channel' \in ChannelType /\ channel'.queue = Append(channel.queue, sent + 1)
        /\ channel'.receivers = channel.receivers /\ channel'.senders = channel.senders
        /\ channel'.capacity = channel.capacity /\ channel'.closed = channel.closed
        /\ channel.queue \in Seq(Nat)
    <3>1. Append(channel.queue, sent + 1) \in Seq(Nat)
      BY <1>2 DEF ChannelType
    <3> QED
      BY <1>2, <1>6, <3>1 DEF ChannelType
  <2>2. channel.senders = <<>>
    BY <1>0, <1>6 DEF NobodyWaitsInVain
  <2>3. /\ <<Wake(w, 0)>> \in Seq(Outcome) /\ Wake(w, 0).value = 0
        /\ Who(ready \o <<Wake(w, 0)>>) = Append(Woken, w)
    BY <1>0, Settling
  <2>4. /\ worker' \in WorkerType /\ running' \in Seq(Worker)
        /\ ready' \in Seq(Outcome) /\ Woken' = Append(Woken, w)
        /\ OnStack'
        /\ worker[w].at = "runs" /\ worker'[w].at = "send"
        /\ \A v \in Worker : v # w => worker'[v].at = worker[v].at
        /\ \A v \in Worker : worker'[v].holds = worker[v].holds
                             /\ worker'[v].counted = worker[v].counted
    BY <1>0, <1>1, <1>6, <2>3, Awaited
  <2>5. TypeOK'
    BY <1>0, <1>1, <1>2, <2>1, <2>4 DEF TypeOK, WorkerType, ChannelType, Channel
  <2>6. OneWayBack'
    <3>1. \A p \in Awaiting : Lists'[p] = Lists[p]
      BY <1>1, <2>1, Standing DEF Awaiting
    <3>2. /\ Places[w] \notin Awaiting /\ Places'[w] = "send"
          /\ \A v \in Worker : v # w => Places'[v] = Places[v]
      BY <2>4, Standing DEF Awaiting
    <3>3. Consistent(Places', Lists', Append(Woken, w))
      BY <1>1, <1>3, <3>1, <3>2, AwaitsSettled
    <3> QED
      BY <2>4, <3>3 DEF OneWayBack
  <2>7. PermitsKept' /\ GroupCounts'
    BY <1>1, <2>4, <2>6, OtherPrimitives
  <2>8. Len(channel'.queue) = Len(channel.queue) + 1
        /\ channel'.queue[Len(channel.queue) + 1] = sent + 1
        /\ \A i \in 1 .. Len(channel.queue) : channel'.queue[i] = channel.queue[i]
    BY <1>2, <2>1, Appending
  <2>9. NobodyWaitsInVain'
    <3>1. channel.capacity \in Nat
      BY <1>2 DEF ChannelType
    <3>2. channel'.capacity # 0 => Len(channel'.queue) <= channel'.capacity
      BY <1>4, <1>6, <2>1, <2>8, <3>1 DEF HasRoom
    <3> QED
      BY <1>6, <2>1, <2>2, <3>2 DEF NobodyWaitsInVain
  <2>10. DeliveredInOrder'
    <3>1. Taken' = Taken
      <4>1. Taken' = (sent + 1) - 0 - (Len(channel.queue) + 1) - Len(channel.senders)
        BY <1>1, <1>4, <2>1, <2>8 DEF Taken
      <4> QED
        BY <1>2, <1>4, <4>1
    <3>2. sent + 1 = Taken + (Len(channel.queue) + 1)
      <4> DEFINE q == Len(channel.queue)
      <4> DEFINE t == Taken
      <4>1. Len(channel.senders) = 0
        BY <2>2
      <4>2. sent \in Nat /\ q \in Nat /\ t = sent - q - 0
        BY <1>2, <1>4, <4>1
      <4> HIDE DEF q, t
      <4>3. sent + 1 = t + (q + 1)
        BY <4>2
      <4> QED
        BY <4>3 DEF q, t
    <3>3. \A i \in 1 .. Len(channel.queue) : channel.queue[i] = Taken + i
      BY <1>0 DEF InOrder
    <3>4. \A i \in 1 .. Len(channel'.queue) : channel'.queue[i] = Taken + i
      <4>1. \A i \in 1 .. Len(channel.queue) + 1 :
              i \in 1 .. Len(channel.queue) \/ i = Len(channel.queue) + 1
        BY <1>4
      <4> QED
        BY <2>8, <3>2, <3>3, <4>1
    <3>5. InOrder'
      BY <1>1, <1>4, <2>1, <2>2, <3>1, <3>4 DEF InOrder
    <3>6. Transit(got, Taken, ready \o <<Wake(w, 0)>>)
      <4>1. \A i \in 1 .. Len(<<Wake(w, 0)>>) : <<Wake(w, 0)>>[i].value = 0
        BY <2>3
      <4> QED
        BY <1>0, <1>2, <1>4, <2>3, <4>1, CarriesNothing
    <3>7. ready' = ready \o <<Wake(w, 0)>>
      BY <1>6 DEF Awaits
    <3> QED
      BY <1>1, <3>1, <3>5, <3>6, <3>7 DEF DeliveredInOrder, InTransit
  <2> QED
    BY <2>4, <2>5, <2>6, <2>7, <2>9, <2>10 DEF IInv
<1>7. CASE /\ channel.receivers = <<>> /\ ~HasRoom
           /\ channel' = [channel EXCEPT !.senders = Append(@, [value |-> sent + 1, who |-> w])]
           /\ Awaits(w, "send", <<>>)
  <2> DEFINE r == [value |-> sent + 1, who |-> w]
  <2>1. /\ channel' \in ChannelType /\ channel'.senders = Append(channel.senders, r)
        /\ channel'.receivers = channel.receivers /\ channel'.queue = channel.queue
        /\ channel'.capacity = channel.capacity /\ channel'.closed = channel.closed
        /\ channel.senders \in Seq(Sender) /\ r \in Sender
    <3>1. r \in Sender /\ channel.senders \in Seq(Sender)
      BY <1>2 DEF ChannelType, Sender
    <3> HIDE DEF r
    <3>2. Append(channel.senders, r) \in Seq(Sender)
      BY <3>1
    <3>3. channel' = [channel EXCEPT !.senders = Append(@, r)]
      BY <1>7 DEF r
    <3> QED
      BY <1>2, <3>1, <3>2, <3>3 DEF ChannelType
  <2>2. r.value = sent + 1 /\ r.who = w
    OBVIOUS
  <2> HIDE DEF r
  <2>3. <<>> \in Seq(Outcome) /\ ready \o <<>> = ready /\ Who(ready \o <<>>) = Woken
    BY <1>0, Settling
  <2>4. /\ worker' \in WorkerType /\ running' \in Seq(Worker)
        /\ ready' \in Seq(Outcome) /\ Woken' = Woken
        /\ OnStack'
        /\ worker[w].at = "runs" /\ worker'[w].at = "send"
        /\ \A v \in Worker : v # w => worker'[v].at = worker[v].at
        /\ \A v \in Worker : worker'[v].holds = worker[v].holds
                             /\ worker'[v].counted = worker[v].counted
    BY <1>0, <1>1, <1>7, <2>3, Awaited
  <2>5. TypeOK'
    BY <1>0, <1>1, <1>2, <2>1, <2>4 DEF TypeOK, WorkerType, ChannelType, Channel
  <2>6. OneWayBack'
    <3>1. Who(channel'.senders) = Append(Who(channel.senders), w)
      <4>1. \A x \in Sender : x.who \in Worker
        BY DEF Sender
      <4> QED
        BY <2>1, <2>2, <4>1, WhoOfAppend
    <3>2. /\ Lists'["send"] = Append(Lists["send"], w)
          /\ \A p \in Awaiting : p # "send" => Lists'[p] = Lists[p]
      BY <1>1, <2>1, <3>1, Standing DEF Awaiting
    <3>3. /\ Places[w] \notin Awaiting /\ Places'[w] = "send"
          /\ \A v \in Worker : v # w => Places'[v] = Places[v]
      BY <2>4, Standing DEF Awaiting
    <3>4. Consistent(Places', Lists', Woken)
      BY <1>1, <1>3, <3>2, <3>3, Enters, SMTT(40)
    <3> QED
      BY <2>4, <3>4 DEF OneWayBack
  <2>7. PermitsKept' /\ GroupCounts'
    BY <1>1, <2>4, <2>6, OtherPrimitives
  <2>8. NobodyWaitsInVain'
    BY <1>0, <1>1, <1>7, <2>1 DEF NobodyWaitsInVain, HasRoom
  <2>9. Len(channel'.senders) = Len(channel.senders) + 1
        /\ channel'.senders[Len(channel.senders) + 1] = r
        /\ \A i \in 1 .. Len(channel.senders) : channel'.senders[i] = channel.senders[i]
    BY <2>1, Appending
  <2>10. DeliveredInOrder'
    <3>1. Taken' = Taken
      <4>1. Taken' = (sent + 1) - 0 - Len(channel.queue) - (Len(channel.senders) + 1)
        BY <1>1, <1>4, <2>1, <2>9 DEF Taken
      <4> QED
        BY <1>2, <1>4, <4>1
    <3>2. sent + 1 = Taken + Len(channel.queue) + (Len(channel.senders) + 1)
      <4> DEFINE q == Len(channel.queue)
      <4> DEFINE s == Len(channel.senders)
      <4>1. sent \in Nat /\ q \in Nat /\ s \in Nat /\ Taken = sent - q - s
        BY <1>2, <1>4
      <4> HIDE DEF q, s
      <4>2. sent + 1 = Taken + q + (s + 1)
        BY <4>1
      <4> QED
        BY <4>2 DEF q, s
    <3>3. \A i \in 1 .. Len(channel.senders) :
            channel.senders[i].value = Taken + Len(channel.queue) + i
      BY <1>0 DEF InOrder
    <3>4. \A i \in 1 .. Len(channel'.senders) :
            channel'.senders[i].value = Taken + Len(channel.queue) + i
      <4>1. \A i \in 1 .. Len(channel.senders) + 1 :
              i \in 1 .. Len(channel.senders) \/ i = Len(channel.senders) + 1
        BY <1>4
      <4> QED
        BY <2>2, <2>9, <3>2, <3>3, <4>1
    <3>5. InOrder'
      BY <1>0, <1>1, <1>4, <2>1, <3>1, <3>4 DEF InOrder
    <3>6. ready' = ready
      BY <1>7, <2>3 DEF Awaits
    <3> QED
      BY <1>0, <1>1, <3>1, <3>5, <3>6 DEF DeliveredInOrder, InTransit
  <2> QED
    BY <2>4, <2>5, <2>6, <2>7, <2>8, <2>10 DEF IInv
<1> QED
  BY <1>5, <1>6, <1>7 DEF send, Sends

LEMMA ReceiveKeepsIInv ==
  ASSUME IInv, NEW w \in Worker, receive(w)
  PROVE  IInv'
<1>0. /\ TypeOK /\ OnStack /\ OneWayBack /\ NobodyWaitsInVain /\ InOrder
      /\ Transit(got, Taken, ready)
  BY DEF IInv, DeliveredInOrder, InTransit
<1>1. /\ Runs(w) /\ UNCHANGED <<semaphore, group, sent, refused, got, askers>>
      /\ "receive" \in Awaiting /\ "receive" \in Awaiting \cup {"idle"}
  BY DEF receive, history, Awaiting
<1>2. channel \in ChannelType /\ ready \in Seq(Outcome) /\ got \in Nat
      /\ sent \in Nat /\ refused \in Nat
  BY <1>0, SyncAssumption DEF TypeOK, Channel, ChannelType
<1>3. /\ Woken \in Seq(Worker) /\ \A p \in Awaiting : Lists[p] \in Seq(Worker)
      /\ Consistent(Places, Lists, Woken)
  BY <1>0, Lined DEF OneWayBack
<1>4. /\ channel.queue \in Seq(Nat) /\ channel.senders \in Seq(Sender)
      /\ channel.receivers \in Seq(Worker) /\ channel.capacity \in Nat
      /\ Len(channel.queue) \in Nat /\ Len(channel.senders) \in Nat
  BY <1>2 DEF ChannelType
<1>5. Taken = sent - refused - Len(channel.queue) - Len(channel.senders) /\ Taken \in Int
  BY <1>2, <1>4 DEF Taken
<1>6. channel.queue # <<>> =>
        /\ Head(channel.queue) \in Nat /\ Head(channel.queue) = Taken + 1
        /\ Len(channel.queue) > 0
        /\ Tail(channel.queue) \in Seq(Nat)
        /\ Len(Tail(channel.queue)) = Len(channel.queue) - 1
        /\ \A i \in 1 .. Len(channel.queue) - 1 : Tail(channel.queue)[i] = (Taken + 1) + i
        /\ channel.receivers = <<>>
  <2> SUFFICES ASSUME channel.queue # <<>>
               PROVE  /\ Head(channel.queue) \in Nat /\ Head(channel.queue) = Taken + 1
                      /\ Len(channel.queue) > 0
                      /\ Tail(channel.queue) \in Seq(Nat)
                      /\ Len(Tail(channel.queue)) = Len(channel.queue) - 1
                      /\ \A i \in 1 .. Len(channel.queue) - 1 :
                           Tail(channel.queue)[i] = (Taken + 1) + i
                      /\ channel.receivers = <<>>
    OBVIOUS
  <2>1. /\ Len(channel.queue) \in Nat \ {0} /\ Tail(channel.queue) \in Seq(Nat)
        /\ Len(Tail(channel.queue)) = Len(channel.queue) - 1
        /\ \A i \in 1 .. Len(channel.queue) - 1 : Tail(channel.queue)[i] = channel.queue[i + 1]
        /\ Head(channel.queue) = channel.queue[1] /\ channel.queue[1] \in Nat
    BY <1>4, Beheading
  <2>2. \A i \in 1 .. Len(channel.queue) : channel.queue[i] = Taken + i
    BY <1>0 DEF InOrder
  <2>3. channel.queue[1] = Taken + 1
    BY <2>1, <2>2
  <2>4. \A i \in 1 .. Len(channel.queue) - 1 :
          i + 1 \in 1 .. Len(channel.queue) /\ Taken + (i + 1) = (Taken + 1) + i
    BY <1>5, <2>1
  <2>5. \A i \in 1 .. Len(channel.queue) - 1 : Tail(channel.queue)[i] = (Taken + 1) + i
    BY <2>1, <2>2, <2>4
  <2>6. channel.receivers = <<>>
    BY <1>0 DEF NobodyWaitsInVain
  <2> QED
    BY <2>1, <2>3, <2>5, <2>6
<1>7. CASE /\ channel.queue # <<>> /\ channel.senders = <<>>
           /\ channel' = [channel EXCEPT !.queue = Tail(@)]
           /\ Awaits(w, "receive", <<Wake(w, Head(channel.queue))>>)
  <2> DEFINE r == Wake(w, Head(channel.queue))
  <2>1. /\ channel' \in ChannelType /\ channel'.queue = Tail(channel.queue)
        /\ channel'.receivers = channel.receivers /\ channel'.senders = channel.senders
        /\ channel'.capacity = channel.capacity /\ channel'.closed = channel.closed
    BY <1>2, <1>6, <1>7 DEF ChannelType
  <2>2. /\ r \in Outcome /\ r.value = Taken + 1
        /\ <<r>> \in Seq(Outcome) /\ ready \o <<r>> = Append(ready, r)
        /\ Who(ready \o <<r>>) = Append(Woken, w)
    <3> DEFINE x == Head(channel.queue)
    <3>1. TypeOK /\ x \in Nat /\ x = Taken + 1
      BY <1>0, <1>6, <1>7
    <3> HIDE DEF x
    <3>2. /\ Wake(w, x) \in Outcome /\ Wake(w, x).value = x
          /\ <<Wake(w, x)>> \in Seq(Outcome)
          /\ ready \o <<Wake(w, x)>> = Append(ready, Wake(w, x))
          /\ Who(ready \o <<Wake(w, x)>>) = Append(Woken, w)
      BY <3>1, SettlingOne, Zenon
    <3> QED
      BY <3>1, <3>2 DEF x
  <2> HIDE DEF r
  <2>3. Awaits(w, "receive", <<r>>)
    BY <1>7 DEF r
  <2>4. /\ worker' \in WorkerType /\ running' \in Seq(Worker)
        /\ ready' \in Seq(Outcome) /\ Woken' = Append(Woken, w)
        /\ OnStack'
        /\ worker[w].at = "runs" /\ worker'[w].at = "receive"
        /\ \A v \in Worker : v # w => worker'[v].at = worker[v].at
        /\ \A v \in Worker : worker'[v].holds = worker[v].holds
                             /\ worker'[v].counted = worker[v].counted
    BY <1>0, <1>1, <2>2, <2>3, Awaited
  <2>5. TypeOK'
    BY <1>0, <1>1, <2>1, <2>4 DEF TypeOK, WorkerType, ChannelType, Channel
  <2>6. OneWayBack'
    <3>1. \A p \in Awaiting : Lists'[p] = Lists[p]
      BY <1>1, <2>1, Standing DEF Awaiting
    <3>2. /\ Places[w] \notin Awaiting /\ Places'[w] = "receive"
          /\ \A v \in Worker : v # w => Places'[v] = Places[v]
      BY <2>4, Standing DEF Awaiting
    <3>3. Consistent(Places', Lists', Append(Woken, w))
      BY <1>1, <1>3, <3>1, <3>2, AwaitsSettled
    <3> QED
      BY <2>4, <3>3 DEF OneWayBack
  <2>7. PermitsKept' /\ GroupCounts'
    BY <1>1, <2>4, <2>6, OtherPrimitives
  <2>8. NobodyWaitsInVain'
    <3>1. channel'.capacity # 0 => Len(channel'.queue) <= channel'.capacity
      BY <1>0, <1>4, <1>6, <1>7, <2>1 DEF NobodyWaitsInVain
    <3> QED
      BY <1>6, <1>7, <2>1, <3>1 DEF NobodyWaitsInVain
  <2>9. DeliveredInOrder'
    <3>1. Taken' = Taken + 1
      <4>1. Taken' = sent - refused - (Len(channel.queue) - 1) - Len(channel.senders)
        BY <1>1, <1>6, <1>7, <2>1 DEF Taken
      <4> QED
        BY <1>2, <1>4, <1>5, <4>1
    <3>2. InOrder'
      <4>1. Len(channel'.queue) = Len(channel.queue) - 1
        BY <1>6, <1>7, <2>1
      <4>2. \A i \in 1 .. Len(channel'.queue) : channel'.queue[i] = Taken' + i
        BY <1>6, <1>7, <2>1, <3>1, <4>1
      <4>3. \A i \in 1 .. Len(channel'.senders) :
              channel'.senders[i].value = Taken' + Len(channel'.queue) + i
        BY <1>7, <2>1
      <4> QED
        BY <1>0, <1>1, <2>1, <4>2, <4>3 DEF InOrder
    <3>3. Transit(got, Taken + 1, Append(ready, r))
      BY <1>0, <1>2, <1>5, <2>2, CarriesTheNext
    <3>4. ready' = Append(ready, r)
      BY <2>2, <2>3 DEF Awaits
    <3> QED
      BY <1>1, <3>1, <3>2, <3>3, <3>4 DEF DeliveredInOrder, InTransit
  <2> QED
    BY <2>4, <2>5, <2>6, <2>7, <2>8, <2>9 DEF IInv
<1>8. CASE /\ channel.queue # <<>> /\ channel.senders # <<>>
           /\ channel' = [channel EXCEPT
                            !.queue = Append(Tail(@), Head(channel.senders).value),
                            !.senders = Tail(@)]
           /\ Awaits(w, "receive",
                     <<Wake(Head(channel.senders).who, 0), Wake(w, Head(channel.queue))>>)
  <2> DEFINE h == Head(channel.senders).who
  <2> DEFINE v == Head(channel.senders).value
  <2> DEFINE p == Wake(h, 0)
  <2> DEFINE r == Wake(w, Head(channel.queue))
  <2> DEFINE settled == <<p, r>>
  <2>1. /\ Head(channel.senders) \in Sender /\ h \in Worker /\ v \in Nat
        /\ Len(channel.senders) \in Nat \ {0}
        /\ Tail(channel.senders) \in Seq(Sender)
        /\ Len(Tail(channel.senders)) = Len(channel.senders) - 1
        /\ \A i \in 1 .. Len(channel.senders) - 1 :
             Tail(channel.senders)[i] = channel.senders[i + 1]
        /\ v = channel.senders[1].value
    <3>1. /\ Head(channel.senders) \in Sender /\ Head(channel.senders) = channel.senders[1]
          /\ Len(channel.senders) \in Nat \ {0}
          /\ Tail(channel.senders) \in Seq(Sender)
          /\ Len(Tail(channel.senders)) = Len(channel.senders) - 1
          /\ \A i \in 1 .. Len(channel.senders) - 1 :
               Tail(channel.senders)[i] = channel.senders[i + 1]
      BY <1>4, <1>8, Beheading
    <3>2. h \in Worker /\ v \in Nat
      BY <3>1 DEF Sender
    <3> QED
      BY <3>1, <3>2
  <2>2. /\ p \in Outcome /\ p.who = h /\ p.value = 0
        /\ r \in Outcome /\ r.who = w /\ r.value = Taken + 1
        /\ settled \in Seq(Outcome)
    <3>1. /\ p \in Outcome /\ p.who = h /\ p.value = 0
          /\ r \in Outcome /\ r.who = w /\ r.value = Taken + 1
      BY <1>6, <1>8, <2>1 DEF Wake, Outcome
    <3> QED
      BY <3>1
  <2> HIDE DEF h, v, p, r
  <2>3. /\ channel' \in ChannelType /\ channel'.queue = Append(Tail(channel.queue), v)
        /\ channel'.senders = Tail(channel.senders)
        /\ channel'.receivers = channel.receivers
        /\ channel'.capacity = channel.capacity /\ channel'.closed = channel.closed
    <3>1. Append(Tail(channel.queue), v) \in Seq(Nat)
      BY <1>6, <1>8, <2>1
    <3>2. channel' = [channel EXCEPT !.queue = Append(Tail(channel.queue), v),
                                     !.senders = Tail(channel.senders)]
      BY <1>8 DEF v
    <3> QED
      BY <1>2, <2>1, <3>1, <3>2 DEF ChannelType
  <2>4. /\ Append(ready, p) \in Seq(Outcome)
        /\ ready \o settled = Append(Append(ready, p), r)
        /\ Append(ready, p) = ready \o <<p>>
    BY <1>2, <2>2
  <2> HIDE DEF settled
  <2>5. Who(ready \o settled) = Append(Append(Woken, h), w)
    <3>1. \A x \in Outcome : x.who \in Worker
      BY DEF Outcome
    <3>2. Who(Append(ready, p)) = Append(Woken, h)
      BY <1>2, <2>2, <3>1, WhoOfAppend DEF Woken
    <3>3. Who(Append(Append(ready, p), r)) = Append(Append(Woken, h), w)
      BY <2>2, <2>4, <3>1, <3>2, WhoOfAppend
    <3> QED
      BY <2>4, <3>3
  <2>6. Awaits(w, "receive", settled)
    BY <1>8 DEF settled, h, p, r
  <2>7. /\ worker' \in WorkerType /\ running' \in Seq(Worker)
        /\ ready' \in Seq(Outcome) /\ Woken' = Append(Append(Woken, h), w)
        /\ OnStack'
        /\ worker[w].at = "runs" /\ worker'[w].at = "receive"
        /\ \A x \in Worker : x # w => worker'[x].at = worker[x].at
        /\ \A x \in Worker : worker'[x].holds = worker[x].holds
                             /\ worker'[x].counted = worker[x].counted
    BY <1>0, <1>1, <2>2, <2>5, <2>6, Awaited
  <2>8. TypeOK'
    BY <1>0, <1>1, <2>3, <2>7 DEF TypeOK, WorkerType, ChannelType, Channel
  <2>9. OneWayBack'
    <3>1. \A x \in Sender : x.who \in Worker
      BY DEF Sender
    <3>2. /\ Who(channel'.senders) = Tail(Who(channel.senders))
          /\ Who(channel.senders) # <<>> /\ Head(Who(channel.senders)) = h
      BY <1>4, <1>8, <2>3, <3>1, WhoOfTail DEF h
    <3>3. /\ Lists["send"] # <<>> /\ Head(Lists["send"]) = h /\ "send" \in Awaiting
          /\ Lists'["send"] = Tail(Lists["send"])
          /\ \A x \in Awaiting : x # "send" => Lists'[x] = Lists[x]
      BY <1>1, <2>3, <3>2, Standing DEF Awaiting
    <3>4. Consistent(Places, Lists', Append(Woken, h))
      <4>1. Consistent(Places, Lists', Append(Woken, Head(Lists["send"])))
        BY <1>3, <3>3, WakesFirst
      <4> QED
        BY <3>3, <4>1
    <3>5. Append(Woken, h) \in Seq(Worker)
      BY <1>3, <2>1, Appending DEF h
    <3>6. /\ Places[w] \notin Awaiting /\ Places'[w] = "receive"
          /\ \A x \in Worker : x # w => Places'[x] = Places[x]
      BY <2>7, Standing DEF Awaiting
    <3>7. Consistent(Places', Lists', Append(Append(Woken, h), w))
      BY <1>1, <3>4, <3>5, <3>6, AwaitsSettled
    <3> QED
      BY <2>7, <3>7 DEF OneWayBack
  <2>10. PermitsKept' /\ GroupCounts'
    BY <1>1, <2>7, <2>9, OtherPrimitives
  <2>11. /\ Len(channel'.queue) = Len(channel.queue)
         /\ \A i \in 1 .. Len(channel.queue) - 1 : channel'.queue[i] = (Taken + 1) + i
         /\ channel'.queue[Len(channel.queue)] = v
    <3>1. /\ Len(Append(Tail(channel.queue), v)) = (Len(channel.queue) - 1) + 1
          /\ \A i \in 1 .. Len(channel.queue) - 1 :
               Append(Tail(channel.queue), v)[i] = Tail(channel.queue)[i]
          /\ Append(Tail(channel.queue), v)[(Len(channel.queue) - 1) + 1] = v
      <4>1. v \in Nat
        BY <2>1 DEF v
      <4> QED
        BY <1>6, <1>8, <4>1, Appending
    <3>2. (Len(channel.queue) - 1) + 1 = Len(channel.queue)
      BY <1>4
    <3> QED
      BY <1>6, <1>8, <2>3, <3>1, <3>2
  <2>12. NobodyWaitsInVain'
    <3>1. ~HasRoom /\ ~channel.closed /\ HasRoom' = HasRoom
      BY <1>0, <1>8, <2>3, <2>11 DEF NobodyWaitsInVain, HasRoom
    <3>2. channel'.capacity # 0 => Len(channel'.queue) <= channel'.capacity
      BY <1>0, <2>3, <2>11 DEF NobodyWaitsInVain
    <3> QED
      BY <1>6, <1>8, <2>3, <3>1, <3>2 DEF NobodyWaitsInVain
  <2>13. DeliveredInOrder'
    <3>1. Taken' = Taken + 1
      <4>1. Taken' = sent - refused - Len(channel.queue) - (Len(channel.senders) - 1)
        BY <1>1, <2>1, <2>3, <2>11 DEF Taken
      <4> QED
        BY <1>2, <1>4, <1>5, <4>1
    <3>2. v = (Taken + 1) + Len(channel.queue)
      <4>1. v = Taken + Len(channel.queue) + 1
        BY <1>0, <2>1 DEF InOrder, v
      <4> QED
        BY <1>4, <1>5, <4>1
    <3>3. \A i \in 1 .. Len(channel'.queue) : channel'.queue[i] = Taken' + i
      <4>1. \A i \in 1 .. Len(channel.queue) :
              i \in 1 .. Len(channel.queue) - 1 \/ i = Len(channel.queue)
        BY <1>4
      <4> QED
        BY <2>11, <3>1, <3>2, <4>1
    <3>4. \A i \in 1 .. Len(channel'.senders) :
            channel'.senders[i].value = Taken' + Len(channel'.queue) + i
      <4>1. \A i \in 1 .. Len(channel.senders) :
              channel.senders[i].value = Taken + Len(channel.queue) + i
        BY <1>0 DEF InOrder
      <4>2. \A i \in 1 .. Len(channel.senders) - 1 :
              /\ i + 1 \in 1 .. Len(channel.senders)
              /\ Taken + Len(channel.queue) + (i + 1) = (Taken + 1) + Len(channel.queue) + i
        BY <1>4, <1>5, SMTT(40)
      <4> QED
        <5>1. /\ Len(channel'.senders) = Len(channel.senders) - 1
              /\ \A i \in 1 .. Len(channel.senders) - 1 :
                   channel'.senders[i] = channel.senders[i + 1]
          BY <2>1, <2>3
        <5>2. \A i \in 1 .. Len(channel.senders) - 1 :
                channel.senders[i + 1].value = (Taken + 1) + Len(channel.queue) + i
          BY <4>1, <4>2
        <5> QED
          BY <2>11, <3>1, <5>1, <5>2
    <3>5. InOrder'
      BY <1>0, <1>1, <2>3, <3>3, <3>4 DEF InOrder
    <3>6. Transit(got, Taken, Append(ready, p))
      <4>1. <<p>> \in Seq(Outcome) /\ \A i \in 1 .. Len(<<p>>) : <<p>>[i].value = 0
        BY <2>2
      <4>2. Transit(got, Taken, ready \o <<p>>)
        BY <1>0, <1>2, <1>5, <4>1, CarriesNothing
      <4> QED
        BY <2>4, <4>2
    <3>7. Transit(got, Taken + 1, Append(Append(ready, p), r))
      BY <1>2, <1>5, <2>2, <2>4, <3>6, CarriesTheNext
    <3>8. ready' = Append(Append(ready, p), r)
      BY <2>4, <2>6 DEF Awaits
    <3> QED
      BY <1>1, <3>1, <3>5, <3>7, <3>8 DEF DeliveredInOrder, InTransit
  <2> QED
    BY <2>7, <2>8, <2>9, <2>10, <2>12, <2>13 DEF IInv
<1>9. CASE /\ channel.queue = <<>> /\ channel.closed
           /\ Awaits(w, "receive", <<Wake(w, 0)>>) /\ UNCHANGED channel
  <2>1. /\ <<Wake(w, 0)>> \in Seq(Outcome) /\ Wake(w, 0).value = 0
        /\ Who(ready \o <<Wake(w, 0)>>) = Append(Woken, w)
    BY <1>0, Settling
  <2>2. /\ worker' \in WorkerType /\ running' \in Seq(Worker)
        /\ ready' \in Seq(Outcome) /\ Woken' = Append(Woken, w)
        /\ OnStack'
        /\ worker[w].at = "runs" /\ worker'[w].at = "receive"
        /\ \A v \in Worker : v # w => worker'[v].at = worker[v].at
        /\ \A v \in Worker : worker'[v].holds = worker[v].holds
                             /\ worker'[v].counted = worker[v].counted
    BY <1>0, <1>1, <1>9, <2>1, Awaited
  <2>3. TypeOK'
    BY <1>0, <1>1, <1>9, <2>2 DEF TypeOK, WorkerType
  <2>4. OneWayBack'
    <3>1. \A p \in Awaiting : Lists'[p] = Lists[p]
      BY <1>1, <1>9, LinesUntouched
    <3>2. /\ Places[w] \notin Awaiting /\ Places'[w] = "receive"
          /\ \A v \in Worker : v # w => Places'[v] = Places[v]
      BY <2>2, Standing DEF Awaiting
    <3>3. Consistent(Places', Lists', Append(Woken, w))
      BY <1>1, <1>3, <3>1, <3>2, AwaitsSettled
    <3> QED
      BY <2>2, <3>3 DEF OneWayBack
  <2>5. PermitsKept' /\ GroupCounts'
    BY <1>1, <2>2, <2>4, OtherPrimitives
  <2>6. NobodyWaitsInVain' /\ DeliveredInOrder'
    <3>1. /\ ready' = ready \o <<Wake(w, 0)>>
          /\ \A i \in 1 .. Len(<<Wake(w, 0)>>) : <<Wake(w, 0)>>[i].value = 0
      BY <1>9, <2>1 DEF Awaits
    <3>2. DeliveredInOrder
      BY DEF IInv
    <3> QED
      BY <1>0, <1>1, <1>9, <2>1, <3>1, <3>2, ChannelUntouched
  <2> QED
    BY <2>2, <2>3, <2>4, <2>5, <2>6 DEF IInv
<1>10. CASE /\ channel.queue = <<>> /\ ~channel.closed
            /\ channel' = [channel EXCEPT !.receivers = Append(@, w)]
            /\ Awaits(w, "receive", <<>>)
  <2>1. /\ channel' \in ChannelType /\ channel'.receivers = Append(channel.receivers, w)
        /\ channel'.queue = channel.queue /\ channel'.senders = channel.senders
        /\ channel'.capacity = channel.capacity /\ channel'.closed = channel.closed
    <3>1. Append(channel.receivers, w) \in Seq(Worker)
      BY <1>4
    <3> QED
      BY <1>2, <1>10, <3>1 DEF ChannelType
  <2>2. <<>> \in Seq(Outcome) /\ ready \o <<>> = ready /\ Who(ready \o <<>>) = Woken
    BY <1>0, Settling
  <2>3. /\ worker' \in WorkerType /\ running' \in Seq(Worker)
        /\ ready' \in Seq(Outcome) /\ Woken' = Woken
        /\ OnStack'
        /\ worker[w].at = "runs" /\ worker'[w].at = "receive"
        /\ \A v \in Worker : v # w => worker'[v].at = worker[v].at
        /\ \A v \in Worker : worker'[v].holds = worker[v].holds
                             /\ worker'[v].counted = worker[v].counted
    BY <1>0, <1>1, <1>10, <2>2, Awaited
  <2>4. TypeOK'
    BY <1>0, <1>1, <2>1, <2>3 DEF TypeOK, WorkerType, ChannelType, Channel
  <2>5. OneWayBack'
    <3>1. /\ Lists'["receive"] = Append(Lists["receive"], w)
          /\ \A p \in Awaiting : p # "receive" => Lists'[p] = Lists[p]
      BY <1>1, <2>1, Standing DEF Awaiting
    <3>2. /\ Places[w] \notin Awaiting /\ Places'[w] = "receive"
          /\ \A v \in Worker : v # w => Places'[v] = Places[v]
      BY <2>3, Standing DEF Awaiting
    <3>3. Consistent(Places', Lists', Woken)
      BY <1>1, <1>3, <3>1, <3>2, Enters
    <3> QED
      BY <2>3, <3>3 DEF OneWayBack
  <2>6. PermitsKept' /\ GroupCounts'
    BY <1>1, <2>3, <2>5, OtherPrimitives
  <2>7. NobodyWaitsInVain'
    <3>1. Len(channel.queue) = 0
      BY <1>10
    <3>2. channel.senders = <<>>
      BY <1>0, <1>4, <1>10, <3>1 DEF NobodyWaitsInVain, HasRoom
    <3> QED
      BY <1>0, <1>10, <2>1, <3>2 DEF NobodyWaitsInVain
  <2>8. DeliveredInOrder'
    <3>1. Taken' = Taken
      BY <1>1, <2>1 DEF Taken
    <3>2. InOrder'
      BY <1>0, <1>1, <2>1, <3>1 DEF InOrder
    <3>3. ready' = ready
      BY <1>10, <2>2 DEF Awaits
    <3> QED
      BY <1>0, <1>1, <3>1, <3>2, <3>3 DEF DeliveredInOrder, InTransit
  <2> QED
    BY <2>3, <2>4, <2>5, <2>6, <2>7, <2>8 DEF IInv
<1> QED
  BY <1>7, <1>8, <1>9, <1>10 DEF receive

-----------------------------------------------------------------------------
(* The theorems.                                                           *)

LEMMA InitIInv == Init => IInv
<1> SUFFICES ASSUME Init PROVE IInv
  OBVIOUS
<1>1. PICK s \in Setups :
        /\ semaphore = [permits |-> s.permits, free |-> s.permits, waiting |-> <<>>]
        /\ channel = [capacity |-> s.capacity, queue |-> <<>>, senders |-> <<>>,
                      receivers |-> <<>>, closed |-> FALSE]
  BY DEF Init
<1>2. s.permits \in Nat \ {0} /\ s.capacity \in Nat
  BY SyncAssumption DEF Setup
<1>3. /\ group = [count |-> 0, waiting |-> <<>>] /\ ready = <<>> /\ running = <<>>
      /\ worker = [w \in Worker |-> [at |-> "idle", holds |-> FALSE, counted |-> FALSE]]
      /\ sent = 0 /\ refused = 0 /\ got = 0 /\ askers = <<>>
  BY DEF Init
<1>4. /\ <<>> \in Seq(Worker) /\ <<>> \in Seq(Nat) /\ <<>> \in Seq(Sender)
      /\ <<>> \in Seq(Outcome)
  OBVIOUS
<1>5. TypeOK
  BY <1>1, <1>2, <1>3, <1>4, SyncAssumption DEF TypeOK, Semaphore, WaitGroup, Channel
<1>6. OnStack
  BY <1>3 DEF OnStack, NoneTwice, In
<1>7. OneWayBack
  <2>1. Woken = <<>> /\ Who(channel.senders) = <<>>
    BY <1>1, <1>3 DEF Woken, Who
  <2>2. \A p \in Awaiting : Lists[p] = <<>>
    BY <1>1, <1>3, <2>1, Standing DEF Awaiting
  <2>3. \A w \in Worker : Places[w] = "idle" /\ "idle" \notin Awaiting
    BY <1>3, Standing DEF Awaiting
  <2> QED
    BY <2>1, <2>2, <2>3 DEF OneWayBack, Consistent, NoneTwice, In
<1>8. PermitsKept
  <2>1. Holders = {}
    BY <1>3 DEF Holders, Granted
  <2> QED
    BY <1>1, <1>2, <2>1, FS_EmptySet DEF PermitsKept
<1>9. GroupCounts
  <2>1. Counted = {}
    BY <1>3 DEF Counted
  <2> QED
    BY <1>3, <2>1, FS_EmptySet DEF GroupCounts
<1>10. NobodyWaitsInVain
  BY <1>1, <1>2 DEF NobodyWaitsInVain
<1>11. DeliveredInOrder
  <2>1. Taken = 0
    <3>1. channel.queue = <<>> /\ channel.senders = <<>> /\ sent = 0 /\ refused = 0
      BY <1>1, <1>3
    <3>2. Len(channel.queue) = 0 /\ Len(channel.senders) = 0
      BY <3>1
    <3>3. Taken = 0 - 0 - 0 - 0
      BY <1>3, <3>2, Zenon DEF Taken
    <3> QED
      BY <3>3
  <2> QED
    BY <1>1, <1>3, <2>1 DEF DeliveredInOrder, InOrder, InTransit, Transit
<1> QED
  BY <1>5, <1>6, <1>7, <1>8, <1>9, <1>10, <1>11 DEF IInv

LEMMA StutterIInv ==
  ASSUME IInv, UNCHANGED vars
  PROVE  IInv'
BY DEF IInv, vars, history, TypeOK, OnStack, OneWayBack, Consistent, Places, Lists, Woken,
       PermitsKept, Holders, Granted, GroupCounts, Counted, NobodyWaitsInVain, HasRoom,
       DeliveredInOrder, InOrder, InTransit, Transit, Taken

LEMMA NextKeepsIInv ==
  ASSUME IInv, [Next]_vars
  PROVE  IInv'
<1>1. CASE resume
  BY <1>1, ResumeKeepsIInv
<1>2. ASSUME NEW w \in Worker, wakeup(w) PROVE IInv'
  BY <1>2, WakeupKeepsIInv
<1>3. ASSUME NEW w \in Worker, start(w) PROVE IInv'
  BY <1>3, StartKeepsIInv
<1>4. ASSUME NEW w \in Worker, Works(w) PROVE IInv'
  <2>1. CASE acquire(w)
    BY <2>1, AcquireKeepsIInv
  <2>2. CASE release(w)
    BY <2>2, ReleaseKeepsIInv
  <2>3. CASE add(w)
    BY <2>3, AddKeepsIInv
  <2>4. CASE done(w)
    BY <2>4, DoneKeepsIInv
  <2>5. CASE wait(w)
    BY <2>5, WaitKeepsIInv
  <2>6. CASE send(w)
    BY <2>6, SendKeepsIInv
  <2>7. CASE receive(w)
    BY <2>7, ReceiveKeepsIInv
  <2>8. CASE close(w)
    BY <2>8, CloseKeepsIInv
  <2>9. CASE sleep(w)
    BY <2>9, LeavingKeepsIInv DEF sleep, history
  <2>10. CASE end(w)
    BY <2>10, LeavingKeepsIInv DEF end, history
  <2> QED
    BY <1>4, <2>1, <2>2, <2>3, <2>4, <2>5, <2>6, <2>7, <2>8, <2>9, <2>10 DEF Works
<1>5. CASE UNCHANGED vars
  BY <1>5, StutterIInv
<1> QED
  BY <1>1, <1>2, <1>3, <1>4, <1>5 DEF Next, Loop

(* The invariant of sync.cx holds, whatever the workers do.                *)
THEOREM Invariance == Spec => []IInv
BY InitIInv, NextKeepsIInv, PTL DEF Spec

(* Mutex and Semaphore never let in more than there are permits, lose none *)
(* on a hand-over, and keep nobody waiting while one is free.              *)
THEOREM PermitsAreKept == Spec => []PermitsKept
<1>1. IInv => PermitsKept
  BY DEF IInv
<1> QED
  BY <1>1, Invariance, PTL

(* Whoever awaits a primitive is in its line once or woken once.           *)
THEOREM NobodyIsLost == Spec => []OneWayBack
<1>1. IInv => OneWayBack
  BY DEF IInv
<1> QED
  BY <1>1, Invariance, PTL

(* A Channel keeps no receiver waiting while it has a value, no sender     *)
(* while it has room, and nobody once it is closed.                        *)
THEOREM NoWaitIsInVain == Spec => []NobodyWaitsInVain
<1>1. IInv => NobodyWaitsInVain
  BY DEF IInv
<1> QED
  BY <1>1, Invariance, PTL

(* Every value accepted by send() is delivered once, in order.             *)
THEOREM DeliveryIsInOrder == Spec => []DeliveredInOrder
<1>1. IInv => DeliveredInOrder
  BY DEF IInv
<1> QED
  BY <1>1, Invariance, PTL

(* A step that takes somebody out of the group's line leaves nobody counted*)
(* in: only the last done() does it.                                       *)
LEMMA WaitEndsWithTheLast ==
  ASSUME IInv, [Next]_vars,
         NEW v \in Worker, WaitsForGroup(v), ~WaitsForGroup(v)'
  PROVE  Counted' = {}
<1>1. IInv' /\ group.waiting \in Seq(Worker)
  BY NextKeepsIInv DEF IInv, TypeOK, WaitGroup
<1>2. group'.waiting # group.waiting
  BY DEF WaitsForGroup
<1>3. PICK w \in Worker : wait(w) \/ done(w) \/ add(w)
  BY <1>2 DEF Next, Loop, Works, resume, wakeup, start, acquire, release, send, receive,
              close, sleep, end, vars
<1>4. ~add(w)
  <2>1. ASSUME add(w) PROVE group'.waiting = group.waiting
    BY <2>1 DEF add, IInv, TypeOK, WaitGroup
  <2> QED
    BY <1>2, <2>1
<1>5. ~wait(w)
  <2> SUFFICES ASSUME wait(w) PROVE FALSE
    OBVIOUS
  <2>1. group'.waiting = Append(group.waiting, w)
    BY <1>2 DEF wait, IInv, TypeOK, WaitGroup
  <2>2. In(group'.waiting, v)
    BY <1>1, <2>1, InAppend DEF WaitsForGroup
  <2> QED
    BY <2>2 DEF WaitsForGroup
<1>6. done(w)
  BY <1>3, <1>4, <1>5
<1>7. /\ worker[w].counted /\ ~worker'[w].counted
      /\ \A x \in Worker : x # w => worker'[x].counted = worker[x].counted
  BY <1>6 DEF done, IInv, TypeOK
<1>8. /\ group.count = 1 => Counted' = {}
      /\ group.count \in Nat /\ group.count > 0
  BY <1>7, LastOne DEF IInv
<1>9. ~(group.count > 1)
  <2> SUFFICES ASSUME group.count > 1 PROVE group'.waiting = group.waiting
    BY <1>2
  <2>1. group' = [group EXCEPT !.count = @ - 1]
    BY <1>6 DEF done
  <2> QED
    BY <2>1 DEF IInv, TypeOK, WaitGroup
<1> QED
  BY <1>8, <1>9

(* wait() is answered by the last done() and no earlier.                   *)
THEOREM WaitingMeansDone == Spec => WaitMeansDone
<1>1. IInv /\ [Next]_vars =>
        [\A w \in Worker : WaitsForGroup(w) /\ ~WaitsForGroup(w)' => Counted' = {}]_vars
  BY WaitEndsWithTheLast
<1> QED
  BY <1>1, Invariance, PTL DEF Spec, WaitMeansDone

-----------------------------------------------------------------------------
(* First come, first served.                                               *)

(* Of one list behind another: which of the two a place lies in.           *)
LEMMA PlacesInBoth ==
  ASSUME NEW p \in Seq(Worker), NEW q \in Seq(Worker)
  PROVE  /\ p \o q \in Seq(Worker)
         /\ Len(p) \in Nat /\ Len(q) \in Nat /\ Len(p \o q) = Len(p) + Len(q)
         /\ \A i \in 1 .. Len(p) + Len(q) :
              \/ i \in 1 .. Len(p) /\ (p \o q)[i] = p[i]
              \/ /\ i \in Len(p) + 1 .. Len(p) + Len(q) /\ i - Len(p) \in 1 .. Len(q)
                 /\ (p \o q)[i] = q[i - Len(p)]
<1>1. /\ p \o q \in Seq(Worker) /\ Len(p \o q) = Len(p) + Len(q)
      /\ \A i \in 1 .. Len(p) : (p \o q)[i] = p[i]
      /\ \A i \in Len(p) + 1 .. Len(p) + Len(q) : (p \o q)[i] = q[i - Len(p)]
      /\ Len(p) \in Nat /\ Len(q) \in Nat
  BY Concatenating
<1>2. \A i \in 1 .. Len(p) + Len(q) :
        i \in 1 .. Len(p) \/ (i \in Len(p) + 1 .. Len(p) + Len(q) /\ i - Len(p) \in 1 .. Len(q))
  BY <1>1
<1> QED
  BY <1>1, <1>2

(* More of them woken: who came first still does.                          *)
LEMMA OrderWithMore ==
  ASSUME NEW p \in Seq(Worker), NEW p2 \in Seq(Worker), NEW q \in Seq(Worker),
         Len(p) <= Len(p2), \A i \in 1 .. Len(p) : p2[i] = p[i],
         NEW v, NEW w, Before(p \o q, v, w)
  PROVE  Before(p2 \o q, v, w)
<1> DEFINE d == Len(p2) - Len(p)
<1> DEFINE to(i) == IF i \in 1 .. Len(p) THEN i ELSE i + d
<1>1. PICK a \in 1 .. Len(p \o q), b \in 1 .. Len(p \o q) :
        a < b /\ (p \o q)[a] = v /\ (p \o q)[b] = w
  BY DEF Before
<1>2. /\ Len(p) \in Nat /\ Len(q) \in Nat /\ Len(p2) \in Nat /\ d \in Nat
      /\ Len(p \o q) = Len(p) + Len(q) /\ Len(p2 \o q) = Len(p2) + Len(q)
  BY PlacesInBoth
<1>3. \A i \in 1 .. Len(p) + Len(q) :
        to(i) \in 1 .. Len(p2) + Len(q) /\ (p2 \o q)[to(i)] = (p \o q)[i]
  <2> SUFFICES ASSUME NEW i \in 1 .. Len(p) + Len(q)
               PROVE  to(i) \in 1 .. Len(p2) + Len(q) /\ (p2 \o q)[to(i)] = (p \o q)[i]
    OBVIOUS
  <2>1. CASE i \in 1 .. Len(p)
    <3>1. i \in 1 .. Len(p2) /\ (p2 \o q)[i] = p2[i] /\ (p \o q)[i] = p[i]
      BY <1>2, <2>1, Concatenating
    <3> QED
      BY <1>2, <2>1, <3>1
  <2>2. CASE i \notin 1 .. Len(p)
    <3>1. /\ i \in Len(p) + 1 .. Len(p) + Len(q)
          /\ to(i) = i + d /\ i + d \in Len(p2) + 1 .. Len(p2) + Len(q)
          /\ i + d - Len(p2) = i - Len(p)
      BY <1>2, <2>2
    <3>2. (p \o q)[i] = q[i - Len(p)]
      BY <3>1, Concatenating
    <3>3. (p2 \o q)[i + d] = q[i + d - Len(p2)]
      BY <3>1, Concatenating
    <3>4. i + d \in 1 .. Len(p2) + Len(q)
      BY <1>2, <3>1
    <3> HIDE DEF to, d
    <3> QED
      BY <3>1, <3>2, <3>3, <3>4
  <2> QED
    BY <2>1, <2>2
<1>4. to(a) < to(b)
  BY <1>1, <1>2
<1> HIDE DEF to
<1> QED
  BY <1>1, <1>2, <1>3, <1>4 DEF Before

(* One more at the end.                                                    *)
LEMMA OrderAtTheEnd ==
  ASSUME NEW s \in Seq(Worker), NEW x \in Worker
  PROVE  /\ \A v, w \in Worker : Before(s, v, w) => Before(Append(s, x), v, w)
         /\ \A v \in Worker : In(s, v) => Before(Append(s, x), v, x)
<1>1. /\ Len(Append(s, x)) = Len(s) + 1
      /\ \A i \in 1 .. Len(s) : Append(s, x)[i] = s[i]
      /\ Append(s, x)[Len(s) + 1] = x
      /\ Len(s) \in Nat
  BY Appending
<1>2. \A i \in 1 .. Len(s) : i \in 1 .. Len(s) + 1 /\ i < Len(s) + 1
  BY <1>1
<1>3. Len(s) + 1 \in 1 .. Len(s) + 1
  BY <1>1
<1>4. ASSUME NEW v \in Worker, NEW w \in Worker, Before(s, v, w)
      PROVE  Before(Append(s, x), v, w)
  <2>1. PICK a \in 1 .. Len(s), b \in 1 .. Len(s) : a < b /\ s[a] = v /\ s[b] = w
    BY <1>4 DEF Before
  <2> QED
    BY <1>1, <1>2, <2>1 DEF Before
<1>5. ASSUME NEW v \in Worker, In(s, v)
      PROVE  Before(Append(s, x), v, x)
  <2>1. PICK a \in 1 .. Len(s) : s[a] = v
    BY <1>5 DEF In
  <2> QED
    BY <1>1, <1>2, <1>3, <2>1 DEF Before
<1> QED
  BY <1>4, <1>5

(* The first taken off: who is left keeps the order.                       *)
LEMMA OrderBehindTheFirst ==
  ASSUME NEW p \in Seq(Worker), NEW q \in Seq(Worker), p # <<>>,
         NEW v, NEW w, v # Head(p), Before(p \o q, v, w)
  PROVE  Before(Tail(p) \o q, v, w)
<1>1. PICK a \in 1 .. Len(p \o q), b \in 1 .. Len(p \o q) :
        a < b /\ (p \o q)[a] = v /\ (p \o q)[b] = w
  BY DEF Before
<1>2. /\ Tail(p) \in Seq(Worker) /\ Len(p) \in Nat \ {0} /\ Len(Tail(p)) = Len(p) - 1
      /\ \A i \in 1 .. Len(p) - 1 : Tail(p)[i] = p[i + 1]
      /\ Head(p) = p[1]
  BY Beheading
<1>3. /\ Len(q) \in Nat /\ Len(p \o q) = Len(p) + Len(q)
      /\ Len(Tail(p) \o q) = (Len(p) - 1) + Len(q)
      /\ (p \o q)[1] = p[1]
  <2>1. /\ Len(q) \in Nat /\ Len(p \o q) = Len(p) + Len(q)
        /\ \A i \in 1 .. Len(p) : (p \o q)[i] = p[i]
    BY Concatenating
  <2>2. Len(Tail(p) \o q) = Len(Tail(p)) + Len(q)
    BY <1>2, Concatenating
  <2> QED
    BY <1>2, <2>1, <2>2
<1>4. 1 < a /\ 1 < b
  BY <1>1, <1>2, <1>3
<1>5. ASSUME NEW i \in 1 .. Len(p) + Len(q), 1 < i
      PROVE  i - 1 \in 1 .. (Len(p) - 1) + Len(q) /\ (Tail(p) \o q)[i - 1] = (p \o q)[i]
  <2>1. i - 1 \in 1 .. (Len(p) - 1) + Len(q)
    BY <1>2, <1>3, <1>5
  <2>2. CASE i \in 1 .. Len(p)
    <3>1. i - 1 \in 1 .. Len(Tail(p)) /\ Tail(p)[i - 1] = p[i]
      BY <1>2, <1>5, <2>2
    <3>2. (Tail(p) \o q)[i - 1] = Tail(p)[i - 1] /\ (p \o q)[i] = p[i]
      BY <1>2, <2>2, <3>1, Concatenating
    <3> QED
      BY <2>1, <3>1, <3>2
  <2>3. CASE i \notin 1 .. Len(p)
    <3>1. /\ i \in Len(p) + 1 .. Len(p) + Len(q)
          /\ i - 1 \in Len(Tail(p)) + 1 .. Len(Tail(p)) + Len(q)
          /\ i - 1 - Len(Tail(p)) = i - Len(p)
      BY <1>2, <1>3, <2>3
    <3>2. (p \o q)[i] = q[i - Len(p)]
      BY <3>1, Concatenating
    <3>3. (Tail(p) \o q)[i - 1] = q[i - 1 - Len(Tail(p))]
      BY <1>2, <3>1, Concatenating
    <3> QED
      BY <2>1, <3>1, <3>2, <3>3
  <2> QED
    BY <2>2, <2>3
<1>6. a - 1 < b - 1
  BY <1>1, <1>3
<1> QED
  BY <1>1, <1>3, <1>4, <1>5, <1>6 DEF Before

(* Who is first of the line has nobody before it.                          *)
LEMMA NobodyBeforeTheFirst ==
  ASSUME NEW p \in Seq(Worker), NEW q \in Seq(Worker), p # <<>>, NoneTwice(p),
         \A x \in Worker : In(q, x) => ~In(p, x), NEW v
  PROVE  ~Before(p \o q, v, Head(p))
<1> SUFFICES ASSUME Before(p \o q, v, Head(p)) PROVE FALSE
  OBVIOUS
<1>1. PICK a \in 1 .. Len(p \o q), b \in 1 .. Len(p \o q) :
        a < b /\ (p \o q)[b] = Head(p)
  BY DEF Before
<1>2. /\ Len(p) \in Nat \ {0} /\ Head(p) = p[1] /\ p[1] \in Worker /\ 1 \in 1 .. Len(p)
  BY Beheading
<1>3. Len(p \o q) = Len(p) + Len(q) /\ Len(q) \in Nat
  BY PlacesInBoth
<1>4. \/ b \in 1 .. Len(p) /\ (p \o q)[b] = p[b]
      \/ b - Len(p) \in 1 .. Len(q) /\ (p \o q)[b] = q[b - Len(p)]
  BY <1>3, PlacesInBoth
<1>5. 1 < b
  BY <1>1, <1>3
<1>6. CASE b \in 1 .. Len(p) /\ (p \o q)[b] = p[b]
  BY <1>1, <1>2, <1>5, <1>6 DEF NoneTwice
<1>7. CASE b - Len(p) \in 1 .. Len(q) /\ (p \o q)[b] = q[b - Len(p)]
  <2>1. In(q, Head(p)) /\ In(p, Head(p))
    BY <1>1, <1>2, <1>7 DEF In
  <2> QED
    BY <1>2, <2>1
<1> QED
  BY <1>4, <1>6, <1>7

(* What the invariant says of those who wait for a permit.                 *)
LEMMA PermitLines ==
  ASSUME IInv
  PROVE  /\ Woken \in Seq(Worker) /\ NoneTwice(Woken)
         /\ semaphore.waiting \in Seq(Worker) /\ NoneTwice(semaphore.waiting)
         /\ PermitLine \in Seq(Worker)
         /\ \A v \in Worker : In(semaphore.waiting, v) => ~In(Woken, v)
         /\ \A v \in Worker :
              worker[v].at = "acquire" => In(semaphore.waiting, v) \/ In(Woken, v)
         /\ askers \in Seq(Worker)
<1>1. TypeOK /\ Consistent(Places, Lists, Woken)
  BY DEF IInv, OneWayBack
<1>2. /\ Woken \in Seq(Worker) /\ semaphore.waiting \in Seq(Worker)
      /\ askers \in Seq(Worker)
  BY <1>1, Lined DEF TypeOK, Semaphore
<1>3. "acquire" \in Awaiting /\ "acquire" # "sleep"
  BY DEF Awaiting
<1>4. /\ NoneTwice(Woken) /\ NoneTwice(semaphore.waiting)
      /\ \A v \in Worker :
           /\ In(semaphore.waiting, v) => ~In(Woken, v)
           /\ worker[v].at = "acquire" => In(semaphore.waiting, v) \/ In(Woken, v)
  BY <1>1, <1>3, Standing DEF Consistent
<1>5. PermitLine \in Seq(Worker)
  BY <1>2, PlacesInBoth DEF PermitLine
<1> QED
  BY <1>2, <1>4, <1>5

(* Whom the microtask queue wakes is who its records name.                 *)
LEMMA WokenAre ==
  ASSUME NEW way \in Seq(Outcome)
  PROVE  /\ Who(way) \in Seq(Worker) /\ Len(Who(way)) = Len(way)
         /\ \A i \in 1 .. Len(way) : Who(way)[i] = way[i].who
<1>1. \A r \in Outcome : r.who \in Worker
  BY DEF Outcome
<1> QED
  BY <1>1, WhoIs

(* A step in which nobody asks and nobody enters, and which puts no one    *)
(* before those already woken.                                             *)
LEMMA NobodyAsks ==
  ASSUME IInv, IInv', InTurn,
         askers' = askers, semaphore'.waiting = semaphore.waiting,
         Len(ready) <= Len(ready'), \A i \in 1 .. Len(ready) : ready'[i] = ready[i],
         \A v \in Worker : worker'[v].at = "acquire" <=> worker[v].at = "acquire"
  PROVE  InTurn'
<1>1. /\ ready \in Seq(Outcome) /\ ready' \in Seq(Outcome)
      /\ semaphore.waiting \in Seq(Worker)
  BY DEF IInv, TypeOK, Semaphore
<1>2. /\ Woken \in Seq(Worker) /\ Woken' \in Seq(Worker)
      /\ Len(Woken) <= Len(Woken')
      /\ \A i \in 1 .. Len(Woken) : Woken'[i] = Woken[i]
  <2>1. /\ Who(ready) \in Seq(Worker) /\ Len(Who(ready)) = Len(ready)
        /\ \A i \in 1 .. Len(ready) : Who(ready)[i] = ready[i].who
        /\ Who(ready') \in Seq(Worker) /\ Len(Who(ready')) = Len(ready')
        /\ \A i \in 1 .. Len(ready') : Who(ready')[i] = ready'[i].who
    BY <1>1, WokenAre
  <2>2. \A i \in 1 .. Len(ready) : i \in 1 .. Len(ready')
    BY <1>1
  <2> QED
    BY <2>1, <2>2 DEF Woken
<1>3. PermitLine = Woken \o semaphore.waiting /\ PermitLine' = Woken' \o semaphore.waiting
  BY DEF PermitLine
<1>4. ASSUME NEW v, NEW w, Before(PermitLine, v, w)
      PROVE  Before(PermitLine', v, w)
  BY <1>1, <1>2, <1>3, <1>4, OrderWithMore
<1>5. \A i, j \in 1 .. Len(askers) : i < j => Before(PermitLine', askers[i], askers[j])
  BY <1>4 DEF InTurn
<1>6. InTurn' <=> /\ NoneTwice(askers)
                  /\ \A v \in Worker : In(askers, v) <=> worker'[v].at = "acquire"
                  /\ \A i, j \in 1 .. Len(askers) :
                       i < j => Before(PermitLine', askers[i], askers[j])
  BY DEF InTurn
<1> QED
  BY <1>5, <1>6 DEF InTurn

(* A list with more behind it.                                             *)
LEMMA GoesOnBehind ==
  ASSUME NEW way \in Seq(Outcome), NEW more \in Seq(Outcome)
  PROVE  /\ Len(way) <= Len(way \o more)
         /\ \A i \in 1 .. Len(way) : (way \o more)[i] = way[i]
<1>1. Len(way) \in Nat /\ Len(more) \in Nat /\ Len(way \o more) = Len(way) + Len(more)
  BY Concatenating
<1> QED
  BY <1>1, Concatenating

(* The worker that runs stands behind everyone who asked before it.        *)
LEMMA AsksLast ==
  ASSUME IInv, IInv', InTurn, NEW w \in Worker, acquire(w)
  PROVE  InTurn'
<1>1. /\ Runs(w) /\ askers' = Append(askers, w) /\ askers \in Seq(Worker)
      /\ worker \in WorkerType /\ worker' = [worker EXCEPT ![w].at = "acquire"]
  BY DEF acquire, Awaits, At, IInv, TypeOK, WorkerType
<1>2. worker[w].at = "runs"
  BY <1>1, OnTop DEF Runs, IInv
<1>3. \A v \in Worker : worker'[v].at = IF v = w THEN "acquire" ELSE worker[v].at
  BY <1>1 DEF WorkerType
<1>4. PermitLine' = Append(PermitLine, w)
  <2>1. /\ Woken \in Seq(Worker) /\ semaphore.waiting \in Seq(Worker)
    BY PermitLines
  <2>2. CASE semaphore.free > 0
    <3>1. semaphore' = [semaphore EXCEPT !.free = @ - 1] /\ ready' = ready \o <<Wake(w, 0)>>
      BY <2>2 DEF acquire, Awaits
    <3>2. semaphore'.waiting = semaphore.waiting
      BY <3>1 DEF IInv, TypeOK, Semaphore
    <3>3. semaphore.waiting = <<>>
      BY <2>2 DEF IInv, PermitsKept
    <3>4. Woken' = Append(Woken, w)
      BY <3>1, Settling DEF IInv, Woken
    <3>5. PermitLine' = Append(Woken, w) \o <<>> /\ PermitLine = Woken \o <<>>
      BY <3>2, <3>3, <3>4 DEF PermitLine
    <3> QED
      BY <2>1, <3>5
  <2>3. CASE ~(semaphore.free > 0)
    <3>1. /\ semaphore' = [semaphore EXCEPT !.waiting = Append(@, w)]
          /\ ready' = ready \o <<>>
      BY <2>3 DEF acquire, Awaits
    <3>2. semaphore'.waiting = Append(semaphore.waiting, w)
      BY <3>1 DEF IInv, TypeOK, Semaphore
    <3>3. Woken' = Woken
      BY <3>1, Settling DEF IInv, Woken
    <3>4. PermitLine' = Woken \o Append(semaphore.waiting, w)
      BY <3>2, <3>3 DEF PermitLine
    <3>5. \A p, q \in Seq(Worker) : p \o Append(q, w) = Append(p \o q, w)
      OBVIOUS
    <3> QED
      BY <2>1, <3>4, <3>5 DEF PermitLine
  <2> QED
    BY <2>2, <2>3
<1>5. ~In(askers, w) /\ NoneTwice(askers)
  BY <1>2 DEF InTurn
<1>6. /\ NoneTwice(Append(askers, w))
      /\ \A v \in Worker : In(Append(askers, w), v) <=> In(askers, v) \/ v = w
  BY <1>1, <1>5, InAppend
<1>7. \A v \in Worker : In(Append(askers, w), v) <=> worker'[v].at = "acquire"
  BY <1>3, <1>6 DEF InTurn
<1>8. ASSUME NEW i \in 1 .. Len(askers) + 1, NEW j \in 1 .. Len(askers) + 1, i < j
      PROVE  Before(Append(PermitLine, w), Append(askers, w)[i], Append(askers, w)[j])
  <2>1. /\ Len(askers) \in Nat /\ i \in 1 .. Len(askers) /\ askers[i] \in Worker
        /\ Append(askers, w)[i] = askers[i]
    BY <1>1, <1>8
  <2>2. PermitLine \in Seq(Worker)
    BY PermitLines
  <2>3. CASE j \in 1 .. Len(askers)
    <3>1. Append(askers, w)[j] = askers[j] /\ askers[j] \in Worker
      BY <1>1, <2>3
    <3>2. Before(PermitLine, askers[i], askers[j])
      BY <1>8, <2>1, <2>3 DEF InTurn
    <3> QED
      BY <2>1, <2>2, <3>1, <3>2, OrderAtTheEnd
  <2>4. CASE j \notin 1 .. Len(askers)
    <3>1. Append(askers, w)[j] = w
      BY <1>1, <1>8, <2>1, <2>4
    <3>2. worker[askers[i]].at = "acquire"
      BY <2>1 DEF InTurn, In
    <3>3. In(PermitLine, askers[i])
      <4>1. In(semaphore.waiting, askers[i]) \/ In(Woken, askers[i])
        BY <2>1, <3>2, PermitLines
      <4> QED
        BY <2>1, <4>1, PermitLines, InConcat DEF PermitLine
    <3> QED
      BY <2>1, <2>2, <3>1, <3>3, OrderAtTheEnd
  <2> QED
    BY <2>3, <2>4
<1>9. Len(Append(askers, w)) = Len(askers) + 1
  BY <1>1
<1>10. InTurn' <=> /\ NoneTwice(Append(askers, w))
                   /\ \A v \in Worker : In(Append(askers, w), v) <=> worker'[v].at = "acquire"
                   /\ \A i, j \in 1 .. Len(Append(askers, w)) :
                        i < j => Before(Append(PermitLine, w), Append(askers, w)[i],
                                        Append(askers, w)[j])
  BY <1>1, <1>4 DEF InTurn
<1> QED
  BY <1>6, <1>7, <1>8, <1>9, <1>10

(* The head of the second list at the end of the first.                    *)
LEMMA HeadMovesOver ==
  ASSUME NEW p \in Seq(Worker), NEW q \in Seq(Worker), q # <<>>
  PROVE  Append(p, Head(q)) \o Tail(q) = p \o q
<1> DEFINE n == Len(p)
<1> DEFINE m == Len(q)
<1> DEFINE s == Append(p, Head(q))
<1> DEFINE t == Tail(q)
<1>1. /\ t \in Seq(Worker) /\ m \in Nat \ {0} /\ Len(t) = m - 1
      /\ \A i \in 1 .. m - 1 : t[i] = q[i + 1]
      /\ Head(q) = q[1] /\ q[1] \in Worker
  BY Beheading
<1>2. /\ s \in Seq(Worker) /\ Len(s) = n + 1 /\ n \in Nat
      /\ (\A i \in 1 .. n : s[i] = p[i]) /\ s[n + 1] = q[1]
  BY <1>1, Appending
<1> HIDE DEF n, m, s, t
<1>3. /\ s \o t \in Seq(Worker) /\ Len(s \o t) = n + m
      /\ \A i \in 1 .. n + 1 : (s \o t)[i] = s[i]
      /\ \A i \in n + 2 .. n + m : (s \o t)[i] = t[i - (n + 1)]
  <2>1. /\ s \o t \in Seq(Worker) /\ Len(s \o t) = Len(s) + Len(t)
        /\ \A i \in 1 .. Len(s) : (s \o t)[i] = s[i]
        /\ \A i \in Len(s) + 1 .. Len(s) + Len(t) : (s \o t)[i] = t[i - Len(s)]
    <3>1. s \in Seq(Worker) /\ t \in Seq(Worker)
      BY <1>1, <1>2
    <3> QED
      BY <3>1, WorkersConcatenated, Zenon
  <2>2. Len(s) + 1 = n + 2 /\ Len(s) + Len(t) = n + m
    BY <1>1, <1>2
  <2> QED
    BY <1>2, <2>1, <2>2
<1>4. /\ p \o q \in Seq(Worker) /\ Len(p \o q) = n + m
      /\ \A i \in 1 .. n : (p \o q)[i] = p[i]
      /\ \A i \in n + 1 .. n + m : (p \o q)[i] = q[i - n]
  BY Concatenating DEF n, m
<1>5. ASSUME NEW i \in 1 .. n + m
      PROVE  (s \o t)[i] = (p \o q)[i]
  <2>1. CASE i \in 1 .. n
    <3>1. i \in 1 .. n + 1
      BY <1>2, <2>1
    <3> QED
      BY <1>2, <1>3, <1>4, <2>1, <3>1
  <2>2. CASE i = n + 1
    <3>1. i \in 1 .. n + 1 /\ i \in n + 1 .. n + m /\ i - n = 1
      BY <1>1, <1>2, <2>2
    <3>2. (s \o t)[i] = q[1]
      BY <1>2, <1>3, <2>2, <3>1
    <3>3. (p \o q)[i] = q[1]
      BY <1>4, <3>1
    <3> QED
      BY <3>2, <3>3
  <2>3. CASE i \in n + 2 .. n + m
    <3>1. /\ i \in n + 1 .. n + m /\ i - (n + 1) \in 1 .. m - 1
          /\ (i - (n + 1)) + 1 = i - n
      BY <1>1, <1>2, <2>3
    <3>2. (s \o t)[i] = q[i - n]
      BY <1>1, <1>3, <2>3, <3>1
    <3> QED
      BY <1>4, <3>1, <3>2
  <2>4. i \in 1 .. n \/ i = n + 1 \/ i \in n + 2 .. n + m
    <3>1. n \in Nat /\ m \in Nat
      BY <1>1, <1>2
    <3> QED
      BY <3>1
  <2> QED
    BY <2>1, <2>2, <2>3, <2>4
<1>6. s \o t = p \o q
  BY <1>3, <1>4, <1>5, SameSequence
<1> QED
  BY <1>6 DEF s, t

(* A permit handed over: its new holder goes from the head of one list to  *)
(* the end of the other.                                                   *)
LEMMA HandsOverInTurn ==
  ASSUME IInv, IInv', InTurn, NEW w \in Worker, release(w)
  PROVE  InTurn'
<1>1. /\ Runs(w) /\ worker \in WorkerType
      /\ worker' = [worker EXCEPT ![w].holds = FALSE] /\ askers' = askers
  BY DEF release, history, IInv, TypeOK, WorkerType
<1>2. \A v \in Worker : worker'[v].at = worker[v].at
  BY <1>1 DEF WorkerType
<1>3. /\ Woken \in Seq(Worker) /\ semaphore.waiting \in Seq(Worker)
      /\ semaphore \in Semaphore
  BY PermitLines DEF IInv, TypeOK
<1>4. CASE semaphore.waiting # <<>>
  <2>1. /\ semaphore' = [semaphore EXCEPT !.waiting = Tail(@)]
        /\ ready' = ready \o <<Wake(Head(semaphore.waiting), 0)>>
    BY <1>4 DEF release, GoesOn
  <2>2. semaphore'.waiting = Tail(semaphore.waiting) /\ Head(semaphore.waiting) \in Worker
    BY <1>3, <1>4, <2>1, Beheading DEF Semaphore
  <2>3. Woken' = Append(Woken, Head(semaphore.waiting))
    BY <2>1, <2>2, Settling DEF IInv, Woken
  <2>4. PermitLine' = PermitLine
    BY <1>3, <1>4, <2>2, <2>3, HeadMovesOver DEF PermitLine
  <2> QED
    BY <1>1, <1>2, <2>4 DEF InTurn
<1>5. CASE semaphore.waiting = <<>>
  <2>1. semaphore' = [semaphore EXCEPT !.free = @ + 1] /\ ready' = ready \o <<>>
    BY <1>5 DEF release, GoesOn
  <2>2. semaphore'.waiting = semaphore.waiting
    BY <1>3, <2>1 DEF Semaphore
  <2>3. ready' = ready
    BY <2>1 DEF IInv, TypeOK
  <2> QED
    BY <1>1, <1>2, <2>2, <2>3 DEF InTurn, PermitLine, Woken
<1> QED
  BY <1>4, <1>5

(* Whoever goes on with a permit is the first of those who asked.          *)
LEMMA FirstAskerEnters ==
  ASSUME IInv, InTurn, resume, worker[Head(ready).who].at = "acquire"
  PROVE  Head(askers) = Head(ready).who /\ askers # <<>> /\ askers' = Tail(askers)
<1> DEFINE w == Head(ready).who
<1>1. PICK i \in 1 .. Len(askers) :
        /\ askers[i] = w
        /\ askers' = SubSeq(askers, 1, i - 1) \o SubSeq(askers, i + 1, Len(askers))
  BY DEF resume
<1>2. askers \in Seq(Worker) /\ Len(askers) \in Nat \ {0} /\ 1 \in 1 .. Len(askers)
  BY <1>1, PermitLines
<1>3. Woken # <<>> /\ Head(Woken) = w
  <2>1. ready \in Seq(Outcome) /\ ready # <<>> /\ \A r \in Outcome : r.who \in Worker
    BY DEF resume, IInv, TypeOK, Outcome
  <2> QED
    BY <2>1, WhoOfTail DEF Woken
<1> HIDE DEF w
<1>4. ~Before(PermitLine, askers[1], w)
  BY <1>3, PermitLines, NobodyBeforeTheFirst DEF PermitLine
<1>5. i = 1
  <2> SUFFICES ASSUME 1 < i PROVE FALSE
    BY <1>2
  <2>1. Before(PermitLine, askers[1], askers[i])
    BY <1>2 DEF InTurn
  <2> QED
    BY <1>1, <1>4, <2>1
<1>6. askers' = SubSeq(askers, 1, 0) \o SubSeq(askers, 2, Len(askers))
  BY <1>1, <1>5
<1>7. \A s \in Seq(Worker) : s # <<>> => SubSeq(s, 1, 0) \o SubSeq(s, 2, Len(s)) = Tail(s)
  OBVIOUS
<1>8. askers # <<>> /\ Head(askers) = askers[1]
  BY <1>2, Beheading
<1> QED
  BY <1>1, <1>2, <1>5, <1>6, <1>7, <1>8 DEF w

LEMMA ResumesInTurn ==
  ASSUME IInv, IInv', InTurn, resume
  PROVE  InTurn'
<1> DEFINE w == Head(ready).who
<1>1. /\ ready \in Seq(Outcome) /\ ready # <<>> /\ \A r \in Outcome : r.who \in Worker
      /\ ready' = Tail(ready) /\ semaphore' = semaphore
      /\ worker \in WorkerType
      /\ worker' = [worker EXCEPT ![w].at = "runs",
                                  ![w].holds = @ \/ worker[w].at = "acquire"]
  BY DEF resume, IInv, TypeOK, Outcome, WorkerType
<1>2. /\ Woken' = Tail(Woken) /\ Woken # <<>> /\ Head(Woken) = w
  BY <1>1, WhoOfTail DEF Woken
<1>3. w \in Worker
  BY <1>2, PermitLines, Beheading
<1>4. \A v \in Worker : worker'[v].at = IF v = w THEN "runs" ELSE worker[v].at
  BY <1>1, <1>3 DEF WorkerType
<1> HIDE DEF w
<1>5. ASSUME NEW v, NEW x, v # w, Before(PermitLine, v, x)
      PROVE  Before(PermitLine', v, x)
  <2>1. PermitLine = Woken \o semaphore.waiting /\ PermitLine' = Tail(Woken) \o semaphore.waiting
    BY <1>1, <1>2 DEF PermitLine
  <2> QED
    BY <1>2, <1>5, <2>1, PermitLines, OrderBehindTheFirst
<1>6. CASE worker[w].at = "acquire"
  <2>1. askers' = Tail(askers) /\ askers # <<>> /\ Head(askers) = w
    BY <1>6, FirstAskerEnters DEF w
  <2>2. askers \in Seq(Worker) /\ NoneTwice(askers)
    BY PermitLines DEF InTurn
  <2>3. /\ Len(askers) \in Nat \ {0} /\ Len(Tail(askers)) = Len(askers) - 1
        /\ \A i \in 1 .. Len(askers) - 1 : Tail(askers)[i] = askers[i + 1]
        /\ askers[1] = w
    BY <2>1, <2>2, Beheading
  <2>4. /\ NoneTwice(Tail(askers))
        /\ \A v \in Worker : In(Tail(askers), v) <=> (In(askers, v) /\ v # w)
    BY <2>1, <2>2, InTail
  <2>5. \A v \in Worker : In(Tail(askers), v) <=> worker'[v].at = "acquire"
    BY <1>4, <2>4 DEF InTurn
  <2>6. ASSUME NEW i \in 1 .. Len(askers) - 1, NEW j \in 1 .. Len(askers) - 1, i < j
        PROVE  Before(PermitLine', Tail(askers)[i], Tail(askers)[j])
    <3>1. /\ i + 1 \in 1 .. Len(askers) /\ j + 1 \in 1 .. Len(askers)
          /\ 1 \in 1 .. Len(askers) /\ i + 1 < j + 1 /\ 1 < i + 1
      BY <2>3, <2>6
    <3>2. Before(PermitLine, askers[i + 1], askers[j + 1])
      BY <3>1 DEF InTurn
    <3>3. askers[i + 1] # w
      BY <2>2, <2>3, <3>1 DEF NoneTwice
    <3> QED
      BY <1>5, <2>3, <3>2, <3>3
  <2>7. InTurn' <=> /\ NoneTwice(Tail(askers))
                    /\ \A v \in Worker : In(Tail(askers), v) <=> worker'[v].at = "acquire"
                    /\ \A i, j \in 1 .. Len(Tail(askers)) :
                         i < j => Before(PermitLine', Tail(askers)[i], Tail(askers)[j])
    BY <2>1 DEF InTurn
  <2> QED
    BY <2>3, <2>4, <2>5, <2>6, <2>7
<1>7. CASE worker[w].at # "acquire"
  <2>1. askers' = askers
    BY <1>7 DEF resume, w
  <2>2. \A v \in Worker : worker'[v].at = "acquire" <=> worker[v].at = "acquire"
    BY <1>4, <1>7
  <2>3. \A i \in 1 .. Len(askers) : askers[i] # w
    <3>1. ~In(askers, w)
      BY <1>3, <1>7 DEF InTurn
    <3> QED
      BY <3>1 DEF In
  <2>4. \A i, j \in 1 .. Len(askers) : i < j => Before(PermitLine', askers[i], askers[j])
    BY <1>5, <2>3 DEF InTurn
  <2> QED
    BY <2>1, <2>2, <2>4 DEF InTurn
<1> QED
  BY <1>6, <1>7

(* What the worker that runs awaits, unless it is a permit, or settles for *)
(* others.                                                                 *)
LEMMA AwaitsInTurn ==
  ASSUME IInv, IInv', InTurn, NEW w \in Worker, Runs(w),
         NEW place \in (Awaiting \cup {"idle"}) \ {"acquire"}, NEW settled \in Seq(Outcome),
         Awaits(w, place, settled), semaphore' = semaphore, askers' = askers
  PROVE  InTurn'
<1>1. /\ worker[w].at = "runs" /\ worker \in WorkerType
      /\ worker' = [worker EXCEPT ![w].at = place] /\ ready' = ready \o settled
      /\ ready \in Seq(Outcome)
  BY OnTop DEF Runs, IInv, TypeOK, WorkerType, Awaits, At
<1>2. \A v \in Worker : worker'[v].at = "acquire" <=> worker[v].at = "acquire"
  BY <1>1 DEF WorkerType
<1>3. Len(ready) <= Len(ready') /\ \A i \in 1 .. Len(ready) : ready'[i] = ready[i]
  BY <1>1, GoesOnBehind
<1> QED
  BY <1>2, <1>3, NobodyAsks

LEMMA GoesOnInTurn ==
  ASSUME IInv, IInv', InTurn, NEW settled \in Seq(Outcome), GoesOn(settled),
         \A v \in Worker : worker'[v].at = worker[v].at,
         semaphore' = semaphore, askers' = askers
  PROVE  InTurn'
<1>1. ready' = ready \o settled /\ ready \in Seq(Outcome)
  BY DEF GoesOn, IInv, TypeOK
<1>2. Len(ready) <= Len(ready') /\ \A i \in 1 .. Len(ready) : ready'[i] = ready[i]
  BY <1>1, GoesOnBehind
<1> QED
  BY <1>2, NobodyAsks

(* The other primitives.                                                   *)
LEMMA OthersInTurn ==
  ASSUME IInv, IInv', InTurn, NEW w \in Worker,
         add(w) \/ done(w) \/ wait(w) \/ send(w) \/ receive(w) \/ close(w) \/ sleep(w) \/ end(w)
  PROVE  InTurn'
<1>1. /\ TypeOK /\ worker \in WorkerType
      /\ <<>> \in Seq(Outcome) /\ Runs(w)
      /\ semaphore' = semaphore /\ askers' = askers
  BY DEF IInv, TypeOK, WorkerType, add, done, wait, send, receive, close, sleep, end, history
<1>2. /\ group.waiting \in Seq(Worker) /\ channel.receivers \in Seq(Worker)
      /\ channel.senders \in Seq(Sender) /\ channel.queue \in Seq(Nat) /\ sent \in Nat
  BY <1>1, SyncAssumption DEF TypeOK, WaitGroup, Channel
<1>3. /\ {"wait", "send", "receive", "sleep"} \subseteq Awaiting \ {"acquire"}
      /\ "idle" \notin {"acquire"}
  BY DEF Awaiting
<1>4. \A a \in Worker, x \in Nat : <<Wake(a, x)>> \in Seq(Outcome)
  BY <1>1, Settling
<1>5. \A a, b \in Worker, x, y \in Nat : <<Wake(a, x), Wake(b, y)>> \in Seq(Outcome)
  BY <1>1, Settling
<1>6. ASSUME NEW settled \in Seq(Outcome), GoesOn(settled),
             worker' = worker \/ \E b \in BOOLEAN : worker' = [worker EXCEPT ![w].counted = b]
      PROVE  InTurn'
  <2>1. \A v \in Worker : worker'[v].at = worker[v].at
    BY <1>1, <1>6 DEF WorkerType
  <2> QED
    BY <1>1, <1>6, <2>1, GoesOnInTurn
<1>7. CASE add(w)
  BY <1>1, <1>6, <1>7 DEF add
<1>8. CASE done(w)
  <2>1. WakeAll(group.waiting) \in Seq(Outcome)
    BY <1>2, TellingAll
  <2>2. worker' = [worker EXCEPT ![w].counted = FALSE]
    BY <1>8 DEF done
  <2>3. GoesOn(<<>>) \/ GoesOn(WakeAll(group.waiting))
    BY <1>8 DEF done
  <2> QED
    BY <1>1, <1>6, <2>1, <2>2, <2>3
<1>9. CASE wait(w)
  <2>1. Awaits(w, "wait", <<Wake(w, 0)>>) \/ Awaits(w, "wait", <<>>)
    BY <1>9 DEF wait
  <2> QED
    BY <1>1, <1>3, <1>4, <2>1, AwaitsInTurn
<1>10. CASE send(w)
  <2>1. CASE channel.receivers # <<>>
             /\ Awaits(w, "send", <<Wake(Head(channel.receivers), sent + 1), Wake(w, 0)>>)
    <3>1. Head(channel.receivers) \in Worker
      BY <1>2, <2>1
    <3>2. <<Wake(Head(channel.receivers), sent + 1), Wake(w, 0)>> \in Seq(Outcome)
      BY <1>2, <1>5, <3>1
    <3> QED
      BY <1>1, <1>3, <2>1, <3>2, AwaitsInTurn
  <2>2. CASE Awaits(w, "send", <<Wake(w, 0)>>) \/ Awaits(w, "send", <<>>)
    BY <1>1, <1>3, <1>4, <2>2, AwaitsInTurn
  <2> QED
    BY <1>10, <2>1, <2>2 DEF send, Sends
<1>11. CASE receive(w)
  <2>1. CASE channel.queue # <<>> /\ Awaits(w, "receive", <<Wake(w, Head(channel.queue))>>)
    <3>1. Head(channel.queue) \in Nat
      BY <1>2, <2>1
    <3> QED
      BY <1>1, <1>3, <1>4, <2>1, <3>1, AwaitsInTurn
  <2>2. CASE /\ channel.queue # <<>> /\ channel.senders # <<>>
             /\ Awaits(w, "receive", <<Wake(Head(channel.senders).who, 0),
                                       Wake(w, Head(channel.queue))>>)
    <3>0. channel.queue # <<>> /\ channel.senders # <<>>
      BY <2>2
    <3>1. Head(channel.queue) \in Nat
      BY <1>2, <3>0
    <3>2. Head(channel.senders) \in Sender
      BY <1>2, <3>0
    <3>3. Head(channel.senders).who \in Worker
      BY <3>2 DEF Sender
    <3>4. <<Wake(Head(channel.senders).who, 0), Wake(w, Head(channel.queue))>> \in Seq(Outcome)
      BY <1>5, <3>1, <3>3
    <3> QED
      BY <1>1, <1>3, <2>2, <3>4, AwaitsInTurn
  <2>3. CASE Awaits(w, "receive", <<Wake(w, 0)>>) \/ Awaits(w, "receive", <<>>)
    BY <1>1, <1>3, <1>4, <2>3, AwaitsInTurn
  <2> QED
    BY <1>11, <2>1, <2>2, <2>3 DEF receive
<1>12. CASE close(w)
  <2>1. /\ GoesOn(WakeAll(channel.receivers) \o WakeAll(Who(channel.senders)))
        /\ worker' = worker
    BY <1>12 DEF close
  <2>2. Who(channel.senders) \in Seq(Worker)
    <3>1. \A r \in Sender : r.who \in Worker
      BY DEF Sender
    <3> QED
      BY <1>2, <3>1, WhoIs
  <2>3. /\ WakeAll(channel.receivers) \in Seq(Outcome)
        /\ WakeAll(Who(channel.senders)) \in Seq(Outcome)
    BY <1>2, <2>2, TellingAll
  <2>4. WakeAll(channel.receivers) \o WakeAll(Who(channel.senders)) \in Seq(Outcome)
    BY <2>3, Concatenating
  <2> QED
    BY <1>6, <2>1, <2>4
<1>13. CASE sleep(w)
  BY <1>1, <1>3, <1>13, AwaitsInTurn DEF sleep
<1>14. CASE end(w)
  BY <1>1, <1>3, <1>14, AwaitsInTurn DEF end
<1> QED
  BY <1>7, <1>8, <1>9, <1>10, <1>11, <1>12, <1>13, <1>14

LEMMA NextKeepsInTurn ==
  ASSUME IInv, InTurn, [Next]_vars
  PROVE  InTurn'
<1>0. IInv'
  BY NextKeepsIInv
<1>1. CASE resume
  BY <1>0, <1>1, ResumesInTurn
<1>2. ASSUME NEW w \in Worker, wakeup(w) PROVE InTurn'
  <2>1. /\ ready = <<>> /\ semaphore' = semaphore /\ askers' = askers /\ worker' = worker
    BY <1>2 DEF wakeup, history
  <2>2. Len(ready) = 0 /\ Len(ready') \in Nat
    BY <1>0, <2>1 DEF IInv, TypeOK
  <2>3. Len(ready) <= Len(ready') /\ \A i \in 1 .. Len(ready) : ready'[i] = ready[i]
    BY <2>2
  <2> QED
    BY <1>0, <2>1, <2>3, NobodyAsks
<1>3. ASSUME NEW w \in Worker, start(w) PROVE InTurn'
  <2>1. /\ ready' = ready /\ semaphore' = semaphore /\ askers' = askers
        /\ worker \in WorkerType /\ worker[w].at = "idle"
        /\ worker' = [worker EXCEPT ![w].at = "runs"]
    BY <1>3 DEF start, At, history, IInv, TypeOK, WorkerType
  <2>2. \A v \in Worker : worker'[v].at = "acquire" <=> worker[v].at = "acquire"
    BY <2>1 DEF WorkerType
  <2> QED
    BY <2>1, <2>2 DEF InTurn, PermitLine, Woken
<1>4. ASSUME NEW w \in Worker, Works(w) PROVE InTurn'
  BY <1>0, <1>4, AsksLast, HandsOverInTurn, OthersInTurn DEF Works
<1>5. CASE UNCHANGED vars
  BY <1>5 DEF vars, InTurn, PermitLine, Woken
<1> QED
  BY <1>1, <1>2, <1>3, <1>4, <1>5 DEF Next, Loop

LEMMA InitInTurn == Init => InTurn
<1> SUFFICES ASSUME Init PROVE InTurn
  OBVIOUS
<1>1. askers = <<>> /\ \A w \in Worker : worker[w].at = "idle"
  BY DEF Init
<1> QED
  BY <1>1 DEF InTurn, NoneTwice, In

(* A permit goes only to the first of those who asked.                     *)
LEMMA EntersFirst ==
  ASSUME IInv, InTurn, [Next]_vars,
         NEW v \in Worker, ~worker[v].holds, worker'[v].holds
  PROVE  Head(askers) = v
<1>1. worker \in WorkerType
  BY DEF IInv, TypeOK, WorkerType
<1>2. ASSUME NEW w \in Worker, start(w) \/ Works(w) \/ wakeup(w) PROVE FALSE
  <2>1. \/ worker' = worker
        \/ \E p \in {"runs", "idle"} \cup Awaiting : worker' = [worker EXCEPT ![w].at = p]
        \/ \E b \in BOOLEAN : worker' = [worker EXCEPT ![w].counted = b]
        \/ worker' = [worker EXCEPT ![w].holds = FALSE]
    BY <1>2 DEF start, Works, wakeup, acquire, release, add, done, wait, send, Sends, receive,
                close, sleep, end, Awaits, At, Awaiting
  <2> QED
    BY <1>1, <2>1 DEF WorkerType
<1>3. ~UNCHANGED vars
  BY DEF vars
<1>4. resume
  BY <1>2, <1>3 DEF Next, Loop
<1>5. worker[Head(ready).who].at = "acquire" /\ v = Head(ready).who
  <2>1. worker' = [worker EXCEPT ![Head(ready).who].at = "runs",
                                 ![Head(ready).who].holds =
                                    @ \/ worker[Head(ready).who].at = "acquire"]
    BY <1>4 DEF resume
  <2> QED
    BY <1>1, <2>1 DEF WorkerType
<1> QED
  BY <1>4, <1>5, FirstAskerEnters

(* Semaphore and Mutex serve in the order of acquire(), whoever else is    *)
(* woken in between.                                                       *)
THEOREM FirstComeFirstServed == Spec => ServedInTurn
<1>1. Init => IInv /\ InTurn
  BY InitIInv, InitInTurn
<1>2. IInv /\ InTurn /\ [Next]_vars => (IInv /\ InTurn)'
  BY NextKeepsIInv, NextKeepsInTurn
<1>3. IInv /\ InTurn /\ [Next]_vars =>
        [\A w \in Worker : ~worker[w].holds /\ worker'[w].holds => Head(askers) = w]_vars
  BY EntersFirst
<1> QED
  BY <1>1, <1>2, <1>3, PTL DEF Spec, ServedInTurn

===============================================================================
