--------------------------- MODULE EventLoopProofs ---------------------------
(***************************************************************************)
(* Proofs about the promise heap and the event loop, for any number of     *)
(* promises, async calls, timers, values and calls.                        *)
(*                                                                         *)
(* The first half is about the heap: each operation of Promises leaves a   *)
(* heap that is well formed, in which nothing that was settled has changed *)
(* and no rejection nobody listens to has dropped off the watchdog's list  *)
(* (Sound).                                                                *)
(*                                                                         *)
(* The inductive invariant IInv of the loop says that the heap is well     *)
(* formed (nothing refers to a promise that is not allocated, settled      *)
(* promises have no reactions left, queued tasks carry the outcome of      *)
(* their promise), that the watchdog's list is complete, and how the       *)
(* thread and the heap fit together.  Every step changes the heap by       *)
(* operations of Promises, each of which is Sound; what is left for each   *)
(* action is that its arguments are what those lemmas ask for.  A section  *)
(* on the list of timers follows.                                          *)
(*                                                                         *)
(* The loop implements PromiseContract.  What has to be shown beyond IInv  *)
(* is that a listener is one thing: it stands once on the list of its      *)
(* promise or once in the queue, wherever settling, adopting and extra     *)
(* turns take it.                                                          *)
(*                                                                         *)
(* And whoever waits is waited for once.  Every reaction and microtask     *)
(* leads somewhere: to the async call it will wake, the promise it will    *)
(* settle or the combinator it will feed.  The invariant Waited counts the *)
(* entries that lead to each, and says what has the thread; OneWakeup,     *)
(* OneSettler, CombinatorOwes and HandlersInOrder are read off it.         *)
(***************************************************************************)
EXTENDS EventLoop, SequenceTheorems, FiniteSetTheorems, TLAPS

(* g is a heap that a step may leave where it found h.                     *)
Sound(h, g) ==
  /\ HeapOK(g)
  /\ Follows(h, g)
  /\ RejectionsWatched(h) => RejectionsWatched(g)

(* Every operation but Retire also leaves the queue as long as it was.     *)
Keeps(h, g) == Sound(h, g) /\ (h.queue # <<>> => g.queue # <<>>)

-----------------------------------------------------------------------------
(* Sequences.                                                              *)

(* A sequence with one more element is a sequence, and its old elements    *)
(* keep their places.                                                      *)
LEMMA Appending ==
  ASSUME NEW S, NEW s \in Seq(S), NEW e \in S
  PROVE  /\ Append(s, e) \in Seq(S)
         /\ Len(Append(s, e)) = Len(s) + 1
         /\ \A i \in 1 .. Len(s) : Append(s, e)[i] = s[i]
         /\ Append(s, e)[Len(s) + 1] = e
OBVIOUS

(* The reactions of a settled promise, turned into tasks, go to the end.   *)
LEMMA Concatenating ==
  ASSUME NEW S, NEW s \in Seq(S), NEW t \in Seq(S)
  PROVE  /\ s \o t \in Seq(S)
         /\ Len(s \o t) = Len(s) + Len(t)
         /\ \A i \in 1 .. Len(s) : (s \o t)[i] = s[i]
         /\ \A i \in 1 .. Len(t) : (s \o t)[Len(s) + i] = t[i]
OBVIOUS

(* A sequence written out as a function of its places.                     *)
LEMMA Listing ==
  ASSUME NEW S, NEW n \in Nat, NEW f \in [1 .. n -> S]
  PROVE  f \in Seq(S) /\ Len(f) = n
OBVIOUS

(* A task retired from the head moves the others up by one.                *)
LEMMA Retiring ==
  ASSUME NEW S, NEW s \in Seq(S), s # <<>>
  PROVE  /\ Tail(s) \in Seq(S)
         /\ Len(Tail(s)) = Len(s) - 1
         /\ \A i \in 1 .. Len(s) - 1 : Tail(s)[i] = s[i + 1]
         /\ s[1] \in S
OBVIOUS

-----------------------------------------------------------------------------
(* Heaps.                                                                  *)

(* What membership in Heap says, field by field.                           *)
LEMMA HeapFields ==
  ASSUME NEW h \in Heap
  PROVE  /\ h.made \in 0 .. MaxPromises
         /\ h.promise \in [Promise -> ObjPromise]
         /\ h.combine \in [Promise -> CombineState]
         /\ h.queue \in Seq(Microtask)
         /\ h.watched \in SUBSET Promise
         /\ Allocated(h) \subseteq Promise
  <1>1. h.made \in 0 .. MaxPromises
    BY DEF Heap
  <1>2. Allocated(h) \subseteq Promise
    BY <1>1, PromisesAssumption DEF Allocated, Promise
  <1> QED BY <1>1, <1>2 DEF Heap

(* One operation after another is as good as one.                          *)
LEMMA SoundTransitive ==
  ASSUME NEW h, NEW g, NEW k, Sound(h, g), Sound(g, k), h \in Heap
  PROVE  Sound(h, k)
  <1>1. h.made <= k.made
    <2>1. h.made \in Nat /\ g.made \in Nat /\ k.made \in Nat
      BY HeapFields, PromisesAssumption DEF Sound, HeapOK
    <2> QED BY <2>1 DEF Sound, Follows
  <1>2. \A p \in Promise : ~Pending(h, p) => ~Pending(g, p)
    BY DEF Sound, Follows, Outcome, Pending
  <1>3. \A p \in Promise : ~Pending(h, p) => Outcome(k, p) = Outcome(h, p)
    BY <1>2 DEF Sound, Follows
  <1> QED BY <1>1, <1>3 DEF Sound, Follows

LEMMA KeepsTransitive ==
  ASSUME NEW h, NEW g, NEW k, Keeps(h, g), Keeps(g, k), h \in Heap
  PROVE  Keeps(h, k)
  BY SoundTransitive DEF Keeps

LEMMA KeepsReflexive ==
  ASSUME NEW h, HeapOK(h)
  PROVE  Keeps(h, h)
  <1>1. h.made \in 0 .. MaxPromises
    BY HeapFields DEF HeapOK
  <1> QED BY <1>1, PromisesAssumption DEF Keeps, Sound, Follows

-----------------------------------------------------------------------------
(* Queueing a microtask.                                                   *)

(* A microtask that may stand in the queue of h.                           *)
TaskOK(h, t) ==
  /\ t \in Microtask
  /\ t.src <= h.made
  /\ RefersTo(h, t)
  /\ t.src # None => /\ ~Pending(h, t.src)
                     /\ t.argument = h.promise[t.src].value
                     /\ t.isRejection = Rejected(h, t.src)

(* The queue of a well-formed heap holds nothing else.                     *)
LEMMA QueueOK ==
  ASSUME NEW h, HeapOK(h), NEW i \in 1 .. Len(h.queue)
  PROVE  TaskOK(h, h.queue[i])
  <1>1. h.queue[i] \in Microtask
    BY HeapFields DEF HeapOK
  <1> QED BY <1>1 DEF HeapOK, RefsAllocated, TasksCarry, TaskOK

(* Tasks keep carrying the outcome while no outcome changes.               *)
LEMMA SameOutcomes ==
  ASSUME NEW h, HeapOK(h), NEW g, g.queue = h.queue,
         \A a \in Promise : Outcome(g, a) = Outcome(h, a)
  PROVE  TasksCarry(g)
  <1>1. \A a \in Promise : /\ g.promise[a].state = h.promise[a].state
                           /\ g.promise[a].value = h.promise[a].value
    BY DEF Outcome
  <1> SUFFICES ASSUME NEW i \in 1 .. Len(h.queue), h.queue[i].src # None
               PROVE  /\ ~Pending(g, h.queue[i].src)
                      /\ h.queue[i].argument = g.promise[h.queue[i].src].value
                      /\ h.queue[i].isRejection = Rejected(g, h.queue[i].src)
    BY DEF TasksCarry
  <1>2. TaskOK(h, h.queue[i])
    BY QueueOK
  <1>3. h.queue[i].src \in Promise
    BY <1>2 DEF TaskOK, Microtask
  <1> QED BY <1>1, <1>2, <1>3 DEF TaskOK, Pending, Rejected

LEMMA EnqueueKeeps ==
  ASSUME NEW h, HeapOK(h), NEW t, TaskOK(h, t)
  PROVE  /\ Keeps(h, csVMQueueMicrotask(h, t))
         /\ csVMQueueMicrotask(h, t).made = h.made
         /\ csVMQueueMicrotask(h, t).promise = h.promise
  <1> DEFINE g == csVMQueueMicrotask(h, t)
  <1>1. h \in Heap /\ t \in Microtask
    BY DEF HeapOK, TaskOK
  <1>2. /\ g.made = h.made /\ g.promise = h.promise /\ g.combine = h.combine
        /\ g.queue = Append(h.queue, t) /\ g.watched = h.watched
    BY <1>1 DEF csVMQueueMicrotask, Heap
  <1>3. g \in Heap
    <2>1. Append(h.queue, t) \in Seq(Microtask)
      BY <1>1, HeapFields, Appending
    <2> QED BY <1>1, <2>1 DEF csVMQueueMicrotask, Heap
  <1> HIDE DEF g
  <1>4. /\ Len(g.queue) = Len(h.queue) + 1 /\ Len(h.queue) \in Nat
        /\ \A i \in 1 .. Len(h.queue) : g.queue[i] = h.queue[i]
        /\ g.queue[Len(h.queue) + 1] = t
    BY <1>1, <1>2, HeapFields, Appending
  <1>5. \A i \in 1 .. Len(g.queue) : TaskOK(h, g.queue[i])
    <2> SUFFICES ASSUME NEW i \in 1 .. Len(g.queue) PROVE TaskOK(h, g.queue[i])
      OBVIOUS
    <2>1. CASE i \in 1 .. Len(h.queue)
      BY <2>1, <1>4, QueueOK
    <2>2. CASE i = Len(h.queue) + 1
      BY <2>2, <1>4
    <2> QED BY <2>1, <2>2, <1>4
  <1>6. RefsAllocated(g) /\ TasksCarry(g)
    BY <1>2, <1>5 DEF HeapOK, RefsAllocated, RefersTo, TasksCarry, TaskOK, Pending, Rejected
  <1>7. NoneWaitsOnSettled(g) /\ (RejectionsWatched(h) => RejectionsWatched(g))
    BY <1>2 DEF HeapOK, NoneWaitsOnSettled, RejectionsWatched, Pending, Rejected
  <1>8. Follows(h, g)
    <2>1. h.made \in Nat
      BY <1>1, HeapFields, PromisesAssumption
    <2> QED BY <1>2, <2>1 DEF Follows, Outcome
  <1>9. g.queue # <<>>
    BY <1>4
  <1>10. Keeps(h, g)
    BY <1>3, <1>6, <1>7, <1>8, <1>9 DEF Keeps, Sound, HeapOK
  <1> QED BY <1>2, <1>10 DEF g

(* The microtask settling a promise queues for one of its reactions.       *)
LEMMA TaskForOK ==
  ASSUME NEW r \in Reaction, NEW p \in Promise, NEW state \in Settled, NEW v \in Datum
  PROVE  LET t == TaskFor(p, state, v, r) IN
         /\ t \in Microtask
         /\ t.src = p /\ t.argument = v /\ t.isRejection = (state = "rejected")
         /\ t.result = r.result /\ t.combine = r.combine
  BY DEF TaskFor, Reaction, Microtask, Settled

(* It may stand in the queue once its promise is settled that way.         *)
LEMMA TaskForStands ==
  ASSUME NEW g, NEW r \in Reaction, NEW p \in Promise, NEW state \in Settled,
         NEW v \in Datum, p <= g.made, RefersTo(g, r),
         g.promise[p].state = state, g.promise[p].value = v
  PROVE  TaskOK(g, TaskFor(p, state, v, r))
  <1> DEFINE t == TaskFor(p, state, v, r)
  <1>1. /\ t \in Microtask
        /\ t.src = p /\ t.argument = v /\ t.isRejection = (state = "rejected")
        /\ t.result = r.result /\ t.combine = r.combine
    BY TaskForOK
  <1> HIDE DEF t
  <1>2. ~Pending(g, p) /\ Rejected(g, p) = (state = "rejected")
    BY DEF Pending, Rejected, Settled
  <1>3. TaskOK(g, t)
    BY <1>1, <1>2 DEF TaskOK, RefersTo
  <1> QED BY <1>3 DEF t

-----------------------------------------------------------------------------
(* Settling.  A promise that has settled stays as it is; a pending one     *)
(* gets its outcome, its reactions all become microtasks carrying it, and  *)
(* a rejection that nobody listens to goes on the watchdog's list.         *)
LEMMA SettleKeeps ==
  ASSUME NEW h, HeapOK(h), NEW p \in Allocated(h),
         NEW state \in Settled, NEW v \in Datum
  PROVE  /\ Keeps(h, settle(h, p, state, v))
         /\ settle(h, p, state, v).made = h.made
  <1> DEFINE o == h.promise[p]
             g == settle(h, p, state, v)
  <1>1. p \in Promise /\ h \in Heap /\ o \in ObjPromise
    BY HeapFields DEF HeapOK
  <1>2. CASE ~Pending(h, p)
    BY <1>2, KeepsReflexive DEF settle, Pending
  <1>3. CASE Pending(h, p)
    <2> DEFINE q == [o EXCEPT !.state = state, !.value = v, !.reactions = <<>>]
               tasks == [i \in 1 .. Len(o.reactions) |->
                           TaskFor(p, state, v, o.reactions[i])]
               w == IF state = "rejected" /\ ~o.handled THEN h.watched \cup {p}
                    ELSE h.watched
    <2>1. g = [h EXCEPT !.promise[p] = q, !.queue = h.queue \o tasks, !.watched = w]
      BY <1>1, <1>3 DEF settle, Pending, Heap
    <2>2. /\ q \in ObjPromise /\ q.state = state /\ q.value = v
          /\ q.reactions = <<>> /\ q.handled = o.handled
      <3>1. <<>> \in Seq(Reaction)
        OBVIOUS
      <3> QED BY <1>1, <3>1 DEF ObjPromise, Settled
    <2>3. /\ \A i \in 1 .. Len(o.reactions) : o.reactions[i] \in Reaction
          /\ Len(o.reactions) \in Nat
      BY <1>1 DEF ObjPromise
    <2>4. tasks \in Seq(Microtask) /\ Len(tasks) = Len(o.reactions)
      <3>1. \A i \in 1 .. Len(o.reactions) : tasks[i] \in Microtask
        BY <1>1, <2>3, TaskForOK
      <3>2. tasks \in [1 .. Len(o.reactions) -> Microtask]
        BY <3>1
      <3> HIDE DEF tasks
      <3> QED BY <2>3, <3>2, Listing
    <2>5. \A i \in 1 .. Len(tasks) : tasks[i] = TaskFor(p, state, v, o.reactions[i])
      BY <2>3, <2>4
    <2> HIDE DEF q, tasks
    <2>6. w \in SUBSET Promise
      BY <1>1, HeapFields
    <2>7. /\ g.made = h.made /\ g.combine = h.combine
          /\ g.promise = [h.promise EXCEPT ![p] = q]
          /\ g.queue = h.queue \o tasks /\ g.watched = w
          /\ h.queue \in Seq(Microtask) /\ h.promise \in [Promise -> ObjPromise]
      BY <1>1, <2>1 DEF Heap
    <2>8. h.queue \o tasks \in Seq(Microtask)
      BY <2>4, <2>7, Concatenating
    <2>9. g \in Heap
      <3>1. [h.promise EXCEPT ![p] = q] \in [Promise -> ObjPromise]
        BY <2>2, <2>7
      <3> HIDE DEF g, w
      <3> QED BY <1>1, <2>1, <2>6, <2>7, <2>8, <3>1 DEF Heap
    <2> HIDE DEF g, w
    <2>10. /\ Len(g.queue) = Len(h.queue) + Len(tasks)
           /\ Len(h.queue) \in Nat
           /\ \A i \in 1 .. Len(h.queue) : g.queue[i] = h.queue[i]
           /\ \A i \in 1 .. Len(tasks) : g.queue[Len(h.queue) + i] = tasks[i]
      <3>1. h.queue \in Seq(Microtask) /\ tasks \in Seq(Microtask)
        BY <2>4, <2>7
      <3>2. g.queue = h.queue \o tasks
        BY <2>7
      <3> QED BY <3>1, <3>2, Concatenating
    <2>11. /\ \A a \in Promise : a # p => g.promise[a] = h.promise[a]
           /\ g.promise[p] = q
           /\ ~Pending(g, p)
      BY <1>1, <2>2, <2>7 DEF Pending, Settled
    <2>12. \A i \in 1 .. Len(g.queue) : TaskOK(g, g.queue[i])
      <3> SUFFICES ASSUME NEW i \in 1 .. Len(g.queue) PROVE TaskOK(g, g.queue[i])
        OBVIOUS
      <3>1. CASE i \in 1 .. Len(h.queue)
        <4>1. TaskOK(h, g.queue[i])
          BY <3>1, <2>10, QueueOK
        <4>2. g.queue[i].src \in Promise \cup {None}
          BY <4>1 DEF TaskOK, Microtask
        <4>3. g.queue[i].src # p \/ ~Pending(h, p) \/ p = None
          BY <4>1 DEF TaskOK
        <4>4. p # None
          BY <1>1, PromisesAssumption DEF Promise, None
        <4>5. g.queue[i].src # None => g.promise[g.queue[i].src] = h.promise[g.queue[i].src]
          BY <1>3, <2>11, <4>2, <4>3, <4>4
        <4> QED BY <4>1, <4>5, <2>7 DEF TaskOK, RefersTo, Pending, Rejected
      <3>2. CASE i \notin 1 .. Len(h.queue)
        <4>1. PICK j \in 1 .. Len(tasks) : i = Len(h.queue) + j
          <5>1. Len(tasks) \in Nat /\ Len(h.queue) \in Nat
            BY <2>3, <2>4, <2>10
          <5>2. i \in 1 .. (Len(h.queue) + Len(tasks))
            BY <2>10
          <5>3. /\ i - Len(h.queue) \in 1 .. Len(tasks)
                /\ i = Len(h.queue) + (i - Len(h.queue))
            BY <3>2, <5>1, <5>2
          <5> QED BY <5>3
        <4>2. g.queue[i] = TaskFor(p, state, v, o.reactions[j]) /\ o.reactions[j] \in Reaction
          BY <4>1, <2>3, <2>4, <2>5, <2>10
        <4>3. RefersTo(h, o.reactions[j])
          BY <1>1, <2>4, <4>1 DEF HeapOK, RefsAllocated
        <4>4. p <= h.made
          BY DEF Allocated
        <4>5. RefersTo(g, o.reactions[j]) /\ p <= g.made
          BY <2>7, <4>3, <4>4 DEF RefersTo
        <4>6. g.promise[p].state = state /\ g.promise[p].value = v
          BY <2>2, <2>11
        <4> DEFINE r == o.reactions[j]
        <4>7. /\ r \in Reaction /\ RefersTo(g, r) /\ p \in Promise
              /\ state \in Settled /\ v \in Datum
          BY <1>1, <4>2, <4>5
        <4>8. g.queue[i] = TaskFor(p, state, v, r)
          BY <4>2
        <4> HIDE DEF r
        <4>9. TaskOK(g, TaskFor(p, state, v, r))
          BY <4>5, <4>6, <4>7, TaskForStands
        <4> QED BY <4>8, <4>9
                DEF TaskOK, RefersTo, Rejected
      <3> QED BY <3>1, <3>2
    <2>13. RefsAllocated(g) /\ TasksCarry(g)
      <3>1. \A a \in Promise : \A i \in 1 .. Len(g.promise[a].reactions) :
              RefersTo(g, g.promise[a].reactions[i])
        BY <1>1, <2>2, <2>7, <2>11 DEF HeapOK, RefsAllocated, RefersTo
      <3>2. \A a \in Promise : a > g.made => Pending(g, a)
        <4>1. ~(p > g.made)
          BY <1>1, <2>7, HeapFields, PromisesAssumption DEF Allocated, Promise
        <4> QED BY <4>1, <2>7, <2>11 DEF HeapOK, RefsAllocated, Pending
      <3> QED BY <2>12, <3>1, <3>2 DEF RefsAllocated, TasksCarry, TaskOK
    <2>14. NoneWaitsOnSettled(g)
      BY <2>2, <2>11 DEF HeapOK, NoneWaitsOnSettled, Pending
    <2>15. RejectionsWatched(h) => RejectionsWatched(g)
      BY <1>1, <2>2, <2>7, <2>11, <1>3 DEF RejectionsWatched, Rejected, Pending, w
    <2>16. Follows(h, g)
      BY <1>1, <1>3, <2>7, <2>11, HeapFields, PromisesAssumption DEF Follows, Outcome
    <2>17. h.queue # <<>> => g.queue # <<>>
      BY <2>3, <2>4, <2>7, <2>10
    <2>18. Keeps(h, g)
      BY <2>9, <2>13, <2>14, <2>15, <2>16, <2>17 DEF Keeps, Sound, HeapOK
    <2> QED BY <2>7, <2>18 DEF g
  <1> QED BY <1>2, <1>3

-----------------------------------------------------------------------------
(* A new promise is pending, and nothing refers to it yet.                 *)
LEMMA AllocateKeeps ==
  ASSUME NEW h, HeapOK(h), h.made + 1 <= MaxPromises, NEW maker \in Maker
  PROVE  LET g == Allocate(h, maker) IN
         /\ Keeps(h, g)
         /\ g.made = h.made + 1
         /\ Fresh(h) \in Allocated(g)
         /\ Pending(g, Fresh(h))
         /\ Allocated(h) \subseteq Allocated(g)
  <1> DEFINE g == Allocate(h, maker)
             n == csPromiseNew(maker)
             f == Fresh(h)
  <1>1. /\ h \in Heap /\ h.made \in Nat /\ f \in Promise /\ f = h.made + 1
        /\ f \in 0 .. MaxPromises /\ h.promise \in [Promise -> ObjPromise]
    BY HeapFields, PromisesAssumption DEF HeapOK, Fresh, Promise
  <1>2. n \in ObjPromise /\ n.state = "pending" /\ n.reactions = <<>>
    <2>1. <<>> \in Seq(Reaction)
      OBVIOUS
    <2> QED BY <2>1 DEF csPromiseNew, ObjPromise, Datum
  <1>3. g = [h EXCEPT !.made = f, !.promise[f] = n]
    BY DEF Allocate
  <1> HIDE DEF n, f
  <1>4. /\ g.made = f /\ g.promise = [h.promise EXCEPT ![f] = n]
        /\ g.combine = h.combine /\ g.queue = h.queue /\ g.watched = h.watched
    BY <1>1, <1>3 DEF Heap
  <1>5. g \in Heap
    <2>1. [h.promise EXCEPT ![f] = n] \in [Promise -> ObjPromise]
      BY <1>1, <1>2
    <2> HIDE DEF g
    <2> QED BY <1>1, <1>3, <1>4, <2>1 DEF Heap
  <1> HIDE DEF g
  <1>6. /\ \A a \in Promise : a # f => g.promise[a] = h.promise[a]
        /\ g.promise[f] = n
        /\ Pending(h, f) /\ Pending(g, f)
    BY <1>1, <1>2, <1>4 DEF HeapOK, RefsAllocated, Pending
  <1>7. \A r : r.result <= h.made /\ r.combine <= h.made /\
                r.result \in Nat /\ r.combine \in Nat => RefersTo(g, r)
    BY <1>1, <1>4 DEF RefersTo
  <1>8. RefsAllocated(g)
    <2>1. \A i \in 1 .. Len(g.queue) : g.queue[i].src <= g.made /\ RefersTo(g, g.queue[i])
      <3> SUFFICES ASSUME NEW i \in 1 .. Len(h.queue)
                   PROVE  h.queue[i].src <= g.made /\ RefersTo(g, h.queue[i])
        BY <1>4
      <3>1. TaskOK(h, h.queue[i])
        BY QueueOK
      <3>2. /\ h.queue[i].src \in Nat /\ h.queue[i].result \in Nat
            /\ h.queue[i].combine \in Nat
        BY <3>1, PromisesAssumption DEF TaskOK, Microtask, Promise, None
      <3> DEFINE t == h.queue[i]
      <3>3. /\ t.src \in Nat /\ t.result \in Nat /\ t.combine \in Nat
            /\ t.src <= h.made /\ t.result <= h.made /\ t.combine <= h.made
        BY <3>1, <3>2 DEF TaskOK, RefersTo
      <3> HIDE DEF t
      <3>4. t.src <= g.made /\ RefersTo(g, t)
        BY <1>1, <1>4, <3>3 DEF RefersTo
      <3> QED BY <3>4 DEF t
    <2>2. \A p \in Promise : \A i \in 1 .. Len(g.promise[p].reactions) :
            RefersTo(g, g.promise[p].reactions[i])
      <3> SUFFICES ASSUME NEW p \in Promise, NEW i \in 1 .. Len(g.promise[p].reactions)
                   PROVE  RefersTo(g, g.promise[p].reactions[i])
        OBVIOUS
      <3>1. p # f
        BY <1>2, <1>6
      <3>2. /\ g.promise[p] = h.promise[p] /\ RefersTo(h, h.promise[p].reactions[i])
            /\ h.promise[p].reactions[i] \in Reaction
        BY <1>1, <1>6, <3>1 DEF HeapOK, RefsAllocated, ObjPromise
      <3> DEFINE x == h.promise[p].reactions[i]
      <3>3. x \in Reaction /\ RefersTo(h, x)
        BY <3>2
      <3> HIDE DEF x
      <3>4. x.result \in Nat /\ x.combine \in Nat
        BY <3>3, PromisesAssumption DEF Reaction, Promise, None
      <3>5. RefersTo(g, x)
        BY <1>1, <1>4, <3>3, <3>4 DEF RefersTo
      <3> QED BY <3>2, <3>5 DEF x
    <2>3. \A p \in Promise : p > g.made => Pending(g, p)
      BY <1>1, <1>4, <1>6, PromisesAssumption DEF HeapOK, RefsAllocated, Pending, Promise
    <2> QED BY <2>1, <2>2, <2>3 DEF RefsAllocated
  <1>9. TasksCarry(g)
    BY <1>4, <1>6, QueueOK DEF TasksCarry, TaskOK, Microtask, Pending, Rejected, None
  <1>10. NoneWaitsOnSettled(g) /\ (RejectionsWatched(h) => RejectionsWatched(g))
    BY <1>1, <1>2, <1>4, <1>6
       DEF HeapOK, NoneWaitsOnSettled, RejectionsWatched, Pending, Rejected
  <1>11. Follows(h, g)
    BY <1>1, <1>4, <1>6 DEF Follows, Outcome
  <1>12. Keeps(h, g)
    BY <1>4, <1>5, <1>8, <1>9, <1>10, <1>11 DEF Keeps, Sound, HeapOK
  <1> QED BY <1>1, <1>4, <1>6, <1>12 DEF g, f, Allocated

-----------------------------------------------------------------------------
(* Listening.  The promise counts as handled; the listener waits in its    *)
(* list, or, if it has settled, in the queue with the outcome.             *)
LEMMA AddReactionKeeps ==
  ASSUME NEW h, HeapOK(h), NEW p \in Allocated(h),
         NEW reaction \in Reaction, RefersTo(h, reaction)
  PROVE  /\ Keeps(h, csPromiseAddReaction(h, p, reaction))
         /\ csPromiseAddReaction(h, p, reaction).made = h.made
  <1> DEFINE o == h.promise[p]
             g == csPromiseAddReaction(h, p, reaction)
             r == [reaction EXCEPT !.id = o.listeners + 1]
             heard == [o EXCEPT !.handled = TRUE, !.listeners = @ + 1]
             more == [heard EXCEPT !.reactions = Append(@, r)]
             task == TaskFor(p, o.state, o.value, r)
  <1>1. p \in Promise /\ h \in Heap /\ o \in ObjPromise /\ p <= h.made
    BY HeapFields DEF HeapOK, Allocated
  <1>2. /\ r \in Reaction /\ r.result = reaction.result /\ r.combine = reaction.combine
    <2>1. o.listeners + 1 \in Nat
      BY <1>1 DEF ObjPromise
    <2> QED BY <2>1 DEF Reaction
  <1> HIDE DEF r
  <1>3. /\ heard \in ObjPromise /\ heard.state = o.state /\ heard.value = o.value
        /\ heard.reactions = o.reactions /\ heard.handled = TRUE
    <2>1. o.listeners + 1 \in Nat
      BY <1>1 DEF ObjPromise
    <2> QED BY <1>1, <2>1 DEF ObjPromise
  <1>4. CASE Pending(h, p)
    <2>1. Append(o.reactions, r) \in Seq(Reaction)
      BY <1>1, <1>2 DEF ObjPromise
    <2>2. /\ more \in ObjPromise /\ more.state = o.state /\ more.value = o.value
          /\ more.reactions = Append(o.reactions, r) /\ more.handled = TRUE
      <3> HIDE DEF heard
      <3> QED BY <1>3, <2>1 DEF ObjPromise
    <2>3. g = [h EXCEPT !.promise[p] = more]
      BY <1>4 DEF csPromiseAddReaction, Pending, r
    <2> HIDE DEF more, heard
    <2>4. /\ g.made = h.made /\ g.promise = [h.promise EXCEPT ![p] = more]
          /\ g.combine = h.combine /\ g.queue = h.queue /\ g.watched = h.watched
          /\ h.promise \in [Promise -> ObjPromise]
      BY <1>1, <2>3 DEF Heap
    <2>5. g \in Heap
      <3>1. [h.promise EXCEPT ![p] = more] \in [Promise -> ObjPromise]
        BY <2>2, <2>4
      <3> HIDE DEF g
      <3> QED BY <1>1, <2>3, <2>4, <3>1 DEF Heap
    <2> HIDE DEF g
    <2>6. /\ \A a \in Promise : a # p => g.promise[a] = h.promise[a]
          /\ g.promise[p] = more
      BY <1>1, <2>4
    <2>7. \A a \in Promise : Outcome(g, a) = Outcome(h, a) /\ (Pending(g, a) <=> Pending(h, a))
      BY <2>2, <2>6 DEF Outcome, Pending
    <2>8. RefsAllocated(g)
      <3>1. \A a \in Promise : \A i \in 1 .. Len(g.promise[a].reactions) :
              RefersTo(h, g.promise[a].reactions[i])
        <4> SUFFICES ASSUME NEW a \in Promise, NEW i \in 1 .. Len(g.promise[a].reactions)
                     PROVE  RefersTo(h, g.promise[a].reactions[i])
          OBVIOUS
        <4>1. CASE a # p
          BY <2>6, <4>1 DEF HeapOK, RefsAllocated
        <4> DEFINE s == o.reactions
        <4>2. s \in Seq(Reaction)
          BY <1>1 DEF ObjPromise
        <4>3. /\ Len(Append(s, r)) = Len(s) + 1
              /\ \A k \in 1 .. Len(s) : Append(s, r)[k] = s[k]
              /\ Append(s, r)[Len(s) + 1] = r
          <5> HIDE DEF s, o
          <5> QED BY <1>2, <4>2, Appending
        <4>4. a = p => g.promise[a].reactions = Append(s, r)
          BY <2>2, <2>6
        <4>5. CASE a = p /\ i \in 1 .. Len(s)
          <5>1. g.promise[a].reactions[i] = s[i]
            <6> HIDE DEF s, o
            <6> QED BY <4>3, <4>4, <4>5
          <5> QED BY <1>1, <4>5, <5>1 DEF HeapOK, RefsAllocated
        <4>6. CASE a = p /\ i \notin 1 .. Len(s)
          <5>1. g.promise[a].reactions[i] = r
            <6>1. Len(s) \in Nat
              BY <4>2
            <6> HIDE DEF s, o
            <6>2. i \in 1 .. Len(s) + 1
              BY <4>3, <4>4, <4>6
            <6>3. i = Len(s) + 1
              BY <4>6, <6>1, <6>2
            <6> QED BY <4>3, <4>4, <4>6, <6>3
          <5> QED BY <1>2, <5>1 DEF RefersTo
        <4> QED BY <4>1, <4>5, <4>6
      <3> QED BY <2>4, <2>7, <3>1 DEF HeapOK, RefsAllocated, RefersTo
    <2>9. TasksCarry(g)
      BY <2>4, <2>7, SameOutcomes
    <2>10. NoneWaitsOnSettled(g) /\ (RejectionsWatched(h) => RejectionsWatched(g))
      BY <1>4, <2>2, <2>4, <2>6, <2>7
         DEF HeapOK, NoneWaitsOnSettled, RejectionsWatched, Pending, Rejected
    <2>11. Follows(h, g)
      BY <1>1, <2>4, <2>7, HeapFields, PromisesAssumption DEF Follows
    <2>12. Keeps(h, g)
      BY <2>4, <2>5, <2>8, <2>9, <2>10, <2>11 DEF Keeps, Sound, HeapOK
    <2> QED BY <2>4, <2>12 DEF g
  <1>5. CASE ~Pending(h, p)
    <2> DEFINE k == [h EXCEPT !.promise[p] = heard]
    <2>1. /\ k.made = h.made /\ k.promise = [h.promise EXCEPT ![p] = heard]
          /\ k.combine = h.combine /\ k.queue = h.queue /\ k.watched = h.watched
          /\ h.promise \in [Promise -> ObjPromise]
      BY <1>1 DEF Heap
    <2>2. g = csVMQueueMicrotask(k, task)
      <3>1. g = [h EXCEPT !.promise[p] = heard, !.queue = Append(@, task)]
        BY <1>5 DEF csPromiseAddReaction, Pending, r
      <3> HIDE DEF heard, task
      <3> QED BY <1>1, <3>1 DEF csVMQueueMicrotask, Heap
    <2> HIDE DEF heard
    <2>3. k \in Heap
      <3>1. [h.promise EXCEPT ![p] = heard] \in [Promise -> ObjPromise]
        BY <1>3, <2>1
      <3> QED BY <1>1, <2>1, <3>1 DEF Heap
    <2> HIDE DEF k
    <2>4. /\ \A a \in Promise : a # p => k.promise[a] = h.promise[a]
          /\ k.promise[p] = heard
      BY <1>1, <2>1
    <2>5. \A a \in Promise : /\ Outcome(k, a) = Outcome(h, a)
                             /\ Pending(k, a) <=> Pending(h, a)
                             /\ k.promise[a].reactions = h.promise[a].reactions
      BY <1>3, <2>4 DEF Outcome, Pending
    <2>6. Keeps(h, k)
      <3>1. RefsAllocated(k)
        BY <2>1, <2>5 DEF HeapOK, RefsAllocated, RefersTo
      <3>2. TasksCarry(k)
        BY <2>1, <2>5, SameOutcomes
      <3>3. NoneWaitsOnSettled(k) /\ (RejectionsWatched(h) => RejectionsWatched(k))
        BY <1>3, <2>1, <2>4, <2>5
           DEF HeapOK, NoneWaitsOnSettled, RejectionsWatched, Pending, Rejected
      <3>4. Follows(h, k)
        BY <1>1, <2>1, <2>5, HeapFields, PromisesAssumption DEF Follows
      <3> QED BY <2>1, <2>3, <3>1, <3>2, <3>3, <3>4 DEF Keeps, Sound, HeapOK
    <2>7. TaskOK(k, task)
      <3>1. o.state \in Settled /\ o.value \in Datum
        BY <1>1, <1>5 DEF ObjPromise, Pending
      <3>2. ~Pending(k, p) /\ k.promise[p].value = o.value /\ k.promise[p].state = o.state
        BY <1>1, <1>3, <1>5, <2>4 DEF Pending
      <3>3. RefersTo(k, r) /\ p <= k.made
        BY <1>1, <1>2, <2>1 DEF RefersTo
      <3> QED BY <1>1, <1>2, <3>1, <3>2, <3>3, TaskForStands
    <2>8. Keeps(k, g) /\ g.made = k.made
      BY <2>2, <2>6, <2>7, EnqueueKeeps DEF Keeps, Sound
    <2> QED BY <1>1, <2>1, <2>6, <2>8, KeepsTransitive
  <1> QED BY <1>4, <1>5

(* The reactions the natives and OP_AWAIT register are well formed and     *)
(* refer to no promise but those they are made for.                        *)
LEMMA ReactionsOK ==
  ASSUME NEW h \in Heap
  PROVE  /\ \A p \in Allocated(h) :
              /\ AdoptReaction(p) \in Reaction /\ RefersTo(h, AdoptReaction(p))
              /\ \A a, b \in BOOLEAN : /\ ThenReaction(a, b, p) \in Reaction
                                       /\ RefersTo(h, ThenReaction(a, b, p))
              /\ \A a \in BOOLEAN : /\ FinallyReaction(a, p) \in Reaction
                                    /\ RefersTo(h, FinallyReaction(a, p))
              /\ \A i \in 0 .. MaxInputs : /\ CombineReaction(p, i) \in Reaction
                                           /\ RefersTo(h, CombineReaction(p, i))
         /\ \A f \in Fiber : /\ AwaitReaction(f) \in Reaction
                             /\ RefersTo(h, AwaitReaction(f))
  <1>1. /\ h.made \in Nat /\ Allocated(h) \subseteq Promise /\ MaxInputs \in Nat
        /\ None \in 0 .. MaxInputs /\ 0 <= h.made /\ 1 \in 0 .. 1
    BY HeapFields, PromisesAssumption DEF None
  <1>2. /\ PlainReaction \in Reaction
        /\ PlainReaction.result = None /\ PlainReaction.combine = None
    BY <1>1 DEF PlainReaction, Reaction, None
  <1>3. ASSUME NEW p \in Allocated(h)
        PROVE  p \in Promise /\ p <= h.made
    BY <1>1 DEF Allocated
  <1>4. ASSUME NEW p \in Allocated(h)
        PROVE  AdoptReaction(p) \in Reaction /\ RefersTo(h, AdoptReaction(p))
    BY <1>1, <1>2, <1>3 DEF AdoptReaction, Reaction, RefersTo, None
  <1>5. ASSUME NEW p \in Allocated(h), NEW i \in 0 .. MaxInputs
        PROVE  CombineReaction(p, i) \in Reaction /\ RefersTo(h, CombineReaction(p, i))
    BY <1>1, <1>2, <1>3 DEF CombineReaction, Reaction, RefersTo, None
  <1>6. ASSUME NEW p \in Allocated(h), NEW a \in BOOLEAN, NEW b \in BOOLEAN
        PROVE  /\ ThenReaction(a, b, p) \in Reaction
               /\ ThenReaction(a, b, p).result = p /\ ThenReaction(a, b, p).combine = None
    BY <1>1, <1>2, <1>3 DEF ThenReaction, Reaction
  <1>7. ASSUME NEW p \in Allocated(h), NEW a \in BOOLEAN
        PROVE  FinallyReaction(a, p) \in Reaction /\ RefersTo(h, FinallyReaction(a, p))
    <2> DEFINE r == ThenReaction(a, a, p)
    <2>1. r \in Reaction /\ r.result = p /\ r.combine = None
      BY <1>6
    <2> HIDE DEF r
    <2>2. [r EXCEPT !.isFinally = TRUE] \in Reaction /\ RefersTo(h, [r EXCEPT !.isFinally = TRUE])
      BY <1>1, <1>3, <2>1 DEF Reaction, RefersTo, None
    <2> QED BY <2>2 DEF FinallyReaction, r
  <1>8. ASSUME NEW f \in Fiber
        PROVE  AwaitReaction(f) \in Reaction /\ RefersTo(h, AwaitReaction(f))
    BY <1>1, <1>2 DEF AwaitReaction, Reaction, RefersTo, None
  <1>9. ASSUME NEW p \in Allocated(h), NEW a \in BOOLEAN, NEW b \in BOOLEAN
        PROVE  RefersTo(h, ThenReaction(a, b, p))
    BY <1>1, <1>3, <1>6 DEF RefersTo, None
  <1> QED BY <1>4, <1>5, <1>6, <1>7, <1>8, <1>9

-----------------------------------------------------------------------------
(* Fulfilling and rejecting.                                               *)

LEMMA RejectKeeps ==
  ASSUME NEW h, HeapOK(h), NEW p \in Allocated(h), NEW v \in Datum
  PROVE  /\ Keeps(h, csPromiseReject(h, p, v))
         /\ csPromiseReject(h, p, v).made = h.made
  BY SettleKeeps DEF csPromiseReject, Settled

(* A promise fulfilled with another is settled by listening to it.         *)
LEMMA FulfillKeeps ==
  ASSUME NEW h, HeapOK(h), NEW p \in Allocated(h), NEW v \in Datum \cup Allocated(h)
  PROVE  /\ Keeps(h, csPromiseFulfill(h, p, v))
         /\ csPromiseFulfill(h, p, v).made = h.made
  <1>1. /\ Allocated(h) \subseteq Promise /\ h.made \in 0 .. MaxPromises
        /\ Promise \cap Datum = {} /\ p \in Promise /\ h \in Heap
    BY HeapFields, PromisesAssumption DEF HeapOK, Promise, Allocated
  <1>2. CASE ~Pending(h, p)
    BY <1>2, KeepsReflexive DEF csPromiseFulfill
  <1>3. CASE Pending(h, p) /\ v \in Promise
    <2>1. v \in Allocated(h)
      BY <1>1, <1>3
    <2>2. AdoptReaction(p) \in Reaction /\ RefersTo(h, AdoptReaction(p))
      BY <1>1, ReactionsOK
    <2>3. csPromiseFulfill(h, p, v) = csPromiseAddReaction(h, v, AdoptReaction(p))
      BY <1>3 DEF csPromiseFulfill
    <2> QED BY <2>1, <2>2, <2>3, AddReactionKeeps
  <1>4. CASE Pending(h, p) /\ v \notin Promise
    <2>1. csPromiseFulfill(h, p, v) = settle(h, p, "fulfilled", v)
      BY <1>4 DEF csPromiseFulfill
    <2>2. v \in Datum
      BY <1>1, <1>4
    <2> QED BY <2>1, <2>2, SettleKeeps DEF Settled
  <1> QED BY <1>2, <1>3, <1>4

-----------------------------------------------------------------------------
(* Taking the head of the queue off it.                                    *)
LEMMA RetireSound ==
  ASSUME NEW h, HeapOK(h), h.queue # <<>>
  PROVE  Sound(h, Retire(h)) /\ Retire(h).made = h.made
  <1> DEFINE g == Retire(h)
  <1>1. h \in Heap /\ h.queue \in Seq(Microtask)
    BY HeapFields DEF HeapOK
  <1>2. /\ g.made = h.made /\ g.promise = h.promise /\ g.combine = h.combine
        /\ g.queue = Tail(h.queue) /\ g.watched = h.watched
    BY <1>1 DEF Retire, Heap
  <1>3. g \in Heap
    <2>1. Tail(h.queue) \in Seq(Microtask)
      BY <1>1, Retiring
    <2> QED BY <1>1, <2>1 DEF Retire, Heap
  <1> HIDE DEF g
  <1>4. \A i \in 1 .. Len(g.queue) : TaskOK(h, g.queue[i])
    <2>1. Len(h.queue) \in Nat /\ Len(g.queue) = Len(h.queue) - 1
      BY <1>1, <1>2, Retiring
    <2>2. \A i \in 1 .. Len(g.queue) : g.queue[i] = h.queue[i + 1] /\ i + 1 \in 1 .. Len(h.queue)
      BY <1>1, <1>2, <2>1, Retiring
    <2> QED BY <2>2, QueueOK
  <1>5. RefsAllocated(g) /\ TasksCarry(g)
    BY <1>2, <1>4 DEF HeapOK, RefsAllocated, RefersTo, TasksCarry, TaskOK, Pending, Rejected
  <1>6. NoneWaitsOnSettled(g) /\ (RejectionsWatched(h) => RejectionsWatched(g))
    BY <1>2 DEF HeapOK, NoneWaitsOnSettled, RejectionsWatched, Pending, Rejected
  <1>7. Follows(h, g)
    BY <1>1, <1>2, HeapFields, PromisesAssumption DEF Follows, Outcome
  <1>8. Sound(h, g)
    BY <1>3, <1>5, <1>6, <1>7 DEF Sound, HeapOK
  <1> QED BY <1>2, <1>8 DEF g

(* An operation that changes only the combinators' states.                 *)
LEMMA CombineKeeps ==
  ASSUME NEW h, HeapOK(h), NEW c \in [Promise -> CombineState]
  PROVE  LET g == [h EXCEPT !.combine = c] IN Keeps(h, g) /\ g.made = h.made
  <1> DEFINE g == [h EXCEPT !.combine = c]
  <1>1. h \in Heap
    BY DEF HeapOK
  <1>2. /\ g.made = h.made /\ g.promise = h.promise /\ g.queue = h.queue
        /\ g.watched = h.watched /\ g \in Heap
    BY <1>1 DEF Heap
  <1> HIDE DEF g
  <1>3. RefsAllocated(g) /\ TasksCarry(g)
    BY <1>2 DEF HeapOK, RefsAllocated, RefersTo, TasksCarry, Pending, Rejected
  <1>4. NoneWaitsOnSettled(g) /\ (RejectionsWatched(h) => RejectionsWatched(g))
    BY <1>2 DEF HeapOK, NoneWaitsOnSettled, RejectionsWatched, Pending, Rejected
  <1>5. Follows(h, g)
    BY <1>1, <1>2, HeapFields, PromisesAssumption DEF Follows, Outcome
  <1>6. Keeps(h, g)
    BY <1>2, <1>3, <1>4, <1>5 DEF Keeps, Sound, HeapOK
  <1> QED BY <1>2, <1>6 DEF g

-----------------------------------------------------------------------------
(* Microtasks that reach no program code.                                  *)

(* The tasks the natives queue themselves, with no promise behind them.    *)
LEMMA PlainTaskOK ==
  ASSUME NEW h \in Heap, NEW v \in Datum, NEW c \in BOOLEAN
  PROVE  LET t == PlainTask(c, v, None, FALSE) IN
         /\ TaskOK(h, t)
         /\ \A f \in Fiber : TaskOK(h, [t EXCEPT !.fiber = f])
         /\ \A p \in Allocated(h), i \in 0 .. MaxInputs :
              TaskOK(h, [t EXCEPT !.combine = p, !.index = i])
  <1> DEFINE t == PlainTask(c, v, None, FALSE)
  <1>1. /\ h.made \in Nat /\ 0 <= h.made /\ Allocated(h) \subseteq Promise
        /\ 0 \in 0 .. MaxInputs /\ \A p \in Allocated(h) : p <= h.made
    BY HeapFields, PromisesAssumption DEF Allocated
  <1>2. /\ t \in Microtask /\ t.src = None /\ t.result = None /\ t.combine = None
    BY <1>1 DEF PlainTask, Microtask, None
  <1> HIDE DEF t
  <1>3. TaskOK(h, t)
    BY <1>1, <1>2 DEF TaskOK, RefersTo, None
  <1>4. ASSUME NEW f \in Fiber PROVE TaskOK(h, [t EXCEPT !.fiber = f])
    BY <1>1, <1>2 DEF TaskOK, RefersTo, None, Microtask
  <1>5. ASSUME NEW p \in Allocated(h), NEW i \in 0 .. MaxInputs
        PROVE  TaskOK(h, [t EXCEPT !.combine = p, !.index = i])
    BY <1>1, <1>2 DEF TaskOK, RefersTo, None, Microtask
  <1> QED BY <1>3, <1>4, <1>5 DEF t

(* What the fields of a queued task are.                                   *)
LEMMA TaskFields ==
  ASSUME NEW h, HeapOK(h), NEW t, TaskOK(h, t)
  PROVE  /\ t.argument \in Datum /\ t.index \in 0 .. MaxInputs
         /\ t.isRejection \in BOOLEAN
         /\ t.result = None \/ t.result \in Allocated(h)
         /\ t.combine = None \/ t.combine \in Allocated(h)
         /\ \A e \in 0 .. 1 : TaskOK(h, [t EXCEPT !.extraHops = e])
         /\ TaskOK(h, [t EXCEPT !.callback = FALSE, !.isFinally = FALSE, !.extraHops = 1])
  <1>1. t \in Microtask /\ h.made \in Nat
    BY HeapFields, PromisesAssumption DEF TaskOK, HeapOK
  <1>2. t.result = None \/ t.result \in Allocated(h)
    BY <1>1 DEF TaskOK, RefersTo, Microtask, Promise, Allocated, None
  <1>3. t.combine = None \/ t.combine \in Allocated(h)
    BY <1>1 DEF TaskOK, RefersTo, Microtask, Promise, Allocated, None
  <1>4. ASSUME NEW e \in 0 .. 1 PROVE TaskOK(h, [t EXCEPT !.extraHops = e])
    BY <1>1 DEF TaskOK, RefersTo, Microtask
  <1>5. TaskOK(h, [t EXCEPT !.callback = FALSE, !.isFinally = FALSE, !.extraHops = 1])
    <2> DEFINE u == [t EXCEPT !.callback = FALSE, !.isFinally = FALSE, !.extraHops = 1]
    <2>1. /\ u \in Microtask /\ u.src = t.src /\ u.argument = t.argument
          /\ u.isRejection = t.isRejection /\ u.result = t.result /\ u.combine = t.combine
      <3>1. 1 \in 0 .. 1 /\ FALSE \in BOOLEAN
        OBVIOUS
      <3> QED BY <1>1, <3>1 DEF Microtask
    <2> HIDE DEF u
    <2>2. TaskOK(h, u)
      BY <2>1 DEF TaskOK, RefersTo
    <2> QED BY <2>2 DEF u
  <1> QED BY <1>1, <1>2, <1>3, <1>4, <1>5 DEF Microtask

LEMMA PassThroughKeeps ==
  ASSUME NEW h, HeapOK(h), NEW t, TaskOK(h, t)
  PROVE  Keeps(h, PassThrough(h, t)) /\ PassThrough(h, t).made = h.made
  <1>1. CASE t.extraHops > 0
    <2>1. t.extraHops - 1 \in 0 .. 1
      BY <1>1 DEF TaskOK, Microtask
    <2>2. TaskOK(h, [t EXCEPT !.extraHops = t.extraHops - 1])
      BY <2>1, TaskFields
    <2> QED BY <1>1, <2>2, EnqueueKeeps DEF PassThrough
  <1>2. CASE ~(t.extraHops > 0) /\ t.result = None
    BY <1>2, KeepsReflexive DEF PassThrough
  <1>3. CASE ~(t.extraHops > 0) /\ t.result # None
    BY <1>3, TaskFields, RejectKeeps, FulfillKeeps DEF PassThrough
  <1> QED BY <1>1, <1>2, <1>3

LEMMA HandlerReturnedKeeps ==
  ASSUME NEW h, HeapOK(h), NEW t, TaskOK(h, t), NEW v \in Datum \cup Allocated(h)
  PROVE  Keeps(h, HandlerReturned(h, t, v)) /\ HandlerReturned(h, t, v).made = h.made
  <1>1. CASE t.result = None
    BY <1>1, KeepsReflexive DEF HandlerReturned
  <1>2. CASE t.result # None /\ t.isFinally
    BY <1>2, TaskFields, EnqueueKeeps DEF HandlerReturned
  <1>3. CASE t.result # None /\ ~t.isFinally
    BY <1>3, TaskFields, FulfillKeeps DEF HandlerReturned
  <1> QED BY <1>1, <1>2, <1>3

(* A combinator's input arrives: it is collected, and may settle it.       *)
LEMMA FillKeeps ==
  ASSUME NEW h, HeapOK(h), NEW p \in Allocated(h), NEW i \in 0 .. MaxInputs
  PROVE  Keeps(h, Fill(h, p, i)) /\ Fill(h, p, i).made = h.made
  <1>1. h \in Heap /\ p \in Promise /\ h.combine \in [Promise -> CombineState]
    BY HeapFields DEF HeapOK
  <1> DEFINE c == [h.combine[p] EXCEPT !.filled = @ \cup {i}, !.remaining = @ - 1]
             d == [h.combine EXCEPT ![p] = c]
  <1>2. c \in CombineState
    <2>1. h.combine[p].remaining - 1 \in Int
      BY <1>1 DEF CombineState
    <2> QED BY <1>1, <2>1 DEF CombineState
  <1>3. d \in [Promise -> CombineState]
    BY <1>1, <1>2
  <1>4. Fill(h, p, i) = [h EXCEPT !.combine = d]
    BY <1>1 DEF Fill, Heap, CombineState
  <1> HIDE DEF d
  <1> QED BY <1>3, <1>4, CombineKeeps

LEMMA runCombineKeeps ==
  ASSUME NEW h, HeapOK(h), NEW t, TaskOK(h, t), t.combine # None
  PROVE  Keeps(h, runCombine(h, t)) /\ runCombine(h, t).made = h.made
  <1> DEFINE p == t.combine
             k == Fill(h, p, t.index)
  <1>1. p \in Allocated(h) /\ t.argument \in Datum /\ t.index \in 0 .. MaxInputs /\ h \in Heap
    BY TaskFields DEF HeapOK
  <1>2. Keeps(h, k) /\ k.made = h.made /\ HeapOK(k) /\ p \in Allocated(k)
    BY <1>1, FillKeeps DEF Keeps, Sound, Allocated
  <1>3. \/ runCombine(h, t) = h
        \/ runCombine(h, t) = csPromiseReject(h, p, t.argument)
        \/ runCombine(h, t) = csPromiseFulfill(h, p, t.argument)
        \/ runCombine(h, t) = k
        \/ runCombine(h, t) = csPromiseReject(k, p, Aggregate)
        \/ runCombine(h, t) = csPromiseFulfill(k, p, Results)
    BY DEF runCombine
  <1> HIDE DEF k
  <1>4. /\ Keeps(k, csPromiseReject(k, p, Aggregate))
        /\ csPromiseReject(k, p, Aggregate).made = h.made
        /\ Keeps(k, csPromiseFulfill(k, p, Results))
        /\ csPromiseFulfill(k, p, Results).made = h.made
    BY <1>1, <1>2, RejectKeeps, FulfillKeeps DEF Datum
  <1>5. /\ Keeps(h, csPromiseReject(k, p, Aggregate))
        /\ Keeps(h, csPromiseFulfill(k, p, Results))
    BY <1>1, <1>2, <1>4, KeepsTransitive
  <1>6. /\ Keeps(h, csPromiseReject(h, p, t.argument))
        /\ csPromiseReject(h, p, t.argument).made = h.made
        /\ Keeps(h, csPromiseFulfill(h, p, t.argument))
        /\ csPromiseFulfill(h, p, t.argument).made = h.made
    BY <1>1, RejectKeeps, FulfillKeeps
  <1> QED BY <1>2, <1>3, <1>4, <1>5, <1>6, KeepsReflexive

-----------------------------------------------------------------------------
(* Marking a promise as listened to.                                       *)
LEMMA HandledKeeps ==
  ASSUME NEW h, HeapOK(h), NEW p \in Allocated(h)
  PROVE  LET g == [h EXCEPT !.promise[p].handled = TRUE] IN Keeps(h, g) /\ g.made = h.made
  <1> DEFINE g == [h EXCEPT !.promise[p].handled = TRUE]
             q == [h.promise[p] EXCEPT !.handled = TRUE]
  <1>1. h \in Heap /\ p \in Promise /\ h.promise[p] \in ObjPromise
    BY HeapFields DEF HeapOK
  <1>2. /\ q \in ObjPromise /\ q.state = h.promise[p].state /\ q.value = h.promise[p].value
        /\ q.reactions = h.promise[p].reactions /\ q.handled = TRUE
    BY <1>1 DEF ObjPromise
  <1>3. g = [h EXCEPT !.promise[p] = q]
    BY <1>1 DEF Heap, ObjPromise
  <1> HIDE DEF q
  <1>4. /\ g.made = h.made /\ g.promise = [h.promise EXCEPT ![p] = q]
        /\ g.combine = h.combine /\ g.queue = h.queue /\ g.watched = h.watched
        /\ h.promise \in [Promise -> ObjPromise]
    BY <1>1, <1>3 DEF Heap
  <1>5. g \in Heap
    <2>1. [h.promise EXCEPT ![p] = q] \in [Promise -> ObjPromise]
      BY <1>2, <1>4
    <2> HIDE DEF g
    <2> QED BY <1>1, <1>3, <1>4, <2>1 DEF Heap
  <1> HIDE DEF g
  <1>6. /\ \A a \in Promise : a # p => g.promise[a] = h.promise[a]
        /\ g.promise[p] = q
    BY <1>1, <1>4
  <1>7. \A a \in Promise : /\ Outcome(g, a) = Outcome(h, a)
                           /\ Pending(g, a) <=> Pending(h, a)
                           /\ g.promise[a].reactions = h.promise[a].reactions
    BY <1>2, <1>6 DEF Outcome, Pending
  <1>8. RefsAllocated(g)
    BY <1>4, <1>7 DEF HeapOK, RefsAllocated, RefersTo
  <1>9. TasksCarry(g)
    BY <1>4, <1>7, SameOutcomes
  <1>10. NoneWaitsOnSettled(g) /\ (RejectionsWatched(h) => RejectionsWatched(g))
    BY <1>2, <1>4, <1>6, <1>7
       DEF HeapOK, NoneWaitsOnSettled, RejectionsWatched, Pending, Rejected
  <1>11. Follows(h, g)
    BY <1>1, <1>4, <1>7, HeapFields, PromisesAssumption DEF Follows
  <1>12. Keeps(h, g)
    BY <1>4, <1>5, <1>8, <1>9, <1>10, <1>11 DEF Keeps, Sound, HeapOK
  <1> QED BY <1>4, <1>12 DEF g

(* A program begins with an empty heap.                                    *)
LEMMA EmptyHeapOK == HeapOK(EmptyHeap) /\ RejectionsWatched(EmptyHeap) /\ EmptyHeap.made = 0
  <1>1. csPromiseNew("program") \in ObjPromise
    <2>1. <<>> \in Seq(Reaction)
      OBVIOUS
    <2> QED BY <2>1 DEF csPromiseNew, ObjPromise, Datum, Maker
  <1>2. [mode |-> "none", remaining |-> 0, filled |-> {}] \in CombineState
    BY DEF CombineState
  <1>3. <<>> \in Seq(Microtask) /\ 0 \in 0 .. MaxPromises
    BY PromisesAssumption
  <1>4. EmptyHeap \in Heap
    BY <1>1, <1>2, <1>3 DEF EmptyHeap, Heap
  <1>5. /\ EmptyHeap.queue = <<>> /\ EmptyHeap.made = 0
        /\ \A p \in Promise : /\ EmptyHeap.promise[p].state = "pending"
                              /\ EmptyHeap.promise[p].reactions = <<>>
    BY DEF EmptyHeap, csPromiseNew
  <1>6. RefsAllocated(EmptyHeap) /\ TasksCarry(EmptyHeap)
    BY <1>5 DEF RefsAllocated, TasksCarry, Pending
  <1>7. NoneWaitsOnSettled(EmptyHeap) /\ RejectionsWatched(EmptyHeap)
    BY <1>5 DEF NoneWaitsOnSettled, RejectionsWatched, Rejected
  <1> QED BY <1>4, <1>5, <1>6, <1>7 DEF HeapOK

-----------------------------------------------------------------------------
(* Parts of sequences.                                                     *)

(* Leaving a prefix and a suffix of a sequence, with or without an element *)
(* between them, leaves a sequence.                                        *)
LEMMA Inserting ==
  ASSUME NEW S, NEW s \in Seq(S), NEW t \in S, NEW a \in 0 .. Len(s)
  PROVE  SubSeq(s, 1, a) \o <<t>> \o SubSeq(s, a + 1, Len(s)) \in Seq(S)
  <1>1. SubSeq(s, 1, a) \in Seq(S) /\ SubSeq(s, a + 1, Len(s)) \in Seq(S)
    BY SubSeqProperties
  <1>2. <<t>> \in Seq(S)
    OBVIOUS
  <1> QED BY <1>1, <1>2, Concatenating

LEMMA Removing ==
  ASSUME NEW S, NEW s \in Seq(S), NEW i \in 1 .. Len(s)
  PROVE  SubSeq(s, 1, i - 1) \o SubSeq(s, i + 1, Len(s)) \in Seq(S)
  <1>1. SubSeq(s, 1, i - 1) \in Seq(S) /\ SubSeq(s, i + 1, Len(s)) \in Seq(S)
    BY SubSeqProperties
  <1> QED BY <1>1, Concatenating

(* All but the last.                                                       *)
LEMMA Leaving ==
  ASSUME NEW S, NEW s \in Seq(S), s # <<>>
  PROVE  /\ SubSeq(s, 1, Len(s) - 1) \in Seq(S)
         /\ Len(SubSeq(s, 1, Len(s) - 1)) = Len(s) - 1
         /\ \A i \in 1 .. Len(s) - 1 : SubSeq(s, 1, Len(s) - 1)[i] = s[i]
         /\ s[Len(s)] \in S /\ Len(s) \in 1 .. Len(s)
  <1> DEFINE n == Len(s) - 1
  <1>1. n \in Nat /\ Len(s) = n + 1 /\ \A i \in 1 .. Len(s) : s[i] \in S
    OBVIOUS
  <1> HIDE DEF n
  <1>2. /\ SubSeq(s, 1, n) \in Seq(S)
        /\ Len(SubSeq(s, 1, n)) = IF 1 <= n THEN n - 1 + 1 ELSE 0
        /\ \A i \in 1 .. n - 1 + 1 : SubSeq(s, 1, n)[i] = s[1 + i - 1]
    <2>1. 1 \in Int /\ n \in Int /\ \A i \in 1 .. n : s[i] \in S
      BY <1>1
    <2> QED BY <2>1, SubSeqProperties
  <1>3. /\ Len(SubSeq(s, 1, n)) = n
        /\ \A i \in 1 .. n : SubSeq(s, 1, n)[i] = s[i]
    BY <1>1, <1>2
  <1> QED BY <1>1, <1>2, <1>3 DEF n

-----------------------------------------------------------------------------
(* Timers.                                                                 *)

LEMMA ArmTypes ==
  ASSUME NEW list \in Seq(Timer), NEW t \in Timer, Arm(list, t)
  PROVE  timers' \in Seq(Timer)
  BY Inserting DEF Arm

LEMMA PassedTypes ==
  ASSUME NEW list \in Seq(Timer), NEW ms \in Nat
  PROVE  Passed(list, ms) \in Seq(Timer)
  <1>1. \A i \in 1 .. Len(list) :
          [list[i] EXCEPT !.left = IF @ > ms THEN @ - ms ELSE 0] \in Timer
    <2> SUFFICES ASSUME NEW i \in 1 .. Len(list)
                 PROVE  [list[i] EXCEPT !.left = IF @ > ms THEN @ - ms ELSE 0] \in Timer
      OBVIOUS
    <2>1. list[i] \in Timer
      OBVIOUS
    <2>3. list[i].left \in Nat
      BY <2>1 DEF Timer
    <2>2. (IF list[i].left > ms THEN list[i].left - ms ELSE 0) \in Nat
      BY <2>3
    <2> QED BY <2>1, <2>2 DEF Timer
  <1>2. Passed(list, ms) \in [1 .. Len(list) -> Timer]
    BY <1>1 DEF Passed
  <1> QED BY <1>2, Listing

-----------------------------------------------------------------------------
(* Steps that change the heap and little else.                             *)

(* The part of the invariant that speaks of the heap survives any sound    *)
(* change to it.                                                           *)
LEMMA SoundStep ==
  ASSUME IInv, phase # "failed", Sound(heap, heap')
  PROVE  /\ HeapOK(heap)' /\ NoSilentRejection' /\ heap' \in Heap
         /\ heap.made \in Nat /\ heap'.made \in Nat /\ heap.made <= heap'.made
  <1>1. heap \in Heap /\ HeapOK(heap') /\ heap' \in Heap
    BY DEF IInv, HeapOK, Sound
  <1>2. heap.made \in Nat /\ heap'.made \in Nat
    BY <1>1, HeapFields, PromisesAssumption
  <1> QED BY <1>1, <1>2 DEF IInv, NoSilentRejection, Sound, Follows

(* A call that changes the heap and counts itself.                         *)
LEMMA LeavesStep ==
  ASSUME IInv, NEW g, Keeps(heap, g), Leaves(g), phase # "failed",
         calls' = calls + 1
  PROVE  IInv' /\ Follows(heap, heap')
  <1>1. heap' = g /\ Sound(heap, heap')
    BY DEF Leaves, Keeps
  <1>2. /\ HeapOK(heap)' /\ NoSilentRejection' /\ heap' \in Heap
        /\ heap.made \in Nat /\ heap'.made \in Nat /\ heap.made <= heap'.made
    BY <1>1, SoundStep
  <1>3. TypeOK'
    BY <1>2 DEF IInv, TypeOK, Leaves
  <1>4. Control'
    <2>1. fiber \in [Fiber -> ObjFiber]
      BY DEF IInv, TypeOK
    <2>2. \A f \in Fiber : fiber[f].promise \in Nat
      BY <2>1, PromisesAssumption DEF ObjFiber, Promise, None
    <2>3. \A f \in Fiber : /\ fiber[f].promise <= heap'.made
                           /\ fiber[f].state # "unused" => fiber[f].promise # None
      BY <1>2, <2>2 DEF IInv, Control
    <2>4. phase = "task" => heap'.queue # <<>>
      BY <1>1 DEF IInv, Control, Keeps
    <2>5. adding # NotAdding => adding.target \in Allocated(heap')
      BY <1>2 DEF IInv, Control, Allocated
    <2> QED BY <2>3, <2>4, <2>5 DEF IInv, Control, Leaves
  <1> QED BY <1>1, <1>2, <1>3, <1>4 DEF IInv, Sound

-----------------------------------------------------------------------------
(* Types that the actions below draw their arguments from.                 *)
LEMMA Arguments ==
  ASSUME IInv
  PROVE  /\ HeapOK(heap) /\ heap \in Heap
         /\ Argument \subseteq Datum \cup Allocated(heap)
         /\ Value \subseteq Datum /\ Undefined \in Datum
         /\ Results \in Datum /\ Aggregate \in Datum
         /\ \A v \in Datum : v \notin Promise
         /\ calls \in Nat /\ calls + 1 \in Nat
         /\ UserPhase \cap Final = {} /\ "failed" \notin UserPhase /\ "loop" \notin UserPhase
  BY PromisesAssumption
     DEF IInv, HeapOK, TypeOK, Argument, Reachable, Datum, Promise, UserPhase, Final

(* `new Promise`, Promise.resolve, Promise.reject and the two functions an *)
(* executor is handed.                                                     *)
LEMMA SettleCalls ==
  ASSUME IInv,
         \/ promiseConstruct
         \/ \E v \in Value : promiseRejectStatic(v) \/ promiseResolve(v)
         \/ \E p \in Reachable : \/ \E v \in Argument : resolveFunction(p, v)
                                \/ \E v \in Value : rejectFunction(p, v)
  PROVE  IInv' /\ Follows(heap, heap')
  <1> DEFINE h == Allocate(heap, "program")
  <1> USE Arguments
  <1>0. ASSUME heap.made + 1 <= MaxPromises
        PROVE  /\ Keeps(heap, h) /\ HeapOK(h) /\ Fresh(heap) \in Allocated(h) /\ h \in Heap
    BY <1>0, AllocateKeeps DEF Maker, Keeps, Sound, HeapOK
  <1> HIDE DEF h
  <1>1. CASE promiseConstruct
    BY <1>0, <1>1, LeavesStep DEF promiseConstruct, Calls, UserRuns, h
  <1>2. ASSUME NEW v \in Value, promiseRejectStatic(v)
        PROVE  IInv' /\ Follows(heap, heap')
    <2> DEFINE g == csPromiseReject(h, Fresh(heap), v)
    <2>1. /\ heap.made + 1 <= MaxPromises /\ Leaves(g) /\ phase # "failed"
          /\ calls' = calls + 1
      BY <1>2 DEF promiseRejectStatic, Calls, UserRuns, h
    <2>2. Keeps(h, g)
      BY <1>0, <2>1, RejectKeeps
    <2> HIDE DEF g
    <2>3. Keeps(heap, g)
      BY <1>0, <2>1, <2>2, KeepsTransitive
    <2> QED BY <2>1, <2>3, LeavesStep
  <1>3. ASSUME NEW v \in Value, promiseResolve(v)
        PROVE  IInv' /\ Follows(heap, heap')
    <2> DEFINE g == csPromiseFulfill(h, Fresh(heap), v)
    <2>1. /\ heap.made + 1 <= MaxPromises /\ Leaves(g) /\ phase # "failed"
          /\ calls' = calls + 1
      BY <1>3 DEF promiseResolve, Calls, UserRuns, h
    <2>2. Keeps(h, g)
      BY <1>0, <2>1, FulfillKeeps
    <2> HIDE DEF g
    <2>3. Keeps(heap, g)
      BY <1>0, <2>1, <2>2, KeepsTransitive
    <2> QED BY <2>1, <2>3, LeavesStep
  <1>4. ASSUME NEW p \in Reachable, NEW v \in Argument, resolveFunction(p, v)
        PROVE  IInv' /\ Follows(heap, heap')
    <2>1. Keeps(heap, csPromiseFulfill(heap, p, v))
      BY FulfillKeeps DEF Reachable
    <2> QED BY <1>4, <2>1, LeavesStep DEF resolveFunction, Calls, UserRuns
  <1>5. ASSUME NEW p \in Reachable, NEW v \in Value, rejectFunction(p, v)
        PROVE  IInv' /\ Follows(heap, heap')
    <2>1. Keeps(heap, csPromiseReject(heap, p, v))
      BY RejectKeeps DEF Reachable
    <2> QED BY <1>5, <2>1, LeavesStep DEF rejectFunction, Calls, UserRuns
  <1> QED BY <1>1, <1>2, <1>3, <1>4, <1>5

(* `.then`, `.catch` and `.finally`.                                       *)
LEMMA ListenCalls ==
  ASSUME IInv, NEW p \in Reachable,
         \/ \E f, r \in BOOLEAN : promiseThen(p, f, r)
         \/ \E f \in BOOLEAN : promiseFinally(p, f)
  PROVE  IInv' /\ Follows(heap, heap')
  <1> DEFINE h == Allocate(heap, "then")
  <1> USE Arguments
  <1>1. PICK reaction :
          /\ heap.made + 1 <= MaxPromises /\ phase # "failed" /\ calls' = calls + 1
          /\ Leaves(csPromiseAddReaction(h, p, reaction))
          /\ \/ \E f, r \in BOOLEAN : reaction = ThenReaction(f, r, Fresh(heap))
             \/ \E f \in BOOLEAN : reaction = FinallyReaction(f, Fresh(heap))
    BY DEF promiseThen, promiseFinally, Calls, UserRuns
  <1>2. /\ Keeps(heap, h) /\ HeapOK(h) /\ Fresh(heap) \in Allocated(h) /\ h \in Heap
        /\ p \in Allocated(h)
    BY <1>1, AllocateKeeps DEF Maker, Keeps, Sound, HeapOK, Reachable
  <1> HIDE DEF h
  <1>3. reaction \in Reaction /\ RefersTo(h, reaction)
    BY <1>1, <1>2, ReactionsOK
  <1>4. Keeps(h, csPromiseAddReaction(h, p, reaction))
    BY <1>2, <1>3, AddReactionKeeps
  <1>5. Keeps(heap, csPromiseAddReaction(h, p, reaction))
    BY <1>2, <1>4, KeepsTransitive
  <1> QED BY <1>1, <1>5, LeavesStep

(* An empty array decides a combinator at once; queueMicrotask queues a    *)
(* callback that no promise waits for.                                     *)
LEMMA QueueCalls ==
  ASSUME IInv, (\E mode \in Mode : combinatorEmpty(mode)) \/ queueMicrotaskNative
  PROVE  IInv' /\ Follows(heap, heap')
  <1> USE Arguments
  <1>1. ASSUME NEW mode \in Mode, combinatorEmpty(mode)
        PROVE  IInv' /\ Follows(heap, heap')
    <2> DEFINE h == Allocate(heap, "combinator")
    <2>1. /\ heap.made + 1 <= MaxPromises /\ phase # "failed" /\ calls' = calls + 1
          /\ \/ Leaves(csPromiseFulfill(h, Fresh(heap), Results))
             \/ Leaves(csPromiseReject(h, Fresh(heap), Aggregate))
             \/ Leaves(h)
      BY <1>1 DEF combinatorEmpty, Calls, UserRuns, Mode
    <2>2. /\ Keeps(heap, h) /\ HeapOK(h) /\ Fresh(heap) \in Allocated(h) /\ h \in Heap
      BY <2>1, AllocateKeeps DEF Maker, Keeps, Sound, HeapOK
    <2> HIDE DEF h
    <2>3. /\ Keeps(heap, csPromiseFulfill(h, Fresh(heap), Results))
          /\ Keeps(heap, csPromiseReject(h, Fresh(heap), Aggregate))
      <3>1. /\ Keeps(h, csPromiseFulfill(h, Fresh(heap), Results))
            /\ Keeps(h, csPromiseReject(h, Fresh(heap), Aggregate))
        BY <2>2, FulfillKeeps, RejectKeeps
      <3> QED BY <2>2, <3>1, KeepsTransitive
    <2> QED BY <2>1, <2>2, <2>3, LeavesStep
  <1>2. CASE queueMicrotaskNative
    <2>1. Keeps(heap, csVMQueueMicrotask(heap, PlainTask(TRUE, Undefined, None, FALSE)))
      BY PlainTaskOK, EnqueueKeeps
    <2> QED BY <1>2, <2>1, LeavesStep DEF queueMicrotaskNative, Calls, UserRuns
  <1> QED BY <1>1, <1>2

(* Control speaks of the heap only through what is allocated and through   *)
(* the queue not being empty.                                              *)
LEMMA ControlStep ==
  ASSUME IInv, Keeps(heap, heap'), phase # "failed", UNCHANGED <<fiber, running, phase, body, firing>>,
         adding' # NotAdding => /\ adding'.target \in Allocated(heap')
                                /\ adding'.next \in 1 .. adding'.count
                                /\ adding'.count <= MaxInputs
  PROVE  Control'
  <1>1. heap.made \in Nat /\ heap'.made \in Nat /\ heap.made <= heap'.made
    BY SoundStep DEF Keeps
  <1>2. \A f \in Fiber : fiber[f].promise \in Nat /\ fiber[f].promise <= heap.made
    BY PromisesAssumption DEF IInv, TypeOK, Control, ObjFiber, Promise, None
  <1>3. \A f \in Fiber : fiber[f].promise <= heap'.made
    BY <1>1, <1>2
  <1> QED BY <1>3 DEF IInv, Control, Keeps

(* A combinator over a non-empty array, and one more of its elements.      *)
LEMMA CombineCalls ==
  ASSUME IInv,
         \/ \E mode \in Mode, n \in 1 .. MaxInputs : combinator(mode, n)
         \/ \E v \in Argument : combinatorInput(v)
  PROVE  IInv' /\ Follows(heap, heap')
  <1> USE Arguments
  <1>1. ASSUME NEW mode \in Mode, NEW n \in 1 .. MaxInputs, combinator(mode, n)
        PROVE  IInv' /\ Follows(heap, heap')
    <2> DEFINE h == Allocate(heap, "combinator")
               new == combineState(mode, n)
               c == [h.combine EXCEPT ![Fresh(heap)] = new]
               g == [h EXCEPT !.combine = c]
    <2>1. /\ heap.made + 1 <= MaxPromises /\ phase \in UserPhase /\ calls' = calls + 1
          /\ heap' = [h EXCEPT !.combine[Fresh(heap)] = new]
          /\ adding' = [target |-> Fresh(heap), next |-> 1, count |-> n]
          /\ UNCHANGED <<fiber, running, phase, body, timers, firing, nextTimer>>
      BY <1>1 DEF combinator, Calls, UserRuns
    <2>2. /\ Keeps(heap, h) /\ HeapOK(h) /\ Fresh(heap) \in Allocated(h) /\ h \in Heap
          /\ h.combine \in [Promise -> CombineState] /\ Allocated(h) \subseteq Promise
      <3>1. /\ Keeps(heap, h) /\ Fresh(heap) \in Allocated(h)
        BY <2>1, AllocateKeeps DEF Maker
      <3>2. HeapOK(h) /\ h \in Heap
        BY <3>1 DEF Keeps, Sound, HeapOK
      <3> QED BY <3>1, <3>2, HeapFields
    <2> HIDE DEF h
    <2>3. c \in [Promise -> CombineState]
      <3>1. new \in CombineState
        BY DEF CombineState, combineState
      <3> HIDE DEF new
      <3> QED BY <2>2, <3>1
    <2>4. heap' = g
      BY <2>1, <2>2 DEF Heap
    <2> HIDE DEF c, new
    <2>5. Keeps(h, g) /\ g.made = h.made
      BY <2>2, <2>3, CombineKeeps
    <2> HIDE DEF g
    <2>6. Keeps(heap, heap')
      BY <2>2, <2>4, <2>5, KeepsTransitive
    <2>7. HeapOK(heap)' /\ NoSilentRejection' /\ heap' \in Heap /\ Follows(heap, heap')
      BY <2>1, <2>6, SoundStep DEF Keeps, Sound
    <2>8. adding'.target \in Promise /\ adding'.target \in Allocated(heap')
      BY <2>1, <2>2, <2>4, <2>5 DEF Allocated
    <2>9. n \in Nat /\ 1 \in 1 .. n /\ n <= MaxInputs
      BY PromisesAssumption
    <2>10. Control'
      BY <2>1, <2>6, <2>8, <2>9, ControlStep
    <2>11. TypeOK'
      BY <2>1, <2>7, <2>8, <2>9 DEF IInv, TypeOK
    <2> QED BY <2>7, <2>10, <2>11 DEF IInv
  <1>2. ASSUME NEW v \in Argument, combinatorInput(v)
        PROVE  IInv' /\ Follows(heap, heap')
    <2> DEFINE p == adding.target
               i == adding.next
    <2>1. /\ phase \in UserPhase /\ adding # NotAdding
          /\ \/ v \in Promise /\ heap' = csPromiseAddReaction(heap, v, CombineReaction(p, i))
             \/ v \notin Promise /\ heap' = csVMQueueCombine(heap, p, i, v)
          /\ \/ adding' = NotAdding
             \/ i # adding.count /\ adding' = [adding EXCEPT !.next = i + 1]
          /\ UNCHANGED <<fiber, running, phase, body, timers, firing, nextTimer, calls>>
      BY <1>2 DEF combinatorInput
    <2>2. /\ p \in Allocated(heap) /\ p \in Promise /\ i \in 1 .. adding.count
          /\ adding.count <= MaxInputs /\ adding.count \in Nat
          /\ adding \in [target : Promise \cup {None}, next : Nat, count : Nat]
      BY <2>1, HeapFields DEF IInv, TypeOK, Control
    <2>3. i \in 0 .. MaxInputs /\ i \in Nat
      BY <2>2, PromisesAssumption
    <2>4. Keeps(heap, heap')
      <3>1. CASE v \in Promise
        <4>1. v \in Allocated(heap)
          BY <3>1
        <4>2. CombineReaction(p, i) \in Reaction /\ RefersTo(heap, CombineReaction(p, i))
          BY <2>2, <2>3, ReactionsOK
        <4> QED BY <2>1, <3>1, <4>1, <4>2, AddReactionKeeps
      <3>2. CASE v \notin Promise
        <4>1. v \in Datum
          BY <3>2, HeapFields
        <4>2. TaskOK(heap, [PlainTask(FALSE, v, None, FALSE) EXCEPT !.combine = p, !.index = i])
          BY <2>2, <2>3, <4>1, PlainTaskOK
        <4> QED BY <2>1, <3>2, <4>2, EnqueueKeeps DEF csVMQueueCombine
      <3> QED BY <3>1, <3>2
    <2>5. /\ HeapOK(heap)' /\ NoSilentRejection' /\ heap' \in Heap /\ Follows(heap, heap')
          /\ heap.made \in Nat /\ heap'.made \in Nat /\ heap.made <= heap'.made
      BY <2>1, <2>4, SoundStep DEF Keeps, Sound
    <2>6. /\ adding' # NotAdding =>
               /\ adding'.target \in Allocated(heap')
               /\ adding'.next \in 1 .. adding'.count /\ adding'.count <= MaxInputs
          /\ adding' \in [target : Promise \cup {None}, next : Nat, count : Nat]
      <3>1. CASE adding' = NotAdding
        BY <3>1 DEF NotAdding
      <3>2. CASE i # adding.count /\ adding' = [adding EXCEPT !.next = i + 1]
        <4>1. adding'.target = p /\ adding'.next = i + 1 /\ adding'.count = adding.count
          BY <2>2, <3>2
        <4>2. i + 1 \in 1 .. adding.count
          BY <2>2, <3>2
        <4>3. p \in Allocated(heap')
          BY <2>2, <2>5 DEF Allocated
        <4> QED BY <2>2, <3>2, <4>1, <4>2, <4>3
      <3> QED BY <2>1, <3>1, <3>2
    <2>7. Control'
      BY <2>1, <2>4, <2>6, ControlStep
    <2>8. TypeOK'
      BY <2>1, <2>5, <2>6 DEF IInv, TypeOK
    <2> QED BY <2>5, <2>7, <2>8 DEF IInv
  <1> QED BY <1>1, <1>2

-----------------------------------------------------------------------------
(* Timers: the heap stays as it is.                                        *)
LEMMA TimerCalls ==
  ASSUME IInv, TimerCall
  PROVE  IInv' /\ heap' = heap
  <1> USE Arguments
  <1>1. timers \in Seq(Timer) /\ nextTimer \in Nat \ {0}
    BY DEF IInv, TypeOK
  <1>2. ASSUME UNCHANGED <<heap, fiber, running, phase, body, adding>>, timers' \in Seq(Timer),
               nextTimer' \in Nat \ {0}, calls' \in Nat,
               firing' \in [id : Nat, left : Nat, repeat : Nat, cancelled : BOOLEAN],
               firing'.id = firing.id
        PROVE  IInv' /\ heap' = heap
    BY <1>2 DEF IInv, TypeOK, Control, NoSilentRejection
  <1>3. ASSUME NEW d \in Delays, NEW repeating \in BOOLEAN, scheduleTimer(d, repeating)
        PROVE  IInv' /\ heap' = heap
    <2> DEFINE t == [id |-> nextTimer, left |-> d,
                     repeat |-> Period(d, repeating)]
    <2>1. /\ Arm(timers, t) /\ nextTimer' = nextTimer + 1 /\ calls' = calls + 1
          /\ UNCHANGED <<heap, fiber, running, phase, body, firing, adding>>
      BY <1>3 DEF scheduleTimer, Calls
    <2>2. t \in Timer
      <3>1. d \in Nat
        BY EventLoopAssumption
      <3> QED BY <1>1, <3>1 DEF Timer, Period
    <2> HIDE DEF t
    <2>3. timers' \in Seq(Timer)
      BY <1>1, <2>1, <2>2, ArmTypes
    <2> QED BY <1>1, <1>2, <2>1, <2>3 DEF IInv, TypeOK
  <1>4. ASSUME NEW id, clearTimeoutNative(id)
        PROVE  IInv' /\ heap' = heap
    <2>1. timers' \in Seq(Timer)
      BY <1>1, <1>4, Removing DEF clearTimeoutNative
    <2>2. /\ firing' \in [id : Nat, left : Nat, repeat : Nat, cancelled : BOOLEAN]
          /\ firing'.id = firing.id
      BY <1>4 DEF clearTimeoutNative, FiringCleared, IInv, TypeOK
    <2> QED BY <1>1, <1>2, <1>4, <2>1, <2>2 DEF clearTimeoutNative, Calls
  <1>5. CASE Slow
    <2>1. timers' \in Seq(Timer)
      BY <1>1, <1>5, PassedTypes DEF Slow
    <2> QED BY <1>1, <1>2, <1>5, <2>1 DEF Slow, IInv, TypeOK
  <1> QED BY <1>3, <1>4, <1>5 DEF TimerCall

-----------------------------------------------------------------------------
(* Async calls.                                                            *)

(* What the invariant says of the async call that runs.                    *)
LEMMA CurrentFiber ==
  ASSUME IInv, InFiber
  PROVE  /\ running \in Seq(Fiber) /\ Current \in Fiber
         /\ fiber[Current].state # "unused"
         /\ fiber[Current].promise \in Allocated(heap)
         /\ Callers \in Seq(Fiber)
         /\ Len(Callers) = Len(running) - 1
         /\ \A i \in 1 .. Len(Callers) : Callers[i] = running[i] /\ i \in 1 .. Len(running)
  <1>1. running \in Seq(Fiber) /\ running # <<>>
    BY DEF IInv, TypeOK, InFiber
  <1>2. /\ Current \in Fiber /\ Len(running) \in 1 .. Len(running)
        /\ Callers \in Seq(Fiber) /\ Len(Callers) = Len(running) - 1
        /\ \A i \in 1 .. Len(running) - 1 : Callers[i] = running[i]
    BY <1>1, Leaving DEF Current, Callers
  <1>3. fiber[Current].state # "unused"
    BY <1>2 DEF IInv, Control, Current
  <1>4. /\ fiber[Current].promise \in Promise \cup {None}
        /\ fiber[Current].promise # None /\ fiber[Current].promise <= heap.made
    BY <1>2, <1>3 DEF IInv, TypeOK, Control, ObjFiber
  <1>5. heap.made \in Nat
    BY Arguments, HeapFields, PromisesAssumption
  <1> QED BY <1>1, <1>2, <1>3, <1>4, <1>5, PromisesAssumption DEF Allocated, Promise, None

(* The current call gives the thread back, having changed the heap to h    *)
(* and its own state to s.                                                 *)
LEMMA GivingBack ==
  ASSUME IInv, UserRuns, InFiber, NEW h, Keeps(heap, h), NEW s \in {"suspended", "done"},
         ToCaller(h), fiber' = [fiber EXCEPT ![Current].state = s],
         UNCHANGED <<body, timers, firing, nextTimer, adding>>, calls' \in Nat
  PROVE  IInv' /\ Follows(heap, heap')
  <1> DEFINE loader == body # None /\ heap' = HandledByLoader(h)
             retired == phase = "task" /\ heap' = Retire(h) /\ phase' = "loop"
  <1>1. /\ running' = Callers
        /\ \/ retired
           \/ loader /\ phase' = "loop"
           \/ heap' = h /\ phase' = phase
    BY DEF ToCaller
  <1>2. /\ heap \in Heap /\ HeapOK(h) /\ phase # "failed" /\ Sound(heap, h)
        /\ fiber \in [Fiber -> ObjFiber] /\ heap.made <= h.made
        /\ phase = "task" => h.queue # <<>>
        /\ heap.made \in Nat /\ h.made \in Nat /\ phase \in UserPhase
    <2>1. heap \in Heap /\ HeapOK(h) /\ Sound(heap, h) /\ heap.made <= h.made
      BY Arguments DEF Keeps, Sound, Follows
    <2>2. heap.made \in Nat /\ h.made \in Nat
      BY <2>1, HeapFields, PromisesAssumption DEF HeapOK
    <2> QED BY <2>1, <2>2 DEF IInv, TypeOK, Control, Keeps, UserRuns, UserPhase
  <1>3. Sound(heap, heap')
    <2>1. CASE retired
      BY <1>2, <2>1, RetireSound, SoundTransitive
    <2>2. CASE loader
      <3>1. /\ body \in Fiber /\ fiber[body].promise \in Promise
            /\ fiber[body].promise <= heap.made
        BY <2>2 DEF IInv, TypeOK, Control, ObjFiber
      <3>2. fiber[body].promise \in Allocated(h)
        BY <1>2, <3>1, PromisesAssumption DEF Allocated, Promise
      <3>3. Keeps(h, heap')
        BY <1>2, <2>2, <3>2, HandledKeeps DEF HandledByLoader
      <3> QED BY <1>2, <3>3, SoundTransitive DEF Keeps
    <2>3. CASE heap' = h
      BY <1>2, <2>3
    <2> QED BY <1>1, <2>1, <2>2, <2>3
  <1>4. /\ HeapOK(heap)' /\ NoSilentRejection' /\ heap' \in Heap
        /\ heap'.made \in Nat /\ heap.made <= heap'.made
    BY <1>2, <1>3, SoundStep
  <1>5. /\ fiber' \in [Fiber -> ObjFiber]
        /\ \A f \in Fiber : /\ fiber'[f].promise = fiber[f].promise
                            /\ fiber[f].state # "unused" <=> fiber'[f].state # "unused"
    BY <1>2, CurrentFiber DEF ObjFiber
  <1>6. TypeOK'
    BY <1>1, <1>2, <1>4, <1>5, CurrentFiber DEF IInv, TypeOK, UserPhase
  <1>7. Control'
    <2>1. \A f \in Fiber : /\ fiber'[f].promise <= heap'.made
                           /\ fiber'[f].state # "unused" => fiber'[f].promise # None
      <3>1. \A f \in Fiber : fiber[f].promise \in Nat /\ fiber[f].promise <= heap.made
        BY PromisesAssumption DEF IInv, TypeOK, Control, ObjFiber, Promise, None
      <3>2. \A f \in Fiber : fiber[f].promise <= heap'.made
        BY <1>2, <1>4, <3>1
      <3> QED BY <1>5, <3>2 DEF IInv, Control
    <2>2. \A i \in 1 .. Len(running') : fiber'[running'[i]].state # "unused"
      <3> SUFFICES ASSUME NEW i \in 1 .. Len(Callers)
                   PROVE  fiber'[Callers[i]].state # "unused"
        BY <1>1
      <3>1. Callers[i] = running[i] /\ i \in 1 .. Len(running) /\ running[i] \in Fiber
        BY CurrentFiber
      <3>2. fiber[running[i]].state # "unused"
        BY <3>1 DEF IInv, Control
      <3> QED BY <1>5, <3>1, <3>2
    <2>3. body' # None => fiber'[body'].state # "unused"
      BY <1>5 DEF IInv, TypeOK, Control
    <2>4. phase' = "task" => heap'.queue # <<>>
      BY <1>1, <1>2
    <2>5. adding' = NotAdding
      BY DEF UserRuns
    <2>6. phase' = "timer" => firing'.id # 0
      BY <1>1 DEF IInv, Control
    <2> QED BY <2>1, <2>2, <2>3, <2>4, <2>5, <2>6 DEF Control
  <1> QED BY <1>3, <1>4, <1>6, <1>7 DEF IInv, Sound

LEMMA FiberSteps ==
  ASSUME IInv, FiberStep
  PROVE  IInv' /\ Follows(heap, heap')
  <1> USE Arguments
  <1>1. ASSUME NEW f \in Fiber, callAsyncFunction(f)
        PROVE  IInv' /\ Follows(heap, heap')
    <2>1. /\ heap.made + 1 <= MaxPromises /\ phase \in UserPhase /\ adding = NotAdding
          /\ calls' = calls + 1 /\ heap' = Allocate(heap, "async")
          /\ fiber' = [fiber EXCEPT ![f] = [state |-> "running", promise |-> Fresh(heap)]]
          /\ running' = Append(running, f)
          /\ UNCHANGED <<phase, body, timers, firing, nextTimer, adding>>
      BY <1>1 DEF callAsyncFunction, Calls, UserRuns
    <2>2. Keeps(heap, heap') /\ Fresh(heap) \in Allocated(heap')
      BY <2>1, AllocateKeeps DEF Maker
    <2>3. /\ HeapOK(heap)' /\ NoSilentRejection' /\ heap' \in Heap
          /\ heap.made \in Nat /\ heap'.made \in Nat /\ heap.made <= heap'.made
      BY <2>1, <2>2, SoundStep DEF Keeps
    <2>4. Fresh(heap) \in Promise /\ Fresh(heap) # None /\ Fresh(heap) <= heap'.made
      BY <2>2, <2>3, HeapFields, PromisesAssumption DEF Allocated, Promise, None
    <2>5. fiber \in [Fiber -> ObjFiber] /\ running \in Seq(Fiber)
      BY DEF IInv, TypeOK
    <2>6. /\ fiber' \in [Fiber -> ObjFiber]
          /\ fiber'[f] = [state |-> "running", promise |-> Fresh(heap)]
          /\ \A g \in Fiber : g # f => fiber'[g] = fiber[g]
      BY <2>1, <2>4, <2>5 DEF ObjFiber
    <2>7. TypeOK'
      BY <2>1, <2>3, <2>5, <2>6 DEF IInv, TypeOK
    <2>8. Control'
      <3>1. \A g \in Fiber : /\ fiber'[g].promise <= heap'.made
                             /\ fiber'[g].state # "unused" => fiber'[g].promise # None
        <4>1. \A g \in Fiber : fiber[g].promise \in Nat /\ fiber[g].promise <= heap.made
          BY <2>5, PromisesAssumption DEF IInv, Control, ObjFiber, Promise, None
        <4>2. \A g \in Fiber : fiber[g].promise <= heap'.made
          BY <2>3, <4>1
        <4> QED BY <2>4, <2>6, <4>2 DEF IInv, Control
      <3>2. \A i \in 1 .. Len(running') : fiber'[running'[i]].state # "unused"
        <4> SUFFICES ASSUME NEW i \in 1 .. Len(running')
                     PROVE  fiber'[running'[i]].state # "unused"
          OBVIOUS
        <4>1. CASE i \in 1 .. Len(running)
          <5>1. running'[i] = running[i] /\ running[i] \in Fiber
            BY <2>1, <2>5, <4>1
          <5> QED BY <2>6, <4>1, <5>1 DEF IInv, Control
        <4>2. CASE i \notin 1 .. Len(running)
          <5>1. running'[i] = f
            BY <2>1, <2>5, <4>2
          <5> QED BY <2>6, <5>1
        <4> QED BY <4>1, <4>2
      <3>3. body' # None => fiber'[body'].state # "unused"
        BY <2>1, <2>6 DEF IInv, TypeOK, Control
      <3>4. phase' = "task" => heap'.queue # <<>>
        BY <2>1, <2>2 DEF Keeps, IInv, Control
      <3>5. phase' = "timer" => firing'.id # 0
        BY <2>1 DEF IInv, Control
      <3> QED BY <2>1, <3>1, <3>2, <3>3, <3>4, <3>5 DEF Control
    <2> QED BY <2>2, <2>3, <2>7, <2>8 DEF IInv, Keeps, Sound
  <1>2. ASSUME NEW v \in Argument, Await(v)
        PROVE  IInv' /\ Follows(heap, heap')
    <2> DEFINE h == IF v \in Promise
                    THEN csPromiseAddReaction(heap, v, AwaitReaction(Current))
                    ELSE csVMQueueMicrotask(heap, [PlainTask(FALSE, v, None, FALSE)
                                                     EXCEPT !.fiber = Current])
    <2>1. /\ UserRuns /\ InFiber /\ calls' = calls + 1
          /\ fiber' = [fiber EXCEPT ![Current].state = "suspended"]
          /\ ToCaller(h) /\ UNCHANGED <<body, timers, firing, nextTimer, adding>>
      BY <1>2 DEF Await, Calls
    <2>2. Keeps(heap, h)
      <3>1. Current \in Fiber
        BY <2>1, CurrentFiber
      <3>2. CASE v \in Promise
        <4>1. v \in Allocated(heap)
          BY <3>2
        <4> QED BY <3>1, <3>2, <4>1, ReactionsOK, AddReactionKeeps
      <3>3. CASE v \notin Promise
        <4>1. v \in Datum
          BY <3>3, HeapFields
        <4> QED BY <3>1, <3>3, <4>1, PlainTaskOK, EnqueueKeeps
      <3> QED BY <3>2, <3>3
    <2> HIDE DEF h
    <2> QED BY <2>1, <2>2, GivingBack
  <1>3. ASSUME NEW v \in Argument, FiberReturns(v)
        PROVE  IInv' /\ Follows(heap, heap')
    <2>1. UserRuns /\ InFiber
      BY <1>3 DEF FiberReturns
    <2>2. Keeps(heap, csPromiseFulfill(heap, fiber[Current].promise, v))
      BY <2>1, CurrentFiber, FulfillKeeps
    <2> QED BY <1>3, <2>1, <2>2, GivingBack DEF FiberReturns, finishFiber
  <1>4. ASSUME NEW v \in Datum, FiberThrows(v)
        PROVE  IInv' /\ Follows(heap, heap')
    <2>1. UserRuns /\ InFiber
      BY <1>4 DEF FiberThrows
    <2>2. Keeps(heap, csPromiseReject(heap, fiber[Current].promise, v))
      BY <2>1, CurrentFiber, RejectKeeps
    <2> QED BY <1>4, <2>1, <2>2, GivingBack DEF FiberThrows, finishFiber
  <1> QED BY <1>1, <1>2, <1>3, <1>4 DEF FiberStep, FiberFaults

-----------------------------------------------------------------------------
(* The ends of callbacks, and the loop.                                    *)

(* A step of the thread that leaves the async calls alone.                 *)
LEMMA ThreadStep ==
  ASSUME IInv, phase # "failed", Sound(heap, heap'),
         phase' \in UserPhase \cup Final \cup {"loop"},
         phase' = "task" => heap'.queue # <<>>,
         phase' = "timer" => firing'.id # 0,
         timers' \in Seq(Timer),
         firing' \in [id : Nat, left : Nat, repeat : Nat, cancelled : BOOLEAN],
         UNCHANGED <<fiber, running, body, nextTimer, adding, calls>>
  PROVE  IInv' /\ Follows(heap, heap')
  <1>1. /\ HeapOK(heap)' /\ NoSilentRejection' /\ heap' \in Heap
        /\ heap.made \in Nat /\ heap'.made \in Nat /\ heap.made <= heap'.made
    BY SoundStep
  <1>2. TypeOK'
    BY <1>1 DEF IInv, TypeOK
  <1>3. Control'
    <2>1. \A f \in Fiber : fiber[f].promise \in Nat /\ fiber[f].promise <= heap.made
      BY PromisesAssumption DEF IInv, TypeOK, Control, ObjFiber, Promise, None
    <2>2. \A f \in Fiber : fiber[f].promise <= heap'.made
      BY <1>1, <2>1
    <2>3. adding # NotAdding => adding.target \in Allocated(heap')
      BY <1>1 DEF IInv, Control, Allocated
    <2> QED BY <2>2, <2>3 DEF IInv, Control
  <1> QED BY <1>1, <1>2, <1>3 DEF IInv, Sound

(* The task at the head of the queue is well formed.                       *)
LEMMA HeadOK ==
  ASSUME IInv, heap.queue # <<>>
  PROVE  TaskOK(heap, HeadTask)
  <1>1. 1 \in 1 .. Len(heap.queue)
    BY Arguments, HeapFields
  <1> QED BY <1>1, Arguments, QueueOK DEF HeadTask

(* The head of the queue retires after an operation that keeps the heap.   *)
LEMMA RetireAfter ==
  ASSUME IInv, heap.queue # <<>>, NEW h, Keeps(heap, h)
  PROVE  Sound(heap, Retire(h))
  <1>1. HeapOK(h) /\ h.queue # <<>> /\ Sound(heap, h)
    BY DEF Keeps, Sound
  <1> QED BY <1>1, Arguments, RetireSound, SoundTransitive

LEMMA Ends ==
  ASSUME IInv, CallbackEnds
  PROVE  IInv' /\ Follows(heap, heap')
  <1> USE Arguments
  <1>1. /\ timers \in Seq(Timer)
        /\ firing \in [id : Nat, left : Nat, repeat : Nat, cancelled : BOOLEAN]
        /\ Sound(heap, heap)
    BY KeepsReflexive DEF IInv, TypeOK, Keeps
  <1>2. CASE TopReturns
    BY <1>1, <1>2, ThreadStep DEF TopReturns, UserPhase
  <1>3. ASSUME NEW v \in Argument, HandlerReturns(v)
        PROVE  IInv' /\ Follows(heap, heap')
    <2>1. heap.queue # <<>> /\ phase = "task"
      BY <1>3 DEF HandlerReturns, IInv, Control
    <2>2. Keeps(heap, HandlerReturned(heap, HeadTask, v))
      BY <2>1, HeadOK, HandlerReturnedKeeps
    <2>3. Sound(heap, heap')
      BY <1>3, <2>1, <2>2, RetireAfter DEF HandlerReturns
    <2> QED BY <1>1, <1>3, <2>1, <2>3, ThreadStep DEF HandlerReturns
  <1>4. ASSUME NEW v \in Value, HandlerThrows(v)
        PROVE  IInv' /\ Follows(heap, heap')
    <2>1. heap.queue # <<>> /\ phase = "task" /\ HeadTask.result # None
      BY <1>4 DEF HandlerThrows, IInv, Control
    <2>2. HeadTask.result \in Allocated(heap)
      BY <2>1, HeadOK, TaskFields
    <2>3. Keeps(heap, csPromiseReject(heap, HeadTask.result, v))
      BY <2>2, RejectKeeps
    <2>4. Sound(heap, heap')
      BY <1>4, <2>1, <2>3, RetireAfter DEF HandlerThrows
    <2> QED BY <1>1, <1>4, <2>1, <2>4, ThreadStep DEF HandlerThrows
  <1>5. CASE TimerReturns
    <2>1. ASSUME firing.repeat > 0, phase = "timer", firing.id # 0,
                 Arm(timers, [id |-> firing.id, left |-> firing.repeat, repeat |-> firing.repeat])
          PROVE  timers' \in Seq(Timer)
      <3>1. [id |-> firing.id, left |-> firing.repeat, repeat |-> firing.repeat] \in Timer
        BY <1>1, <2>1 DEF Timer
      <3> QED BY <1>1, <2>1, <3>1, ArmTypes
    <2>2. timers' \in Seq(Timer)
      BY <1>1, <1>5, <2>1 DEF TimerReturns, IInv, Control
    <2>3. firing' \in [id : Nat, left : Nat, repeat : Nat, cancelled : BOOLEAN]
      BY <1>5 DEF TimerReturns, NotFiring
    <2>4. phase # "failed" /\ phase' = "loop" /\ heap' = heap
      BY <1>5 DEF TimerReturns
    <2> QED BY <1>1, <1>5, <2>2, <2>3, <2>4, ThreadStep DEF TimerReturns
  <1>6. CASE Uncaught
    <2>1. phase \in UserPhase /\ phase' = "failed"
      BY <1>6 DEF Uncaught, UserRuns
    <2>2. Sound(heap, heap')
      <3>1. CASE phase = "task"
        BY <1>1, <1>6, <3>1, RetireSound DEF Uncaught, IInv, Control
      <3>2. CASE phase # "task"
        BY <1>1, <1>6, <3>2 DEF Uncaught
      <3> QED BY <3>1, <3>2
    <2> QED BY <1>1, <1>6, <2>1, <2>2, ThreadStep DEF Uncaught, Final
  <1> QED BY <1>2, <1>3, <1>4, <1>5, <1>6 DEF CallbackEnds

(* Emptying the watchdog's list when everything on it was listened to.     *)
LEMMA ForgetWatched ==
  ASSUME IInv, phase # "failed", heap' = [heap EXCEPT !.watched = {}],
         Unheard = {}
  PROVE  Sound(heap, heap') /\ heap'.queue = heap.queue
  <1>1. heap \in Heap /\ HeapOK(heap) /\ RejectionsWatched(heap)
    BY Arguments DEF IInv, NoSilentRejection
  <1>2. /\ heap' \in Heap /\ heap'.made = heap.made /\ heap'.promise = heap.promise
        /\ heap'.queue = heap.queue /\ heap'.watched = {}
    BY <1>1 DEF Heap
  <1>3. RejectionsWatched(heap')
    BY <1>1, <1>2 DEF RejectionsWatched, Rejected, Unheard
  <1>4. RefsAllocated(heap') /\ TasksCarry(heap') /\ NoneWaitsOnSettled(heap')
    BY <1>1, <1>2
       DEF HeapOK, RefsAllocated, RefersTo, TasksCarry, NoneWaitsOnSettled, Pending, Rejected
  <1>5. Follows(heap, heap')
    BY <1>1, <1>2, HeapFields, PromisesAssumption DEF Follows, Outcome
  <1> QED BY <1>2, <1>3, <1>4, <1>5 DEF Sound, HeapOK

LEMMA LoopSteps ==
  ASSUME IInv, LoopStep
  PROVE  IInv' /\ Follows(heap, heap')
  <1> USE Arguments
  <1>1. /\ timers \in Seq(Timer)
        /\ firing \in [id : Nat, left : Nat, repeat : Nat, cancelled : BOOLEAN]
        /\ Sound(heap, heap)
    BY KeepsReflexive DEF IInv, TypeOK, Keeps
  <1>2. CASE RunTask
    <2>1. heap.queue # <<>> /\ phase = "loop" /\ TaskOK(heap, HeadTask)
      BY <1>2, HeadOK DEF RunTask
    <2>2. CASE phase' = "task" /\ heap' = heap
      BY <1>1, <1>2, <2>1, <2>2, ThreadStep DEF RunTask, UserPhase
    <2>3. CASE phase' = phase /\ HeadTask.combine # None /\ heap' = Retire(runCombine(heap, HeadTask))
      <3>1. Sound(heap, heap')
        BY <2>1, <2>3, runCombineKeeps, RetireAfter
      <3> QED BY <1>1, <1>2, <2>1, <2>3, <3>1, ThreadStep DEF RunTask
    <2>4. CASE phase' = phase /\ heap' = Retire(PassThrough(heap, HeadTask))
      <3>1. Sound(heap, heap')
        BY <2>1, <2>4, PassThroughKeeps, RetireAfter
      <3> QED BY <1>1, <1>2, <2>1, <2>4, <3>1, ThreadStep DEF RunTask
    <2> QED BY <1>2, <2>2, <2>3, <2>4 DEF RunTask
  <1>3. CASE csVMResumeFiber
    <2> DEFINE f == HeadTask.fiber
    <2>1. heap.queue # <<>> /\ phase = "loop" /\ TaskOK(heap, HeadTask) /\ f # None
      BY <1>3, HeadOK DEF csVMResumeFiber
    <2>2. f \in Fiber
      BY <2>1 DEF TaskOK, Microtask
    <2>3. CASE heap' = Retire(heap) /\ UNCHANGED <<fiber, running, phase>>
      <3>1. Sound(heap, heap')
        BY <2>1, <2>3, RetireSound
      <3> QED BY <1>1, <1>3, <2>1, <2>3, <3>1, ThreadStep DEF csVMResumeFiber
    <2>4. CASE /\ fiber[f].state = "suspended"
               /\ fiber' = [fiber EXCEPT ![f].state = "running"]
               /\ running' = <<f>> /\ phase' = "task" /\ heap' = heap
      <3>1. /\ fiber' \in [Fiber -> ObjFiber]
            /\ \A g \in Fiber : /\ fiber'[g].promise = fiber[g].promise
                                /\ fiber[g].state # "unused" <=> fiber'[g].state # "unused"
        <4>1. fiber \in [Fiber -> ObjFiber] /\ fiber[f] \in ObjFiber
          BY <2>2 DEF IInv, TypeOK
        <4>2. [fiber[f] EXCEPT !.state = "running"] \in ObjFiber
          BY <4>1 DEF ObjFiber
        <4> HIDE DEF f
        <4> QED BY <2>2, <2>4, <4>1, <4>2 DEF ObjFiber
      <3>2. TypeOK'
        BY <1>3, <2>2, <2>4, <3>1 DEF csVMResumeFiber, IInv, TypeOK, UserPhase
      <3>3. Control'
        <4>1. fiber'[f].state # "unused"
          BY <2>2, <2>4, <3>1
        <4>2. \A i \in 1 .. Len(running') : running'[i] = f
          BY <2>4
        <4>3. body' # None => fiber'[body'].state # "unused"
          BY <1>3, <3>1 DEF csVMResumeFiber, IInv, TypeOK, Control
        <4> QED BY <1>3, <2>1, <2>4, <3>1, <4>1, <4>2, <4>3
                DEF csVMResumeFiber, IInv, Control
      <3>4. HeapOK(heap)' /\ NoSilentRejection'
        BY <2>1, <2>4 DEF IInv, NoSilentRejection
      <3> QED BY <1>1, <2>4, <3>2, <3>3, <3>4 DEF IInv, Sound
    <2> QED BY <1>3, <2>3, <2>4 DEF csVMResumeFiber
  <1>4. CASE reportUnhandledRejections
    <2>1. /\ heap' = [heap EXCEPT !.watched = {}] /\ phase' = "failed" /\ phase = "loop"
          /\ UNCHANGED <<fiber, running, body, timers, firing, nextTimer, adding, calls>>
      BY <1>4 DEF reportUnhandledRejections, Drained
    <2>2. /\ heap' \in Heap /\ heap'.made = heap.made /\ heap'.promise = heap.promise
          /\ heap'.queue = heap.queue
      BY <2>1 DEF Heap
    <2>3. HeapOK(heap')
      BY <2>2 DEF HeapOK, RefsAllocated, RefersTo, TasksCarry, NoneWaitsOnSettled, Pending, Rejected
    <2>4. Follows(heap, heap')
      BY <2>2, HeapFields, PromisesAssumption DEF Follows, Outcome
    <2>5. TypeOK' /\ Control'
      BY <2>1, <2>2 DEF IInv, TypeOK, Control, Final, Allocated
    <2> QED BY <2>1, <2>3, <2>4, <2>5 DEF IInv, NoSilentRejection
  <1>5. CASE FireTimer
    <2>1. Sound(heap, heap') /\ phase = "loop" /\ timers # <<>>
      BY <1>5, ForgetWatched DEF FireTimer, Drained
    <2>2. /\ Tail(timers) \in Seq(Timer) /\ timers[1] \in Timer
      BY <1>1, <2>1, Retiring
    <2>3. timers' \in Seq(Timer)
      <3>1. timers[1].left \in Nat
        BY <2>2 DEF Timer
      <3> QED BY <1>5, <2>2, <3>1, PassedTypes DEF FireTimer
    <2>4. /\ firing' \in [id : Nat, left : Nat, repeat : Nat, cancelled : BOOLEAN]
          /\ firing'.id # 0
      BY <1>5, <2>2 DEF FireTimer, Timer
    <2> QED BY <1>5, <2>1, <2>3, <2>4, ThreadStep DEF FireTimer, UserPhase
  <1>6. CASE LoopEnds
    <2>1. Sound(heap, heap') /\ phase = "loop"
      BY <1>6, ForgetWatched DEF LoopEnds, Drained
    <2>2. phase' \in Final /\ phase' # "task"
      BY <1>6 DEF LoopEnds, Final
    <2> QED BY <1>1, <1>6, <2>1, <2>2, ThreadStep DEF LoopEnds
  <1> QED BY <1>2, <1>3, <1>4, <1>5, <1>6 DEF LoopStep

-----------------------------------------------------------------------------
(* The theorems.                                                           *)

LEMMA InitOK == Init => IInv
  <1> SUFFICES ASSUME Init PROVE IInv
    OBVIOUS
  <1>1. CASE InitPlain
    <2>1. HeapOK(heap) /\ RejectionsWatched(heap) /\ heap.made = 0
      BY <1>1, EmptyHeapOK DEF InitPlain
    <2>2. TypeOK
      BY <1>1, <2>1, EventLoopAssumption
         DEF Init, InitPlain, TypeOK, HeapOK, ObjFiber, NotFiring, NotAdding, UserPhase
    <2>3. Control
      BY <1>1, <2>1 DEF Init, InitPlain, Control, None
    <2> QED BY <2>1, <2>2, <2>3 DEF IInv, NoSilentRejection
  <1>2. CASE InitAsync
    <2>1. /\ HeapOK(heap) /\ RejectionsWatched(heap) /\ heap.made = 1
          /\ 1 \in Fiber /\ 1 \in Promise
      <3>1. EmptyHeap.made + 1 <= MaxPromises
        BY <1>2, EmptyHeapOK, PromisesAssumption DEF InitAsync, Promise
      <3>2. Keeps(EmptyHeap, heap) /\ heap.made = 1
        BY <1>2, <3>1, EmptyHeapOK, AllocateKeeps DEF InitAsync, Maker
      <3> QED BY <1>2, <3>2, EmptyHeapOK DEF InitAsync, Keeps, Sound
    <2>2. fiber \in [Fiber -> ObjFiber] /\ running \in Seq(Fiber)
      BY <1>2, <2>1 DEF InitAsync, ObjFiber
    <2>3. TypeOK
      BY <1>2, <2>1, <2>2 DEF Init, InitAsync, TypeOK, HeapOK, NotFiring, NotAdding, UserPhase
    <2>4. Control
      BY <1>2, <2>1 DEF Init, InitAsync, Control, None
    <2> QED BY <2>1, <2>3, <2>4 DEF IInv, NoSilentRejection
  <1> QED BY <1>1, <1>2 DEF Init

(* One step keeps the invariant, and no outcome changes in it.             *)
LEMMA NextOK == IInv /\ [Next]_vars => IInv' /\ Follows(heap, heap')
  <1> SUFFICES ASSUME IInv, [Next]_vars PROVE IInv' /\ Follows(heap, heap')
    OBVIOUS
  <1>1. CASE PromiseCall
    BY <1>1, SettleCalls, ListenCalls, QueueCalls, CombineCalls DEF PromiseCall
  <1>2. heap' = heap => Follows(heap, heap')
    BY Arguments, KeepsReflexive DEF Keeps, Sound
  <1>3. CASE TimerCall
    BY <1>2, <1>3, TimerCalls
  <1>4. CASE FiberStep
    BY <1>4, FiberSteps
  <1>5. CASE CallbackEnds
    BY <1>5, Ends
  <1>6. CASE LoopStep
    BY <1>6, LoopSteps
  <1>7. CASE UNCHANGED vars
    BY <1>2, <1>7 DEF vars, IInv, TypeOK, NoSilentRejection, Control
  <1> QED BY <1>1, <1>3, <1>4, <1>5, <1>6, <1>7 DEF Next, Ended

(* The inductive invariant holds of every run of every program.            *)
THEOREM Invariance == Spec => []IInv
  <1>1. IInv /\ [Next]_vars => IInv'
    BY NextOK
  <1> QED BY InitOK, <1>1, PTL DEF Spec

(* Every variable of the event loop keeps its type.                        *)
THEOREM TypeCorrect == Spec => []TypeOK
  <1>1. IInv => TypeOK
    BY DEF IInv
  <1> QED BY Invariance, <1>1, PTL

(* A queued microtask always carries the outcome its promise settled with  *)
(* (settle and runMicrotask copy and requeue it).                          *)
THEOREM TasksCarryCorrect == Spec => []TasksCarryOutcome
  <1>1. IInv => TasksCarryOutcome
    BY DEF IInv, HeapOK, TasksCarryOutcome
  <1> QED BY Invariance, <1>1, PTL

(* A settled promise has no reaction left to forget: settle moves them all.*)
THEOREM ReactionsMoved == Spec => []NoReactionLeftBehind
  <1>1. IInv => NoReactionLeftBehind
    BY DEF IInv, HeapOK, NoReactionLeftBehind
  <1> QED BY Invariance, <1>1, PTL

(* The watchdog (csVMNoteRejection, reportUnhandledRejections) misses no   *)
(* rejection that nobody listens to.                                       *)
THEOREM WatchdogComplete == Spec => []NoSilentRejection
  <1>1. IInv => NoSilentRejection
    BY DEF IInv
  <1> QED BY Invariance, <1>1, PTL

(* No step of a native, of an async call or of the loop changes the        *)
(* outcome of a promise that has settled.                                  *)
THEOREM OutcomesStand == Spec => SettledOnce
  <1>1. IInv /\ [Next]_vars =>
          [\A p \in Promise : ~Pending(heap, p) => Outcome(heap', p) = Outcome(heap, p)]_vars
    BY NextOK DEF Follows
  <1> QED BY Invariance, <1>1, PTL DEF Spec, SettledOnce

-----------------------------------------------------------------------------
(* The order of the timers.                                                *)

(* A list with one element more, and where its elements are.               *)
Inserted(s, t, a) == SubSeq(s, 1, a) \o <<t>> \o SubSeq(s, a + 1, Len(s))

WithInserted(r, s, t, a) ==
  /\ Len(r) = Len(s) + 1
  /\ \A i \in 1 .. a : r[i] = s[i]
  /\ r[a + 1] = t
  /\ \A i \in a + 1 .. Len(s) : r[i + 1] = s[i]

LEMMA InsertedAt ==
  ASSUME NEW S, NEW s \in Seq(S), NEW t \in S, NEW a \in 0 .. Len(s),
         NEW r, r = Inserted(s, t, a)
  PROVE  r \in Seq(S) /\ WithInserted(r, s, t, a)
  <1> DEFINE n == Len(s)
             b == SubSeq(s, 1, a)
             c == SubSeq(s, a + 1, n)
             d == b \o <<t>>
  <1>1. /\ n \in Nat /\ a \in Nat /\ a <= n /\ 1 \in Int /\ a + 1 \in Int /\ a \in Int /\ n \in Int
        /\ \A i \in 1 .. n : s[i] \in S
    OBVIOUS
  <1>2. /\ b \in Seq(S) /\ Len(b) = a /\ \A i \in 1 .. a : b[i] = s[i]
    <2>1. /\ SubSeq(s, 1, a) \in Seq(S)
          /\ Len(SubSeq(s, 1, a)) = IF 1 <= a THEN a - 1 + 1 ELSE 0
          /\ \A i \in 1 .. a - 1 + 1 : SubSeq(s, 1, a)[i] = s[1 + i - 1]
      <3>1. \A i \in 1 .. a : s[i] \in S
        BY <1>1
      <3> QED BY <1>1, <3>1, SubSeqProperties
    <2> QED BY <1>1, <2>1
  <1>3. /\ c \in Seq(S) /\ Len(c) = n - a /\ \A i \in 1 .. n - a : c[i] = s[a + i]
    <2>1. /\ SubSeq(s, a + 1, n) \in Seq(S)
          /\ Len(SubSeq(s, a + 1, n)) = IF a + 1 <= n THEN n - (a + 1) + 1 ELSE 0
          /\ \A i \in 1 .. n - (a + 1) + 1 : SubSeq(s, a + 1, n)[i] = s[(a + 1) + i - 1]
      <3>1. \A i \in a + 1 .. n : s[i] \in S
        BY <1>1
      <3> QED BY <1>1, <3>1, SubSeqProperties
    <2>2. n - (a + 1) + 1 = n - a /\ (a + 1 <= n \/ n - a = 0)
      BY <1>1
    <2>3. \A i \in 1 .. n - a : (a + 1) + i - 1 = a + i
      BY <1>1
    <2> QED BY <2>1, <2>2, <2>3
  <1>4. <<t>> \in Seq(S) /\ Len(<<t>>) = 1 /\ <<t>>[1] = t
    OBVIOUS
  <1> HIDE DEF n, b, c
  <1>5. /\ d \in Seq(S) /\ Len(d) = a + 1 /\ \A i \in 1 .. a : d[i] = s[i]
        /\ d[a + 1] = t
    <2>3. b \in Seq(S) /\ <<t>> \in Seq(S)
      BY <1>2, <1>4
    <2>1. /\ b \o <<t>> \in Seq(S) /\ Len(b \o <<t>>) = Len(b) + 1
          /\ \A i \in 1 .. Len(b) : (b \o <<t>>)[i] = b[i]
          /\ \A i \in 1 .. 1 : (b \o <<t>>)[Len(b) + i] = <<t>>[i]
      BY <1>4, <2>3, Concatenating
    <2>2. (b \o <<t>>)[Len(b) + 1] = t
      BY <1>4, <2>1
    <2> QED BY <1>2, <2>1, <2>2
  <1> HIDE DEF d
  <1>6. /\ d \o c \in Seq(S) /\ Len(d \o c) = n + 1
        /\ \A i \in 1 .. a + 1 : (d \o c)[i] = d[i]
        /\ \A i \in 1 .. n - a : (d \o c)[a + 1 + i] = s[a + i]
    <2>3. d \in Seq(S) /\ c \in Seq(S)
      BY <1>3, <1>5
    <2>1. /\ d \o c \in Seq(S) /\ Len(d \o c) = Len(d) + Len(c)
          /\ \A i \in 1 .. Len(d) : (d \o c)[i] = d[i]
          /\ \A i \in 1 .. Len(c) : (d \o c)[Len(d) + i] = c[i]
      BY <2>3, Concatenating
    <2>2. a + 1 + (n - a) = n + 1
      BY <1>1
    <2> QED BY <1>3, <1>5, <2>1, <2>2
  <1>7. \A i \in a + 1 .. n : (d \o c)[i + 1] = s[i]
    <2> SUFFICES ASSUME NEW i \in a + 1 .. n PROVE (d \o c)[i + 1] = s[i]
      OBVIOUS
    <2>1. PICK j \in 1 .. n - a : i = a + j /\ i + 1 = a + 1 + j
      <3>1. i - a \in 1 .. n - a /\ i = a + (i - a) /\ i + 1 = a + 1 + (i - a)
        BY <1>1
      <3> QED BY <3>1
    <2> QED BY <1>6, <2>1
  <1>8. /\ \A i \in 1 .. a : (d \o c)[i] = s[i]
        /\ (d \o c)[a + 1] = t
    BY <1>1, <1>5, <1>6
  <1> QED BY <1>6, <1>7, <1>8 DEF n, b, c, d, Inserted, WithInserted

(* A list with one element less, and where its elements are.               *)
Removed(s, k) == SubSeq(s, 1, k - 1) \o SubSeq(s, k + 1, Len(s))

WithRemoved(r, s, k) ==
  /\ Len(r) = Len(s) - 1
  /\ \A i \in 1 .. k - 1 : r[i] = s[i]
  /\ \A i \in k .. Len(s) - 1 : r[i] = s[i + 1]

LEMMA RemovedAt ==
  ASSUME NEW S, NEW s \in Seq(S), NEW k \in 1 .. Len(s),
         NEW r, r = Removed(s, k)
  PROVE  r \in Seq(S) /\ WithRemoved(r, s, k)
  <1> DEFINE n == Len(s)
             a == k - 1
             b == SubSeq(s, 1, a)
             c == SubSeq(s, k + 1, n)
  <1>1. /\ n \in Nat /\ a \in Nat /\ k \in Nat /\ k = a + 1 /\ k <= n
        /\ 1 \in Int /\ k + 1 \in Int /\ a \in Int /\ n \in Int
        /\ \A i \in 1 .. n : s[i] \in S
    OBVIOUS
  <1> HIDE DEF a
  <1>2. /\ b \in Seq(S) /\ Len(b) = a /\ \A i \in 1 .. a : b[i] = s[i]
    <2>1. /\ SubSeq(s, 1, a) \in Seq(S)
          /\ Len(SubSeq(s, 1, a)) = IF 1 <= a THEN a - 1 + 1 ELSE 0
          /\ \A i \in 1 .. a - 1 + 1 : SubSeq(s, 1, a)[i] = s[1 + i - 1]
      <3>1. \A i \in 1 .. a : s[i] \in S
        BY <1>1
      <3> QED BY <1>1, <3>1, SubSeqProperties
    <2> QED BY <1>1, <2>1
  <1>3. /\ c \in Seq(S) /\ Len(c) = n - k /\ \A i \in 1 .. n - k : c[i] = s[k + i]
    <2>1. /\ SubSeq(s, k + 1, n) \in Seq(S)
          /\ Len(SubSeq(s, k + 1, n)) = IF k + 1 <= n THEN n - (k + 1) + 1 ELSE 0
          /\ \A i \in 1 .. n - (k + 1) + 1 : SubSeq(s, k + 1, n)[i] = s[(k + 1) + i - 1]
      <3>1. \A i \in k + 1 .. n : s[i] \in S
        BY <1>1
      <3> QED BY <1>1, <3>1, SubSeqProperties
    <2>2. n - (k + 1) + 1 = n - k /\ (k + 1 <= n \/ n - k = 0)
      BY <1>1
    <2>3. \A i \in 1 .. n - k : (k + 1) + i - 1 = k + i
      BY <1>1
    <2> QED BY <2>1, <2>2, <2>3
  <1> HIDE DEF n, b, c
  <1>4. /\ b \o c \in Seq(S) /\ Len(b \o c) = n - 1
        /\ \A i \in 1 .. a : (b \o c)[i] = s[i]
        /\ \A i \in 1 .. n - k : (b \o c)[a + i] = s[k + i]
    <2>3. b \in Seq(S) /\ c \in Seq(S)
      BY <1>2, <1>3
    <2>1. /\ b \o c \in Seq(S) /\ Len(b \o c) = Len(b) + Len(c)
          /\ \A i \in 1 .. Len(b) : (b \o c)[i] = b[i]
          /\ \A i \in 1 .. Len(c) : (b \o c)[Len(b) + i] = c[i]
      BY <2>3, Concatenating
    <2>2. a + (n - k) = n - 1
      BY <1>1
    <2> QED BY <1>2, <1>3, <2>1, <2>2
  <1>5. \A i \in k .. n - 1 : (b \o c)[i] = s[i + 1]
    <2> SUFFICES ASSUME NEW i \in k .. n - 1 PROVE (b \o c)[i] = s[i + 1]
      OBVIOUS
    <2>1. PICK j \in 1 .. n - k : i = a + j /\ i + 1 = k + j
      <3>1. i - a \in 1 .. n - k /\ i = a + (i - a) /\ i + 1 = k + (i - a)
        BY <1>1
      <3> QED BY <3>1
    <2> QED BY <1>4, <2>1
  <1> QED BY <1>4, <1>5 DEF n, a, b, c, Removed, WithRemoved

(* What the list of timers is when the timer that fires is k and the next  *)
(* one is to have the identifier n.                                        *)
Tidy(list, k, n) ==
  /\ \A i, j \in 1 .. Len(list) : i < j => list[i].left <= list[j].left
  /\ \A i, j \in 1 .. Len(list) : list[i].id = list[j].id => i = j
  /\ \A i \in 1 .. Len(list) : list[i].id # k /\ list[i].id < n
  /\ Len(list) <= TimersMax
  /\ k < n

(* The strengthening of TimersInOrder that the steps preserve: no timer    *)
(* has an identifier that is still to be given out.                        *)
TimersTidy == Tidy(timers, firing.id, nextTimer)

(* Every timer of the second list is a timer of the first or has id k.     *)
NoOther(list, next, k) ==
  \A j \in 1 .. Len(next) :
    next[j].id = k \/ \E i \in 1 .. Len(list) : next[j].id = list[i].id

(* scheduleTimer and the re-arming of an interval: a timer that is not on  *)
(* the list goes where the list stays sorted.                              *)
LEMMA ArmTidy ==
  ASSUME NEW list \in Seq(Timer), NEW t \in Timer, NEW k \in Nat, NEW n \in Nat,
         NEW l \in Nat, NEW m \in Nat, Tidy(list, k, n), Len(list) < TimersMax,
         \A i \in 1 .. Len(list) : list[i].id # t.id,
         n <= m, t.id < m, l = k \/ l = 0, l # t.id, Arm(list, t)
  PROVE  Tidy(timers', l, m) /\ NoOther(list, timers', t.id)
  <1>1. PICK at \in 0 .. Len(list) :
          /\ \A i \in at + 1 .. Len(list) : list[i].left > t.left
          /\ at > 0 => list[at].left <= t.left
          /\ timers' = SubSeq(list, 1, at) \o <<t>> \o SubSeq(list, at + 1, Len(list))
    BY DEF Arm
  <1>2. /\ Len(timers') = Len(list) + 1
        /\ \A i \in 1 .. at : timers'[i] = list[i]
        /\ timers'[at + 1] = t
        /\ \A i \in at + 1 .. Len(list) : timers'[i + 1] = list[i]
    <2>1. timers' = Inserted(list, t, at)
      BY <1>1 DEF Inserted
    <2>2. WithInserted(timers', list, t, at)
      BY <2>1, InsertedAt
    <2> QED BY <2>2 DEF WithInserted
  <1> DEFINE z == Len(list)
             s == timers'
  <1>3. /\ z \in Nat /\ at \in Nat /\ at <= z /\ Len(s) = z + 1 /\ TimersMax \in Nat
        /\ \A i \in 1 .. z : list[i] \in Timer
    BY <1>2, EventLoopAssumption
  <1>4. \A i \in 1 .. z : list[i].left \in Nat /\ list[i].id \in Nat \ {0}
    BY <1>3 DEF Timer
  <1>5. t.left \in Nat /\ t.id \in Nat \ {0}
    BY DEF Timer
  <1> HIDE DEF z, s
  (* Where each timer of the new list comes from.                          *)
  <1>6. ASSUME NEW i \in 1 .. z + 1
        PROVE  \/ i < at + 1 /\ i \in 1 .. z /\ s[i] = list[i]
               \/ i = at + 1 /\ s[i] = t
               \/ i > at + 1 /\ i - 1 \in at + 1 .. z /\ s[i] = list[i - 1]
    <2>1. CASE i < at + 1
      <3>1. i \in 1 .. at /\ i \in 1 .. z
        BY <1>3, <2>1
      <3> QED BY <1>2, <2>1, <3>1 DEF s
    <2>2. CASE i > at + 1
      <3>1. i - 1 \in at + 1 .. z /\ i = (i - 1) + 1
        BY <1>3, <2>2
      <3>2. s[(i - 1) + 1] = list[i - 1]
        BY <1>2, <3>1 DEF s, z
      <3> QED BY <2>2, <3>1, <3>2
    <2> QED BY <1>2, <1>3, <2>1, <2>2 DEF s
  <1>7. /\ \A i, j \in 1 .. z : i < j => list[i].left <= list[j].left
        /\ \A i, j \in 1 .. z : list[i].id = list[j].id => i = j
        /\ \A i \in 1 .. z : list[i].id # k /\ list[i].id < n /\ list[i].id # t.id
        /\ z < TimersMax
    BY DEF Tidy, z
  <1>8. /\ \A i \in 1 .. z : i < at + 1 => list[i].left <= t.left
        /\ \A i \in at + 1 .. z : list[i].left > t.left
    <2>1. ASSUME NEW i \in 1 .. z, i < at + 1 PROVE list[i].left <= t.left
      <3>1. at \in 1 .. z /\ at > 0 /\ i <= at
        BY <1>3, <2>1
      <3>2. list[at].left <= t.left
        BY <1>1, <3>1
      <3>3. CASE i = at
        BY <3>2, <3>3
      <3>4. CASE i < at
        <4>1. list[i].left <= list[at].left
          BY <1>7, <3>1, <3>4
        <4> QED BY <1>4, <1>5, <3>1, <3>2, <4>1
      <3> QED BY <1>3, <3>1, <3>3, <3>4
    <2> QED BY <1>1, <2>1 DEF z
  (* Two places of the new list, in terms of the old one.                  *)
  <1>9. ASSUME NEW i \in 1 .. z + 1, NEW j \in 1 .. z + 1, i < j
        PROVE  \/ \E a \in 1 .. z, b \in 1 .. z : a < b /\ s[i] = list[a] /\ s[j] = list[b]
               \/ s[j] = t /\ \E a \in 1 .. z : a < at + 1 /\ s[i] = list[a]
               \/ s[i] = t /\ \E b \in at + 1 .. z : b \in 1 .. z /\ s[j] = list[b]
    <2>1. CASE j < at + 1
      <3>1. i < at + 1 /\ ~(i = at + 1) /\ ~(i > at + 1) /\ ~(j = at + 1) /\ ~(j > at + 1)
        BY <1>3, <1>9, <2>1
      <3>2. i \in 1 .. z /\ s[i] = list[i] /\ j \in 1 .. z /\ s[j] = list[j]
        BY <1>6, <3>1
      <3> QED BY <1>9, <3>2
    <2>2. CASE j = at + 1
      <3>1. i < at + 1 /\ ~(i = at + 1) /\ ~(i > at + 1) /\ ~(j < at + 1) /\ ~(j > at + 1)
        BY <1>3, <1>9, <2>2
      <3>2. i \in 1 .. z /\ s[i] = list[i] /\ s[j] = t
        BY <1>6, <3>1
      <3> QED BY <3>1, <3>2
    <2>3. CASE j > at + 1
      <3>1. ~(j = at + 1) /\ ~(j < at + 1)
        BY <1>3, <2>3
      <3>2. j - 1 \in at + 1 .. z /\ s[j] = list[j - 1]
        BY <1>6, <3>1
      <3>3. j - 1 \in 1 .. z
        BY <1>3, <3>2
      <3>4. CASE i < at + 1
        <4>1. i < j - 1 /\ ~(i = at + 1) /\ ~(i > at + 1)
          BY <1>3, <2>3, <3>4
        <4>2. i \in 1 .. z /\ s[i] = list[i]
          BY <1>6, <4>1
        <4> QED BY <3>2, <3>3, <4>1, <4>2
      <3>5. CASE i = at + 1
        <4>1. ~(i < at + 1) /\ ~(i > at + 1)
          BY <1>3, <3>5
        <4>2. s[i] = t
          BY <1>6, <4>1
        <4> QED BY <3>2, <3>3, <4>2
      <3>6. CASE i > at + 1
        <4>1. i - 1 < j - 1 /\ ~(i = at + 1) /\ ~(i < at + 1)
          BY <1>3, <1>9, <3>6
        <4>2. i - 1 \in at + 1 .. z /\ s[i] = list[i - 1]
          BY <1>6, <4>1
        <4>3. i - 1 \in 1 .. z
          BY <1>3, <4>2
        <4> QED BY <3>2, <3>3, <4>1, <4>2, <4>3
      <3> QED BY <1>3, <3>4, <3>5, <3>6
    <2> QED BY <1>3, <2>1, <2>2, <2>3
  <1>10. ASSUME NEW i \in 1 .. z + 1, NEW j \in 1 .. z + 1, i < j
         PROVE  s[i].left <= s[j].left /\ s[i].id # s[j].id
    <2>1. ASSUME NEW a \in 1 .. z, NEW b \in 1 .. z, a < b, s[i] = list[a], s[j] = list[b]
          PROVE  s[i].left <= s[j].left /\ s[i].id # s[j].id
      BY <1>7, <2>1
    <2>2. ASSUME s[j] = t, NEW a \in 1 .. z, a < at + 1, s[i] = list[a]
          PROVE  s[i].left <= s[j].left /\ s[i].id # s[j].id
      BY <1>7, <1>8, <2>2
    <2>3. ASSUME s[i] = t, NEW b \in at + 1 .. z, b \in 1 .. z, s[j] = list[b]
          PROVE  s[i].left <= s[j].left /\ s[i].id # s[j].id
      <3>1. list[b].left > t.left /\ list[b].left \in Nat /\ list[b].id # t.id
        BY <1>4, <1>7, <1>8, <2>3
      <3> QED BY <1>5, <2>3, <3>1
    <2> QED BY <1>9, <1>10, <2>1, <2>2, <2>3
  <1>11. \A j \in 1 .. z + 1 : s[j] = t \/ \E i \in 1 .. z : s[j] = list[i]
    <2>1. \A j \in at + 1 .. z : j \in 1 .. z
      BY <1>3
    <2> QED BY <1>6, <2>1
  <1>12. \A j \in 1 .. z + 1 : s[j].id # l /\ s[j].id < m
    <2> SUFFICES ASSUME NEW j \in 1 .. z + 1 PROVE s[j].id # l /\ s[j].id < m
      OBVIOUS
    <2>1. CASE s[j] = t
      BY <2>1
    <2>2. ASSUME NEW i \in 1 .. z, s[j] = list[i] PROVE s[j].id # l /\ s[j].id < m
      BY <1>4, <1>7, <2>2
    <2> QED BY <1>11, <2>1, <2>2
  <1>13. \A i, j \in 1 .. z + 1 : s[i].id = s[j].id => i = j
    <2> SUFFICES ASSUME NEW i \in 1 .. z + 1, NEW j \in 1 .. z + 1, i # j
                 PROVE  s[i].id # s[j].id
      OBVIOUS
    <2>1. i < j \/ j < i
      BY <1>3
    <2> QED BY <1>10, <2>1
  <1>14. l < m /\ z + 1 <= TimersMax
    <2>1. k < n
      BY DEF Tidy
    <2>2. l < m
      BY <1>5, <2>1
    <2> QED BY <1>3, <1>7, <2>2
  <1>15. Tidy(s, l, m)
    BY <1>3, <1>10, <1>12, <1>13, <1>14 DEF Tidy
  <1> QED BY <1>3, <1>11, <1>15 DEF NoOther, s, z

(* clearTimeout: taking one timer off the list.                            *)
LEMMA ClearTidy ==
  ASSUME NEW list \in Seq(Timer), NEW k, NEW n, Tidy(list, k, n), NEW c \in 1 .. Len(list),
         timers' = SubSeq(list, 1, c - 1) \o SubSeq(list, c + 1, Len(list))
  PROVE  Tidy(timers', k, n) /\ NoOther(list, timers', list[1].id)
  <1> DEFINE z == Len(list)
             s == timers'
  <1>1. /\ Len(timers') = Len(list) - 1
        /\ \A i \in 1 .. c - 1 : timers'[i] = list[i]
        /\ \A i \in c .. Len(list) - 1 : timers'[i] = list[i + 1]
    <2>1. timers' = Removed(list, c)
      BY DEF Removed
    <2>2. WithRemoved(timers', list, c)
      BY <2>1, RemovedAt
    <2> QED BY <2>2 DEF WithRemoved
  <1>2. z \in Nat /\ c \in Nat /\ c <= z /\ Len(s) = z - 1 /\ TimersMax \in Nat
    <2>1. z \in Nat /\ c \in Nat /\ c <= z
      OBVIOUS
    <2> QED BY <1>1, <2>1, EventLoopAssumption
  <1> HIDE DEF z, s
  <1>3. ASSUME NEW i \in 1 .. z - 1
        PROVE  \/ i < c /\ i \in 1 .. z /\ s[i] = list[i]
               \/ i >= c /\ i + 1 \in 1 .. z /\ s[i] = list[i + 1]
    <2>1. \/ i < c /\ i \in 1 .. z /\ i \in 1 .. c - 1
          \/ i >= c /\ i + 1 \in 1 .. z /\ i \in c .. z - 1
      BY <1>2
    <2> QED BY <1>1, <2>1 DEF s, z
  <1>4. /\ \A i, j \in 1 .. z : i < j => list[i].left <= list[j].left
        /\ \A i, j \in 1 .. z : list[i].id = list[j].id => i = j
        /\ \A i \in 1 .. z : list[i].id # k /\ list[i].id < n
        /\ z <= TimersMax /\ k < n
    BY DEF Tidy, z
  <1>5. ASSUME NEW i \in 1 .. z - 1, NEW j \in 1 .. z - 1, i < j
        PROVE  s[i].left <= s[j].left /\ s[i].id # s[j].id
    <2>1. PICK a \in 1 .. z, b \in 1 .. z : a < b /\ s[i] = list[a] /\ s[j] = list[b]
      <3>1. CASE j < c
        <4>1. i \in 1 .. z /\ j \in 1 .. z /\ i < c /\ ~(i >= c) /\ ~(j >= c)
          BY <1>2, <1>5, <3>1
        <4>2. s[i] = list[i] /\ s[j] = list[j]
          BY <1>3, <4>1
        <4> QED BY <1>5, <4>1, <4>2
      <3>2. CASE i >= c
        <4>1. i + 1 \in 1 .. z /\ j + 1 \in 1 .. z /\ i + 1 < j + 1 /\ ~(i < c) /\ ~(j < c)
          BY <1>2, <1>5, <3>2
        <4>2. s[i] = list[i + 1] /\ s[j] = list[j + 1]
          BY <1>3, <4>1
        <4> QED BY <4>1, <4>2
      <3>3. CASE i < c /\ j >= c
        <4>1. i \in 1 .. z /\ j + 1 \in 1 .. z /\ i < j + 1 /\ ~(i >= c) /\ ~(j < c)
          BY <1>2, <3>3
        <4>2. s[i] = list[i] /\ s[j] = list[j + 1]
          BY <1>3, <4>1
        <4> QED BY <4>1, <4>2
      <3>4. j < c \/ i >= c \/ (i < c /\ j >= c)
        BY <1>2
      <3> QED BY <3>1, <3>2, <3>3, <3>4
    <2> QED BY <1>4, <2>1
  <1>6. \A i \in 1 .. z - 1 : \E a \in 1 .. z : s[i] = list[a]
    BY <1>3
  <1>7. \A i, j \in 1 .. z - 1 : s[i].id = s[j].id => i = j
    <2> SUFFICES ASSUME NEW i \in 1 .. z - 1, NEW j \in 1 .. z - 1, i # j
                 PROVE  s[i].id # s[j].id
      OBVIOUS
    <2>1. i < j \/ j < i
      BY <1>2
    <2> QED BY <1>5, <2>1
  <1>8. \A i \in 1 .. z - 1 : s[i].id # k /\ s[i].id < n
    BY <1>4, <1>6
  <1>9. z - 1 <= TimersMax
    BY <1>2, <1>4
  <1>10. Tidy(s, k, n)
    BY <1>2, <1>4, <1>5, <1>7, <1>8, <1>9 DEF Tidy
  <1>11. \A j \in 1 .. Len(s) : \E i \in 1 .. z : s[j].id = list[i].id
    BY <1>2, <1>6
  <1> QED BY <1>10, <1>11 DEF NoOther, s, z

(* Time that passes brings every timer nearer alike.                       *)
LEMMA PassedTidy ==
  ASSUME NEW list \in Seq(Timer), NEW k, NEW n, NEW ms \in Nat, Tidy(list, k, n)
  PROVE  Tidy(Passed(list, ms), k, n) /\ NoOther(list, Passed(list, ms), list[1].id)
  <1> DEFINE z == Len(list)
             s == Passed(list, ms)
  <1>1. /\ z \in Nat /\ \A i \in 1 .. z : list[i] \in Timer
    OBVIOUS
  <1>2. s \in Seq(Timer)
    BY PassedTypes
  <1>3. Len(s) = z
    <2>1. DOMAIN s = 1 .. z
      BY DEF Passed
    <2> HIDE DEF s
    <2>2. DOMAIN s = 1 .. Len(s) /\ Len(s) \in Nat
      BY <1>2
    <2> QED BY <1>1, <2>1, <2>2
  <1>4. ASSUME NEW i \in 1 .. z
        PROVE  /\ s[i].id = list[i].id
               /\ s[i].left = IF list[i].left > ms THEN list[i].left - ms ELSE 0
               /\ list[i].left \in Nat
    <2>1. s[i] = [list[i] EXCEPT !.left = IF @ > ms THEN @ - ms ELSE 0]
      BY DEF Passed
    <2>2. list[i] \in Timer
      BY <1>1
    <2> HIDE DEF s, z
    <2> QED BY <2>1, <2>2 DEF Timer
  <1> HIDE DEF z, s
  <1>5. /\ \A i, j \in 1 .. z : i < j => list[i].left <= list[j].left
        /\ \A i, j \in 1 .. z : list[i].id = list[j].id => i = j
        /\ \A i \in 1 .. z : list[i].id # k /\ list[i].id < n
        /\ z <= TimersMax /\ k < n
    BY DEF Tidy, z
  <1>6. ASSUME NEW i \in 1 .. z, NEW j \in 1 .. z, i < j PROVE s[i].left <= s[j].left
    <2>1. list[i].left <= list[j].left
      BY <1>5, <1>6
    <2> QED BY <1>4, <2>1
  <1>7. Tidy(s, k, n)
    BY <1>3, <1>4, <1>5, <1>6 DEF Tidy
  <1>8. NoOther(list, s, list[1].id)
    BY <1>3, <1>4 DEF NoOther, z
  <1> QED BY <1>7, <1>8 DEF s

(* The first timer leaves the list and fires.                              *)
LEMMA FirstTidy ==
  ASSUME NEW list \in Seq(Timer), list # <<>>, NEW k, NEW n, Tidy(list, k, n)
  PROVE  /\ Tail(list) \in Seq(Timer) /\ list[1] \in Timer
         /\ Tidy(Tail(list), list[1].id, n)
         /\ NoOther(list, Tail(list), list[1].id)
  <1> DEFINE z == Len(list)
             s == Tail(list)
  <1>1. /\ z \in Nat \ {0} /\ list[1] \in Timer /\ s \in Seq(Timer) /\ Len(s) = z - 1
        /\ \A i \in 1 .. z - 1 : s[i] = list[i + 1]
    OBVIOUS
  <1>2. TimersMax \in Nat /\ 1 \in 1 .. z /\ \A i \in 1 .. z - 1 : i + 1 \in 1 .. z /\ i + 1 # 1
    BY <1>1, EventLoopAssumption
  <1> HIDE DEF z, s
  <1>3. /\ \A i, j \in 1 .. z : i < j => list[i].left <= list[j].left
        /\ \A i, j \in 1 .. z : list[i].id = list[j].id => i = j
        /\ \A i \in 1 .. z : list[i].id < n
        /\ z <= TimersMax
    BY DEF Tidy, z
  <1>4. ASSUME NEW i \in 1 .. z - 1, NEW j \in 1 .. z - 1
        PROVE  /\ i < j => s[i].left <= s[j].left
               /\ s[i].id = s[j].id => i = j
               /\ s[i].id # list[1].id /\ s[i].id < n
    <2>1. /\ s[i] = list[i + 1] /\ s[j] = list[j + 1]
          /\ i + 1 \in 1 .. z /\ j + 1 \in 1 .. z /\ i + 1 # 1
      BY <1>1, <1>2
    <2>2. (i < j => i + 1 < j + 1) /\ (i + 1 = j + 1 => i = j)
      OBVIOUS
    <2>3. i < j => s[i].left <= s[j].left
      BY <1>3, <2>1, <2>2
    <2>4. s[i].id = s[j].id => i = j
      BY <1>3, <2>1, <2>2
    <2>5. s[i].id # list[1].id /\ s[i].id < n
      BY <1>2, <1>3, <2>1
    <2> QED BY <2>3, <2>4, <2>5
  <1>5. list[1].id < n /\ z - 1 <= TimersMax
    BY <1>1, <1>2, <1>3
  <1>6. Tidy(s, list[1].id, n)
    BY <1>1, <1>4, <1>5 DEF Tidy
  <1>7. \A j \in 1 .. Len(s) : \E i \in 1 .. z : s[j].id = list[i].id
    BY <1>1, <1>2
  <1> QED BY <1>1, <1>6, <1>7 DEF NoOther, s, z

(* What ClearedStaysCleared asks of one step.                              *)
StayCleared ==
  \A id \in 1 .. nextTimer - 1 :
    ~Armed(id) /\ (firing.id # id \/ firing.cancelled) => ~Armed(id)'

(* A step that lists no other timer than before, or one timer more that a  *)
(* cleared one cannot be.                                                  *)
LEMMA NoOtherCleared ==
  ASSUME NEW k, NoOther(timers, timers', k),
         \/ \E i \in 1 .. Len(timers) : timers[i].id = k
         \/ k \notin 1 .. nextTimer - 1
         \/ k = firing.id /\ ~firing.cancelled
  PROVE  StayCleared
  BY DEF StayCleared, Armed, NoOther

(* The steps of the program, the callbacks and the loop that have nothing  *)
(* to do with timers.                                                      *)
LEMMA OtherSteps ==
  ASSUME Next
  PROVE  \/ UNCHANGED <<timers, firing, nextTimer>>
         \/ TimerCall \/ TimerReturns \/ FireTimer
  <1>1. CASE PromiseCall
    BY <1>1 DEF PromiseCall, promiseConstruct, promiseRejectStatic, promiseResolve,
         resolveFunction, rejectFunction, promiseThen, promiseFinally, combinatorEmpty,
         combinator, combinatorInput, queueMicrotaskNative, Leaves
  <1>2. CASE FiberStep
    BY <1>2 DEF FiberStep, callAsyncFunction, Await, FiberReturns, FiberThrows, FiberFaults,
         finishFiber
  <1>3. CASE CallbackEnds
    BY <1>3 DEF CallbackEnds, TopReturns, Uncaught, HandlerReturns, HandlerThrows
  <1>4. CASE LoopStep
    BY <1>4 DEF LoopStep, RunTask, csVMResumeFiber, reportUnhandledRejections, LoopEnds
  <1>5. CASE Ended
    BY <1>5 DEF Ended, vars
  <1> QED BY <1>1, <1>2, <1>3, <1>4, <1>5 DEF Next

LEMMA TimersStep ==
  ASSUME IInv, TimersTidy, [Next]_vars
  PROVE  TimersTidy' /\ StayCleared
  <1>1. /\ timers \in Seq(Timer) /\ nextTimer \in Nat \ {0} /\ firing.id \in Nat
        /\ firing \in [id : Nat, left : Nat, repeat : Nat, cancelled : BOOLEAN]
        /\ phase = "timer" => firing.id # 0
    BY DEF IInv, TypeOK, Control
  <1>2. Tidy(timers, firing.id, nextTimer)
    BY DEF TimersTidy
  <1>3. \A i \in 1 .. Len(timers) : timers[i].id < nextTimer /\ timers[i].id # firing.id
    BY <1>2 DEF Tidy
  <1>4. ASSUME UNCHANGED <<timers, firing, nextTimer>>
        PROVE  TimersTidy' /\ StayCleared
    BY <1>4 DEF TimersTidy, Tidy, StayCleared, Armed
  <1>5. ASSUME NEW d \in Delays, NEW repeating \in BOOLEAN, scheduleTimer(d, repeating)
        PROVE  TimersTidy' /\ StayCleared
    <2> DEFINE t == [id |-> nextTimer, left |-> d, repeat |-> Period(d, repeating)]
    <2>1. /\ Arm(timers, t) /\ nextTimer' = nextTimer + 1 /\ firing' = firing
          /\ Len(timers) < TimersMax
      BY <1>5 DEF scheduleTimer
    <2>2. t \in Timer /\ t.id = nextTimer
      <3>1. d \in Nat
        BY EventLoopAssumption
      <3> QED BY <1>1, <3>1 DEF Timer, Period
    <2> HIDE DEF t
    <2>3. /\ \A i \in 1 .. Len(timers) : timers[i].id # t.id
          /\ firing.id # t.id
      <3>1. firing.id < nextTimer
        BY <1>2 DEF Tidy
      <3>2. \A i \in 1 .. Len(timers) : timers[i].id # nextTimer
        BY <1>1, <1>3
      <3> QED BY <1>1, <2>2, <3>1, <3>2
    <2>4. nextTimer + 1 \in Nat /\ nextTimer <= nextTimer + 1 /\ t.id < nextTimer + 1
      BY <1>1, <2>2
    <2>5. Tidy(timers', firing.id, nextTimer + 1) /\ NoOther(timers, timers', t.id)
      BY <1>1, <1>2, <2>1, <2>2, <2>3, <2>4, ArmTidy
    <2>6. t.id \notin 1 .. nextTimer - 1
      BY <1>1, <2>2
    <2> QED BY <2>1, <2>5, <2>6, NoOtherCleared DEF TimersTidy
  <1>6. ASSUME NEW id, clearTimeoutNative(id)
        PROVE  TimersTidy' /\ StayCleared
    <2>1. firing'.id = firing.id /\ nextTimer' = nextTimer
      BY <1>1, <1>6 DEF clearTimeoutNative, FiringCleared
    <2>2. CASE timers' = timers
      BY <1>2, <2>1, <2>2 DEF TimersTidy, StayCleared, Armed
    <2>3. ASSUME NEW i \in 1 .. Len(timers),
                 timers' = SubSeq(timers, 1, i - 1) \o SubSeq(timers, i + 1, Len(timers))
          PROVE  TimersTidy' /\ StayCleared
      <3>1. Tidy(timers', firing.id, nextTimer) /\ NoOther(timers, timers', timers[1].id)
        BY <1>1, <1>2, <2>3, ClearTidy
      <3>2. 1 \in 1 .. Len(timers)
        OBVIOUS
      <3> QED BY <2>1, <3>1, <3>2, NoOtherCleared DEF TimersTidy
    <2> QED BY <1>6, <2>2, <2>3 DEF clearTimeoutNative
  <1>7. CASE Slow
    <2>1. timers' = Passed(timers, 1) /\ UNCHANGED <<firing, nextTimer>>
      BY <1>7 DEF Slow
    <2>2. Tidy(timers', firing.id, nextTimer) /\ NoOther(timers, timers', timers[1].id)
      BY <1>1, <1>2, <2>1, PassedTidy
    <2>3. 1 \in 1 .. Len(timers)
      BY <1>1, <1>7 DEF Slow
    <2> QED BY <2>1, <2>2, <2>3, NoOtherCleared DEF TimersTidy
  <1>8. CASE TimerReturns
    <2>1. phase = "timer" /\ firing'.id = 0 /\ nextTimer' = nextTimer /\ 0 \in Nat
      BY <1>8 DEF TimerReturns, NotFiring
    <2>2. CASE timers' = timers
      <3>1. \A i \in 1 .. Len(timers) : timers[i].id # 0
        <4>1. \A i \in 1 .. Len(timers) : timers[i] \in Timer
          BY <1>1
        <4> QED BY <4>1 DEF Timer
      <3>2. Tidy(timers, 0, nextTimer)
        BY <1>1, <1>2, <3>1 DEF Tidy
      <3> QED BY <2>1, <2>2, <3>2 DEF TimersTidy, StayCleared, Armed
    <2>3. CASE timers' # timers
      <3> DEFINE t == [id |-> firing.id, left |-> firing.repeat, repeat |-> firing.repeat]
      <3>1. Arm(timers, t) /\ ~firing.cancelled /\ Len(timers) < TimersMax
        BY <1>8, <2>3 DEF TimerReturns
      <3>2. t \in Timer /\ t.id = firing.id /\ t.id # 0
        BY <1>1, <2>1 DEF Timer
      <3> HIDE DEF t
      <3>3. /\ \A i \in 1 .. Len(timers) : timers[i].id # t.id
            /\ t.id < nextTimer /\ nextTimer <= nextTimer
        BY <1>1, <1>2, <1>3, <3>2 DEF Tidy
      <3>4. Tidy(timers', 0, nextTimer) /\ NoOther(timers, timers', t.id)
        BY <1>1, <1>2, <2>1, <3>1, <3>2, <3>3, ArmTidy
      <3> QED BY <2>1, <3>1, <3>2, <3>4, NoOtherCleared DEF TimersTidy
    <2> QED BY <2>2, <2>3
  <1>9. CASE FireTimer
    <2>1. /\ timers # <<>> /\ timers' = Passed(Tail(timers), timers[1].left)
          /\ firing'.id = timers[1].id /\ nextTimer' = nextTimer
      BY <1>9 DEF FireTimer
    <2> DEFINE s == Tail(timers)
               first == timers[1]
    <2>2. /\ s \in Seq(Timer) /\ first \in Timer
          /\ Tidy(s, first.id, nextTimer)
          /\ NoOther(timers, s, first.id)
      BY <1>1, <1>2, <2>1, FirstTidy
    <2>3. first.left \in Nat /\ \E i \in 1 .. Len(timers) : timers[i].id = first.id
      <3>1. 1 \in 1 .. Len(timers)
        BY <1>1, <2>1
      <3> QED BY <2>2, <3>1 DEF Timer
    <2>4. timers' = Passed(s, first.left)
      BY <2>1
    <2> HIDE DEF s, first
    <2>5. Tidy(timers', first.id, nextTimer) /\ NoOther(s, timers', s[1].id)
      BY <2>2, <2>3, <2>4, PassedTidy
    <2>6. NoOther(timers, timers', first.id)
      <3>1. ASSUME NEW j \in 1 .. Len(timers') PROVE \E i \in 1 .. Len(s) : timers'[j].id = s[i].id
        <4>1. 1 \in 1 .. Len(s) /\ \A i \in 1 .. Len(s) : Len(s) \in Nat
          <5>1. Len(s) = Len(timers')
            <6>1. timers' \in Seq(Timer) /\ DOMAIN timers' = 1 .. Len(s)
              BY <2>2, <2>3, <2>4, PassedTypes DEF Passed
            <6>2. Len(timers') \in Nat /\ Len(s) \in Nat /\ DOMAIN timers' = 1 .. Len(timers')
              BY <2>2, <6>1
            <6> QED BY <6>1, <6>2
          <5>2. Len(s) \in Nat
            BY <2>2
          <5> QED BY <3>1, <5>1, <5>2
        <4> QED BY <2>5, <3>1, <4>1 DEF NoOther
      <3> QED BY <2>2, <3>1 DEF NoOther
    <2>7. StayCleared
      BY <2>3, <2>6, NoOtherCleared
    <2> QED BY <2>1, <2>5, <2>7 DEF TimersTidy, first
  <1>10. CASE TimerCall
    BY <1>5, <1>6, <1>7, <1>10 DEF TimerCall
  <1>11. CASE UNCHANGED vars
    BY <1>4, <1>11 DEF vars
  <1> QED BY <1>4, <1>8, <1>9, <1>10, <1>11, OtherSteps

LEMMA InitTidy == Init => TimersTidy
  BY EventLoopAssumption DEF Init, NotFiring, TimersTidy, Tidy

(* vm.timers stays sorted by the time each timer is due, with one entry a  *)
(* timer and none for the timer that fires (scheduleTimer,                 *)
(* clearTimeoutNative, csVMRunEventLoop), however many there are.          *)
THEOREM TimersOrdered == Spec => []TimersInOrder
  <1>1. IInv /\ TimersTidy /\ [Next]_vars => TimersTidy'
    BY TimersStep
  <1>2. IInv /\ TimersTidy => TimersInOrder
    <2> SUFFICES ASSUME IInv, TimersTidy PROVE TimersInOrder
      OBVIOUS
    <2>1. DOMAIN timers = 1 .. Len(timers)
      BY DEF IInv, TypeOK
    <2> QED BY <2>1 DEF TimersTidy, Tidy, TimersInOrder
  <1> QED BY Invariance, InitTidy, <1>1, <1>2, PTL DEF Spec

(* No step puts a cleared timer back on the list: a new timer has an       *)
(* identifier of its own, and an interval that its own callback cleared is *)
(* not armed again (csVMRunEventLoop).                                     *)
THEOREM ClearedForGood == Spec => ClearedStaysCleared
  <1>1. IInv /\ TimersTidy /\ [Next]_vars => TimersTidy'
    BY TimersStep
  <1>2. IInv /\ TimersTidy /\ [Next]_vars =>
          [\A id \in 1 .. nextTimer - 1 :
             ~Armed(id) /\ (firing.id # id \/ firing.cancelled) => ~Armed(id)']_vars
    BY TimersStep DEF StayCleared
  <1> QED BY Invariance, InitTidy, <1>1, <1>2, PTL DEF Spec, ClearedStaysCleared

-----------------------------------------------------------------------------
(* Listeners.                                                              *)

Line(h, p) == h.promise[p].reactions
Count(h, p) == h.promise[p].listeners

(* Listener n of promise p is on its list, or its microtask is queued.     *)
Waits(h, p, n) ==
  \/ \E i \in 1 .. Len(Line(h, p)) : Line(h, p)[i].id = n
  \/ \E i \in 1 .. Len(h.queue) : h.queue[i].src = p /\ h.queue[i].id = n

(* Listeners are numbered as they come, each there once; a promise that is *)
(* not allocated has none.                                                 *)
Numbered(h) ==
  /\ \A p \in Promise : p > h.made => Count(h, p) = 0 /\ Line(h, p) = <<>>
  /\ \A p \in Promise : Pending(h, p) => h.promise[p].value = Undefined
  /\ \A p \in Promise : \A i \in 1 .. Len(Line(h, p)) : Line(h, p)[i].id \in 1 .. Count(h, p)
  /\ \A p \in Promise : \A i, j \in 1 .. Len(Line(h, p)) :
       Line(h, p)[i].id = Line(h, p)[j].id => i = j
  /\ \A i \in 1 .. Len(h.queue) :
       h.queue[i].src # None => h.queue[i].id \in 1 .. Count(h, h.queue[i].src)
  /\ \A i, j \in 1 .. Len(h.queue) :
       h.queue[i].src # None /\ h.queue[i].src = h.queue[j].src /\ h.queue[i].id = h.queue[j].id
         => i = j

(* One promise settles at most.                                            *)
Settles(h, g) ==
  \/ \A p \in Promise : Outcome(g, p) = Outcome(h, p)
  \/ \E q \in Promise, o \in [state : Settled, value : Datum] :
       /\ Pending(h, q)
       /\ \A p \in Promise : Outcome(g, p) = IF p = q THEN o ELSE Outcome(h, p)

(* The listeners in `gone` are answered, and one is added at most.         *)
Hears(h, g, gone) ==
  \/ \A p \in Promise :
       /\ Count(g, p) = Count(h, p)
       /\ \A n \in Nat : Waits(g, p, n) <=> Waits(h, p, n) /\ <<p, n>> \notin gone
  \/ \E q \in Promise : \A p \in Promise :
       /\ Count(g, p) = IF p = q THEN Count(h, p) + 1 ELSE Count(h, p)
       /\ \A n \in Nat : Waits(g, p, n) <=> \/ Waits(h, p, n) /\ <<p, n>> \notin gone
                                            \/ p = q /\ n = Count(h, p) + 1

(* The head of the queue stays where it is.                                *)
Leads(h, g) == h.queue # <<>> => g.queue # <<>> /\ g.queue[1] = h.queue[1]

Turns(h, g) == Numbered(g) /\ Settles(h, g) /\ Hears(h, g, {}) /\ Leads(h, g)

(* Nothing a program can tell has changed.                                 *)
Alike(h, g) ==
  /\ Numbered(g) /\ Leads(h, g)
  /\ \A p \in Promise : /\ Outcome(g, p) = Outcome(h, p) /\ Count(g, p) = Count(h, p)
                        /\ \A n \in Nat : Waits(g, p, n) <=> Waits(h, p, n)

-----------------------------------------------------------------------------
(* One operation after another.                                            *)

LEMMA AlikeTurns ==
  ASSUME NEW h, NEW g, Alike(h, g)
  PROVE  Turns(h, g)
  BY DEF Alike, Turns, Settles, Hears

LEMMA AlikeThen ==
  ASSUME NEW h, NEW g, NEW k, Alike(h, g), Turns(g, k)
  PROVE  Turns(h, k)
  <1>1. \A p \in Promise : Pending(g, p) <=> Pending(h, p)
    BY DEF Alike, Outcome, Pending
  <1>2. Settles(h, k)
    BY <1>1 DEF Alike, Turns, Settles
  <1>3. Hears(h, k, {})
    <2>1. CASE \A p \in Promise :
                 /\ Count(k, p) = Count(g, p)
                 /\ \A n \in Nat : Waits(k, p, n) <=> Waits(g, p, n) /\ <<p, n>> \notin {}
      BY <2>1 DEF Alike, Hears
    <2>2. ASSUME NEW q \in Promise, \A p \in Promise :
                 /\ Count(k, p) = IF p = q THEN Count(g, p) + 1 ELSE Count(g, p)
                 /\ \A n \in Nat : Waits(k, p, n) <=> \/ Waits(g, p, n) /\ <<p, n>> \notin {}
                                                      \/ p = q /\ n = Count(g, p) + 1
          PROVE Hears(h, k, {})
      BY <2>2 DEF Alike, Hears
    <2> QED BY <2>1, <2>2 DEF Turns, Hears
  <1>4. Leads(h, k)
    BY DEF Alike, Turns, Leads
  <1> QED BY <1>2, <1>3, <1>4 DEF Turns

LEMMA AlikeItself ==
  ASSUME NEW h, Numbered(h)
  PROVE  Alike(h, h)
  BY DEF Alike, Leads

(* What listeners stand on is the same, whoever else has heard of them.    *)
LEMMA SameLines ==
  ASSUME NEW h, Numbered(h), NEW g, g.made = h.made, g.queue = h.queue,
         \A p \in Promise : /\ Outcome(g, p) = Outcome(h, p)
                            /\ Line(g, p) = Line(h, p) /\ Count(g, p) = Count(h, p),
         \A i \in 1 .. Len(h.queue) : h.queue[i].src \in Promise \cup {None}
  PROVE  Alike(h, g)
  <1>1. \A p \in Promise : /\ Pending(g, p) <=> Pending(h, p)
                           /\ g.promise[p].value = h.promise[p].value
    BY DEF Outcome, Pending
  <1>2. Numbered(g)
    BY <1>1 DEF Numbered
  <1>3. \A p \in Promise, n \in Nat : Waits(g, p, n) <=> Waits(h, p, n)
    BY DEF Waits
  <1> QED BY <1>2, <1>3 DEF Alike, Leads

(* The queue holds microtasks, which answer promises that have settled.    *)
LEMMA Sources ==
  ASSUME NEW h, HeapOK(h)
  PROVE  /\ h.queue \in Seq(Microtask) /\ Len(h.queue) \in Nat
         /\ h.queue # <<>> => 1 \in 1 .. Len(h.queue)
         /\ \A i \in 1 .. Len(h.queue) :
              /\ h.queue[i] \in Microtask /\ h.queue[i].src \in Promise \cup {None}
              /\ h.queue[i].id \in Nat
              /\ h.queue[i].src # None => ~Pending(h, h.queue[i].src)
         /\ None \notin Promise
         /\ \A p \in Promise : /\ h.promise[p] \in ObjPromise /\ Count(h, p) \in Nat
                               /\ Line(h, p) \in Seq(Reaction) /\ Len(Line(h, p)) \in Nat
  <1>1. h \in Heap /\ h.queue \in Seq(Microtask) /\ h.promise \in [Promise -> ObjPromise]
    BY HeapFields DEF HeapOK
  <1>2. \A i \in 1 .. Len(h.queue) : TaskOK(h, h.queue[i])
    BY QueueOK
  <1>3. None \notin Promise
    BY PromisesAssumption DEF None, Promise
  <1>4. \A p \in Promise : Line(h, p) \in Seq(Reaction) /\ Count(h, p) \in Nat
    BY <1>1 DEF ObjPromise, Line, Count
  <1> QED BY <1>1, <1>2, <1>3, <1>4 DEF TaskOK, Microtask

-----------------------------------------------------------------------------
(* Each operation.                                                         *)

(* A microtask that stands for no listener.                                *)
LEMMA EnqueueAlike ==
  ASSUME NEW h, HeapOK(h), Numbered(h), NEW t \in Microtask, t.src = None
  PROVE  Alike(h, csVMQueueMicrotask(h, t))
  <1> DEFINE g == csVMQueueMicrotask(h, t)
  <1>1. h \in Heap /\ h.queue \in Seq(Microtask)
    BY HeapFields DEF HeapOK
  <1>2. /\ g.made = h.made /\ g.promise = h.promise /\ g.queue = Append(h.queue, t)
    BY <1>1 DEF csVMQueueMicrotask, Heap
  <1> HIDE DEF g
  <1>3. /\ Len(g.queue) = Len(h.queue) + 1 /\ Len(h.queue) \in Nat
        /\ \A i \in 1 .. Len(h.queue) : g.queue[i] = h.queue[i]
        /\ g.queue[Len(h.queue) + 1] = t
    BY <1>1, <1>2, Appending
  <1>4. 1 .. Len(g.queue) = (1 .. Len(h.queue)) \cup {Len(h.queue) + 1}
    BY <1>3
  <1>5. /\ \A p \in Promise : Line(g, p) = Line(h, p) /\ Count(g, p) = Count(h, p)
        /\ \A p \in Promise : Outcome(g, p) = Outcome(h, p) /\ (Pending(g, p) <=> Pending(h, p))
    BY <1>2 DEF Line, Count, Outcome, Pending
  <1>6. \A i \in 1 .. Len(g.queue) : g.queue[i].src # None => i \in 1 .. Len(h.queue)
    BY <1>3, <1>4
  <1>7. Numbered(g)
    <2>1. \A i \in 1 .. Len(g.queue) : g.queue[i].src # None =>
            g.queue[i].id \in 1 .. Count(g, g.queue[i].src)
      BY <1>2, <1>3, <1>6 DEF Numbered, Count
    <2>2. \A i, j \in 1 .. Len(g.queue) :
            g.queue[i].src # None /\ g.queue[i].src = g.queue[j].src /\ g.queue[i].id = g.queue[j].id
              => i = j
      BY <1>3, <1>6 DEF Numbered
    <2> QED BY <1>2, <1>5, <2>1, <2>2 DEF Numbered
  <1>8. \A p \in Promise, n \in Nat : Waits(g, p, n) <=> Waits(h, p, n)
    <2>1. None \notin Promise
      BY Sources
    <2> QED BY <1>3, <1>4, <1>5, <1>6, <2>1 DEF Waits
  <1>9. Leads(h, g)
    BY <1>1, <1>3 DEF Leads
  <1>10. Alike(h, g)
    BY <1>5, <1>7, <1>8, <1>9 DEF Alike
  <1> QED BY <1>10 DEF g

(* A new promise has no listeners and no outcome, as it had when it was    *)
(* not allocated.                                                          *)
LEMMA AllocateAlike ==
  ASSUME NEW h, HeapOK(h), Numbered(h), h.made + 1 <= MaxPromises, NEW maker \in Maker
  PROVE  Alike(h, Allocate(h, maker))
  <1> DEFINE g == Allocate(h, maker)
             f == Fresh(h)
             o == csPromiseNew(maker)
  <1>1. h \in Heap /\ h.made \in Nat /\ h.promise \in [Promise -> ObjPromise]
    BY HeapFields, PromisesAssumption DEF HeapOK
  <1>2. f \in Promise /\ f > h.made /\ f = h.made + 1
    BY <1>1, PromisesAssumption DEF Fresh, Promise
  <1>3. /\ g.made = f /\ g.promise = [h.promise EXCEPT ![f] = o] /\ g.queue = h.queue
    BY <1>1 DEF Allocate, Heap
  <1> HIDE DEF g, f
  <1>4. /\ g.promise[f] = o /\ \A p \in Promise : p # f => g.promise[p] = h.promise[p]
    BY <1>1, <1>2, <1>3
  <1>5. /\ Line(h, f) = <<>> /\ Count(h, f) = 0 /\ Pending(h, f) /\ h.promise[f].value = Undefined
    BY <1>2 DEF HeapOK, RefsAllocated, Numbered
  <1>6. \A p \in Promise : /\ Outcome(g, p) = Outcome(h, p)
                           /\ Line(g, p) = Line(h, p) /\ Count(g, p) = Count(h, p)
    BY <1>4, <1>5 DEF Outcome, Line, Count, Pending, csPromiseNew
  <1>7. \A p \in Promise : /\ Pending(g, p) <=> Pending(h, p)
                           /\ g.promise[p].value = h.promise[p].value
    BY <1>6 DEF Outcome, Pending
  <1>8. \A p \in Promise : p > g.made => p > h.made
    BY <1>1, <1>2, <1>3 DEF Promise
  <1>9. Numbered(g)
    <2>1. \A i \in 1 .. Len(g.queue) : g.queue[i].src # None =>
            g.queue[i].id \in 1 .. Count(g, g.queue[i].src)
      BY <1>3, <1>6, Sources DEF Numbered
    <2> QED BY <1>3, <1>6, <1>7, <1>8, <2>1 DEF Numbered
  <1>10. \A p \in Promise, n \in Nat : Waits(g, p, n) <=> Waits(h, p, n)
    BY <1>3, <1>6 DEF Waits
  <1>11. Alike(h, g)
    BY <1>3, <1>6, <1>9, <1>10 DEF Alike, Leads
  <1> QED BY <1>11 DEF g

(* Settling: the listeners move to the queue, each under its own name.     *)
LEMMA SettleTurns ==
  ASSUME NEW h, HeapOK(h), Numbered(h), NEW p \in Allocated(h),
         NEW state \in Settled, NEW v \in Datum
  PROVE  Turns(h, settle(h, p, state, v))
  <1> DEFINE o == h.promise[p]
             g == settle(h, p, state, v)
  <1>1. p \in Promise /\ h \in Heap /\ o \in ObjPromise
    BY HeapFields DEF HeapOK
  <1>2. CASE ~Pending(h, p)
    BY <1>2, AlikeItself, AlikeTurns DEF settle, Pending
  <1>3. CASE Pending(h, p)
    <2> DEFINE q == [o EXCEPT !.state = state, !.value = v, !.reactions = <<>>]
               rs == o.reactions
               tasks == [i \in 1 .. Len(o.reactions) |-> TaskFor(p, state, v, o.reactions[i])]
    <2>1. /\ g.made = h.made /\ g.promise = [h.promise EXCEPT ![p] = q]
          /\ g.queue = h.queue \o tasks
      BY <1>1, <1>3 DEF settle, Pending, Heap
    <2>2. /\ q.state = state /\ q.value = v /\ q.reactions = <<>> /\ q.listeners = o.listeners
      BY <1>1 DEF ObjPromise
    <2>3. /\ \A i \in 1 .. Len(rs) : rs[i] \in Reaction
          /\ Len(rs) \in Nat
      BY <1>1 DEF ObjPromise
    <2>4. tasks \in Seq(Microtask) /\ Len(tasks) = Len(rs)
      <3>1. \A i \in 1 .. Len(rs) : tasks[i] \in Microtask
        BY <1>1, <2>3, TaskForOK
      <3>2. tasks \in [1 .. Len(rs) -> Microtask]
        BY <3>1
      <3> HIDE DEF tasks
      <3> QED BY <2>3, <3>2, Listing
    <2>5. \A i \in 1 .. Len(rs) : tasks[i].src = p /\ tasks[i].id = rs[i].id
      BY DEF TaskFor
    <2> HIDE DEF q, rs, tasks, g
    <2>6. /\ Len(g.queue) = Len(h.queue) + Len(rs) /\ Len(h.queue) \in Nat
          /\ \A i \in 1 .. Len(h.queue) : g.queue[i] = h.queue[i]
          /\ \A i \in 1 .. Len(rs) : g.queue[Len(h.queue) + i].src = p
                                    /\ g.queue[Len(h.queue) + i].id = rs[i].id
      <3>1. h.queue \in Seq(Microtask)
        BY Sources
      <3>2. /\ Len(g.queue) = Len(h.queue) + Len(tasks)
            /\ \A i \in 1 .. Len(h.queue) : g.queue[i] = h.queue[i]
            /\ \A i \in 1 .. Len(tasks) : g.queue[Len(h.queue) + i] = tasks[i]
        <4>1. tasks \in Seq(Microtask) /\ g.queue = h.queue \o tasks
          BY <2>1, <2>4
        <4> QED BY <3>1, <4>1, Concatenating
      <3> QED BY <2>4, <2>5, <3>1, <3>2
    <2>7. \A i \in 1 .. Len(h.queue) : h.queue[i].src # p
      BY <1>1, <1>3, Sources
    <2>8. /\ \A a \in Promise : a # p => g.promise[a] = h.promise[a]
          /\ g.promise[p] = q
      BY <1>1, <2>1 DEF Heap
    <2>9. /\ \A a \in Promise : Count(g, a) = Count(h, a)
          /\ \A a \in Promise : a # p => Line(g, a) = Line(h, a)
          /\ Line(g, p) = <<>> /\ Line(h, p) = rs
      BY <2>2, <2>8 DEF Count, Line, rs
    <2>10. \A i \in 1 .. Len(g.queue) : \/ i \in 1 .. Len(h.queue)
                                      \/ \E j \in 1 .. Len(rs) : i = Len(h.queue) + j
      <3> SUFFICES ASSUME NEW i \in 1 .. Len(g.queue), i \notin 1 .. Len(h.queue)
                   PROVE  \E j \in 1 .. Len(rs) : i = Len(h.queue) + j
        OBVIOUS
      <3>1. i - Len(h.queue) \in 1 .. Len(rs) /\ i = Len(h.queue) + (i - Len(h.queue))
        BY <2>3, <2>6
      <3> QED BY <3>1
    <2>11. \A i \in 1 .. Len(rs) : rs[i].id \in 1 .. Count(h, p)
      BY <1>1, <2>9 DEF Numbered
    <2>12. \A i, j \in 1 .. Len(rs) : rs[i].id = rs[j].id => i = j
      BY <1>1, <2>9 DEF Numbered
    <2>13. \A i \in 1 .. Len(g.queue) : g.queue[i].src # None =>
             g.queue[i].id \in 1 .. Count(g, g.queue[i].src)
      <3> SUFFICES ASSUME NEW i \in 1 .. Len(g.queue), g.queue[i].src # None
                   PROVE  g.queue[i].id \in 1 .. Count(g, g.queue[i].src)
        OBVIOUS
      <3>1. CASE i \in 1 .. Len(h.queue)
        BY <2>6, <2>9, <3>1, Sources DEF Numbered
      <3>2. CASE \E j \in 1 .. Len(rs) : i = Len(h.queue) + j
        BY <1>1, <2>6, <2>9, <2>11, <3>2
      <3> QED BY <2>10, <3>1, <3>2
    <2>14. ASSUME NEW i \in 1 .. Len(g.queue), NEW j \in 1 .. Len(g.queue), g.queue[i].src # None,
                  g.queue[i].src = g.queue[j].src, g.queue[i].id = g.queue[j].id
           PROVE  i = j
      <3>1. CASE i \in 1 .. Len(h.queue) /\ j \in 1 .. Len(h.queue)
        BY <2>6, <2>14, <3>1 DEF Numbered
      <3>2. CASE i \in 1 .. Len(h.queue) /\ j \notin 1 .. Len(h.queue)
        BY <2>6, <2>7, <2>10, <2>14, <3>2
      <3>3. CASE i \notin 1 .. Len(h.queue) /\ j \in 1 .. Len(h.queue)
        BY <2>6, <2>7, <2>10, <2>14, <3>3
      <3>4. CASE i \notin 1 .. Len(h.queue) /\ j \notin 1 .. Len(h.queue)
        <4>1. PICK a \in 1 .. Len(rs) : i = Len(h.queue) + a
          BY <2>10, <3>4
        <4>2. PICK b \in 1 .. Len(rs) : j = Len(h.queue) + b
          BY <2>10, <3>4
        <4>3. rs[a].id = rs[b].id
          BY <2>6, <2>14, <4>1, <4>2
        <4> QED BY <2>12, <4>1, <4>2, <4>3
      <3> QED BY <3>1, <3>2, <3>3, <3>4
    <2>15. /\ \A a \in Promise : a # p => (Pending(g, a) <=> Pending(h, a))
           /\ ~Pending(g, p)
      BY <2>2, <2>8 DEF Pending, Settled
    <2>16. Numbered(g)
      <3>1. \A a \in Promise : a > g.made => Count(g, a) = 0 /\ Line(g, a) = <<>>
        BY <2>1, <2>9 DEF Numbered
      <3>2. \A a \in Promise : Pending(g, a) => g.promise[a].value = Undefined
        BY <2>8, <2>15 DEF Numbered
      <3>3. \A a \in Promise : \A i \in 1 .. Len(Line(g, a)) : Line(g, a)[i].id \in 1 .. Count(g, a)
        BY <2>9 DEF Numbered
      <3>4. \A a \in Promise : \A i, j \in 1 .. Len(Line(g, a)) :
              Line(g, a)[i].id = Line(g, a)[j].id => i = j
        BY <2>9 DEF Numbered
      <3> QED BY <2>13, <2>14, <3>1, <3>2, <3>3, <3>4 DEF Numbered
    <2>17. ASSUME NEW a \in Promise, NEW n \in Nat
           PROVE  Waits(g, a, n) <=> Waits(h, a, n)
      <3>1. CASE a # p
        <4>1. (\E i \in 1 .. Len(g.queue) : g.queue[i].src = a /\ g.queue[i].id = n)
              <=> \E i \in 1 .. Len(h.queue) : h.queue[i].src = a /\ h.queue[i].id = n
          <5>1. \A i \in 1 .. Len(g.queue) : g.queue[i].src = a => i \in 1 .. Len(h.queue)
            BY <2>6, <2>10, <3>1
          <5>2. \A i \in 1 .. Len(h.queue) : i \in 1 .. Len(g.queue)
            BY <2>3, <2>6
          <5> QED BY <2>6, <5>1, <5>2
        <4> QED BY <2>9, <3>1, <4>1 DEF Waits
      <3>2. CASE a = p
        <4>1. Waits(h, a, n) <=> \E i \in 1 .. Len(rs) : rs[i].id = n
          BY <2>7, <2>9, <3>2 DEF Waits
        <4>2. ASSUME NEW i \in 1 .. Len(rs), rs[i].id = n
              PROVE  Waits(g, a, n)
          <5>1. Len(h.queue) + i \in 1 .. Len(g.queue)
            BY <2>3, <2>6
          <5> QED BY <2>6, <3>2, <4>2, <5>1 DEF Waits
        <4>3. ASSUME NEW i \in 1 .. Len(g.queue), g.queue[i].src = p, g.queue[i].id = n
              PROVE  \E j \in 1 .. Len(rs) : rs[j].id = n
          BY <2>6, <2>7, <2>10, <4>3
        <4> QED BY <2>9, <3>2, <4>1, <4>2, <4>3 DEF Waits
      <3> QED BY <3>1, <3>2
    <2>18. Hears(h, g, {})
      BY <2>9, <2>17 DEF Hears
    <2>19. Settles(h, g)
      <3> DEFINE out == [state |-> state, value |-> v]
      <3>1. out \in [state : Settled, value : Datum]
        OBVIOUS
      <3>2. \A a \in Promise : Outcome(g, a) = IF a = p THEN out ELSE Outcome(h, a)
        BY <2>2, <2>8 DEF Outcome
      <3> HIDE DEF out
      <3> QED BY <1>1, <1>3, <3>1, <3>2 DEF Settles
    <2>20. Leads(h, g)
      <3>1. h.queue # <<>> => 1 \in 1 .. Len(h.queue)
        BY Sources
      <3>2. h.queue # <<>> => g.queue # <<>>
        <4>1. h.queue # <<>> => Len(g.queue) # 0
          BY <2>3, <2>6, <3>1
        <4> QED BY <4>1
      <3> QED BY <2>6, <3>1, <3>2 DEF Leads
    <2> QED BY <2>16, <2>18, <2>19, <2>20 DEF Turns, g
  <1> QED BY <1>2, <1>3

(* Listening: a promise has one more listener, on its list or in the queue.*)
LEMMA ListenTurns ==
  ASSUME NEW h, HeapOK(h), Numbered(h), NEW p \in Allocated(h), NEW reaction \in Reaction
  PROVE  Turns(h, csPromiseAddReaction(h, p, reaction))
  <1> DEFINE o == h.promise[p]
             g == csPromiseAddReaction(h, p, reaction)
             n == o.listeners + 1
             r == [reaction EXCEPT !.id = o.listeners + 1]
             heard == [o EXCEPT !.handled = TRUE, !.listeners = @ + 1]
             more == [heard EXCEPT !.reactions = Append(@, r)]
             task == TaskFor(p, o.state, o.value, r)
  <1>1. p \in Promise /\ h \in Heap /\ o \in ObjPromise /\ p <= h.made /\ h.made \in Nat
    BY HeapFields, PromisesAssumption DEF HeapOK, Allocated
  <1>2. n \in Nat /\ o.listeners \in Nat /\ o.listeners = Count(h, p) /\ n = Count(h, p) + 1
    BY <1>1 DEF ObjPromise, Count
  <1>3. r \in Reaction /\ r.id = n
    BY <1>2 DEF Reaction
  <1> HIDE DEF r
  <1>4. /\ heard.state = o.state /\ heard.value = o.value
        /\ heard.reactions = o.reactions /\ heard.listeners = n
        /\ heard \in ObjPromise
    BY <1>1, <1>2 DEF ObjPromise
  <1> HIDE DEF n, heard
  <1>5. /\ \A i \in 1 .. Len(Line(h, p)) : Line(h, p)[i].id \in 1 .. Count(h, p)
        /\ \A i, j \in 1 .. Len(Line(h, p)) : Line(h, p)[i].id = Line(h, p)[j].id => i = j
        /\ Line(h, p) = o.reactions
    BY <1>1 DEF Numbered, Line
  <1>6. \A k \in 1 .. Count(h, p) : k # n /\ k \in 1 .. n
    BY <1>2
  <1>7. \A a \in Promise : a > h.made => a # p
    BY <1>1 DEF Promise
  <1>8. CASE Pending(h, p)
    <2>1. /\ more.state = o.state /\ more.value = o.value
          /\ more.reactions = Append(o.reactions, r) /\ more.listeners = n
      BY <1>4 DEF ObjPromise
    <2> HIDE DEF more
    <2>2. g = [h EXCEPT !.promise[p] = more]
      BY <1>8 DEF csPromiseAddReaction, Pending, r, heard, more
    <2>3. g.made = h.made /\ g.queue = h.queue /\ g.promise = [h.promise EXCEPT ![p] = more]
      BY <1>1, <2>2 DEF Heap
    <2> HIDE DEF g
    <2>4. /\ \A a \in Promise : a # p => g.promise[a] = h.promise[a]
          /\ g.promise[p] = more
      BY <1>1, <2>3 DEF Heap
    <2>5. /\ \A a \in Promise : a # p => Line(g, a) = Line(h, a) /\ Count(g, a) = Count(h, a)
          /\ Line(g, p) = Append(o.reactions, r) /\ Count(g, p) = n
          /\ \A a \in Promise : Outcome(g, a) = Outcome(h, a)
      BY <2>1, <2>4 DEF Line, Count, Outcome
    <2>6. /\ Len(Line(g, p)) = Len(o.reactions) + 1 /\ Len(o.reactions) \in Nat
          /\ \A i \in 1 .. Len(o.reactions) : Line(g, p)[i] = o.reactions[i]
          /\ Line(g, p)[Len(o.reactions) + 1] = r
      BY <1>1, <1>3, <2>5, Appending DEF ObjPromise
    <2>7. 1 .. Len(Line(g, p)) = (1 .. Len(o.reactions)) \cup {Len(o.reactions) + 1}
      BY <2>6
    <2>8. \A i \in 1 .. Len(h.queue) : h.queue[i].src # p
      BY <1>1, <1>8, Sources
    <2>9. Numbered(g)
      <3>1. \A a \in Promise : a > g.made => Count(g, a) = 0 /\ Line(g, a) = <<>>
        BY <1>7, <2>3, <2>5 DEF Numbered
      <3>2. \A a \in Promise : Pending(g, a) => g.promise[a].value = Undefined
        BY <2>1, <2>4 DEF Numbered, Pending
      <3>3. \A i \in 1 .. Len(Line(g, p)) : Line(g, p)[i].id \in 1 .. n
        <4>1. n \in 1 .. n
          BY <1>2
        <4>2. \A i \in 1 .. Len(o.reactions) : o.reactions[i].id \in 1 .. n
          BY <1>5, <1>6
        <4> QED BY <1>3, <2>6, <2>7, <4>1, <4>2
      <3>4. \A i, j \in 1 .. Len(Line(g, p)) : Line(g, p)[i].id = Line(g, p)[j].id => i = j
        <4>1. \A i \in 1 .. Len(o.reactions) : Line(g, p)[i].id # n
          BY <1>5, <1>6, <2>6
        <4>2. \A i, j \in 1 .. Len(o.reactions) : Line(g, p)[i].id = Line(g, p)[j].id => i = j
          BY <1>5, <2>6
        <4> QED BY <1>3, <2>6, <2>7, <4>1, <4>2
      <3>5. \A a \in Promise : /\ \A i \in 1 .. Len(Line(g, a)) : Line(g, a)[i].id \in 1 .. Count(g, a)
                              /\ \A i, j \in 1 .. Len(Line(g, a)) :
                                   Line(g, a)[i].id = Line(g, a)[j].id => i = j
        BY <2>5, <3>3, <3>4 DEF Numbered
      <3>6. /\ \A i \in 1 .. Len(g.queue) : g.queue[i].src # None =>
                 g.queue[i].id \in 1 .. Count(g, g.queue[i].src)
            /\ \A i, j \in 1 .. Len(g.queue) :
                 g.queue[i].src # None /\ g.queue[i].src = g.queue[j].src /\ g.queue[i].id = g.queue[j].id
                   => i = j
        BY <2>3, <2>5, <2>8, Sources DEF Numbered
      <3>7. /\ \A a \in Promise : \A i \in 1 .. Len(Line(g, a)) : Line(g, a)[i].id \in 1 .. Count(g, a)
            /\ \A a \in Promise : \A i, j \in 1 .. Len(Line(g, a)) :
                 Line(g, a)[i].id = Line(g, a)[j].id => i = j
        BY <3>5
      <3> QED BY <3>1, <3>2, <3>6, <3>7 DEF Numbered
    <2>10. \A k \in Nat : Waits(g, p, k) <=> Waits(h, p, k) \/ k = n
      <3> SUFFICES ASSUME NEW k \in Nat
                   PROVE  Waits(g, p, k) <=> Waits(h, p, k) \/ k = n
        OBVIOUS
      <3>1. (\E i \in 1 .. Len(Line(g, p)) : Line(g, p)[i].id = k) <=>
            (\E i \in 1 .. Len(o.reactions) : o.reactions[i].id = k) \/ k = n
        BY <1>3, <2>6, <2>7
      <3> QED BY <1>5, <2>3, <3>1 DEF Waits
    <2>11. \A a \in Promise, k \in Nat : a # p => (Waits(g, a, k) <=> Waits(h, a, k))
      BY <2>3, <2>5 DEF Waits
    <2>12. Hears(h, g, {})
      BY <1>1, <1>2, <2>5, <2>10, <2>11 DEF Hears
    <2>13. Turns(h, g)
      BY <2>3, <2>5, <2>9, <2>12 DEF Turns, Settles, Leads
    <2> QED BY <2>13 DEF g
  <1>9. CASE ~Pending(h, p)
    <2>1. task.src = p /\ task.id = n /\ task \in Microtask
      <3>1. o.state \in Settled /\ o.value \in Datum
        BY <1>1, <1>9 DEF ObjPromise, Pending, Settled
      <3> QED BY <1>1, <1>3, <3>1, TaskForOK DEF TaskFor
    <2> HIDE DEF task
    <2>2. g = [h EXCEPT !.promise[p] = heard, !.queue = Append(@, task)]
      BY <1>9 DEF csPromiseAddReaction, Pending, r, heard, task
    <2>3. /\ g.made = h.made /\ g.queue = Append(h.queue, task)
          /\ g.promise = [h.promise EXCEPT ![p] = heard]
      BY <1>1, <2>2 DEF Heap
    <2> HIDE DEF g
    <2>4. /\ \A a \in Promise : a # p => g.promise[a] = h.promise[a]
          /\ g.promise[p] = heard
      BY <1>1, <2>3 DEF Heap
    <2>5. /\ \A a \in Promise : a # p => Count(g, a) = Count(h, a)
          /\ Count(g, p) = n
          /\ \A a \in Promise : Outcome(g, a) = Outcome(h, a) /\ Line(g, a) = Line(h, a)
      BY <1>4, <2>4 DEF Line, Count, Outcome
    <2>6. /\ Len(g.queue) = Len(h.queue) + 1 /\ Len(h.queue) \in Nat
          /\ \A i \in 1 .. Len(h.queue) : g.queue[i] = h.queue[i]
          /\ g.queue[Len(h.queue) + 1] = task
      BY <2>1, <2>3, Sources, Appending
    <2>7. 1 .. Len(g.queue) = (1 .. Len(h.queue)) \cup {Len(h.queue) + 1}
      BY <2>6
    <2>8. \A i \in 1 .. Len(h.queue) : h.queue[i].src = p => h.queue[i].id \in 1 .. Count(h, p)
      BY <1>1, Sources DEF Numbered
    <2>9. \A a \in Promise : \A k \in 1 .. Count(h, a) : k \in 1 .. Count(g, a)
      BY <1>6, <2>5
    <2>10. Numbered(g)
      <3>1. \A a \in Promise : a > g.made => Count(g, a) = 0 /\ Line(g, a) = <<>>
        BY <1>7, <2>3, <2>5 DEF Numbered
      <3>2. \A a \in Promise : Pending(g, a) => g.promise[a].value = Undefined
        BY <1>4, <2>4 DEF Numbered, Pending
      <3>3. \A a \in Promise : /\ \A i \in 1 .. Len(Line(g, a)) : Line(g, a)[i].id \in 1 .. Count(g, a)
                              /\ \A i, j \in 1 .. Len(Line(g, a)) :
                                   Line(g, a)[i].id = Line(g, a)[j].id => i = j
        BY <2>5, <2>9 DEF Numbered
      <3>4. \A i \in 1 .. Len(g.queue) : g.queue[i].src # None =>
              g.queue[i].id \in 1 .. Count(g, g.queue[i].src)
        <4>1. n \in 1 .. n
          BY <1>2
        <4>2. ASSUME NEW i \in 1 .. Len(h.queue), h.queue[i].src # None
              PROVE  h.queue[i].id \in 1 .. Count(g, h.queue[i].src)
          BY <2>9, <4>2, Sources DEF Numbered
        <4> QED BY <2>1, <2>5, <2>6, <2>7, <4>1, <4>2
      <3>5. \A i, j \in 1 .. Len(g.queue) :
              g.queue[i].src # None /\ g.queue[i].src = g.queue[j].src /\ g.queue[i].id = g.queue[j].id
                => i = j
        <4>1. \A i \in 1 .. Len(h.queue) : ~(h.queue[i].src = p /\ h.queue[i].id = n)
          BY <1>6, <2>8
        <4>2. \A i, j \in 1 .. Len(h.queue) :
                h.queue[i].src # None /\ h.queue[i].src = h.queue[j].src /\ h.queue[i].id = h.queue[j].id
                  => i = j
          BY DEF Numbered
        <4> QED BY <2>1, <2>6, <2>7, <4>1, <4>2
      <3> QED BY <3>1, <3>2, <3>3, <3>4, <3>5 DEF Numbered
    <2>11. \A k \in Nat : Waits(g, p, k) <=> Waits(h, p, k) \/ k = n
      BY <2>1, <2>5, <2>6, <2>7, <1>1 DEF Waits
    <2>12. \A a \in Promise, k \in Nat : a # p => (Waits(g, a, k) <=> Waits(h, a, k))
      BY <2>1, <2>5, <2>6, <2>7 DEF Waits
    <2>13. Hears(h, g, {})
      BY <1>1, <1>2, <2>5, <2>11, <2>12 DEF Hears
    <2>14. Leads(h, g)
      <3>1. h.queue # <<>> => 1 \in 1 .. Len(h.queue)
        BY Sources
      <3>2. g.queue # <<>>
        <4>1. Len(g.queue) # 0
          BY <2>6
        <4> QED BY <4>1
      <3> QED BY <2>6, <3>1, <3>2 DEF Leads
    <2>15. Turns(h, g)
      BY <2>5, <2>10, <2>13, <2>14 DEF Turns, Settles
    <2> QED BY <2>15 DEF g
  <1> QED BY <1>8, <1>9

-----------------------------------------------------------------------------
(* Fulfilling, rejecting, and the state of a combinator.                   *)
LEMMA RejectTurns ==
  ASSUME NEW h, HeapOK(h), Numbered(h), NEW p \in Allocated(h), NEW v \in Datum
  PROVE  Turns(h, csPromiseReject(h, p, v))
  BY SettleTurns DEF csPromiseReject, Settled

LEMMA FulfillTurns ==
  ASSUME NEW h, HeapOK(h), Numbered(h), NEW p \in Allocated(h),
         NEW v \in Datum \cup Allocated(h)
  PROVE  Turns(h, csPromiseFulfill(h, p, v))
  <1>1. /\ Allocated(h) \subseteq Promise /\ Promise \cap Datum = {} /\ h \in Heap
    BY HeapFields, PromisesAssumption DEF HeapOK, Promise
  <1>2. CASE ~Pending(h, p)
    BY <1>2, AlikeItself, AlikeTurns DEF csPromiseFulfill
  <1>3. CASE Pending(h, p) /\ v \in Promise
    <2>1. v \in Allocated(h) /\ AdoptReaction(p) \in Reaction
      BY <1>1, <1>3, ReactionsOK
    <2>2. csPromiseFulfill(h, p, v) = csPromiseAddReaction(h, v, AdoptReaction(p))
      BY <1>3 DEF csPromiseFulfill
    <2> QED BY <2>1, <2>2, ListenTurns
  <1>4. CASE Pending(h, p) /\ v \notin Promise
    <2>1. csPromiseFulfill(h, p, v) = settle(h, p, "fulfilled", v)
      BY <1>4 DEF csPromiseFulfill
    <2>2. v \in Datum
      BY <1>1, <1>4
    <2> QED BY <2>1, <2>2, SettleTurns DEF Settled
  <1> QED BY <1>2, <1>3, <1>4

LEMMA FillAlike ==
  ASSUME NEW h, HeapOK(h), Numbered(h), NEW p \in Promise, NEW i
  PROVE  Alike(h, Fill(h, p, i))
  <1> DEFINE g == Fill(h, p, i)
  <1>1. h \in Heap
    BY DEF HeapOK
  <1>2. g.made = h.made /\ g.promise = h.promise /\ g.queue = h.queue
    BY <1>1 DEF Fill, Heap
  <1> HIDE DEF g
  <1>3. \A a \in Promise : /\ Outcome(g, a) = Outcome(h, a)
                           /\ Line(g, a) = Line(h, a) /\ Count(g, a) = Count(h, a)
    BY <1>2 DEF Outcome, Line, Count
  <1>4. Alike(h, g)
    BY <1>2, <1>3, Sources, SameLines
  <1> QED BY <1>4 DEF g

(* A new state for a combinator.                                           *)
LEMMA CombineAlike ==
  ASSUME NEW h, HeapOK(h), Numbered(h), NEW c
  PROVE  Alike(h, [h EXCEPT !.combine = c])
  <1> DEFINE g == [h EXCEPT !.combine = c]
  <1>1. h \in Heap
    BY DEF HeapOK
  <1>2. g.made = h.made /\ g.promise = h.promise /\ g.queue = h.queue
    BY <1>1 DEF Heap
  <1> HIDE DEF g
  <1>3. \A a \in Promise : /\ Outcome(g, a) = Outcome(h, a)
                           /\ Line(g, a) = Line(h, a) /\ Count(g, a) = Count(h, a)
    BY <1>2 DEF Outcome, Line, Count
  <1>4. Alike(h, g)
    BY <1>2, <1>3, Sources, SameLines
  <1> QED BY <1>4 DEF g

LEMMA runCombineTurns ==
  ASSUME NEW h, HeapOK(h), Numbered(h), NEW t, TaskOK(h, t), t.combine # None
  PROVE  Turns(h, runCombine(h, t))
  <1> DEFINE p == t.combine
             k == Fill(h, p, t.index)
  <1>1. /\ p \in Allocated(h) /\ t.argument \in Datum /\ t.index \in 0 .. MaxInputs
        /\ p \in Promise
    BY TaskFields, HeapFields DEF HeapOK
  <1>2. HeapOK(k) /\ p \in Allocated(k) /\ Alike(h, k) /\ Numbered(k)
    BY <1>1, FillKeeps, FillAlike DEF Keeps, Sound, Allocated, Alike
  <1>3. \/ runCombine(h, t) = h
        \/ runCombine(h, t) = csPromiseReject(h, p, t.argument)
        \/ runCombine(h, t) = csPromiseFulfill(h, p, t.argument)
        \/ runCombine(h, t) = k
        \/ runCombine(h, t) = csPromiseReject(k, p, Aggregate)
        \/ runCombine(h, t) = csPromiseFulfill(k, p, Results)
    BY DEF runCombine
  <1> HIDE DEF k, p
  <1>4. Turns(k, csPromiseReject(k, p, Aggregate)) /\ Turns(k, csPromiseFulfill(k, p, Results))
    BY <1>2, RejectTurns, FulfillTurns DEF Datum
  <1>5. Turns(h, csPromiseReject(k, p, Aggregate)) /\ Turns(h, csPromiseFulfill(k, p, Results))
    BY <1>2, <1>4, AlikeThen
  <1>6. /\ Turns(h, csPromiseReject(h, p, t.argument))
        /\ Turns(h, csPromiseFulfill(h, p, t.argument))
    BY <1>1, RejectTurns, FulfillTurns
  <1> QED BY <1>2, <1>3, <1>5, <1>6, AlikeItself, AlikeTurns

-----------------------------------------------------------------------------
(* The head of the queue is done: its listener is answered.                *)
Served(h) == IF h.queue[1].src = None THEN {} ELSE {<<h.queue[1].src, h.queue[1].id>>}

Answers(h, gone) ==
  \/ gone = {}
  \/ \E p \in Promise, n \in Nat : gone = {<<p, n>>} /\ Waits(h, p, n) /\ ~Pending(h, p)

(* A step of the loop or of a program, whoever it answers.                 *)
Steps(h, g) ==
  /\ Numbered(g) /\ Settles(h, g)
  /\ \E gone \in SUBSET (Promise \X Nat) : Answers(h, gone) /\ Hears(h, g, gone)

(* The same, of the fatal errors that end a run.                           *)
Stops(h, g) ==
  /\ Numbered(g)
  /\ \E gone \in SUBSET (Promise \X Nat) :
       /\ Answers(h, gone)
       /\ \A p \in Promise : /\ Outcome(g, p) = Outcome(h, p) /\ Count(g, p) = Count(h, p)
                             /\ \A n \in Nat : Waits(g, p, n) <=> Waits(h, p, n) /\ <<p, n>> \notin gone

LEMMA TurnsSteps ==
  ASSUME NEW h, NEW g, Turns(h, g)
  PROVE  Steps(h, g)
  BY DEF Turns, Steps, Answers

LEMMA StopsSteps ==
  ASSUME NEW h, NEW g, Stops(h, g)
  PROVE  Steps(h, g)
  BY DEF Stops, Steps, Settles, Hears

(* A listener that waits has its number.                                   *)
LEMMA WaitsNumbered ==
  ASSUME NEW h, HeapOK(h), Numbered(h), NEW p \in Promise, NEW n \in Nat, Waits(h, p, n)
  PROVE  n \in 1 .. Count(h, p)
  <1>1. CASE \E i \in 1 .. Len(Line(h, p)) : Line(h, p)[i].id = n
    BY <1>1 DEF Numbered
  <1>2. CASE \E i \in 1 .. Len(h.queue) : h.queue[i].src = p /\ h.queue[i].id = n
    BY <1>2, Sources DEF Numbered
  <1> QED BY <1>1, <1>2 DEF Waits

LEMMA ServedOK ==
  ASSUME NEW h, HeapOK(h), h.queue # <<>>
  PROVE  Answers(h, Served(h)) /\ Served(h) \in SUBSET (Promise \X Nat)
  <1>1. /\ 1 \in 1 .. Len(h.queue) /\ h.queue[1].src \in Promise \cup {None} /\ h.queue[1].id \in Nat
        /\ h.queue[1].src # None => ~Pending(h, h.queue[1].src)
    BY Sources
  <1>2. CASE h.queue[1].src = None
    BY <1>2 DEF Served, Answers
  <1>3. CASE h.queue[1].src # None
    <2>1. Waits(h, h.queue[1].src, h.queue[1].id)
      BY <1>1 DEF Waits
    <2> QED BY <1>1, <1>3, <2>1 DEF Served, Answers
  <1> QED BY <1>2, <1>3

LEMMA RetireAlone ==
  ASSUME NEW h, HeapOK(h), Numbered(h), h.queue # <<>>
  PROVE  LET g == Retire(h) IN
         /\ Numbered(g)
         /\ \A p \in Promise : /\ Outcome(g, p) = Outcome(h, p) /\ Count(g, p) = Count(h, p)
                               /\ \A n \in Nat : Waits(g, p, n) <=> Waits(h, p, n)
                                                                    /\ <<p, n>> \notin Served(h)
  <1> DEFINE g == Retire(h)
             m == Len(h.queue)
             x == h.queue[1]
  <1>1. h \in Heap /\ h.queue \in Seq(Microtask)
    BY HeapFields DEF HeapOK
  <1>2. /\ g.made = h.made /\ g.promise = h.promise /\ g.queue = Tail(h.queue)
    BY <1>1 DEF Retire, Heap
  <1> HIDE DEF g
  <1>3. /\ Len(g.queue) = m - 1 /\ m \in Nat /\ 1 \in 1 .. m
        /\ \A i \in 1 .. m - 1 : g.queue[i] = h.queue[i + 1]
    BY <1>1, <1>2, Retiring, Sources
  <1> HIDE DEF m
  <1>4. \A i \in 1 .. Len(g.queue) : i + 1 \in 1 .. m /\ g.queue[i] = h.queue[i + 1] /\ i + 1 # 1
    BY <1>3
  <1>5. \A i \in 1 .. m : i = 1 \/ (i - 1 \in 1 .. Len(g.queue) /\ g.queue[i - 1] = h.queue[i])
    <2> SUFFICES ASSUME NEW i \in 1 .. m, i # 1
                 PROVE  i - 1 \in 1 .. Len(g.queue) /\ g.queue[i - 1] = h.queue[i]
      OBVIOUS
    <2>1. i - 1 \in 1 .. Len(g.queue) /\ (i - 1) + 1 = i
      BY <1>3
    <2> QED BY <1>4, <2>1
  <1>6. \A p \in Promise : /\ Outcome(g, p) = Outcome(h, p) /\ Count(g, p) = Count(h, p)
                           /\ Line(g, p) = Line(h, p) /\ (Pending(g, p) <=> Pending(h, p))
    BY <1>2 DEF Outcome, Count, Line, Pending
  <1>7. Numbered(g)
    <2>1. \A i \in 1 .. Len(g.queue) : g.queue[i].src # None =>
            g.queue[i].id \in 1 .. Count(g, g.queue[i].src)
      BY <1>2, <1>4 DEF Numbered, Count, m
    <2>2. ASSUME NEW i \in 1 .. Len(g.queue), NEW j \in 1 .. Len(g.queue), g.queue[i].src # None,
                 g.queue[i].src = g.queue[j].src, g.queue[i].id = g.queue[j].id
          PROVE  i = j
      <3>1. i + 1 = j + 1
        BY <1>4, <2>2 DEF Numbered, m
      <3> QED BY <1>3, <3>1
    <2> QED BY <1>2, <1>6, <2>1, <2>2 DEF Numbered
  <1>8. ASSUME NEW p \in Promise, NEW n \in Nat
        PROVE  Waits(g, p, n) <=> Waits(h, p, n) /\ <<p, n>> \notin Served(h)
    <2>1. <<p, n>> \in Served(h) <=> x.src = p /\ x.id = n
      BY Sources DEF Served
    <2>2. x.src = p => Line(h, p) = <<>>
      BY <1>3, Sources DEF HeapOK, NoneWaitsOnSettled, Line, m
    <2>3. CASE <<p, n>> \in Served(h)
      <3>1. x.src = p /\ x.id = n /\ Line(h, p) = <<>> /\ p # None
        BY <2>1, <2>2, <2>3, Sources
      <3>2. \A i \in 1 .. m : h.queue[i].src = p /\ h.queue[i].id = n => i = 1
        BY <1>3, <3>1 DEF Numbered, m
      <3>3. \A i \in 1 .. Len(g.queue) : ~(g.queue[i].src = p /\ g.queue[i].id = n)
        BY <1>4, <3>2
      <3>4. Line(g, p) = <<>>
        BY <1>6, <3>1
      <3> QED BY <2>3, <3>3, <3>4 DEF Waits
    <2>4. CASE <<p, n>> \notin Served(h)
      <3>1. (\E i \in 1 .. m : h.queue[i].src = p /\ h.queue[i].id = n) <=>
            (\E i \in 1 .. Len(g.queue) : g.queue[i].src = p /\ g.queue[i].id = n)
        <4>1. ASSUME NEW i \in 1 .. m, h.queue[i].src = p, h.queue[i].id = n
              PROVE  \E j \in 1 .. Len(g.queue) : g.queue[j].src = p /\ g.queue[j].id = n
          <5>1. i # 1
            BY <2>1, <2>4, <4>1
          <5>2. i - 1 \in 1 .. Len(g.queue) /\ g.queue[i - 1] = h.queue[i]
            BY <1>5, <5>1
          <5> QED BY <4>1, <5>2
        <4>2. ASSUME NEW i \in 1 .. Len(g.queue), g.queue[i].src = p, g.queue[i].id = n
              PROVE  \E j \in 1 .. m : h.queue[j].src = p /\ h.queue[j].id = n
          <5>1. i + 1 \in 1 .. m /\ g.queue[i] = h.queue[i + 1]
            BY <1>4
          <5> QED BY <4>2, <5>1
        <4> QED BY <4>1, <4>2
      <3> QED BY <1>6, <2>4, <3>1 DEF Waits, m
    <2> QED BY <2>3, <2>4
  <1> QED BY <1>6, <1>7, <1>8 DEF g

LEMMA RetireStops ==
  ASSUME NEW h, HeapOK(h), Numbered(h), h.queue # <<>>
  PROVE  Stops(h, Retire(h))
  BY RetireAlone, ServedOK DEF Stops

(* A turn, and then the head retires.                                      *)
LEMMA RetireSteps ==
  ASSUME NEW h, HeapOK(h), Numbered(h), h.queue # <<>>, NEW g, HeapOK(g), Turns(h, g)
  PROVE  Steps(h, Retire(g))
  <1> DEFINE k == Retire(g)
             gone == Served(h)
  <1>1. /\ g.queue # <<>> /\ Served(g) = gone /\ Numbered(g)
        /\ Settles(h, g) /\ Hears(h, g, {})
    BY DEF Turns, Leads, Served
  <1>2. /\ Numbered(k)
        /\ \A p \in Promise : /\ Outcome(k, p) = Outcome(g, p) /\ Count(k, p) = Count(g, p)
                              /\ \A n \in Nat : Waits(k, p, n) <=> Waits(g, p, n)
                                                                   /\ <<p, n>> \notin gone
    BY <1>1, RetireAlone
  <1>3. Answers(h, gone) /\ gone \in SUBSET (Promise \X Nat)
    BY ServedOK
  <1> HIDE DEF k, gone
  <1>4. Settles(h, k)
    BY <1>1, <1>2 DEF Settles
  <1>5. \A p \in Promise : Count(h, p) \in Nat /\ <<p, Count(h, p) + 1>> \notin gone
    <2> SUFFICES ASSUME NEW p \in Promise, <<p, Count(h, p) + 1>> \in gone PROVE FALSE
      BY Sources
    <2>1. Count(h, p) \in Nat /\ Count(h, p) + 1 \in Nat
      BY Sources
    <2>2. Waits(h, p, Count(h, p) + 1)
      BY <1>3 DEF Answers
    <2> QED BY <2>1, <2>2, WaitsNumbered
  <1>6. Hears(h, k, gone)
    <2>1. CASE \A p \in Promise :
                 /\ Count(g, p) = Count(h, p)
                 /\ \A n \in Nat : Waits(g, p, n) <=> Waits(h, p, n) /\ <<p, n>> \notin {}
      BY <1>2, <2>1 DEF Hears
    <2>2. ASSUME NEW q \in Promise, \A p \in Promise :
                 /\ Count(g, p) = IF p = q THEN Count(h, p) + 1 ELSE Count(h, p)
                 /\ \A n \in Nat : Waits(g, p, n) <=> \/ Waits(h, p, n) /\ <<p, n>> \notin {}
                                                      \/ p = q /\ n = Count(h, p) + 1
          PROVE Hears(h, k, gone)
      <3>1. \A p \in Promise :
                 /\ Count(k, p) = IF p = q THEN Count(h, p) + 1 ELSE Count(h, p)
                 /\ \A n \in Nat : Waits(k, p, n) <=> \/ Waits(h, p, n) /\ <<p, n>> \notin gone
                                                      \/ p = q /\ n = Count(h, p) + 1
        BY <1>2, <1>5, <2>2
      <3> QED BY <3>1 DEF Hears
    <2> QED BY <1>1, <2>1, <2>2 DEF Hears
  <1>7. Steps(h, k)
    BY <1>2, <1>3, <1>4, <1>6 DEF Steps
  <1> QED BY <1>7 DEF k

(* The head retires, and waits again at the end of the queue.              *)
LEMMA RequeueSteps ==
  ASSUME NEW h, HeapOK(h), Numbered(h), h.queue # <<>>, NEW u \in Microtask,
         u.src = h.queue[1].src, u.id = h.queue[1].id
  PROVE  Steps(h, Retire(csVMQueueMicrotask(h, u)))
  <1> DEFINE k == csVMQueueMicrotask(h, u)
             g == Retire(k)
             m == Len(h.queue)
  <1>1. h \in Heap /\ h.queue \in Seq(Microtask)
    BY HeapFields DEF HeapOK
  <1>2. /\ k.made = h.made /\ k.promise = h.promise /\ k.queue = Append(h.queue, u)
        /\ g.made = h.made /\ g.promise = h.promise /\ g.queue = Tail(k.queue)
    BY <1>1 DEF csVMQueueMicrotask, Retire, Heap
  <1> HIDE DEF g, k
  <1>3. /\ k.queue \in Seq(Microtask) /\ k.queue # <<>>
        /\ Len(k.queue) = m + 1 /\ m \in Nat /\ 1 \in 1 .. m
        /\ \A i \in 1 .. m : k.queue[i] = h.queue[i]
        /\ k.queue[m + 1] = u
    <2>1. /\ k.queue \in Seq(Microtask) /\ Len(k.queue) = m + 1 /\ m \in Nat /\ 1 \in 1 .. m
          /\ \A i \in 1 .. m : k.queue[i] = h.queue[i]
          /\ k.queue[m + 1] = u
      BY <1>1, <1>2, Appending, Sources
    <2> QED BY <2>1
  <1>4. /\ Len(g.queue) = m
        /\ \A i \in 1 .. m : g.queue[i] = k.queue[i + 1]
    <2>1. /\ Len(g.queue) = Len(k.queue) - 1
          /\ \A i \in 1 .. Len(k.queue) - 1 : g.queue[i] = k.queue[i + 1]
      BY <1>2, <1>3, Retiring
    <2>2. Len(k.queue) - 1 = m
      BY <1>3
    <2> QED BY <2>1, <2>2
  <1> HIDE DEF m
  <1> DEFINE from(i) == IF i = m THEN 1 ELSE i + 1
             to(i) == IF i = 1 THEN m ELSE i - 1
  <1>5. \A i \in 1 .. m : /\ from(i) \in 1 .. m /\ to(i) \in 1 .. m
                          /\ from(to(i)) = i /\ to(from(i)) = i
    BY <1>3
  <1>6. \A i \in 1 .. m : /\ g.queue[i].src = h.queue[from(i)].src
                          /\ g.queue[i].id = h.queue[from(i)].id
    <2> SUFFICES ASSUME NEW i \in 1 .. m
                 PROVE  /\ g.queue[i].src = h.queue[from(i)].src
                        /\ g.queue[i].id = h.queue[from(i)].id
      OBVIOUS
    <2>1. CASE i = m
      BY <1>3, <1>4, <2>1
    <2>2. CASE i # m
      <3>1. i + 1 \in 1 .. m
        BY <1>3, <2>2
      <3> QED BY <1>3, <1>4, <2>2, <3>1
    <2> QED BY <2>1, <2>2
  <1> HIDE DEF from, to
  <1>7. \A p \in Promise : /\ Outcome(g, p) = Outcome(h, p) /\ Count(g, p) = Count(h, p)
                           /\ Line(g, p) = Line(h, p) /\ (Pending(g, p) <=> Pending(h, p))
    BY <1>2 DEF Outcome, Count, Line, Pending
  <1>8. Numbered(g)
    <2>1. \A i \in 1 .. m : g.queue[i].src # None => g.queue[i].id \in 1 .. Count(g, g.queue[i].src)
      BY <1>2, <1>5, <1>6 DEF Numbered, Count, m
    <2>2. ASSUME NEW i \in 1 .. m, NEW j \in 1 .. m, g.queue[i].src # None,
                 g.queue[i].src = g.queue[j].src, g.queue[i].id = g.queue[j].id
          PROVE  i = j
      <3>1. from(i) = from(j)
        <4>1. \A a, b \in 1 .. m :
                h.queue[a].src # None /\ h.queue[a].src = h.queue[b].src /\ h.queue[a].id = h.queue[b].id
                  => a = b
          BY DEF Numbered, m
        <4>2. from(i) \in 1 .. m /\ from(j) \in 1 .. m
          BY <1>5
        <4>3. /\ h.queue[from(i)].src # None /\ h.queue[from(i)].src = h.queue[from(j)].src
              /\ h.queue[from(i)].id = h.queue[from(j)].id
          BY <1>6, <2>2
        <4> QED BY <4>1, <4>2, <4>3
      <3> QED BY <1>5, <3>1
    <2>3. /\ \A p \in Promise : p > g.made => Count(g, p) = 0 /\ Line(g, p) = <<>>
          /\ \A p \in Promise : Pending(g, p) => g.promise[p].value = Undefined
          /\ \A p \in Promise : /\ \A i \in 1 .. Len(Line(g, p)) : Line(g, p)[i].id \in 1 .. Count(g, p)
                                /\ \A i, j \in 1 .. Len(Line(g, p)) :
                                     Line(g, p)[i].id = Line(g, p)[j].id => i = j
      BY <1>2, <1>7 DEF Numbered
    <2>4. Len(g.queue) = m
      BY <1>4
    <2> QED BY <2>1, <2>2, <2>3, <2>4 DEF Numbered
  <1>9. \A p \in Promise, n \in Nat : Waits(g, p, n) <=> Waits(h, p, n)
    <2> SUFFICES ASSUME NEW p \in Promise, NEW n \in Nat
                 PROVE  Waits(g, p, n) <=> Waits(h, p, n)
      OBVIOUS
    <2>1. (\E i \in 1 .. m : g.queue[i].src = p /\ g.queue[i].id = n) <=>
          (\E i \in 1 .. m : h.queue[i].src = p /\ h.queue[i].id = n)
      <3>1. ASSUME NEW i \in 1 .. m, g.queue[i].src = p, g.queue[i].id = n
            PROVE  \E j \in 1 .. m : h.queue[j].src = p /\ h.queue[j].id = n
        <4>1. from(i) \in 1 .. m
          BY <1>5
        <4>2. h.queue[from(i)].src = p /\ h.queue[from(i)].id = n
          BY <1>6, <3>1
        <4> QED BY <4>1, <4>2
      <3>2. ASSUME NEW i \in 1 .. m, h.queue[i].src = p, h.queue[i].id = n
            PROVE  \E j \in 1 .. m : g.queue[j].src = p /\ g.queue[j].id = n
        <4>1. to(i) \in 1 .. m /\ from(to(i)) = i
          BY <1>5
        <4>2. g.queue[to(i)].src = p /\ g.queue[to(i)].id = n
          BY <1>6, <3>2, <4>1
        <4> QED BY <4>1, <4>2
      <3> QED BY <3>1, <3>2
    <2> QED BY <1>4, <1>7, <2>1 DEF Waits, m
  <1>10. Steps(h, g)
    <2>1. Settles(h, g)
      BY <1>7 DEF Settles
    <2>2. Hears(h, g, {})
      BY <1>7, <1>9 DEF Hears
    <2> QED BY <1>8, <2>1, <2>2 DEF Steps, Answers
  <1> QED BY <1>10 DEF g, k

(* A microtask without a handler, and the end of a handler.                *)
LEMMA PassThroughSteps ==
  ASSUME NEW h, HeapOK(h), Numbered(h), h.queue # <<>>
  PROVE  Steps(h, Retire(PassThrough(h, h.queue[1])))
  <1> DEFINE t == h.queue[1]
  <1>1. TaskOK(h, t) /\ t \in Microtask
    BY Sources, QueueOK DEF TaskOK
  <1>2. CASE t.extraHops > 0
    <2> DEFINE u == [t EXCEPT !.extraHops = t.extraHops - 1]
    <2>1. t.extraHops - 1 \in 0 .. 1
      BY <1>1, <1>2 DEF Microtask
    <2>2. u \in Microtask /\ u.src = t.src /\ u.id = t.id
      BY <1>1, <2>1 DEF Microtask
    <2>3. PassThrough(h, t) = csVMQueueMicrotask(h, u)
      BY <1>2 DEF PassThrough
    <2> HIDE DEF u
    <2> QED BY <2>2, <2>3, RequeueSteps
  <1>3. CASE ~(t.extraHops > 0)
    <2>1. HeapOK(PassThrough(h, t))
      BY <1>1, PassThroughKeeps DEF Keeps, Sound
    <2>2. Turns(h, PassThrough(h, t))
      <3>1. CASE t.result = None
        BY <1>3, <3>1, AlikeItself, AlikeTurns DEF PassThrough
      <3>2. CASE t.result # None
        BY <1>1, <1>3, <3>2, TaskFields, RejectTurns, FulfillTurns DEF PassThrough
      <3> QED BY <3>1, <3>2
    <2> QED BY <2>1, <2>2, RetireSteps
  <1> QED BY <1>2, <1>3

LEMMA HandlerReturnedSteps ==
  ASSUME NEW h, HeapOK(h), Numbered(h), h.queue # <<>>, NEW v \in Datum \cup Allocated(h)
  PROVE  Steps(h, Retire(HandlerReturned(h, h.queue[1], v)))
  <1> DEFINE t == h.queue[1]
  <1>1. TaskOK(h, t) /\ t \in Microtask
    BY Sources, QueueOK DEF TaskOK
  <1>2. CASE t.result # None /\ t.isFinally
    <2> DEFINE u == [t EXCEPT !.callback = FALSE, !.isFinally = FALSE, !.extraHops = 1]
    <2>1. u \in Microtask /\ u.src = t.src /\ u.id = t.id
      <3>1. 1 \in 0 .. 1 /\ FALSE \in BOOLEAN
        OBVIOUS
      <3> QED BY <1>1, <3>1 DEF Microtask
    <2>2. HandlerReturned(h, t, v) = csVMQueueMicrotask(h, u)
      BY <1>2 DEF HandlerReturned
    <2> HIDE DEF u
    <2> QED BY <2>1, <2>2, RequeueSteps
  <1>3. CASE ~(t.result # None /\ t.isFinally)
    <2>1. HeapOK(HandlerReturned(h, t, v))
      BY <1>1, HandlerReturnedKeeps DEF Keeps, Sound
    <2>2. Turns(h, HandlerReturned(h, t, v))
      <3>1. CASE t.result = None
        BY <3>1, AlikeItself, AlikeTurns DEF HandlerReturned
      <3>2. CASE t.result # None
        BY <1>1, <1>3, <3>2, TaskFields, FulfillTurns DEF HandlerReturned
      <3> QED BY <3>1, <3>2
    <2> QED BY <2>1, <2>2, RetireSteps
  <1> QED BY <1>2, <1>3

-----------------------------------------------------------------------------
(* The calls of a program.                                                 *)

LEMMA ThenAlike ==
  ASSUME NEW h, NEW g, NEW k, Turns(h, g), Alike(g, k)
  PROVE  Turns(h, k)
  <1>1. Settles(h, k)
    BY DEF Alike, Turns, Settles
  <1>2. Hears(h, k, {})
    <2>1. CASE \A p \in Promise :
                 /\ Count(g, p) = Count(h, p)
                 /\ \A n \in Nat : Waits(g, p, n) <=> Waits(h, p, n) /\ <<p, n>> \notin {}
      BY <2>1 DEF Alike, Hears
    <2>2. ASSUME NEW q \in Promise, \A p \in Promise :
                 /\ Count(g, p) = IF p = q THEN Count(h, p) + 1 ELSE Count(h, p)
                 /\ \A n \in Nat : Waits(g, p, n) <=> \/ Waits(h, p, n) /\ <<p, n>> \notin {}
                                                      \/ p = q /\ n = Count(h, p) + 1
          PROVE Hears(h, k, {})
      BY <2>2 DEF Alike, Hears
    <2> QED BY <2>1, <2>2 DEF Turns, Hears
  <1>3. Leads(h, k) /\ Numbered(k)
    BY DEF Alike, Turns, Leads
  <1> QED BY <1>1, <1>2, <1>3 DEF Turns

(* A promise the call allocates before it does anything else.              *)
LEMMA NewAlike ==
  ASSUME IInv, Numbered(heap), heap.made + 1 <= MaxPromises, NEW maker \in Maker
  PROVE  LET h == Allocate(heap, maker) IN
         /\ Alike(heap, h) /\ HeapOK(h) /\ Numbered(h) /\ h \in Heap
         /\ Fresh(heap) \in Allocated(h) /\ Allocated(heap) \subseteq Allocated(h)
         /\ Fresh(heap) \in Promise
  <1> DEFINE h == Allocate(heap, maker)
  <1>1. HeapOK(heap)
    BY DEF IInv
  <1>2. HeapOK(h) /\ Fresh(heap) \in Allocated(h) /\ Allocated(heap) \subseteq Allocated(h)
    BY <1>1, AllocateKeeps DEF Keeps, Sound
  <1>3. Alike(heap, h)
    BY <1>1, AllocateAlike
  <1> HIDE DEF h
  <1>4. h \in Heap /\ Fresh(heap) \in Promise
    BY <1>2, HeapFields DEF HeapOK
  <1>5. Numbered(h)
    BY <1>3 DEF Alike
  <1> QED BY <1>2, <1>3, <1>4, <1>5 DEF h

LEMMA SettleCallsTurn ==
  ASSUME IInv, Numbered(heap),
         \/ promiseConstruct
         \/ \E v \in Value : promiseRejectStatic(v) \/ promiseResolve(v)
         \/ \E p \in Reachable : \/ \E v \in Argument : resolveFunction(p, v)
                                \/ \E v \in Value : rejectFunction(p, v)
  PROVE  Turns(heap, heap') /\ UserRuns /\ UNCHANGED phase
  <1> DEFINE h == Allocate(heap, "program")
  <1> USE Arguments
  <1>0. ASSUME heap.made + 1 <= MaxPromises
        PROVE  Alike(heap, h) /\ HeapOK(h) /\ Numbered(h) /\ Fresh(heap) \in Allocated(h)
    BY <1>0, NewAlike DEF Maker
  <1> HIDE DEF h
  <1>1. CASE promiseConstruct
    BY <1>0, <1>1, AlikeTurns DEF promiseConstruct, Calls, Leaves, h
  <1>2. ASSUME NEW v \in Value, promiseRejectStatic(v)
        PROVE  Turns(heap, heap') /\ UserRuns /\ UNCHANGED phase
    <2>1. /\ heap.made + 1 <= MaxPromises /\ UserRuns /\ UNCHANGED phase
          /\ heap' = csPromiseReject(h, Fresh(heap), v)
      BY <1>2 DEF promiseRejectStatic, Calls, Leaves, h
    <2>2. Turns(h, heap')
      BY <1>0, <2>1, RejectTurns
    <2> QED BY <1>0, <2>1, <2>2, AlikeThen
  <1>3. ASSUME NEW v \in Value, promiseResolve(v)
        PROVE  Turns(heap, heap') /\ UserRuns /\ UNCHANGED phase
    <2>1. /\ heap.made + 1 <= MaxPromises /\ UserRuns /\ UNCHANGED phase
          /\ heap' = csPromiseFulfill(h, Fresh(heap), v)
      BY <1>3 DEF promiseResolve, Calls, Leaves, h
    <2>2. Turns(h, heap')
      BY <1>0, <2>1, FulfillTurns
    <2> QED BY <1>0, <2>1, <2>2, AlikeThen
  <1>4. ASSUME NEW p \in Reachable, NEW v \in Argument, resolveFunction(p, v)
        PROVE  Turns(heap, heap') /\ UserRuns /\ UNCHANGED phase
    BY <1>4, FulfillTurns DEF resolveFunction, Calls, Leaves, Reachable
  <1>5. ASSUME NEW p \in Reachable, NEW v \in Value, rejectFunction(p, v)
        PROVE  Turns(heap, heap') /\ UserRuns /\ UNCHANGED phase
    BY <1>5, RejectTurns DEF rejectFunction, Calls, Leaves, Reachable
  <1> QED BY <1>1, <1>2, <1>3, <1>4, <1>5

LEMMA ListenCallsTurn ==
  ASSUME IInv, Numbered(heap), NEW p \in Reachable,
         \/ \E f, r \in BOOLEAN : promiseThen(p, f, r)
         \/ \E f \in BOOLEAN : promiseFinally(p, f)
  PROVE  Turns(heap, heap') /\ UserRuns /\ UNCHANGED phase
  <1> DEFINE h == Allocate(heap, "then")
  <1> USE Arguments
  <1>1. PICK reaction :
          /\ heap.made + 1 <= MaxPromises /\ UserRuns /\ UNCHANGED phase
          /\ heap' = csPromiseAddReaction(h, p, reaction)
          /\ \/ \E f, r \in BOOLEAN : reaction = ThenReaction(f, r, Fresh(heap))
             \/ \E f \in BOOLEAN : reaction = FinallyReaction(f, Fresh(heap))
    BY DEF promiseThen, promiseFinally, Calls, Leaves
  <1>2. /\ Alike(heap, h) /\ HeapOK(h) /\ Numbered(h) /\ h \in Heap
        /\ Fresh(heap) \in Allocated(h) /\ p \in Allocated(h)
    BY <1>1, NewAlike DEF Maker, Reachable
  <1> HIDE DEF h
  <1>3. reaction \in Reaction
    BY <1>1, <1>2, ReactionsOK
  <1>4. Turns(h, heap')
    BY <1>1, <1>2, <1>3, ListenTurns
  <1> QED BY <1>1, <1>2, <1>4, AlikeThen

LEMMA QueueCallsTurn ==
  ASSUME IInv, Numbered(heap), (\E mode \in Mode : combinatorEmpty(mode)) \/ queueMicrotaskNative
  PROVE  Turns(heap, heap') /\ UserRuns /\ UNCHANGED phase
  <1> USE Arguments
  <1>1. ASSUME NEW mode \in Mode, combinatorEmpty(mode)
        PROVE  Turns(heap, heap') /\ UserRuns /\ UNCHANGED phase
    <2> DEFINE h == Allocate(heap, "combinator")
    <2>1. /\ heap.made + 1 <= MaxPromises /\ UserRuns /\ UNCHANGED phase
          /\ \/ heap' = csPromiseFulfill(h, Fresh(heap), Results)
             \/ heap' = csPromiseReject(h, Fresh(heap), Aggregate)
             \/ heap' = h
      BY <1>1 DEF combinatorEmpty, Calls, Leaves, Mode
    <2>2. Alike(heap, h) /\ HeapOK(h) /\ Numbered(h) /\ Fresh(heap) \in Allocated(h)
      BY <2>1, NewAlike DEF Maker
    <2> HIDE DEF h
    <2>3. \/ Turns(h, heap') \/ heap' = h
      BY <2>1, <2>2, FulfillTurns, RejectTurns
    <2> QED BY <2>1, <2>2, <2>3, AlikeThen, AlikeTurns
  <1>2. CASE queueMicrotaskNative
    <2> DEFINE t == PlainTask(TRUE, Undefined, None, FALSE)
    <2>1. t \in Microtask /\ t.src = None
      <3>1. TaskOK(heap, t)
        BY PlainTaskOK
      <3> QED BY <3>1 DEF TaskOK, PlainTask
    <2>2. heap' = csVMQueueMicrotask(heap, t) /\ UserRuns /\ UNCHANGED phase
      BY <1>2 DEF queueMicrotaskNative, Calls, Leaves
    <2> HIDE DEF t
    <2> QED BY <2>1, <2>2, EnqueueAlike, AlikeTurns
  <1> QED BY <1>1, <1>2

LEMMA CombineCallsTurn ==
  ASSUME IInv, Numbered(heap),
         \/ \E mode \in Mode, n \in 1 .. MaxInputs : combinator(mode, n)
         \/ \E v \in Argument : combinatorInput(v)
  PROVE  Turns(heap, heap') /\ phase \in UserPhase /\ UNCHANGED phase
  <1> USE Arguments
  <1>1. ASSUME NEW mode \in Mode, NEW n \in 1 .. MaxInputs, combinator(mode, n)
        PROVE  Turns(heap, heap') /\ phase \in UserPhase /\ UNCHANGED phase
    <2> DEFINE h == Allocate(heap, "combinator")
               c == [h.combine EXCEPT ![Fresh(heap)] = combineState(mode, n)]
    <2>1. /\ heap.made + 1 <= MaxPromises /\ phase \in UserPhase /\ UNCHANGED phase
          /\ heap' = [h EXCEPT !.combine[Fresh(heap)] = combineState(mode, n)]
      BY <1>1 DEF combinator, Calls, UserRuns
    <2>2. Alike(heap, h) /\ HeapOK(h) /\ Numbered(h) /\ h \in Heap
      BY <2>1, NewAlike DEF Maker
    <2> HIDE DEF h
    <2>3. heap' = [h EXCEPT !.combine = c]
      BY <2>1, <2>2 DEF Heap
    <2> HIDE DEF c
    <2>4. Turns(h, heap')
      BY <2>2, <2>3, CombineAlike, AlikeTurns
    <2> QED BY <2>1, <2>2, <2>4, AlikeThen
  <1>2. ASSUME NEW v \in Argument, combinatorInput(v)
        PROVE  Turns(heap, heap') /\ phase \in UserPhase /\ UNCHANGED phase
    <2> DEFINE p == adding.target
               i == adding.next
    <2>1. /\ phase \in UserPhase /\ adding # NotAdding /\ UNCHANGED phase
          /\ \/ v \in Promise /\ heap' = csPromiseAddReaction(heap, v, CombineReaction(p, i))
             \/ v \notin Promise /\ heap' = csVMQueueCombine(heap, p, i, v)
      BY <1>2 DEF combinatorInput
    <2>2. p \in Allocated(heap) /\ i \in 0 .. MaxInputs
      <3>1. /\ p \in Allocated(heap) /\ i \in 1 .. adding.count
            /\ adding.count <= MaxInputs /\ adding.count \in Nat
        BY <2>1 DEF IInv, TypeOK, Control
      <3> QED BY <3>1, PromisesAssumption
    <2>3. CASE v \in Promise
      <3>1. v \in Allocated(heap) /\ CombineReaction(p, i) \in Reaction
        BY <2>2, <2>3, ReactionsOK
      <3> QED BY <2>1, <2>3, <3>1, ListenTurns
    <2>4. CASE v \notin Promise
      <3> DEFINE t == [PlainTask(FALSE, v, None, FALSE) EXCEPT !.combine = p, !.index = i]
      <3>1. v \in Datum
        BY <2>4, HeapFields
      <3>2. t \in Microtask /\ t.src = None
        <4>1. TaskOK(heap, t)
          BY <2>2, <3>1, PlainTaskOK
        <4> QED BY <4>1 DEF TaskOK, PlainTask
      <3>3. heap' = csVMQueueMicrotask(heap, t)
        BY <2>1, <2>4 DEF csVMQueueCombine
      <3> HIDE DEF t
      <3> QED BY <2>1, <3>2, <3>3, EnqueueAlike, AlikeTurns
    <2> QED BY <2>3, <2>4
  <1> QED BY <1>1, <1>2

(* The current async call gives the thread back: to the code that called   *)
(* it, to the loop when its wakeup is done, or to the loader.              *)
LEMMA GivingBackSteps ==
  ASSUME IInv, Numbered(heap), UserRuns, InFiber, NEW h, HeapOK(h), Turns(heap, h), ToCaller(h)
  PROVE  Steps(heap, heap') /\ phase \in UserPhase /\ phase' \notin Final
  <1> USE Arguments
  <1>1. /\ phase \in UserPhase /\ phase' \notin Final
        /\ \/ phase = "task" /\ heap' = Retire(h)
           \/ body # None /\ heap' = HandledByLoader(h)
           \/ heap' = h
    BY DEF ToCaller, UserRuns, Final, UserPhase
  <1>2. CASE phase = "task" /\ heap' = Retire(h)
    <2>1. heap.queue # <<>>
      BY <1>2 DEF IInv, Control
    <2>2. Steps(heap, Retire(h))
      BY <2>1, RetireSteps
    <2> QED BY <1>1, <1>2, <2>2
  <1>3. CASE body # None /\ heap' = HandledByLoader(h)
    <2> DEFINE p == fiber[body].promise
               q == [h.promise[p] EXCEPT !.handled = TRUE]
    <2>1. p \in Promise
      BY <1>3 DEF IInv, TypeOK, Control, ObjFiber
    <2>2. h \in Heap /\ h.promise \in [Promise -> ObjPromise]
      BY HeapFields DEF HeapOK
    <2>3. /\ heap'.made = h.made /\ heap'.queue = h.queue
          /\ heap'.promise = [h.promise EXCEPT ![p] = q]
      BY <1>3, <2>2 DEF HandledByLoader, Heap
    <2>4. /\ q.state = h.promise[p].state /\ q.value = h.promise[p].value
          /\ q.reactions = h.promise[p].reactions /\ q.listeners = h.promise[p].listeners
      BY <2>1, <2>2 DEF ObjPromise
    <2> HIDE DEF p, q
    <2>5. heap'.promise[p] = q /\ \A a \in Promise : a # p => heap'.promise[a] = h.promise[a]
      BY <2>1, <2>2, <2>3
    <2>6. \A a \in Promise : /\ Outcome(heap', a) = Outcome(h, a)
                             /\ Line(heap', a) = Line(h, a) /\ Count(heap', a) = Count(h, a)
      BY <2>4, <2>5 DEF Outcome, Line, Count
    <2>7. Numbered(h)
      BY DEF Turns
    <2>8. Alike(h, heap')
      BY <2>3, <2>6, <2>7, Sources, SameLines
    <2> QED BY <1>1, <2>8, ThenAlike, TurnsSteps
  <1>4. CASE heap' = h
    BY <1>1, <1>4, TurnsSteps
  <1> QED BY <1>1, <1>2, <1>3, <1>4

LEMMA FiberStepsTurn ==
  ASSUME IInv, Numbered(heap), FiberStep
  PROVE  Steps(heap, heap') /\ phase \in UserPhase /\ phase' \notin Final
  <1> USE Arguments
  <1>1. ASSUME NEW f \in Fiber, callAsyncFunction(f)
        PROVE  Steps(heap, heap') /\ phase \in UserPhase /\ phase' \notin Final
    <2>1. /\ heap.made + 1 <= MaxPromises /\ phase \in UserPhase /\ phase' = phase
          /\ heap' = Allocate(heap, "async")
      BY <1>1 DEF callAsyncFunction, Calls, UserRuns
    <2>2. Alike(heap, heap')
      BY <2>1, NewAlike DEF Maker
    <2> QED BY <2>1, <2>2, AlikeTurns, TurnsSteps
  <1>2. ASSUME NEW v \in Argument, Await(v)
        PROVE  Steps(heap, heap') /\ phase \in UserPhase /\ phase' \notin Final
    <2> DEFINE t == [PlainTask(FALSE, v, None, FALSE) EXCEPT !.fiber = Current]
               h == IF v \in Promise
                    THEN csPromiseAddReaction(heap, v, AwaitReaction(Current))
                    ELSE csVMQueueMicrotask(heap, t)
    <2>1. UserRuns /\ InFiber /\ ToCaller(h)
      BY <1>2 DEF Await, Calls
    <2>2. Current \in Fiber
      BY <2>1, CurrentFiber
    <2>3. HeapOK(h) /\ Turns(heap, h)
      <3>1. CASE v \in Promise
        <4>1. v \in Allocated(heap)
          BY <3>1
        <4>2. AwaitReaction(Current) \in Reaction /\ RefersTo(heap, AwaitReaction(Current))
          BY <2>2, ReactionsOK
        <4> QED BY <3>1, <4>1, <4>2, AddReactionKeeps, ListenTurns DEF Keeps, Sound
      <3>2. CASE v \notin Promise
        <4>1. v \in Datum
          BY <3>2, HeapFields
        <4>2. TaskOK(heap, t) /\ t.src = None
          BY <2>2, <4>1, PlainTaskOK DEF PlainTask
        <4>3. t \in Microtask
          BY <4>2 DEF TaskOK
        <4> HIDE DEF t
        <4> QED BY <3>2, <4>2, <4>3, EnqueueKeeps, EnqueueAlike, AlikeTurns DEF Keeps, Sound
      <3> QED BY <3>1, <3>2
    <2> HIDE DEF h
    <2> QED BY <2>1, <2>3, GivingBackSteps
  <1>3. ASSUME NEW v \in Argument, FiberReturns(v)
        PROVE  Steps(heap, heap') /\ phase \in UserPhase /\ phase' \notin Final
    <2> DEFINE h == csPromiseFulfill(heap, fiber[Current].promise, v)
    <2>1. UserRuns /\ InFiber /\ ToCaller(h)
      BY <1>3 DEF FiberReturns, finishFiber
    <2>2. HeapOK(h) /\ Turns(heap, h)
      BY <2>1, CurrentFiber, FulfillKeeps, FulfillTurns DEF Keeps, Sound
    <2> HIDE DEF h
    <2> QED BY <2>1, <2>2, GivingBackSteps
  <1>4. ASSUME NEW v \in Datum, FiberThrows(v)
        PROVE  Steps(heap, heap') /\ phase \in UserPhase /\ phase' \notin Final
    <2> DEFINE h == csPromiseReject(heap, fiber[Current].promise, v)
    <2>1. UserRuns /\ InFiber /\ ToCaller(h)
      BY <1>4 DEF FiberThrows, finishFiber
    <2>2. HeapOK(h) /\ Turns(heap, h)
      BY <2>1, CurrentFiber, RejectKeeps, RejectTurns DEF Keeps, Sound
    <2> HIDE DEF h
    <2> QED BY <2>1, <2>2, GivingBackSteps
  <1> QED BY <1>1, <1>2, <1>3, <1>4 DEF FiberStep, FiberFaults

-----------------------------------------------------------------------------
(* The ends of callbacks, and the loop.                                    *)

LEMMA AlikeStops ==
  ASSUME NEW h, NEW g, Alike(h, g)
  PROVE  Stops(h, g)
  <1>1. {} \in SUBSET (Promise \X Nat) /\ Answers(h, {})
    BY DEF Answers
  <1>2. \A p \in Promise : /\ Outcome(g, p) = Outcome(h, p) /\ Count(g, p) = Count(h, p)
                           /\ \A n \in Nat : Waits(g, p, n) <=> Waits(h, p, n) /\ <<p, n>> \notin {}
    BY DEF Alike
  <1>3. Numbered(g)
    BY DEF Alike
  <1> QED BY <1>1, <1>2, <1>3 DEF Stops

(* The watchdog's list is no part of the contract.                         *)
LEMMA UnwatchedAlike ==
  ASSUME IInv, Numbered(heap), heap' = [heap EXCEPT !.watched = {}]
  PROVE  Alike(heap, heap') /\ heap'.queue = heap.queue /\ heap'.promise = heap.promise
  <1>1. heap'.made = heap.made /\ heap'.promise = heap.promise /\ heap'.queue = heap.queue
    BY Arguments DEF Heap
  <1>2. \A a \in Promise : /\ Outcome(heap', a) = Outcome(heap, a)
                           /\ Line(heap', a) = Line(heap, a) /\ Count(heap', a) = Count(heap, a)
    BY <1>1 DEF Outcome, Line, Count
  <1> QED BY <1>1, <1>2, Arguments, Sources, SameLines

LEMMA EndsSteps ==
  ASSUME IInv, Numbered(heap), CallbackEnds
  PROVE  /\ phase \in UserPhase
         /\ \/ Steps(heap, heap') /\ phase' \notin Final
            \/ Stops(heap, heap') /\ phase' = "failed"
  <1> USE Arguments
  <1>0. Steps(heap, heap) /\ Stops(heap, heap) /\ "loop" \notin Final
    BY AlikeItself, AlikeTurns, TurnsSteps, AlikeStops DEF Final
  <1>1. CASE TopReturns \/ TimerReturns
    BY <1>0, <1>1 DEF TopReturns, TimerReturns, UserRuns
  <1>2. ASSUME phase = "task" PROVE heap.queue # <<>>
    BY <1>2 DEF IInv, Control
  <1>3. ASSUME NEW v \in Argument, HandlerReturns(v)
        PROVE  phase \in UserPhase /\ Steps(heap, heap') /\ phase' \notin Final
    BY <1>0, <1>2, <1>3, HandlerReturnedSteps DEF HandlerReturns, UserRuns, HeadTask
  <1>4. ASSUME NEW v \in Value, HandlerThrows(v)
        PROVE  phase \in UserPhase /\ Steps(heap, heap') /\ phase' \notin Final
    <2> DEFINE h == csPromiseReject(heap, HeadTask.result, v)
    <2>1. /\ heap.queue # <<>> /\ HeadTask.result # None /\ phase \in UserPhase
          /\ heap' = Retire(h) /\ phase' = "loop"
      BY <1>2, <1>4 DEF HandlerThrows, UserRuns
    <2>2. HeadTask.result \in Allocated(heap)
      BY <2>1, HeadOK, TaskFields
    <2>3. HeapOK(h) /\ Turns(heap, h)
      BY <2>2, RejectKeeps, RejectTurns DEF Keeps, Sound
    <2> HIDE DEF h
    <2>4. Steps(heap, Retire(h))
      BY <2>1, <2>3, RetireSteps
    <2> QED BY <1>0, <2>1, <2>4
  <1>5. CASE Uncaught
    <2>1. /\ phase \in UserPhase /\ phase' = "failed"
          /\ \/ phase = "task" /\ heap' = Retire(heap)
             \/ heap' = heap
      BY <1>5 DEF Uncaught, UserRuns
    <2> QED BY <1>0, <1>2, <2>1, RetireStops
  <1> QED BY <1>1, <1>3, <1>4, <1>5 DEF CallbackEnds

LEMMA LoopStepsTurn ==
  ASSUME IInv, Numbered(heap), LoopStep
  PROVE  /\ phase \notin Final
         /\ \/ Steps(heap, heap') /\ phase' \notin Final
            \/ Stops(heap, heap') /\ phase' = "failed"
            \/ Alike(heap, heap') /\ phase' = "exit" /\ heap.queue = <<>>
  <1> USE Arguments
  <1>0. Steps(heap, heap) /\ "loop" \notin Final /\ "task" \notin Final /\ "timer" \notin Final
    BY AlikeItself, AlikeTurns, TurnsSteps DEF Final
  <1>1. CASE RunTask
    <2>1. heap.queue # <<>> /\ phase = "loop" /\ TaskOK(heap, HeadTask)
      BY <1>1, HeadOK DEF RunTask
    <2>2. CASE phase' = "task" /\ heap' = heap
      BY <1>0, <2>1, <2>2
    <2>3. CASE phase' = phase /\ HeadTask.combine # None /\ heap' = Retire(runCombine(heap, HeadTask))
      <3> DEFINE h == runCombine(heap, HeadTask)
      <3>1. HeapOK(h) /\ Turns(heap, h)
        BY <2>1, <2>3, runCombineKeeps, runCombineTurns DEF Keeps, Sound
      <3> HIDE DEF h
      <3>2. Steps(heap, Retire(h))
        BY <2>1, <3>1, RetireSteps
      <3> QED BY <1>0, <2>1, <2>3, <3>2 DEF h
    <2>4. CASE phase' = phase /\ heap' = Retire(PassThrough(heap, HeadTask))
      BY <1>0, <2>1, <2>4, PassThroughSteps DEF HeadTask
    <2> QED BY <1>1, <2>2, <2>3, <2>4 DEF RunTask
  <1>2. CASE csVMResumeFiber
    <2>1. /\ heap.queue # <<>> /\ phase = "loop"
          /\ \/ phase' = "task" /\ heap' = heap
             \/ phase' = phase /\ heap' = Retire(heap)
      BY <1>2 DEF csVMResumeFiber
    <2> QED BY <1>0, <2>1, RetireStops, StopsSteps
  <1>3. CASE reportUnhandledRejections
    BY <1>0, <1>3, UnwatchedAlike, AlikeStops DEF reportUnhandledRejections, Drained
  <1>4. CASE FireTimer
    BY <1>0, <1>4, UnwatchedAlike, AlikeTurns, TurnsSteps DEF FireTimer, Drained
  <1>5. CASE LoopEnds
    BY <1>0, <1>5, UnwatchedAlike, AlikeStops DEF LoopEnds, Drained
  <1> QED BY <1>1, <1>2, <1>3, <1>4, <1>5 DEF LoopStep

-----------------------------------------------------------------------------
(* The contract's state, read off the heap.                                *)

Lists(h) ==
  (UNION {{<<p, h.promise[p].reactions[i].id>> : i \in DOMAIN h.promise[p].reactions} : p \in Promise})
  \cup {<<h.queue[i].src, h.queue[i].id>> : i \in {j \in DOMAIN h.queue : h.queue[j].src # None}}

(* The listeners of a heap are those that wait.                            *)
LEMMA ListsAre ==
  ASSUME NEW h, HeapOK(h)
  PROVE  /\ Lists(h) \subseteq Promise \X Nat
         /\ \A p \in Promise, n \in Nat : <<p, n>> \in Lists(h) <=> Waits(h, p, n)
  <1> DEFINE onLists == UNION {{<<p, Line(h, p)[i].id>> : i \in DOMAIN Line(h, p)} : p \in Promise}
             inQueue == {<<h.queue[i].src, h.queue[i].id>> :
                           i \in {j \in DOMAIN h.queue : h.queue[j].src # None}}
  <1>1. /\ DOMAIN h.queue = 1 .. Len(h.queue)
        /\ \A p \in Promise : DOMAIN Line(h, p) = 1 .. Len(Line(h, p))
    BY Sources
  <1>2. Lists(h) = onLists \cup inQueue
    BY DEF Lists, Line
  <1>3. \A p \in Promise : \A i \in 1 .. Len(Line(h, p)) : Line(h, p)[i].id \in Nat
    <2> SUFFICES ASSUME NEW p \in Promise, NEW i \in 1 .. Len(Line(h, p))
                 PROVE  Line(h, p)[i].id \in Nat
      OBVIOUS
    <2>1. Line(h, p)[i] \in Reaction
      BY Sources
    <2> QED BY <2>1 DEF Reaction
  <1>4. onLists \subseteq Promise \X Nat
    BY <1>1, <1>3
  <1>5. inQueue \subseteq Promise \X Nat
    BY <1>1, Sources
  <1>6. \A p \in Promise, n \in Nat :
          <<p, n>> \in onLists <=> \E i \in 1 .. Len(Line(h, p)) : Line(h, p)[i].id = n
    BY <1>1
  <1>7. \A p \in Promise, n \in Nat :
          <<p, n>> \in inQueue <=> \E i \in 1 .. Len(h.queue) : h.queue[i].src = p /\ h.queue[i].id = n
    BY <1>1, Sources
  <1> HIDE DEF onLists, inQueue
  <1> QED BY <1>2, <1>4, <1>5, <1>6, <1>7 DEF Waits

(* What the contract calls settled.                                        *)
LEMMA HasSettledIs ==
  ASSUME NEW h, Numbered(h), NEW p \in Promise
  PROVE  Outcome(h, p) # [state |-> "pending", value |-> Undefined] <=> ~Pending(h, p)
  <1>1. CASE Pending(h, p)
    BY <1>1 DEF Numbered, Outcome, Pending
  <1>2. CASE ~Pending(h, p)
    BY <1>2 DEF Outcome, Pending
  <1> QED BY <1>1, <1>2

(* Answering the listeners in `gone`, and none new.                        *)
LEMMA NoneAdded ==
  ASSUME NEW h, HeapOK(h), NEW g, HeapOK(g), NEW gone,
         \A p \in Promise, n \in Nat : Waits(g, p, n) <=> Waits(h, p, n) /\ <<p, n>> \notin gone
  PROVE  Lists(g) = Lists(h) \ gone
  <1>1. \A p \in Promise, n \in Nat : <<p, n>> \in Lists(g) <=> <<p, n>> \in Lists(h) \ gone
    BY ListsAre
  <1>2. Lists(g) \subseteq Promise \X Nat /\ Lists(h) \ gone \subseteq Promise \X Nat
    BY ListsAre
  <1> HIDE DEF Lists
  <1> QED BY <1>1, <1>2

(* Answering those, and one new.                                           *)
Joins(h, g, gone, q, m) ==
  \A p \in Promise, n \in Nat :
    Waits(g, p, n) <=> (Waits(h, p, n) /\ <<p, n>> \notin gone) \/ (p = q /\ n = m)

LEMMA OneAdded ==
  ASSUME HeapOK(heap), HeapOK(heap'), NEW gone, NEW q \in Promise, NEW m \in Nat,
         Joins(heap, heap', gone, q, m)
  PROVE  Lists(heap') = (Lists(heap) \ gone) \cup {<<q, m>>}
  <1> DEFINE new == (Lists(heap) \ gone) \cup {<<q, m>>}
  <1>1. \A p \in Promise, n \in Nat : <<p, n>> \in Lists(heap') <=> <<p, n>> \in new
    BY ListsAre DEF Joins
  <1>2. Lists(heap') \subseteq Promise \X Nat /\ new \subseteq Promise \X Nat
    BY ListsAre
  <1> HIDE DEF Lists, new
  <1>3. Lists(heap') = new
    BY <1>1, <1>2
  <1> QED BY <1>3 DEF new

-----------------------------------------------------------------------------
(* Each step is one the contract allows.                                   *)

(* The contract's listeners are those of the heap.                         *)
LEMMA ListenersAre == Listeners = Lists(heap) /\ Listeners' = Lists(heap')
  BY DEF Listeners, Lists

LEMMA AnswersOK ==
  ASSUME HeapOK(heap), Numbered(heap), NEW gone, Answers(heap, gone)
  PROVE  gone \in {{}} \cup {{l} : l \in Contract!Answerable}
  <1>1. CASE gone = {}
    BY <1>1
  <1>2. ASSUME NEW p \in Promise, NEW n \in Nat, gone = {<<p, n>>},
               Waits(heap, p, n), ~Pending(heap, p)
        PROVE  gone \in {{}} \cup {{l} : l \in Contract!Answerable}
    <2>1. <<p, n>> \in Listeners
      BY <1>2, ListsAre, ListenersAre
    <2>2. Outcome(heap, p) # [state |-> "pending", value |-> Undefined]
      BY <1>2, HasSettledIs
    <2>3. <<p, n>> \in Contract!Answerable
      BY <2>1, <2>2 DEF Contract!Answerable, Contract!HasSettled
    <2> QED BY <1>2, <2>3
  <1> QED BY <1>1, <1>2 DEF Answers

LEMMA TurnAllowed ==
  ASSUME HeapOK(heap), HeapOK(heap'), Numbered(heap), Steps(heap, heap'),
         phase \notin Final, phase' \notin Final
  PROVE  Contract!Turn
  <1>1. PICK gone : Answers(heap, gone) /\ Hears(heap, heap', gone)
    BY DEF Steps
  <1>2. Contract!Settling
    <2>1. CASE \A p \in Promise : Outcome(heap', p) = Outcome(heap, p)
      BY <2>1 DEF Contract!Settling
    <2>2. ASSUME NEW q \in Promise, NEW o \in [state : Settled, value : Datum],
                 Pending(heap, q),
                 \A p \in Promise : Outcome(heap', p) = IF p = q THEN o ELSE Outcome(heap, p)
          PROVE  Contract!Settling
      <3>1. ~Contract!HasSettled(q)
        BY <2>2, HasSettledIs DEF Contract!HasSettled
      <3>2. [p \in Promise |-> Outcome(heap', p)]
              = [[p \in Promise |-> Outcome(heap, p)] EXCEPT ![q] = o]
        BY <2>2
      <3> QED BY <3>1, <3>2 DEF Contract!Settling
    <2> QED BY <2>1, <2>2 DEF Steps, Settles
  <1>3. Contract!Listening
    <2>1. gone \in {{}} \cup {{l} : l \in Contract!Answerable}
      BY <1>1, AnswersOK
    <2>2. CASE \A p \in Promise :
                 /\ Count(heap', p) = Count(heap, p)
                 /\ \A n \in Nat : Waits(heap', p, n) <=> Waits(heap, p, n) /\ <<p, n>> \notin gone
      <3>1. Listeners' = Listeners \ gone
        BY <2>2, NoneAdded, ListenersAre
      <3>2. [p \in Promise |-> heap'.promise[p].listeners] = [p \in Promise |-> heap.promise[p].listeners]
        BY <2>2 DEF Count
      <3> QED BY <2>1, <3>1, <3>2 DEF Contract!Listening
    <2>3. ASSUME NEW q \in Promise, \A p \in Promise :
                 /\ Count(heap', p) = IF p = q THEN Count(heap, p) + 1 ELSE Count(heap, p)
                 /\ \A n \in Nat : Waits(heap', p, n) <=> \/ Waits(heap, p, n) /\ <<p, n>> \notin gone
                                                          \/ p = q /\ n = Count(heap, p) + 1
          PROVE  Contract!Listening
      <3> DEFINE asked == [p \in Promise |-> heap.promise[p].listeners]
      <3>1. PICK m \in Nat : m = Count(heap, q) + 1
        <4>1. Count(heap, q) \in Nat
          BY Sources
        <4> QED BY <4>1
      <3>2. Joins(heap, heap', gone, q, m)
        BY <2>3, <3>1 DEF Joins
      <3>3. Listeners' = (Listeners \ gone) \cup {<<q, m>>}
        <4>1. Lists(heap') = (Lists(heap) \ gone) \cup {<<q, m>>}
          BY <3>2, OneAdded
        <4> QED BY <4>1, ListenersAre
      <3>4. [p \in Promise |-> heap'.promise[p].listeners] = [asked EXCEPT ![q] = @ + 1]
        BY <2>3 DEF Count
      <3>5. asked[q] + 1 = m
        BY <3>1 DEF Count
      <3> QED BY <2>1, <3>3, <3>4, <3>5 DEF Contract!Listening
    <2> QED BY <1>1, <2>2, <2>3 DEF Hears
  <1> QED BY <1>2, <1>3 DEF Contract!Turn

LEMMA FailAllowed ==
  ASSUME HeapOK(heap), HeapOK(heap'), Numbered(heap), Stops(heap, heap'),
         phase \notin Final, phase' = "failed"
  PROVE  Contract!Fail
  <1>1. PICK gone : /\ Answers(heap, gone)
                    /\ \A p \in Promise :
                         /\ Outcome(heap', p) = Outcome(heap, p) /\ Count(heap', p) = Count(heap, p)
                         /\ \A n \in Nat : Waits(heap', p, n) <=> Waits(heap, p, n) /\ <<p, n>> \notin gone
    BY DEF Stops
  <1>2. gone \in {{}} \cup {{l} : l \in Contract!Answerable}
    BY <1>1, AnswersOK
  <1>3. Listeners' = Listeners \ gone
    BY <1>1, NoneAdded, ListenersAre
  <1>4. /\ [p \in Promise |-> heap'.promise[p].listeners] = [p \in Promise |-> heap.promise[p].listeners]
        /\ [p \in Promise |-> Outcome(heap', p)] = [p \in Promise |-> Outcome(heap, p)]
    BY <1>1 DEF Count
  <1> QED BY <1>2, <1>3, <1>4 DEF Contract!Fail, Final

LEMMA FinishAllowed ==
  ASSUME HeapOK(heap), HeapOK(heap'), Numbered(heap), Alike(heap, heap'),
         phase \notin Final, phase' = "exit", heap.queue = <<>>
  PROVE  Contract!Finish
  <1>1. Listeners' = Listeners
    <2>1. Lists(heap') = Lists(heap) \ {}
      BY NoneAdded DEF Alike
    <2> QED BY <2>1, ListenersAre
  <1>2. /\ [p \in Promise |-> heap'.promise[p].listeners] = [p \in Promise |-> heap.promise[p].listeners]
        /\ [p \in Promise |-> Outcome(heap', p)] = [p \in Promise |-> Outcome(heap, p)]
    BY DEF Alike, Count
  <1>3. Contract!Answerable = {}
    <2> SUFFICES ASSUME NEW l \in Listeners, Contract!HasSettled(l[1]) PROVE FALSE
      BY DEF Contract!Answerable
    <2>1. PICK p \in Promise, n \in Nat : l = <<p, n>>
      BY ListsAre, ListenersAre
    <2>2. Waits(heap, p, n)
      BY <2>1, ListsAre, ListenersAre
    <2>3. ~Pending(heap, p)
      BY <2>1, HasSettledIs DEF Contract!HasSettled
    <2>4. Line(heap, p) = <<>>
      BY <2>3 DEF HeapOK, NoneWaitsOnSettled, Line
    <2> QED BY <2>2, <2>4 DEF Waits
  <1> QED BY <1>1, <1>2, <1>3 DEF Contract!Finish, Final

-----------------------------------------------------------------------------
(* The theorems.                                                           *)

(* The heap's listeners are numbered, and each waits in one place.         *)
Listened == Numbered(heap)

LEMMA InitNumbered == Init => Listened /\ Contract!Init
  <1> SUFFICES ASSUME Init PROVE Listened /\ Contract!Init
    OBVIOUS
  <1>1. Numbered(EmptyHeap)
    BY DEF Numbered, EmptyHeap, csPromiseNew, Line, Count
  <1>2. Numbered(heap)
    <2>1. CASE InitAsync
      <3>1. EmptyHeap.made + 1 <= MaxPromises
        BY <2>1, EmptyHeapOK, PromisesAssumption DEF InitAsync, Promise
      <3>2. Alike(EmptyHeap, heap)
        BY <1>1, <2>1, <3>1, EmptyHeapOK, AllocateAlike DEF InitAsync, Maker
      <3> QED BY <3>2 DEF Alike
    <2>2. CASE InitPlain
      BY <1>1, <2>2 DEF InitPlain
    <2> QED BY <2>1, <2>2 DEF Init
  <1>3. /\ \A p \in Promise : /\ Outcome(heap, p) = [state |-> "pending", value |-> Undefined]
                              /\ heap.promise[p].listeners = 0 /\ Line(heap, p) = <<>>
        /\ heap.queue = <<>>
    <2> DEFINE o == [state |-> "pending", value |-> Undefined]
    <2>1. /\ \A p \in Promise : /\ Outcome(EmptyHeap, p) = o
                                /\ EmptyHeap.promise[p] = csPromiseNew("program")
          /\ EmptyHeap.queue = <<>> /\ EmptyHeap.made = 0
      BY DEF EmptyHeap, Outcome, csPromiseNew
    <2>2. CASE InitPlain
      BY <2>1, <2>2 DEF InitPlain, csPromiseNew, Line
    <2>3. CASE InitAsync
      <3>1. EmptyHeap \in Heap /\ EmptyHeap.promise \in [Promise -> ObjPromise]
        BY EmptyHeapOK, HeapFields DEF HeapOK
      <3>2. /\ heap.queue = <<>>
            /\ heap.promise = [EmptyHeap.promise EXCEPT ![1] = csPromiseNew("async")]
            /\ 1 \in Promise
        BY <2>1, <2>3, <3>1 DEF InitAsync, Allocate, Fresh, Heap
      <3>3. \A p \in Promise : heap.promise[p] = csPromiseNew("async")
                               \/ heap.promise[p] = csPromiseNew("program")
        BY <2>1, <3>1, <3>2
      <3> QED BY <3>2, <3>3 DEF csPromiseNew, Outcome, Line
    <2> QED BY <2>2, <2>3 DEF Init
  <1>4. Listeners = {}
    <2>1. \A p \in Promise, n \in Nat : ~Waits(heap, p, n)
      BY <1>3 DEF Waits
    <2>2. HeapOK(heap)
      BY InitOK DEF IInv
    <2> QED BY <2>1, <2>2, ListsAre, ListenersAre
  <1>5. phase \notin Final
    BY DEF Init, Final
  <1> QED BY <1>2, <1>3, <1>4, <1>5 DEF Listened, Contract!Init

(* A step keeps the listeners' numbering, and is one of the contract's.    *)
LEMMA NextAllowed ==
  ASSUME IInv, Listened, [Next]_vars
  PROVE  Listened' /\ [Contract!Next]_(Contract!vars)
  <1>0. /\ HeapOK(heap) /\ HeapOK(heap') /\ Numbered(heap)
        /\ UserPhase \cap Final = {}
    BY NextOK DEF IInv, Listened, UserPhase, Final
  <1>1. ASSUME Steps(heap, heap'), phase \notin Final, phase' \notin Final
        PROVE  Listened' /\ [Contract!Next]_(Contract!vars)
    BY <1>0, <1>1, TurnAllowed DEF Steps, Listened, Contract!Next
  <1>2. ASSUME Stops(heap, heap'), phase \notin Final, phase' = "failed"
        PROVE  Listened' /\ [Contract!Next]_(Contract!vars)
    BY <1>0, <1>2, FailAllowed DEF Stops, Listened, Contract!Next
  <1>3. ASSUME Alike(heap, heap'), phase \notin Final, phase' = "exit", heap.queue = <<>>
        PROVE  Listened' /\ [Contract!Next]_(Contract!vars)
    BY <1>0, <1>3, FinishAllowed DEF Alike, Listened, Contract!Next
  <1>4. ASSUME heap' = heap, phase' = phase
        PROVE  Listened' /\ [Contract!Next]_(Contract!vars)
    BY <1>0, <1>4 DEF Listened, Contract!vars, Listeners
  <1>5. CASE PromiseCall
    <2>1. Turns(heap, heap') /\ phase \in UserPhase /\ phase' = phase
      BY <1>0, <1>5, SettleCallsTurn, ListenCallsTurn, QueueCallsTurn, CombineCallsTurn
         DEF PromiseCall, UserRuns
    <2> QED BY <1>0, <1>1, <2>1, TurnsSteps
  <1>6. CASE TimerCall
    <2>1. heap' = heap /\ phase' = phase
      BY <1>6, TimerCalls DEF TimerCall, scheduleTimer, clearTimeoutNative, Slow
    <2> QED BY <1>4, <2>1
  <1>7. CASE FiberStep
    BY <1>0, <1>1, <1>7, FiberStepsTurn
  <1>8. CASE CallbackEnds
    BY <1>0, <1>1, <1>2, <1>8, EndsSteps
  <1>9. CASE LoopStep
    BY <1>0, <1>1, <1>2, <1>3, <1>9, LoopStepsTurn
  <1>10. CASE UNCHANGED vars
    BY <1>4, <1>10 DEF vars
  <1> QED BY <1>5, <1>6, <1>7, <1>8, <1>9, <1>10 DEF Next, Ended

(* Whatever the reactions, the queue, the fibers and the loop do, a step   *)
(* of the run is a step the contract allows: a promise settles once, and   *)
(* each listener is answered once, after that (settle,                     *)
(* csPromiseAddReaction, drainMicrotasks, runMicrotask).                   *)
THEOREM ImplementsContract == Spec => KeepsContract
  <1>1. Init => Listened /\ Contract!Init
    BY InitNumbered
  <1>2. IInv /\ Listened /\ [Next]_vars => Listened' /\ [Contract!Next]_(Contract!vars)
    BY NextAllowed
  <1> QED BY Invariance, <1>1, <1>2, PTL DEF Spec, KeepsContract, Contract!Spec

-----------------------------------------------------------------------------
(* Who waits, and where.                                                   *)

(* The lists that reactions and microtasks stand on: the queue is at None. *)
Rows == Promise \cup {None}
Row(h, a) == IF a = None THEN h.queue ELSE Line(h, a)

(* Whom an entry will wake, settle or feed.                                *)
Route(w) == [fiber |-> w.fiber, result |-> w.result, combine |-> w.combine, index |-> w.index]

(* Entry i of row a leads into T.  The first s of the queue do not count.  *)
Meets(h, s, T, a, i) ==
  /\ a \in Rows /\ i \in 1 .. Len(Row(h, a))
  /\ a = None => i > s
  /\ Route(Row(h, a)[i]) \in T

Nowhere(h, s, T) == \A a \in Rows, i \in Nat : ~Meets(h, s, T, a, i)
Once(h, s, T) ==
  \E a \in Rows, i \in Nat :
    Meets(h, s, T, a, i) /\ \A b \in Rows, j \in Nat : Meets(h, s, T, b, j) => b = a /\ j = i

(* g has the entries of h, and one more that leads into A if A is not      *)
(* empty.                                                                  *)
Gains(h, g, s, T, A) ==
  /\ A \cap T = {} => /\ Nowhere(h, s, T) => Nowhere(g, s, T)
                      /\ Once(h, s, T) => Once(g, s, T)
  /\ A \cap T # {} => (Nowhere(h, s, T) => Once(g, s, T))

(* The rows of a heap are finite.                                          *)
RowsOK(h) == \A a \in Rows : Len(Row(h, a)) \in Nat

-----------------------------------------------------------------------------
(* What the four changes to a row do to who waits where.                   *)

LEMMA SameRows ==
  ASSUME NEW h, NEW g, NEW s \in Nat, NEW T, \A a \in Rows : Row(g, a) = Row(h, a)
  PROVE  Gains(h, g, s, T, {})
  <1>1. \A a \in Rows, i \in Nat : Meets(g, s, T, a, i) <=> Meets(h, s, T, a, i)
    BY DEF Meets
  <1> QED BY <1>1 DEF Gains, Nowhere, Once

(* Row r has a new last entry w.                                           *)
LEMMA LongerRow ==
  ASSUME NEW h, RowsOK(h), NEW g, NEW r \in Rows, NEW w, NEW s \in Nat, NEW T,
         s <= Len(Row(h, None)),
         \A a \in Rows : a # r => Row(g, a) = Row(h, a),
         Len(Row(g, r)) = Len(Row(h, r)) + 1,
         \A i \in 1 .. Len(Row(h, r)) : Row(g, r)[i] = Row(h, r)[i],
         Row(g, r)[Len(Row(h, r)) + 1] = w
  PROVE  Gains(h, g, s, T, {Route(w)})
  <1> DEFINE n == Len(Row(h, r)) + 1
  <1>1. n \in Nat /\ n \notin 1 .. Len(Row(h, r)) /\ 1 .. n = (1 .. Len(Row(h, r))) \cup {n}
    BY DEF RowsOK
  <1>2. r = None => n > s
    BY <1>1 DEF RowsOK
  <1>3. Len(Row(g, r)) = n /\ Row(g, r)[n] = w
    OBVIOUS
  <1> HIDE DEF n
  <1>4. ASSUME NEW a \in Rows, NEW i \in Nat
        PROVE  Meets(g, s, T, a, i) <=> \/ Meets(h, s, T, a, i)
                                        \/ a = r /\ i = n /\ Route(w) \in T
    <2>1. CASE a # r
      BY <2>1 DEF Meets
    <2>2. CASE a = r
      <3>1. CASE i = n
        BY <1>1, <1>2, <1>3, <2>2, <3>1 DEF Meets
      <3>2. CASE i # n
        BY <1>1, <1>3, <2>2, <3>2 DEF Meets
      <3> QED BY <3>1, <3>2
    <2> QED BY <2>1, <2>2
  <1>5. CASE Route(w) \in T
    <2>1. Nowhere(h, s, T) => Once(g, s, T)
      BY <1>1, <1>4, <1>5 DEF Nowhere, Once
    <2> QED BY <1>5, <2>1 DEF Gains
  <1>6. CASE Route(w) \notin T
    <2>1. \A a \in Rows, i \in Nat : Meets(g, s, T, a, i) <=> Meets(h, s, T, a, i)
      BY <1>4, <1>6
    <2> QED BY <1>6, <2>1 DEF Gains, Nowhere, Once
  <1> QED BY <1>5, <1>6

(* The entries of row p move to the end of the queue.                      *)
LEMMA MovedRow ==
  ASSUME NEW h, RowsOK(h), NEW g, NEW p \in Promise, NEW s \in Nat, NEW T,
         s <= Len(Row(h, None)),
         \A a \in Promise : a # p => Row(g, a) = Row(h, a),
         Len(Row(g, p)) = 0,
         Len(Row(g, None)) = Len(Row(h, None)) + Len(Row(h, p)),
         \A i \in 1 .. Len(Row(h, None)) : Row(g, None)[i] = Row(h, None)[i],
         \A i \in 1 .. Len(Row(h, p)) :
           Route(Row(g, None)[Len(Row(h, None)) + i]) = Route(Row(h, p)[i])
  PROVE  Gains(h, g, s, T, {})
  <1> DEFINE n == Len(Row(h, None))
             m == Len(Row(h, p))
  <1>1. /\ n \in Nat /\ m \in Nat /\ p # None /\ None \in Rows /\ p \in Rows
        /\ Len(Row(g, None)) = n + m
        /\ \A i \in 1 .. m : n + i \in 1 .. n + m /\ n + i \notin 1 .. n /\ n + i > s
        /\ \A i \in 1 .. n : i \in 1 .. n + m
        /\ \A j \in 1 .. n + m : j \in 1 .. n \/ (j - n \in 1 .. m /\ n + (j - n) = j)
    BY PromisesAssumption DEF RowsOK, Rows, Promise, None
  <1> HIDE DEF n, m
  <1>2. \A i \in 1 .. n : Row(g, None)[i] = Row(h, None)[i]
    BY DEF n
  <1>3. \A i \in 1 .. m : Route(Row(g, None)[n + i]) = Route(Row(h, p)[i])
    BY DEF n, m
  <1>4. \A a \in Promise, i \in Nat : a # p => (Meets(g, s, T, a, i) <=> Meets(h, s, T, a, i))
    BY PromisesAssumption DEF Meets, Promise, None
  <1>5. \A i \in Nat : ~Meets(g, s, T, p, i)
    BY DEF Meets
  <1>6. \A i \in 1 .. n : Meets(g, s, T, None, i) <=> Meets(h, s, T, None, i)
    BY <1>1, <1>2 DEF Meets, n
  <1>7. \A i \in 1 .. m : Meets(g, s, T, None, n + i) <=> Meets(h, s, T, p, i)
    BY <1>1, <1>3 DEF Meets, m
  <1>8. /\ \A i \in Nat : Meets(g, s, T, None, i) => i \in 1 .. n + m
        /\ \A i \in Nat : Meets(h, s, T, None, i) => i \in 1 .. n
        /\ \A i \in Nat : Meets(h, s, T, p, i) => i \in 1 .. m
    BY <1>1 DEF Meets, n, m
  <1>9. Nowhere(h, s, T) => Nowhere(g, s, T)
    <2> SUFFICES ASSUME Nowhere(h, s, T), NEW a \in Rows, NEW i \in Nat, Meets(g, s, T, a, i)
                 PROVE  FALSE
      BY DEF Nowhere
    <2>1. CASE a = None
      <3>1. CASE i \in 1 .. n
        BY <1>6, <2>1, <3>1 DEF Nowhere
      <3>2. CASE i \notin 1 .. n
        <4>1. i - n \in 1 .. m /\ n + (i - n) = i
          BY <1>1, <1>8, <2>1, <3>2
        <4>2. Meets(h, s, T, p, i - n)
          BY <1>7, <2>1, <4>1
        <4> QED BY <1>1, <4>1, <4>2 DEF Nowhere
      <3> QED BY <3>1, <3>2
    <2>2. CASE a # None
      BY <1>4, <1>5, <2>2 DEF Rows, Nowhere
    <2> QED BY <2>1, <2>2
  <1>10. ASSUME Once(h, s, T) PROVE Once(g, s, T)
    <2>1. PICK a \in Rows, i \in Nat :
            /\ Meets(h, s, T, a, i)
            /\ \A b \in Rows, j \in Nat : Meets(h, s, T, b, j) => b = a /\ j = i
      BY <1>10 DEF Once
    <2>2. ASSUME NEW b \in Rows, NEW j \in Nat, Meets(g, s, T, b, j)
          PROVE  IF a = p THEN b = None /\ j = n + i ELSE b = a /\ j = i
      <3>1. CASE b = None /\ j \in 1 .. n
        <4>1. Meets(h, s, T, None, j)
          BY <1>6, <2>2, <3>1
        <4> QED BY <1>1, <2>1, <3>1, <4>1
      <3>2. CASE b = None /\ j \notin 1 .. n
        <4>1. j - n \in 1 .. m /\ n + (j - n) = j
          BY <1>1, <1>8, <2>2, <3>2
        <4>2. Meets(h, s, T, p, j - n)
          BY <1>7, <2>2, <3>2, <4>1
        <4>3. a = p /\ j - n = i
          BY <1>1, <2>1, <4>1, <4>2
        <4> QED BY <3>2, <4>1, <4>3
      <3>3. CASE b # None
        <4>1. b \in Promise /\ b # p
          BY <1>5, <2>2, <3>3 DEF Rows
        <4>2. Meets(h, s, T, b, j)
          BY <1>4, <2>2, <4>1
        <4> QED BY <2>1, <4>1, <4>2
      <3> QED BY <3>1, <3>2, <3>3
    <2>3. CASE a = p
      <3>1. i \in 1 .. m /\ n + i \in Nat
        BY <1>1, <1>8, <2>1, <2>3
      <3>2. Meets(g, s, T, None, n + i)
        BY <1>7, <2>1, <2>3, <3>1
      <3> QED BY <1>1, <2>2, <2>3, <3>1, <3>2 DEF Once
    <2>4. CASE a # p
      <3>1. Meets(g, s, T, a, i)
        BY <1>4, <1>6, <1>8, <2>1, <2>4 DEF Rows
      <3> QED BY <2>2, <2>4, <3>1 DEF Once
    <2> QED BY <2>3, <2>4
  <1> QED BY <1>9, <1>10 DEF Gains

(* The task at the head stops counting.                                    *)
LEMMA HeadLeft ==
  ASSUME NEW h, RowsOK(h), Len(h.queue) > 0, NEW T
  PROVE  /\ Nowhere(h, 0, T) => Nowhere(h, 1, T)
         /\ Route(h.queue[1]) \notin T /\ Once(h, 0, T) => Once(h, 1, T)
         /\ Route(h.queue[1]) \in T /\ Once(h, 0, T) => Nowhere(h, 1, T)
         /\ Route(h.queue[1]) \in T => ~Nowhere(h, 0, T)
  <1>1. None \in Rows /\ Row(h, None) = h.queue /\ Len(h.queue) \in Nat /\ 1 \in 1 .. Len(h.queue)
    <2>1. None \in Rows /\ Row(h, None) = h.queue
      BY DEF Rows, Row
    <2> QED BY <2>1 DEF RowsOK
  <1>2. ASSUME NEW a \in Rows, NEW i \in Nat
        PROVE  Meets(h, 1, T, a, i) <=> Meets(h, 0, T, a, i) /\ ~(a = None /\ i = 1)
    BY DEF Meets
  <1>3. Meets(h, 0, T, None, 1) <=> Route(h.queue[1]) \in T
    BY <1>1 DEF Meets
  <1> QED BY <1>1, <1>2, <1>3 DEF Nowhere, Once

(* Then it retires.                                                        *)
LEMMA HeadRetired ==
  ASSUME NEW h, RowsOK(h), Len(h.queue) > 0, NEW g, NEW T,
         \A a \in Promise : Row(g, a) = Row(h, a),
         Len(g.queue) = Len(h.queue) - 1,
         \A i \in 1 .. Len(h.queue) - 1 : g.queue[i] = h.queue[i + 1]
  PROVE  /\ Nowhere(h, 1, T) => Nowhere(g, 0, T)
         /\ Once(h, 1, T) => Once(g, 0, T)
  <1> DEFINE n == Len(h.queue)
  <1>1. None \in Rows /\ Row(h, None) = h.queue /\ Row(g, None) = g.queue /\ n \in Nat /\ n > 0
    <2>1. None \in Rows /\ Row(h, None) = h.queue /\ Row(g, None) = g.queue
      BY DEF Rows, Row
    <2> QED BY <2>1 DEF RowsOK
  <1>2. Len(g.queue) = n - 1 /\ Len(h.queue) = n /\ \A i \in 1 .. n - 1 : g.queue[i] = h.queue[i + 1]
    OBVIOUS
  <1> HIDE DEF n
  <1>3. \A a \in Promise, i \in Nat : Meets(g, 0, T, a, i) <=> Meets(h, 1, T, a, i)
    BY PromisesAssumption DEF Meets, Promise, None
  <1>4. \A i \in Nat : Meets(g, 0, T, None, i) => /\ i \in 1 .. n - 1 /\ i + 1 \in Nat
                                                 /\ Meets(h, 1, T, None, i + 1)
    BY <1>1, <1>2 DEF Meets
  <1>5. \A i \in Nat : Meets(h, 1, T, None, i) => /\ i - 1 \in 1 .. n - 1
                                                 /\ Meets(g, 0, T, None, i - 1)
    <2> SUFFICES ASSUME NEW i \in Nat, Meets(h, 1, T, None, i)
                 PROVE  i - 1 \in 1 .. n - 1 /\ Meets(g, 0, T, None, i - 1)
      OBVIOUS
    <2>1. i \in 1 .. n /\ i > 1 /\ Route(h.queue[i]) \in T
      BY <1>1, <1>2 DEF Meets
    <2>2. i - 1 \in 1 .. n - 1 /\ (i - 1) + 1 = i
      BY <1>1, <2>1
    <2>3. g.queue[i - 1] = h.queue[i]
      BY <1>2, <2>2
    <2> QED BY <1>1, <1>2, <2>1, <2>2, <2>3 DEF Meets
  <1>6. Nowhere(h, 1, T) => Nowhere(g, 0, T)
    BY <1>1, <1>3, <1>4 DEF Nowhere, Rows
  <1>7. ASSUME Once(h, 1, T) PROVE Once(g, 0, T)
    <2>1. PICK a \in Rows, i \in Nat :
            /\ Meets(h, 1, T, a, i)
            /\ \A b \in Rows, j \in Nat : Meets(h, 1, T, b, j) => b = a /\ j = i
      BY <1>7 DEF Once
    <2>2. CASE a = None
      <3>1. i - 1 \in Nat /\ Meets(g, 0, T, None, i - 1)
        BY <1>1, <1>5, <2>1, <2>2
      <3>2. ASSUME NEW b \in Rows, NEW j \in Nat, Meets(g, 0, T, b, j)
            PROVE  b = None /\ j = i - 1
        <4>1. CASE b = None
          <5>1. j + 1 = i
            BY <1>1, <1>4, <2>1, <3>2, <4>1
          <5> QED BY <4>1, <5>1
        <4>2. CASE b # None
          BY <1>3, <2>1, <2>2, <3>2, <4>2 DEF Rows
        <4> QED BY <4>1, <4>2
      <3> QED BY <1>1, <3>1, <3>2 DEF Once
    <2>3. CASE a # None
      <3>1. a \in Promise /\ Meets(g, 0, T, a, i)
        BY <1>3, <2>1, <2>3 DEF Rows
      <3>2. ASSUME NEW b \in Rows, NEW j \in Nat, Meets(g, 0, T, b, j)
            PROVE  b = a /\ j = i
        <4>1. CASE b = None
          BY <1>1, <1>4, <2>1, <2>3, <3>2, <4>1
        <4>2. CASE b # None
          BY <1>3, <2>1, <3>2, <4>2 DEF Rows
        <4> QED BY <4>1, <4>2
      <3> QED BY <3>1, <3>2 DEF Once
    <2> QED BY <2>2, <2>3
  <1> QED BY <1>6, <1>7

-----------------------------------------------------------------------------
(* What is kept of the rows.                                               *)

(* An entry of one kind only: it wakes an async call, feeds a combinator   *)
(* or passes through a promise, and only the last may run a handler.       *)
KindOK(h, w, handles) ==
  /\ w.fiber # None => w.result = None /\ w.combine = None /\ ~handles
  /\ w.combine # None => w.result = None /\ ~handles /\ h.combine[w.combine].mode # "none"
LineKinds(h) ==
  \A p \in Promise : \A i \in 1 .. Len(Line(h, p)) :
    KindOK(h, Line(h, p)[i], Line(h, p)[i].onFulfilled \/ Line(h, p)[i].onRejected)
QueueKinds(h) == \A i \in 1 .. Len(h.queue) : KindOK(h, h.queue[i], h.queue[i].callback)
CombinersMade(h) ==
  \A p \in Promise : h.combine[p].mode # "none" => p <= h.made /\ h.promise[p].maker = "combinator"

(* Listeners stand in the order they came: on the list of their promise,   *)
(* and in the queue while they still have a handler to run.                *)
LinesInOrder(h) ==
  \A p \in Promise : \A i, j \in 1 .. Len(Line(h, p)) :
    i < j => Line(h, p)[i].id < Line(h, p)[j].id
Before(s, t) == s.callback /\ t.callback /\ s.src = t.src /\ s.src # None => s.id < t.id
QueueInOrder(h) ==
  \A i, j \in 1 .. Len(h.queue) : i < j => Before(h.queue[i], h.queue[j])

Neat(h) ==
  /\ HeapOK(h)
  /\ LineKinds(h) /\ QueueKinds(h) /\ CombinersMade(h)
  /\ LinesInOrder(h) /\ QueueInOrder(h)

(* The same promises, made by the same calls.                              *)
SameCast(h, g) ==
  /\ g.made = h.made /\ g.combine = h.combine
  /\ \A p \in Promise : g.promise[p].maker = h.promise[p].maker

(* From h to g an entry leading into A came, and the promises of S         *)
(* settled; the tasks that were queued stand where they stood.             *)
Settling(h, g, S) == \A p \in Promise : Pending(g, p) <=> Pending(h, p) /\ p \notin S
Moves(h, g, A, S) ==
  /\ Neat(g) /\ Settling(h, g, S)
  /\ Len(h.queue) <= Len(g.queue)
  /\ \A i \in 1 .. Len(h.queue) : g.queue[i] = h.queue[i]
  /\ \A s \in 0 .. 1 : \A T : s <= Len(h.queue) => Gains(h, g, s, T, A)

-----------------------------------------------------------------------------
(* The rows of a well-formed heap.                                         *)

LEMMA RowsAre ==
  ASSUME NEW h
  PROVE  /\ None \notin Promise /\ None \in Rows /\ Promise \subseteq Rows
         /\ \A a \in Rows : a # None => a \in Promise
         /\ Row(h, None) = h.queue
         /\ \A p \in Promise : Row(h, p) = Line(h, p)
  <1>1. None \notin Promise
    BY PromisesAssumption DEF None, Promise
  <1> QED BY <1>1 DEF Rows, Row

LEMMA RowsFinite ==
  ASSUME NEW h, HeapOK(h)
  PROVE  RowsOK(h)
  BY Sources, RowsAre DEF RowsOK

(* Entries of the same route are of the same kind.                         *)
LEMMA SameKind ==
  ASSUME NEW h, NEW g, NEW v, NEW w, NEW b, NEW c, KindOK(h, v, b), c => b,
         w.fiber = v.fiber, w.result = v.result, w.combine = v.combine,
         v.combine = None \/ (h.combine[v.combine].mode # "none" => g.combine[v.combine].mode # "none")
  PROVE  KindOK(g, w, c)
  BY DEF KindOK

(* Whom the entries of a well-formed heap name.                            *)
LEMMA EntriesOK ==
  ASSUME NEW h, HeapOK(h)
  PROVE  /\ \A i \in 1 .. Len(h.queue) : h.queue[i].combine \in Promise \cup {None}
         /\ \A p \in Promise : \A i \in 1 .. Len(Line(h, p)) :
              Line(h, p)[i] \in Reaction /\ Line(h, p)[i].combine \in Promise \cup {None}
  <1>1. \A i \in 1 .. Len(h.queue) : h.queue[i] \in Microtask
    BY Sources
  <1>2. ASSUME NEW p \in Promise, NEW i \in 1 .. Len(Line(h, p))
        PROVE  Line(h, p)[i] \in Reaction
    BY Sources
  <1> QED BY <1>1, <1>2 DEF Microtask, Reaction

(* The rows stay as they are: so does all that is kept of them.            *)
LEMMA SameRowsNeat ==
  ASSUME NEW h, Neat(h), NEW g, HeapOK(g), g.queue = h.queue,
         \A p \in Promise : Line(g, p) = Line(h, p),
         \A p \in Promise : h.combine[p].mode # "none" => g.combine[p].mode # "none",
         CombinersMade(g)
  PROVE  Neat(g)
  <1>1. QueueKinds(g)
    BY EntriesOK DEF Neat, QueueKinds, KindOK
  <1>2. LineKinds(g)
    BY EntriesOK DEF Neat, LineKinds, KindOK
  <1>3. LinesInOrder(g) /\ QueueInOrder(g)
    BY DEF Neat, LinesInOrder, QueueInOrder
  <1> QED BY <1>1, <1>2, <1>3 DEF Neat

(* An operation that leaves the rows as they are.                          *)
LEMMA SameRowsMoves ==
  ASSUME NEW h, Neat(h), NEW g, HeapOK(g), g.queue = h.queue,
         \A p \in Promise : Line(g, p) = Line(h, p),
         \A p \in Promise : h.combine[p].mode # "none" => g.combine[p].mode # "none",
         CombinersMade(g), Settling(h, g, {})
  PROVE  Moves(h, g, {}, {})
  <1>1. Neat(g)
    BY SameRowsNeat
  <1>2. \A a \in Rows : Row(g, a) = Row(h, a)
    BY RowsAre DEF Row
  <1>3. \A s \in 0 .. 1 : \A T : Gains(h, g, s, T, {})
    BY <1>2, SameRows
  <1>4. Len(h.queue) \in Nat
    BY Sources DEF Neat
  <1> QED BY <1>1, <1>3, <1>4 DEF Moves

LEMMA MovesItself ==
  ASSUME NEW h, Neat(h)
  PROVE  Moves(h, h, {}, {}) /\ SameCast(h, h)
  <1>1. Settling(h, h, {})
    BY DEF Settling
  <1> QED BY <1>1, SameRowsMoves DEF Neat, SameCast

(* One operation after another that only prepares for it.                  *)
LEMMA MovesThen ==
  ASSUME NEW h, NEW g, NEW k, NEW A, NEW S, Neat(h), Moves(h, g, {}, {}), Moves(g, k, A, S)
  PROVE  Moves(h, k, A, S)
  <1>1. Len(h.queue) \in Nat /\ Len(g.queue) \in Nat /\ Len(k.queue) \in Nat
    BY Sources DEF Moves, Neat
  <1>2. Len(h.queue) <= Len(k.queue) /\ \A i \in 1 .. Len(h.queue) : k.queue[i] = h.queue[i]
    BY <1>1 DEF Moves
  <1>3. ASSUME NEW s \in 0 .. 1, NEW T, s <= Len(h.queue)
        PROVE  Gains(h, k, s, T, A)
    <2>1. s <= Len(g.queue)
      BY <1>1, <1>3 DEF Moves
    <2>2. Gains(h, g, s, T, {}) /\ Gains(g, k, s, T, A)
      BY <1>3, <2>1 DEF Moves
    <2> QED BY <2>2 DEF Gains
  <1>4. Settling(h, k, S)
    BY DEF Moves, Settling
  <1> QED BY <1>2, <1>3, <1>4 DEF Moves

-----------------------------------------------------------------------------
(* Queueing a microtask that no listener of its promise comes after.       *)
LEMMA EnqueueMoves ==
  ASSUME NEW h, Neat(h), NEW t, TaskOK(h, t), KindOK(h, t, t.callback), t.src = None \/ ~t.callback
  PROVE  /\ Moves(h, csVMQueueMicrotask(h, t), {Route(t)}, {})
         /\ SameCast(h, csVMQueueMicrotask(h, t))
  <1> DEFINE g == csVMQueueMicrotask(h, t)
             n == Len(h.queue)
  <1>1. h \in Heap /\ h.queue \in Seq(Microtask) /\ t \in Microtask /\ HeapOK(h)
    BY HeapFields DEF Neat, HeapOK, TaskOK
  <1>2. /\ g.made = h.made /\ g.promise = h.promise /\ g.combine = h.combine
        /\ g.queue = Append(h.queue, t)
    BY <1>1 DEF csVMQueueMicrotask, Heap
  <1>3. HeapOK(g)
    BY <1>1, EnqueueKeeps DEF Keeps, Sound
  <1> HIDE DEF g
  <1>4. /\ Len(g.queue) = n + 1 /\ n \in Nat
        /\ \A i \in 1 .. n : g.queue[i] = h.queue[i]
        /\ g.queue[n + 1] = t
    BY <1>1, <1>2, Appending
  <1> HIDE DEF n
  <1>5. \A i \in 1 .. Len(g.queue) : i \in 1 .. n \/ i = n + 1
    BY <1>4
  <1>6. \A p \in Promise : Line(g, p) = Line(h, p)
    BY <1>2 DEF Line
  <1>7. QueueKinds(g)
    BY <1>2, <1>4, <1>5 DEF Neat, QueueKinds, KindOK, n
  <1>8. LineKinds(g) /\ CombinersMade(g) /\ LinesInOrder(g)
    BY <1>2, <1>6 DEF Neat, LineKinds, CombinersMade, LinesInOrder, KindOK
  <1>9. QueueInOrder(g)
    <2> SUFFICES ASSUME NEW i \in 1 .. Len(g.queue), NEW j \in 1 .. Len(g.queue), i < j
                 PROVE  Before(g.queue[i], g.queue[j])
      BY DEF QueueInOrder
    <2>1. i \in 1 .. n
      BY <1>4
    <2>2. CASE j \in 1 .. n
      BY <1>4, <2>1, <2>2 DEF Neat, QueueInOrder, n
    <2>3. CASE j = n + 1
      BY <1>4, <2>3 DEF Before
    <2> QED BY <1>5, <2>2, <2>3
  <1>10. ASSUME NEW s \in 0 .. 1, NEW T, s <= Len(h.queue)
         PROVE  Gains(h, g, s, T, {Route(t)})
    <2>1. /\ RowsOK(h) /\ None \in Rows /\ s \in Nat /\ s <= Len(Row(h, None))
          /\ \A a \in Rows : a # None => Row(g, a) = Row(h, a)
      BY <1>1, <1>6, <1>10, RowsFinite, RowsAre DEF Row
    <2>2. /\ Len(Row(g, None)) = Len(Row(h, None)) + 1
          /\ \A i \in 1 .. Len(Row(h, None)) : Row(g, None)[i] = Row(h, None)[i]
          /\ Row(g, None)[Len(Row(h, None)) + 1] = t
      BY <1>4, RowsAre DEF n
    <2> QED BY <2>1, <2>2, LongerRow
  <1>11. Settling(h, g, {}) /\ SameCast(h, g)
    BY <1>2 DEF Settling, SameCast, Pending
  <1>12. Moves(h, g, {Route(t)}, {})
    <2>1. n <= n + 1
      BY <1>4
    <2> QED BY <1>3, <1>4, <1>7, <1>8, <1>9, <1>10, <1>11, <2>1 DEF Moves, Neat, n
  <1> QED BY <1>11, <1>12 DEF g

-----------------------------------------------------------------------------
(* Listening: one more entry, on the list of its promise or in the queue,  *)
(* after all those of listeners that came before.                          *)

(* The reaction under the number its promise gives it.                     *)
AsListener(h, p, reaction) == [reaction EXCEPT !.id = Count(h, p) + 1]

(* What csPromiseAddReaction leaves behind.                                *)
LEMMA ListenRows ==
  ASSUME NEW h, HeapOK(h), NEW p \in Allocated(h), NEW reaction \in Reaction
  PROVE  LET g == csPromiseAddReaction(h, p, reaction)
             r == AsListener(h, p, reaction)
             t == TaskFor(p, h.promise[p].state, h.promise[p].value, r)
         IN  /\ SameCast(h, g) /\ Settling(h, g, {})
             /\ r \in Reaction /\ r.id = Count(h, p) + 1 /\ Route(r) = Route(reaction)
             /\ r.onFulfilled = reaction.onFulfilled /\ r.onRejected = reaction.onRejected
             /\ \A a \in Promise : a # p => Line(g, a) = Line(h, a)
             /\ IF Pending(h, p) THEN g.queue = h.queue /\ Line(g, p) = Append(Line(h, p), r)
                                 ELSE g.queue = Append(h.queue, t) /\ Line(g, p) = Line(h, p)
  <1> DEFINE o == h.promise[p]
             g == csPromiseAddReaction(h, p, reaction)
             r == AsListener(h, p, reaction)
             heard == [o EXCEPT !.handled = TRUE, !.listeners = @ + 1]
             more == [heard EXCEPT !.reactions = Append(@, r)]
             task == TaskFor(p, o.state, o.value, r)
  <1>1. /\ p \in Promise /\ h \in Heap /\ o \in ObjPromise /\ o.listeners + 1 \in Nat
        /\ h.promise \in [Promise -> ObjPromise]
    <2>1. p \in Promise /\ h \in Heap /\ o \in ObjPromise /\ h.promise \in [Promise -> ObjPromise]
      BY HeapFields DEF HeapOK
    <2> QED BY <2>1 DEF ObjPromise
  <1>2. /\ r \in Reaction /\ r.id = Count(h, p) + 1 /\ Route(r) = Route(reaction)
        /\ r.onFulfilled = reaction.onFulfilled /\ r.onRejected = reaction.onRejected
    <2>1. Count(h, p) + 1 \in Nat
      BY <1>1 DEF Count
    <2> QED BY <2>1 DEF Reaction, Route, AsListener
  <1> HIDE DEF r
  <1>3. heard.state = o.state /\ heard.maker = o.maker /\ heard.reactions = o.reactions /\ heard \in ObjPromise
    BY <1>1 DEF ObjPromise
  <1> HIDE DEF heard
  <1>4. /\ more.state = o.state /\ more.maker = o.maker /\ more.reactions = Append(o.reactions, r)
    BY <1>3 DEF ObjPromise
  <1> HIDE DEF more, task
  <1>5. CASE Pending(h, p)
    <2>1. g = [h EXCEPT !.promise[p] = more]
      BY <1>5 DEF csPromiseAddReaction, Pending, Count, AsListener, r, heard, more
    <2>2. /\ g.made = h.made /\ g.combine = h.combine /\ g.queue = h.queue
          /\ g.promise = [h.promise EXCEPT ![p] = more]
      BY <1>1, <2>1 DEF Heap
    <2> HIDE DEF g
    <2>3. g.promise[p] = more /\ \A a \in Promise : a # p => g.promise[a] = h.promise[a]
      BY <1>1, <2>2
    <2>4. Line(g, p) = Append(Line(h, p), r) /\ \A a \in Promise : a # p => Line(g, a) = Line(h, a)
      BY <1>4, <2>3 DEF Line
    <2>5. SameCast(h, g)
      BY <1>4, <2>2, <2>3 DEF SameCast
    <2>6. Settling(h, g, {})
      BY <1>4, <2>3 DEF Settling, Pending
    <2> QED BY <1>2, <1>5, <2>2, <2>4, <2>5, <2>6 DEF g, r
  <1>6. CASE ~Pending(h, p)
    <2>1. g = [h EXCEPT !.promise[p] = heard, !.queue = Append(@, task)]
      BY <1>6 DEF csPromiseAddReaction, Pending, Count, AsListener, r, heard, task
    <2>2. /\ g.made = h.made /\ g.combine = h.combine /\ g.queue = Append(h.queue, task)
          /\ g.promise = [h.promise EXCEPT ![p] = heard]
      BY <1>1, <2>1 DEF Heap
    <2> HIDE DEF g
    <2>3. g.promise[p] = heard /\ \A a \in Promise : a # p => g.promise[a] = h.promise[a]
      BY <1>1, <2>2
    <2>4. \A a \in Promise : Line(g, a) = Line(h, a)
      BY <1>3, <2>3 DEF Line
    <2>5. SameCast(h, g)
      BY <1>3, <2>2, <2>3 DEF SameCast
    <2>6. Settling(h, g, {})
      BY <1>3, <2>3 DEF Settling, Pending
    <2> QED BY <1>1, <1>2, <1>6, <2>2, <2>4, <2>5, <2>6 DEF g, r, task
  <1> QED BY <1>5, <1>6

(* The task for a reaction goes where the reaction does.                   *)
LEMMA TaskRoute ==
  ASSUME NEW p, NEW state, NEW v, NEW r
  PROVE  LET t == TaskFor(p, state, v, r) IN
         /\ Route(t) = Route(r) /\ t.src = p /\ t.id = r.id
         /\ t.fiber = r.fiber /\ t.result = r.result /\ t.combine = r.combine /\ t.index = r.index
         /\ t.callback => r.onFulfilled \/ r.onRejected
  BY DEF TaskFor, Route

LEMMA RouteFields ==
  ASSUME NEW v, NEW w, Route(v) = Route(w)
  PROVE  v.fiber = w.fiber /\ v.result = w.result /\ v.combine = w.combine /\ v.index = w.index
  BY DEF Route

LEMMA ListenMoves ==
  ASSUME NEW h, Neat(h), Numbered(h), NEW p \in Allocated(h),
         NEW reaction \in Reaction, RefersTo(h, reaction),
         KindOK(h, reaction, reaction.onFulfilled \/ reaction.onRejected)
  PROVE  /\ Moves(h, csPromiseAddReaction(h, p, reaction), {Route(reaction)}, {})
         /\ SameCast(h, csPromiseAddReaction(h, p, reaction))
  <1> DEFINE g == csPromiseAddReaction(h, p, reaction)
             r == AsListener(h, p, reaction)
             t == TaskFor(p, h.promise[p].state, h.promise[p].value, r)
  <1>1. HeapOK(h) /\ p \in Promise /\ None \notin Promise
    BY HeapFields, Sources DEF Neat, HeapOK
  <1>2. HeapOK(g)
    BY <1>1, AddReactionKeeps DEF Keeps, Sound
  <1>3. /\ SameCast(h, g) /\ Settling(h, g, {})
        /\ r \in Reaction /\ r.id = Count(h, p) + 1 /\ Route(r) = Route(reaction)
        /\ r.onFulfilled = reaction.onFulfilled /\ r.onRejected = reaction.onRejected
        /\ \A a \in Promise : a # p => Line(g, a) = Line(h, a)
        /\ IF Pending(h, p) THEN g.queue = h.queue /\ Line(g, p) = Append(Line(h, p), r)
                            ELSE g.queue = Append(h.queue, t) /\ Line(g, p) = Line(h, p)
    BY <1>1, ListenRows
  <1>4. /\ Route(t) = Route(r) /\ t.src = p /\ t.id = r.id
        /\ t.callback => r.onFulfilled \/ r.onRejected
    <2> HIDE DEF r
    <2> QED BY TaskRoute
  <1> HIDE DEF g, r, t
  <1>5. CombinersMade(g)
    BY <1>3 DEF Neat, CombinersMade, SameCast
  <1>6. CASE Pending(h, p)
    <2> DEFINE n == Len(Line(h, p))
    <2>1. /\ Len(Line(g, p)) = n + 1 /\ n \in Nat
          /\ \A i \in 1 .. n : Line(g, p)[i] = Line(h, p)[i]
          /\ Line(g, p)[n + 1] = r
      <3>1. Line(h, p) \in Seq(Reaction)
        BY <1>1, Sources
      <3> QED BY <1>3, <1>6, <3>1, Appending
    <2> HIDE DEF n
    <2>2. \A i \in 1 .. Len(Line(g, p)) : i \in 1 .. n \/ i = n + 1
      BY <2>1
    <2>3. g.queue = h.queue
      BY <1>3, <1>6
    <2>4. QueueKinds(g) /\ QueueInOrder(g)
      BY <1>3, <2>3 DEF Neat, QueueKinds, QueueInOrder, KindOK, SameCast
    <2>5. KindOK(g, r, r.onFulfilled \/ r.onRejected)
      BY <1>3, RouteFields DEF KindOK, SameCast
    <2>6. LineKinds(g)
      <3>1. \A i \in 1 .. n : KindOK(h, Line(h, p)[i], Line(h, p)[i].onFulfilled \/ Line(h, p)[i].onRejected)
        BY <1>1 DEF Neat, LineKinds, n
      <3>2. \A i \in 1 .. n : KindOK(g, Line(g, p)[i], Line(g, p)[i].onFulfilled \/ Line(g, p)[i].onRejected)
        BY <1>3, <2>1, <3>1 DEF KindOK, SameCast
      <3>3. \A a \in Promise : a # p => \A i \in 1 .. Len(Line(g, a)) :
              KindOK(g, Line(g, a)[i], Line(g, a)[i].onFulfilled \/ Line(g, a)[i].onRejected)
        BY <1>3 DEF Neat, LineKinds, KindOK, SameCast
      <3> QED BY <2>1, <2>2, <2>5, <3>2, <3>3 DEF LineKinds
    <2>7. LinesInOrder(g)
      <3>1. \A i, j \in 1 .. n : i < j => Line(h, p)[i].id < Line(h, p)[j].id
        BY <1>1 DEF Neat, LinesInOrder, n
      <3>2. \A i \in 1 .. n : Line(h, p)[i].id < r.id
        <4>1. Count(h, p) \in Nat
          BY <1>1, Sources
        <4>2. \A i \in 1 .. n : Line(h, p)[i].id \in 1 .. Count(h, p)
          BY <1>1 DEF Numbered, n
        <4> QED BY <1>3, <4>1, <4>2
      <3>3. \A i, j \in 1 .. Len(Line(g, p)) : i < j => Line(g, p)[i].id < Line(g, p)[j].id
        <4> SUFFICES ASSUME NEW i \in 1 .. Len(Line(g, p)), NEW j \in 1 .. Len(Line(g, p)), i < j
                     PROVE  Line(g, p)[i].id < Line(g, p)[j].id
          OBVIOUS
        <4>1. i \in 1 .. n
          BY <2>1
        <4>2. CASE j \in 1 .. n
          BY <2>1, <3>1, <4>1, <4>2
        <4>3. CASE j = n + 1
          BY <2>1, <3>2, <4>1, <4>3
        <4> QED BY <2>2, <4>2, <4>3
      <3> QED BY <1>3, <3>3 DEF Neat, LinesInOrder
    <2>8. ASSUME NEW s \in 0 .. 1, NEW T, s <= Len(h.queue)
          PROVE  Gains(h, g, s, T, {Route(reaction)})
      <3>1. /\ RowsOK(h) /\ p \in Rows /\ s \in Nat /\ s <= Len(Row(h, None))
            /\ \A a \in Rows : a # p => Row(g, a) = Row(h, a)
        BY <1>1, <1>3, <2>3, <2>8, RowsFinite, RowsAre DEF Row
      <3>2. /\ Len(Row(g, p)) = Len(Row(h, p)) + 1
            /\ \A i \in 1 .. Len(Row(h, p)) : Row(g, p)[i] = Row(h, p)[i]
            /\ Row(g, p)[Len(Row(h, p)) + 1] = r
        BY <1>1, <2>1, RowsAre DEF n
      <3>3. Gains(h, g, s, T, {Route(r)})
        BY <3>1, <3>2, LongerRow
      <3> QED BY <1>3, <3>3
    <2>9. Len(h.queue) \in Nat
      BY <1>1, Sources
    <2>10. Moves(h, g, {Route(reaction)}, {})
      <3>1. Neat(g)
        BY <1>2, <1>5, <2>4, <2>6, <2>7 DEF Neat
      <3>2. Len(h.queue) <= Len(g.queue) /\ \A i \in 1 .. Len(h.queue) : g.queue[i] = h.queue[i]
        BY <2>3, <2>9
      <3>3. Settling(h, g, {})
        BY <1>3
      <3> QED BY <2>8, <3>1, <3>2, <3>3 DEF Moves
    <2> QED BY <1>3, <2>10 DEF g
  <1>7. CASE ~Pending(h, p)
    <2> DEFINE n == Len(h.queue)
    <2>1. /\ Len(g.queue) = n + 1 /\ n \in Nat
          /\ \A i \in 1 .. n : g.queue[i] = h.queue[i]
          /\ g.queue[n + 1] = t
      <3>1. h.queue \in Seq(Microtask) /\ t \in Microtask
        <4>1. h.promise[p].state \in Settled /\ h.promise[p].value \in Datum
          <5>1. h.promise[p] \in ObjPromise
            BY <1>1, Sources
          <5> QED BY <1>7, <5>1 DEF ObjPromise, Pending
        <4> QED BY <1>1, <1>3, <4>1, Sources, TaskForOK DEF t
      <3> QED BY <1>3, <1>7, <3>1, Appending
    <2> HIDE DEF n
    <2>2. \A i \in 1 .. Len(g.queue) : i \in 1 .. n \/ i = n + 1
      BY <2>1
    <2>3. \A a \in Promise : Line(g, a) = Line(h, a)
      BY <1>3, <1>7
    <2>4. LineKinds(g) /\ LinesInOrder(g)
      BY <1>3, <2>3 DEF Neat, LineKinds, LinesInOrder, KindOK, SameCast
    <2>5. QueueKinds(g)
      <3>1. \A i \in 1 .. n : KindOK(g, g.queue[i], g.queue[i].callback)
        BY <1>3, <2>1 DEF Neat, QueueKinds, KindOK, SameCast, n
      <3>2. KindOK(g, t, t.callback)
        <4>1. Route(t) = Route(reaction)
          BY <1>3, <1>4
        <4> QED BY <1>3, <1>4, <4>1, RouteFields DEF KindOK, SameCast
      <3> QED BY <2>1, <2>2, <3>1, <3>2 DEF QueueKinds
    <2>6. QueueInOrder(g)
      <3> SUFFICES ASSUME NEW i \in 1 .. Len(g.queue), NEW j \in 1 .. Len(g.queue), i < j
                   PROVE  Before(g.queue[i], g.queue[j])
        BY DEF QueueInOrder
      <3>1. i \in 1 .. n
        BY <2>1
      <3>2. CASE j \in 1 .. n
        BY <2>1, <3>1, <3>2 DEF Neat, QueueInOrder, n
      <3>3. CASE j = n + 1
        <4>1. h.queue[i].src = p => h.queue[i].id \in 1 .. Count(h, p)
          BY <1>1, <3>1 DEF Numbered, n
        <4>2. Count(h, p) \in Nat
          BY <1>1, Sources
        <4> QED BY <1>3, <1>4, <2>1, <3>1, <3>3, <4>1, <4>2 DEF Before
      <3> QED BY <2>2, <3>2, <3>3
    <2>7. ASSUME NEW s \in 0 .. 1, NEW T, s <= Len(h.queue)
          PROVE  Gains(h, g, s, T, {Route(reaction)})
      <3>1. /\ RowsOK(h) /\ None \in Rows /\ s \in Nat /\ s <= Len(Row(h, None))
            /\ \A a \in Rows : a # None => Row(g, a) = Row(h, a)
        BY <1>1, <2>3, <2>7, RowsFinite, RowsAre DEF Row
      <3>2. /\ Len(Row(g, None)) = Len(Row(h, None)) + 1
            /\ \A i \in 1 .. Len(Row(h, None)) : Row(g, None)[i] = Row(h, None)[i]
            /\ Row(g, None)[Len(Row(h, None)) + 1] = t
        BY <2>1, RowsAre DEF n
      <3>3. Gains(h, g, s, T, {Route(t)})
        BY <3>1, <3>2, LongerRow
      <3> QED BY <1>3, <1>4, <3>3
    <2>8. Moves(h, g, {Route(reaction)}, {})
      <3>1. n <= n + 1
        BY <2>1
      <3> QED BY <1>2, <1>3, <1>5, <2>1, <2>4, <2>5, <2>6, <2>7, <3>1 DEF Moves, Neat, n
    <2> QED BY <1>3, <2>8 DEF g
  <1> QED BY <1>6, <1>7

-----------------------------------------------------------------------------
(* Settling: the reactions of a promise go, in their order, to the end of  *)
(* the queue, where no task of that promise stands.                        *)

(* What settle leaves behind of a pending promise.                         *)
LEMMA SettleRows ==
  ASSUME NEW h, HeapOK(h), NEW p \in Allocated(h), NEW state \in Settled, NEW v \in Datum,
         Pending(h, p)
  PROVE  LET g == settle(h, p, state, v) IN
         /\ SameCast(h, g) /\ Settling(h, g, {p})
         /\ \A a \in Promise : a # p => Line(g, a) = Line(h, a)
         /\ Line(g, p) = <<>>
         /\ Len(g.queue) = Len(h.queue) + Len(Line(h, p))
         /\ \A i \in 1 .. Len(h.queue) : g.queue[i] = h.queue[i]
         /\ \A i \in 1 .. Len(Line(h, p)) :
              g.queue[Len(h.queue) + i] = TaskFor(p, state, v, Line(h, p)[i])
  <1> DEFINE o == h.promise[p]
             g == settle(h, p, state, v)
             q == [o EXCEPT !.state = state, !.value = v, !.reactions = <<>>]
             rs == o.reactions
             tasks == [i \in 1 .. Len(o.reactions) |-> TaskFor(p, state, v, o.reactions[i])]
  <1>1. p \in Promise /\ h \in Heap /\ o \in ObjPromise /\ h.queue \in Seq(Microtask)
    BY HeapFields DEF HeapOK
  <1>2. /\ g.made = h.made /\ g.combine = h.combine
        /\ g.promise = [h.promise EXCEPT ![p] = q] /\ g.queue = h.queue \o tasks
    BY <1>1 DEF settle, Pending, Heap
  <1>3. /\ q.state = state /\ q.reactions = <<>> /\ q.maker = o.maker
    BY <1>1 DEF ObjPromise
  <1>4. /\ \A i \in 1 .. Len(rs) : rs[i] \in Reaction
        /\ Len(rs) \in Nat
    BY <1>1 DEF ObjPromise
  <1>5. tasks \in Seq(Microtask) /\ Len(tasks) = Len(rs)
    <2>1. \A i \in 1 .. Len(rs) : tasks[i] \in Microtask
      BY <1>1, <1>4, TaskForOK
    <2>2. tasks \in [1 .. Len(rs) -> Microtask]
      BY <2>1
    <2> HIDE DEF tasks
    <2> QED BY <1>4, <2>2, Listing
  <1>6. \A i \in 1 .. Len(rs) : tasks[i] = TaskFor(p, state, v, rs[i])
    OBVIOUS
  <1> HIDE DEF q, tasks, g, rs
  <1>7. /\ Len(g.queue) = Len(h.queue) + Len(tasks)
        /\ \A i \in 1 .. Len(h.queue) : g.queue[i] = h.queue[i]
        /\ \A i \in 1 .. Len(tasks) : g.queue[Len(h.queue) + i] = tasks[i]
    <2>1. tasks \in Seq(Microtask) /\ g.queue = h.queue \o tasks /\ h.queue \in Seq(Microtask)
      BY <1>1, <1>2, <1>5
    <2> QED BY <2>1, Concatenating
  <1>8. /\ \A a \in Promise : a # p => g.promise[a] = h.promise[a]
        /\ g.promise[p] = q
    BY <1>1, <1>2 DEF Heap
  <1>9. /\ \A a \in Promise : a # p => Line(g, a) = Line(h, a)
        /\ Line(g, p) = <<>> /\ Line(h, p) = rs
    BY <1>3, <1>8 DEF Line, rs
  <1>10. SameCast(h, g)
    BY <1>2, <1>3, <1>8 DEF SameCast
  <1>11. Settling(h, g, {p})
    BY <1>3, <1>8 DEF Settling, Pending, Settled
  <1> QED BY <1>5, <1>6, <1>7, <1>9, <1>10, <1>11 DEF g

LEMMA SettleMoves ==
  ASSUME NEW h, Neat(h), NEW p \in Allocated(h), NEW state \in Settled, NEW v \in Datum
  PROVE  /\ Moves(h, settle(h, p, state, v), {}, {p})
         /\ SameCast(h, settle(h, p, state, v))
  <1> DEFINE g == settle(h, p, state, v)
  <1>1. HeapOK(h) /\ p \in Promise /\ None \notin Promise
    BY HeapFields, Sources DEF Neat, HeapOK
  <1>2. CASE ~Pending(h, p)
    <2>1. g = h
      BY <1>2 DEF settle, Pending
    <2>2. Moves(h, h, {}, {}) /\ SameCast(h, h)
      BY MovesItself
    <2>3. Moves(h, h, {}, {p})
      BY <1>2, <2>2 DEF Moves, Settling
    <2> QED BY <2>1, <2>2, <2>3
  <1>3. CASE Pending(h, p)
    <2> DEFINE n == Len(h.queue)
               m == Len(Line(h, p))
    <2>1. HeapOK(g)
      BY <1>1, SettleKeeps DEF Keeps, Sound
    <2>2. /\ SameCast(h, g) /\ Settling(h, g, {p})
          /\ \A a \in Promise : a # p => Line(g, a) = Line(h, a)
          /\ Line(g, p) = <<>>
          /\ Len(g.queue) = n + m
          /\ \A i \in 1 .. n : g.queue[i] = h.queue[i]
          /\ \A i \in 1 .. m : g.queue[n + i] = TaskFor(p, state, v, Line(h, p)[i])
      BY <1>1, <1>3, SettleRows
    <2>3. n \in Nat /\ m \in Nat
      BY <1>1, Sources
    <2> HIDE DEF g, n, m
    <2>4. \A i \in 1 .. Len(g.queue) : i \in 1 .. n \/ \E j \in 1 .. m : i = n + j
      <3> SUFFICES ASSUME NEW i \in 1 .. Len(g.queue), i \notin 1 .. n
                   PROVE  \E j \in 1 .. m : i = n + j
        OBVIOUS
      <3>1. i - n \in 1 .. m /\ i = n + (i - n)
        BY <2>2, <2>3
      <3> QED BY <3>1
    <2>5. \A i \in 1 .. m : /\ Route(g.queue[n + i]) = Route(Line(h, p)[i])
                            /\ g.queue[n + i].src = p /\ g.queue[n + i].id = Line(h, p)[i].id
                            /\ g.queue[n + i].callback =>
                                 Line(h, p)[i].onFulfilled \/ Line(h, p)[i].onRejected
      BY <2>2, TaskRoute
    <2>6. \A a \in Promise : Len(Line(g, a)) # 0 => a # p
      BY <2>2
    <2>7. CombinersMade(g)
      BY <2>2 DEF Neat, CombinersMade, SameCast
    <2>8. LineKinds(g)
      <3> SUFFICES ASSUME NEW a \in Promise, NEW i \in 1 .. Len(Line(g, a))
                   PROVE  KindOK(g, Line(g, a)[i], Line(g, a)[i].onFulfilled \/ Line(g, a)[i].onRejected)
        BY DEF LineKinds
      <3>1. a # p
        BY <2>2
      <3>2. KindOK(h, Line(g, a)[i], Line(g, a)[i].onFulfilled \/ Line(g, a)[i].onRejected)
        BY <2>2, <3>1 DEF Neat, LineKinds
      <3> QED BY <2>2, <3>2 DEF KindOK, SameCast
    <2>9. QueueKinds(g)
      <3>1. \A i \in 1 .. n : KindOK(g, g.queue[i], g.queue[i].callback)
        BY <2>2 DEF Neat, QueueKinds, KindOK, SameCast, n
      <3>2. ASSUME NEW i \in 1 .. m
            PROVE  KindOK(g, g.queue[n + i], g.queue[n + i].callback)
        <4>1. KindOK(h, Line(h, p)[i], Line(h, p)[i].onFulfilled \/ Line(h, p)[i].onRejected)
          BY <1>1 DEF Neat, LineKinds, m
        <4> DEFINE w == g.queue[n + i]
                   r == Line(h, p)[i]
        <4>2. Route(w) = Route(r) /\ (w.callback => r.onFulfilled \/ r.onRejected)
          BY <2>5
        <4>3. KindOK(h, r, r.onFulfilled \/ r.onRejected) /\ g.combine = h.combine
          BY <2>2, <4>1 DEF SameCast
        <4> HIDE DEF w, r
        <4>4. KindOK(g, w, w.callback)
          BY <4>2, <4>3, RouteFields DEF KindOK
        <4> QED BY <4>4 DEF w
      <3> QED BY <2>4, <3>1, <3>2 DEF QueueKinds
    <2>10. LinesInOrder(g)
      <3> SUFFICES ASSUME NEW a \in Promise, NEW i \in 1 .. Len(Line(g, a)),
                          NEW j \in 1 .. Len(Line(g, a)), i < j
                   PROVE  Line(g, a)[i].id < Line(g, a)[j].id
        BY DEF LinesInOrder
      <3>1. a # p
        BY <2>2
      <3> QED BY <2>2, <3>1 DEF Neat, LinesInOrder
    <2>11. QueueInOrder(g)
      <3> SUFFICES ASSUME NEW i \in 1 .. Len(g.queue), NEW j \in 1 .. Len(g.queue), i < j
                   PROVE  Before(g.queue[i], g.queue[j])
        BY DEF QueueInOrder
      <3>1. \A k \in 1 .. n : g.queue[k].src # p
        <4>1. \A k \in 1 .. n : h.queue[k].src # None => ~Pending(h, h.queue[k].src)
          BY <1>1, Sources DEF n
        <4>2. \A k \in 1 .. n : h.queue[k].src # p
          BY <1>1, <1>3, <4>1
        <4> QED BY <2>2, <4>2
      <3>2. CASE i \in 1 .. n /\ j \in 1 .. n
        BY <2>2, <3>2 DEF Neat, QueueInOrder, n
      <3>3. CASE i \in 1 .. n /\ j \notin 1 .. n
        BY <2>4, <2>5, <3>1, <3>3 DEF Before
      <3>4. CASE i \notin 1 .. n
        <4>1. PICK a \in 1 .. m : i = n + a
          BY <2>4, <3>4
        <4>2. PICK b \in 1 .. m : j = n + b
          BY <2>3, <2>4, <4>1
        <4>3. a < b
          BY <2>3, <4>1, <4>2
        <4>4. Line(h, p)[a].id < Line(h, p)[b].id
          BY <1>1, <4>3 DEF Neat, LinesInOrder, m
        <4> QED BY <2>5, <4>1, <4>2, <4>4 DEF Before
      <3> QED BY <3>2, <3>3, <3>4
    <2>12. ASSUME NEW s \in 0 .. 1, NEW T, s <= Len(h.queue)
           PROVE  Gains(h, g, s, T, {})
      <3>1. /\ RowsOK(h) /\ s \in Nat /\ s <= Len(Row(h, None))
            /\ \A a \in Promise : a # p => Row(g, a) = Row(h, a)
            /\ Len(Row(g, p)) = 0
        BY <1>1, <2>2, <2>12, RowsFinite, RowsAre
      <3>2. /\ Len(Row(g, None)) = Len(Row(h, None)) + Len(Row(h, p))
            /\ \A i \in 1 .. Len(Row(h, None)) : Row(g, None)[i] = Row(h, None)[i]
            /\ \A i \in 1 .. Len(Row(h, p)) :
                 Route(Row(g, None)[Len(Row(h, None)) + i]) = Route(Row(h, p)[i])
        <4>1. /\ Row(h, None) = h.queue /\ Row(g, None) = g.queue /\ Row(h, p) = Line(h, p)
              /\ Len(h.queue) = n /\ Len(Line(h, p)) = m
          BY <1>1, RowsAre DEF n, m
        <4>2. \A i \in 1 .. m : Route(g.queue[n + i]) = Route(Line(h, p)[i])
          BY <2>5
        <4> QED BY <2>2, <4>1, <4>2
      <3> QED BY <1>1, <3>1, <3>2, MovedRow
    <2>13. Moves(h, g, {}, {p})
      <3>1. n <= n + m
        BY <2>3
      <3> QED BY <2>1, <2>2, <2>7, <2>8, <2>9, <2>10, <2>11, <2>12, <3>1 DEF Moves, Neat, n
    <2> QED BY <2>2, <2>13 DEF g
  <1> QED BY <1>2, <1>3

-----------------------------------------------------------------------------
(* Fulfilling and rejecting.                                               *)

(* A promise settles, or is to be told the outcome of another.             *)
To(p) == [fiber |-> None, result |-> p, combine |-> None, index |-> 0]
Decides(h, g, p, A, S) ==
  /\ Moves(h, g, A, S) /\ SameCast(h, g)
  /\ \/ A = {} /\ S = {p}
     \/ A = {To(p)} /\ S = {} /\ Pending(h, p)

LEMMA RejectDecides ==
  ASSUME NEW h, Neat(h), NEW p \in Allocated(h), NEW v \in Datum
  PROVE  Decides(h, csPromiseReject(h, p, v), p, {}, {p})
  BY SettleMoves DEF csPromiseReject, Settled, Decides

LEMMA FulfillDecides ==
  ASSUME NEW h, Neat(h), Numbered(h), NEW p \in Allocated(h), NEW v \in Datum \cup Allocated(h)
  PROVE  \E A, S : Decides(h, csPromiseFulfill(h, p, v), p, A, S)
  <1>1. /\ Allocated(h) \subseteq Promise /\ Promise \cap Datum = {} /\ h \in Heap /\ p \in Promise
    BY HeapFields, PromisesAssumption DEF Neat, HeapOK, Promise
  <1>2. CASE ~Pending(h, p)
    <2>1. csPromiseFulfill(h, p, v) = h
      BY <1>2 DEF csPromiseFulfill
    <2>2. Moves(h, h, {}, {p}) /\ SameCast(h, h)
      BY <1>2, MovesItself DEF Moves, Settling
    <2> QED BY <2>1, <2>2 DEF Decides
  <1>3. CASE Pending(h, p) /\ v \in Promise
    <2>1. v \in Allocated(h) /\ AdoptReaction(p) \in Reaction /\ RefersTo(h, AdoptReaction(p))
      BY <1>1, <1>3, ReactionsOK
    <2>2. csPromiseFulfill(h, p, v) = csPromiseAddReaction(h, v, AdoptReaction(p))
      BY <1>3 DEF csPromiseFulfill
    <2>3. /\ KindOK(h, AdoptReaction(p), AdoptReaction(p).onFulfilled \/ AdoptReaction(p).onRejected)
          /\ Route(AdoptReaction(p)) = To(p)
      BY DEF AdoptReaction, PlainReaction, KindOK, Route, To, None
    <2>4. Moves(h, csPromiseFulfill(h, p, v), {To(p)}, {}) /\ SameCast(h, csPromiseFulfill(h, p, v))
      BY <2>1, <2>2, <2>3, ListenMoves
    <2> QED BY <1>3, <2>4 DEF Decides
  <1>4. CASE Pending(h, p) /\ v \notin Promise
    <2>1. csPromiseFulfill(h, p, v) = settle(h, p, "fulfilled", v)
      BY <1>4 DEF csPromiseFulfill
    <2>2. v \in Datum
      BY <1>1, <1>4
    <2> QED BY <2>1, <2>2, SettleMoves DEF Settled, Decides
  <1> QED BY <1>2, <1>3, <1>4

-----------------------------------------------------------------------------
(* What prepares for them.                                                 *)

(* A new promise takes no part in anything yet.                            *)
LEMMA AllocateMoves ==
  ASSUME NEW h, Neat(h), Numbered(h), h.made + 1 <= MaxPromises, NEW maker \in Maker
  PROVE  LET g == Allocate(h, maker) IN
         /\ Moves(h, g, {}, {}) /\ Numbered(g)
         /\ g.made = Fresh(h) /\ g.combine = h.combine /\ g.queue = h.queue
         /\ \A p \in Promise : p # Fresh(h) => g.promise[p].maker = h.promise[p].maker
         /\ g.promise[Fresh(h)].maker = maker
         /\ Fresh(h) \in Allocated(g) /\ Fresh(h) \in Promise /\ Fresh(h) > h.made
         /\ Pending(h, Fresh(h)) /\ h.combine[Fresh(h)].mode = "none"
  <1> DEFINE g == Allocate(h, maker)
             f == Fresh(h)
             o == csPromiseNew(maker)
  <1>1. /\ h \in Heap /\ HeapOK(h) /\ h.made \in Nat /\ h.promise \in [Promise -> ObjPromise]
    BY HeapFields, PromisesAssumption DEF Neat, HeapOK
  <1>2. f \in Promise /\ f > h.made /\ f = h.made + 1
    BY <1>1, PromisesAssumption DEF Fresh, Promise
  <1>3. /\ g.made = f /\ g.combine = h.combine /\ g.queue = h.queue
        /\ g.promise = [h.promise EXCEPT ![f] = o]
    BY <1>1 DEF Allocate, Heap
  <1>4. o.state = "pending" /\ o.reactions = <<>> /\ o.maker = maker
    BY DEF csPromiseNew
  <1>5. HeapOK(g) /\ f \in Allocated(g) /\ Numbered(g)
    BY <1>1, AllocateKeeps, AllocateAlike DEF Keeps, Sound, Alike
  <1> HIDE DEF g, f, o
  <1>6. g.promise[f] = o /\ \A p \in Promise : p # f => g.promise[p] = h.promise[p]
    BY <1>1, <1>2, <1>3
  <1>7. Pending(h, f) /\ Line(h, f) = <<>>
    BY <1>1, <1>2 DEF HeapOK, RefsAllocated, Numbered
  <1>8. h.combine[f].mode = "none"
    <2>1. ~(f <= h.made)
      BY <1>1, <1>2
    <2> QED BY <1>2, <2>1 DEF Neat, CombinersMade
  <1>9. \A p \in Promise : Line(g, p) = Line(h, p)
    BY <1>4, <1>6, <1>7 DEF Line
  <1>10. CombinersMade(g)
    <2> SUFFICES ASSUME NEW p \in Promise, g.combine[p].mode # "none"
                 PROVE  p <= g.made /\ g.promise[p].maker = "combinator"
      BY DEF CombinersMade
    <2>1. p # f /\ p <= h.made /\ h.promise[p].maker = "combinator"
      BY <1>3, <1>8 DEF Neat, CombinersMade
    <2>2. p \in Nat /\ h.made + 1 = g.made
      BY <1>2, <1>3 DEF Promise
    <2> QED BY <1>1, <1>6, <2>1, <2>2
  <1>11. Settling(h, g, {})
    BY <1>4, <1>6, <1>7 DEF Settling, Pending
  <1>12. Moves(h, g, {}, {})
    BY <1>3, <1>5, <1>9, <1>10, <1>11, SameRowsMoves
  <1>13. g.promise[f].maker = maker /\ \A p \in Promise : p # f => g.promise[p].maker = h.promise[p].maker
    BY <1>4, <1>6
  <1> QED BY <1>2, <1>3, <1>5, <1>7, <1>8, <1>12, <1>13 DEF g, f

(* The state of a combinator that was made for it changes.                 *)
LEMMA CombineMoves ==
  ASSUME NEW h, Neat(h), NEW c \in [Promise -> CombineState],
         \A p \in Promise : h.combine[p].mode # "none" => c[p].mode # "none",
         \A p \in Promise : c[p].mode # "none" => p <= h.made /\ h.promise[p].maker = "combinator"
  PROVE  LET g == [h EXCEPT !.combine = c] IN
         /\ Moves(h, g, {}, {})
         /\ g.made = h.made /\ g.promise = h.promise /\ g.combine = c /\ g.queue = h.queue
  <1> DEFINE g == [h EXCEPT !.combine = c]
  <1>1. h \in Heap /\ HeapOK(h)
    BY DEF Neat, HeapOK
  <1>2. g.made = h.made /\ g.promise = h.promise /\ g.combine = c /\ g.queue = h.queue
    BY <1>1 DEF Heap
  <1>3. HeapOK(g)
    BY <1>1, CombineKeeps DEF Keeps, Sound
  <1> HIDE DEF g
  <1>4. CombinersMade(g)
    BY <1>2 DEF CombinersMade
  <1>5. (\A p \in Promise : Line(g, p) = Line(h, p)) /\ Settling(h, g, {})
    BY <1>2 DEF Line, Settling, Pending
  <1>6. Moves(h, g, {}, {})
    BY <1>2, <1>3, <1>4, <1>5, SameRowsMoves
  <1> QED BY <1>2, <1>6 DEF g

LEMMA FillMoves ==
  ASSUME NEW h, Neat(h), NEW p \in Allocated(h), NEW i \in 0 .. MaxInputs
  PROVE  LET g == Fill(h, p, i) IN
         /\ Moves(h, g, {}, {})
         /\ g.made = h.made /\ g.promise = h.promise /\ g.queue = h.queue
         /\ \A q \in Promise : q # p => g.combine[q] = h.combine[q]
         /\ g.combine[p].mode = h.combine[p].mode
         /\ g.combine[p].filled = h.combine[p].filled \cup {i}
         /\ g.combine[p].remaining = h.combine[p].remaining - 1
  <1> DEFINE c == [h.combine[p] EXCEPT !.filled = @ \cup {i}, !.remaining = @ - 1]
             d == [h.combine EXCEPT ![p] = c]
             g == Fill(h, p, i)
  <1>1. h \in Heap /\ p \in Promise /\ h.combine \in [Promise -> CombineState]
    BY HeapFields DEF Neat, HeapOK
  <1>2. /\ c \in CombineState /\ c.mode = h.combine[p].mode
        /\ c.filled = h.combine[p].filled \cup {i}
        /\ c.remaining = h.combine[p].remaining - 1
    <2>1. h.combine[p] \in CombineState /\ h.combine[p].remaining - 1 \in Int
      BY <1>1 DEF CombineState
    <2> QED BY <1>1, <2>1 DEF CombineState
  <1>3. g = [h EXCEPT !.combine = d]
    BY <1>1 DEF Fill, Heap, CombineState
  <1> HIDE DEF c, g
  <1>4. /\ d \in [Promise -> CombineState] /\ d[p] = c
        /\ \A q \in Promise : q # p => d[q] = h.combine[q]
    BY <1>1, <1>2
  <1> HIDE DEF d
  <1>5. /\ \A q \in Promise : d[q].mode = h.combine[q].mode
    BY <1>2, <1>4
  <1>6. /\ \A q \in Promise : h.combine[q].mode # "none" => d[q].mode # "none"
        /\ \A q \in Promise : d[q].mode # "none" => q <= h.made /\ h.promise[q].maker = "combinator"
    BY <1>5 DEF Neat, CombinersMade
  <1>7. /\ Moves(h, g, {}, {})
        /\ g.made = h.made /\ g.promise = h.promise /\ g.combine = d /\ g.queue = h.queue
    BY <1>3, <1>4, <1>6, CombineMoves
  <1> QED BY <1>2, <1>4, <1>7 DEF g

(* Someone hears of a rejection, or the watchdog's list is emptied.        *)
LEMMA SameShapeMoves ==
  ASSUME NEW h, Neat(h), NEW g, HeapOK(g),
         g.made = h.made, g.combine = h.combine, g.queue = h.queue,
         \A p \in Promise : /\ g.promise[p].state = h.promise[p].state
                            /\ g.promise[p].maker = h.promise[p].maker
                            /\ g.promise[p].reactions = h.promise[p].reactions
  PROVE  Moves(h, g, {}, {}) /\ SameCast(h, g)
  <1>1. \A p \in Promise : Line(g, p) = Line(h, p)
    BY DEF Line
  <1>2. Settling(h, g, {}) /\ CombinersMade(g) /\ SameCast(h, g)
    BY DEF Settling, Pending, Neat, CombinersMade, SameCast
  <1> QED BY <1>1, <1>2, SameRowsMoves

-----------------------------------------------------------------------------
(* Steps of the loop: B is where the task that retired led, if one did,    *)
(* and A where the entry that came leads.                                  *)

Passes(h, k, T, B, A) ==
  /\ B \cap T = {} /\ A \cap T = {} => /\ Nowhere(h, 0, T) => Nowhere(k, 0, T)
                                       /\ Once(h, 0, T) => Once(k, 0, T)
  /\ B \cap T = {} /\ A \cap T # {} => (Nowhere(h, 0, T) => Once(k, 0, T))
  /\ B \cap T # {} => ~Nowhere(h, 0, T)
  /\ B \cap T # {} /\ A \cap T = {} => (Once(h, 0, T) => Nowhere(k, 0, T))
  /\ B \cap T # {} /\ A \cap T # {} => (Once(h, 0, T) => Once(k, 0, T))

Goes(h, k, B, A, S) ==
  /\ Neat(k) /\ Settling(h, k, S)
  /\ \A T : Passes(h, k, T, B, A)

HeadRoute(h) == Route(h.queue[1])

LEMMA MovesGoes ==
  ASSUME NEW h, Neat(h), NEW g, NEW A, NEW S, Moves(h, g, A, S)
  PROVE  Goes(h, g, {}, A, S)
  <1>1. Len(h.queue) \in Nat
    BY Sources DEF Neat
  <1>2. \A T : Gains(h, g, 0, T, A)
    BY <1>1 DEF Moves
  <1> QED BY <1>2 DEF Goes, Passes, Gains, Moves

LEMMA RetireGoes ==
  ASSUME NEW h, Neat(h), h.queue # <<>>, NEW g, NEW A, NEW S, Moves(h, g, A, S)
  PROVE  /\ Goes(h, Retire(g), {HeadRoute(h)}, A, S)
         /\ Retire(g).made = g.made /\ Retire(g).promise = g.promise /\ Retire(g).combine = g.combine
  <1> DEFINE k == Retire(g)
             n == Len(g.queue)
  <1>1. HeapOK(h) /\ HeapOK(g) /\ g \in Heap /\ g.queue \in Seq(Microtask)
    BY Sources DEF Neat, Moves, HeapOK
  <1>2. Len(h.queue) \in Nat /\ Len(h.queue) > 0 /\ 1 \in 1 .. Len(h.queue)
    <2>1. Len(h.queue) \in Nat /\ 1 \in 1 .. Len(h.queue)
      BY <1>1, Sources
    <2> QED BY <2>1
  <1>3. n \in Nat /\ n > 0 /\ g.queue[1] = h.queue[1] /\ g.queue # <<>>
    <2>1. n \in Nat
      BY <1>1, Sources
    <2>2. n > 0 /\ g.queue[1] = h.queue[1]
      BY <1>2, <2>1 DEF Moves
    <2> QED BY <2>1, <2>2
  <1>4. k.made = g.made /\ k.promise = g.promise /\ k.combine = g.combine /\ k.queue = Tail(g.queue)
    BY <1>1 DEF Retire, Heap
  <1>5. HeapOK(k)
    BY <1>1, <1>3, RetireSound DEF Sound
  <1>6. Len(k.queue) = n - 1 /\ \A i \in 1 .. n - 1 : k.queue[i] = g.queue[i + 1]
    BY <1>1, <1>3, <1>4, Retiring
  <1> HIDE DEF k, n
  <1>7. \A i \in 1 .. Len(k.queue) : i \in 1 .. n - 1 /\ i + 1 \in 1 .. n
    BY <1>3, <1>6
  <1>8. \A p \in Promise : Line(k, p) = Line(g, p)
    BY <1>4 DEF Line
  <1>9. QueueKinds(k)
    BY <1>4, <1>6, <1>7 DEF Moves, Neat, QueueKinds, KindOK, n
  <1>10. LineKinds(k) /\ CombinersMade(k) /\ LinesInOrder(k)
    BY <1>4, <1>8 DEF Moves, Neat, LineKinds, CombinersMade, LinesInOrder, KindOK
  <1>11. QueueInOrder(k)
    <2> SUFFICES ASSUME NEW i \in 1 .. Len(k.queue), NEW j \in 1 .. Len(k.queue), i < j
                 PROVE  Before(k.queue[i], k.queue[j])
      BY DEF QueueInOrder
    <2>1. i + 1 \in 1 .. n /\ j + 1 \in 1 .. n /\ i + 1 < j + 1
      BY <1>7
    <2>2. Before(g.queue[i + 1], g.queue[j + 1])
      BY <2>1 DEF Moves, Neat, QueueInOrder, n
    <2> QED BY <1>6, <1>7, <2>2
  <1>12. Neat(k) /\ Settling(h, k, S)
    BY <1>4, <1>5, <1>9, <1>10, <1>11 DEF Neat, Moves, Settling, Pending
  <1>13. ASSUME NEW T
         PROVE  Passes(h, k, T, {HeadRoute(h)}, A)
    <2>1. /\ Nowhere(h, 0, T) => Nowhere(h, 1, T)
          /\ HeadRoute(h) \notin T /\ Once(h, 0, T) => Once(h, 1, T)
          /\ HeadRoute(h) \in T /\ Once(h, 0, T) => Nowhere(h, 1, T)
          /\ HeadRoute(h) \in T => ~Nowhere(h, 0, T)
      BY <1>1, <1>2, RowsFinite, HeadLeft DEF HeadRoute
    <2>2. Gains(h, g, 1, T, A)
      BY <1>2 DEF Moves
    <2>3. /\ Nowhere(g, 1, T) => Nowhere(k, 0, T)
          /\ Once(g, 1, T) => Once(k, 0, T)
      <3>1. RowsOK(g) /\ \A a \in Promise : Row(k, a) = Row(g, a)
        BY <1>1, <1>8, RowsFinite, RowsAre
      <3> QED BY <1>3, <1>6, <3>1, HeadRetired DEF n
    <2> QED BY <2>1, <2>2, <2>3 DEF Passes, Gains
  <1>14. Goes(h, k, {HeadRoute(h)}, A, S)
    BY <1>12, <1>13 DEF Goes
  <1> QED BY <1>4, <1>14 DEF k

-----------------------------------------------------------------------------
(* The invariants: who wakes each async call, who settles each promise and *)
(* what each combinator still waits for.                                   *)

Routes ==
  [fiber : Fiber \cup {None}, result : Promise \cup {None},
   combine : Promise \cup {None}, index : 0 .. MaxInputs]
ToFiber(f) == {t \in Routes : t.fiber = f}
ToResult(p) == {t \in Routes : t.result = p}
ToInput(p, i) == {t \in Routes : t.combine = p /\ t.index = i}

(* The thread: between tasks nothing runs, and a task that runs is the     *)
(* callback, or the async call, at the head of the queue.                  *)
HeadRunning(h, run) ==
  IF h.queue[1].fiber # None THEN run # <<>> /\ run[1] = h.queue[1].fiber
                             ELSE h.queue[1].callback
CallsApart(run, fib) ==
  /\ \A i \in 1 .. Len(run) : fib[run[i]].state = "running"
  /\ \A i, j \in 1 .. Len(run) : run[i] = run[j] => i = j
Thread ==
  /\ phase = "loop" => running = <<>>
  /\ phase = "task" => HeadRunning(heap, running)
  /\ phase \notin UserPhase => adding = NotAdding
  /\ CallsApart(running, fiber)
  /\ \A f \in Fiber : fiber[f].state = "unused" => fiber[f].promise = None

(* A task that has been resumed is still in the queue until it is over.    *)
Resumed(f) == phase = "task" /\ HeadTask.fiber = f
Woken(h, f, waits) == IF waits THEN Once(h, 0, ToFiber(f)) ELSE Nowhere(h, 0, ToFiber(f))
Wakeups == \A f \in Fiber : Woken(heap, f, fiber[f].state = "suspended" \/ Resumed(f))

Unfinished(p) == {f \in Fiber : fiber[f].promise = p /\ fiber[f].state # "done"}
SettledBy(h, p, U) ==
  IF Pending(h, p)
  THEN \/ Once(h, 0, ToResult(p)) /\ U = {}
       \/ Nowhere(h, 0, ToResult(p)) /\ \E f \in Fiber : U = {f}
  ELSE Nowhere(h, 0, ToResult(p)) /\ U = {}
HasSettler(h, p) == h.promise[p].maker \in {"then", "async"}
Settlers ==
  phase # "failed" => \A p \in Reachable : HasSettler(heap, p) => SettledBy(heap, p, Unfinished(p))

(* The inputs a combinator has not heard from.                             *)
Inputs(h, p) == {i \in 0 .. MaxInputs : ~Nowhere(h, 0, ToInput(p, i))}
Owes(h, p) ==
  Pending(h, p) =>
    /\ \A i \in 0 .. MaxInputs : Once(h, 0, ToInput(p, i)) \/ Nowhere(h, 0, ToInput(p, i))
    /\ Inputs(h, p) # {}
    /\ h.combine[p].mode # "race" => /\ Cardinality(Inputs(h, p)) = h.combine[p].remaining
                                     /\ Inputs(h, p) \cap h.combine[p].filled = {}
(* The first n inputs of `count` are registered.                           *)
Fed(h, p, n, count) ==
  /\ \A i \in 1 .. n : Once(h, 0, ToInput(p, i))
  /\ \A i \in 0 .. MaxInputs : i \notin 1 .. n => Nowhere(h, 0, ToInput(p, i))
  /\ h.combine[p].mode # "race" => h.combine[p].remaining = count /\ h.combine[p].filled = {}
OwesNow(h, p, a) == IF a.target = p THEN Fed(h, p, a.next - 1, a.count) ELSE Owes(h, p)
Combiners ==
  phase # "failed" =>
    \A p \in Promise : heap.combine[p].mode # "none" => OwesNow(heap, p, adding)

(* The combinator that is being fed has its state already.                 *)
Feeding == adding # NotAdding => heap.combine[adding.target].mode # "none"

Waited == Neat(heap) /\ Thread /\ Wakeups /\ Settlers /\ Combiners /\ Feeding

-----------------------------------------------------------------------------
(* What a step does to those it does not name.                             *)

LEMMA OnceSomewhere ==
  ASSUME NEW h, NEW T, Once(h, 0, T)
  PROVE  ~Nowhere(h, 0, T)
  BY DEF Once, Nowhere

LEMMA SettledByKept ==
  ASSUME NEW h, NEW k, NEW B, NEW A, NEW S, Goes(h, k, B, A, S), NEW p \in Promise, NEW U,
         p \notin S, \A t \in A \cup B : t.result # p, SettledBy(h, p, U)
  PROVE  SettledBy(k, p, U)
  <1>1. A \cap ToResult(p) = {} /\ B \cap ToResult(p) = {}
    BY DEF ToResult
  <1>2. Passes(h, k, ToResult(p), B, A) /\ (Pending(k, p) <=> Pending(h, p))
    BY DEF Goes, Settling
  <1> QED BY <1>1, <1>2 DEF SettledBy, Passes

LEMMA SettlersExcept ==
  ASSUME Settlers, phase # "failed", NEW B, NEW A, NEW S, Goes(heap, heap', B, A, S),
         NEW x, S \subseteq {x}, \A t \in A \cup B : t.result \in {None, x},
         Reachable \subseteq Promise, Reachable' \subseteq Reachable \cup {x}, None \notin Promise,
         \A p \in Reachable : p # x => /\ heap'.promise[p].maker = heap.promise[p].maker
                                       /\ Unfinished(p)' = Unfinished(p),
         x \in Reachable' /\ HasSettler(heap', x) => SettledBy(heap', x, Unfinished(x)')
  PROVE  Settlers'
  <1> SUFFICES ASSUME NEW p \in Reachable', HasSettler(heap', p)
               PROVE  SettledBy(heap', p, Unfinished(p)')
    BY DEF Settlers
  <1>1. CASE p = x
    BY <1>1
  <1>2. CASE p # x
    <2>1. p \in Reachable /\ p \in Promise /\ p # None
      BY <1>2
    <2>2. HasSettler(heap, p) /\ Unfinished(p)' = Unfinished(p)
      BY <1>2, <2>1 DEF HasSettler
    <2>3. SettledBy(heap, p, Unfinished(p))
      BY <2>1, <2>2 DEF Settlers
    <2>4. p \notin S /\ \A t \in A \cup B : t.result # p
      BY <1>2, <2>1
    <2>5. SettledBy(heap', p, Unfinished(p))
      BY <2>1, <2>3, <2>4, SettledByKept
    <2> QED BY <2>2, <2>5
  <1> QED BY <1>1, <1>2

LEMMA OwesKept ==
  ASSUME NEW h, NEW k, NEW B, NEW A, NEW S, Goes(h, k, B, A, S), NEW p \in Promise,
         k.combine[p] = h.combine[p], \A t \in A \cup B : t.combine # p, Owes(h, p)
  PROVE  Owes(k, p)
  <1> SUFFICES ASSUME Pending(k, p)
               PROVE  Owes(k, p)
    BY DEF Owes
  <1>1. Pending(h, p)
    BY DEF Goes, Settling
  <1>2. \A i \in 0 .. MaxInputs : /\ Nowhere(h, 0, ToInput(p, i)) => Nowhere(k, 0, ToInput(p, i))
                                  /\ Once(h, 0, ToInput(p, i)) => Once(k, 0, ToInput(p, i))
    <2> SUFFICES ASSUME NEW i \in 0 .. MaxInputs
                 PROVE  /\ Nowhere(h, 0, ToInput(p, i)) => Nowhere(k, 0, ToInput(p, i))
                        /\ Once(h, 0, ToInput(p, i)) => Once(k, 0, ToInput(p, i))
      OBVIOUS
    <2>1. A \cap ToInput(p, i) = {} /\ B \cap ToInput(p, i) = {}
      BY DEF ToInput
    <2>2. Passes(h, k, ToInput(p, i), B, A)
      BY DEF Goes
    <2> QED BY <2>1, <2>2 DEF Passes
  <1>3. \A i \in 0 .. MaxInputs : Once(h, 0, ToInput(p, i)) \/ Nowhere(h, 0, ToInput(p, i))
    BY <1>1 DEF Owes
  <1>4. Inputs(k, p) = Inputs(h, p)
    BY <1>2, <1>3, OnceSomewhere DEF Inputs
  <1> QED BY <1>1, <1>2, <1>4 DEF Owes

LEMMA CombinersExcept ==
  ASSUME Combiners, phase # "failed", NEW B, NEW A, NEW S, Goes(heap, heap', B, A, S),
         NEW x, \A t \in A \cup B : t.combine \in {None, x}, None \notin Promise,
         adding.target \in {None, x}, adding'.target \in {None, x},
         \A p \in Promise : p # x => heap'.combine[p] = heap.combine[p],
         x \in Promise /\ heap'.combine[x].mode # "none" => OwesNow(heap', x, adding')
  PROVE  Combiners'
  <1> SUFFICES ASSUME NEW p \in Promise, heap'.combine[p].mode # "none"
               PROVE  OwesNow(heap', p, adding')
    BY DEF Combiners
  <1>1. CASE p = x
    BY <1>1
  <1>2. CASE p # x
    <2>1. p # None /\ p # adding.target /\ p # adding'.target
      BY <1>2
    <2>2. Owes(heap, p)
      BY <1>2, <2>1 DEF Combiners, OwesNow
    <2>3. \A t \in A \cup B : t.combine # p
      BY <1>2, <2>1
    <2>4. Owes(heap', p)
      BY <1>2, <2>2, <2>3, OwesKept
    <2> QED BY <2>1, <2>4 DEF OwesNow
  <1> QED BY <1>1, <1>2

LEMMA WakeupsExcept ==
  ASSUME Wakeups, NEW B, NEW A, NEW S, Goes(heap, heap', B, A, S),
         NEW x, \A t \in A \cup B : t.fiber \in {None, x}, None \notin Fiber,
         \A f \in Fiber : f # x => /\ fiber'[f].state = fiber[f].state
                                   /\ Resumed(f)' <=> Resumed(f),
         x \in Fiber => Woken(heap', x, fiber'[x].state = "suspended" \/ Resumed(x)')
  PROVE  Wakeups'
  <1> SUFFICES ASSUME NEW f \in Fiber
               PROVE  Woken(heap', f, fiber'[f].state = "suspended" \/ Resumed(f)')
    BY DEF Wakeups
  <1>1. CASE f = x
    BY <1>1
  <1>2. CASE f # x
    <2>1. A \cap ToFiber(f) = {} /\ B \cap ToFiber(f) = {}
      BY <1>2 DEF ToFiber
    <2>2. Passes(heap, heap', ToFiber(f), B, A)
      BY DEF Goes
    <2>3. Woken(heap, f, fiber[f].state = "suspended" \/ Resumed(f))
      BY DEF Wakeups
    <2> QED BY <1>2, <2>1, <2>2, <2>3 DEF Passes, Woken
  <1> QED BY <1>1, <1>2

-----------------------------------------------------------------------------
(* Calls on promises.                                                      *)

LEMMA Nobody ==
  ASSUME IInv
  PROVE  /\ None \notin Promise /\ None \notin Fiber /\ Reachable \subseteq Promise
         /\ heap.made \in Nat /\ heap.queue \in Seq(Microtask)
         /\ NotAdding.target = None
         /\ "failed" \notin UserPhase /\ "loop" \notin UserPhase
  <1>1. heap \in Heap
    BY DEF IInv, HeapOK
  <1>2. None \notin Promise /\ None \notin Fiber
    BY PromisesAssumption DEF None, Promise, Fiber
  <1> QED BY <1>1, <1>2, HeapFields, PromisesAssumption DEF Reachable, NotAdding, UserPhase

LEMMA HeadStays ==
  ASSUME NEW h, HeapOK(h), h.queue # <<>>, NEW g, NEW A, NEW S, Moves(h, g, A, S)
  PROVE  g.queue # <<>> /\ g.queue[1] = h.queue[1]
  <1>1. Len(h.queue) \in Nat /\ 1 \in 1 .. Len(h.queue)
    BY Sources
  <1>2. Len(g.queue) \in Nat
    BY Sources DEF Moves, Neat
  <1>3. Len(g.queue) # 0
    BY <1>1, <1>2 DEF Moves
  <1> QED BY <1>1, <1>3 DEF Moves

(* A step of program code that changes the heap, and of the rest only what *)
(* nobody waits for.                                                       *)
LEMMA ThreadStays ==
  ASSUME IInv, Thread, phase \in UserPhase, UNCHANGED <<fiber, running, phase>>,
         NEW A, NEW S, Moves(heap, heap', A, S)
  PROVE  Thread' /\ \A f \in Fiber : Resumed(f)' <=> Resumed(f)
  <1>1. phase = "task" => heap'.queue[1] = heap.queue[1]
    BY HeadStays DEF IInv, Control
  <1> QED BY <1>1 DEF Thread, HeadRunning, CallsApart, Resumed, HeadTask

LEMMA CallKeeps ==
  ASSUME IInv, Waited, UserRuns, NEW g, Leaves(g), NEW A, NEW S, Moves(heap, g, A, S),
         NEW x, S \subseteq {x},
         \A t \in A : t.fiber = None /\ t.combine = None /\ t.result \in {None, x},
         g.combine = heap.combine,
         \A p \in Promise : p # x => g.promise[p].maker = heap.promise[p].maker,
         Allocated(g) \subseteq Allocated(heap) \cup {x},
         x \in Allocated(g) /\ HasSettler(g, x) => SettledBy(g, x, Unfinished(x))
  PROVE  Waited'
  <1>1. /\ heap' = g /\ adding = NotAdding /\ adding' = NotAdding /\ phase \in UserPhase
        /\ UNCHANGED <<fiber, running, phase>>
    BY DEF Leaves, UserRuns
  <1>2. Goes(heap, heap', {}, A, S)
    BY <1>1, MovesGoes DEF Waited
  <1>3. Thread' /\ \A f \in Fiber : Resumed(f)' <=> Resumed(f)
    BY <1>1, ThreadStays DEF Waited
  <1>4. Wakeups'
    <2>1. \A t \in A \cup {} : t.fiber \in {None, None}
      OBVIOUS
    <2> QED BY <1>1, <1>2, <1>3, <2>1, Nobody, WakeupsExcept DEF Waited
  <1>5. Settlers'
    <2>1. \A p \in Promise : Unfinished(p)' = Unfinished(p)
      BY <1>1 DEF Unfinished
    <2>2. Reachable' \subseteq Reachable \cup {x} /\ \A t \in A \cup {} : t.result \in {None, x}
      BY <1>1 DEF Reachable
    <2>3. x \in Reachable' /\ HasSettler(heap', x) => SettledBy(heap', x, Unfinished(x)')
      BY <1>1 DEF Reachable, Unfinished
    <2>4. \A p \in Reachable : p # x => /\ heap'.promise[p].maker = heap.promise[p].maker
                                        /\ Unfinished(p)' = Unfinished(p)
      BY <1>1, <2>1, Nobody
    <2> QED BY <1>1, <1>2, <2>2, <2>3, <2>4, Nobody, SettlersExcept DEF Waited
  <1>6. Combiners'
    <2>1. \A t \in A \cup {} : t.combine \in {None, None}
      OBVIOUS
    <2> QED BY <1>1, <1>2, <2>1, Nobody, CombinersExcept DEF Waited
  <1> QED BY <1>1, <1>2, <1>3, <1>4, <1>5, <1>6 DEF Waited, Goes, Feeding

(* Nothing waits on a promise that is not there yet, and no call is to     *)
(* settle it.                                                              *)
LEMMA FreshAlone ==
  ASSUME IInv, Waited, NEW p \in Promise, p > heap.made
  PROVE  /\ Nowhere(heap, 0, ToResult(p))
         /\ \A i \in 0 .. MaxInputs : Nowhere(heap, 0, ToInput(p, i))
         /\ Unfinished(p) = {} /\ Pending(heap, p)
  <1>1. /\ HeapOK(heap) /\ heap.made \in Nat /\ p \in Nat /\ ~(p <= heap.made)
    BY Nobody DEF IInv, Promise
  <1>2. ASSUME NEW a \in Rows, NEW i \in 1 .. Len(Row(heap, a))
        PROVE  Row(heap, a)[i].result # p /\ Row(heap, a)[i].combine # p
    <2>1. RefersTo(heap, Row(heap, a)[i])
      BY <1>1, RowsAre DEF HeapOK, RefsAllocated, Line
    <2> QED BY <1>1, <2>1 DEF RefersTo
  <1>3. Nowhere(heap, 0, ToResult(p)) /\ \A i \in 0 .. MaxInputs : Nowhere(heap, 0, ToInput(p, i))
    BY <1>2 DEF Nowhere, Meets, ToResult, ToInput, Route
  <1>4. Unfinished(p) = {}
    <2>1. \A f \in Fiber : fiber[f].promise <= heap.made
      BY DEF IInv, Control
    <2> QED BY <1>1, <2>1 DEF Unfinished
  <1> QED BY <1>1, <1>3, <1>4 DEF HeapOK, RefsAllocated

(* A promise the call allocates before it does anything else.              *)
LEMMA NewMoves ==
  ASSUME IInv, Listened, Waited, heap.made + 1 <= MaxPromises, NEW maker \in Maker
  PROVE  LET h == Allocate(heap, maker)
             f == Fresh(heap)
         IN  /\ Moves(heap, h, {}, {}) /\ Numbered(h) /\ Neat(h)
             /\ h.made = f /\ h.combine = heap.combine /\ heap.combine[f].mode = "none"
             /\ \A p \in Promise : p # f => h.promise[p].maker = heap.promise[p].maker
             /\ h.promise[f].maker = maker
             /\ f \in Promise /\ f > heap.made /\ f \in Allocated(h)
             /\ Allocated(h) \subseteq Allocated(heap) \cup {f}
             /\ Allocated(heap) \subseteq Allocated(h)
  <1> DEFINE h == Allocate(heap, maker)
             f == Fresh(heap)
  <1>1. /\ Moves(heap, h, {}, {}) /\ Numbered(h)
        /\ h.made = f /\ h.combine = heap.combine /\ heap.combine[f].mode = "none"
        /\ \A p \in Promise : p # f => h.promise[p].maker = heap.promise[p].maker
        /\ h.promise[f].maker = maker
        /\ f \in Promise /\ f > heap.made /\ f \in Allocated(h)
    BY AllocateMoves DEF Waited, Listened
  <1>2. Allocated(h) \subseteq Allocated(heap) \cup {f} /\ Allocated(heap) \subseteq Allocated(h)
    <2>1. h.made = heap.made + 1 /\ f = heap.made + 1 /\ heap.made \in Nat
      BY <1>1, Nobody DEF Fresh
    <2> HIDE DEF h, f
    <2> QED BY <2>1 DEF Allocated
  <1> HIDE DEF h, f
  <1>3. Neat(h)
    BY <1>1 DEF Moves
  <1> QED BY <1>1, <1>2, <1>3 DEF h, f

(* `new Promise`, Promise.resolve, Promise.reject and the two functions an *)
(* executor is handed.                                                     *)
LEMMA SettleCallsWaited ==
  ASSUME IInv, Listened, Waited,
         \/ promiseConstruct
         \/ \E v \in Value : promiseRejectStatic(v) \/ promiseResolve(v)
         \/ \E p \in Reachable : \/ \E v \in Argument : resolveFunction(p, v)
                                \/ \E v \in Value : rejectFunction(p, v)
  PROVE  Waited'
  <1> DEFINE h == Allocate(heap, "program")
             f == Fresh(heap)
  <1> USE Arguments, Nobody
  <1>0. Neat(heap) /\ Numbered(heap)
    BY DEF Waited, Listened
  <1>1. ASSUME heap.made + 1 <= MaxPromises
        PROVE  /\ Moves(heap, h, {}, {}) /\ Numbered(h) /\ Neat(h)
               /\ h.made = f /\ h.combine = heap.combine
               /\ \A p \in Promise : p # f => h.promise[p].maker = heap.promise[p].maker
               /\ h.promise[f].maker = "program"
               /\ f \in Allocated(h) /\ f \in Promise /\ Allocated(h) \subseteq Allocated(heap) \cup {f}
    <2>1. "program" \in Maker
      BY DEF Maker
    <2> QED BY <1>1, <2>1, NewMoves
  <1> HIDE DEF h, f
  <1>2. CASE promiseConstruct
    <2>1. /\ heap.made + 1 <= MaxPromises /\ Leaves(h) /\ UserRuns
      BY <1>2 DEF promiseConstruct, Calls, h
    <2>2. ~HasSettler(h, f)
      BY <1>1, <2>1 DEF HasSettler
    <2> QED BY <1>1, <2>1, <2>2, CallKeeps
  <1>3. ASSUME NEW g, heap.made + 1 <= MaxPromises, Leaves(g), UserRuns,
               NEW A, NEW S, Decides(h, g, f, A, S)
        PROVE  Waited'
    <2>1. Moves(heap, g, A, S)
      BY <1>0, <1>1, <1>3, MovesThen DEF Decides
    <2>2. S \subseteq {f} /\ \A t \in A : t.fiber = None /\ t.combine = None /\ t.result \in {None, f}
      BY <1>3 DEF Decides, To
    <2>3. /\ g.made = h.made /\ g.combine = h.combine
          /\ \A p \in Promise : g.promise[p].maker = h.promise[p].maker
      BY <1>3 DEF Decides, SameCast
    <2>4. ~HasSettler(g, f)
      BY <1>1, <1>3, <2>3 DEF HasSettler
    <2>5. Allocated(g) \subseteq Allocated(heap) \cup {f}
      BY <1>1, <1>3, <2>3 DEF Allocated
    <2> QED BY <1>1, <1>3, <2>1, <2>2, <2>3, <2>4, <2>5, CallKeeps
  <1>4. ASSUME NEW v \in Value, promiseRejectStatic(v)
        PROVE  Waited'
    <2>1. /\ heap.made + 1 <= MaxPromises /\ Leaves(csPromiseReject(h, f, v)) /\ UserRuns
      BY <1>4 DEF promiseRejectStatic, Calls, h, f
    <2>2. Decides(h, csPromiseReject(h, f, v), f, {}, {f})
      BY <1>1, <2>1, RejectDecides
    <2> QED BY <1>3, <2>1, <2>2
  <1>5. ASSUME NEW v \in Value, promiseResolve(v)
        PROVE  Waited'
    <2>1. /\ heap.made + 1 <= MaxPromises /\ Leaves(csPromiseFulfill(h, f, v)) /\ UserRuns
      BY <1>5 DEF promiseResolve, Calls, h, f
    <2>2. PICK A, S : Decides(h, csPromiseFulfill(h, f, v), f, A, S)
      BY <1>1, <2>1, FulfillDecides
    <2> QED BY <1>3, <2>1, <2>2
  <1>6. ASSUME NEW p \in Reachable, ProgramPromise(p), NEW g, Leaves(g), UserRuns,
               NEW A, NEW S, Decides(heap, g, p, A, S)
        PROVE  Waited'
    <2>1. S \subseteq {p} /\ \A t \in A : t.fiber = None /\ t.combine = None /\ t.result \in {None, p}
      BY <1>6 DEF Decides, To
    <2>2. /\ g.made = heap.made /\ g.combine = heap.combine /\ Moves(heap, g, A, S)
          /\ \A q \in Promise : g.promise[q].maker = heap.promise[q].maker
      BY <1>6 DEF Decides, SameCast
    <2>3. ~HasSettler(g, p)
      BY <1>6, <2>2 DEF HasSettler, ProgramPromise
    <2>4. Allocated(g) \subseteq Allocated(heap) \cup {p}
      BY <2>2 DEF Allocated
    <2> QED BY <1>6, <2>1, <2>2, <2>3, <2>4, CallKeeps
  <1>7. ASSUME NEW p \in Reachable, NEW v \in Argument, resolveFunction(p, v)
        PROVE  Waited'
    <2>1. PICK A, S : Decides(heap, csPromiseFulfill(heap, p, v), p, A, S)
      BY <1>0, FulfillDecides DEF Reachable
    <2> QED BY <1>6, <1>7, <2>1 DEF resolveFunction, Calls
  <1>8. ASSUME NEW p \in Reachable, NEW v \in Value, rejectFunction(p, v)
        PROVE  Waited'
    <2>1. Decides(heap, csPromiseReject(heap, p, v), p, {}, {p})
      BY <1>0, RejectDecides DEF Reachable
    <2> QED BY <1>6, <1>8, <2>1 DEF rejectFunction, Calls
  <1> QED BY <1>2, <1>4, <1>5, <1>7, <1>8

(* `.then`, `.catch` and `.finally`: the promise they return is settled by *)
(* the reaction they register.                                             *)
LEMMA ListenCallsWaited ==
  ASSUME IInv, Listened, Waited, NEW p \in Reachable,
         \/ \E f, r \in BOOLEAN : promiseThen(p, f, r)
         \/ \E f \in BOOLEAN : promiseFinally(p, f)
  PROVE  Waited'
  <1> DEFINE h == Allocate(heap, "then")
             f == Fresh(heap)
  <1>1. PICK reaction :
          /\ heap.made + 1 <= MaxPromises /\ UserRuns
          /\ Leaves(csPromiseAddReaction(h, p, reaction))
          /\ \/ \E a, b \in BOOLEAN : reaction = ThenReaction(a, b, f)
             \/ \E a \in BOOLEAN : reaction = FinallyReaction(a, f)
    BY DEF promiseThen, promiseFinally, Calls
  <1>2. /\ Moves(heap, h, {}, {}) /\ Numbered(h) /\ Neat(h)
        /\ h.made = f /\ h.combine = heap.combine
        /\ \A q \in Promise : q # f => h.promise[q].maker = heap.promise[q].maker
        /\ f \in Promise /\ f > heap.made /\ f \in Allocated(h)
        /\ Allocated(h) \subseteq Allocated(heap) \cup {f}
        /\ p \in Allocated(h)
    BY <1>1, NewMoves DEF Maker, Reachable
  <1> HIDE DEF h, f
  <1>3. reaction \in Reaction /\ RefersTo(h, reaction)
    BY <1>1, <1>2, ReactionsOK DEF Neat, HeapOK
  <1>4. KindOK(h, reaction, reaction.onFulfilled \/ reaction.onRejected) /\ Route(reaction) = To(f)
    BY <1>1 DEF ThenReaction, FinallyReaction, PlainReaction, KindOK, Route, To, None
  <1> DEFINE g == csPromiseAddReaction(h, p, reaction)
  <1>5. Moves(h, g, {To(f)}, {}) /\ SameCast(h, g)
    BY <1>2, <1>3, <1>4, ListenMoves
  <1> HIDE DEF g
  <1>6. Moves(heap, g, {To(f)}, {})
    BY <1>2, <1>5, MovesThen DEF Waited
  <1>7. SettledBy(g, f, Unfinished(f))
    <2>1. Nowhere(heap, 0, ToResult(f)) /\ Unfinished(f) = {} /\ Pending(heap, f)
      BY <1>2, FreshAlone
    <2>2. Goes(heap, g, {}, {To(f)}, {})
      BY <1>6, MovesGoes DEF Waited
    <2>3. {To(f)} \cap ToResult(f) # {}
      <3>1. To(f) \in Routes /\ To(f).result = f
        BY <1>2, PromisesAssumption DEF To, Routes, None
      <3> QED BY <3>1 DEF ToResult
    <2>4. Once(g, 0, ToResult(f)) /\ Pending(g, f)
      BY <1>2, <2>1, <2>2, <2>3 DEF Goes, Passes, Settling
    <2> QED BY <2>1, <2>4 DEF SettledBy
  <1>8. /\ g.combine = heap.combine
        /\ \A q \in Promise : q # f => g.promise[q].maker = heap.promise[q].maker
        /\ Allocated(g) \subseteq Allocated(heap) \cup {f}
    BY <1>2, <1>5 DEF SameCast, Allocated
  <1>9. \A t \in {To(f)} : t.fiber = None /\ t.combine = None /\ t.result \in {None, f}
    BY DEF To
  <1> QED BY <1>1, <1>6, <1>7, <1>8, <1>9, CallKeeps DEF g

(* queueMicrotask, and a combinator over nothing.                          *)
LEMMA QueueCallsWaited ==
  ASSUME IInv, Listened, Waited, (\E mode \in Mode : combinatorEmpty(mode)) \/ queueMicrotaskNative
  PROVE  Waited'
  <1> USE Arguments
  <1>1. ASSUME NEW mode \in Mode, combinatorEmpty(mode)
        PROVE  Waited'
    <2> DEFINE h == Allocate(heap, "combinator")
               f == Fresh(heap)
    <2>1. PICK g : /\ heap.made + 1 <= MaxPromises /\ UserRuns /\ Leaves(g)
                   /\ \/ g = csPromiseFulfill(h, f, Results)
                      \/ g = csPromiseReject(h, f, Aggregate)
                      \/ g = h
      BY <1>1 DEF combinatorEmpty, Calls, Mode
    <2>2. /\ Moves(heap, h, {}, {}) /\ Numbered(h) /\ Neat(h)
          /\ h.made = f /\ h.combine = heap.combine
          /\ \A q \in Promise : q # f => h.promise[q].maker = heap.promise[q].maker
          /\ h.promise[f].maker = "combinator"
          /\ f \in Promise /\ f \in Allocated(h)
          /\ Allocated(h) \subseteq Allocated(heap) \cup {f}
      BY <2>1, NewMoves DEF Maker
    <2> HIDE DEF h, f
    <2>3. PICK A, S : Decides(h, g, f, A, S) \/ (g = h /\ A = {} /\ S = {})
      <3>1. CASE g = csPromiseFulfill(h, f, Results)
        BY <2>2, <3>1, FulfillDecides
      <3>2. CASE g = csPromiseReject(h, f, Aggregate)
        BY <2>2, <3>2, RejectDecides
      <3> QED BY <2>1, <3>1, <3>2
    <2>4. Moves(heap, g, A, S) /\ SameCast(h, g)
      BY <2>2, <2>3, MovesThen, MovesItself DEF Decides, Waited
    <2>5. S \subseteq {f} /\ \A t \in A : t.fiber = None /\ t.combine = None /\ t.result \in {None, f}
      BY <2>3 DEF Decides, To
    <2>6. /\ g.combine = heap.combine
          /\ \A q \in Promise : q # f => g.promise[q].maker = heap.promise[q].maker
          /\ Allocated(g) \subseteq Allocated(heap) \cup {f} /\ ~HasSettler(g, f)
      BY <2>2, <2>4 DEF SameCast, Allocated, HasSettler
    <2> QED BY <2>1, <2>4, <2>5, <2>6, CallKeeps
  <1>2. CASE queueMicrotaskNative
    <2> DEFINE t == PlainTask(TRUE, Undefined, None, FALSE)
               g == csVMQueueMicrotask(heap, t)
    <2>1. TaskOK(heap, t)
      BY PlainTaskOK
    <2>2. /\ t.src = None /\ KindOK(heap, t, t.callback)
          /\ Route(t).fiber = None /\ Route(t).combine = None /\ Route(t).result = None
      BY DEF PlainTask, KindOK, Route, None
    <2>3. Leaves(g) /\ UserRuns
      BY <1>2 DEF queueMicrotaskNative, Calls
    <2> HIDE DEF t
    <2>4. Moves(heap, g, {Route(t)}, {}) /\ SameCast(heap, g)
      BY <2>1, <2>2, EnqueueMoves DEF Waited
    <2> HIDE DEF g
    <2>5. \A u \in {Route(t)} : u.fiber = None /\ u.combine = None /\ u.result \in {None, None}
      BY <2>2
    <2>6. /\ g.combine = heap.combine
          /\ \A q \in Promise : q # None => g.promise[q].maker = heap.promise[q].maker
          /\ Allocated(g) \subseteq Allocated(heap) \cup {None}
          /\ None \notin Allocated(g)
      BY <2>4 DEF SameCast, Allocated, None
    <2> QED BY <2>3, <2>4, <2>5, <2>6, CallKeeps
  <1> QED BY <1>1, <1>2

(* A combinator over inputs: it waits for none yet.                        *)
LEMMA CombinatorWaited ==
  ASSUME IInv, Listened, Waited, NEW mode \in Mode, NEW n \in 1 .. MaxInputs, combinator(mode, n)
  PROVE  Waited'
  <1> DEFINE h == Allocate(heap, "combinator")
             f == Fresh(heap)
             s == combineState(mode, n)
             c == [h.combine EXCEPT ![f] = s]
  <1>1. /\ heap.made + 1 <= MaxPromises /\ UserRuns /\ phase \in UserPhase /\ adding = NotAdding
        /\ heap' = [h EXCEPT !.combine[f] = s]
        /\ adding'.target = f /\ adding'.next = 1 /\ adding'.count = n
        /\ UNCHANGED <<fiber, running, phase>>
    BY DEF combinator, Calls, UserRuns
  <1>2. /\ Moves(heap, h, {}, {}) /\ Neat(h)
        /\ h.made = f /\ h.combine = heap.combine
        /\ \A q \in Promise : q # f => h.promise[q].maker = heap.promise[q].maker
        /\ h.promise[f].maker = "combinator"
        /\ f \in Promise /\ f > heap.made
        /\ Allocated(h) \subseteq Allocated(heap) \cup {f}
    BY <1>1, NewMoves DEF Maker
  <1>3. h.combine \in [Promise -> CombineState] /\ h \in Heap
    BY <1>2, HeapFields DEF Neat, HeapOK
  <1>4. /\ s \in CombineState /\ s.mode # "none" /\ s.mode = mode /\ s.filled = {}
        /\ mode # "race" => s.remaining = n
    BY PromisesAssumption DEF combineState, CombineState, Mode
  <1> HIDE DEF h, f, s
  <1>5. heap' = [h EXCEPT !.combine = c]
    BY <1>1, <1>3 DEF Heap
  <1>6. /\ c \in [Promise -> CombineState] /\ c[f] = s
        /\ \A q \in Promise : q # f => c[q] = h.combine[q]
    BY <1>2, <1>3, <1>4
  <1> HIDE DEF c
  <1>7. /\ \A q \in Promise : h.combine[q].mode # "none" => c[q].mode # "none"
        /\ \A q \in Promise : c[q].mode # "none" => q <= h.made /\ h.promise[q].maker = "combinator"
    <2>1. f <= h.made
      BY <1>2 DEF Promise
    <2> QED BY <1>2, <1>4, <1>6, <2>1 DEF Neat, CombinersMade
  <1>8. /\ Moves(h, heap', {}, {})
        /\ heap'.made = h.made /\ heap'.promise = h.promise /\ heap'.combine = c
    BY <1>2, <1>5, <1>6, <1>7, CombineMoves
  <1>9. Moves(heap, heap', {}, {})
    BY <1>2, <1>8, MovesThen DEF Waited
  <1>10. Goes(heap, heap', {}, {}, {})
    BY <1>9, MovesGoes DEF Waited
  <1>11. Thread' /\ \A g \in Fiber : Resumed(g)' <=> Resumed(g)
    BY <1>1, <1>9, ThreadStays DEF Waited
  <1>12. \A t \in {} \cup {} : t.fiber \in {None, None} /\ t.result \in {None, f} /\ t.combine \in {None, f}
    OBVIOUS
  <1>13. Wakeups'
    BY <1>1, <1>10, <1>11, <1>12, Nobody, WakeupsExcept DEF Waited
  <1>14. Settlers'
    <2>1. \A q \in Promise : Unfinished(q)' = Unfinished(q)
      BY <1>1 DEF Unfinished
    <2>2. Reachable' \subseteq Reachable \cup {f}
      BY <1>2, <1>8 DEF Reachable, Allocated
    <2>3. ~HasSettler(heap', f)
      BY <1>2, <1>8 DEF HasSettler
    <2>4. \A q \in Reachable : q # f => /\ heap'.promise[q].maker = heap.promise[q].maker
                                        /\ Unfinished(q)' = Unfinished(q)
      BY <1>2, <1>8, <2>1, Nobody
    <2> QED BY <1>1, <1>10, <1>12, <2>2, <2>3, <2>4, Nobody, SettlersExcept DEF Waited
  <1>15. Combiners'
    <2>1. \A i \in 0 .. MaxInputs : Nowhere(heap', 0, ToInput(f, i))
      BY <1>2, <1>10, FreshAlone DEF Goes, Passes
    <2>2. OwesNow(heap', f, adding')
      <3>1. heap'.combine[f].mode # "race" => heap'.combine[f].remaining = n /\ heap'.combine[f].filled = {}
        BY <1>4, <1>6, <1>8
      <3>2. Fed(heap', f, 0, n)
        BY <2>1, <3>1 DEF Fed
      <3> QED BY <1>1, <3>2 DEF OwesNow
    <2>3. \A q \in Promise : q # f => heap'.combine[q] = heap.combine[q]
      BY <1>2, <1>6, <1>8
    <2>4. adding.target \in {None, f} /\ adding'.target \in {None, f}
      BY <1>1, Nobody
    <2> QED BY <1>1, <1>10, <1>12, <2>2, <2>3, <2>4, Nobody, CombinersExcept DEF Waited
  <1>16. Feeding'
    BY <1>1, <1>4, <1>6, <1>8 DEF Feeding
  <1> QED BY <1>10, <1>11, <1>13, <1>14, <1>15, <1>16 DEF Waited, Goes

(* An input of a combinator is registered, or queued if it is no promise.  *)
ToCombine(p, i) == [fiber |-> None, result |-> None, combine |-> p, index |-> i]

LEMMA InputMoves ==
  ASSUME IInv, Listened, Waited, NEW v \in Argument, combinatorInput(v)
  PROVE  /\ phase \in UserPhase /\ adding # NotAdding
         /\ adding.target \in Allocated(heap) /\ adding.next \in 1 .. adding.count
         /\ adding.count \in Nat /\ adding.count <= MaxInputs /\ adding.next \in Nat
         /\ Moves(heap, heap', {ToCombine(adding.target, adding.next)}, {})
         /\ SameCast(heap, heap')
  <1> USE Arguments
  <1> DEFINE p == adding.target
             i == adding.next
  <1>1. /\ phase \in UserPhase /\ adding # NotAdding
        /\ \/ v \in Promise /\ heap' = csPromiseAddReaction(heap, v, CombineReaction(p, i))
           \/ v \notin Promise /\ heap' = csVMQueueCombine(heap, p, i, v)
    BY DEF combinatorInput
  <1>2. /\ p \in Allocated(heap) /\ i \in 0 .. MaxInputs /\ i \in 1 .. adding.count
        /\ adding.count \in Nat /\ adding.count <= MaxInputs /\ i \in Nat
    <2>1. /\ p \in Allocated(heap) /\ i \in 1 .. adding.count
          /\ adding.count <= MaxInputs /\ adding.count \in Nat
      BY <1>1 DEF IInv, TypeOK, Control
    <2> QED BY <2>1, PromisesAssumption
  <1>3. Neat(heap) /\ Numbered(heap) /\ heap.combine[p].mode # "none"
    BY <1>1 DEF Waited, Listened, Feeding
  <1>4. CASE v \in Promise
    <2> DEFINE r == CombineReaction(p, i)
    <2>1. v \in Allocated(heap) /\ r \in Reaction /\ RefersTo(heap, r)
      BY <1>2, <1>4, ReactionsOK
    <2>2. KindOK(heap, r, r.onFulfilled \/ r.onRejected) /\ Route(r) = ToCombine(p, i)
      BY <1>3 DEF CombineReaction, PlainReaction, KindOK, Route, ToCombine, None
    <2>3. heap' = csPromiseAddReaction(heap, v, r)
      BY <1>1, <1>4
    <2> HIDE DEF r
    <2>4. Moves(heap, heap', {ToCombine(p, i)}, {}) /\ SameCast(heap, heap')
      BY <1>3, <2>1, <2>2, <2>3, ListenMoves
    <2> QED BY <1>1, <1>2, <2>4
  <1>5. CASE v \notin Promise
    <2> DEFINE t == [PlainTask(FALSE, v, None, FALSE) EXCEPT !.combine = p, !.index = i]
    <2>1. v \in Datum
      BY <1>5, HeapFields
    <2>2. TaskOK(heap, t)
      BY <1>2, <2>1, PlainTaskOK
    <2>3. t.src = None /\ KindOK(heap, t, t.callback) /\ Route(t) = ToCombine(p, i)
      BY <1>3 DEF PlainTask, KindOK, Route, ToCombine, None
    <2>4. heap' = csVMQueueMicrotask(heap, t)
      BY <1>1, <1>5 DEF csVMQueueCombine
    <2> HIDE DEF t
    <2>5. Moves(heap, heap', {ToCombine(p, i)}, {}) /\ SameCast(heap, heap')
      BY <1>3, <2>2, <2>3, <2>4, EnqueueMoves
    <2> QED BY <1>1, <1>2, <2>5
  <1> QED BY <1>4, <1>5

(* The first n inputs of a combinator become the first n + 1.              *)
LEMMA FedMore ==
  ASSUME NEW h, NEW k, NEW p \in Promise, NEW n \in Nat, NEW count \in Nat, n + 1 <= MaxInputs,
         Goes(h, k, {}, {ToCombine(p, n + 1)}, {}), k.combine[p] = h.combine[p], Fed(h, p, n, count)
  PROVE  Fed(k, p, n + 1, count)
  <1> DEFINE x == ToCombine(p, n + 1)
  <1>1. n + 1 \in 0 .. MaxInputs /\ None \in Fiber \cup {None} /\ None \in Promise \cup {None}
    BY PromisesAssumption
  <1>2. x \in Routes /\ x.combine = p /\ x.index = n + 1
    BY <1>1 DEF ToCombine, Routes
  <1> HIDE DEF x
  <1>3. \A i \in 0 .. MaxInputs : x \in ToInput(p, i) <=> i = n + 1
    BY <1>2 DEF ToInput
  <1>4. ASSUME NEW i \in 0 .. MaxInputs
        PROVE  IF i = n + 1 THEN Nowhere(h, 0, ToInput(p, i)) => Once(k, 0, ToInput(p, i))
                            ELSE /\ Nowhere(h, 0, ToInput(p, i)) => Nowhere(k, 0, ToInput(p, i))
                                 /\ Once(h, 0, ToInput(p, i)) => Once(k, 0, ToInput(p, i))
    <2> DEFINE T == ToInput(p, i)
    <2>1. Passes(h, k, T, {}, {x})
      BY DEF Goes, x
    <2>2. {x} \cap T # {} <=> i = n + 1
      BY <1>3
    <2> HIDE DEF T
    <2>3. IF i = n + 1 THEN Nowhere(h, 0, T) => Once(k, 0, T)
                       ELSE /\ Nowhere(h, 0, T) => Nowhere(k, 0, T)
                            /\ Once(h, 0, T) => Once(k, 0, T)
      BY <2>1, <2>2 DEF Passes
    <2> QED BY <2>3 DEF T
  <1>5. \A i \in 1 .. n : Once(k, 0, ToInput(p, i))
    <2>1. \A i \in 1 .. n : i \in 0 .. MaxInputs /\ i # n + 1
      BY PromisesAssumption
    <2> QED BY <1>4, <2>1 DEF Fed
  <1>6. Once(k, 0, ToInput(p, n + 1))
    <2>1. n + 1 \notin 1 .. n
      OBVIOUS
    <2> QED BY <1>1, <1>4, <2>1 DEF Fed
  <1>7. \A i \in 0 .. MaxInputs : i \notin 1 .. n + 1 => Nowhere(k, 0, ToInput(p, i))
    <2>1. \A i \in 0 .. MaxInputs : i \notin 1 .. n + 1 => i \notin 1 .. n /\ i # n + 1
      BY PromisesAssumption
    <2> QED BY <1>4, <2>1 DEF Fed
  <1>8. \A i \in 1 .. n + 1 : i \in 1 .. n \/ i = n + 1
    OBVIOUS
  <1> QED BY <1>5, <1>6, <1>7, <1>8 DEF Fed

(* A combinator that was fed all its inputs owes all of them.              *)
LEMMA FedOwes ==
  ASSUME NEW h, NEW p, NEW n \in Nat, n > 0, n <= MaxInputs, Fed(h, p, n, n)
  PROVE  Owes(h, p)
  <1>1. 1 .. n \subseteq 0 .. MaxInputs
    BY PromisesAssumption
  <1>2. Inputs(h, p) = 1 .. n
    BY <1>1, OnceSomewhere DEF Fed, Inputs
  <1>3. Cardinality(1 .. n) = n /\ 1 .. n # {}
    <2>1. 1 \in Int /\ n \in Int /\ ~(1 > n) /\ n - 1 + 1 = n /\ 1 \in 1 .. n
      OBVIOUS
    <2> QED BY <2>1, FS_Interval
  <1>4. \A i \in 0 .. MaxInputs : Once(h, 0, ToInput(p, i)) \/ Nowhere(h, 0, ToInput(p, i))
    BY DEF Fed
  <1> QED BY <1>2, <1>3, <1>4 DEF Fed, Owes

LEMMA InputWaited ==
  ASSUME IInv, Listened, Waited, NEW v \in Argument, combinatorInput(v)
  PROVE  Waited'
  <1> DEFINE p == adding.target
             i == adding.next
             x == ToCombine(p, i)
  <1>1. /\ phase \in UserPhase /\ adding # NotAdding
        /\ p \in Allocated(heap) /\ i \in 1 .. adding.count
        /\ adding.count \in Nat /\ adding.count <= MaxInputs /\ i \in Nat
        /\ Moves(heap, heap', {x}, {}) /\ SameCast(heap, heap')
    BY InputMoves
  <1>2. /\ UNCHANGED <<fiber, running, phase>>
        /\ adding' = IF adding.next = adding.count THEN NotAdding ELSE [adding EXCEPT !.next = @ + 1]
        /\ adding \in [target : Promise \cup {None}, next : Nat, count : Nat]
    BY DEF combinatorInput, IInv, TypeOK
  <1>3. x.fiber = None /\ x.result = None /\ x.combine = p
    BY DEF ToCombine
  <1>4. p \in Promise /\ phase # "failed"
    BY <1>1, Nobody DEF Reachable
  <1>5. IF i = adding.count THEN adding' = NotAdding
        ELSE adding'.target = p /\ adding'.next = i + 1 /\ adding'.count = adding.count
    BY <1>2
  <1> HIDE DEF x
  <1>6. Goes(heap, heap', {}, {x}, {})
    BY <1>1, MovesGoes DEF Waited
  <1>7. Thread' /\ \A f \in Fiber : Resumed(f)' <=> Resumed(f)
    BY <1>1, <1>2, ThreadStays DEF Waited
  <1>8. \A t \in {x} \cup {} : t.fiber \in {None, None} /\ t.result \in {None, None} /\ t.combine \in {None, p}
    BY <1>3
  <1>9. Wakeups'
    BY <1>2, <1>6, <1>7, <1>8, Nobody, WakeupsExcept DEF Waited
  <1>10. Settlers'
    <2>1. \A q \in Promise : Unfinished(q)' = Unfinished(q)
      BY <1>2 DEF Unfinished
    <2>2. Reachable' = Reachable /\ Reachable \subseteq Promise /\ None \notin Promise
      BY <1>1, Nobody DEF Reachable, Allocated, SameCast
    <2>3. \A q \in Reachable : q # None => /\ heap'.promise[q].maker = heap.promise[q].maker
                                           /\ Unfinished(q)' = Unfinished(q)
      BY <1>1, <2>1, <2>2 DEF SameCast
    <2>4. {} \subseteq {None} /\ Reachable' \subseteq Reachable \cup {None} /\ None \notin Reachable'
      BY <2>2
    <2> QED BY <1>4, <1>6, <1>8, <2>2, <2>3, <2>4, SettlersExcept DEF Waited
  <1>11. Combiners'
    <2>1. \A q \in Promise : q # p => heap'.combine[q] = heap.combine[q]
      BY <1>1 DEF SameCast
    <2>2. Fed(heap, p, i - 1, adding.count)
      <3>1. heap.combine[p].mode # "none"
        BY <1>1 DEF Waited, Feeding
      <3>2. OwesNow(heap, p, adding)
        BY <1>4, <3>1 DEF Waited, Combiners
      <3> QED BY <3>2 DEF OwesNow
    <2>3. Fed(heap', p, i, adding.count)
      <3>1. i - 1 \in Nat /\ (i - 1) + 1 = i /\ i <= MaxInputs
        BY <1>1, PromisesAssumption
      <3>2. Goes(heap, heap', {}, {ToCombine(p, (i - 1) + 1)}, {})
        BY <1>6, <3>1 DEF x
      <3>3. heap'.combine[p] = heap.combine[p]
        BY <1>1 DEF SameCast
      <3>4. Fed(heap', p, (i - 1) + 1, adding.count)
        BY <1>1, <1>4, <2>2, <3>1, <3>2, <3>3, FedMore
      <3> QED BY <3>1, <3>4
    <2>4. OwesNow(heap', p, adding')
      <3>1. CASE i = adding.count
        <4>1. adding'.target # p
          BY <1>4, <1>5, <3>1, Nobody
        <4>2. Owes(heap', p)
          BY <1>1, <2>3, <3>1, FedOwes
        <4> QED BY <4>1, <4>2 DEF OwesNow
      <3>2. CASE i # adding.count
        <4>1. adding'.target = p /\ adding'.next - 1 = i /\ adding'.count = adding.count
          BY <1>1, <1>5, <3>2
        <4> QED BY <2>3, <4>1 DEF OwesNow
      <3> QED BY <3>1, <3>2
    <2>5. adding.target \in {None, p} /\ adding'.target \in {None, p}
      BY <1>5, Nobody
    <2> QED BY <1>4, <1>6, <1>8, <2>1, <2>4, <2>5, Nobody, CombinersExcept DEF Waited
  <1>12. Feeding'
    BY <1>1, <1>5 DEF Feeding, Waited, SameCast
  <1> QED BY <1>6, <1>7, <1>9, <1>10, <1>11, <1>12 DEF Waited, Goes

-----------------------------------------------------------------------------
(* Timers and async calls.                                                 *)

LEMMA TimerCallsWaited ==
  ASSUME Waited, TimerCall
  PROVE  Waited'
  <1>1. UNCHANGED <<heap, fiber, running, phase, adding>>
    BY DEF TimerCall, scheduleTimer, clearTimeoutNative, Slow, Calls
  <1>2. Neat(heap)' /\ Thread' /\ Feeding'
    BY <1>1 DEF Waited, Thread, HeadRunning, CallsApart, Feeding
  <1>3. Wakeups'
    BY <1>1 DEF Waited, Wakeups, Resumed, HeadTask
  <1>4. Settlers' /\ Combiners'
    BY <1>1 DEF Waited, Settlers, Reachable, Unfinished, Combiners
  <1> QED BY <1>2, <1>3, <1>4 DEF Waited

LEMMA MovesAfter ==
  ASSUME NEW h, NEW g, NEW k, NEW A, NEW S, Neat(h), Moves(h, g, A, S), Moves(g, k, {}, {})
  PROVE  Moves(h, k, A, S)
  <1>1. Len(h.queue) \in Nat /\ Len(g.queue) \in Nat /\ Len(k.queue) \in Nat
    BY Sources DEF Moves, Neat
  <1>2. Len(h.queue) <= Len(k.queue) /\ \A i \in 1 .. Len(h.queue) : k.queue[i] = h.queue[i]
    BY <1>1 DEF Moves
  <1>3. ASSUME NEW s \in 0 .. 1, NEW T, s <= Len(h.queue)
        PROVE  Gains(h, k, s, T, A)
    <2>1. s <= Len(g.queue)
      BY <1>1, <1>3 DEF Moves
    <2>2. Gains(h, g, s, T, A) /\ Gains(g, k, s, T, {})
      BY <1>3, <2>1 DEF Moves
    <2> QED BY <2>2 DEF Gains
  <1>4. Settling(h, k, S)
    BY DEF Moves, Settling
  <1> QED BY <1>2, <1>3, <1>4 DEF Moves

(* A new async call runs, and is to settle its promise.                    *)
LEMMA AsyncWaited ==
  ASSUME IInv, Listened, Waited, NEW f \in Fiber, callAsyncFunction(f)
  PROVE  Waited'
  <1>0. PICK p : p = Fresh(heap)
    OBVIOUS
  <1>1. /\ heap.made + 1 <= MaxPromises /\ UserRuns /\ phase \in UserPhase /\ adding = NotAdding
        /\ heap' = Allocate(heap, "async") /\ fiber[f].state = "unused"
        /\ fiber' = [fiber EXCEPT ![f] = [state |-> "running", promise |-> p]]
        /\ running' = Append(running, f)
        /\ UNCHANGED <<phase, adding>>
    BY <1>0 DEF callAsyncFunction, Calls, UserRuns
  <1>2. /\ Moves(heap, heap', {}, {}) /\ Neat(heap')
        /\ heap'.made = p /\ heap'.combine = heap.combine
        /\ \A q \in Promise : q # p => heap'.promise[q].maker = heap.promise[q].maker
        /\ p \in Promise /\ p > heap.made /\ p \in Allocated(heap')
        /\ Allocated(heap') \subseteq Allocated(heap) \cup {p}
    BY <1>0, <1>1, NewMoves DEF Maker
  <1>3. Goes(heap, heap', {}, {}, {})
    BY <1>2, MovesGoes DEF Waited
  <1>4. /\ fiber'[f].state = "running" /\ fiber'[f].promise = p
        /\ \A g \in Fiber : g # f => fiber'[g] = fiber[g]
        /\ fiber[f].promise = None
        /\ running \in Seq(Fiber)
        /\ \A i \in 1 .. Len(running) : running[i] \in Fiber /\ fiber[running[i]].state = "running"
    <2>1. fiber \in [Fiber -> ObjFiber] /\ running \in Seq(Fiber)
      BY DEF IInv, TypeOK
    <2>2. \A i \in 1 .. Len(running) : running[i] \in Fiber /\ fiber[running[i]].state = "running"
      BY <2>1 DEF Waited, Thread, CallsApart
    <2> QED BY <1>1, <2>1, <2>2 DEF Waited, Thread
  <1>5. \A i \in 1 .. Len(running) : running[i] # f
    BY <1>1, <1>4
  <1>6. /\ Len(running') = Len(running) + 1 /\ Len(running) \in Nat
        /\ \A i \in 1 .. Len(running) : running'[i] = running[i]
        /\ running'[Len(running) + 1] = f
    BY <1>1, <1>4, Appending
  <1>7. phase = "task" => /\ heap'.queue[1] = heap.queue[1] /\ HeadRunning(heap, running)
                          /\ HeadTask' = HeadTask
    BY <1>2, HeadStays DEF IInv, Control, Waited, Thread, HeadTask
  <1>8. Thread'
    <2>1. phase' # "loop" /\ adding' = NotAdding
      BY <1>1, Nobody
    <2>2. phase' = "task" => HeadRunning(heap', running')
      <3>1. running # <<>> => running' # <<>> /\ running'[1] = running[1]
        BY <1>4, <1>6
      <3> QED BY <1>1, <1>7, <3>1 DEF HeadRunning
    <2>3. CallsApart(running', fiber')
      <3>1. \A i \in 1 .. Len(running') : i \in 1 .. Len(running) \/ i = Len(running) + 1
        BY <1>6
      <3>2. \A i \in 1 .. Len(running') : fiber'[running'[i]].state = "running"
        BY <1>4, <1>5, <1>6, <3>1
      <3>3. \A i, j \in 1 .. Len(running') : running'[i] = running'[j] => i = j
        BY <1>5, <1>6, <3>1 DEF Waited, Thread, CallsApart
      <3> QED BY <3>2, <3>3 DEF CallsApart
    <2>4. \A g \in Fiber : fiber'[g].state = "unused" => fiber'[g].promise = None
      BY <1>4 DEF Waited, Thread
    <2> QED BY <2>1, <2>2, <2>3, <2>4 DEF Thread
  <1>9. \A t \in {} \cup {} : t.fiber \in {None, f} /\ t.result \in {None, p} /\ t.combine \in {None, None}
    OBVIOUS
  <1>10. Wakeups'
    <2>1. \A g \in Fiber : Resumed(g)' <=> Resumed(g)
      BY <1>1, <1>7 DEF Resumed
    <2>2. ~Resumed(f)
      <3>1. ASSUME Resumed(f) PROVE FALSE
        <4>1. running # <<>> /\ running[1] = f
          BY <1>7, <3>1, Nobody DEF Resumed, HeadTask, HeadRunning
        <4>2. 1 \in 1 .. Len(running)
          BY <1>4, <4>1
        <4> QED BY <1>5, <4>1, <4>2
      <3> QED BY <3>1
    <2>3. Nowhere(heap, 0, ToFiber(f))
      BY <1>1, <2>2 DEF Waited, Wakeups, Woken
    <2>4. Nowhere(heap', 0, ToFiber(f))
      BY <1>3, <2>3 DEF Goes, Passes
    <2>5. Woken(heap', f, fiber'[f].state = "suspended" \/ Resumed(f)')
      BY <1>4, <2>1, <2>2, <2>4 DEF Woken
    <2>6. \A g \in Fiber : g # f => fiber'[g].state = fiber[g].state /\ (Resumed(g)' <=> Resumed(g))
      BY <1>4, <2>1
    <2> QED BY <1>3, <1>9, <2>5, <2>6, Nobody, WakeupsExcept DEF Waited
  <1>11. Settlers'
    <2>1. \A q \in Promise : q # p => Unfinished(q)' = Unfinished(q)
      BY <1>4, Nobody DEF Unfinished
    <2>2. Nowhere(heap, 0, ToResult(p)) /\ Unfinished(p) = {} /\ Pending(heap, p)
      BY <1>2, FreshAlone
    <2>3. Unfinished(p)' = {f}
      BY <1>4, <2>2 DEF Unfinished
    <2>4. Nowhere(heap', 0, ToResult(p)) /\ Pending(heap', p)
      BY <1>2, <1>3, <2>2 DEF Goes, Passes, Settling
    <2>5. SettledBy(heap', p, Unfinished(p)')
      BY <2>3, <2>4 DEF SettledBy
    <2>6. Reachable' \subseteq Reachable \cup {p}
      BY <1>2 DEF Reachable
    <2>7. \A q \in Reachable : q # p => /\ heap'.promise[q].maker = heap.promise[q].maker
                                        /\ Unfinished(q)' = Unfinished(q)
      BY <1>2, <2>1, Nobody
    <2>8. phase # "failed"
      BY <1>1, Nobody
    <2> QED BY <1>3, <1>9, <2>5, <2>6, <2>7, <2>8, Nobody, SettlersExcept DEF Waited
  <1>12. Combiners'
    <2>1. phase # "failed" /\ adding.target \in {None, None} /\ adding'.target \in {None, None}
      BY <1>1, Nobody
    <2>2. \A q \in Promise : q # None => heap'.combine[q] = heap.combine[q]
      BY <1>2
    <2> QED BY <1>3, <1>9, <2>1, <2>2, Nobody, CombinersExcept DEF Waited
  <1>13. Feeding'
    BY <1>1 DEF Feeding
  <1> QED BY <1>3, <1>8, <1>10, <1>11, <1>12, <1>13 DEF Waited, Goes

(* Where the thread goes when the current call gives it back: with the     *)
(* task that resumed the call done, to the loader, or to its caller.       *)
LEMMA CallerGoes ==
  ASSUME IInv, Waited, UserRuns, InFiber, NEW h, NEW A, NEW S, Moves(heap, h, A, S),
         SameCast(heap, h), ToCaller(h)
  PROVE  /\ SameCast(heap, heap')
         /\ \/ /\ Goes(heap, heap', {HeadRoute(heap)}, A, S) /\ Resumed(Current)
               /\ phase' = "loop" /\ Callers = <<>>
               /\ HeadTask.result = None /\ HeadTask.combine = None
            \/ /\ Goes(heap, heap', {}, A, S) /\ ~Resumed(Current)
               /\ phase = "program" /\ phase' = "loop" /\ Callers = <<>>
            \/ /\ Goes(heap, heap', {}, A, S) /\ ~Resumed(Current) /\ phase' = phase
               /\ phase = "task" => /\ heap'.queue[1] = heap.queue[1]
                                    /\ HeadTask.fiber # None => Callers # <<>>
  <1>1. /\ Neat(heap) /\ phase = "task" => heap.queue # <<>> /\ HeadRunning(heap, running)
        /\ Neat(heap)
    BY DEF Waited, Thread, IInv, Control
  <1>2. /\ running \in Seq(Fiber) /\ Current \in Fiber /\ Len(running) \in Nat
        /\ running # <<>> /\ Current = running[Len(running)]
        /\ Len(running) \in 1 .. Len(running) /\ 1 \in 1 .. Len(running)
        /\ Callers = <<>> <=> Len(running) = 1
    <2>1. running \in Seq(Fiber) /\ Current \in Fiber /\ Callers \in Seq(Fiber) /\ Len(Callers) = Len(running) - 1
      BY CurrentFiber
    <2>2. running # <<>> /\ Current = running[Len(running)]
      BY DEF InFiber, Current
    <2> HIDE DEF Callers, Current
    <2> QED BY <2>1, <2>2
  <1>3. /\ phase = "task" /\ HeadTask.fiber # None => running[1] = HeadTask.fiber
        /\ \A i, j \in 1 .. Len(running) : running[i] = running[j] => i = j
    BY <1>1 DEF HeadRunning, HeadTask, Waited, Thread, CallsApart
  <1>4. Resumed(Current) <=> phase = "task" /\ HeadTask.fiber # None /\ Callers = <<>>
    <2>1. ASSUME Resumed(Current) PROVE Len(running) = 1 /\ HeadTask.fiber # None
      <3>1. HeadTask.fiber # None /\ running[1] = running[Len(running)]
        BY <1>2, <1>3, <2>1, Nobody DEF Resumed
      <3> QED BY <1>2, <1>3, <3>1
    <2>2. ASSUME phase = "task", HeadTask.fiber # None, Len(running) = 1 PROVE Resumed(Current)
      BY <1>2, <1>3, <2>2 DEF Resumed
    <2> QED BY <1>2, <2>1, <2>2 DEF Resumed
  <1>5. CASE Resumed(Current)
    <2>1. heap' = Retire(h) /\ phase' = "loop" /\ Callers = <<>> /\ heap.queue # <<>>
      BY <1>1, <1>4, <1>5 DEF ToCaller
    <2>2. /\ Goes(heap, heap', {HeadRoute(heap)}, A, S)
          /\ heap'.made = h.made /\ heap'.promise = h.promise /\ heap'.combine = h.combine
      BY <1>1, <2>1, RetireGoes
    <2>3. SameCast(heap, heap')
      BY <2>2 DEF SameCast
    <2>4. HeadTask.result = None /\ HeadTask.combine = None
      <3>1. 1 \in 1 .. Len(heap.queue)
        BY <1>1, <2>1, Sources DEF Neat
      <3>2. KindOK(heap, HeadTask, HeadTask.callback)
        BY <1>1, <3>1 DEF Neat, QueueKinds, HeadTask
      <3> QED BY <1>4, <1>5, <3>2 DEF KindOK
    <2> QED BY <1>5, <2>1, <2>2, <2>3, <2>4
  <1>6. CASE ~Resumed(Current) /\ phase = "program" /\ body # None /\ Callers = <<>>
    <2> DEFINE p == fiber[body].promise
    <2>1. heap' = [h EXCEPT !.promise[p].handled = TRUE] /\ phase' = "loop"
      BY <1>4, <1>6 DEF ToCaller, HandledByLoader
    <2>2. p \in Allocated(h) /\ p \in Promise
      <3>1. body \in Fiber /\ fiber \in [Fiber -> ObjFiber]
        BY <1>6 DEF IInv, TypeOK
      <3>2. p <= heap.made /\ p # None /\ p \in Promise \cup {None}
        BY <1>6, <3>1 DEF IInv, Control, ObjFiber
      <3>3. p \in 1 .. heap.made
        BY <3>2, Nobody DEF Promise
      <3> QED BY <3>2, <3>3 DEF Allocated, SameCast
    <2> HIDE DEF p
    <2>3. Neat(h) /\ HeapOK(h) /\ h \in Heap /\ h.promise \in [Promise -> ObjPromise]
      BY HeapFields DEF Moves, Neat, HeapOK
    <2>4. HeapOK(heap')
      BY <2>1, <2>2, <2>3, HandledKeeps DEF Keeps, Sound
    <2> DEFINE q == [h.promise[p] EXCEPT !.handled = TRUE]
    <2>5. /\ heap'.made = h.made /\ heap'.queue = h.queue /\ heap'.combine = h.combine
          /\ heap'.promise = [h.promise EXCEPT ![p] = q]
      BY <2>1, <2>3 DEF Heap
    <2>6. q.state = h.promise[p].state /\ q.maker = h.promise[p].maker /\ q.reactions = h.promise[p].reactions
      BY <2>2, <2>3 DEF ObjPromise
    <2> HIDE DEF q
    <2>7. heap'.promise[p] = q /\ \A a \in Promise : a # p => heap'.promise[a] = h.promise[a]
      BY <2>2, <2>3, <2>5
    <2>8. \A a \in Promise : /\ heap'.promise[a].state = h.promise[a].state
                             /\ heap'.promise[a].maker = h.promise[a].maker
                             /\ heap'.promise[a].reactions = h.promise[a].reactions
      BY <2>6, <2>7
    <2>9. Moves(h, heap', {}, {}) /\ SameCast(h, heap')
      BY <2>3, <2>4, <2>5, <2>8, SameShapeMoves
    <2>10. Moves(heap, heap', A, S) /\ SameCast(heap, heap')
      BY <1>1, <2>9, MovesAfter DEF SameCast
    <2>11. Goes(heap, heap', {}, A, S)
      BY <1>1, <2>10, MovesGoes
    <2> QED BY <1>6, <2>1, <2>10, <2>11
  <1>7. CASE ~Resumed(Current) /\ ~(phase = "program" /\ body # None /\ Callers = <<>>)
    <2>1. heap' = h /\ phase' = phase
      BY <1>4, <1>7 DEF ToCaller
    <2>2. Goes(heap, heap', {}, A, S)
      BY <1>1, <2>1, MovesGoes
    <2>3. phase = "task" => heap'.queue[1] = heap.queue[1] /\ (HeadTask.fiber # None => Callers # <<>>)
      BY <1>1, <1>4, <1>7, <2>1, HeadStays DEF Neat
    <2> QED BY <1>7, <2>1, <2>2, <2>3
  <1> QED BY <1>5, <1>6, <1>7

(* The current call waits for its wakeup, or has settled its promise.      *)
ToWake(f) == [fiber |-> f, result |-> None, combine |-> None, index |-> 0]

LEMMA GivingBackWaited ==
  ASSUME IInv, Waited, UserRuns, InFiber, NEW h, NEW A, NEW S, Moves(heap, h, A, S),
         SameCast(heap, h), ToCaller(h), NEW s \in {"suspended", "done"},
         fiber' = [fiber EXCEPT ![Current].state = s], UNCHANGED adding,
         s = "suspended" => S = {} /\ A = {ToWake(Current)},
         s = "done" => Decides(heap, h, fiber[Current].promise, A, S)
  PROVE  Waited'
  <1>1. PICK c : c = Current
    OBVIOUS
  <1>2. PICK p : p = fiber[c].promise
    OBVIOUS
  <1>3. /\ c \in Fiber /\ fiber[c].promise = p /\ fiber[c].state = "running" /\ p \in Reachable
        /\ running \in Seq(Fiber) /\ Len(running) \in Nat /\ Len(running) \in 1 .. Len(running)
        /\ running[Len(running)] = c
        /\ running' = Callers /\ Len(Callers) = Len(running) - 1
        /\ \A i \in 1 .. Len(Callers) : Callers[i] = running[i] /\ i \in 1 .. Len(running)
    <2>1. /\ running \in Seq(Fiber) /\ c \in Fiber /\ p \in Reachable
          /\ Len(Callers) = Len(running) - 1
          /\ \A i \in 1 .. Len(Callers) : Callers[i] = running[i] /\ i \in 1 .. Len(running)
      BY <1>1, <1>2, CurrentFiber DEF Reachable
    <2>2. running # <<>> /\ c = running[Len(running)]
      BY <1>1 DEF InFiber, Current
    <2>3. Len(running) \in Nat /\ Len(running) \in 1 .. Len(running)
      <3> HIDE DEF Callers
      <3> QED BY <2>1, <2>2
    <2>4. fiber[c].state = "running"
      BY <2>2, <2>3 DEF Waited, Thread, CallsApart
    <2>5. running' = Callers
      BY DEF ToCaller
    <2> QED BY <1>2, <2>1, <2>2, <2>3, <2>4, <2>5
  <1>4. /\ fiber'[c].state = s /\ fiber'[c].promise = p
        /\ \A g \in Fiber : g # c => fiber'[g] = fiber[g]
    <2>1. fiber \in [Fiber -> ObjFiber] /\ fiber' = [fiber EXCEPT ![c].state = s]
      BY <1>1 DEF IInv, TypeOK
    <2> QED BY <1>3, <2>1 DEF ObjFiber
  <1>5. phase \in UserPhase /\ adding = NotAdding /\ adding' = NotAdding /\ phase # "failed" /\ phase # "loop"
    BY Nobody DEF UserRuns
  <1>6. PICK B : /\ Goes(heap, heap', B, A, S) /\ SameCast(heap, heap')
                 /\ \/ /\ B = {HeadRoute(heap)} /\ Resumed(c)
                       /\ phase' = "loop" /\ Callers = <<>>
                       /\ HeadTask.result = None /\ HeadTask.combine = None
                    \/ /\ B = {} /\ ~Resumed(c)
                       /\ phase = "program" /\ phase' = "loop" /\ Callers = <<>>
                    \/ /\ B = {} /\ ~Resumed(c) /\ phase' = phase
                       /\ phase = "task" => /\ heap'.queue[1] = heap.queue[1]
                                            /\ HeadTask.fiber # None => Callers # <<>>
    BY <1>1, CallerGoes
  <1>7. \A t \in B : t.fiber = c /\ t.result = None /\ t.combine = None
    BY <1>6 DEF HeadRoute, Route, HeadTask, Resumed
  <1>8. Thread'
    <2>1. phase' = "loop" => running' = <<>>
      BY <1>3, <1>5, <1>6
    <2>2. phase' = "task" => HeadRunning(heap', running')
      <3> SUFFICES ASSUME phase' = "task"
                   PROVE  HeadRunning(heap', running')
        OBVIOUS
      <3>1. /\ phase = "task" /\ heap'.queue[1] = heap.queue[1]
            /\ HeadTask.fiber # None => Callers # <<>>
        BY <1>5, <1>6
      <3>2. HeadRunning(heap, running)
        BY <3>1 DEF Waited, Thread
      <3>3. Callers # <<>> => Callers[1] = running[1]
        <4>1. Callers \in Seq(Fiber)
          BY CurrentFiber
        <4> HIDE DEF Callers
        <4> QED BY <1>3, <4>1
      <3> QED BY <1>3, <3>1, <3>2, <3>3 DEF HeadRunning, HeadTask
    <2>3. adding' = NotAdding
      BY <1>5
    <2>4. CallsApart(running', fiber')
      <3> DEFINE r == Callers
      <3>1. \A i \in 1 .. Len(r) : r[i] = running[i] /\ i \in 1 .. Len(running) /\ i # Len(running)
        <4> HIDE DEF r
        <4> QED BY <1>3 DEF r
      <3>2. CallsApart(running, fiber)
        BY DEF Waited, Thread
      <3> HIDE DEF r
      <3>3. \A i \in 1 .. Len(r) : r[i] # c /\ r[i] \in Fiber
        BY <1>3, <3>1, <3>2 DEF CallsApart
      <3>4. CallsApart(r, fiber')
        <4>1. \A i \in 1 .. Len(r) : fiber[running[i]].state = "running"
          BY <3>1, <3>2 DEF CallsApart
        <4>2. \A i \in 1 .. Len(r) : fiber'[r[i]].state = "running"
          BY <1>4, <3>1, <3>3, <4>1
        <4>3. \A i, j \in 1 .. Len(r) : r[i] = r[j] => i = j
          BY <3>1, <3>2 DEF CallsApart
        <4> QED BY <4>2, <4>3 DEF CallsApart
      <3> QED BY <1>3, <3>4 DEF r
    <2>5. \A g \in Fiber : fiber'[g].state = "unused" => fiber'[g].promise = None
      BY <1>4 DEF Waited, Thread
    <2> QED BY <2>1, <2>2, <2>3, <2>4, <2>5 DEF Thread
  <1>9. \/ s = "suspended" /\ S = {} /\ A = {ToWake(c)}
        \/ s = "done" /\ A = {} /\ S = {p}
        \/ s = "done" /\ A = {To(p)} /\ S = {} /\ Pending(heap, p)
    BY <1>1, <1>2 DEF Decides
  <1>10. \A t \in A : /\ t.fiber \in {None, c} /\ t.result \in {None, p} /\ t.combine = None
                      /\ s = "suspended" => t.fiber = c /\ t.result = None
                      /\ s = "done" => t.fiber = None
    BY <1>9 DEF ToWake, To
  <1>11. Wakeups'
    <2>1. \A g \in Fiber : g # c => fiber'[g].state = fiber[g].state /\ (Resumed(g)' <=> Resumed(g))
      BY <1>4, <1>5, <1>6 DEF Resumed, HeadTask
    <2>2. ~Resumed(c)'
      BY <1>6 DEF Resumed, HeadTask
    <2>3. Woken(heap, c, Resumed(c))
      BY <1>3 DEF Waited, Wakeups, Woken
    <2>4. Passes(heap, heap', ToFiber(c), B, A)
      BY <1>6 DEF Goes
    <2>5. A \cap ToFiber(c) # {} <=> s = "suspended"
      <3>1. ToWake(c) \in ToFiber(c)
        BY <1>3, PromisesAssumption DEF ToWake, ToFiber, Routes, None
      <3>2. c # None
        BY <1>3, Nobody
      <3> QED BY <1>9, <1>10, <3>1, <3>2 DEF ToFiber
    <2>6. B \cap ToFiber(c) # {} <=> Resumed(c)
      <3>1. ASSUME Resumed(c) PROVE HeadRoute(heap) \in ToFiber(c)
        <4>1. HeadRoute(heap).fiber = c /\ heap.queue # <<>>
          BY <3>1 DEF HeadRoute, Route, Resumed, HeadTask, IInv, Control
        <4>2. HeadRoute(heap) \in Routes
          <5>1. heap.queue[1] \in Microtask
            <6>1. 1 \in 1 .. Len(heap.queue)
              BY <4>1, Sources DEF IInv
            <6> QED BY <6>1, Sources DEF IInv
          <5> QED BY <5>1 DEF Microtask, HeadRoute, Route, Routes
        <4> QED BY <4>1, <4>2 DEF ToFiber
      <3> QED BY <1>6, <3>1
    <2>7. Woken(heap', c, fiber'[c].state = "suspended" \/ Resumed(c)')
      <3>1. Woken(heap', c, s = "suspended")
        BY <2>3, <2>4, <2>5, <2>6 DEF Woken, Passes
      <3> QED BY <1>4, <2>2, <3>1
    <2>8. \A t \in A \cup B : t.fiber \in {None, c}
      BY <1>7, <1>10
    <2> QED BY <1>6, <2>1, <2>7, <2>8, Nobody, WakeupsExcept DEF Waited
  <1>12. Settlers'
    <2>1. \A q \in Promise : q # p => Unfinished(q)' = Unfinished(q)
      BY <1>3, <1>4 DEF Unfinished
    <2>2. \A t \in A \cup B : t.result \in {None, p}
      BY <1>7, <1>10
    <2>3. Reachable' = Reachable /\ Reachable \subseteq Promise
      BY <1>6, Nobody DEF Reachable, Allocated, SameCast
    <2>4. \A q \in Reachable : q # p => /\ heap'.promise[q].maker = heap.promise[q].maker
                                        /\ Unfinished(q)' = Unfinished(q)
      BY <1>6, <2>1, <2>3 DEF SameCast
    <2>5. ASSUME HasSettler(heap', p)
          PROVE  SettledBy(heap', p, Unfinished(p)')
      <3>1. SettledBy(heap, p, Unfinished(p))
        BY <1>3, <1>5, <1>6, <2>3, <2>5 DEF Waited, Settlers, HasSettler, SameCast
      <3>2. c \in Unfinished(p)
        BY <1>3 DEF Unfinished
      <3>3. Pending(heap, p) /\ Nowhere(heap, 0, ToResult(p)) /\ Unfinished(p) = {c}
        BY <3>1, <3>2 DEF SettledBy
      <3>4. Passes(heap, heap', ToResult(p), B, A)
        BY <1>6 DEF Goes
      <3>5. B \cap ToResult(p) = {}
        BY <1>3, <1>7, <2>3, Nobody DEF ToResult
      <3>6. Pending(heap', p) <=> p \notin S
        BY <1>3, <1>6, <2>3, <3>3 DEF Goes, Settling
      <3>7. CASE s = "suspended"
        <4>1. Unfinished(p)' = {c}
          BY <1>3, <1>4, <3>3, <3>7 DEF Unfinished
        <4>2. A \cap ToResult(p) = {} /\ S = {}
          BY <1>3, <1>9, <1>10, <2>3, <3>7, Nobody DEF ToResult
        <4>3. Nowhere(heap', 0, ToResult(p))
          BY <3>3, <3>4, <3>5, <4>2 DEF Passes
        <4> QED BY <1>3, <3>6, <4>1, <4>2, <4>3 DEF SettledBy
      <3>8. CASE s = "done"
        <4>1. Unfinished(p)' = {}
          BY <1>3, <1>4, <3>3, <3>8 DEF Unfinished
        <4>2. CASE A = {} /\ S = {p}
          <5>1. Nowhere(heap', 0, ToResult(p)) /\ ~Pending(heap', p)
            BY <3>3, <3>4, <3>5, <3>6, <4>2 DEF Passes
          <5> QED BY <4>1, <5>1 DEF SettledBy
        <4>3. CASE A = {To(p)} /\ S = {}
          <5>1. A \cap ToResult(p) # {}
            <6>1. To(p) \in Routes /\ To(p).result = p
              BY <1>3, <2>3, PromisesAssumption DEF To, Routes, None
            <6> QED BY <4>3, <6>1 DEF ToResult
          <5>2. Once(heap', 0, ToResult(p)) /\ Pending(heap', p)
            BY <3>3, <3>4, <3>5, <3>6, <4>3, <5>1 DEF Passes
          <5> QED BY <4>1, <5>2 DEF SettledBy
        <4> QED BY <1>9, <3>8, <4>2, <4>3
      <3> QED BY <3>7, <3>8
    <2>6. S \subseteq {p}
      BY <1>9
    <2> QED BY <1>5, <1>6, <2>2, <2>3, <2>4, <2>5, <2>6, Nobody, SettlersExcept DEF Waited
  <1>13. Combiners'
    <2>1. \A t \in A \cup B : t.combine \in {None, None}
      BY <1>7, <1>10
    <2>2. adding.target \in {None, None} /\ adding'.target \in {None, None}
      BY <1>5, Nobody
    <2>3. \A q \in Promise : q # None => heap'.combine[q] = heap.combine[q]
      BY <1>6 DEF SameCast
    <2> QED BY <1>5, <1>6, <2>1, <2>2, <2>3, Nobody, CombinersExcept DEF Waited
  <1>14. Feeding'
    BY <1>5 DEF Feeding
  <1> QED BY <1>6, <1>8, <1>11, <1>12, <1>13, <1>14 DEF Waited, Goes

LEMMA FiberStepsWaited ==
  ASSUME IInv, Listened, Waited, FiberStep
  PROVE  Waited'
  <1> USE Arguments
  <1>0. Neat(heap) /\ Numbered(heap)
    BY DEF Waited, Listened
  <1>1. ASSUME NEW v \in Argument, Await(v)
        PROVE  Waited'
    <2> DEFINE t == [PlainTask(FALSE, v, None, FALSE) EXCEPT !.fiber = Current]
               h == IF v \in Promise
                    THEN csPromiseAddReaction(heap, v, AwaitReaction(Current))
                    ELSE csVMQueueMicrotask(heap, t)
    <2>1. /\ UserRuns /\ InFiber /\ ToCaller(h) /\ UNCHANGED adding
          /\ fiber' = [fiber EXCEPT ![Current].state = "suspended"]
      BY <1>1 DEF Await, Calls
    <2>2. Current \in Fiber
      BY <2>1, CurrentFiber
    <2>3. Moves(heap, h, {ToWake(Current)}, {}) /\ SameCast(heap, h)
      <3>1. CASE v \in Promise
        <4> DEFINE r == AwaitReaction(Current)
        <4>1. v \in Allocated(heap) /\ r \in Reaction /\ RefersTo(heap, r)
          BY <2>2, <3>1, ReactionsOK
        <4>2. KindOK(heap, r, r.onFulfilled \/ r.onRejected) /\ Route(r) = ToWake(Current)
          BY DEF AwaitReaction, PlainReaction, KindOK, Route, ToWake, None
        <4>3. h = csPromiseAddReaction(heap, v, r)
          BY <3>1
        <4> HIDE DEF r, h
        <4> QED BY <1>0, <4>1, <4>2, <4>3, ListenMoves
      <3>2. CASE v \notin Promise
        <4>1. v \in Datum
          BY <3>2, HeapFields
        <4>2. TaskOK(heap, t)
          BY <2>2, <4>1, PlainTaskOK
        <4>3. t.src = None /\ KindOK(heap, t, t.callback) /\ Route(t) = ToWake(Current)
          BY DEF PlainTask, KindOK, Route, ToWake, None
        <4>4. h = csVMQueueMicrotask(heap, t)
          BY <3>2
        <4> HIDE DEF t, h
        <4> QED BY <1>0, <4>2, <4>3, <4>4, EnqueueMoves
      <3> QED BY <3>1, <3>2
    <2> HIDE DEF h
    <2> QED BY <2>1, <2>3, GivingBackWaited
  <1>2. ASSUME NEW h, NEW A, NEW S, UserRuns, InFiber, finishFiber(h),
               Decides(heap, h, fiber[Current].promise, A, S)
        PROVE  Waited'
    <2>1. /\ ToCaller(h) /\ UNCHANGED adding
          /\ fiber' = [fiber EXCEPT ![Current].state = "done"]
      BY <1>2 DEF finishFiber
    <2>2. Moves(heap, h, A, S) /\ SameCast(heap, h)
      BY <1>2 DEF Decides
    <2> QED BY <1>2, <2>1, <2>2, GivingBackWaited
  <1>3. ASSUME NEW v \in Argument, FiberReturns(v)
        PROVE  Waited'
    <2> DEFINE p == fiber[Current].promise
    <2>1. /\ UserRuns /\ InFiber /\ finishFiber(csPromiseFulfill(heap, p, v))
          /\ p \in Allocated(heap)
      BY <1>3, CurrentFiber DEF FiberReturns
    <2> HIDE DEF p
    <2>2. PICK A, S : Decides(heap, csPromiseFulfill(heap, p, v), p, A, S)
      BY <1>0, <2>1, FulfillDecides
    <2> QED BY <1>2, <2>1, <2>2 DEF p
  <1>4. ASSUME NEW v \in Datum, FiberThrows(v)
        PROVE  Waited'
    <2> DEFINE p == fiber[Current].promise
    <2>1. /\ UserRuns /\ InFiber /\ finishFiber(csPromiseReject(heap, p, v))
          /\ p \in Allocated(heap)
      BY <1>4, CurrentFiber DEF FiberThrows
    <2> HIDE DEF p
    <2>2. Decides(heap, csPromiseReject(heap, p, v), p, {}, {p})
      BY <1>0, <2>1, RejectDecides
    <2> QED BY <1>2, <2>1, <2>2 DEF p
  <1> QED BY <1>1, <1>3, <1>4, AsyncWaited DEF FiberStep, FiberFaults

-----------------------------------------------------------------------------
(* The ends of callbacks, and the loop.                                    *)

(* Nobody is woken, settled or fed.                                        *)
LEMMA QuietStep ==
  ASSUME IInv, Waited, Moves(heap, heap', {}, {}), SameCast(heap, heap'),
         UNCHANGED <<fiber, running, adding>>, running = <<>>, adding = NotAdding,
         phase \notin {"task", "failed"}, phase' # "task"
  PROVE  Waited'
  <1>1. Goes(heap, heap', {}, {}, {})
    BY MovesGoes DEF Waited
  <1>2. Thread'
    BY DEF Waited, Thread
  <1>3. \A t \in {} \cup {} : t.fiber \in {None, None} /\ t.result \in {None, None} /\ t.combine \in {None, None}
    OBVIOUS
  <1>4. Wakeups'
    <2>1. \A f \in Fiber : f # None => fiber'[f].state = fiber[f].state /\ (Resumed(f)' <=> Resumed(f))
      BY DEF Resumed
    <2> QED BY <1>1, <1>3, <2>1, Nobody, WakeupsExcept DEF Waited
  <1>5. Settlers'
    <2>1. \A q \in Promise : Unfinished(q)' = Unfinished(q)
      BY DEF Unfinished
    <2>2. Reachable' = Reachable /\ Reachable \subseteq Promise /\ None \notin Promise
      BY Nobody DEF Reachable, Allocated, SameCast
    <2>3. \A q \in Reachable : q # None => /\ heap'.promise[q].maker = heap.promise[q].maker
                                           /\ Unfinished(q)' = Unfinished(q)
      BY <2>1, <2>2 DEF SameCast
    <2>4. {} \subseteq {None} /\ Reachable' \subseteq Reachable \cup {None} /\ None \notin Reachable'
      BY <2>2
    <2> QED BY <1>1, <1>3, <2>2, <2>3, <2>4, SettlersExcept DEF Waited
  <1>6. Combiners'
    <2>1. adding.target \in {None, None} /\ adding'.target \in {None, None}
      BY Nobody
    <2>2. \A q \in Promise : q # None => heap'.combine[q] = heap.combine[q]
      BY DEF SameCast
    <2> QED BY <1>1, <1>3, <2>1, <2>2, Nobody, CombinersExcept DEF Waited
  <1> QED BY <1>1, <1>2, <1>4, <1>5, <1>6 DEF Waited, Goes, Feeding

(* The task at the head.                                                   *)
LEMMA HeadFacts ==
  ASSUME IInv, Waited, heap.queue # <<>>
  PROVE  /\ TaskOK(heap, HeadTask) /\ KindOK(heap, HeadTask, HeadTask.callback)
         /\ HeadRoute(heap) \in Routes
         /\ HeadRoute(heap).fiber = HeadTask.fiber /\ HeadRoute(heap).result = HeadTask.result
         /\ HeadRoute(heap).combine = HeadTask.combine /\ HeadRoute(heap).index = HeadTask.index
  <1>1. 1 \in 1 .. Len(heap.queue)
    BY Sources DEF IInv
  <1>2. KindOK(heap, HeadTask, HeadTask.callback)
    BY <1>1 DEF Waited, Neat, QueueKinds, HeadTask
  <1>3. TaskOK(heap, HeadTask)
    BY HeadOK
  <1>4. HeadTask \in Microtask /\ HeadRoute(heap) = Route(HeadTask)
    BY <1>3 DEF TaskOK, HeadRoute, HeadTask
  <1> HIDE DEF HeadTask
  <1>5. /\ HeadRoute(heap) \in Routes
        /\ HeadRoute(heap).fiber = HeadTask.fiber /\ HeadRoute(heap).result = HeadTask.result
        /\ HeadRoute(heap).combine = HeadTask.combine /\ HeadRoute(heap).index = HeadTask.index
    BY <1>4 DEF Microtask, Route, Routes
  <1> QED BY <1>2, <1>3, <1>5

(* The task at the head is done: it settled its promise, or left that to   *)
(* one entry, or had none.                                                 *)
LEMMA TaskDone ==
  ASSUME IInv, Waited, heap.queue # <<>>, NEW h, NEW A, NEW S,
         Moves(heap, h, A, S), SameCast(heap, h), heap' = Retire(h),
         HeadTask.fiber = None, HeadTask.combine = None,
         UNCHANGED <<fiber, running, adding>>, running = <<>>, adding = NotAdding,
         phase # "failed", phase' = "loop",
         \/ A = {} /\ S = {} /\ HeadTask.result = None
         \/ A = {HeadRoute(heap)} /\ S = {}
         \/ Decides(heap, h, HeadTask.result, A, S)
  PROVE  Waited'
  <1>1. PICK p : p = HeadTask.result
    OBVIOUS
  <1>2. PICK r : r = HeadRoute(heap)
    OBVIOUS
  <1>3. r \in Routes /\ r.fiber = None /\ r.combine = None /\ r.result = p /\ p \in Promise \cup {None}
    BY <1>1, <1>2, HeadFacts DEF Routes
  <1>4. /\ Goes(heap, heap', {r}, A, S) /\ SameCast(heap, heap')
    <2>1. /\ Goes(heap, Retire(h), {HeadRoute(heap)}, A, S)
          /\ Retire(h).made = h.made /\ Retire(h).promise = h.promise /\ Retire(h).combine = h.combine
      BY RetireGoes DEF Waited
    <2> QED BY <1>2, <2>1 DEF SameCast
  <1>5. \/ A = {} /\ S = {} /\ p = None
        \/ A = {r} /\ S = {}
        \/ A = {} /\ S = {p}
        \/ A = {To(p)} /\ S = {} /\ Pending(heap, p)
    BY <1>1, <1>2 DEF Decides
  <1>6. \A t \in A \cup {r} : t.fiber \in {None, None} /\ t.result \in {None, p} /\ t.combine \in {None, None}
    BY <1>3, <1>5 DEF To
  <1>7. Thread'
    BY Nobody DEF Waited, Thread
  <1>8. Wakeups'
    <2>1. \A f \in Fiber : f # None => fiber'[f].state = fiber[f].state /\ (Resumed(f)' <=> Resumed(f))
      BY DEF Resumed
    <2> QED BY <1>4, <1>6, <2>1, Nobody, WakeupsExcept DEF Waited
  <1>9. Settlers'
    <2>1. \A q \in Promise : Unfinished(q)' = Unfinished(q)
      BY DEF Unfinished
    <2>2. Reachable' = Reachable /\ Reachable \subseteq Promise /\ None \notin Promise
      BY <1>4, Nobody DEF Reachable, Allocated, SameCast
    <2>3. \A q \in Reachable : q # p => /\ heap'.promise[q].maker = heap.promise[q].maker
                                        /\ Unfinished(q)' = Unfinished(q)
      BY <1>4, <2>1, <2>2 DEF SameCast
    <2>4. ASSUME p \in Reachable', HasSettler(heap', p)
          PROVE  SettledBy(heap', p, Unfinished(p)')
      <3>1. p \in Reachable /\ p \in Promise /\ p # None
        BY <2>2, <2>4
      <3>2. SettledBy(heap, p, Unfinished(p))
        BY <1>4, <2>4, <3>1 DEF Waited, Settlers, HasSettler, SameCast
      <3>3. Passes(heap, heap', ToResult(p), {r}, A)
        BY <1>4 DEF Goes
      <3>4. r \in ToResult(p) /\ {r} \cap ToResult(p) # {}
        BY <1>3 DEF ToResult
      <3>5. Pending(heap, p) /\ Once(heap, 0, ToResult(p)) /\ Unfinished(p) = {}
        BY <3>2, <3>3, <3>4 DEF SettledBy, Passes
      <3>6. Pending(heap', p) <=> p \notin S
        BY <1>4, <3>1, <3>5 DEF Goes, Settling
      <3>7. CASE A = {} /\ S = {p}
        BY <2>1, <3>1, <3>3, <3>4, <3>5, <3>6, <3>7 DEF Passes, SettledBy
      <3>8. CASE S = {} /\ (A = {r} \/ A = {To(p)})
        <4>1. To(p) \in ToResult(p)
          BY <3>1, PromisesAssumption DEF To, ToResult, Routes, None
        <4>2. A \cap ToResult(p) # {}
          BY <3>4, <3>8, <4>1
        <4>3. Once(heap', 0, ToResult(p)) /\ Pending(heap', p)
          BY <3>3, <3>4, <3>5, <3>6, <3>8, <4>2 DEF Passes
        <4> QED BY <2>1, <3>1, <3>5, <4>3 DEF SettledBy
      <3> QED BY <1>5, <3>1, <3>7, <3>8
    <2>5. S \subseteq {p} /\ Reachable' \subseteq Reachable \cup {p}
      BY <1>5, <2>2
    <2> QED BY <1>4, <1>6, <2>2, <2>3, <2>4, <2>5, SettlersExcept DEF Waited
  <1>10. Combiners'
    <2>1. adding.target \in {None, None} /\ adding'.target \in {None, None}
      BY Nobody
    <2>2. \A q \in Promise : q # None => heap'.combine[q] = heap.combine[q]
      BY <1>4 DEF SameCast
    <2> QED BY <1>4, <1>6, <2>1, <2>2, Nobody, CombinersExcept DEF Waited
  <1> QED BY <1>4, <1>7, <1>8, <1>9, <1>10 DEF Waited, Goes, Feeding

(* A callback that ends has nothing on the main stack above it, so it is   *)
(* no resumed call: its task is one with a handler.                        *)
LEMMA CallbackHead ==
  ASSUME IInv, Waited, UserRuns, ~InFiber, phase = "task"
  PROVE  /\ heap.queue # <<>> /\ running = <<>> /\ adding = NotAdding /\ phase # "failed"
         /\ HeadTask.fiber = None /\ HeadTask.callback /\ HeadTask.combine = None
  <1>1. heap.queue # <<>> /\ running = <<>> /\ adding = NotAdding
    BY DEF IInv, Control, InFiber, UserRuns
  <1>2. HeadTask.fiber = None /\ HeadTask.callback
    BY <1>1 DEF Waited, Thread, HeadRunning, HeadTask
  <1> QED BY <1>1, <1>2, HeadFacts DEF KindOK

LEMMA HandlerEndsWaited ==
  ASSUME IInv, Listened, Waited,
         \/ \E v \in Argument : HandlerReturns(v)
         \/ \E v \in Value : HandlerThrows(v)
  PROVE  Waited'
  <1> USE Arguments
  <1> DEFINE t == HeadTask
  <1>0. /\ Neat(heap) /\ Numbered(heap) /\ UserRuns /\ ~InFiber /\ phase = "task"
        /\ UNCHANGED <<fiber, running, adding>> /\ phase' = "loop"
    BY DEF Waited, Listened, HandlerReturns, HandlerThrows
  <1>1. /\ heap.queue # <<>> /\ running = <<>> /\ adding = NotAdding /\ phase # "failed"
        /\ t.fiber = None /\ t.callback /\ t.combine = None
    BY <1>0, CallbackHead
  <1>2. /\ TaskOK(heap, t) /\ KindOK(heap, t, t.callback) /\ HeadRoute(heap) = Route(t)
        /\ t.result = None \/ t.result \in Allocated(heap)
        /\ TaskOK(heap, [t EXCEPT !.callback = FALSE, !.isFinally = FALSE, !.extraHops = 1])
    BY <1>1, HeadFacts, TaskFields DEF HeadRoute, HeadTask
  <1>3. ASSUME NEW h, NEW A, NEW S, Moves(heap, h, A, S), SameCast(heap, h), heap' = Retire(h),
               \/ A = {} /\ S = {} /\ t.result = None
               \/ A = {HeadRoute(heap)} /\ S = {}
               \/ Decides(heap, h, t.result, A, S)
        PROVE  Waited'
    BY <1>0, <1>1, <1>3, TaskDone
  <1>4. ASSUME NEW v \in Argument, HandlerReturns(v)
        PROVE  Waited'
    <2>1. heap' = Retire(HandlerReturned(heap, t, v))
      BY <1>4 DEF HandlerReturns
    <2> DEFINE u == [t EXCEPT !.callback = FALSE, !.isFinally = FALSE, !.extraHops = 1]
    <2>2. /\ Route(u) = HeadRoute(heap) /\ KindOK(heap, u, u.callback) /\ ~u.callback
          /\ TaskOK(heap, u)
      <3>1. /\ u.fiber = t.fiber /\ u.result = t.result /\ u.combine = t.combine
            /\ u.index = t.index /\ u.callback = FALSE
        BY <1>2 DEF TaskOK, Microtask
      <3> HIDE DEF t
      <3> QED BY <1>1, <1>2, <3>1 DEF Route, KindOK
    <2> HIDE DEF t
    <2>3. CASE t.result = None
      <3>1. HandlerReturned(heap, t, v) = heap
        BY <2>3 DEF HandlerReturned
      <3>2. Moves(heap, heap, {}, {}) /\ SameCast(heap, heap)
        BY <1>0, MovesItself
      <3> QED BY <1>3, <2>1, <2>3, <3>1, <3>2
    <2>4. CASE t.result # None /\ t.isFinally
      <3>1. HandlerReturned(heap, t, v) = csVMQueueMicrotask(heap, u)
        BY <2>4 DEF HandlerReturned
      <3> HIDE DEF u
      <3>2. Moves(heap, csVMQueueMicrotask(heap, u), {Route(u)}, {}) /\ SameCast(heap, csVMQueueMicrotask(heap, u))
        BY <1>0, <2>2, EnqueueMoves
      <3>3. {Route(u)} = {HeadRoute(heap)}
        BY <2>2
      <3> QED BY <1>3, <2>1, <3>1, <3>2, <3>3
    <2>5. CASE t.result # None /\ ~t.isFinally
      <3>1. HandlerReturned(heap, t, v) = csPromiseFulfill(heap, t.result, v)
        BY <2>5 DEF HandlerReturned
      <3>2. t.result \in Allocated(heap)
        BY <1>2, <2>5
      <3>3. PICK A, S : Decides(heap, csPromiseFulfill(heap, t.result, v), t.result, A, S)
        BY <1>0, <3>2, FulfillDecides
      <3> QED BY <1>3, <2>1, <3>1, <3>3 DEF Decides
    <2> QED BY <2>3, <2>4, <2>5
  <1>5. ASSUME NEW v \in Value, HandlerThrows(v)
        PROVE  Waited'
    <2>1. heap' = Retire(csPromiseReject(heap, t.result, v)) /\ t.result \in Allocated(heap)
      BY <1>2, <1>5 DEF HandlerThrows
    <2>2. Decides(heap, csPromiseReject(heap, t.result, v), t.result, {}, {t.result})
      BY <1>0, <2>1, RejectDecides
    <2> QED BY <1>3, <2>1, <2>2 DEF Decides
  <1> QED BY <1>4, <1>5

(* A fatal error abandons the run: of what waits, only the calls count.    *)
LEMMA FatalWaited ==
  ASSUME IInv, Waited, NEW B, NEW S, Goes(heap, heap', B, {}, S), \A t \in B : t.fiber = None,
         UNCHANGED <<fiber, running, adding>>, adding = NotAdding, phase' = "failed",
         phase = "task" => HeadTask.fiber = None
  PROVE  Waited'
  <1>1. Thread'
    BY Nobody DEF Waited, Thread
  <1>2. Wakeups'
    <2>1. \A f \in Fiber : f # None => fiber'[f].state = fiber[f].state /\ (Resumed(f)' <=> Resumed(f))
      BY DEF Resumed
    <2>2. \A t \in {} \cup B : t.fiber \in {None, None}
      OBVIOUS
    <2> QED BY <2>1, <2>2, Nobody, WakeupsExcept DEF Waited
  <1>3. Settlers' /\ Combiners' /\ Feeding'
    BY DEF Settlers, Combiners, Feeding
  <1> QED BY <1>1, <1>2, <1>3 DEF Waited, Goes

LEMMA EndsWaited ==
  ASSUME IInv, Listened, Waited, CallbackEnds
  PROVE  Waited'
  <1> USE Nobody
  <1>0. Neat(heap)
    BY DEF Waited
  <1>1. CASE TopReturns \/ TimerReturns
    <2>1. /\ heap' = heap /\ UNCHANGED <<fiber, running, adding>> /\ running = <<>> /\ adding = NotAdding
          /\ phase \notin {"task", "failed"} /\ phase' # "task"
      BY <1>1 DEF TopReturns, TimerReturns, UserRuns, InFiber
    <2>2. Moves(heap, heap', {}, {}) /\ SameCast(heap, heap')
      BY <1>0, <2>1, MovesItself
    <2> QED BY <2>1, <2>2, QuietStep
  <1>2. CASE Uncaught
    <2>1. /\ UserRuns /\ ~InFiber /\ adding = NotAdding /\ phase' = "failed"
          /\ UNCHANGED <<fiber, running, adding>>
          /\ heap' = IF phase = "task" THEN Retire(heap) ELSE heap
      BY <1>2 DEF Uncaught, UserRuns
    <2>2. Moves(heap, heap, {}, {})
      BY <1>0, MovesItself
    <2>3. CASE phase = "task"
      <3>1. heap.queue # <<>> /\ HeadTask.fiber = None
        BY <2>1, <2>3, CallbackHead
      <3>2. Goes(heap, heap', {HeadRoute(heap)}, {}, {})
        BY <1>0, <2>1, <2>2, <2>3, <3>1, RetireGoes
      <3>3. \A t \in {HeadRoute(heap)} : t.fiber = None
        BY <3>1, HeadFacts
      <3> QED BY <2>1, <3>1, <3>2, <3>3, FatalWaited
    <2>4. CASE phase # "task"
      <3>1. Goes(heap, heap', {}, {}, {})
        BY <1>0, <2>1, <2>2, <2>4, MovesGoes
      <3> QED BY <2>1, <2>4, <3>1, FatalWaited
    <2> QED BY <2>3, <2>4
  <1> QED BY <1>1, <1>2, HandlerEndsWaited DEF CallbackEnds

(* When the loop has the thread.                                           *)
LEMMA LoopHas ==
  ASSUME IInv, Waited, phase = "loop"
  PROVE  running = <<>> /\ adding = NotAdding /\ phase \notin {"task", "failed"}
  BY Nobody DEF Waited, Thread

(* A task without a handler passes its outcome through.                    *)
LEMMA PassThroughWaited ==
  ASSUME IInv, Listened, Waited, phase = "loop", phase' = "loop", heap.queue # <<>>,
         HeadTask.fiber = None, HeadTask.combine = None, ~HeadTask.callback,
         heap' = Retire(PassThrough(heap, HeadTask)), UNCHANGED <<fiber, running, adding>>
  PROVE  Waited'
  <1> DEFINE t == HeadTask
             h == PassThrough(heap, t)
             u == [t EXCEPT !.extraHops = @ - 1]
  <1>1. Neat(heap) /\ Numbered(heap) /\ HeapOK(heap)
    BY DEF Waited, Listened, IInv
  <1>2. /\ TaskOK(heap, t) /\ KindOK(heap, t, t.callback) /\ HeadRoute(heap) = Route(t)
        /\ t.argument \in Datum /\ t.extraHops \in 0 .. 1
        /\ t.result = None \/ t.result \in Allocated(heap)
        /\ \A e \in 0 .. 1 : TaskOK(heap, [t EXCEPT !.extraHops = e])
    <2>1. TaskOK(heap, t) /\ KindOK(heap, t, t.callback) /\ HeadRoute(heap) = Route(t)
      BY HeadFacts DEF HeadRoute, HeadTask
    <2>2. t.extraHops \in 0 .. 1
      BY <2>1 DEF TaskOK, Microtask
    <2> HIDE DEF t
    <2> QED BY <1>1, <2>1, <2>2, TaskFields
  <1>3. t.fiber = None /\ t.combine = None /\ ~t.callback
    OBVIOUS
  <1> HIDE DEF t
  <1>4. \/ h = heap /\ t.result = None
        \/ h = csVMQueueMicrotask(heap, u) /\ t.extraHops > 0
        \/ h = csPromiseReject(heap, t.result, t.argument) /\ t.result # None
        \/ h = csPromiseFulfill(heap, t.result, t.argument) /\ t.result # None
    BY DEF PassThrough
  <1> HIDE DEF h
  <1>5. \E A, S : /\ Moves(heap, h, A, S) /\ SameCast(heap, h)
                  /\ \/ A = {} /\ S = {} /\ t.result = None
                     \/ A = {HeadRoute(heap)} /\ S = {}
                     \/ Decides(heap, h, t.result, A, S)
    <2>1. CASE h = heap /\ t.result = None
      BY <1>1, <2>1, MovesItself
    <2>2. CASE h = csVMQueueMicrotask(heap, u) /\ t.extraHops > 0
      <3>1. /\ u.fiber = t.fiber /\ u.result = t.result /\ u.combine = t.combine
            /\ u.index = t.index /\ u.callback = t.callback
        BY <1>2 DEF TaskOK, Microtask
      <3>2. TaskOK(heap, u)
        <4>1. t.extraHops - 1 \in 0 .. 1
          BY <1>2, <2>2
        <4> QED BY <1>2, <4>1
      <3> HIDE DEF u
      <3>3. Route(u) = HeadRoute(heap) /\ KindOK(heap, u, u.callback) /\ ~u.callback
        BY <1>2, <1>3, <3>1 DEF Route, KindOK
      <3>4. Moves(heap, h, {Route(u)}, {}) /\ SameCast(heap, h)
        BY <1>1, <2>2, <3>2, <3>3, EnqueueMoves
      <3>5. {Route(u)} = {HeadRoute(heap)}
        BY <3>3
      <3> QED BY <3>4, <3>5
    <2>3. CASE h = csPromiseReject(heap, t.result, t.argument) /\ t.result # None
      <3>1. Decides(heap, h, t.result, {}, {t.result})
        BY <1>1, <1>2, <2>3, RejectDecides
      <3> QED BY <3>1 DEF Decides
    <2>4. CASE h = csPromiseFulfill(heap, t.result, t.argument) /\ t.result # None
      <3>1. PICK A, S : Decides(heap, h, t.result, A, S)
        BY <1>1, <1>2, <2>4, FulfillDecides
      <3> QED BY <3>1 DEF Decides
    <2> QED BY <1>4, <2>1, <2>2, <2>3, <2>4
  <1>6. PICK A, S : /\ Moves(heap, h, A, S) /\ SameCast(heap, h)
                    /\ \/ A = {} /\ S = {} /\ t.result = None
                       \/ A = {HeadRoute(heap)} /\ S = {}
                       \/ Decides(heap, h, t.result, A, S)
    BY <1>5
  <1>7. heap' = Retire(h)
    BY DEF h, t
  <1> QED BY <1>6, <1>7, LoopHas, TaskDone DEF t

(* An input of a combinator arrives: it decides the combinator, is counted *)
(* off, or comes too late.                                                 *)
Collects(h, g, p, i, S) ==
  /\ Moves(h, g, {}, S) /\ g.made = h.made
  /\ \A q \in Promise : g.promise[q].maker = h.promise[q].maker
  /\ \A q \in Promise : q # p => g.combine[q] = h.combine[q]
  /\ \/ S = {p}
     \/ S = {} /\ ~Pending(h, p)
     \/ /\ S = {} /\ h.combine[p].mode # "race" /\ h.combine[p].remaining # 1
        /\ g.combine[p].filled = h.combine[p].filled \cup {i}
        /\ g.combine[p].remaining = h.combine[p].remaining - 1

LEMMA CombineMakes ==
  ASSUME NEW h, Neat(h), Numbered(h), NEW t, TaskOK(h, t), t.combine # None
  PROVE  \E S : Collects(h, runCombine(h, t), t.combine, t.index, S)
  <1> DEFINE p == t.combine
             g == runCombine(h, t)
             k == Fill(h, p, t.index)
  <1>1. HeapOK(h) /\ h \in Heap /\ \A v \in Datum : v \notin Promise
    <2>1. \A v \in Datum : v \notin Promise
      BY PromisesAssumption DEF Promise
    <2> QED BY <2>1 DEF Neat, HeapOK
  <1>2. p \in Allocated(h) /\ p \in Promise /\ t.argument \in Datum /\ t.index \in 0 .. MaxInputs
    BY <1>1, TaskFields, HeapFields
  <1>3. /\ Moves(h, k, {}, {}) /\ Neat(k)
        /\ k.made = h.made /\ k.promise = h.promise
        /\ \A q \in Promise : q # p => k.combine[q] = h.combine[q]
        /\ k.combine[p].mode = h.combine[p].mode
        /\ k.combine[p].filled = h.combine[p].filled \cup {t.index}
        /\ k.combine[p].remaining = h.combine[p].remaining - 1
    BY <1>2, FillMoves DEF Moves
  <1>4. Results \in Datum /\ Aggregate \in Datum
    BY DEF Datum
  <1>5. ASSUME NEW f, NEW v \in Datum
        PROVE  /\ ~Pending(f, p) => csPromiseFulfill(f, p, v) = settle(f, p, "fulfilled", v)
               /\ Pending(f, p) => csPromiseFulfill(f, p, v) = settle(f, p, "fulfilled", v)
    BY <1>1 DEF csPromiseFulfill, settle, Pending
  <1> HIDE DEF k
  <1>6. \/ g = h /\ ~Pending(h, p)
        \/ \E state \in Settled, v \in Datum : g = settle(h, p, state, v)
        \/ \E state \in Settled, v \in Datum : g = settle(k, p, state, v)
        \/ g = k /\ h.combine[p].mode # "race" /\ h.combine[p].remaining # 1
    <2>1. /\ \A v \in Datum : csPromiseFulfill(h, p, v) = settle(h, p, "fulfilled", v)
          /\ \A v \in Datum : csPromiseFulfill(k, p, v) = settle(k, p, "fulfilled", v)
          /\ "fulfilled" \in Settled /\ "rejected" \in Settled
      BY <1>5 DEF Settled
    <2>2. \/ g = h /\ ~Pending(h, p)
          \/ g = csPromiseReject(h, p, t.argument)
          \/ g = csPromiseFulfill(h, p, t.argument)
          \/ g = k /\ h.combine[p].mode # "race" /\ h.combine[p].remaining # 1
          \/ g = csPromiseReject(k, p, Aggregate)
          \/ g = csPromiseFulfill(k, p, Results)
      BY DEF runCombine, k
    <2> HIDE DEF g, p
    <2> QED BY <1>2, <1>4, <2>1, <2>2 DEF csPromiseReject
  <1> HIDE DEF g
  <1>7. ASSUME g = h, ~Pending(h, p)
        PROVE  \E S : Collects(h, g, p, t.index, S)
    <2>1. Moves(h, g, {}, {}) /\ SameCast(h, g)
      BY <1>7, MovesItself
    <2> QED BY <1>7, <2>1 DEF SameCast, Collects
  <1>8. ASSUME NEW state \in Settled, NEW v \in Datum, g = settle(h, p, state, v)
        PROVE  Moves(h, g, {}, {p}) /\ SameCast(h, g)
    BY <1>2, <1>8, SettleMoves
  <1>9. ASSUME NEW state \in Settled, NEW v \in Datum, g = settle(k, p, state, v)
        PROVE  /\ Moves(h, g, {}, {p}) /\ g.made = h.made
               /\ \A q \in Promise : g.promise[q].maker = h.promise[q].maker
               /\ \A q \in Promise : q # p => g.combine[q] = h.combine[q]
    <2>1. p \in Allocated(k)
      BY <1>2, <1>3 DEF Allocated
    <2>2. Moves(k, g, {}, {p}) /\ SameCast(k, g)
      BY <1>3, <1>9, <2>1, SettleMoves
    <2>3. Moves(h, g, {}, {p})
      BY <1>3, <2>2, MovesThen
    <2> QED BY <1>3, <2>2, <2>3 DEF SameCast
  <1>10. ASSUME g = k, h.combine[p].mode # "race", h.combine[p].remaining # 1
         PROVE  \E S : Collects(h, g, p, t.index, S)
    BY <1>3, <1>10 DEF Collects
  <1>11. \E S : Collects(h, g, p, t.index, S)
    BY <1>6, <1>7, <1>8, <1>9, <1>10 DEF SameCast, Collects
  <1> QED BY <1>11 DEF g

(* A combinator that has heard from an input owes the others.              *)
LEMMA OwesLess ==
  ASSUME NEW h, NEW k, NEW p \in Promise, NEW i \in 0 .. MaxInputs, NEW r \in ToInput(p, i),
         Goes(h, k, {r}, {}, {}), Owes(h, p), Pending(h, p),
         h.combine[p].mode # "race", h.combine[p].remaining # 1,
         k.combine[p].filled = h.combine[p].filled \cup {i},
         k.combine[p].remaining = h.combine[p].remaining - 1
  PROVE  Owes(k, p)
  <1> DEFINE T(j) == ToInput(p, j)
  <1>1. \A j \in 0 .. MaxInputs : r \in T(j) <=> j = i
    BY DEF ToInput
  <1>2. /\ \A j \in 0 .. MaxInputs : Once(h, 0, T(j)) \/ Nowhere(h, 0, T(j))
        /\ Cardinality(Inputs(h, p)) = h.combine[p].remaining
        /\ Inputs(h, p) \cap h.combine[p].filled = {}
    BY DEF Owes
  <1>3. \A j \in 0 .. MaxInputs : Passes(h, k, T(j), {r}, {})
    BY DEF Goes
  <1> HIDE DEF T
  <1>4. ~Nowhere(h, 0, T(i)) /\ Once(h, 0, T(i)) /\ Nowhere(k, 0, T(i))
    <2>1. {r} \cap T(i) # {}
      BY <1>1
    <2> QED BY <1>2, <1>3, <2>1 DEF Passes
  <1>5. \A j \in 0 .. MaxInputs : j # i => /\ Nowhere(h, 0, T(j)) => Nowhere(k, 0, T(j))
                                           /\ Once(h, 0, T(j)) => Once(k, 0, T(j))
    <2>1. \A j \in 0 .. MaxInputs : j # i => {r} \cap T(j) = {}
      BY <1>1
    <2> QED BY <1>3, <2>1 DEF Passes
  <1>6. \A j \in 0 .. MaxInputs : Once(k, 0, T(j)) \/ Nowhere(k, 0, T(j))
    BY <1>2, <1>4, <1>5
  <1>7. \A j \in 0 .. MaxInputs : /\ j \in Inputs(h, p) <=> ~Nowhere(h, 0, T(j))
                                  /\ j \in Inputs(k, p) <=> ~Nowhere(k, 0, T(j))
    BY DEF Inputs, T
  <1>8. Inputs(h, p) \subseteq 0 .. MaxInputs /\ Inputs(k, p) \subseteq 0 .. MaxInputs
    BY DEF Inputs
  <1>9. i \in Inputs(h, p)
    BY <1>4, <1>7
  <1>10. Inputs(k, p) = Inputs(h, p) \ {i}
    BY <1>2, <1>4, <1>5, <1>7, <1>8, OnceSomewhere
  <1>11. IsFiniteSet(Inputs(h, p)) /\ Cardinality(Inputs(h, p)) \in Nat
    <2>1. IsFiniteSet(0 .. MaxInputs)
      BY FS_Interval, PromisesAssumption
    <2>2. IsFiniteSet(Inputs(h, p))
      BY <1>8, <2>1, FS_Subset
    <2> QED BY <2>2, FS_CardinalityType
  <1>12. Cardinality(Inputs(k, p)) = Cardinality(Inputs(h, p)) - 1
    BY <1>9, <1>10, <1>11, FS_RemoveElement
  <1>13. Inputs(k, p) # {}
    <2> SUFFICES ASSUME Inputs(k, p) = {}
                 PROVE  FALSE
      OBVIOUS
    <2>1. Cardinality(Inputs(k, p)) = 0
      BY FS_EmptySet
    <2>2. Cardinality(Inputs(h, p)) = 1
      BY <1>11, <1>12, <2>1
    <2> QED BY <1>2, <2>2
  <1>14. Inputs(k, p) \cap k.combine[p].filled = {}
    BY <1>2, <1>10
  <1> QED BY <1>2, <1>6, <1>12, <1>13, <1>14 DEF Owes, T

LEMMA CombineWaited ==
  ASSUME IInv, Listened, Waited, phase = "loop", phase' = "loop", heap.queue # <<>>,
         HeadTask.fiber = None, HeadTask.combine # None,
         heap' = Retire(runCombine(heap, HeadTask)), UNCHANGED <<fiber, running, adding>>
  PROVE  Waited'
  <1>1. PICK t : t = HeadTask
    OBVIOUS
  <1> DEFINE p == t.combine
  <1>3. PICK r : r = HeadRoute(heap)
    OBVIOUS
  <1>4. Neat(heap) /\ Numbered(heap) /\ HeapOK(heap)
    BY DEF Waited, Listened, IInv
  <1>5. /\ TaskOK(heap, t) /\ p # None /\ p \in Reachable /\ t.index \in 0 .. MaxInputs
        /\ t.result = None /\ heap.combine[p].mode # "none"
        /\ r \in Routes /\ r.fiber = None /\ r.result = None /\ r.combine = p /\ r.index = t.index
    <2>1. /\ TaskOK(heap, t) /\ KindOK(heap, t, t.callback) /\ r \in Routes
          /\ r.fiber = t.fiber /\ r.result = t.result /\ r.combine = t.combine /\ r.index = t.index
          /\ t.fiber = None /\ p # None
      BY <1>1, <1>3, HeadFacts
    <2>2. t.index \in 0 .. MaxInputs /\ p \in Reachable
      BY <1>4, <2>1, TaskFields DEF Reachable
    <2> QED BY <2>1, <2>2 DEF KindOK
  <1>6. running = <<>> /\ adding = NotAdding /\ adding' = NotAdding /\ phase # "failed" /\ p \in Promise
    BY <1>5, LoopHas, Nobody
  <1> DEFINE g == runCombine(heap, t)
  <1>0. Neat(heap) /\ Numbered(heap) /\ TaskOK(heap, t) /\ t.combine # None
    BY <1>4, <1>5
  <1>2. PICK S : Collects(heap, g, p, t.index, S)
    BY <1>0, CombineMakes
  <1>7. /\ Moves(heap, g, {}, S) /\ g.made = heap.made
        /\ \A q \in Promise : g.promise[q].maker = heap.promise[q].maker
        /\ \A q \in Promise : q # p => g.combine[q] = heap.combine[q]
        /\ \/ S = {p}
           \/ S = {} /\ ~Pending(heap, p)
           \/ /\ S = {} /\ heap.combine[p].mode # "race"
              /\ heap.combine[p].remaining # 1
              /\ g.combine[p].filled = heap.combine[p].filled \cup {t.index}
              /\ g.combine[p].remaining = heap.combine[p].remaining - 1
    BY <1>2 DEF Collects
  <1> HIDE DEF g, p
  <1>8. /\ Goes(heap, heap', {r}, {}, S)
        /\ heap'.made = g.made /\ heap'.promise = g.promise /\ heap'.combine = g.combine
    BY <1>1, <1>3, <1>4, <1>7, RetireGoes, ZenonT(40) DEF g
  <1>9. \A u \in {} \cup {r} : u.fiber \in {None, None} /\ u.result \in {None, p} /\ u.combine \in {None, p}
    BY <1>5
  <1>10. Thread'
    BY <1>6, Nobody DEF Waited, Thread
  <1>11. Wakeups'
    <2>1. \A f \in Fiber : f # None => fiber'[f].state = fiber[f].state /\ (Resumed(f)' <=> Resumed(f))
      BY DEF Resumed
    <2> QED BY <1>8, <1>9, <2>1, Nobody, WakeupsExcept DEF Waited
  <1>12. Settlers'
    <2>1. \A q \in Promise : Unfinished(q)' = Unfinished(q)
      BY DEF Unfinished
    <2>2. Reachable' = Reachable /\ Reachable \subseteq Promise
      BY <1>7, <1>8, Nobody DEF Reachable, Allocated
    <2>3. \A q \in Reachable : q # p => /\ heap'.promise[q].maker = heap.promise[q].maker
                                        /\ Unfinished(q)' = Unfinished(q)
      BY <1>7, <1>8, <2>1, <2>2
    <2>4. ~HasSettler(heap', p)
      <3>1. heap.promise[p].maker = "combinator"
        BY <1>4, <1>5, <1>6 DEF Neat, CombinersMade
      <3> QED BY <1>6, <1>7, <1>8, <3>1 DEF HasSettler
    <2>5. S \subseteq {p} /\ Reachable' \subseteq Reachable \cup {p}
      BY <1>7, <2>2
    <2> QED BY <1>6, <1>8, <1>9, <2>2, <2>3, <2>4, <2>5, Nobody, SettlersExcept DEF Waited
  <1>13. Combiners'
    <2>1. adding.target \in {None, p} /\ adding'.target \in {None, p} /\ p # NotAdding.target
      BY <1>5, <1>6, Nobody
    <2>2. \A q \in Promise : q # p => heap'.combine[q] = heap.combine[q]
      BY <1>7, <1>8
    <2>3. Owes(heap, p)
      BY <1>5, <1>6, <2>1 DEF Waited, Combiners, OwesNow
    <2>4. Owes(heap', p)
      <3>1. CASE S = {p} \/ ~Pending(heap, p)
        <4>1. ~Pending(heap', p)
          BY <1>6, <1>8, <3>1 DEF Goes, Settling
        <4> QED BY <4>1 DEF Owes
      <3>2. CASE ~(S = {p} \/ ~Pending(heap, p))
        <4>1. r \in ToInput(p, t.index)
          BY <1>5 DEF ToInput
        <4>2. /\ heap'.combine[p].filled = heap.combine[p].filled \cup {t.index}
              /\ heap'.combine[p].remaining = heap.combine[p].remaining - 1
              /\ heap.combine[p].mode # "race" /\ heap.combine[p].remaining # 1 /\ S = {}
          BY <1>7, <1>8, <3>2
        <4> QED BY <1>5, <1>6, <1>8, <2>3, <3>2, <4>1, <4>2, OwesLess
      <3> QED BY <3>1, <3>2
    <2>5. OwesNow(heap', p, adding')
      BY <1>6, <2>1, <2>4 DEF OwesNow
    <2> QED BY <1>6, <1>8, <1>9, <2>1, <2>2, <2>5, Nobody, CombinersExcept DEF Waited
  <1> QED BY <1>6, <1>8, <1>10, <1>11, <1>12, <1>13 DEF Waited, Goes, Feeding

(* The task at the head starts: its handler gets the thread.               *)
LEMMA StartWaited ==
  ASSUME IInv, Waited, phase = "loop", phase' = "task", HeadTask.fiber = None, HeadTask.callback,
         UNCHANGED <<heap, fiber, running, adding>>
  PROVE  Waited'
  <1>1. Neat(heap)' /\ Feeding' /\ "task" \in UserPhase /\ UNCHANGED HeadTask
    BY DEF Waited, Feeding, UserPhase, HeadTask
  <1>2. Thread'
    BY <1>1 DEF Waited, Thread, HeadRunning, CallsApart, HeadTask
  <1>3. Wakeups'
    <2>1. \A f \in Fiber : ~Resumed(f) /\ ~Resumed(f)'
      BY <1>1, Nobody DEF Resumed
    <2> QED BY <2>1 DEF Waited, Wakeups, Woken
  <1>4. Settlers' /\ Combiners'
    BY DEF Waited, Settlers, Reachable, Unfinished, Combiners
  <1> QED BY <1>1, <1>2, <1>3, <1>4 DEF Waited

LEMMA RunTaskWaited ==
  ASSUME IInv, Listened, Waited, RunTask
  PROVE  Waited'
  <1>1. /\ phase = "loop" /\ heap.queue # <<>> /\ HeadTask.fiber = None
        /\ UNCHANGED <<fiber, running, adding>>
    BY DEF RunTask
  <1>2. CASE HeadTask.combine # None
    BY <1>1, <1>2, CombineWaited DEF RunTask
  <1>3. CASE HeadTask.combine = None /\ ~HeadTask.callback
    BY <1>1, <1>3, PassThroughWaited DEF RunTask
  <1>4. CASE HeadTask.combine = None /\ HeadTask.callback
    BY <1>1, <1>4, StartWaited DEF RunTask
  <1> QED BY <1>2, <1>3, <1>4

(* The call at the head is there to be resumed: it is the one entry that   *)
(* wakes it, and it only wakes a call that is suspended.                   *)
LEMMA HeadWakes ==
  ASSUME IInv, Waited, phase = "loop", heap.queue # <<>>, HeadTask.fiber # None
  PROVE  HeadTask.fiber \in Fiber /\ fiber[HeadTask.fiber].state = "suspended"
  <1>1. PICK f : f = HeadTask.fiber
    OBVIOUS
  <1>2. f \in Fiber /\ Route(heap.queue[1]) \in ToFiber(f)
    BY <1>1, HeadFacts DEF ToFiber, Routes, HeadRoute
  <1>3. Meets(heap, 0, ToFiber(f), None, 1)
    <2>1. 1 \in 1 .. Len(heap.queue)
      BY Sources DEF IInv
    <2> QED BY <1>2, <2>1, RowsAre DEF Meets
  <1>4. ~Nowhere(heap, 0, ToFiber(f))
    BY <1>3, RowsAre DEF Nowhere
  <1>5. ~Resumed(f)
    BY DEF Resumed
  <1>6. Woken(heap, f, fiber[f].state = "suspended" \/ Resumed(f))
    BY <1>2 DEF Waited, Wakeups
  <1> QED BY <1>1, <1>2, <1>4, <1>5, <1>6 DEF Woken

LEMMA ResumeWaited ==
  ASSUME IInv, Waited, csVMResumeFiber
  PROVE  Waited'
  <1>1. PICK f : f = HeadTask.fiber
    OBVIOUS
  <1>2. /\ phase = "loop" /\ heap.queue # <<>> /\ f # None /\ f \in Fiber
        /\ fiber[f].state = "suspended"
    BY <1>1, HeadWakes DEF csVMResumeFiber
  <1>3. /\ fiber' = [fiber EXCEPT ![f].state = "running"]
        /\ running' = <<f>> /\ phase' = "task" /\ heap' = heap /\ adding' = adding
    BY <1>1, <1>2 DEF csVMResumeFiber
  <1>4. /\ fiber'[f].state = "running" /\ fiber'[f].promise = fiber[f].promise
        /\ \A g \in Fiber : g # f => fiber'[g] = fiber[g]
    <2>1. fiber \in [Fiber -> ObjFiber] /\ fiber[f] \in ObjFiber
      BY <1>2 DEF IInv, TypeOK
    <2> QED BY <1>2, <1>3, <2>1 DEF ObjFiber
  <1>5. UNCHANGED HeadTask
    BY <1>3 DEF HeadTask
  <1>6. Thread'
    <2>1. HeadRunning(heap', running')
      BY <1>1, <1>2, <1>3 DEF HeadRunning, HeadTask
    <2>2. CallsApart(running', fiber')
      BY <1>3, <1>4 DEF CallsApart
    <2>3. \A g \in Fiber : fiber'[g].state = "unused" => fiber'[g].promise = None
      BY <1>4 DEF Waited, Thread
    <2> QED BY <1>3, <2>1, <2>2, <2>3 DEF Thread, UserPhase
  <1>7. Wakeups'
    <2>1. \A g \in Fiber : ~Resumed(g) /\ (Resumed(g)' <=> g = f)
      BY <1>1, <1>2, <1>3, <1>5 DEF Resumed
    <2>2. \A g \in Fiber : /\ Woken(heap, g, fiber[g].state = "suspended" \/ Resumed(g))
                           /\ (fiber'[g].state = "suspended" \/ Resumed(g)')
                                <=> (fiber[g].state = "suspended" \/ Resumed(g))
      BY <1>2, <1>4, <2>1 DEF Waited, Wakeups
    <2> QED BY <1>3, <2>2 DEF Wakeups, Woken
  <1>8. Settlers'
    <2>1. \A q : Unfinished(q)' = Unfinished(q)
      BY <1>2, <1>4 DEF Unfinished
    <2> QED BY <1>2, <1>3, <2>1 DEF Waited, Settlers, Reachable
  <1>9. Combiners' /\ Feeding' /\ Neat(heap)'
    BY <1>2, <1>3 DEF Waited, Combiners, Feeding
  <1> QED BY <1>6, <1>7, <1>8, <1>9 DEF Waited

(* With the queue empty: the report, a timer or the end.                   *)
LEMMA DrainedWaited ==
  ASSUME IInv, Waited, reportUnhandledRejections \/ FireTimer \/ LoopEnds
  PROVE  Waited'
  <1>1. /\ phase = "loop" /\ heap' = [heap EXCEPT !.watched = {}]
        /\ UNCHANGED <<fiber, running, adding>> /\ phase' # "task"
    BY DEF reportUnhandledRejections, FireTimer, LoopEnds, Drained
  <1>2. Neat(heap) /\ heap \in Heap /\ HeapOK(heap')
    BY LoopSteps DEF Waited, Neat, HeapOK, LoopStep, IInv
  <1>3. /\ heap'.made = heap.made /\ heap'.combine = heap.combine /\ heap'.queue = heap.queue
        /\ heap'.promise = heap.promise
    BY <1>1, <1>2 DEF Heap
  <1>4. Moves(heap, heap', {}, {}) /\ SameCast(heap, heap')
    BY <1>2, <1>3, SameShapeMoves
  <1> QED BY <1>1, <1>4, LoopHas, QuietStep

LEMMA LoopStepsWaited ==
  ASSUME IInv, Listened, Waited, LoopStep
  PROVE  Waited'
  BY RunTaskWaited, ResumeWaited, DrainedWaited DEF LoopStep

-----------------------------------------------------------------------------
(* The invariant.                                                          *)

(* An empty heap: nobody waits.                                            *)
LEMMA EmptyWaited == Neat(EmptyHeap) /\ Numbered(EmptyHeap) /\ \A T : Nowhere(EmptyHeap, 0, T)
  <1>1. HeapOK(EmptyHeap) /\ Numbered(EmptyHeap)
    BY EmptyHeapOK DEF Numbered, EmptyHeap, csPromiseNew, Line, Count
  <1>2. /\ EmptyHeap.queue = <<>>
        /\ \A p \in Promise : Line(EmptyHeap, p) = <<>> /\ EmptyHeap.combine[p].mode = "none"
    BY DEF EmptyHeap, csPromiseNew, Line
  <1>3. Neat(EmptyHeap)
    BY <1>1, <1>2 DEF Neat, LineKinds, QueueKinds, CombinersMade, LinesInOrder, QueueInOrder
  <1>4. \A a \in Rows : Row(EmptyHeap, a) = <<>>
    BY <1>2, RowsAre DEF Row
  <1>5. \A T : Nowhere(EmptyHeap, 0, T)
    BY <1>4 DEF Nowhere, Meets
  <1> QED BY <1>1, <1>3, <1>5

LEMMA InitWaited == Init => Waited
  <1> SUFFICES ASSUME Init PROVE Waited
    OBVIOUS
  <1>0. /\ phase = "program" /\ adding = NotAdding /\ phase \in UserPhase /\ phase # "task"
        /\ IInv /\ None \notin Promise /\ None \notin Fiber /\ NotAdding.target = None
    BY InitOK, Nobody DEF Init, UserPhase
  <1>1. /\ Neat(heap) /\ (\A T : Nowhere(heap, 0, T)) /\ heap.combine = EmptyHeap.combine
        /\ InitAsync => /\ \A p \in Reachable : p = 1
                        /\ Pending(heap, 1)
        /\ InitPlain => Reachable = {}
    <2>1. CASE InitPlain
      BY <2>1, EmptyWaited, EmptyHeapOK, <1>0 DEF InitPlain, InitAsync, Reachable, Allocated
    <2>2. CASE InitAsync
      <3>1. EmptyHeap.made = 0 /\ EmptyHeap.made + 1 <= MaxPromises /\ "async" \in Maker
        BY <2>2, EmptyHeapOK, PromisesAssumption DEF InitAsync, Promise, Maker
      <3>2. heap = Allocate(EmptyHeap, "async") /\ body = 1
        BY <2>2 DEF InitAsync
      <3>3. /\ Moves(EmptyHeap, heap, {}, {}) /\ heap.made = Fresh(EmptyHeap)
            /\ heap.combine = EmptyHeap.combine
            /\ Fresh(EmptyHeap) \in Promise /\ Pending(EmptyHeap, Fresh(EmptyHeap))
        BY <3>1, <3>2, EmptyWaited, AllocateMoves
      <3>4. Goes(EmptyHeap, heap, {}, {}, {})
        BY <3>3, EmptyWaited, MovesGoes
      <3>5. \A T : Nowhere(heap, 0, T)
        BY <3>4, EmptyWaited DEF Goes, Passes
      <3>6. heap.made = 1 /\ Pending(heap, 1)
        BY <3>1, <3>3, <3>4 DEF Goes, Settling, Fresh
      <3>7. \A p \in Reachable : p = 1
        BY <3>6 DEF Reachable, Allocated
      <3> QED BY <3>2, <3>3, <3>4, <3>5, <3>6, <3>7, <1>0 DEF Goes, InitPlain, None
    <2> QED BY <2>1, <2>2 DEF Init
  <1>2. /\ \A f \in Fiber : /\ fiber[f].state # "suspended"
                            /\ fiber[f].state = "unused" => fiber[f].promise = None
        /\ CallsApart(running, fiber)
    <2>1. CASE InitPlain
      BY <2>1 DEF InitPlain, CallsApart
    <2>2. CASE InitAsync
      BY <2>2 DEF InitAsync, CallsApart
    <2> QED BY <2>1, <2>2 DEF Init
  <1>3. Thread
    BY <1>0, <1>2 DEF Thread
  <1>4. Wakeups
    BY <1>0, <1>1, <1>2 DEF Wakeups, Woken, Resumed
  <1>5. Settlers
    <2>1. CASE InitPlain
      BY <1>1, <2>1 DEF Settlers
    <2>2. CASE InitAsync
      <3>1. Unfinished(1) = {1} /\ 1 \in Fiber
        BY <2>2 DEF InitAsync, Unfinished, None
      <3>2. SettledBy(heap, 1, Unfinished(1))
        BY <1>1, <2>2, <3>1 DEF SettledBy
      <3> QED BY <1>1, <2>2, <3>2 DEF Settlers
    <2> QED BY <2>1, <2>2 DEF Init
  <1>6. Combiners
    BY <1>1 DEF Combiners, EmptyHeap
  <1> QED BY <1>0, <1>1, <1>3, <1>4, <1>5, <1>6 DEF Waited, Feeding

LEMMA NextWaited ==
  ASSUME IInv, Listened, Waited, [Next]_vars
  PROVE  Waited'
  <1>1. CASE PromiseCall
    <2>1. ASSUME NEW v \in Argument, combinatorInput(v)
          PROVE  Waited'
      BY <2>1, InputWaited
    <2>2. ASSUME NEW mode \in Mode, NEW n \in 1 .. MaxInputs, combinator(mode, n)
          PROVE  Waited'
      BY <2>2, CombinatorWaited
    <2> QED BY <1>1, <2>1, <2>2, SettleCallsWaited, ListenCallsWaited, QueueCallsWaited
        DEF PromiseCall
  <1>2. CASE TimerCall
    BY <1>2, TimerCallsWaited
  <1>3. CASE UNCHANGED vars
    <2>1. UNCHANGED <<heap, fiber, running, phase, adding>>
      BY <1>3 DEF vars
    <2>2. Neat(heap)' /\ Thread' /\ Feeding'
      BY <2>1 DEF Waited, Thread, HeadRunning, CallsApart, Feeding
    <2>3. Wakeups'
      BY <2>1 DEF Waited, Wakeups, Resumed, HeadTask
    <2>4. Settlers' /\ Combiners'
      BY <2>1 DEF Waited, Settlers, Reachable, Unfinished, Combiners
    <2> QED BY <2>2, <2>3, <2>4 DEF Waited
  <1> QED BY <1>1, <1>2, <1>3, FiberStepsWaited, EndsWaited, LoopStepsWaited DEF Next, Ended

(* Who waits for what, at every moment of a run.                           *)
THEOREM WaitedInvariant == Spec => [](IInv /\ Waited)
  <1>1. Init => Listened /\ Waited
    BY InitNumbered, InitWaited
  <1>2. IInv /\ Listened /\ Waited /\ [Next]_vars => Listened' /\ Waited'
    BY NextAllowed, NextWaited
  <1> QED BY Invariance, <1>1, <1>2, PTL DEF Spec

-----------------------------------------------------------------------------
(* The entries that EventLoop's properties speak of.                       *)

Entry(a, i) == [at |-> a, nth |-> i, who |-> Row(heap, a)[i]]
Leading(T) == {w \in Waiting : Route(w.who) \in T}

LEMMA EntriesAre ==
  ASSUME HeapOK(heap)
  PROVE  /\ \A a \in Rows : Row(heap, a) \in Seq(Reaction) \cup Seq(Microtask)
         /\ \A a \in Rows, i \in Nat : i \in 1 .. Len(Row(heap, a)) => Entry(a, i) \in Waiting
         /\ \A w \in Waiting : \E a \in Rows, i \in Nat : i \in 1 .. Len(Row(heap, a)) /\ w = Entry(a, i)
  <1>1. \A a \in Rows : Row(heap, a) \in Seq(Reaction) \cup Seq(Microtask)
    BY Sources, RowsAre
  <1>2. /\ \A p \in Promise : /\ DOMAIN heap.promise[p].reactions = 1 .. Len(Row(heap, p))
                              /\ heap.promise[p].reactions = Row(heap, p)
        /\ DOMAIN heap.queue = 1 .. Len(Row(heap, None)) /\ heap.queue = Row(heap, None)
    BY Sources, RowsAre DEF Line
  <1>3. ASSUME NEW a \in Rows, NEW i \in 1 .. Len(Row(heap, a))
        PROVE  Entry(a, i) \in Waiting
    <2>1. CASE a = None
      BY <1>2, <1>3, <2>1 DEF Waiting, Entry
    <2>2. CASE a \in Promise
      BY <1>2, <1>3, <2>2 DEF Waiting, Entry
    <2> QED BY <2>1, <2>2 DEF Rows
  <1>4. ASSUME NEW w \in Waiting
        PROVE  \E a \in Rows, i \in Nat : i \in 1 .. Len(Row(heap, a)) /\ w = Entry(a, i)
    <2>1. CASE w \in {[at |-> None, nth |-> i, who |-> heap.queue[i]] : i \in DOMAIN heap.queue}
      <3>1. PICK i \in 1 .. Len(Row(heap, None)) : w = Entry(None, i)
        BY <1>2, <2>1 DEF Entry
      <3> QED BY <3>1, RowsAre
    <2>2. CASE \E p \in Promise : w \in {[at |-> p, nth |-> i, who |-> heap.promise[p].reactions[i]] :
                                           i \in DOMAIN heap.promise[p].reactions}
      <3>1. PICK p \in Promise : \E i \in 1 .. Len(Row(heap, p)) : w = Entry(p, i)
        BY <1>2, <2>2 DEF Entry
      <3>2. PICK i \in 1 .. Len(Row(heap, p)) : w = Entry(p, i)
        BY <3>1
      <3> QED BY <3>2, RowsAre
    <2> QED BY <1>4, <2>1, <2>2 DEF Waiting
  <1> QED BY <1>1, <1>3, <1>4

(* Whom an entry names, it names by its route.                             *)
LEMMA RoutesAre ==
  ASSUME HeapOK(heap), NEW w \in Waiting
  PROVE  /\ \A f : w.who.fiber = f <=> Route(w.who) \in ToFiber(f)
         /\ \A p : w.who.result = p <=> Route(w.who) \in ToResult(p)
         /\ \A p, i : w.who.combine = p /\ w.who.index = i <=> Route(w.who) \in ToInput(p, i)
         /\ w.who.index \in 0 .. MaxInputs
  <1>1. PICK a \in Rows, i \in Nat : i \in 1 .. Len(Row(heap, a)) /\ w = Entry(a, i)
    BY EntriesAre
  <1>2. w.who \in Reaction \cup Microtask
    BY <1>1, EntriesAre DEF Entry
  <1>3. Route(w.who) \in Routes
    BY <1>2 DEF Reaction, Microtask, Route, Routes
  <1> QED BY <1>2, <1>3 DEF Route, ToFiber, ToResult, ToInput, Reaction, Microtask

(* Once and Nowhere, in these terms.                                       *)
LEMMA LeadingAre ==
  ASSUME HeapOK(heap), NEW T
  PROVE  /\ Nowhere(heap, 0, T) <=> Leading(T) = {}
         /\ Once(heap, 0, T) => \E w : Leading(T) = {w}
  <1>1. ASSUME NEW a \in Rows, NEW i \in Nat
        PROVE  Meets(heap, 0, T, a, i) <=> i \in 1 .. Len(Row(heap, a)) /\ Entry(a, i) \in Leading(T)
    BY <1>1, EntriesAre DEF Meets, Leading, Entry
  <1>2. \A w \in Leading(T) : \E a \in Rows, i \in Nat : i \in 1 .. Len(Row(heap, a)) /\ w = Entry(a, i)
    BY EntriesAre DEF Leading
  <1>3. Nowhere(heap, 0, T) <=> Leading(T) = {}
    BY <1>1, <1>2 DEF Nowhere
  <1>4. ASSUME Once(heap, 0, T)
        PROVE  \E w : Leading(T) = {w}
    <2>1. PICK a \in Rows, i \in Nat :
            /\ Meets(heap, 0, T, a, i)
            /\ \A b \in Rows, j \in Nat : Meets(heap, 0, T, b, j) => b = a /\ j = i
      BY <1>4 DEF Once
    <2>2. Entry(a, i) \in Leading(T)
      BY <1>1, <2>1
    <2>3. \A w \in Leading(T) : w = Entry(a, i)
      BY <1>1, <1>2, <2>1
    <2> QED BY <2>2, <2>3
  <1> QED BY <1>3, <1>4

LEMMA OneWakeupHolds ==
  ASSUME IInv, Waited
  PROVE  OneWakeup
  <1> SUFFICES ASSUME NEW f \in Fiber
               PROVE  LET wakers == {w \in Waiting : w.who.fiber = f /\ ~HeadRuns(w)} IN
                      IF fiber[f].state = "suspended" THEN Cardinality(wakers) = 1 ELSE wakers = {}
    BY DEF OneWakeup
  <1> DEFINE wakers == {w \in Waiting : w.who.fiber = f /\ ~HeadRuns(w)}
             L == Leading(ToFiber(f))
  <1>1. HeapOK(heap) /\ Woken(heap, f, fiber[f].state = "suspended" \/ Resumed(f))
    BY DEF IInv, Waited, Wakeups
  <1>2. wakers = {w \in L : ~HeadRuns(w)}
    BY <1>1, RoutesAre DEF Leading
  <1>3. /\ Nowhere(heap, 0, ToFiber(f)) => L = {}
        /\ Once(heap, 0, ToFiber(f)) => \E w : L = {w}
    BY <1>1, LeadingAre
  <1>4. phase = "task" => Entry(None, 1) \in Waiting /\ Entry(None, 1).who = HeadTask
    <2>1. phase = "task" => 1 \in 1 .. Len(heap.queue)
      BY <1>1, Sources DEF IInv, Control
    <2> QED BY <1>1, <2>1, EntriesAre, RowsAre DEF Entry, HeadTask
  <1>5. \A w \in L : HeadRuns(w) => w = Entry(None, 1) /\ w.who.fiber = f
    <2> SUFFICES ASSUME NEW w \in L, HeadRuns(w)
                 PROVE  w = Entry(None, 1) /\ w.who.fiber = f
      OBVIOUS
    <2>1. w \in Waiting /\ w.who.fiber = f
      BY <1>1, RoutesAre DEF Leading
    <2>2. PICK a \in Rows, i \in Nat : w = Entry(a, i)
      BY <1>1, <2>1, EntriesAre
    <2> QED BY <2>1, <2>2 DEF HeadRuns, Entry
  <1> HIDE DEF wakers, L
  <1>6. CASE fiber[f].state # "suspended" /\ ~Resumed(f)
    BY <1>1, <1>2, <1>3, <1>6 DEF wakers, Woken
  <1>7. CASE Resumed(f)
    <2>1. fiber[f].state = "running"
      <3>1. running # <<>> /\ running[1] = f /\ f # None
        BY <1>1, <1>7, Nobody DEF Waited, Thread, HeadRunning, Resumed, HeadTask
      <3>2. 1 \in 1 .. Len(running)
        BY <3>1 DEF IInv, TypeOK
      <3> QED BY <3>1, <3>2 DEF Waited, Thread, CallsApart
    <2>2. Entry(None, 1) \in L /\ HeadRuns(Entry(None, 1))
      BY <1>1, <1>4, <1>7, RoutesAre DEF Resumed, L, Leading, HeadRuns, Entry
    <2>3. PICK w : L = {w}
      BY <1>1, <1>3, <1>7 DEF Woken
    <2>4. wakers = {}
      BY <1>2, <2>2, <2>3
    <2> QED BY <2>1, <2>4 DEF wakers
  <1>8. CASE fiber[f].state = "suspended" /\ ~Resumed(f)
    <2>1. PICK w : L = {w}
      BY <1>1, <1>3, <1>8 DEF Woken
    <2>2. ~HeadRuns(w)
      BY <1>4, <1>5, <1>8, <2>1 DEF HeadRuns, Resumed
    <2>3. wakers = {w}
      BY <1>2, <2>1, <2>2
    <2>4. Cardinality(wakers) = 1
      BY <2>3, FS_Singleton
    <2> QED BY <1>8, <2>4 DEF wakers
  <1> QED BY <1>6, <1>7, <1>8

LEMMA OneSettlerHolds ==
  ASSUME IInv, Waited
  PROVE  OneSettler
  <1> SUFFICES ASSUME phase # "failed", NEW p \in Reachable, HasSettler(heap, p)
               PROVE  LET feeders == {w \in Waiting : w.who.result = p} IN
                      IF heap.promise[p].state = "pending"
                      THEN Cardinality(feeders) + Cardinality(Unfinished(p)) = 1
                      ELSE Unfinished(p) = {} /\ \A w \in feeders : HeadRuns(w)
    BY DEF OneSettler, Unfinished, HasSettler
  <1> DEFINE feeders == {w \in Waiting : w.who.result = p}
             T == ToResult(p)
  <1>1. HeapOK(heap) /\ SettledBy(heap, p, Unfinished(p))
    BY DEF IInv, Waited, Settlers
  <1>2. feeders = Leading(T)
    BY <1>1, RoutesAre DEF Leading
  <1>3. /\ Nowhere(heap, 0, T) => feeders = {}
        /\ Once(heap, 0, T) => \E w : feeders = {w}
    BY <1>1, <1>2, LeadingAre
  <1>4. /\ Nowhere(heap, 0, T) => Cardinality(feeders) = 0
        /\ Once(heap, 0, T) => Cardinality(feeders) = 1
        /\ Unfinished(p) = {} => Cardinality(Unfinished(p)) = 0
        /\ (\E f \in Fiber : Unfinished(p) = {f}) => Cardinality(Unfinished(p)) = 1
    <2> HIDE DEF feeders, T
    <2> QED BY <1>3, FS_EmptySet, FS_Singleton
  <1> HIDE DEF feeders
  <1>5. CASE Pending(heap, p)
    BY <1>1, <1>4, <1>5 DEF SettledBy, Pending, feeders
  <1>6. CASE ~Pending(heap, p)
    BY <1>1, <1>3, <1>6 DEF SettledBy, Pending, feeders
  <1> QED BY <1>5, <1>6

LEMMA CombinatorOwesHolds ==
  ASSUME IInv, Waited
  PROVE  CombinatorOwes
  <1> SUFFICES ASSUME phase # "failed", NEW p \in Reachable, heap.combine[p].mode # "none",
                      Pending(heap, p), adding.target # p
               PROVE  LET owed == {w \in Waiting : w.who.combine = p} IN
                      /\ owed # {}
                      /\ heap.combine[p].mode # "race" =>
                           /\ Cardinality(owed) = heap.combine[p].remaining
                           /\ \A w \in owed : w.who.index \notin heap.combine[p].filled
    BY DEF CombinatorOwes
  <1> DEFINE owed == {w \in Waiting : w.who.combine = p}
             I == Inputs(heap, p)
             T(i) == ToInput(p, i)
  <1>1. HeapOK(heap) /\ p \in Promise /\ Owes(heap, p)
    BY Nobody DEF IInv, Waited, Combiners, OwesNow
  <1>2. /\ \A i \in 0 .. MaxInputs : Once(heap, 0, T(i)) \/ Nowhere(heap, 0, T(i))
        /\ I # {}
        /\ heap.combine[p].mode # "race" => /\ Cardinality(I) = heap.combine[p].remaining
                                            /\ I \cap heap.combine[p].filled = {}
    BY <1>1 DEF Owes
  <1>3. \A i : Leading(T(i)) = {w \in owed : w.who.index = i}
    BY <1>1, RoutesAre DEF Leading
  <1>4. \A i \in 0 .. MaxInputs : /\ Nowhere(heap, 0, T(i)) <=> Leading(T(i)) = {}
                                  /\ Once(heap, 0, T(i)) => \E w : Leading(T(i)) = {w}
    BY <1>1, LeadingAre
  <1>5. \A i : i \in I <=> i \in 0 .. MaxInputs /\ ~Nowhere(heap, 0, T(i))
    BY DEF Inputs
  <1>6. \A w \in owed : w.who.index \in 0 .. MaxInputs
    BY <1>1, RoutesAre
  <1> HIDE DEF owed, I, T
  <1>7. \A w \in owed : w.who.index \in I
    BY <1>3, <1>4, <1>5, <1>6
  <1>8. \A i \in I : \E w \in owed : w.who.index = i
    BY <1>3, <1>4, <1>5
  <1>9. \A v, w \in owed : v.who.index = w.who.index => v = w
    <2> SUFFICES ASSUME NEW v \in owed, NEW w \in owed, v.who.index = w.who.index
                 PROVE  v = w
      OBVIOUS
    <2>1. v \in Leading(T(v.who.index)) /\ w \in Leading(T(v.who.index))
      BY <1>3
    <2>2. PICK x : Leading(T(v.who.index)) = {x}
      BY <1>2, <1>4, <1>6, <2>1
    <2> QED BY <2>1, <2>2
  <1>10. owed # {}
    BY <1>2, <1>8
  <1>11. Cardinality(owed) = Cardinality(I)
    <2> DEFINE m == [i \in I |-> CHOOSE w \in owed : w.who.index = i]
    <2>1. \A i \in I : m[i] \in owed /\ m[i].who.index = i
      BY <1>8
    <2>2. m \in [I -> owed] /\ DOMAIN m = I
      BY <2>1
    <2> HIDE DEF m
    <2>3. \A i, j \in I : m[i] = m[j] => i = j
      BY <2>1
    <2>4. \A w \in owed : \E i \in I : m[i] = w
      BY <1>7, <1>9, <2>1
    <2>5. m \in Bijection(I, owed)
      BY <2>2, <2>3, <2>4 DEF Bijection, Injection, Surjection, IsInjective
    <2>6. IsFiniteSet(I)
      <3>1. IsFiniteSet(0 .. MaxInputs) /\ I \subseteq 0 .. MaxInputs
        BY <1>5, FS_Interval, PromisesAssumption
      <3> QED BY <3>1, FS_Subset
    <2> QED BY <2>5, <2>6, FS_Bijection DEF ExistsBijection
  <1>12. heap.combine[p].mode # "race" => \A w \in owed : w.who.index \notin heap.combine[p].filled
    BY <1>2, <1>7
  <1> QED BY <1>2, <1>10, <1>11, <1>12 DEF owed

LEMMA HandlersInOrderHolds ==
  ASSUME IInv, Waited
  PROVE  HandlersInOrder
  <1>1. DOMAIN heap.queue = 1 .. Len(heap.queue) /\ QueueInOrder(heap)
    BY Nobody DEF Waited, Neat
  <1> QED BY <1>1 DEF QueueInOrder, Before, HandlersInOrder

-----------------------------------------------------------------------------

(* A suspended async call has one reaction or microtask that will resume   *)
(* it, and csVMResumeFiber finds no other call at the head of the queue.   *)
THEOREM WokenOnce == Spec => []OneWakeup
  <1>1. IInv /\ Waited => OneWakeup
    BY OneWakeupHolds
  <1> QED BY WaitedInvariant, <1>1, PTL

(* What .then, .catch, .finally or an async call returned is settled by    *)
(* one reaction, one microtask or the end of one body (csPromiseFulfill,   *)
(* csPromiseReject, finishFiber): never by nobody, never by two.           *)
THEOREM SettledByOne == Spec => []OneSettler
  <1>1. IInv /\ Waited => OneSettler
    BY OneSettlerHolds
  <1> QED BY WaitedInvariant, <1>1, PTL

(* all, any, allSettled and race wait for what they have not heard from:   *)
(* runCombine's count is that of the inputs still to come.                 *)
THEOREM CombinatorsCount == Spec => []CombinatorOwes
  <1>1. IInv /\ Waited => CombinatorOwes
    BY CombinatorOwesHolds
  <1> QED BY WaitedInvariant, <1>1, PTL

(* settle and csPromiseAddReaction queue the handlers of one promise in    *)
(* the order they were registered, before or after it settled.             *)
THEOREM HandlersQueuedInOrder == Spec => []HandlersInOrder
  <1>1. IInv /\ Waited => HandlersInOrder
    BY HandlersInOrderHolds
  <1> QED BY WaitedInvariant, <1>1, PTL
=============================================================================
