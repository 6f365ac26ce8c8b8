--------------------------------- MODULE Sync ---------------------------------
(***************************************************************************)
(* The semaphore, the wait group and the channel of library/sync/sync.cx,  *)
(* used by async functions on one thread.  A worker is one async call      *)
(* under way.  While it runs it has the thread to itself; it loses it at   *)
(* an await, and what the primitives order is who is resumed when.  Every  *)
(* promise they hand out is awaited at once, so that settling one puts the *)
(* worker behind it at the end of the microtask queue.                     *)
(***************************************************************************)
EXTENDS Integers, Sequences, FiniteSets

CONSTANTS
  Worker,       \* async calls that may be under way at once
  Setups,       \* sizes of semaphore and channel considered
  MaxSends      \* values sent in all

(* A Mutex is a semaphore of one permit; a channel of capacity 0 has no    *)
(* bound.                                                                  *)
Setup == [permits : Nat \ {0}, capacity : Nat]

ASSUME SyncAssumption ==
  /\ IsFiniteSet(Worker)
  /\ Setups \subseteq Setup
  /\ MaxSends \in Nat

VARIABLES
  semaphore,   \* Semaphore: its size, #free and #waiting
  group,       \* WaitGroup: #count and #waiting
  channel,     \* Channel: #capacity, #queue, #senders, #receivers, #closed
  ready,       \* the microtask queue: workers to resume, each with its outcome
  running,     \* workers on the C stack, innermost last
  worker,      \* where each is, whether it holds a permit and is counted in
  sent,        \* values sent so far; the k-th value is k
  refused,     \* of those, the ones close() turned away
  got,         \* values that reached a consumer
  askers       \* workers that asked for a permit and have not entered

vars == <<semaphore, group, channel, ready, running, worker, sent, refused, got,
          askers>>

history == <<sent, refused, got, askers>>

Awaiting == {"acquire", "wait", "send", "receive", "sleep"}
Semaphore == [permits : Nat \ {0}, free : Nat, waiting : Seq(Worker)]
WaitGroup == [count : Nat, waiting : Seq(Worker)]
Sender == [value : Nat, who : Worker]
Channel ==
  [capacity : Nat, queue : Seq(Nat), senders : Seq(Sender),
   receivers : Seq(Worker), closed : BOOLEAN]

(* What a promise a worker awaited settled with: a value from the channel, *)
(* or, at 0, something with nothing in it.                                 *)
Outcome == [who : Worker, value : Nat]

TypeOK ==
  /\ semaphore \in Semaphore
  /\ group \in WaitGroup
  /\ channel \in Channel
  /\ ready \in Seq(Outcome)
  /\ running \in Seq(Worker)
  /\ worker \in [Worker -> [at : {"idle", "runs"} \cup Awaiting,
                            holds : BOOLEAN, counted : BOOLEAN]]
  /\ sent \in 0 .. MaxSends
  /\ refused \in Nat /\ got \in Nat
  /\ askers \in Seq(Worker)

-----------------------------------------------------------------------------
(* The thread.                                                             *)

Top == running[Len(running)]
Runs(w) == running # <<>> /\ w = Top
Callers == SubSeq(running, 1, Len(running) - 1)
At(w, place) == [worker EXCEPT ![w].at = place]

Wake(w, value) == [who |-> w, value |-> value]
WakeAll(ws) == [i \in 1 .. Len(ws) |-> Wake(ws[i], 0)]

(* Lists of workers.                                                       *)
Who(list) == [i \in 1 .. Len(list) |-> list[i].who]
In(list, w) == \E i \in 1 .. Len(list) : list[i] = w
NoneTwice(list) == \A i, j \in 1 .. Len(list) : list[i] = list[j] => i = j

(* The worker that runs awaits what it was just handed; `settled` are the  *)
(* promises settled meanwhile, its own among them if it need not wait.     *)
Awaits(w, place, settled) ==
  /\ worker' = At(w, place)
  /\ running' = Callers
  /\ ready' = ready \o settled

(* The worker that runs goes on.                                           *)
GoesOn(settled) == ready' = ready \o settled /\ UNCHANGED running

-----------------------------------------------------------------------------
(* Semaphore, and Mutex with one permit.                                   *)

acquire(w) ==
  /\ Runs(w) /\ ~worker[w].holds
  /\ IF semaphore.free > 0
     THEN /\ semaphore' = [semaphore EXCEPT !.free = @ - 1]
          /\ Awaits(w, "acquire", <<Wake(w, 0)>>)
     ELSE /\ semaphore' = [semaphore EXCEPT !.waiting = Append(@, w)]
          /\ Awaits(w, "acquire", <<>>)
  /\ askers' = Append(askers, w)
  /\ UNCHANGED <<group, channel, sent, refused, got>>

(* As if the permit were freed for whoever asks first.                     *)
MutRelease(w) ==
  /\ Runs(w) /\ worker[w].holds
  /\ semaphore' = [semaphore EXCEPT !.free = @ + 1]
  /\ GoesOn(<<>>)
  /\ worker' = [worker EXCEPT ![w].holds = FALSE]
  /\ UNCHANGED <<group, channel, history>>

(* As if the last of those who wait were served first.                     *)
MutReleaseLast(w) ==
  /\ Runs(w) /\ worker[w].holds
  /\ LET q == semaphore.waiting IN
     IF q # <<>>
     THEN /\ semaphore' = [semaphore EXCEPT !.waiting = SubSeq(q, 1, Len(q) - 1)]
          /\ GoesOn(<<Wake(q[Len(q)], 0)>>)
     ELSE semaphore' = [semaphore EXCEPT !.free = @ + 1] /\ GoesOn(<<>>)
  /\ worker' = [worker EXCEPT ![w].holds = FALSE]
  /\ UNCHANGED <<group, channel, history>>

(* The permit goes straight to the first who waits; it is never free in    *)
(* between.                                                                *)
release(w) ==
  /\ Runs(w) /\ worker[w].holds
  /\ IF semaphore.waiting # <<>>
     THEN /\ semaphore' = [semaphore EXCEPT !.waiting = Tail(@)]
          /\ GoesOn(<<Wake(Head(semaphore.waiting), 0)>>)
     ELSE semaphore' = [semaphore EXCEPT !.free = @ + 1] /\ GoesOn(<<>>)
  /\ worker' = [worker EXCEPT ![w].holds = FALSE]
  /\ UNCHANGED <<group, channel, history>>

-----------------------------------------------------------------------------
(* WaitGroup.                                                              *)

Counted == {w \in Worker : worker[w].counted}

add(w) ==
  /\ Runs(w) /\ ~worker[w].counted
  /\ group' = [group EXCEPT !.count = @ + 1]
  /\ worker' = [worker EXCEPT ![w].counted = TRUE]
  /\ GoesOn(<<>>)
  /\ UNCHANGED <<semaphore, channel, history>>

(* As if the first done() told everyone.                                   *)
MutDone(w) ==
  /\ Runs(w) /\ worker[w].counted
  /\ group' = [count |-> group.count - 1, waiting |-> <<>>]
  /\ GoesOn(WakeAll(group.waiting))
  /\ worker' = [worker EXCEPT ![w].counted = FALSE]
  /\ UNCHANGED <<semaphore, channel, history>>

done(w) ==
  /\ Runs(w) /\ worker[w].counted
  /\ IF group.count > 1
     THEN group' = [group EXCEPT !.count = @ - 1] /\ GoesOn(<<>>)
     ELSE /\ group' = [count |-> group.count - 1, waiting |-> <<>>]
          /\ GoesOn(WakeAll(group.waiting))
  /\ worker' = [worker EXCEPT ![w].counted = FALSE]
  /\ UNCHANGED <<semaphore, channel, history>>

wait(w) ==
  /\ Runs(w)
  /\ IF group.count = 0
     THEN Awaits(w, "wait", <<Wake(w, 0)>>) /\ UNCHANGED group
     ELSE /\ group' = [group EXCEPT !.waiting = Append(@, w)]
          /\ Awaits(w, "wait", <<>>)
  /\ UNCHANGED <<semaphore, channel, history>>

-----------------------------------------------------------------------------
(* Channel.                                                                *)

HasRoom == channel.capacity = 0 \/ Len(channel.queue) < channel.capacity

(* To a receiver that waits, or into the queue, or on to the senders that  *)
(* wait for room.                                                          *)
Sends(w, v) ==
  \/ /\ channel.receivers # <<>>
     /\ channel' = [channel EXCEPT !.receivers = Tail(@)]
     /\ Awaits(w, "send", <<Wake(Head(channel.receivers), v), Wake(w, 0)>>)
  \/ /\ channel.receivers = <<>> /\ HasRoom
     /\ channel' = [channel EXCEPT !.queue = Append(@, v)]
     /\ Awaits(w, "send", <<Wake(w, 0)>>)
  \/ /\ channel.receivers = <<>> /\ ~HasRoom
     /\ channel' = [channel EXCEPT !.senders = Append(@, [value |-> v, who |-> w])]
     /\ Awaits(w, "send", <<>>)

send(w) ==
  /\ Runs(w) /\ ~channel.closed /\ sent < MaxSends
  /\ Sends(w, sent + 1)
  /\ sent' = sent + 1
  /\ UNCHANGED <<semaphore, group, refused, got, askers>>

(* As if the room a value leaves were given to nobody.                     *)
MutReceive(w) ==
  /\ Runs(w)
  /\ \/ /\ channel.queue # <<>>
        /\ channel' = [channel EXCEPT !.queue = Tail(@)]
        /\ Awaits(w, "receive", <<Wake(w, Head(channel.queue))>>)
     \/ /\ channel.queue = <<>> /\ channel.closed
        /\ Awaits(w, "receive", <<Wake(w, 0)>>) /\ UNCHANGED channel
     \/ /\ channel.queue = <<>> /\ ~channel.closed
        /\ channel' = [channel EXCEPT !.receivers = Append(@, w)]
        /\ Awaits(w, "receive", <<>>)
  /\ UNCHANGED <<semaphore, group, history>>

(* As if the value of a sender that waits were taken before the queue's.   *)
MutReceiveSender(w) ==
  /\ Runs(w)
  /\ \/ /\ channel.queue # <<>> /\ channel.senders = <<>>
        /\ channel' = [channel EXCEPT !.queue = Tail(@)]
        /\ Awaits(w, "receive", <<Wake(w, Head(channel.queue))>>)
     \/ /\ channel.senders # <<>>
        /\ channel' = [channel EXCEPT !.senders = Tail(@)]
        /\ Awaits(w, "receive", <<Wake(Head(channel.senders).who, 0),
                                 Wake(w, Head(channel.senders).value)>>)
     \/ /\ channel.queue = <<>> /\ channel.closed
        /\ Awaits(w, "receive", <<Wake(w, 0)>>) /\ UNCHANGED channel
     \/ /\ channel.queue = <<>> /\ ~channel.closed
        /\ channel' = [channel EXCEPT !.receivers = Append(@, w)]
        /\ Awaits(w, "receive", <<>>)
  /\ UNCHANGED <<semaphore, group, history>>

(* A value leaves the queue, and the first sender that waits for room puts *)
(* its own in; or the channel is over; or there is nothing yet.            *)
receive(w) ==
  /\ Runs(w)
  /\ \/ /\ channel.queue # <<>> /\ channel.senders = <<>>
        /\ channel' = [channel EXCEPT !.queue = Tail(@)]
        /\ Awaits(w, "receive", <<Wake(w, Head(channel.queue))>>)
     \/ /\ channel.queue # <<>> /\ channel.senders # <<>>
        /\ channel' = [channel EXCEPT
                         !.queue = Append(Tail(@), Head(channel.senders).value),
                         !.senders = Tail(@)]
        /\ Awaits(w, "receive",
                  <<Wake(Head(channel.senders).who, 0), Wake(w, Head(channel.queue))>>)
     \/ /\ channel.queue = <<>> /\ channel.closed
        /\ Awaits(w, "receive", <<Wake(w, 0)>>) /\ UNCHANGED channel
     \/ /\ channel.queue = <<>> /\ ~channel.closed
        /\ channel' = [channel EXCEPT !.receivers = Append(@, w)]
        /\ Awaits(w, "receive", <<>>)
  /\ UNCHANGED <<semaphore, group, history>>

(* As if close() left the lists of those it told.                          *)
MutClosed == [channel EXCEPT !.closed = TRUE]

Closed == [channel EXCEPT !.closed = TRUE, !.receivers = <<>>, !.senders = <<>>]

(* What is queued is still delivered; everyone who waits is told.          *)
close(w) ==
  /\ Runs(w) /\ ~channel.closed
  /\ channel' = Closed
  /\ GoesOn(WakeAll(channel.receivers)
            \o WakeAll(Who(channel.senders)))
  /\ refused' = Len(channel.senders)
  /\ UNCHANGED <<semaphore, group, worker, sent, got, askers>>

-----------------------------------------------------------------------------
(* What else a worker does, and the event loop.                            *)

(* An async function is called: from the outside, or by a worker that      *)
(* runs, on top of it.                                                     *)
start(w) ==
  /\ worker[w].at = "idle"
  /\ running # <<>> \/ ready = <<>>
  /\ worker' = At(w, "runs")
  /\ running' = Append(running, w)
  /\ UNCHANGED <<semaphore, group, channel, ready, history>>

(* An await of something outside: a timer, say.                            *)
sleep(w) ==
  /\ Runs(w)
  /\ Awaits(w, "sleep", <<>>)
  /\ UNCHANGED <<semaphore, group, channel, history>>

(* withPermit and run give back in a finally what they took.               *)
end(w) ==
  /\ Runs(w) /\ ~worker[w].holds /\ ~worker[w].counted
  /\ Awaits(w, "idle", <<>>)
  /\ UNCHANGED <<semaphore, group, channel, history>>

(* The next microtask: an async call goes on behind its await.             *)
resume ==
  LET w == Head(ready).who
      asked == worker[w].at = "acquire"
  IN  /\ running = <<>> /\ ready # <<>>
      /\ ready' = Tail(ready)
      /\ running' = <<w>>
      /\ worker' = [worker EXCEPT ![w].at = "runs", ![w].holds = @ \/ asked]
      /\ got' = IF Head(ready).value > 0 THEN got + 1 ELSE got
      /\ \/ ~asked /\ UNCHANGED askers
         \/ /\ asked
            /\ \E i \in 1 .. Len(askers) :
                 /\ askers[i] = w
                 /\ askers' = SubSeq(askers, 1, i - 1) \o SubSeq(askers, i + 1, Len(askers))
      /\ UNCHANGED <<semaphore, group, channel, sent, refused>>

(* Timers have their turn when no microtask is left.                       *)
wakeup(w) ==
  /\ running = <<>> /\ ready = <<>> /\ worker[w].at = "sleep"
  /\ ready' = <<Wake(w, 0)>>
  /\ UNCHANGED <<semaphore, group, channel, running, worker, history>>

-----------------------------------------------------------------------------
Init ==
  /\ \E s \in Setups :
       /\ semaphore = [permits |-> s.permits, free |-> s.permits, waiting |-> <<>>]
       /\ channel = [capacity |-> s.capacity, queue |-> <<>>, senders |-> <<>>,
                     receivers |-> <<>>, closed |-> FALSE]
  /\ group = [count |-> 0, waiting |-> <<>>]
  /\ ready = <<>>
  /\ running = <<>>
  /\ worker = [w \in Worker |-> [at |-> "idle", holds |-> FALSE, counted |-> FALSE]]
  /\ sent = 0 /\ refused = 0 /\ got = 0
  /\ askers = <<>>

Works(w) ==
  \/ acquire(w) \/ release(w) \/ add(w) \/ done(w) \/ wait(w)
  \/ send(w) \/ receive(w) \/ close(w) \/ sleep(w) \/ end(w)

Loop == resume \/ \E w \in Worker : wakeup(w)

Next == Loop \/ \E w \in Worker : start(w) \/ Works(w)

Spec == Init /\ [][Next]_vars

(* The loop runs when it has the thread; a worker that has it gets to its  *)
(* next await or to its end, however many others it calls on the way.      *)
GivesBack(w) == Works(w) /\ running' = Callers
FairSpec == Spec /\ WF_vars(Loop) /\ \A w \in Worker : SF_vars(GivesBack(w))

-----------------------------------------------------------------------------
(* Properties.                                                             *)

(* A permit is on its way to whoever was granted one.                      *)
Woken == Who(ready)
Granted == {w \in Worker : worker[w].at = "acquire" /\ In(Woken, w)}
Holders == Granted \cup {w \in Worker : worker[w].holds}

(* At most so many holders as there are permits, none lost on a hand-over, *)
(* and nobody waits while there is one.                                    *)
PermitsKept ==
  /\ Cardinality(Holders) + semaphore.free = semaphore.permits
  /\ semaphore.waiting # <<>> => semaphore.free = 0

(* Whoever awaits is either on the list for it, once, or on the way back,  *)
(* once.                                                                   *)
Consistent(at, lists, woken) ==
  /\ NoneTwice(woken)
  /\ \A w \in Worker : In(woken, w) => at[w] \in Awaiting
  /\ \A place \in Awaiting :
       /\ NoneTwice(lists[place])
       /\ \A w \in Worker :
            /\ In(lists[place], w) => at[w] = place /\ ~In(woken, w)
            /\ at[w] = place /\ place # "sleep" => In(lists[place], w) \/ In(woken, w)

Places == [w \in Worker |-> worker[w].at]
Lists ==
  [place \in Awaiting |->
     CASE place = "acquire" -> semaphore.waiting
       [] place = "wait" -> group.waiting
       [] place = "send" -> Who(channel.senders)
       [] place = "receive" -> channel.receivers
       [] OTHER -> <<>>]

(* A hand-over neither loses a worker nor wakes it twice.                  *)
OneWayBack == Consistent(Places, Lists, Woken)

(* The group counts those that are counted in, and nobody waits for none.  *)
GroupCounts ==
  /\ group.count = Cardinality(Counted)
  /\ group.waiting # <<>> => group.count > 0

(* Nobody waits for what there is: a receiver while there is a value, a    *)
(* sender while there is room, anyone once the channel is closed.          *)
NobodyWaitsInVain ==
  /\ channel.receivers # <<>> =>
       channel.queue = <<>> /\ channel.senders = <<>> /\ ~channel.closed
  /\ channel.senders # <<>> => ~HasRoom /\ ~channel.closed
  /\ channel.capacity # 0 => Len(channel.queue) <= channel.capacity

(* Values leave the channel in the order they were sent: the queue and     *)
(* then the senders hold the last ones accepted, without a gap.            *)
Taken == sent - refused - Len(channel.queue) - Len(channel.senders)
InOrder ==
  LET q == channel.queue
      s == channel.senders
  IN  /\ refused # 0 => channel.closed
      /\ \A i \in 1 .. Len(q) : q[i] = Taken + i
      /\ \A i \in 1 .. Len(s) : s[i].value = Taken + Len(q) + i

(* And they reach the consumers in that order, however many there are:     *)
(* what was taken and did not arrive is on its way, in order, all of it.   *)
Transit(arrived, taken, way) ==
  /\ arrived <= taken
  /\ \A i \in 1 .. Len(way) : way[i].value > 0 => way[i].value \in arrived + 1 .. taken
  /\ \A i, j \in 1 .. Len(way) :
       i < j /\ way[i].value > 0 /\ way[j].value > 0 => way[i].value < way[j].value
  /\ \A k \in arrived + 1 .. taken : \E i \in 1 .. Len(way) : way[i].value = k

InTransit == Transit(got, Taken, ready)

DeliveredInOrder == InOrder /\ InTransit

(* What holds of the thread and makes the properties above inductive:      *)
(* those on the stack run, and whoever asks for a permit has none yet.     *)
OnStack ==
  /\ NoneTwice(running)
  /\ \A w \in Worker :
       /\ In(running, w) <=> worker[w].at = "runs"
       /\ worker[w].at = "acquire" => ~worker[w].holds

IInv ==
  /\ TypeOK /\ OnStack /\ OneWayBack
  /\ PermitsKept /\ GroupCounts /\ NobodyWaitsInVain /\ DeliveredInOrder

(* What makes permits go in turn: the askers are those that await one, and *)
(* they stand among the woken, and behind them in the semaphore's line, in *)
(* the order in which they asked.                                          *)
PermitLine == Woken \o semaphore.waiting
Before(line, v, w) ==
  \E a, b \in 1 .. Len(line) : a < b /\ line[a] = v /\ line[b] = w
InTurn ==
  /\ NoneTwice(askers)
  /\ \A w \in Worker : In(askers, w) <=> worker[w].at = "acquire"
  /\ \A i, j \in 1 .. Len(askers) :
       i < j => Before(PermitLine, askers[i], askers[j])

(* First come, first served: permits go in the order in which they were    *)
(* asked for, counted up to the moment the caller goes on with one.        *)
ServedInTurn ==
  [][\A w \in Worker : ~worker[w].holds /\ worker'[w].holds => Head(askers) = w]_vars

WaitsForGroup(w) == In(group.waiting, w)

(* wait() is answered in the very step that brings the last of those       *)
(* counted in to its end, so never while one of them is at work.           *)
WaitMeansDone ==
  [][\A w \in Worker : WaitsForGroup(w) /\ ~WaitsForGroup(w)' => Counted' = {}]_vars

(* If no worker keeps a permit for ever, every one that asks gets one.     *)
EveryAskerServed ==
  (\A w \in Worker : []<>~worker[w].holds) =>
    \A w \in Worker : (worker[w].at = "acquire") ~> (worker[w].at # "acquire")
===============================================================================
