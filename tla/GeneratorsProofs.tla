--------------------------- MODULE GeneratorsProofs ---------------------------
(* Proofs about generators, for any number of them and any calls of next() and *)
(* return(): a body is on the C stack once, what is awaited is waited for      *)
(* once, and each call of next() has the answer an iterator owes it.  The      *)
(* async ones are asked for one thing at a time, as for-await does.            *)
EXTENDS Generators, FiniteSetTheorems, TLAPS

------------------------------------------------------------------------------
(* The C stack.                                                                *)

On(s, g) == \E i \in 1 .. Len(s) : s[i] = g
Distinct(s) == \A i, j \in 1 .. Len(s) : s[i] = s[j] => i = j

(* A body is entered above the one that asked it.                              *)
LEMMA Pushing ==
  ASSUME NEW S, NEW s \in Seq(S), NEW g \in S, Distinct(s), ~On(s, g)
  PROVE  /\ Append(s, g) \in Seq(S) /\ Distinct(Append(s, g))
         /\ \A h : On(Append(s, g), h) <=> On(s, h) \/ h = g
<1> DEFINE t == Append(s, g)
<1>1. /\ t \in Seq(S) /\ Len(t) = Len(s) + 1 /\ Len(s) \in Nat
      /\ t[Len(s) + 1] = g /\ \A i \in 1 .. Len(s) : t[i] = s[i]
  OBVIOUS
<1> HIDE DEF t
<1>2. 1 .. Len(t) = (1 .. Len(s)) \cup {Len(s) + 1}
  BY <1>1
<1>3. \A i \in 1 .. Len(s) : s[i] # g
  BY DEF On
<1>4. Distinct(t)
  <2> SUFFICES ASSUME NEW i \in 1 .. Len(t), NEW j \in 1 .. Len(t), t[i] = t[j]
               PROVE  i = j
    BY DEF Distinct
  <2> QED
    BY <1>1, <1>2, <1>3 DEF Distinct
<1>5. \A h : On(t, h) <=> On(s, h) \/ h = g
  BY <1>1, <1>2 DEF On
<1> QED
  BY <1>1, <1>4, <1>5 DEF t

(* The first elements of a sequence.                                           *)
LEMMA Prefix ==
  ASSUME NEW S, NEW s \in Seq(S), NEW n \in 0 .. Len(s)
  PROVE  /\ SubSeq(s, 1, n) \in Seq(S)
         /\ Len(SubSeq(s, 1, n)) = n
         /\ \A i \in 1 .. n : SubSeq(s, 1, n)[i] = s[i]
OBVIOUS

(* It leaves to that one.                                                      *)
LEMMA Popping ==
  ASSUME NEW S, NEW s \in Seq(S), s # << >>, Distinct(s)
  PROVE  LET top == s[Len(s)]
             t == SubSeq(s, 1, Len(s) - 1)
         IN  /\ top \in S /\ On(s, top)
             /\ t \in Seq(S) /\ Distinct(t)
             /\ \A h : On(t, h) <=> On(s, h) /\ h # top
<1> DEFINE top == s[Len(s)]
<1> DEFINE t == SubSeq(s, 1, Len(s) - 1)
<1>1. Len(s) \in Nat /\ Len(s) >= 1 /\ top \in S
  OBVIOUS
<1>2. /\ t \in Seq(S) /\ Len(t) = Len(s) - 1 /\ \A i \in 1 .. Len(s) - 1 : t[i] = s[i]
  <2> DEFINE n == Len(s) - 1
  <2>1. n \in 0 .. Len(s)
    BY <1>1
  <2> HIDE DEF n
  <2>2. SubSeq(s, 1, n) \in Seq(S) /\ Len(SubSeq(s, 1, n)) = n
        /\ \A i \in 1 .. n : SubSeq(s, 1, n)[i] = s[i]
    BY <2>1, Prefix
  <2> QED
    BY <2>2 DEF n
<1> HIDE DEF t
<1>3. 1 .. Len(s) = (1 .. Len(t)) \cup {Len(s)} /\ Len(s) \notin 1 .. Len(t)
  BY <1>1, <1>2
<1>4. \A i \in 1 .. Len(t) : s[i] # top
  BY <1>1, <1>3 DEF Distinct
<1>5. Distinct(t)
  <2> SUFFICES ASSUME NEW i \in 1 .. Len(t), NEW j \in 1 .. Len(t), t[i] = t[j]
               PROVE  i = j
    BY DEF Distinct
  <2> QED
    BY <1>2, <1>3 DEF Distinct
<1>6. On(s, top)
  BY <1>1 DEF On
<1>7. \A h : On(t, h) <=> On(s, h) /\ h # top
  BY <1>2, <1>3, <1>4 DEF On
<1> QED
  BY <1>1, <1>2, <1>5, <1>6, <1>7 DEF t

------------------------------------------------------------------------------
(* What holds of each generator in every reachable state.                      *)

Step == {Open, Contract!End, Contract!Error} \cup {Contract!Item(k) : k \in 1 .. MaxYields}

(* The awaits whose outcome a generator is told of.                            *)
Told(W, g) == {n \in 1 .. MaxAwaits : [of |-> g, nth |-> n] \in W}

Owed(a) == \E k \in 1 .. Len(a) : a[k] = Open

(* Only the last call is not answered.                                         *)
InTurn(a) ==
  /\ a \in Seq(Step) /\ Len(a) <= MaxNext
  /\ \A k \in 1 .. Len(a) : a[k] = Open => k = Len(a)

(* Of a generator g, its object o, its answers a, whether it is on the stack,  *)
(* and the awaits w it is told of.  A body on the stack owes an answer, and so *)
(* does one at an await; a generator that is not over has answered every call  *)
(* but that one by an item.                                                    *)
Good(g, o, a, on, w) ==
  /\ o \in ObjGenerator /\ InTurn(a)
  /\ on <=> o.fiber = "running"
  /\ on => Owed(a) /\ o.awaiting = 0
  /\ Owed(a) => ~o.done
  /\ ~o.done => o.yields = IF Owed(a) THEN Len(a) - 1 ELSE Len(a)
  /\ g \notin Async => /\ o.running <=> on
                       /\ Owed(a) => on
  /\ g \in Async =>
       /\ o.running => on
       /\ o.pendingResult = IF Owed(a) THEN Len(a) ELSE None
       /\ w = IF o.fiber = "suspended" /\ o.awaiting # 0 THEN {o.awaiting} ELSE {}
       /\ o.fiber = "suspended" /\ o.awaiting # 0 => Owed(a)

Each == \A g \in Generator : Good(g, gens[g], answer[g], On(active, g), Told(wakeups, g))

Shapes ==
  /\ gens \in [Generator -> ObjGenerator]
  /\ answer \in [Generator -> Seq(Step)]
  /\ active \in Seq(Generator) /\ Distinct(active)
  /\ wakeups \subseteq Wakeup
  /\ phase \in {"runs", "fault", "failed"}

IInv == Shapes /\ Each

(* The generators that are over, which is what the contract sees of them.      *)
Overs == {g \in Generator : gens[g].done}

(* What a step is to the contract: one of its steps, or none.                  *)
Deed == Contract!Next \/ (answer' = answer /\ Overs' = Overs)

------------------------------------------------------------------------------
(* Answers.                                                                    *)

(* What is answered is told from what is not.                                  *)
LEMMA Apart ==
  /\ Open \in Step /\ Contract!End \in Step /\ Contract!Error \in Step
  /\ \A k \in 1 .. MaxYields : Contract!Item(k) \in Step /\ Contract!Item(k) # Open
  /\ Contract!End # Open /\ Contract!Error # Open
BY DEF Step, Open, Contract!Open, Contract!End, Contract!Error, Contract!Item

(* A call waits for its answer, or is told that there is nothing more.         *)
LEMMA Asking ==
  ASSUME NEW a, InTurn(a), ~Owed(a), Len(a) < MaxNext, NEW x \in Step
  PROVE  /\ InTurn(Append(a, x)) /\ Len(Append(a, x)) = Len(a) + 1
         /\ Owed(Append(a, x)) <=> x = Open
<1> DEFINE b == Append(a, x)
<1>1. a \in Seq(Step) /\ Len(a) \in Nat /\ MaxNext \in Nat
  BY GeneratorsAssumption DEF InTurn
<1>2. /\ b \in Seq(Step) /\ Len(b) = Len(a) + 1
      /\ b[Len(a) + 1] = x /\ \A i \in 1 .. Len(a) : b[i] = a[i]
  BY <1>1
<1> HIDE DEF b
<1>3. 1 .. Len(b) = (1 .. Len(a)) \cup {Len(a) + 1}
  BY <1>1, <1>2
<1>4. \A k \in 1 .. Len(b) : b[k] = Open => k = Len(b)
  BY <1>1, <1>2, <1>3 DEF Owed
<1>5. Owed(b) <=> x = Open
  BY <1>2, <1>3 DEF Owed
<1> QED
  BY <1>1, <1>2, <1>4, <1>5 DEF InTurn, b

(* The one that waits is answered.                                             *)
Replied(a, x) == [a EXCEPT ![Len(a)] = x]

(* Every call is then answered.                                                *)
LEMMA Replying ==
  ASSUME NEW a, InTurn(a), Owed(a), NEW x \in Step, x # Open
  PROVE  /\ InTurn(Replied(a, x)) /\ Len(Replied(a, x)) = Len(a) /\ ~Owed(Replied(a, x))
         /\ Len(a) \in 1 .. MaxNext /\ Len(a) \in DOMAIN a /\ a[Len(a)] = Open
         /\ \A j \in 1 .. Len(a) - 1 : a[j] # Open
<1> DEFINE b == Replied(a, x)
<1>1. a \in Seq(Step) /\ Len(a) \in Nat /\ MaxNext \in Nat /\ Len(a) <= MaxNext
  BY GeneratorsAssumption DEF InTurn
<1>2. Len(a) \in 1 .. Len(a) /\ a[Len(a)] = Open /\ DOMAIN a = 1 .. Len(a)
  BY DEF Owed, InTurn
<1>3. \A j \in 1 .. Len(a) - 1 : a[j] # Open
  BY <1>1 DEF InTurn
<1>4. /\ b \in Seq(Step) /\ Len(b) = Len(a) /\ b[Len(a)] = x
      /\ \A j \in 1 .. Len(a) : j # Len(a) => b[j] = a[j]
  BY <1>1, <1>2 DEF Replied
<1> HIDE DEF b
<1>5. \A k \in 1 .. Len(b) : b[k] # Open
  BY <1>1, <1>3, <1>4
<1> QED
  <2>1. InTurn(b) /\ ~Owed(b)
    BY <1>1, <1>4, <1>5 DEF InTurn, Owed
  <2>2. Len(a) \in 1 .. MaxNext /\ Len(a) \in DOMAIN a
    BY <1>1, <1>2
  <2> QED
    BY <1>2, <1>3, <1>4, <2>1, <2>2 DEF b

(* Enough for a step is what it does to one generator.                         *)
LEMMA Framing ==
  ASSUME IInv, NEW g \in Generator, Shapes',
         Good(g, gens'[g], answer'[g], On(active', g), Told(wakeups', g)),
         \A h \in Generator \ {g} :
           /\ gens'[h] = gens[h] /\ answer'[h] = answer[h]
           /\ On(active', h) <=> On(active, h)
           /\ Told(wakeups', h) = Told(wakeups, h)
  PROVE  IInv'
<1> SUFFICES ASSUME NEW h \in Generator, h # g
             PROVE  Good(h, gens'[h], answer'[h], On(active', h), Told(wakeups', h))
  BY DEF IInv, Each
<1>1. Good(h, gens[h], answer[h], On(active, h), Told(wakeups, h))
  BY DEF IInv, Each
<1>2. On(active', h) = On(active, h)
  BY DEF On
<1> QED
  BY <1>1, <1>2

------------------------------------------------------------------------------
(* Each action, of a program that asks for one thing at a time.                *)

Orderly == "overlap" \notin Client

(* What a call of next() that enters a body does.                              *)
LEMMA Driving ==
  ASSUME IInv, NEW g \in Generator, ~On(active, g), ~Owed(answer[g]), ~gens[g].done,
         Len(answer[g]) < MaxNext, NEW o, driveGenerator(g, o), phase = "runs",
         o \in ObjGenerator, o.fiber = "running", o.running, o.done = gens[g].done,
         o.yields = gens[g].yields, o.awaiting = 0,
         g \in Async => /\ o.pendingResult = Len(answer[g]) + 1
                        /\ Told(wakeups, g) = {}
  PROVE  IInv' /\ Deed
<1> DEFINE b == Append(answer[g], Open)
<1>1. /\ gens' = [gens EXCEPT ![g] = o] /\ active' = Append(active, g)
      /\ answer' = [answer EXCEPT ![g] = b] /\ wakeups' = wakeups /\ phase' = phase
  BY DEF driveGenerator
<1>2. Shapes /\ Good(g, gens[g], answer[g], On(active, g), Told(wakeups, g))
  BY DEF IInv, Each
<1>3. InTurn(b) /\ Len(b) = Len(answer[g]) + 1 /\ Owed(b) /\ Open \in Step
  BY <1>2, Apart, Asking DEF Good
<1>4. /\ active' \in Seq(Generator) /\ Distinct(active')
      /\ \A h : On(active', h) <=> On(active, h) \/ h = g
  BY <1>1, <1>2, Pushing DEF Shapes
<1> HIDE DEF b
<1>5. Shapes'
  BY <1>1, <1>2, <1>3, <1>4 DEF Shapes, InTurn
<1>6. gens'[g] = o /\ answer'[g] = b
  BY <1>1, <1>2 DEF Shapes
<1>7. Len(answer[g]) \in Nat
  BY <1>2 DEF Shapes
<1>8. Good(g, o, b, TRUE, Told(wakeups, g))
  BY <1>2, <1>3, <1>7 DEF Good, None
<1>9. On(active', g) = TRUE
  BY <1>4 DEF On
<1>10. IInv'
  BY <1>1, <1>2, <1>4, <1>5, <1>6, <1>8, <1>9, Framing DEF Shapes
<1>11. Overs' = Overs /\ g \notin Overs
  BY <1>1, <1>2 DEF Overs, Shapes
<1>12. Contract!Ask(g)
  BY <1>1, <1>11 DEF Contract!Ask, Overs, b, Open
<1> QED
  BY <1>10, <1>12 DEF Deed, Contract!Next

(* next() of a generator that is over.                                         *)
LEMMA OverStep ==
  ASSUME IInv, NEW g \in Generator, gens[g].done, Len(answer[g]) < MaxNext, AnswerOver(g)
  PROVE  IInv' /\ Deed
<1> DEFINE b == Append(answer[g], Contract!End)
<1>1. /\ gens' = gens /\ active' = active /\ wakeups' = wakeups /\ phase' = phase
      /\ answer' = [answer EXCEPT ![g] = b]
  BY DEF AnswerOver
<1>2. Shapes /\ Good(g, gens[g], answer[g], On(active, g), Told(wakeups, g))
  BY DEF IInv, Each
<1>3. InTurn(b) /\ ~Owed(b) /\ Len(b) = Len(answer[g]) + 1
  BY <1>2, Apart, Asking DEF Good
<1> HIDE DEF b
<1>4. Shapes'
  BY <1>1, <1>2, <1>3 DEF Shapes, InTurn
<1>5. gens'[g] = gens[g] /\ answer'[g] = b
  BY <1>1, <1>2 DEF Shapes
<1>6. Good(g, gens[g], b, On(active, g), Told(wakeups, g))
  BY <1>2, <1>3 DEF Good
<1>7. IInv'
  BY <1>1, <1>2, <1>4, <1>5, <1>6, Framing DEF Shapes
<1>8. Overs' = Overs /\ g \in Overs
  BY <1>1 DEF Overs
<1>9. Contract!Ask(g)
  BY <1>1, <1>8 DEF Contract!Ask, Overs, b
<1> QED
  BY <1>7, <1>9 DEF Deed, Contract!Next

(* Only the phase changes: a call that is refused, a fault that leaves.        *)
LEMMA Quiet ==
  ASSUME IInv, UNCHANGED <<gens, active, wakeups, answer>>, phase' \in {"runs", "fault", "failed"}
  PROVE  IInv' /\ Deed
<1>1. Shapes'
  BY DEF IInv, Shapes
<1>2. Each'
  BY DEF IInv, Each
<1> QED
  BY <1>1, <1>2 DEF IInv, Deed, Overs

(* next() of a generator.                                                      *)
LEMMA NextStep ==
  ASSUME IInv, NEW g \in Generator, csGeneratorNext(g)
  PROVE  IInv' /\ Deed
<1>1. g \notin Async /\ Len(answer[g]) < MaxNext /\ phase = "runs"
  BY DEF csGeneratorNext, Runs
<1>2. Shapes /\ Good(g, gens[g], answer[g], On(active, g), Told(wakeups, g))
  BY DEF IInv, Each
<1>3. CASE gens[g].done
  BY <1>1, <1>3, OverStep DEF csGeneratorNext
<1>4. CASE ~gens[g].done /\ gens[g].running
  BY <1>4, Quiet DEF csGeneratorNext
<1>5. CASE ~gens[g].done /\ ~gens[g].running
  <2> DEFINE o == [Entered(g) EXCEPT !.running = TRUE]
  <2>1. driveGenerator(g, o)
    BY <1>5 DEF csGeneratorNext
  <2>2. ~On(active, g) /\ ~Owed(answer[g])
    BY <1>1, <1>2, <1>5 DEF Good
  <2>3. /\ o \in ObjGenerator /\ o.fiber = "running" /\ o.running /\ o.done = gens[g].done
        /\ o.yields = gens[g].yields /\ o.awaiting = 0
    <3>1. gens[g] \in ObjGenerator
      BY <1>2 DEF Good
    <3>2. 0 \in 0 .. MaxAwaits
      BY GeneratorsAssumption
    <3> QED
      BY <3>1, <3>2 DEF Entered, ObjGenerator
  <2> HIDE DEF o
  <2> QED
    BY <1>1, <1>5, <2>1, <2>2, <2>3, Driving
<1> QED
  BY <1>3, <1>4, <1>5

(* What a program owes is what the answers say.                                *)
LEMMA Owing ==
  ASSUME IInv, NEW g \in Generator
  PROVE  Owes(g) <=> Owed(answer[g])
<1>1. DOMAIN answer[g] = 1 .. Len(answer[g])
  BY DEF IInv, Shapes
<1> QED
  BY <1>1 DEF Owes, Owed

(* next() of an async one, which is answered with a promise.                   *)
LEMMA NextAsyncStep ==
  ASSUME IInv, Orderly, NEW g \in Generator, csGeneratorNextAsync(g)
  PROVE  IInv' /\ Deed
<1> DEFINE asked == [gens[g] EXCEPT !.pendingResult = Len(answer[g]) + 1]
<1> DEFINE o == [asked EXCEPT !.fiber = "running", !.awaiting = 0, !.running = TRUE]
<1>1. g \in Async /\ Len(answer[g]) < MaxNext /\ phase = "runs" /\ Polite(g)
  BY DEF csGeneratorNextAsync, Runs
<1>2. Good(g, gens[g], answer[g], On(active, g), Told(wakeups, g))
  BY DEF IInv, Each
<1>3. ~Owed(answer[g]) /\ gens[g].fiber # "running"
  BY <1>1, Owing DEF Polite, Orderly
<1>4. CASE gens[g].done
  BY <1>1, <1>4, OverStep DEF csGeneratorNextAsync
<1>5. CASE ~gens[g].done
  <2>1. driveGenerator(g, o)
    BY <1>3, <1>5 DEF csGeneratorNextAsync
  <2>2. ~On(active, g) /\ Told(wakeups, g) = {}
    BY <1>1, <1>2, <1>3 DEF Good
  <2>3. /\ o \in ObjGenerator /\ o.fiber = "running" /\ o.running /\ o.done = gens[g].done
        /\ o.yields = gens[g].yields /\ o.awaiting = 0 /\ o.pendingResult = Len(answer[g]) + 1
    <3>1. gens[g] \in ObjGenerator
      BY <1>2 DEF Good
    <3>2. 0 \in 0 .. MaxAwaits /\ Len(answer[g]) + 1 \in 0 .. MaxNext
      <4>1. Len(answer[g]) \in Nat
        BY DEF IInv, Shapes
      <4> QED
        BY <1>1, <4>1, GeneratorsAssumption
    <3> QED
      BY <3>1, <3>2 DEF ObjGenerator
  <2> HIDE DEF o
  <2> QED
    BY <1>1, <1>3, <1>5, <2>1, <2>2, <2>3, Driving
<1> QED
  BY <1>4, <1>5

(* return(): the rest is not wanted.                                           *)
LEMMA FinishStep ==
  ASSUME IInv, Orderly, NEW g \in Generator, csGeneratorFinish(g)
  PROVE  IInv' /\ Deed
<1> DEFINE o == [gens[g] EXCEPT !.done = TRUE, !.fiber = "done", !.yielded = 0]
<1>1. phase = "runs" /\ Polite(g) /\ UNCHANGED <<active, wakeups, answer>>
  BY DEF csGeneratorFinish, Runs
<1>2. Shapes /\ Good(g, gens[g], answer[g], On(active, g), Told(wakeups, g))
  BY DEF IInv, Each
<1>3. CASE gens[g].running
  BY <1>1, <1>3, Quiet DEF csGeneratorFinish
<1>4. CASE ~gens[g].running
  <2>1. gens' = [gens EXCEPT ![g] = o] /\ phase' = phase
    BY <1>4 DEF csGeneratorFinish
  <2>2. /\ o \in ObjGenerator /\ o.fiber = "done" /\ o.done /\ o.running = gens[g].running
        /\ o.pendingResult = gens[g].pendingResult
    <3>1. gens[g] \in ObjGenerator
      BY <1>2 DEF Good
    <3>2. 0 \in 0 .. MaxYields
      BY GeneratorsAssumption
    <3> QED
      BY <3>1, <3>2 DEF ObjGenerator
  <2>3. ~On(active, g) /\ ~Owed(answer[g])
    <3>1. CASE g \in Async
      BY <1>1, <1>2, <3>1, Owing DEF Polite, Orderly, Good
    <3>2. CASE g \notin Async
      BY <1>2, <1>4, <3>2 DEF Good
    <3> QED
      BY <3>1, <3>2
  <2> HIDE DEF o
  <2>4. Good(g, o, answer[g], On(active, g), Told(wakeups, g))
    BY <1>2, <1>4, <2>2, <2>3 DEF Good
  <2>5. Shapes' /\ gens'[g] = o /\ \A h \in Generator : h # g => gens'[h] = gens[h]
    BY <1>1, <1>2, <2>1, <2>2 DEF Shapes
  <2>6. IInv'
    BY <1>1, <2>4, <2>5, Framing
  <2>7. Overs' = Overs \cup {g}
    BY <2>2, <2>5 DEF Overs
  <2>8. \A k \in DOMAIN answer[g] : answer[g][k] # Contract!Open
    BY <2>3, Owing DEF Owes, Open
  <2>9. Contract!Abandon(g)
    BY <1>1, <2>7, <2>8 DEF Contract!Abandon, Overs
  <2> QED
    BY <2>6, <2>9 DEF Deed, Contract!Next
<1> QED
  BY <1>3, <1>4

(* A body that stops where there is something to report: the call that waits   *)
(* is answered, by the next item or by what ends it.                           *)
LEMMA Reporting ==
  ASSUME IInv, active # << >>, NEW o, NEW what, settleGeneratorStep(Top, o, TRUE, what),
         active' = Callers, wakeups' = wakeups, phase' \in {"runs", "fault", "failed"},
         o \in ObjGenerator, o.fiber # "running", ~o.running,
         o.pendingResult = gens[Top].pendingResult, o.awaiting = gens[Top].awaiting,
         \/ ~o.done /\ o.yields = gens[Top].yields + 1 /\ what = Contract!Item(o.yields)
         \/ o.done /\ what \in {Contract!End, Contract!Error}
  PROVE  IInv' /\ Deed
<1> DEFINE g == Top
<1> DEFINE a == answer[g]
<1> DEFINE b == Replied(a, what)
<1> DEFINE p == [o EXCEPT !.pendingResult = None]
<1>1. Shapes
  BY DEF IInv
<1>2. /\ g \in Generator /\ On(active, g)
      /\ active' \in Seq(Generator) /\ Distinct(active')
      /\ \A h : On(active', h) <=> On(active, h) /\ h # g
  BY <1>1, Popping DEF Shapes, Top, Callers
<1>3. Good(g, gens[g], a, TRUE, Told(wakeups, g))
  BY <1>2 DEF IInv, Each, On
<1>4. Owed(a) /\ ~gens[g].done /\ gens[g].awaiting = 0 /\ gens[g].fiber = "running"
  BY <1>3 DEF Good
<1>5. a \in Seq(Step) /\ Len(a) \in Nat /\ gens[g] \in ObjGenerator
  BY <1>3 DEF Good, InTurn
<1>6. gens[g].yields = Len(a) - 1
  BY <1>3, <1>4 DEF Good
<1>7. what \in Step /\ what # Open
  <2>1. CASE ~o.done
    <3>1. o.yields \in 1 .. MaxYields
      BY <1>5, <2>1, GeneratorsAssumption DEF ObjGenerator
    <3> QED
      BY <2>1, <3>1, Apart
  <2>2. CASE o.done
    BY <2>2, Apart
  <2> QED
    BY <2>1, <2>2
<1>8. /\ InTurn(b) /\ Len(b) = Len(a) /\ ~Owed(b)
      /\ Len(a) \in 1 .. MaxNext /\ Len(a) \in DOMAIN a /\ a[Len(a)] = Open
      /\ \A j \in 1 .. Len(a) - 1 : a[j] # Open
  BY <1>3, <1>4, <1>7, Replying DEF Good
<1>9. (IF g \in Async THEN o.pendingResult ELSE Len(a)) = Len(a) /\ Len(a) # None
  BY <1>3, <1>4, <1>8 DEF Good, None
<1>10. gens' = [gens EXCEPT ![g] = p] /\ answer' = [answer EXCEPT ![g][Len(a)] = what]
  BY <1>9 DEF settleGeneratorStep
<1>11. answer' = [answer EXCEPT ![g] = b]
  BY <1>10 DEF Replied
<1>12. /\ p \in ObjGenerator /\ p.fiber = o.fiber /\ p.running = o.running /\ p.done = o.done
       /\ p.yields = o.yields /\ p.awaiting = o.awaiting /\ p.pendingResult = None
  <2>1. None \in 0 .. MaxNext
    BY GeneratorsAssumption DEF None
  <2> QED
    BY <2>1 DEF ObjGenerator
<1>13. Told(wakeups, g) = {} \/ g \notin Async
  BY <1>3, <1>4 DEF Good
<1> HIDE DEF g, a, b, p
<1>14. Good(g, p, b, FALSE, Told(wakeups, g))
  BY <1>4, <1>6, <1>8, <1>12, <1>13 DEF Good, g
<1>15. Shapes' /\ gens'[g] = p /\ answer'[g] = b
  BY <1>1, <1>2, <1>8, <1>10, <1>11, <1>12 DEF Shapes, InTurn
<1>16. /\ On(active', g) = FALSE
       /\ \A h \in Generator \ {g} : gens'[h] = gens[h] /\ answer'[h] = answer[h]
  BY <1>1, <1>2, <1>10, <1>11 DEF Shapes, On
<1>17. IInv'
  BY <1>2, <1>14, <1>15, <1>16, Framing
<1>18. Overs' = IF o.done THEN Overs \cup {g} ELSE Overs
  BY <1>2, <1>4, <1>12, <1>15, <1>16 DEF Overs
<1>19. g \notin Overs
  BY <1>4 DEF Overs
<1>20. PICK h \in Generator, k \in Nat : h = g /\ k = Len(a) /\ k \in DOMAIN answer[h]
  BY <1>2, <1>5, <1>8 DEF a
<1>21. Contract!Answer(h, k)
  <2>1. /\ answer[h][k] = Contract!Open
        /\ \A j \in 1 .. k - 1 : answer[h][j] # Contract!Open
    BY <1>8, <1>20 DEF a, Open
  <2>2. CASE ~o.done
    <3>1. what = Contract!Item(k)
      BY <1>5, <1>6, <1>20, <2>2 DEF g
    <3> QED
      BY <1>10, <1>18, <1>19, <1>20, <2>1, <2>2, <3>1 DEF Contract!Answer, Overs
  <2>3. CASE o.done
    BY <1>10, <1>18, <1>19, <1>20, <2>1, <2>3 DEF Contract!Answer, Overs
  <2> QED
    BY <2>2, <2>3
<1>22. Contract!Next
  BY <1>20, <1>21 DEF Contract!Next
<1> QED
  BY <1>17, <1>22 DEF Deed

(* A body that stops is a generator.                                           *)
LEMMA OnTop ==
  ASSUME IInv, active # << >>
  PROVE  /\ Top \in Generator /\ gens[Top] \in ObjGenerator /\ ~gens[Top].done
         /\ gens[Top].awaiting = 0 /\ gens[Top].fiber = "running"
         /\ Owed(answer[Top]) /\ On(active, Top)
         /\ Callers \in Seq(Generator) /\ Distinct(Callers)
         /\ \A h : On(Callers, h) <=> On(active, h) /\ h # Top
<1>1. /\ Top \in Generator /\ On(active, Top) /\ Callers \in Seq(Generator) /\ Distinct(Callers)
      /\ \A h : On(Callers, h) <=> On(active, h) /\ h # Top
  BY Popping DEF IInv, Shapes, Top, Callers
<1>2. Good(Top, gens[Top], answer[Top], On(active, Top), Told(wakeups, Top))
  BY <1>1 DEF IInv, Each
<1> QED
  BY <1>1, <1>2 DEF Good

(* OP_YIELD.                                                                   *)
LEMMA YieldStep == ASSUME IInv, Yield PROVE IInv' /\ Deed
<1> DEFINE n == gens[Top].yields + 1
<1> DEFINE o == [Stopped(Top, "suspended") EXCEPT !.yields = n, !.yielded = n]
<1>1. /\ active # << >> /\ phase = "runs" /\ n <= MaxYields
      /\ settleGeneratorStep(Top, o, TRUE, Contract!Item(o.yielded))
      /\ active' = Callers /\ wakeups' = wakeups /\ phase' = phase
  BY DEF Yield, BodyRuns, Runs
<1>2. gens[Top] \in ObjGenerator /\ ~gens[Top].done
  BY <1>1, OnTop
<1>3. n \in 0 .. MaxYields
  BY <1>1, <1>2, GeneratorsAssumption DEF ObjGenerator
<1>4. /\ o \in ObjGenerator /\ o.fiber # "running" /\ ~o.running /\ ~o.done
      /\ o.pendingResult = gens[Top].pendingResult /\ o.awaiting = gens[Top].awaiting
      /\ o.yields = n /\ o.yielded = n
  BY <1>2, <1>3 DEF Stopped, ObjGenerator
<1> HIDE DEF o
<1> QED
  BY <1>1, <1>4, Reporting

(* What the end of a body leaves.                                              *)
LEMMA Ending ==
  ASSUME IInv, active # << >>
  PROVE  LET o == Over(Top)
         IN  /\ o \in ObjGenerator /\ o.fiber # "running" /\ ~o.running /\ o.done
             /\ o.pendingResult = gens[Top].pendingResult /\ o.awaiting = gens[Top].awaiting
<1>1. gens[Top] \in ObjGenerator
  BY OnTop
<1>2. 0 \in 0 .. MaxYields
  BY GeneratorsAssumption
<1> QED
  BY <1>1, <1>2 DEF Over, Stopped, ObjGenerator

(* A body that returns, and one that throws.                                   *)
LEMMA EndStep == ASSUME IInv, BodyReturns \/ BodyFails PROVE IInv' /\ Deed
<1>1. /\ active # << >> /\ active' = Callers /\ wakeups' = wakeups
      /\ phase' \in {"runs", "fault", "failed"}
      /\ \E what \in {Contract!End, Contract!Error} : settleGeneratorStep(Top, Over(Top), TRUE, what)
  BY DEF BodyReturns, BodyFails, BodyRuns, Runs
<1> QED
  BY <1>1, Ending, Reporting

(* OP_AWAIT: its reaction is the only one that names the fiber.                *)
LEMMA AwaitStep == ASSUME IInv, Await PROVE IInv' /\ Deed
<1> DEFINE g == Top
<1> DEFINE n == gens[g].awaits + 1
<1> DEFINE o == [Stopped(g, "suspended") EXCEPT !.awaits = n, !.awaiting = n]
<1>1. /\ active # << >> /\ phase = "runs" /\ g \in Async /\ n <= MaxAwaits
      /\ gens' = [gens EXCEPT ![g] = o] /\ answer' = answer
      /\ wakeups' = wakeups \cup {[of |-> g, nth |-> n]}
      /\ active' = Callers /\ phase' = phase
  BY DEF Await, BodyRuns, Runs, settleGeneratorStep
<1>2. Shapes /\ g \in Generator /\ Good(g, gens[g], answer[g], TRUE, Told(wakeups, g))
  BY <1>1, OnTop DEF IInv, Each, On
<1>3. gens[g] \in ObjGenerator /\ gens[g].fiber = "running" /\ ~gens[g].done /\ Owed(answer[g])
  BY <1>1, OnTop
<1>4. n \in 1 .. MaxAwaits /\ n \in 0 .. MaxAwaits /\ n # 0
  BY <1>1, <1>3, GeneratorsAssumption DEF ObjGenerator
<1>5. /\ o \in ObjGenerator /\ o.fiber = "suspended" /\ ~o.running /\ o.done = gens[g].done
      /\ o.pendingResult = gens[g].pendingResult /\ o.yields = gens[g].yields /\ o.awaiting = n
  BY <1>3, <1>4 DEF Stopped, ObjGenerator
<1>6. Told(wakeups, g) = {}
  BY <1>1, <1>2, <1>3 DEF Good
<1> HIDE DEF o, n
<1>7. Told(wakeups', g) = {n} /\ wakeups' \subseteq Wakeup
  BY <1>1, <1>2, <1>4, <1>6 DEF Told, Shapes, Wakeup
<1>8. \A h \in Generator : h # g => Told(wakeups', h) = Told(wakeups, h)
  BY <1>1 DEF Told
<1> HIDE DEF g
<1>9. Good(g, o, answer[g], FALSE, {n})
  BY <1>1, <1>2, <1>3, <1>4, <1>5 DEF Good
<1>10. /\ Callers \in Seq(Generator) /\ Distinct(Callers) /\ On(Callers, g) = FALSE
       /\ \A h \in Generator : h # g => (On(Callers, h) <=> On(active, h))
  BY <1>1, OnTop DEF g, On
<1>11. Shapes' /\ gens'[g] = o /\ \A h \in Generator : h # g => gens'[h] = gens[h]
  BY <1>1, <1>2, <1>5, <1>7, <1>10 DEF Shapes
<1>12. IInv'
  BY <1>1, <1>2, <1>7, <1>8, <1>9, <1>10, <1>11, Framing
<1>13. Overs' = Overs
  BY <1>2, <1>5, <1>11 DEF Overs
<1> QED
  BY <1>1, <1>12, <1>13 DEF Deed

(* The event loop resumes a body, or ends the fiber of one that has no handler *)
(* for a rejection.                                                            *)
LEMMA ResumeStep ==
  ASSUME IInv, NEW w \in wakeups, csVMResumeFiber(w)
  PROVE  IInv' /\ Deed
<1> DEFINE g == w.of
<1>1. /\ active = << >> /\ phase = "runs" /\ wakeups' = wakeups \ {w}
      /\ answer' = answer /\ phase' = phase
  BY DEF csVMResumeFiber, Runs
<1>2. Shapes /\ g \in Async /\ g \in Generator /\ w.nth \in 1 .. MaxAwaits /\ w = [of |-> g, nth |-> w.nth]
  BY GeneratorsAssumption DEF IInv, Shapes, Wakeup
<1>3. Good(g, gens[g], answer[g], On(active, g), Told(wakeups, g))
  BY <1>2 DEF IInv, Each
<1>4. w.nth \in Told(wakeups, g)
  BY <1>2 DEF Told
<1>5. /\ gens[g].fiber = "suspended" /\ Told(wakeups, g) = {w.nth} /\ Owed(answer[g])
      /\ gens[g] \in ObjGenerator /\ ~gens[g].running /\ ~gens[g].done
  BY <1>2, <1>3, <1>4 DEF Good
<1>6. Told(wakeups', g) = {}
  BY <1>1, <1>2, <1>5 DEF Told
<1>7. \A h \in Generator : h # g => Told(wakeups', h) = Told(wakeups, h)
  BY <1>1, <1>2 DEF Told
<1>8. ~On(active, g)
  BY <1>3, <1>5 DEF Good
<1>9. 0 \in 0 .. MaxAwaits
  BY GeneratorsAssumption
<1> HIDE DEF g
<1>10. CASE Resumes(g)
  <2> DEFINE o == Entered(g)
  <2>1. gens' = [gens EXCEPT ![g] = o] /\ active' = <<g>>
    BY <1>10 DEF Resumes
  <2>2. /\ o \in ObjGenerator /\ o.fiber = "running" /\ o.awaiting = 0
        /\ o.done = gens[g].done /\ o.running = gens[g].running
        /\ o.yields = gens[g].yields /\ o.pendingResult = gens[g].pendingResult
    BY <1>5, <1>9 DEF Entered, ObjGenerator
  <2> HIDE DEF o
  <2>3. /\ active' \in Seq(Generator) /\ Distinct(active')
        /\ \A h : On(active', h) <=> h = g
        /\ \A h : ~On(active, h)
    BY <1>1, <1>2, <2>1 DEF Distinct, On
  <2>4. Good(g, o, answer[g], TRUE, {})
    BY <1>2, <1>3, <1>5, <2>2 DEF Good
  <2>5. Shapes' /\ gens'[g] = o /\ \A h \in Generator : h # g => gens'[h] = gens[h]
    BY <1>1, <1>2, <2>1, <2>2, <2>3 DEF Shapes
  <2>6. On(active', g) = TRUE
    BY <2>3 DEF On
  <2>7. IInv'
    BY <1>1, <1>2, <1>6, <1>7, <2>3, <2>4, <2>5, <2>6, Framing
  <2>8. Overs' = Overs
    BY <1>2, <2>2, <2>5 DEF Overs
  <2> QED
    BY <1>1, <2>7, <2>8 DEF Deed
<1>11. CASE gens' = [gens EXCEPT ![g].fiber = "done"] /\ active' = active
  <2> DEFINE o == [gens[g] EXCEPT !.fiber = "done"]
  <2>1. gens' = [gens EXCEPT ![g] = o]
    BY <1>11
  <2>2. /\ o \in ObjGenerator /\ o.fiber = "done"
        /\ o.done = gens[g].done /\ o.running = gens[g].running
        /\ o.yields = gens[g].yields /\ o.pendingResult = gens[g].pendingResult
    BY <1>5 DEF ObjGenerator
  <2> HIDE DEF o
  <2>3. Good(g, o, answer[g], FALSE, {})
    BY <1>2, <1>3, <1>5, <2>2 DEF Good
  <2>4. Shapes' /\ gens'[g] = o /\ \A h \in Generator : h # g => gens'[h] = gens[h]
    BY <1>1, <1>2, <1>11, <2>1, <2>2 DEF Shapes
  <2>5. On(active', g) = FALSE
    BY <1>8, <1>11 DEF On
  <2>6. IInv'
    BY <1>1, <1>2, <1>6, <1>7, <1>11, <2>3, <2>4, <2>5, Framing
  <2>7. Overs' = Overs
    BY <1>2, <2>2, <2>4 DEF Overs
  <2> QED
    BY <1>1, <2>6, <2>7 DEF Deed
<1> QED
  BY <1>5, <1>10, <1>11 DEF csVMResumeFiber, g

------------------------------------------------------------------------------
(* What every behaviour keeps.                                                 *)

(* No generator has been asked for anything.                                   *)
LEMMA InitKeeps == Init => IInv /\ Contract!Init
<1> SUFFICES ASSUME Init PROVE IInv /\ Contract!Init
  OBVIOUS
<1>1. /\ active = << >> /\ wakeups = {} /\ phase = "runs"
      /\ answer = [g \in Generator |-> << >>]
      /\ \A g \in Generator : gens[g] =
           [fiber |-> "ready", done |-> FALSE, running |-> FALSE, pendingResult |-> None,
            yielded |-> 0, yields |-> 0, awaits |-> 0, awaiting |-> 0]
  BY DEF Init
<1>2. 0 \in 0 .. MaxNext /\ 0 \in 0 .. MaxYields /\ 0 \in 0 .. MaxAwaits
  BY GeneratorsAssumption
<1>3. gens \in [Generator -> ObjGenerator]
  BY <1>2 DEF Init, ObjGenerator, None
<1>4. Shapes
  BY <1>1, <1>3 DEF Shapes, Distinct
<1>5. InTurn(<< >>) /\ ~Owed(<< >>)
  BY <1>2, GeneratorsAssumption DEF InTurn, Owed
<1>6. \A g \in Generator : ~On(active, g) /\ Told(wakeups, g) = {}
  BY <1>1 DEF On, Told
<1>7. Each
  <2> SUFFICES ASSUME NEW g \in Generator
               PROVE  Good(g, gens[g], << >>, FALSE, {})
    BY <1>1, <1>6 DEF Each, On
  <2> QED
    BY <1>1, <1>3, <1>5 DEF Good
<1>8. Contract!Init
  BY <1>1 DEF Contract!Init
<1> QED
  BY <1>4, <1>7, <1>8 DEF IInv

(* Every step keeps it, and is one of the contract's or none.                  *)
LEMMA StepKeeps ==
  ASSUME Orderly
  PROVE  IInv /\ [Next]_vars => IInv' /\ Deed
<1> SUFFICES ASSUME IInv, [Next]_vars PROVE IInv' /\ Deed
  OBVIOUS
<1>1. ASSUME NEW g \in Generator, csGeneratorNext(g) PROVE IInv' /\ Deed
  BY <1>1, NextStep
<1>2. ASSUME NEW g \in Generator, csGeneratorNextAsync(g) PROVE IInv' /\ Deed
  BY <1>2, NextAsyncStep
<1>3. ASSUME NEW g \in Generator, csGeneratorFinish(g) PROVE IInv' /\ Deed
  BY <1>3, FinishStep
<1>4. CASE Yield
  BY <1>4, YieldStep
<1>5. CASE Await
  BY <1>5, AwaitStep
<1>6. CASE BodyReturns \/ BodyFails
  BY <1>6, EndStep
<1>7. CASE FaultLeaves
  BY <1>7, Quiet DEF FaultLeaves
<1>8. ASSUME NEW w \in wakeups, csVMResumeFiber(w) PROVE IInv' /\ Deed
  BY <1>8, ResumeStep
<1>9. CASE UNCHANGED vars
  BY <1>9, Quiet DEF vars, IInv, Shapes
<1> QED
  BY <1>1, <1>2, <1>3, <1>4, <1>5, <1>6, <1>7, <1>8, <1>9 DEF Next, Calls, Stops, Loop

(* Who is on the stack, who is told of what, and what each call was answered.  *)
THEOREM Invariance ==
  ASSUME Orderly
  PROVE  Spec => []IInv
<1>1. Init => IInv
  BY InitKeeps
<1>2. IInv /\ [Next]_vars => IInv'
  BY StepKeeps
<1> QED
  BY <1>1, <1>2, PTL DEF Spec

(* driveGenerator and csVMResumeFiber never enter a body that is on the C      *)
(* stack already, and the state of its fiber says whether it is.               *)
THEOREM BodiesEnteredOnce ==
  ASSUME Orderly
  PROVE  Spec => []EnteredOnce
<1>1. IInv => EnteredOnce
  <2> SUFFICES ASSUME IInv PROVE EnteredOnce
    OBVIOUS
  <2>1. TypeOK
    <3>1. ASSUME NEW g \in Generator, NEW k \in DOMAIN answer[g]
          PROVE  answer[g][k].is \in {"open", "item", "end", "error"}
      <4>1. answer[g][k] \in Step
        BY DEF IInv, Shapes
      <4> QED
        BY <4>1 DEF Step, Open, Contract!Open, Contract!End, Contract!Error, Contract!Item
    <3>2. \A g \in Generator : Len(answer[g]) <= MaxNext
      BY DEF IInv, Each, Good, InTurn
    <3> QED
      BY <3>1, <3>2 DEF TypeOK, IInv, Shapes
  <2>2. ASSUME NEW g \in Generator
        PROVE  LET frames == {i \in DOMAIN active : active[i] = g}
               IN  /\ Cardinality(frames) <= 1
                   /\ gens[g].fiber = "running" <=> frames # {}
                   /\ g \notin Async => (gens[g].running <=> frames # {})
    <3> DEFINE frames == {i \in DOMAIN active : active[i] = g}
    <3>1. DOMAIN active = 1 .. Len(active)
      BY DEF IInv, Shapes
    <3>2. On(active, g) <=> frames # {}
      BY <3>1 DEF On
    <3>3. \A i, j \in frames : i = j
      BY <3>1 DEF IInv, Shapes, Distinct
    <3>4. Cardinality(frames) <= 1
      <4> HIDE DEF frames
      <4>1. CASE frames = {}
        BY <4>1, FS_EmptySet
      <4>2. CASE frames # {}
        <5>1. PICK i \in frames : TRUE
          BY <4>2
        <5>2. frames = {i}
          BY <3>3, <5>1
        <5> QED
          BY <5>2, FS_Singleton
      <4> QED
        BY <4>1, <4>2
    <3>5. /\ gens[g].fiber = "running" <=> On(active, g)
          /\ g \notin Async => (gens[g].running <=> On(active, g))
      BY DEF IInv, Each, Good
    <3> QED
      BY <3>2, <3>4, <3>5
  <2> QED
    BY <2>1, <2>2 DEF EnteredOnce
<1> QED
  BY <1>1, Invariance, PTL

(* A fiber is named by the reaction of the await it stands at and by no other, *)
(* so that no wakeup finds it somewhere else.                                  *)
THEOREM AwaitsAreMatched ==
  ASSUME Orderly
  PROVE  Spec => []WakeupsMatchAwaits
<1>1. IInv => WakeupsMatchAwaits
  <2> SUFFICES ASSUME IInv, NEW g \in Async
               PROVE  {w.nth : w \in {x \in wakeups : x.of = g}} =
                        IF gens[g].fiber = "suspended" /\ gens[g].awaiting # 0
                        THEN {gens[g].awaiting} ELSE {}
    BY DEF WakeupsMatchAwaits
  <2>1. g \in Generator
    BY GeneratorsAssumption
  <2>2. {w.nth : w \in {x \in wakeups : x.of = g}} = Told(wakeups, g)
    <3>1. \A x \in wakeups : x.nth \in 1 .. MaxAwaits /\ x = [of |-> x.of, nth |-> x.nth]
      BY DEF IInv, Shapes, Wakeup
    <3> QED
      BY <3>1 DEF Told
  <2> QED
    BY <2>1, <2>2 DEF IInv, Each, Good
<1> QED
  BY <1>1, Invariance, PTL

(* Bodies, fibers and the event loop implement an iterator: the calls of       *)
(* next() are answered in order, each by the next item, until one is told of   *)
(* the end.                                                                    *)
THEOREM ImplementsIterator ==
  ASSUME Orderly
  PROVE  Spec => KeepsIteratorContract
<1>1. Init => Contract!Init
  BY InitKeeps
<1>2. IInv /\ [Next]_vars => [Contract!Next]_<<answer, Overs>>
  BY StepKeeps DEF Deed
<1> QED
  BY <1>1, <1>2, Invariance, PTL DEF Spec, KeepsIteratorContract, Contract!Spec, Contract!vars, Overs
===============================================================================
