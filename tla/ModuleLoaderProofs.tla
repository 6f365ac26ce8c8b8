-------------------------- MODULE ModuleLoaderProofs --------------------------
(***************************************************************************)
(* Proofs about the module loader, for any number of files, any graph of   *)
(* static imports, any verdicts and any import() calls: what the C stack   *)
(* looks like, that a body runs once, that the mark of a load under way is *)
(* always somebody's, and, as long as no import() is called, the order of  *)
(* the bodies.                                                             *)
(***************************************************************************)
EXTENDS ModuleLoader, TLAPS

Frame == LoadFrame \cup LoopFrame \cup BodyFrame

-----------------------------------------------------------------------------
(* Sequences.                                                              *)

(* What one more element does to a sequence.                               *)
LEMMA Appending ==
  ASSUME NEW S, NEW s \in Seq(S), NEW e \in S
  PROVE  /\ Append(s, e) \in Seq(S)
         /\ Len(Append(s, e)) = Len(s) + 1
         /\ \A i \in 1 .. Len(s) : Append(s, e)[i] = s[i]
         /\ Append(s, e)[Len(s) + 1] = e
OBVIOUS

(* The elements of the first part of a sequence.                           *)
LEMMA Prefix ==
  ASSUME NEW S, NEW s \in Seq(S), NEW n \in 0 .. Len(s)
  PROVE  /\ SubSeq(s, 1, n) \in Seq(S)
         /\ Len(SubSeq(s, 1, n)) = n
         /\ \A i \in 1 .. n : SubSeq(s, 1, n)[i] = s[i]
OBVIOUS

(* The last element, and the sequence without it.                          *)
LEMMA Resting ==
  ASSUME NEW S, NEW s \in Seq(S), s # <<>>
  PROVE  /\ Len(s) \in Nat \ {0}
         /\ s[Len(s)] \in S
         /\ SubSeq(s, 1, Len(s) - 1) \in Seq(S)
         /\ Len(SubSeq(s, 1, Len(s) - 1)) = Len(s) - 1
         /\ \A i \in 1 .. Len(s) - 1 : SubSeq(s, 1, Len(s) - 1)[i] = s[i]
<1>1. Len(s) \in Nat \ {0} /\ Len(s) - 1 \in 0 .. Len(s)
  OBVIOUS
<1>2. s[Len(s)] \in S
  BY <1>1
<1> QED
  BY <1>1, <1>2, Prefix

(* A sequence with another last element.                                   *)
LEMMA Topping ==
  ASSUME NEW S, NEW s \in Seq(S), s # <<>>, NEW e \in S,
         NEW t, t = Append(SubSeq(s, 1, Len(s) - 1), e)
  PROVE  /\ t \in Seq(S)
         /\ Len(t) = Len(s)
         /\ \A i \in 1 .. Len(s) - 1 : t[i] = s[i]
         /\ t[Len(s)] = e
<1> DEFINE b == SubSeq(s, 1, Len(s) - 1)
<1>1. /\ Len(s) \in Nat \ {0} /\ b \in Seq(S) /\ Len(b) = Len(s) - 1
      /\ \A i \in 1 .. Len(s) - 1 : b[i] = s[i]
  BY Resting
<1>2. t = Append(b, e)
  OBVIOUS
<1> HIDE DEF b
<1>3. /\ t \in Seq(S) /\ Len(t) = Len(b) + 1
      /\ \A i \in 1 .. Len(b) : t[i] = b[i]
      /\ t[Len(b) + 1] = e
  BY <1>1, <1>2, Appending
<1> QED
  BY <1>1, <1>3

-----------------------------------------------------------------------------
(* The stack.                                                              *)

(* A loop is at the bottom, and loops count from one; a load stands on a   *)
(* loop or on the load that needs it, a body on the loop that runs it;     *)
(* above a load are only loads.                                            *)
StackOK(s) ==
  /\ s # <<>> => s[1].kind = "loop"
  /\ \A i \in 1 .. Len(s) : s[i].kind = "loop" => s[i].next \in Nat \ {0}
  /\ \A i \in 2 .. Len(s) :
       /\ s[i].kind = "load" => s[i - 1].kind \in {"load", "loop"}
       /\ s[i].kind = "body" => s[i - 1].kind = "loop"
  /\ \A i, j \in 1 .. Len(s) : i < j /\ s[i].kind = "load" => s[j].kind = "load"

(* The modules marked as loading are those with a load on the stack, each  *)
(* with one.                                                               *)
LoadsOK(s, r) ==
  /\ \A i \in 1 .. Len(s) : s[i].kind = "load" => r[s[i].of] = "loading"
  /\ \A i, j \in 1 .. Len(s) :
       s[i].kind = "load" /\ s[j].kind = "load" /\ s[i].of = s[j].of => i = j
  /\ \A m \in Module : r[m] = "loading" =>
       \E i \in 1 .. Len(s) : s[i].kind = "load" /\ s[i].of = m

(* A body is entered with its `executed` flag set at once.                 *)
RunsOK == \A m \in Module : runs[m] = 0 \/ (runs[m] = 1 /\ m \in executed)

IInv == TypeOK /\ StackOK(stack) /\ LoadsOK(stack, registered) /\ RunsOK

(* A stack that is the beginning of another, as far as kinds and modules   *)
(* are concerned; its loops may have gone on.                              *)
Begins(t, s) ==
  /\ Len(t) \in 0 .. Len(s)
  /\ \A i \in 1 .. Len(t) :
       /\ t[i].kind = s[i].kind /\ t[i].of = s[i].of
       /\ t[i].kind = "loop" => t[i].next \in Nat /\ t[i].next >= s[i].next

(* The beginning of a well-formed stack is well-formed.                    *)
LEMMA BeginsWell ==
  ASSUME NEW s \in Seq(Frame), NEW t \in Seq(Frame), StackOK(s), Begins(t, s)
  PROVE  StackOK(t)
<1>1. /\ Len(s) \in Nat /\ Len(t) \in Nat /\ Len(t) <= Len(s)
      /\ \A i \in 1 .. Len(t) : t[i].kind = s[i].kind
  BY DEF Begins
<1>2. t # <<>> => Len(t) >= 1 /\ s # <<>>
  BY <1>1
<1>3. t # <<>> => t[1].kind = "loop"
  BY <1>1, <1>2 DEF StackOK
<1>4. ASSUME NEW i \in 2 .. Len(t)
      PROVE  /\ t[i].kind = "load" => t[i - 1].kind \in {"load", "loop"}
             /\ t[i].kind = "body" => t[i - 1].kind = "loop"
  <2>1. i \in 2 .. Len(s) /\ i \in 1 .. Len(t) /\ i - 1 \in 1 .. Len(t)
    BY <1>1
  <2> QED
    BY <1>1, <2>1 DEF StackOK
<1>5. ASSUME NEW i \in 1 .. Len(t), NEW j \in 1 .. Len(t), i < j, t[i].kind = "load"
      PROVE  t[j].kind = "load"
  <2>1. i \in 1 .. Len(s) /\ j \in 1 .. Len(s) /\ s[i].kind = "load"
    BY <1>1, <1>5
  <2>2. s[j].kind = "load"
    BY <1>5, <2>1 DEF StackOK
  <2> QED
    BY <1>1, <2>2
<1>6. ASSUME NEW i \in 1 .. Len(t), t[i].kind = "loop"
      PROVE  t[i].next \in Nat \ {0}
  <2>1. i \in 1 .. Len(s) /\ s[i].kind = "loop" /\ t[i].next \in Nat /\ t[i].next >= s[i].next
    BY <1>1, <1>6 DEF Begins
  <2>2. s[i].next \in Nat \ {0}
    BY <2>1 DEF StackOK
  <2> QED
    BY <2>1, <2>2
<1> QED
  BY <1>3, <1>4, <1>5, <1>6 DEF StackOK

(* A stack without a load on top has none at all.                          *)
LEMMA NoLoads ==
  ASSUME NEW s \in Seq(Frame), StackOK(s), s = <<>> \/ s[Len(s)].kind # "load"
  PROVE  \A i \in 1 .. Len(s) : s[i].kind # "load"
<1> SUFFICES ASSUME NEW i \in 1 .. Len(s), s[i].kind = "load"
             PROVE  FALSE
  OBVIOUS
<1>1. Len(s) \in Nat /\ Len(s) \in 1 .. Len(s) /\ s # <<>>
  OBVIOUS
<1>2. i = Len(s) \/ i < Len(s)
  BY <1>1
<1> QED
  BY <1>1, <1>2 DEF StackOK

(* Without a load, nothing is marked, and the beginning of the stack is as *)
(* good as the whole.                                                      *)
LEMMA BeginsMarked ==
  ASSUME NEW s \in Seq(Frame), NEW t \in Seq(Frame), NEW r, LoadsOK(s, r), Begins(t, s),
         \A i \in 1 .. Len(s) : i > Len(t) => s[i].kind # "load"
  PROVE  LoadsOK(t, r)
<1>1. /\ Len(s) \in Nat /\ Len(t) \in Nat /\ Len(t) <= Len(s)
      /\ \A i \in 1 .. Len(t) : t[i].kind = s[i].kind /\ t[i].of = s[i].of
  BY DEF Begins
<1>2. \A i \in 1 .. Len(t) : t[i].kind = "load" => r[t[i].of] = "loading"
  BY <1>1 DEF LoadsOK
<1>3. ASSUME NEW i \in 1 .. Len(t), NEW j \in 1 .. Len(t),
             t[i].kind = "load", t[j].kind = "load", t[i].of = t[j].of
      PROVE  i = j
  <2>1. i \in 1 .. Len(s) /\ j \in 1 .. Len(s)
    BY <1>1
  <2> QED
    BY <1>1, <1>3, <2>1 DEF LoadsOK
<1>4. ASSUME NEW m \in Module, r[m] = "loading"
      PROVE  \E i \in 1 .. Len(t) : t[i].kind = "load" /\ t[i].of = m
  <2>1. PICK i \in 1 .. Len(s) : s[i].kind = "load" /\ s[i].of = m
    BY <1>4 DEF LoadsOK
  <2>2. i \in 1 .. Len(t)
    BY <1>1, <2>1
  <2> QED
    BY <1>1, <2>1, <2>2
<1> QED
  BY <1>2, <1>3, <1>4 DEF LoadsOK

(* What a frame is follows from its kind.                                  *)
LEMMA Kinds ==
  ASSUME NEW f \in Frame
  PROVE  /\ f.kind \in {"load", "loop", "body"}
         /\ f.kind = "load" => f \in LoadFrame
         /\ f.kind = "loop" => f \in LoopFrame
         /\ f.kind = "body" => f \in BodyFrame
BY DEF Frame, LoadFrame, LoopFrame, BodyFrame

(* The frame on top.                                                       *)
LEMMA TopFrame ==
  ASSUME TypeOK, stack # <<>>
  PROVE  /\ stack \in Seq(Frame)
         /\ Depth \in Nat \ {0} /\ Depth = Len(stack)
         /\ Top = stack[Len(stack)] /\ Top \in Frame
         /\ Below \in Seq(Frame) /\ Len(Below) = Len(stack) - 1
         /\ \A i \in 1 .. Len(stack) - 1 : Below[i] = stack[i]
<1>1. stack \in Seq(Frame)
  BY DEF TypeOK, Frame
<1> QED
  BY <1>1, Resting DEF Depth, Top, Below

(* Below a body there is the loop that runs it.                            *)
LEMMA UnderBody ==
  ASSUME TypeOK, StackOK(stack), TopIs("body")
  PROVE  /\ Below # <<>> /\ Len(Below) = Len(stack) - 1 /\ Len(Below) \in Nat \ {0}
         /\ Below[Len(Below)] = stack[Len(stack) - 1]
         /\ Below[Len(Below)] \in LoopFrame
<1>1. /\ stack \in Seq(Frame) /\ stack # <<>> /\ Len(stack) \in Nat \ {0}
      /\ Top = stack[Len(stack)] /\ Top.kind = "body"
      /\ Below \in Seq(Frame) /\ Len(Below) = Len(stack) - 1
      /\ \A i \in 1 .. Len(stack) - 1 : Below[i] = stack[i]
  BY TopFrame DEF TopIs
<1>2. Len(stack) # 1
  BY <1>1 DEF StackOK
<1>3. Len(stack) \in 2 .. Len(stack) /\ Len(stack) - 1 \in 1 .. Len(stack) - 1
  BY <1>1, <1>2
<1>4. stack[Len(stack) - 1].kind = "loop"
  BY <1>1, <1>3 DEF StackOK
<1>5. Below # <<>> /\ Len(Below) \in Nat \ {0}
  BY <1>1, <1>3
<1>6. Below[Len(Below)] = stack[Len(stack) - 1]
  BY <1>1, <1>3
<1>7. Below[Len(Below)] \in Frame
  BY <1>1, <1>5, Resting
<1> QED
  BY <1>1, <1>4, <1>5, <1>6, <1>7, Kinds

(* A stack whose top loop goes on to its next entry.                       *)
LEMMA LoopGoesOn ==
  ASSUME NEW s \in Seq(Frame), s # <<>>, s[Len(s)] \in LoopFrame
  PROVE  /\ NextEntry(s) \in Seq(Frame) /\ Len(NextEntry(s)) = Len(s)
         /\ \A i \in 1 .. Len(s) - 1 : NextEntry(s)[i] = s[i]
         /\ NextEntry(s)[Len(s)] = [s[Len(s)] EXCEPT !.next = @ + 1]
         /\ Begins(NextEntry(s), s)
<1> DEFINE f == [s[Len(s)] EXCEPT !.next = @ + 1]
           t == [s EXCEPT ![Len(s)] = f]
<1>1. NextEntry(s) = t
  BY DEF NextEntry
<1>2. Len(s) \in Nat \ {0} /\ Len(s) \in 1 .. Len(s)
  OBVIOUS
<1>3. /\ f \in LoopFrame /\ f.kind = s[Len(s)].kind /\ f.of = s[Len(s)].of
      /\ f.next \in Nat /\ f.next >= s[Len(s)].next
  BY DEF LoopFrame
<1>4. f \in Frame
  BY <1>3 DEF Frame
<1> HIDE DEF f
<1>5. t \in Seq(Frame) /\ Len(t) = Len(s) /\ t[Len(s)] = f
  BY <1>2, <1>4
<1>6. \A i \in 1 .. Len(s) : i # Len(s) => t[i] = s[i]
  BY <1>2, <1>4
<1> HIDE DEF t
<1>7. ASSUME NEW i \in 1 .. Len(t)
      PROVE  /\ t[i].kind = s[i].kind /\ t[i].of = s[i].of
             /\ t[i].kind = "loop" => t[i].next \in Nat /\ t[i].next >= s[i].next
  <2>1. CASE i = Len(s)
    BY <1>3, <1>5, <2>1
  <2>2. CASE i # Len(s)
    <3>1. t[i] = s[i] /\ s[i] \in Frame
      BY <1>5, <1>6, <2>2
    <3>2. t[i].kind = "loop" => t[i].next \in Nat
      BY <3>1, Kinds DEF LoopFrame
    <3> QED
      BY <3>1, <3>2
  <2> QED
    BY <2>1, <2>2
<1>8. Begins(t, s)
  BY <1>2, <1>5, <1>7 DEF Begins
<1>9. \A i \in 1 .. Len(s) - 1 : t[i] = s[i]
  BY <1>2, <1>6
<1> QED
  BY <1>1, <1>5, <1>8, <1>9 DEF f

(* A stack whose top frame has changed, but not its kind or its module.    *)
LEMMA TopChanges ==
  ASSUME TypeOK, stack # <<>>, NEW f \in Frame, f.kind = Top.kind, f.of = Top.of,
         f.kind # "loop"
  PROVE  /\ WithTop(f) \in Seq(Frame) /\ Len(WithTop(f)) = Len(stack)
         /\ \A i \in 1 .. Len(stack) - 1 : WithTop(f)[i] = stack[i]
         /\ WithTop(f)[Len(stack)] = f
         /\ Begins(WithTop(f), stack)
<1> DEFINE t == WithTop(f)
<1>1. /\ stack \in Seq(Frame) /\ Len(stack) \in Nat \ {0} /\ Depth = Len(stack)
      /\ Top = stack[Len(stack)]
  BY TopFrame
<1>2. t = Append(SubSeq(stack, 1, Len(stack) - 1), f)
  BY <1>1 DEF WithTop, Below
<1> HIDE DEF t
<1>3. /\ t \in Seq(Frame) /\ Len(t) = Len(stack)
      /\ \A i \in 1 .. Len(stack) - 1 : t[i] = stack[i]
      /\ t[Len(stack)] = f
  BY <1>1, <1>2, Topping
<1>4. ASSUME NEW i \in 1 .. Len(t)
      PROVE  /\ t[i].kind = stack[i].kind /\ t[i].of = stack[i].of
             /\ t[i].kind = "loop" => t[i].next \in Nat /\ t[i].next >= stack[i].next
  <2>1. CASE i = Len(stack)
    BY <1>1, <1>3, <2>1
  <2>2. CASE i \in 1 .. Len(stack) - 1
    <3>1. t[i] = stack[i] /\ stack[i] \in Frame
      BY <1>1, <1>3, <2>2
    <3>2. t[i].kind = "loop" => t[i].next \in Nat
      BY <3>1, Kinds DEF LoopFrame
    <3> QED
      BY <3>1, <3>2
  <2> QED
    BY <1>1, <1>3, <2>1, <2>2
<1>5. Begins(t, stack)
  BY <1>1, <1>3, <1>4 DEF Begins
<1> QED
  BY <1>3, <1>5 DEF t


-----------------------------------------------------------------------------
(* Steps that make the stack shorter, or change what its frames remember.  *)

(* A part of the stack begins it.                                          *)
LEMMA PartBegins ==
  ASSUME NEW s \in Seq(Frame), NEW t \in Seq(Frame), Len(t) <= Len(s),
         \A i \in 1 .. Len(t) : t[i] = s[i]
  PROVE  Begins(t, s)
<1>1. Len(s) \in Nat /\ Len(t) \in 0 .. Len(s)
  OBVIOUS
<1>2. ASSUME NEW i \in 1 .. Len(t), t[i].kind = "loop"
      PROVE  t[i].next \in Nat
  BY <1>2, Kinds DEF LoopFrame
<1> QED
  BY <1>1, <1>2 DEF Begins

(* What is left is well-formed.                                            *)
LEMMA Shrinking ==
  ASSUME IInv, stack' \in Seq(Frame), Begins(stack', stack),
         stack = <<>> \/ Top.kind # "load" \/ Len(stack') = Len(stack),
         registered' = registered
  PROVE  StackOK(stack)' /\ LoadsOK(stack, registered)'
<1>1. stack \in Seq(Frame) /\ StackOK(stack) /\ LoadsOK(stack, registered)
  BY DEF IInv, TypeOK, Frame
<1>2. StackOK(stack')
  BY <1>1, BeginsWell
<1>3. ASSUME NEW i \in 1 .. Len(stack), i > Len(stack')
      PROVE  stack[i].kind # "load"
  <2>1. stack # <<>> /\ Len(stack') # Len(stack)
    BY <1>1, <1>3
  <2>2. Top = stack[Len(stack)]
    BY <2>1, TopFrame DEF IInv
  <2> QED
    BY <1>1, <2>1, <2>2, NoLoads
<1>4. LoadsOK(stack', registered')
  BY <1>1, <1>3, BeginsMarked
<1> QED
  BY <1>2, <1>4

(* Bodies run once as long as the counts and the flags stay.               *)
LEMMA SameRuns ==
  ASSUME RunsOK, runs' = runs, executed \subseteq executed'
  PROVE  RunsOK'
BY DEF RunsOK

(* An error leaves the beginning of the stack.                             *)
LEMMA TravelsDown ==
  ASSUME TypeOK, Travels
  PROVE  /\ stack' \in Seq(Frame) /\ Begins(stack', stack)
         /\ pending' = <<>> /\ phase' \in {phase, "failed"}
         /\ stack' = <<>> \/ \E i \in 1 .. Len(stack) :
              /\ stack[i].kind = "loop" /\ stack[i].caught
              /\ stack' = SubSeq(stack, 1, i - 1)
<1> DEFINE traps == {i \in 1 .. Depth : stack[i].kind = "loop" /\ stack[i].caught}
<1>1. stack \in Seq(Frame) /\ Depth = Len(stack)
  BY DEF TypeOK, Frame, Depth
<1>2. CASE traps = {} /\ phase' = "failed" /\ stack' = <<>>
  <2>1. /\ stack' \in Seq(Frame) /\ Len(stack') <= Len(stack)
        /\ \A i \in 1 .. Len(stack') : stack'[i] = stack[i]
    BY <1>1, <1>2
  <2>2. Begins(stack', stack)
    BY <1>1, <2>1, PartBegins
  <2> QED
    BY <1>2, <2>1, <2>2 DEF Travels
<1>3. CASE \E i \in traps : stack' = SubSeq(stack, 1, i - 1) /\ phase' = phase
  <2>1. PICK i \in traps : stack' = SubSeq(stack, 1, i - 1) /\ phase' = phase
    BY <1>3
  <2>2. i - 1 \in 0 .. Len(stack) /\ i \in 1 .. Len(stack)
    BY <1>1
  <2> DEFINE n == i - 1
  <2> HIDE DEF n
  <2>3. stack' = SubSeq(stack, 1, n) /\ n \in 0 .. Len(stack)
    BY <2>1, <2>2 DEF n
  <2>4. /\ stack' \in Seq(Frame) /\ Len(stack') = n
        /\ \A k \in 1 .. n : stack'[k] = stack[k]
    BY <1>1, <2>3, Prefix
  <2>5. Len(stack') <= Len(stack) /\ \A k \in 1 .. Len(stack') : stack'[k] = stack[k]
    BY <1>1, <2>3, <2>4
  <2>7. Begins(stack', stack)
    BY <1>1, <2>4, <2>5, PartBegins
  <2>6. stack[i].kind = "loop" /\ stack[i].caught
    OBVIOUS
  <2> QED
    BY <2>1, <2>2, <2>4, <2>6, <2>7 DEF Travels
<1> QED
  BY <1>2, <1>3 DEF Travels

(* The stack without its top.                                              *)
LEMMA Leaving ==
  ASSUME TypeOK, stack # <<>>
  PROVE  Below \in Seq(Frame) /\ Begins(Below, stack)
BY TopFrame, PartBegins

(* The loop under a body that is over goes on.                             *)
LEMMA BodyLeaves ==
  ASSUME TypeOK, StackOK(stack), TopIs("body")
  PROVE  /\ NextEntry(Below) \in Seq(Frame) /\ Begins(NextEntry(Below), stack)
         /\ Len(NextEntry(Below)) = Len(stack) - 1
<1>1. /\ Below # <<>> /\ Below \in Seq(Frame) /\ Len(Below) = Len(stack) - 1
      /\ Below[Len(Below)] \in LoopFrame /\ Begins(Below, stack)
  BY UnderBody, Leaving, TopFrame DEF TopIs
<1>2. /\ NextEntry(Below) \in Seq(Frame) /\ Len(NextEntry(Below)) = Len(Below)
      /\ Begins(NextEntry(Below), Below)
  BY <1>1, LoopGoesOn
<1>3. Begins(NextEntry(Below), stack)
  <2>1. \A i \in 1 .. Len(Below) : Below[i] = stack[i]
    BY <1>1, TopFrame DEF TopIs
  <2> QED
    BY <1>1, <1>2, <2>1 DEF Begins
<1> QED
  BY <1>1, <1>2, <1>3

(* The entry a loop is at is a module.                                     *)
LEMMA EnteredIs ==
  ASSUME TypeOK, StackOK(stack), InQueue
  PROVE  /\ Entered \in Module /\ Top \in LoopFrame
         /\ Top.next \in 1 .. Len(pending) /\ Entered = pending[Top.next]
<1>1. Top.next <= Len(pending) /\ pending \in Seq(Module) /\ stack # <<>> /\ Top.kind = "loop"
  BY DEF InQueue, TopIs, TypeOK
<1>2. Top \in LoopFrame /\ Top = stack[Len(stack)] /\ Len(stack) \in 1 .. Len(stack)
  BY <1>1, TopFrame, Kinds
<1>3. Top.next \in Nat \ {0}
  BY <1>1, <1>2 DEF StackOK
<1>4. Top.next \in 1 .. Len(pending)
  BY <1>1, <1>3
<1> QED
  BY <1>1, <1>2, <1>4 DEF Entered

(* SkipExecuted.                                                           *)
LEMMA SkipKeeps == ASSUME IInv, SkipExecuted PROVE IInv'
<1>1. TypeOK /\ StackOK(stack) /\ stack # <<>> /\ Top.kind = "loop"
  BY DEF IInv, SkipExecuted, InQueue, TopIs
<1>2. stack \in Seq(Frame) /\ stack[Len(stack)] = Top /\ Top \in LoopFrame
  BY <1>1, TopFrame, Kinds
<1>3. stack' \in Seq(Frame) /\ Begins(stack', stack)
  BY <1>1, <1>2, LoopGoesOn DEF SkipExecuted
<1>4. StackOK(stack)' /\ LoadsOK(stack, registered)'
  BY <1>1, <1>3, Shrinking DEF SkipExecuted
<1>5. TypeOK'
  BY <1>1, <1>3 DEF TypeOK, Frame, SkipExecuted
<1>6. RunsOK'
  BY SameRuns DEF IInv, SkipExecuted
<1> QED
  BY <1>4, <1>5, <1>6 DEF IInv

(* RefuseAwaiting.                                                         *)
LEMMA RefuseKeeps == ASSUME IInv, RefuseAwaiting PROVE IInv'
<1>1. TypeOK /\ StackOK(stack) /\ stack # <<>> /\ Top.kind = "loop"
  BY DEF IInv, RefuseAwaiting, InQueue, TopIs
<1>2. stack' \in Seq(Frame) /\ Begins(stack', stack)
  BY <1>1, Leaving DEF RefuseAwaiting
<1>3. StackOK(stack)' /\ LoadsOK(stack, registered)'
  BY <1>1, <1>2, Shrinking DEF RefuseAwaiting
<1>4. TypeOK'
  BY <1>1, <1>2, EnteredIs DEF TypeOK, Frame, RefuseAwaiting
<1>5. RunsOK'
  BY SameRuns DEF IInv, RefuseAwaiting
<1> QED
  BY <1>3, <1>4, <1>5 DEF IInv

(* QueueDone.                                                              *)
LEMMA QueueDoneKeeps == ASSUME IInv, QueueDone PROVE IInv'
<1>1. TypeOK /\ StackOK(stack) /\ stack # <<>> /\ Top.kind = "loop"
  BY DEF IInv, QueueDone, TopIs
<1>2. stack' \in Seq(Frame) /\ Begins(stack', stack)
  BY <1>1, Leaving DEF QueueDone
<1>3. StackOK(stack)' /\ LoadsOK(stack, registered)'
  BY <1>1, <1>2, Shrinking DEF QueueDone
<1>4. view' \in [Module -> {"none", "partial", "whole"}]
  BY <1>1 DEF TypeOK, QueueDone, Viewed
<1>5. TypeOK'
  BY <1>1, <1>2, <1>4 DEF TypeOK, Frame, QueueDone
<1>6. RunsOK'
  BY SameRuns DEF IInv, QueueDone
<1> QED
  BY <1>3, <1>5, <1>6 DEF IInv

(* Steps of program code whose end the stack does not see, or sees as one  *)
(* body less, or as an error on its way.                                   *)
LEMMA CodeKeeps ==
  ASSUME IInv, BodyReturns \/ BodyFails \/ BodyAwaits \/ BodyResumes \/ runBodyAsync
               \/ CallbackFails \/ ProgramEnds
  PROVE  IInv'
<1>1. TypeOK /\ StackOK(stack) /\ RunsOK /\ stack \in Seq(Frame)
  BY DEF IInv, TypeOK, Frame
<1>2. stack = <<>> \/ Top.kind # "load"
  BY DEF BodyReturns, BodyFails, BodyAwaits, BodyResumes, runBodyAsync, CallbackFails,
         ProgramEnds, BodyRuns, LoopRuns, TopIs
<1>3. ASSUME TopIs("body"), NEW f \in BodyFrame, f.of = Top.of, stack' = WithTop(f)
      PROVE  stack' \in Seq(Frame) /\ Begins(stack', stack)
  <2>1. stack # <<>> /\ f \in Frame /\ f.kind = "body" /\ Top.kind = "body"
    BY <1>3 DEF TopIs, Frame, BodyFrame
  <2> QED
    BY <1>1, <1>3, <2>1, TopChanges
<1>4. ASSUME TopIs("body")
      PROVE  Top \in BodyFrame
  BY <1>1, <1>4, TopFrame, Kinds DEF TopIs
<1>5. stack' \in Seq(Frame) /\ Begins(stack', stack)
  <2>1. CASE BodyReturns
    <3>1. TopIs("body") /\ Top \in BodyFrame
      BY <1>4, <2>1 DEF BodyReturns, BodyRuns
    <3>2. CASE Awaits(Top.of)
      <4>1. [Top EXCEPT !.doing = "over"] \in BodyFrame
        BY <3>1 DEF BodyFrame
      <4>2. [Top EXCEPT !.doing = "over"].of = Top.of
        BY <3>1 DEF BodyFrame
      <4> QED
        BY <1>3, <2>1, <3>1, <3>2, <4>1, <4>2 DEF BodyReturns
    <3>3. CASE ~Awaits(Top.of)
      BY <1>1, <2>1, <3>1, <3>3, BodyLeaves DEF BodyReturns
    <3> QED
      BY <3>2, <3>3
  <2>2. CASE BodyFails
    <3>1. TopIs("body") /\ Top \in BodyFrame
      BY <1>4, <2>2 DEF BodyFails, BodyRuns
    <3>2. CASE Awaits(Top.of)
      <4>1. [Top EXCEPT !.doing = "over", !.ok = FALSE] \in BodyFrame
        BY <3>1 DEF BodyFrame
      <4>2. [Top EXCEPT !.doing = "over", !.ok = FALSE].of = Top.of
        BY <3>1 DEF BodyFrame
      <4> QED
        BY <1>3, <2>2, <3>1, <3>2, <4>1, <4>2 DEF BodyFails
    <3>3. CASE ~Awaits(Top.of)
      BY <1>1, <2>2, <3>3, TravelsDown DEF BodyFails
    <3> QED
      BY <3>2, <3>3
  <2>3. CASE BodyAwaits
    <3>1. TopIs("body") /\ Top \in BodyFrame
      BY <1>4, <2>3 DEF BodyAwaits
    <3>2. /\ [Top EXCEPT !.doing = "waiting"] \in BodyFrame
          /\ [Top EXCEPT !.doing = "waiting"].of = Top.of
      BY <3>1 DEF BodyFrame
    <3> QED
      BY <1>3, <2>3, <3>1, <3>2 DEF BodyAwaits
  <2>4. CASE BodyResumes
    <3>1. TopIs("body") /\ Top \in BodyFrame
      BY <1>4, <2>4 DEF BodyResumes
    <3>2. /\ [Top EXCEPT !.doing = "resumed"] \in BodyFrame
          /\ [Top EXCEPT !.doing = "resumed"].of = Top.of
      BY <3>1 DEF BodyFrame
    <3> QED
      BY <1>3, <2>4, <3>1, <3>2 DEF BodyResumes
  <2>5. CASE runBodyAsync
    BY <1>1, <2>5, BodyLeaves, TravelsDown DEF runBodyAsync
  <2>6. CASE CallbackFails
    BY <1>1, <2>6, TravelsDown DEF CallbackFails
  <2>7. CASE ProgramEnds
    <3>1. stack' = stack
      BY <2>7 DEF ProgramEnds
    <3>2. /\ stack' \in Seq(Frame) /\ Len(stack') <= Len(stack)
          /\ \A i \in 1 .. Len(stack') : stack'[i] = stack[i]
      BY <1>1, <3>1
    <3> QED
      BY <1>1, <3>2, PartBegins
  <2> QED
    BY <2>1, <2>2, <2>3, <2>4, <2>5, <2>6, <2>7
<1>6. registered' = registered /\ runs' = runs /\ executed' = executed
  BY DEF BodyReturns, BodyFails, BodyAwaits, BodyResumes, runBodyAsync, CallbackFails, ProgramEnds
<1>7. StackOK(stack)' /\ LoadsOK(stack, registered)'
  BY <1>2, <1>5, <1>6, Shrinking
<1>8. /\ pending' \in Seq(Module) /\ finished' \subseteq Module
      /\ phase' \in {"run", "events", "exit", "failed"}
  <2>1. ASSUME Travels PROVE pending' \in Seq(Module) /\ phase' \in {phase, "failed"}
    BY <1>1, <2>1, TravelsDown
  <2>2. BodyReturns => Top.of \in Module
    BY <1>4 DEF BodyReturns, BodyRuns, BodyFrame
  <2> QED
    BY <1>1, <2>1, <2>2 DEF TypeOK, BodyReturns, BodyFails, BodyAwaits, BodyResumes, runBodyAsync,
       CallbackFails, ProgramEnds
<1>9. program' = program /\ view' = view /\ calls' = calls
  BY DEF BodyReturns, BodyFails, BodyAwaits, BodyResumes, runBodyAsync, CallbackFails, ProgramEnds
<1>10. TypeOK'
  BY <1>1, <1>5, <1>6, <1>8, <1>9 DEF TypeOK, Frame
<1>11. RunsOK'
  BY <1>1, <1>6, SameRuns
<1> QED
  BY <1>7, <1>10, <1>11 DEF IInv

-----------------------------------------------------------------------------
(* Steps that push.                                                        *)

(* One more frame on the stack.                                            *)
LEMMA Pushing ==
  ASSUME NEW s \in Seq(Frame), StackOK(s), NEW f \in Frame,
         s = <<>> => f.kind = "loop",
         f.kind = "loop" => f.next = 1,
         s # <<>> => /\ f.kind = "load" => s[Len(s)].kind \in {"load", "loop"}
                     /\ f.kind = "body" => s[Len(s)].kind = "loop"
                     /\ f.kind # "load" => s[Len(s)].kind # "load"
  PROVE  StackOK(Append(s, f))
<1> DEFINE t == Append(s, f)
<1>1. /\ t \in Seq(Frame) /\ Len(t) = Len(s) + 1 /\ Len(s) \in Nat
      /\ \A i \in 1 .. Len(s) : t[i] = s[i]
      /\ t[Len(s) + 1] = f
  BY Appending
<1> HIDE DEF t
<1>2. s = <<>> \/ Len(s) >= 1
  BY <1>1
<1>3. t[1].kind = "loop"
  BY <1>1, <1>2 DEF StackOK
<1>4. \A i \in 1 .. Len(t) : i \in 1 .. Len(s) \/ i = Len(s) + 1
  BY <1>1
<1>5. \A i \in 1 .. Len(t) : t[i].kind = "loop" => t[i].next \in Nat \ {0}
  BY <1>1, <1>4 DEF StackOK
<1>6. ASSUME NEW i \in 2 .. Len(t)
      PROVE  /\ t[i].kind = "load" => t[i - 1].kind \in {"load", "loop"}
             /\ t[i].kind = "body" => t[i - 1].kind = "loop"
  <2>1. CASE i = Len(s) + 1
    BY <1>1, <2>1
  <2>2. CASE i # Len(s) + 1
    <3>1. i \in 2 .. Len(s) /\ i \in 1 .. Len(s) /\ i - 1 \in 1 .. Len(s)
      BY <1>1, <2>2
    <3> QED
      BY <1>1, <3>1 DEF StackOK
  <2> QED
    BY <2>1, <2>2
<1>7. ASSUME NEW i \in 1 .. Len(t), NEW j \in 1 .. Len(t), i < j, t[i].kind = "load"
      PROVE  t[j].kind = "load"
  <2>1. i \in 1 .. Len(s) /\ s[i].kind = "load"
    BY <1>1, <1>7
  <2>2. s[Len(s)].kind = "load" /\ s # <<>>
    <3>1. s # <<>> /\ Len(s) \in 1 .. Len(s) /\ (i = Len(s) \/ i < Len(s))
      BY <1>1, <2>1
    <3> QED
      BY <2>1, <3>1 DEF StackOK
  <2>3. CASE j = Len(s) + 1
    BY <1>1, <2>2, <2>3
  <2>4. CASE j \in 1 .. Len(s)
    <3>1. s[j].kind = "load"
      BY <1>7, <2>1, <2>4 DEF StackOK
    <3> QED
      BY <1>1, <2>4, <3>1
  <2> QED
    BY <1>4, <2>3, <2>4
<1>8. StackOK(t)
  BY <1>3, <1>5, <1>6, <1>7 DEF StackOK
<1> QED
  BY <1>8 DEF t

(* A frame that is no load leaves the marks as they are.                   *)
LEMMA PushingUnmarked ==
  ASSUME NEW s \in Seq(Frame), NEW r, LoadsOK(s, r), NEW f \in Frame, f.kind # "load"
  PROVE  LoadsOK(Append(s, f), r)
<1> DEFINE t == Append(s, f)
<1>1. /\ t \in Seq(Frame) /\ Len(t) = Len(s) + 1 /\ Len(s) \in Nat
      /\ \A i \in 1 .. Len(s) : t[i] = s[i]
      /\ t[Len(s) + 1] = f
  BY Appending
<1> HIDE DEF t
<1>2. \A i \in 1 .. Len(t) : t[i].kind = "load" => i \in 1 .. Len(s)
  <2>1. \A i \in 1 .. Len(t) : i \in 1 .. Len(s) \/ i = Len(s) + 1
    BY <1>1
  <2> QED
    BY <1>1, <2>1
<1>3. \A m \in Module : r[m] = "loading" =>
        \E i \in 1 .. Len(t) : t[i].kind = "load" /\ t[i].of = m
  <2> SUFFICES ASSUME NEW m \in Module, r[m] = "loading"
               PROVE  \E i \in 1 .. Len(t) : t[i].kind = "load" /\ t[i].of = m
    OBVIOUS
  <2>1. PICK i \in 1 .. Len(s) : s[i].kind = "load" /\ s[i].of = m
    BY DEF LoadsOK
  <2>2. i \in 1 .. Len(t)
    BY <1>1
  <2> QED
    BY <1>1, <2>1, <2>2
<1>4. \A i \in 1 .. Len(t) : t[i].kind = "load" => r[t[i].of] = "loading"
  BY <1>1, <1>2 DEF LoadsOK
<1>5. \A i, j \in 1 .. Len(t) :
        t[i].kind = "load" /\ t[j].kind = "load" /\ t[i].of = t[j].of => i = j
  BY <1>1, <1>2 DEF LoadsOK
<1>6. LoadsOK(t, r)
  BY <1>3, <1>4, <1>5 DEF LoadsOK
<1> QED
  BY <1>6 DEF t

(* A load that begins marks its module, which was not marked.              *)
LEMMA PushingMarked ==
  ASSUME NEW s \in Seq(Frame), NEW r \in [Module -> {"absent", "loading", "loaded"}],
         LoadsOK(s, r), NEW f \in LoadFrame, r[f.of] = "absent"
  PROVE  LoadsOK(Append(s, f), [r EXCEPT ![f.of] = "loading"])
<1> DEFINE t == Append(s, f)
           q == [r EXCEPT ![f.of] = "loading"]
<1>0. f \in Frame /\ f.kind = "load" /\ f.of \in Module
  BY DEF Frame, LoadFrame
<1>1. /\ t \in Seq(Frame) /\ Len(t) = Len(s) + 1 /\ Len(s) \in Nat
      /\ \A i \in 1 .. Len(s) : t[i] = s[i]
      /\ t[Len(s) + 1] = f
  BY <1>0, Appending
<1>2. q[f.of] = "loading" /\ \A m \in Module : m # f.of => q[m] = r[m]
  BY <1>0
<1> HIDE DEF t, q
<1>3. \A i \in 1 .. Len(t) : i \in 1 .. Len(s) \/ i = Len(s) + 1
  BY <1>1
<1>4. \A i \in 1 .. Len(s) : s[i].kind = "load" => s[i].of # f.of /\ s[i].of \in Module
  <2> SUFFICES ASSUME NEW i \in 1 .. Len(s), s[i].kind = "load"
               PROVE  s[i].of # f.of /\ s[i].of \in Module
    OBVIOUS
  <2>1. s[i] \in LoadFrame
    BY Kinds
  <2>2. s[i].of \in Module
    BY <2>1 DEF LoadFrame
  <2>3. r[s[i].of] = "loading"
    BY DEF LoadsOK
  <2> QED
    BY <2>2, <2>3
<1>5. \A i \in 1 .. Len(t) : t[i].kind = "load" => q[t[i].of] = "loading"
  BY <1>1, <1>2, <1>3, <1>4 DEF LoadsOK
<1>6. \A i, j \in 1 .. Len(t) :
        t[i].kind = "load" /\ t[j].kind = "load" /\ t[i].of = t[j].of => i = j
  <2> SUFFICES ASSUME NEW i \in 1 .. Len(t), NEW j \in 1 .. Len(t),
                      t[i].kind = "load", t[j].kind = "load", t[i].of = t[j].of
               PROVE  i = j
    OBVIOUS
  <2>1. CASE i \in 1 .. Len(s) /\ j \in 1 .. Len(s)
    BY <1>1, <2>1 DEF LoadsOK
  <2>2. CASE i = Len(s) + 1 \/ j = Len(s) + 1
    BY <1>1, <1>3, <1>4, <2>2
  <2> QED
    BY <1>3, <2>1, <2>2
<1>7. ASSUME NEW m \in Module, q[m] = "loading"
      PROVE  \E i \in 1 .. Len(t) : t[i].kind = "load" /\ t[i].of = m
  <2>1. CASE m = f.of
    <3>1. Len(s) + 1 \in 1 .. Len(t)
      BY <1>1
    <3> QED
      BY <1>0, <1>1, <2>1, <3>1
  <2>2. CASE m # f.of
    <3>1. r[m] = "loading"
      BY <1>2, <1>7, <2>2
    <3>2. PICK i \in 1 .. Len(s) : s[i].kind = "load" /\ s[i].of = m
      BY <3>1 DEF LoadsOK
    <3>3. i \in 1 .. Len(t)
      BY <1>1
    <3> QED
      BY <1>1, <3>2, <3>3
  <2> QED
    BY <2>1, <2>2
<1>8. LoadsOK(t, q)
  BY <1>5, <1>6, <1>7 DEF LoadsOK
<1> QED
  BY <1>8 DEF t, q

(* EnterBody.                                                              *)
LEMMA EnterKeeps == ASSUME IInv, EnterBody PROVE IInv'
<1>1. /\ TypeOK /\ StackOK(stack) /\ LoadsOK(stack, registered) /\ RunsOK
      /\ stack # <<>> /\ Top.kind = "loop"
  BY DEF IInv, EnterBody, InQueue, TopIs
<1>2. stack \in Seq(Frame) /\ stack[Len(stack)] = Top
  BY <1>1, TopFrame
<1>3. Entered \in Module
  BY <1>1, EnteredIs DEF EnterBody
<1>4. NewBody(Entered) \in Frame /\ NewBody(Entered).kind = "body"
  BY <1>3 DEF NewBody, Frame, BodyFrame
<1>5. stack' = Append(stack, NewBody(Entered)) /\ registered' = registered
  BY DEF EnterBody
<1>6. StackOK(stack')
  BY <1>1, <1>2, <1>4, <1>5, Pushing
<1>7. LoadsOK(stack', registered')
  BY <1>1, <1>2, <1>4, <1>5, PushingUnmarked
<1>8. stack' \in Seq(Frame)
  BY <1>2, <1>4, <1>5, Appending
<1>9. view' \in [Module -> {"none", "partial", "whole"}]
  BY <1>1 DEF TypeOK, EnterBody, Viewed
<1>10. runs' \in [Module -> Nat] /\ executed' \subseteq Module
  BY <1>1, <1>3 DEF TypeOK, EnterBody
<1>11. TypeOK'
  BY <1>1, <1>5, <1>8, <1>9, <1>10 DEF TypeOK, Frame, EnterBody
<1>12. RunsOK'
  <2>1. Entered \notin executed /\ runs[Entered] = 0
    BY <1>1, <1>3 DEF EnterBody, RunsOK
  <2>2. runs' = [runs EXCEPT ![Entered] = @ + 1] /\ executed' = executed \cup {Entered}
    BY DEF EnterBody
  <2>3. runs \in [Module -> Nat]
    BY <1>1 DEF TypeOK
  <2> QED
    BY <1>1, <1>3, <2>1, <2>2, <2>3 DEF RunsOK
<1> QED
  BY <1>6, <1>7, <1>11, <1>12 DEF IInv

(* LoadImport.                                                             *)
LEMMA LoadImportKeeps ==
  ASSUME IInv, NEW d \in Module, LoadImport(d)
  PROVE  IInv'
<1>1. /\ TypeOK /\ StackOK(stack) /\ LoadsOK(stack, registered) /\ RunsOK
      /\ stack # <<>> /\ Top.kind = "load"
  BY DEF IInv, LoadImport, TopIs
<1>2. /\ stack \in Seq(Frame) /\ stack[Len(stack)] = Top /\ Top \in LoadFrame
      /\ Len(stack) \in Nat \ {0}
  BY <1>1, TopFrame, Kinds
<1> DEFINE f == [Top EXCEPT !.left = @ \ {d}]
           g == [f EXCEPT !.ok = FALSE]
<1>3. /\ f \in LoadFrame /\ f.kind = "load" /\ f.of = Top.of
      /\ g \in LoadFrame /\ g.kind = "load" /\ g.of = Top.of
  BY <1>2 DEF LoadFrame
<1>4. \/ stack' = WithTop(f) /\ registered' = registered
      \/ stack' = WithTop(g) /\ registered' = registered
      \/ /\ registered[d] = "absent"
         /\ registered' = [registered EXCEPT ![d] = "loading"]
         /\ stack' = Append(WithTop(f), NewLoad(d))
  BY DEF LoadImport
<1> HIDE DEF f, g
<1>5. ASSUME NEW e \in LoadFrame, e.kind = "load", e.of = Top.of
      PROVE  /\ WithTop(e) \in Seq(Frame) /\ Begins(WithTop(e), stack)
             /\ Len(WithTop(e)) = Len(stack) /\ WithTop(e)[Len(stack)] = e
             /\ StackOK(WithTop(e)) /\ LoadsOK(WithTop(e), registered)
  <2>1. e \in Frame
    BY DEF Frame
  <2>2. /\ WithTop(e) \in Seq(Frame) /\ Begins(WithTop(e), stack)
        /\ Len(WithTop(e)) = Len(stack) /\ WithTop(e)[Len(stack)] = e
    BY <1>1, <1>5, <2>1, TopChanges
  <2>3. \A i \in 1 .. Len(stack) : ~(i > Len(WithTop(e)))
    BY <1>2, <2>2
  <2> QED
    BY <1>1, <1>2, <2>2, <2>3, BeginsWell, BeginsMarked
<1>6. /\ stack' \in Seq(Frame) /\ StackOK(stack') /\ LoadsOK(stack', registered')
      /\ registered' \in [Module -> {"absent", "loading", "loaded"}]
  <2>1. CASE stack' = WithTop(f) /\ registered' = registered
    BY <1>1, <1>3, <1>5, <2>1 DEF TypeOK
  <2>2. CASE stack' = WithTop(g) /\ registered' = registered
    BY <1>1, <1>3, <1>5, <2>2 DEF TypeOK
  <2>3. CASE /\ registered[d] = "absent"
             /\ registered' = [registered EXCEPT ![d] = "loading"]
             /\ stack' = Append(WithTop(f), NewLoad(d))
    <3>1. NewLoad(d) \in LoadFrame /\ NewLoad(d).of = d /\ NewLoad(d).kind = "load"
      BY <1>1 DEF NewLoad, LoadFrame, TypeOK, Program
    <3>2. NewLoad(d) \in Frame
      BY <3>1 DEF Frame
    <3>3. /\ WithTop(f) \in Seq(Frame) /\ WithTop(f) # <<>>
          /\ WithTop(f)[Len(WithTop(f))].kind = "load"
          /\ StackOK(WithTop(f)) /\ LoadsOK(WithTop(f), registered)
      BY <1>2, <1>3, <1>5
    <3>4. registered \in [Module -> {"absent", "loading", "loaded"}]
      BY <1>1 DEF TypeOK
    <3>5. StackOK(stack')
      BY <2>3, <3>1, <3>2, <3>3, Pushing
    <3>6. LoadsOK(stack', registered')
      BY <2>3, <3>1, <3>3, <3>4, PushingMarked
    <3>7. stack' \in Seq(Frame)
      BY <2>3, <3>2, <3>3, Appending
    <3> QED
      BY <2>3, <3>4, <3>5, <3>6, <3>7
  <2> QED
    BY <1>4, <2>1, <2>2, <2>3
<1>7. TypeOK'
  BY <1>1, <1>6 DEF TypeOK, Frame, LoadImport
<1>8. RunsOK'
  BY <1>1, SameRuns DEF LoadImport
<1> QED
  BY <1>6, <1>7, <1>8 DEF IInv

(* importAtRuntime.                                                        *)
LEMMA ImportKeeps ==
  ASSUME IInv, NEW m \in Module, NEW caught \in BOOLEAN, importAtRuntime(m, caught)
  PROVE  IInv'
<1>1. /\ TypeOK /\ StackOK(stack) /\ LoadsOK(stack, registered) /\ RunsOK
      /\ stack \in Seq(Frame)
      /\ registered \in [Module -> {"absent", "loading", "loaded"}]
  BY DEF IInv, TypeOK, Frame
<1>2. stack = <<>> \/ (stack # <<>> /\ stack[Len(stack)].kind = "body")
  <2>1. stack = <<>> \/ (stack # <<>> /\ Top.kind = "body")
    BY DEF importAtRuntime, BodyRuns, LoopRuns, TopIs
  <2> QED
    BY <1>1, <2>1, TopFrame
<1> DEFINE f == NewLoop(m, caught)
           t == Append(stack, f)
<1>3. f \in LoopFrame /\ f.kind = "loop" /\ f.next = 1
  BY DEF NewLoop, LoopFrame
<1>4. f \in Frame
  BY <1>3 DEF Frame
<1>5. NewLoad(m) \in LoadFrame /\ NewLoad(m).of = m /\ NewLoad(m).kind = "load"
  BY <1>1 DEF NewLoad, LoadFrame, TypeOK, Program
<1>6. \/ stack' = stack /\ registered' = registered
      \/ stack' = t /\ registered' = registered
      \/ /\ registered[m] = "absent"
         /\ registered' = [registered EXCEPT ![m] = "loading"]
         /\ stack' = stack \o <<f, NewLoad(m)>>
  BY DEF importAtRuntime
<1>7. stack \o <<f, NewLoad(m)>> = Append(t, NewLoad(m))
  <2> HIDE DEF f
  <2>1. NewLoad(m) \in Frame
    BY <1>5 DEF Frame
  <2> QED
    BY <1>1, <1>4, <2>1
<1> HIDE DEF f
<1>8. t \in Seq(Frame) /\ t # <<>> /\ t[Len(t)] = f
  BY <1>1, <1>4, Appending
<1>9. StackOK(t) /\ LoadsOK(t, registered)
  BY <1>1, <1>2, <1>3, <1>4, Pushing, PushingUnmarked
<1> HIDE DEF t
<1>10. /\ stack' \in Seq(Frame) /\ StackOK(stack') /\ LoadsOK(stack', registered')
       /\ registered' \in [Module -> {"absent", "loading", "loaded"}]
  <2>1. CASE /\ registered[m] = "absent"
             /\ registered' = [registered EXCEPT ![m] = "loading"]
             /\ stack' = stack \o <<f, NewLoad(m)>>
    <3>1. NewLoad(m) \in Frame
      BY <1>5 DEF Frame
    <3>2. stack' = Append(t, NewLoad(m))
      BY <1>7, <2>1
    <3>3. StackOK(stack')
      BY <1>3, <1>5, <1>8, <1>9, <3>1, <3>2, Pushing
    <3>4. LoadsOK(stack', registered')
      BY <1>1, <1>5, <1>8, <1>9, <2>1, <3>2, PushingMarked
    <3>5. stack' \in Seq(Frame)
      BY <1>8, <3>1, <3>2, Appending
    <3> QED
      BY <1>1, <2>1, <3>3, <3>4, <3>5
  <2> QED
    BY <1>1, <1>6, <1>8, <1>9, <2>1
<1>11. calls' \in 0 .. MaxImports
  BY <1>1, ModuleLoaderAssumption DEF TypeOK, importAtRuntime
<1>12. TypeOK'
  BY <1>1, <1>10, <1>11 DEF TypeOK, Frame, importAtRuntime
<1>13. RunsOK'
  BY <1>1, SameRuns DEF importAtRuntime
<1> QED
  BY <1>10, <1>12, <1>13 DEF IInv

-----------------------------------------------------------------------------
(* The end of a load.                                                      *)

(* The mark goes with the load it belonged to.                             *)
LEMMA Unmarking ==
  ASSUME NEW s \in Seq(Frame), NEW t \in Seq(Frame),
         NEW r \in [Module -> {"absent", "loading", "loaded"}],
         LoadsOK(s, r), Begins(t, s), Len(t) < Len(s), s[Len(s)] \in LoadFrame,
         \A i \in 1 .. Len(s) - 1 : i > Len(t) => s[i].kind # "load"
  PROVE  LoadsOK(t, [r EXCEPT ![s[Len(s)].of] = "loaded"])
<1> DEFINE m == s[Len(s)].of
           q == [r EXCEPT ![m] = "loaded"]
<1>1. /\ Len(s) \in Nat \ {0} /\ Len(t) \in Nat /\ Len(t) < Len(s)
      /\ Len(s) \in 1 .. Len(s)
      /\ \A i \in 1 .. Len(t) : t[i].kind = s[i].kind /\ t[i].of = s[i].of
  BY DEF Begins
<1>2. s[Len(s)].kind = "load" /\ m \in Module
  BY DEF LoadFrame
<1>3. q[m] = "loaded" /\ \A n \in Module : n # m => q[n] = r[n]
  BY <1>2
<1>4. ASSUME NEW i \in 1 .. Len(t), t[i].kind = "load"
      PROVE  s[i].kind = "load" /\ s[i].of \in Module /\ s[i].of # m
  <2>1. i \in 1 .. Len(s) /\ i # Len(s) /\ s[i].kind = "load"
    BY <1>1, <1>4
  <2>2. s[i] \in LoadFrame
    BY <2>1, Kinds
  <2>3. s[i].of \in Module
    BY <2>2 DEF LoadFrame
  <2>4. s[i].of = s[Len(s)].of => i = Len(s)
    BY <1>1, <1>2, <2>1 DEF LoadsOK
  <2> QED
    BY <2>1, <2>3, <2>4
<1> HIDE DEF m, q
<1>5. \A i \in 1 .. Len(t) : t[i].kind = "load" => q[t[i].of] = "loading"
  BY <1>1, <1>3, <1>4 DEF LoadsOK
<1>6. ASSUME NEW i \in 1 .. Len(t), NEW j \in 1 .. Len(t),
             t[i].kind = "load", t[j].kind = "load", t[i].of = t[j].of
      PROVE  i = j
  <2>1. i \in 1 .. Len(s) /\ j \in 1 .. Len(s) /\ s[i].of = s[j].of
    BY <1>1, <1>6
  <2>2. s[i].kind = "load" /\ s[j].kind = "load"
    BY <1>1, <1>6
  <2> QED
    BY <2>1, <2>2 DEF LoadsOK
<1>7. ASSUME NEW n \in Module, q[n] = "loading"
      PROVE  \E i \in 1 .. Len(t) : t[i].kind = "load" /\ t[i].of = n
  <2>1. n # m /\ r[n] = "loading"
    BY <1>3, <1>7
  <2>2. PICK i \in 1 .. Len(s) : s[i].kind = "load" /\ s[i].of = n
    BY <2>1 DEF LoadsOK
  <2>3. i # Len(s)
    BY <2>1, <2>2 DEF m
  <2>4. i \in 1 .. Len(t)
    BY <1>1, <2>2, <2>3
  <2> QED
    BY <1>1, <2>2, <2>4
<1>8. LoadsOK(t, q)
  BY <1>5, <1>6, <1>7 DEF LoadsOK
<1> QED
  BY <1>8 DEF m, q

(* What the stack is when a load is over.                                  *)
LEMMA LoadEndsStack ==
  ASSUME TypeOK, StackOK(stack), LoadEnds
  PROVE  /\ Top \in LoadFrame /\ Top = stack[Len(stack)] /\ Len(stack) - 1 \in Nat \ {0}
         /\ Below \in Seq(Frame) /\ Below # <<>> /\ Len(Below) = Len(stack) - 1
         /\ stack[Depth - 1] = Below[Len(Below)] /\ Depth - 1 = Len(Below)
         /\ stack' \in Seq(Frame) /\ Begins(stack', stack)
         /\ \/ stack[Depth - 1] \in LoadFrame /\ Len(stack') = Len(stack) - 1
            \/ stack[Depth - 1] \in LoopFrame /\ Len(stack') \in {Len(stack) - 1, Len(stack) - 2}
<1> DEFINE n == Len(stack) - 1
<1>1. stack # <<>> /\ Top.kind = "load"
  BY DEF LoadEnds, TopIs
<1>2. /\ stack \in Seq(Frame) /\ stack[Len(stack)] = Top /\ Top \in LoadFrame
      /\ Len(stack) \in Nat \ {0} /\ Depth = Len(stack)
      /\ Below \in Seq(Frame) /\ Len(Below) = n
      /\ \A i \in 1 .. Len(stack) - 1 : Below[i] = stack[i]
  BY <1>1, TopFrame, Kinds
<1>3. Len(stack) # 1
  BY <1>1, <1>2 DEF StackOK
<1>4. Len(stack) \in 2 .. Len(stack) /\ n \in Nat \ {0} /\ n \in 1 .. n /\ Depth - 1 = n
      /\ n \in 1 .. Len(stack)
  BY <1>2, <1>3
<1>5. stack[n].kind \in {"load", "loop"}
  BY <1>1, <1>2, <1>4 DEF StackOK
<1>6. Below # <<>> /\ Below[n] = stack[n] /\ stack[n] \in Frame
  BY <1>2, <1>4
<1>7. Begins(Below, stack)
  BY <1>1, Leaving
<1> HIDE DEF n
<1>8. CASE stack[n].kind = "load"
  <2> DEFINE ok == Top.ok /\ program.verdict[Top.of] = "good"
             h == [stack[n] EXCEPT !.ok = @ /\ ok]
             t == [Below EXCEPT ![n] = h]
  <2>1. stack[n] \in LoadFrame
    BY <1>6, <1>8, Kinds
  <2>2. ok \in BOOLEAN
    OBVIOUS
  <2>3. stack' = t
    <3>1. stack' = [Below EXCEPT ![n].ok = @ /\ ok]
      BY <1>4, <1>8 DEF LoadEnds
    <3> HIDE DEF ok
    <3>2. [Below EXCEPT ![n].ok = @ /\ ok] = t
      BY <1>6
    <3> QED
      BY <3>1, <3>2
  <2> HIDE DEF ok
  <2>4. h \in LoadFrame /\ h.kind = "load" /\ h.of = stack[n].of
    <3>1. (stack[n].ok /\ ok) \in BOOLEAN
      OBVIOUS
    <3> DEFINE b == stack[n].ok /\ ok
    <3>2. h = [stack[n] EXCEPT !.ok = b] /\ b \in BOOLEAN
      BY <3>1
    <3> HIDE DEF b, h
    <3> QED
      BY <2>1, <3>2 DEF LoadFrame
  <2>5. h \in Frame
    BY <2>4 DEF Frame
  <2> HIDE DEF h
  <2>6. /\ t \in Seq(Frame) /\ Len(t) = n /\ t[n] = h
        /\ \A i \in 1 .. n : i # n => t[i] = stack[i]
    BY <1>2, <1>4, <2>5 DEF n
  <2> HIDE DEF t
  <2>7. ASSUME NEW i \in 1 .. n
        PROVE  /\ t[i].kind = stack[i].kind /\ t[i].of = stack[i].of
               /\ t[i].kind = "loop" => t[i].next \in Nat /\ t[i].next >= stack[i].next
    <3>1. CASE i = n
      BY <1>8, <2>4, <2>6, <3>1
    <3>2. CASE i # n
      <4>1. i \in 1 .. Len(stack)
        BY <1>4
      <4>2. t[i] = stack[i] /\ stack[i] \in Frame
        BY <1>2, <2>6, <3>2, <4>1
      <4>3. t[i].kind = "loop" => t[i].next \in Nat
        BY <4>2, Kinds DEF LoopFrame
      <4> QED
        BY <4>2, <4>3
    <3> QED
      BY <3>1, <3>2
  <2>8. Begins(t, stack)
    BY <1>2, <1>4, <2>6, <2>7 DEF Begins, n
  <2> QED
    BY <1>2, <1>4, <1>6, <2>1, <2>3, <2>6, <2>8 DEF n
<1>9. CASE stack[n].kind = "loop"
  <2>1. stack[n] \in LoopFrame
    BY <1>6, <1>9, Kinds
  <2>2. stack' = Below \/ stack' = SubSeq(stack, 1, Depth - 2)
    BY <1>4, <1>9 DEF LoadEnds
  <2>3. CASE stack' = Below
    BY <1>2, <1>4, <1>6, <1>7, <2>1, <2>3 DEF n
  <2>4. CASE stack' = SubSeq(stack, 1, Depth - 2)
    <3> DEFINE k == Depth - 2
    <3>1. k \in 0 .. Len(stack) /\ k = Len(stack) - 2 /\ k <= Len(stack)
      BY <1>2, <1>4
    <3>2. stack' = SubSeq(stack, 1, k)
      BY <2>4
    <3> HIDE DEF k
    <3>3. /\ stack' \in Seq(Frame) /\ Len(stack') = k
          /\ \A i \in 1 .. k : stack'[i] = stack[i]
      BY <1>2, <3>1, <3>2, Prefix
    <3>4. Begins(stack', stack)
      BY <1>2, <3>1, <3>3, PartBegins
    <3> QED
      BY <1>2, <1>4, <1>6, <2>1, <3>1, <3>3, <3>4 DEF n
  <2> QED
    BY <2>2, <2>3, <2>4
<1> QED
  BY <1>5, <1>8, <1>9

(* LoadEnds.                                                               *)
LEMMA LoadEndsKeeps == ASSUME IInv, LoadEnds PROVE IInv'
<1>1. /\ TypeOK /\ StackOK(stack) /\ LoadsOK(stack, registered) /\ RunsOK
      /\ stack \in Seq(Frame)
      /\ registered \in [Module -> {"absent", "loading", "loaded"}]
  BY DEF IInv, TypeOK, Frame
<1>2. /\ Top \in LoadFrame /\ Top = stack[Len(stack)] /\ Len(stack) - 1 \in Nat \ {0}
      /\ Depth - 1 = Len(stack) - 1
      /\ stack' \in Seq(Frame) /\ Begins(stack', stack)
      /\ \/ stack[Depth - 1] \in LoadFrame /\ Len(stack') = Len(stack) - 1
         \/ stack[Depth - 1] \in LoopFrame /\ Len(stack') \in {Len(stack) - 1, Len(stack) - 2}
  BY <1>1, LoadEndsStack
<1>3. StackOK(stack')
  BY <1>1, <1>2, BeginsWell
<1>4. ASSUME NEW i \in 1 .. Len(stack) - 1, i > Len(stack')
      PROVE  stack[i].kind # "load"
  <2>1. Len(stack) \in Nat /\ Len(stack') \in Nat
    BY <1>1, <1>2
  <2>2. i = Len(stack) - 1 /\ stack[Depth - 1] \in LoopFrame
    BY <1>2, <1>4, <2>1
  <2> QED
    BY <1>2, <2>2 DEF LoopFrame
<1>5. registered' = [registered EXCEPT ![stack[Len(stack)].of] = "loaded"]
  BY <1>2 DEF LoadEnds, Loaded
<1>6. LoadsOK(stack', registered')
  <2>1. Len(stack') < Len(stack)
    <3>1. Len(stack) \in Nat /\ Len(stack') \in Nat
      BY <1>1, <1>2
    <3> QED
      BY <1>2, <3>1
  <2> QED
    BY <1>1, <1>2, <1>4, <1>5, <2>1, Unmarking
<1>7. Top.of \in Module
  BY <1>2 DEF LoadFrame
<1>8. pending' \in Seq(Module) /\ registered' \in [Module -> {"absent", "loading", "loaded"}]
  <2>1. pending' = pending \/ pending' = Append(pending, Top.of)
    BY DEF LoadEnds, Queued
  <2>2. pending \in Seq(Module)
    BY <1>1 DEF TypeOK
  <2>3. pending' \in Seq(Module)
    BY <1>7, <2>1, <2>2
  <2>4. registered' \in [Module -> {"absent", "loading", "loaded"}]
    BY <1>1, <1>5
  <2> QED
    BY <2>3, <2>4
<1>9. phase' \in {phase, "failed"}
  BY DEF LoadEnds
<1>10. TypeOK'
  BY <1>1, <1>2, <1>8, <1>9 DEF TypeOK, Frame, LoadEnds
<1>11. RunsOK'
  BY <1>1, SameRuns DEF LoadEnds
<1> QED
  BY <1>3, <1>6, <1>10, <1>11 DEF IInv

-----------------------------------------------------------------------------
(* The initial state, and every state after it.                            *)

(* What the initial state has besides the stack is well-typed.             *)
LEMMA OtherTypes ==
  ASSUME program \in Program, registered \in [Module -> {"absent", "loading", "loaded"}],
         stack \in Seq(Frame), phase \in {"run", "failed"}, pending = <<>>,
         executed = {}, calls = 0, finished = {},
         view = [m \in Module |-> "none"], runs = [m \in Module |-> 0]
  PROVE  TypeOK
<1>1. view \in [Module -> {"none", "partial", "whole"}]
  OBVIOUS
<1>2. runs \in [Module -> Nat]
  OBVIOUS
<1>3. calls \in 0 .. MaxImports
  BY ModuleLoaderAssumption
<1>4. pending \in Seq(Module) /\ executed \subseteq Module /\ finished \subseteq Module
  OBVIOUS
<1> QED
  BY <1>1, <1>2, <1>3, <1>4 DEF TypeOK, Frame

(* Init.                                                                   *)
LEMMA InitKeeps == ASSUME Init PROVE IInv
<1>1. /\ program \in Program /\ Entry \in Module
      /\ registered \in [Module -> {"absent", "loading", "loaded"}]
  BY ModuleLoaderAssumption DEF Init
<1>2. RunsOK
  BY DEF Init, RunsOK
<1>3. CASE stack = <<>>
  <2>1. registered = [m \in Module |-> "absent"]
    BY <1>3 DEF Init
  <2>2. stack \in Seq(Frame) /\ Len(stack) = 0
    BY <1>3
  <2>3. StackOK(stack) /\ LoadsOK(stack, registered)
    BY <1>3, <2>1, <2>2 DEF StackOK, LoadsOK
  <2>4. /\ phase = "failed" /\ pending = <<>> /\ executed = {} /\ calls = 0 /\ finished = {}
        /\ view = [m \in Module |-> "none"] /\ runs = [m \in Module |-> 0]
    <3>1. <<NewLoop(NoModule, FALSE), NewLoad(Entry)>> # <<>>
      OBVIOUS
    <3> QED
      BY <1>3, <3>1 DEF Init
  <2>5. TypeOK
    BY <1>1, <2>2, <2>4, OtherTypes
  <2> QED
    BY <1>2, <2>3, <2>5 DEF IInv
<1>4. CASE stack # <<>>
  <2> DEFINE a == NewLoop(NoModule, FALSE)
             b == NewLoad(Entry)
             none == [m \in Module |-> "absent"]
             s == Append(<<>>, a)
  <2>1. /\ stack = <<a, b>>
        /\ registered = [m \in Module |-> IF m = Entry THEN "loading" ELSE "absent"]
    BY <1>4 DEF Init
  <2>2. a \in LoopFrame /\ a.kind = "loop" /\ a.next = 1
    BY DEF NewLoop, LoopFrame
  <2>3. b \in LoadFrame /\ b.kind = "load" /\ b.of = Entry
    BY <1>1 DEF NewLoad, LoadFrame, Program
  <2>4. a \in Frame /\ b \in Frame
    BY <2>2, <2>3 DEF Frame
  <2> HIDE DEF a, b
  <2>5. registered = [none EXCEPT ![Entry] = "loading"]
    BY <1>1, <2>1
  <2>6. /\ none \in [Module -> {"absent", "loading", "loaded"}] /\ none[Entry] = "absent"
        /\ \A m \in Module : none[m] = "absent"
    BY <1>1
  <2> HIDE DEF none
  <2>7. <<>> \in Seq(Frame) /\ Len(<<>>) = 0
    OBVIOUS
  <2>8. StackOK(<<>>) /\ LoadsOK(<<>>, none)
    BY <2>6, <2>7 DEF StackOK, LoadsOK
  <2>9. s \in Seq(Frame) /\ s # <<>> /\ s[Len(s)] = a
    BY <2>4, <2>7
  <2>10. StackOK(s) /\ LoadsOK(s, none)
    BY <2>2, <2>4, <2>7, <2>8, Pushing, PushingUnmarked
  <2>11. stack = Append(s, b)
    BY <2>1, <2>4
  <2> HIDE DEF s
  <2>12. StackOK(stack) /\ LoadsOK(stack, registered)
    BY <2>2, <2>3, <2>4, <2>5, <2>6, <2>9, <2>10, <2>11, Pushing, PushingMarked
  <2>13. stack \in Seq(Frame)
    BY <2>4, <2>9, <2>11
  <2>14. phase = "run" /\ pending = <<>> /\ executed = {} /\ calls = 0 /\ finished = {}
         /\ view = [m \in Module |-> "none"] /\ runs = [m \in Module |-> 0]
    BY <1>4 DEF Init
  <2>15. TypeOK
    BY <1>1, <2>13, <2>14, OtherTypes
  <2> QED
    BY <1>2, <2>12, <2>15 DEF IInv
<1> QED
  BY <1>3, <1>4

(* Any step.                                                               *)
LEMMA StepKeeps == ASSUME IInv, [Next]_vars PROVE IInv'
<1>1. CASE UNCHANGED vars
  <2>1. IInv' = IInv
    BY <1>1 DEF vars, IInv, TypeOK, StackOK, LoadsOK, RunsOK
  <2> QED
    BY <2>1
<1>2. CASE Loader
  BY <1>2, LoadImportKeeps, LoadEndsKeeps, SkipKeeps, RefuseKeeps, EnterKeeps, QueueDoneKeeps
     DEF Loader
<1>3. CASE Code
  BY <1>3, CodeKeeps, ImportKeeps DEF Code
<1> QED
  BY <1>1, <1>2, <1>3 DEF Next

(* The invariant of the loader: the stack is made of loads on loops and of *)
(* bodies on loops, each module marked as loading has one load on it, and  *)
(* a body that was entered has its flag.                                   *)
THEOREM Invariance == Spec => []IInv
<1>1. Init => IInv
  BY InitKeeps
<1>2. IInv /\ [Next]_vars => IInv'
  BY StepKeeps
<1> QED
  BY <1>1, <1>2, PTL DEF Spec

(* A module's body is entered at most once, whatever imports it and when   *)
(* (csVMRunPendingModules, importAtRuntime).                               *)
THEOREM BodiesRunOnce == Spec => []RunsOnce
<1>1. IInv => RunsOnce
  BY DEF IInv, RunsOK, RunsOnce
<1> QED
  BY <1>1, Invariance, PTL

(* Only a module with a load under way is marked as loading, so that only  *)
(* an import cycle is reported as one (csModuleLoadResolved).              *)
THEOREM CyclesAreReal == Spec => []NoFalseCycle
<1>1. IInv => NoFalseCycle
  BY DEF IInv, LoadsOK, NoFalseCycle, Depth
<1> QED
  BY <1>1, Invariance, PTL

-----------------------------------------------------------------------------
(* A program that has not called import().                                 *)

(* A load under way that will end badly.                                   *)
Failing == \E i \in 1 .. Len(stack) : stack[i].kind = "load" /\ ~stack[i].ok

Waits(m) == \E k \in 1 .. Len(pending) : pending[k] = m

(* A module in the queue stands behind all it imports.                     *)
InOrder ==
  \A k \in 1 .. Len(pending) : \A d \in program.imports[pending[k]] :
    \E j \in 1 .. Len(pending) : j < k /\ pending[j] = d

(* What a load has been through is in the queue, or is loading above it.   *)
LoadedSoFar ==
  \A i \in 1 .. Len(stack) : stack[i].kind = "load" =>
    \A d \in program.imports[stack[i].of] \ stack[i].left :
      Waits(d) \/ (i < Len(stack) /\ stack[i + 1].of = d)

QueueOK ==
  \/ Failing
  \/ /\ InOrder /\ LoadedSoFar
     /\ \A m \in Module : registered[m] = "loaded" => Waits(m)

(* The program's own loop, at the bottom, is the only one; it has run what *)
(* it passed, and does not begin before the loads are over.                *)
Bottom ==
  /\ \A i \in 2 .. Len(stack) : stack[i].kind # "loop"
  /\ stack[1].of = NoModule /\ ~stack[1].caught
  /\ (\E i \in 1 .. Len(stack) : stack[i].kind = "load") => stack[1].next = 1
  /\ \A k \in 1 .. Len(pending) : k < stack[1].next => pending[k] \in finished

(* The body it runs, if there is one.                                      *)
TheBody ==
  /\ \A m \in executed :
       m \in finished \/ (Len(stack) = 2 /\ stack[2].kind = "body" /\ stack[2].of = m)
  /\ Len(stack) >= 2 /\ stack[2].kind = "body" =>
       /\ stack[1].next <= Len(pending) /\ pending[stack[1].next] = stack[2].of
       /\ stack[2].doing = "over" /\ stack[2].ok => stack[2].of \in finished

StaticOK ==
  /\ DependencyOrder
  /\ phase \in {"events", "exit"} => Entry \in finished
  /\ stack # <<>> => registered[Entry] # "absent" /\ QueueOK /\ Bottom /\ TheBody

IStatic == calls = 0 => StaticOK

(* Small lengths.                                                          *)
LEMMA Small ==
  ASSUME NEW n \in Nat \ {0}
  PROVE  /\ n \notin 2 .. n => n = 1
         /\ n - 1 \in Nat \ {0} /\ n - 1 \notin 2 .. n => n = 2
         /\ n # 1 => n >= 2 /\ n - 1 \in 1 .. n
         /\ n \in 1 .. n
OBVIOUS

(* With a loop on top, it is the program's own and all there is.           *)
LEMMA OneLoop ==
  ASSUME IInv, stack # <<>> => Bottom, TopIs("loop")
  PROVE  /\ Len(stack) = 1 /\ stack[1] = Top /\ stack \in Seq(Frame)
         /\ \A i \in 1 .. Len(stack) : stack[i].kind # "load"
<1>1. stack # <<>> /\ Top.kind = "loop" /\ TypeOK /\ StackOK(stack)
  BY DEF TopIs, IInv
<1>2. stack \in Seq(Frame) /\ Len(stack) \in Nat \ {0} /\ Top = stack[Len(stack)]
  BY <1>1, TopFrame
<1>3. Len(stack) \notin 2 .. Len(stack)
  BY <1>1, <1>2 DEF Bottom
<1>4. Len(stack) = 1
  BY <1>2, <1>3, Small, Zenon
<1> QED
  BY <1>1, <1>2, <1>4, NoLoads

(* With a body on top, it stands on that loop.                             *)
LEMMA OneBody ==
  ASSUME IInv, stack # <<>> => Bottom, TopIs("body")
  PROVE  /\ Len(stack) = 2 /\ stack[2] = Top /\ stack \in Seq(Frame) /\ stack[1].kind = "loop"
         /\ Top \in BodyFrame
         /\ \A i \in 1 .. Len(stack) : stack[i].kind # "load"
<1>1. stack # <<>> /\ Top.kind = "body" /\ TypeOK /\ StackOK(stack)
  BY DEF TopIs, IInv
<1>2. /\ stack \in Seq(Frame) /\ Len(stack) \in Nat \ {0} /\ Top = stack[Len(stack)]
      /\ Top \in BodyFrame
  BY <1>1, TopFrame, Kinds
<1>3. /\ Len(stack) - 1 \in Nat \ {0} /\ stack[Len(stack) - 1].kind = "loop"
  BY <1>1, UnderBody DEF LoopFrame
<1>4. Len(stack) - 1 \notin 2 .. Len(stack)
  BY <1>1, <1>2, <1>3 DEF Bottom
<1>5. Len(stack) = 2
  BY <1>2, <1>3, <1>4, Small, Zenon
<1>6. Len(stack) - 1 = 1
  BY <1>5
<1> QED
  BY <1>1, <1>2, <1>3, <1>5, <1>6, NoLoads

(* With a load on top, the program has not begun.                          *)
LEMMA NoBody ==
  ASSUME IInv, stack # <<>> => Bottom, TopIs("load")
  PROVE  /\ Len(stack) \in Nat /\ Len(stack) >= 2 /\ stack[Len(stack)] = Top
         /\ stack \in Seq(Frame) /\ Top \in LoadFrame
         /\ stack[1].next = 1
         /\ \A i \in 1 .. Len(stack) : stack[i].kind # "body"
<1>1. stack # <<>> /\ Top.kind = "load" /\ TypeOK /\ StackOK(stack)
  BY DEF TopIs, IInv
<1>2. /\ stack \in Seq(Frame) /\ Len(stack) \in Nat \ {0} /\ Top = stack[Len(stack)]
      /\ Top \in LoadFrame
  BY <1>1, TopFrame, Kinds
<1>3. Len(stack) # 1
  BY <1>1, <1>2 DEF StackOK
<1>4. ASSUME NEW i \in 1 .. Len(stack), stack[i].kind = "body"
      PROVE  FALSE
  <2>1. i + 1 \in 2 .. Len(stack) /\ (i + 1) - 1 = i
    BY <1>1, <1>2, <1>4
  <2> DEFINE j == i + 1
  <2> HIDE DEF j
  <2>2. j \in 2 .. Len(stack) /\ j - 1 = i
    BY <2>1 DEF j
  <2>3. stack[j] \in Frame
    BY <1>2, <2>2
  <2>4. stack[j].kind \in {"load", "loop", "body"} /\ stack[j].kind # "loop"
    BY <1>1, <2>2, <2>3, Kinds DEF Bottom
  <2> QED
    BY <1>1, <1>4, <2>2, <2>4 DEF StackOK
<1>5. stack[1].next = 1
  <2>1. Len(stack) \in 1 .. Len(stack)
    BY <1>2
  <2> QED
    BY <1>1, <1>2, <2>1 DEF Bottom
<1>6. Len(stack) >= 2
  BY <1>2, <1>3, Small, Zenon
<1> QED
  BY <1>2, <1>4, <1>5, <1>6

(* The order of the bodies stays as long as none is entered.               *)
LEMMA OrderStays ==
  ASSUME DependencyOrder, program' = program, runs' = runs, finished \subseteq finished'
  PROVE  DependencyOrder'
BY DEF DependencyOrder, Began

(* An error ends the program.                                              *)
LEMMA StaticTravels ==
  ASSUME IInv, StaticOK, Travels, program' = program, runs' = runs, finished' = finished
  PROVE  StaticOK'
<1>1. stack' = <<>> \/ \E i \in 1 .. Len(stack) : stack[i].kind = "loop" /\ stack[i].caught
  BY TravelsDown DEF IInv
<1>2. phase' \in {phase, "failed"}
  BY TravelsDown DEF IInv
<1>3. ASSUME NEW i \in 1 .. Len(stack), stack[i].kind = "loop", stack[i].caught
      PROVE  FALSE
  <2>1. stack # <<>> /\ Bottom /\ stack \in Seq(Frame)
    BY DEF StaticOK, IInv, TypeOK, Frame
  <2>2. i \in 2 .. Len(stack) \/ i = 1
    BY <2>1
  <2> QED
    BY <1>3, <2>1, <2>2 DEF Bottom
<1>4. stack' = <<>>
  BY <1>1, <1>3
<1>5. DependencyOrder'
  BY OrderStays DEF StaticOK
<1> QED
  BY <1>2, <1>4, <1>5 DEF StaticOK

(* When nothing is loading, the queue is in order and has all there is.    *)
LEMMA QueueReady ==
  ASSUME QueueOK, \A i \in 1 .. Len(stack) : stack[i].kind # "load"
  PROVE  InOrder /\ \A m \in Module : registered[m] = "loaded" => Waits(m)
BY DEF QueueOK, Failing

(* It stays so until something is loaded.                                  *)
LEMMA QueueSame ==
  ASSUME InOrder, \A m \in Module : registered[m] = "loaded" => Waits(m),
         \A i \in 1 .. Len(stack') : stack'[i].kind # "load",
         program' = program, registered' = registered, pending' = pending
  PROVE  QueueOK'
BY DEF QueueOK, InOrder, LoadedSoFar, Waits

(* A loop that has gone on by one entry.                                   *)
LEMMA NextLoop ==
  ASSUME NEW f \in LoopFrame, NEW g, g = [f EXCEPT !.next = @ + 1]
  PROVE  /\ g \in LoopFrame /\ g.kind = "loop"
         /\ g.of = f.of /\ g.caught = f.caught
         /\ f.next \in Nat /\ g.next = f.next + 1
BY DEF LoopFrame

(* A stack of the program's loop alone, which has gone on by one entry     *)
(* that is finished.                                                       *)
LEMMA LoopAlone ==
  ASSUME IInv, StaticOK, stack # <<>>, stack' \in Seq(Frame),
         \A i \in 1 .. Len(stack) : stack[i].kind # "load",
         stack[1] \in LoopFrame, stack[1].next <= Len(pending),
         pending[stack[1].next] \in finished',
         Len(stack') = 1, stack'[1] = [stack[1] EXCEPT !.next = @ + 1],
         executed \subseteq finished', finished \subseteq finished',
         program' = program, registered' = registered, pending' = pending,
         executed' = executed, phase' = phase, runs' = runs
  PROVE  StaticOK'
<1>1. /\ DependencyOrder /\ (phase \in {"events", "exit"} => Entry \in finished)
      /\ registered[Entry] # "absent" /\ QueueOK /\ Bottom /\ TheBody
  BY DEF StaticOK
<1>2. DependencyOrder'
  BY <1>1, OrderStays
<1>3. /\ stack'[1] \in LoopFrame /\ stack'[1].kind = "loop"
      /\ stack'[1].of = stack[1].of /\ stack'[1].caught = stack[1].caught
      /\ stack[1].next \in Nat /\ stack'[1].next = stack[1].next + 1
  BY NextLoop
<1>4. \A i \in 1 .. Len(stack') : i = 1
  OBVIOUS
<1>5. QueueOK'
  <2>1. \A i \in 1 .. Len(stack') : stack'[i].kind # "load"
    BY <1>3, <1>4
  <2>2. InOrder /\ \A m \in Module : registered[m] = "loaded" => Waits(m)
    BY <1>1, QueueReady
  <2> QED
    BY <2>1, <2>2, QueueSame
<1>6. Bottom'
  <2>1. \A i \in 2 .. Len(stack') : stack'[i].kind # "loop"
    OBVIOUS
  <2>2. stack'[1].of = NoModule /\ ~stack'[1].caught
    BY <1>1, <1>3 DEF Bottom
  <2>3. ~ \E i \in 1 .. Len(stack') : stack'[i].kind = "load"
    BY <1>3, <1>4
  <2>4. ASSUME NEW k \in 1 .. Len(pending'), k < stack'[1].next
        PROVE  pending'[k] \in finished'
    <3>1. k < stack[1].next \/ k = stack[1].next
      BY <1>3, <2>4
    <3>2. k < stack[1].next => pending[k] \in finished
      BY <1>1 DEF Bottom
    <3> QED
      BY <3>1, <3>2
  <2> QED
    BY <2>1, <2>2, <2>3, <2>4 DEF Bottom
<1>7. TheBody'
  BY DEF TheBody
<1> QED
  BY <1>1, <1>2, <1>5, <1>6, <1>7 DEF StaticOK

(* SkipExecuted.                                                           *)
LEMMA SkipStatic == ASSUME IInv, StaticOK, SkipExecuted PROVE StaticOK'
<1>1. TypeOK /\ StackOK(stack) /\ TopIs("loop") /\ InQueue /\ stack # <<>>
  BY DEF IInv, SkipExecuted, InQueue, TopIs
<1>2. /\ Len(stack) = 1 /\ stack[1] = Top /\ stack \in Seq(Frame)
      /\ \A i \in 1 .. Len(stack) : stack[i].kind # "load"
  BY <1>1, OneLoop DEF StaticOK
<1>3. /\ Entered \in Module /\ Top \in LoopFrame
      /\ Top.next \in 1 .. Len(pending) /\ Entered = pending[Top.next]
  BY <1>1, EnteredIs
<1>4. executed \subseteq finished
  BY <1>1, <1>2 DEF StaticOK, TheBody
<1>5. /\ stack' \in Seq(Frame) /\ Len(stack') = 1
      /\ stack'[1] = [stack[1] EXCEPT !.next = @ + 1]
  BY <1>1, <1>2, <1>3, LoopGoesOn DEF SkipExecuted
<1>6. pending[stack[1].next] \in finished
  BY <1>2, <1>3, <1>4 DEF SkipExecuted
<1>7. stack[1].next <= Len(pending) /\ stack[1] \in LoopFrame
  BY <1>1, <1>2, <1>3 DEF InQueue
<1> QED
  BY <1>1, <1>2, <1>4, <1>5, <1>6, <1>7, LoopAlone DEF SkipExecuted

(* RefuseAwaiting: only an import() is refused.                            *)
LEMMA RefuseStatic == ASSUME IInv, StaticOK, RefuseAwaiting PROVE StaticOK'
<1>1. TopIs("loop") /\ stack # <<>> /\ Top.of # NoModule
  BY DEF RefuseAwaiting, InQueue, TopIs
<1>2. stack[1] = Top /\ Bottom
  BY <1>1, OneLoop DEF StaticOK
<1> QED
  BY <1>1, <1>2 DEF Bottom

(* QueueDone: nothing was left out.                                        *)
LEMMA QueueDoneStatic == ASSUME IInv, StaticOK, QueueDone PROVE StaticOK'
<1>1. TypeOK /\ StackOK(stack) /\ LoadsOK(stack, registered) /\ TopIs("loop") /\ stack # <<>>
  BY DEF IInv, QueueDone, TopIs
<1>2. /\ Len(stack) = 1 /\ stack[1] = Top /\ stack \in Seq(Frame)
      /\ \A i \in 1 .. Len(stack) : stack[i].kind # "load"
  BY <1>1, OneLoop DEF StaticOK
<1>3. DependencyOrder /\ registered[Entry] # "absent" /\ QueueOK /\ Bottom
  BY <1>1 DEF StaticOK
<1>4. DependencyOrder'
  BY <1>3, OrderStays DEF QueueDone
<1>5. stack' = <<>>
  <2>1. stack' \in Seq(Frame) /\ Len(stack') = 0
    BY <1>1, <1>2, TopFrame DEF QueueDone
  <2> QED
    BY <2>1
<1>6. Waits(Entry)
  <2>1. Entry \in Module /\ registered[Entry] # "loading"
    BY <1>1, <1>2, ModuleLoaderAssumption DEF LoadsOK
  <2>2. registered[Entry] = "loaded"
    BY <1>1, <1>3, <2>1 DEF TypeOK
  <2> QED
    BY <1>2, <1>3, <2>1, <2>2, QueueReady
<1>7. Entry \in finished
  <2>1. PICK k \in 1 .. Len(pending) : pending[k] = Entry
    BY <1>6 DEF Waits
  <2>2. stack[1].next \in Nat
    BY <1>1, <1>2, Kinds DEF LoopFrame, TopIs
  <2>3. k < stack[1].next
    <3>1. Len(pending) \in Nat /\ stack[1].next > Len(pending)
      BY <1>1, <1>2 DEF QueueDone, TypeOK
    <3> QED
      BY <2>2, <3>1
  <2> QED
    BY <1>3, <2>1, <2>3 DEF Bottom
<1> QED
  BY <1>4, <1>5, <1>7 DEF StaticOK, QueueDone


(* A frame on a single one.                                                *)
LEMMA OnAlone ==
  ASSUME NEW S, NEW s \in Seq(S), Len(s) = 1, NEW b \in S, NEW t, t = Append(s, b)
  PROVE  t \in Seq(S) /\ Len(t) = 2 /\ t[1] = s[1] /\ t[2] = b
<1>1. /\ Append(s, b) \in Seq(S)
      /\ Len(Append(s, b)) = Len(s) + 1
      /\ \A i \in 1 .. Len(s) : Append(s, b)[i] = s[i]
      /\ Append(s, b)[Len(s) + 1] = b
  BY Appending, Zenon
<1>2. /\ t \in Seq(S) /\ Len(t) = Len(s) + 1
      /\ \A i \in 1 .. Len(s) : t[i] = s[i]
      /\ t[Len(s) + 1] = b
  BY <1>1, t = Append(s, b), Zenon
<1>3. 1 \in 1 .. Len(s) /\ Len(s) + 1 = 2
  OBVIOUS
<1> QED
  BY <1>2, <1>3, Zenon

(* EnterBody: what the body imports has run.                               *)
LEMMA EnterStatic == ASSUME IInv, StaticOK, EnterBody PROVE StaticOK'
<1> DEFINE e == Entered
<1>1. TypeOK /\ StackOK(stack) /\ TopIs("loop") /\ InQueue /\ stack # <<>>
  BY DEF IInv, EnterBody, InQueue, TopIs
<1>2. /\ Len(stack) = 1 /\ stack[1] = Top /\ stack \in Seq(Frame)
      /\ \A i \in 1 .. Len(stack) : stack[i].kind # "load"
  BY <1>1, OneLoop DEF StaticOK
<1>3. /\ e \in Module /\ Top \in LoopFrame
      /\ Top.next \in 1 .. Len(pending) /\ e = pending[Top.next]
  BY <1>1, EnteredIs
<1>4. /\ DependencyOrder /\ (phase \in {"events", "exit"} => Entry \in finished)
      /\ registered[Entry] # "absent" /\ QueueOK /\ Bottom /\ TheBody
  BY <1>1 DEF StaticOK
<1>5. InOrder /\ \A m \in Module : registered[m] = "loaded" => Waits(m)
  BY <1>2, <1>4, QueueReady
<1>6. /\ executed' = executed \cup {e} /\ stack' = Append(stack, NewBody(e))
      /\ runs' = [runs EXCEPT ![e] = @ + 1]
      /\ program' = program /\ registered' = registered /\ pending' = pending
      /\ phase' = phase /\ finished' = finished
  BY DEF EnterBody
<1>7. program.imports[e] \subseteq finished
  <2>1. ASSUME NEW d \in program.imports[e]
        PROVE  d \in finished
    <3>1. PICK j \in 1 .. Len(pending) : j < Top.next /\ pending[j] = d
      BY <1>3, <1>5 DEF InOrder
    <3> QED
      BY <1>2, <1>4, <3>1 DEF Bottom
  <2> QED
    BY <2>1
<1> HIDE DEF e
<1>8. DependencyOrder'
  <2>1. ASSUME NEW m \in Module, m # e, Began(m)'
        PROVE  Began(m)
    BY <1>1, <1>3, <1>6, <2>1 DEF Began, TypeOK
  <2> QED
    BY <1>4, <1>6, <1>7, <2>1 DEF DependencyOrder
<1>9. NewBody(e) \in Frame /\ NewBody(e).kind = "body" /\ NewBody(e).of = e
      /\ NewBody(e).doing = "running"
  BY <1>3 DEF NewBody, BodyFrame, Frame
<1>10. stack' \in Seq(Frame) /\ Len(stack') = 2 /\ stack'[1] = stack[1]
       /\ stack'[2] = NewBody(e)
  <2> DEFINE b == NewBody(e)
  <2>1. stack' = Append(stack, b) /\ b \in Frame
    BY <1>6, <1>9
  <2> HIDE DEF b
  <2>2. stack \in Seq(Frame) /\ Len(stack) = 1
    BY <1>2
  <2>3. stack' \in Seq(Frame) /\ Len(stack') = 2 /\ stack'[1] = stack[1] /\ stack'[2] = b
    BY <2>1, <2>2, OnAlone
  <2> QED
    BY <2>3 DEF b
<1>11. stack[1].kind = "loop" /\ \A i \in 1 .. Len(stack') : i = 1 \/ i = 2
  BY <1>2, <1>3, <1>10 DEF LoopFrame
<1>12. \A i \in 1 .. Len(stack') : stack'[i].kind # "load"
  BY <1>9, <1>10, <1>11
<1>13. QueueOK'
  BY <1>5, <1>6, <1>12, QueueSame
<1>14. Bottom'
  <2>1. \A i \in 2 .. Len(stack') : i = 2
    BY <1>10
  <2>2. \A i \in 2 .. Len(stack') : stack'[i].kind # "loop"
    BY <1>9, <1>10, <2>1
  <2> QED
    BY <1>4, <1>6, <1>10, <1>12, <2>2 DEF Bottom
<1>15. TheBody'
  <2>1. executed \subseteq finished
    BY <1>2, <1>4 DEF TheBody
  <2>2. \A m \in executed' : m \in finished' \/ m = e
    BY <1>6, <2>1
  <2>3. stack'[1].next <= Len(pending') /\ pending'[stack'[1].next] = e
    BY <1>2, <1>3, <1>6, <1>10
  <2> QED
    BY <1>9, <1>10, <2>2, <2>3 DEF TheBody
<1> QED
  BY <1>4, <1>6, <1>8, <1>13, <1>14, <1>15 DEF StaticOK

(* A body that goes on on its loop.                                        *)
LEMMA BodyGoesOn ==
  ASSUME IInv, StaticOK, TopIs("body"), NEW f \in BodyFrame, f.of = Top.of,
         stack' = WithTop(f), finished \subseteq finished',
         f.doing = "over" /\ f.ok => f.of \in finished',
         program' = program, registered' = registered, pending' = pending,
         executed' = executed, phase' = phase, runs' = runs
  PROVE  StaticOK'
<1>1. TypeOK /\ stack # <<>> /\ Top.kind = "body" /\ f \in Frame /\ f.kind = "body"
  BY DEF IInv, TopIs, Frame, BodyFrame
<1>2. /\ DependencyOrder /\ (phase \in {"events", "exit"} => Entry \in finished)
      /\ registered[Entry] # "absent" /\ QueueOK /\ Bottom /\ TheBody
  BY <1>1 DEF StaticOK
<1>3. /\ Len(stack) = 2 /\ stack[2] = Top /\ stack \in Seq(Frame) /\ stack[1].kind = "loop"
      /\ \A i \in 1 .. Len(stack) : stack[i].kind # "load"
  BY <1>2, OneBody
<1>4. /\ Len(stack') = 2 /\ stack'[2] = f /\ stack'[1] = stack[1]
  <2>1. 1 \in 1 .. Len(stack) - 1
    BY <1>3
  <2> QED
    BY <1>1, <1>3, <2>1, TopChanges
<1>5. \A i \in 1 .. Len(stack') : i = 1 \/ i = 2
  BY <1>4
<1>6. \A i \in 1 .. Len(stack') : stack'[i].kind # "load"
  BY <1>1, <1>3, <1>4, <1>5
<1>7. QueueOK'
  BY <1>2, <1>3, <1>6, QueueReady, QueueSame
<1>8. DependencyOrder'
  BY <1>2, OrderStays
<1>9. Bottom'
  <2>1. \A i \in 2 .. Len(stack') : i = 2
    BY <1>4
  <2>2. \A i \in 2 .. Len(stack') : stack'[i].kind # "loop"
    BY <1>1, <1>4, <2>1
  <2> QED
    BY <1>2, <1>4, <1>6, <2>2 DEF Bottom
<1>10. TheBody'
  BY <1>1, <1>2, <1>3, <1>4 DEF TheBody
<1> QED
  BY <1>2, <1>7, <1>8, <1>9, <1>10 DEF StaticOK

(* A body that is over, and its loop that goes on.                         *)
LEMMA BodyIsOver ==
  ASSUME IInv, StaticOK, TopIs("body"), stack' = NextEntry(Below),
         Top.of \in finished', finished \subseteq finished',
         program' = program, registered' = registered, pending' = pending,
         executed' = executed, phase' = phase, runs' = runs
  PROVE  StaticOK'
<1>1. TypeOK /\ StackOK(stack) /\ stack # <<>> /\ Top.kind = "body"
  BY DEF IInv, TopIs
<1>2. Bottom /\ TheBody
  BY <1>1 DEF StaticOK
<1>3. /\ Len(stack) = 2 /\ stack[2] = Top /\ stack \in Seq(Frame) /\ stack[1].kind = "loop"
      /\ \A i \in 1 .. Len(stack) : stack[i].kind # "load"
  BY <1>2, OneBody
<1>4. /\ Below # <<>> /\ Below \in Seq(Frame) /\ Len(Below) = 1
      /\ Below[Len(Below)] = stack[1] /\ Below[Len(Below)] \in LoopFrame
  BY <1>1, <1>3, UnderBody, TopFrame
<1>5. /\ stack' \in Seq(Frame) /\ Len(stack') = 1
      /\ stack'[1] = [stack[1] EXCEPT !.next = @ + 1] /\ stack[1] \in LoopFrame
  BY <1>4, LoopGoesOn
<1>6. stack[1].next <= Len(pending) /\ pending[stack[1].next] \in finished'
  BY <1>1, <1>2, <1>3 DEF TheBody
<1>7. executed \subseteq finished'
  BY <1>2, <1>3 DEF TheBody
<1> QED
  BY <1>1, <1>3, <1>5, <1>6, <1>7, LoopAlone


(* The steps of program code other than import().                          *)
LEMMA CodeStatic ==
  ASSUME IInv, StaticOK, BodyReturns \/ BodyFails \/ BodyAwaits \/ BodyResumes
                         \/ runBodyAsync \/ CallbackFails \/ ProgramEnds
  PROVE  StaticOK'
<1> DEFINE over == [Top EXCEPT !.doing = "over"]
           failed == [Top EXCEPT !.doing = "over", !.ok = FALSE]
           waiting == [Top EXCEPT !.doing = "waiting"]
           resumed == [Top EXCEPT !.doing = "resumed"]
<1>1. TypeOK /\ (stack # <<>> => Bottom)
  BY DEF IInv, StaticOK
<1>2. ASSUME TopIs("body")
      PROVE  /\ Top \in BodyFrame
             /\ over \in BodyFrame /\ over.of = Top.of
             /\ failed \in BodyFrame /\ failed.of = Top.of /\ ~failed.ok
             /\ waiting \in BodyFrame /\ waiting.of = Top.of /\ waiting.doing = "waiting"
             /\ resumed \in BodyFrame /\ resumed.of = Top.of /\ resumed.doing = "resumed"
  <2>1. Top \in BodyFrame
    BY <1>1, <1>2, TopFrame, Kinds DEF TopIs
  <2> QED
    BY <2>1 DEF BodyFrame
<1> HIDE DEF over, failed, waiting, resumed
<1>3. CASE BodyReturns
  <2>1. TopIs("body") /\ Top.of \in finished' /\ finished \subseteq finished'
    BY <1>3 DEF BodyReturns, BodyRuns
  <2>2. CASE Awaits(Top.of)
    <3>1. stack' = WithTop(over)
      BY <1>3, <2>2 DEF BodyReturns, over
    <3> QED
      BY <1>2, <1>3, <2>1, <3>1, BodyGoesOn DEF BodyReturns
  <2>3. CASE ~Awaits(Top.of)
    <3>1. stack' = NextEntry(Below)
      BY <1>3, <2>3 DEF BodyReturns
    <3> QED
      BY <1>3, <2>1, <3>1, BodyIsOver DEF BodyReturns
  <2> QED
    BY <2>2, <2>3
<1>4. CASE BodyFails
  <2>1. TopIs("body")
    BY <1>4 DEF BodyFails, BodyRuns
  <2>2. CASE Awaits(Top.of)
    <3>1. stack' = WithTop(failed) /\ pending' = pending /\ phase' = phase
      BY <1>4, <2>2 DEF BodyFails, failed
    <3> QED
      BY <1>2, <1>4, <2>1, <3>1, BodyGoesOn DEF BodyFails
  <2>3. CASE ~Awaits(Top.of)
    BY <1>4, <2>3, StaticTravels DEF BodyFails
  <2> QED
    BY <2>2, <2>3
<1>5. CASE BodyAwaits
  <2>1. TopIs("body") /\ stack' = WithTop(waiting)
    BY <1>5 DEF BodyAwaits, waiting
  <2> QED
    BY <1>2, <1>5, <2>1, BodyGoesOn DEF BodyAwaits
<1>6. CASE BodyResumes
  <2>1. TopIs("body") /\ stack' = WithTop(resumed)
    BY <1>6 DEF BodyResumes, resumed
  <2> QED
    BY <1>2, <1>6, <2>1, BodyGoesOn DEF BodyResumes
<1>7. CASE runBodyAsync
  <2>1. CASE Top.doing = "over" /\ Top.ok
    <3>1. TopIs("body") /\ stack # <<>> /\ stack' = NextEntry(Below)
          /\ pending' = pending /\ phase' = phase
      BY <1>7, <2>1 DEF runBodyAsync, TopIs
    <3>2. Len(stack) = 2 /\ stack[2] = Top /\ Top.kind = "body" /\ TheBody
      BY <1>1, <3>1, OneBody DEF StaticOK, TopIs
    <3>3. Top.of \in finished
      BY <2>1, <3>2 DEF TheBody
    <3> QED
      BY <1>7, <3>1, <3>3, BodyIsOver DEF runBodyAsync
  <2>2. CASE ~(Top.doing = "over" /\ Top.ok)
    BY <1>7, <2>2, StaticTravels DEF runBodyAsync
  <2> QED
    BY <2>1, <2>2
<1>8. CASE CallbackFails
  BY <1>8, StaticTravels DEF CallbackFails
<1>9. CASE ProgramEnds
  <2>1. stack' = <<>> /\ phase = "events" /\ DependencyOrder'
    BY <1>9, OrderStays DEF ProgramEnds, StaticOK
  <2> QED
    BY <1>9, <2>1 DEF ProgramEnds, StaticOK
<1> QED
  BY <1>3, <1>4, <1>5, <1>6, <1>7, <1>8, <1>9


(* While files load, the program's loop has not begun.                     *)
LEMMA StillLoading ==
  ASSUME Bottom, TheBody, stack' \in Seq(Frame), Len(stack') >= 1,
         \A i \in 1 .. Len(stack) : stack[i].kind # "body",
         stack[1].next = 1, stack'[1] = stack[1], stack[1].kind = "loop", Len(stack) >= 1,
         \A i \in 2 .. Len(stack') : stack'[i].kind = "load",
         executed' = executed, finished' = finished
  PROVE  Bottom' /\ TheBody'
<1>1. \A i \in 2 .. Len(stack') : stack'[i].kind # "loop"
  OBVIOUS
<1>2. stack'[1].of = NoModule /\ ~stack'[1].caught /\ stack'[1].next = 1
  BY DEF Bottom
<1>3. \A k \in 1 .. Len(pending') : ~(k < 1)
  OBVIOUS
<1>4. Bottom'
  BY <1>1, <1>2, <1>3 DEF Bottom
<1>5. executed \subseteq finished
  <2>1. ~(Len(stack) = 2 /\ stack[2].kind = "body")
    OBVIOUS
  <2> QED
    BY <2>1 DEF TheBody
<1>6. ~(Len(stack') >= 2 /\ stack'[2].kind = "body")
  <2>1. Len(stack') >= 2 => 2 \in 2 .. Len(stack')
    OBVIOUS
  <2> QED
    BY <2>1
<1>7. TheBody'
  BY <1>5, <1>6 DEF TheBody
<1> QED
  BY <1>4, <1>7

(* Everything above the bottom of a stack with a load on top is loading.   *)
LEMMA AllLoads ==
  ASSUME IInv, Bottom, TopIs("load")
  PROVE  /\ stack[1].kind = "loop"
         /\ \A i \in 2 .. Len(stack) : stack[i].kind = "load"
<1>1. /\ stack \in Seq(Frame) /\ Len(stack) >= 2
      /\ \A i \in 1 .. Len(stack) : stack[i].kind # "body"
  BY NoBody
<1>2. \A i \in 2 .. Len(stack) : i \in 1 .. Len(stack) /\ stack[i] \in Frame
  BY <1>1
<1>3. \A i \in 2 .. Len(stack) : stack[i].kind = "load"
  BY <1>1, <1>2, Kinds DEF Bottom
<1>4. stack[1].kind = "loop"
  BY <1>1 DEF IInv, StackOK
<1> QED
  BY <1>3, <1>4

(* A failing load keeps failing as long as it is there.                    *)
LEMMA FailsOn ==
  ASSUME Failing, \A i \in 1 .. Len(stack) : stack[i].kind = "load" /\ ~stack[i].ok =>
           \E j \in 1 .. Len(stack') : stack'[j].kind = "load" /\ ~stack'[j].ok
  PROVE  QueueOK'
BY DEF Failing, QueueOK


(* LoadImport: the import is in the queue, or it is loading above, or the  *)
(* load will fail.                                                         *)
LEMMA LoadImportStatic ==
  ASSUME IInv, StaticOK, NEW d \in Module, LoadImport(d)
  PROVE  StaticOK'
<1> DEFINE n == Len(stack)
           f == [Top EXCEPT !.left = @ \ {d}]
           g == [f EXCEPT !.ok = FALSE]
           b == NewLoad(d)
<1>1. /\ TypeOK /\ TopIs("load") /\ stack # <<>> /\ Top.kind = "load"
      /\ registered \in [Module -> {"absent", "loading", "loaded"}]
      /\ program \in Program
  BY DEF IInv, LoadImport, TopIs, TypeOK
<1>2. /\ DependencyOrder /\ (phase \in {"events", "exit"} => Entry \in finished)
      /\ registered[Entry] # "absent" /\ QueueOK /\ Bottom /\ TheBody
  BY <1>1 DEF StaticOK
<1>3. /\ n \in Nat /\ n >= 2 /\ stack[n] = Top /\ stack \in Seq(Frame)
      /\ Top \in LoadFrame /\ stack[1].next = 1 /\ stack[1].kind = "loop"
      /\ \A i \in 1 .. n : stack[i].kind # "body"
      /\ \A i \in 2 .. n : stack[i].kind = "load"
  BY <1>1, <1>2, NoBody, AllLoads
<1>4. /\ f \in LoadFrame /\ f.kind = "load" /\ f.of = Top.of /\ f.ok = Top.ok
      /\ f.left = Top.left \ {d}
      /\ g \in LoadFrame /\ g.kind = "load" /\ g.of = Top.of /\ ~g.ok
  BY <1>3 DEF LoadFrame
<1>5. b \in LoadFrame /\ b.kind = "load" /\ b.of = d /\ b.left = program.imports[d]
  BY <1>1 DEF NewLoad, LoadFrame, Program
<1>6. f \in Frame /\ g \in Frame /\ b \in Frame
  BY <1>4, <1>5 DEF Frame
<1>7. /\ program' = program /\ pending' = pending /\ executed' = executed /\ phase' = phase
      /\ runs' = runs /\ finished' = finished
  BY DEF LoadImport
<1>8. \/ registered[d] = "loaded" /\ stack' = WithTop(f) /\ registered' = registered
      \/ stack' = WithTop(g) /\ registered' = registered
      \/ /\ registered[d] = "absent"
         /\ registered' = [registered EXCEPT ![d] = "loading"]
         /\ stack' = Append(WithTop(f), b)
  BY DEF LoadImport
<1> HIDE DEF f, g, b
<1>9. ASSUME NEW e \in Frame, e.kind = "load", e.of = Top.of
      PROVE  /\ WithTop(e) \in Seq(Frame) /\ Len(WithTop(e)) = n
             /\ \A i \in 1 .. n - 1 : WithTop(e)[i] = stack[i]
             /\ WithTop(e)[n] = e
  BY <1>1, <1>9, TopChanges
<1>10. DependencyOrder'
  BY <1>2, <1>7, OrderStays
<1>11. registered'[Entry] # "absent"
  <2>1. registered' = registered \/ registered' = [registered EXCEPT ![d] = "loading"]
    BY <1>8
  <2>2. Entry \in Module
    BY ModuleLoaderAssumption
  <2> QED
    BY <1>1, <1>2, <2>1, <2>2
<1>12. ASSUME stack' \in Seq(Frame), Len(stack') >= n, stack'[1] = stack[1],
              \A i \in 2 .. Len(stack') : stack'[i].kind = "load",
              QueueOK'
       PROVE  StaticOK'
  <2>1. Len(stack') >= 1 /\ n >= 1
    BY <1>3, <1>12
  <2>2. Bottom' /\ TheBody'
    BY <1>2, <1>3, <1>7, <1>12, <2>1, StillLoading
  <2> QED
    BY <1>2, <1>7, <1>10, <1>11, <1>12, <2>2 DEF StaticOK
<1>13. \A i \in 1 .. n : i = n \/ i \in 1 .. n - 1
  BY <1>3
<1>14. 1 \in 1 .. n - 1 /\ n \in 1 .. n
  BY <1>3
<1>15. CASE registered[d] = "loaded" /\ stack' = WithTop(f) /\ registered' = registered
  <2>1. /\ stack' \in Seq(Frame) /\ Len(stack') = n /\ stack'[n] = f
        /\ \A i \in 1 .. n - 1 : stack'[i] = stack[i]
    BY <1>4, <1>6, <1>9, <1>15
  <2>2. \A i \in 1 .. n : stack'[i].kind = stack[i].kind /\ stack'[i].of = stack[i].of
    BY <1>3, <1>4, <1>13, <2>1
  <2>3. QueueOK'
    <3>1. CASE Failing
      <4>1. \A i \in 1 .. n : stack[i].ok = stack'[i].ok
        BY <1>3, <1>4, <1>13, <2>1
      <4> QED
        BY <2>1, <2>2, <3>1, <4>1, FailsOn
    <3>2. CASE ~Failing
      <4>1. /\ InOrder /\ LoadedSoFar
            /\ \A m \in Module : registered[m] = "loaded" => Waits(m)
        BY <1>2, <3>2 DEF QueueOK
      <4>2. InOrder' /\ \A m \in Module : registered'[m] = "loaded" => Waits(m)'
        BY <1>7, <1>15, <4>1 DEF InOrder, Waits
      <4>3. ASSUME NEW i \in 1 .. n, stack'[i].kind = "load",
                   NEW e \in program.imports[stack'[i].of] \ stack'[i].left
            PROVE  Waits(e) \/ (i < n /\ stack'[i + 1].of = e)
        <5>1. CASE i \in 1 .. n - 1
          <6>1. stack'[i] = stack[i] /\ i + 1 \in 1 .. n
            BY <1>3, <2>1, <5>1
          <6>2. Waits(e) \/ (i < n /\ stack[i + 1].of = e)
            BY <4>1, <4>3, <6>1 DEF LoadedSoFar
          <6> QED
            BY <2>2, <6>1, <6>2
        <5>2. CASE i = n
          <6>1. e \in program.imports[Top.of] /\ (e \notin Top.left \/ e = d)
            BY <1>4, <2>1, <4>3, <5>2
          <6>2. e \notin Top.left => Waits(e)
            <7>1. ~(n < n)
              BY <1>3
            <7> QED
              BY <1>1, <1>3, <1>14, <4>1, <6>1, <7>1 DEF LoadedSoFar
          <6> QED
            BY <1>15, <4>1, <6>1, <6>2
        <5> QED
          BY <1>13, <5>1, <5>2
      <4>4. LoadedSoFar'
        BY <1>7, <2>1, <4>3 DEF LoadedSoFar, Waits
      <4> QED
        BY <4>2, <4>4 DEF QueueOK
    <3> QED
      BY <3>1, <3>2
  <2>4. \A i \in 2 .. n : stack'[i].kind = "load"
    BY <1>3, <2>2
  <2> QED
    BY <1>3, <1>12, <1>14, <2>1, <2>3, <2>4
<1>16. CASE stack' = WithTop(g) /\ registered' = registered
  <2>1. /\ stack' \in Seq(Frame) /\ Len(stack') = n /\ stack'[n] = g
        /\ \A i \in 1 .. n - 1 : stack'[i] = stack[i]
    BY <1>4, <1>6, <1>9, <1>16
  <2>2. QueueOK'
    BY <1>4, <1>14, <2>1 DEF QueueOK, Failing
  <2>3. ASSUME NEW i \in 2 .. n
        PROVE  stack'[i].kind = "load"
    <3>1. i = n \/ i \in 1 .. n - 1
      BY <1>3
    <3> QED
      BY <1>3, <1>4, <2>1, <3>1
  <2> QED
    BY <1>3, <1>12, <1>14, <2>1, <2>2, <2>3
<1>17. CASE /\ registered[d] = "absent"
            /\ registered' = [registered EXCEPT ![d] = "loading"]
            /\ stack' = Append(WithTop(f), b)
  <2> DEFINE t == WithTop(f)
  <2>1. /\ t \in Seq(Frame) /\ Len(t) = n /\ t[n] = f
        /\ \A i \in 1 .. n - 1 : t[i] = stack[i]
    BY <1>4, <1>6, <1>9
  <2>2. stack' = Append(t, b)
    BY <1>17
  <2> HIDE DEF t
  <2>3. /\ stack' \in Seq(Frame) /\ Len(stack') = n + 1 /\ stack'[n + 1] = b
        /\ \A i \in 1 .. n : stack'[i] = t[i]
    <3>1. /\ stack' \in Seq(Frame) /\ Len(stack') = Len(t) + 1
          /\ \A i \in 1 .. Len(t) : stack'[i] = t[i]
          /\ stack'[Len(t) + 1] = b
      BY <1>6, <2>1, <2>2, Appending
    <3> QED
      BY <2>1, <3>1
  <2>4. stack'[n] = f /\ \A i \in 1 .. n - 1 : stack'[i] = stack[i]
    BY <1>3, <1>13, <1>14, <2>1, <2>3
  <2>5. \A i \in 1 .. n : stack'[i].kind = stack[i].kind /\ stack'[i].of = stack[i].of
    BY <1>3, <1>4, <1>13, <2>4
  <2>6. \A i \in 1 .. Len(stack') : i \in 1 .. n \/ i = n + 1
    BY <1>3, <2>3
  <2>7. QueueOK'
    <3>1. CASE Failing
      <4>1. \A i \in 1 .. n : stack[i].ok = stack'[i].ok /\ i \in 1 .. Len(stack')
        BY <1>3, <1>4, <1>13, <2>3, <2>4
      <4> QED
        BY <2>5, <3>1, <4>1, FailsOn
    <3>2. CASE ~Failing
      <4>1. /\ InOrder /\ LoadedSoFar
            /\ \A m \in Module : registered[m] = "loaded" => Waits(m)
        BY <1>2, <3>2 DEF QueueOK
      <4>2. InOrder'
        BY <1>7, <4>1 DEF InOrder
      <4>3. ASSUME NEW m \in Module, registered'[m] = "loaded"
            PROVE  Waits(m)'
        <5>1. registered[m] = "loaded"
          BY <1>1, <1>17, <4>3
        <5> QED
          BY <1>7, <4>1, <5>1 DEF Waits
      <4>4. ASSUME NEW i \in 1 .. Len(stack'), stack'[i].kind = "load",
                   NEW e \in program.imports[stack'[i].of] \ stack'[i].left
            PROVE  Waits(e) \/ (i < Len(stack') /\ stack'[i + 1].of = e)
        <5>1. CASE i \in 1 .. n - 1
          <6>1. stack'[i] = stack[i] /\ i + 1 \in 1 .. n /\ i \in 1 .. n /\ i < Len(stack')
            BY <1>3, <2>3, <2>4, <5>1
          <6>2. Waits(e) \/ (i < n /\ stack[i + 1].of = e)
            BY <4>1, <4>4, <6>1 DEF LoadedSoFar
          <6> QED
            BY <2>5, <6>1, <6>2
        <5>2. CASE i = n
          <6>1. e \in program.imports[Top.of] /\ (e \notin Top.left \/ e = d)
            BY <1>4, <2>4, <4>4, <5>2
          <6>2. e \notin Top.left => Waits(e)
            <7>1. ~(n < n)
              BY <1>3
            <7> QED
              BY <1>1, <1>3, <1>14, <4>1, <6>1, <7>1 DEF LoadedSoFar
          <6>3. n < Len(stack') /\ stack'[n + 1].of = d
            BY <1>3, <1>5, <2>3
          <6> QED
            BY <5>2, <6>1, <6>2, <6>3
        <5>3. CASE i = n + 1
          BY <1>5, <2>3, <4>4, <5>3
        <5> QED
          BY <1>13, <2>6, <5>1, <5>2, <5>3
      <4>5. LoadedSoFar'
        BY <1>7, <4>4 DEF LoadedSoFar, Waits
      <4> QED
        BY <4>2, <4>3, <4>5 DEF QueueOK
    <3> QED
      BY <3>1, <3>2
  <2>8. ASSUME NEW i \in 2 .. Len(stack')
        PROVE  stack'[i].kind = "load"
    <3>1. (i \in 2 .. n /\ i \in 1 .. n) \/ i = n + 1
      BY <1>3, <2>3
    <3> QED
      BY <1>3, <1>5, <2>3, <2>5, <3>1
  <2>9. Len(stack') >= n /\ stack'[1] = stack[1]
    BY <1>3, <1>14, <2>3, <2>4
  <2> QED
    BY <1>12, <2>3, <2>7, <2>8, <2>9
<1> QED
  BY <1>8, <1>15, <1>16, <1>17

(* LoadEnds: what a good file imports is in the queue, and the file goes   *)
(* behind it.                                                              *)
LEMMA LoadEndsStatic == ASSUME IInv, StaticOK, LoadEnds PROVE StaticOK'
<1> DEFINE n == Len(stack)
           m == Top.of
           ok == Top.ok /\ program.verdict[m] = "good"
           asker == stack[n - 1]
<1>1. /\ TypeOK /\ StackOK(stack) /\ TopIs("load") /\ stack # <<>> /\ Top.kind = "load"
      /\ registered \in [Module -> {"absent", "loading", "loaded"}]
      /\ pending \in Seq(Module)
  BY DEF IInv, LoadEnds, TopIs, TypeOK
<1>2. /\ DependencyOrder /\ (phase \in {"events", "exit"} => Entry \in finished)
      /\ registered[Entry] # "absent" /\ QueueOK /\ Bottom /\ TheBody
  BY <1>1 DEF StaticOK
<1>3. /\ n \in Nat /\ n >= 2 /\ stack[n] = Top /\ stack \in Seq(Frame)
      /\ Top \in LoadFrame /\ stack[1].next = 1 /\ stack[1].kind = "loop"
      /\ \A i \in 1 .. n : stack[i].kind # "body"
      /\ \A i \in 2 .. n : stack[i].kind = "load"
  BY <1>1, <1>2, NoBody, AllLoads
<1>4. m \in Module /\ Depth = n
  BY <1>1, <1>3, TopFrame DEF LoadFrame
<1>5. /\ program' = program /\ executed' = executed /\ runs' = runs /\ finished' = finished
      /\ registered' = [registered EXCEPT ![m] = "loaded"]
      /\ pending' = IF ok THEN Append(pending, m) ELSE pending
      /\ Top.left = {} \/ program.verdict[m] = "unparsable"
      /\ \/ /\ asker.kind = "load" /\ phase' = phase
            /\ stack' = [Below EXCEPT ![n - 1].ok = @ /\ ok]
         \/ asker.kind = "loop" /\ ok /\ stack' = Below /\ phase' = phase
         \/ /\ asker.kind = "loop" /\ ~ok /\ stack' = SubSeq(stack, 1, n - 2)
            /\ phase' = IF asker.of = NoModule THEN "failed" ELSE phase
  BY <1>4 DEF LoadEnds, Loaded, Queued
<1>6. Below \in Seq(Frame) /\ Len(Below) = n - 1 /\ \A i \in 1 .. n - 1 : Below[i] = stack[i]
  BY <1>1, TopFrame
<1>7. DependencyOrder'
  BY <1>2, <1>5, OrderStays
<1>8. registered'[Entry] # "absent"
  BY <1>1, <1>2, <1>4, <1>5, ModuleLoaderAssumption
<1>9. Top.ok \in BOOLEAN /\ ok \in BOOLEAN /\ (ok => Top.ok /\ Top.left = {})
  BY <1>3, <1>5 DEF LoadFrame
<1>10. 1 \in 1 .. n - 1 /\ n \in 1 .. n /\ n - 1 \in 1 .. n - 1 /\ n - 1 \in 1 .. n
       /\ \A i \in 1 .. n : i = n \/ i \in 1 .. n - 1
  BY <1>3
<1>11. m = Top.of
  OBVIOUS
<1> HIDE DEF m, ok
<1>12. ASSUME ok, ~Failing
       PROVE  /\ InOrder'
              /\ \A x \in Module : registered'[x] = "loaded" => Waits(x)'
              /\ \A x : Waits(x) \/ x = m => Waits(x)'
  <2>1. /\ InOrder /\ LoadedSoFar
        /\ \A x \in Module : registered[x] = "loaded" => Waits(x)
    BY <1>2, <1>12 DEF QueueOK
  <2>2. ASSUME NEW d \in program.imports[m]
        PROVE  Waits(d)
    <3>1. ~(n < n)
      BY <1>3
    <3> QED
      BY <1>1, <1>3, <1>9, <1>10, <1>11, <1>12, <2>1, <3>1 DEF LoadedSoFar
  <2>3. /\ pending' \in Seq(Module) /\ Len(pending') = Len(pending) + 1
        /\ \A k \in 1 .. Len(pending) : pending'[k] = pending[k]
        /\ pending'[Len(pending) + 1] = m
    <3>1. pending' = Append(pending, m)
      BY <1>5, <1>12
    <3> QED
      BY <1>1, <1>4, <3>1, Appending
  <2>4. /\ Len(pending) \in Nat
        /\ \A k \in 1 .. Len(pending') : k \in 1 .. Len(pending) \/ k = Len(pending) + 1
        /\ \A k \in 1 .. Len(pending) : k \in 1 .. Len(pending') /\ k < Len(pending) + 1
        /\ Len(pending) + 1 \in 1 .. Len(pending')
    BY <1>1, <2>3
  <2>5. \A x : Waits(x) \/ x = m => Waits(x)'
    BY <2>3, <2>4 DEF Waits
  <2>6. ASSUME NEW k \in 1 .. Len(pending'), NEW d \in program.imports[pending'[k]]
        PROVE  \E j \in 1 .. Len(pending') : j < k /\ pending'[j] = d
    <3>1. CASE k \in 1 .. Len(pending)
      BY <2>1, <2>3, <2>4, <2>6, <3>1 DEF InOrder
    <3>2. CASE k = Len(pending) + 1
      BY <2>2, <2>3, <2>4, <2>6, <3>2 DEF Waits
    <3> QED
      BY <2>4, <3>1, <3>2
  <2>7. InOrder'
    BY <1>5, <2>6 DEF InOrder
  <2>8. \A x \in Module : registered'[x] = "loaded" => registered[x] = "loaded" \/ x = m
    BY <1>1, <1>4, <1>5
  <2> QED
    BY <2>1, <2>5, <2>7, <2>8
<1>13. CASE asker.kind = "load" /\ phase' = phase /\ stack' = [Below EXCEPT ![n - 1].ok = @ /\ ok]
  <2> DEFINE h == [asker EXCEPT !.ok = @ /\ ok]
  <2>1. asker \in LoadFrame
    BY <1>3, <1>10, <1>13, Kinds
  <2>2. h \in LoadFrame /\ h.kind = "load" /\ h.of = asker.of /\ h.left = asker.left
        /\ h.ok = (asker.ok /\ ok)
    BY <1>9, <2>1 DEF LoadFrame
  <2>3. stack' = [Below EXCEPT ![n - 1] = h] /\ h \in Frame
    BY <1>6, <1>10, <1>13, <2>2 DEF Frame
  <2> HIDE DEF h
  <2>4. /\ stack' \in Seq(Frame) /\ Len(stack') = n - 1 /\ stack'[n - 1] = h
        /\ \A i \in 1 .. n - 1 : i # n - 1 => stack'[i] = stack[i]
    BY <1>6, <1>10, <2>3
  <2>5. ASSUME NEW i \in 1 .. n - 1
        PROVE  /\ stack'[i].kind = stack[i].kind /\ stack'[i].of = stack[i].of
               /\ stack'[i].left = stack[i].left
    <3>1. CASE i = n - 1
      <4>1. stack[i] = asker /\ stack'[i] = h /\ asker.kind = "load"
        BY <1>13, <2>4, <3>1
      <4> QED
        BY <2>2, <4>1
    <3>2. CASE i # n - 1
      BY <2>4, <3>2
    <3> QED
      BY <3>1, <3>2
  <2>6. n - 1 # 1
    BY <1>3, <1>13
  <2>7. stack'[1] = stack[1] /\ Len(stack') >= 1
    BY <1>3, <1>10, <2>4, <2>6
  <2>8. \A i \in 2 .. Len(stack') : stack'[i].kind = "load"
    <3>1. \A i \in 2 .. n - 1 : i \in 1 .. n - 1 /\ i \in 2 .. n
      BY <1>3
    <3> QED
      BY <1>3, <2>4, <2>5, <3>1
  <2>9. Bottom' /\ TheBody'
    <3>1. n >= 1
      BY <1>3
    <3> QED
      BY <1>2, <1>3, <1>5, <2>4, <2>7, <2>8, <3>1, StillLoading
  <2>10. ~ok => QueueOK'
    BY <1>10, <2>2, <2>4 DEF QueueOK, Failing
  <2>11. CASE Failing /\ ok
    <3>1. PICK i \in 1 .. n : stack[i].kind = "load" /\ ~stack[i].ok
      BY <2>11 DEF Failing
    <3>2. i \in 1 .. n - 1
      BY <1>3, <1>9, <1>10, <2>11, <3>1
    <3>3. ~stack'[i].ok /\ stack'[i].kind = "load"
      BY <2>2, <2>4, <2>5, <3>1, <3>2
    <3> QED
      BY <1>2, <1>5, <1>7, <1>8, <1>13, <2>4, <2>9, <3>2, <3>3
         DEF QueueOK, Failing, StaticOK
  <2>12. ASSUME ~Failing, ok
         PROVE  QueueOK'
    <3>1. LoadedSoFar
      BY <1>2, <2>12 DEF QueueOK
    <3>2. ASSUME NEW i \in 1 .. n - 1, stack'[i].kind = "load",
                 NEW d \in program.imports[stack'[i].of] \ stack'[i].left
          PROVE  Waits(d)' \/ (i < n - 1 /\ stack'[i + 1].of = d)
      <4>1. i \in 1 .. n /\ stack[i].kind = "load"
            /\ d \in program.imports[stack[i].of] \ stack[i].left
        BY <1>3, <2>5, <3>2
      <4>2. Waits(d) \/ (i < n /\ stack[i + 1].of = d)
        BY <3>1, <4>1 DEF LoadedSoFar
      <4>3. i + 1 = n \/ (i < n - 1 /\ i + 1 \in 1 .. n - 1)
        BY <1>3
      <4>4. i + 1 = n /\ stack[i + 1].of = d => d = m
        BY <1>3, <1>11
      <4> QED
        BY <1>12, <2>5, <2>12, <4>2, <4>3, <4>4
    <3>3. LoadedSoFar'
      BY <1>5, <2>4, <3>2 DEF LoadedSoFar
    <3> QED
      BY <1>12, <2>12, <3>3 DEF QueueOK
  <2>13. QueueOK' => StaticOK'
    BY <1>2, <1>5, <1>7, <1>8, <1>13, <2>9 DEF StaticOK
  <2> QED
    BY <2>10, <2>11, <2>12, <2>13
<1>14. ASSUME asker.kind = "loop"
       PROVE  n = 2 /\ asker = stack[1]
  <2>1. n - 1 \notin 2 .. n
    BY <1>2, <1>14 DEF Bottom
  <2>2. n \in Nat \ {0} /\ n - 1 \in Nat \ {0}
    BY <1>3
  <2>3. n = 2
    BY <2>1, <2>2, Small, Zenon
  <2> QED
    BY <2>3
<1>15. CASE asker.kind = "loop" /\ ok /\ stack' = Below /\ phase' = phase
  <2>1. n = 2
    BY <1>14, <1>15
  <2>2. stack' \in Seq(Frame) /\ Len(stack') = 1 /\ stack'[1] = stack[1]
    BY <1>6, <1>10, <1>15, <2>1
  <2>3. ~Failing
    BY <1>3, <1>9, <1>15, <2>1 DEF Failing
  <2>4. \A i \in 1 .. Len(stack') : stack'[i].kind # "load"
    BY <1>3, <2>2
  <2>5. QueueOK'
    BY <1>12, <1>15, <2>3, <2>4 DEF QueueOK, LoadedSoFar
  <2>6. Bottom' /\ TheBody'
    <3>1. n >= 1 /\ Len(stack') >= 1
      BY <1>3, <2>2
    <3>2. \A i \in 2 .. Len(stack') : stack'[i].kind = "load"
      BY <2>2
    <3> QED
      BY <1>2, <1>3, <1>5, <2>2, <3>1, <3>2, StillLoading
  <2> QED
    BY <1>2, <1>5, <1>7, <1>8, <1>15, <2>5, <2>6 DEF StaticOK
<1>16. CASE /\ asker.kind = "loop" /\ ~ok /\ stack' = SubSeq(stack, 1, n - 2)
            /\ phase' = IF asker.of = NoModule THEN "failed" ELSE phase
  <2>1. n = 2 /\ asker = stack[1]
    BY <1>14, <1>16
  <2>2. stack' = <<>>
    <3>1. n - 2 = 0 /\ 0 \in 0 .. Len(stack)
      BY <1>3, <2>1
    <3>2. stack' = SubSeq(stack, 1, 0)
      BY <1>16, <3>1
    <3>3. stack' \in Seq(Frame) /\ Len(stack') = 0
      BY <1>3, <3>1, <3>2, Prefix
    <3> QED
      BY <3>3
  <2>3. phase' = "failed"
    BY <1>2, <1>16, <2>1 DEF Bottom
  <2> QED
    BY <1>7, <2>2, <2>3 DEF StaticOK
<1> QED
  BY <1>5, <1>13, <1>15, <1>16


(* The first load, of the entry file, has been through nothing yet.        *)
LEMMA InitStatic == ASSUME Init PROVE IStatic
<1>1. DependencyOrder
  BY DEF Init, DependencyOrder, Began
<1>2. CASE stack = <<>>
  BY <1>1, <1>2 DEF Init, IStatic, StaticOK
<1>3. CASE stack # <<>>
  <2> DEFINE a == NewLoop(NoModule, FALSE)
             b == NewLoad(Entry)
  <2>1. /\ stack = <<a, b>> /\ phase = "run" /\ pending = <<>> /\ executed = {}
        /\ registered = [m \in Module |-> IF m = Entry THEN "loading" ELSE "absent"]
    BY <1>3 DEF Init
  <2>2. /\ a.kind = "loop" /\ a.of = NoModule /\ a.next = 1 /\ ~a.caught
        /\ b.kind = "load" /\ b.of = Entry /\ b.left = program.imports[Entry]
    BY DEF NewLoop, NewLoad
  <2> HIDE DEF a, b
  <2>3. /\ Len(stack) = 2 /\ stack[1] = a /\ stack[2] = b
        /\ \A i \in 1 .. Len(stack) : i = 1 \/ i = 2
        /\ \A i \in 2 .. Len(stack) : i = 2
    BY <2>1
  <2>4. Len(pending) = 0 /\ \A k \in 1 .. Len(pending) : FALSE
    BY <2>1
  <2>5. registered[Entry] # "absent"
    BY <2>1, ModuleLoaderAssumption
  <2>6. QueueOK
    <3>1. \A m \in Module : registered[m] # "loaded"
      BY <2>1
    <3>2. InOrder
      BY <2>4 DEF InOrder
    <3>3. LoadedSoFar
      BY <2>2, <2>3 DEF LoadedSoFar
    <3> QED
      BY <3>1, <3>2, <3>3 DEF QueueOK
  <2>7. Bottom
    BY <2>2, <2>3, <2>4 DEF Bottom
  <2>8. TheBody
    BY <2>1, <2>2, <2>3 DEF TheBody
  <2> QED
    BY <1>1, <2>1, <2>5, <2>6, <2>7, <2>8 DEF IStatic, StaticOK
<1> QED
  BY <1>2, <1>3

(* Any step, as long as import() is not called.                            *)
LEMMA StepStatic == ASSUME IInv, IStatic, [Next]_vars PROVE IStatic'
<1>1. calls \in Nat
  BY ModuleLoaderAssumption DEF IInv, TypeOK
<1>0. calls' = calls \/ calls' = calls + 1
  <2>1. Loader => calls' = calls
    BY DEF Loader, LoadImport, LoadEnds, SkipExecuted, RefuseAwaiting, EnterBody, QueueDone
  <2>2. Code => calls' = calls \/ calls' = calls + 1
    BY DEF Code, BodyReturns, BodyFails, BodyAwaits, BodyResumes, runBodyAsync,
           CallbackFails, ProgramEnds, importAtRuntime
  <2> QED
    BY <2>1, <2>2 DEF Next, vars
<1> SUFFICES ASSUME calls' = 0
             PROVE  StaticOK'
  BY DEF IStatic
<1>2. calls = 0 /\ StaticOK
  BY <1>0, <1>1 DEF IStatic
<1>3. CASE UNCHANGED vars
  <2>1. StaticOK' = StaticOK
    BY <1>3 DEF vars, StaticOK, DependencyOrder, Began, QueueOK, Failing, InOrder, LoadedSoFar,
                Waits, Bottom, TheBody
  <2> QED
    BY <1>2, <2>1
<1>4. CASE Loader
  BY <1>2, <1>4, LoadImportStatic, LoadEndsStatic, SkipStatic, RefuseStatic, EnterStatic,
     QueueDoneStatic DEF Loader
<1>5. CASE Code
  <2>1. ASSUME NEW m \in Module, NEW caught \in BOOLEAN, importAtRuntime(m, caught)
        PROVE  FALSE
    BY <1>2, <2>1 DEF importAtRuntime
  <2> QED
    BY <1>2, <1>5, <2>1, CodeStatic DEF Code
<1> QED
  BY <1>3, <1>4, <1>5 DEF Next

(* A program that has not called import() keeps the queue in the order of  *)
(* its imports, and its one loop runs what it passes.                      *)
THEOREM StaticInvariance == Spec => [](IInv /\ IStatic)
<1>1. Init => IInv /\ IStatic
  BY InitKeeps, InitStatic
<1>2. IInv /\ IStatic /\ [Next]_vars => (IInv /\ IStatic)'
  BY StepKeeps, StepStatic
<1> QED
  BY <1>1, <1>2, PTL DEF Spec

(* Without import(), a body starts only when all it imports has run to its *)
(* end, so that no module of a cycle ever starts (csModuleLoadImports,     *)
(* csVMRunPendingModules).                                                 *)
THEOREM ImportsRunFirst == Spec => []StaticOrder
<1>1. IStatic => StaticOrder
  BY DEF IStatic, StaticOK, StaticOrder
<1> QED
  BY <1>1, StaticInvariance, PTL

(* Without import(), a program that ends well has run its entry file:      *)
(* nothing that was loaded is left out of the queue.                       *)
THEOREM EntryHasRun == Spec => []NothingSkipped
<1>1. IStatic => NothingSkipped
  BY DEF IStatic, StaticOK, NothingSkipped
<1> QED
  BY <1>1, StaticInvariance, PTL
===============================================================================
