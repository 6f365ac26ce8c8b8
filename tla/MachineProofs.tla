---------------------------- MODULE MachineProofs -----------------------------
(* Proofs about the interpreter's lists, for every program (whatever its code: *)
(* compiled by the compiler of ControlFlow or not) and every size of the       *)
(* stack: the handlers follow the frames and the open upvalues follow the      *)
(* addresses, so that each search from one end of them finds what it means to. *)
EXTENDS Machine, WellFoundedInduction, TLAPS

------------------------------------------------------------------------------
(* Sequences.                                                                  *)

(* What one more element does to a sequence.                                   *)
LEMMA Appending ==
  ASSUME NEW S, NEW s \in Seq(S), NEW e \in S
  PROVE  /\ Append(s, e) \in Seq(S)
         /\ Len(Append(s, e)) = Len(s) + 1
         /\ \A i \in 1 .. Len(s) : Append(s, e)[i] = s[i]
         /\ Append(s, e)[Len(s) + 1] = e
OBVIOUS

(* The elements of the first part of a sequence.                               *)
LEMMA Prefix ==
  ASSUME NEW S, NEW s \in Seq(S), NEW n \in 0 .. Len(s)
  PROVE  /\ SubSeq(s, 1, n) \in Seq(S)
         /\ Len(SubSeq(s, 1, n)) = n
         /\ \A i \in 1 .. n : SubSeq(s, 1, n)[i] = s[i]
OBVIOUS

(* The elements of the last part of a sequence.                                *)
LEMMA Suffix ==
  ASSUME NEW S, NEW s \in Seq(S), NEW n \in 0 .. Len(s)
  PROVE  /\ SubSeq(s, n + 1, Len(s)) \in Seq(S)
         /\ Len(SubSeq(s, n + 1, Len(s))) = Len(s) - n
         /\ \A i \in 1 .. Len(s) - n : SubSeq(s, n + 1, Len(s))[i] = s[n + i]
OBVIOUS

(* An element put into a sequence, before the element of a place.              *)
Inserted(S, s, m, e, t) ==
  /\ t \in Seq(S)
  /\ Len(t) = Len(s) + 1
  /\ t[m] = e
  /\ \A i \in 1 .. m - 1 : t[i] = s[i]
  /\ \A i \in m .. Len(s) : t[i + 1] = s[i]

(* InsertAt.                                                                   *)
LEMMA Inserting ==
  ASSUME NEW S, NEW s \in Seq(S), NEW m \in 1 .. Len(s) + 1, NEW e \in S
  PROVE  Inserted(S, s, m, e, InsertAt(s, m, e))
<1> DEFINE a == SubSeq(s, 1, m - 1)
<1> DEFINE b == SubSeq(s, m, Len(s))
<1> DEFINE t == a \o <<e>> \o b
<1>1. m - 1 \in 0 .. Len(s) /\ (m - 1) + 1 = m /\ Len(s) \in Nat
  OBVIOUS
<1>2. a \in Seq(S) /\ Len(a) = m - 1 /\ \A i \in 1 .. m - 1 : a[i] = s[i]
  BY <1>1, Prefix
<1>3. b \in Seq(S) /\ Len(b) = Len(s) - (m - 1)
      /\ \A i \in 1 .. Len(s) - (m - 1) : b[i] = s[(m - 1) + i]
  <2> DEFINE n == m - 1
  <2>1. b = SubSeq(s, n + 1, Len(s)) /\ n \in 0 .. Len(s)
    BY <1>1
  <2> HIDE DEF n, b
  <2>2. b \in Seq(S) /\ Len(b) = Len(s) - n /\ \A i \in 1 .. Len(s) - n : b[i] = s[n + i]
    BY <2>1, Suffix
  <2> QED
    BY <2>2 DEF n
<1>4. InsertAt(s, m, e) = t
  BY Zenon DEF InsertAt
<1>5. a \in Seq(S) /\ b \in Seq(S)
  BY <1>2, <1>3
<1> HIDE DEF a, b
<1>6. t \in Seq(S) /\ Len(t) = Len(a) + 1 + Len(b)
  BY <1>5
<1>7. \A i \in 1 .. Len(a) : t[i] = a[i]
  BY <1>5
<1>8. t[Len(a) + 1] = e
  BY <1>5
<1>9. \A i \in 1 .. Len(b) : t[Len(a) + 1 + i] = b[i]
  BY <1>5
<1> HIDE DEF t
<1>10. ASSUME NEW i \in m .. Len(s)
       PROVE  t[i + 1] = s[i]
  <2> DEFINE k == i - (m - 1)
  <2>1. k \in 1 .. Len(b) /\ i + 1 = Len(a) + 1 + k /\ (m - 1) + k = i
    BY <1>1, <1>2, <1>3
  <2> HIDE DEF k
  <2>2. t[i + 1] = b[k]
    BY <2>1, <1>9
  <2>3. b[k] = s[i]
    BY <2>1, <1>3
  <2> QED
    BY <2>2, <2>3
<1>11. /\ t \in Seq(S) /\ Len(t) = Len(s) + 1 /\ t[m] = e
       /\ \A i \in 1 .. m - 1 : t[i] = s[i]
  BY <1>1, <1>2, <1>3, <1>6, <1>7, <1>8
<1>12. Inserted(S, s, m, e, t)
  BY <1>10, <1>11 DEF Inserted
<1> QED
  BY <1>4, <1>12

(* What is left of a sequence without its last element.                        *)
LEMMA Resting ==
  ASSUME NEW S, NEW s \in Seq(S), s # <<>>
  PROVE  /\ Len(s) \in Nat \ {0}
         /\ Last(s) \in S /\ Last(s) = s[Len(s)]
         /\ Front(s) \in Seq(S)
         /\ Len(Front(s)) = Len(s) - 1
         /\ \A i \in 1 .. Len(s) - 1 : Front(s)[i] = s[i]
<1>1. Len(s) \in Nat \ {0} /\ Len(s) - 1 \in 0 .. Len(s)
  OBVIOUS
<1>2. Last(s) \in S /\ Last(s) = s[Len(s)]
  BY <1>1 DEF Last
<1> QED
  BY <1>1, <1>2, Prefix DEF Front

(* A set of natural numbers has a least one.                                   *)
LEMMA LeastIs ==
  ASSUME NEW S, S \subseteq Nat, S # {}
  PROVE  Min(S) \in S /\ \A k \in S : Min(S) <= k
<1> DEFINE R == {pair \in Nat \X Nat : pair[1] < pair[2]}
<1>1. OpToRel(<, Nat) = R
  BY Zenon DEF OpToRel
<1>2. PICK n \in S : \A k \in S : ~ (<<k, n>> \in R)
  <2> HIDE DEF R
  <2> QED
    BY <1>1, NatLessThanWellFounded, WFMin
<1>3. ASSUME NEW k \in S
      PROVE  n <= k
  <2>1. k \in Nat /\ n \in Nat
    OBVIOUS
  <2>2. k < n => <<k, n>> \in R
    BY <2>1
  <2>3. ~ (k < n)
    <3> HIDE DEF R
    <3> QED
      BY <2>2, <1>2
  <2> QED
    BY <2>1, <2>3
<1> QED
  BY <1>3 DEF Min

(* And a greatest one, when it is bounded.                                     *)
LEMMA GreatestIs ==
  ASSUME NEW S, NEW bound \in Nat, S \subseteq 0 .. bound, S # {}
  PROVE  \E n \in S : \A k \in S : k <= n
<1> DEFINE slack == {d \in Nat : bound - d \in S}
<1>1. ASSUME NEW k \in S
      PROVE  k \in Int /\ bound - k \in slack
  <2>1. k \in 0 .. bound
    OBVIOUS
  <2>2. bound - k \in Nat /\ bound - (bound - k) = k
    BY <2>1
  <2> QED
    BY <2>1, <2>2
<1>2. slack \subseteq Nat /\ slack # {}
  BY <1>1
<1>3. PICK d \in slack : \A e \in slack : d <= e
  <2> HIDE DEF slack
  <2> QED
    BY <1>2, LeastIs
<1>4. d \in Nat /\ bound - d \in S
  OBVIOUS
<1> HIDE DEF slack
<1>5. ASSUME NEW k \in S
      PROVE  k <= bound - d
  <2>1. k \in Int /\ d <= bound - k
    BY <1>1, <1>3
  <2> QED
    BY <2>1, <1>4
<1> QED
  BY <1>4, <1>5

------------------------------------------------------------------------------
(* The inductive invariant: the machine's lists, each tied to the frames.      *)
CallFrame == [function : Nat, ip : Nat, slots : Int]
ExceptionHandler == [frameCount : Nat, stackTop : Int, ip : Nat]

HandlersOK(h, depth) ==
  /\ h \in Seq(ExceptionHandler)
  /\ \A i \in 1 .. Len(h) : h[i].frameCount \in 1 .. depth
  /\ \A i, j \in 1 .. Len(h) : i < j => h[i].frameCount <= h[j].frameCount

(* A loop runs the frames above its baseFrame; the first began with none.      *)
LoopsOK(l, depth) ==
  /\ l \in Seq(Nat)
  /\ \A i \in 1 .. Len(l) : l[i] < depth
  /\ \A i, j \in 1 .. Len(l) : i < j => l[i] < l[j]
  /\ l # <<>> => l[1] = 0

OpenOK(o, loc) ==
  /\ loc \in Seq(Int)
  /\ o \in Seq(Nat)
  /\ \A i \in 1 .. Len(o) : o[i] \in 1 .. Len(loc)
  /\ \A i, j \in 1 .. Len(o) : i < j => loc[o[i]] > loc[o[j]]

IInv ==
  /\ top \in Int
  /\ microtasks \in Seq(Nat)
  /\ frames \in Seq(CallFrame)
  /\ HandlersOK(handlers, Len(frames))
  /\ LoopsOK(loops, Len(frames))
  /\ OpenOK(open, location)
  /\ loops = <<>> /\ pending = <<>> => frames = <<>>

------------------------------------------------------------------------------
(* The handlers.                                                               *)

(* Handlers still belong to frames that are there when there are more.         *)
LEMMA HandlersDeeper ==
  ASSUME NEW h, NEW n \in Nat, NEW m \in Nat, n <= m, HandlersOK(h, n)
  PROVE  HandlersOK(h, m)
BY DEF HandlersOK, ExceptionHandler

(* OP_TRY: the new handler belongs to the innermost frame.                     *)
LEMMA HandlersPushed ==
  ASSUME NEW h, NEW n \in Nat \ {0}, HandlersOK(h, n),
         NEW r \in ExceptionHandler, r.frameCount = n
  PROVE  HandlersOK(Append(h, r), n)
<1> DEFINE t == Append(h, r)
<1>1. h \in Seq(ExceptionHandler) /\ Len(h) \in Nat
  BY DEF HandlersOK
<1>2. /\ t \in Seq(ExceptionHandler) /\ Len(t) = Len(h) + 1
      /\ \A i \in 1 .. Len(h) : t[i] = h[i]
      /\ t[Len(h) + 1] = r
  BY <1>1, Appending
<1> HIDE DEF t
<1>3. \A i \in 1 .. Len(t) : i \in 1 .. Len(h) \/ i = Len(h) + 1
  BY <1>1, <1>2
<1>4. \A i \in 1 .. Len(t) : t[i].frameCount \in 1 .. n
  BY <1>2, <1>3 DEF HandlersOK
<1>5. ASSUME NEW i \in 1 .. Len(t), NEW j \in 1 .. Len(t), i < j
      PROVE  t[i].frameCount <= t[j].frameCount
  <2>1. i \in 1 .. Len(h)
    BY <1>1, <1>3, <1>5, <1>2
  <2>2. CASE j \in 1 .. Len(h)
    BY <2>1, <2>2, <1>2, <1>5 DEF HandlersOK
  <2>3. CASE j = Len(h) + 1
    BY <2>1, <2>3, <1>2, <1>4, <1>5
  <2> QED
    BY <2>2, <2>3, <1>3
<1> QED
  BY <1>2, <1>4, <1>5 DEF HandlersOK, t

(* The first of the handlers are in order, for the frames the last of them     *)
(* leaves.                                                                     *)
LEMMA HandlersCut ==
  ASSUME NEW h, NEW n \in Nat, HandlersOK(h, n), NEW m \in 0 .. Len(h), NEW depth \in Nat,
         m # 0 => h[m].frameCount <= depth
  PROVE  HandlersOK(SubSeq(h, 1, m), depth)
<1> DEFINE t == SubSeq(h, 1, m)
<1>1. h \in Seq(ExceptionHandler) /\ Len(h) \in Nat
  BY DEF HandlersOK
<1>2. t \in Seq(ExceptionHandler) /\ Len(t) = m /\ \A i \in 1 .. m : t[i] = h[i]
  BY <1>1, Prefix
<1> HIDE DEF t
<1>3. \A i \in 1 .. m : i \in 1 .. Len(h)
  BY <1>1
<1>4. \A i \in 1 .. m : h[i].frameCount \in 1 .. depth
  <2> SUFFICES ASSUME NEW i \in 1 .. m PROVE h[i].frameCount \in 1 .. depth
    OBVIOUS
  <2>1. m \in 1 .. Len(h) /\ i \in 1 .. Len(h)
    BY <1>1
  <2>2. h[i].frameCount \in 1 .. n /\ h[m].frameCount \in 1 .. n
    BY <2>1 DEF HandlersOK
  <2>3. h[i].frameCount <= h[m].frameCount
    <3>1. CASE i = m
      BY <3>1, <2>2
    <3>2. CASE i < m
      BY <3>2, <2>1 DEF HandlersOK
    <3> QED
      BY <3>1, <3>2
  <2> QED
    BY <2>1, <2>2, <2>3
<1>5. \A i, j \in 1 .. m : i < j => h[i].frameCount <= h[j].frameCount
  BY <1>3 DEF HandlersOK
<1> QED
  BY <1>2, <1>4, <1>5 DEF HandlersOK, t

(* OP_RETURN: the handlers of the frame that ends go with it, and no other.    *)
LEMMA HandlersAbandoned ==
  ASSUME IInv, frames # <<>>
  PROVE  HandlersOK(Abandoned, Len(frames) - 1)
<1> DEFINE live == {0} \cup {i \in DOMAIN handlers : handlers[i].frameCount < Len(frames)}
<1> DEFINE m == Max(live)
<1>1. /\ handlers \in Seq(ExceptionHandler) /\ HandlersOK(handlers, Len(frames))
      /\ Len(handlers) \in Nat /\ DOMAIN handlers = 1 .. Len(handlers)
      /\ Len(frames) \in Nat \ {0}
  BY DEF IInv, HandlersOK
<1>2. live \subseteq 0 .. Len(handlers) /\ 0 \in live
  BY <1>1
<1>3. \E n \in live : \A k \in live : k <= n
  <2> HIDE DEF live
  <2> QED
    BY <1>1, <1>2, GreatestIs
<1>4. m \in live
  <2> HIDE DEF live
  <2> QED
    BY <1>3 DEF Max
<1>5. m \in 0 .. Len(handlers) /\ (m # 0 => handlers[m].frameCount < Len(frames))
  BY <1>4, <1>2
<1>6. m # 0 => handlers[m].frameCount <= Len(frames) - 1
  BY <1>5, <1>1 DEF HandlersOK
<1>7. Abandoned = SubSeq(handlers, 1, m)
  BY DEF Abandoned
<1> HIDE DEF m
<1>8. Len(frames) - 1 \in Nat
  BY <1>1
<1> QED
  BY <1>1, <1>5, <1>6, <1>7, <1>8, HandlersCut

------------------------------------------------------------------------------
(* The nested loops.                                                           *)

(* More frames, or fewer but above the innermost loop's base, leave the loops  *)
(* below the frames.                                                           *)
LEMMA LoopsResized ==
  ASSUME NEW l, NEW n \in Nat, LoopsOK(l, n), NEW m \in Nat,
         l # <<>> => Last(l) < m
  PROVE  LoopsOK(l, m)
<1>1. l \in Seq(Nat) /\ Len(l) \in Nat
  BY DEF LoopsOK
<1>2. ASSUME NEW i \in 1 .. Len(l)
      PROVE  l[i] < m
  <2>1. l # <<>> /\ Len(l) \in 1 .. Len(l) /\ l[i] \in Nat /\ l[Len(l)] \in Nat
    BY <1>1
  <2>2. l[Len(l)] < m
    BY <2>1 DEF Last
  <2>3. CASE i = Len(l)
    BY <2>2, <2>3
  <2>4. CASE i < Len(l)
    <3>1. l[i] < l[Len(l)]
      BY <2>1, <2>4 DEF LoopsOK
    <3> QED
      BY <3>1, <2>1, <2>2
  <2> QED
    BY <2>3, <2>4, <1>1
<1> QED
  BY <1>2 DEF LoopsOK

(* The base of the innermost loop is below the frames.                         *)
LEMMA LoopBelow ==
  ASSUME NEW l, NEW n \in Nat, LoopsOK(l, n), l # <<>>
  PROVE  Last(l) \in Nat /\ Last(l) < n
<1>1. Len(l) \in 1 .. Len(l)
  BY DEF LoopsOK
<1> QED
  BY <1>1 DEF LoopsOK, Last

(* A native calls back: its loop runs what is above the frames there are.      *)
LEMMA LoopsNested ==
  ASSUME NEW l, NEW n \in Nat, LoopsOK(l, n), l # <<>>
  PROVE  LoopsOK(Append(l, n), n + 1)
<1> DEFINE t == Append(l, n)
<1>1. l \in Seq(Nat) /\ Len(l) \in Nat \ {0}
  BY DEF LoopsOK
<1>2. /\ t \in Seq(Nat) /\ Len(t) = Len(l) + 1
      /\ \A i \in 1 .. Len(l) : t[i] = l[i]
      /\ t[Len(l) + 1] = n
  BY <1>1, Appending
<1> HIDE DEF t
<1>3. \A i \in 1 .. Len(t) : i \in 1 .. Len(l) \/ i = Len(l) + 1
  BY <1>1, <1>2
<1>4. \A i \in 1 .. Len(l) : l[i] \in Nat /\ l[i] < n
  BY <1>1 DEF LoopsOK
<1>5. \A i \in 1 .. Len(t) : t[i] < n + 1
  BY <1>2, <1>3, <1>4
<1>6. ASSUME NEW i \in 1 .. Len(t), NEW j \in 1 .. Len(t), i < j
      PROVE  t[i] < t[j]
  <2>1. i \in 1 .. Len(l)
    BY <1>1, <1>2, <1>3, <1>6
  <2>2. CASE j \in 1 .. Len(l)
    BY <2>1, <2>2, <1>2, <1>6 DEF LoopsOK
  <2>3. CASE j = Len(l) + 1
    BY <2>1, <2>3, <1>2, <1>4
  <2> QED
    BY <2>2, <2>3, <1>3
<1>7. t[1] = 0
  <2>1. 1 \in 1 .. Len(l)
    BY <1>1
  <2> QED
    BY <2>1, <1>2 DEF LoopsOK
<1> QED
  BY <1>2, <1>5, <1>6, <1>7 DEF LoopsOK, t

(* The innermost loop returns.                                                 *)
LEMMA LoopsReturned ==
  ASSUME NEW l, NEW n \in Nat, LoopsOK(l, n), l # <<>>
  PROVE  /\ LoopsOK(Front(l), n)
         /\ LoopsOK(Front(l), Last(l))
         /\ Front(l) = <<>> => Last(l) = 0
<1> DEFINE t == Front(l)
<1>1. /\ l \in Seq(Nat) /\ Len(l) \in Nat \ {0}
      /\ t \in Seq(Nat) /\ Len(t) = Len(l) - 1
      /\ Last(l) \in Nat /\ Last(l) = l[Len(l)]
      /\ \A i \in 1 .. Len(l) - 1 : t[i] = l[i]
  BY Resting DEF LoopsOK
<1> HIDE DEF t
<1>2. \A i \in 1 .. Len(t) : i \in 1 .. Len(l) /\ t[i] = l[i] /\ l[i] < l[Len(l)]
  <2>1. \A i \in 1 .. Len(t) :
          i \in 1 .. Len(l) /\ Len(l) \in 1 .. Len(l) /\ i < Len(l) /\ t[i] = l[i]
    BY <1>1
  <2> QED
    BY <2>1 DEF LoopsOK
<1>3. \A i \in 1 .. Len(t) : t[i] < n /\ t[i] < Last(l)
  BY <1>1, <1>2 DEF LoopsOK
<1>4. \A i, j \in 1 .. Len(t) : i < j => t[i] < t[j]
  BY <1>2 DEF LoopsOK
<1>5. t # <<>> => t[1] = 0
  <2>1. t # <<>> => 1 \in 1 .. Len(t)
    BY <1>1
  <2> QED
    BY <2>1, <1>1, <1>2 DEF LoopsOK
<1>6. t = <<>> => Last(l) = 0
  <2>1. t = <<>> => Len(l) = 1
    BY <1>1
  <2>2. l[1] = 0
    BY DEF LoopsOK
  <2> QED
    BY <2>1, <2>2, <1>1
<1> QED
  BY <1>1, <1>3, <1>4, <1>5, <1>6 DEF LoopsOK, t

------------------------------------------------------------------------------
(* The open upvalues.                                                          *)

(* No upvalue is twice in the list.                                            *)
LEMMA OpenOnce ==
  ASSUME NEW o, NEW loc, OpenOK(o, loc),
         NEW i \in 1 .. Len(o), NEW j \in 1 .. Len(o), o[i] = o[j]
  PROVE  i = j
<1>1. loc[o[i]] \in Int
  BY DEF OpenOK
<1>2. i < j => loc[o[i]] > loc[o[j]]
  BY DEF OpenOK
<1>3. j < i => loc[o[j]] > loc[o[i]]
  BY DEF OpenOK
<1>4. i \in Int /\ j \in Int
  BY DEF OpenOK
<1> QED
  BY <1>1, <1>2, <1>3, <1>4

(* Closing the first upvalues of the list leaves the others in order.          *)
LEMMA OpenClosed ==
  ASSUME NEW o, NEW loc, OpenOK(o, loc), NEW n \in 0 .. Len(o),
         NEW after,
         after = [u \in DOMAIN loc |->
                    IF \E i \in 1 .. n : o[i] = u THEN 0 ELSE loc[u]]
  PROVE  OpenOK(SubSeq(o, n + 1, Len(o)), after)
<1> DEFINE t == SubSeq(o, n + 1, Len(o))
<1>1. /\ o \in Seq(Nat) /\ Len(o) \in Nat /\ loc \in Seq(Int)
      /\ Len(loc) \in Nat /\ DOMAIN loc = 1 .. Len(loc)
  BY DEF OpenOK
<1>2. t \in Seq(Nat) /\ Len(t) = Len(o) - n /\ \A i \in 1 .. Len(o) - n : t[i] = o[n + i]
  BY <1>1, Suffix
<1>3. \A u \in 1 .. Len(loc) : loc[u] \in Int
  BY <1>1
<1>4. after \in Seq(Int) /\ Len(after) = Len(loc)
  <2>1. after \in [1 .. Len(loc) -> Int]
    BY <1>1, <1>3
  <2> QED
    BY <2>1, <1>1
<1> HIDE DEF t
<1>5. ASSUME NEW i \in 1 .. Len(t)
      PROVE  n + i \in 1 .. Len(o) /\ t[i] = o[n + i] /\ o[n + i] \in 1 .. Len(loc)
  BY <1>1, <1>2 DEF OpenOK
<1>6. ASSUME NEW i \in 1 .. Len(t)
      PROVE  after[t[i]] = loc[o[n + i]]
  <2>1. ASSUME NEW k \in 1 .. n PROVE o[k] # o[n + i]
    <3>1. k \in 1 .. Len(o) /\ k # n + i
      BY <1>1
    <3> QED
      BY <3>1, <1>5, OpenOnce
  <2> QED
    BY <2>1, <1>5, <1>1
<1>7. ASSUME NEW i \in 1 .. Len(t), NEW j \in 1 .. Len(t), i < j
      PROVE  after[t[i]] > after[t[j]]
  <2>1. n + i < n + j
    BY <1>2, <1>1, <1>7
  <2>2. loc[o[n + i]] > loc[o[n + j]]
    BY <2>1, <1>5 DEF OpenOK
  <2> QED
    BY <2>2, <1>6
<1> QED
  BY <1>2, <1>4, <1>5, <1>7 DEF OpenOK, t

(* Where the walk down the list of open upvalues stops.                        *)
LEMMA ReachedIs ==
  ASSUME OpenOK(open, location), NEW last
  PROVE  /\ Reached(last) \in 0 .. Len(open)
         /\ Reached(last) = Len(open) \/ location[open[Reached(last) + 1]] < last
         /\ \A k \in 0 .. Reached(last) - 1 : ~ (location[open[k + 1]] < last)
<1> DEFINE S == {n \in 0 .. Len(open) : n = Len(open) \/ location[open[n + 1]] < last}
<1>1. Len(open) \in Nat
  BY DEF OpenOK
<1>2. S \subseteq Nat /\ Len(open) \in S
  BY <1>1
<1>3. Min(S) \in S /\ \A k \in S : Min(S) <= k
  <2> HIDE DEF S
  <2> QED
    BY <1>2, LeastIs
<1>4. Reached(last) = Min(S)
  BY DEF Reached
<1> DEFINE r == Min(S)
<1>5. r \in S /\ \A k \in S : r <= k
  BY <1>3
<1> HIDE DEF r
<1>6. r \in 0 .. Len(open) /\ (r = Len(open) \/ location[open[r + 1]] < last)
  BY <1>5
<1>7. ASSUME NEW k \in 0 .. r - 1
      PROVE  ~ (location[open[k + 1]] < last)
  <2>1. k \in 0 .. Len(open) /\ ~ (r <= k)
    BY <1>1, <1>6
  <2>2. k \notin S
    BY <2>1, <1>5
  <2> QED
    BY <2>1, <2>2
<1> QED
  BY <1>4, <1>6, <1>7 DEF r

(* closeUpvalues keeps the order.                                              *)
LEMMA ClosingOK ==
  ASSUME OpenOK(open, location), NEW last, closeUpvalues(last)
  PROVE  OpenOK(open, location)'
<1> DEFINE n == Reached(last)
<1>1. n \in 0 .. Len(open)
  BY ReachedIs
<1>2. /\ open' = SubSeq(open, n + 1, Len(open))
      /\ location' = [u \in DOMAIN location |->
                        IF \E i \in 1 .. n : open[i] = u THEN 0 ELSE location[u]]
  BY DEF closeUpvalues
<1> HIDE DEF n
<1>3. OpenOK(SubSeq(open, n + 1, Len(open)), location')
  BY <1>1, <1>2, OpenClosed
<1> QED
  BY <1>2, <1>3

(* captureUpvalue: the local that is captured takes its place in the order.    *)
LEMMA CapturingOK ==
  ASSUME OpenOK(open, location), NEW local \in Int, captureUpvalue(local)
  PROVE  OpenOK(open, location)'
<1> DEFINE n == Reached(local + 1)
<1> DEFINE new == Len(location) + 1
<1> DEFINE m == n + 1
<1> DEFINE t == InsertAt(open, m, new)
<1> DEFINE loc == Append(location, local)
<1>1. /\ n \in 0 .. Len(open)
      /\ n = Len(open) \/ location[open[n + 1]] < local + 1
      /\ \A k \in 0 .. n - 1 : ~ (location[open[k + 1]] < local + 1)
  BY ReachedIs
<1>2. /\ open \in Seq(Nat) /\ location \in Seq(Int)
      /\ Len(open) \in Nat /\ Len(location) \in Nat
      /\ \A i \in 1 .. Len(open) : open[i] \in 1 .. Len(location) /\ location[open[i]] \in Int
  BY DEF OpenOK
<1>3. CASE n < Len(open) /\ location[open[n + 1]] = local
  BY <1>3 DEF captureUpvalue
<1>4. CASE ~ (n < Len(open) /\ location[open[n + 1]] = local)
  <2>1. open' = t /\ location' = loc
    BY <1>4 DEF captureUpvalue
  <2> HIDE DEF n, m
  <2>2. /\ loc \in Seq(Int) /\ Len(loc) = new
        /\ \A u \in 1 .. Len(location) : loc[u] = location[u]
        /\ loc[new] = local
    BY <1>2, Appending
  <2>3. new \in Nat
    BY <1>2
  <2> HIDE DEF loc, new
  <2>4. /\ t \in Seq(Nat) /\ Len(t) = Len(open) + 1
        /\ \A i \in 1 .. n : t[i] = open[i]
        /\ t[n + 1] = new
        /\ \A i \in n + 1 .. Len(open) : t[i + 1] = open[i]
    <3>1. m \in 1 .. Len(open) + 1 /\ m - 1 = n
      BY <1>1, <1>2 DEF m
    <3>2. Inserted(Nat, open, m, new, t)
      <4>1. open \in Seq(Nat)
        BY <1>2
      <4> QED
        BY <4>1, <3>1, <2>3, Inserting
    <3> HIDE DEF t
    <3> QED
      BY <3>1, <3>2 DEF Inserted, m
  <2> HIDE DEF t
  <2>5. ASSUME NEW i \in 1 .. n
        PROVE  i \in 1 .. Len(open) /\ t[i] = open[i] /\ loc[t[i]] = location[open[i]]
               /\ loc[t[i]] > local
    <3>1. i \in 1 .. Len(open) /\ i - 1 \in 0 .. n - 1 /\ (i - 1) + 1 = i
      BY <1>1, <1>2
    <3>2. ~ (location[open[i]] < local + 1)
      BY <3>1, <1>1
    <3>3. location[open[i]] \in Int /\ open[i] \in 1 .. Len(location)
      BY <3>1, <1>2
    <3>4. t[i] = open[i] /\ loc[t[i]] = location[open[i]]
      BY <3>3, <2>4, <2>2
    <3> QED
      BY <3>1, <3>2, <3>3, <3>4
  <2>6. ASSUME NEW i \in n + 1 .. Len(open)
        PROVE  i \in 1 .. Len(open) /\ t[i + 1] = open[i] /\ loc[t[i + 1]] = location[open[i]]
               /\ loc[t[i + 1]] < local
    <3>1. i \in 1 .. Len(open) /\ n + 1 \in 1 .. Len(open) /\ n < Len(open)
      BY <1>1, <1>2
    <3>2. location[open[n + 1]] \in Int /\ location[open[n + 1]] < local
      <4>1. location[open[n + 1]] \in Int
        BY <3>1, <1>2
      <4>2. location[open[n + 1]] < local + 1
        BY <3>1, <1>1
      <4>3. location[open[n + 1]] # local
        BY <3>1, <1>4
      <4> QED
        BY <4>1, <4>2, <4>3
    <3>3. location[open[i]] < local
      <4>1. CASE i = n + 1
        BY <4>1, <3>2
      <4>2. CASE n + 1 < i
        <5>1. location[open[n + 1]] > location[open[i]]
          BY <4>2, <3>1 DEF OpenOK
        <5>2. location[open[i]] \in Int
          BY <3>1, <1>2
        <5> QED
          BY <5>1, <5>2, <3>2
      <4>3. n \in Int /\ i \in Int /\ n + 1 <= i
        BY <1>1
      <4> QED
        BY <4>1, <4>2, <4>3
    <3>4. open[i] \in 1 .. Len(location)
      BY <3>1, <1>2
    <3>5. t[i + 1] = open[i] /\ loc[t[i + 1]] = location[open[i]]
      BY <3>4, <2>4, <2>2
    <3> QED
      BY <3>1, <3>3, <3>5
  <2>7. \A i \in 1 .. Len(t) :
          i \in 1 .. n \/ i = n + 1 \/ (i - 1 \in n + 1 .. Len(open) /\ (i - 1) + 1 = i)
    BY <1>1, <1>2, <2>4
  <2>8. ASSUME NEW i \in 1 .. Len(t)
        PROVE  t[i] \in 1 .. Len(loc)
    <3>1. CASE i \in 1 .. n
      <4>1. i \in 1 .. Len(open) /\ t[i] = open[i]
        BY <3>1, <2>5
      <4> QED
        BY <4>1, <1>2, <2>2 DEF new
    <3>2. CASE i = n + 1
      BY <3>2, <2>4, <1>2, <2>2 DEF new
    <3>3. CASE i - 1 \in n + 1 .. Len(open) /\ (i - 1) + 1 = i
      <4>1. i - 1 \in 1 .. Len(open) /\ t[i] = open[i - 1]
        BY <3>3, <2>6
      <4> QED
        BY <4>1, <1>2, <2>2 DEF new
    <3> QED
      BY <3>1, <3>2, <3>3, <2>7
  <2>9. ASSUME NEW i \in 1 .. Len(t), NEW j \in 1 .. Len(t), i < j
        PROVE  loc[t[i]] > loc[t[j]]
    <3>1. CASE i \in 1 .. n /\ j \in 1 .. n
      <4>1. location[open[i]] > location[open[j]]
        BY <3>1, <2>5, <2>9 DEF OpenOK
      <4> QED
        BY <4>1, <3>1, <2>5
    <3>2. CASE i \in 1 .. n /\ j = n + 1
      BY <3>2, <2>5, <2>4, <2>2
    <3>3. CASE i \in 1 .. n /\ j - 1 \in n + 1 .. Len(open) /\ (j - 1) + 1 = j
      <4>1. loc[t[i]] > local /\ loc[t[i]] \in Int
        BY <3>3, <2>5, <1>2
      <4>2. loc[t[j]] < local /\ loc[t[j]] \in Int
        <5>1. loc[t[(j - 1) + 1]] < local /\ loc[t[(j - 1) + 1]] \in Int
          BY <3>3, <2>6, <1>2
        <5> QED
          BY <5>1, <3>3
      <4> QED
        BY <4>1, <4>2
    <3>4. CASE i = n + 1 /\ j - 1 \in n + 1 .. Len(open) /\ (j - 1) + 1 = j
      <4>1. loc[t[(j - 1) + 1]] < local
        BY <3>4, <2>6
      <4>2. loc[t[i]] = local
        BY <3>4, <2>4, <2>2
      <4>3. loc[t[j]] < local
        BY <4>1, <3>4
      <4>4. loc[t[j]] \in Int
        BY <2>8, <2>2
      <4> QED
        BY <4>2, <4>3, <4>4
    <3>5. CASE /\ i - 1 \in n + 1 .. Len(open) /\ (i - 1) + 1 = i
               /\ j - 1 \in n + 1 .. Len(open) /\ (j - 1) + 1 = j
      <4>1. i - 1 < j - 1
        BY <3>5, <2>9
      <4>2. i - 1 \in 1 .. Len(open) /\ loc[t[(i - 1) + 1]] = location[open[i - 1]]
        BY <3>5, <2>6
      <4>3. j - 1 \in 1 .. Len(open) /\ loc[t[(j - 1) + 1]] = location[open[j - 1]]
        BY <3>5, <2>6
      <4>4. location[open[i - 1]] > location[open[j - 1]]
        BY <4>1, <4>2, <4>3 DEF OpenOK
      <4> QED
        BY <3>5, <4>2, <4>3, <4>4
    <3>6. i \in Int /\ j \in Int /\ n \in Int
      BY <1>1, <2>4
    <3> QED
      BY <3>1, <3>2, <3>3, <3>4, <3>5, <3>6, <2>7, <2>9
  <2>10. OpenOK(t, loc)
    BY <2>2, <2>4, <2>8, <2>9 DEF OpenOK
  <2> QED
    BY <2>1, <2>10
<1> QED
  BY <1>3, <1>4

------------------------------------------------------------------------------
(* The steps.                                                                  *)

(* The frames, when the innermost one goes on at another instruction.          *)
LEMMA Resuming ==
  ASSUME frames \in Seq(CallFrame), NEW ip \in Nat, Resume(ip)
  PROVE  frames' \in Seq(CallFrame) /\ Len(frames') = Len(frames)
<1> DEFINE n == Len(frames)
<1>1. n \in Nat /\ DOMAIN frames = 1 .. n /\ \A i \in 1 .. n : frames[i] \in CallFrame
  OBVIOUS
<1>2. frames' = [frames EXCEPT ![n].ip = ip]
  BY DEF Resume
<1>3. n \in 1 .. n => [frames[n] EXCEPT !.ip = ip] \in CallFrame
  BY <1>1 DEF CallFrame
<1>4. frames' \in [1 .. n -> CallFrame]
  BY <1>1, <1>2, <1>3
<1> QED
  BY <1>1, <1>4

(* What an instruction finds: a frame, a loop that runs it, an operand.        *)
LEMMA AtWork ==
  ASSUME IInv, NEW op, At(op)
  PROVE  /\ loops # <<>> /\ pending = <<>>
         /\ Len(frames) \in Nat \ {0} /\ frames # <<>>
         /\ Frame \in CallFrame
         /\ Instruction.a \in Nat
         /\ Slot \in Int
<1>1. loops # <<>> /\ pending = <<>> /\ Instruction \in [op : {op}, a : Nat]
  BY DEF At, Running
<1>2. frames \in Seq(CallFrame) /\ Len(frames) \in Nat /\ LoopsOK(loops, Len(frames))
  BY DEF IInv
<1>3. Last(loops) \in Nat /\ Last(loops) < Len(frames)
  BY <1>1, <1>2, LoopBelow
<1>4. Len(frames) \in Nat \ {0} /\ frames # <<>>
  BY <1>2, <1>3
<1>5. Frame \in CallFrame
  BY <1>2, <1>4, Resting DEF Frame
<1>6. Instruction.a \in Nat
  BY <1>1
<1>7. Slot \in Int
  BY <1>5, <1>6 DEF Slot, CallFrame
<1> QED
  BY <1>1, <1>4, <1>5, <1>6, <1>7

(* An instruction that only moves values and the instruction pointer.          *)
LEMMA QuietStep ==
  ASSUME IInv, loops # <<>>, NEW ip \in Nat, Resume(ip), top' \in Int,
         UNCHANGED <<microtasks, handlers, open, location, loops>>
  PROVE  IInv'
<1>1. frames' \in Seq(CallFrame) /\ Len(frames') = Len(frames)
  BY Resuming DEF IInv
<1> QED
  BY <1>1 DEF IInv

(* The next instruction has a place too.                                       *)
LEMMA Advancing ==
  ASSUME IInv, Frame \in CallFrame, Advance
  PROVE  Frame.ip + 1 \in Nat /\ Resume(Frame.ip + 1)
BY DEF Advance, CallFrame

(* A call, of a function by another or by a native: one frame more.            *)
LEMMA Calling ==
  ASSUME IInv, Frame \in CallFrame, frames # <<>>, NEW f \in Nat,
         frames' = Append([frames EXCEPT ![Len(frames)].ip = @ + 1], callClosure(f))
  PROVE  frames' \in Seq(CallFrame) /\ Len(frames') = Len(frames) + 1
<1> DEFINE n == Len(frames)
<1> DEFINE caller == [frames EXCEPT ![n].ip = @ + 1]
<1>1. /\ n \in Nat \ {0} /\ DOMAIN frames = 1 .. n
      /\ \A i \in 1 .. n : frames[i] \in CallFrame
  BY DEF IInv
<1>2. [frames[n] EXCEPT !.ip = @ + 1] \in CallFrame
  <2>1. frames[n] \in CallFrame
    BY <1>1
  <2> QED
    BY <2>1 DEF CallFrame
<1>3. caller \in [1 .. n -> CallFrame]
  BY <1>1, <1>2
<1>4. caller \in Seq(CallFrame) /\ Len(caller) = n
  BY <1>1, <1>3
<1>5. callClosure(f) \in CallFrame
  BY DEF callClosure, CallFrame, IInv
<1> DEFINE callee == callClosure(f)
<1>6. callee \in CallFrame
  BY <1>5
<1> DEFINE t == Append(caller, callee)
<1>7. frames' = t
  OBVIOUS
<1> HIDE DEF caller, callee
<1>8. t \in Seq(CallFrame) /\ Len(t) = n + 1
  BY <1>4, <1>6, Appending
<1> HIDE DEF t
<1> QED
  BY <1>7, <1>8

(* A throw, wherever it comes from: it is parked, or a handler takes it.       *)
LEMMA Throwing ==
  ASSUME IInv, loops # <<>>, NEW thrown, performThrow(thrown), UNCHANGED microtasks
  PROVE  IInv'
<1>1. /\ top \in Int /\ microtasks \in Seq(Nat) /\ frames \in Seq(CallFrame)
      /\ Len(frames) \in Nat
      /\ HandlersOK(handlers, Len(frames)) /\ LoopsOK(loops, Len(frames))
      /\ OpenOK(open, location)
  BY DEF IInv
<1>2. CASE handlers = <<>> \/ Last(handlers).frameCount <= Last(loops)
  <2>1. /\ pending' = <<thrown>> /\ loops' = Front(loops)
        /\ UNCHANGED <<top, frames, handlers, open, location>>
    BY <1>2 DEF performThrow, Propagate
  <2>2. LoopsOK(loops', Len(frames))
    BY <1>1, <2>1, LoopsReturned
  <2>3. pending' # <<>>
    BY <2>1
  <2> QED
    BY <1>1, <2>1, <2>2, <2>3 DEF IInv
<1>3. CASE ~ (handlers = <<>> \/ Last(handlers).frameCount <= Last(loops))
  <2> DEFINE handler == Last(handlers)
  <2> DEFINE depth == handler.frameCount
  <2> DEFINE kept2 == SubSeq(frames, 1, depth)
  <2>1. Handle(thrown)
    BY <1>3 DEF performThrow
  <2>2. /\ handlers \in Seq(ExceptionHandler) /\ handlers # <<>>
        /\ Len(handlers) \in Nat \ {0}
    BY <1>1, <1>3 DEF HandlersOK
  <2>3. /\ handler \in ExceptionHandler /\ handler = handlers[Len(handlers)]
        /\ Front(handlers) = SubSeq(handlers, 1, Len(handlers) - 1)
    BY <2>2, Resting DEF Front
  <2>4. depth \in 1 .. Len(frames) /\ depth \in Nat \ {0}
    <3>1. Len(handlers) \in 1 .. Len(handlers)
      BY <2>2
    <3> QED
      BY <3>1, <2>3, <1>1 DEF HandlersOK
  <2>5. handler.stackTop \in Int /\ handler.ip \in Nat
    BY <2>3 DEF ExceptionHandler
  <2>6. Last(loops) < depth
    BY <1>3, <1>1, <2>4, LoopBelow
  <2>7. HandlersOK(Front(handlers), depth)
    <3> DEFINE l == Len(handlers)
    <3> DEFINE m == l - 1
    <3>3. l \in Nat /\ l >= 1 /\ handler = handlers[l]
      BY <2>2, <2>3
    <3>4. \A i, j \in 1 .. l : i < j => handlers[i].frameCount <= handlers[j].frameCount
      BY <1>1 DEF HandlersOK
    <3> HIDE DEF l
    <3>1. m \in 0 .. l
      BY <3>3
    <3>2. m # 0 => handlers[m].frameCount <= depth
      <4>1. m # 0 => m \in 1 .. l /\ l \in 1 .. l /\ m < l
        BY <3>3
      <4> QED
        BY <4>1, <3>3, <3>4
    <3> HIDE DEF m, depth
    <3>5. HandlersOK(SubSeq(handlers, 1, m), depth)
      BY <3>1, <3>2, <1>1, <2>4, HandlersCut DEF l
    <3> QED
      BY <3>5, <2>3 DEF m, l
  <2>8. LoopsOK(loops, depth)
    <3> HIDE DEF depth
    <3> QED
      BY <1>1, <2>4, <2>6, LoopsResized
  <2>9. kept2 \in Seq(CallFrame) /\ Len(kept2) = depth
    <3> HIDE DEF depth
    <3>1. depth \in 0 .. Len(frames)
      BY <2>4
    <3> QED
      BY <3>1, <1>1, Prefix
  <2>10. /\ pending' = <<>> /\ handlers' = Front(handlers)
         /\ frames' = [kept2 EXCEPT ![depth].ip = handler.ip]
         /\ UNCHANGED loops
    BY <2>1 DEF Handle
  <2>11. frames' \in Seq(CallFrame) /\ Len(frames') = depth
    <3> HIDE DEF handler, depth, kept2
    <3>1. DOMAIN kept2 = 1 .. depth /\ \A i \in 1 .. depth : kept2[i] \in CallFrame
      BY <2>9
    <3>2. [kept2[depth] EXCEPT !.ip = handler.ip] \in CallFrame
      BY <3>1, <2>4, <2>5 DEF CallFrame
    <3>3. frames' \in [1 .. depth -> CallFrame]
      BY <3>1, <3>2, <2>10
    <3> QED
      BY <3>3, <2>4
  <2>12. OpenOK(open, location)'
    <3>1. PICK last : closeUpvalues(last)
      BY <2>1, Zenon DEF Handle
    <3> QED
      BY <3>1, <1>1, ClosingOK
  <2>13. top' \in Int
    BY <2>1, <2>5 DEF Handle, PushAt
  <2> HIDE DEF handler, depth, kept2
  <2> QED
    BY <1>1, <2>7, <2>8, <2>10, <2>11, <2>12, <2>13 DEF IInv
<1> QED
  BY <1>2, <1>3

(* A function returns, to its caller or out of the loop that ran it.           *)
LEMMA Returning ==
  ASSUME IInv, OpReturn
  PROVE  IInv'
<1> DEFINE ends == Len(frames) = Last(loops) + 1
<1>1. /\ top \in Int /\ microtasks \in Seq(Nat) /\ frames \in Seq(CallFrame)
      /\ HandlersOK(handlers, Len(frames)) /\ LoopsOK(loops, Len(frames))
      /\ OpenOK(open, location)
  BY DEF IInv
<1>2. /\ loops # <<>> /\ Len(frames) \in Nat \ {0} /\ frames # <<>>
      /\ Frame \in CallFrame
  BY AtWork DEF OpReturn
<1>3. /\ handlers' = Abandoned /\ closeUpvalues(Frame.slots) /\ frames' = Front(frames)
      /\ loops' = (IF ends THEN Front(loops) ELSE loops)
      /\ UNCHANGED <<microtasks, pending>>
      /\ top' = Frame.slots - 1 \/ top' = Frame.slots
  BY DEF OpReturn
<1>4. Frame.slots \in Int
  BY <1>2 DEF CallFrame
<1>5. frames' \in Seq(CallFrame) /\ Len(frames') = Len(frames) - 1
  BY <1>1, <1>2, <1>3, Resting
<1>6. HandlersOK(handlers', Len(frames) - 1)
  BY <1>2, <1>3, HandlersAbandoned
<1>7. OpenOK(open, location)'
  BY <1>1, <1>3, ClosingOK
<1>8. Last(loops) \in Nat /\ Last(loops) < Len(frames)
  BY <1>1, <1>2, LoopBelow
<1>9. /\ LoopsOK(loops', Len(frames) - 1)
      /\ loops' = <<>> => Len(frames) - 1 = 0
  <2>1. CASE ends
    <3>1. /\ LoopsOK(Front(loops), Last(loops))
          /\ Front(loops) = <<>> => Last(loops) = 0
      BY <1>1, <1>2, LoopsReturned
    <3>2. Len(frames) - 1 = Last(loops)
      BY <2>1, <1>8, <1>2
    <3> QED
      BY <2>1, <3>1, <3>2, <1>3
  <2>2. CASE ~ ends
    <3>1. Len(frames) - 1 \in Nat /\ Last(loops) < Len(frames) - 1
      BY <2>2, <1>8, <1>2
    <3>2. LoopsOK(loops, Len(frames) - 1)
      <4> DEFINE m == Len(frames) - 1
      <4>1. m \in Nat /\ Last(loops) < m
        BY <3>1
      <4> HIDE DEF m
      <4>2. LoopsOK(loops, m)
        BY <4>1, <1>1, <1>2, LoopsResized
      <4> QED
        BY <4>2 DEF m
    <3> QED
      BY <3>2, <2>2, <1>2, <1>3
  <2> QED
    BY <2>1, <2>2
<1>10. loops' = <<>> => frames' = <<>>
  BY <1>9, <1>5
<1>11. top' \in Int
  BY <1>3, <1>4
<1> QED
  BY <1>1, <1>3, <1>5, <1>6, <1>7, <1>9, <1>10, <1>11 DEF IInv

(* The event loop calls a handler: no function runs, so no handler is left.    *)
LEMMA Reacting ==
  ASSUME IInv, RunReaction
  PROVE  IInv'
<1>1. /\ top \in Int /\ microtasks \in Seq(Nat) /\ microtasks # <<>>
      /\ frames = <<>> /\ HandlersOK(handlers, Len(frames)) /\ OpenOK(open, location)
  BY DEF IInv, RunReaction
<1>2. Head(microtasks) \in Nat /\ Tail(microtasks) \in Seq(Nat)
  BY <1>1
<1>3. /\ microtasks' = Tail(microtasks) /\ top' = top + 1 /\ loops' = <<0>>
      /\ frames' = <<callClosure(Head(microtasks))>>
      /\ UNCHANGED <<pending, handlers, open, location>>
  BY DEF RunReaction, PushAt, captured
<1>4. callClosure(Head(microtasks)) \in CallFrame
  BY <1>1, <1>2 DEF callClosure, CallFrame
<1>5. frames' \in Seq(CallFrame) /\ Len(frames') = 1
  BY <1>3, <1>4
<1>6. HandlersOK(handlers, 1)
  <2>1. Len(frames) = 0
    BY <1>1
  <2> QED
    BY <1>1, <2>1, HandlersDeeper
<1>7. LoopsOK(loops', 1)
  BY <1>3 DEF LoopsOK
<1> QED
  BY <1>1, <1>2, <1>3, <1>5, <1>6, <1>7 DEF IInv

(* Each step of the machine keeps its lists in order.                          *)
LEMMA StepKeeps ==
  ASSUME IInv, [Next]_vars
  PROVE  IInv'
<1>1. ASSUME NEW op, At(op)
      PROVE  /\ loops # <<>> /\ pending = <<>> /\ top \in Int
             /\ Len(frames) \in Nat \ {0} /\ frames # <<>>
             /\ Frame \in CallFrame /\ Instruction.a \in Nat /\ Slot \in Int
             /\ Frame.ip + 1 \in Nat
  BY <1>1, AtWork DEF IInv, CallFrame
<1>2. ASSUME NEW op, At(op), Advance, top' \in Int,
             UNCHANGED <<microtasks, handlers, open, location, loops>>
      PROVE  IInv'
  BY <1>1, <1>2, Advancing, QuietStep
<1>3. CASE OpConstant
  <2>1. At("CONSTANT") /\ Advance /\ top' = top + 1
        /\ UNCHANGED <<microtasks, handlers, open, location, loops>>
    BY <1>3 DEF OpConstant, PushAt, machine, captured
  <2> QED
    BY <2>1, <1>1, <1>2
<1>4. CASE OpGetLocal
  <2>1. At("GET_LOCAL") /\ Advance /\ top' = top + 1
        /\ UNCHANGED <<microtasks, handlers, open, location, loops>>
    BY <1>4 DEF OpGetLocal, PushAt, machine, captured
  <2> QED
    BY <2>1, <1>1, <1>2
<1>5. CASE OpSetLocalPop
  <2>1. At("SET_LOCAL_POP") /\ Advance /\ top' = top - 1
        /\ UNCHANGED <<microtasks, handlers, open, location, loops>>
    BY <1>5 DEF OpSetLocalPop, machine, captured
  <2> QED
    BY <2>1, <1>1, <1>2
<1>6. CASE OpIncLocal
  <2>1. At("INC_LOCAL") /\ Advance /\ top' = top
        /\ UNCHANGED <<microtasks, handlers, open, location, loops>>
    BY <1>6 DEF OpIncLocal, machine, captured
  <2> QED
    BY <2>1, <1>1, <1>2
<1>7. CASE OpPop
  <2>1. At("POP") /\ Advance /\ top' = top - 1
        /\ UNCHANGED <<microtasks, handlers, open, location, loops>>
    BY <1>7 DEF OpPop, machine, captured
  <2> QED
    BY <2>1, <1>1, <1>2
<1>8. CASE OpCloseUpvalue
  <2>1. /\ At("CLOSE_UPVALUE") /\ Advance /\ top' = top - 1 /\ closeUpvalues(top)
        /\ UNCHANGED <<microtasks, pending, handlers, loops>>
    BY <1>8 DEF OpCloseUpvalue, machine
  <2>2. /\ loops # <<>> /\ Frame \in CallFrame /\ top' \in Int
        /\ OpenOK(open, location)'
    BY <2>1, <1>1, ClosingOK DEF IInv
  <2>3. frames' \in Seq(CallFrame) /\ Len(frames') = Len(frames)
    BY <2>1, <2>2, Advancing, Resuming DEF IInv
  <2> QED
    BY <2>1, <2>2, <2>3 DEF IInv
<1>9. CASE Log
  <2>1. At("LOG") /\ Advance /\ top' = top - 1
        /\ UNCHANGED <<microtasks, handlers, open, location, loops>>
    BY <1>9 DEF Log, machine, captured
  <2> QED
    BY <2>1, <1>1, <1>2
<1>10. CASE OpJump
  <2>1. /\ At("JUMP") \/ At("LOOP")
        /\ Resume(Instruction.a) /\ top' = top
        /\ UNCHANGED <<microtasks, handlers, open, location, loops>>
    BY <1>10 DEF OpJump, machine, captured
  <2>2. loops # <<>> /\ top \in Int /\ Instruction.a \in Nat
    BY <2>1, <1>1
  <2> QED
    BY <2>1, <2>2, QuietStep
<1>11. CASE OpJumpIfFalse
  <2>1. /\ At("JUMP_IF_FALSE") /\ top' = top
        /\ Resume(Frame.ip + 1) \/ Resume(Instruction.a)
        /\ UNCHANGED <<microtasks, handlers, open, location, loops>>
    BY <1>11, Zenon DEF OpJumpIfFalse, machine, captured
  <2>2. loops # <<>> /\ top \in Int /\ Instruction.a \in Nat /\ Frame.ip + 1 \in Nat
    BY <2>1, <1>1
  <2> QED
    BY <2>1, <2>2, QuietStep
<1>12. CASE OpIterStep
  <2>1. /\ At("ITER_STEP")
        /\ \/ top' = top - 2 + 1 /\ Advance
           \/ top' = top - 2 /\ Resume(Instruction.a)
        /\ UNCHANGED <<microtasks, handlers, open, location, loops>>
    BY <1>12 DEF OpIterStep, PushAt, machine, captured
  <2>2. loops # <<>> /\ top \in Int /\ Instruction.a \in Nat /\ Frame.ip + 1 \in Nat
        /\ top' \in Int
    BY <2>1, <1>1
  <2> QED
    BY <2>1, <2>2, QuietStep DEF Advance
<1>13. CASE OpClosure
  <2>1. /\ At("CLOSURE") /\ Advance /\ captureUpvalue(Slot)
        /\ UNCHANGED <<microtasks, pending, handlers, loops, top>>
    BY <1>13 DEF OpClosure, machine
  <2>2. /\ loops # <<>> /\ Frame \in CallFrame /\ Slot \in Int
    BY <2>1, <1>1
  <2>3. OpenOK(open, location)'
    BY <2>1, <2>2, CapturingOK DEF IInv
  <2>4. frames' \in Seq(CallFrame) /\ Len(frames') = Len(frames)
    BY <2>1, <2>2, Advancing, Resuming DEF IInv
  <2> QED
    BY <2>1, <2>2, <2>3, <2>4 DEF IInv
<1>14. CASE OpCall
  <2>1. /\ At("CALL") /\ top' = top + 1
        /\ frames' = Append([frames EXCEPT ![Len(frames)].ip = @ + 1], callClosure(Instruction.a))
        /\ UNCHANGED <<microtasks, pending, handlers, open, location, loops>>
    BY <1>14 DEF OpCall, PushAt, machine, captured
  <2>2. /\ loops # <<>> /\ frames # <<>> /\ Frame \in CallFrame /\ Instruction.a \in Nat
        /\ Len(frames) \in Nat /\ top' \in Int
    BY <2>1, <1>1
  <2>3. frames' \in Seq(CallFrame) /\ Len(frames') = Len(frames) + 1
    BY <2>1, <2>2, Calling
  <2>4. Len(frames) + 1 \in Nat /\ Len(frames) <= Len(frames) + 1
        /\ Last(loops) < Len(frames) + 1
    BY <2>2, LoopBelow DEF IInv
  <2>5. HandlersOK(handlers, Len(frames) + 1) /\ LoopsOK(loops, Len(frames) + 1)
    <3> DEFINE m == Len(frames) + 1
    <3>1. m \in Nat /\ Len(frames) <= m /\ Last(loops) < m
      BY <2>4
    <3> HIDE DEF m
    <3>2. HandlersOK(handlers, m)
      BY <3>1, <2>2, HandlersDeeper DEF IInv
    <3>3. LoopsOK(loops, m)
      BY <3>1, <2>2, LoopsResized DEF IInv
    <3> QED
      BY <3>2, <3>3 DEF m
  <2> QED
    BY <2>1, <2>2, <2>3, <2>5 DEF IInv
<1>15. CASE OpCallback
  <2>1. /\ At("CALLBACK") /\ top' = top + 1 /\ loops' = Append(loops, Len(frames))
        /\ frames' = Append([frames EXCEPT ![Len(frames)].ip = @ + 1], callClosure(Instruction.a))
        /\ UNCHANGED <<microtasks, pending, handlers, open, location>>
    BY <1>15 DEF OpCallback, PushAt, machine, captured
  <2>2. /\ loops # <<>> /\ frames # <<>> /\ Frame \in CallFrame /\ Instruction.a \in Nat
        /\ Len(frames) \in Nat /\ top' \in Int
    BY <2>1, <1>1
  <2>3. frames' \in Seq(CallFrame) /\ Len(frames') = Len(frames) + 1
    BY <2>1, <2>2, Calling
  <2>4. HandlersOK(handlers, Len(frames) + 1)
    <3> DEFINE m == Len(frames) + 1
    <3>1. m \in Nat /\ Len(frames) <= m
      BY <2>2
    <3> HIDE DEF m
    <3>2. HandlersOK(handlers, m)
      BY <3>1, <2>2, HandlersDeeper DEF IInv
    <3> QED
      BY <3>2 DEF m
  <2>5. LoopsOK(Append(loops, Len(frames)), Len(frames) + 1)
    BY <2>2, LoopsNested DEF IInv
  <2>6. loops' # <<>>
    BY <2>1 DEF IInv, LoopsOK
  <2> QED
    BY <2>1, <2>2, <2>3, <2>4, <2>5, <2>6 DEF IInv
<1>16. CASE OpTry
  <2> DEFINE r == [frameCount |-> Len(frames), stackTop |-> top, ip |-> Instruction.a]
  <2>1. /\ At("TRY") /\ Advance /\ handlers' = Append(handlers, r)
        /\ UNCHANGED <<microtasks, pending, top, open, location, loops>>
    BY <1>16 DEF OpTry, machine, captured
  <2>2. /\ loops # <<>> /\ Frame \in CallFrame /\ Len(frames) \in Nat \ {0}
        /\ Instruction.a \in Nat /\ top \in Int
    BY <2>1, <1>1
  <2>3. r \in ExceptionHandler /\ r.frameCount = Len(frames)
    BY <2>2 DEF ExceptionHandler
  <2> HIDE DEF r
  <2>4. HandlersOK(Append(handlers, r), Len(frames))
    BY <2>2, <2>3, HandlersPushed DEF IInv
  <2>5. frames' \in Seq(CallFrame) /\ Len(frames') = Len(frames)
    BY <2>1, <2>2, Advancing, Resuming DEF IInv
  <2> QED
    BY <2>1, <2>2, <2>4, <2>5 DEF IInv
<1>17. CASE OpEndTry
  <2>1. /\ At("END_TRY") /\ Advance /\ handlers # <<>> /\ handlers' = Front(handlers)
        /\ UNCHANGED <<microtasks, pending, top, open, location, loops>>
    BY <1>17 DEF OpEndTry, machine, captured
  <2>2. /\ loops # <<>> /\ Frame \in CallFrame /\ Len(frames) \in Nat /\ top \in Int
    BY <2>1, <1>1
  <2>3. HandlersOK(Front(handlers), Len(frames))
    <3> DEFINE l == Len(handlers)
    <3> DEFINE m == l - 1
    <3>1. l \in Nat /\ l >= 1
      BY <2>1 DEF IInv, HandlersOK
    <3> HIDE DEF l
    <3>2. m \in 0 .. l
      BY <3>1
    <3>3. m # 0 => m \in 1 .. l
      BY <3>1
    <3> HIDE DEF m
    <3>4. m # 0 => handlers[m].frameCount <= Len(frames)
      BY <3>3, <2>2 DEF IInv, HandlersOK, l
    <3>5. HandlersOK(SubSeq(handlers, 1, m), Len(frames))
      BY <3>2, <3>4, <2>2, HandlersCut DEF IInv, l
    <3> QED
      BY <3>5 DEF Front, m, l
  <2>4. frames' \in Seq(CallFrame) /\ Len(frames') = Len(frames)
    BY <2>1, <2>2, Advancing, Resuming DEF IInv
  <2> QED
    BY <2>1, <2>2, <2>3, <2>4 DEF IInv
<1>18. CASE OpThrow
  <2>1. At("THROW") /\ performThrow(stack[top]) /\ UNCHANGED microtasks
    BY <1>18 DEF OpThrow
  <2>2. loops # <<>>
    BY <2>1, <1>1
  <2> QED
    BY <2>1, <2>2, Throwing
<1>19. CASE HandleFailedCall
  <2>1. loops # <<>> /\ performThrow(pending[1]) /\ UNCHANGED microtasks
    BY <1>19 DEF HandleFailedCall
  <2> QED
    BY <2>1, Throwing
<1>20. CASE OpReturn
  BY <1>20, Returning
<1>21. CASE RunReaction
  BY <1>21, Reacting
<1>22. CASE Escape
  <2>1. /\ loops' = <<>> /\ frames' = <<>> /\ handlers' = <<>> /\ open' = <<>> /\ top' = 0
        /\ UNCHANGED <<microtasks, location>>
    BY <1>22 DEF Escape
  <2>2. HandlersOK(<<>>, 0) /\ LoopsOK(<<>>, 0)
    BY DEF HandlersOK, LoopsOK
  <2>3. OpenOK(<<>>, location)
    BY DEF OpenOK, IInv
  <2>4. <<>> \in Seq(CallFrame) /\ Len(<<>>) = 0
    OBVIOUS
  <2> QED
    BY <2>1, <2>2, <2>3, <2>4 DEF IInv
<1>23. CASE UNCHANGED vars
  BY <1>23 DEF vars, machine, captured, IInv
<1>24. Done => UNCHANGED vars
  BY DEF Done
<1> QED
  BY <1>3, <1>4, <1>5, <1>6, <1>7, <1>8, <1>9, <1>10, <1>11, <1>12, <1>13, <1>14,
     <1>15, <1>16, <1>17, <1>18, <1>19, <1>20, <1>21, <1>22, <1>23, <1>24, Zenon DEF Next

(* The first state has none of the lists, but the jobs of the program.         *)
LEMMA InitKeeps ==
  ASSUME Init
  PROVE  IInv
<1>1. program \in Programs /\ microtasks = program.jobs
  BY DEF Init
<1>2. microtasks \in Seq(Nat)
  BY <1>1, MachineAssumption
<1> QED
  BY <1>2 DEF Init, IInv, HandlersOK, LoopsOK, OpenOK

------------------------------------------------------------------------------
(* For every program, the handlers follow the frames and the open upvalues the *)
(* addresses, in every state.  So performThrow finds the innermost handler at  *)
(* the end of vm.handlers, OP_RETURN takes away those of the frame that ends   *)
(* and no other, and the searches of vm.openUpvalues may stop where they do.   *)
THEOREM ListsStayInOrder == Spec => []ListsInOrder
<1>1. Init => IInv
  BY InitKeeps
<1>2. IInv /\ [Next]_vars => IInv'
  BY StepKeeps
<1>3. IInv => ListsInOrder
  <2> SUFFICES ASSUME IInv PROVE ListsInOrder
    OBVIOUS
  <2>1. /\ DOMAIN handlers = 1 .. Len(handlers)
        /\ HandlersOK(handlers, Len(frames))
    BY DEF IInv, HandlersOK
  <2>2. /\ DOMAIN open = 1 .. Len(open)
        /\ OpenOK(open, location)
    BY DEF IInv, OpenOK
  <2> QED
    BY <2>1, <2>2 DEF ListsInOrder, HandlersOK, OpenOK
<1> QED
  BY <1>1, <1>2, <1>3, PTL DEF Spec
==============================================================================
