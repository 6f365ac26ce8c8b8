----------------------------- MODULE MCUnwinding ------------------------------
(* Programs for Unwinding.  The passing run takes the families that end one    *)
(* way or another in all the code between two statements; each of the others   *)
(* is a family the code does not do justice to (see README.md).                *)
EXTENDS Unwinding

CONSTANT Families  \* the families of programs of a run

Source(functions, jobs, tape) == [functions |-> functions, jobs |-> jobs, tape |-> tape]

Guarded(body, x, catch) == Try(<<Say(Entry)>> \o body, x, catch, <<Say(Exit)>>)

(* The ways out of a block: past its end, by a jump, by a throw, by a call.    *)
Exits == {<<>>, <<Throw(1)>>, <<Return(2)>>, <<Break(None)>>, <<Continue(None)>>,
          <<Call(2)>>, <<Callback(2)>>}

Quiet == {<<Show("e")>>, <<Return(3)>>, <<Break(None)>>, <<Continue(None)>>}

InnerTries ==
  {Guarded(b, None, None) : b \in Exits}
  \cup {Guarded(b, "e", c) : b \in Exits, c \in Quiet}
  \cup {Try(b, "e", c, None) : b \in Exits, c \in Quiet \cup {<<Show("e"), Throw(4)>>}}

OuterTries(body) ==
  {Guarded(body, None, None), Guarded(body, "e", <<Show("e")>>), Try(body, None, <<Say(5)>>, None)}

Callees == {<<Throw(6)>>, <<Guarded(<<Throw(6)>>, None, None)>>, <<Guarded(<<Return(7)>>, None, None)>>}

(* A try in a try in a loop, with a way out at each level; what is called      *)
(* after the loop may throw, past every handler of the loop.                   *)
Tries ==
  {Source(<< <<While(None, <<Block(<<outer, Say(8)>>)>>), Call(2), Say(9)>>, callee>>, <<1>>, <<TRUE, TRUE>>) :
     outer \in UNION {OuterTries(<<inner>> \o exit) : inner \in InnerTries, exit \in Exits \ {<<>>}},
     callee \in Callees}

Loop(kind, label, x, body) ==
  CASE kind = "while"   -> While(label, <<Block(<<Let(x, 3)>> \o body)>>)
    [] kind = "doWhile" -> DoWhile(label, <<Block(<<Let(x, 3)>> \o body)>>)
    [] kind = "for"     -> For(label, x, <<Block(body)>>)
    [] kind = "forOf"   -> ForOf(label, x, <<Block(body)>>)

Kinds == {"while", "doWhile", "for", "forOf"}

(* A loop in a loop that capture their variables before they are left.  A      *)
(* continue never repeats a for.                                               *)
Captures ==
  {Source(<< <<Loop(p.outer, "a", "x",
                    <<Keep("x"), Bump("x"),
                      Loop(p.inner, None, "y",
                           <<Let("z", 4), Keep("y"), Keep("x"), Keep("z"), Bump("y"), If(p.exit), Bump("z")>>),
                      Show("x")>>),
               Let("last", 9), Show("last")>> >>, <<1>>, tape) :
     p \in {q \in [outer : Kinds, inner : Kinds,
                   exit : {<<Break(None)>>, <<Break("a")>>, <<Continue(None)>>, <<Continue("a")>>, <<Return(2)>>}] :
              /\ q.inner = "for" => q.exit # <<Continue(None)>>
              /\ q.outer = "for" => q.exit # <<Continue("a")>>},
     tape \in {<<TRUE, TRUE, FALSE, TRUE, TRUE, TRUE>>, <<TRUE, TRUE, TRUE, TRUE, TRUE, FALSE>>,
               <<TRUE, TRUE, FALSE, TRUE, FALSE, FALSE, TRUE>>}}

(* A throw through frames, and through a native, that have captured locals.    *)
Calls ==
  {Source(<< <<Let("x", 1), Keep("x"), Try(<<Let("y", 2), Keep("y"), f, Bump("y")>>, "e", <<Keep("e"), Show("e")>>, None),
               Bump("x"), Let("z", 3), Keep("z")>>,
             <<Let("x", 4), Block(<<Let("y", 5), Keep("y"), Bump("y"), Keep("x")>>), Let("z", 6), Keep("z"), g, Bump("z"), Return(7)>>,
             <<Let("w", 8), Keep("w"), Keep("w"), Bump("w"), If(<<Throw(10)>>), Bump("w")>> >>,
          <<1, 3, 1>>, tape) :
     f \in {Call(2), Callback(2)}, g \in {Call(3), Callback(3)},
     tape \in {<<>>, <<TRUE>>, <<FALSE, FALSE, TRUE>>, <<TRUE, FALSE, TRUE>>}}

(* A switch and a labelled statement, left from inside a try.                  *)
Targets ==
  {Source(<< <<While("a", <<Block(<<s, Say(8)>>)>>), Say(9)>>, <<Throw(6)>> >>, <<1, 2>>, tape) :
     s \in {Switch(<<Guarded(b, None, None), Say(5)>>, c) : b \in Exits, c \in {None, <<Break(None)>>, <<Say(4)>>}}
           \cup {Labeled("b", <<Block(<<Guarded(b, "e", c), Say(5)>>)>>) :
                   b \in {<<Break("b")>>, <<Break("a")>>, <<Continue("a")>>, <<Throw(1)>>},
                   c \in {<<Break("b")>>, <<Break("a")>>}},
     tape \in {<<TRUE, TRUE, TRUE, FALSE>>, <<TRUE, FALSE>>}}

(* One program for each of the other families.                                 *)
One(body) == {Source(<<body>>, <<1>>, <<TRUE, FALSE, TRUE>>)}

Rethrow == One(<<Guarded(<<Throw(1)>>, "e", <<Throw(4)>>)>>)
Bound   == One(<<Try(<<Return(1)>>, None, None, <<Let("y", 5), Show("y")>>)>>)
Bare    == One(<<While(None, <<Guarded(<<Break(None)>>, None, None)>>)>>)
Nearest == One(<<While(None, <<Labeled("a", <<Block(<<Break(None)>>)>>), Say(1)>>)>>)
Skip    == One(<<For(None, "x", <<Block(<<Keep("x"), If(<<Continue(None)>>), Continue(None)>>)>>)>>)
Hidden  == One(<<For(None, "x", <<Block(<<Try(<<Keep("x")>>, None, None, <<>>)>>)>>)>>)
Early   == {Source(<< <<While("a", <<Block(<<Let("x", 1), While(None, <<Block(<<If(<<Break("a")>>), Keep("x")>>)>>)>>)>>),
                       Let("y", 5)>> >>, <<1>>, <<TRUE, TRUE, FALSE, TRUE, TRUE>>)}
Escaped == {Source(<< <<Let("x", 1), Keep("x"), Throw(2)>>, <<Let("y", 5)>> >>, <<1, 2>>, <<>>)}

Family ==
  [tries |-> Tries, captures |-> Captures, calls |-> Calls, targets |-> Targets,
   rethrow |-> Rethrow, bound |-> Bound, bare |-> Bare, nearest |-> Nearest,
   skip |-> Skip, hidden |-> Hidden, early |-> Early, escaped |-> Escaped]

MCPrograms == {Compiled(source) : source \in UNION {Family[name] : name \in Families}}

Sound    == {"tries", "captures", "calls", "targets"}
Rethrows == {"rethrow"}
==============================================================================
