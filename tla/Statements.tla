----------------------------- MODULE Statements ------------------------------
(* The statements of a program, as the parser hands them to the compiler       *)
(* (include/cscript/ast.h): a record [is, label, name, value, parts].  Each of *)
(* the parts is a sequence of statements, or None where it is not written.     *)
(* Values are numbers; undefined, and a function, are the number 0.            *)
(*                                                                             *)
(* A program is [functions, jobs, tape]: the body of each function, the        *)
(* functions the event loop calls one after the other, and what conditions     *)
(* answer, in turn; once the tape is read they answer FALSE.                   *)
EXTENDS Naturals, SequencesExt

CONSTANT None  \* no label, no binding, no such part

Node(is, label, name, value, parts) ==
  [is |-> is, label |-> label, name |-> name, value |-> value, parts |-> parts]

Say(v)                == Node("say", None, None, v, <<>>)         \* console.log(v);
Let(x, v)             == Node("let", None, x, v, <<>>)            \* let x = v;
Show(x)               == Node("show", None, x, 0, <<>>)           \* console.log(x);
Bump(x)               == Node("bump", None, x, 0, <<>>)           \* x++;
Keep(x)               == Node("keep", None, x, 0, <<>>)           \* kept.push(() => x);
Call(f)               == Node("call", None, None, f, <<>>)        \* console.log(f());
Callback(f)           == Node("callback", None, None, f, <<>>)    \* the same, a native calls f
Throw(v)              == Node("throw", None, None, v, <<>>)
Return(v)             == Node("return", None, None, v, <<>>)
Break(label)          == Node("break", label, None, 0, <<>>)
Continue(label)       == Node("continue", label, None, 0, <<>>)
Block(body)           == Node("block", None, None, 0, <<body>>)
If(body)              == Node("if", None, None, 0, <<body>>)
Labeled(label, body)  == Node("labeled", label, None, 0, <<body>>)
While(label, body)    == Node("while", label, None, 0, <<body>>)
DoWhile(label, body)  == Node("doWhile", label, None, 0, <<body>>)
For(label, x, body)   == Node("for", label, x, 0, <<body>>)       \* for (let x = 0; ...; x++)
ForOf(label, x, body) == Node("forOf", label, x, 0, <<body>>)     \* of [0, 1, ...]
Switch(arm, default)  == Node("switch", None, None, 0, <<arm, default>>)
Try(body, x, catch, finally) == Node("try", None, x, 0, <<body, catch, finally>>)
==============================================================================
