----------------------------- MODULE MCPromises -----------------------------
(* Promises, combinators and microtasks: a client without timers.          *)
EXTENDS EventLoop
MCApi == {"new", "settled", "settle", "then", "finally", "combine", "microtask", "fault"}
MCDelays == {}
=============================================================================
