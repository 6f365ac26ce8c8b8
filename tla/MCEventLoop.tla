----------------------------- MODULE MCEventLoop ----------------------------
(* Async calls, await and timers on the event loop.                        *)
EXTENDS EventLoop
MCApi == {"new", "settle", "then", "async", "await", "fault", "timer", "slow"}
MCDelays == {0, 2}
=============================================================================
