---------------------------- MODULE MCThreadPool ----------------------------
(* Two workers and three jobs: a worker can be asleep, or between its pop   *)
(* and its decrement, while the other one works and Join polls.             *)
EXTENDS ThreadPool
=============================================================================
