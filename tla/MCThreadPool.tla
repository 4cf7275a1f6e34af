----------------------------- MODULE MCThreadPool -----------------------------
(* The thread pool for TLC.                                                *)
EXTENDS ThreadPool

CONSTANTS l1, l2, h1

MCLow == {l1, l2}
OneLow == {l1}
MCHigh == {h1}
NoThrow == {}
Initialized == {"INIT"}
Zero == {0}
Counts == {-1}

(* A worker born in SHUTDOWN does what one born in no state at all does:   *)
(* its loop has a handler for neither.                                     *)
Born == WorkerStates \ {"garbage"}
===============================================================================
