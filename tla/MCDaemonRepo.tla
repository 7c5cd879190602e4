---------------------------- MODULE MCDaemonRepo ----------------------------
(* TLC instances of DaemonRepo: two processes, one of them with two tasks. *)
EXTENDS DaemonRepo, TLC

CONSTANTS p1, p2

TwoProcesses == {<<p1, 1>>, <<p1, 2>>, <<p2, 1>>}
=============================================================================
