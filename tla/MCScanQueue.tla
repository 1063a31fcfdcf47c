---------------------------- MODULE MCScanQueue ----------------------------
(* Two files and two invocations of the abstract queue.                     *)
EXTENDS ScanQueue

CONSTANTS f1, f2, w1, w2

MCFiles == {f1, f2}
MCWorkers == {w1, w2}

=============================================================================
