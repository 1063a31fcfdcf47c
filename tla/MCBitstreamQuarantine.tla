----------------------- MODULE MCBitstreamQuarantine -----------------------
(* A small instance of the quarantine for TLC: a benign and a malicious    *)
(* file, two worker invocations, two fixity runs, an integrity check.       *)
EXTENDS BitstreamQuarantine, TLC

CONSTANTS f1, f2, w1, w2, r1, r2, c1

MCFiles == {f1, f2}
MCMalicious == {f2}
MCCreatedAt == [f \in Files |-> IF f = f1 THEN 1 ELSE 2]
MCWorkers == {w1, w2}
MCRuns == {r1, r2}
MCWorkerSymmetry == Permutations(MCWorkers)
MCRunSymmetry == Permutations(MCWorkers) \cup Permutations(MCRuns)
MCChecks == {c1}
MCRetryDelay == [n \in 1 .. MaxAttempts |-> n]

=============================================================================
