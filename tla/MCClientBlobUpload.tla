------------------------ MODULE MCClientBlobUpload ------------------------
(* One upload, one lease of the former provider, overlapping runs.          *)
EXTENDS ClientBlobUpload, TLC

CONSTANTS l1, l2, c1, r1, r2

MCLeases == {l1, l2}
MCLegacy == {l2}
MCClaimers == {c1}
MCRuns == {r1, r2}
MCRunSymmetry == Permutations(MCRuns)
MCBackoff == [n \in 0 .. MaxAttempts |-> IF n < 2 THEN 1 ELSE 2]

=============================================================================
