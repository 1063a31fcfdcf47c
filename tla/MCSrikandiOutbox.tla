------------------------- MODULE MCSrikandiOutbox -------------------------
(* One key, two bodies, two versions, two dispatchers.                      *)
EXTENDS SrikandiOutbox, TLC

CONSTANTS k1, p1, p2, d1, d2

MCPayloads == {p1, p2}
MCDispatchers == {d1, d2}

=============================================================================
