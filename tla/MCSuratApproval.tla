-------------------------- MODULE MCSuratApproval --------------------------
(* Three accounts, two units, one letter, two requests at a time.           *)
EXTENDS SuratApproval, TLC

CONSTANTS a, b, u1, u2, u3, q1, q2

MCUsers == {u1, u2, u3}
MCUnits == {a, b}
MCAccount(role, unit, active) == [role |-> role, unit |-> unit, active |-> active]
MCAccounts == {MCAccount("super_admin", NoUnit, TRUE), MCAccount("admin", a, TRUE),
               MCAccount("admin", a, FALSE), MCAccount("admin", b, TRUE),
               MCAccount("staff", a, TRUE)}
MCRequests == {q1, q2}
MCSymmetry == Permutations(MCUsers) \cup Permutations(MCRequests)

=============================================================================
