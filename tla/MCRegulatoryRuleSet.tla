------------------------ MODULE MCRegulatoryRuleSet ------------------------
(* The baseline and two clones, three super administrators, two contents of *)
(* the same size and one source, over three days.  All of them take part in *)
(* one clone, one of them in the baseline and in the other clone.           *)
EXTENDS RegulatoryRuleSet, TLC

CONSTANTS e0, e1, e2, p1, p2, p3, i1, i2

MCEdisi == {e0, e1, e2}
MCOrang == {p1, p2, p3}
MCIsi == {i1, i2}
MCCacah(i) == 1
MCSymmetry == Permutations({p2, p3})
MCPetugas == e0 :> {p1} @@ e1 :> MCOrang @@ e2 :> {p1}

=============================================================================
