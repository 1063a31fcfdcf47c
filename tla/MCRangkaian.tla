--------------------------- MODULE MCRangkaian ---------------------------
(* Two incoming letters, one of them distributed, one outgoing letter.      *)
EXTENDS Rangkaian, TLC

CONSTANTS s1, s2, k1, c1, c2, c3, u1

MCMasuk == {s1, s2}
MCChains == {c1, c2, c3}
MCTarget == [s \in MCMasuk |-> IF s = s1 THEN {u1} ELSE {}]
MCTautkan == {<<k1, s1, "balasan">>, <<k1, s2, "balasan">>, <<s2, k1, "merujuk">>,
              <<s1, s2, "merujuk">>}
MCSymmetry == Permutations(MCChains)

=============================================================================
