------------------------ MODULE MCArchiveDisposition ------------------------
EXTENDS ArchiveDisposition, TLC

CONSTANTS a1, a2

\* a1 goes through every kind of change, a2 comes along with one rule and
\* one event and is never appraised.
MCAturan == (a1 :> {"musnah", "manual"}) @@ (a2 :> {"musnah"})
MCMaxRevisi == (a1 :> 3) @@ (a2 :> 2)
MCUsulan == (a1 :> {"permanen"}) @@ (a2 :> {})

Symmetry == Permutations(Penilai) \cup Permutations(Pelaksana)

=============================================================================
