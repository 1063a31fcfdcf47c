SPECIFICATION Spec
CONSTANTS
    s1 = s1
    s2 = s2
    k1 = k1
    c1 = c1
    c2 = c2
    c3 = c3
    u1 = u1
    SuratMasuk <- MCMasuk
    SuratKeluar = {k1}
    Chains <- MCChains
    Units = {u1}
    Target <- MCTarget
    Tautkan <- MCTautkan
    NoChain = NoChain
    StatusAwal = {"belum_dibalas"}
    MaxRelasi = 3
PROPERTY DibukaMenyeluruh
CHECK_DEADLOCK FALSE
