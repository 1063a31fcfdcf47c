SPECIFICATION Spec
CONSTANTS
    a1 = a1
    a2 = a2
    Arsip = {a1, a2}
    Batches = {b1}
    Manifests = {m1}
    NoClaim = NoClaim
    Penilai = {p1, p2}
    Pelaksana = {x1, x2, x3, x4}
    NoUser = NoUser
    Aturan <- MCAturan
    MaxRevisi <- MCMaxRevisi
    Usulan <- MCUsulan
    MaxKeputusan = 1
SYMMETRY Symmetry
INVARIANTS
    TypeOK
    SatuKlaim
    KeputusanSegar
    DisposisiSah
    HoldSajaMenahan
PROPERTIES
    HoldFreezes
    LifecycleRefined
CHECK_DEADLOCK FALSE
