SPECIFICATION Spec
CONSTANTS
    e0 = e0
    e1 = e1
    e2 = e2
    p1 = p1
    p2 = p2
    p3 = p3
    i1 = i1
    i2 = i2
    Edisi <- MCEdisi
    Baseline = e0
    Orang <- MCOrang
    Isi <- MCIsi
    IsiSah <- MCIsi
    Cacah <- MCCacah
    Sumber = {pdf}
    Kosong = Kosong
    MaxTanggal = 3
    Petugas <- MCPetugas
INVARIANTS
    TypeOK
    TerbitSesuaiBukti
    PenelaahMandiri
PROPERTIES
    ImplementsRules
SYMMETRY MCSymmetry
CHECK_DEADLOCK FALSE
