SPECIFICATION Spec
CONSTANTS
    a = a
    b = b
    u1 = u1
    u2 = u2
    u3 = u3
    q1 = q1
    q2 = q2
    Users <- MCUsers
    Units <- MCUnits
    Accounts <- MCAccounts
    Letters = {surat}
    Requests <- MCRequests
    Nobody = Nobody
    NoUnit = NoUnit
    MaxSteps = 3
INVARIANTS
    TypeOK
    PendingAnswerable
    TablesAgree
SYMMETRY MCSymmetry
PROPERTIES
    MandateHeld
    ImplementsReview
