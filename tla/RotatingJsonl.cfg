CONSTANTS
    p1 = p1
    p2 = p2
    r1 = r1
    OtherRow = OtherRow
    Nobody = Nobody
    NoFile = NoFile
    Procs <- MCProcs
    Rows <- MCRows
    Rotating <- MCRotating
    MaxGens = 2
    MaxFaults = 1
SPECIFICATION FairSpec
INVARIANTS
    TypeOK
    HoldersExclusive
    RowsKept
    NeverWedged
PROPERTY RotationResumes
