SPECIFICATION FairSpec
CONSTANTS
    w1 = w1
    w2 = w2
    Nil = Nil
    Writers <- TwoWriters
    Dates <- TwoYears
    FiscalMonth = 1
    Shipped <- Journals
    Edits <- Reshape
    MaxIssued = 3
INVARIANTS
    TypeOK
    GapFree
    NothingBurned
PROPERTIES
    NoLostUpdate
    EveryoneAnswered
