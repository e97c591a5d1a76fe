SPECIFICATION Spec
CONSTANTS
    w1 = w1
    w2 = w2
    Nil = Nil
    Writers <- TwoWriters
    Dates <- OneDay
    FiscalMonth = 1
    Shipped <- Journals
    Edits <- OneReshape
    MaxIssued = 2
SYMMETRY Symmetry
INVARIANTS
    KeyMatchesRow
