SPECIFICATION Spec
CONSTANTS
    w1 = w1
    w2 = w2
    Nil = Nil
    Writers <- TwoWriters
    Dates <- AroundApril
    FiscalMonth = 4
    Shipped <- Journals
    Edits <- NoEdits
    MaxIssued = 4
SYMMETRY Symmetry
INVARIANTS
    NeverCollides
