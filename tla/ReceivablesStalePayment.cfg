SPECIFICATION Spec
CONSTANTS
    i1 = i1
    i2 = i2
    n1 = n1
    p1 = p1
    p2 = p2
    s1 = s1
    s2 = s2
    Nil = Nil
    Sales <- OneSale
    Notes <- NoNotes
    Payments <- TwoPayments
    Sessions <- TwoSessions
    Totals <- OneOrTwo
    Ops <- Resaving
    MaxJournals = 4
SYMMETRY Symmetry
INVARIANTS
    NeverOverSettled
CHECK_DEADLOCK FALSE
