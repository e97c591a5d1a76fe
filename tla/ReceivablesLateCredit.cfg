SPECIFICATION Spec
CONSTANTS
    i1 = i1
    i2 = i2
    n1 = n1
    p1 = p1
    p2 = p2
    s1 = s1
    s2 = s2
    Nil = Nil
    Sales <- OneSale
    Notes <- OneNote
    Payments <- OnePayment
    Sessions <- TwoSessions
    Totals <- JustOne
    Ops <- Posting
    MaxJournals = 3
SYMMETRY Symmetry
INVARIANTS
    OutstandingNotNegative
CHECK_DEADLOCK FALSE
