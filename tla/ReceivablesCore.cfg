SPECIFICATION Spec
CONSTANTS
    i1 = i1
    i2 = i2
    n1 = n1
    p1 = p1
    p2 = p2
    s1 = s1
    s2 = s2
    Nil = Nil
    Sales <- TwoSales
    Notes <- OneNote
    Payments <- TwoPayments
    Sessions <- TwoSessions
    Totals <- NoneOrOne
    Ops <- NoResave
    MaxJournals = 2
INVARIANTS
    TypeOK
    AccountedFor
    ReversedOnce
    NeverOverSettled
    LocksInOrder
PROPERTIES
    PostedIsFrozen
CHECK_DEADLOCK FALSE
SYMMETRY Symmetry
