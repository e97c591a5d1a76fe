SPECIFICATION Spec
CONSTANTS
    Internal = {shelf}
    Transit = {}
    Outside = {vendor}
    Quantities = {1}
    Prices = {1}
    Method = "fifo"
    Sessions = {s1, s2}
    MaxMoves = 3
    Item = Item
    Nil = Nil
INVARIANT NoJournalWithoutMove
CHECK_DEADLOCK FALSE
