SPECIFICATION Spec
CONSTANTS
    Internal = {shelf}
    Transit = {lorry}
    Outside = {vendor}
    Quantities = {1}
    Prices = {1, 2}
    Method = "fifo"
    Sessions = {s1, s2}
    MaxMoves = 4
    Item = Item
    Nil = Nil
SYMMETRY Symmetry
INVARIANTS TypeOK StockAccountAgrees OwnedNeverNegative LayersInStep
PROPERTY BookSpec
CHECK_DEADLOCK FALSE
