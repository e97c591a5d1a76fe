SPECIFICATION Spec
CONSTANTS
    Internal = {shelf}
    Transit = {}
    Outside = {vendor}
    Quantities = {1, 2}
    Prices = {1}
    Method = "average"
    Sessions = {s1, s2}
    MaxMoves = 3
    Item = Item
    Nil = Nil
INVARIANT AverageCoversStock
CHECK_DEADLOCK FALSE
