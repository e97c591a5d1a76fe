SPECIFICATION MCSpec
CONSTANTS
    Clerks = {c1, c2}
    LastLine = 2
    MaxQty = 2
    Plans <- TransferPlans
    MaxEdits = 2
    MaxStops = 1
    Receipts = {p1, p2}
    OneReceipt = {p3}
    Bills = {b1, b2}
    ReceiptLines = {l1}
    Received <- AsBilled
    MaxBilled = 2
    Deliveries = {d1}
    Invoices = {i1, i2}
SYMMETRY Symmetry
INVARIANTS
    TypesOK
    TransitAsRecorded
    DoneMeansArrived
    ReceivedAsMoved
    PostedMovedOnce
    OrderCloses
    BilledAsPosted
    PostedIsBooked
    DeliveredAsGone
    InvoicedAsPosted
PROPERTIES
    ConfirmedStays
    OneNumber
CHECK_DEADLOCK FALSE
