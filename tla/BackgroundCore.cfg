SPECIFICATION MCSpec
CONSTANTS
    Files = {f1}
    Workers = {w1, w2}
    MaxAttempts = 2
    Batch = 2
    MaxCrashes = 1
    MaxLapses = 1
    Requests = {q1}
    Exporters = {x1, x2}
    MaxDeaths = 1
    MaxTimeouts = 1
    LastEvent = 2
    Relays = {r1, r2}
    Consumers = {c1}
    RelayBatch = 2
    MaxTries = 2
    MaxFaults = 1
INVARIANTS
    TypesOK
    StoredHasBytes
    KeptSomewhere
    ToldAsItIs
    ReadyHasFile
    NothingLost
PROPERTIES
    FinishedStays
    AnswerStands
    EverySettled
    EveryAnswered
    Announces
CHECK_DEADLOCK FALSE
