SPECIFICATION Spec
CONSTANTS
    Requests = {q1}
    Exporters = {x1}
    MaxDeaths = 0
    MaxTimeouts = 0
INVARIANT
    ReadyCanBeRead
CHECK_DEADLOCK FALSE
