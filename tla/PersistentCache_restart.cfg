\* Two processes that share a file.
SPECIFICATION Spec
CONSTANTS
    NoProcess = NoProcess
    Process = {p1, p2}
    Oid = {1}
    MaxTid = 3
    Saved = TRUE
    Replica = TRUE
    PollTimeout = FALSE
INVARIANTS
    TypeOK
    ReadsCurrent
PROPERTIES
    RowsMoveForward
    CheckpointMovesForward
    RestoreEnds
