\* The poll of a process that restores its cache times out.
SPECIFICATION Spec
CONSTANTS
    NoProcess = NoProcess
    Process = {p1, p2}
    Oid = {1}
    MaxTid = 3
    Saved = TRUE
    Replica = FALSE
    PollTimeout = TRUE
INVARIANTS
    ReadsCurrent
