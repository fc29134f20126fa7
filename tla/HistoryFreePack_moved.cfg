\* An old object moves into a new one while pre_pack begins.
SPECIFICATION Spec
CONSTANTS
    Oid = {0, 1, 2, 3}
    Root = 0
    InitOids = {0, 1, 2}
    InitGraphs <- MCGraphs
    MaxTid = 3
INVARIANTS
    NoDanglingReferences
