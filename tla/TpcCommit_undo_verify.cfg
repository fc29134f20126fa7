\* undo() checks before it waits for the commit lock.
SPECIFICATION Spec
CONSTANTS
    c1 = c1
    c2 = c2
    NoClient = NoClient
    Client = {c1, c2}
    Oid = {1, 2}
    Root = 1
    InitOids = {1, 2}
    Owner <- MCOwner
    MaxTid = 4
    MaxHolds = 2
PROPERTIES
    UndoMatchesCurrent
