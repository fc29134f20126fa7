\* Stores, readCurrent() and undo together.
SPECIFICATION Spec
CONSTANTS
    c1 = c1
    c2 = c2
    NoClient = NoClient
    Client = {c1, c2}
    Oid = {1, 2}
    Root = 1
    InitOids = {1}
    Owner <- MCOwner
    MaxTid = 3
    MaxHolds = 2
INVARIANTS
    TypeOK
    CurrentIsNewest
PROPERTIES
    CommitsInTidOrder
