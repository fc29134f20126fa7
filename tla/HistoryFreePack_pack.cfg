\* Packing beside applications that keep to what pre_pack assumes of them.
SPECIFICATION SpecAssumed
CONSTANTS
    Oid = {0, 1, 2, 3}
    Root = 0
    InitOids = {0, 1, 2}
    InitGraphs <- MCGraphs
    MaxTid = 3
INVARIANTS
    TypeOK
    NoDanglingReferences
    CollectsGarbage
