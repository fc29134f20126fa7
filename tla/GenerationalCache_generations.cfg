SPECIFICATION Spec
CONSTANTS
    big = big
    growing = growing
    small = small
    Oids = {big, growing, small}
    Tids = {1, 2, 3}
    Threads = {t1}
    Copies = 3
    Workloads <- MCWorkloads
    StateLength <- MCStateLength
    SVSize = 2
    MVSize = 2
    ValueSize = 1
    SizeModulus = 64
    Limits <- MCLimits
    Files <- MCFiles
    MaxSets = 2
    MaxFrequency = 2
    Null = Null
INVARIANTS
    TypeOK
    IndexMatchesRings
    SeveralValues
    SingleWeightsAccounted
    ProtectedWithinLimit
PROPERTIES
    HeldValuesStay
    ImplementsValueCache
    CallsEnd
