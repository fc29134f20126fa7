\* The same on PostgreSQL, whose setval can move the sequence back.
CONSTANTS
    Client = {c1, c2}
    RangeSize = 2
    MaxSequence = 4
    Outside = {3, 6}
    Backend = "postgresql"
SPECIFICATION Spec
INVARIANT UniqueOids
