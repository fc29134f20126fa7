\* Two instances, ranges of two oids, four ranges, two oids from elsewhere.
CONSTANTS
    Client = {c1, c2}
    RangeSize = 2
    MaxSequence = 4
    Outside = {3, 6}
    Backend = "mysql"
SPECIFICATION Spec
INVARIANT UniqueOids
PROPERTY NewRangesAreGreater
