\* Three instances; the pool keeps at most two connections.
SPECIFICATION Spec
CONSTANTS
    i1 = i1
    i2 = i2
    i3 = i3
    Instance = {i1, i2, i3}
    First = i1
    c1 = c1
    c2 = c2
    c3 = c3
    Conn = {c1, c2, c3}
    NoConn = NoConn
    ClosedConnection = ClosedConnection
    MAX_STORE_CONNECTIONS_IN_POOL = 2
    MaxLost = 2
SYMMETRY Symmetry
CHECK_DEADLOCK FALSE
INVARIANTS
    TypeOK
    NoSessionLeaked
    OnePlace
    PoolWithinLimit
    PooledAreClean
    WritesStayTogether
