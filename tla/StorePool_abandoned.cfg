\* The two ways to lose a connection after a cleaner has failed.
SPECIFICATION Spec
CONSTANTS
    i1 = i1
    i2 = i2
    i3 = i3
    Instance = {i1, i2, i3}
    First = i1
    c1 = c1
    c2 = c2
    c3 = c3
    Conn = {c1, c2, c3}
    NoConn = NoConn
    ClosedConnection = ClosedConnection
    MAX_STORE_CONNECTIONS_IN_POOL = 2
    MaxLost = 2
SYMMETRY Symmetry
CHECK_DEADLOCK FALSE
INVARIANT
    NothingAbandoned
