\* A pool of open instances: threads; greenlets, of which idle ones are cut
\* off; or one instance on a lagging replica.
SPECIFICATION SpecPool
CONSTANTS
    NoViewer = NoViewer
    Viewer = {v1, v2}
    Oid = {1}
    MaxTid = 3
    NumSlots = 6
    Restored = TRUE
    Deployment <- MCPools
SYMMETRY MCSymmetry
INVARIANTS
    IndexMatchesSnapshot
    SetItemAssertions
    IndexIsOfSnapshot
    InvalidationsComplete
    ReadsNothingNewer
