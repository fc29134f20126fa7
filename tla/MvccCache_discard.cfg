\* Greenlets of a pool of read-only instances, none of which is cut off.
SPECIFICATION SpecReaders
CONSTANTS
    NoViewer = NoViewer
    Viewer = {v1, v2}
    Oid = {1}
    MaxTid = 4
    NumSlots = 6
    Restored = TRUE
    Deployment <- MCGreenlets
SYMMETRY MCSymmetry
INVARIANTS
    ReadsSnapshot
