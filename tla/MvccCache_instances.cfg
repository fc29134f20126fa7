\* Threads whose instances come and go, and whose first poll starts the
\* index; or a lone instance that reverts with its replica.
SPECIFICATION Spec
CONSTANTS
    NoViewer = NoViewer
    Viewer = {v1, v2}
    Oid = {1}
    MaxTid = 2
    NumSlots = 6
    Restored = FALSE
    Deployment <- MCThreadsOrReverting
SYMMETRY MCSymmetry
INVARIANTS
    TypeOK
    RevertForgetsTheFuture
PROPERTIES
    IndexMovesForward
