CONSTANTS
    Workers = {w1, w2}
    Bundles <- MCBundles
    Requests <- MCRequests
    Actions <- MCActions
    Selections <- MCSelections
    PolicyRoot = None
    None = None
    MaxRotations = 2
SPECIFICATION Spec
INVARIANTS MonotoneReads NoOrphanWait StaleOnlyIfOverlapped
