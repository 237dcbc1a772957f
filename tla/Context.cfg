SPECIFICATION Spec
CONSTANTS
    Clients = {c1, c2}
    graphify = graphify
    simone = simone
    Providers = {graphify, simone}
    Route <- RouteOfTwo
    clean = clean
    dirty = dirty
    again = again
    head = head
    changed = changed
    Trees = {clean, dirty, again}
    Commit <- Commits
    Status <- Statuses
    Clean = nothing
    NoTree = no_tree
    NoRepository = no_repository
    Threshold <- Thresholds
    MaxEntries = 1
    Absent = absent
SYMMETRY ClientSymmetry
CHECK_DEADLOCK FALSE
INVARIANTS
    ContextTypeOK
    KeptUnderItsFingerprint
    CircuitFollowsFailures
PROPERTIES
    OpenCircuitHolds
