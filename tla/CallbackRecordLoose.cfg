SPECIFICATION Spec
CONSTANTS
    Callbacks = {c1}
    Agents = {a1, a2}
    Free = free
    LooseTransports = {c1}
    Reports = {"done", "blocked", "failed"}
    MaxBinds = 2
    MaxCrashes = 1
SYMMETRY AgentSymmetry
CHECK_DEADLOCK FALSE
CONSTRAINT BoundedWire
INVARIANTS
    LockHeldThroughout
    HandoffFidelity
    DoneIsArchived
    RelayRetired
