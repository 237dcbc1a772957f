SPECIFICATION Spec
CONSTANTS
    Callbacks = {c1}
    Agents = {a1, a2}
    Free = free
    LooseTransports = {}
    Reports = {"done", "blocked", "failed"}
    MaxBinds = 2
    MaxCrashes = 0
SYMMETRY AgentSymmetry
CHECK_DEADLOCK FALSE
INVARIANT ConsumedAsStaged
