SPECIFICATION Spec
CONSTANTS
    MaxSteps = 2
    MaxDiff = 2
    OutOfScope = {}
    TalkKinds = {}
    Controllers = {c1, c2}
    Nobody = nobody
    InitialTasks <- PromisedTasks
    HastyTasks = {}
    Missing = missing
    Unwritten = unwritten
    Warnings = {"worker.stalled"}
    Messages = {"task.suspended"}
    MaxEvents <- PromisedBounds
    MaxTrouble = 1
SYMMETRY ControllerSymmetry
CHECK_DEADLOCK FALSE
PROPERTIES
    KeepsPromise
