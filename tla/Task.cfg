SPECIFICATION Spec
CONSTANTS
    MaxSteps = 2
    MaxDiff = 2
    OutOfScope = {}
    TalkKinds = {}
    Controllers = {c1, c2}
    Nobody = nobody
    InitialTasks <- AllTasks
    HastyTasks <- AuditOnly
    Missing = missing
    Unwritten = unwritten
    Warnings = {"worker.stalled"}
    Messages = {"task.suspended"}
    MaxEvents <- EventBounds
    MaxTrouble = 1
SYMMETRY ControllerSymmetry
CHECK_DEADLOCK FALSE
INVARIANTS
    TaskTypeOK
    CompletionBacked
    RecordedOnce
    StepsAlternate
    CancelExcludesCompletion
    OneReviewerPerDiff
    CallbacksHaveEvidence
    CancelledOnlyOnNews
PROPERTIES
    ConfirmedOnlyIfBacked
    CompletedWhileHolding
