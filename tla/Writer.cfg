SPECIFICATION Spec
CONSTANTS
    Tasks = {t1, t2}
    None = none
SYMMETRY TaskSymmetry
CHECK_DEADLOCK FALSE
INVARIANTS
    WriterTypeOK
    WorkerHoldsWriter
    WriterRecoverable
    UndoneHoldsNothing
