-------------------------- MODULE MCTaskController --------------------------
(***************************************************************************)
(* TaskController on small instances.                                      *)
(***************************************************************************)
EXTENDS TaskController, TLC

\* An implementation in one approved step, reviewed before it is merged.
StepwiseTask == [role |-> "implementer", mode |-> "stepwise", edits |-> TRUE,
                 steps |-> 1, checkpoints |-> 1]

\* A read-only task of two steps in a row, with checkpoints and no approvals.
ContinuousTask == [role |-> "explorer", mode |-> "continuous-preauthorized",
                   edits |-> FALSE, steps |-> 2, checkpoints |-> 2]

\* A read-only audit in two approved steps, without checkpoints.
AuditTask == [role |-> "explorer", mode |-> "stepwise", edits |-> FALSE,
              steps |-> 2, checkpoints |-> 0]

AllTasks == {StepwiseTask, ContinuousTask, AuditTask}
AuditOnly == {AuditTask}
StepwiseOnly == {StepwiseTask}

\* The events of an undisturbed behaviour; one more for the first two tasks, and a
\* second end of the task that has a writer reservation.
EventBounds == [t \in InitialTasks |-> CASE t = StepwiseTask -> 15
                                         [] t = ContinuousTask -> 12
                                         [] t = AuditTask -> 9]

\* For the promise: one task that is reviewed and one that is not, with the events
\* of an undisturbed behaviour, and one more for the second.
PromisedTasks == {StepwiseTask, ContinuousTask}
PromisedBounds == [t \in PromisedTasks |-> IF t = StepwiseTask THEN 13 ELSE 12]

ControllerSymmetry == Permutations(Controllers)
=============================================================================
