SPECIFICATION Spec
CONSTANTS
  Plan <- SmallPlan
  Targets <- SmallTargets
  Budgeted <- SmallBudgeted
  MaxRevisions = 1
  MaxStageAttempts = 3
  MaxDecisions = 6
  Provided = {"brief"}
  EmptySections = {}
  Executors = {e1, e2}
  Overlap = TRUE
  Editable = {"copy"}
  MaxEdits = 1
  MaxHistory = 2
  None = None
SYMMETRY Attempts
INVARIANTS ProgressIsConsistent
PROPERTIES PublishedIsStable
CHECK_DEADLOCK FALSE
