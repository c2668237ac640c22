SPECIFICATION Spec
CONSTANTS
  Plan <- DefaultPlan
  Targets <- DefaultTargets
  Budgeted <- DefaultBudgeted
  MaxRevisions = 2
  MaxStageAttempts = 3
  MaxDecisions = 100
  Provided = {"conversation_context"}
  EmptySections = {}
  Executors = {e1, e2}
  Overlap = FALSE
  Editable = {}
  MaxEdits = 0
  MaxHistory = 2
  None = None
SYMMETRY Attempts
INVARIANTS ProgressIsConsistent
CHECK_DEADLOCK FALSE
