SPECIFICATION Spec
CONSTANTS
  Plan <- DefaultPlan
  Targets <- DefaultTargets
  Budgeted <- DefaultBudgeted
  MaxRevisions = 2
  MaxStageAttempts = 3
  MaxDecisions = 100
  Provided = {"conversation_context"}
  EmptySections = {}
  Executors = {e1}
  Overlap = FALSE
  Editable = {}
  MaxEdits = 0
  MaxHistory = 20
  None = None
INVARIANTS NeverStopsEarly
CHECK_DEADLOCK FALSE
