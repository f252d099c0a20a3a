SPECIFICATION Spec
CONSTANTS
  MaxRuns = 3
INVARIANTS PredecessorSurvives FailureRestores ReportIsTrue
CHECK_DEADLOCK FALSE
