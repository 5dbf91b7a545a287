\* Two commands beside the first load and two applies.  The operator may stop.
SPECIFICATION Spec
CONSTANTS
  MaxChanges = 2
  MaxDiffs = 2
  MaxJobs = 2
  MaxRuns = 2
  None = None
INVARIANTS
  TypeOK
  OneAtATime
  OnlyConfirmedIsApplied
  ShownIsMeant
PROPERTIES
  AlwaysAnswers
CHECK_DEADLOCK FALSE
