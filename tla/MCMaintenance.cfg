SPECIFICATION Spec
CONSTANTS
  m1 = m1
  m2 = m2
  Maints = {m1}
  Resources = {r1}
  Users = {u1}
  Plans <- MCPlans
  Reminders = {}
  Sweepers = {w1}
  SweepLimit = 1
  Grace = 0
  MaxSkew = 1
  MaxTime = 3
  MaxEdits = 2

INVARIANTS TypeOK StepsRunInOrder StepsMatchStatus ActualPeriodMatchesStatus StepTimesWithinSkew WindowFitsSteps
PROPERTIES TerminalIsFinal ApprovedPlanIsFrozen
CHECK_DEADLOCK FALSE
