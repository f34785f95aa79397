SPECIFICATION FairSpec
CONSTANTS
  m1 = m1
  m2 = m2
  Maints = {m1, m2}
  Resources = {}
  Users = {u1}
  Plans <- MCOnePlan
  Reminders = {}
  Sweepers = {w1}
  SweepLimit = 1
  Grace = 0
  MaxSkew = 0
  MaxTime = 1
  MaxEdits = 1
INVARIANTS SweptNeverRan
PROPERTIES OverdueIsResolved
CHECK_DEADLOCK FALSE
