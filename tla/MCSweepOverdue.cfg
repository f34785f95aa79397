SPECIFICATION FairSpec
CONSTANTS
  m1 = m1
  m2 = m2
  Maints = {m1}
  Resources = {}
  Users = {u1}
  Plans <- MCOnePlan
  Reminders = {}
  Sweepers = {w1}
  SweepLimit = 1
  Grace = 0
  MaxSkew = 0
  MaxTime = 2
  MaxEdits = 1
PROPERTY SweptWasOverdue
CHECK_DEADLOCK FALSE
