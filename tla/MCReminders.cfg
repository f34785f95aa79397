SPECIFICATION NotifySpec
CONSTANTS
  Maints = {m1}
  Resources = {}
  Users = {u1}
  Plans <- MCPlans
  Reminders = {r1}
  Sweepers = {}
  SweepLimit = 1
  Grace = 0
  MaxSkew = 0
  MaxTime = 1
  MaxEdits = 0
  Channels = {c1, c2}
  Addresses = {a1}
  MaxAttempts = 2
CONSTRAINTS MCNoSteps MCQuiet
INVARIANTS NotifyTypeOK TasksMatchReminders NoNeedlessRepeat
CHECK_DEADLOCK FALSE
