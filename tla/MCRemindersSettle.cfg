SPECIFICATION FairNotifySpec
CONSTANTS
  Maints = {m1}
  Resources = {}
  Users = {u1}
  Plans <- MCPlans
  Reminders = {r1}
  Sweepers = {}
  SweepLimit = 1
  Grace = 0
  MaxSkew = 0
  MaxTime = 1
  MaxEdits = 0
  Channels = {c1}
  Addresses = {a1}
  MaxAttempts = 2
CONSTRAINT MCNoSteps
PROPERTIES RemindersSettle
CHECK_DEADLOCK FALSE
