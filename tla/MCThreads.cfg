SPECIFICATION NotifySpec
CONSTANTS
  Maints = {m1}
  Resources = {}
  Users = {u1}
  Plans <- MCPlans
  Reminders = {}
  Sweepers = {}
  SweepLimit = 1
  Grace = 0
  MaxSkew = 0
  MaxTime = 0
  MaxEdits = 0
  Channels = {c1}
  Addresses = {a1, a2}
  MaxAttempts = 2
INVARIANTS RepliesStayInTheirChat
CHECK_DEADLOCK FALSE
