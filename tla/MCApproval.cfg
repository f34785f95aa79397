SPECIFICATION MCSpec
CONSTANTS
  c1 = c1
  c2 = c2
  u1 = u1
  u2 = u2
  Maints = {m1, m2}
  Resources = {r1}
  Users = {u1, u2}
  Plans <- MCPlans
  Reminders = {}
  Sweepers = {}
  SweepLimit = 1
  Grace = 0
  MaxSkew = 0
  MaxTime = 1
  MaxEdits = 1
  Clients = {c1, c2}
  UserOf <- MCUserOf
  Admins = {u2}
  MaxAttempts = 2
SYMMETRY MCSymmetry
INVARIANTS NoMutualBlindness NoApprovalDeadlock
PROPERTIES ApprovalIsAtomic ApprovedAsSeen
CHECK_DEADLOCK FALSE
