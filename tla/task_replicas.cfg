CONSTANTS
  entitlement = entitlement
  credits = credits
  p1 = p1
  p2 = p2
  NoTask = NoTask
  NoProfile = NoProfile
  Tasks = {1, 2}
  Accounts = {entitlement, credits}
  Profiles = {p1, p2}
  Instances = {i1, i2}
  Slots = {s1, s2}
  Cost <- MCCost
  Grant <- MCGrant
  GlobalLimit = 1
  ProfileCap <- MCProfileCap
  Overlap = TRUE
  LostWrites = TRUE
SPECIFICATION Spec
CHECK_DEADLOCK FALSE
INVARIANTS ExclusiveExecution GlobalConcurrency
SYMMETRY MCSymmetry
