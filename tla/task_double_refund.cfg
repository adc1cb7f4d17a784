CONSTANTS
  entitlement = entitlement
  credits = credits
  p1 = p1
  p2 = p2
  NoTask = NoTask
  NoProfile = NoProfile
  Tasks = {1}
  Accounts = {entitlement}
  Profiles = {p1, p2}
  Instances = {i1, i2}
  Slots = {s1}
  Cost <- MCCost
  Grant <- MCGrant
  GlobalLimit = 1
  ProfileCap <- MCProfileCap
  Overlap = TRUE
  LostWrites = FALSE
SPECIFICATION Spec
CHECK_DEADLOCK FALSE
INVARIANTS RefundedOnce
