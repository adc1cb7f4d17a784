CONSTANTS
  entitlement = entitlement
  credits = credits
  p1 = p1
  p2 = p2
  NoTask = NoTask
  NoProfile = NoProfile
  Tasks = {1, 2}
  Accounts = {credits}
  Profiles = {p1, p2}
  Instances = {i1}
  Slots = {s1, s2}
  Cost <- MCCost
  Grant <- MCGrant
  GlobalLimit = 2
  ProfileCap <- MCProfileCap
  Overlap = FALSE
  LostWrites = FALSE
SPECIFICATION Spec
CHECK_DEADLOCK FALSE
INVARIANTS ProviderConcurrency
