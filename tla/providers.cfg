SPECIFICATION FairSpec
CONSTANTS
  normal = normal  high1 = high1  high2 = high2  NoProvider = NoProvider
  large = large  small = small  refused = refused
  Jobs = {large, small, refused}
  Refused = {refused}
  Providers = {normal, high1, high2}
  Tier <- MCTier
  Held <- MCHeld
  AtFirst <- MCAtFirst
  Edits <- MCEdits
  Workers = 2
  Deletions = {high1}
  Pool = 3
CHECK_DEADLOCK FALSE
INVARIANTS TypeOK HealthIsEarned WorkersLeaveConnections
PROPERTIES TierIsServed EveryJobEnds
