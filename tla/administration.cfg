SPECIFICATION Spec
CONSTANTS
  p1 = p1  p2 = p2  lower = lower  planA = planA  old = old
  NoTask = NoTask  NoEdit = NoEdit
  Tasks = {1, 2, 3}
  Providers = {p1, p2}
  ProviderOf <- MCProviderOf
  OwnLimit <- MCOwnLimit
  Workers = {worker1, worker2}
  Updates = {lower, raise}
  Body <- MCBody
  Bounds <- MCBounds
  MaxMishaps = 1
  Plans = {planA, planB, planC}
  Migrated = {planA, planB}
  Edits = {edit1, edit2}
  Bodies <- MCBodies
  Processes = {old, new, server}
  AutoMigrate = {old, new}
  Shipped <- MCShipped
  MaxFailures = 2
CHECK_DEADLOCK FALSE
INVARIANTS TypeOK OneDefault AppliedOnce ServedSchema
PROPERTIES LoweredLimitHolds QueueDrains EveryEditEnds EveryProcessComesUp
