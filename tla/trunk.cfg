SPECIFICATION Spec
CONSTANTS
  Requests = {r1, r2}
  Conns = {c1, c2}
  NoConn = NoConn
  MaxConns = 2
  MinConns = 0
  Connecting = 1
  Target = 1
  PerConn = 2
  MaxUses = 3
  Disturbances = 2
  Confs <- MCConfs
INVARIANTS RequestsPlaced NoIdleCapacity ToldOnce NoBadTransition
CHECK_DEADLOCK FALSE
PROPERTY EveryRequestTold
