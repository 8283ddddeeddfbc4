CONSTANTS
  Server = {public, engine}
  Request = {r1, r2}
  None = None
SPECIFICATION Spec
INVARIANTS StoreOutlivesServers ExitCodeTells
PROPERTIES StopsForGood
CHECK_DEADLOCK FALSE
