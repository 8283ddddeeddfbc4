CONSTANTS
  Server = {public, engine}
  Request = {r1, r2}
  None = None
SPECIFICATION Spec
INVARIANTS DrainsBeforeExit
CHECK_DEADLOCK FALSE
