\* One process that logs in, reads or posts twice beside one other caller, one key rotation.
CONSTANTS
  Calls = {c1, o1}
  Clients = {c1}
  Commands = {"login", "read", "create"}
  MaxGen = 2
SPECIFICATION Spec
INVARIANTS
  ExitHonest
  RotationSurvived
  NoExpiryInFlight
  NoRefreshInOutage
PROPERTIES
  CommandEnds
  HandlerEnds
CHECK_DEADLOCK FALSE
