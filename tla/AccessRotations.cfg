\* One process that reads beside one other caller, and two key rotations: the
\* second may come while the token for the retry is under way.
CONSTANTS
  Calls = {c1, o1}
  Clients = {c1}
  Commands = {"read"}
  MaxGen = 3
SPECIFICATION Spec
INVARIANTS
  ExitHonest
  RotationSurvived
  NoExpiryInFlight
  NoRefreshInOutage
CHECK_DEADLOCK FALSE
