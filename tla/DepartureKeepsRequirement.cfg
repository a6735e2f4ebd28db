\* A required reviewer leaves, or is removed, before it has answered.
CONSTANTS
  cara = cara
  rex = rex
  Principals = {cara, rex}
  Creator = cara
  Moderators = {cara}
  Subjects = {rex}
  Requests = {r1}
  MaxMsgs = 1
  MaxOutcomes = 1
SPECIFICATION Spec
PROPERTY DepartureKeepsRequirement
CHECK_DEADLOCK FALSE
