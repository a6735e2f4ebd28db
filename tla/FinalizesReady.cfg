\* A reviewer becomes pending between the reads of a resolve and its commit.
CONSTANTS
  cara = cara
  rex = rex
  Principals = {cara, rex}
  Creator = cara
  Moderators = {cara}
  Subjects = {rex}
  Requests = {r1}
  MaxMsgs = 1
  MaxOutcomes = 1
SPECIFICATION Spec
PROPERTY FinalizesReady
CHECK_DEADLOCK FALSE
