\* A reviewer answers between the check of a waiver and its write.
CONSTANTS
  cara = cara
  rex = rex
  Principals = {cara, rex}
  Creator = cara
  Moderators = {cara}
  Subjects = {rex}
  Requests = {r1}
  MaxMsgs = 1
  MaxOutcomes = 1
SPECIFICATION Spec
PROPERTY WaiverNeverOverAnswer
CHECK_DEADLOCK FALSE
