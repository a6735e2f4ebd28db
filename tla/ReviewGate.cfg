\* A creator who moderates and a reviewer; two handlers at once.
CONSTANTS
  cara = cara
  rex = rex
  Principals = {cara, rex}
  Creator = cara
  Moderators = {cara}
  Subjects = {rex}
  Requests = {r1, r2}
  MaxMsgs = 2
  MaxOutcomes = 2
SPECIFICATION Spec
SYMMETRY SlotSymmetry
INVARIANTS
  GateHonest
  WaiverHonest
PROPERTIES
  ReviewStateKept
CHECK_DEADLOCK FALSE
