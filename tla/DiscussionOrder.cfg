\* Posting and deleting only: two authors, three requests at once, up to three
\* messages, a clock that may stand still or run ahead of a stalled attempt.
CONSTANTS
  Principals = {ann, bob}
  Authors = {ann, bob}
  Readers = {}
  Requests = {r1, r2, r3}
  MaxClock = 2
  MaxMsgs = 3
SPECIFICATION Spec
SYMMETRY Symmetry
INVARIANTS
  DerivedColumns
  VisibleOrder
CHECK_DEADLOCK FALSE
