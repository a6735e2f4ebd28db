\* One thread, one author, one reader the author may mention; two requests at
\* once, two messages, a clock that may stand still.
CONSTANTS
  Principals = {ann, bob}
  Authors = {ann}
  Readers = {bob}
  Requests = {r1, r2}
  MaxClock = 2
  MaxMsgs = 2
SPECIFICATION Spec
SYMMETRY Symmetry
INVARIANTS
  OnlyNewIsUnread
  MarkCoversOnlySeen
  DerivedColumns
  VisibleOrder
PROPERTIES
  CursorMonotone
CHECK_DEADLOCK FALSE
