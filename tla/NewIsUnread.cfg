\* A post reads the clock, the reader's watch commits later, the post commits.
CONSTANTS
  Principals = {ann, bob}
  Authors = {ann}
  Readers = {bob}
  Requests = {r1, r2}
  MaxClock = 2
  MaxMsgs = 1
SPECIFICATION Spec
INVARIANT NewIsUnread
CHECK_DEADLOCK FALSE
