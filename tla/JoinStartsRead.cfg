\* A message is dated a millisecond ahead of the clock; a principal joins by
\* POST /participants before the clock gets there.
CONSTANTS
  Principals = {ann, bob}
  Authors = {ann}
  Readers = {bob}
  Requests = {r1, r2}
  MaxClock = 2
  MaxMsgs = 1
SPECIFICATION Spec
PROPERTY JoinStartsRead
CHECK_DEADLOCK FALSE
