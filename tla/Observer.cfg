\* Two threads, two calls at a time, one of which may fail.
CONSTANTS
  busy = busy
  quiet = quiet
  Threads = {busy, quiet}
  Nobody = Nobody
  Slots = {c1, c2}
  MaxMsgs <- MCMaxMsgs
  MaxFails = 1
SPECIFICATION Spec
INVARIANTS
  HeaderIsPolled
  SkippedIsShown
PROPERTIES
  TimelineCatchesUp
