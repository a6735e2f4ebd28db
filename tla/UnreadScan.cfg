\* Two messages to a page, up to four messages, any arrivals and departures.
CONSTANTS
  PageLimit = 2
  MaxMsgs = 4
  MaxPage = 3
SPECIFICATION Spec
INVARIANTS
  NoneMissed
PROPERTIES
  EndsUnlessTorn
CHECK_DEADLOCK FALSE
