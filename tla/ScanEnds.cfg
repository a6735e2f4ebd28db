\* A message arrives after the list of a page and before its count.
CONSTANTS
  PageLimit = 2
  MaxMsgs = 2
  MaxPage = 2
SPECIFICATION Spec
PROPERTY ScanEnds
CHECK_DEADLOCK FALSE
