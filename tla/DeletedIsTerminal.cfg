\* A restore read before a soft delete commits after it.
CONSTANTS
  t1 = t1
  creator = creator
  mod1 = mod1
  mod2 = mod2
  Threads = {t1}
  NoThread = NoThread
  Principals = {creator, mod1, mod2}
  Moderators = {mod1, mod2}
  Writers = {creator, mod1, mod2}
  Creator <- CreatorOf
  Messages <- None
  Requests = {r1, r2}
  Ops <- TerminalRaceOps
  MaxAudit = 3
SPECIFICATION Spec
PROPERTY DeletedIsTerminal
CHECK_DEADLOCK FALSE
