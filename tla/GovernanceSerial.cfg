\* One handler at a time: nothing commits between its reads and its transaction.
CONSTANTS
  t1 = t1
  creator = creator
  mod1 = mod1
  mod2 = mod2
  Threads = {t1}
  NoThread = NoThread
  Principals = {creator, mod1}
  Moderators = {mod1}
  Writers = {creator, mod1}
  Creator <- CreatorOf
  Messages <- None
  Requests = {r1}
  Ops <- SerialOps
  MaxAudit = 3
SPECIFICATION Spec
INVARIANTS
  TypeOK
  HandledOnce
  StatusExplained
  ResolutionsHaveOutcome
PROPERTIES
  StatusStepsLegal
  FlagFlipsRecorded
CHECK_DEADLOCK FALSE
