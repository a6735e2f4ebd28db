\* Two handlers at once, status writers, flags and report handling.
CONSTANTS
  t1 = t1
  creator = creator
  mod1 = mod1
  mod2 = mod2
  Threads = {t1}
  NoThread = NoThread
  Principals = {creator, mod1}
  Moderators = {mod1}
  Writers = {creator, mod1}
  Creator <- CreatorOf
  Messages <- None
  Requests = {r1, r2}
  Ops <- RaceOps
  MaxAudit = 3
SPECIFICATION Spec
SYMMETRY SlotSymmetry
INVARIANTS
  RecordedTransitionsLegal
  ChainUnlessRaced
  CascadeOnLiveThread
  FinalizedOnceUnlessRaced
PROPERTIES
  LedgerSpec
  FlagsUnlessRaced
CHECK_DEADLOCK FALSE
