\* Two handlers at once: message deletion by both routes, reports ignored or acted
\* on, membership, and hiding.
CONSTANTS
  t1 = t1
  creator = creator
  mod1 = mod1
  mod2 = mod2
  Threads = {t1}
  NoThread = NoThread
  Principals = {creator, mod1}
  Moderators = {mod1}
  Writers = {creator, mod1}
  Creator <- CreatorOf
  Messages <- OneMessage
  Requests = {r1, r2}
  Ops <- ContentOps
  MaxAudit = 2
SPECIFICATION Spec
SYMMETRY SlotSymmetry
INVARIANTS
  FactsSound
  ReportExplained
  RehandledOnlyByRace
  DerivedRepaired
PROPERTIES
  WatchersNotified
CHECK_DEADLOCK FALSE
