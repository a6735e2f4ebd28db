\* Two requests at a time, of two callers; two posts; two patch bodies, one of
\* which turns an ordinary context into a workflow instance's.
CONSTANTS
  Slots = {r1, r2}
  Principals = {ann, bob}
  Recipient = bob
  Bound0 = bound
  Free0 = free
  Patches <- MCPatches
  MaxPosts = 2
  MaxRows = 3
SPECIFICATION Spec
SYMMETRY Symmetry
INVARIANTS
  ViewsCounted
  FailedMeansNone
  PostsOpenUnlessRaced
  MarkedOnce
PROPERTIES
  ReactionLedger
  DriftsOnlyByRace
CHECK_DEADLOCK FALSE
