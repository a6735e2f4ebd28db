\* Three requests at a time; three patch bodies, two of which turn an ordinary
\* context into that of the other thread's instance.  No posts, and one caller.
CONSTANTS
  Slots = {r1, r2, r3}
  Principals = {bob}
  Recipient = bob
  Bound0 = bound
  Free0 = free
  Patches <- MCCollidingPatches
  MaxPosts = 0
  MaxRows = 4
SPECIFICATION Spec
SYMMETRY Symmetry
INVARIANTS
  TypeOK
PROPERTIES
  DriftsOnlyByRace
CHECK_DEADLOCK FALSE
