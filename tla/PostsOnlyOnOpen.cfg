\* A thread is closed between the look of a post and its insert.
CONSTANTS
  Slots = {r1, r2}
  Principals = {ann, bob}
  Recipient = bob
  Bound0 = bound
  Free0 = free
  Patches <- MCPatches
  MaxPosts = 2
  MaxRows = 3
SPECIFICATION Spec
SYMMETRY Symmetry
PROPERTIES
  PostsOnlyOnOpen
CHECK_DEADLOCK FALSE
