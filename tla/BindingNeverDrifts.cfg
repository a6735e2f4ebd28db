\* Two requests at a time suffice for a patch that was let through too early.
CONSTANTS
  Slots = {r1, r2}
  Principals = {ann, bob}
  Recipient = bob
  Bound0 = bound
  Free0 = free
  Patches <- MCPatches
  MaxPosts = 2
  MaxRows = 3
SPECIFICATION Spec
SYMMETRY Symmetry
PROPERTIES
  BindingNeverDrifts
CHECK_DEADLOCK FALSE
