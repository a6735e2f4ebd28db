\* A look-up misses a key, or gets a status that is not 200; the probe is answered
\* with a status under 500 and takes the endpoint for healthy.
CONSTANTS
  Calls = {c1}
  Clients = {c1}
  Commands = {"read"}
  MaxGen = 2
SPECIFICATION Spec
INVARIANT OutageIs503
CHECK_DEADLOCK FALSE
