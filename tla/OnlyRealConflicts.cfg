\* Two first requests of one subject suffice.
CONSTANTS
  Requests = {r1, r2}
  Subjects = {s1, s2}
  Agents = {a1, a2, odd}
  OddAgents = {odd}
  s1 = s1
  s2 = s2
  a1 = a1
  a2 = a2
  odd = odd
  w1 = w1
  None = None
  BadEntry = BadEntry
  Tokens <- MCTokens
  Jobs <- MCJobs
SPECIFICATION Spec
INVARIANTS
  OnlyRealConflicts
CHECK_DEADLOCK FALSE
