\* One subject whose bucket holds two tokens of two instants each, two
\* concurrent requests a skew of one instant apart, and time enough to spend
\* the burst, be refused, be reaped and come back.
SPECIFICATION Spec
CONSTANTS
  Subject = {s1}
  Request = {r1, r2}
  Cost <- TwoInstants
  Second = 2
  IdleTTL = 5
  MaxSkew = 1
  MaxTime = 7
INVARIANTS
  WithinRate
  RetryAfterIsEnough
PROPERTIES
  LogSpec
SYMMETRY RequestSymmetry
