SPECIFICATION Spec
CONSTANTS
  outage = outage
  full = full
  Fault <- MCFault
  ApiThreads = {w1, w2}
  Durations <- MCDurations
  Unlimited = Unlimited
  MaxTime = 2
INVARIANTS TypeOK ActsNoLongerThanItsDuration
PROPERTY ExpireAloneIsExact
SYMMETRY Symmetry
