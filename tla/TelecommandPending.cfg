SPECIFICATION Spec
CONSTANTS
  ApiThreads = {w1}
  Sequence = {1, 2, 3, 4, 5, 6}
  OperatorSequence = {1, 2, 4}
  FirstSequence = 2
  Window = 1
  MaxSends = 4
INVARIANT HeardCommandsHaveResults
CHECK_DEADLOCK FALSE
