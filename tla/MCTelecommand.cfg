SPECIFICATION Spec
CONSTANTS
  ApiThreads = {w1, w2}
  Sequence = {1, 2, 3}
  OperatorSequence = {1, 2, 3}
  FirstSequence = 1
  Window = 1
  MaxSends = 3
INVARIANTS TypeOK ExecutesInOrder ResultsTellWhatRan
PROPERTIES FinalResultsStay KeepsPromise GroundGuardIsExact
SYMMETRY WorkerSymmetry
CHECK_DEADLOCK FALSE
