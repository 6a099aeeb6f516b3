SPECIFICATION Spec
CONSTANTS
  q1 = q1
  q2 = q2
  q3 = q3
  None = None
  Members = {1, 2}
  Reqs = {q1, q2, q3}
  Chunk = 1
  Batch = 1
  Scenarios <- Mixes
  Events = 1
SYMMETRY RequestSymmetry
CHECK_DEADLOCK FALSE
INVARIANTS TypeOK OneAtATime ImportHolds
PROPERTIES LocksAreLeases QuietCancelIsFinal
