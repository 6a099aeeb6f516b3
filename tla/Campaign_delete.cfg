SPECIFICATION Spec
CONSTANTS
  q1 = q1
  q2 = q2
  q3 = q3
  None = None
  Members = {1, 2}
  Reqs = {q1, q2}
  Chunk = 1
  Batch = 1
  Scenarios <- StartAndDelete
  Events = 0
CHECK_DEADLOCK FALSE
PROPERTIES NoRunningDeleted
