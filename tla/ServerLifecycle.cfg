\* Two symbols, both modes, queues of one place, two messages, one match each
SPECIFICATION Spec
CONSTANTS
  Modes = {"FIX", "OFFLINE"}
  NumberOfQueues = 2
  WorkCapacity = 1
  OutCapacity = 1
  MaxMatches = 1
  MaxMessages = 2
INVARIANTS TypeOK BookOutlivesItsUsers
PROPERTIES ServerEnds QueuesDrain
CHECK_DEADLOCK FALSE
