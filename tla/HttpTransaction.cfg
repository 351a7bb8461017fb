SPECIFICATION Spec
CONSTANTS
  Requests = {q1, q2}
  Buffer = 1
  NumRetries = 1
  Channels = 2
  Frames = 1
INVARIANTS TypeOK LoggedOnce BytesAttributed
PROPERTIES SlotsReturned
CHECK_DEADLOCK FALSE
