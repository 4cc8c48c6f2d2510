SPECIFICATION LogsSpec
CONSTANTS
  MaxSockets = 3
  Buffer = 1
INVARIANT LogsTypeOK
PROPERTIES StoppedShowsNothing LeftStreamsEnd
CHECK_DEADLOCK FALSE
