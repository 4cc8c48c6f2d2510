CONSTANTS
  stdout = stdout
  stderr = stderr
  Pipes <- MCPipes
  PipeCap = 1
  Outputs <- MCOutputs
SPECIFICATION FairSpec
INVARIANTS
  NoSendOnClosed
  ExitStatusReady
  NoLineLost
PROPERTIES
  ImplementsContract
  CallerReturns
  GoroutinesEnd
CHECK_DEADLOCK FALSE
