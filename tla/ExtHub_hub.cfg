SPECIFICATION FairSpec
CONSTANTS
  MaxConns = 2
  MaxFds = 1
  Backlog = 2
  MaxCommands = 2
  MaxReplies = 1
  MaxStarts = 2
  EarlyStop = FALSE
INVARIANTS OneSession SleepsInformed
PROPERTIES FramesTogether StopEnds Heard TakenUp
CHECK_DEADLOCK FALSE
