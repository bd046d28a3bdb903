SPECIFICATION FairSpec
CONSTANTS
  Workers = {w1, w2}
  Duration = 5
  MaxClock = 6
  Nil = Nil
INVARIANTS
  NoTokenLost
  OneVerdict
  FinalAccurate
  Accounting
  LoadCap
  LateBounded
  IInv
PROPERTIES
  TerminalStatus
  RunSpec
  TimerEnds
  FinishedIsPublished
