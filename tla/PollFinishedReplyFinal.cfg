SPECIFICATION PollSpec
CONSTANTS
  Workers = {w1}
  Duration = 2
  MaxClock = 3
  Nil = Nil
INVARIANTS
  FinishedReplyFinal


