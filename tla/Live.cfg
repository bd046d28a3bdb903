SPECIFICATION FairSpec
CONSTANTS
  Ids = {e1, e2}
  Calls = {c1, c2, c3}
  MaxClicks = 3
  Nil = Nil
INVARIANTS
  OneInterval
PROPERTIES
  LastPolls
  PollingEnds
