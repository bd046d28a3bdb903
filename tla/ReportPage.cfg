SPECIFICATION FairSpec
CONSTANTS
  e1 = e1
  e2 = e2
  Pairs <- MCPairs
  Ids = {e1, e2}
  Loads = {l1, l2}
  Compares = {k1}
  MaxClicks = 2
  Failures = 1
  Nil = Nil
INVARIANTS
  NotesAccounted
  NothingOlder
  LastAskedShown
PROPERTIES
  LoadEnds
