SPECIFICATION FairSpec
CONSTANTS
  Loads = {l1, l2}
  MaxClicks = 2
  Failures = 1
  Nil = Nil
PROPERTIES
  OldAnswersRunOut
  RowsCatchUp
