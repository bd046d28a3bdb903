SPECIFICATION Spec
CONSTANTS
  Ids = {e1, e2}
  Calls = {c1, c2}
  MaxClicks = 3
  Nil = Nil
PROPERTIES
  PollsUntilItsEnd
