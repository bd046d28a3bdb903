\* 4 ticks to the second, 2 requests per second, bursts of 2.
SPECIFICATION Spec
CONSTANTS
  Handlers = {h1, h2}
  Rate = 2
  Cost = 4
  Capacity = 8
  MaxClock = 7
SYMMETRY Symmetry
INVARIANTS
  TypeOK
  WindowBound
PROPERTIES
  SustainsRate
