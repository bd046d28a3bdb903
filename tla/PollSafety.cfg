SPECIFICATION PollSpec
CONSTANTS
  Workers = {w1, w2}
  Duration = 2
  MaxClock = 3
  Nil = Nil
SYMMETRY Symmetry
INVARIANTS
  SkewBounded
  PollInv
PROPERTIES
  RepliesMonotone
