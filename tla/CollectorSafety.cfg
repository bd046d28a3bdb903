SPECIFICATION Spec
CONSTANTS
  Recorders = {r1, r2}
  MaxSamples = 2
  Window = 1
  Keep = 2
  MaxClock = 5
  MaxSeen = 4
  Nil = Nil
SYMMETRY Symmetry
INVARIANTS
  RateExact
  SamplesSound
