SPECIFICATION PacerSpec
CONSTANTS
  Second = 2000
  MaxDurationSeconds = 5
  MaxRequestsPerSec = 20
  MaxWorkers = 2
  MaxSamples = 50
  Durations = {0, 1, 5, 6}
  Rates = {0, 1, 7, 13, 20, 21}
  Pools = {0, 1, 2, 3}
  Names = {"localhost", "test-server", "lab"}
  Defaults = {"localhost", "test-server"}
  Lists <- MCLists
INVARIANTS
  ListHonoured
  LoadPlanned
  RanksSound
