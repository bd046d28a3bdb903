SPECIFICATION Spec
CONSTANTS
  Pool = 2
  MaxRequests = 3
  MaxSamples = 2
  Nil = Nil
INVARIANTS
  FinalReportAgrees
  RestoredReportSame
  LiveReportStands
