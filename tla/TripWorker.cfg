\* Two workers, a trip of a boot of two blocks, a reprocess and recalculations that may fail.
SPECIFICATION Spec
CONSTANTS
  Workers = {w1, w2}
  Entry <- MCBootTrip
  Old = {}
  Log <- MCLog
  Offset <- MCLastBoot
  Margin = 1
  JobsCap = 1
  Failures <- MCRecalcFails
  MaxTrips = 1
  MaxReprocess = 1
  MaxCrashes = 0
  MaxBusy = 0
CHECK_DEADLOCK FALSE
SYMMETRY AnyWorker
INVARIANTS ResultReachesThrough FinalTripIsComplete ReprocessIsSeen
PROPERTIES ResultsOnlyAdvance
