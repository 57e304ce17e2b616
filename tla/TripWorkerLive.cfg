\* Two trips over a channel of one place, one of them with no generation yet, a crash and a busy database.
SPECIFICATION FairSpec
CONSTANTS
  Workers = {w1}
  Entry <- MCTwoTrips
  Old = {1}
  Log <- MCShortLog
  Offset <- MCNoBoot
  Margin = 1
  JobsCap = 1
  Failures <- MCFailures
  MaxTrips = 2
  MaxReprocess = 0
  MaxCrashes = 1
  MaxBusy = 1
CHECK_DEADLOCK FALSE
PROPERTIES EveryTripDecided MarksAreDrained
