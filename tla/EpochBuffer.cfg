CONSTANTS
  Items <- MCItems
  Commits <- MCCommits
  Epoch <- MCEpoch
  MaxRetry = 2
  MaxAge = 1
  MaxSize = 1
  MaxTime = 2
  MaxArrivals = 3
  MaxFaults = 1
SPECIFICATION FairSpec
CHECK_DEADLOCK FALSE
INVARIANTS TypeOK ShownOnce SpentIsShown PassOpens
PROPERTIES Drains
