\* Two contents, one watcher, two processes that poll and hand over.
SPECIFICATION FairSpec
CHECK_DEADLOCK FALSE
CONSTANTS
  Contents = {"c1", "c2"}
  Fleeting = {"c1"}
  Targets = {"t1"}
  Workers = {"w1", "w2"}
  AcceptLimit = 1
  AttemptLimit = 1
  MaxChanges = 1
  MaxFaults = 1
INVARIANTS
  TypeOK
  DiscoveryKept
  OwedMeansQueued
  ClosedAsItWent
PROPERTIES
  NoReplay
  SavesWhatItRead
  WatchCatchesUp
