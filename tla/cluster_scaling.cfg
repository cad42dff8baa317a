CONSTANTS
  Replicas = {0, 1, 3}
  MaxNode = 3
  Pools = {"p"}
  NoPool = "none"
  Tools = {"apply"}
  Lossy = {}
  EarlyReady = FALSE
  BusyEdits = FALSE
  MaxEdits = 3
  MaxKills = 0
  MaxCrashes = 0
  MaxFailures = 0
SPECIFICATION FairSpec
CHECK_DEADLOCK FALSE
INVARIANTS NodesContiguous
PROPERTIES OnlySurplusRemoved RemovedTogether Settles DeletionCompletes
