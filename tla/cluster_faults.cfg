CONSTANTS
  Replicas = {1, 2}
  MaxNode = 3
  Pools = {"p", "q"}
  NoPool = "none"
  Tools = {"apply", "edit"}
  Lossy = {"update_status", "add_finalizer", "annotate", "create", "wait", "delete", "notify", "delete_finalizer"}
  EarlyReady = TRUE
  BusyEdits = TRUE
  MaxEdits = 1
  MaxKills = 1
  MaxCrashes = 1
  MaxFailures = 1
SPECIFICATION Spec
CHECK_DEADLOCK FALSE
INVARIANTS CountExact NoOpMeansScaled
PROPERTIES FirstGapFilled
