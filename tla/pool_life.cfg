CONSTANTS
  Identities = {"x"}
  Hoprds = {"a"}
  NoNode = "none"
  Funding = {FALSE, TRUE}
  Lossy = {"wallet", "add_finalizer", "helper", "status", "get_cron", "delete_finalizer", "count", "owner", "pvc", "phase", "rm_pvc", "create"}
  MaxPools = 1
  MaxCreations = 1
  MaxTrouble = 2
SPECIFICATION Spec
CHECK_DEADLOCK FALSE
INVARIANTS ReadyHasVolume UsedIsWhole FundingFollows
PROPERTIES RemovedWhole
