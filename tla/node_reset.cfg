CONSTANTS
  Lossy = {"update_status", "get", "link", "scale", "create", "watch", "job", "late", "unflag", "wait", "early", "annotate"}
  MaxEdits = 2
  MaxCrashes = 1
  MaxFailures = 1
SPECIFICATION FairSpec
CHECK_DEADLOCK FALSE
INVARIANTS NoOpMeansApplied
PROPERTIES ClearedMeansWiped StartsAfterJob ResetServed NodeSettles
