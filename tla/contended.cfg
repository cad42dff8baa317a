CONSTANTS
  Hoprds = {"n1", "n2"}
  Identities = {"x"}
  NoName = "none"
  Wish <- ContendedWish
  Databases = {"unset"}
  Lossy = {"add_finalizer", "claim", "create", "wait", "db", "annotate", "delete", "get", "release", "notify", "delete_finalizer"}
  MaxCreations = 2
  MaxEdits = 0
  MaxCrashes = 1
  MaxFailures = 1
SPECIFICATION Spec
CHECK_DEADLOCK FALSE
INVARIANTS TypeOK MutexInv HolderInv ExclusiveUse UsedIdentityIsLocked LocksAccounted
PROPERTIES RemovedClean LeaseSpec
