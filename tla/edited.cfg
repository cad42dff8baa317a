CONSTANTS
  Hoprds = {"n1", "n2"}
  Identities = {"x", "y"}
  NoName = "none"
  Wish <- EditedWish
  Databases = {"set"}
  Lossy = {"update_status", "claim", "pool", "release"}
  MaxCreations = 1
  MaxEdits = 1
  MaxCrashes = 1
  MaxFailures = 1
SPECIFICATION Spec
CHECK_DEADLOCK FALSE
PROPERTIES LockNeverStolen
