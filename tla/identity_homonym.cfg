CONSTANTS
  Hoprds = {"n1", "n2"}
  Identities = {"n1"}
  NoName = "none"
  Wish <- SharedHomonymWish
  Databases = {"unset", "set"}
  Lossy = {}
  MaxCreations = 1
  MaxEdits = 0
  MaxCrashes = 0
  MaxFailures = 0
SPECIFICATION Spec
CHECK_DEADLOCK FALSE
INVARIANTS ExclusiveUse
