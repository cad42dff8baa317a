CONSTANTS
  Hoprds = {"n1", "n2"}
  Identities = {"n1", "n2"}
  NoName = "none"
  Wish <- HomonymWish
  Databases = {"unset", "set"}
  Lossy = {}
  MaxCreations = 1
  MaxEdits = 1
  MaxCrashes = 0
  MaxFailures = 0
SPECIFICATION FairSpec
CHECK_DEADLOCK FALSE
PROPERTIES DeletionCompletes NodeStarts
