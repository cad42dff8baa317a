CONSTANTS
  Identities = {"x"}
  Hoprds = {"a"}
  NoNode = "none"
  Funding = {TRUE}
  Lossy = {}
  MaxPools = 1
  MaxCreations = 2
  MaxTrouble = 1
SPECIFICATION FairSpec
CHECK_DEADLOCK FALSE
INVARIANTS SizeExact
PROPERTIES DeletionCompletes IdentityServed
