CONSTANTS
  Nodes = {"a", "b"}
  NoNode = "none"
  Other = "other"
  PortMin = 2
  PortMax = 6
  U16 = 10
  Allocation <- SmallSizes
  Contains <- PairDistinct
  Foreign = {3, 5, 7}
  MaxTasks = 2
  MaxCreations = 2
  Troubles = {"crash", "finalizer", "edit", "others"}
  MaxTrouble = 1
SPECIFICATION Spec
CHECK_DEADLOCK FALSE
INVARIANTS PortsInRange RefusedOnlyIfFull
PROPERTIES ForeignKept
