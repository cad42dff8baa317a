CONSTANTS
  Nodes = {"a", "b", "c"}
  NoNode = "none"
  Other = "other"
  PortMin = 2
  PortMax = 8
  U16 = 16
  Allocation <- Sizes
  Contains <- Distinct
  Foreign = {4}
  MaxTasks = 1
  MaxCreations = 2
  Troubles = {"crash", "finalizer", "edit", "others"}
  MaxTrouble = 1
SPECIFICATION Spec
CHECK_DEADLOCK FALSE
INVARIANTS PortsServed PortsClosed
