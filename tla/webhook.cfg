CONSTANTS
  Kinds = {"ClusterHoprd", "Hoprd", "IdentityHoprd", "IdentityPool"}
  Payloads = {"a", "b"}
  Domains = {"d"}
  Identities = {"i"}
  Ports = {4, 20}
  Addresses = {"n1", "n2"}
  Absent = Absent
  Lenient = TRUE
  MaxWrites = 4
SPECIFICATION Spec
CHECK_DEADLOCK FALSE
INVARIANTS StoredIsV3 WrittenIsStored 
PROPERTIES TouchInert
