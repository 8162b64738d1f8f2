SPECIFICATION Spec
CONSTANTS
  ItemIDs = {1, 2}
  ScopeOrder <- MCScopeOrder
  Parent <- MCParent
  Value = "v"
  Map = "m"
  Coll = "c"
  Deriveds = {"d1", "d2", "d3", "d4"}
  Sources <- MCSources
  Gated = {"d2"}
  Owner <- MCOwner
  MapKeys = {1}
  Scenarios <- MCScenarios
INVARIANTS
  TypeOK
  CacheSound
  ProjectionStable
  DirtyIsListed
  IndexExact
  BinderMirrors
