CONSTANTS
  Calls <- MCCalls
SPECIFICATION Spec
INVARIANTS
  TypeOK
  ShardsPlaced
  UnsupportedIsUnavoidable
  CapacitySuffices
  OwnedIsDealt
  GeometryAccepted
  RhsNeverRefused
