CONSTANTS
  Geometries <- MCGeometries
  BufferDepths <- MCBufferDepths
SPECIFICATION Spec
INVARIANTS
  TypeOK
  ForwardLayout
  RoundTrip
  EntryNeverLost
  ExchangeMatched
  ExecutorAccepts
PROPERTIES
  SavedSlabPreserved
