CONSTANTS
  Geometries <- SmallGeometries
  BufferDepths <- MCBufferDepths
SPECIFICATION FairSpec
PROPERTIES
  ImplementsShardExchange
  Terminates
