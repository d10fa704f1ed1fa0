SPECIFICATION Spec
CONSTANTS
  Shapes <- UnevenShapes
  BlockSize = 3
  MaxBlocks = 2
INVARIANTS
  TypeOK
  TrianglesExtracted
  DiagonalCountedOnce
  PivotsReplicated
  SolutionExtracted
  FillCoversAll
