SPECIFICATION Spec
CONSTANTS
  CommStreams <- EitherStream
  MaxForward = 2
  MaxReverse = 1
INVARIANTS
  TypeOK
  InProgramOrder
  NothingPending
