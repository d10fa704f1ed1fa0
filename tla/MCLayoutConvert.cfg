CONSTANTS
  Calls <- MCCalls
  Width = 42
  MaxGridX = 3
SPECIFICATION Spec
INVARIANTS
  TypeOK
  ColumnMajorThere
  RowMajorRestored
  SlicesDisjoint
