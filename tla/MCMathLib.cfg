SPECIFICATION Spec
CONSTANTS
  Lanes = 2
  TILE_SIZE = 4
  One = 6
  MatrixSizes = {0, 1, 4, 5}
  RowCounts = {0, 2, 5}
  BandWidths = {0, 1, 2}
  Counts = {0, 2, 5}
  MaxCalls = 4
INVARIANTS
  TypeOK
  ProductSoFar
  BandedProduct
PROPERTY DotIsExact
CHECK_DEADLOCK FALSE
