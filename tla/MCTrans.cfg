CONSTANTS
  Sizes <- Shapes
  Block = 8
  Square = 64
  LineInts = 8
  CacheSets = 32
  BaseB = 65536
  Junk <- NoValue
SPECIFICATION Spec
INVARIANTS
  TypeOK
  InsideMatrices
  TransposesAll
  MissesAsMeasured
