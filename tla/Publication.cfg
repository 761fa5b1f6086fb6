SPECIFICATION Spec
CONSTANTS
  Publisher = {p1, p2}
  Product = {v1, v2, bad}
  Valid = {v1, v2}
  NoProduct = NoProduct
INVARIANTS
  LatestHasItsImmutable
  StatusNamesPublished
PROPERTIES
  ImplementsLatestFile
