SPECIFICATION Spec
CONSTANTS
  Holders = {h1, h2}
  Texts <- SomeTexts
  Maps <- SomeMaps
  Gone = Gone
  MaxObjects = 3
SYMMETRY Places
CHECK_DEADLOCK FALSE
INVARIANTS TypeOK OneOwner TextsTellAssetsApart
