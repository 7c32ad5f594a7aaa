SPECIFICATION Spec
CONSTANTS
  Objects = {o1, o2, o3}
  Handles = {h1, h2}
  Sizes <- UpToTwo
  Moves = TRUE
  MaxSlots = 2
  Null = Null
CHECK_DEADLOCK FALSE
PROPERTY GetGivesAnObject
