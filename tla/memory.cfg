\* Three views, three blocks of two slots, five calls of the program.
SPECIFICATION Spec
CONSTANTS
  Views = {v1, v2, v3}
  Blocks = {b1, b2, b3}
  Slots = {0, 1}
  None = None
  MaxCalls = 5
SYMMETRY MCSymmetry
\* A program that makes no more calls and leaves nothing to collect has ended.
CHECK_DEADLOCK FALSE
INVARIANTS
  TypeOK
  PointeesKept
  AttachedKept
  NoStaleView
  ArgumentsKept
