\* As layout.cfg, with the claim about types that give no alignment.
SPECIFICATION Spec
CONSTANTS
  N = 3
  KindChoices <- MCKinds
  char = char
  int = int
  custom = custom
  Prims = {char, int, custom}
  PrimSize <- MCPrimSize
  PrimAlign <- MCPrimAlign
  PointerSize = 8
  Names = {"0", "a", "b"}
  IndexNames <- MCIndexNames
  Menu <- MCMenu
  Lengths = {0, 2}
  MaxFields = 2
  NoFfi = NoFfi
INVARIANT
  AlignmentIsOptional
CHECK_DEADLOCK FALSE
