\* Three types, each may embed the ones before it; two fields each.
SPECIFICATION Spec
CONSTANTS
  N = 3
  KindChoices <- MCKinds
  char = char
  int = int
  custom = custom
  Prims = {char, int, custom}
  PrimSize <- MCPrimSize
  PrimAlign <- MCPrimAlign
  PointerSize = 8
  Names = {"0", "a", "b"}
  IndexNames <- MCIndexNames
  Menu <- MCMenu
  Lengths = {0, 2}
  MaxFields = 2
  NoFfi = NoFfi
INVARIANTS
  TypeOK
  LayoutIsC
  FieldsDisjoint
  FfiAgrees
PROPERTY
  SealedForGood
CHECK_DEADLOCK FALSE
