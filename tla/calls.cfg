\* One generator of variadic functions; two environments and two libraries.
\* It ends when the bounds are reached.
SPECIFICATION Spec
CONSTANTS
  int = int
  double = double
  pointer = pointer
  struct = struct
  TypeObjects = {int, double, pointer, struct}
  Proto <- MCProto
  FixedTypes <- MCFixedTypes
  ReturnType = double
  Base = 3
  Wrap = 8
  MaxVariable = 2
  MaxRequests = 2
  object = object
  script = script
  outer = outer
  spaced = spaced
  other = other
  missing = missing
  Files = {object, script, outer, spaced, other, missing}
  Kind <- MCKind
  Target <- MCTarget
  Matches <- MCMatches
  Exports <- MCExports
  Symbols = {"s", "t"}
  Envs = {e1, e2}
  Libraries = {l1, l2, l3}
  None = None
INVARIANTS
  TypeOK
  CachedSignature
  FunctionsStayMapped
  ErrorIsOwn
  ScriptsFollowed
SYMMETRY MCSymmetry
CHECK_DEADLOCK FALSE
