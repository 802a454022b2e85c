\* As codec.cfg: what README.md:107 says of 64-bit integers.
SPECIFICATION Spec
CONSTANTS
  ByteValues = 4
  DoubleBits = 13
  FloatBits = 5
  NumberBits = 18
  Hosts <- MCHosts
  Layouts <- MCLayouts
  Length = 11
  Inputs <- MCInputs
INVARIANTS
  StringsFor64Bits
