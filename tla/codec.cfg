\* A variable of any type next to another one; three hosts.
SPECIFICATION Spec
CONSTANTS
  ByteValues = 4
  DoubleBits = 13
  FloatBits = 5
  NumberBits = 18
  Hosts <- MCHosts
  Layouts <- MCLayouts
  Length = 11
  Inputs <- MCInputs
INVARIANTS
  TypeOK
  RoundTrip
  FloatRoundTrip
  CalleeSees
  ProperAccepted
  ResultRead
