SPECIFICATION Spec
CONSTANTS
  int3 = int3
  op = op
  junk = junk
  AddressSpace = 3
  Byte = {int3, op, junk}
  INT3 = int3
  Text <- MCText
  Volatile = {2}
  MaxBreakpoints = 3
INVARIANTS
  TypeOK
  NoOrphanedInt3
  ReadsSeeProgram
  EnabledIsArmed
