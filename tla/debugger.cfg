SPECIFICATION Spec
CONSTANTS
  t1 = t1
  t2 = t2
  AddressSpace = 6
  Byte = {"int3", "op"}
  INT3 = "int3"
  Text <- MCText
  MaxBreakpoints = 3
  Thread = {t1, t2}
  MainThread = t1
  Entry = 0
  Successors <- MCSuccessors
  Calls <- MCCalls
  InstructionEnd <- MCInstructionEnd
  BreakAddress = {0, 2}
  HookAddress = 4
  Is64Bit = FALSE
  Debuggee64 = FALSE
  Garbage <- MCZero
  Events = {"signal", "spawn", "exit"}
INVARIANTS
  TypeOK
  WaitCanEnd
PROPERTIES
  Transparent
  PassedOnlyByStepping
  SingleStepIsolated
