SPECIFICATION Spec
CONSTANTS
  t1 = t1
  t2 = t2
  AddressSpace = 6
  Byte = {"int3", "op"}
  INT3 = "int3"
  Text <- MCText
  MaxBreakpoints = 2
  Thread = {t1, t2}
  MainThread = t1
  Entry = 0
  Successors <- MCOneByteSuccessors
  Calls <- MCCalls
  InstructionEnd <- MCInstructionEnd
  BreakAddress = {0}
  HookAddress = 4
  Is64Bit = FALSE
  Debuggee64 = FALSE
  Garbage <- MCZero
  Events = {"spawn"}
PROPERTIES
  StepBackUndoesInt3
CHECK_DEADLOCK FALSE
