SPECIFICATION Spec
CONSTANTS
  t1 = t1
  t2 = t2
  AddressSpace = 6
  Byte = {"int3", "op"}
  INT3 = "int3"
  Text <- MCText
  MaxBreakpoints = 1
  Thread = {t1, t2}
  MainThread = t1
  Entry = 0
  Successors <- MCSuccessors
  Calls <- MCCalls
  InstructionEnd <- MCInstructionEnd
  BreakAddress = {0}
  HookAddress = 4
  Is64Bit = TRUE
  Debuggee64 = TRUE
  Garbage <- MCGarbage
  Events = {}
PROPERTIES
  SingleStepIsolated
CHECK_DEADLOCK FALSE
