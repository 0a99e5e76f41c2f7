SPECIFICATION Spec
CONSTANTS
  Parts = {"regions"}
  main = main
  libA = libA
  libB = libB
  FileName = {main, libA, libB}
  Root = main
  Disks <- MCDisks
  EntryPoint = "__ENTRY_POINT"
  Codes <- MCCodes
  Readables <- MCReadables
  Leftovers <- MCLeftovers
  BufferSize = 4
  MaxCalls = 3
  Memories <- MCMemories
  Pointers <- MCPointers
  CodeWord = {1}
  MaxFrames = 3
  Region <- MCRegion
  Maps <- MCMaps
  WantedType = "dylinker"
  Images = {0, 1, 2}
  Value = {v1, v2}
  Junk = junk
  InitialCapacity = 2
  MaxLength = 5
INVARIANTS
  OutsideIsNegative
CHECK_DEADLOCK FALSE
