SPECIFICATION Spec
CONSTANTS
  Events = {"eintr"}
INVARIANTS
  LaunchWaits
CHECK_DEADLOCK FALSE
