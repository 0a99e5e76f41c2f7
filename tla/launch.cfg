SPECIFICATION FairSpec
CONSTANTS
  Events = {"acquireFails", "forkFails", "traceFails", "execFails", "taskFails",
            "stale", "eintr", "signal", "kill", "eof"}
INVARIANTS
  TypeOK
  ChildSettled
PROPERTIES
  LaunchSettles
  ExitEndsConsole
CHECK_DEADLOCK FALSE
