CONSTANTS
  MaxPid = 4
  SCHED_MAX_READY = 3
  SCHED_MAX_DEAD = 2
  Syscalls = {"exit", "spawn", "wait", "sleep", "kill"}
  WaitPids = {1, 2, 3, 4}
  KillPids = {1, 2, 3, 4}
  KillStates = {"READY", "LIVING", "NAPPING"}
  SleepTimes = {2}
SPECIFICATION Spec
INVARIANTS TypeOK TreeMatchesParents
CHECK_DEADLOCK FALSE
