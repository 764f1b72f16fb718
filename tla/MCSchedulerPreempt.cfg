CONSTANTS
  MaxPid = 4
  SCHED_MAX_READY = 4
  SCHED_MAX_DEAD = 4
  Syscalls = {"exit", "spawn", "wait"}
  WaitPids = {3}
  KillPids = {}
  KillStates = {}
  SleepTimes = {}
SPECIFICATION TimerSpec
PROPERTIES ReadyRuns
