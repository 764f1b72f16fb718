CONSTANTS
  MaxPid = 5
  SCHED_MAX_READY = 5
  SCHED_MAX_DEAD = 5
  Syscalls = {"exit", "spawn", "fault"}
  WaitPids = {}
  KillPids = {}
  KillStates = {}
  SleepTimes = {}
SPECIFICATION TimerSpec
PROPERTIES ReadyRuns
