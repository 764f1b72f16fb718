CONSTANTS
  MaxPid = 5
  SCHED_MAX_READY = 5
  SCHED_MAX_DEAD = 2
  Syscalls = {"exit", "fork", "spawn", "execve", "wait", "sleep", "wakeup", "kill", "fault"}
  WaitPids = {2, 3, 4, 5}
  KillPids = {2, 3, 4, 5}
  KillStates = {"READY"}
  SleepTimes = {2}
SPECIFICATION Spec
INVARIANTS Placement WaitedForExists NeverCrashed SchedulerInv
PROPERTIES NoOvertaking
