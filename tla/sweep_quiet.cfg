SPECIFICATION FairSweepSpec
CONSTANTS
  Sid = {s1}
  Pid = {1}
  Agent = {a1}
  Task = {}
  MAIN_THREAD_AGENT_KEY = main
  TIMEOUT = 2
  None = None
  UserInPass = FALSE
INVARIANTS
  SignalsOnlyUntouched
  PausedIsGone
PROPERTIES
  IdleIsPaused
