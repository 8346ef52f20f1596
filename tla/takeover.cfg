\* Two sessions that use one pane after each other. Two worktrees, four keys,
\* one child.
SPECIFICATION MCSpec
CONSTANTS
  Sid = {s1, s2}
  Pid = {1}
  Agent = {}
  Task = {}
  MAIN_THREAD_AGENT_KEY = main
  TIMEOUT = 1
  None = None
  UserInPass = FALSE
  Path = {p1, p2}
  Order <- RankOf
  MaxKeys = 4
  MaxVisits = 2
  MaxRuns = 1
  MaxChanges = 1
  MaxNights = 1
  MaxQueue = 1
  Apart = TRUE
  Nothing = Nothing
INVARIANTS
  PausedKeepsItsPane
  DeletedLeaveTheList
PROPERTIES
  KeptIsKept
  ToggleActsOnShown
