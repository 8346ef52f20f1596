SPECIFICATION FairCompactSpec
CONSTANTS
  Agent = {a1}
  Task = {t1}
  MAIN_THREAD_AGENT_KEY = main
  TIMEOUT = 0
  None = None
  Sid = {s1}
  Pid = {c1}
  Worker = {w1, w2}
  UserMeanwhile = FALSE
INVARIANTS
  
  CompactsOnlyIdle

  
