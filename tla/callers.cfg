\* A sweep and a hook on one session; three callers of reviews that keep clear
\* of each other's windows, while the agent edits the draft whenever it is not
\* under review.
SPECIFICATION FairMCSpec
CONSTANTS
  Proc = {p1, p2}
  LockInode = {l1, l2}
  DataInode = {d1, d2}
  Ops <- SweepOps
  LOCK_RETRY_COUNT = 2
  Nil = Nil
  Torn = Torn
  Caller = {r1, r2, r3}
  Text = {t1, t2}
  Unsendable = {t2}
  Hasty = FALSE
  AgentMeanwhile = FALSE
  Absent = Absent
INVARIANTS
  OneEditor
  ApprovalIsAGesture
  
PROPERTIES
  CallsReturn
  CallerIsAnswered
