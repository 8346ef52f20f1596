CONSTANTS
  s1 = s1
  s2 = s2
  c1 = c1
  c2 = c2
  c3 = c3
  Session = {s1, s2}
  Caller = {c1, c2, c3}
  KindOf <- Kinds
  TargetOf <- Targets
  MaxRuns = 1
  None = None
SPECIFICATION Spec
CHECK_DEADLOCK FALSE
PROPERTIES
  NoFreshClaudeKilled
