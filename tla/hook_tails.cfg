SPECIFICATION MCSpec
CONSTANTS
  Sid = {s1}
  Pid = {c1}
  Agent = {a1}
  Task = {t1}
  MAIN_THREAD_AGENT_KEY = main
  TIMEOUT = 0
  None = None
  HookProc = {h1, h2}
  MaxSaid = 2
  INITIAL_READ_SIZE = 2
  MAX_READ_SIZE = 4
  MAX_LINES_TO_SCAN = 2
  MaxLines = 4
  MaxBytes = 2
  nvim = nvim
  PlainClaude = claude
  Claude = {claude}
  NoRun = 0
  NewRun = {1, 2, 3}
  LayoutsInUse <- RightLayouts
  OthersMeanwhile = FALSE
SYMMETRY Alike
INVARIANTS
  PromptIsShown
  WorkIsProtected
  AnswersAreCurrent
  LayoutAsConfigured
  
PROPERTIES
  
  AloneLeavesItRight
  PromptStaysNotified
