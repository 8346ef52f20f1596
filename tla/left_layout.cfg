SPECIFICATION LaunchSpec
CONSTANTS
  nvim = nvim
  PlainClaude = claude
  Claude = {claude}
  NoRun = 0
  NewRun = {1, 2}
  LayoutsInUse <- LeftLayouts
  OthersMeanwhile = FALSE
INVARIANTS
  LayoutAsConfigured
CHECK_DEADLOCK FALSE
