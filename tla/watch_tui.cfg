CONSTANTS
  s1 = s1
  s2 = s2
  w1 = w1
  Session = {s1, s2}
  Age <- AgeOf
  Ancestors <- AncestorsOf
  Tree = {w1}
  TreeOf <- TreeOfEach
  Keys = {"down", "up", "enter", "d", "y", "n", "p", "l", "h", "esc", "q", "W"}
  MaxDrain = 2
  MaxAt = 1
  MaxWrites = 2
  MaxQueue = 1
  MaxKeys = 2
  None = None
SPECIFICATION Spec
CHECK_DEADLOCK FALSE
INVARIANTS
  QuietMeansFresh
PROPERTIES
  ActsOnShown
  TreeGoesWithItsLast
