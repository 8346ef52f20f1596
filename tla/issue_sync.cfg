\* Two comments, one new file; nobody acts while a command runs.
CONSTANTS
  Value = {v1, v2}
  Links = {"labels"}
  Comment = {c1, c2}
  NewFile = {n1}
  Meanwhile = FALSE
  MaxClock = 2
  None = None
SYMMETRY Symmetry
SPECIFICATION Spec
INVARIANTS
  PostedOnce
PROPERTIES
  SendsOnlyApproved
  
