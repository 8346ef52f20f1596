CONSTANTS
  Tree = {w1}
  Branch = {b1}
  DirOf <- DirOfAll
  Session = {s1}
  Home <- HomeOfAll
  Window = {m1}
  Job = {j1, j2}
  Kinds = {"clean", "delete", "detached", "new"}
  MaxTip = 1
  Meanwhile = FALSE
  None = None
SYMMETRY Symmetry
SPECIFICATION Spec

  
PROPERTIES
  
  
  
  NewRestores
