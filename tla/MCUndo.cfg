SPECIFICATION Spec
CONSTANTS
  Addr = {1, 2}
  NoAddr = NoAddr
  Rvalue <- MCRvalue
  ConstAddr <- MCConstAddr
  Symbol = {}
  NoName = NoName
  Binaries = {}
  f = f
  g = g
  c1 = c1
  c2 = c2
  n1 = n1
  v1 = v1
  lf = lf
  lg = lg
  shared = shared
  Func <- MCOne
  Line = {lf}
  Comment = {c1, c2}
  NewName = {n1}
  Value = {v1}
  None = None
  Openings = {"binary", "project"}
  MaxActs = 5
  MaxLag = 1
CHECK_DEADLOCK FALSE
INVARIANTS UndoHistory MenuFollowsStack SidebarFollowsNames
