SPECIFICATION Spec
CONSTANTS
  Runs = {e1, e2}
  v8 = v8
  Versions <- MCVersions
  Configs <- MCConfigs
  None = None
SYMMETRY Sym
CHECK_DEADLOCK FALSE
INVARIANTS RightDirectory
