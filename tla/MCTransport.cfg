SPECIFICATION Spec
CONSTANTS
  Gets = {g}
  Writes = {w}
  Raws = {}
  MaxTransient = 2
  MaxTls = 2
  MaxWindows = 2
  MaxDowns = 1
INVARIANTS
    NeverStranded
    Isolated
    Attribution
PROPERTIES
    WindowCloses
CHECK_DEADLOCK FALSE
