SPECIFICATION Spec
CONSTANTS
  p1 = p1
  p2 = p2
  p3 = p3
  Procs <- ThreeProcs
  Shell <- NoProc
  Tokened <- NoProc
  Leavers <- NoProc
  None = None
  Ghost = Ghost
  MaxFaults = 1
PROPERTY ReleaseSparesOthers
