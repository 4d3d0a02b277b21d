SPECIFICATION Spec
CONSTANTS
  p1 = p1
  p2 = p2
  p3 = p3
  NoPid = NoPid
  PIDs <- MCPIDs
  MAXJOBS = 1
  MaxJid = 1
  Keys = {}
SYMMETRY MCSymmetry
INVARIANT FullListSurvived
