SPECIFICATION Spec
CONSTANTS
  p1 = p1
  p2 = p2
  p3 = p3
  NoPid = NoPid
  PIDs <- MCPIDs3
  MAXJOBS = 2
  MaxJid = 2
  Keys = {}
SYMMETRY MCSymmetry3
PROPERTIES
  ImplementsJobControl
