SPECIFICATION Spec
CONSTANTS
  p1 = p1
  p2 = p2
  p3 = p3
  NoPid = NoPid
  PIDs <- MCPIDs
  MAXJOBS = 2
  MaxJid = 2
  Keys = {"INT", "TSTP"}
SYMMETRY MCSymmetry
INVARIANTS
  TypeOK
  OneForeground
  ReapedNotListed
  EveryChildListed
  NoLostChild
  StopsAreShown
  KeyboardSparesBackground
