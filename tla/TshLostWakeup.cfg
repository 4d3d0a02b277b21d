SPECIFICATION FairSpec
CONSTANTS
  p1 = p1
  p2 = p2
  p3 = p3
  NoPid = NoPid
  PIDs = {p1}
  MAXJOBS = 1
  MaxJid = 1
  Keys = {}
PROPERTY WaitfgWakes
