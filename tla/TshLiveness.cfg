SPECIFICATION SessionSpec
CONSTANTS
  p1 = p1
  p2 = p2
  NoPid = NoPid
  PIDs <- MCPIDs
  MAXJOBS = 2
  MaxJid = 2
  Keys = {"TSTP"}
PROPERTIES
  EventuallyReaped
  ForegroundReturns
  KeyReachesForeground
