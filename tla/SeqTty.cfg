SPECIFICATION TtySpec
CONSTANTS
  Limits <- MCLimits
  ax = ax
  sp = sp
  none = none
  Body = 3
  Repertoire <- Based
  WORD = 4
  HALF = 8
  Regs <- MCRegs
  RRSP = sp
  RNONE = none
  DataWords = 3
  Prelude <- MCPrelude
  Programs <- MCPrograms
  Datas <- MCDatas
INVARIANTS
  CheckVerdict
  OneLatchBehind
PROPERTIES
  ImplementsISA
CHECK_DEADLOCK FALSE
