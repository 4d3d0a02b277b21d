SPECIFICATION Spec
CONSTANTS
  ax = ax
  sp = sp
  none = none
  Body = 2
  Repertoire <- Absolute
  WORD = 4
  HALF = 8
  Regs <- MCRegs
  RRSP = sp
  RNONE = none
  DataWords = 3
  Prelude <- MCPrelude
  Programs <- MCPrograms
  Datas <- MCDatas
INVARIANTS
  NoRegisterAddsNothing
CHECK_DEADLOCK FALSE
