SPECIFICATION Spec
CONSTANTS
  ax = ax
  sp = sp
  none = none
  Body = 4
  Repertoire <- Based
  WORD = 4
  HALF = 8
  Regs <- MCRegs
  RRSP = sp
  RNONE = none
  DataWords = 3
  Prelude <- MCPrelude
  Programs <- MCPrograms
  Datas <- MCDatas
INVARIANTS
  NoControlConflict
PROPERTIES
  ImplementsISA
  SomethingUnderWay
CHECK_DEADLOCK FALSE
