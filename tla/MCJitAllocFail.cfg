CONSTANTS
  Symbols <- MCSymbols
  Instrs <- MCInstrs
  Datas <- MCDatas
  LibEntries <- MCLibEntries
  Regions = {0, 4096}
  MaxEmits = 2
  MaxFixes = 1
  NoLabel = NoLabel
  NoSym = NoSym
  NoPatch = NoPatch

SPECIFICATION Spec

PROPERTY ImplementsUnit

\* After jit_finalize the unit is inert: no call is valid any more.
CHECK_DEADLOCK FALSE
