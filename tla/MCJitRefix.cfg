CONSTANTS
  Symbols <- MCSymbols
  Instrs <- MCInstrs
  Datas <- MCDatas
  LibEntries <- MCLibEntries
  Regions = {4096, 8192}
  MaxEmits = 2
  MaxFixes = 2
  NoLabel = NoLabel
  NoSym = NoSym
  NoPatch = NoPatch

SPECIFICATION Spec

INVARIANT AddressSlotsAbsolute

\* After jit_finalize the unit is inert: no call is valid any more.
CHECK_DEADLOCK FALSE
