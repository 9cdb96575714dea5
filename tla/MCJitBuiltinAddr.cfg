CONSTANTS
  Symbols <- MCSymbols
  Instrs <- MCInstrs
  Datas <- MCBuiltinDatas
  LibEntries <- MCLibEntries
  Regions = {4096}
  MaxEmits = 2
  MaxFixes = 1
  NoLabel = NoLabel
  NoSym = NoSym
  NoPatch = NoPatch

SPECIFICATION Spec

INVARIANT AddressSlotsAbsolute

\* After jit_finalize the unit is inert: no call is valid any more.
CHECK_DEADLOCK FALSE
