CONSTANTS
  Symbols <- MCTableSymbols
  Instrs <- MCTableInstrs
  Datas <- MCDatas
  LibEntries <- MCLibEntries
  Regions = {4096}
  MaxEmits = 1
  MaxFixes = 1
  NoLabel = NoLabel
  NoSym = NoSym
  NoPatch = NoPatch

SPECIFICATION Spec

INVARIANT PlacedAtLogicalAddress
INVARIANT RelocationCorrect
INVARIANT AddressSlotsAbsolute
INVARIANT LabelsAddressOwnStorage

\* After jit_finalize the unit is inert: no call is valid any more.
CHECK_DEADLOCK FALSE
