CONSTANTS
  Symbols <- MCParitySymbols
  Instrs <- MCParityInstrs
  Datas <- MCParityDatas
  LibEntries <- MCParityLibEntries
  Regions = {4096}
  MaxEmits = 2
  MaxFixes = 1
  InBody = {}
  NoLabel = NoLabel
  NoSym = NoSym
  NoPatch = NoPatch

SPECIFICATION PSpec

INVARIANT BytesAgree
INVARIANT LabelsAgree

\* After the unit is closed no call is valid any more.
CHECK_DEADLOCK FALSE
