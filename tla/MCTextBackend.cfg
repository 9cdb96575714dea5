CONSTANTS
  Symbols <- MCTextSymbols
  Instrs <- MCTextInstrs
  Datas <- MCTextDatas
  MaxEmits = 2
  InBody = {}
  NoSym = NoSym

SPECIFICATION TSpec

INVARIANT TTypeOK
INVARIANT SizeClosesBody
PROPERTY OperandTextFaithful
PROPERTY FunctionsEventuallySized

\* After the final flush the unit is closed: no call is valid any more.
CHECK_DEADLOCK FALSE
