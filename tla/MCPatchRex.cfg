CONSTANTS
  Forms <- MCAllForms
  Disps <- MCDisps

SPECIFICATION PSpec

INVARIANT DispFieldPatched

\* One relocation per instruction: nothing follows the patch.
CHECK_DEADLOCK FALSE
