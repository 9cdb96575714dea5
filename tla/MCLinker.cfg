CONSTANTS
  UserArgs <- MCUserArgs
  LdStatus = {0, 1}
  MaxArgs = 2
  MaxInvokes = 2
  MaxBuilds = 2
  NullArg = NullArg
  NoStatus = NoStatus

SPECIFICATION LSpec

INVARIANT LTypeOK
INVARIANT LinkerSeesBuild

\* The driver exits after its last build.
CHECK_DEADLOCK FALSE
