SPECIFICATION Spec
CONSTANTS
  Plain <- MCPlain
  Spaced <- MCSpaced
  Coded <- MCUtf8
  Broken <- MCNone
  MaxSteps = 4
  MaxPlain = 4
INVARIANTS
  Utf8PassedAsSuch
CHECK_DEADLOCK FALSE
