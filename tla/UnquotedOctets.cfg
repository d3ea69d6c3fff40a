SPECIFICATION Spec
CONSTANTS
  Plain <- MCPlain
  Spaced <- MCSpaced
  Coded <- MCCoded
  Broken <- MCBroken
  MaxSteps = 4
  MaxPlain = 4
INVARIANTS
  UnquotedAccepted
CHECK_DEADLOCK FALSE
