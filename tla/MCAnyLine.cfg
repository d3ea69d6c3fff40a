SPECIFICATION Spec
CONSTANTS
  Plain <- MCPlain
  Spaced <- MCSpaced
  Coded <- MCCoded
  Broken <- MCBroken
  MaxSteps = 5
  MaxPlain = 7
INVARIANTS
  LexDecodes
  ReadAndLexAgree
  LexedLineIsTheLine
  QuotedWordsReturn
  CMIInsideRepository
  CMIsDistinct
CHECK_DEADLOCK FALSE
