SPECIFICATION FairSpec
CONSTANTS
  Word <- MCWord
  Glued <- MCGlued
  Garbled <- MCGarbled
  LineChoices <- MCLineChoices
  MaxLines = 3
  PipeCapacity = 3
INVARIANTS
  ReadTellsTheTruth
  ContentsPreserved
  NeverStuck
PROPERTIES
  EachStepAdvances
  BlockArrives
  ImplementsBlockChannel
