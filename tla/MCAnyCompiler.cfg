SPECIFICATION FairSpec
CONSTANTS
  Word <- MCWord
  Glued <- MCGlued
  Garbled <- MCGarbled
  Module <- MCModule
  CMIName <- MCCMIName
  InitialResolver <- MCContract
  CompilerLines <- MCLines
  ExtraLines <- MCExtraLines
  MaxLines = 2
  PipeCapacity = 4
INVARIANTS
  OneResponsePerLine
  ResponsesCorrespond
  HandshakeFirstAndOnce
  AgreeOnConnection
  NeverWaitsInVain
  AbortsOnlyWhenCut
PROPERTIES
  NotEager
  TurnEnds
CHECK_DEADLOCK FALSE
