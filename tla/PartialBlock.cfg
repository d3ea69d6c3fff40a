SPECIFICATION Spec
CONSTANTS
  Word <- MCWord
  Glued <- MCGlued
  Garbled <- MCGarbled
  Module <- MCModule
  CMIName <- MCCMIName
  InitialResolver <- MCContract
  CompilerLines <- MCLines
  ExtraLines <- MCExtraLines
  MaxLines = 2
  PipeCapacity = 4
INVARIANTS
  LexMayLookAhead
CHECK_DEADLOCK FALSE
