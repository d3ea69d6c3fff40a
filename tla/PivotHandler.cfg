SPECIFICATION Spec
CONSTANTS
  Word <- MCWord
  Glued <- MCGlued
  Garbled <- MCGarbled
  Module <- MCModule
  CMIName <- MCCMIName
  InitialResolver <- MCHandler
  CompilerLines <- MCLines
  ExtraLines <- MCExtraLines
  MaxLines = 2
  PipeCapacity = 4
INVARIANTS
  OneResponsePerLine
CHECK_DEADLOCK FALSE
