SPECIFICATION FairSpec
CONSTANTS
  Word <- MCWord
  Glued <- MCGlued
  Garbled <- MCGarbled
  Module <- MCModule
  CMIName <- MCCMIName
  ModuleCalls <- MCOneCall
  Flags <- MCFlags
  Arguments <- MCSemicolon
  MaxCorked = 2
  BuilderLines <- MCFewLines
  ExtraLines <- MCExtraLines
  PipeCapacity = 4
PROPERTIES
  CallReturns
CHECK_DEADLOCK FALSE
