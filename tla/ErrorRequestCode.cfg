SPECIFICATION Spec
CONSTANTS
  Word <- MCWord
  Glued <- MCGlued
  Garbled <- MCGarbled
  Module <- MCModule
  CMIName <- MCCMIName
  ModuleCalls <- MCOneCall
  Flags <- MCFlags
  Arguments <- MCArguments
  MaxCorked = 2
  BuilderLines <- MCFewLines
  ExtraLines <- MCNoLines
  PipeCapacity = 4
INVARIANTS
  RequestRecorded
CHECK_DEADLOCK FALSE
