SPECIFICATION FairSpec
CONSTANTS
  Word <- MCWord
  Glued <- MCGlued
  Garbled <- MCGarbled
  Module <- MCModule
  CMIName <- MCCMIName
  ModuleCalls <- MCOneCall
  Flags <- MCFlags
  Arguments <- MCArguments
  MaxCorked = 2
  BuilderLines <- MCLines
  ExtraLines <- MCExtraLines
  PipeCapacity = 4
INVARIANTS
  QueueMatchesBuffer
  RequestsArrive
  PacketsCorrespond
  FaultsAreContained
  ConnectedByHandshake
  NeverWaitsInVain
PROPERTIES
  CallReturns
CHECK_DEADLOCK FALSE
