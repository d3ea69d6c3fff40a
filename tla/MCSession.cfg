SPECIFICATION FairSpec
CONSTANTS
  Word <- MCWord
  Glued <- MCGlued
  Garbled <- MCGarbled
  Module <- MCModule
  CMIName <- MCCMIName
  ModuleCalls <- MCOneCall
  Flags <- MCFlags
  Arguments <- MCArguments
  MaxCorked = 2
  InitialResolver <- MCDerived
  PipeCapacity = 2
INVARIANTS
  TypeOK
  TurnsDoNotCross
  NoDeadlock
  NothingLeftBehind
  ErrorsAreGenuine
  ConnectionAgreement
PROPERTIES
  ImplementsTurnBased
  CallAdvances
  CallsReturn
  BuilderStops
CHECK_DEADLOCK FALSE
