SPECIFICATION Spec
CONSTANTS
  None = None
  NULL = NULL
  Queries = {q1}
  LikeTable = {}
  Lowercase <- MCLowercase
  Callers <- MCCallers
  Asks <- MCAsks
  Directories <- MCDirectories
  Versions <- MCVersions
  PlatformFiles <- MCPlatformFiles
  Files <- MCFiles
  Castable <- MCCastable
  VerifyingKey = "k"
  Compiles <- MCCompiles
  Holds <- MCHolds
  Meant <- MCMeant
  MaxPlan = 8
INVARIANTS
  TypeOK
  AnswersFromView
  SchemaAsAnnounced
  OpenedOnlyIfPermitted
  GovernedByIssued
  NotGovernedByThePast
  EnvelopeNamesEnforcement
CHECK_DEADLOCK FALSE
