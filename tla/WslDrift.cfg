SPECIFICATION Spec
CONSTANTS
  DefaultDistro <- Ubuntu
  Arguments     <- MCArguments
  Worlds        <- MCWorlds
  Profiles      <- MCProfiles
  Scenarios     <- ArgScenarios
  ForwardNames  <- MCForward
  NeverNames    <- MCNever
  BridgeNames   <- MCBridge
  HostModes     <- MCHostModes
CHECK_DEADLOCK FALSE
INVARIANTS
  RunsWhereVerified
