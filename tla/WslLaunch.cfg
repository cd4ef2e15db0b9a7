SPECIFICATION FairSpec
CONSTANTS
  DefaultDistro <- Ubuntu
  Arguments     <- MCArguments
  Worlds        <- MCWorlds
  Profiles      <- MCProfiles
  Scenarios     <- MCScenarios
  ForwardNames  <- MCForward
  NeverNames    <- MCNever
  BridgeNames   <- MCBridge
  HostModes     <- MCHostModes
CHECK_DEADLOCK FALSE
INVARIANTS
  TypeOK
  RunsOnlyComplete
  ChosenWorldIsKept
  TaskIsOpaque
  InstallIsComplete
  EnvironmentIsOwned
PROPERTIES
  OrderIsNeverLost
  ReinstallRepairs
