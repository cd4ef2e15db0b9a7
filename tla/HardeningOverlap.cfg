SPECIFICATION Spec
CONSTANTS
  Instances   = {i1, i2}
  Foreign     = {f1}
  Base        = base
  Configs     <- MCConfigs
  Policies    <- MCPolicies
  Runners     = {"bwrap", "sandbox-exec", "runner"}
  Size        = 2
  None        = none
  Unset       = unset
  MaxConfines = 3
CHECK_DEADLOCK FALSE
INVARIANT InstancesDoNotOverlap
