SPECIFICATION FairSpec
CONSTANTS
  Observers  = {o1, o2}
  Foreign    = {f1}
  Base       = base
  Calls      = {outer, inner}
  Parent     <- MCParent
  Root       <- MCRoot
  Executions = {e1, e2}
  Sizes      = {1, 2}
  None       = none
  MaxWork    = 3
  outer      = outer
  inner      = inner
CHECK_DEADLOCK FALSE
INVARIANTS
  TypeOK
  LedgerIsWindow
  RecordedOnce
  PendingIsInFlight
  CorrelationIsCausal
PROPERTY
  NobodyIsClobbered
  EndedIsReleased
