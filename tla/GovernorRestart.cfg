SPECIFICATION Spec
CONSTANTS
  Calls              <- MCCalls
  Mutators           <- MCMutators
  Verifiers          <- MCVerifiers
  Inline             <- MCInline
  Commands           <- MCCommands
  CommandOf          <- MCCommandOf
  Contents           <- MCContents
  ExitOf             <- MCExitOf
  Interrupted        <- MCInterrupted
  Tokens             <- MCTokens
  TokensOf           <- MCTokensOf
  Observations       <- FewObservations
  Thresholds         = {1, 2}
  MaxForced          = 2
  ClaimCheck         = FALSE
  DownstreamReplaces = FALSE
  LosesResults       = TRUE
  MaxCalls           = 3
  MaxMessages        = 2
  MaxRestarts        = 1
  MaxCompactions     = 1
  GovernorEnabled    = TRUE
  Steering           = TRUE
  EvidenceBound      = TRUE
  Window             = 2
  InlineThreshold    = 2
  Pruned             = "pruned"
CHECK_DEADLOCK FALSE
INVARIANTS
  EvidenceInv
  LiveEqualsReplay
PROPERTY
  ReleaseIsVerified
  KeepsPromise
