SPECIFICATION FairSpec
CONSTANTS
  Calls              <- MCCalls
  Mutators           <- MCMutators
  Verifiers          <- MCVerifiers
  Inline             <- MCInline
  Commands           <- MCCommands
  CommandOf          <- MCCommandOf
  Contents           <- MCContents
  ExitOf             <- MCExitOf
  Interrupted        <- MCInterrupted
  Tokens             <- MCTokens
  TokensOf           <- MCTokensOf
  Observations       <- AllObservations
  Thresholds         = {1, 2, 3}
  MaxForced          = 2
  ClaimCheck         = FALSE
  DownstreamReplaces = TRUE
  LosesResults       = FALSE
  MaxCalls           = 4
  MaxMessages        = 2
  MaxRestarts        = 0
  MaxCompactions     = 0
  GovernorEnabled    = TRUE
  Steering           = TRUE
  EvidenceBound      = TRUE
  Window             = 2
  InlineThreshold    = 2
  Pruned             = "pruned"
CHECK_DEADLOCK FALSE
INVARIANTS
  TypeOK
  BudgetIsBounded
  LadderIsBounded
PROPERTY
  ComesToRest
