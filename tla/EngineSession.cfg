SPECIFICATION Spec
CONSTANTS
  Calls           <- MCCalls
  Mutators        <- MCMutators
  Verifiers       <- MCVerifiers
  Inline          <- MCInline
  Commands        <- MCCommands
  CommandOf       <- MCCommandOf
  Contents        <- MCContents
  ExitOf          <- MCExitOf
  Interrupted     <- MCInterrupted
  Observations    <- MCObservations
  Window          = 2
  InlineThreshold = 2
  MaxEvents       = 4
INVARIANTS
  TypeOK
  FactsAreHistory
  RingIsWindow
  RoundVerdictIsExact
  ChainCountsIdleRounds
  ReminderIsEarned
