--------------------------- MODULE GovernorPromise ---------------------------
(***************************************************************************)
(* The adapter implements CompletionPromise.  The promise is about the work *)
(* as the session log tells it, not as the engine has it: that the engine  *)
(* knows is what makes the step from one to the other.                     *)
(***************************************************************************)
EXTENDS Governor

Promise == INSTANCE CompletionPromise WITH
  Budget      <- MaxForced,
  Guarded     <- EvidenceBound,
  dirty       <- UnverifiedIn(log, Len(log)),
  failing     <- {c \in Commands : FailingIn(log, Len(log), c)},
  spent       <- forced,
  waiting     <- "user" \in inbox,
  resting     <- phase \in {"idle", "resuming"},
  disruptions <- restarts + compactions

\* Every behaviour of adapter and host is one the promise allows: the work at
\* each rest is verified or the budget spent, and only a user's message, a
\* crash or a compaction refills it (index.ts 388-409, 486-551).
KeepsPromise == Promise!Spec
=============================================================================
