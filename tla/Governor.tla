------------------------------ MODULE Governor ------------------------------
(***************************************************************************)
(* The adapter plugin packages/dsh-governor/src/index.ts: one engine and   *)
(* one forced-continuation count per agent, driven by the listeners the    *)
(* plugin installs on the host's agent loop.  Agents share nothing in the  *)
(* plugin (both maps are keyed by agent), so one agent is modelled.        *)
(*                                                                         *)
(* The listeners are the plugin's code.  The loop around them (who calls   *)
(* which listener when, what the session log holds) is the host's, and is  *)
(* modelled from how the plugin uses it:                                   *)
(*                                                                         *)
(*   idle --message--> boundary --pre-step--> model --stop--> idle         *)
(*                        ^  ^                  |  |                       *)
(*                        |  +---- steered -----+  | tool call             *)
(*                        +-- observed <- running <+                       *)
(*                                                                         *)
(* The listeners run to completion without awaiting, except post-execute,  *)
(* which awaits the listeners downstream of it after it updated the engine *)
(* and before the host logs the result: that wait is the phase "observed". *)
(***************************************************************************)
EXTENDS SessionLog

CONSTANTS
  GovernorEnabled,   \* governor.enabled
  Steering,          \* governor.mode is not 'observe'
  Thresholds,        \* governor.zeroProgressThresholds
  MaxForced,         \* completion.maxForcedContinuations
  EvidenceBound,     \* completion.mode is 'evidence-bound'
  ClaimCheck,        \* completion.claimCheck
  Tokens,            \* verification tokens a claim may name
  TokensOf           \* the tokens each command satisfies

CONSTANTS
  Observations,      \* results the tools may give, as engine events
  Pruned,            \* content a compaction leaves for a result
  DownstreamReplaces,\* may a later post-execute listener replace a result?
  LosesResults,      \* may the process die between observing and logging?
  MaxCalls, MaxMessages, MaxRestarts, MaxCompactions  \* bounds of the model

ASSUME ConfigAssumption ==
  /\ GovernorEnabled \in BOOLEAN
  /\ Steering \in BOOLEAN
  /\ Thresholds \subseteq Nat
  /\ MaxForced \in Nat
  /\ EvidenceBound \in BOOLEAN
  /\ ClaimCheck \in BOOLEAN
  /\ TokensOf \in [Commands -> SUBSET Tokens]

ASSUME HostAssumption ==
  /\ Observations \subseteq Event
  /\ Pruned \in Contents
  /\ DownstreamReplaces \in BOOLEAN
  /\ LosesResults \in BOOLEAN
  /\ {MaxCalls, MaxMessages, MaxRestarts, MaxCompactions} \subseteq Nat

VARIABLES
  engine,       \* engines.get(agent)
  mounted,      \* is there an entry in engines?
  forced,       \* forced.get(agent), 0 when absent
  log,          \* the tool events of agent.session
  phase,        \* where the host's loop is
  observed,     \* the result post-execute has seen and the host not yet logged
  reminder,     \* post-execute holds a reminder for its caller
  inbox,        \* sources of the messages the next pre-step will deliver
  claimed,      \* tokens the last assistant text claimed when it stopped
  cursor,       \* log entries replayed so far by session-start
  calls, messages, restarts, compactions   \* counters for the bounds

engineVars == <<engine, mounted, forced>>
counters   == <<calls, messages, restarts, compactions>>
vars == <<engine, mounted, forced, log, phase, observed, reminder, inbox,
          claimed, cursor, calls, messages, restarts, compactions>>

Phases == {"idle", "boundary", "model", "running", "observed",
           "resuming", "compacting"}

\* Of all message sources, the plugin tells only users from the rest.
Sources == {"user", "plugin"}

Init ==
  /\ engine = NewEngine
  /\ mounted = FALSE
  /\ forced = 0
  /\ log = <<>>
  /\ phase = "idle"
  /\ observed = <<>>
  /\ reminder = FALSE
  /\ inbox = {}
  /\ claimed = {}
  /\ cursor = 0
  /\ calls = 0
  /\ messages = [source \in Sources |-> 0]
  /\ restarts = 0
  /\ compactions = 0

-----------------------------------------------------------------------------
(* The host's loop around the listeners. *)

\* A message, of the user or of another plugin, waits for the next step
\* boundary and wakes an idle agent.
Message(source) ==
  /\ messages["user"] + messages["plugin"] < MaxMessages
  /\ phase \in Phases \ {"resuming", "compacting"}
  /\ messages' = [messages EXCEPT ![source] = @ + 1]
  /\ inbox' = inbox \cup {source}
  /\ phase' = IF phase = "idle" THEN "boundary" ELSE phase
  /\ UNCHANGED <<engineVars, log, observed, reminder, claimed, cursor,
                 calls, restarts, compactions>>

\* The model asks for a tool: the call is logged, then executed.
CallTool(c) ==
  /\ phase = "model"
  /\ calls < MaxCalls
  /\ calls' = calls + 1
  /\ log' = Append(log, [kind |-> "call", id |-> calls, call |-> c])
  /\ phase' = "running"
  /\ UNCHANGED <<engineVars, observed, reminder, inbox, claimed, cursor,
                 messages, restarts, compactions>>

\* The downstream listeners settled: the host logs the result, the one
\* observed or another they put in its place, and the step ends.  A reminder
\* rides along as a plugin message.
ToolReturn(ev) ==
  /\ phase = "observed"
  /\ \/ ev = observed[1]
     \/ DownstreamReplaces /\ ev.call = observed[1].call
  /\ log' = Append(log, [kind |-> "result", id |-> log[Len(log)].id,
                         content |-> ev.content, isError |-> ev.isError])
  /\ inbox' = IF reminder THEN inbox \cup {"plugin"} ELSE inbox
  /\ observed' = <<>>
  /\ reminder' = FALSE
  /\ phase' = "boundary"
  /\ UNCHANGED <<engineVars, claimed, cursor, counters>>

-----------------------------------------------------------------------------
(* tools/post-execute, up to its await: advance the engine, take a reminder. *)

PostExecute(ev) ==
  /\ phase = "running"
  /\ ev.call = log[Len(log)].call
  /\ LET e == ApplyEvent(engine, ev)
     IN  /\ engine' = ConsumeInlineReminder(e)
         /\ reminder' = e.turn.armed
  /\ mounted' = TRUE
  /\ observed' = <<ev>>
  /\ phase' = "observed"
  /\ UNCHANGED <<forced, log, inbox, claimed, cursor, counters>>

-----------------------------------------------------------------------------
(* agent/pre-step: only a message of the user clears chain and budget. *)

\* Mutant of PreStep: a message of the user refills the budget and leaves the
\* chain.
PreStepKeepsChain ==
  /\ phase = "boundary"
  /\ forced' = IF "user" \in inbox THEN 0 ELSE forced
  /\ inbox' = {}
  /\ phase' = "model"
  /\ UNCHANGED <<engine, mounted, log, observed, reminder, claimed, cursor, counters>>

PreStep ==
  /\ phase = "boundary"
  /\ IF "user" \in inbox
     THEN /\ engine' = ResetChains(engine)
          /\ forced' = 0
     ELSE UNCHANGED <<engine, forced>>
  /\ inbox' = {}
  /\ phase' = "model"
  /\ UNCHANGED <<mounted, log, observed, reminder, claimed, cursor, counters>>

-----------------------------------------------------------------------------
(* agent/turn-stopping: settle the round, then at most one steer, from the *)
(* ladder or else from the completion guard, against one shared budget.    *)

\* decideSteer on the verdict of the round being settled.
LadderSteers ==
  /\ GovernorEnabled
  /\ Steering
  /\ ZeroProgress(engine.turn)
  /\ ChainAfter(engine) \in Thresholds
  /\ forced < MaxForced

\* Rule 3: these claimed tokens have no fresh pass behind them.
UnsupportedClaims(e, claims) ==
  {t \in claims : ~\E c \in Commands : t \in TokensOf[c] /\ FreshPass(e, c)}

Violated(e, claims) ==
  \/ UnverifiedMutation(e)
  \/ FailingVerifications(e) # {}
  \/ ClaimCheck /\ UnsupportedClaims(e, claims) # {}

\* Mutant of GuardSteers: the budget is the ladder's alone.
GuardSteersAlways(claims) == EvidenceBound /\ Violated(engine, claims)

GuardSteers(claims) ==
  /\ EvidenceBound
  /\ forced < MaxForced
  /\ Violated(engine, claims)

\* What the model's last text claims when it is about to stop.
Claims == IF ClaimCheck THEN SUBSET Tokens ELSE {{}}

Settle(claims) ==
  /\ phase = "model"
  /\ mounted
  /\ claimed' = claims
  /\ engine' = EndTurn(engine)
  /\ UNCHANGED <<mounted, log, observed, reminder, cursor, counters>>

\* Mutants of Steer: the unit is taken off the count; it is not counted.
SteerCountsDown ==
  /\ forced' = forced - 1
  /\ inbox' = inbox \cup {"plugin"}
  /\ phase' = "boundary"

SteerUncounted ==
  /\ UNCHANGED forced
  /\ inbox' = inbox \cup {"plugin"}
  /\ phase' = "boundary"

\* agent.steer queues a plugin message and the loop goes on.
Steer ==
  /\ forced' = forced + 1
  /\ inbox' = inbox \cup {"plugin"}
  /\ phase' = "boundary"

\* The stop stands: the agent idles unless messages are waiting.
LetStop ==
  /\ phase' = IF inbox = {} THEN "idle" ELSE "boundary"
  /\ UNCHANGED <<forced, inbox>>

LadderSteer(claims) == LadderSteers /\ Settle(claims) /\ Steer

GuardSteer(claims) ==
  ~LadderSteers /\ GuardSteers(claims) /\ Settle(claims) /\ Steer

Release(claims) ==
  ~LadderSteers /\ ~GuardSteers(claims) /\ Settle(claims) /\ LetStop

\* No engine yet, nothing observed: the listener returns at once.
ReleaseUnobserved(claims) ==
  /\ phase = "model"
  /\ ~mounted
  /\ claimed' = claims
  /\ LetStop
  /\ UNCHANGED <<engine, mounted, log, observed, reminder, cursor, counters>>

-----------------------------------------------------------------------------
(* agent/session-start with source resume or compact: a new engine and an  *)
(* absent budget, then the loop of rebuild over the current log, one entry *)
(* a step.  The listener does not await, so nothing else is enabled until  *)
(* the loop is done, except that the process may die again.                *)

\* Mutants of SessionStart: the rebuilt engine never replaces the live one; it
\* is never entered in the map.
SessionStartOnTop(to) ==
  /\ engine' = engine
  /\ mounted' = TRUE
  /\ forced' = 0
  /\ cursor' = 0
  /\ phase' = to

SessionStartUnmounted(to) ==
  /\ engine' = NewEngine
  /\ mounted' = FALSE
  /\ forced' = 0
  /\ cursor' = 0
  /\ phase' = to

SessionStart(to) ==
  /\ engine' = NewEngine
  /\ mounted' = TRUE
  /\ forced' = 0
  /\ cursor' = 0
  /\ phase' = to

\* The process dies, at any point, and the session is resumed from its log.
Resume ==
  /\ restarts < MaxRestarts
  /\ phase = "observed" => LosesResults
  /\ restarts' = restarts + 1
  /\ SessionStart("resuming")
  /\ observed' = <<>>
  /\ reminder' = FALSE
  /\ inbox' = {}
  /\ UNCHANGED <<log, claimed, calls, messages, compactions>>

\* A compaction at a step boundary first rewrites the log: it drops the
\* oldest entries, or replaces the contents of the oldest results.
Dropped(n) == SubSeq(log, n + 1, Len(log))
PrunedTo(n) ==
  [i \in DOMAIN log |->
     IF i <= n /\ log[i].kind = "result"
     THEN [log[i] EXCEPT !.content = Pruned] ELSE log[i]]

Compact ==
  /\ phase = "boundary"
  /\ compactions < MaxCompactions
  /\ compactions' = compactions + 1
  /\ \E n \in 0..Len(log) : log' \in {Dropped(n), PrunedTo(n)}
  /\ SessionStart("compacting")
  /\ UNCHANGED <<observed, reminder, inbox, claimed, calls, messages, restarts>>

Replaying == phase \in {"resuming", "compacting"}

ReplayEntry ==
  /\ Replaying
  /\ cursor < Len(log)
  /\ cursor' = cursor + 1
  /\ \/ ~Paired(log, cursor') /\ UNCHANGED engine
     \/ \E j \in 1..cursor :
          Pairs(log, j, cursor') /\ engine' = ApplyEvent(engine, EventOf(log, j, cursor'))
  /\ UNCHANGED <<mounted, forced, log, phase, observed, reminder, inbox,
                 claimed, counters>>

\* Mutant of Replayed: the replay ends one entry early.
ReplayedShort ==
  /\ Replaying
  /\ cursor + 1 >= Len(log)
  /\ cursor' = 0
  /\ phase' = IF phase = "resuming" THEN "idle" ELSE "boundary"
  /\ UNCHANGED <<engineVars, log, observed, reminder, inbox, claimed,
                 counters>>

Replayed ==
  /\ Replaying
  /\ cursor = Len(log)
  /\ cursor' = 0
  /\ phase' = IF phase = "resuming" THEN "idle" ELSE "boundary"
  /\ UNCHANGED <<engineVars, log, observed, reminder, inbox, claimed,
                 counters>>

-----------------------------------------------------------------------------
Stop(claims) ==
  \/ LadderSteer(claims)
  \/ GuardSteer(claims)
  \/ Release(claims)
  \/ ReleaseUnobserved(claims)

\* What the loop does by itself, and what reaches it from outside.
Loop ==
  \/ PreStep
  \/ \E c \in Calls : CallTool(c)
  \/ \E ev \in Observations : PostExecute(ev)
  \/ \E ev \in Observations : ToolReturn(ev)
  \/ \E claims \in Claims : Stop(claims)
  \/ ReplayEntry
  \/ Replayed

Outside ==
  \/ \E source \in Sources : Message(source)
  \/ Resume
  \/ Compact

Next == Loop \/ Outside

Spec == Init /\ [][Next]_vars

\* The loop goes on as long as it can; messages, crashes and compactions need
\* not come.
FairSpec == Spec /\ WF_vars(Loop)

-----------------------------------------------------------------------------
(* Properties. *)

\* The state stays in its types.
TypeOK ==
  /\ engine \in Engine
  /\ mounted \in BOOLEAN
  /\ forced \in Nat
  /\ log \in Seq(LogEntry)
  /\ phase \in Phases
  /\ observed \in Seq(Observations)
  /\ reminder \in BOOLEAN
  /\ inbox \subseteq Sources
  /\ claimed \subseteq Tokens
  /\ cursor \in Nat
  /\ messages \in [Sources -> Nat]
  /\ {calls, restarts, compactions} \subseteq Nat

\* The loop passes turn-stopping and nothing steered it.
StopStands ==
  /\ phase = "model"
  /\ phase' \in {"idle", "boundary"}
  /\ forced' = forced

\* The guard had its say and units to spend.
GuardActive == EvidenceBound /\ forced < MaxForced

\* The governor forces at most MaxForced continuations between two events that
\* refill the budget, the ladder and the guard together (index.ts 371, 499-551).
BudgetIsBounded == forced <= MaxForced

\* While the guard has budget, no stop stands on a session whose log holds a
\* mutation not followed by a passing verification, or a command whose last
\* run failed: across rounds, interjections, restarts and compactions
\* (index.ts 499-551 on facts that 394-409 and 460-466 maintain).
ReleaseIsVerified ==
  [][StopStands /\ GuardActive => 
       /\ ~UnverifiedIn(log, Len(log))
       /\ \A c \in Commands : ~FailingIn(log, Len(log), c)]_vars

\* A threshold beyond the budget never fires on the governor's own account: the
\* ladder climbs one rung per continuation, the governor forces MaxForced at
\* most, and a message of the user takes chain and budget back together, so any
\* further rung needs a message of another plugin (index.ts 63-87, 486-521).
LadderIsBounded ==
  phase = "model" /\ LadderSteers =>
    ChainAfter(engine) <= MaxForced + messages["plugin"]

\* The agent always comes to rest again: steering cannot keep it going.
ComesToRest == []<>(phase = "idle")

-----------------------------------------------------------------------------
(* The inductive invariants behind LadderIsBounded and ReleaseIsVerified.  *)

\* A round under way has been paid for, by a unit of the budget or a message of
\* another plugin, and so has the round a waiting message will begin; only a
\* message of the user, which clears the chain, begins one for nothing.
ChainInv ==
  LET paid == forced + messages["plugin"]
  IN  /\ engine.chain <= paid + 1
      /\ phase \in {"model", "running", "observed", "resuming", "compacting"}
           => engine.chain <= paid
      /\ phase = "boundary" /\ "user" \notin inbox => engine.chain <= paid
      /\ phase \in {"model", "running", "observed"} /\ inbox = {"plugin"}
           => engine.chain + 1 <= paid

\* How much of the log the engine reflects, besides a result under way.
Applied == IF Replaying THEN cursor ELSE Len(log)

\* Calls have ids of their own, so a result pairs with one call at most; the
\* call a tool runs for is the last entry of the log.
LogIsPaired ==
  /\ \A i \in DOMAIN log : log[i].id < calls
  /\ \A i, j \in DOMAIN log :
       log[i].kind = "call" /\ log[j].kind = "call" /\ log[i].id = log[j].id => i = j
  /\ phase \in {"running", "observed"} => log # <<>> /\ log[Len(log)].kind = "call"
  /\ phase = "observed" => observed # <<>> /\ observed[1].call = log[Len(log)].call
  /\ Replaying => cursor <= Len(log)

\* No receipt is from a generation to come: a mutation makes every one stale.
ReceiptsArePast == \A c \in Commands : engine.receipts[c].generation <= engine.generation

UnmountedIsNew == ~mounted => engine = NewEngine /\ ~Replaying

\* The engine knows of each unverified mutation and failing command of what it
\* reflects of the log, and of the result under way.
UnverifiedIsKnown ==
  IF phase = "observed"
  THEN IsMutation(observed[1]) \/ (UnverifiedIn(log, Len(log)) /\ ~IsPass(observed[1]))
         => UnverifiedMutation(engine)
  ELSE UnverifiedIn(log, Applied) => UnverifiedMutation(engine)

FailureIsKnown ==
  \A c \in Commands :
    IF phase = "observed"
    THEN IsFailureOf(observed[1], c) \/ (FailingIn(log, Len(log), c) /\ ~IsRunOf(observed[1], c))
           => c \in FailingVerifications(engine)
    ELSE FailingIn(log, Applied, c) => c \in FailingVerifications(engine)

\* Each step keeps these together (and TypeOK); none of them alone is inductive.
EvidenceInv ==
  /\ LogIsPaired
  /\ ReceiptsArePast
  /\ UnmountedIsNew
  /\ UnverifiedIsKnown
  /\ FailureIsKnown

=============================================================================
