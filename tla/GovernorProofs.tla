--------------------------- MODULE GovernorProofs ---------------------------
(***************************************************************************)
(* Theorems about the adapter, for every tool set, log, window, ladder,    *)
(* budget and bound: the types, the shared budget, the reach of the        *)
(* ladder; that no stop stands on unverified or failing work while the     *)
(* guard has budget; and that a restart changes nothing the session knows. *)
(*                                                                         *)
(* The guard's argument.  The engine's facts are those of the part of the  *)
(* log it has applied (UnverifiedIsKnown, FailureIsKnown).  A live step    *)
(* adds one result in two halves, first to the engine and then to the log, *)
(* with the phase "observed" between them; a replay adds entry after       *)
(* entry.  Both are one ApplyEvent, which keeps the guard informed because *)
(* a mutation moves the generation past every receipt (ReceiptsArePast),   *)
(* and because a result pairs with one call alone (LogIsPaired).           *)
(*                                                                         *)
(* The restart's.  The live engine has the facts that translating and      *)
(* replaying the log gives (LiveIsReplay).  The two passes are recursions  *)
(* over positions.  A call waits under its id until its result             *)
(* (CallsWait), so each entry adds the event of its pair and an append to  *)
(* the log appends to the replay; ReplayInv then goes step by step.        *)
(***************************************************************************)
EXTENDS Governor, GovernorPromise, GovernorReplay, EngineProofs, Induction

-----------------------------------------------------------------------------
(* The session log: what a paired result is, what one more entry changes,    *)
(* and that a log says of its prefix what the prefix says.                   *)

\* A paired result is an event (translateSessionEvents).
LEMMA EventOfType ==
  ASSUME NEW l \in Seq(LogEntry), NEW j \in DOMAIN l, NEW k \in DOMAIN l,
         Pairs(l, j, k)
  PROVE  EventOf(l, j, k) \in Event
<1>1. l[j] \in CallEntry
  BY DEF Pairs, LogEntry, CallEntry, ResultEntry
<1>2. l[k] \in ResultEntry
  BY DEF Pairs, LogEntry, CallEntry, ResultEntry
<1> QED
  BY <1>1, <1>2 DEF EventOf, Event, CallEntry, ResultEntry

\* Nothing is unverified or failing in no entries.
LEMMA NothingLogged ==
  ASSUME NEW l, NEW c
  PROVE  ~UnverifiedIn(l, 0) /\ ~FailingIn(l, 0, c)
BY DEF UnverifiedIn, FailingIn

\* With one more entry the log is unverified if that entry is a mutation, or it
\* was before and the entry is no pass; likewise for a command that fails.
LEMMA NextEntry ==
  ASSUME NEW l, NEW n \in Nat, NEW c
  PROVE  /\ UnverifiedIn(l, n + 1) <=>
              \/ LoggedMutation(l, n + 1)
              \/ UnverifiedIn(l, n) /\ ~LoggedPass(l, n + 1)
         /\ FailingIn(l, n + 1, c) <=>
              \/ LoggedFailure(l, n + 1, c)
              \/ FailingIn(l, n, c) /\ ~LoggedRun(l, n + 1, c)
<1>1. \A k : k \in 1..(n + 1) <=> k \in 1..n \/ k = n + 1
  OBVIOUS
<1>2. \A k \in 1..n : \A j : j \in (k + 1)..(n + 1) <=> j \in (k + 1)..n \/ j = n + 1
  OBVIOUS
<1>3. \A j : j \notin (n + 1 + 1)..(n + 1)
  OBVIOUS
<1>4. UnverifiedIn(l, n + 1) <=>
        LoggedMutation(l, n + 1) \/ (UnverifiedIn(l, n) /\ ~LoggedPass(l, n + 1))
  BY <1>1, <1>2, <1>3 DEF UnverifiedIn
<1>5. FailingIn(l, n + 1, c) <=>
        LoggedFailure(l, n + 1, c) \/ (FailingIn(l, n, c) /\ ~LoggedRun(l, n + 1, c))
  BY <1>1, <1>2, <1>3 DEF FailingIn
<1> QED
  BY <1>4, <1>5

\* Logs that agree on their first n entries say the same of them.
LEMMA SamePrefix ==
  ASSUME NEW l, NEW m, NEW n \in Nat, NEW c, \A i \in 1..n : l[i] = m[i]
  PROVE  /\ UnverifiedIn(l, n) <=> UnverifiedIn(m, n)
         /\ FailingIn(l, n, c) <=> FailingIn(m, n, c)
<1>1. ASSUME NEW k \in 1..n
      PROVE  /\ LoggedMutation(l, k) <=> LoggedMutation(m, k)
             /\ LoggedPass(l, k) <=> LoggedPass(m, k)
             /\ LoggedRun(l, k, c) <=> LoggedRun(m, k, c)
             /\ LoggedFailure(l, k, c) <=> LoggedFailure(m, k, c)
  <2>1. \A j \in 1..(k - 1) : j \in 1..n
    OBVIOUS
  <2>2. \A j \in 1..(k - 1) : /\ Pairs(l, j, k) <=> Pairs(m, j, k)
                              /\ EventOf(l, j, k) = EventOf(m, j, k)
    BY <2>1 DEF Pairs, EventOf
  <2> QED
    BY <2>2 DEF LoggedMutation, LoggedPass, LoggedRun, LoggedFailure
<1>2. \A k \in 1..n : \A j \in (k + 1)..n : j \in 1..n
  OBVIOUS
<1>3. UnverifiedIn(l, n) <=> UnverifiedIn(m, n)
  BY <1>1, <1>2 DEF UnverifiedIn
<1>4. FailingIn(l, n, c) <=> FailingIn(m, n, c)
  BY <1>1, <1>2 DEF FailingIn
<1> QED
  BY <1>3, <1>4

\* An entry without a call is no event.
LEMMA Orphan ==
  ASSUME NEW l, NEW k, NEW c, ~Paired(l, k)
  PROVE  /\ ~LoggedMutation(l, k) /\ ~LoggedPass(l, k)
         /\ ~LoggedRun(l, k, c) /\ ~LoggedFailure(l, k, c)
BY DEF Paired, LoggedMutation, LoggedPass, LoggedRun, LoggedFailure

\* A result that pairs with one call alone is the event of that pair.
LEMMA PairedOnce ==
  ASSUME NEW l, NEW k, NEW j \in 1..(k - 1), NEW c, Pairs(l, j, k),
         \A i \in 1..(k - 1) : Pairs(l, i, k) => i = j
  PROVE  /\ LoggedMutation(l, k) <=> IsMutation(EventOf(l, j, k))
         /\ LoggedPass(l, k) <=> IsPass(EventOf(l, j, k))
         /\ LoggedRun(l, k, c) <=> IsRunOf(EventOf(l, j, k), c)
         /\ LoggedFailure(l, k, c) <=> IsFailureOf(EventOf(l, j, k), c)
BY DEF LoggedMutation, LoggedPass, LoggedRun, LoggedFailure

-----------------------------------------------------------------------------
(* Types. *)

\* The empty sequence is a sequence of anything.
LEMMA EmptySequence == \A S : <<>> \in Seq(S)
  OBVIOUS

\* Every step of the plugin and of the loop keeps the state in its types.
LEMMA TypeStep == TypeOK /\ LogIsPaired /\ [Next]_vars => TypeOK'
<1> SUFFICES ASSUME TypeOK, LogIsPaired, [Next]_vars
             PROVE  TypeOK'
  OBVIOUS
<1> USE DEF TypeOK, Phases, Sources
<1>1. ASSUME NEW source \in Sources, Message(source)
      PROVE  TypeOK'
  BY <1>1 DEF Message, engineVars
<1>2. ASSUME NEW c \in Calls, CallTool(c)
      PROVE  TypeOK'
  <2>1. [kind |-> "call", id |-> calls, call |-> c] \in LogEntry
    BY DEF LogEntry, CallEntry
  <2>2. log' \in Seq(LogEntry)
    BY <1>2, <2>1 DEF CallTool
  <2> QED
    BY <1>2, <2>2 DEF CallTool, engineVars
<1>3. ASSUME NEW ev \in Observations, PostExecute(ev)
      PROVE  TypeOK'
  <2>1. ev \in Event
    BY HostAssumption
  <2>2. ApplyEvent(engine, ev) \in Engine
    BY <2>1, ApplyEventType
  <2>3. engine' \in Engine
    BY <1>3, <2>2, RoundOperations DEF PostExecute
  <2>4. reminder' \in BOOLEAN
    BY <1>3, <2>2 DEF PostExecute, Engine, Turn
  <2> QED
    BY <1>3, <2>3, <2>4 DEF PostExecute, counters
<1>4. ASSUME NEW ev \in Observations, ToolReturn(ev)
      PROVE  TypeOK'
  <2>1. ev \in Event
    BY HostAssumption
  <2>2. log # <<>> /\ log[Len(log)] \in LogEntry
    BY <1>4 DEF ToolReturn, LogIsPaired
  <2>3. log[Len(log)].id \in Nat
    BY <2>2 DEF LogEntry, CallEntry, ResultEntry
  <2>4. [kind |-> "result", id |-> log[Len(log)].id,
         content |-> ev.content, isError |-> ev.isError] \in LogEntry
    BY <2>1, <2>3 DEF LogEntry, ResultEntry, Event
  <2>5. log' \in Seq(LogEntry)
    BY <1>4, <2>4 DEF ToolReturn
  <2> QED
    BY <1>4, <2>5, EmptySequence DEF ToolReturn, engineVars, counters
<1>5. CASE PreStep
  BY <1>5, RoundOperations DEF PreStep, counters
<1>6. ASSUME NEW claims \in Claims, Stop(claims)
      PROVE  TypeOK'
  <2>1. claims \subseteq Tokens
    BY DEF Claims
  <2>2. ASSUME Settle(claims), Steer \/ LetStop
        PROVE  TypeOK'
    <3>1. engine' \in Engine
      BY <2>2, RoundOperations DEF Settle
    <3>2. forced' \in Nat /\ inbox' \subseteq Sources /\ phase' \in Phases
      <4>1. CASE Steer
        BY <4>1 DEF Steer
      <4>2. CASE LetStop
        BY <4>2 DEF LetStop
      <4> QED
        BY <2>2, <4>1, <4>2
    <3>3. log' = log
      BY <2>2 DEF Settle
    <3> QED
      BY <2>1, <2>2, <3>1, <3>2, <3>3 DEF Settle, counters
  <2>3. CASE ReleaseUnobserved(claims)
    BY <2>1, <2>3 DEF ReleaseUnobserved, LetStop, counters
  <2> QED
    BY <1>6, <2>2, <2>3 DEF Stop, LadderSteer, GuardSteer, Release
<1>7. CASE Resume
  <2>1. <<>> \in Seq(Observations)
    BY EmptySequence
  <2>2. engine' \in Engine /\ observed' \in Seq(Observations)
    BY <1>7, <2>1, NewEngineType DEF Resume, SessionStart
  <2>3. {calls', restarts', compactions'} \subseteq Nat
    BY <1>7 DEF Resume
  <2> QED
    BY <1>7, <2>2, <2>3 DEF Resume, SessionStart
<1>8. CASE Compact
  <2>1. PICK n \in 0..Len(log) : log' \in {Dropped(n), PrunedTo(n)}
    BY <1>8 DEF Compact
  <2>2. Dropped(n) \in Seq(LogEntry)
    BY DEF Dropped
  <2>3. PrunedTo(n) \in Seq(LogEntry)
    <3>1. \A x \in ResultEntry : [x EXCEPT !.content = Pruned] \in LogEntry
      BY HostAssumption DEF LogEntry, ResultEntry
    <3>2. \A x \in LogEntry : x.kind = "result" => x \in ResultEntry
      BY DEF LogEntry, ResultEntry, CallEntry
    <3>3. \A i \in DOMAIN log : log[i] \in LogEntry
      OBVIOUS
    <3>4. \A i \in DOMAIN log : PrunedTo(n)[i] \in LogEntry
      BY <3>1, <3>2, <3>3 DEF PrunedTo
    <3>5. Len(log) \in Nat /\ DOMAIN log = 1..Len(log)
      OBVIOUS
    <3>6. PrunedTo(n) \in [1..Len(log) -> LogEntry]
      BY <3>4, <3>5 DEF PrunedTo
    <3> QED
      BY <3>5, <3>6
  <2>4. log' \in Seq(LogEntry)
    BY <2>1, <2>2, <2>3
  <2> QED
    BY <1>8, <2>4, NewEngineType DEF Compact, SessionStart
<1>9. CASE ReplayEntry
  <2>1. ASSUME NEW j \in 1..cursor, Pairs(log, j, cursor + 1)
        PROVE  ApplyEvent(engine, EventOf(log, j, cursor + 1)) \in Engine
    <3>1. j \in DOMAIN log /\ cursor + 1 \in DOMAIN log
      BY <1>9 DEF ReplayEntry
    <3> QED
      BY <2>1, <3>1, EventOfType, ApplyEventType
  <2>2. engine' \in Engine
    BY <1>9, <2>1 DEF ReplayEntry
  <2> QED
    BY <1>9, <2>2 DEF ReplayEntry, counters
<1>10. CASE Replayed
  BY <1>10 DEF Replayed, engineVars, counters
<1>11. CASE UNCHANGED vars
  BY <1>11 DEF vars
<1> QED
  BY <1>1, <1>2, <1>3, <1>4, <1>5, <1>6, <1>7, <1>8, <1>9, <1>10, <1>11
     DEF Next, Loop, Outside

-----------------------------------------------------------------------------
(* The log and the loop's place in it. *)

\* Rewriting the log on compaction only drops entries or changes contents.
LEMMA CompactedLog ==
  ASSUME TypeOK, LogIsPaired, NEW n \in 0..Len(log),
         log' \in {Dropped(n), PrunedTo(n)}
  PROVE  /\ \A i \in DOMAIN log' : (log'[i]).id < calls
         /\ \A i, j \in DOMAIN log' :
              log'[i].kind = "call" /\ log'[j].kind = "call" /\ log'[i].id = log'[j].id
                => i = j
<1>1. CASE log' = Dropped(n)
  <2>1. \A i \in DOMAIN log' : i + n \in DOMAIN log /\ log'[i] = log[i + n] /\ i \in Nat
    BY <1>1 DEF Dropped, TypeOK
  <2> QED
    BY <2>1 DEF LogIsPaired
<1>2. CASE log' = PrunedTo(n)
  <2>1. DOMAIN log' = DOMAIN log
    BY <1>2 DEF PrunedTo
  <2>2. ASSUME NEW i \in DOMAIN log
        PROVE  log'[i].kind = log[i].kind /\ log'[i].id = log[i].id
    <3>1. log[i] \in LogEntry
      BY DEF TypeOK
    <3>2. log'[i] = IF i <= n /\ log[i].kind = "result"
                    THEN [log[i] EXCEPT !.content = Pruned] ELSE log[i]
      BY <1>2 DEF PrunedTo
    <3> QED
      BY <3>1, <3>2 DEF LogEntry, CallEntry, ResultEntry
  <2> QED
    BY <2>1, <2>2 DEF LogIsPaired
<1> QED
  BY <1>1, <1>2

\* Every step keeps calls unique and the running call last.
LEMMA LogStep == TypeOK /\ LogIsPaired /\ [Next]_vars => LogIsPaired'
<1> SUFFICES ASSUME TypeOK, LogIsPaired, [Next]_vars
             PROVE  LogIsPaired'
  OBVIOUS
<1> USE DEF LogIsPaired, Replaying
<1>0. log \in Seq(LogEntry) /\ calls \in Nat /\ cursor \in Nat
  BY DEF TypeOK
<1>1. ASSUME NEW source \in Sources, Message(source)
      PROVE  LogIsPaired'
  BY <1>1 DEF Message, engineVars
<1>2. ASSUME NEW c \in Calls, CallTool(c)
      PROVE  LogIsPaired'
  <2> DEFINE x == [kind |-> "call", id |-> calls, call |-> c]
  <2>1. log' = Append(log, x) /\ calls' = calls + 1 /\ phase' = "running"
    BY <1>2 DEF CallTool
  <2>2. Len(log') = Len(log) + 1 /\ log'[Len(log) + 1] = x
    BY <2>1, <1>0
  <2>3. \A i \in DOMAIN log' : i \in DOMAIN log \/ i = Len(log) + 1
    BY <2>1, <1>0
  <2>4. \A i \in DOMAIN log : log'[i] = log[i]
    BY <2>1, <1>0
  <2>5. \A i \in DOMAIN log : log[i].id \in Nat
    BY <1>0 DEF LogEntry, CallEntry, ResultEntry
  <2>6. x.id = calls /\ x.kind = "call"
    OBVIOUS
  <2> HIDE DEF x
  <2>7. \A i \in DOMAIN log' : log'[i].id < calls'
    BY <2>1, <2>2, <2>3, <2>4, <2>5, <2>6, <1>0
  <2>8. \A i, j \in DOMAIN log' :
          log'[i].kind = "call" /\ log'[j].kind = "call" /\ log'[i].id = log'[j].id
            => i = j
    BY <2>2, <2>3, <2>4, <2>5, <2>6, <1>0
  <2>9. log' # <<>> /\ log'[Len(log')].kind = "call"
    BY <2>1, <2>2, <2>6, <1>0
  <2> QED
    BY <2>1, <2>7, <2>8, <2>9
<1>3. ASSUME NEW ev \in Observations, PostExecute(ev)
      PROVE  LogIsPaired'
  BY <1>3 DEF PostExecute, counters
<1>4. ASSUME NEW ev \in Observations, ToolReturn(ev)
      PROVE  LogIsPaired'
  <2> DEFINE x == [kind |-> "result", id |-> log[Len(log)].id,
                   content |-> ev.content, isError |-> ev.isError]
  <2>1. log' = Append(log, x) /\ phase' = "boundary" /\ calls' = calls
    BY <1>4 DEF ToolReturn, counters
  <2>2. log # <<>> /\ Len(log) \in DOMAIN log
    BY <1>4, <1>0 DEF ToolReturn
  <2>3. x.id < calls /\ x.kind = "result"
    BY <2>2
  <2> HIDE DEF x
  <2>4. \A i \in DOMAIN log' : i \in DOMAIN log \/ (i = Len(log) + 1 /\ log'[i] = x)
    BY <2>1, <1>0
  <2>5. \A i \in DOMAIN log : log'[i] = log[i]
    BY <2>1, <1>0
  <2> QED
    BY <2>1, <2>3, <2>4, <2>5
<1>5. CASE PreStep
  BY <1>5 DEF PreStep, counters
<1>6. ASSUME NEW claims \in Claims, Stop(claims)
      PROVE  LogIsPaired'
  BY <1>6 DEF Stop, LadderSteer, GuardSteer, Release, ReleaseUnobserved,
              Settle, Steer, LetStop, counters
<1>7. CASE Resume
  BY <1>7, <1>0 DEF Resume, SessionStart
<1>8. CASE Compact
  <2>1. PICK n \in 0..Len(log) : log' \in {Dropped(n), PrunedTo(n)}
    BY <1>8 DEF Compact
  <2>2. Len(log') \in Nat
    BY <2>1, <1>0 DEF Dropped, PrunedTo
  <2>3. calls' = calls /\ phase' = "compacting" /\ cursor' = 0
    BY <1>8 DEF Compact, SessionStart
  <2> QED
    BY <2>1, <2>2, <2>3, CompactedLog
<1>9. CASE ReplayEntry
  BY <1>9, <1>0 DEF ReplayEntry, counters
<1>10. CASE Replayed
  BY <1>10 DEF Replayed, counters
<1>11. CASE UNCHANGED vars
  BY <1>11 DEF vars
<1> QED
  BY <1>1, <1>2, <1>3, <1>4, <1>5, <1>6, <1>7, <1>8, <1>9, <1>10, <1>11
     DEF Next, Loop, Outside

\* The state of the adapter and its host stays in its types; with it, calls
\* stay unique in the log and the running call last.
THEOREM TypeCorrect == Spec => [](TypeOK /\ LogIsPaired)
<1>1. Init => TypeOK
  <2>1. <<>> \in Seq(Observations) /\ <<>> \in Seq(LogEntry)
    BY EmptySequence
  <2>2. Init => engine \in Engine
    BY NewEngineType DEF Init
  <2>3. Init => inbox \subseteq Sources /\ claimed \subseteq Tokens /\ phase \in Phases
    BY DEF Init, Phases
  <2>4. Init => /\ forced \in Nat /\ cursor \in Nat
                /\ messages \in [Sources -> Nat]
                /\ {calls, restarts, compactions} \subseteq Nat
    BY DEF Init
  <2> QED
    BY <2>1, <2>2, <2>3, <2>4 DEF Init, TypeOK
<1>2. Init => LogIsPaired
  BY DEF Init, LogIsPaired, Replaying
<1>3. TypeOK /\ LogIsPaired /\ [Next]_vars => (TypeOK /\ LogIsPaired)'
  BY TypeStep, LogStep
<1> QED
  BY <1>1, <1>2, <1>3, PTL DEF Spec

-----------------------------------------------------------------------------
(* The shared budget and the chain. *)

\* The budget is never exceeded: every steer is taken below MaxForced and
\* counts one, whichever of ladder and guard takes it (turn-stopping).
THEOREM Budget == Spec => []BudgetIsBounded
<1>1. Init => BudgetIsBounded
  BY ConfigAssumption DEF Init, BudgetIsBounded
<1>2. ASSUME TypeOK, BudgetIsBounded, [Next]_vars
      PROVE  BudgetIsBounded'
  <2>1. forced \in Nat /\ MaxForced \in Nat
    BY <1>2, ConfigAssumption DEF TypeOK
  <2>2. forced <= MaxForced
    BY <1>2 DEF BudgetIsBounded
  <2>3. ASSUME NEW claims \in Claims, Stop(claims)
        PROVE  forced' <= MaxForced
    <3>1. CASE LadderSteer(claims)
      BY <2>1, <3>1 DEF LadderSteer, LadderSteers, Steer
    <3>2. CASE GuardSteer(claims)
      BY <2>1, <3>2 DEF GuardSteer, GuardSteers, Steer
    <3>3. CASE Release(claims)
      BY <2>2, <3>3 DEF Release, LetStop
    <3>4. CASE ReleaseUnobserved(claims)
      BY <2>2, <3>4 DEF ReleaseUnobserved, LetStop
    <3> QED
      BY <2>3, <3>1, <3>2, <3>3, <3>4 DEF Stop
  <2>4. CASE PreStep
    BY <2>1, <2>2, <2>4 DEF PreStep, BudgetIsBounded
  <2>5. CASE Resume \/ Compact
    BY <2>1, <2>5 DEF Resume, Compact, SessionStart, BudgetIsBounded
  <2>6. ASSUME NEW source \in Sources, Message(source)
        PROVE  forced' <= MaxForced
    BY <2>2, <2>6 DEF Message, engineVars
  <2>7. ASSUME NEW c \in Calls, CallTool(c)
        PROVE  forced' <= MaxForced
    BY <2>2, <2>7 DEF CallTool, engineVars
  <2>8. ASSUME NEW ev \in Observations, PostExecute(ev) \/ ToolReturn(ev)
        PROVE  forced' <= MaxForced
    BY <2>2, <2>8 DEF PostExecute, ToolReturn, engineVars
  <2>9. CASE ReplayEntry \/ Replayed \/ UNCHANGED vars
    BY <2>2, <2>9 DEF ReplayEntry, Replayed, engineVars, vars, BudgetIsBounded
  <2> QED
    BY <1>2, <2>3, <2>4, <2>5, <2>6, <2>7, <2>8, <2>9
       DEF Next, Loop, Outside, BudgetIsBounded
<1>3. Spec => []TypeOK
  BY TypeCorrect, PTL
<1> QED
  BY <1>1, <1>2, <1>3, PTL DEF Spec

\* Every step pays for the round it begins or for the one that waits.
LEMMA ChainStep == TypeOK /\ ChainInv /\ [Next]_vars => ChainInv'
<1> SUFFICES ASSUME TypeOK, ChainInv, [Next]_vars
             PROVE  ChainInv'
  OBVIOUS
<1> USE DEF ChainInv
<1>0. /\ engine \in Engine /\ engine.chain \in Nat /\ forced \in Nat
      /\ messages \in [Sources -> Nat] /\ messages["plugin"] \in Nat
      /\ inbox \subseteq Sources /\ Sources = {"user", "plugin"}
  BY DEF TypeOK, Engine, Sources
<1>1. ASSUME NEW source \in Sources, Message(source)
      PROVE  ChainInv'
  <2>1. /\ engine' = engine /\ forced' = forced /\ inbox' = inbox \cup {source}
        /\ messages' = [messages EXCEPT ![source] = @ + 1]
        /\ phase' = IF phase = "idle" THEN "boundary" ELSE phase
    BY <1>1 DEF Message, engineVars
  <2>2. CASE source = "user"
    <3>1. messages'["plugin"] = messages["plugin"] /\ "user" \in inbox'
      BY <1>0, <2>1, <2>2
    <3> QED
      BY <1>0, <2>1, <3>1
  <2>3. CASE source = "plugin"
    <3>1. messages'["plugin"] = messages["plugin"] + 1
      BY <1>0, <2>1, <2>3
    <3> QED
      BY <1>0, <2>1, <2>3, <3>1
  <2> QED
    BY <1>0, <2>2, <2>3
<1>2. ASSUME NEW c \in Calls, CallTool(c)
      PROVE  ChainInv'
  BY <1>0, <1>2 DEF CallTool, engineVars
<1>3. ASSUME NEW ev \in Observations, PostExecute(ev)
      PROVE  ChainInv'
  <2>1. ApplyEvent(engine, ev) \in Engine
    BY <1>0, ApplyEventType, HostAssumption
  <2>2. engine'.chain = ApplyEvent(engine, ev).chain
    BY <1>3, <2>1 DEF PostExecute, ConsumeInlineReminder, Engine
  <2>3. engine'.chain = engine.chain
    BY <2>2 DEF ApplyEvent
  <2> QED
    BY <1>0, <1>3, <2>3 DEF PostExecute, counters
<1>4. ASSUME NEW ev \in Observations, ToolReturn(ev)
      PROVE  ChainInv'
  BY <1>0, <1>4 DEF ToolReturn, engineVars, counters
<1>5. CASE PreStep
  <2>1. ResetChains(engine).chain = 0
    BY <1>0 DEF ResetChains, Engine
  <2> QED
    BY <1>0, <1>5, <2>1 DEF PreStep, counters
<1>6. ASSUME NEW claims \in Claims, Stop(claims)
      PROVE  ChainInv'
  <2>1. EndTurn(engine).chain = ChainAfter(engine)
    BY <1>0 DEF EndTurn, Engine
  <2>2. ChainAfter(engine) \in Nat /\ ChainAfter(engine) <= engine.chain + 1
    BY <1>0 DEF ChainAfter
  <2>3. ASSUME Settle(claims), Steer
        PROVE  ChainInv'
    BY <1>0, <2>1, <2>2, <2>3 DEF Settle, Steer, counters
  <2>4. ASSUME Settle(claims), LetStop
        PROVE  ChainInv'
    <3>1. inbox = {} \/ inbox = {"plugin"} \/ "user" \in inbox
      BY <1>0
    <3> QED
      BY <1>0, <2>1, <2>2, <2>4, <3>1 DEF Settle, LetStop, counters
  <2>5. CASE ReleaseUnobserved(claims)
    BY <1>0, <2>5 DEF ReleaseUnobserved, LetStop, counters
  <2> QED
    BY <1>6, <2>3, <2>4, <2>5 DEF Stop, LadderSteer, GuardSteer, Release
<1>7. CASE Resume \/ Compact
  <2>1. /\ engine'.chain = 0 /\ forced' = 0 /\ messages' = messages
        /\ phase' \in {"resuming", "compacting"}
    BY <1>7 DEF Resume, Compact, SessionStart, NewEngine
  <2> QED
    BY <1>0, <2>1
<1>8. CASE ReplayEntry
  <2>1. engine'.chain = engine.chain
    BY <1>8 DEF ReplayEntry, ApplyEvent
  <2> QED
    BY <1>0, <1>8, <2>1 DEF ReplayEntry, Replaying, counters
<1>9. CASE Replayed
  BY <1>0, <1>9 DEF Replayed, Replaying, engineVars, counters
<1>10. CASE UNCHANGED vars
  BY <1>10 DEF vars
<1> QED
  BY <1>1, <1>2, <1>3, <1>4, <1>5, <1>6, <1>7, <1>8, <1>9, <1>10
     DEF Next, Loop, Outside

\* A rung the ladder fires on is within the budget and the messages of other
\* plugins (decideSteer, pre-step).
THEOREM LadderReach == Spec => []LadderIsBounded
<1>1. Init => ChainInv
  BY DEF Init, ChainInv, NewEngine, Sources
<1>2. TypeOK /\ ChainInv => LadderIsBounded
  <2> SUFFICES ASSUME TypeOK, ChainInv, phase = "model", LadderSteers
               PROVE  ChainAfter(engine) <= MaxForced + messages["plugin"]
    BY DEF LadderIsBounded
  <2>1. /\ engine.chain \in Nat /\ forced \in Nat /\ messages["plugin"] \in Nat
        /\ MaxForced \in Nat
    BY ConfigAssumption DEF TypeOK, Engine, Sources
  <2>2. ChainAfter(engine) \in Nat /\ ChainAfter(engine) <= engine.chain + 1
    BY <2>1 DEF ChainAfter
  <2>3. engine.chain <= forced + messages["plugin"] /\ forced + 1 <= MaxForced
    BY <2>1 DEF ChainInv, LadderSteers
  <2> QED
    BY <2>1, <2>2, <2>3
<1>3. Spec => []TypeOK
  BY TypeCorrect, PTL
<1> QED
  BY <1>1, <1>2, <1>3, ChainStep, PTL DEF Spec

-----------------------------------------------------------------------------
(* What the guard knows. *)

\* Operations of the round leave what the guard reads alone.
LEMMA SameFacts ==
  ASSUME NEW e, NEW f, Snapshot(e) = Snapshot(f)
  PROVE  /\ UnverifiedMutation(e) <=> UnverifiedMutation(f)
         /\ FailingVerifications(e) = FailingVerifications(f)
         /\ PastReceipts(e) <=> PastReceipts(f)
<1>1. e.generation = f.generation /\ e.receipts = f.receipts
  BY DEF Snapshot
<1> QED
  BY <1>1 DEF UnverifiedMutation, FailingVerifications, PastReceipts, FreshPass

\* A step that neither applies an event nor moves the log keeps the engine's
\* knowledge of it.
LEMMA IdleStep ==
  ASSUME EvidenceInv, Snapshot(engine') = Snapshot(engine), log' = log,
         phase # "observed", phase' # "observed", Applied' = Applied
  PROVE  ReceiptsArePast' /\ UnverifiedIsKnown' /\ FailureIsKnown'
<1>1. /\ UnverifiedMutation(engine') <=> UnverifiedMutation(engine)
      /\ FailingVerifications(engine') = FailingVerifications(engine)
      /\ PastReceipts(engine') <=> PastReceipts(engine)
  BY SameFacts
<1>2. ReceiptsArePast'
  BY <1>1 DEF EvidenceInv, ReceiptsArePast, PastReceipts
<1>3. UnverifiedIsKnown'
  BY <1>1 DEF EvidenceInv, UnverifiedIsKnown
<1>4. FailureIsKnown'
  BY <1>1 DEF EvidenceInv, FailureIsKnown
<1> QED
  BY <1>2, <1>3, <1>4

\* A new engine knows all of an empty prefix.
LEMMA FreshStart ==
  ASSUME SessionStart("resuming") \/ SessionStart("compacting")
  PROVE  ReceiptsArePast' /\ UnmountedIsNew' /\ UnverifiedIsKnown' /\ FailureIsKnown'
<1>1. engine' = NewEngine /\ mounted' = TRUE /\ cursor' = 0
      /\ phase' \in {"resuming", "compacting"}
  BY DEF SessionStart
<1>2. Applied' = 0 /\ phase' # "observed"
  BY <1>1 DEF Applied, Replaying
<1>3. ReceiptsArePast'
  BY <1>1, NewEngineType DEF ReceiptsArePast, PastReceipts
<1>4. UnverifiedIsKnown' /\ FailureIsKnown'
  BY <1>2, NothingLogged DEF UnverifiedIsKnown, FailureIsKnown
<1> QED
  BY <1>1, <1>3, <1>4 DEF UnmountedIsNew

-----------------------------------------------------------------------------
\* Logging a call changes nothing of what the log says of the work.
LEMMA LoggedCall ==
  ASSUME log \in Seq(LogEntry), NEW c \in Calls, CallTool(c)
  PROVE  /\ UnverifiedIn(log', Len(log')) <=> UnverifiedIn(log, Len(log))
         /\ \A d : FailingIn(log', Len(log'), d) <=> FailingIn(log, Len(log), d)
<1> DEFINE n == Len(log)
           x == [kind |-> "call", id |-> calls, call |-> c]
<1>1. n \in Nat /\ Len(log') = n + 1 /\ log'[n + 1] = x
      /\ \A i \in 1..n : log'[i] = log[i]
  BY DEF CallTool
<1>2. ~Paired(log', n + 1)
  BY <1>1 DEF Paired, Pairs
<1> HIDE DEF x, n
<1>3. UnverifiedIn(log', n + 1) <=> UnverifiedIn(log, n)
  BY <1>1, <1>2, NextEntry, SamePrefix, Orphan
<1>4. \A d : FailingIn(log', n + 1, d) <=> FailingIn(log, n, d)
  BY <1>1, <1>2, NextEntry, SamePrefix, Orphan
<1> QED
  BY <1>1, <1>3, <1>4 DEF n

\* Logging the result under way makes it the log's last event.
LEMMA LoggedResult ==
  ASSUME ~DownstreamReplaces, log \in Seq(LogEntry), LogIsPaired,
         NEW ev \in Observations, ToolReturn(ev)
  PROVE  /\ UnverifiedIn(log', Len(log')) <=>
              IsMutation(ev) \/ (UnverifiedIn(log, Len(log)) /\ ~IsPass(ev))
         /\ \A d : FailingIn(log', Len(log'), d) <=>
              IsFailureOf(ev, d) \/ (FailingIn(log, Len(log), d) /\ ~IsRunOf(ev, d))
<1> DEFINE n == Len(log)
           x == [kind |-> "result", id |-> log[n].id,
                 content |-> ev.content, isError |-> ev.isError]
<1>1. log' = Append(log, x) /\ phase = "observed" /\ ev = observed[1]
  BY DEF ToolReturn
<1>2. n \in Nat \ {0} /\ Len(log') = n + 1 /\ log'[n + 1] = x
      /\ \A i \in 1..n : log'[i] = log[i]
  BY <1>1 DEF LogIsPaired
<1>3. log[n].kind = "call" /\ log[n].call = ev.call
  BY <1>1 DEF LogIsPaired
<1>4. x.kind = "result" /\ x.id = log[n].id
      /\ x.content = ev.content /\ x.isError = ev.isError
  OBVIOUS
<1>5. \A i, j \in 1..n : log[i].kind = "call" /\ log[j].kind = "call"
                          /\ log[i].id = log[j].id => i = j
  BY DEF LogIsPaired
<1> HIDE DEF x
<1>6. Pairs(log', n, n + 1) /\ \A i \in 1..n : Pairs(log', i, n + 1) => i = n
  BY <1>2, <1>3, <1>4, <1>5 DEF Pairs
<1>7. EventOf(log', n, n + 1) = ev
  <2>1. ev \in Event
    BY HostAssumption
  <2> QED
    BY <1>2, <1>3, <1>4, <2>1 DEF EventOf, Event
<1>8. n \in 1..((n + 1) - 1) /\ (n + 1) - 1 = n
  BY <1>2
<1> HIDE DEF n
<1>9. /\ LoggedMutation(log', n + 1) <=> IsMutation(ev)
      /\ LoggedPass(log', n + 1) <=> IsPass(ev)
      /\ \A d : LoggedRun(log', n + 1, d) <=> IsRunOf(ev, d)
      /\ \A d : LoggedFailure(log', n + 1, d) <=> IsFailureOf(ev, d)
  BY <1>6, <1>7, <1>8, PairedOnce
<1>10. UnverifiedIn(log', n + 1) <=> IsMutation(ev) \/ (UnverifiedIn(log, n) /\ ~IsPass(ev))
  BY <1>2, <1>9, NextEntry, SamePrefix
<1>11. \A d : FailingIn(log', n + 1, d) <=>
                IsFailureOf(ev, d) \/ (FailingIn(log, n, d) /\ ~IsRunOf(ev, d))
  BY <1>2, <1>9, NextEntry, SamePrefix
<1> QED
  BY <1>2, <1>10, <1>11 DEF n

-----------------------------------------------------------------------------
\* Every step keeps the engine informed.
LEMMA EvidenceStep ==
  ASSUME ~DownstreamReplaces, TypeOK, EvidenceInv, [Next]_vars
  PROVE  EvidenceInv'
<1>0. /\ engine \in Engine /\ log \in Seq(LogEntry) /\ LogIsPaired
      /\ PastReceipts(engine) /\ cursor \in Nat
  BY DEF TypeOK, EvidenceInv, ReceiptsArePast, PastReceipts
<1>1. LogIsPaired'
  BY LogStep DEF EvidenceInv
<1>2. ASSUME NEW source \in Sources, Message(source)
      PROVE  EvidenceInv'
  <2>1. /\ engine' = engine /\ mounted' = mounted /\ log' = log
        /\ observed' = observed /\ cursor' = cursor
        /\ phase' # phase => phase = "idle" /\ phase' = "boundary"
        /\ phase' # "resuming" /\ phase' # "compacting" /\ ~Replaying
    BY <1>2 DEF Message, engineVars, Replaying
  <2>2. Applied = Len(log) /\ Applied' = Len(log)
    BY <2>1 DEF Applied, Replaying
  <2>3. ReceiptsArePast' /\ UnmountedIsNew'
    BY <2>1 DEF EvidenceInv, ReceiptsArePast, UnmountedIsNew, Replaying
  <2>4. (phase' = "observed") <=> (phase = "observed")
    BY <2>1
  <2>5. UnverifiedIsKnown' /\ FailureIsKnown'
    BY <2>1, <2>2, <2>4 DEF EvidenceInv, UnverifiedIsKnown, FailureIsKnown
  <2> QED
    BY <1>1, <2>3, <2>5 DEF EvidenceInv
<1>3. ASSUME NEW c \in Calls, CallTool(c)
      PROVE  EvidenceInv'
  <2>1. /\ engine' = engine /\ mounted' = mounted
        /\ phase = "model" /\ phase' = "running"
    BY <1>3 DEF CallTool, engineVars
  <2>2. Applied = Len(log) /\ Applied' = Len(log')
    BY <2>1 DEF Applied, Replaying
  <2>3. UnverifiedIsKnown' /\ FailureIsKnown'
    BY <1>0, <1>3, <2>1, <2>2, LoggedCall DEF EvidenceInv, UnverifiedIsKnown, FailureIsKnown
  <2>4. ReceiptsArePast' /\ UnmountedIsNew'
    BY <2>1 DEF EvidenceInv, ReceiptsArePast, UnmountedIsNew, Replaying
  <2> QED
    BY <1>1, <2>3, <2>4 DEF EvidenceInv
<1>4. ASSUME NEW ev \in Observations, PostExecute(ev)
      PROVE  EvidenceInv'
  <2> DEFINE e == ApplyEvent(engine, ev)
  <2>1. ev \in Event
    BY HostAssumption
  <2>2. e \in Engine /\ PastReceipts(e)
    BY <1>0, <2>1, ApplyEventType, ApplyEventPast
  <2>3. /\ engine' = ConsumeInlineReminder(e) /\ mounted' = TRUE /\ log' = log
        /\ observed' = <<ev>> /\ observed'[1] = ev
        /\ phase = "running" /\ phase' = "observed"
    BY <1>4 DEF PostExecute
  <2> HIDE DEF e
  <2>4. Snapshot(engine') = Snapshot(e)
    BY <2>2, <2>3, RoundOperations
  <2>5. /\ UnverifiedMutation(engine') <=> UnverifiedMutation(e)
        /\ FailingVerifications(engine') = FailingVerifications(e)
        /\ PastReceipts(engine')
    BY <2>2, <2>4, SameFacts
  <2>6. Applied = Len(log)
    BY <2>3 DEF Applied, Replaying
  <2>7. IsMutation(ev) \/ (UnverifiedIn(log, Len(log)) /\ ~IsPass(ev))
          => UnverifiedMutation(e)
    <3>1. UnverifiedIn(log, Len(log)) => UnverifiedMutation(engine)
      BY <2>3, <2>6 DEF EvidenceInv, UnverifiedIsKnown
    <3> QED
      BY <1>0, <2>1, <3>1, ApplyEventUnverified DEF IsPass, e
  <2>8. ASSUME NEW c \in Commands,
               IsFailureOf(ev, c) \/ (FailingIn(log, Len(log), c) /\ ~IsRunOf(ev, c))
        PROVE  c \in FailingVerifications(e)
    <3>1. FailingIn(log, Len(log), c) => c \in FailingVerifications(engine)
      BY <2>3, <2>6 DEF EvidenceInv, FailureIsKnown
    <3> QED
      BY <1>0, <2>1, <2>8, <3>1, ApplyEventFailing DEF IsFailureOf, IsRunOf, e
  <2>9. UnverifiedIsKnown'
    BY <2>3, <2>5, <2>7 DEF UnverifiedIsKnown
  <2>10. FailureIsKnown'
    BY <2>3, <2>5, <2>8 DEF FailureIsKnown
  <2> QED
    BY <1>1, <2>3, <2>5, <2>9, <2>10
       DEF EvidenceInv, ReceiptsArePast, PastReceipts, UnmountedIsNew
<1>5. ASSUME NEW ev \in Observations, ToolReturn(ev)
      PROVE  EvidenceInv'
  <2>1. /\ engine' = engine /\ mounted' = mounted
        /\ phase = "observed" /\ phase' = "boundary" /\ ev = observed[1]
    BY <1>5 DEF ToolReturn, engineVars
  <2>2. Applied' = Len(log')
    BY <2>1 DEF Applied, Replaying
  <2>3. UnverifiedIsKnown' /\ FailureIsKnown'
    BY <1>0, <1>5, <2>1, <2>2, LoggedResult DEF EvidenceInv, UnverifiedIsKnown, FailureIsKnown
  <2> QED
    BY <1>1, <2>1, <2>3 DEF EvidenceInv, ReceiptsArePast, UnmountedIsNew, Replaying
<1>6. CASE PreStep
  <2>1. Snapshot(engine') = Snapshot(engine)
    BY <1>0, <1>6, RoundOperations DEF PreStep
  <2>2. /\ log' = log /\ phase = "boundary" /\ phase' = "model"
        /\ mounted' = mounted
    BY <1>6 DEF PreStep
  <2>3. Applied' = Applied
    BY <2>2 DEF Applied, Replaying
  <2>4. ResetChains(NewEngine) = NewEngine
    <3>1. NewEngine.chain = 0 /\ NewEngine.turn = NoTurn
      BY DEF NewEngine
    <3> QED
      BY <3>1, NewEngineType DEF ResetChains, Engine
  <2>5. UnmountedIsNew'
    BY <1>6, <2>2, <2>4 DEF PreStep, EvidenceInv, UnmountedIsNew, Replaying
  <2> QED
    BY <1>1, <2>1, <2>2, <2>3, <2>5, IdleStep DEF EvidenceInv
<1>7. ASSUME NEW claims \in Claims, Stop(claims)
      PROVE  EvidenceInv'
  <2>1. /\ log' = log /\ mounted' = mounted
        /\ phase = "model" /\ phase' \in {"idle", "boundary"}
    BY <1>7 DEF Stop, LadderSteer, GuardSteer, Release, ReleaseUnobserved,
                Settle, Steer, LetStop
  <2>2. \/ mounted /\ engine' = EndTurn(engine)
        \/ engine' = engine
    BY <1>7 DEF Stop, LadderSteer, GuardSteer, Release, ReleaseUnobserved, Settle
  <2>3. Snapshot(engine') = Snapshot(engine)
    BY <1>0, <2>2, RoundOperations
  <2>4. Applied' = Applied
    BY <2>1 DEF Applied, Replaying
  <2>5. UnmountedIsNew'
    BY <2>1, <2>2 DEF EvidenceInv, UnmountedIsNew, Replaying
  <2> QED
    BY <1>1, <2>1, <2>3, <2>4, <2>5, IdleStep DEF EvidenceInv
<1>8. CASE Resume \/ Compact
  BY <1>1, <1>8, FreshStart DEF Resume, Compact, EvidenceInv
<1>9. CASE ReplayEntry
  <2> DEFINE k == cursor + 1
  <2>1. /\ log' = log /\ phase' = phase /\ Replaying /\ cursor' = k
        /\ mounted' = mounted /\ k \in DOMAIN log
    BY <1>0, <1>9 DEF ReplayEntry
  <2>2. Applied = cursor /\ Applied' = k /\ phase # "observed"
    BY <2>1 DEF Applied, Replaying
  <2>3. /\ UnverifiedIn(log, cursor) => UnverifiedMutation(engine)
        /\ \A c \in Commands : FailingIn(log, cursor, c) => c \in FailingVerifications(engine)
    BY <2>2 DEF EvidenceInv, UnverifiedIsKnown, FailureIsKnown
  <2>4. CASE ~Paired(log, k) /\ engine' = engine
    <3>1. UnverifiedIn(log, k) => UnverifiedIn(log, cursor)
      BY <1>0, <2>4, NextEntry, Orphan
    <3>2. \A c : FailingIn(log, k, c) => FailingIn(log, cursor, c)
      BY <1>0, <2>4, NextEntry, Orphan
    <3>3. UnverifiedIsKnown' /\ FailureIsKnown'
      BY <2>1, <2>2, <2>3, <2>4, <3>1, <3>2 DEF UnverifiedIsKnown, FailureIsKnown
    <3> QED
      BY <1>1, <2>1, <2>4, <3>3 DEF EvidenceInv, ReceiptsArePast, UnmountedIsNew
  <2>5. ASSUME NEW j \in 1..cursor, Pairs(log, j, k),
               engine' = ApplyEvent(engine, EventOf(log, j, k))
        PROVE  EvidenceInv'
    <3> DEFINE ev == EventOf(log, j, k)
    <3>1. j \in DOMAIN log /\ cursor = k - 1
      BY <1>0, <2>1
    <3>2. ev \in Event
      BY <1>0, <2>1, <2>5, <3>1, EventOfType
    <3>3. \A i \in 1..(k - 1) : i \in DOMAIN log
      BY <1>0, <2>1
    <3>4. \A i \in 1..(k - 1) : Pairs(log, i, k) => i = j
      BY <1>0, <2>5, <3>1, <3>3 DEF LogIsPaired, Pairs
    <3> HIDE DEF ev, k
    <3>5. /\ LoggedMutation(log, k) <=> IsMutation(ev)
          /\ LoggedPass(log, k) <=> IsPass(ev)
          /\ \A c : LoggedRun(log, k, c) <=> IsRunOf(ev, c)
          /\ \A c : LoggedFailure(log, k, c) <=> IsFailureOf(ev, c)
      BY <2>5, <3>1, <3>4, PairedOnce DEF ev
    <3>6. /\ UnverifiedIn(log, k) =>
               LoggedMutation(log, k) \/ (UnverifiedIn(log, cursor) /\ ~LoggedPass(log, k))
          /\ \A c : FailingIn(log, k, c) =>
               LoggedFailure(log, k, c) \/ (FailingIn(log, cursor, c) /\ ~LoggedRun(log, k, c))
      BY <1>0, NextEntry DEF k
    <3>7. UnverifiedIn(log, k) => UnverifiedMutation(engine')
      BY <1>0, <2>3, <2>5, <3>2, <3>5, <3>6, ApplyEventUnverified DEF IsPass, ev
    <3>8. \A c \in Commands : FailingIn(log, k, c) => c \in FailingVerifications(engine')
      BY <1>0, <2>3, <2>5, <3>2, <3>5, <3>6, ApplyEventFailing DEF IsFailureOf, IsRunOf, ev
    <3>9. PastReceipts(engine')
      BY <1>0, <2>5, <3>2, ApplyEventPast DEF ev
    <3>10. UnverifiedIsKnown' /\ FailureIsKnown'
      BY <2>1, <2>2, <3>7, <3>8 DEF UnverifiedIsKnown, FailureIsKnown
    <3>11. mounted
      BY <2>1 DEF EvidenceInv, UnmountedIsNew
    <3> QED
      BY <1>1, <2>1, <3>9, <3>10, <3>11
         DEF EvidenceInv, ReceiptsArePast, PastReceipts, UnmountedIsNew
  <2> QED
    BY <1>9, <2>1, <2>4, <2>5 DEF ReplayEntry
<1>10. CASE Replayed
  <2>1. /\ engine' = engine /\ mounted' = mounted /\ log' = log
        /\ Replaying /\ cursor = Len(log) /\ phase' \in {"idle", "boundary"}
    BY <1>10 DEF Replayed, engineVars
  <2>2. Applied' = Applied /\ phase # "observed"
    BY <2>1 DEF Applied, Replaying
  <2> QED
    BY <1>1, <2>1, <2>2, IdleStep DEF EvidenceInv, UnmountedIsNew
<1>11. CASE UNCHANGED vars
  BY <1>1, <1>11
     DEF vars, EvidenceInv, ReceiptsArePast, UnmountedIsNew, UnverifiedIsKnown,
         FailureIsKnown, Applied, Replaying
<1> QED
  BY <1>2, <1>3, <1>4, <1>5, <1>6, <1>7, <1>8, <1>9, <1>10, <1>11
     DEF Next, Loop, Outside

-----------------------------------------------------------------------------
\* The engine is informed in every reachable state.
THEOREM EvidenceHolds ==
  ASSUME ~DownstreamReplaces
  PROVE  Spec => []EvidenceInv
<1>1. Init => EvidenceInv
  <2>1. Init => LogIsPaired /\ UnmountedIsNew
    BY DEF Init, LogIsPaired, Replaying, UnmountedIsNew
  <2>2. Init => ReceiptsArePast
    BY NewEngineType DEF Init, ReceiptsArePast, PastReceipts
  <2>3. Init => Applied = 0 /\ phase # "observed"
    BY DEF Init, Applied, Replaying
  <2>4. Init => UnverifiedIsKnown /\ FailureIsKnown
    BY <2>3, NothingLogged DEF UnverifiedIsKnown, FailureIsKnown
  <2> QED
    BY <2>1, <2>2, <2>4 DEF EvidenceInv
<1>2. TypeOK /\ EvidenceInv /\ [Next]_vars => EvidenceInv'
  BY EvidenceStep
<1>3. Spec => []TypeOK
  BY TypeCorrect, PTL
<1> QED
  BY <1>1, <1>2, <1>3, PTL DEF Spec

\* What the guard sees of a log it has wholly applied is what the log says.
LEMMA InformedStop ==
  ASSUME EvidenceInv, TypeOK, [Next]_vars, StopStands, GuardActive
  PROVE  /\ ~UnverifiedIn(log, Len(log))
         /\ \A c \in Commands : ~FailingIn(log, Len(log), c)
<1>1. phase = "model" /\ phase' \in {"idle", "boundary"} /\ forced' = forced
      /\ EvidenceBound /\ forced < MaxForced /\ forced \in Nat
  BY DEF StopStands, GuardActive, TypeOK
<1>2. /\ UnverifiedIn(log, Len(log)) => UnverifiedMutation(engine)
      /\ \A c \in Commands : FailingIn(log, Len(log), c) => c \in FailingVerifications(engine)
  BY <1>1 DEF EvidenceInv, UnverifiedIsKnown, FailureIsKnown, Applied, Replaying
<1>3. PICK claims \in Claims : Release(claims) \/ ReleaseUnobserved(claims)
  <2>1. \E claims \in Claims : Stop(claims)
    BY <1>1 DEF Next, Loop, Outside, vars, Message, CallTool, PostExecute, ToolReturn,
                PreStep, Resume, Compact, SessionStart, ReplayEntry, Replaying, Replayed
  <2>2. ~Steer
    BY <1>1 DEF Steer
  <2> QED
    BY <2>1, <2>2 DEF Stop, LadderSteer, GuardSteer
<1>4. CASE Release(claims)
  <2>1. ~Violated(engine, claims)
    BY <1>1, <1>4 DEF Release, GuardSteers
  <2> QED
    BY <1>2, <2>1 DEF Violated
<1>5. CASE ReleaseUnobserved(claims)
  <2>1. engine = NewEngine
    BY <1>5 DEF ReleaseUnobserved, EvidenceInv, UnmountedIsNew
  <2>2. ~UnverifiedMutation(engine) /\ FailingVerifications(engine) = {}
    BY <2>1 DEF NewEngine, NoReceipt, UnverifiedMutation, FailingVerifications
  <2> QED
    BY <1>2, <2>2
<1> QED
  BY <1>3, <1>4, <1>5

\* While the guard has budget, no stop stands on a log that holds unverified or
\* failing work, across rounds, interjections, crashes and compactions
\* (turn-stopping), if later listeners leave results alone.
THEOREM StopsAreVerified ==
  ASSUME ~DownstreamReplaces
  PROVE  Spec => ReleaseIsVerified
<1>1. Spec => []EvidenceInv
  BY EvidenceHolds
<1>2. Spec => []TypeOK
  BY TypeCorrect, PTL
<1>3. TypeOK /\ EvidenceInv /\ [Next]_vars =>
        [StopStands /\ GuardActive =>
           /\ ~UnverifiedIn(log, Len(log))
           /\ \A c \in Commands : ~FailingIn(log, Len(log), c)]_vars
  BY InformedStop
<1> QED
  BY <1>1, <1>2, <1>3, PTL DEF Spec, ReleaseIsVerified

-----------------------------------------------------------------------------
(* The promise. *)

\* Each step of adapter and host is a step of the promise, or none.
LEMMA PromiseStep ==
  ASSUME ~DownstreamReplaces, TypeOK, EvidenceInv, [Next]_vars
  PROVE  [Promise!Next]_(Promise!vars)
<1> DEFINE dirty   == UnverifiedIn(log, Len(log))
           failing == {c \in Commands : FailingIn(log, Len(log), c)}
           resting == phase \in {"idle", "resuming"}
           waiting == "user" \in inbox
           total   == restarts + compactions
<1>0. /\ log \in Seq(LogEntry) /\ LogIsPaired /\ forced \in Nat
      /\ restarts \in Nat /\ compactions \in Nat
  BY DEF TypeOK, EvidenceInv
<1>b. /\ dirty \in BOOLEAN /\ dirty' \in BOOLEAN
      /\ resting \in BOOLEAN /\ resting' \in BOOLEAN
      /\ waiting \in BOOLEAN /\ waiting' \in BOOLEAN
  BY DEF UnverifiedIn
<1>1. ASSUME dirty' = dirty, failing' = failing, forced' = forced, resting' = resting,
             waiting' = waiting, total' = total
      PROVE  UNCHANGED Promise!vars
  BY <1>1 DEF Promise!vars
<1>2. ASSUME log' = log
      PROVE  dirty' = dirty /\ failing' = failing
  BY <1>2
<1>3. ASSUME NEW source \in Sources, Message(source)
      PROVE  [Promise!Next]_(Promise!vars)
  <2>1. /\ log' = log /\ forced' = forced /\ phase # "resuming" /\ total' = total
        /\ phase' = IF phase = "idle" THEN "boundary" ELSE phase
        /\ inbox' = inbox \cup {source}
    BY <1>3 DEF Message, engineVars
  <2>2. CASE source = "user"
    <3>1. waiting' = TRUE /\ resting' = FALSE
      BY <2>1, <2>2
    <3>2. Promise!Ask
      BY <1>2, <2>1, <3>1 DEF Promise!Ask, Promise!work
    <3> QED
      BY <3>2 DEF Promise!Next
  <2>3. CASE source # "user"
    <3>1. waiting' = waiting
      BY <2>1, <2>3
    <3>2. CASE phase = "idle"
      <4>1. Promise!Wake
        BY <1>2, <2>1, <3>1, <3>2 DEF Promise!Wake, Promise!work
      <4> QED
        BY <4>1 DEF Promise!Next
    <3>3. CASE phase # "idle"
      BY <1>1, <1>2, <2>1, <3>1, <3>3
    <3> QED
      BY <3>2, <3>3
  <2> QED
    BY <2>2, <2>3
<1>4. ASSUME NEW c \in Calls, CallTool(c)
      PROVE  [Promise!Next]_(Promise!vars)
  <2>1. dirty' = dirty
    BY <1>0, <1>b, <1>4, LoggedCall
  <2>2. failing' = failing
    BY <1>0, <1>4, LoggedCall
  <2>3. /\ forced' = forced /\ resting' = resting
        /\ waiting' = waiting /\ total' = total
    BY <1>4 DEF CallTool, engineVars
  <2> QED
    BY <1>1, <2>1, <2>2, <2>3
<1>5. ASSUME NEW ev \in Observations, ToolReturn(ev)
      PROVE  [Promise!Next]_(Promise!vars)
  <2>1. /\ forced' = forced /\ ~resting /\ ~resting'
        /\ waiting' = waiting /\ total' = total
    BY <1>5 DEF ToolReturn, engineVars, counters
  <2>2. dirty' <=> IsMutation(ev) \/ (dirty /\ ~IsPass(ev))
    BY <1>0, <1>5, LoggedResult
  <2>3. failing' = {d \in Commands :
                      IsFailureOf(ev, d) \/ (d \in failing /\ ~IsRunOf(ev, d))}
    BY <1>0, <1>5, LoggedResult
  <2>4. ev.call \in Calls
    BY HostAssumption DEF Event
  <2> HIDE DEF dirty, failing, resting, waiting, total
  <2>5. CASE IsMutation(ev)
    <3>1. ~IsVerification(ev)
      BY <2>5, CallAssumption DEF IsMutation, IsVerification
    <3>2. dirty' = TRUE
      BY <2>2, <2>5 DEF dirty
    <3>3. failing' = failing
      BY <2>3, <3>1 DEF IsFailureOf, IsRunOf, failing
    <3>4. Promise!Change
      BY <2>1, <3>2, <3>3
         DEF Promise!Change, dirty, failing, resting, waiting, total
    <3> QED
      BY <3>4 DEF Promise!Next
  <2>6. CASE ~IsMutation(ev) /\ ~IsVerification(ev)
    <3>1. dirty' = dirty
      BY <1>b, <2>2, <2>6 DEF IsPass
    <3>2. failing' = failing
      BY <2>3, <2>6 DEF IsFailureOf, IsRunOf, failing
    <3> QED
      BY <1>b, <1>1, <2>1, <3>1, <3>2
  <2>7. CASE ~IsMutation(ev) /\ IsVerification(ev)
    <3> DEFINE c == CommandOf[ev.call]
               s == ReceiptStatus(ev)
    <3>1. c \in Commands /\ s \in {"pass", "fail", "unknown"}
      BY <2>7, CallAssumption, StatusType DEF IsVerification, Statuses
    <3>2. dirty' = (dirty /\ s # "pass")
      BY <1>b, <2>2, <2>7 DEF IsPass
    <3>3. failing' = IF s = "fail" THEN failing \cup {c} ELSE failing \ {c}
      BY <2>3, <2>7, <3>1 DEF IsFailureOf, IsRunOf, failing
    <3>4. Promise!Verify(c, s)
      BY <2>1, <3>2, <3>3
         DEF Promise!Verify, dirty, failing, resting, waiting, total
    <3> QED
      BY <3>1, <3>4 DEF Promise!Next
  <2> QED
    BY <2>5, <2>6, <2>7
<1>6. ASSUME NEW ev \in Observations, PostExecute(ev)
      PROVE  [Promise!Next]_(Promise!vars)
  BY <1>1, <1>2, <1>6 DEF PostExecute, counters
<1>7. CASE PreStep
  <2>1. /\ log' = log /\ phase = "boundary" /\ phase' = "model"
        /\ inbox' = {} /\ total' = total
        /\ IF "user" \in inbox THEN forced' = 0 ELSE forced' = forced
    BY <1>7 DEF PreStep, counters
  <2>2. CASE waiting
    <3>1. Promise!Interject
      BY <1>2, <2>1, <2>2 DEF Promise!Interject, Promise!work
    <3> QED
      BY <3>1 DEF Promise!Next
  <2>3. CASE ~waiting
    BY <1>1, <1>2, <2>1, <2>3
  <2> QED
    BY <2>2, <2>3
<1>8. ASSUME NEW claims \in Claims, Stop(claims)
      PROVE  [Promise!Next]_(Promise!vars)
  <2>1. log' = log /\ phase = "model" /\ total' = total
    BY <1>8 DEF Stop, LadderSteer, GuardSteer, Release, ReleaseUnobserved, Settle,
                counters
  <2>2. CASE LadderSteer(claims) \/ GuardSteer(claims)
    <3>1. /\ forced < MaxForced /\ forced' = forced + 1 /\ phase' = "boundary"
          /\ inbox' = inbox \cup {"plugin"}
      BY <2>2 DEF LadderSteer, LadderSteers, GuardSteer, GuardSteers, Steer
    <3>2. waiting' = waiting
      BY <3>1
    <3>3. Promise!SendBack
      BY <1>2, <2>1, <3>1, <3>2 DEF Promise!SendBack, Promise!work
    <3> QED
      BY <3>3 DEF Promise!Next
  <2>3. CASE Release(claims) \/ ReleaseUnobserved(claims)
    <3>1. forced' = forced /\ inbox' = inbox
          /\ phase' = IF inbox = {} THEN "idle" ELSE "boundary"
      BY <2>3 DEF Release, ReleaseUnobserved, LetStop
    <3>2. EvidenceBound /\ forced < MaxForced => ~dirty /\ failing = {}
      BY <2>1, <3>1, InformedStop DEF StopStands, GuardActive
    <3>3. CASE inbox # {}
      BY <1>1, <1>2, <2>1, <3>1, <3>3
    <3>4. CASE inbox = {}
      <4>1. Promise!Rest
        BY <1>2, <2>1, <3>1, <3>2, <3>4 DEF Promise!Rest, Promise!work
      <4> QED
        BY <4>1 DEF Promise!Next
    <3> QED
      BY <3>3, <3>4
  <2> QED
    BY <1>8, <2>2, <2>3 DEF Stop
<1>9. CASE Resume
  <2>1. /\ log' = log /\ forced' = 0 /\ phase' = "resuming" /\ inbox' = {}
        /\ restarts' = restarts + 1 /\ compactions' = compactions
    BY <1>9 DEF Resume, SessionStart
  <2>2. Promise!Crash
    BY <1>0, <1>2, <2>1 DEF Promise!Crash, Promise!work
  <2> QED
    BY <2>2 DEF Promise!Next
<1>10. CASE Compact
  <2>1. /\ phase = "boundary" /\ forced' = 0 /\ phase' = "compacting"
        /\ inbox' = inbox /\ restarts' = restarts /\ compactions' = compactions + 1
    BY <1>10 DEF Compact, SessionStart
  <2>2. dirty' \in BOOLEAN
    BY DEF UnverifiedIn
  <2>3. failing' \in SUBSET Commands
    OBVIOUS
  <2>4. Promise!Rewrite
    BY <1>0, <2>1, <2>2, <2>3 DEF Promise!Rewrite
  <2> QED
    BY <2>4 DEF Promise!Next
<1>11. CASE ReplayEntry
  BY <1>1, <1>2, <1>11 DEF ReplayEntry, counters
<1>12. CASE Replayed
  <2>1. /\ log' = log /\ forced' = forced /\ resting' = resting
        /\ inbox' = inbox /\ total' = total
    BY <1>12 DEF Replayed, Replaying, engineVars, counters
  <2> QED
    BY <1>1, <1>2, <2>1
<1>13. CASE UNCHANGED vars
  BY <1>1, <1>2, <1>13 DEF vars
<1> QED
  BY <1>3, <1>4, <1>5, <1>6, <1>7, <1>8, <1>9, <1>10, <1>11, <1>12, <1>13
     DEF Next, Loop, Outside

\* The adapter keeps the promise of evidence-bound completion for every
\* configuration, if later listeners leave results alone.
THEOREM Refinement ==
  ASSUME ~DownstreamReplaces
  PROVE  Spec => KeepsPromise
<1>1. Init => Promise!Init
  <2>1. Init => /\ log = <<>> /\ Len(log) = 0 /\ forced = 0 /\ phase = "idle"
                /\ inbox = {} /\ restarts = 0 /\ compactions = 0
    BY DEF Init
  <2>2. Init => ~UnverifiedIn(log, Len(log))
                /\ {c \in Commands : FailingIn(log, Len(log), c)} = {}
    BY <2>1, NothingLogged
  <2> QED
    BY <2>1, <2>2 DEF Promise!Init, UnverifiedIn
<1>2. Spec => [](TypeOK /\ EvidenceInv)
  BY TypeCorrect, EvidenceHolds, PTL
<1>3. TypeOK /\ EvidenceInv /\ [Next]_vars => [Promise!Next]_(Promise!vars)
  BY PromiseStep
<1> QED
  BY <1>1, <1>2, <1>3, PTL DEF Spec, KeepsPromise, Promise!Spec
-----------------------------------------------------------------------------
(* The two passes, entry by entry. *)

\* What the pass over the log holds.
Translation == [pending : UNION {[ids -> Calls] : ids \in SUBSET Nat}, out : Seq(Event)]

NothingTranslated == [pending |-> <<>>, out |-> <<>>]

\* It is a translation.
LEMMA NothingTranslatedType == NothingTranslated \in Translation
<1>1. <<>> \in [{} -> Calls]
  OBVIOUS
<1>2. <<>> \in Seq(Event)
  OBVIOUS
<1> QED
  BY <1>1, <1>2 DEF NothingTranslated, Translation

\* A translation is its two fields.
LEMMA TranslationFields ==
  ASSUME NEW acc \in Translation
  PROVE  /\ DOMAIN acc.pending \in SUBSET Nat
         /\ acc.pending \in [DOMAIN acc.pending -> Calls]
         /\ acc.out \in Seq(Event)
         /\ acc = [pending |-> acc.pending, out |-> acc.out]
<1>1. PICK D \in SUBSET Nat : acc.pending \in [D -> Calls]
  BY DEF Translation
<1> QED
  BY <1>1 DEF Translation

\* A call waits under its id, in place of any other of that id.
LEMMA CallTranslated ==
  ASSUME NEW acc \in Translation, NEW x \in LogEntry, x.kind = "call"
  PROVE  /\ Translated(acc, x) \in Translation
         /\ Translated(acc, x).out = acc.out
         /\ DOMAIN Translated(acc, x).pending = DOMAIN acc.pending \cup {x.id}
         /\ Translated(acc, x).pending[x.id] = x.call
         /\ \A id \in DOMAIN acc.pending \ {x.id} :
              Translated(acc, x).pending[id] = acc.pending[id]
<1> DEFINE ids == DOMAIN acc.pending
           p == [id \in ids \cup {x.id} |-> IF id = x.id THEN x.call ELSE acc.pending[id]]
<1>1. x.id \in Nat /\ x.call \in Calls
  BY DEF LogEntry, CallEntry, ResultEntry
<1>2. p \in [ids \cup {x.id} -> Calls] /\ ids \cup {x.id} \in SUBSET Nat
  BY <1>1, TranslationFields
<1>3. Translated(acc, x) = [pending |-> p, out |-> acc.out]
  BY TranslationFields DEF Translated
<1>4. [pending |-> p, out |-> acc.out] \in Translation
  <2> HIDE DEF p
  <2> QED
    BY <1>2, TranslationFields DEF Translation
<1> QED
  BY <1>3, <1>4

\* A result goes out with the call of its id, if there is one.
LEMMA ResultTranslated ==
  ASSUME NEW acc \in Translation, NEW x \in LogEntry, x.kind = "result", x.id \in DOMAIN acc.pending
  PROVE  /\ Translated(acc, x) \in Translation
         /\ Translated(acc, x).pending = acc.pending
         /\ Translated(acc, x).out =
              Append(acc.out, [call |-> acc.pending[x.id],
                               content |-> x.content, isError |-> x.isError])
<1> DEFINE ev == [call |-> acc.pending[x.id], content |-> x.content, isError |-> x.isError]
<1>1. x.content \in Contents /\ x.isError \in BOOLEAN
  BY DEF LogEntry, CallEntry, ResultEntry
<1>2. ev \in Event
  BY <1>1, TranslationFields DEF Event
<1>6. Translated(acc, x) = [acc EXCEPT !.out = Append(acc.out, ev)]
  BY DEF Translated
<1> HIDE DEF ev
<1>3. Translated(acc, x) = [pending |-> acc.pending, out |-> Append(acc.out, ev)]
  BY <1>6, TranslationFields
<1>4. Append(acc.out, ev) \in Seq(Event)
  BY <1>2, TranslationFields
<1>5. [pending |-> acc.pending, out |-> Append(acc.out, ev)] \in Translation
  BY <1>4, TranslationFields DEF Translation
<1> QED
  BY <1>3, <1>5 DEF ev

\* A result without a call changes nothing.
LEMMA OrphanTranslated ==
  ASSUME NEW acc \in Translation, NEW x \in LogEntry, x.kind = "result", x.id \notin DOMAIN acc.pending
  PROVE  Translated(acc, x) = acc
BY DEF Translated

\* One more entry makes a translation of a translation.
LEMMA TranslatedType ==
  ASSUME NEW acc \in Translation, NEW x \in LogEntry
  PROVE  Translated(acc, x) \in Translation
<1>1. x.kind \in {"call", "result"}
  BY DEF LogEntry, CallEntry, ResultEntry
<1> QED
  BY <1>1, CallTranslated, ResultTranslated, OrphanTranslated

\* The pass over the log is its recursion.
LEMMA TranslationEquation ==
  ASSUME NEW l \in Seq(LogEntry)
  PROVE  /\ TranslatedTo(l) \in [0 .. Len(l) -> Translation]
         /\ TranslatedTo(l)[0] = NothingTranslated
         /\ \A n \in 1 .. Len(l) : TranslatedTo(l)[n] = Translated(TranslatedTo(l)[n - 1], l[n])
<1> DEFINE N == Len(l)
           Def(f) == [n \in 0 .. N |-> IF n = 0 THEN NothingTranslated
                                       ELSE Translated(f[n - 1], l[n])]
           G == [n \in 1 .. N |-> [acc \in Translation |-> Translated(acc, l[n])]]
           acc == CHOOSE f : f = Def(f)
<1>1. N \in Nat /\ \A n \in 1 .. N : l[n] \in LogEntry
  OBVIOUS
<1>2. G \in [1 .. N -> [Translation -> Translation]]
  BY <1>1, TranslatedType
<1>3. PICK f : Iterates(N, Translation, NothingTranslated, G, f)
  <2> HIDE DEF G, N
  <2> QED
    BY <1>1, <1>2, NothingTranslatedType, PositionRecursion
<1>4. f = Def(f)
  <2>1. /\ f \in [0 .. N -> Translation] /\ f[0] = NothingTranslated
        /\ \A n \in 1 .. N : f[n] = G[n][f[n - 1]]
    BY <1>3 DEF Iterates
  <2>2. ASSUME NEW n \in 0 .. N, n # 0 PROVE f[n] = Translated(f[n - 1], l[n])
    <3>1. n \in 1 .. N /\ n - 1 \in 0 .. N
      BY <1>1, <2>2
    <3> QED
      BY <2>1, <3>1
  <2>3. \A n \in 0 .. N : f[n] = IF n = 0 THEN NothingTranslated ELSE Translated(f[n - 1], l[n])
    BY <2>1, <2>2
  <2> QED
    BY <2>1, <2>3
<1>5. acc = Def(acc)
  <2> HIDE DEF Def
  <2> QED
    BY <1>4
<1>6. TranslatedTo(l) = acc
  BY DEF TranslatedTo, NothingTranslated
<1> HIDE DEF acc
<1>7. acc[0] = NothingTranslated
  BY <1>1, <1>5
<1>8. ASSUME NEW n \in 1 .. N PROVE acc[n] = Translated(acc[n - 1], l[n])
  <2>1. n \in 0 .. N /\ n # 0
    BY <1>1
  <2> QED
    BY <1>5, <2>1
<1> DEFINE P == {n \in 0 .. N : acc[n] \in Translation}
<1>9. \A n \in 0 .. N : n \in P
  <2>1. 0 \in P
    BY <1>1, <1>7, NothingTranslatedType
  <2>2. ASSUME NEW n \in 1 .. N, n - 1 \in P PROVE n \in P
    <3>1. acc[n - 1] \in Translation /\ l[n] \in LogEntry /\ n \in 0 .. N
      BY <1>1, <2>2
    <3>2. Translated(acc[n - 1], l[n]) \in Translation
      BY <3>1, TranslatedType
    <3> QED
      BY <1>8, <3>1, <3>2
  <2> HIDE DEF P, N
  <2> QED
    BY <1>1, <2>1, <2>2, EveryPosition
<1>10. acc \in [0 .. N -> Translation]
  BY <1>5, <1>9
<1> QED
  BY <1>6, <1>7, <1>8, <1>10

\* The pass over the events is its recursion.
LEMMA RebuildEquation ==
  ASSUME NEW events \in Seq(Event)
  PROVE  /\ RebuiltTo(events) \in [0 .. Len(events) -> Engine]
         /\ RebuiltTo(events)[0] = NewEngine
         /\ \A n \in 1 .. Len(events) :
              RebuiltTo(events)[n] = ApplyEvent(RebuiltTo(events)[n - 1], events[n])
<1> DEFINE N == Len(events)
           Def(f) == [n \in 0 .. N |-> IF n = 0 THEN NewEngine ELSE ApplyEvent(f[n - 1], events[n])]
           G == [n \in 1 .. N |-> [e \in Engine |-> ApplyEvent(e, events[n])]]
           engineAt == CHOOSE f : f = Def(f)
<1>1. N \in Nat /\ \A n \in 1 .. N : events[n] \in Event
  OBVIOUS
<1>2. G \in [1 .. N -> [Engine -> Engine]]
  BY <1>1, ApplyEventType
<1>3. PICK f : Iterates(N, Engine, NewEngine, G, f)
  <2> HIDE DEF G, N
  <2> QED
    BY <1>1, <1>2, NewEngineType, PositionRecursion
<1>4. f = Def(f)
  <2>1. /\ f \in [0 .. N -> Engine] /\ f[0] = NewEngine
        /\ \A n \in 1 .. N : f[n] = G[n][f[n - 1]]
    BY <1>3 DEF Iterates
  <2>2. ASSUME NEW n \in 0 .. N, n # 0 PROVE f[n] = ApplyEvent(f[n - 1], events[n])
    <3>1. n \in 1 .. N /\ n - 1 \in 0 .. N
      BY <1>1, <2>2
    <3> QED
      BY <2>1, <3>1
  <2>3. \A n \in 0 .. N : f[n] = IF n = 0 THEN NewEngine ELSE ApplyEvent(f[n - 1], events[n])
    BY <2>1, <2>2
  <2> QED
    BY <2>1, <2>3
<1>5. engineAt = Def(engineAt)
  <2> HIDE DEF Def
  <2> QED
    BY <1>4
<1>6. RebuiltTo(events) = engineAt
  BY DEF RebuiltTo
<1> HIDE DEF engineAt
<1>7. engineAt[0] = NewEngine
  BY <1>1, <1>5
<1>8. ASSUME NEW n \in 1 .. N PROVE engineAt[n] = ApplyEvent(engineAt[n - 1], events[n])
  <2>1. n \in 0 .. N /\ n # 0
    BY <1>1
  <2> QED
    BY <1>5, <2>1
<1> DEFINE P == {n \in 0 .. N : engineAt[n] \in Engine}
<1>9. \A n \in 0 .. N : n \in P
  <2>1. 0 \in P
    BY <1>1, <1>7, NewEngineType
  <2>2. ASSUME NEW n \in 1 .. N, n - 1 \in P PROVE n \in P
    BY <1>1, <1>8, <2>2, ApplyEventType
  <2> HIDE DEF P, N
  <2> QED
    BY <1>1, <2>1, <2>2, EveryPosition
<1>10. engineAt \in [0 .. N -> Engine]
  BY <1>5, <1>9
<1> QED
  BY <1>6, <1>7, <1>8, <1>10

-----------------------------------------------------------------------------
(* What one more entry changes. *)

\* A pass over a longer log goes through the same as over the shorter one.
LEMMA TranslatedPrefix ==
  ASSUME NEW l \in Seq(LogEntry), NEW x \in LogEntry
  PROVE  /\ \A n \in 0 .. Len(l) : TranslatedTo(Append(l, x))[n] = TranslatedTo(l)[n]
         /\ TranslatedTo(Append(l, x))[Len(l) + 1] = Translated(TranslatedTo(l)[Len(l)], x)
<1> DEFINE N == Len(l)
           k == Append(l, x)
           P == {n \in 0 .. N : TranslatedTo(k)[n] = TranslatedTo(l)[n]}
<1>1. /\ k \in Seq(LogEntry) /\ Len(k) = N + 1 /\ k[N + 1] = x /\ N \in Nat
      /\ \A n \in 1 .. N : k[n] = l[n]
  OBVIOUS
<1> HIDE DEF k
<1>2. 0 \in P
  BY <1>1, TranslationEquation
<1>3. ASSUME NEW n \in 1 .. N, n - 1 \in P PROVE n \in P
  <2>1. n \in 1 .. Len(k) /\ n \in 0 .. N
    BY <1>1
  <2>2. TranslatedTo(k)[n] = Translated(TranslatedTo(k)[n - 1], k[n])
    BY <1>1, <2>1, TranslationEquation
  <2>3. TranslatedTo(l)[n] = Translated(TranslatedTo(l)[n - 1], l[n])
    BY TranslationEquation
  <2> QED
    BY <1>1, <1>3, <2>1, <2>2, <2>3
<1>4. \A n \in 0 .. N : n \in P
  <2> HIDE DEF P, N
  <2> QED
    BY <1>1, <1>2, <1>3, EveryPosition
<1>5. TranslatedTo(k)[N + 1] = Translated(TranslatedTo(k)[N], x)
  <2>1. N + 1 \in 1 .. Len(k) /\ (N + 1) - 1 = N
    BY <1>1
  <2> QED
    BY <1>1, <2>1, TranslationEquation
<1> QED
  BY <1>1, <1>4, <1>5 DEF k

\* Replaying one more event applies it to what the others rebuild.
LEMMA RebuildAppend ==
  ASSUME NEW events \in Seq(Event), NEW ev \in Event
  PROVE  Rebuild(Append(events, ev)) = ApplyEvent(Rebuild(events), ev)
<1> DEFINE N == Len(events)
           k == Append(events, ev)
           P == {n \in 0 .. N : RebuiltTo(k)[n] = RebuiltTo(events)[n]}
<1>1. /\ k \in Seq(Event) /\ Len(k) = N + 1 /\ k[N + 1] = ev /\ N \in Nat
      /\ \A n \in 1 .. N : k[n] = events[n]
  OBVIOUS
<1> HIDE DEF k
<1>2. 0 \in P
  BY <1>1, RebuildEquation
<1>3. ASSUME NEW n \in 1 .. N, n - 1 \in P PROVE n \in P
  <2>1. n \in 1 .. Len(k) /\ n \in 0 .. N
    BY <1>1
  <2>2. RebuiltTo(k)[n] = ApplyEvent(RebuiltTo(k)[n - 1], k[n])
    BY <1>1, <2>1, RebuildEquation
  <2>3. RebuiltTo(events)[n] = ApplyEvent(RebuiltTo(events)[n - 1], events[n])
    BY RebuildEquation
  <2> QED
    BY <1>1, <1>3, <2>1, <2>2, <2>3
<1>4. \A n \in 0 .. N : n \in P
  <2> HIDE DEF P, N
  <2> QED
    BY <1>1, <1>2, <1>3, EveryPosition
<1>5. RebuiltTo(k)[N + 1] = ApplyEvent(RebuiltTo(k)[N], ev)
  <2>1. N + 1 \in 1 .. Len(k) /\ (N + 1) - 1 = N
    BY <1>1
  <2> QED
    BY <1>1, <2>1, RebuildEquation
<1>6. RebuiltTo(k)[N] = RebuiltTo(events)[N]
  BY <1>1, <1>4
<1> QED
  BY <1>1, <1>5, <1>6 DEF k, Rebuild

\* Nothing rebuilds a new engine.
LEMMA RebuildNothing == Rebuild(<<>>) = NewEngine
<1>1. <<>> \in Seq(Event) /\ Len(<<>>) = 0
  OBVIOUS
<1> QED
  BY <1>1, RebuildEquation DEF Rebuild

\* Calls have ids of their own (a part of LogIsPaired).
CallsAreUnique(l) ==
  \A i, j \in DOMAIN l : l[i].kind = "call" /\ l[j].kind = "call" /\ l[i].id = l[j].id => i = j

\* After n entries the calls among them wait, each under its id.
Waiting(l, n) ==
  LET pending == TranslatedTo(l)[n].pending
  IN  /\ \A id : id \in DOMAIN pending <=> \E j \in 1 .. n : l[j].kind = "call" /\ l[j].id = id
      /\ \A j \in 1 .. n : l[j].kind = "call" => pending[l[j].id] = l[j].call

\* So it is after every number of entries of a log.
LEMMA CallsWait ==
  ASSUME NEW l \in Seq(LogEntry), CallsAreUnique(l)
  PROVE  \A n \in 0 .. Len(l) : Waiting(l, n)
<1> DEFINE N == Len(l)
           T == TranslatedTo(l)
           P == {n \in 0 .. N : Waiting(l, n)}
<1>1. N \in Nat /\ DOMAIN l = 1 .. N /\ \A n \in 1 .. N : l[n] \in LogEntry
  OBVIOUS
<1>2. /\ T[0] = NothingTranslated
      /\ \A n \in 0 .. N : T[n] \in Translation
      /\ \A n \in 1 .. N : T[n] = Translated(T[n - 1], l[n])
  BY TranslationEquation
<1>3. Waiting(l, 0)
  BY <1>2 DEF Waiting, NothingTranslated
<1>4. ASSUME NEW n \in 1 .. N, Waiting(l, n - 1) PROVE Waiting(l, n)
  <2> DEFINE acc == T[n - 1]
             x == l[n]
             old == acc.pending
             new == T[n].pending
  <2>1. T[n - 1] \in Translation /\ l[n] \in LogEntry /\ T[n] = Translated(T[n - 1], l[n])
        /\ n \in Nat /\ n - 1 \in Nat
    BY <1>1, <1>2
  <2>2. /\ \A id : id \in DOMAIN old <=> \E j \in 1 .. n - 1 : l[j].kind = "call" /\ l[j].id = id
        /\ \A j \in 1 .. n - 1 : l[j].kind = "call" => old[l[j].id] = l[j].call
    BY <1>4 DEF Waiting
  <2>3. \A j \in 1 .. n : j \in 1 .. n - 1 \/ j = n
    BY <2>1
  <2>4. \A j \in 1 .. n - 1 : j \in 1 .. n /\ j \in 1 .. N /\ j # n
    BY <1>1, <2>1
  <2>5. CASE l[n].kind = "call"
    <3>0. x.kind = "call" /\ acc \in Translation /\ x \in LogEntry /\ T[n] = Translated(acc, x)
      BY <2>1, <2>5
    <3>1. /\ DOMAIN new = DOMAIN old \cup {x.id} /\ new[x.id] = x.call
          /\ \A id \in DOMAIN old \ {x.id} : new[id] = old[id]
      <4> HIDE DEF acc, x, T
      <4> QED
        BY <3>0, CallTranslated
    <3>2. \A j \in 1 .. n - 1 : l[j].kind = "call" => l[j].id # l[n].id
      BY <1>1, <2>4, <2>5 DEF CallsAreUnique
    <3> HIDE DEF new, old
    <3>3. \A id : id \in DOMAIN new <=> \E j \in 1 .. n : l[j].kind = "call" /\ l[j].id = id
      BY <2>2, <2>3, <2>4, <2>5, <3>1
    <3>4. \A j \in 1 .. n : l[j].kind = "call" => new[l[j].id] = l[j].call
      BY <2>2, <2>3, <3>1, <3>2
    <3> QED
      BY <3>3, <3>4 DEF Waiting, new
  <2>6. CASE l[n].kind # "call"
    <3>1. l[n].kind = "result"
      BY <2>1, <2>6 DEF LogEntry, CallEntry, ResultEntry
    <3>0. x.kind = "result" /\ acc \in Translation /\ x \in LogEntry /\ T[n] = Translated(acc, x)
      BY <2>1, <3>1
    <3>2. new = old
      <4> HIDE DEF acc, x, T
      <4>1. CASE x.id \in DOMAIN acc.pending
        BY <3>0, <4>1, ResultTranslated
      <4>2. CASE x.id \notin DOMAIN acc.pending
        BY <3>0, <4>2, OrphanTranslated
      <4> QED
        BY <4>1, <4>2
    <3> HIDE DEF new, old
    <3>3. \A id : id \in DOMAIN new <=> \E j \in 1 .. n : l[j].kind = "call" /\ l[j].id = id
      BY <2>2, <2>3, <2>4, <2>6, <3>2
    <3>4. \A j \in 1 .. n : l[j].kind = "call" => new[l[j].id] = l[j].call
      BY <2>2, <2>3, <2>6, <3>2
    <3> QED
      BY <3>3, <3>4 DEF Waiting, new
  <2> QED
    BY <2>5, <2>6
<1>5. \A n \in 0 .. N : n \in P
  <2>1. 0 \in P
    BY <1>1, <1>3
  <2>2. ASSUME NEW n \in 1 .. N, n - 1 \in P PROVE n \in P
    BY <1>1, <1>4, <2>2
  <2> HIDE DEF P, N
  <2> QED
    BY <1>1, <2>1, <2>2, EveryPosition
<1> QED
  BY <1>5

\* An entry adds the event of its pair to the translation, and nothing if it has none.
LEMMA EntryTranslated ==
  ASSUME NEW l \in Seq(LogEntry), CallsAreUnique(l), NEW k \in 1 .. Len(l)
  PROVE  LET before == TranslatedTo(l)[k - 1].out
             after  == TranslatedTo(l)[k].out
         IN  /\ before \in Seq(Event) /\ after \in Seq(Event)
             /\ ~Paired(l, k) => after = before
             /\ \A j \in 1 .. k - 1 : Pairs(l, j, k) => after = Append(before, EventOf(l, j, k))
<1> DEFINE T == TranslatedTo(l)
           acc == T[k - 1]
           x == l[k]
<1>1. /\ acc \in Translation /\ x \in LogEntry /\ T[k] = Translated(acc, x)
      /\ T[k] \in Translation
  BY TranslationEquation
<1>2. Waiting(l, k - 1)
  BY CallsWait
<1>3. acc.out \in Seq(Event) /\ T[k].out \in Seq(Event)
  BY <1>1 DEF Translation
<1> HIDE DEF T, acc, x
<1>4. ASSUME ~Paired(l, k) PROVE T[k].out = acc.out
  <2>1. CASE x.kind = "call"
    BY <1>1, <2>1, CallTranslated
  <2>2. CASE x.kind = "result"
    <3>1. x.id \notin DOMAIN acc.pending
      BY <1>2, <1>4, <2>2 DEF Waiting, Paired, Pairs, T, acc, x
    <3> QED
      BY <1>1, <2>2, <3>1, OrphanTranslated
  <2> QED
    BY <1>1, <2>1, <2>2 DEF LogEntry, CallEntry, ResultEntry
<1>5. ASSUME NEW j \in 1 .. k - 1, Pairs(l, j, k)
      PROVE  T[k].out = Append(acc.out, EventOf(l, j, k))
  <2>1. x.kind = "result" /\ l[j].kind = "call" /\ l[j].id = x.id
    BY <1>5 DEF Pairs, x
  <2>2. x.id \in DOMAIN acc.pending /\ acc.pending[x.id] = l[j].call
    BY <1>2, <2>1 DEF Waiting, T, acc
  <2> QED
    BY <1>1, <2>1, <2>2, ResultTranslated DEF EventOf, x
<1> QED
  BY <1>3, <1>4, <1>5 DEF T, acc

\* The durable facts after an event depend on those before it, and on nothing else.
LEMMA SameSnapshot ==
  ASSUME NEW e, NEW f, Snapshot(e) = Snapshot(f), NEW ev
  PROVE  Snapshot(ApplyEvent(e, ev)) = Snapshot(ApplyEvent(f, ev))
<1>1. e.generation = f.generation /\ e.ring = f.ring /\ e.receipts = f.receipts
  BY DEF Snapshot
<1> QED
  BY <1>1 DEF Snapshot, ApplyEvent, GenerationAfter, RingAfter, Pushed, ReceiptsAfter

-----------------------------------------------------------------------------
(* Live and replayed. *)

\* What a replay of the first n entries of a log leaves.
Replay(l, n) == Rebuild(TranslatedTo(l)[n].out)

\* The engine has the facts of a replay of what it reflects of the log, and of
\* the result under way.
ReplayInv ==
  IF phase = "observed"
  THEN Snapshot(engine) = Snapshot(ApplyEvent(Replay(log, Len(log)), observed[1]))
  ELSE Snapshot(engine) = Snapshot(Replay(log, Applied))

\* A step that touches neither the facts nor what they reflect keeps them equal.
LEMMA QuietStep ==
  ASSUME ReplayInv, Snapshot(engine') = Snapshot(engine), log' = log,
         phase = "observed" <=> phase' = "observed", Applied' = Applied, observed' = observed
  PROVE  ReplayInv'
BY DEF ReplayInv, Replay

\* A new engine has the facts of an empty prefix.
LEMMA FreshReplay ==
  ASSUME log' \in Seq(LogEntry), SessionStart("resuming") \/ SessionStart("compacting")
  PROVE  ReplayInv'
<1>1. engine' = NewEngine /\ cursor' = 0 /\ phase' \in {"resuming", "compacting"}
  BY DEF SessionStart
<1>2. TranslatedTo(log')[0].out = <<>>
  BY TranslationEquation DEF NothingTranslated
<1>3. Replay(log', 0) = NewEngine
  BY <1>2, RebuildNothing DEF Replay
<1> QED
  BY <1>1, <1>3 DEF ReplayInv, Applied, Replaying, Replay

\* Every step of plugin and loop keeps live and replayed facts equal.
LEMMA ReplayStep ==
  ASSUME ~DownstreamReplaces, TypeOK, LogIsPaired, log' \in Seq(LogEntry), ReplayInv, [Next]_vars
  PROVE  ReplayInv'
<1>0. log \in Seq(LogEntry) /\ CallsAreUnique(log) /\ cursor \in Nat /\ engine \in Engine
  BY DEF TypeOK, LogIsPaired, CallsAreUnique
<1>1. ASSUME NEW source \in Sources, Message(source)
      PROVE  ReplayInv'
  BY <1>1, QuietStep DEF Message, engineVars, Applied, Replaying
<1>2. ASSUME NEW c \in Calls, CallTool(c)
      PROVE  ReplayInv'
  <2> DEFINE x == [kind |-> "call", id |-> calls, call |-> c]
             n == Len(log)
  <2>1. /\ phase = "model" /\ phase' = "running" /\ log' = Append(log, x) /\ engine' = engine
    BY <1>2 DEF CallTool, engineVars
  <2>2. x \in LogEntry /\ x.kind = "call"
    BY DEF LogEntry, CallEntry, TypeOK
  <2>3. n \in Nat /\ Len(log') = n + 1 /\ TranslatedTo(log)[n] \in Translation
    BY <1>0, <2>1, TranslationEquation
  <2> HIDE DEF x, n
  <2>4. TranslatedTo(log')[n + 1] = Translated(TranslatedTo(log)[n], x)
    BY <1>0, <2>1, <2>2, TranslatedPrefix DEF n
  <2>5. TranslatedTo(log')[n + 1].out = TranslatedTo(log)[n].out
    BY <2>2, <2>3, <2>4, CallTranslated
  <2>6. Replay(log', n + 1) = Replay(log, n)
    BY <2>5 DEF Replay
  <2>7. Applied = n /\ Applied' = n + 1
    BY <2>1, <2>3 DEF Applied, Replaying, n
  <2> QED
    BY <2>1, <2>6, <2>7 DEF ReplayInv, Replay
<1>3. ASSUME NEW ev \in Observations, PostExecute(ev)
      PROVE  ReplayInv'
  <2>1. /\ phase = "running" /\ phase' = "observed" /\ log' = log /\ observed' = <<ev>>
        /\ engine' = ConsumeInlineReminder(ApplyEvent(engine, ev))
    BY <1>3 DEF PostExecute
  <2>2. Snapshot(engine') = Snapshot(ApplyEvent(engine, ev))
    BY <2>1 DEF ConsumeInlineReminder, Snapshot, ApplyEvent
  <2>3. Snapshot(engine) = Snapshot(Replay(log, Len(log)))
    BY <2>1 DEF ReplayInv, Applied, Replaying
  <2>4. Snapshot(engine') = Snapshot(ApplyEvent(Replay(log, Len(log)), ev))
    BY <2>2, <2>3, SameSnapshot
  <2> QED
    BY <2>1, <2>4 DEF ReplayInv, Replay
<1>4. ASSUME NEW ev \in Observations, ToolReturn(ev)
      PROVE  ReplayInv'
  <2> DEFINE n == Len(log)
             x == [kind |-> "result", id |-> log[n].id, content |-> ev.content,
                   isError |-> ev.isError]
             acc == TranslatedTo(log)[n]
  <2>1. /\ phase = "observed" /\ phase' = "boundary" /\ log' = Append(log, x)
        /\ engine' = engine /\ observed[1] = ev
    BY <1>4 DEF ToolReturn, engineVars
  <2>2. ev \in Event /\ ev.content \in Contents /\ ev.isError \in BOOLEAN
        /\ ev = [call |-> ev.call, content |-> ev.content, isError |-> ev.isError]
    BY HostAssumption DEF Event
  <2>3. /\ log # <<>> /\ log[n].kind = "call" /\ ev.call = log[n].call
    BY <2>1 DEF LogIsPaired
  <2>4. n \in Nat /\ n > 0 /\ n \in 1 .. n /\ n \in 0 .. n /\ log[n] \in LogEntry /\ Len(log') = n + 1
    BY <1>0, <2>1, <2>3
  <2>5. x \in LogEntry /\ x.kind = "result"
    BY <2>2, <2>4 DEF LogEntry, CallEntry, ResultEntry
  <2>6. acc \in Translation
    BY <1>0, <2>4, TranslationEquation
  <2>7. x.id \in DOMAIN acc.pending /\ acc.pending[x.id] = ev.call
    <3>1. Waiting(log, n)
      BY <1>0, <2>4, CallsWait
    <3> QED
      BY <2>3, <2>4, <3>1 DEF Waiting
  <2>8. TranslatedTo(log')[n + 1] = Translated(acc, x)
    BY <1>0, <2>1, <2>5, TranslatedPrefix
  <2>9. x.content = ev.content /\ x.isError = ev.isError
    OBVIOUS
  <2> HIDE DEF x, acc, n
  <2>10. TranslatedTo(log')[n + 1].out = Append(acc.out, ev)
    BY <2>2, <2>5, <2>6, <2>7, <2>8, <2>9, ResultTranslated
  <2>11. Replay(log', n + 1) = ApplyEvent(Replay(log, n), ev)
    BY <2>2, <2>6, <2>10, RebuildAppend, TranslationFields DEF Replay, acc
  <2>12. Snapshot(engine) = Snapshot(ApplyEvent(Replay(log, n), ev))
    BY <2>1 DEF ReplayInv, n
  <2>13. Applied' = n + 1
    BY <2>1, <2>4 DEF Applied, Replaying
  <2> QED
    BY <2>1, <2>11, <2>12, <2>13 DEF ReplayInv, Replay
<1>5. CASE PreStep
  <2>1. Snapshot(engine') = Snapshot(engine)
    BY <1>0, <1>5, RoundOperations DEF PreStep
  <2> QED
    BY <1>5, <2>1, QuietStep DEF PreStep, Applied, Replaying
<1>6. ASSUME NEW claims \in Claims, Stop(claims)
      PROVE  ReplayInv'
  <2>1. /\ phase = "model" /\ phase' \in {"idle", "boundary"}
        /\ engine' = EndTurn(engine) \/ engine' = engine
        /\ UNCHANGED <<log, cursor, observed>>
    BY <1>6 DEF Stop, LadderSteer, GuardSteer, Release, ReleaseUnobserved, Settle, Steer, LetStop
  <2>2. Snapshot(engine') = Snapshot(engine)
    BY <1>0, <2>1, RoundOperations
  <2> QED
    BY <2>1, <2>2, QuietStep DEF Applied, Replaying
<1>7. CASE Resume
  BY <1>7, FreshReplay DEF Resume
<1>8. CASE Compact
  BY <1>8, FreshReplay DEF Compact
<1>9. CASE ReplayEntry
  <2> DEFINE k == cursor + 1
             before == TranslatedTo(log)[k - 1].out
             after == TranslatedTo(log)[k].out
  <2>1. Replaying /\ cursor < Len(log) /\ cursor' = k /\ UNCHANGED <<log, phase>>
    BY <1>9 DEF ReplayEntry
  <2>2. k \in 1 .. Len(log) /\ k - 1 = cursor /\ phase # "observed"
    BY <1>0, <2>1 DEF Replaying
  <2>3. /\ before \in Seq(Event)
        /\ ~Paired(log, k) => after = before
        /\ \A j \in 1 .. k - 1 : Pairs(log, j, k) => after = Append(before, EventOf(log, j, k))
    BY <1>0, <2>2, EntryTranslated
  <2>4. Snapshot(engine) = Snapshot(Rebuild(before))
    BY <2>1, <2>2 DEF ReplayInv, Applied, Replay
  <2> SUFFICES Snapshot(engine') = Snapshot(Rebuild(after))
    BY <2>1, <2>2 DEF ReplayInv, Applied, Replaying, Replay
  <2> HIDE DEF before, after
  <2>5. CASE ~Paired(log, k) /\ UNCHANGED engine
    BY <2>3, <2>4, <2>5
  <2>6. ASSUME NEW j \in 1 .. cursor, Pairs(log, j, k), engine' = ApplyEvent(engine, EventOf(log, j, k))
        PROVE  Snapshot(engine') = Snapshot(Rebuild(after))
    <3>1. j \in DOMAIN log /\ k \in DOMAIN log /\ j \in 1 .. k - 1
      BY <1>0, <2>2
    <3>2. EventOf(log, j, k) \in Event
      BY <1>0, <2>6, <3>1, EventOfType
    <3>3. Rebuild(after) = ApplyEvent(Rebuild(before), EventOf(log, j, k))
      BY <2>3, <2>6, <3>1, <3>2, RebuildAppend
    <3> QED
      BY <2>4, <2>6, <3>3, SameSnapshot
  <2> QED
    BY <1>9, <2>1, <2>5, <2>6 DEF ReplayEntry
<1>10. CASE Replayed
  BY <1>10, QuietStep DEF Replayed, Replaying, engineVars, Applied
<1>11. CASE UNCHANGED vars
  BY <1>11, QuietStep DEF vars, Applied, Replaying
<1> QED
  BY <1>1, <1>2, <1>3, <1>4, <1>5, <1>6, <1>7, <1>8, <1>9, <1>10, <1>11
     DEF Next, Loop, Outside

\* Whenever no result is between its observation and the log, the live engine
\* has the generation, fingerprints and receipts that translating and replaying
\* the whole log gives: across rounds, reminders, crashes and compactions a
\* restart changes nothing (index.ts 258-294, 388-403; core index.ts 439-443),
\* if later listeners leave results alone.
THEOREM LiveIsReplay ==
  ASSUME ~DownstreamReplaces
  PROVE  Spec => []LiveEqualsReplay
<1>1. Init => ReplayInv
  <2> SUFFICES ASSUME Init PROVE ReplayInv
    OBVIOUS
  <2>1. log = <<>> /\ engine = NewEngine /\ phase = "idle" /\ Len(log) = 0 /\ log \in Seq(LogEntry)
    BY DEF Init
  <2>2. TranslatedTo(log)[0] = NothingTranslated
    BY <2>1, TranslationEquation
  <2>3. TranslatedTo(log)[0].out = <<>>
    BY <2>2 DEF NothingTranslated
  <2> QED
    BY <2>1, <2>3, RebuildNothing DEF ReplayInv, Applied, Replaying, Replay
<1>2. TypeOK /\ LogIsPaired /\ TypeOK' /\ ReplayInv /\ [Next]_vars => ReplayInv'
  BY ReplayStep DEF TypeOK
<1>3. Spec => [](TypeOK /\ LogIsPaired)
  BY TypeCorrect
<1>4. ReplayInv => LiveEqualsReplay
  <2> SUFFICES ASSUME ReplayInv, phase \in {"idle", "boundary", "model", "running"}
               PROVE  Snapshot(engine) = Snapshot(Rebuild(TranslateSessionEvents(log)))
    BY DEF LiveEqualsReplay
  <2> QED
    BY DEF ReplayInv, Applied, Replaying, Replay, TranslateSessionEvents
<1> QED
  BY <1>1, <1>2, <1>3, <1>4, PTL DEF Spec
=============================================================================
