----------------------------- MODULE Supervisor -----------------------------
(* The benchmark supervisor: it starts an agent for each run of a paired      *)
(* plan, polls the session log the agent writes against three budgets, stops  *)
(* an agent that has exhausted one, retries what failed for reasons of the    *)
(* infrastructure, and has the workspace judged. Agents are processes of their*)
(* own: they work, hang, exit or die between any two steps of the supervisor. *)
(* How long a sleep or a read takes is not modelled: anything may happen      *)
(* meanwhile. Only the current run's agents are in the state, since every run *)
(* has a workspace of its own and every attempt a home of its own.            *)
EXTENDS Naturals, SequencesExt

CONSTANTS
  Tasks,         \* the tasks of the manifests, in their order
  Reps,          \* how many pairs are run of each task
  MaxLLMCalls,   \* budget of model requests
  Fuses,         \* token ceilings a benchmark is started with, 0 for none
  Costs,         \* tokens a model request may take
  MaxRequests    \* bound: requests one agent makes at most

ASSUME BudgetAssumption ==
  /\ Tasks \in Seq(STRING) /\ Reps \in Nat
  /\ MaxLLMCalls \in Nat \ {0} /\ Fuses \subseteq Nat
  /\ Costs \subseteq Nat /\ MaxRequests \in Nat

VARIABLES
  plan,      \* the runs to do, as planRuns laid them out
  fuse,      \* budgets.maxSessionTokens
  phase,     \* where the supervisor is
  children,  \* the agents started for the current run, the latest last
  late,      \* the wall deadline of the current attempt has passed
  verdict,   \* of the latest attempt recorded
  rows       \* the runs that have their row in the report

vars == <<plan, fuse, phase, children, late, verdict, rows>>

Phases == {"stage", "launch", "spawned", "sleeping", "grace", "reaping",
           "recorded", "judging", "done", "aborted"}

-----------------------------------------------------------------------------
(* The plan and the verdicts.                                                 *)

Arms   == {"control", "treatment"}
Orders == {<<"control", "treatment">>, <<"treatment", "control">>}

\* The seed decides the order of each task's arms, the same in each repetition.
ArmOrders == [DOMAIN Tasks -> Orders]

Run(t, rep, arm) == [task |-> Tasks[t], rep |-> rep, arm |-> arm]

\* Task by task, and of each task pair by pair.
Planned == Len(Tasks) * (Reps * 2)

PlanRuns(order) ==
  [k \in 1 .. Planned |->
    LET t   == 1 + ((k - 1) \div (Reps * 2))
        rep == 1 + (((k - 1) % (Reps * 2)) \div 2)
        a   == 1 + ((k - 1) % 2)
    IN  Run(t, rep, order[t][a])]

\* How a process ended: not yet, with an exit code, or by a signal.
Ends  == {"none", "zero", "nonzero", "signal"}
Codes == {"zero", "nonzero"}

Verdict(outcome, reason) == [outcome |-> outcome, reason |-> reason]

\* Mutant of OutcomeOf: an exit code is taken as natural whatever the budgets.
OutcomeOfExit(hit, end) ==
  CASE end \in Codes -> Verdict("completed", "exited")
    [] end \notin Codes /\ hit # "none" -> Verdict("incomplete", hit)
    [] end = "signal" /\ hit = "none" -> Verdict("infra-failure", "signal")
    [] end = "none" /\ hit = "none" -> Verdict("infra-failure", "spawn")

\* An exhausted budget decides before the exit code is looked at.
OutcomeOf(hit, end) ==
  CASE hit # "none" -> Verdict("incomplete", hit)
    [] hit = "none" /\ end \in Codes -> Verdict("completed", "exited")
    [] hit = "none" /\ end = "signal" -> Verdict("infra-failure", "signal")
    [] hit = "none" /\ end = "none" -> Verdict("infra-failure", "spawn")

-----------------------------------------------------------------------------
(* An agent, with the log in its home and what the supervisor has to do with  *)
(* it. hit is the budget for which it was sent SIGTERM.                       *)

NewChild(deaf) ==
  [alive |-> TRUE, deaf |-> deaf, calls |-> 0, tokens |-> 0, torn |-> FALSE,
   end |-> "none", seen |-> FALSE, hit |-> "none", killed |-> FALSE]

Child == [alive : BOOLEAN, deaf : BOOLEAN, calls : 0 .. MaxRequests, tokens : Nat,
          torn : BOOLEAN, end : Ends, seen : BOOLEAN,
          hit : {"none", "calls", "cost", "wall"}, killed : BOOLEAN]

Attempt == Len(children)
Current == children[Attempt]

\* Mutant of Reached: a fuse of 0 is a ceiling as any other.
ReachedWithoutFuse(child) ==
  IF child.calls >= MaxLLMCalls THEN "calls"
  ELSE IF child.tokens >= fuse THEN "cost"
  ELSE IF late THEN "wall" ELSE "none"

\* Mutant of Reached: only work is counted, and no clock is looked at.
ReachedByWork(child) ==
  IF child.calls >= MaxLLMCalls THEN "calls"
  ELSE IF fuse > 0 /\ child.tokens >= fuse THEN "cost" ELSE "none"

\* The budgets in the order in which a poll compares them.
Reached(child) ==
  IF child.calls >= MaxLLMCalls THEN "calls"
  ELSE IF fuse > 0 /\ child.tokens >= fuse THEN "cost"
  ELSE IF late THEN "wall" ELSE "none"

Init ==
  /\ \E order \in ArmOrders : plan = PlanRuns(order)
  /\ fuse \in Fuses
  /\ phase = "stage" /\ children = <<>> /\ late = FALSE
  /\ verdict = Verdict("none", "none") /\ rows = <<>>

-----------------------------------------------------------------------------
(* The supervisor.                                                            *)

\* The next run's workspace is copied; a copy that fails ends the benchmark.
Stage ==
  /\ phase = "stage" /\ Len(rows) < Len(plan)
  /\ phase' \in {"launch", "aborted"}
  /\ UNCHANGED <<plan, fuse, children, late, verdict, rows>>

\* The plan is done, and the paired report is written, unless the disk refuses it.
Report ==
  /\ phase = "stage" /\ Len(rows) = Len(plan)
  /\ phase' \in {"done", "aborted"}
  /\ UNCHANGED <<plan, fuse, children, late, verdict, rows>>

\* The agent starts in a home of its own. It may be one that ignores SIGTERM.
Launch ==
  /\ phase = "launch"
  /\ \E deaf \in BOOLEAN : children' = Append(children, NewChild(deaf))
  /\ late' = FALSE /\ phase' = "spawned"
  /\ UNCHANGED <<plan, fuse, verdict, rows>>

\* The home cannot be copied, or the agent not be spawned: the error event of
\* the child has no listener.
LaunchFails ==
  /\ phase = "launch"
  /\ phase' = "aborted"
  /\ UNCHANGED <<plan, fuse, children, late, verdict, rows>>

\* An attempt is recorded, or the record cannot be written: nothing catches that.
Conclude(v) ==
  /\ \/ verdict' = v /\ phase' = "recorded"
     \/ phase' = "aborted" /\ UNCHANGED verdict
  /\ UNCHANGED <<plan, fuse, children, late, rows>>

\* A poll finds that the agent's exit has been reported.
PollEnded ==
  /\ phase = "sleeping" /\ Current.seen
  /\ Conclude(OutcomeOf("none", Current.end))

Polls == phase \in {"spawned", "sleeping"} /\ ~Current.seen

\* A poll cannot read the log. The error is recorded, and the agent left alone.
PollFails ==
  /\ Polls /\ Current.torn
  /\ Conclude(Verdict("infra-failure", "supervisor_error"))

\* A poll finds every budget kept.
PollOn ==
  /\ Polls /\ ~Current.torn /\ Reached(Current) = "none"
  /\ phase' = "sleeping"
  /\ UNCHANGED <<plan, fuse, children, late, verdict, rows>>

\* A poll finds a budget exhausted and sends SIGTERM.
PollStops ==
  /\ Polls /\ ~Current.torn /\ Reached(Current) # "none"
  /\ children' = [children EXCEPT ![Attempt].hit = Reached(Current)]
  /\ phase' = "grace"
  /\ UNCHANGED <<plan, fuse, late, verdict, rows>>

\* Mutant of GraceOver: the verdict does not wait for the agent.
GraceGivesUp ==
  /\ phase = "grace" /\ ~Current.seen
  /\ Conclude(OutcomeOf(Current.hit, Current.end))

\* The grace is over, and the agent is sent SIGKILL.
GraceOver ==
  /\ phase = "grace" /\ ~Current.seen
  /\ children' = [children EXCEPT ![Attempt].killed = TRUE]
  /\ phase' = "reaping"
  /\ UNCHANGED <<plan, fuse, late, verdict, rows>>

\* The agent that was stopped has ended.
Reap ==
  /\ phase \in {"grace", "reaping"} /\ Current.seen
  /\ Conclude(OutcomeOf(Current.hit, Current.end))

\* Mutant of Retried: a failure of the infrastructure is always retried.
RetriedAlways == verdict.outcome = "infra-failure"

\* Mutant of Retried: an agent that failed is given another try as well.
RetriedIfNonzero ==
  Attempt = 1 /\ (verdict.outcome = "infra-failure" \/ Current.end = "nonzero")

Retried == Attempt = 1 /\ verdict.outcome = "infra-failure"

\* The run is tried once more, in the same workspace.
Retry ==
  /\ phase = "recorded" /\ Retried
  /\ phase' = "launch"
  /\ UNCHANGED <<plan, fuse, children, late, verdict, rows>>

\* Metrics and claim are read from the log of the last attempt; a log that
\* cannot be read ends the benchmark.
Fold ==
  /\ phase = "recorded" /\ ~Retried
  /\ phase' = IF Current.torn THEN "aborted" ELSE "judging"
  /\ UNCHANGED <<plan, fuse, children, late, verdict, rows>>

\* The acceptance command has run in the workspace, and the row is written:
\* whatever the judgment, it changes nothing of what follows.
Judge ==
  /\ phase = "judging"
  /\ rows' = Append(rows, plan[Len(rows) + 1])
  /\ phase' = "stage" /\ children' = <<>> /\ late' = FALSE
  /\ verdict' = Verdict("none", "none")
  /\ UNCHANGED <<plan, fuse>>

\* The exit of the agent that is waited for is reported, while the supervisor
\* awaits something.
ExitSeen ==
  /\ phase \in {"sleeping", "grace", "reaping"}
  /\ ~Current.alive /\ ~Current.seen
  /\ children' = [children EXCEPT ![Attempt].seen = TRUE]
  /\ UNCHANGED <<plan, fuse, phase, late, verdict, rows>>

-----------------------------------------------------------------------------
(* Agents, the operating system and the clock.                                *)

Becomes(i, child) ==
  /\ children' = [children EXCEPT ![i] = child]
  /\ UNCHANGED <<plan, fuse, phase, late, verdict, rows>>

\* A model request, its answer in the log.
Work(i) ==
  /\ children[i].alive /\ ~children[i].torn /\ children[i].calls < MaxRequests
  /\ \E cost \in Costs : Becomes(i, [children[i] EXCEPT !.calls = @ + 1, !.tokens = @ + cost])

\* The log is being written, and no frame of it can be read to its end.
Write(i) ==
  children[i].alive /\ Becomes(i, [children[i] EXCEPT !.torn = ~@])

Ended(child, end) == [child EXCEPT !.alive = FALSE, !.end = end]

\* The agent exits by itself or on SIGTERM, or something else ends it.
Exit(i) ==
  children[i].alive /\ \E end \in Codes \cup {"signal"} : Becomes(i, Ended(children[i], end))

\* An agent that was sent SIGKILL, or SIGTERM without ignoring it, ends.
Die(i) ==
  /\ children[i].alive
  /\ \/ children[i].killed
     \/ children[i].hit # "none" /\ ~children[i].deaf
  /\ \E end \in IF children[i].killed THEN {"signal"} ELSE {"zero", "signal"} :
       Becomes(i, Ended(children[i], end))

\* The wall deadline passes while the agent runs.
WallPasses ==
  /\ phase \in {"spawned", "sleeping"} /\ Current.alive /\ ~late
  /\ late' = TRUE
  /\ UNCHANGED <<plan, fuse, phase, children, verdict, rows>>

Supervise == \/ Stage \/ Report \/ Launch \/ LaunchFails
             \/ PollEnded \/ PollFails \/ PollOn \/ PollStops
             \/ GraceOver \/ Reap \/ Retry \/ Fold \/ Judge

Agent == \E i \in DOMAIN children : Work(i) \/ Write(i) \/ Exit(i)

System == ExitSeen \/ \E i \in DOMAIN children : Die(i)

Next == Supervise \/ System \/ Agent \/ WallPasses

Spec == Init /\ [][Next]_vars

\* Timers fire and continuations run, signals are delivered and exits reported,
\* and time passes. An agent need not do anything.
FairSpec == Spec /\ WF_vars(Supervise) /\ WF_vars(System) /\ WF_vars(WallPasses)

-----------------------------------------------------------------------------
(* Properties.                                                                *)

TypeOK ==
  /\ plan \in Seq([task : STRING, rep : 1 .. Reps, arm : Arms]) /\ fuse \in Fuses
  /\ phase \in Phases /\ late \in BOOLEAN
  /\ children \in Seq(Child) /\ Attempt <= 2
  /\ phase \in {"spawned", "sleeping", "grace", "reaping", "recorded", "judging"} => Attempt > 0
  /\ rows \in Seq(Range(plan)) /\ Len(rows) <= Len(plan)

Recorded == phase \in {"recorded", "judging"}

\* An agent is sent SIGTERM only when it has exhausted a budget, and a run that
\* was stopped is never tried again (supervisor.mjs 315-331, 408).
OnlyBudgetsStop ==
  \A i \in DOMAIN children : children[i].hit # "none" =>
    /\ i = Attempt
    /\ \/ children[i].calls >= MaxLLMCalls
       \/ fuse > 0 /\ children[i].tokens >= fuse
       \/ late

\* A verdict is incomplete exactly when the supervisor stopped the agent,
\* whatever code or signal it then ended with (supervisor.mjs 127-134).
StopsAreIncomplete ==
  Recorded => (verdict.outcome = "incomplete" <=> Current.hit # "none")

\* But for an error of the supervisor's own, a run is recorded, retried and
\* judged only when its agent has ended (supervisor.mjs 329-340).
RecordedHasEnded ==
  Recorded /\ Current.alive => verdict.reason = "supervisor_error"

\* A run that is tried again had no result: it was not stopped, and the
\* supervisor has seen no exit code of it (supervisor.mjs 131, 408).
ResultsAreFinal ==
  Attempt = 2 => children[1].hit = "none" /\ (children[1].seen => children[1].end = "signal")

\* The benchmark ends, whatever the agents do: a hanging agent meets the wall,
\* one that ignores SIGTERM is killed (supervisor.mjs 323-337).
BenchmarkEnds == <>(phase \in {"done", "aborted"})

\* What the module doc says: an exhausted budget is incomplete before any exit
\* code (supervisor.mjs 10-11). Not so when the agent exits before the next poll.
ExhaustionIsIncomplete ==
  Recorded /\ Reached(Current) # "none" => verdict.outcome # "completed"

\* What the module doc says: the wall fence and SIGKILL end every run (supervisor.mjs 9).
\* Not so when a poll fails (supervisor.mjs 341-343).
RecordedIsFenced == Recorded => ~Current.alive
=============================================================================
