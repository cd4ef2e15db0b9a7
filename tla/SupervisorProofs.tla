-------------------------- MODULE SupervisorProofs --------------------------
(***************************************************************************)
(* The safety of the supervisor, for every plan, budget, fuse and number   *)
(* of requests.                                                            *)
(*                                                                         *)
(* The argument.  What the supervisor knows of an agent (seen, hit) is     *)
(* behind what the agent is (alive, end), and the two can disagree only    *)
(* one way: an agent seen to have ended is dead, and stays as it was.  So  *)
(* the invariant is one fact for each phase, about the agent it waits for, *)
(* and one about the attempt that was given up: it was not stopped, and no *)
(* exit code of it was seen.  A step of an agent keeps all of them because *)
(* it changes neither seen nor hit, and only of an agent that is alive.    *)
(***************************************************************************)
EXTENDS Supervisor, TLAPS

\* An agent that runs has not ended, and one is seen to end only after it did.
Coherent(child) ==
  /\ child.alive <=> child.end = "none"
  /\ child.seen => ~child.alive

\* What an attempt must be like for another to be made.
Lost(child) == child.hit = "none" /\ (child.seen => child.end = "signal")

ChildrenAreCoherent == \A i \in DOMAIN children : Coherent(children[i])

\* What each phase knows of the current agent.
PhaseInv ==
  /\ phase \in {"stage", "done"} => Attempt = 0
  /\ phase \in {"spawned", "sleeping"} => Current.hit = "none"
  /\ phase = "spawned" => ~Current.seen
  /\ phase \in {"grace", "reaping"} => Current.hit # "none"
  /\ phase = "launch" => Attempt <= 1 /\ (Attempt = 1 => Lost(Current))

\* A verdict that asks for another try is of an agent that is lost.
VerdictInv == Recorded /\ verdict.outcome = "infra-failure" => Lost(Current)

\* The attempt that was given up.
FirstInv == Attempt = 2 => Lost(children[1])

\* A run under way has no row yet.
RowsInv == phase \notin {"stage", "done", "aborted"} => Len(rows) < Len(plan)

IInv ==
  /\ TypeOK /\ ChildrenAreCoherent /\ PhaseInv /\ VerdictInv /\ FirstInv /\ RowsInv
  /\ OnlyBudgetsStop /\ StopsAreIncomplete /\ RecordedHasEnded

-----------------------------------------------------------------------------
\* Putting an agent in the place of another.
LEMMA Replaced ==
  ASSUME children \in Seq(Child), NEW i \in DOMAIN children, NEW c \in Child,
         children' = [children EXCEPT ![i] = c]
  PROVE  /\ children' \in Seq(Child) /\ Attempt' = Attempt
         /\ DOMAIN children' = DOMAIN children
         /\ children'[i] = c /\ \A j \in DOMAIN children : j # i => children'[j] = children[j]
  BY DEF Attempt

\* A step of an agent that runs: it stays in its type, its log only grows, and
\* the supervisor knows no more of it than before.
LEMMA AgentStep ==
  ASSUME IInv, NEW i \in DOMAIN children, children[i].alive, NEW c \in Child, Becomes(i, c),
         c.seen = children[i].seen, c.hit = children[i].hit, Coherent(c),
         c.calls >= children[i].calls, c.tokens >= children[i].tokens
  PROVE  IInv'
<1>1. children \in Seq(Child) /\ Attempt \in Nat /\ DOMAIN children = 1 .. Attempt
      /\ children[i] \in Child
  BY DEF IInv, TypeOK, Attempt
<1>2. /\ children' \in Seq(Child) /\ Attempt' = Attempt /\ DOMAIN children' = DOMAIN children
      /\ children'[i] = c /\ \A j \in DOMAIN children : j # i => children'[j] = children[j]
  BY <1>1, Replaced DEF Becomes
<1>3. UNCHANGED <<plan, fuse, phase, late, verdict, rows>>
  BY DEF Becomes
<1>4. TypeOK'
  BY <1>2, <1>3 DEF IInv, TypeOK, Attempt
<1>5. ~children[i].seen
  BY <1>1 DEF IInv, ChildrenAreCoherent, Coherent
<1>6. ChildrenAreCoherent'
  BY <1>2 DEF IInv, ChildrenAreCoherent
<1>7. \A j \in DOMAIN children : /\ children'[j].hit = children[j].hit
                                 /\ children'[j].seen = children[j].seen
                                 /\ Lost(children[j]) => Lost(children'[j])
  BY <1>2, <1>5 DEF Lost
<1>8. Attempt > 0 => /\ Attempt \in DOMAIN children /\ 1 \in DOMAIN children
                     /\ Current' = children'[Attempt]
  BY <1>1, <1>2 DEF Current
<1>9. PhaseInv'
  <2>1. phase \in {"spawned", "sleeping", "grace", "reaping"} => Attempt > 0
    BY DEF IInv, TypeOK
  <2> QED
    BY <1>1, <1>2, <1>3, <1>7, <1>8, <2>1 DEF IInv, PhaseInv, Current
<1>10. Recorded => Attempt > 0
  BY DEF IInv, TypeOK, Recorded
<1>11. VerdictInv' /\ StopsAreIncomplete'
  BY <1>3, <1>7, <1>8, <1>10 DEF IInv, VerdictInv, StopsAreIncomplete, Recorded, Current
<1>12. FirstInv'
  BY <1>2, <1>7, <1>8 DEF IInv, FirstInv
<1>13. RowsInv'
  BY <1>3 DEF IInv, RowsInv
<1>14. OnlyBudgetsStop'
  <2>1. \A j \in DOMAIN children :
          /\ children'[j].calls >= children[j].calls /\ children'[j].tokens >= children[j].tokens
          /\ {children'[j].calls, children'[j].tokens, children[j].calls, children[j].tokens} \subseteq Nat
    <3>1. \A d \in Child : d.calls \in Nat /\ d.tokens \in Nat
      BY BudgetAssumption DEF Child
    <3>2. \A j \in DOMAIN children : children[j] \in Child /\ children'[j] \in Child
      BY <1>1, <1>2
    <3> QED
      BY <1>2, <3>1, <3>2
  <2>2. fuse \in Nat /\ MaxLLMCalls \in Nat
    BY BudgetAssumption DEF IInv, TypeOK
  <2>3. SUFFICES ASSUME NEW j \in DOMAIN children, children[j].hit # "none"
                 PROVE  /\ j = Attempt
                        /\ \/ children'[j].calls >= MaxLLMCalls
                           \/ fuse > 0 /\ children'[j].tokens >= fuse
                           \/ late
    BY <1>2, <1>3, <1>7 DEF OnlyBudgetsStop
  <2>4. /\ j = Attempt
        /\ \/ children[j].calls >= MaxLLMCalls
           \/ fuse > 0 /\ children[j].tokens >= fuse
           \/ late
    BY <2>3 DEF IInv, OnlyBudgetsStop
  <2> QED
    BY <2>1, <2>2, <2>4
<1>15. RecordedHasEnded'
  <2>1. Current'.alive => Current.alive \/ Attempt = 0
    BY <1>2, <1>8, <1>1 DEF Current
  <2> QED
    BY <1>3, <2>1, <1>10 DEF IInv, RecordedHasEnded, Recorded
<1> QED
  BY <1>4, <1>6, <1>9, <1>11, <1>12, <1>13, <1>14, <1>15 DEF IInv

\* The wall deadline only adds to what has been exhausted.
LEMMA WallStep == ASSUME IInv, WallPasses PROVE IInv'
<1>1. UNCHANGED <<plan, fuse, phase, children, verdict, rows>> /\ late' = TRUE
  BY DEF WallPasses
<1>2. OnlyBudgetsStop'
  BY <1>1 DEF IInv, OnlyBudgetsStop, Attempt
<1> QED
  BY <1>1, <1>2
     DEF IInv, TypeOK, ChildrenAreCoherent, PhaseInv, VerdictInv, FirstInv, RowsInv,
         StopsAreIncomplete, RecordedHasEnded, Recorded, Current, Attempt

-----------------------------------------------------------------------------
(* The supervisor's steps.                                                 *)

\* Steps that move the phase alone.
LEMMA PhaseStep ==
  ASSUME IInv, UNCHANGED <<plan, fuse, children, late, verdict, rows>>,
         Stage \/ Report \/ LaunchFails \/ PollOn \/ Retry \/ Fold
  PROVE  IInv'
<1> USE DEF Current, Attempt
<1>1. children \in Seq(Child) /\ Len(children) \in Nat
  BY DEF IInv, TypeOK
<1>2. OnlyBudgetsStop' /\ ChildrenAreCoherent' /\ FirstInv'
  BY DEF IInv, OnlyBudgetsStop, ChildrenAreCoherent, FirstInv
<1>3. TypeOK'
  BY <1>1 DEF IInv, TypeOK, PhaseInv, Stage, Report, LaunchFails, PollOn, Polls, Retry, Fold, Phases, Retried
<1>4. PhaseInv'
  BY <1>1 DEF IInv, PhaseInv, VerdictInv, Recorded, Stage, Report, LaunchFails, PollOn, Polls, Retry, Fold, Retried
<1>5. VerdictInv' /\ StopsAreIncomplete' /\ RecordedHasEnded'
  BY DEF IInv, VerdictInv, StopsAreIncomplete, RecordedHasEnded, Recorded, Stage, Report, LaunchFails, PollOn, Retry, Fold
<1>6. RowsInv'
  BY DEF IInv, RowsInv, Stage, Report, LaunchFails, PollOn, Polls, Retry, Fold
<1> QED
  BY <1>2, <1>3, <1>4, <1>5, <1>6 DEF IInv

\* A record that cannot be written changes the phase only.
LEMMA UnrecordedStep ==
  ASSUME IInv, UNCHANGED <<plan, fuse, children, late, verdict, rows>>, phase' = "aborted"
  PROVE  IInv'
<1>1. TypeOK' /\ ChildrenAreCoherent' /\ FirstInv' /\ OnlyBudgetsStop'
  BY DEF IInv, TypeOK, Phases, ChildrenAreCoherent, FirstInv, OnlyBudgetsStop, Attempt
<1>2. PhaseInv' /\ VerdictInv' /\ StopsAreIncomplete' /\ RecordedHasEnded' /\ RowsInv'
  BY DEF IInv, PhaseInv, VerdictInv, StopsAreIncomplete, RecordedHasEnded, RowsInv, Recorded
<1> QED
  BY <1>1, <1>2 DEF IInv

\* A verdict is recorded: outcomeOf tells a stop from an exit, and an exit from
\* a loss.
LEMMA ConcludeStep ==
  ASSUME IInv, PollEnded \/ PollFails \/ Reap
  PROVE  IInv'
<1> USE DEF Current, Attempt
<1>1. children \in Seq(Child) /\ Len(children) \in Nat \ {0} /\ Current \in Child
      /\ Coherent(Current)
  BY DEF IInv, TypeOK, ChildrenAreCoherent, PollEnded, PollFails, Polls, Reap
<1>2. CASE UNCHANGED <<plan, fuse, children, late, verdict, rows>> /\ phase' = "aborted"
  BY <1>2, UnrecordedStep
<1>3. SUFFICES ASSUME ~(UNCHANGED <<plan, fuse, children, late, verdict, rows>>
                        /\ phase' = "aborted")
               PROVE  IInv'
  BY <1>2
<1>4. UNCHANGED <<plan, fuse, children, late, rows>> /\ phase' = "recorded"
      /\ phase \in {"spawned", "sleeping", "grace", "reaping"}
  BY <1>3 DEF PollEnded, PollFails, Polls, Reap, Conclude
<1>5. /\ verdict'.outcome = "incomplete" <=> Current.hit # "none"
      /\ Current.alive => verdict'.reason = "supervisor_error"
      /\ verdict'.outcome = "infra-failure" => Lost(Current)
  <2>1. CASE PollEnded
    <3>1. Current.hit = "none" /\ Current.seen /\ Current.end \in {"zero", "nonzero", "signal"}
      BY <1>1, <2>1 DEF PollEnded, IInv, PhaseInv, Coherent, Child, Ends
    <3>2. verdict' = OutcomeOf("none", Current.end)
      BY <1>4, <2>1 DEF PollEnded, Conclude
    <3>3. verdict' = IF Current.end = "signal" THEN Verdict("infra-failure", "signal")
                                               ELSE Verdict("completed", "exited")
      BY <3>1, <3>2 DEF OutcomeOf, Codes
    <3> QED
      BY <3>1, <3>3, <1>1 DEF Verdict, Lost, Coherent
  <2>2. CASE PollFails
    <3>1. Current.hit = "none" /\ ~Current.seen
      BY <2>2 DEF PollFails, Polls, IInv, PhaseInv
    <3> QED
      BY <1>4, <3>1, <2>2 DEF PollFails, Conclude, Verdict, Lost
  <2>3. CASE Reap
    <3>1. Current.hit # "none" /\ ~Current.alive
      BY <1>1, <2>3 DEF Reap, IInv, PhaseInv, Coherent
    <3>2. verdict' = Verdict("incomplete", Current.hit)
      BY <1>4, <2>3, <3>1 DEF Reap, Conclude, OutcomeOf
    <3> QED
      BY <3>1, <3>2 DEF Verdict
  <2> QED
    BY <2>1, <2>2, <2>3
<1>6. TypeOK' /\ ChildrenAreCoherent' /\ PhaseInv' /\ FirstInv' /\ OnlyBudgetsStop'
  BY <1>1, <1>4 DEF IInv, TypeOK, Phases, ChildrenAreCoherent, PhaseInv, FirstInv, OnlyBudgetsStop
<1>7. VerdictInv' /\ StopsAreIncomplete' /\ RecordedHasEnded'
  BY <1>4, <1>5 DEF VerdictInv, StopsAreIncomplete, RecordedHasEnded
<1>8. RowsInv'
  BY <1>4 DEF IInv, RowsInv
<1> QED
  BY <1>6, <1>7, <1>8 DEF IInv

\* Another agent starts, the deadline ahead of it.
LEMMA LaunchStep == ASSUME IInv, Launch PROVE IInv'
<1>1. PICK deaf \in BOOLEAN : children' = Append(children, NewChild(deaf))
  BY DEF Launch
<1>2. NewChild(deaf) \in Child /\ Coherent(NewChild(deaf))
      /\ NewChild(deaf).hit = "none" /\ ~NewChild(deaf).seen
  BY BudgetAssumption DEF NewChild, Child, Ends, Coherent
<1>3. UNCHANGED <<plan, fuse, verdict, rows>> /\ phase = "launch" /\ phase' = "spawned" /\ late' = FALSE
  BY DEF Launch
<1>4. children \in Seq(Child) /\ Attempt \in {0, 1} /\ (Attempt = 1 => Lost(children[1]))
  <2>1. children \in Seq(Child) /\ Attempt \in Nat
    BY DEF IInv, TypeOK, Attempt
  <2> QED
    BY <1>3, <2>1 DEF IInv, PhaseInv, Current
<1>5. /\ children' \in Seq(Child) /\ Attempt' = Attempt + 1
      /\ DOMAIN children' = 1 .. (Attempt + 1)
      /\ children'[Attempt + 1] = NewChild(deaf)
      /\ \A i \in 1 .. Attempt : children'[i] = children[i]
  BY <1>1, <1>2, <1>4 DEF Attempt
<1>6. TypeOK'
  <2>1. Attempt' <= 2 /\ Attempt' > 0
    BY <1>4, <1>5
  <2> QED
    BY <1>3, <1>5, <2>1 DEF IInv, TypeOK, Phases
<1>7. ChildrenAreCoherent'
  BY <1>2, <1>4, <1>5 DEF IInv, ChildrenAreCoherent, Attempt
<1>8. PhaseInv'
  BY <1>2, <1>3, <1>4, <1>5 DEF PhaseInv, Current
<1>9. VerdictInv' /\ StopsAreIncomplete' /\ RecordedHasEnded' /\ RowsInv'
  BY <1>3 DEF IInv, VerdictInv, StopsAreIncomplete, RecordedHasEnded, Recorded, RowsInv
<1>10. FirstInv'
  BY <1>4, <1>5 DEF FirstInv
<1>11. OnlyBudgetsStop'
  BY <1>2, <1>4, <1>5 DEF OnlyBudgetsStop, Lost
<1> QED
  BY <1>6, <1>7, <1>8, <1>9, <1>10, <1>11 DEF IInv

\* The row is written, and the next run has no agent.
LEMMA JudgeStep == ASSUME IInv, Judge PROVE IInv'
<1>1. phase = "judging" /\ phase' = "stage" /\ children' = <<>> /\ late' = FALSE
      /\ UNCHANGED <<plan, fuse>> /\ rows' = Append(rows, plan[Len(rows) + 1])
  BY DEF Judge
<1>2. Len(rows) < Len(plan)
  BY <1>1 DEF IInv, RowsInv
<1>3. \A S : plan \in Seq(S) => Len(plan) \in Nat /\ DOMAIN plan = 1 .. Len(plan)
  OBVIOUS
<1>4. Len(plan) \in Nat /\ DOMAIN plan = 1 .. Len(plan)
  BY <1>3 DEF IInv, TypeOK
<1>5. rows \in Seq(Range(plan)) /\ Len(rows) \in Nat
  BY DEF IInv, TypeOK
<1>6. plan[Len(rows) + 1] \in Range(plan)
  BY <1>2, <1>4, <1>5 DEF Range
<1>7. rows' \in Seq(Range(plan)) /\ Len(rows') <= Len(plan)
  BY <1>1, <1>2, <1>4, <1>5, <1>6
<1>8. <<>> \in Seq(Child) /\ Len(<<>>) = 0 /\ DOMAIN <<>> = {}
  OBVIOUS
<1>9. TypeOK'
  <2>1. Attempt' = 0 /\ children' \in Seq(Child)
    BY <1>1, <1>8 DEF Attempt
  <2>2. rows' \in Seq(Range(plan)') /\ Len(rows') <= Len(plan')
    BY <1>1, <1>7
  <2>3. phase' = "stage" /\ late' = FALSE /\ plan' = plan /\ fuse' = fuse
    BY <1>1
  <2>4. plan' \in Seq([task : STRING, rep : 1..Reps, arm : Arms]) /\ fuse' \in Fuses
    BY <2>3 DEF IInv, TypeOK
  <2>5. phase' \in Phases /\ late' \in BOOLEAN
    BY <2>3 DEF Phases
  <2>6. phase' \notin {"spawned", "sleeping", "grace", "reaping", "recorded", "judging"}
    BY <2>3
  <2>7. Attempt' <= 2
    BY <2>1
  <2> QED
    BY <2>1, <2>2, <2>4, <2>5, <2>6, <2>7 DEF TypeOK
<1> QED
  BY <1>1, <1>8, <1>9
     DEF IInv, ChildrenAreCoherent, PhaseInv, VerdictInv, FirstInv, RowsInv, OnlyBudgetsStop,
         StopsAreIncomplete, RecordedHasEnded, Recorded, Attempt

\* A step of the supervisor that concerns the agent it waits for.
LEMMA WaitStep ==
  ASSUME IInv, Polls \/ phase \in {"sleeping", "grace", "reaping"}, NEW c \in Child,
         children' = [children EXCEPT ![Attempt] = c],
         UNCHANGED <<plan, fuse, late, verdict, rows>>,
         phase' \in {"sleeping", "grace", "reaping"}, Coherent(c),
         c.hit = "none" <=> phase' = "sleeping",
         c.hit # "none" => \/ c.calls >= MaxLLMCalls
                           \/ fuse > 0 /\ c.tokens >= fuse
                           \/ late
  PROVE  IInv'
<1>1. children \in Seq(Child) /\ Attempt \in {1, 2} /\ Attempt \in DOMAIN children
      /\ DOMAIN children = 1 .. Attempt
  <2>1. children \in Seq(Child) /\ Attempt > 0 /\ Attempt <= 2
    BY DEF IInv, TypeOK, Polls
  <2>2. Len(children) \in Nat /\ DOMAIN children = 1 .. Len(children)
    BY <2>1
  <2> QED
    BY <2>1, <2>2 DEF Attempt
<1>2. /\ children' \in Seq(Child) /\ Attempt' = Attempt /\ DOMAIN children' = DOMAIN children
      /\ children'[Attempt] = c
      /\ \A j \in DOMAIN children : j # Attempt => children'[j] = children[j]
  BY <1>1, Replaced
<1>3. Len(rows) < Len(plan)
  BY DEF IInv, RowsInv, Polls
<1>4. TypeOK'
  <2>1. Attempt' <= 2 /\ Attempt' > 0
    BY <1>1, <1>2
  <2> QED
    BY <1>2, <2>1 DEF IInv, TypeOK, Phases
<1>5. ChildrenAreCoherent'
  BY <1>2 DEF IInv, ChildrenAreCoherent
<1>6. PhaseInv' /\ VerdictInv' /\ StopsAreIncomplete' /\ RecordedHasEnded'
  BY <1>2 DEF PhaseInv, VerdictInv, StopsAreIncomplete, RecordedHasEnded, Recorded, Current
<1>7. FirstInv' /\ RowsInv'
  BY <1>1, <1>2, <1>3 DEF IInv, FirstInv, RowsInv
<1>8. OnlyBudgetsStop'
  BY <1>2 DEF IInv, OnlyBudgetsStop
<1> QED
  BY <1>4, <1>5, <1>6, <1>7, <1>8 DEF IInv

\* The three such steps: SIGTERM with its budget, SIGKILL, and an exit reported.
LEMMA WaitSteps == ASSUME IInv, PollStops \/ GraceOver \/ ExitSeen PROVE IInv'
<1>1. Polls \/ phase \in {"sleeping", "grace", "reaping"}
  BY DEF PollStops, GraceOver, ExitSeen
<1>2. Current \in Child /\ Coherent(Current) /\ Attempt \in DOMAIN children
  <2>1. children \in Seq(Child) /\ Len(children) > 0
    BY <1>1 DEF IInv, TypeOK, Attempt, Polls
  <2>2. Attempt \in DOMAIN children
    BY <2>1 DEF Attempt
  <2> QED
    BY <2>1, <2>2 DEF IInv, ChildrenAreCoherent, Current
<1>3. Current.hit # "none" => \/ Current.calls >= MaxLLMCalls
                              \/ fuse > 0 /\ Current.tokens >= fuse
                              \/ late
  BY <1>2 DEF IInv, OnlyBudgetsStop, Current
<1>4. CASE PollStops
  <2> DEFINE c == [Current EXCEPT !.hit = Reached(Current)]
  <2>1. Reached(Current) \in {"calls", "cost", "wall"}
        /\ \/ Current.calls >= MaxLLMCalls
           \/ fuse > 0 /\ Current.tokens >= fuse
           \/ late
    BY <1>4 DEF PollStops, Reached
  <2>2. c \in Child /\ Coherent(c) /\ c.hit # "none"
        /\ c.calls = Current.calls /\ c.tokens = Current.tokens
    BY <1>2, <2>1 DEF Child, Coherent
  <2>3. children' = [children EXCEPT ![Attempt] = c]
        /\ phase' = "grace" /\ UNCHANGED <<plan, fuse, late, verdict, rows>>
    BY <1>4 DEF PollStops, Current
  <2> HIDE DEF c
  <2> QED
    BY <1>1, <2>1, <2>2, <2>3, WaitStep
<1>5. CASE GraceOver
  <2> DEFINE c == [Current EXCEPT !.killed = TRUE]
  <2>1. c \in Child /\ Coherent(c) /\ c.hit = Current.hit
        /\ c.calls = Current.calls /\ c.tokens = Current.tokens
    BY <1>2 DEF Child, Coherent
  <2>2. children' = [children EXCEPT ![Attempt] = c]
        /\ phase' = "reaping" /\ UNCHANGED <<plan, fuse, late, verdict, rows>>
    BY <1>5 DEF GraceOver, Current
  <2>3. Current.hit # "none"
    BY <1>5 DEF GraceOver, IInv, PhaseInv
  <2> HIDE DEF c
  <2> QED
    BY <1>1, <1>3, <2>1, <2>2, <2>3, WaitStep
<1>6. CASE ExitSeen
  <2> DEFINE c == [Current EXCEPT !.seen = TRUE]
  <2>1. c \in Child /\ Coherent(c) /\ c.hit = Current.hit
        /\ c.calls = Current.calls /\ c.tokens = Current.tokens
    BY <1>2, <1>6 DEF ExitSeen, Child, Coherent
  <2>2. children' = [children EXCEPT ![Attempt] = c]
        /\ phase' = phase /\ UNCHANGED <<plan, fuse, late, verdict, rows>>
    BY <1>6 DEF ExitSeen, Current
  <2>3. phase \in {"sleeping", "grace", "reaping"} /\ (Current.hit = "none" <=> phase = "sleeping")
    BY <1>6 DEF ExitSeen, IInv, PhaseInv
  <2> HIDE DEF c
  <2> QED
    BY <1>1, <1>3, <2>1, <2>2, <2>3, WaitStep
<1> QED
  BY <1>4, <1>5, <1>6

-----------------------------------------------------------------------------
(* The agents' steps.                                                      *)

\* A request, a write, an exit and a death are steps of an agent that runs.
LEMMA AgentSteps ==
  ASSUME IInv, NEW i \in DOMAIN children, Work(i) \/ Write(i) \/ Exit(i) \/ Die(i)
  PROVE  IInv'
<1>1. children[i] \in Child /\ children[i].alive /\ Coherent(children[i])
      /\ ~children[i].seen
  <2>1. children[i].alive
    BY DEF Work, Write, Exit, Die
  <2>2. children \in Seq(Child)
    BY DEF IInv, TypeOK
  <2> QED
    BY <2>1, <2>2 DEF IInv, ChildrenAreCoherent, Coherent
<1>2. children[i].calls \in Nat /\ children[i].tokens \in Nat
  BY <1>1, BudgetAssumption DEF Child
<1>3. CASE Work(i)
  <2>1. PICK cost \in Costs :
          Becomes(i, [children[i] EXCEPT !.calls = @ + 1, !.tokens = @ + cost])
    BY <1>3 DEF Work
  <2> DEFINE c == [children[i] EXCEPT !.calls = @ + 1, !.tokens = @ + cost]
  <2>2. cost \in Nat /\ children[i].calls + 1 \in 0 .. MaxRequests
    <3>1. children[i].calls < MaxRequests
      BY <1>3 DEF Work
    <3> QED
      BY <1>2, <3>1, BudgetAssumption
  <2>3. c \in Child /\ Coherent(c) /\ c.seen = children[i].seen /\ c.hit = children[i].hit
        /\ c.calls = children[i].calls + 1 /\ c.tokens = children[i].tokens + cost
    <3>1. children[i].tokens + cost \in Nat
      BY <1>2, <2>2
    <3> QED
      BY <1>1, <2>2, <3>1 DEF Child, Coherent
  <2>4. c.calls >= children[i].calls /\ c.tokens >= children[i].tokens
    BY <1>2, <2>2, <2>3
  <2> HIDE DEF c
  <2> QED
    BY <1>1, <2>1, <2>3, <2>4, AgentStep DEF c
<1>4. CASE Write(i)
  <2> DEFINE c == [children[i] EXCEPT !.torn = ~@]
  <2>1. c \in Child /\ Coherent(c) /\ c.seen = children[i].seen /\ c.hit = children[i].hit
        /\ c.calls = children[i].calls /\ c.tokens = children[i].tokens
    BY <1>1 DEF Child, Coherent
  <2>2. Becomes(i, c)
    BY <1>4 DEF Write
  <2> HIDE DEF c
  <2> QED
    BY <1>1, <1>2, <2>1, <2>2, AgentStep
<1>5. ASSUME NEW end \in Codes \cup {"signal"}, Becomes(i, Ended(children[i], end))
      PROVE  IInv'
  <2> DEFINE c == Ended(children[i], end)
  <2>1. c \in Child /\ Coherent(c) /\ c.seen = children[i].seen /\ c.hit = children[i].hit
        /\ c.calls = children[i].calls /\ c.tokens = children[i].tokens
    BY <1>1 DEF Child, Coherent, Ended, Codes, Ends
  <2>2. Becomes(i, c)
    BY <1>5
  <2> HIDE DEF c
  <2> QED
    BY <1>1, <1>2, <2>1, <2>2, AgentStep
<1>6. CASE Exit(i) \/ Die(i)
  <2>1. \E end \in Codes \cup {"signal"} : Becomes(i, Ended(children[i], end))
    BY <1>6 DEF Exit, Die, Codes
  <2> QED
    BY <1>5, <2>1
<1> QED
  BY <1>3, <1>4, <1>6

-----------------------------------------------------------------------------
\* The plan (planRuns) is a sequence of runs: each index names a task, a pair
\* of it and an arm.
LEMMA PlanType ==
  ASSUME NEW order \in ArmOrders
  PROVE  PlanRuns(order) \in Seq([task : STRING, rep : 1 .. Reps, arm : Arms])
<1> DEFINE d == Reps * 2
<1>1. Len(Tasks) \in Nat /\ DOMAIN Tasks = 1 .. Len(Tasks) /\ d \in Nat
      /\ \A t \in 1 .. Len(Tasks) : Tasks[t] \in STRING
  BY BudgetAssumption
<1>2. Planned \in Nat
  BY <1>1 DEF Planned
<1>3. ASSUME NEW k \in 1 .. Planned
      PROVE  /\ 1 + ((k - 1) \div d) \in 1 .. Len(Tasks)
             /\ 1 + (((k - 1) % d) \div 2) \in 1 .. Reps
             /\ 1 + ((k - 1) % 2) \in {1, 2}
  <2> DEFINE n == k - 1
             q == n \div d
             r == n % d
  <2>1. n \in Nat /\ n < Len(Tasks) * d
    BY <1>2 DEF Planned
  <2>2. d > 0
    BY <1>1, <2>1
  <2> HIDE DEF d, n
  <2>3. q \in Int /\ r \in 0 .. (d - 1) /\ n = d * q + r
    BY <1>1, <2>1, <2>2
  <2> HIDE DEF q, r
  <2>4. q >= 0
    <3>1. SUFFICES ASSUME q <= -1 PROVE FALSE
      BY <2>3
    <3>2. d * q <= -d
      BY <1>1, <2>2, <2>3, <3>1
    <3> QED
      BY <1>1, <2>1, <2>3, <3>2
  <2>5. q < Len(Tasks)
    <3>1. SUFFICES ASSUME q >= Len(Tasks) PROVE FALSE
      BY <1>1, <2>3
    <3>2. d * q >= Len(Tasks) * d
      BY <1>1, <2>2, <2>3, <3>1
    <3> QED
      BY <1>1, <2>1, <2>3, <3>2
  <2>6. r \div 2 \in 0 .. (Reps - 1)
    BY <2>3, BudgetAssumption DEF d
  <2>7. n % 2 \in {0, 1}
    BY <2>1
  <2> QED
    BY <1>1, <2>3, <2>4, <2>5, <2>6, <2>7, BudgetAssumption DEF n, q, r
<1>4. ASSUME NEW t \in 1 .. Len(Tasks), NEW rep \in 1 .. Reps, NEW a \in {1, 2}
      PROVE  Run(t, rep, order[t][a]) \in [task : STRING, rep : 1 .. Reps, arm : Arms]
  BY <1>1 DEF Run, ArmOrders, Orders, Arms
<1> QED
  BY <1>2, <1>3, <1>4 DEF PlanRuns

LEMMA InitInv == Init => IInv
<1> SUFFICES ASSUME Init PROVE IInv
  OBVIOUS
<1>1. plan \in Seq([task : STRING, rep : 1 .. Reps, arm : Arms])
  BY PlanType DEF Init
<1>2. children = <<>> /\ rows = <<>> /\ phase = "stage" /\ late = FALSE /\ fuse \in Fuses
  BY DEF Init
<1>3. Len(plan) \in Nat
  BY <1>1
<1>4. children \in Seq(Child) /\ Attempt = 0 /\ DOMAIN children = {}
      /\ rows \in Seq(Range(plan)) /\ Len(rows) = 0
  BY <1>2 DEF Attempt
<1>5. Len(rows) <= Len(plan) /\ Attempt <= 2
  BY <1>3, <1>4
<1>6. TypeOK
  BY <1>1, <1>2, <1>4, <1>5 DEF TypeOK, Phases
<1> QED
  BY <1>2, <1>4, <1>6
     DEF IInv, ChildrenAreCoherent, PhaseInv, VerdictInv, FirstInv, RowsInv, OnlyBudgetsStop,
         StopsAreIncomplete, RecordedHasEnded, Recorded

LEMMA NextInv == IInv /\ [Next]_vars => IInv'
<1> SUFFICES ASSUME IInv, [Next]_vars PROVE IInv'
  OBVIOUS
<1>1. CASE Supervise
  <2>1. CASE Stage \/ Report \/ LaunchFails \/ PollOn \/ Retry \/ Fold
    <3>1. UNCHANGED <<plan, fuse, children, late, verdict, rows>>
      BY <2>1 DEF Stage, Report, LaunchFails, PollOn, Retry, Fold
    <3> QED
      BY <2>1, <3>1, PhaseStep
  <2>2. CASE PollEnded \/ PollFails \/ Reap
    BY <2>2, ConcludeStep
  <2>3. CASE PollStops \/ GraceOver
    BY <2>3, WaitSteps
  <2>4. CASE Launch
    BY <2>4, LaunchStep
  <2>5. CASE Judge
    BY <2>5, JudgeStep
  <2> QED
    BY <1>1, <2>1, <2>2, <2>3, <2>4, <2>5 DEF Supervise
<1>2. CASE System \/ Agent
  BY <1>2, AgentSteps, WaitSteps DEF System, Agent
<1>3. CASE WallPasses
  BY <1>3, WallStep
<1>4. CASE UNCHANGED vars
  BY <1>4
     DEF vars, IInv, TypeOK, ChildrenAreCoherent, PhaseInv, VerdictInv, FirstInv, RowsInv,
         OnlyBudgetsStop, StopsAreIncomplete, RecordedHasEnded, Recorded, Current, Attempt
<1> QED
  BY <1>1, <1>2, <1>3, <1>4 DEF Next

\* The invariant of the supervisor holds of every behaviour.
LEMMA Inductive == Spec => []IInv
  BY InitInv, NextInv, PTL DEF Spec

-----------------------------------------------------------------------------
\* The state stays in its types, whatever the plan: one agent is tried at most
\* twice (supervisor.mjs 408-410), and rows are of the plan.
THEOREM SupervisorType == Spec => []TypeOK
<1>1. IInv => TypeOK
  BY DEF IInv
<1> QED
  BY Inductive, <1>1, PTL

\* An agent is sent SIGTERM only for a budget it has exhausted, and no attempt
\* is made after a stop (supervisor.mjs 315-331, 408).
THEOREM StopsHaveABudget == Spec => []OnlyBudgetsStop
<1>1. IInv => OnlyBudgetsStop
  BY DEF IInv
<1> QED
  BY Inductive, <1>1, PTL

\* A verdict is incomplete exactly if the supervisor stopped the agent, whatever
\* the exit code (supervisor.mjs 127-134).
THEOREM IncompleteIsStopped == Spec => []StopsAreIncomplete
<1>1. IInv => StopsAreIncomplete
  BY DEF IInv
<1> QED
  BY Inductive, <1>1, PTL

\* Nothing is recorded or judged of an agent that runs, but for an error of the
\* supervisor's own (supervisor.mjs 329-343).
THEOREM NothingRunsOn == Spec => []RecordedHasEnded
<1>1. IInv => RecordedHasEnded
  BY DEF IInv
<1> QED
  BY Inductive, <1>1, PTL

\* No result is tried again (supervisor.mjs 131, 408).
THEOREM NoResultIsRetried == Spec => []ResultsAreFinal
<1>1. IInv => ResultsAreFinal
  BY DEF IInv, FirstInv, ResultsAreFinal, Lost
<1> QED
  BY Inductive, <1>1, PTL
=============================================================================
