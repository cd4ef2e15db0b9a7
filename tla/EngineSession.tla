---------------------------- MODULE EngineSession ---------------------------
(***************************************************************************)
(* One engine under every order of calls its public methods allow, next to *)
(* the history of what it was given.  The history is what the engine's     *)
(* facts are ABOUT: the properties define generation, window, receipts,    *)
(* zero-progress rounds and repeats on the history alone, and compare.     *)
(***************************************************************************)
EXTENDS ProgressEngine, FiniteSets

CONSTANTS
  Observations,   \* the events a caller may feed the engine
  MaxEvents       \* bound on the length of a history

ASSUME SessionAssumption == Observations \subseteq Event /\ MaxEvents \in Nat

VARIABLES
  engine,      \* the engine
  hist,        \* every event applied, in order
  rounds,      \* the settled, non-empty rounds since the chain was last cleared
  first,       \* index in hist of the first event of the open round
  reminded     \* reminders handed out in the open round

vars == <<engine, hist, rounds, first, reminded>>

Init ==
  /\ engine = NewEngine
  /\ hist = <<>>
  /\ rounds = <<>>
  /\ first = 1
  /\ reminded = 0

-----------------------------------------------------------------------------
(* The public methods. *)

Observe(ev) ==
  /\ Len(hist) < MaxEvents
  /\ engine' = ApplyEvent(engine, ev)
  /\ hist' = Append(hist, ev)
  /\ UNCHANGED <<rounds, first, reminded>>

Remind ==
  /\ engine.turn.armed
  /\ engine' = ConsumeInlineReminder(engine)
  /\ reminded' = reminded + 1
  /\ UNCHANGED <<hist, rounds, first>>

Settle ==
  /\ engine' = EndTurn(engine)
  /\ rounds' = IF first <= Len(hist)
               THEN Append(rounds, [from |-> first, to |-> Len(hist)])
               ELSE rounds
  /\ first' = Len(hist) + 1
  /\ reminded' = 0
  /\ UNCHANGED hist

Interject ==
  /\ engine' = ResetChains(engine)
  /\ rounds' = <<>>
  /\ first' = Len(hist) + 1
  /\ reminded' = 0
  /\ UNCHANGED hist

\* The durable facts move to a fresh engine: chain and round are not in them.
Reload ==
  /\ engine' = Restore(NewEngine, Snapshot(engine))
  /\ rounds' = <<>>
  /\ first' = Len(hist) + 1
  /\ reminded' = 0
  /\ UNCHANGED hist

Next ==
  \/ \E ev \in Observations : Observe(ev)
  \/ Remind
  \/ Settle
  \/ Interject
  \/ Reload

Spec == Init /\ [][Next]_vars

-----------------------------------------------------------------------------
(* The same facts, defined on the history. *)

Mutated(i) == IsMutation(hist[i])

\* Where the current generation's observations start.
LastMutation ==
  CHOOSE m \in 0..Len(hist) :
    /\ m = 0 \/ Mutated(m)
    /\ \A j \in (m + 1)..Len(hist) : ~Mutated(j)

MutationsUpTo(n) == Cardinality({i \in 1..n : Mutated(i)})

RunsOf(c) == {i \in 1..Len(hist) : IsVerification(hist[i]) /\ CommandOf[hist[i].call] = c}

\* Event i is the same call with the same result as an event at most Window
\* observations earlier, with no mutation since.
Repeats(i) ==
  \E j \in 1..(i - 1) :
    /\ i - j <= Window
    /\ hist[j].call = hist[i].call
    /\ hist[j].content = hist[i].content
    /\ \A m \in j..(i - 1) : ~Mutated(m)

FirstRun(i) ==
  \A j \in 1..(i - 1) : IsVerification(hist[j]) =>
                          CommandOf[hist[j].call] # CommandOf[hist[i].call]

\* The round from..to observed something and learned nothing.
Idle(from, to) ==
  /\ from <= to
  /\ \A i \in from..to :
       /\ ~Mutated(i)
       /\ IF IsVerification(hist[i])
          THEN ~FirstRun(i) /\ ReceiptStatus(hist[i]) # "pass"
          ELSE Repeats(i)

-----------------------------------------------------------------------------
(* Properties. *)

\* The state stays in its types: every method returns a well-formed engine.
TypeOK ==
  /\ engine \in Engine
  /\ hist \in Seq(Observations)
  /\ rounds \in Seq([from : Nat, to : Nat])
  /\ first \in 1..(Len(hist) + 1)
  /\ reminded \in Nat

\* applyEvent's durable facts are those of the whole history, whatever was
\* settled, reset or reloaded in between: the generation counts the
\* mutations, and each command's receipt carries the outcome of its latest
\* run and the generation that run left (core index.ts 267-306, 406).
FactsAreHistory ==
  /\ engine.generation = MutationsUpTo(Len(hist))
  /\ \A c \in Commands :
       IF RunsOf(c) = {} THEN engine.receipts[c] = NoReceipt
       ELSE \E i \in RunsOf(c) :
              /\ \A j \in RunsOf(c) : j <= i
              /\ engine.receipts[c] = [status |-> ReceiptStatus(hist[i]),
                                       generation |-> MutationsUpTo(i)]

\* The ring is exactly the last Window observations since the last mutation,
\* in order and stamped with the current generation: a mutation reclaims every
\* slot, so the effective window never shrinks (core index.ts 274-284).
RingIsWindow ==
  LET since == Len(hist) - LastMutation
      kept  == IF since > Window THEN Window ELSE since
  IN  /\ Len(engine.ring) = kept
      /\ \A i \in 1..kept :
           LET ev == hist[Len(hist) - kept + i]
           IN  engine.ring[i] = [call |-> ev.call, content |-> ev.content,
                                 generation |-> engine.generation]

\* The flags folded event by event decide zero progress exactly as the
\* definition over the round's events does: a repeat is judged across round
\* boundaries, a failing re-run counts as idle even when its output changed
\* (core index.ts 312-349, 449-461).
RoundVerdictIsExact ==
  /\ engine.turn.open <=> first <= Len(hist)
  /\ ZeroProgress(engine.turn) <=> Idle(first, Len(hist))

\* The chain is the number of idle rounds that end the sequence of settled
\* rounds; rounds without observations neither extend nor break it
\* (core index.ts 367-381).
ChainCountsIdleRounds ==
  LET n == Len(rounds)
      c == engine.chain
  IN  /\ c <= n
      /\ \A i \in (n - c + 1)..n : Idle(rounds[i].from, rounds[i].to)
      /\ c < n => ~Idle(rounds[n - c].from, rounds[n - c].to)

\* A reminder is handed out at most once a round, and one that is waiting was
\* earned in this round: some InlineThreshold observations of it that are not
\* verifications are one and the same inline call with one result, with
\* nothing but verifications between them (core index.ts 338-349, 399-403).
ReminderIsEarned ==
  /\ reminded <= 1
  /\ engine.turn.armed =>
       /\ reminded = 0
       /\ \E S \in SUBSET (first..Len(hist)) :
            /\ Cardinality(S) = InlineThreshold
            /\ \A i, j \in S : <<hist[i].call, hist[i].content>>
                                 = <<hist[j].call, hist[j].content>>
            /\ \A i \in S : hist[i].call \in Inline \ Verifiers
            /\ \A i, j \in S, k \in first..Len(hist) :
                 i < k /\ k < j => k \in S \/ IsVerification(hist[k])
=============================================================================
