--------------------------- MODULE ProgressEngine ---------------------------
(***************************************************************************)
(* The progress-fact engine of packages/governor-core/src/index.ts as a    *)
(* value and the operations on it.  One engine belongs to one agent; it    *)
(* has no clock, no I/O and no thread of its own, so every method is one   *)
(* operator from engine (and argument) to engine.                          *)
(*                                                                         *)
(* Abstraction of the data.  A call stands for a (tool, canonical          *)
(* arguments) pair and a content for one rendered result, of which the     *)
(* engine keeps the hash.  What string inspection says of them (is the     *)
(* tool a mutation tool, is the command a verification, which exit marker  *)
(* does the text end with) are constants of the module.  The last repeated *)
(* pattern and the receipts' hash and call id only reach rendered text and *)
(* are left out.                                                           *)
(***************************************************************************)
EXTENDS Integers, Sequences

CONSTANTS
  Calls,            \* (tool, canonical arguments) pairs
  Mutators,         \* calls of a mutation tool (write, edit, str_replace_editor)
  Verifiers,        \* foreground shell calls whose first verb is a verification
  Inline,           \* calls whose tool matches inlineRepeatTools
  Commands,         \* normalized shell commands of the verifiers
  CommandOf,        \* the command of each verifier
  Contents,         \* rendered results
  ExitOf,           \* the exit marker each content ends with
  Interrupted,      \* contents that carry a timeout or a signal marker
  Window,           \* fingerprintWindow
  InlineThreshold   \* inlineRepeatThreshold

ASSUME CallAssumption ==
  /\ Mutators \subseteq Calls
  /\ Verifiers \subseteq Calls
  /\ Inline \subseteq Calls
  /\ Mutators \cap Verifiers = {}
  /\ CommandOf \in [Verifiers -> Commands]

ASSUME ContentAssumption ==
  /\ ExitOf \in [Contents -> {"absent", "zero", "nonzero"}]
  /\ Interrupted \subseteq Contents

\* The constructor throws on anything weaker.
ASSUME OptionAssumption ==
  /\ Window \in Nat \ {0}
  /\ InlineThreshold \in Nat \ {0, 1}

-----------------------------------------------------------------------------
(* The engine's data. *)

Event     == [call : Calls, content : Contents, isError : BOOLEAN]
RingEntry == [call : Calls, content : Contents, generation : Nat]
Statuses  == {"pass", "fail", "unknown"}

\* Status "none" stands for a command absent from the receipts map.
Receipt   == [status : Statuses \cup {"none"}, generation : Nat]
NoReceipt == [status |-> "none", generation |-> 0]

Fingerprint == Calls \X Contents

Turn == [open : BOOLEAN, mutation : BOOLEAN, significant : BOOLEAN,
         verifyNew : BOOLEAN, verifyPass : BOOLEAN,
         fingerprint : Fingerprint \cup {<<>>}, streak : Nat,
         armed : BOOLEAN, fired : BOOLEAN]

\* Both "turn undefined" (open is FALSE) and the record newTurnState returns.
NoTurn == [open |-> FALSE, mutation |-> FALSE, significant |-> FALSE,
           verifyNew |-> FALSE, verifyPass |-> FALSE,
           fingerprint |-> <<>>, streak |-> 0,
           armed |-> FALSE, fired |-> FALSE]

Engine == [generation : Nat, ring : Seq(RingEntry),
           receipts : [Commands -> Receipt], chain : Nat, turn : Turn]

NewEngine == [generation |-> 0, ring |-> <<>>,
              receipts |-> [c \in Commands |-> NoReceipt],
              chain |-> 0, turn |-> NoTurn]

-----------------------------------------------------------------------------
(* Classification of one observation. *)

\* A mutation is a mutation tool that returned without error.
IsMutation(ev) == ev.call \in Mutators /\ ~ev.isError

IsVerification(ev) == ev.call \in Verifiers

\* Interruption dominates, then the exit marker, then the error flag.
ReceiptStatus(ev) ==
  IF ev.content \in Interrupted THEN "unknown"
  ELSE IF ExitOf[ev.content] = "zero" THEN "pass"
  ELSE IF ExitOf[ev.content] = "nonzero" \/ ev.isError THEN "fail"
  ELSE "pass"

Classify(e, ev) ==
  LET current  == {i \in DOMAIN e.ring : e.ring[i].generation = e.generation}
      sameCall == {i \in current : e.ring[i].call = ev.call}
  IN  IF current = {} THEN "first-observation"
      ELSE IF \E i \in sameCall : e.ring[i].content = ev.content
        THEN "repeated-observation"
      ELSE IF sameCall # {} THEN "new-evidence"
      ELSE "progress"

IsRepeated(e, ev) == Classify(e, ev) = "repeated-observation"

-----------------------------------------------------------------------------
(* applyEvent: the one transition of the durable facts and of the round.   *)

\* Mutant of GenerationAfter: a failed write counts as a mutation.
GenerationOfAttempts(e, ev) ==
  IF ev.call \in Mutators THEN e.generation + 1 ELSE e.generation

GenerationAfter(e, ev) ==
  IF IsMutation(ev) THEN e.generation + 1 ELSE e.generation

\* Mutant of Pushed: evicts one entry too early.
PushedIntoLess(e, ev) ==
  LET ring == Append(e.ring, [call |-> ev.call, content |-> ev.content,
                              generation |-> e.generation])
  IN  IF Len(ring) >= Window THEN Tail(ring) ELSE ring

Pushed(e, ev) ==
  LET entry == [call |-> ev.call, content |-> ev.content,
                generation |-> e.generation]
      ring  == Append(e.ring, entry)
  IN  IF Len(ring) > Window THEN Tail(ring) ELSE ring

\* A mutation drops the entries that are not of the new generation: all of
\* them, for each was stamped with the generation current at its push.
RingAfter(e, ev) == IF IsMutation(ev) THEN <<>> ELSE Pushed(e, ev)

ReceiptsAfter(e, ev) ==
  IF IsVerification(ev)
  THEN [e.receipts EXCEPT ![CommandOf[ev.call]] =
          [status |-> ReceiptStatus(ev), generation |-> GenerationAfter(e, ev)]]
  ELSE e.receipts

FirstSeen(e, ev) == e.receipts[CommandOf[ev.call]].status = "none"

\* Mutant of VerifyTurn: the last verification of a round overwrites the others.
VerifyTurnLatest(t, firstSeen, pass) ==
  [t EXCEPT !.verifyNew = firstSeen, !.verifyPass = pass]

\* A verification marks the round only by a first run or a pass.
VerifyTurn(t, firstSeen, pass) ==
  [t EXCEPT !.verifyNew = @ \/ firstSeen, !.verifyPass = @ \/ pass]

\* Any tool outside inlineRepeatTools breaks the streak.
PlainTurn(t) == [t EXCEPT !.fingerprint = <<>>, !.streak = 0]

\* Mutant of InlineTurn: no limit of one reminder a round.
InlineTurnAlways(t, ev) ==
  LET key    == <<ev.call, ev.content>>
      streak == IF t.fingerprint = key THEN t.streak + 1 ELSE 1
  IN  [t EXCEPT !.fingerprint = key, !.streak = streak,
                !.armed = @ \/ streak >= InlineThreshold]

\* An inline tool extends or restarts the streak and may arm the reminder.
InlineTurn(t, ev) ==
  LET key    == <<ev.call, ev.content>>
      streak == IF t.fingerprint = key THEN t.streak + 1 ELSE 1
      arms   == streak >= InlineThreshold /\ ~t.fired
  IN  [t EXCEPT !.fingerprint = key, !.streak = streak,
                !.armed = @ \/ arms, !.fired = @ \/ arms]

ObserveTurn(e, ev) ==
  LET t == [e.turn EXCEPT !.open = TRUE, !.mutation = @ \/ IsMutation(ev)]
      s == [t EXCEPT !.significant = @ \/ ~IsRepeated(e, ev)]
  IN  IF IsVerification(ev)
        THEN VerifyTurn(t, FirstSeen(e, ev), ReceiptStatus(ev) = "pass")
      ELSE IF ev.call \notin Inline THEN PlainTurn(s)
      ELSE InlineTurn(s, ev)

ApplyEvent(e, ev) ==
  [generation |-> GenerationAfter(e, ev),
   ring       |-> RingAfter(e, ev),
   receipts   |-> ReceiptsAfter(e, ev),
   chain      |-> e.chain,
   turn       |-> ObserveTurn(e, ev)]

-----------------------------------------------------------------------------
(* Round boundaries and the in-round reminder. *)

ZeroProgress(t) ==
  /\ t.open
  /\ ~t.mutation
  /\ ~t.significant
  /\ ~t.verifyNew
  /\ ~t.verifyPass

\* Mutants of ChainAfter: progress takes one round back only; a round without
\* observations clears the chain.
ChainDecays(e) ==
  IF ~e.turn.open THEN e.chain
  ELSE IF ZeroProgress(e.turn) THEN e.chain + 1
  ELSE e.chain - 1

ChainNeedsObservations(e) == IF ZeroProgress(e.turn) THEN e.chain + 1 ELSE 0

\* A round without observations leaves the chain alone.
ChainAfter(e) ==
  IF ~e.turn.open THEN e.chain
  ELSE IF ZeroProgress(e.turn) THEN e.chain + 1
  ELSE 0

EndTurn(e) == [e EXCEPT !.chain = ChainAfter(e), !.turn = NoTurn]

\* Mutant of ResetChains: forgets the recent observations too.
ResetAll(e) == [e EXCEPT !.chain = 0, !.turn = NoTurn, !.ring = <<>>]

ResetChains(e) == [e EXCEPT !.chain = 0, !.turn = NoTurn]

ConsumeInlineReminder(e) == [e EXCEPT !.turn.armed = FALSE]

-----------------------------------------------------------------------------
(* Durable state: what snapshot returns, and restore into a fresh engine.  *)

Snapshot(e) == [generation |-> e.generation, ring |-> e.ring,
                receipts |-> e.receipts]

Restore(e, s) == [e EXCEPT !.generation = s.generation, !.ring = s.ring,
                           !.receipts = s.receipts]

-----------------------------------------------------------------------------
(* The completion guard: objective rules over the engine's facts. *)

\* Mutant of FreshPass: a pass of an earlier generation still counts.
AnyPass(e, c) == e.receipts[c].status = "pass"

FreshPass(e, c) ==
  e.receipts[c].status = "pass" /\ e.receipts[c].generation = e.generation

\* Rule 1: the workspace changed and nothing passed on this generation.
UnverifiedMutation(e) == e.generation > 0 /\ ~\E c \in Commands : FreshPass(e, c)

\* Rule 2: the latest receipt of these commands is a failure.
FailingVerifications(e) == {c \in Commands : e.receipts[c].status = "fail"}

=============================================================================
