---------------------------- MODULE EngineProofs ----------------------------
(***************************************************************************)
(* Lemmas about the operations of ProgressEngine: each keeps an engine an  *)
(* engine, keeps its receipts in the past, and keeps the completion guard  *)
(* informed.                                                               *)
(***************************************************************************)
EXTENDS ProgressEngine, TLAPS

\* No receipt carries a generation the engine has not reached.
PastReceipts(e) == \A c \in Commands : e.receipts[c].generation <= e.generation

\* A new engine (constructor) is an engine with nothing recorded.
LEMMA NewEngineType == NewEngine \in Engine /\ PastReceipts(NewEngine)
<1>1. NoTurn \in Turn
  BY DEF NoTurn, Turn, Fingerprint
<1>2. [c \in Commands |-> NoReceipt] \in [Commands -> Receipt]
  BY DEF NoReceipt, Receipt, Statuses
<1>3. <<>> \in Seq(RingEntry)
  OBVIOUS
<1>4. NewEngine \in Engine
  BY <1>1, <1>2, <1>3 DEF NewEngine, Engine
<1>5. PastReceipts(NewEngine)
  BY DEF NewEngine, PastReceipts, NoReceipt
<1> QED
  BY <1>4, <1>5

\* receiptStatus yields one of the three statuses.
LEMMA StatusType == \A ev : ReceiptStatus(ev) \in Statuses
  BY DEF ReceiptStatus, Statuses

\* observeTurn returns a round summary.
LEMMA ObserveTurnType ==
  ASSUME NEW e \in Engine, NEW ev \in Event
  PROVE  ObserveTurn(e, ev) \in Turn
<1> DEFINE t == [e.turn EXCEPT !.open = TRUE, !.mutation = @ \/ IsMutation(ev)]
           s == [t EXCEPT !.significant = @ \/ ~IsRepeated(e, ev)]
<1>1. e.turn \in Turn
  BY DEF Engine
<1>2. IsMutation(ev) \in BOOLEAN /\ IsRepeated(e, ev) \in BOOLEAN
  BY DEF IsMutation, IsRepeated, Event
<1>3. t \in Turn
  BY <1>1, <1>2 DEF Turn
<1>4. s \in Turn
  BY <1>2, <1>3 DEF Turn
<1> HIDE DEF t, s
<1>5. \A f, p \in BOOLEAN : VerifyTurn(t, f, p) \in Turn
  BY <1>3, ZenonT(40) DEF VerifyTurn, Turn
<1>6. PlainTurn(s) \in Turn
  BY <1>4 DEF PlainTurn, Turn
<1>7. InlineTurn(s, ev) \in Turn
  <2> DEFINE key    == <<ev.call, ev.content>>
             streak == IF s.fingerprint = key THEN s.streak + 1 ELSE 1
             arms   == streak >= InlineThreshold /\ ~s.fired
  <2>1. key \in Fingerprint
    BY DEF Event, Fingerprint
  <2>2. streak \in Nat
    BY <1>4 DEF Turn
  <2>3. arms \in BOOLEAN
    OBVIOUS
  <2> HIDE DEF key, streak, arms
  <2>4. [s EXCEPT !.fingerprint = key, !.streak = streak,
                  !.armed = @ \/ arms, !.fired = @ \/ arms] \in Turn
    BY <1>4, <2>1, <2>2, <2>3 DEF Turn
  <2> QED
    BY <2>4 DEF InlineTurn, key, streak, arms
<1>8. FirstSeen(e, ev) \in BOOLEAN /\ (ReceiptStatus(ev) = "pass") \in BOOLEAN
  BY DEF FirstSeen
<1> QED
  BY <1>5, <1>6, <1>7, <1>8 DEF ObserveTurn, s, t

\* applyEvent returns an engine.
LEMMA ApplyEventType ==
  ASSUME NEW e \in Engine, NEW ev \in Event
  PROVE  ApplyEvent(e, ev) \in Engine
<1>1. GenerationAfter(e, ev) \in Nat
  BY DEF GenerationAfter, Engine
<1>2. RingAfter(e, ev) \in Seq(RingEntry)
  <2> DEFINE entry == [call |-> ev.call, content |-> ev.content,
                       generation |-> e.generation]
  <2>1. entry \in RingEntry
    BY DEF RingEntry, Event, Engine
  <2>2. e.ring \in Seq(RingEntry)
    BY DEF Engine
  <2> HIDE DEF entry
  <2>3. Append(e.ring, entry) \in Seq(RingEntry) /\ Append(e.ring, entry) # <<>>
    BY <2>1, <2>2
  <2>4. Tail(Append(e.ring, entry)) \in Seq(RingEntry)
    BY <2>3
  <2> QED
    BY <2>3, <2>4 DEF RingAfter, Pushed, entry
<1>3. ReceiptsAfter(e, ev) \in [Commands -> Receipt]
  <2>1. [status |-> ReceiptStatus(ev), generation |-> GenerationAfter(e, ev)] \in Receipt
    BY <1>1, StatusType DEF Receipt
  <2>2. e.receipts \in [Commands -> Receipt]
    BY DEF Engine
  <2> QED
    BY <2>1, <2>2 DEF ReceiptsAfter
<1>4. e.chain \in Nat
  BY DEF Engine
<1> QED
  BY <1>1, <1>2, <1>3, <1>4, ObserveTurnType DEF ApplyEvent, Engine

\* Settling, resetting and handing out a reminder touch the round and the
\* chain, and leave the durable facts alone.
LEMMA RoundOperations ==
  ASSUME NEW e \in Engine
  PROVE  /\ EndTurn(e) \in Engine /\ Snapshot(EndTurn(e)) = Snapshot(e)
         /\ ResetChains(e) \in Engine /\ Snapshot(ResetChains(e)) = Snapshot(e)
         /\ ConsumeInlineReminder(e) \in Engine
         /\ Snapshot(ConsumeInlineReminder(e)) = Snapshot(e)
<1>1. NoTurn \in Turn
  BY DEF NoTurn, Turn, Fingerprint
<1>2. ChainAfter(e) \in Nat
  BY DEF ChainAfter, Engine
<1>3. [e.turn EXCEPT !.armed = FALSE] \in Turn
  BY DEF Engine, Turn
<1> QED
  BY <1>1, <1>2, <1>3
     DEF EndTurn, ResetChains, ConsumeInlineReminder, Snapshot, Engine

-----------------------------------------------------------------------------
\* applyEvent keeps receipts in the past: the one it writes is of the
\* generation it leaves.
LEMMA ApplyEventPast ==
  ASSUME NEW e \in Engine, NEW ev \in Event, PastReceipts(e)
  PROVE  PastReceipts(ApplyEvent(e, ev))
<1>1. GenerationAfter(e, ev) \in Nat /\ e.generation <= GenerationAfter(e, ev)
  BY DEF GenerationAfter, Engine
<1>2. \A c \in Commands :
        /\ e.receipts[c].generation \in Nat
        /\ e.receipts[c].generation <= e.generation
  BY DEF PastReceipts, Engine, Receipt
<1>3. e.receipts \in [Commands -> Receipt] /\ e.generation \in Nat
  BY DEF Engine
<1>4. \A c \in Commands :
        ReceiptsAfter(e, ev)[c].generation <= GenerationAfter(e, ev)
  BY <1>1, <1>2, <1>3 DEF ReceiptsAfter
<1> QED
  BY <1>4 DEF PastReceipts, ApplyEvent

\* A mutation leaves the guard's rule 1 violated, and only a passing
\* verification repairs it.
LEMMA ApplyEventUnverified ==
  ASSUME NEW e \in Engine, NEW ev \in Event, PastReceipts(e),
         \/ IsMutation(ev)
         \/ /\ UnverifiedMutation(e)
            /\ ~(IsVerification(ev) /\ ReceiptStatus(ev) = "pass")
  PROVE  UnverifiedMutation(ApplyEvent(e, ev))
<1> DEFINE g == GenerationAfter(e, ev)
           r == ReceiptsAfter(e, ev)
<1>1. e.generation \in Nat /\ e.receipts \in [Commands -> Receipt]
  BY DEF Engine
<1>2. g > 0 /\ g \in Nat
  BY <1>1 DEF GenerationAfter, UnverifiedMutation
<1>3. ASSUME NEW c \in Commands, r[c].status = "pass", r[c].generation = g
      PROVE  FALSE
  <2>1. CASE IsMutation(ev)
    <3>1. ~IsVerification(ev)
      BY <2>1, CallAssumption DEF IsMutation, IsVerification
    <3>2. r[c].generation <= e.generation /\ r[c].generation \in Nat
      BY <3>1, <1>1 DEF ReceiptsAfter, PastReceipts, Receipt
    <3> QED
      BY <3>2, <2>1, <1>3, <1>1 DEF GenerationAfter
  <2>2. CASE ~IsMutation(ev)
    <3>1. g = e.generation
      BY <2>2 DEF GenerationAfter
    <3>2. ~FreshPass(e, c)
      BY <2>2 DEF UnverifiedMutation
    <3>3. CASE ~IsVerification(ev)
      BY <3>1, <3>2, <3>3, <1>3 DEF ReceiptsAfter, FreshPass
    <3>4. CASE IsVerification(ev)
      <4>1. ReceiptStatus(ev) # "pass"
        BY <2>2, <3>4
      <4>2. r[c] = e.receipts[c] \/ r[c].status = ReceiptStatus(ev)
        BY <3>4, <1>1 DEF ReceiptsAfter
      <4> QED
        BY <4>1, <4>2, <3>1, <3>2, <1>3 DEF FreshPass
    <3> QED
      BY <3>3, <3>4
  <2> QED
    BY <2>1, <2>2
<1> QED
  BY <1>2, <1>3 DEF UnverifiedMutation, FreshPass, ApplyEvent

\* A failing run leaves rule 2 violated for its command, and only another run
\* of that command repairs it.
LEMMA ApplyEventFailing ==
  ASSUME NEW e \in Engine, NEW ev \in Event, NEW c \in Commands,
         \/ IsVerification(ev) /\ CommandOf[ev.call] = c /\ ReceiptStatus(ev) = "fail"
         \/ /\ c \in FailingVerifications(e)
            /\ ~(IsVerification(ev) /\ CommandOf[ev.call] = c)
  PROVE  c \in FailingVerifications(ApplyEvent(e, ev))
<1>1. e.receipts \in [Commands -> Receipt]
  BY DEF Engine
<1>2. ReceiptsAfter(e, ev)[c].status = "fail"
  BY <1>1 DEF ReceiptsAfter, FailingVerifications
<1> QED
  BY <1>2 DEF FailingVerifications, ApplyEvent
=============================================================================
