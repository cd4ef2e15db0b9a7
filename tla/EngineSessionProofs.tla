------------------------ MODULE EngineSessionProofs -------------------------
(***************************************************************************)
(* What the progress engine knows is what its history says, for every tool *)
(* set, window, threshold and length of history.                           *)
(*                                                                         *)
(* The argument.  The engine folds its history event by event, and each    *)
(* property defines what the fold should have computed on the history as a *)
(* whole.  An event put at the end changes none of what the definitions    *)
(* say of the events before it (Stable), so each invariant has one case to *)
(* settle: the new event.  The ring is where they meet: it holds just what *)
(* Repeats quantifies over (RepeatsLast), which makes the round's flags    *)
(* exact, which makes the chain exact when the round is settled.           *)
(***************************************************************************)
EXTENDS EngineSession, EngineProofs, FiniteSetTheorems

\* m is where the observations of the current generation start.
StartsAt(m) ==
  /\ m \in 0 .. Len(hist)
  /\ m = 0 \/ Mutated(m)
  /\ \A j \in (m + 1) .. Len(hist) : ~Mutated(j)

\* How many of them the ring holds.
Kept(m) == IF Len(hist) - m > Window THEN Window ELSE Len(hist) - m

RingInv ==
  \E m \in 0 .. Len(hist) :
    /\ StartsAt(m)
    /\ Len(engine.ring) = Kept(m)
    /\ \A i \in 1 .. Kept(m) :
         LET ev == hist[Len(hist) - Kept(m) + i]
         IN  engine.ring[i] = [call |-> ev.call, content |-> ev.content,
                               generation |-> engine.generation]

\* The round's flags, each by the events of the round.
TurnInv ==
  LET t == engine.turn
      R == first .. Len(hist)
  IN  /\ t.open <=> first <= Len(hist)
      /\ t.mutation <=> \E i \in R : Mutated(i)
      /\ t.significant <=> \E i \in R : ~IsVerification(hist[i]) /\ ~Repeats(i)
      /\ t.verifyNew <=> \E i \in R : IsVerification(hist[i]) /\ FirstRun(i)
      /\ t.verifyPass <=> \E i \in R : IsVerification(hist[i]) /\ ReceiptStatus(hist[i]) = "pass"

\* A settled round is a part of the history.
RoundsInv ==
  \A i \in DOMAIN rounds :
    rounds[i].from \in 1 .. rounds[i].to /\ rounds[i].to <= Len(hist)

\* S is an uninterrupted run of one inline call with one result.
RunOf(S, key) ==
  /\ S \subseteq first .. Len(hist)
  /\ \A i \in S : <<hist[i].call, hist[i].content>> = key /\ hist[i].call \in Inline \ Verifiers

\* Nothing but verifications is between the elements of S, up to n.
Unbroken(S, n) ==
  \A i \in S, k \in first .. Len(hist) : i < k /\ k <= n => k \in S \/ IsVerification(hist[k])

\* The streak is the length of a run that nothing has broken yet.
StreakInv ==
  engine.turn.fingerprint # <<>> =>
    \E S \in SUBSET (first .. Len(hist)) :
      /\ IsFiniteSet(S) /\ Cardinality(S) = engine.turn.streak
      /\ RunOf(S, engine.turn.fingerprint) /\ Unbroken(S, Len(hist))

\* One reminder is armed in a round, when the streak first gets long enough.
ArmedInv ==
  LET t == engine.turn
  IN  /\ t.armed => t.fired /\ reminded = 0
      /\ reminded <= 1 /\ (reminded > 0 => t.fired)
      /\ ~t.fired => t.streak < InlineThreshold
      /\ t.fingerprint = <<>> => t.streak = 0

Earned ==
  \E S \in SUBSET (first .. Len(hist)) :
    /\ Cardinality(S) = InlineThreshold
    /\ \A i, j \in S : <<hist[i].call, hist[i].content>> = <<hist[j].call, hist[j].content>>
    /\ \A i \in S : hist[i].call \in Inline \ Verifiers
    /\ \A i, j \in S, k \in first .. Len(hist) :
         i < k /\ k < j => k \in S \/ IsVerification(hist[k])

EarnedInv == engine.turn.armed => Earned

IInv == /\ TypeOK /\ FactsAreHistory /\ RingInv /\ TurnInv
        /\ RoundsInv /\ ChainCountsIdleRounds
        /\ StreakInv /\ ArmedInv /\ EarnedInv

\* What is used of sequences, of records too.
LEMMA SeqFacts ==
  ASSUME NEW R, NEW s \in Seq(R)
  PROVE  /\ \A i \in 1 .. Len(s) : i \in DOMAIN s /\ s[i] \in R
         /\ \A r \in R : Append(s, r) \in Seq(R)
         /\ s # <<>> => /\ Len(Tail(s)) = Len(s) - 1
                        /\ \A i \in 1 .. Len(s) - 1 : Tail(s)[i] = s[i + 1]
  OBVIOUS

-----------------------------------------------------------------------------
(* The history, with an event more.                                        *)

LEMMA Appended ==
  ASSUME hist \in Seq(Observations), NEW ev \in Observations, hist' = Append(hist, ev)
  PROVE  /\ hist' \in Seq(Observations) /\ Len(hist) \in Nat
         /\ Len(hist') = Len(hist) + 1 /\ hist'[Len(hist) + 1] = ev
         /\ \A i \in 1 .. Len(hist) : hist'[i] = hist[i]
  OBVIOUS

\* What is said of the events before it stays.
LEMMA Stable ==
  ASSUME hist \in Seq(Observations), NEW ev \in Observations, hist' = Append(hist, ev)
  PROVE  /\ \A i \in 1 .. Len(hist) : /\ Mutated(i)' <=> Mutated(i)
                                      /\ Repeats(i)' <=> Repeats(i)
                                      /\ FirstRun(i)' <=> FirstRun(i)
         /\ \A n : n = Len(hist) + 1 => (Mutated(n)' <=> IsMutation(ev))
<1>1. Len(hist) \in Nat /\ \A i \in 1 .. Len(hist) : hist'[i] = hist[i]
  BY Appended
<1>2. \A i \in 1 .. Len(hist) : Mutated(i)' <=> Mutated(i)
  BY <1>1 DEF Mutated
<1>3. \A i \in 1 .. Len(hist) : Repeats(i)' <=> Repeats(i)
  <2> SUFFICES ASSUME NEW i \in 1 .. Len(hist) PROVE Repeats(i)' <=> Repeats(i)
    OBVIOUS
  <2>1. \A j \in 1 .. (i - 1) : \A m \in j .. (i - 1) : m \in 1 .. Len(hist)
    BY <1>1
  <2>2. \A j \in 1 .. (i - 1) : hist'[j] = hist[j] /\ hist'[i] = hist[i]
    BY <1>1
  <2> QED
    BY <1>2, <2>1, <2>2 DEF Repeats
<1>4. \A i \in 1 .. Len(hist) : FirstRun(i)' <=> FirstRun(i)
  BY <1>1 DEF FirstRun
<1>5. \A n : n = Len(hist) + 1 => (Mutated(n)' <=> IsMutation(ev))
  BY Appended DEF Mutated
<1> QED
  BY <1>2, <1>3, <1>4, <1>5

\* So is whether a round of them was idle.
LEMMA StableIdle ==
  ASSUME hist \in Seq(Observations), NEW ev \in Observations, hist' = Append(hist, ev),
         NEW a \in Nat \ {0}, NEW b \in Nat, b <= Len(hist)
  PROVE  Idle(a, b)' <=> Idle(a, b)
<1>1. \A i \in a .. b : i \in 1 .. Len(hist)
  BY Appended
<1>2. \A i \in a .. b :
        /\ hist'[i] = hist[i]
        /\ Mutated(i)' <=> Mutated(i)
        /\ Repeats(i)' <=> Repeats(i)
        /\ FirstRun(i)' <=> FirstRun(i)
  BY <1>1, Appended, Stable
<1> QED
  BY <1>2 DEF Idle

\* The start of the current generation is unique, so RingInv is about it.
LEMMA LastMutationIs ==
  ASSUME hist \in Seq(Observations), NEW m \in 0 .. Len(hist), StartsAt(m)
  PROVE  LastMutation = m
<1>1. \A k \in 0 .. Len(hist) : StartsAt(k) => k = m
  <2> SUFFICES ASSUME NEW k \in 0 .. Len(hist), StartsAt(k) PROVE k = m
    OBVIOUS
  <2>1. ~(k < m) /\ ~(m < k)
    BY DEF StartsAt
  <2> QED
    BY <2>1
<1> QED
  BY <1>1 DEF LastMutation, StartsAt

-----------------------------------------------------------------------------
(* One event: the durable facts.                                           *)

\* The mutations up to an event are those before it and it.
LEMMA MutationsCount ==
  ASSUME hist \in Seq(Observations), NEW ev \in Observations, hist' = Append(hist, ev),
         NEW N, N = Len(hist)
  PROVE  /\ \A n \in 0 .. N : MutationsUpTo(n)' = MutationsUpTo(n)
         /\ MutationsUpTo(N + 1)' = MutationsUpTo(N) + (IF IsMutation(ev) THEN 1 ELSE 0)
         /\ MutationsUpTo(N) \in Nat
<1> DEFINE M(n) == {i \in 1 .. n : Mutated(i)}
<1>1. N \in Nat /\ (\A i \in 1 .. N : Mutated(i)' <=> Mutated(i))
      /\ (Mutated(N + 1)' <=> IsMutation(ev))
  BY Appended, Stable
<1>2. ASSUME NEW n \in 0 .. N PROVE MutationsUpTo(n)' = MutationsUpTo(n)
  <2>1. {i \in 1 .. n : Mutated(i)'} = M(n)
    BY <1>1
  <2> QED
    BY <2>1 DEF MutationsUpTo
<1>3. IsFiniteSet(M(N)) /\ Cardinality(M(N)) \in Nat
  <2>1. IsFiniteSet(1 .. N)
    BY <1>1, FS_Interval
  <2> QED
    BY <2>1, FS_Subset, FS_CardinalityType
<1>4. {i \in 1 .. N + 1 : Mutated(i)'} = IF IsMutation(ev) THEN M(N) \cup {N + 1} ELSE M(N)
  <2>1. \A i : i \in 1 .. N + 1 <=> i \in 1 .. N \/ i = N + 1
    BY <1>1
  <2> QED
    BY <1>1, <2>1
<1>5. N + 1 \notin M(N)
  BY <1>1
<1>6. MutationsUpTo(N) = Cardinality(M(N))
      /\ MutationsUpTo(N + 1)' = Cardinality({i \in 1 .. N + 1 : Mutated(i)'})
  BY DEF MutationsUpTo
<1> HIDE DEF M
<1>7. Cardinality(M(N) \cup {N + 1}) = Cardinality(M(N)) + 1
  BY <1>3, <1>5, FS_AddElement
<1>8. MutationsUpTo(N + 1)' = Cardinality(M(N)) + (IF IsMutation(ev) THEN 1 ELSE 0)
  <2>1. CASE IsMutation(ev)
    <3>1. {i \in 1 .. N + 1 : Mutated(i)'} = M(N) \cup {N + 1}
      BY <1>4, <2>1
    <3>2. MutationsUpTo(N + 1)' = Cardinality(M(N) \cup {N + 1})
      BY <1>6, <3>1, Zenon
    <3> QED
      BY <1>7, <2>1, <3>2
  <2>2. CASE ~IsMutation(ev)
    <3>1. {i \in 1 .. N + 1 : Mutated(i)'} = M(N)
      BY <1>4, <2>2
    <3>2. MutationsUpTo(N + 1)' = Cardinality(M(N))
      BY <1>6, <3>1, Zenon
    <3> QED
      BY <1>3, <2>2, <3>2
  <2> QED
    BY <2>1, <2>2
<1> QED
  BY <1>2, <1>3, <1>6, <1>8

\* A command's runs are those before the event and, if it is one, the event.
LEMMA RunsAfter ==
  ASSUME hist \in Seq(Observations), NEW ev \in Observations, hist' = Append(hist, ev), NEW c
  PROVE  RunsOf(c)' = IF IsVerification(ev) /\ CommandOf[ev.call] = c
                      THEN RunsOf(c) \cup {Len(hist) + 1} ELSE RunsOf(c)
<1>1. Len(hist) \in Nat /\ Len(hist') = Len(hist) + 1 /\ hist'[Len(hist) + 1] = ev
      /\ \A i \in 1 .. Len(hist) : hist'[i] = hist[i]
  BY Appended
<1> QED
  BY <1>1 DEF RunsOf

\* The durable facts take the event in.
LEMMA FactsStep ==
  ASSUME IInv, NEW ev \in Observations, hist' = Append(hist, ev),
         engine' = ApplyEvent(engine, ev)
  PROVE  FactsAreHistory'
<1> PICK N : N = Len(hist)
  OBVIOUS
<1>1. hist \in Seq(Observations) /\ engine \in Engine /\ ev \in Event
  BY SessionAssumption DEF IInv, TypeOK
<1>2. N \in Nat /\ Len(hist') = N + 1 /\ hist'[N + 1] = ev
      /\ \A i \in 1 .. N : hist'[i] = hist[i]
  BY <1>1, Appended
<1>3. /\ \A n \in 0 .. N : MutationsUpTo(n)' = MutationsUpTo(n)
      /\ MutationsUpTo(N + 1)' = MutationsUpTo(N) + (IF IsMutation(ev) THEN 1 ELSE 0)
      /\ MutationsUpTo(N) \in Nat
  BY <1>1, MutationsCount
<1>4. engine'.generation = MutationsUpTo(Len(hist))'
  <2>1. engine.generation = MutationsUpTo(N)
    BY DEF IInv, FactsAreHistory
  <2>2. MutationsUpTo(Len(hist))' = MutationsUpTo(N + 1)'
    BY <1>2
  <2> QED
    BY <1>3, <2>1, <2>2 DEF ApplyEvent, GenerationAfter
<1>5. ASSUME NEW c \in Commands
      PROVE  IF RunsOf(c)' = {} THEN engine'.receipts[c] = NoReceipt
             ELSE \E i \in RunsOf(c)' :
                    /\ \A j \in RunsOf(c)' : j <= i
                    /\ engine'.receipts[c] = [status |-> ReceiptStatus(hist'[i]),
                                              generation |-> MutationsUpTo(i)']
  <2>1. RunsOf(c) \subseteq 1 .. N
    BY DEF RunsOf
  <2>2. engine.receipts \in [Commands -> Receipt] /\ engine'.receipts = ReceiptsAfter(engine, ev)
    BY <1>1 DEF Engine, ApplyEvent
  <2>3. CASE IsVerification(ev) /\ CommandOf[ev.call] = c
    <3>1. RunsOf(c)' = RunsOf(c) \cup {N + 1}
      BY <1>1, <2>3, RunsAfter
    <3>2. \A j \in RunsOf(c)' : j <= N + 1
      BY <1>2, <2>1, <3>1
    <3>3. engine'.receipts[c] = [status |-> ReceiptStatus(ev), generation |-> engine'.generation]
      BY <2>2, <2>3 DEF ReceiptsAfter, ApplyEvent
    <3> QED
      BY <1>2, <1>4, <3>1, <3>2, <3>3
  <2>4. CASE ~(IsVerification(ev) /\ CommandOf[ev.call] = c)
    <3>1. RunsOf(c)' = RunsOf(c)
      BY <1>1, <2>4, RunsAfter
    <3>2. engine'.receipts[c] = engine.receipts[c]
      BY <2>2, <2>4 DEF ReceiptsAfter
    <3>3. \A i \in RunsOf(c) : hist'[i] = hist[i] /\ MutationsUpTo(i)' = MutationsUpTo(i)
      BY <1>2, <1>3, <2>1
    <3> QED
      BY <3>1, <3>2, <3>3 DEF IInv, FactsAreHistory
  <2> QED
    BY <2>3, <2>4
<1> QED
  BY <1>4, <1>5 DEF FactsAreHistory

-----------------------------------------------------------------------------
(* One event: the ring, and what it is asked.                              *)

\* Where an entry is in the history, before and after.
LEMMA Shifted ==
  ASSUME NEW n \in Nat, NEW k \in Nat
  PROVE  /\ \A i \in 1 .. k : i + 1 \in 1 .. k + 1 /\ n - k + (i + 1) = (n + 1) - k + i
         /\ \A i \in 1 .. k + 1 : n - k + i = (n + 1) - (k + 1) + i
  OBVIOUS

\* The ring takes the event in, or empties.
LEMMA RingStep ==
  ASSUME IInv, NEW ev \in Observations, hist' = Append(hist, ev),
         engine' = ApplyEvent(engine, ev)
  PROVE  RingInv'
<1> PICK N : N = Len(hist)
  OBVIOUS
<1>1. hist \in Seq(Observations) /\ engine \in Engine /\ ev \in Event
  BY SessionAssumption DEF IInv, TypeOK
<1>2. N \in Nat /\ Len(hist') = N + 1 /\ hist'[N + 1] = ev
      /\ \A i \in 1 .. N : hist'[i] = hist[i]
  BY <1>1, Appended
<1>3. (\A i \in 1 .. N : Mutated(i)' <=> Mutated(i)) /\ (Mutated(N + 1)' <=> IsMutation(ev))
  BY <1>1, Stable
<1>4. Window \in Nat \ {0}
  BY OptionAssumption
<1>5. CASE IsMutation(ev)
  <2>1. StartsAt(N + 1)'
    BY <1>2, <1>3, <1>5 DEF StartsAt
  <2>2. Kept(N + 1)' = 0 /\ engine'.ring = <<>>
    BY <1>2, <1>4, <1>5 DEF Kept, ApplyEvent, RingAfter
  <2>3. N + 1 \in 0 .. Len(hist')
    BY <1>2
  <2> QED
    BY <2>1, <2>2, <2>3 DEF RingInv
<1>6. CASE ~IsMutation(ev)
  <2>1. PICK m \in 0 .. N :
          /\ StartsAt(m) /\ Len(engine.ring) = Kept(m)
          /\ \A i \in 1 .. Kept(m) :
               LET v == hist[Len(hist) - Kept(m) + i]
               IN  engine.ring[i] = [call |-> v.call, content |-> v.content,
                                     generation |-> engine.generation]
    BY DEF IInv, RingInv
  <2>2. StartsAt(m)'
    BY <1>2, <1>3, <1>6, <2>1 DEF StartsAt
  <2> PICK k : k = Kept(m)
    OBVIOUS
  <2> PICK r : r = engine.ring
    OBVIOUS
  <2> DEFINE g == engine.generation
             x == [call |-> ev.call, content |-> ev.content, generation |-> g]
             kk == IF k = Window THEN k ELSE k + 1
  <2>3. k \in Nat /\ k <= Window /\ k <= N - m /\ (k = Window <=> N - m >= Window)
        /\ (k # Window => k = N - m)
    BY <1>2, <1>4, <2>1 DEF Kept
  <2>0. k \in Nat /\ N \in Nat
    BY <1>2, <2>3
  <2>4. Kept(m)' = kk
    BY <1>2, <1>4, <2>1, <2>3 DEF Kept
  <2>5. r \in Seq(RingEntry) /\ x \in RingEntry /\ Len(r) = k
    BY <1>1, <2>1 DEF Engine, Event, RingEntry
  <2> HIDE DEF x
  <2> DEFINE a == Append(r, x)
  <2>6. a \in Seq(RingEntry) /\ Len(a) = k + 1 /\ a[k + 1] = x
        /\ \A i \in 1 .. k : a[i] = r[i]
    BY <2>5
  <2>7. Len(Tail(a)) = k /\ \A i \in 1 .. k : Tail(a)[i] = a[i + 1]
    <3>1. a # <<>>
      BY <2>3, <2>6
    <3>2. a \in Seq(RingEntry) /\ Len(a) - 1 = k
      BY <2>3, <2>6
    <3> QED
      BY <3>1, <3>2, SeqFacts
  <2>8. engine'.ring = (IF k + 1 > Window THEN Tail(a) ELSE a) /\ engine'.generation = g
    BY <1>6, <2>6 DEF ApplyEvent, RingAfter, Pushed, GenerationAfter, x
  <2> HIDE DEF a
  <2>9. Len(engine'.ring) = kk
    BY <1>4, <2>3, <2>6, <2>7, <2>8
  <2>10. \A i \in 1 .. k : r[i] = [call |-> hist[N - k + i].call, content |-> hist[N - k + i].content,
                                  generation |-> g]
    BY <2>1
  <2>11. \A i \in 1 .. k : a[i] = [call |-> hist'[N - k + i].call, content |-> hist'[N - k + i].content,
                                   generation |-> g]
    <3>1. \A i \in 1 .. k : N - k + i \in 1 .. N
      BY <1>2, <2>1, <2>3
    <3> QED
      BY <1>2, <2>6, <2>10, <3>1
  <2>12. a[k + 1] = [call |-> hist'[N + 1].call, content |-> hist'[N + 1].content, generation |-> g]
    BY <1>2, <2>6 DEF x
  <2> DEFINE entry(j) == [call |-> hist'[j].call, content |-> hist'[j].content, generation |-> g]
  <2>13. \A i \in 1 .. k + 1 : a[i] = entry(N - k + i)
    <3>1. N - k + (k + 1) = N + 1 /\ \A i \in 1 .. k + 1 : i \in 1 .. k \/ i = k + 1
      BY <2>0
    <3> QED
      BY <2>11, <2>12, <3>1
  <2> HIDE DEF entry, kk
  <2>14. \A i \in 1 .. kk : engine'.ring[i] = entry((N + 1) - kk + i)
    <3>1. CASE k = Window
      <4>1. engine'.ring = Tail(a) /\ kk = k
        BY <1>4, <2>3, <2>8, <3>1 DEF kk
      <4>2. \A i \in 1 .. k : engine'.ring[i] = a[i + 1]
        BY <2>7, <4>1
      <4>3. \A i \in 1 .. k : i + 1 \in 1 .. k + 1 /\ N - k + (i + 1) = (N + 1) - k + i
        BY <2>0, Shifted
      <4> QED
        BY <2>13, <4>1, <4>2, <4>3
    <3>2. CASE k # Window
      <4>1. engine'.ring = a /\ kk = k + 1
        BY <1>4, <2>3, <2>8, <3>2 DEF kk
      <4>2. \A i \in 1 .. k + 1 : N - k + i = (N + 1) - (k + 1) + i
        BY <2>0, Shifted
      <4> QED
        BY <2>13, <4>1, <4>2
    <3> QED
      BY <3>1, <3>2
  <2>15. m \in 0 .. Len(hist')
    BY <1>2
  <2>16. \A i \in 1 .. Kept(m)' :
           LET v == hist'[Len(hist') - Kept(m)' + i]
           IN  engine'.ring[i] = [call |-> v.call, content |-> v.content,
                                  generation |-> engine'.generation]
    BY <1>2, <2>4, <2>8, <2>14 DEF entry
  <2> QED
    BY <2>2, <2>4, <2>9, <2>15, <2>16 DEF RingInv
<1> QED
  BY <1>5, <1>6

\* The engine calls an event repeated if its ring holds the same call and
\* content (classify).
LEMMA RepeatedInRing ==
  ASSUME NEW e, NEW ev
  PROVE  IsRepeated(e, ev) <=>
           \E i \in DOMAIN e.ring : /\ e.ring[i].generation = e.generation
                                    /\ e.ring[i].call = ev.call /\ e.ring[i].content = ev.content
  BY DEF IsRepeated, Classify

\* So it does exactly if the history has a repeat.
LEMMA RepeatsLast ==
  ASSUME IInv, NEW ev \in Observations, hist' = Append(hist, ev), NEW N, N = Len(hist)
  PROVE  Repeats(N + 1)' <=> IsRepeated(engine, ev)
<1>1. hist \in Seq(Observations) /\ engine.ring \in Seq(RingEntry)
  BY DEF IInv, TypeOK, Engine
<1>2. N \in Nat /\ Len(hist') = N + 1 /\ hist'[N + 1] = ev
      /\ \A i \in 1 .. N : hist'[i] = hist[i] /\ (Mutated(i)' <=> Mutated(i))
  BY <1>1, Appended, Stable
<1>3. Window \in Nat \ {0}
  BY OptionAssumption
<1>4. PICK m \in 0 .. N :
        /\ StartsAt(m) /\ Len(engine.ring) = Kept(m)
        /\ \A i \in 1 .. Kept(m) :
             LET v == hist[Len(hist) - Kept(m) + i]
             IN  engine.ring[i] = [call |-> v.call, content |-> v.content,
                                   generation |-> engine.generation]
  BY DEF IInv, RingInv
<1> PICK k : k = Kept(m)
  OBVIOUS
<1>5. k \in Nat /\ k <= Window /\ k <= N - m /\ (k # Window => k = N - m) /\ m \in Nat /\ m <= N
  BY <1>2, <1>3, <1>4 DEF Kept
<1>6. DOMAIN engine.ring = 1 .. k
  BY <1>1, <1>4
<1>7. IsRepeated(engine, ev) <=>
        \E i \in 1 .. k : hist[N - k + i].call = ev.call /\ hist[N - k + i].content = ev.content
  <2>1. \A i \in 1 .. k : /\ engine.ring[i].generation = engine.generation
                          /\ engine.ring[i].call = hist[N - k + i].call
                          /\ engine.ring[i].content = hist[N - k + i].content
    <3>1. \A i \in 1 .. k :
            engine.ring[i] = [call |-> hist[N - k + i].call, content |-> hist[N - k + i].content,
                              generation |-> engine.generation]
      BY <1>4
    <3> TAKE i \in 1 .. k
    <3>2. engine.ring[i] = [call |-> hist[N - k + i].call, content |-> hist[N - k + i].content,
                            generation |-> engine.generation]
      BY <3>1
    <3> QED
      BY <3>2
  <2>2. IsRepeated(engine, ev) <=>
          \E i \in 1 .. k : /\ engine.ring[i].generation = engine.generation
                            /\ engine.ring[i].call = ev.call /\ engine.ring[i].content = ev.content
    BY <1>6, RepeatedInRing
  <2> QED
    BY <2>1, <2>2
<1>8. Repeats(N + 1)' <=>
        \E j \in 1 .. N : /\ N + 1 - j <= Window
                          /\ hist[j].call = ev.call /\ hist[j].content = ev.content
                          /\ \A i \in j .. N : ~Mutated(i)
  <2>1. (N + 1) - 1 = N /\ \A j \in 1 .. N : \A i \in j .. N : i \in 1 .. N
    BY <1>2
  <2> QED
    BY <1>2, <2>1 DEF Repeats
<1>9. ASSUME NEW i \in 1 .. k
      PROVE  /\ N - k + i \in 1 .. N /\ N + 1 - (N - k + i) <= Window
             /\ \A l \in (N - k + i) .. N : ~Mutated(l)
  <2>1. N - k + i \in 1 .. N /\ N + 1 - (N - k + i) <= Window /\ N - k + i >= m + 1
    <3>1. N \in Nat /\ Window \in Nat
      BY <1>2, <1>3
    <3> QED
      BY <1>5, <3>1
  <2>2. \A l \in (N - k + i) .. N : l \in (m + 1) .. N
    BY <1>2, <1>4, <2>1
  <2> QED
    BY <1>4, <2>1, <2>2 DEF StartsAt
<1>10. ASSUME NEW j \in 1 .. N, N + 1 - j <= Window, \A i \in j .. N : ~Mutated(i)
       PROVE  j - (N - k) \in 1 .. k /\ N - k + (j - (N - k)) = j
  <2>1. j > m
    <3>1. SUFFICES ASSUME j <= m PROVE FALSE
      BY <1>4
    <3>2. m \in j .. N /\ m # 0
      BY <1>2, <1>4, <3>1
    <3> QED
      BY <1>4, <1>10, <3>2 DEF StartsAt
  <2> QED
    <3>1. N + 1 - j <= Window
      BY <1>10
    <3>2. N \in Nat /\ j \in 1 .. N /\ Window \in Nat
      BY <1>2, <1>3
    <3>3. CASE k = Window
      BY <1>5, <3>1, <3>2, <3>3
    <3>4. CASE k # Window
      BY <1>5, <2>1, <3>2, <3>4
    <3> QED
      BY <3>3, <3>4
<1>11. ASSUME IsRepeated(engine, ev) PROVE Repeats(N + 1)'
  <2>1. PICK i \in 1 .. k : hist[N - k + i].call = ev.call /\ hist[N - k + i].content = ev.content
    BY <1>7, <1>11
  <2> QED
    BY <1>8, <1>9, <2>1
<1>12. ASSUME Repeats(N + 1)' PROVE IsRepeated(engine, ev)
  <2>1. PICK j \in 1 .. N : /\ N + 1 - j <= Window
                            /\ hist[j].call = ev.call /\ hist[j].content = ev.content
                            /\ \A i \in j .. N : ~Mutated(i)
    BY <1>8, <1>12
  <2>2. j - (N - k) \in 1 .. k /\ N - k + (j - (N - k)) = j
    BY <1>10, <2>1
  <2> QED
    BY <1>7, <2>1, <2>2
<1> QED
  BY <1>11, <1>12

\* A verification is first seen by the engine if it is its command's first run.
LEMMA FirstSeenLast ==
  ASSUME IInv, NEW ev \in Observations, hist' = Append(hist, ev), NEW N, N = Len(hist),
         IsVerification(ev)
  PROVE  FirstRun(N + 1)' <=> FirstSeen(engine, ev)
<1> DEFINE c == CommandOf[ev.call]
<1>1. hist \in Seq(Observations) /\ c \in Commands
  BY CallAssumption DEF IInv, TypeOK, IsVerification
<1>2. N \in Nat /\ hist'[N + 1] = ev /\ \A i \in 1 .. N : hist'[i] = hist[i]
  BY <1>1, Appended
<1>3. FirstRun(N + 1)' <=> RunsOf(c) = {}
  <2>1. (N + 1) - 1 = N
    BY <1>2
  <2> QED
    BY <1>2, <2>1 DEF FirstRun, RunsOf
<1>4. FirstSeen(engine, ev) <=> RunsOf(c) = {}
  <2>1. CASE RunsOf(c) = {}
    BY <1>1, <2>1 DEF FirstSeen, IInv, FactsAreHistory, NoReceipt
  <2>2. CASE RunsOf(c) # {}
    <3>1. PICK i \in RunsOf(c) :
            engine.receipts[c] = [status |-> ReceiptStatus(hist[i]), generation |-> MutationsUpTo(i)]
      BY <1>1, <2>2 DEF IInv, FactsAreHistory
    <3>2. engine.receipts[c].status = ReceiptStatus(hist[i])
      BY <3>1
    <3>3. ReceiptStatus(hist[i]) # "none"
      BY StatusType DEF Statuses
    <3> QED
      BY <2>2, <3>2, <3>3 DEF FirstSeen
  <2> QED
    BY <2>1, <2>2
<1> QED
  BY <1>3, <1>4

-----------------------------------------------------------------------------
(* One event: the round.                                                   *)

\* What observeTurn does to each flag.
LEMMA ObserveFlags ==
  ASSUME NEW e \in Engine, NEW ev \in Event
  PROVE  LET t == e.turn
             o == ObserveTurn(e, ev)
         IN  /\ o.open
             /\ o.mutation <=> t.mutation \/ IsMutation(ev)
             /\ o.significant <=> t.significant \/ (~IsVerification(ev) /\ ~IsRepeated(e, ev))
             /\ o.verifyNew <=> t.verifyNew \/ (IsVerification(ev) /\ FirstSeen(e, ev))
             /\ o.verifyPass <=> t.verifyPass \/ (IsVerification(ev) /\ ReceiptStatus(ev) = "pass")
<1>1. e.turn \in Turn
  BY DEF Engine
<1>2. CASE IsVerification(ev)
  BY <1>1, <1>2 DEF ObserveTurn, VerifyTurn, Turn
<1>3. CASE ~IsVerification(ev) /\ ev.call \notin Inline
  BY <1>1, <1>3 DEF ObserveTurn, PlainTurn, Turn
<1>4. CASE ~IsVerification(ev) /\ ev.call \in Inline
  BY <1>1, <1>4 DEF ObserveTurn, InlineTurn, Turn
<1> QED
  BY <1>2, <1>3, <1>4

\* And to the streak.
LEMMA ObserveStreak ==
  ASSUME NEW e \in Engine, NEW ev \in Event
  PROVE  LET t == e.turn
             o == ObserveTurn(e, ev)
             n == IF t.fingerprint = <<ev.call, ev.content>> THEN t.streak + 1 ELSE 1
             arms == n >= InlineThreshold /\ ~t.fired
         IN  /\ IsVerification(ev) =>
                  /\ o.fingerprint = t.fingerprint /\ o.streak = t.streak
                  /\ o.armed = t.armed /\ o.fired = t.fired
             /\ ~IsVerification(ev) /\ ev.call \notin Inline =>
                  /\ o.fingerprint = <<>> /\ o.streak = 0
                  /\ o.armed = t.armed /\ o.fired = t.fired
             /\ ~IsVerification(ev) /\ ev.call \in Inline =>
                  /\ o.fingerprint = <<ev.call, ev.content>> /\ o.streak = n
                  /\ o.armed <=> t.armed \/ arms
                  /\ o.fired <=> t.fired \/ arms
<1>1. e.turn \in Turn
  BY DEF Engine
<1>2. CASE IsVerification(ev)
  BY <1>1, <1>2 DEF ObserveTurn, VerifyTurn, Turn
<1>3. CASE ~IsVerification(ev) /\ ev.call \notin Inline
  BY <1>1, <1>3 DEF ObserveTurn, PlainTurn, Turn
<1>4. CASE ~IsVerification(ev) /\ ev.call \in Inline
  BY <1>1, <1>4 DEF ObserveTurn, InlineTurn, Turn
<1> QED
  BY <1>2, <1>3, <1>4

\* The flags take the event in.
LEMMA TurnStep ==
  ASSUME IInv, NEW ev \in Observations, hist' = Append(hist, ev), first' = first,
         engine' = ApplyEvent(engine, ev)
  PROVE  TurnInv'
<1> PICK N : N = Len(hist)
  OBVIOUS
<1>1. hist \in Seq(Observations) /\ engine \in Engine /\ ev \in Event
  BY SessionAssumption DEF IInv, TypeOK
<1>2. N \in Nat /\ Len(hist') = N + 1 /\ hist'[N + 1] = ev
      /\ \A i \in 1 .. N : hist'[i] = hist[i]
  BY <1>1, Appended
<1>3. first \in 1 .. (N + 1)
  BY DEF IInv, TypeOK
<1>4. \A i : i \in first .. (N + 1) <=> i \in first .. N \/ i = N + 1
  BY <1>2, <1>3
<1>5. \A i \in first .. N : i \in 1 .. N
  BY <1>2, <1>3
<1>6. \A i \in first .. N : /\ hist'[i] = hist[i]
                            /\ Mutated(i)' <=> Mutated(i)
                            /\ Repeats(i)' <=> Repeats(i)
                            /\ FirstRun(i)' <=> FirstRun(i)
  BY <1>1, <1>2, <1>5, Stable
<1>7. /\ Mutated(N + 1)' <=> IsMutation(ev)
      /\ Repeats(N + 1)' <=> IsRepeated(engine, ev)
      /\ IsVerification(ev) => (FirstRun(N + 1)' <=> FirstSeen(engine, ev))
  BY <1>1, Stable, RepeatsLast, FirstSeenLast
<1>8. engine'.turn = ObserveTurn(engine, ev)
  BY DEF ApplyEvent
<1> DEFINE t == engine.turn
           o == engine'.turn
           R == first .. N
           RR == first .. (N + 1)
<1>9. /\ o.open
      /\ o.mutation <=> t.mutation \/ IsMutation(ev)
      /\ o.significant <=> t.significant \/ (~IsVerification(ev) /\ ~IsRepeated(engine, ev))
      /\ o.verifyNew <=> t.verifyNew \/ (IsVerification(ev) /\ FirstSeen(engine, ev))
      /\ o.verifyPass <=> t.verifyPass \/ (IsVerification(ev) /\ ReceiptStatus(ev) = "pass")
  BY <1>1, <1>8, ObserveFlags
<1>10. /\ t.mutation <=> \E i \in R : Mutated(i)
       /\ t.significant <=> \E i \in R : ~IsVerification(hist[i]) /\ ~Repeats(i)
       /\ t.verifyNew <=> \E i \in R : IsVerification(hist[i]) /\ FirstRun(i)
       /\ t.verifyPass <=> \E i \in R : IsVerification(hist[i]) /\ ReceiptStatus(hist[i]) = "pass"
  BY DEF IInv, TurnInv
<1>11. first <= Len(hist')
  BY <1>2, <1>3
<1>12. (N + 1) \in RR /\ R \subseteq RR /\ \A i \in RR : i \in R \/ i = N + 1
  BY <1>2, <1>3
<1> HIDE DEF t, o, R, RR
<1>13. o.mutation <=> \E i \in RR : Mutated(i)'
  BY <1>6, <1>7, <1>9, <1>10, <1>12 DEF R
<1>14. o.significant <=> \E i \in RR : ~IsVerification(hist'[i]) /\ ~Repeats(i)'
  <2>1. \A i \in R : (~IsVerification(hist'[i]) /\ ~Repeats(i)')
                      <=> (~IsVerification(hist[i]) /\ ~Repeats(i))
    BY <1>6 DEF R
  <2>2. (~IsVerification(hist'[N + 1]) /\ ~Repeats(N + 1)')
        <=> (~IsVerification(ev) /\ ~IsRepeated(engine, ev))
    BY <1>2, <1>7
  <2> QED
    BY <1>9, <1>10, <1>12, <2>1, <2>2
<1>15. o.verifyNew <=> \E i \in RR : IsVerification(hist'[i]) /\ FirstRun(i)'
  <2>1. \A i \in R : (IsVerification(hist'[i]) /\ FirstRun(i)')
                      <=> (IsVerification(hist[i]) /\ FirstRun(i))
    BY <1>6 DEF R
  <2>2. (IsVerification(hist'[N + 1]) /\ FirstRun(N + 1)')
        <=> (IsVerification(ev) /\ FirstSeen(engine, ev))
    BY <1>2, <1>7
  <2>3. ASSUME o.verifyNew PROVE \E i \in RR : IsVerification(hist'[i]) /\ FirstRun(i)'
    <3>1. CASE t.verifyNew
      BY <1>10, <1>12, <2>1, <3>1
    <3>2. CASE ~t.verifyNew
      BY <1>9, <1>12, <2>2, <2>3, <3>2
    <3> QED
      BY <3>1, <3>2
  <2>4. ASSUME NEW i \in RR, IsVerification(hist'[i]), FirstRun(i)' PROVE o.verifyNew
    <3>1. CASE i \in R
      BY <1>9, <1>10, <2>1, <2>4, <3>1
    <3>2. CASE i = N + 1
      BY <1>9, <2>2, <2>4, <3>2
    <3> QED
      BY <1>12, <3>1, <3>2
  <2> QED
    BY <2>3, <2>4
<1>16. o.verifyPass <=> \E i \in RR : IsVerification(hist'[i]) /\ ReceiptStatus(hist'[i]) = "pass"
  <2> DEFINE passes(x) == IsVerification(x) /\ ReceiptStatus(x) = "pass"
  <2>1. \A i \in R : passes(hist'[i]) <=> passes(hist[i])
    BY <1>6 DEF R
  <2>2. passes(hist'[N + 1]) <=> passes(ev)
    BY <1>2
  <2>3. o.verifyPass <=> t.verifyPass \/ passes(ev)
    BY <1>9
  <2>4. t.verifyPass <=> \E i \in R : passes(hist[i])
    BY <1>10
  <2> HIDE DEF passes
  <2>5. o.verifyPass <=> \E i \in RR : passes(hist'[i])
    BY <1>12, <2>1, <2>2, <2>3, <2>4
  <2> QED
    BY <2>5 DEF passes
<1>17. RR = first' .. Len(hist')
  BY <1>2 DEF RR
<1> QED
  BY <1>9, <1>11, <1>13, <1>14, <1>15, <1>16, <1>17 DEF TurnInv, o

\* The settled rounds and their chain are not touched.
LEMMA RoundsStep ==
  ASSUME IInv, NEW ev \in Observations, hist' = Append(hist, ev), UNCHANGED rounds,
         engine'.chain = engine.chain
  PROVE  RoundsInv' /\ ChainCountsIdleRounds'
<1> PICK N : N = Len(hist)
  OBVIOUS
<1> PICK n : n = Len(rounds)
  OBVIOUS
<1> PICK c : c = engine.chain
  OBVIOUS
<1>1. hist \in Seq(Observations) /\ rounds \in Seq([from : Nat, to : Nat]) /\ c \in Nat /\ n \in Nat
  BY DEF IInv, TypeOK, Engine
<1>2. N \in Nat /\ Len(hist') = N + 1
  BY <1>1, Appended
<1>3. ASSUME NEW i \in 1 .. n
      PROVE  /\ rounds[i].from \in 1 .. rounds[i].to /\ rounds[i].to <= N
             /\ rounds[i].from \in Nat /\ rounds[i].to \in Nat
  <2>1. i \in DOMAIN rounds /\ rounds[i] \in [from : Nat, to : Nat]
    BY <1>1, SeqFacts, Zenon
  <2>2. rounds[i].from \in Nat /\ rounds[i].to \in Nat
    BY <2>1
  <2>3. rounds[i].from \in 1 .. rounds[i].to /\ rounds[i].to <= N
    BY <2>1 DEF IInv, RoundsInv
  <2> QED
    BY <2>2, <2>3
<1>4. ASSUME NEW i \in 1 .. n
      PROVE  Idle(rounds[i].from, rounds[i].to)' <=> Idle(rounds[i].from, rounds[i].to)
  <2> PICK a : a = rounds[i].from
    OBVIOUS
  <2> PICK b : b = rounds[i].to
    OBVIOUS
  <2>1. a \in Nat \ {0} /\ b \in Nat /\ b <= Len(hist)
    BY <1>3
  <2>2. Idle(a, b)' <=> Idle(a, b)
    BY <1>1, <2>1, StableIdle
  <2> QED
    BY <2>2
<1>5. RoundsInv'
  BY <1>1, <1>2, <1>3 DEF RoundsInv
<1>6. ChainCountsIdleRounds'
  <2>1. /\ c <= n
        /\ \A i \in (n - c + 1) .. n : Idle(rounds[i].from, rounds[i].to)
        /\ c < n => ~Idle(rounds[n - c].from, rounds[n - c].to)
    BY DEF IInv, ChainCountsIdleRounds
  <2>2. \A i \in (n - c + 1) .. n : i \in 1 .. n
    BY <1>1, <2>1
  <2>3. c < n => n - c \in 1 .. n
    BY <1>1, <2>1
  <2>4. \A i \in (n - c + 1) .. n : Idle(rounds[i].from, rounds[i].to)'
    BY <1>4, <2>1, <2>2
  <2>5. c < n => ~Idle(rounds[n - c].from, rounds[n - c].to)'
    BY <1>4, <2>1, <2>3
  <2> QED
    BY <2>1, <2>4, <2>5 DEF ChainCountsIdleRounds
<1> QED
  BY <1>5, <1>6

-----------------------------------------------------------------------------
(* One event: the streak.                                                  *)

\* A run stays one, with an event more.
LEMMA RunKept ==
  ASSUME hist \in Seq(Observations), NEW ev \in Observations, hist' = Append(hist, ev),
         first \in Nat \ {0}, first' = first, NEW S, NEW key, RunOf(S, key)
  PROVE  RunOf(S, key)'
<1> PICK N : N = Len(hist)
  OBVIOUS
<1>1. N \in Nat /\ Len(hist') = N + 1 /\ \A i \in 1 .. N : hist'[i] = hist[i]
  BY Appended
<1>2. \A i \in first .. N : i \in 1 .. N /\ i \in first .. (N + 1)
  BY <1>1
<1>3. S \subseteq first .. N
  BY DEF RunOf
<1>4. \A i \in S : hist'[i] = hist[i]
  BY <1>1, <1>2, <1>3
<1>5. S \subseteq first' .. Len(hist')
  BY <1>1, <1>2, <1>3
<1> QED
  BY <1>4, <1>5 DEF RunOf

\* Nor does the event break it, if it belongs to it or is a verification.
LEMMA UnbrokenKept ==
  ASSUME hist \in Seq(Observations), NEW ev \in Observations, hist' = Append(hist, ev),
         first \in Nat \ {0}, first' = first, NEW N, N = Len(hist),
         NEW S, NEW T, S \subseteq first .. N, S \subseteq T, T \subseteq S \cup {N + 1},
         Unbroken(S, N), IsVerification(ev) \/ N + 1 \in T
  PROVE  Unbroken(T, N + 1)'
<1>1. N \in Nat /\ Len(hist') = N + 1 /\ hist'[N + 1] = ev /\ \A i \in 1 .. N : hist'[i] = hist[i]
  BY Appended
<1> SUFFICES ASSUME NEW i \in T, NEW k \in first .. (N + 1), i < k, k <= N + 1
             PROVE  k \in T \/ IsVerification(hist'[k])
  BY <1>1 DEF Unbroken
<1>2. i # N + 1
  BY <1>1
<1>3. i \in S
  BY <1>2
<1>4. CASE k = N + 1
  BY <1>1, <1>4
<1>5. CASE k # N + 1
  <2>1. k \in first .. N /\ k <= N /\ k \in 1 .. N
    BY <1>1, <1>5
  <2>2. k \in S \/ IsVerification(hist[k])
    BY <1>3, <2>1 DEF Unbroken
  <2> QED
    BY <1>1, <2>1, <2>2
<1> QED
  BY <1>4, <1>5

\* An inline call extends the run, or starts one.
LEMMA InlineRun ==
  ASSUME IInv, NEW ev \in Observations, hist' = Append(hist, ev), first' = first,
         ~IsVerification(ev), ev.call \in Inline, NEW N, N = Len(hist),
         NEW n, n = IF engine.turn.fingerprint = <<ev.call, ev.content>>
                    THEN engine.turn.streak + 1 ELSE 1
  PROVE  \E S \in SUBSET (first .. (N + 1)) :
           /\ IsFiniteSet(S) /\ Cardinality(S) = n
           /\ RunOf(S, <<ev.call, ev.content>>)' /\ Unbroken(S, N + 1)'
<1> DEFINE key == <<ev.call, ev.content>>
<1>1. hist \in Seq(Observations) /\ first \in 1 .. (N + 1) /\ first \in Nat \ {0}
  <2>1. N \in Nat
    BY DEF IInv, TypeOK
  <2> QED
    BY <2>1 DEF IInv, TypeOK
<1>2. N \in Nat /\ Len(hist') = N + 1 /\ hist'[N + 1] = ev
  BY <1>1, Appended
<1>3. N + 1 \in first .. (N + 1) /\ ev.call \in Inline \ Verifiers
  BY <1>1, <1>2 DEF IsVerification
<1>4. CASE engine.turn.fingerprint = key
  <2>1. engine.turn.fingerprint # <<>>
    BY <1>4
  <2>2. PICK S \in SUBSET (first .. N) :
          /\ IsFiniteSet(S) /\ Cardinality(S) = engine.turn.streak
          /\ RunOf(S, key) /\ Unbroken(S, N)
    BY <1>4, <2>1 DEF IInv, StreakInv
  <2> DEFINE T == S \cup {N + 1}
  <2>3. N + 1 \notin S
    BY <1>1, <1>2
  <2>4. IsFiniteSet(T) /\ Cardinality(T) = n
    <3>1. IsFiniteSet(T) /\ Cardinality(T) = Cardinality(S) + 1
      BY <2>2, <2>3, FS_AddElement
    <3>2. n = engine.turn.streak + 1
      BY <1>4
    <3> QED
      BY <2>2, <3>1, <3>2
  <2>5. T \subseteq first .. (N + 1)
    <3>1. \A i \in first .. N : i \in first .. (N + 1)
      BY <1>1, <1>2
    <3> QED
      BY <1>3, <2>2, <3>1
  <2>6. RunOf(S, key)'
    BY <1>1, <2>2, RunKept
  <2>7. RunOf(T, key)'
    <3>1. T \subseteq first' .. Len(hist')
      BY <1>2, <2>5
    <3>2. \A i \in S : <<hist'[i].call, hist'[i].content>> = key /\ hist'[i].call \in Inline \ Verifiers
      BY <2>6 DEF RunOf
    <3> QED
      BY <1>2, <1>3, <3>1, <3>2 DEF RunOf
  <2>8. Unbroken(T, N + 1)'
    BY <1>1, <2>2, UnbrokenKept
  <2> QED
    BY <2>4, <2>5, <2>7, <2>8
<1>5. CASE engine.turn.fingerprint # key
  <2> DEFINE T == {N + 1}
  <2>1. IsFiniteSet(T) /\ Cardinality(T) = n
    BY <1>5, FS_Singleton
  <2>2. T \subseteq first .. (N + 1)
    BY <1>3
  <2>3. RunOf(T, key)'
    BY <1>2, <1>3 DEF RunOf
  <2>4. Unbroken(T, N + 1)'
    BY <1>1, <1>2 DEF Unbroken
  <2> QED
    BY <2>1, <2>2, <2>3, <2>4
<1> QED
  BY <1>4, <1>5

\* The streak takes the event in.
LEMMA StreakStep ==
  ASSUME IInv, NEW ev \in Observations, hist' = Append(hist, ev), first' = first,
         engine' = ApplyEvent(engine, ev)
  PROVE  StreakInv'
<1> PICK N : N = Len(hist)
  OBVIOUS
<1>1. /\ hist \in Seq(Observations) /\ engine \in Engine /\ ev \in Event
      /\ first \in 1 .. (N + 1) /\ N \in Nat
  BY SessionAssumption DEF IInv, TypeOK
<1>2. Len(hist') = N + 1
  BY <1>1, Appended
<1> DEFINE t == engine.turn
           o == engine'.turn
           key == <<ev.call, ev.content>>
           n == IF t.fingerprint = key THEN t.streak + 1 ELSE 1
<1>3. /\ IsVerification(ev) => o.fingerprint = t.fingerprint /\ o.streak = t.streak
      /\ ~IsVerification(ev) /\ ev.call \notin Inline => o.fingerprint = <<>>
      /\ ~IsVerification(ev) /\ ev.call \in Inline => o.fingerprint = key /\ o.streak = n
  BY <1>1, ObserveStreak DEF ApplyEvent
<1>4. ASSUME o.fingerprint # <<>>
      PROVE  \E S \in SUBSET (first .. (N + 1)) :
               /\ IsFiniteSet(S) /\ Cardinality(S) = o.streak
               /\ RunOf(S, t.fingerprint)' /\ Unbroken(S, N + 1)'
  <2> PICK fp : fp = o.fingerprint
    OBVIOUS
  <2>1. CASE IsVerification(ev)
    <3>1. t.fingerprint = fp /\ o.streak = t.streak /\ fp # <<>>
      BY <1>3, <1>4, <2>1
    <3>2. PICK S \in SUBSET (first .. N) :
            /\ IsFiniteSet(S) /\ Cardinality(S) = t.streak
            /\ RunOf(S, fp) /\ Unbroken(S, N)
      BY <3>1 DEF IInv, StreakInv
    <3>3. first \in Nat \ {0} /\ S \subseteq first .. N /\ S \subseteq S \cup {N + 1}
      BY <1>1
    <3>4. RunOf(S, fp)'
      BY <1>1, <3>2, <3>3, RunKept
    <3>5. Unbroken(S, N + 1)'
      BY <1>1, <2>1, <3>2, <3>3, UnbrokenKept
    <3>6. S \in SUBSET (first .. (N + 1))
      BY <1>1
    <3>7. RunOf(S, t.fingerprint)'
      BY <3>4
    <3> QED
      BY <3>1, <3>2, <3>5, <3>6, <3>7
  <2>2. CASE ~IsVerification(ev) /\ ev.call \in Inline
    <3>1. o.fingerprint = key /\ o.streak = n
      BY <1>3, <2>2
    <3>2. PICK S \in SUBSET (first .. (N + 1)) :
            /\ IsFiniteSet(S) /\ Cardinality(S) = n
            /\ RunOf(S, key)' /\ Unbroken(S, N + 1)'
      BY <2>2, InlineRun
    <3>3. fp = key
      BY <3>1
    <3>4. RunOf(S, fp)'
      BY <3>2, <3>3
    <3>5. RunOf(S, t.fingerprint)'
      BY <3>4
    <3> QED
      BY <3>1, <3>2, <3>5
  <2> QED
    BY <1>3, <1>4, <2>1, <2>2
<1> QED
  BY <1>2, <1>4 DEF StreakInv

\* A reminder is armed by the event that makes the streak long enough.
LEMMA ReminderStep ==
  ASSUME IInv, NEW ev \in Observations, hist' = Append(hist, ev),
         UNCHANGED <<first, reminded>>, engine' = ApplyEvent(engine, ev)
  PROVE  ArmedInv' /\ EarnedInv'
<1> PICK N : N = Len(hist)
  OBVIOUS
<1>1. /\ hist \in Seq(Observations) /\ engine \in Engine /\ ev \in Event
      /\ first \in 1 .. (N + 1) /\ N \in Nat /\ reminded \in Nat
  BY SessionAssumption DEF IInv, TypeOK
<1>2. Len(hist') = N + 1 /\ \A i \in 1 .. N : hist'[i] = hist[i]
  BY <1>1, Appended
<1>3. InlineThreshold \in Nat /\ InlineThreshold >= 2
  BY OptionAssumption
<1> DEFINE t == engine.turn
           o == engine'.turn
           key == <<ev.call, ev.content>>
           n == IF t.fingerprint = key THEN t.streak + 1 ELSE 1
           arms == n >= InlineThreshold /\ ~t.fired
<1>4. t.streak \in Nat /\ t.armed \in BOOLEAN /\ t.fired \in BOOLEAN
  BY <1>1 DEF Engine, Turn
<1>5. /\ IsVerification(ev) =>
           /\ o.fingerprint = t.fingerprint /\ o.streak = t.streak
           /\ o.armed = t.armed /\ o.fired = t.fired
      /\ ~IsVerification(ev) /\ ev.call \notin Inline =>
           /\ o.fingerprint = <<>> /\ o.streak = 0
           /\ o.armed = t.armed /\ o.fired = t.fired
      /\ ~IsVerification(ev) /\ ev.call \in Inline =>
           /\ o.fingerprint = key /\ o.streak = n
           /\ o.armed <=> t.armed \/ arms
           /\ o.fired <=> t.fired \/ arms
  BY <1>1, ObserveStreak DEF ApplyEvent
<1>6. /\ t.armed => t.fired /\ reminded = 0
      /\ reminded <= 1 /\ (reminded > 0 => t.fired)
      /\ ~t.fired => t.streak < InlineThreshold
      /\ t.fingerprint = <<>> => t.streak = 0
  BY DEF IInv, ArmedInv
<1>7. n \in Nat /\ (~t.fired => n <= InlineThreshold) /\ key # <<>>
  BY <1>3, <1>4, <1>6
<1> HIDE DEF t, o, key, n
<1>8. ArmedInv'
  <2>1. /\ o.armed => o.fired /\ reminded = 0
        /\ reminded <= 1 /\ (reminded > 0 => o.fired)
        /\ ~o.fired => o.streak < InlineThreshold
        /\ o.fingerprint = <<>> => o.streak = 0
    <3>1. CASE IsVerification(ev)
      BY <1>4, <1>5, <1>6, <3>1
    <3>2. CASE ~IsVerification(ev) /\ ev.call \notin Inline
      BY <1>3, <1>4, <1>5, <1>6, <3>2
    <3>3. CASE ~IsVerification(ev) /\ ev.call \in Inline
      <4>1. o.armed => o.fired /\ reminded = 0
        BY <1>1, <1>5, <1>6, <3>3
      <4>2. ~o.fired => o.streak < InlineThreshold
        BY <1>3, <1>5, <1>7, <3>3
      <4> QED
        BY <1>5, <1>6, <1>7, <3>3, <4>1, <4>2
    <3> QED
      BY <3>1, <3>2, <3>3
  <2> QED
    BY <2>1 DEF ArmedInv, o
<1>9. EarnedInv'
  <2> SUFFICES ASSUME o.armed PROVE Earned'
    BY DEF EarnedInv, o
  <2>1. CASE t.armed
    <3>1. PICK S \in SUBSET (first .. N) :
            /\ Cardinality(S) = InlineThreshold
            /\ \A i, j \in S : <<hist[i].call, hist[i].content>> = <<hist[j].call, hist[j].content>>
            /\ \A i \in S : hist[i].call \in Inline \ Verifiers
            /\ \A i, j \in S, k \in first .. N :
                 i < k /\ k < j => k \in S \/ IsVerification(hist[k])
      BY <2>1 DEF IInv, EarnedInv, Earned, t
    <3>2. \A i \in S : hist'[i] = hist[i] /\ i \in first .. (N + 1)
      BY <1>1, <1>2
    <3>3. ASSUME NEW i \in S, NEW j \in S, NEW k \in first .. (N + 1), i < k, k < j
          PROVE  k \in S \/ IsVerification(hist'[k])
      <4>1. k \in first .. N /\ k \in 1 .. N
        BY <1>1, <3>3
      <4> QED
        BY <1>2, <3>1, <3>3, <4>1
    <3>4. S \in SUBSET (first' .. Len(hist'))
      BY <1>2, <3>2
    <3>5. /\ \A i, j \in S : <<hist'[i].call, hist'[i].content>> = <<hist'[j].call, hist'[j].content>>
          /\ \A i \in S : hist'[i].call \in Inline \ Verifiers
      <4>1. ASSUME NEW i \in S, NEW j \in S
            PROVE  <<hist'[i].call, hist'[i].content>> = <<hist'[j].call, hist'[j].content>>
        <5>1. hist'[i] = hist[i] /\ hist'[j] = hist[j]
          BY <3>2
        <5>2. <<hist[i].call, hist[i].content>> = <<hist[j].call, hist[j].content>>
          BY <3>1, Zenon
        <5> QED
          BY <5>1, <5>2, Zenon
      <4>2. \A i \in S : hist'[i].call \in Inline \ Verifiers
        BY <3>1, <3>2, Zenon
      <4> QED
        BY <4>1, <4>2, Zenon
    <3>6. \A i, j \in S, k \in first' .. Len(hist') :
            i < k /\ k < j => k \in S \/ IsVerification(hist'[k])
      BY <1>2, <3>3
    <3> QED
      BY <3>1, <3>4, <3>5, <3>6 DEF Earned
  <2>2. CASE ~t.armed
    <3>1. ~IsVerification(ev) /\ ev.call \in Inline /\ arms
      BY <1>5, <2>2
    <3>2. n = InlineThreshold
      BY <1>3, <1>7, <3>1
    <3>3. PICK S \in SUBSET (first .. (N + 1)) :
            /\ IsFiniteSet(S) /\ Cardinality(S) = n
            /\ RunOf(S, key)' /\ Unbroken(S, N + 1)'
      BY <3>1, InlineRun DEF n, t, key
    <3>4. S \in SUBSET (first' .. Len(hist'))
      BY <1>2
    <3>5. /\ \A i, j \in S : <<hist'[i].call, hist'[i].content>> = <<hist'[j].call, hist'[j].content>>
          /\ \A i \in S : hist'[i].call \in Inline \ Verifiers
      <4>1. \A i \in S : <<hist'[i].call, hist'[i].content>> = key /\ hist'[i].call \in Inline \ Verifiers
        BY <3>3 DEF RunOf, key
      <4> QED
        BY <4>1
    <3>6. \A i, j \in S, k \in first' .. Len(hist') :
            i < k /\ k < j => k \in S \/ IsVerification(hist'[k])
      <4>1. \A i \in S, k \in first' .. Len(hist') :
              i < k /\ k <= N + 1 => k \in S \/ IsVerification(hist'[k])
        BY <3>3 DEF Unbroken
      <4>2. \A k \in first' .. Len(hist') : k <= N + 1
        BY <1>1, <1>2
      <4> QED
        BY <4>1, <4>2
    <3> QED
      BY <3>2, <3>3, <3>4, <3>5, <3>6 DEF Earned
  <2> QED
    BY <2>1, <2>2
<1> QED
  BY <1>8, <1>9
-----------------------------------------------------------------------------
(* The other operations: the history stays as it is.                       *)

\* What is said of the events stays.
LEMMA SameEvents ==
  ASSUME hist' = hist
  PROVE  \A i : /\ Mutated(i)' <=> Mutated(i)
                /\ Repeats(i)' <=> Repeats(i)
                /\ FirstRun(i)' <=> FirstRun(i)
  BY DEF Mutated, Repeats, FirstRun

LEMMA SameHistory ==
  ASSUME hist' = hist
  PROVE  /\ \A a, b : Idle(a, b)' <=> Idle(a, b)
         /\ \A n : MutationsUpTo(n)' = MutationsUpTo(n)
         /\ \A c : RunsOf(c)' = RunsOf(c)
<1>1. \A a, b : Idle(a, b)' <=> Idle(a, b)
  BY SameEvents DEF Idle
<1>2. \A n : MutationsUpTo(n)' = MutationsUpTo(n)
  BY DEF MutationsUpTo, Mutated
<1>3. \A c : RunsOf(c)' = RunsOf(c)
  BY DEF RunsOf
<1> QED
  BY <1>1, <1>2, <1>3, Zenon

\* So do the flags and the streak of a round that only hands its reminder out.
LEMMA SameRound ==
  ASSUME IInv, hist' = hist, first' = first,
         LET t == engine.turn
             o == engine'.turn
         IN  /\ o.open = t.open /\ o.mutation = t.mutation /\ o.significant = t.significant
             /\ o.verifyNew = t.verifyNew /\ o.verifyPass = t.verifyPass
             /\ o.fingerprint = t.fingerprint /\ o.streak = t.streak
  PROVE  TurnInv' /\ StreakInv'
<1> DEFINE R == first .. Len(hist)
<1>1. first' .. Len(hist') = R
  OBVIOUS
<1>2. /\ (\E i \in R : Mutated(i)') <=> \E i \in R : Mutated(i)
      /\ (\E i \in R : ~IsVerification(hist'[i]) /\ ~Repeats(i)')
         <=> \E i \in R : ~IsVerification(hist[i]) /\ ~Repeats(i)
      /\ (\E i \in R : IsVerification(hist'[i]) /\ FirstRun(i)')
         <=> \E i \in R : IsVerification(hist[i]) /\ FirstRun(i)
  BY SameEvents
<1>3. TurnInv'
  BY <1>1, <1>2 DEF IInv, TurnInv
<1>4. \A S, key, n : /\ RunOf(S, key)' <=> RunOf(S, key)
                     /\ Unbroken(S, n)' <=> Unbroken(S, n)
  BY DEF RunOf, Unbroken
<1>5. StreakInv'
  <2> SUFFICES ASSUME engine'.turn.fingerprint # <<>>
               PROVE  \E S \in SUBSET R :
                        /\ IsFiniteSet(S) /\ Cardinality(S) = engine.turn.streak
                        /\ RunOf(S, engine.turn.fingerprint)' /\ Unbroken(S, Len(hist))'
    BY <1>1 DEF StreakInv
  <2> PICK fp : fp = engine.turn.fingerprint
    OBVIOUS
  <2> PICK n : n = Len(hist)
    OBVIOUS
  <2>1. PICK S \in SUBSET R :
          /\ IsFiniteSet(S) /\ Cardinality(S) = engine.turn.streak
          /\ RunOf(S, fp) /\ Unbroken(S, n)
    BY DEF IInv, StreakInv
  <2>2. RunOf(S, fp)' /\ Unbroken(S, n)'
    BY <1>4, <2>1
  <2>3. RunOf(S, engine.turn.fingerprint)' /\ Unbroken(S, Len(hist))'
    BY <2>2
  <2> QED
    BY <2>1, <2>3
<1> QED
  BY <1>3, <1>5

\* So do the durable facts and the ring, of an engine that keeps its own.
LEMMA DurableStay ==
  ASSUME IInv, hist' = hist, engine'.generation = engine.generation,
         engine'.ring = engine.ring, engine'.receipts = engine.receipts
  PROVE  FactsAreHistory' /\ RingInv'
<1>1. FactsAreHistory'
  <2>1. engine'.generation = MutationsUpTo(Len(hist))'
    <3> PICK n : n = Len(hist)
      OBVIOUS
    <3>1. engine.generation = MutationsUpTo(n) /\ MutationsUpTo(n)' = MutationsUpTo(n)
      BY SameHistory DEF IInv, FactsAreHistory
    <3>2. MutationsUpTo(Len(hist))' = MutationsUpTo(n)'
      OBVIOUS
    <3> QED
      BY <3>1, <3>2
  <2>2. \A c \in Commands :
          IF RunsOf(c)' = {} THEN engine'.receipts[c] = NoReceipt
          ELSE \E i \in RunsOf(c)' :
                 /\ \A j \in RunsOf(c)' : j <= i
                 /\ engine'.receipts[c] = [status |-> ReceiptStatus(hist'[i]),
                                           generation |-> MutationsUpTo(i)']
    BY SameHistory DEF IInv, FactsAreHistory
  <2> QED
    BY <2>1, <2>2 DEF FactsAreHistory
<1>2. RingInv'
  <2>1. PICK m \in 0 .. Len(hist) :
          /\ StartsAt(m) /\ Len(engine.ring) = Kept(m)
          /\ \A i \in 1 .. Kept(m) :
               LET v == hist[Len(hist) - Kept(m) + i]
               IN  engine.ring[i] = [call |-> v.call, content |-> v.content,
                                     generation |-> engine.generation]
    BY DEF IInv, RingInv
  <2>2. StartsAt(m)'
    BY <2>1, SameEvents DEF StartsAt
  <2>3. Kept(m)' = Kept(m)
    BY DEF Kept
  <2> QED
    BY <2>1, <2>2, <2>3 DEF RingInv
<1> QED
  BY <1>1, <1>2

\* A new round is open on nothing.
LEMMA NewRound ==
  ASSUME IInv, hist' = hist, first' = Len(hist) + 1, reminded' = 0, engine'.turn = NoTurn
  PROVE  TurnInv' /\ StreakInv' /\ ArmedInv' /\ EarnedInv'
<1>1. Len(hist) \in Nat
  BY DEF IInv, TypeOK
<1>2. InlineThreshold \in Nat /\ 0 < InlineThreshold
  BY OptionAssumption
<1>3. first' .. Len(hist') = {} /\ ~(first' <= Len(hist'))
  BY <1>1
<1>4. TurnInv'
  BY <1>3 DEF TurnInv, NoTurn
<1> QED
  BY <1>2, <1>4 DEF StreakInv, ArmedInv, EarnedInv, NoTurn

\* The flags of a round decide its verdict.
LEMMA VerdictIsExact ==
  ASSUME IInv
  PROVE  RoundVerdictIsExact
<1>1. \A i : IsVerification(hist[i]) \in BOOLEAN
  BY DEF IsVerification
<1>2. engine.turn \in Turn
  BY DEF IInv, TypeOK, Engine
<1>3. ASSUME ZeroProgress(engine.turn) PROVE Idle(first, Len(hist))
  BY <1>3 DEF IInv, TurnInv, ZeroProgress, Idle
<1>4. ASSUME Idle(first, Len(hist)) PROVE ZeroProgress(engine.turn)
  BY <1>2, <1>4 DEF IInv, TurnInv, ZeroProgress, Idle, Turn
<1> QED
  BY <1>3, <1>4 DEF IInv, TurnInv, RoundVerdictIsExact

\* Without new rounds and with its chain the engine still counts them.
LEMMA RoundsStay ==
  ASSUME IInv, hist' = hist, rounds' = rounds, engine'.chain = engine.chain
  PROVE  RoundsInv' /\ ChainCountsIdleRounds'
<1>1. RoundsInv'
  BY DEF IInv, RoundsInv
<1>2. ChainCountsIdleRounds'
  <2> PICK n : n = Len(rounds)
    OBVIOUS
  <2> PICK c : c = engine.chain
    OBVIOUS
  <2>1. /\ c <= n
        /\ \A i \in (n - c + 1) .. n : Idle(rounds[i].from, rounds[i].to)
        /\ c < n => ~Idle(rounds[n - c].from, rounds[n - c].to)
    BY DEF IInv, ChainCountsIdleRounds
  <2>2. \A i : Idle(rounds[i].from, rounds[i].to)' <=> Idle(rounds[i].from, rounds[i].to)
    <3> TAKE i
    <3> PICK a : a = rounds[i].from
      OBVIOUS
    <3> PICK b : b = rounds[i].to
      OBVIOUS
    <3>1. Idle(a, b)' <=> Idle(a, b)
      BY SameHistory
    <3> QED
      BY <3>1
  <2> QED
    BY <2>1, <2>2 DEF ChainCountsIdleRounds
<1> QED
  BY <1>1, <1>2

\* A chain without rounds counts none.
LEMMA NoRounds ==
  ASSUME rounds' = <<>>, engine'.chain = 0
  PROVE  RoundsInv' /\ ChainCountsIdleRounds'
  BY DEF RoundsInv, ChainCountsIdleRounds

\* A settled round is the last of the rounds, and the chain takes its verdict in.
LEMMA SettledRound ==
  ASSUME IInv, Settle
  PROVE  RoundsInv' /\ ChainCountsIdleRounds'
<1> PICK N : N = Len(hist)
  OBVIOUS
<1> PICK n : n = Len(rounds)
  OBVIOUS
<1> PICK c : c = engine.chain
  OBVIOUS
<1>1. /\ hist \in Seq(Observations) /\ rounds \in Seq([from : Nat, to : Nat])
      /\ c \in Nat /\ n \in Nat /\ N \in Nat /\ first \in 1 .. (N + 1)
  BY DEF IInv, TypeOK, Engine
<1>2. hist' = hist /\ engine'.chain = ChainAfter(engine)
  BY DEF Settle, EndTurn, IInv, TypeOK, Engine
<1>3. /\ engine.turn.open <=> first <= N
      /\ ZeroProgress(engine.turn) <=> Idle(first, N)
  BY VerdictIsExact DEF RoundVerdictIsExact
<1>4. CASE ~(first <= N)
  <2>1. rounds' = rounds /\ engine'.chain = engine.chain
    BY <1>2, <1>3, <1>4 DEF Settle, ChainAfter
  <2> QED
    BY <1>2, <2>1, RoundsStay
<1>5. CASE first <= N
  <2>0. c \in Nat /\ n \in Nat
    BY <1>1
  <2> DEFINE r == [from |-> first, to |-> N]
  <2>1. rounds' = Append(rounds, r) /\ r \in [from : Nat, to : Nat]
    BY <1>1, <1>5 DEF Settle
  <2>2. r.from = first /\ r.to = N
    OBVIOUS
  <2> HIDE DEF r
  <2>3. /\ Len(rounds') = n + 1 /\ rounds'[n + 1] = r /\ DOMAIN rounds' = 1 .. (n + 1)
        /\ DOMAIN rounds = 1 .. n /\ \A i \in 1 .. n : rounds'[i] = rounds[i]
    <3> PICK R : R = [from : Nat, to : Nat]
      OBVIOUS
    <3>1. rounds \in Seq(R) /\ r \in R
      BY <1>1, <2>1
    <3> QED
      BY <1>1, <2>1, <3>1
  <2>4. RoundsInv'
    <3>1. \A i \in 1 .. n : rounds[i].from \in 1 .. rounds[i].to /\ rounds[i].to <= N
      BY <2>3 DEF IInv, RoundsInv
    <3>2. r.from \in 1 .. r.to /\ r.to <= N
      BY <1>1, <1>5, <2>2
    <3>3. \A i \in 1 .. (n + 1) : i \in 1 .. n \/ i = n + 1
      BY <1>1
    <3>4. \A i \in 1 .. (n + 1) : rounds'[i].from \in 1 .. rounds'[i].to /\ rounds'[i].to <= N
      BY <2>3, <3>1, <3>2, <3>3
    <3> QED
      BY <1>2, <2>3, <3>4 DEF RoundsInv
  <2> DEFINE idle(i) == Idle(rounds[i].from, rounds[i].to)
             idleNow(i) == Idle(rounds'[i].from, rounds'[i].to)
  <2>5. \A a, b : Idle(a, b)' <=> Idle(a, b)
    BY <1>2, SameHistory
  <2>6. (\A i \in 1 .. n : idleNow(i) <=> idle(i)) /\ (idleNow(n + 1) <=> Idle(first, N))
    BY <2>2, <2>3
  <2>7. /\ c <= n
        /\ \A i \in (n - c + 1) .. n : idle(i)
        /\ c < n => ~idle(n - c)
    BY DEF IInv, ChainCountsIdleRounds
  <2> HIDE DEF idle, idleNow
  <2> PICK d : d = engine'.chain
    OBVIOUS
  <2> PICK k : k = n + 1
    OBVIOUS
  <2>8. /\ d <= k
        /\ \A i \in (k - d + 1) .. k : idleNow(i)
        /\ d < k => ~idleNow(k - d)
    <3>1. CASE Idle(first, N)
      <4>1. d = c + 1
        BY <1>2, <1>3, <1>5, <3>1 DEF ChainAfter
      <4>2. k - d = n - c /\ (c < n => n - c \in 1 .. n) /\ (d < k => c < n) /\ d <= k
        BY <2>0, <2>7, <4>1
      <4>3. \A i \in (n - c + 1) .. k :
              i = n + 1 \/ (i \in (n - c + 1) .. n /\ i \in 1 .. n)
        BY <2>0, <2>7
      <4>4. \A i \in (n - c + 1) .. k : idleNow(i)
        BY <2>6, <2>7, <3>1, <4>3
      <4>5. d < k => ~idleNow(n - c)
        BY <2>6, <2>7, <4>2
      <4> QED
        BY <4>2, <4>4, <4>5
    <3>2. CASE ~Idle(first, N)
      <4>1. d = 0 /\ d <= k /\ k - d = n + 1 /\ (k - d + 1) .. k = {}
        BY <1>2, <1>3, <1>5, <2>0, <3>2 DEF ChainAfter
      <4> QED
        BY <2>6, <3>2, <4>1
    <3> QED
      BY <3>1, <3>2
  <2>9. \A i : Idle(rounds[i].from, rounds[i].to)' <=> idleNow(i)
    <3> TAKE i
    <3> PICK a : a = rounds'[i].from
      OBVIOUS
    <3> PICK b : b = rounds'[i].to
      OBVIOUS
    <3>1. Idle(a, b)' <=> Idle(a, b)
      BY <2>5
    <3> QED
      BY <3>1 DEF idleNow
  <2>10. ChainCountsIdleRounds'
    <3>1. \A i \in (k - d + 1) .. k : Idle(rounds[i].from, rounds[i].to)'
      BY <2>8, <2>9
    <3>2. d < k => ~Idle(rounds[k - d].from, rounds[k - d].to)'
      BY <2>8, <2>9
    <3>3. d <= k /\ Len(rounds') = k
      BY <2>3, <2>8
    <3> QED
      BY <3>1, <3>2, <3>3 DEF ChainCountsIdleRounds
  <2> QED
    BY <2>4, <2>10
<1> QED
  BY <1>4, <1>5

-----------------------------------------------------------------------------
(* Every step.                                                             *)

LEMMA InitInv == Init => IInv
<1> SUFFICES ASSUME Init PROVE IInv
  OBVIOUS
<1>1. TypeOK
  BY NewEngineType DEF Init, TypeOK
<1>2. InlineThreshold \in Nat /\ 0 < InlineThreshold /\ Window \in Nat \ {0}
  BY OptionAssumption
<1>3. Len(hist) = 0 /\ 1 .. 0 = {} /\ ~(1 <= 0)
  BY DEF Init
<1>4. FactsAreHistory
  <2>1. {i \in 1 .. Len(hist) : Mutated(i)} = {}
    BY <1>3
  <2>2. MutationsUpTo(Len(hist)) = 0
    BY <2>1, FS_EmptySet DEF MutationsUpTo
  <2>3. \A c \in Commands : RunsOf(c) = {} /\ engine.receipts[c] = NoReceipt
    BY <1>3 DEF RunsOf, Init, NewEngine
  <2> QED
    BY <2>2, <2>3 DEF FactsAreHistory, Init, NewEngine
<1>5. RingInv
  <2>1. StartsAt(0) /\ Kept(0) = 0
    BY <1>2, <1>3 DEF StartsAt, Kept
  <2> QED
    BY <1>3, <2>1 DEF RingInv, Init, NewEngine
<1>6. TurnInv /\ StreakInv /\ ArmedInv /\ EarnedInv
  BY <1>2, <1>3 DEF TurnInv, StreakInv, ArmedInv, EarnedInv, Init, NewEngine, NoTurn
<1>7. RoundsInv /\ ChainCountsIdleRounds
  BY DEF RoundsInv, ChainCountsIdleRounds, Init, NewEngine
<1> QED
  BY <1>1, <1>4, <1>5, <1>6, <1>7 DEF IInv

LEMMA NextInv == IInv /\ [Next]_vars => IInv'
<1> SUFFICES ASSUME IInv, [Next]_vars PROVE IInv'
  OBVIOUS
<1>1. /\ engine \in Engine /\ hist \in Seq(Observations) /\ Len(hist) \in Nat
      /\ rounds \in Seq([from : Nat, to : Nat]) /\ first \in 1 .. (Len(hist) + 1)
      /\ reminded \in Nat
  BY DEF IInv, TypeOK
<1>2. ASSUME NEW ev \in Observations, Observe(ev) PROVE IInv'
  <2>1. /\ hist' = Append(hist, ev) /\ engine' = ApplyEvent(engine, ev)
        /\ UNCHANGED <<rounds, first, reminded>>
    BY <1>2 DEF Observe
  <2>2. TypeOK'
    <3>1. engine' \in Engine
      BY <1>1, <2>1, ApplyEventType, SessionAssumption
    <3>2. hist' \in Seq(Observations) /\ Len(hist') = Len(hist) + 1
      BY <1>1, <2>1, Appended
    <3>3. first' \in 1 .. (Len(hist') + 1)
      BY <1>1, <2>1, <3>2
    <3> QED
      BY <1>1, <2>1, <3>1, <3>2, <3>3 DEF TypeOK
  <2>3. FactsAreHistory' /\ RingInv' /\ TurnInv' /\ StreakInv' /\ ArmedInv' /\ EarnedInv'
    BY <2>1, FactsStep, RingStep, TurnStep, StreakStep, ReminderStep
  <2>4. RoundsInv' /\ ChainCountsIdleRounds'
    <3>1. engine'.chain = engine.chain
      BY <2>1 DEF ApplyEvent
    <3> QED
      BY <1>1, <2>1, <3>1, RoundsStep
  <2> QED
    BY <2>2, <2>3, <2>4 DEF IInv
<1>3. CASE Remind
  <2> PICK t : t = engine.turn
    OBVIOUS
  <2>1. /\ t.armed /\ UNCHANGED <<hist, rounds, first>> /\ reminded' = reminded + 1
        /\ engine' = [engine EXCEPT !.turn.armed = FALSE]
    BY <1>3 DEF Remind, ConsumeInlineReminder
  <2>2. engine' \in Engine
    BY <1>1, <2>1, RoundOperations DEF ConsumeInlineReminder
  <2>3. /\ engine'.generation = engine.generation /\ engine'.ring = engine.ring
        /\ engine'.receipts = engine.receipts /\ engine'.chain = engine.chain
    BY <1>1, <2>1 DEF Engine
  <2>4. engine'.turn = [t EXCEPT !.armed = FALSE] /\ t \in Turn
    BY <1>1, <2>1 DEF Engine
  <2>5. /\ engine'.turn.open = t.open /\ engine'.turn.mutation = t.mutation
        /\ engine'.turn.significant = t.significant /\ engine'.turn.verifyNew = t.verifyNew
        /\ engine'.turn.verifyPass = t.verifyPass /\ engine'.turn.fingerprint = t.fingerprint
        /\ engine'.turn.streak = t.streak /\ engine'.turn.fired = t.fired
        /\ engine'.turn.armed = FALSE
    BY <2>4 DEF Turn
  <2>6. TypeOK'
    BY <1>1, <2>1, <2>2 DEF TypeOK
  <2>7. FactsAreHistory' /\ RingInv' /\ RoundsInv' /\ ChainCountsIdleRounds'
    BY <2>1, <2>3, DurableStay, RoundsStay
  <2>8. TurnInv' /\ StreakInv'
    BY <2>1, <2>5, SameRound
  <2>9. ArmedInv' /\ EarnedInv'
    BY <1>1, <2>1, <2>5 DEF IInv, ArmedInv, EarnedInv
  <2> QED
    BY <2>6, <2>7, <2>8, <2>9 DEF IInv
<1>4. CASE Settle
  <2>1. /\ engine' = EndTurn(engine) /\ hist' = hist /\ first' = Len(hist) + 1 /\ reminded' = 0
    BY <1>4 DEF Settle
  <2>2. /\ engine'.generation = engine.generation /\ engine'.ring = engine.ring
        /\ engine'.receipts = engine.receipts /\ engine'.turn = NoTurn
    BY <1>1, <2>1 DEF Engine, EndTurn
  <2>3. TypeOK'
    <3>1. engine' \in Engine
      BY <1>1, <2>1, RoundOperations
    <3>2. rounds' \in Seq([from : Nat, to : Nat])
      <4> DEFINE r == [from |-> first, to |-> Len(hist)]
      <4>1. r \in [from : Nat, to : Nat]
        BY <1>1
      <4> HIDE DEF r
      <4>2. rounds' = IF first <= Len(hist) THEN Append(rounds, r) ELSE rounds
        BY <1>4 DEF Settle, r
      <4>3. Append(rounds, r) \in Seq([from : Nat, to : Nat])
        BY <1>1, <4>1, SeqFacts, Zenon
      <4> QED
        BY <1>1, <4>2, <4>3, Zenon
    <3> QED
      BY <1>1, <2>1, <3>1, <3>2 DEF TypeOK
  <2> QED
    BY <1>4, <2>1, <2>2, <2>3, DurableStay, NewRound, SettledRound DEF IInv
<1>5. CASE Interject \/ Reload
  <2>1. hist' = hist /\ first' = Len(hist) + 1 /\ reminded' = 0 /\ rounds' = <<>>
    BY <1>5 DEF Interject, Reload
  <2>2. /\ engine' \in Engine /\ engine'.turn = NoTurn /\ engine'.chain = 0
        /\ engine'.generation = engine.generation /\ engine'.ring = engine.ring
        /\ engine'.receipts = engine.receipts
    <3>1. CASE Interject
      BY <1>1, <3>1, RoundOperations DEF Interject, ResetChains, Engine
    <3>2. CASE Reload
      BY <1>1, <3>2, NewEngineType DEF Reload, Restore, Snapshot, NewEngine, Engine
    <3> QED
      BY <1>5, <3>1, <3>2
  <2>3. TypeOK'
    BY <1>1, <2>1, <2>2 DEF TypeOK
  <2> QED
    BY <2>1, <2>2, <2>3, DurableStay, NewRound, NoRounds DEF IInv
<1>6. CASE UNCHANGED vars
  <2>1. UNCHANGED <<engine, hist, rounds, first, reminded>>
    BY <1>6 DEF vars
  <2>2. TypeOK'
    BY <2>1 DEF IInv, TypeOK
  <2>3. FactsAreHistory' /\ RingInv' /\ RoundsInv' /\ ChainCountsIdleRounds'
    BY <2>1, DurableStay, RoundsStay
  <2>4. TurnInv' /\ StreakInv'
    BY <2>1, SameRound
  <2>5. ArmedInv' /\ EarnedInv'
    BY <2>1 DEF IInv, ArmedInv, EarnedInv, Earned
  <2> QED
    BY <2>2, <2>3, <2>4, <2>5 DEF IInv
<1> QED
  BY <1>2, <1>3, <1>4, <1>5, <1>6 DEF Next

LEMMA Inductive == Spec => []IInv
<1> QED
  BY InitInv, NextInv, PTL DEF Spec

-----------------------------------------------------------------------------
(* The theorems.                                                           *)

\* Every public method returns a well-formed engine, whatever it was fed.
THEOREM SessionType == Spec => []TypeOK
<1>1. IInv => TypeOK
  BY DEF IInv
<1> QED
  BY <1>1, Inductive, PTL

\* generation and receipts are what the whole history makes them, whatever was
\* settled, reset or reloaded in between.
THEOREM FactsAreAlwaysHistory == Spec => []FactsAreHistory
<1>1. IInv => FactsAreHistory
  BY DEF IInv
<1> QED
  BY <1>1, Inductive, PTL

\* The ring is the last fingerprintWindow observations since the last mutation.
THEOREM RingIsAlwaysWindow == Spec => []RingIsWindow
<1>1. IInv => RingIsWindow
  <2> SUFFICES ASSUME IInv PROVE RingIsWindow
    OBVIOUS
  <2>1. hist \in Seq(Observations)
    BY DEF IInv, TypeOK
  <2>2. PICK m \in 0 .. Len(hist) :
          /\ StartsAt(m) /\ Len(engine.ring) = Kept(m)
          /\ \A i \in 1 .. Kept(m) :
               LET v == hist[Len(hist) - Kept(m) + i]
               IN  engine.ring[i] = [call |-> v.call, content |-> v.content,
                                     generation |-> engine.generation]
    BY DEF IInv, RingInv
  <2>3. LastMutation = m
    BY <2>1, <2>2, LastMutationIs
  <2> QED
    BY <2>2, <2>3 DEF RingIsWindow, Kept
<1> QED
  BY <1>1, Inductive, PTL

\* endTurn calls a round zero progress exactly when nothing in it was new.
THEOREM RoundVerdictIsAlwaysExact == Spec => []RoundVerdictIsExact
<1>1. IInv => RoundVerdictIsExact
  BY VerdictIsExact
<1> QED
  BY <1>1, Inductive, PTL

\* turnChainLength is the number of idle rounds at the end of the settled ones.
THEOREM ChainIsIdleRounds == Spec => []ChainCountsIdleRounds
<1>1. IInv => ChainCountsIdleRounds
  BY DEF IInv
<1> QED
  BY <1>1, Inductive, PTL

\* An inline reminder is given once a round at most, and for a run of identical
\* inline calls that inlineRepeatThreshold of this round's events make up.
THEOREM ReminderIsAlwaysEarned == Spec => []ReminderIsEarned
<1>1. IInv => ReminderIsEarned
  BY DEF IInv, ArmedInv, EarnedInv, Earned, ReminderIsEarned
<1> QED
  BY <1>1, Inductive, PTL
=============================================================================
