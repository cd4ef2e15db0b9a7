------------------------ MODULE NativeEvidenceProofs ------------------------
(***************************************************************************)
(* What the evidence observer promises, for any number of instances,       *)
(* foreign wrappers, nested calls, executions and ledger sizes.            *)
(*                                                                         *)
(* The argument.  A second mount throws, so at most one observer is active *)
(* (ActiveOwns) and an execution is seen by one at most (CaptureInv); so a *)
(* write is one record or none, and the window moves with the history by   *)
(* one (PushedWindow).  A record is written on the way out of "ended" or   *)
(* with a failing start, and no phase comes back: hence one record each    *)
(* (OnceInv), and a pending count that is the size of a set (PendingInv).  *)
(* Which wrappers a call goes through is not needed for that: Watching is  *)
(* a part of active, whatever the slots hold.  It is for who leaves the    *)
(* path of calls: there the chains of both methods must stay free of       *)
(* cycles, and nobody call on to a wrapper not mounted yet (PathInv).      *)
(***************************************************************************)
EXTENDS NativeEvidence, Induction, SequenceTheorems

\* No observer, no record.
LEMMA RecordedNone ==
  ASSUME NEW l, NEW r
  PROVE  Recorded(l, {}, r) = l
<1> DEFINE Up(f, n) == IF n = 0 THEN l ELSE Pushed(f[n - 1], r)
           up == CHOOSE f : f = [n \in 0 .. 0 |-> Up(f, n)]
           w == [n \in 0 .. 0 |-> l]
<1>1. w = [n \in 0 .. 0 |-> Up(w, n)]
  OBVIOUS
<1>2. up = [n \in 0 .. 0 |-> Up(up, n)]
  BY <1>1
<1>3. up[0] = l
  BY <1>2
<1>4. Cardinality({}) = 0
  BY FS_EmptySet
<1>5. Recorded(l, {}, r) = up[0]
  BY <1>4 DEF Recorded
<1> QED
  BY <1>3, <1>5

\* One observer, one record.
LEMMA RecordedOne ==
  ASSUME NEW l, NEW r, NEW o
  PROVE  Recorded(l, {o}, r) = Pushed(l, r)
<1> DEFINE Up(f, n) == IF n = 0 THEN l ELSE Pushed(f[n - 1], r)
           up == CHOOSE f : f = [n \in 0 .. 1 |-> Up(f, n)]
           w == [n \in 0 .. 1 |-> IF n = 0 THEN l ELSE Pushed(l, r)]
<1>1. w = [n \in 0 .. 1 |-> Up(w, n)]
  OBVIOUS
<1>2. up = [n \in 0 .. 1 |-> Up(up, n)]
  BY <1>1
<1>3. up[1] = Pushed(l, r)
  <2> HIDE DEF up
  <2>1. up[0] = l
    BY <1>2
  <2>2. up[1] = Pushed(up[0], r)
    BY <1>2
  <2> QED
    BY <2>1, <2>2
<1>4. Cardinality({o}) = 1
  BY FS_Singleton
<1>5. Recorded(l, {o}, r) = up[1]
  BY <1>4 DEF Recorded
<1> QED
  BY <1>3, <1>5

-----------------------------------------------------------------------------
(* The window.                                                             *)

Ledger == [records : Seq(Record), dropped : Nat, total : Nat, max : Nat]

\* A ledger that is the window of a history.
WindowOf(l, h) ==
  /\ l.total = Len(h) /\ l.total = l.dropped + Len(l.records)
  /\ Len(l.records) <= l.max
  /\ \A i \in 1 .. Len(l.records) : l.records[i] = h[l.dropped + i]

\* The last records of a history, one by one.
LEMMA LastOfProperties ==
  ASSUME NEW S, NEW h \in Seq(S), NEW n \in 0 .. Len(h)
  PROVE  /\ LastOf(n, h) \in Seq(S) /\ Len(LastOf(n, h)) = n
         /\ \A i \in 1 .. n : LastOf(n, h)[i] = h[Len(h) - n + i]
<1> DEFINE m == Len(h) - n + 1
<1>1. Len(h) \in Nat /\ m \in Int /\ n \in Nat
  OBVIOUS
<1>2. \A i \in m .. Len(h) : h[i] \in S
  OBVIOUS
<1>3. /\ SubSeq(h, m, Len(h)) \in Seq(S)
      /\ Len(SubSeq(h, m, Len(h))) = IF m <= Len(h) THEN Len(h) - m + 1 ELSE 0
      /\ \A i \in 1 .. Len(h) - m + 1 : SubSeq(h, m, Len(h))[i] = h[m + i - 1]
  BY <1>1, <1>2, SubSeqProperties
<1>4. \A i \in 1 .. n : m + i - 1 = Len(h) - n + i /\ i \in 1 .. Len(h) - m + 1
  BY <1>1
<1>5. (IF m <= Len(h) THEN Len(h) - m + 1 ELSE 0) = n
  BY <1>1
<1> QED
  BY <1>3, <1>4, <1>5 DEF LastOf

\* One record more moves the window by one.
LEMMA PushedWindow ==
  ASSUME NEW l \in Ledger, NEW h \in Seq(Record), WindowOf(l, h), l.max > 0, NEW r \in Record
  PROVE  /\ Pushed(l, r) \in Ledger /\ WindowOf(Pushed(l, r), Append(h, r))
         /\ Pushed(l, r).max = l.max
<1> DEFINE n == Len(l.records)
           k == Append(h, r)
<1>1. l.records \in Seq(Record) /\ n \in Nat /\ l.dropped \in Nat /\ l.total \in Nat /\ l.max \in Nat
      /\ Len(h) \in Nat
  BY DEF Ledger
<1>2. k \in Seq(Record) /\ Len(k) = Len(h) + 1 /\ k[Len(h) + 1] = r
      /\ \A i \in 1 .. Len(h) : k[i] = h[i]
  BY <1>1
<1>3. l.total = Len(h) /\ l.total = l.dropped + n /\ n <= l.max
      /\ \A i \in 1 .. n : l.records[i] = h[l.dropped + i]
  BY DEF WindowOf
<1>0. \A i \in 1 .. n : l.records[i] = k[l.dropped + i]
  <2>1. \A i \in 1 .. n : l.dropped + i \in 1 .. Len(h)
    BY <1>1, <1>3
  <2> QED
    BY <1>2, <1>3, <2>1
<1>4. CASE n >= l.max
  <2>1. n = l.max /\ n > 0 /\ l.records # <<>>
    BY <1>1, <1>3, <1>4
  <2> DEFINE t == Tail(l.records)
             s == Append(t, r)
  <2>2. t \in Seq(Record) /\ Len(t) = n - 1 /\ \A i \in 1 .. n - 1 : t[i] = l.records[i + 1]
    BY <1>1, <2>1
  <2>3. s \in Seq(Record) /\ Len(s) = n /\ s[n] = r /\ \A i \in 1 .. n - 1 : s[i] = t[i]
    BY <1>1, <2>1, <2>2
  <2>4. Pushed(l, r) = [records |-> s, dropped |-> l.dropped + 1, total |-> l.total + 1, max |-> l.max]
    <3>1. Pushed(l, r) = [l EXCEPT !.total = @ + 1, !.records = s, !.dropped = @ + 1]
      BY <1>4 DEF Pushed
    <3> QED
      BY <3>1 DEF Ledger
  <2> HIDE DEF s, t, k
  <2>5. \A i \in 1 .. n : s[i] = k[l.dropped + 1 + i]
    <3>1. ASSUME NEW i \in 1 .. n - 1 PROVE s[i] = k[l.dropped + 1 + i]
      <4>1. s[i] = l.records[i + 1] /\ i + 1 \in 1 .. n
        BY <1>1, <2>2, <2>3
      <4>2. l.dropped + (i + 1) = l.dropped + 1 + i
        BY <1>1
      <4> QED
        BY <1>0, <4>1, <4>2
    <3>2. s[n] = k[l.dropped + 1 + n]
      <4>1. l.dropped + 1 + n = Len(h) + 1
        <5>1. l.dropped \in Nat /\ n \in Nat /\ Len(h) \in Nat
          BY <1>1
        <5>2. l.dropped + n = Len(h)
          BY <1>3
        <5> HIDE DEF n
        <5> QED
          BY <5>1, <5>2
      <4> QED
        BY <1>2, <2>3, <4>1
    <3>3. \A i \in 1 .. n : i \in 1 .. n - 1 \/ i = n
      <4>1. n \in Nat
        BY <1>1
      <4> HIDE DEF n
      <4> QED
        BY <4>1
    <3> HIDE DEF n
    <3> QED
      BY <3>1, <3>2, <3>3
  <2>6. l.dropped + 1 \in Nat /\ l.total + 1 \in Nat
    BY <1>1
  <2>7. l.total + 1 = Len(k) /\ l.total + 1 = l.dropped + 1 + n
    BY <1>1, <1>2, <1>3
  <2>8. Pushed(l, r) \in Ledger /\ Pushed(l, r).max = l.max
    BY <1>1, <2>3, <2>4, <2>6 DEF Ledger
  <2>9. WindowOf(Pushed(l, r), k)
    BY <2>1, <2>3, <2>4, <2>5, <2>7 DEF WindowOf
  <2> QED
    BY <2>8, <2>9 DEF k
<1>5. CASE ~(n >= l.max)
  <2> DEFINE s == Append(l.records, r)
  <2>1. s \in Seq(Record) /\ Len(s) = n + 1 /\ s[n + 1] = r /\ \A i \in 1 .. n : s[i] = l.records[i]
    BY <1>1
  <2>2. Pushed(l, r) = [records |-> s, dropped |-> l.dropped, total |-> l.total + 1, max |-> l.max]
    <3>1. Pushed(l, r) = [l EXCEPT !.total = @ + 1, !.records = s, !.dropped = l.dropped]
      BY <1>5 DEF Pushed
    <3> QED
      BY <3>1 DEF Ledger
  <2> HIDE DEF s, k
  <2>3. \A i \in 1 .. n + 1 : s[i] = k[l.dropped + i]
    <3>1. l.dropped + (n + 1) = Len(h) + 1
      BY <1>1, <1>3
    <3>2. s[n + 1] = k[l.dropped + (n + 1)]
      BY <1>2, <2>1, <3>1
    <3>3. \A i \in 1 .. n : s[i] = k[l.dropped + i]
      BY <1>0, <2>1
    <3>4. \A i \in 1 .. n + 1 : i \in 1 .. n \/ i = n + 1
      BY <1>1
    <3> HIDE DEF n
    <3> QED
      BY <3>2, <3>3, <3>4
  <2>4. l.total + 1 \in Nat /\ l.total + 1 = Len(k) /\ l.total + 1 = l.dropped + (n + 1) /\ n + 1 <= l.max
    <3>1. l.dropped \in Nat /\ n \in Nat /\ l.max \in Nat /\ l.total \in Nat
      BY <1>1
    <3>2. l.total = l.dropped + n /\ Len(k) = l.total + 1
      BY <1>2, <1>3
    <3> HIDE DEF n
    <3> QED
      BY <1>5, <3>1, <3>2
  <2>5. Pushed(l, r) \in Ledger /\ Pushed(l, r).max = l.max
    BY <1>1, <2>1, <2>2, <2>4 DEF Ledger
  <2>6. WindowOf(Pushed(l, r), k)
    BY <2>1, <2>2, <2>3, <2>4 DEF WindowOf
  <2> QED
    BY <2>5, <2>6 DEF k
<1> QED
  BY <1>4, <1>5

\* A mount's size keeps the newest records that fit.
LEMMA ResizedWindow ==
  ASSUME NEW l \in Ledger, NEW h \in Seq(Record), WindowOf(l, h), NEW max \in Nat
  PROVE  /\ Resized(l, max) \in Ledger /\ WindowOf(Resized(l, max), h)
         /\ Resized(l, max).max = max
<1> DEFINE n == Len(l.records)
<1>1. l.records \in Seq(Record) /\ n \in Nat /\ l.dropped \in Nat /\ l.total \in Nat /\ l.max \in Nat
  BY DEF Ledger
<1>2. CASE n <= max
  <2>1. Resized(l, max) = [records |-> l.records, dropped |-> l.dropped, total |-> l.total, max |-> max]
    BY <1>2 DEF Resized, Ledger
  <2> QED
    BY <1>1, <1>2, <2>1 DEF WindowOf, Ledger
<1>3. CASE ~(n <= max)
  <2> DEFINE s == LastOf(max, l.records)
             d == l.dropped + n - max
  <2>1. max \in 0 .. n
    BY <1>1, <1>3
  <2>2. s \in Seq(Record) /\ Len(s) = max /\ \A i \in 1 .. max : s[i] = l.records[n - max + i]
    BY <1>1, <2>1, LastOfProperties
  <2>3. Resized(l, max) = [records |-> s, dropped |-> d, total |-> l.total, max |-> max]
    BY <1>3 DEF Resized, Ledger
  <2>4. d \in Nat /\ l.total = d + max
    BY <1>1, <2>1 DEF WindowOf
  <2>5. \A i \in 1 .. max : s[i] = h[d + i]
    <3>1. ASSUME NEW i \in 1 .. max PROVE s[i] = h[d + i]
      <4>1. n - max + i \in 1 .. n /\ l.dropped + (n - max + i) = d + i
        BY <1>1, <2>1
      <4> QED
        BY <2>2, <4>1 DEF WindowOf
    <3> QED
      BY <3>1
  <2> HIDE DEF s, d
  <2> QED
    BY <1>1, <2>2, <2>3, <2>4, <2>5 DEF WindowOf, Ledger
<1> QED
  BY <1>2, <1>3

-----------------------------------------------------------------------------
(* The invariant.                                                          *)

\* The observer that observes is the one that owns the provider.
ActiveOwns == active = IF patch = None THEN {} ELSE {patch}

\* No observer, no ledger and nothing recorded.
FirstMount ==
  IF mounted = {}
  THEN history = <<>> /\ \A e \in Executions : execs[e].observers = {}
  ELSE ledger.max > 0

\* A context is of the call's own root, and of the call itself if it was
\* dispatched under an observer.
StoreInv ==
  /\ \A c \in Calls : store[c] # None => Root[store[c]] = Root[c]
  /\ \A c \in watched : store[c] = c /\ calls[c] # "new"

\* An execution has the correlation its body's context still is.
BodyIsCaptured(x) ==
  IF x.body = None THEN x.correlation = None
  ELSE calls[x.body] # "new" /\ x.correlation = store[x.body]

\* What a start captured of its body is still so, and one observer saw it at most.
CaptureInv ==
  \A e \in Executions :
    LET x == execs[e]
    IN  /\ x.observers = {} \/ \E o \in Observers : x.observers = {o}
        /\ x.phase = "settled" => x.method = "start"
        /\ BodyIsCaptured(x)

\* A record is of an execution that has ended, and names what it captured.
HistoryInv ==
  \A i \in DOMAIN history :
    LET x == execs[history[i].exec]
    IN  x.phase \in {"settled", "released"} /\ history[i].correlation = x.correlation

Once(e) ==
  IF execs[e].phase \in {"settled", "released"} /\ execs[e].observers # {}
  THEN \E i \in DOMAIN history : RecordsOf(e) = {i}
  ELSE RecordsOf(e) = {}

OnceInv == \A e \in Executions : Once(e)

InFlight ==
  {e \in Executions :
    /\ execs[e].method = "start"
    /\ execs[e].phase \in {"running", "ended", "settled"}
    /\ execs[e].observers # {}}

PendingInv == IsFiniteSet(InFlight) /\ pending = Cardinality(InFlight)

LedgerInv == ledger \in Ledger /\ WindowOf(ledger, history)

IInv == TypeOK /\ ActiveOwns /\ FirstMount /\ StoreInv /\ CaptureInv
        /\ HistoryInv /\ OnceInv /\ PendingInv /\ LedgerInv

-----------------------------------------------------------------------------
(* Steps of plugins.                                                       *)

\* Slots stay slots when a layer goes on or comes off.
LEMMA SlotType ==
  ASSUME NEW slot \in Slot(Layers, Base), NEW l \in Layers
  PROVE  WrappedBy(slot, l) \in Slot(Layers, Base) /\ RestoredBy(slot, l) \in Slot(Layers, Base)
  BY DEF Slot, WrappedBy, RestoredBy

\* What no step of a plugin touches.
LEMMA PluginFrame ==
  ASSUME IInv, UNCHANGED <<pending, tools, execs, history>>
  PROVE  StoreInv' /\ CaptureInv' /\ HistoryInv' /\ OnceInv' /\ PendingInv'
<1>1. InFlight' = InFlight /\ \A e \in Executions : Once(e)' <=> Once(e)
  BY DEF InFlight, Once, RecordsOf
<1> QED
  BY <1>1 DEF IInv, StoreInv, CaptureInv, BodyIsCaptured, HistoryInv, OnceInv, PendingInv, tools

LEMMA MountStep ==
  ASSUME IInv, NEW o \in Observers, NEW max \in Sizes, Mount(o, max)
  PROVE  IInv'
<1>1. /\ patch = None /\ ledger' = LedgerFor(max) /\ active' = active \cup {o}
      /\ mounted' = mounted \cup {o} /\ patch' = o
      /\ slots' = [m \in Methods |-> WrappedBy(slots[m], o)]
      /\ UNCHANGED <<gone, pending, tools, execs, history>>
  BY DEF Mount
<1>2. max \in Nat /\ max > 0 /\ o # None
  BY EvidenceAssumption
<1>3. ledger' \in Ledger /\ WindowOf(ledger', history) /\ ledger'.max = max
  <2>1. CASE mounted = {}
    <3>1. ledger' = [records |-> <<>>, dropped |-> 0, total |-> 0, max |-> max]
      BY <1>1, <2>1 DEF LedgerFor, NewLedger
    <3>2. history = <<>>
      BY <2>1 DEF IInv, FirstMount
    <3>3. <<>> \in Seq(Record) /\ Len(<<>>) = 0
      OBVIOUS
    <3> QED
      BY <1>2, <3>1, <3>2, <3>3 DEF Ledger, WindowOf
  <2>2. CASE mounted # {}
    <3>1. ledger' = Resized(ledger, max)
      BY <1>1, <2>2 DEF LedgerFor
    <3>2. history \in Seq(Record)
      BY DEF IInv, TypeOK
    <3> QED
      BY <1>2, <3>1, <3>2, ResizedWindow DEF IInv, LedgerInv
  <2> QED
    BY <2>1, <2>2
<1>4. slots' \in [Methods -> Slot(Layers, Base)]
  BY <1>1, SlotType DEF IInv, TypeOK, Layers
<1>5. {ledger'.dropped, ledger'.total, ledger'.max} \subseteq Nat /\ ledger'.records \in Seq(Record)
  BY <1>3 DEF Ledger
<1>6. TypeOK'
  BY <1>1, <1>4, <1>5 DEF IInv, TypeOK, tools
<1>7. ActiveOwns'
  BY <1>1, <1>2 DEF IInv, ActiveOwns
<1>8. FirstMount'
  BY <1>1, <1>2, <1>3 DEF FirstMount
<1>9. LedgerInv'
  BY <1>1, <1>3 DEF LedgerInv
<1> QED
  BY <1>1, <1>6, <1>7, <1>8, <1>9, PluginFrame DEF IInv

\* A disposal, and a foreign wrapper that comes or goes.
LEMMA SlotStep ==
  ASSUME IInv,
         \/ \E o \in Observers : Dispose(o)
         \/ \E f \in Foreign : ForeignDispose(f) \/ \E m \in Methods : ForeignMount(f, m)
  PROVE  IInv'
<1>1. UNCHANGED <<mounted, ledger, pending, tools, execs, history>>
  BY DEF Dispose, ForeignDispose, ForeignMount
<1>2. slots \in [Methods -> Slot(Layers, Base)]
  BY DEF IInv, TypeOK
<1>3. slots' \in [Methods -> Slot(Layers, Base)] /\ gone' \in SUBSET Foreign
  <2>1. ASSUME NEW o \in Observers, Dispose(o)
        PROVE  slots' \in [Methods -> Slot(Layers, Base)] /\ gone' \in SUBSET Foreign
    <3>1. o \in Layers
      BY DEF Layers
    <3>2. \A m \in Methods : RestoredBy(slots[m], o) \in Slot(Layers, Base)
      BY <1>2, <3>1, SlotType
    <3> QED
      BY <1>2, <2>1, <3>2 DEF Dispose, IInv, TypeOK
  <2>2. ASSUME NEW f \in Foreign, ForeignDispose(f)
        PROVE  slots' \in [Methods -> Slot(Layers, Base)] /\ gone' \in SUBSET Foreign
    BY <1>2, <2>2, SlotType DEF ForeignDispose, Layers, IInv, TypeOK
  <2>3. ASSUME NEW f \in Foreign, NEW m \in Methods, ForeignMount(f, m)
        PROVE  slots' \in [Methods -> Slot(Layers, Base)] /\ gone' \in SUBSET Foreign
    BY <1>2, <2>3, SlotType DEF ForeignMount, Layers, IInv, TypeOK
  <2> QED
    BY <2>1, <2>2, <2>3
<1>4. patch' \in {patch, None} /\ active' \subseteq active /\ ActiveOwns'
  <2>1. ASSUME NEW o \in Observers, Dispose(o)
        PROVE  patch' \in {patch, None} /\ active' \subseteq active /\ ActiveOwns'
    <3>1. patch = o /\ active = {o} /\ o # None
      BY <2>1, EvidenceAssumption DEF Dispose, IInv, ActiveOwns
    <3> QED
      BY <2>1, <3>1 DEF Dispose, ActiveOwns
  <2>2. ASSUME UNCHANGED <<patch, active>>
        PROVE  patch' \in {patch, None} /\ active' \subseteq active /\ ActiveOwns'
    BY <2>2 DEF IInv, ActiveOwns
  <2> QED
    BY <2>1, <2>2 DEF ForeignDispose, ForeignMount
<1>5. TypeOK'
  BY <1>1, <1>3, <1>4 DEF IInv, TypeOK, tools
<1>6. FirstMount' /\ LedgerInv'
  BY <1>1 DEF IInv, FirstMount, LedgerInv
<1> QED
  BY <1>1, <1>4, <1>5, <1>6, PluginFrame DEF IInv

-----------------------------------------------------------------------------
(* Steps of tool calls.                                                    *)

LEMMA DispatchStep == ASSUME IInv, NEW c \in Calls, Dispatch(c) PROVE IInv'
<1>1. /\ calls[c] = "new" /\ (Parent[c] # None => calls[Parent[c]] = "open")
      /\ calls' = [calls EXCEPT ![c] = "open"]
      /\ store' = [store EXCEPT ![c] = Dispatched(c)]
      /\ watched' = IF active = {} THEN watched ELSE watched \cup {c}
      /\ UNCHANGED <<chain, ledger, pending, execs, history>>
  BY DEF Dispatch
<1>2. /\ calls \in [Calls -> {"new", "open", "returned"}]
      /\ store \in [Calls -> Calls \cup {None}] /\ watched \in SUBSET Calls
      /\ Parent[c] \in Calls \cup {None} /\ None \notin Calls
  BY EvidenceAssumption DEF IInv, TypeOK
<1>3. Dispatched(c) \in Calls \cup {None} /\ (active # {} => Dispatched(c) = c)
      /\ (Dispatched(c) # None => Root[Dispatched(c)] = Root[c])
  <2>1. CASE active # {}
    BY <2>1 DEF Dispatched
  <2>2. CASE active = {}
    BY <1>2, <2>2, EvidenceAssumption DEF Dispatched, ContextOf, IInv, StoreInv
  <2> QED
    BY <2>1, <2>2
<1>4. TypeOK'
  <2>1. calls' \in [Calls -> {"new", "open", "returned"}] /\ store' \in [Calls -> Calls \cup {None}]
        /\ watched' \in SUBSET Calls
    BY <1>1, <1>2, <1>3
  <2> QED
    BY <1>1, <2>1 DEF IInv, TypeOK, chain
<1>5. ActiveOwns' /\ FirstMount' /\ HistoryInv' /\ LedgerInv'
  BY <1>1 DEF IInv, ActiveOwns, FirstMount, HistoryInv, LedgerInv, chain
<1>6. StoreInv'
  <2>1. c \notin watched
    BY <1>1 DEF IInv, StoreInv
  <2> QED
    BY <1>1, <1>2, <1>3, <2>1 DEF IInv, StoreInv
<1>7. CaptureInv'
  <2>1. ASSUME NEW e \in Executions, execs[e].body # None
        PROVE  calls'[execs[e].body] # "new" /\ store'[execs[e].body] = store[execs[e].body]
    <3>1. execs[e].body \in Calls /\ calls[execs[e].body] # "new"
      BY <2>1 DEF IInv, TypeOK, Execution, CaptureInv, BodyIsCaptured
    <3> QED
      BY <1>1, <1>2, <3>1
  <2> QED
    BY <1>1, <2>1 DEF IInv, CaptureInv, BodyIsCaptured
<1>8. OnceInv' /\ PendingInv'
  <2>1. InFlight' = InFlight /\ \A e \in Executions : Once(e)' <=> Once(e)
    BY <1>1 DEF InFlight, Once, RecordsOf
  <2> QED
    BY <1>1, <2>1 DEF IInv, OnceInv, PendingInv
<1> QED
  BY <1>4, <1>5, <1>6, <1>7, <1>8 DEF IInv

LEMMA ReturnStep == ASSUME IInv, NEW c \in Calls, Return(c) PROVE IInv'
<1>1. /\ calls[c] = "open" /\ calls' = [calls EXCEPT ![c] = "returned"]
      /\ UNCHANGED <<chain, ledger, pending, store, watched, execs, history>>
  BY DEF Return
<1>2. calls \in [Calls -> {"new", "open", "returned"}]
  BY DEF IInv, TypeOK
<1>3. calls' \in [Calls -> {"new", "open", "returned"}]
      /\ \A b \in Calls : calls[b] # "new" => calls'[b] # "new"
  BY <1>1, <1>2
<1>4. TypeOK'
  BY <1>1, <1>3 DEF IInv, TypeOK, chain
<1>5. ActiveOwns' /\ FirstMount' /\ HistoryInv' /\ LedgerInv'
  BY <1>1 DEF IInv, ActiveOwns, FirstMount, HistoryInv, LedgerInv, chain
<1>6. StoreInv'
  BY <1>1, <1>3 DEF IInv, TypeOK, StoreInv
<1>7. CaptureInv'
  <2>1. \A e \in Executions : execs[e].body \in Calls \cup {None}
    BY DEF IInv, TypeOK, Execution
  <2> QED
    BY <1>1, <1>3, <2>1 DEF IInv, CaptureInv, BodyIsCaptured
<1>8. OnceInv' /\ PendingInv'
  <2>1. InFlight' = InFlight /\ \A e \in Executions : Once(e)' <=> Once(e)
    BY <1>1 DEF InFlight, Once, RecordsOf
  <2> QED
    BY <1>1, <2>1 DEF IInv, OnceInv, PendingInv
<1> QED
  BY <1>4, <1>5, <1>6, <1>7, <1>8 DEF IInv

-----------------------------------------------------------------------------
(* Steps of executions.                                                    *)

\* A start captures its body's context, and at most one observer sees it.
LEMMA StartedProperties ==
  ASSUME IInv, NEW m \in Methods, NEW b \in Bodies
  PROVE  /\ Started(m, b) \in Execution /\ BodyIsCaptured(Started(m, b))
         /\ Watching(m) \subseteq active
         /\ Watching(m) = {} \/ \E o \in Observers : Watching(m) = {o}
<1>1. Watching(m) \subseteq active
  BY DEF Watching
<1>2. active \subseteq Observers /\ (active = {} \/ \E o \in Observers : active = {o})
  BY DEF IInv, TypeOK, ActiveOwns
<1>3. b \in Calls \cup {None} /\ (b # None => b \in Calls /\ calls[b] = "open")
      /\ ContextOf(b) \in Calls \cup {None}
  BY DEF Bodies, ContextOf, IInv, TypeOK
<1> QED
  BY <1>1, <1>2, <1>3 DEF Started, Execution, BodyIsCaptured, ContextOf

\* Records are of executions.
LEMMA HistoryExecs ==
  ASSUME IInv
  PROVE  \A i \in DOMAIN history : history[i].exec \in Executions
<1>1. \A i \in DOMAIN history : history[i] \in Record
  BY DEF IInv, TypeOK
<1> QED
  BY <1>1 DEF Record

\* Writing the records of an execution: none, or one, in the history and in
\* its window.
LEMMA WriteEffect ==
  ASSUME IInv, NEW e \in Executions, NEW x \in Execution, Write(e, x),
         x.observers = {} \/ \E o \in Observers : x.observers = {o},
         x.observers # {} => ledger.max > 0
  PROVE  /\ LedgerInv' /\ ledger'.max = ledger.max /\ history' \in Seq(Record)
         /\ history' = IF x.observers = {} THEN history ELSE Append(history, RecordOf(e, x))
<1> DEFINE r == RecordOf(e, x)
<1>1. ledger \in Ledger /\ WindowOf(ledger, history) /\ history \in Seq(Record)
  BY DEF IInv, TypeOK, LedgerInv
<1>2. r \in Record
  BY DEF RecordOf, Record, Execution
<1>3. /\ ledger' = Recorded(ledger, x.observers, r)
      /\ history' = history \o [i \in 1 .. Cardinality(x.observers) |-> r]
  BY DEF Write
<1> HIDE DEF r
<1>4. CASE x.observers = {}
  <2>1. ledger' = ledger
    BY <1>3, <1>4, RecordedNone
  <2>2. history' = history
    <3>1. Cardinality(x.observers) = 0
      BY <1>4, FS_EmptySet
    <3>2. [i \in 1 .. 0 |-> r] = <<>>
      OBVIOUS
    <3> QED
      BY <1>1, <1>3, <3>1, <3>2
  <2> QED
    BY <1>1, <1>4, <2>1, <2>2 DEF LedgerInv
<1>5. CASE x.observers # {}
  <2>1. PICK o \in Observers : x.observers = {o}
    BY <1>5
  <2>2. ledger' = Pushed(ledger, r)
    BY <1>3, <2>1, RecordedOne
  <2>3. history' = Append(history, r)
    <3>1. Cardinality(x.observers) = 1
      BY <2>1, FS_Singleton
    <3>2. [i \in 1 .. 1 |-> r] = <<r>>
      OBVIOUS
    <3> QED
      BY <1>1, <1>2, <1>3, <3>1, <3>2
  <2>4. ledger' \in Ledger /\ WindowOf(ledger', history') /\ ledger'.max = ledger.max
    BY <1>1, <1>2, <1>5, <2>2, <2>3, PushedWindow
  <2> QED
    BY <1>1, <1>2, <1>5, <2>3, <2>4 DEF LedgerInv, r
<1> QED
  BY <1>4, <1>5

\* An execution that had no record gets those of its observers as it goes on to
\* a phase that has them.
LEMMA WriteStep ==
  ASSUME IInv, NEW e \in Executions, NEW x \in Execution, Write(e, x),
         NEW y \in Execution, execs' = [execs EXCEPT ![e] = y],
         execs[e].phase \notin {"settled", "released"},
         y.phase \in {"settled", "released"},
         y.observers = x.observers, y.correlation = x.correlation,
         y.phase = "settled" => y.method = "start",
         x.observers = {} \/ \E o \in Observers : x.observers = {o},
         x.observers # {} => mounted # {},
         BodyIsCaptured(y), UNCHANGED <<chain, tools, pending>>, InFlight' = InFlight
  PROVE  IInv'
<1> DEFINE r == RecordOf(e, x)
<1>1. mounted # {} => ledger.max > 0
  BY DEF IInv, FirstMount
<1>2. /\ LedgerInv' /\ ledger'.max = ledger.max /\ history' \in Seq(Record)
      /\ history' = IF x.observers = {} THEN history ELSE Append(history, r)
  BY <1>1, WriteEffect
<1>3. /\ execs \in [Executions -> Execution] /\ execs' \in [Executions -> Execution]
      /\ execs'[e] = y /\ \A f \in Executions : f # e => execs'[f] = execs[f]
  BY DEF IInv, TypeOK
<1>4. history \in Seq(Record) /\ Len(history) \in Nat /\ DOMAIN history = 1 .. Len(history)
  BY DEF IInv, TypeOK
<1>5. r.exec = e /\ r.correlation = x.correlation
  BY DEF RecordOf
<1> HIDE DEF r
<1>6. RecordsOf(e) = {}
  BY DEF IInv, OnceInv, Once
<1>7. /\ DOMAIN history \subseteq DOMAIN history'
      /\ \A i \in DOMAIN history : history'[i] = history[i] /\ history[i].exec # e
      /\ \A i \in DOMAIN history' \ DOMAIN history :
           i = Len(history) + 1 /\ history'[i] = r /\ x.observers # {}
      /\ x.observers # {} => Len(history) + 1 \in DOMAIN history' \ DOMAIN history
  <2>1. \A i \in DOMAIN history : history[i].exec # e
    BY <1>6 DEF RecordsOf
  <2>2. CASE x.observers = {}
    BY <1>2, <2>1, <2>2
  <2>3. CASE x.observers # {}
    <3>1. history' = Append(history, r)
      BY <1>2, <2>3
    <3>2. DOMAIN history' = 1 .. (Len(history) + 1) /\ history'[Len(history) + 1] = r
          /\ \A i \in 1 .. Len(history) : history'[i] = history[i]
      BY <1>4, <3>1
    <3> QED
      BY <1>4, <2>1, <2>3, <3>2
  <2> QED
    BY <2>2, <2>3
<1>8. TypeOK'
  <2>1. {ledger'.dropped, ledger'.total, ledger'.max, pending'} \subseteq Nat
        /\ ledger'.records \in Seq(Record)
    BY <1>2 DEF LedgerInv, Ledger, IInv, TypeOK
  <2> QED
    BY <1>2, <1>3, <2>1 DEF IInv, TypeOK, chain, tools
<1>9. ActiveOwns' /\ StoreInv'
  BY DEF IInv, ActiveOwns, StoreInv, chain, tools
<1>10. FirstMount'
  BY <1>2, <1>3 DEF IInv, FirstMount, chain
<1>11. CaptureInv'
  BY <1>3 DEF IInv, CaptureInv, BodyIsCaptured, tools
<1>12. HistoryInv'
  BY <1>3, <1>5, <1>7, HistoryExecs DEF IInv, HistoryInv
<1>13. OnceInv'
  <2>1. ASSUME NEW f \in Executions, f # e PROVE Once(f)'
    <3>1. RecordsOf(f)' = RecordsOf(f) /\ execs'[f] = execs[f] /\ Once(f)
      BY <1>3, <1>5, <1>7, <2>1 DEF RecordsOf, IInv, OnceInv
    <3>2. \A i : RecordsOf(f) = {i} => i \in DOMAIN history
      BY DEF RecordsOf
    <3> QED
      BY <1>7, <3>1, <3>2 DEF Once
  <2>2. Once(e)'
    <3>1. RecordsOf(e)' = IF x.observers = {} THEN {} ELSE {Len(history) + 1}
      BY <1>5, <1>7 DEF RecordsOf
    <3> QED
      BY <1>3, <1>7, <3>1 DEF Once
  <2> QED
    BY <2>1, <2>2 DEF OnceInv
<1>14. PendingInv'
  BY DEF IInv, PendingInv
<1> QED
  BY <1>2, <1>8, <1>9, <1>10, <1>11, <1>12, <1>13, <1>14 DEF IInv

\* The four steps of an execution.
LEMMA StartStep ==
  ASSUME IInv, NEW e \in Executions, NEW m \in Methods, NEW b \in Bodies, Start(e, m, b)
  PROVE  IInv'
<1> DEFINE y == Started(m, b)
           w == Watching(m)
<1>1. /\ execs[e].phase = "new" /\ execs' = [execs EXCEPT ![e] = y]
      /\ pending' = IF m = "run" THEN pending ELSE pending + Cardinality(w)
      /\ UNCHANGED <<chain, tools, ledger, history>>
  BY DEF Start
<1>2. y \in Execution /\ BodyIsCaptured(y) /\ w \subseteq active
      /\ (w = {} \/ \E o \in Observers : w = {o})
  BY StartedProperties
<1>3. /\ execs \in [Executions -> Execution] /\ execs' \in [Executions -> Execution]
      /\ execs'[e] = y /\ \A f \in Executions : f # e => execs'[f] = execs[f]
  BY <1>1, <1>2 DEF IInv, TypeOK
<1>4. y.phase = "running" /\ y.method = m /\ y.observers = w
  BY DEF Started
<1>5. e \notin InFlight
  BY <1>1 DEF InFlight
<1>6. Cardinality(w) = IF w = {} THEN 0 ELSE 1
  BY <1>2, FS_EmptySet, FS_Singleton
<1> HIDE DEF y, w
<1>7. PendingInv'
  <2>1. InFlight' = IF m = "run" \/ w = {} THEN InFlight ELSE InFlight \cup {e}
    BY <1>3, <1>4, <1>5 DEF InFlight, Methods
  <2>2. IsFiniteSet(InFlight) /\ pending = Cardinality(InFlight) /\ pending \in Nat
    BY DEF IInv, PendingInv, TypeOK
  <2>3. IsFiniteSet(InFlight \cup {e}) /\ Cardinality(InFlight \cup {e}) = pending + 1
    BY <1>5, <2>2, FS_AddElement
  <2> QED
    BY <1>1, <1>6, <2>1, <2>2, <2>3 DEF PendingInv
<1>8. TypeOK'
  <2>1. pending' \in Nat
    BY <1>1, <1>6 DEF IInv, TypeOK
  <2> QED
    BY <1>1, <1>3, <2>1 DEF IInv, TypeOK, chain, tools
<1>9. ActiveOwns' /\ StoreInv' /\ LedgerInv'
  BY <1>1 DEF IInv, ActiveOwns, StoreInv, LedgerInv, chain, tools
<1>10. FirstMount'
  BY <1>1, <1>2, <1>3, <1>4 DEF IInv, TypeOK, FirstMount, chain
<1>11. CaptureInv'
  BY <1>1, <1>2, <1>3, <1>4 DEF IInv, CaptureInv, BodyIsCaptured, tools
<1>12. RecordsOf(e) = {}
  BY <1>1 DEF IInv, OnceInv, Once
<1>13. HistoryInv'
  BY <1>1, <1>3, <1>12, HistoryExecs DEF IInv, HistoryInv, RecordsOf
<1>14. OnceInv'
  BY <1>1, <1>3, <1>4, <1>12 DEF IInv, OnceInv, Once, RecordsOf
<1> QED
  BY <1>7, <1>8, <1>9, <1>10, <1>11, <1>13, <1>14 DEF IInv

LEMMA StartFailsStep ==
  ASSUME IInv, NEW e \in Executions, NEW b \in Bodies, StartFails(e, b)
  PROVE  IInv'
<1> DEFINE s == Started("start", b)
           x == [s EXCEPT !.phase = "released", !.outcome = "infrastructure-error"]
<1>1. /\ execs[e].phase = "new" /\ execs' = [execs EXCEPT ![e] = x]
      /\ Write(e, x) /\ UNCHANGED <<chain, tools, pending>>
  BY DEF StartFails
<1>2. s \in Execution /\ BodyIsCaptured(s) /\ Watching("start") \subseteq active
      /\ (Watching("start") = {} \/ \E o \in Observers : Watching("start") = {o})
  BY StartedProperties DEF Methods
<1>3. s.observers = Watching("start")
  BY DEF Started
<1> HIDE DEF s
<1>4. x \in Execution /\ x.phase = "released" /\ x.observers = s.observers /\ BodyIsCaptured(x)
  BY <1>2 DEF Execution, BodyIsCaptured
<1>5. x.observers # {} => mounted # {}
  BY <1>2, <1>3, <1>4 DEF IInv, TypeOK
<1> HIDE DEF x
<1>6. execs \in [Executions -> Execution]
  BY DEF IInv, TypeOK
<1>7. InFlight' = InFlight
  BY <1>1, <1>4, <1>6 DEF InFlight
<1> QED
  BY <1>1, <1>2, <1>3, <1>4, <1>5, <1>7, WriteStep

LEMMA SettleStep == ASSUME IInv, NEW e \in Executions, Settle(e) PROVE IInv'
<1> DEFINE x == execs[e]
           p == IF x.method = "run" THEN "released" ELSE "settled"
           y == [x EXCEPT !.phase = p]
<1>1. x.phase = "ended" /\ Write(e, x) /\ UNCHANGED <<chain, tools, pending>>
      /\ execs' = [execs EXCEPT ![e] = y]
  BY DEF Settle
<1>2. execs \in [Executions -> Execution] /\ x \in Execution /\ BodyIsCaptured(x)
      /\ (x.observers = {} \/ \E o \in Observers : x.observers = {o})
      /\ (x.observers # {} => mounted # {})
  BY DEF IInv, TypeOK, CaptureInv, FirstMount
<1>3. /\ y \in Execution /\ y.phase = p /\ p \in {"settled", "released"}
      /\ y.observers = x.observers /\ y.correlation = x.correlation /\ BodyIsCaptured(y)
      /\ y.method = x.method /\ (p = "settled" => y.method = "start")
  BY <1>2 DEF Execution, BodyIsCaptured, Methods
<1>4. InFlight' = InFlight
  <2>1. \A f \in Executions : f # e => execs'[f] = execs[f]
    BY <1>1, <1>2
  <2>2. execs'[e] = y
    BY <1>1, <1>2
  <2>3. x.method = "start" => y.phase = "settled"
    BY <1>3
  <2> HIDE DEF y, p
  <2> QED
    BY <1>1, <1>3, <2>1, <2>2, <2>3 DEF InFlight
<1> HIDE DEF x, y, p
<1> QED
  BY <1>1, <1>2, <1>3, <1>4, WriteStep DEF x

\* An execution goes on without a record.
LEMMA PhaseStep ==
  ASSUME IInv, NEW e \in Executions, NEW y \in Execution, execs' = [execs EXCEPT ![e] = y],
         y.observers = execs[e].observers, y.correlation = execs[e].correlation,
         y.body = execs[e].body, y.method = execs[e].method, y.phase # "settled",
         execs[e].phase \in {"settled", "released"} <=> y.phase \in {"settled", "released"},
         UNCHANGED <<chain, tools, ledger, history>>, pending' \in Nat, PendingInv'
  PROVE  IInv'
<1>1. /\ execs \in [Executions -> Execution] /\ execs' \in [Executions -> Execution]
      /\ execs'[e] = y /\ \A f \in Executions : f # e => execs'[f] = execs[f]
  BY DEF IInv, TypeOK
<1>2. TypeOK'
  BY <1>1 DEF IInv, TypeOK, chain, tools
<1>3. ActiveOwns' /\ StoreInv' /\ LedgerInv'
  BY DEF IInv, ActiveOwns, StoreInv, LedgerInv, chain, tools
<1>4. FirstMount'
  BY <1>1 DEF IInv, FirstMount, chain
<1>5. CaptureInv'
  BY <1>1 DEF IInv, CaptureInv, BodyIsCaptured, tools
<1>6. HistoryInv'
  BY <1>1, HistoryExecs DEF IInv, HistoryInv
<1>7. OnceInv'
  BY <1>1 DEF IInv, OnceInv, Once, RecordsOf
<1> QED
  BY <1>2, <1>3, <1>4, <1>5, <1>6, <1>7 DEF IInv

LEMMA EndStep ==
  ASSUME IInv, NEW e \in Executions, NEW outcome \in {"completed", "infrastructure-error"},
         End(e, outcome)
  PROVE  IInv'
<1> DEFINE y == [execs[e] EXCEPT !.phase = "ended", !.outcome = outcome]
<1>1. execs[e].phase = "running" /\ UNCHANGED <<chain, tools, ledger, pending, history>>
      /\ execs' = [execs EXCEPT ![e] = y]
  BY DEF End
<1>2. execs \in [Executions -> Execution] /\ execs[e] \in Execution
  BY DEF IInv, TypeOK
<1>3. /\ y \in Execution /\ y.phase = "ended" /\ y.observers = execs[e].observers
      /\ y.correlation = execs[e].correlation /\ y.body = execs[e].body
      /\ y.method = execs[e].method
  BY <1>2 DEF Execution
<1> HIDE DEF y
<1>4. PendingInv'
  <2>1. InFlight' = InFlight
    BY <1>1, <1>2, <1>3 DEF InFlight
  <2> QED
    BY <1>1, <2>1 DEF IInv, PendingInv
<1>5. pending' \in Nat
  BY <1>1 DEF IInv, TypeOK
<1> QED
  BY <1>1, <1>3, <1>4, <1>5, PhaseStep

LEMMA ReleaseStep == ASSUME IInv, NEW e \in Executions, Release(e) PROVE IInv'
<1> DEFINE n == Cardinality(execs[e].observers)
           y == [execs[e] EXCEPT !.phase = "released"]
<1>1. /\ execs[e].phase = "settled" /\ UNCHANGED <<chain, tools, ledger, history>>
      /\ execs' = [execs EXCEPT ![e] = y]
      /\ pending' = IF pending >= n THEN pending - n ELSE 0
  BY DEF Release
<1>2. execs \in [Executions -> Execution] /\ execs[e] \in Execution
      /\ execs[e].method = "start"
      /\ (execs[e].observers = {} \/ \E o \in Observers : execs[e].observers = {o})
  BY <1>1 DEF IInv, TypeOK, CaptureInv
<1>3. /\ y \in Execution /\ y.phase = "released" /\ y.observers = execs[e].observers
      /\ y.correlation = execs[e].correlation /\ y.body = execs[e].body
      /\ y.method = execs[e].method
  BY <1>2 DEF Execution
<1>4. n = IF execs[e].observers = {} THEN 0 ELSE 1
  BY <1>2, FS_EmptySet, FS_Singleton
<1>5. IsFiniteSet(InFlight) /\ pending = Cardinality(InFlight) /\ pending \in Nat
  BY DEF IInv, PendingInv, TypeOK
<1> HIDE DEF y, n
<1>6. PendingInv' /\ pending' \in Nat
  <2>1. CASE execs[e].observers = {}
    <3>1. InFlight' = InFlight
      BY <1>1, <1>2, <1>3, <2>1 DEF InFlight
    <3>2. pending' = pending
      BY <1>1, <1>4, <1>5, <2>1
    <3> QED
      BY <1>5, <3>1, <3>2 DEF PendingInv
  <2>2. CASE execs[e].observers # {}
    <3>1. e \in InFlight /\ InFlight' = InFlight \ {e}
      BY <1>1, <1>2, <1>3, <2>2 DEF InFlight
    <3>2. IsFiniteSet(InFlight \ {e}) /\ Cardinality(InFlight \ {e}) = pending - 1
      BY <1>5, <3>1, FS_RemoveElement
    <3>3. pending - 1 \in Nat
      BY <3>2, FS_CardinalityType
    <3>4. pending' = pending - 1
      BY <1>1, <1>4, <1>5, <2>2, <3>3
    <3> QED
      BY <3>1, <3>2, <3>3, <3>4 DEF PendingInv
  <2> QED
    BY <2>1, <2>2
<1> QED
  BY <1>1, <1>3, <1>6, PhaseStep

-----------------------------------------------------------------------------
LEMMA InitInv == Init => IInv
<1> SUFFICES ASSUME Init PROVE IInv
  OBVIOUS
<1>1. NotStarted \in Execution
  BY DEF NotStarted, Execution, Methods
<1>2. ledger = [records |-> <<>>, dropped |-> 0, total |-> 0, max |-> 0]
  BY DEF Init, NoLedger, NewLedger
<1>3. history = <<>> /\ <<>> \in Seq(Record) /\ Len(<<>>) = 0 /\ DOMAIN <<>> = {}
  BY DEF Init
<1>4. slots \in [Methods -> Slot(Layers, Base)]
  BY DEF Init, Bare, Slot
<1>5. TypeOK
  BY <1>1, <1>2, <1>3, <1>4 DEF Init, TypeOK
<1>6. ActiveOwns /\ FirstMount /\ StoreInv
  BY <1>1 DEF Init, ActiveOwns, FirstMount, StoreInv, NotStarted
<1>7. CaptureInv /\ HistoryInv /\ OnceInv
  BY <1>3 DEF Init, CaptureInv, BodyIsCaptured, HistoryInv, OnceInv, Once, RecordsOf, NotStarted
<1>8. PendingInv
  <2>1. InFlight = {}
    BY DEF Init, InFlight, NotStarted
  <2> QED
    BY <2>1, FS_EmptySet DEF Init, PendingInv
<1>9. LedgerInv
  BY <1>2, <1>3 DEF LedgerInv, Ledger, WindowOf
<1> QED
  BY <1>5, <1>6, <1>7, <1>8, <1>9 DEF IInv

LEMMA NextInv == IInv /\ [Next]_vars => IInv'
<1> SUFFICES ASSUME IInv, [Next]_vars PROVE IInv'
  OBVIOUS
<1>1. CASE Plugins
  BY <1>1, MountStep, SlotStep DEF Plugins
<1>2. CASE ToolCalls
  BY <1>2, DispatchStep, ReturnStep DEF ToolCalls
<1>3. CASE Running
  BY <1>3, StartStep, StartFailsStep, EndStep DEF Running
<1>4. CASE Continuations
  BY <1>4, SettleStep, ReleaseStep DEF Continuations
<1>5. CASE UNCHANGED vars
  <2>1. InFlight' = InFlight /\ \A e \in Executions : Once(e)' <=> Once(e)
    BY <1>5 DEF vars, InFlight, Once, RecordsOf
  <2> QED
    BY <1>5, <2>1
       DEF vars, IInv, TypeOK, ActiveOwns, FirstMount, StoreInv, CaptureInv, BodyIsCaptured,
           HistoryInv, OnceInv, PendingInv, LedgerInv
<1> QED
  BY <1>1, <1>2, <1>3, <1>4, <1>5 DEF Next

\* The invariant of the observer holds of every behaviour.
LEMMA Inductive == Spec => []IInv
  BY InitInv, NextInv, PTL DEF Spec

-----------------------------------------------------------------------------
\* The state stays in its types, whatever mounts, wraps, nests and runs.
THEOREM EvidenceType == Spec => []TypeOK
<1>1. IInv => TypeOK
  BY DEF IInv
<1> QED
  BY Inductive, <1>1, PTL

\* The ledger is the newest part of all that was ever recorded, across
\* disposals, remounts and other sizes (native-evidence.ts 177-183, 201-209).
THEOREM LedgerIsAlwaysWindow == Spec => []LedgerIsWindow
<1>1. IInv => LedgerIsWindow
  <2> SUFFICES ASSUME IInv PROVE LedgerIsWindow
    OBVIOUS
  <2> DEFINE n == Len(ledger.records)
  <2>1. ledger.records \in Seq(Record) /\ history \in Seq(Record) /\ WindowOf(ledger, history)
        /\ ledger.dropped \in Nat
    BY DEF IInv, TypeOK, LedgerInv
  <2>2. n \in 0 .. Len(history) /\ Len(history) - n = ledger.dropped
    BY <2>1 DEF WindowOf
  <2>3. LastOf(n, history) \in Seq(Record) /\ Len(LastOf(n, history)) = n
        /\ \A i \in 1 .. n : LastOf(n, history)[i] = history[ledger.dropped + i]
    BY <2>1, <2>2, LastOfProperties
  <2>4. ledger.records = LastOf(n, history)
    BY <2>1, <2>3, SeqEqual DEF WindowOf
  <2> QED
    BY <2>1, <2>4 DEF LedgerIsWindow, WindowOf
<1> QED
  BY Inductive, <1>1, PTL

\* What an observer saw start has exactly one record once it has ended, and
\* what none saw has none (native-evidence.ts 452, 473-505, 518-522).
THEOREM RecordedExactlyOnce == Spec => []RecordedOnce
<1>1. IInv => RecordedOnce
  <2> SUFFICES ASSUME IInv, NEW e \in Executions
               PROVE  Cardinality(RecordsOf(e)) =
                        IF execs[e].phase \in {"settled", "released"} /\ execs[e].observers # {}
                        THEN 1 ELSE 0
    BY DEF RecordedOnce
  <2>1. Once(e)
    BY DEF IInv, OnceInv
  <2> QED
    BY <2>1, FS_EmptySet, FS_Singleton DEF Once
<1> QED
  BY Inductive, <1>1, PTL

\* The pending count is that of the observed processes under way
\* (native-evidence.ts 269-271, 459-466, 496-503).
THEOREM PendingIsAlwaysInFlight == Spec => []PendingIsInFlight
<1>1. IInv => PendingIsInFlight
  BY DEF IInv, PendingInv, InFlight, PendingIsInFlight
<1> QED
  BY Inductive, <1>1, PTL

\* A record names the call its execution was started by, or one of the same
\* root (native-tool-correlation.ts 32-60).
THEOREM CorrelationIsAlwaysCausal == Spec => []CorrelationIsCausal
<1>1. IInv => CorrelationIsCausal
  <2> SUFFICES ASSUME IInv, NEW i \in DOMAIN history
               PROVE  LET named == history[i].correlation
                          body  == execs[history[i].exec].body
                      IN  /\ body \in watched => named = body
                          /\ named # None => body # None /\ Root[named] = Root[body]
    BY DEF CorrelationIsCausal
  <2> DEFINE x == execs[history[i].exec]
  <2>1. history[i].exec \in Executions
    BY HistoryExecs
  <2>2. x \in Execution /\ x.body \in Calls \cup {None} /\ BodyIsCaptured(x)
        /\ history[i].correlation = x.correlation
    BY <2>1 DEF IInv, TypeOK, Execution, CaptureInv, HistoryInv
  <2>3. None \notin watched
    BY EvidenceAssumption DEF IInv, TypeOK
  <2> QED
    BY <2>2, <2>3 DEF BodyIsCaptured, IInv, StoreInv
<1> QED
  BY Inductive, <1>1, PTL

-----------------------------------------------------------------------------
(* Who is in the path of calls.                                            *)

\* A slot of this module's methods.
Ends(s) == Chain(Layers, Base, s)

\* The method alone is in nobody's path.
LEMMA BareChain == LET s == Bare(Layers, Base) IN Ends(s) /\ Through(s) = {} /\ \A l \in Layers : Loose(s, l)
<1> DEFINE s == Bare(Layers, Base)
<1>1. Base \notin Layers /\ s \in Slot(Layers, Base) /\ s.top = Base /\ s.below = [l \in Layers |-> Base]
  BY EvidenceAssumption DEF Bare, Slot, Layers
<1> HIDE DEF s
<1>2. Ends(s)
  BY <1>1 DEF Chain, Ends
<1>3. Descends(Layers, Base, s)
  BY <1>2, FromEquation DEF Ends
<1>4. Through(s) = {} /\ \A l \in Layers : Loose(s, l)
  BY <1>1, <1>3 DEF Through, Descends, Loose
<1> QED
  BY <1>2, <1>4 DEF s

\* A loose layer put on top adds itself to the path, and to no other.
LEMMA WrappedPath ==
  ASSUME NEW s, Ends(s), NEW l \in Layers, Loose(s, l)
  PROVE  /\ Ends(WrappedBy(s, l)) /\ Through(WrappedBy(s, l)) = {l} \cup Through(s)
         /\ \A m \in Layers \ {l} : Loose(s, m) => Loose(WrappedBy(s, l), m)
<1>1. Ends(WrappedBy(s, l)) /\ Through(WrappedBy(s, l)) = {l} \cup Through(s)
  BY WrappedChain DEF Ends
<1>2. \A m \in Layers \ {l} : Loose(s, m) => Loose(WrappedBy(s, l), m)
  BY DEF Ends, Chain, Loose, WrappedBy, Slot
<1> QED
  BY <1>1, <1>2

\* Restoring a slot takes nobody else out of the path.
LEMMA RestoredPath ==
  ASSUME NEW s, Ends(s), NEW l \in Layers
  PROVE  /\ Ends(RestoredBy(s, l))
         /\ Through(RestoredBy(s, l)) \subseteq Through(s)
         /\ Through(s) \subseteq {l} \cup Through(RestoredBy(s, l))
         /\ \A m \in Layers \ Through(s) : Loose(s, m) => Loose(RestoredBy(s, l), m)
<1>1. /\ Ends(RestoredBy(s, l))
      /\ Through(RestoredBy(s, l)) = IF s.top = l THEN Through(s) \ {l} ELSE Through(s)
  BY RestoredChain DEF Ends
<1>2. \A m \in Layers : Loose(s, m) => Loose(RestoredBy(s, l), m)
  BY DEF Ends, Chain, Loose, RestoredBy, Slot
<1> QED
  BY <1>1, <1>2

\* No cycle in a slot; who is in its path was mounted; and who may still be put
\* on top has nobody calling on to it.
PathOf(s) ==
  /\ Ends(s)
  /\ Through(s) \cap Observers \subseteq mounted
  /\ \A l \in Layers \ (mounted \cup gone \cup Through(s)) : Loose(s, l)

PathInv == \A m \in Methods : PathOf(slots[m])

\* A step keeps whom it does not dispose of in the path of a slot.
Kept(s, t) == \A l \in Through(s) : l \in {patch'} \cup (Foreign \ gone') => l \in Through(t)

\* apply wraps a slot: the new observer was in nobody's path.
LEMMA MountPath ==
  ASSUME IInv, NEW o \in Observers, NEW max \in Sizes, Mount(o, max),
         NEW m \in Methods, PathOf(slots[m])
  PROVE  PathOf(slots[m])' /\ Kept(slots[m], slots'[m])
<1> DEFINE s == slots[m]
<1>1. /\ s \in Slot(Layers, Base) /\ o \in Layers /\ o \notin mounted /\ o \notin gone /\ o \notin Through(s)
      /\ slots'[m] = WrappedBy(s, o) /\ mounted' = mounted \cup {o} /\ gone' = gone
  BY EvidenceAssumption DEF Mount, IInv, TypeOK, Layers, PathOf
<1> HIDE DEF s
<1>2. Ends(s) /\ Loose(s, o)
  BY <1>1 DEF PathOf, s
<1>3. /\ Ends(slots'[m]) /\ Through(slots'[m]) = {o} \cup Through(s)
      /\ \A l \in Layers \ {o} : Loose(s, l) => Loose(slots'[m], l)
  BY <1>1, <1>2, WrappedPath
<1> QED
  BY <1>1, <1>3 DEF PathOf, Kept, s

\* The disposer restores a slot: only the disposed observer leaves its path.
LEMMA DisposePath ==
  ASSUME IInv, NEW o \in Observers, Dispose(o), NEW m \in Methods, PathOf(slots[m])
  PROVE  PathOf(slots[m])' /\ Kept(slots[m], slots'[m])
<1> DEFINE s == slots[m]
<1>0. s \in Slot(Layers, Base) /\ o \in Layers
  BY DEF IInv, TypeOK, Layers
<1>1. /\ s \in Slot(Layers, Base) /\ o \in Layers /\ o \in mounted /\ o \notin Foreign /\ o = patch /\ o # None
      /\ slots'[m] = RestoredBy(s, o) /\ patch' = None /\ UNCHANGED <<mounted, gone>>
  BY <1>0, EvidenceAssumption DEF Dispose, IInv, ActiveOwns, TypeOK
<1> HIDE DEF s
<1>2. /\ Ends(slots'[m]) /\ Through(slots'[m]) \subseteq Through(s)
      /\ Through(s) \subseteq {o} \cup Through(slots'[m])
      /\ \A l \in Layers \ Through(s) : Loose(s, l) => Loose(slots'[m], l)
  BY <1>1, RestoredPath DEF PathOf, s
<1> QED
  BY <1>1, <1>2 DEF PathOf, Kept, s

\* Another plugin wraps one of the methods: it was in nobody's path.
LEMMA ForeignMountPath ==
  ASSUME IInv, NEW f \in Foreign, NEW n \in Methods, ForeignMount(f, n),
         NEW m \in Methods, PathOf(slots[m])
  PROVE  PathOf(slots[m])' /\ Kept(slots[m], slots'[m])
<1> DEFINE s == slots[m]
<1>1. /\ s \in Slot(Layers, Base) /\ f \in Layers /\ f \notin mounted /\ f \notin gone /\ f \notin Through(s)
      /\ f \notin Observers /\ UNCHANGED <<mounted, gone>>
      /\ slots'[m] = IF m = n THEN WrappedBy(s, f) ELSE s
  BY EvidenceAssumption DEF ForeignMount, Wrapped, IInv, TypeOK, Layers
<1> HIDE DEF s
<1>2. Ends(s) /\ Loose(s, f)
  BY <1>1 DEF PathOf, s
<1>3. CASE m = n
  <2>1. /\ Ends(slots'[m]) /\ Through(slots'[m]) = {f} \cup Through(s)
        /\ \A l \in Layers \ {f} : Loose(s, l) => Loose(slots'[m], l)
    BY <1>1, <1>2, <1>3, WrappedPath
  <2> QED
    BY <1>1, <2>1 DEF PathOf, Kept, s
<1>4. CASE m # n
  BY <1>1, <1>4 DEF PathOf, Kept, s
<1> QED
  BY <1>3, <1>4

\* Another plugin is unloaded: only its own wrapper leaves the path.
LEMMA ForeignDisposePath ==
  ASSUME IInv, NEW f \in Foreign, ForeignDispose(f), NEW m \in Methods, PathOf(slots[m])
  PROVE  PathOf(slots[m])' /\ Kept(slots[m], slots'[m])
<1> DEFINE s == slots[m]
<1>0. s \in Slot(Layers, Base) /\ f \in Layers
  BY DEF IInv, TypeOK, Layers
<1>1. /\ s \in Slot(Layers, Base) /\ f \in Layers /\ f # patch /\ gone' = gone \cup {f}
      /\ slots'[m] = RestoredBy(s, f) /\ UNCHANGED <<mounted, patch>>
  BY <1>0, EvidenceAssumption DEF ForeignDispose, IInv, TypeOK
<1> HIDE DEF s
<1>2. /\ Ends(slots'[m]) /\ Through(slots'[m]) \subseteq Through(s)
      /\ Through(s) \subseteq {f} \cup Through(slots'[m])
      /\ \A l \in Layers \ Through(s) : Loose(s, l) => Loose(slots'[m], l)
  BY <1>1, RestoredPath DEF PathOf, s
<1> QED
  BY <1>1, <1>2 DEF PathOf, Kept, s

\* Every step keeps both chains, and in them whom it does not dispose of.
LEMMA PathStep ==
  ASSUME IInv, PathInv, [Next]_vars, NEW m \in Methods
  PROVE  PathOf(slots[m])' /\ (Next => Kept(slots[m], slots'[m]))
<1>0. PathOf(slots[m])
  BY DEF PathInv
<1>1. CASE Plugins
  BY <1>0, <1>1, MountPath, DisposePath, ForeignMountPath, ForeignDisposePath DEF Plugins
<1>2. CASE UNCHANGED chain
  BY <1>0, <1>2 DEF chain, PathOf, Kept
<1>3. CASE ToolCalls
  BY <1>2, <1>3 DEF ToolCalls, Dispatch, Return
<1>4. CASE Running
  <2>1. ASSUME NEW e \in Executions, NEW b \in Bodies, StartFails(e, b)
        PROVE  UNCHANGED chain
    BY <2>1 DEF StartFails
  <2>2. ASSUME NEW e \in Executions, NEW b \in Bodies, NEW n \in Methods, Start(e, n, b)
        PROVE  UNCHANGED chain
    BY <2>2 DEF Start
  <2>3. ASSUME NEW e \in Executions, NEW outcome, End(e, outcome)
        PROVE  UNCHANGED chain
    BY <2>3 DEF End
  <2> QED
    BY <1>2, <1>4, <2>1, <2>2, <2>3 DEF Running
<1>5. CASE Continuations
  <2>1. UNCHANGED chain
    BY <1>5 DEF Continuations, Settle, Release
  <2> QED
    BY <1>2, <2>1
<1>6. CASE UNCHANGED vars
  BY <1>2, <1>6 DEF vars, chain
<1> QED
  BY <1>1, <1>3, <1>4, <1>5, <1>6 DEF Next

\* The chains of both methods are sound in every state of every behaviour.
LEMMA PathInductive == Spec => [](IInv /\ PathInv)
<1>1. Init => PathInv
  <2> SUFFICES ASSUME Init, NEW m \in Methods PROVE PathOf(slots[m])
    BY DEF PathInv
  <2>1. slots[m] = Bare(Layers, Base)
    BY DEF Init
  <2> QED
    BY <2>1, BareChain DEF PathOf
<1>2. IInv /\ PathInv /\ [Next]_vars => PathInv'
  BY PathStep DEF PathInv
<1> QED
  BY <1>1, <1>2, InitInv, NextInv, PTL DEF Spec

\* No mount and no disposal takes the mounted observer or a loaded plugin's
\* wrapper out of the path of run or of start (native-evidence.ts 518-523).
THEOREM NobodyIsEverClobbered == Spec => NobodyIsClobbered
<1> DEFINE Stays == \A m \in Methods : \A l \in Through(slots[m]) :
                      l \in {patch'} \cup (Foreign \ gone') => l \in Through(slots'[m])
<1>1. IInv /\ PathInv /\ [Next]_vars => [Stays]_vars
  BY PathStep DEF Kept
<1> QED
  BY <1>1, PathInductive, PTL DEF Spec, NobodyIsClobbered
=============================================================================
