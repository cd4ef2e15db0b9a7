--------------------------- MODULE NativeEvidence ---------------------------
(***************************************************************************)
(* The evidence observer packages/dsh-orcana-linux/src/native-evidence.ts  *)
(* with native-tool-correlation.ts: instances of the plugin come and go on *)
(* one shell provider, wrap its run and start, and record every execution  *)
(* they see end, in a bounded ledger that outlives them.                   *)
(*                                                                         *)
(* Other plugins wrap the same methods and tool calls nest; both belong to *)
(* the host and are modelled from how the observer meets them.  A foreign  *)
(* wrapper calls on at once, and restores the slot only when on top.       *)
(*                                                                         *)
(* What an execution goes through:                                         *)
(*                                                                         *)
(*   new --Start--> running --End--> ended --Settle--> settled             *)
(*                                           --Release--> released         *)
(***************************************************************************)
EXTENDS BoundedLedger, WrapperChain, FiniteSets

CONSTANTS
  Observers,   \* instances of the plugin, each mounted at most once
  Foreign,     \* wrappers of other plugins
  Base,        \* the shell's own run and start
  Calls,       \* tool calls
  Parent,      \* the call in whose body a call is dispatched, or None
  Root,        \* the call the model requested, for each call under it
  Executions,  \* shell executions
  Sizes,       \* values of ledgerMaxEntries
  None,        \* no call, no observer
  MaxWork      \* bound of the model: calls, executions and foreign wrappers there may be

ASSUME EvidenceAssumption ==
  /\ Observers \cap Foreign = {}
  /\ Base \notin Observers \cup Foreign
  /\ None \notin Observers \cup Foreign \cup Calls
  /\ Parent \in [Calls -> Calls \cup {None}]
  /\ Root \in [Calls -> Calls]
  /\ \A c \in Calls : Parent[c] # None => Root[c] = Root[Parent[c]]
  /\ Sizes \subseteq Nat \ {0}
  /\ MaxWork \in Nat

Layers  == Observers \cup Foreign
Methods == {"run", "start"}

VARIABLES
  slots,     \* raw.run and raw.start
  patch,     \* raw[OBSERVER_PATCH_STATE]: the observer that owns the provider
  active,    \* observers whose active flag is set
  mounted,   \* observers mounted so far
  gone,      \* foreign wrappers whose plugin was unloaded
  ledger,    \* raw[EVIDENCE_LEDGER_STATE], its window
  pending,   \* and its pendingBackground
  calls,     \* where each tool call is
  store,     \* the correlation each call's body finds in its async context
  watched,   \* calls dispatched while an observer was mounted
  execs,     \* where each execution is, and what was captured at its start
  history    \* every record there ever was

chain == <<slots, patch, active, mounted, gone>>
tools == <<calls, store, watched>>
vars  == <<slots, patch, active, mounted, gone, ledger, pending, calls, store, watched,
          execs, history>>

Record == [exec : Executions, kind : {"foreground", "background"},
           outcome : {"completed", "infrastructure-error"},
           correlation : Calls \cup {None}]

Execution ==
  [phase : {"new", "running", "ended", "settled", "released"},
   method : Methods, body : Calls \cup {None}, correlation : Calls \cup {None},
   observers : SUBSET Observers, outcome : {"completed", "infrastructure-error"}]

NotStarted == [phase |-> "new", method |-> "run", body |-> None, correlation |-> None,
               observers |-> {}, outcome |-> "completed"]

NoLedger == NewLedger(0)

Init ==
  /\ slots = [m \in Methods |-> Bare(Layers, Base)]
  /\ patch = None
  /\ active = {}
  /\ mounted = {}
  /\ gone = {}
  /\ ledger = NoLedger
  /\ pending = 0
  /\ calls = [c \in Calls |-> "new"]
  /\ store = [c \in Calls |-> None]
  /\ watched = {}
  /\ execs = [e \in Executions |-> NotStarted]
  /\ history = <<>>

-----------------------------------------------------------------------------
(* The ledger. *)

\* One record for each observer of an execution.
Recorded(l, observers, record) ==
  LET upTo[n \in 0..Cardinality(observers)] ==
        IF n = 0 THEN l ELSE Pushed(upTo[n - 1], record)
  IN  upTo[Cardinality(observers)]

RecordOf(e, x) ==
  [exec |-> e, correlation |-> x.correlation, outcome |-> x.outcome,
   kind |-> IF x.method = "run" THEN "foreground" ELSE "background"]

\* The records of an execution x go to the ledger, and into the history.
Write(e, x) ==
  /\ ledger' = Recorded(ledger, x.observers, RecordOf(e, x))
  /\ history' = history \o [i \in 1..Cardinality(x.observers) |-> RecordOf(e, x)]

-----------------------------------------------------------------------------
(* Plugins come and go. *)

\* The ledger of a mount: the provider's, resized, or the provider's first.
LedgerFor(max) == IF mounted = {} THEN NewLedger(max) ELSE Resized(ledger, max)

\* Mutant of Mount: every mount begins to count afresh.
MountAfresh(o, max) ==
  /\ patch = None
  /\ o \notin mounted
  /\ ledger' = NewLedger(max)
  /\ pending' = 0
  /\ slots' = [m \in Methods |-> WrappedBy(slots[m], o)]
  /\ active' = active \cup {o}
  /\ mounted' = mounted \cup {o}
  /\ patch' = o
  /\ UNCHANGED <<gone, tools, execs, history>>

\* apply: a second mount on an owned provider throws before it changes anything.
Mount(o, max) ==
  /\ patch = None
  /\ o \notin mounted
  /\ ledger' = LedgerFor(max)
  /\ slots' = [m \in Methods |-> WrappedBy(slots[m], o)]
  /\ active' = active \cup {o}
  /\ mounted' = mounted \cup {o}
  /\ patch' = o
  /\ UNCHANGED <<gone, pending, tools, execs, history>>

\* Mutant of Dispose: the wrapper left under another keeps observing.
DisposeStaysActive(o) ==
  /\ patch = o
  /\ patch' = None
  /\ slots' = [m \in Methods |-> RestoredBy(slots[m], o)]
  /\ UNCHANGED <<active, mounted, gone, ledger, pending, tools, execs, history>>

\* The effect apply returns: the wrapper passes through from now on, and comes
\* off each method it is still on top of.
Dispose(o) ==
  /\ o \in active
  /\ active' = active \ {o}
  /\ IF patch = o
     THEN /\ patch' = None
          /\ slots' = [m \in Methods |-> RestoredBy(slots[m], o)]
     ELSE UNCHANGED <<patch, slots>>
  /\ UNCHANGED <<mounted, gone, ledger, pending, tools, execs, history>>

\* Another plugin wraps one of the methods, once, and is unloaded.
Wrapped(f) == \E m \in Methods : f \in Through(slots[m])

\* The bound of the model on what has begun.
MayBegin ==
  Cardinality({f \in Foreign : f \in gone \/ Wrapped(f)}) + Cardinality({c \in Calls : calls[c] # "new"})
    + Cardinality({e \in Executions : execs[e].phase # "new"}) < MaxWork

ForeignMount(f, m) ==
  /\ MayBegin
  /\ f \notin gone
  /\ ~Wrapped(f)
  /\ slots' = [slots EXCEPT ![m] = WrappedBy(@, f)]
  /\ UNCHANGED <<patch, active, mounted, gone, ledger, pending, tools, execs, history>>

ForeignDispose(f) ==
  /\ Wrapped(f)
  /\ f \notin gone
  /\ gone' = gone \cup {f}
  /\ slots' = [m \in Methods |-> RestoredBy(slots[m], f)]
  /\ UNCHANGED <<patch, active, mounted, ledger, pending, tools, execs, history>>

-----------------------------------------------------------------------------
(* Tool calls: the listener on tools/execute runs the body under the call's *)
(* own correlation; without it the body keeps the context it is called in. *)

ContextOf(c) == IF c = None THEN None ELSE store[c]

\* Mutant of Dispatched: an outer correlation is not shadowed.
DispatchedKeeping(c) ==
  IF active = {} \/ ContextOf(Parent[c]) # None THEN ContextOf(Parent[c]) ELSE c

\* The context of a call's body: a listener is installed while mounted.
Dispatched(c) == IF active = {} THEN ContextOf(Parent[c]) ELSE c

Dispatch(c) ==
  /\ MayBegin
  /\ calls[c] = "new"
  /\ Parent[c] # None => calls[Parent[c]] = "open"
  /\ calls' = [calls EXCEPT ![c] = "open"]
  /\ store' = [store EXCEPT ![c] = Dispatched(c)]
  /\ watched' = IF active = {} THEN watched ELSE watched \cup {c}
  /\ UNCHANGED <<chain, ledger, pending, execs, history>>

Return(c) ==
  /\ calls[c] = "open"
  /\ calls' = [calls EXCEPT ![c] = "returned"]
  /\ UNCHANGED <<chain, ledger, pending, store, watched, execs, history>>

-----------------------------------------------------------------------------
(* Executions, started in the body of an open call or of none. *)

Bodies == {c \in Calls : calls[c] = "open"} \cup {None}

\* The observers a call of method m reaches that are not mere pass-throughs.
Watching(m) == active \cap Through(slots[m])

\* What the wrappers capture before they call on.
Started(m, b) ==
  [phase |-> "running", method |-> m, body |-> b, correlation |-> ContextOf(b),
   observers |-> Watching(m), outcome |-> "completed"]

Start(e, m, b) ==
  /\ MayBegin
  /\ execs[e].phase = "new"
  /\ execs' = [execs EXCEPT ![e] = Started(m, b)]
  /\ pending' = IF m = "run" THEN pending ELSE pending + Cardinality(Watching(m))
  /\ UNCHANGED <<chain, tools, ledger, history>>

\* start throws: there is no process to wait for, and a record at once.
StartFails(e, b) ==
  LET x == [Started("start", b) EXCEPT !.phase = "released", !.outcome = "infrastructure-error"]
  IN  /\ MayBegin
      /\ execs[e].phase = "new"
      /\ execs' = [execs EXCEPT ![e] = x]
      /\ Write(e, x)
      /\ UNCHANGED <<chain, tools, pending>>

\* run settles, or the process's done does; either may reject.
End(e, outcome) ==
  /\ execs[e].phase = "running"
  /\ execs' = [execs EXCEPT ![e].phase = "ended", ![e].outcome = outcome]
  /\ UNCHANGED <<chain, tools, ledger, pending, history>>

\* Mutant of Settle: a disposed observer drops what was under way.
SettleIfActive(e) ==
  /\ execs[e].phase = "ended"
  /\ execs[e].observers \subseteq active
  /\ execs' = [execs EXCEPT ![e].phase = IF @ = "ended" /\ execs[e].method = "run"
                                        THEN "released" ELSE "settled"]
  /\ Write(e, execs[e])
  /\ UNCHANGED <<chain, tools, pending>>

\* The continuation that records, active or not: after the await of a run, or
\* in then or catch of a process.
Settle(e) ==
  /\ execs[e].phase = "ended"
  /\ execs' = [execs EXCEPT ![e].phase = IF execs[e].method = "run" THEN "released" ELSE "settled"]
  /\ Write(e, execs[e])
  /\ UNCHANGED <<chain, tools, pending>>

\* The finally of a process.
Release(e) ==
  LET n == Cardinality(execs[e].observers)
  IN  /\ execs[e].phase = "settled"
      /\ execs' = [execs EXCEPT ![e].phase = "released"]
      /\ pending' = IF pending >= n THEN pending - n ELSE 0
      /\ UNCHANGED <<chain, tools, ledger, history>>

-----------------------------------------------------------------------------
Plugins ==
  \/ \E o \in Observers : Dispose(o) \/ \E max \in Sizes : Mount(o, max)
  \/ \E f \in Foreign : ForeignDispose(f) \/ \E m \in Methods : ForeignMount(f, m)

ToolCalls == \E c \in Calls : Dispatch(c) \/ Return(c)

Running ==
  \E e \in Executions :
    \/ \E b \in Bodies : StartFails(e, b) \/ \E m \in Methods : Start(e, m, b)
    \/ \E outcome \in {"completed", "infrastructure-error"} : End(e, outcome)

Continuations == \E e \in Executions : Settle(e) \/ Release(e)

Next == Plugins \/ ToolCalls \/ Running \/ Continuations

Spec == Init /\ [][Next]_vars

\* Continuations are queued by the runtime and run; nothing else need happen.
FairSpec == Spec /\ WF_vars(Continuations)

-----------------------------------------------------------------------------
(* Properties. *)

\* The state stays in its types.
TypeOK ==
  /\ slots \in [Methods -> Slot(Layers, Base)]
  /\ patch \in Observers \cup {None}
  /\ active \in SUBSET mounted
  /\ mounted \in SUBSET Observers
  /\ gone \in SUBSET Foreign
  /\ ledger.records \in Seq(Record)
  /\ {ledger.dropped, ledger.total, ledger.max, pending} \subseteq Nat
  /\ calls \in [Calls -> {"new", "open", "returned"}]
  /\ store \in [Calls -> Calls \cup {None}]
  /\ watched \in SUBSET Calls
  /\ execs \in [Executions -> Execution]
  /\ history \in Seq(Record)

\* The ledger holds the newest records there ever were, no more than the size
\* last mounted, and accounts for the rest, whatever instances wrote them
\* (native-evidence.ts 177-183, 201-209, 459-466).
LedgerIsWindow ==
  /\ ledger.total = Len(history)
  /\ ledger.total = ledger.dropped + Len(ledger.records)
  /\ ledger.records = LastOf(Len(ledger.records), history)
  /\ Len(ledger.records) <= ledger.max

RecordsOf(e) == {i \in DOMAIN history : history[i].exec = e}

\* An execution seen by an observer gets one record when it ends, although the
\* observer may be gone and another mounted on top of what it left; one that no
\* observer saw gets none (native-evidence.ts 452, 473-505, 518-522).
RecordedOnce ==
  \A e \in Executions :
    Cardinality(RecordsOf(e)) =
      IF execs[e].phase \in {"settled", "released"} /\ execs[e].observers # {} THEN 1 ELSE 0

\* pendingBackground is the number of observed processes under way, across
\* disposals and remounts (native-evidence.ts 269-271, 459-466, 496-503).
PendingIsInFlight ==
  pending =
    Cardinality({e \in Executions :
      /\ execs[e].method = "start"
      /\ execs[e].phase \in {"running", "ended", "settled"}
      /\ execs[e].observers # {}})

\* A record names the call whose body started the execution, if an observer was
\* mounted when that call was dispatched; else none, or a call of the same root;
\* and work started outside of calls has none (native-tool-correlation.ts 32-60).
CorrelationIsCausal ==
  \A i \in DOMAIN history :
    LET named == history[i].correlation
        body  == execs[history[i].exec].body
    IN  /\ body \in watched => named = body
        /\ named # None => body # None /\ Root[named] = Root[body]

\* Whoever wraps a method and was not unloaded stays in the path of its calls:
\* no disposal takes another plugin's wrapper out, and no disposal of theirs the
\* mounted observer (native-evidence.ts 518-523).
NobodyIsClobbered ==
  [][\A m \in Methods : \A l \in Through(slots[m]) :
       l \in {patch'} \cup (Foreign \ gone') => l \in Through(slots'[m])]_vars

\* What ended gets its record and, if a process, leaves the pending count, also
\* after its observer was disposed (native-evidence.ts 476-483, 497-503).
EndedIsReleased ==
  \A e \in Executions : execs[e].phase = "ended" ~> execs[e].phase = "released"

=============================================================================
