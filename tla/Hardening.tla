------------------------------ MODULE Hardening ------------------------------
(***************************************************************************)
(* The hardening plugin packages/dsh-orcana-linux/src/index.ts: instances  *)
(* come and go on one sandbox provider and wrap its confine.  A wrapper    *)
(* confines through what it wrapped, adds the layers its configuration and *)
(* the call ask for, audits what it did, and fails closed when a required  *)
(* layer cannot be had.  Unlike the evidence observer's wrappers, one that *)
(* stays under another plugin's when it is disposed goes on hardening.     *)
(*                                                                         *)
(* The provider and the other plugins are external.  A foreign wrapper     *)
(* calls on, changes nothing, and restores the slot only when on top.  The *)
(* provider's argv has a place for the network layer (a seam: the -- of    *)
(* bwrap, the profile of sandbox-exec), or has none; the code knows both,  *)
(* and says of both that the layer is applied.                             *)
(***************************************************************************)
EXTENDS BoundedLedger, WrapperChain, FiniteSets

CONSTANTS
  Instances,   \* instances of the plugin, each mounted at most once
  Foreign,     \* wrappers of other plugins
  Base,        \* the provider's own confine
  Configs,     \* configurations an instance may be mounted with
  Policies,    \* what calls of confine carry
  Runners,     \* what the provider's argv may begin with
  Size,        \* ledgerMaxEntries
  None,        \* no instance
  Unset,       \* an absent field of a configuration or a policy
  MaxConfines  \* bound of the model

\* A limit prlimit sets, or none in this package's scope does.
Prlimits == {"memory", "pids"}
Limits   == Prlimits \cup {"cpu"}

LimitsField  == (SUBSET Limits) \cup {Unset}
NetworkField == {"inherit", "none", Unset}
ModeField    == {"required", "best-effort", Unset}

Config == [limits : LimitsField, network : NetworkField,
           limitsMode : ModeField, networkMode : ModeField]
Policy == [limits : LimitsField, network : NetworkField]

ASSUME HardeningAssumption ==
  /\ Instances \cap Foreign = {}
  /\ {Base, None} \cap (Instances \cup Foreign) = {}
  /\ Configs \subseteq Config
  /\ Policies \subseteq Policy
  /\ "prlimit" \notin Runners
  /\ Size \in Nat \ {0}
  /\ MaxConfines \in Nat

Layers == Instances \cup Foreign

VARIABLES
  slot,      \* provider.confine
  patch,     \* provider[PATCHED_STATE]: the instance that owns the provider
  mounted,   \* instances mounted so far
  gone,      \* foreign wrappers whose plugin was unloaded
  config,    \* the configuration of each instance
  prlimit,   \* is there a usable prlimit on this host?
  runner,    \* what the provider's argv begins with on this host
  seam,      \* has the provider's argv the place for the network layer?
  ledgers,   \* the audit ledger of each instance
  last,      \* the last call of confine: what it carried and what came of it
  confines   \* calls so far

setting == <<config, prlimit, runner, seam>>
vars == <<slot, patch, mounted, gone, setting, ledgers, last, confines>>

\* What an argv carries, by the instance that added it: layers in their place,
\* and network flags appended after everything else.
Argv == [head   : Runners \cup {"prlimit"},
         layers : SUBSET (Instances \X (Limits \cup {"network", "trailing"}))]

NotConfined == [policy |-> Unset, by |-> None, through |-> {}, failed |-> FALSE,
                argv |-> Unset]

Init ==
  /\ slot = Bare(Layers, Base)
  /\ patch = None
  /\ mounted = {}
  /\ gone = {}
  /\ config \in [Instances -> Configs]
  /\ prlimit \in BOOLEAN
  /\ runner \in Runners
  /\ seam \in BOOLEAN
  /\ ledgers = [i \in Instances |-> NewLedger(Size)]
  /\ last = NotConfined
  /\ confines = 0

-----------------------------------------------------------------------------
(* One wrapper's part of a confinement. *)

\* effectiveConfig: each field as the call carries it, else as configured.
Effective(i, policy) ==
  [limits  |-> IF policy.limits # Unset THEN policy.limits ELSE config[i].limits,
   network |-> IF policy.network # Unset THEN policy.network ELSE config[i].network]

\* What is asked of instance i.
Asked(i, policy) ==
  LET c == Effective(i, policy)
  IN  (IF c.limits = Unset THEN {} ELSE c.limits)
        \cup (IF c.network = "none" THEN {"network"} ELSE {})

\* Does applyHardening take this for available over an argv with this head?
Available(layer, head) ==
  \/ layer \in Prlimits /\ prlimit
  \/ layer = "network" /\ head \in {"bwrap", "sandbox-exec"}

\* Mutant of Required: best effort, unless configured.
RequiredIfSaid(i, layer) ==
  "required" = IF layer = "network" THEN config[i].networkMode ELSE config[i].limitsMode

\* degradationMode: required, unless configured.
Required(i, layer) ==
  "best-effort" # IF layer = "network" THEN config[i].networkMode ELSE config[i].limitsMode

\* Mutant of Gotten: the head is looked at when the limits are in front of it.
GottenOverPrefix(i, policy, head) ==
  LET limits == {layer \in Asked(i, policy) \cap Prlimits : prlimit}
  IN  {layer \in Asked(i, policy) :
         Available(layer, IF limits = {} THEN head ELSE "prlimit")}

\* applyHardening: the layers it says it applied.
Gotten(i, policy, head) == {layer \in Asked(i, policy) : Available(layer, head)}

\* What becomes of them in the argv.  Without the seam insertBeforeBwrapDash
\* appends the flag, and appendSeatbeltDeny returns the argv as it was.
Placed(gotten, head) ==
  IF seam \/ "network" \notin gotten THEN gotten
  ELSE (gotten \ {"network"}) \cup {tail \in {"trailing"} : head = "bwrap"}

\* enforceHardening over what the wrapped confine returned, and the record:
\* what is recorded is what was gotten, wherever it was placed.
Hardened(i, policy, argv) ==
  LET gotten  == Gotten(i, policy, argv.head)
      missing == Asked(i, policy) \ gotten
      refused == {layer \in missing : Required(i, layer)}
  IN  IF refused # {}
      THEN [failed |-> TRUE, argv |-> argv,
            audit |-> [failed |-> TRUE, applied |-> {}, degraded |-> refused]]
      ELSE [failed |-> FALSE,
            argv   |-> [head   |-> IF gotten \cap Prlimits = {} THEN argv.head ELSE "prlimit",
                        layers |-> argv.layers \cup ({i} \X Placed(gotten, argv.head))],
            audit  |-> [failed |-> FALSE, applied |-> gotten, degraded |-> missing]]

-----------------------------------------------------------------------------
(* A call of confine through the whole chain, from the provider up: what     *)
(* each layer gives the one above it.                                        *)

ProviderResult == [failed |-> FALSE, argv |-> [head |-> runner, layers |-> {}], audits |-> {}]

\* What the wrapper on layer l makes of what it wraps.
WrapperResult(l, policy, inner) ==
  IF inner.failed \/ l \in Foreign THEN inner
  ELSE LET outer == Hardened(l, policy, inner.argv)
       IN  [failed |-> outer.failed, argv |-> outer.argv,
            audits |-> inner.audits \cup {<<l, outer.audit>>}]

Results(policy) ==
  LET result[l \in Layers \cup {Base}] ==
        IF l = Base THEN ProviderResult
        ELSE WrapperResult(l, policy, result[slot.below[l]])
  IN  result

Confined(policy) == Results(policy)[slot.top]

\* Mutant of Audited: a wrapper that throws does not record.
AuditedIfReturned(audits) ==
  [i \in Instances |->
     IF \E a \in audits : a[1] = i /\ ~a[2].failed
     THEN Pushed(ledgers[i], (CHOOSE a \in audits : a[1] = i)[2])
     ELSE ledgers[i]]

\* Each wrapper that was reached records its part, also one that throws.
Audited(audits) ==
  [i \in Instances |->
     IF \E a \in audits : a[1] = i
     THEN Pushed(ledgers[i], (CHOOSE a \in audits : a[1] = i)[2])
     ELSE ledgers[i]]

Confine(policy) ==
  /\ confines < MaxConfines
  /\ confines' = confines + 1
  /\ LET c == Confined(policy)
     IN  /\ ledgers' = Audited(c.audits)
         /\ last' = [policy |-> policy, by |-> patch, failed |-> c.failed, argv |-> c.argv,
                     through |-> Through(slot) \cap Instances]
  /\ UNCHANGED <<slot, patch, mounted, gone, setting>>

-----------------------------------------------------------------------------
(* Plugins come and go. *)

\* apply: a second mount on an owned provider throws before it changes anything.
Mount(i) ==
  /\ patch = None
  /\ i \notin mounted
  /\ slot' = WrappedBy(slot, i)
  /\ patch' = i
  /\ mounted' = mounted \cup {i}
  /\ UNCHANGED <<gone, setting, ledgers, last, confines>>

\* restorePatch: ownership goes, the wrapper only if it is on top.
Dispose(i) ==
  /\ patch = i
  /\ patch' = None
  /\ slot' = RestoredBy(slot, i)
  /\ UNCHANGED <<mounted, gone, setting, ledgers, last, confines>>

\* Another plugin wraps confine, once, and is unloaded.
ForeignMount(f) ==
  /\ f \notin gone \cup Through(slot)
  /\ slot' = WrappedBy(slot, f)
  /\ UNCHANGED <<patch, mounted, gone, setting, ledgers, last, confines>>

ForeignDispose(f) ==
  /\ f \in Through(slot) \ gone
  /\ gone' = gone \cup {f}
  /\ slot' = RestoredBy(slot, f)
  /\ UNCHANGED <<patch, mounted, setting, ledgers, last, confines>>

Next ==
  \/ \E i \in Instances : Mount(i) \/ Dispose(i)
  \/ \E f \in Foreign : ForeignMount(f) \/ ForeignDispose(f)
  \/ \E policy \in Policies : Confine(policy)

Spec == Init /\ [][Next]_vars

-----------------------------------------------------------------------------
(* Properties. *)

Audit == [failed : BOOLEAN, applied : SUBSET (Limits \cup {"network"}),
          degraded : SUBSET (Limits \cup {"network"})]

\* The state stays in its types, each ledger in its window.
TypeOK ==
  /\ slot \in Slot(Layers, Base)
  /\ patch \in mounted \cup {None}
  /\ mounted \in SUBSET Instances
  /\ gone \in SUBSET Foreign
  /\ config \in [Instances -> Configs]
  /\ prlimit \in BOOLEAN
  /\ runner \in Runners
  /\ seam \in BOOLEAN
  /\ \A i \in Instances :
       /\ ledgers[i].records \in Seq(Audit)
       /\ Len(ledgers[i].records) <= Size
       /\ {ledgers[i].dropped, ledgers[i].total} \subseteq Nat
  /\ last # NotConfined => last.argv \in Argv
  /\ confines \in Nat

\* Layers an instance may do without, because it was configured so.
Waived(i) ==
  (IF config[i].networkMode = "best-effort" THEN {"network"} ELSE {})
    \cup (IF config[i].limitsMode = "best-effort" THEN Limits ELSE {})

\* What an argv may lack although it is recorded as applied.
Lost == IF seam THEN {} ELSE {"network"}

\* No argv leaves confine without every layer that was asked of the mounted
\* instance, unless its configuration waives it, whatever else wrapped the
\* method before or after it (index.ts 368-382, 473-510): save for the network
\* layer where the provider's argv has no seam (300-315), see RequiredIsEnforced.
FailsClosed ==
  last.by # None /\ ~last.failed =>
    {last.by} \X (Asked(last.by, last.policy) \ (Waived(last.by) \cup Lost))
      \subseteq last.argv.layers

\* A call goes through this plugin's mounted instance and no other of its own.
Unstacked == last.by # None /\ last.through = {last.by}

\* confine refuses only what this host cannot do: limits do not get in the way
\* of the network layer (index.ts 333-335, 354-364).
RefusesOnlyTheImpossible ==
  Unstacked /\ last.failed =>
    \E layer \in Asked(last.by, last.policy) \ Waived(last.by) : ~Available(layer, runner)

\* Each call leaves one record with the mounted instance: of a refusal, or of
\* the layers in the argv it returned (index.ts 476-509), but for a network
\* layer that found no seam, which is recorded all the same (354-360),
\* although the record is of the "layers actually applied" (136).
EveryCallIsAudited ==
  [][confines' > confines /\ Through(slot) \cap Instances = {patch} =>
       LET l == ledgers'[patch]
           r == l.records[Len(l.records)]
       IN  /\ l.total = ledgers[patch].total + 1
           /\ r.failed = last'.failed
           /\ ~r.failed => last'.argv.layers \ {<<patch, "trailing">>}
                             = {patch} \X (r.applied \ Lost)]_vars

\* Whoever wraps confine and was not unloaded stays in the path of its calls
\* (index.ts 535-545).
NobodyIsClobbered ==
  [][\A l \in Through(slot) :
       l \in {patch'} \cup (Foreign \ gone') => l \in Through(slot')]_vars

-----------------------------------------------------------------------------
(* What a comment says, and the code does not do. *)

\* "Two live instances with different configs must not silently overlap"
\* (index.ts 459): all layers of an argv are from one configuration.
InstancesDoNotOverlap ==
  last.by # None /\ ~last.failed =>
    Cardinality({config[layer[1]] : layer \in last.argv.layers}) <= 1

\* "(fail closed) instead of returning an unenforced argv" (index.ts 371-372): an
\* argv that leaves confine has every required layer, be it appended at its end.
RequiredIsEnforced ==
  last.by # None /\ ~last.failed =>
    \A layer \in Asked(last.by, last.policy) \ Waived(last.by) :
      \/ <<last.by, layer>> \in last.argv.layers
      \/ layer = "network" /\ <<last.by, "trailing">> \in last.argv.layers
=============================================================================
