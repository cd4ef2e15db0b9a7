--------------------------- MODULE HardeningProofs ---------------------------
(***************************************************************************)
(* What hardening promises, for any instances, foreign wrappers,           *)
(* configurations, policies and hosts.                                     *)
(*                                                                         *)
(* The argument.  What a call returns is a recursion along the chain of    *)
(* wrappers; so facts about it are by induction along the chain.  A layer  *)
(* keeps what the ones below it enforced and adds its own part or throws   *)
(* (ResultIsClosed); and with one instance in the path the call is that    *)
(* instance's over the provider's bare argv (LoneResult).  Mounts and      *)
(* disposals in any order keep the chain free of cycles and the owner in   *)
(* it (PathInv): whoever left the path was mounted or is gone, so nobody   *)
(* mounts a second time, and whoever is not in the path yet has nobody     *)
(* calling on to it, which is what keeps a mount from closing a cycle.     *)
(***************************************************************************)
EXTENDS Hardening, Induction

-----------------------------------------------------------------------------
(* One wrapper's part of a confinement. *)

Outcome == [failed : BOOLEAN, argv : Argv, audits : SUBSET (Instances \X Audit)]

\* What the code's setting is like: never changed after Init.
SettingType ==
  /\ config \in [Instances -> Config]
  /\ prlimit \in BOOLEAN
  /\ runner \in Runners
  /\ seam \in BOOLEAN

\* effectiveConfig asks for layers only.
LEMMA AskedType ==
  ASSUME SettingType, NEW i \in Instances, NEW policy \in Policy
  PROVE  Asked(i, policy) \subseteq Limits \cup {"network"}
<1>1. Effective(i, policy).limits \in LimitsField
  BY DEF SettingType, Effective, Config, Policy
<1> QED
  BY <1>1 DEF Asked, LimitsField

\* A layer is required of an instance exactly when its configuration does not waive it.
LEMMA RequiredIsNotWaived ==
  ASSUME NEW i \in Instances, NEW layer \in Limits \cup {"network"}
  PROVE  Required(i, layer) <=> layer \notin Waived(i)
BY DEF Required, Waived, Limits, Prlimits

\* enforceHardening returns an argv and a record.
LEMMA HardenedType ==
  ASSUME SettingType, NEW i \in Instances, NEW policy \in Policy, NEW argv \in Argv
  PROVE  /\ Hardened(i, policy, argv).failed \in BOOLEAN
         /\ Hardened(i, policy, argv).argv \in Argv
         /\ Hardened(i, policy, argv).audit \in Audit
<1> DEFINE gotten  == Gotten(i, policy, argv.head)
           missing == Asked(i, policy) \ gotten
           refused == {layer \in missing : Required(i, layer)}
           placed  == Placed(gotten, argv.head)
<1>1. /\ gotten \subseteq Limits \cup {"network"}
      /\ missing \subseteq Limits \cup {"network"}
      /\ refused \subseteq Limits \cup {"network"}
  BY AskedType DEF Gotten
<1>5. placed \subseteq Limits \cup {"network", "trailing"}
  BY <1>1 DEF Placed
<1>2. Hardened(i, policy, argv) =
        IF refused # {}
        THEN [failed |-> TRUE, argv |-> argv,
              audit |-> [failed |-> TRUE, applied |-> {}, degraded |-> refused]]
        ELSE [failed |-> FALSE,
              argv   |-> [head   |-> IF gotten \cap Prlimits = {} THEN argv.head ELSE "prlimit",
                          layers |-> argv.layers \cup ({i} \X placed)],
              audit  |-> [failed |-> FALSE, applied |-> gotten, degraded |-> missing]]
  BY DEF Hardened
<1> HIDE DEF gotten, missing, refused, placed
<1>3. CASE refused # {}
  BY <1>1, <1>2, <1>3 DEF Audit
<1>4. CASE refused = {}
  <2>1. argv.layers \cup ({i} \X placed)
          \in SUBSET (Instances \X (Limits \cup {"network", "trailing"}))
    BY <1>5 DEF Argv
  <2>2. [failed |-> FALSE, applied |-> gotten, degraded |-> missing] \in Audit
    BY <1>1 DEF Audit
  <2>3. [head   |-> IF gotten \cap Prlimits = {} THEN argv.head ELSE "prlimit",
         layers |-> argv.layers \cup ({i} \X placed)] \in Argv
    BY <2>1 DEF Argv
  <2> QED
    BY <1>2, <1>4, <2>2, <2>3
<1> QED
  BY <1>3, <1>4

\* Only the network layer can miss its place.
LEMMA PlacedKeeps ==
  ASSUME SettingType, NEW gotten \in SUBSET (Limits \cup {"network"}), NEW head
  PROVE  /\ gotten \ Lost \subseteq Placed(gotten, head)
         /\ Placed(gotten, head) \ {"trailing"} = gotten \ Lost
<1>1. "trailing" \notin gotten
  BY DEF Limits, Prlimits
<1>2. CASE seam
  BY <1>1, <1>2 DEF Placed, Lost
<1>3. CASE ~seam
  BY <1>1, <1>3 DEF Placed, Lost
<1> QED
  BY <1>2, <1>3

\* What is asked of an instance, is not waived, and cannot be recorded without being there.
Due(i, policy) == Asked(i, policy) \ (Waived(i) \cup Lost)

\* enforceHardening adds what the configuration does not waive, and takes nothing out, or it throws.
LEMMA HardenedIsClosed ==
  ASSUME SettingType, NEW i \in Instances, NEW policy \in Policy, NEW argv \in Argv,
         ~Hardened(i, policy, argv).failed
  PROVE  argv.layers \cup ({i} \X Due(i, policy))
           \subseteq Hardened(i, policy, argv).argv.layers
<1> DEFINE gotten  == Gotten(i, policy, argv.head)
           refused == {layer \in Asked(i, policy) \ gotten : Required(i, layer)}
<1>1. refused = {}
  BY DEF Hardened
<1>2. Hardened(i, policy, argv).argv.layers
        = argv.layers \cup ({i} \X Placed(gotten, argv.head))
  BY <1>1 DEF Hardened
<1>4. Asked(i, policy) \ Waived(i) \subseteq gotten
  BY <1>1, AskedType, RequiredIsNotWaived
<1>5. gotten \in SUBSET (Limits \cup {"network"})
  BY AskedType DEF Gotten
<1> HIDE DEF gotten
<1>3. Due(i, policy) \subseteq Placed(gotten, argv.head)
  BY <1>4, <1>5, PlacedKeeps DEF Due
<1> QED
  BY <1>2, <1>3

\* enforceHardening throws only when a layer that is not waived cannot be had over this head.
LEMMA HardenedRefuses ==
  ASSUME SettingType, NEW i \in Instances, NEW policy \in Policy, NEW argv \in Argv,
         Hardened(i, policy, argv).failed
  PROVE  \E layer \in Asked(i, policy) \ Waived(i) : ~Available(layer, argv.head)
<1> DEFINE gotten  == Gotten(i, policy, argv.head)
           refused == {layer \in Asked(i, policy) \ gotten : Required(i, layer)}
<1>1. refused # {}
  BY DEF Hardened
<1>2. PICK layer \in Asked(i, policy) \ gotten : Required(i, layer)
  BY <1>1
<1> QED
  BY <1>2, AskedType, RequiredIsNotWaived DEF Gotten

-----------------------------------------------------------------------------
(* A call through the whole chain. *)

ChainType == SettingType /\ Chain(Layers, Base, slot)

\* A wrapper makes an outcome of an outcome.
LEMMA WrapperResultType ==
  ASSUME SettingType, NEW l \in Layers, NEW policy \in Policy, NEW inner \in Outcome
  PROVE  WrapperResult(l, policy, inner) \in Outcome
<1>1. CASE inner.failed \/ l \in Foreign
  BY <1>1 DEF WrapperResult
<1>2. CASE ~(inner.failed \/ l \in Foreign)
  <2> DEFINE outer == Hardened(l, policy, inner.argv)
  <2>1. l \in Instances /\ inner.argv \in Argv /\ inner.audits \in SUBSET (Instances \X Audit)
    BY <1>2 DEF Layers, Outcome
  <2>2. outer.failed \in BOOLEAN /\ outer.argv \in Argv /\ outer.audit \in Audit
    BY <2>1, HardenedType
  <2> HIDE DEF outer
  <2>3. inner.audits \cup {<<l, outer.audit>>} \in SUBSET (Instances \X Audit)
    BY <2>1, <2>2
  <2>4. [failed |-> outer.failed, argv |-> outer.argv,
         audits |-> inner.audits \cup {<<l, outer.audit>>}] \in Outcome
    BY <2>2, <2>3 DEF Outcome
  <2> QED
    BY <1>2, <2>4 DEF WrapperResult, outer
<1> QED
  BY <1>1, <1>2

\* Each layer gives the one above it what it makes of what the one below gave it.
LEMMA ResultsEquation ==
  ASSUME ChainType, NEW policy \in Policy
  PROVE  /\ Results(policy) \in [Layers \cup {Base} -> Outcome]
         /\ Results(policy)[Base] = ProviderResult
         /\ \A l \in Layers :
              Results(policy)[l] = WrapperResult(l, policy, Results(policy)[slot.below[l]])
<1> DEFINE All == Layers \cup {Base}
           Def(f) == [l \in All |-> IF l = Base THEN ProviderResult
                                    ELSE WrapperResult(l, policy, f[slot.below[l]])]
           G == [l \in Layers |-> [v \in Outcome |-> WrapperResult(l, policy, v)]]
           result == CHOOSE f : f = Def(f)
<1>0. Base \notin Layers /\ slot.below \in [Layers -> All]
  BY HardeningAssumption DEF Layers, Chain, Slot, ChainType
<1>1. G \in [Layers -> [Outcome -> Outcome]]
  BY WrapperResultType DEF ChainType
<1>2. ProviderResult \in Outcome
  BY DEF ProviderResult, Outcome, Argv, ChainType, SettingType
<1>3. PICK f : Along(Layers, Base, slot, Outcome, ProviderResult, G, f)
  <2> HIDE DEF G
  <2> QED
    BY <1>1, <1>2, ChainRecursion DEF ChainType
<1>4. f = Def(f)
  BY <1>0, <1>3 DEF Along
<1>5. result = Def(result)
  <2> HIDE DEF Def
  <2> QED
    BY <1>4
<1>6. Results(policy) = result
  BY DEF Results
<1> HIDE DEF result
<1>7. /\ result[Base] = ProviderResult
      /\ \A l \in Layers : result[l] = WrapperResult(l, policy, result[slot.below[l]])
  BY <1>0, <1>5
<1> DEFINE P == {l \in All : result[l] \in Outcome}
<1>8. \A l \in All : l \in P
  <2>1. Base \in P /\ \A l \in Layers : slot.below[l] \in P => l \in P
    BY <1>2, <1>7, WrapperResultType DEF ChainType
  <2> HIDE DEF P
  <2> QED
    BY <2>1, ChainInduction DEF ChainType
<1>9. result \in [All -> Outcome]
  BY <1>5, <1>8
<1> QED
  BY <1>6, <1>7, <1>9

\* The layers from each layer on; none is below itself.
LEMMA PathEquation ==
  ASSUME ChainType
  PROVE  /\ From(slot)[Base] = {}
         /\ \A l \in Layers : /\ slot.below[l] \in Layers \cup {Base}
                              /\ From(slot)[l] = {l} \cup From(slot)[slot.below[l]]
                              /\ l \notin From(slot)[slot.below[l]]
<1>1. Descends(Layers, Base, slot)
  BY FromEquation DEF ChainType
<1>2. \A l \in Layers : l \notin From(slot)[slot.below[l]]
  BY NotBelowItself DEF ChainType
<1> QED
  BY <1>1, <1>2 DEF Descends, ChainType, Chain, Slot

\* An argv that leaves a layer has what every instance from there on was asked for, may not waive and cannot lose.
LEMMA ResultIsClosed ==
  ASSUME ChainType, NEW policy \in Policy
  PROVE  \A l \in Layers \cup {Base} :
           ~Results(policy)[l].failed =>
             \A i \in From(slot)[l] \cap Instances :
               {i} \X Due(i, policy) \subseteq Results(policy)[l].argv.layers
<1> DEFINE R == Results(policy)
           Closed(l) == \A i \in From(slot)[l] \cap Instances :
                          {i} \X Due(i, policy) \subseteq R[l].argv.layers
           P == {l \in Layers \cup {Base} : ~R[l].failed => Closed(l)}
<1>1. Base \in P
  BY PathEquation
<1>2. ASSUME NEW l \in Layers, slot.below[l] \in P, ~R[l].failed
      PROVE  Closed(l)
  <2> DEFINE inner == R[slot.below[l]]
  <2>1. /\ inner \in Outcome /\ R[l] = WrapperResult(l, policy, inner)
        /\ From(slot)[l] = {l} \cup From(slot)[slot.below[l]]
    BY ResultsEquation, PathEquation
  <2>2. CASE l \in Foreign
    <3>1. R[l] = inner /\ l \notin Instances
      BY <2>1, <2>2, HardeningAssumption DEF WrapperResult
    <3> QED
      BY <1>2, <2>1, <3>1
  <2>3. CASE l \notin Foreign
    <3> DEFINE outer == Hardened(l, policy, inner.argv)
    <3>1. l \in Instances /\ ~inner.failed /\ R[l].argv = outer.argv /\ ~outer.failed
      <4>1. ~inner.failed
        BY <1>2, <2>1 DEF WrapperResult
      <4>2. R[l] = [failed |-> outer.failed, argv |-> outer.argv,
                    audits |-> inner.audits \cup {<<l, outer.audit>>}]
        BY <2>1, <2>3, <4>1 DEF WrapperResult
      <4> QED
        BY <1>2, <2>3, <4>1, <4>2 DEF Layers
    <3>2. inner.argv.layers \cup ({l} \X Due(l, policy)) \subseteq outer.argv.layers
      BY <2>1, <3>1, HardenedIsClosed DEF ChainType, Outcome
    <3>3. Closed(slot.below[l])
      BY <1>2, <3>1
    <3> HIDE DEF outer, inner
    <3>4. \A i \in From(slot)[slot.below[l]] \cap Instances :
            {i} \X Due(i, policy) \subseteq inner.argv.layers
      BY <3>3 DEF inner
    <3> QED
      BY <2>1, <3>1, <3>2, <3>4
  <2> QED
    BY <2>2, <2>3
<1>3. \A l \in Layers : slot.below[l] \in P => l \in P
  BY <1>2
<1>4. \A l \in Layers \cup {Base} : l \in P
  <2> HIDE DEF P
  <2> QED
    BY <1>1, <1>3, ChainInduction DEF ChainType
<1> QED
  BY <1>4

\* With one instance in the path, whatever else is in it, a call is that instance's alone.
LEMMA LoneResult ==
  ASSUME ChainType, NEW policy \in Policy
  PROVE  \A l \in Layers \cup {Base} :
           /\ From(slot)[l] \cap Instances = {} => Results(policy)[l] = ProviderResult
           /\ \A i \in Instances : From(slot)[l] \cap Instances = {i} =>
                Results(policy)[l] = WrapperResult(i, policy, ProviderResult)
<1> DEFINE R == Results(policy)
           Lone(l) == /\ From(slot)[l] \cap Instances = {} => R[l] = ProviderResult
                      /\ \A i \in Instances : From(slot)[l] \cap Instances = {i} =>
                           R[l] = WrapperResult(i, policy, ProviderResult)
           P == {l \in Layers \cup {Base} : Lone(l)}
<1>1. Base \in P
  BY PathEquation, ResultsEquation
<1>2. ASSUME NEW l \in Layers, slot.below[l] \in P
      PROVE  Lone(l)
  <2> DEFINE m == slot.below[l]
  <2>1. /\ R[l] = WrapperResult(l, policy, R[m])
        /\ From(slot)[l] = {l} \cup From(slot)[m]
        /\ l \notin From(slot)[m]
    BY ResultsEquation, PathEquation
  <2>2. CASE l \in Foreign
    <3>1. R[l] = R[m] /\ l \notin Instances
      BY <2>1, <2>2, HardeningAssumption DEF WrapperResult
    <3>2. From(slot)[l] \cap Instances = From(slot)[m] \cap Instances
      BY <2>1, <3>1
    <3>3. Lone(m)
      BY <1>2
    <3> QED
      BY <3>1, <3>2, <3>3
  <2>3. CASE l \notin Foreign
    <3>1. l \in Instances
      BY <2>3 DEF Layers
    <3>2. ASSUME NEW i \in Instances, From(slot)[l] \cap Instances = {i}
          PROVE  i = l /\ From(slot)[m] \cap Instances = {}
      BY <2>1, <3>1, <3>2
    <3>3. From(slot)[m] \cap Instances = {} => R[m] = ProviderResult
      BY <1>2
    <3> QED
      BY <2>1, <3>1, <3>2, <3>3
  <2> QED
    BY <2>2, <2>3
<1>3. \A l \in Layers : slot.below[l] \in P => l \in P
  BY <1>2
<1>4. \A l \in Layers \cup {Base} : l \in P
  <2> HIDE DEF P
  <2> QED
    BY <1>1, <1>3, ChainInduction DEF ChainType
<1> QED
  BY <1>4
-----------------------------------------------------------------------------
(* The audit ledgers. *)

AuditLedger == [records : Seq(Audit), dropped : Nat, total : Nat, max : {Size}]

\* A new record is the last one in the window, and the window does not outgrow its size.
LEMMA PushedAudit ==
  ASSUME NEW l \in AuditLedger, Len(l.records) <= Size, NEW r \in Audit
  PROVE  /\ Pushed(l, r) \in AuditLedger
         /\ Len(Pushed(l, r).records) <= Size
         /\ Pushed(l, r).total = l.total + 1
         /\ Pushed(l, r).records[Len(Pushed(l, r).records)] = r
<1> DEFINE full == Len(l.records) >= l.max
           kept == IF full THEN Tail(l.records) ELSE l.records
           lost == IF full THEN l.dropped + 1 ELSE l.dropped
<1>1. /\ l.records \in Seq(Audit) /\ l.dropped \in Nat /\ l.total \in Nat /\ l.max = Size
      /\ Size \in Nat \ {0}
  BY HardeningAssumption DEF AuditLedger
<1>2. kept \in Seq(Audit) /\ Len(kept) < Size
  <2>1. CASE full
    <3>1. l.records # <<>>
      BY <1>1, <2>1
    <3>2. Tail(l.records) \in Seq(Audit) /\ Len(Tail(l.records)) = Len(l.records) - 1
      BY <1>1, <3>1
    <3> QED
      BY <1>1, <2>1, <3>2
  <2>2. CASE ~full
    BY <1>1, <2>2
  <2> QED
    BY <2>1, <2>2
<1>3. Pushed(l, r) = [l EXCEPT !.total = l.total + 1, !.records = Append(kept, r),
                               !.dropped = lost]
  BY DEF Pushed
<1>6. lost \in Nat
  BY <1>1
<1> HIDE DEF kept, full, lost
<1>4. /\ Append(kept, r) \in Seq(Audit) /\ Len(Append(kept, r)) = Len(kept) + 1
      /\ Append(kept, r)[Len(kept) + 1] = r
  BY <1>2
<1>5. /\ Pushed(l, r).records = Append(kept, r) /\ Pushed(l, r).total = l.total + 1
      /\ Pushed(l, r) \in AuditLedger
  <2> DEFINE p == [records |-> Append(kept, r), dropped |-> lost, total |-> l.total + 1, max |-> Size]
  <2>1. Pushed(l, r) = p
    BY <1>1, <1>3 DEF AuditLedger
  <2>2. p \in AuditLedger
    BY <1>1, <1>4, <1>6 DEF AuditLedger
  <2> QED
    BY <2>1, <2>2
<1> QED
  BY <1>1, <1>2, <1>4, <1>5

\* The ledgers, before and after a call.
LedgersType == /\ ledgers \in [Instances -> AuditLedger]
               /\ \A i \in Instances : Len(ledgers[i].records) <= Size

\* A call leaves the ledgers in their types and windows.
LEMMA AuditedType ==
  ASSUME LedgersType, NEW audits \in SUBSET (Instances \X Audit)
  PROVE  /\ Audited(audits) \in [Instances -> AuditLedger]
         /\ \A i \in Instances : Len(Audited(audits)[i].records) <= Size
<1> SUFFICES ASSUME NEW i \in Instances
             PROVE  /\ Audited(audits)[i] \in AuditLedger
                    /\ Len(Audited(audits)[i].records) <= Size
  BY DEF Audited
<1>1. CASE \E a \in audits : a[1] = i
  <2> DEFINE a == CHOOSE a \in audits : a[1] = i
  <2>1. a \in audits
    BY <1>1
  <2>2. a[2] \in Audit
    BY <2>1
  <2>3. Audited(audits)[i] = Pushed(ledgers[i], a[2])
    BY <1>1 DEF Audited
  <2> QED
    BY <2>2, <2>3, PushedAudit DEF LedgersType
<1>2. CASE ~\E a \in audits : a[1] = i
  BY <1>2 DEF Audited, LedgersType
<1> QED
  BY <1>1, <1>2

-----------------------------------------------------------------------------
(* The inductive invariant. *)

\* The owner is in the path, whoever left the path was mounted or is gone, and
\* nobody calls on to a wrapper that is not in the path yet.
PathInv ==
  /\ patch # None => patch \in Through(slot)
  /\ Through(slot) \cap Instances \subseteq mounted
  /\ \A l \in Layers \ (mounted \cup gone \cup Through(slot)) : Loose(slot, l)

\* What came of the last call is told of the setting, which does not change.
LastInv ==
  /\ last # NotConfined => last.argv \in Argv
  /\ FailsClosed
  /\ RefusesOnlyTheImpossible

HInv ==
  /\ ChainType
  /\ config \in [Instances -> Configs]
  /\ patch \in mounted \cup {None}
  /\ mounted \in SUBSET Instances
  /\ gone \in SUBSET Foreign
  /\ confines \in Nat
  /\ LedgersType
  /\ PathInv
  /\ LastInv

-----------------------------------------------------------------------------
(* It holds initially, and every action preserves it. *)

\* Nobody has mounted, and there was no call.
LEMMA HInvInit == Init => HInv
<1> SUFFICES ASSUME Init PROVE HInv
  OBVIOUS
<1>1. ChainType /\ config \in [Instances -> Configs]
  BY HardeningAssumption DEF Init, ChainType, SettingType, Slot, Bare, Chain, Layers
<1>2. Through(slot) = {}
  BY <1>1, FromEquation DEF Descends, Init, Bare, Through, ChainType
<1>3. \A l \in Layers : Loose(slot, l)
  BY HardeningAssumption DEF Init, Bare, Loose, Layers
<1>4. PathInv
  BY <1>2, <1>3 DEF Init, PathInv
<1>5. LedgersType
  BY HardeningAssumption DEF Init, LedgersType, NewLedger, AuditLedger
<1>6. LastInv
  BY DEF Init, LastInv, NotConfined, FailsClosed, RefusesOnlyTheImpossible, Unstacked
<1> QED
  BY <1>1, <1>4, <1>5, <1>6 DEF Init, HInv

\* What was said of the last call stays, as long as the setting does.
LEMMA LastStays ==
  ASSUME LastInv, UNCHANGED <<setting, last>>
  PROVE  LastInv'
BY DEF LastInv, setting, FailsClosed, RefusesOnlyTheImpossible, Unstacked, Asked, Effective,
       Waived, Available, Lost

\* apply: who mounts was in nobody's path, so the chain grows by one on top.
LEMMA MountKeepsHInv ==
  ASSUME HInv, NEW i \in Instances, Mount(i)
  PROVE  HInv'
<1>0. i \in Layers /\ i # None /\ patch = None /\ i \notin mounted
  BY HardeningAssumption DEF Layers, Mount
<1>1. i \notin Through(slot) /\ i \notin gone
  BY <1>0, HardeningAssumption DEF HInv, PathInv
<1>2. Loose(slot, i)
  BY <1>0, <1>1 DEF HInv, PathInv
<1>3. Chain(Layers, Base, slot') /\ Through(slot') = {i} \cup Through(slot)
  BY <1>0, <1>2, WrappedChain DEF Mount, HInv, ChainType
<1>4. ASSUME NEW l \in Layers \ (mounted' \cup gone' \cup Through(slot')) PROVE Loose(slot', l)
  <2>1. l # i /\ Loose(slot, l)
    BY <1>3, <1>4 DEF Mount, HInv, PathInv
  <2> QED
    BY <1>0, <2>1 DEF Mount, Loose, WrappedBy, HInv, ChainType, Chain, Slot
<1>5. PathInv'
  BY <1>3, <1>4 DEF Mount, HInv, PathInv
<1>6. LastInv'
  BY LastStays DEF Mount, HInv
<1> QED
  BY <1>3, <1>5, <1>6 DEF Mount, HInv, ChainType, SettingType, setting, LedgersType

\* Another plugin wraps confine: likewise.
LEMMA ForeignMountKeepsHInv ==
  ASSUME HInv, NEW f \in Foreign, ForeignMount(f)
  PROVE  HInv'
<1>0. f \in Layers /\ f \notin mounted /\ f \notin Through(slot) /\ f \notin Instances
  BY HardeningAssumption DEF Layers, ForeignMount, HInv
<1>2. Loose(slot, f)
  BY <1>0 DEF ForeignMount, HInv, PathInv
<1>3. Chain(Layers, Base, slot') /\ Through(slot') = {f} \cup Through(slot)
  BY <1>0, <1>2, WrappedChain DEF ForeignMount, HInv, ChainType
<1>4. ASSUME NEW l \in Layers \ (mounted' \cup gone' \cup Through(slot')) PROVE Loose(slot', l)
  <2>1. l # f /\ Loose(slot, l)
    BY <1>3, <1>4 DEF ForeignMount, HInv, PathInv
  <2> QED
    BY <1>0, <2>1 DEF ForeignMount, Loose, WrappedBy, HInv, ChainType, Chain, Slot
<1>5. PathInv'
  BY <1>0, <1>3, <1>4 DEF ForeignMount, HInv, PathInv
<1>6. LastInv'
  BY LastStays DEF ForeignMount, HInv
<1> QED
  BY <1>3, <1>5, <1>6 DEF ForeignMount, HInv, ChainType, SettingType, setting, LedgersType

\* Who restores the slot is mounted or gone: the others stay loose.
LEMMA RestoredStaysLoose ==
  ASSUME HInv, NEW l \in Layers, slot' = RestoredBy(slot, l), l \in mounted' \cup gone',
         mounted \subseteq mounted', gone \subseteq gone'
  PROVE  \A m \in Layers \ (mounted' \cup gone' \cup Through(slot')) : Loose(slot', m)
<1>1. Through(slot') = IF slot.top = l THEN Through(slot) \ {l} ELSE Through(slot)
  BY RestoredChain DEF HInv, ChainType
<1> TAKE m \in Layers \ (mounted' \cup gone' \cup Through(slot'))
<1>2. m \notin Through(slot) /\ Loose(slot, m)
  BY <1>1 DEF HInv, PathInv
<1>3. slot'.top \in {slot.top, slot.below[l]} /\ slot'.below = slot.below /\ l \in DOMAIN slot.below
  BY DEF RestoredBy, HInv, ChainType, Chain, Slot
<1> QED
  BY <1>2, <1>3 DEF Loose

\* restorePatch: the owner lets go, and leaves the path if it is on top.
LEMMA DisposeKeepsHInv ==
  ASSUME HInv, NEW i \in Instances, Dispose(i)
  PROVE  HInv'
<1>0. i \in Layers /\ i \in mounted /\ patch' = None
  BY HardeningAssumption DEF Layers, Dispose, HInv
<1>1. /\ Chain(Layers, Base, slot')
      /\ Through(slot') = IF slot.top = i THEN Through(slot) \ {i} ELSE Through(slot)
  BY <1>0, RestoredChain DEF Dispose, HInv, ChainType
<1>2. \A m \in Layers \ (mounted' \cup gone' \cup Through(slot')) : Loose(slot', m)
  BY <1>0, RestoredStaysLoose DEF Dispose
<1>3. PathInv'
  BY <1>0, <1>1, <1>2 DEF Dispose, HInv, PathInv
<1>4. LastInv'
  BY LastStays DEF Dispose, HInv
<1> QED
  BY <1>1, <1>3, <1>4 DEF Dispose, HInv, ChainType, SettingType, setting, LedgersType

\* Another plugin is unloaded: likewise, and it is not the owner.
LEMMA ForeignDisposeKeepsHInv ==
  ASSUME HInv, NEW f \in Foreign, ForeignDispose(f)
  PROVE  HInv'
<1>0. f \in Layers /\ f \in gone' /\ f # patch /\ f \notin Instances
  BY HardeningAssumption DEF Layers, ForeignDispose, HInv
<1>1. /\ Chain(Layers, Base, slot')
      /\ Through(slot') = IF slot.top = f THEN Through(slot) \ {f} ELSE Through(slot)
  BY <1>0, RestoredChain DEF ForeignDispose, HInv, ChainType
<1>2. \A m \in Layers \ (mounted' \cup gone' \cup Through(slot')) : Loose(slot', m)
  BY <1>0, RestoredStaysLoose DEF ForeignDispose
<1>3. PathInv'
  BY <1>0, <1>1, <1>2 DEF ForeignDispose, HInv, PathInv
<1>4. LastInv'
  BY LastStays DEF ForeignDispose, HInv
<1> QED
  BY <1>1, <1>3, <1>4 DEF ForeignDispose, HInv, ChainType, SettingType, setting, LedgersType

\* A call of confine: what it returned is told by the induction along the chain.
LEMMA ConfineKeepsHInv ==
  ASSUME HInv, NEW policy \in Policies, Confine(policy)
  PROVE  HInv'
<1> DEFINE c == Confined(policy)
<1>0. policy \in Policy /\ ChainType /\ Confined(policy) = Results(policy)[slot.top]
      /\ slot.top \in Layers \cup {Base}
  BY HardeningAssumption DEF HInv, ChainType, Chain, Slot, Confined
<1>1. c \in Outcome
  BY <1>0, ResultsEquation
<1> HIDE DEF c
<1>2. /\ ledgers' = Audited(c.audits)
      /\ last' = [policy |-> policy, by |-> patch, failed |-> c.failed, argv |-> c.argv,
                  through |-> Through(slot) \cap Instances]
      /\ UNCHANGED <<slot, patch, mounted, gone, config, prlimit, runner, seam>>
      /\ confines' = confines + 1
  BY DEF Confine, c, setting
<1>3. LedgersType'
  BY <1>1, <1>2, AuditedType DEF HInv, LedgersType, Outcome
<1>4. last'.argv \in Argv
  BY <1>1, <1>2 DEF Outcome
<1> DEFINE Wanted == Asked(patch, policy) \ Waived(patch)
           Had(layer) == Available(layer, runner)
<1>5. Wanted' = Wanted /\ Lost' = Lost /\ \A layer : Had(layer)' = Had(layer)
  BY <1>2 DEF Asked, Effective, Waived, Available, Lost
<1>6. patch # None => patch \in Instances /\ patch \in Through(slot)
  BY DEF HInv, PathInv
<1>7. FailsClosed'
  <2> SUFFICES ASSUME patch # None, ~c.failed
               PROVE  {patch} \X (Wanted' \ Lost') \subseteq c.argv.layers
    BY <1>2 DEF FailsClosed
  <2>1. {patch} \X Due(patch, policy) \subseteq c.argv.layers
    BY <1>0, <1>6, ResultIsClosed DEF c, Through
  <2>2. Due(patch, policy) = Wanted \ Lost
    BY DEF Due
  <2> HIDE DEF Wanted
  <2> QED
    BY <1>5, <2>1, <2>2
<1>8. RefusesOnlyTheImpossible'
  <2> SUFFICES ASSUME patch # None, Through(slot) \cap Instances = {patch}, c.failed
               PROVE  \E layer \in Wanted' : ~Had(layer)'
    BY <1>2 DEF RefusesOnlyTheImpossible, Unstacked
  <2>1. c = WrapperResult(patch, policy, ProviderResult)
    BY <1>0, <1>6, LoneResult DEF c, Through
  <2>2. patch \notin Foreign /\ ProviderResult.argv \in Argv /\ ProviderResult.argv.head = runner
    BY <1>0, <1>6, HardeningAssumption DEF ProviderResult, Argv, ChainType, SettingType
  <2>3. Hardened(patch, policy, ProviderResult.argv).failed
    BY <2>1, <2>2 DEF WrapperResult, ProviderResult
  <2>4. \E layer \in Wanted : ~Had(layer)
    BY <1>0, <1>6, <2>2, <2>3, HardenedRefuses DEF ChainType
  <2> HIDE DEF Wanted, Had
  <2> QED
    BY <1>5, <2>4
<1>9. LastInv'
  BY <1>4, <1>7, <1>8 DEF LastInv
<1>10. ChainType' /\ PathInv'
  BY <1>2 DEF HInv, ChainType, SettingType, PathInv
<1> QED
  BY <1>2, <1>3, <1>9, <1>10 DEF HInv

\* Every step keeps the invariant.
LEMMA HInvStep == HInv /\ [Next]_vars => HInv'
<1> SUFFICES ASSUME HInv, [Next]_vars PROVE HInv'
  OBVIOUS
<1>1. ASSUME NEW i \in Instances, Mount(i) PROVE HInv'
  BY <1>1, MountKeepsHInv
<1>2. ASSUME NEW i \in Instances, Dispose(i) PROVE HInv'
  BY <1>2, DisposeKeepsHInv
<1>3. ASSUME NEW f \in Foreign, ForeignMount(f) PROVE HInv'
  BY <1>3, ForeignMountKeepsHInv
<1>4. ASSUME NEW f \in Foreign, ForeignDispose(f) PROVE HInv'
  BY <1>4, ForeignDisposeKeepsHInv
<1>5. ASSUME NEW policy \in Policies, Confine(policy) PROVE HInv'
  BY <1>5, ConfineKeepsHInv
<1>6. CASE UNCHANGED vars
  <2>1. LastInv'
    BY <1>6, LastStays DEF HInv, vars, setting
  <2> QED
    BY <1>6, <2>1 DEF HInv, ChainType, SettingType, LedgersType, PathInv, vars, setting
<1> QED
  BY <1>1, <1>2, <1>3, <1>4, <1>5, <1>6 DEF Next

\* The invariant holds in every state of every behaviour.
THEOREM SpecHInv == Spec => []HInv
BY HInvInit, HInvStep, PTL DEF Spec

-----------------------------------------------------------------------------
(* The properties. *)

\* However plugins come, go and overlap on one provider, the chain stays a chain
\* and every instance's ledger within its window (index.ts 462-470, 535-545).
THEOREM SpecTypeOK == Spec => []TypeOK
<1>1. HInv => TypeOK
  BY DEF HInv, TypeOK, ChainType, Chain, SettingType, LedgersType, AuditLedger, LastInv
<1> QED
  BY <1>1, SpecHInv, PTL

\* No argv leaves confine without every layer asked of the owner that its
\* configuration does not waive, whoever else is in the path, but for a network
\* layer the provider's argv has no seam for (index.ts 300-315, 368-382, 473-510).
THEOREM SpecFailsClosed == Spec => []FailsClosed
<1>1. HInv => FailsClosed
  BY DEF HInv, LastInv
<1> QED
  BY <1>1, SpecHInv, PTL

\* Alone in the path, an instance refuses only what this host cannot do: limits
\* never get in the way of the network layer (index.ts 333-335, 354-364).
THEOREM SpecRefusesOnlyTheImpossible == Spec => []RefusesOnlyTheImpossible
<1>1. HInv => RefusesOnlyTheImpossible
  BY DEF HInv, LastInv
<1> QED
  BY <1>1, SpecHInv, PTL

\* Each call leaves its owner exactly one record, which tells of the refusal or
\* of the layers in the returned argv, and beyond them at most of a network
\* layer that found no seam (index.ts 354-360, 476-509).
THEOREM SpecEveryCallIsAudited == Spec => EveryCallIsAudited
<1> DEFINE l == ledgers'[patch]
           r == l.records[Len(l.records)]
           Recorded == /\ l.total = ledgers[patch].total + 1
                       /\ r.failed = last'.failed
                       /\ ~r.failed => last'.argv.layers \ {<<patch, "trailing">>}
                                         = {patch} \X (r.applied \ Lost)
           A == confines' > confines /\ Through(slot) \cap Instances = {patch} => Recorded
<1>1. HInv /\ [Next]_vars => [A]_vars
  <2> SUFFICES ASSUME HInv, [Next]_vars, confines' > confines,
                      Through(slot) \cap Instances = {patch}
               PROVE  Recorded
    OBVIOUS
  <2>1. PICK policy \in Policies : Confine(policy)
    BY DEF Next, Mount, Dispose, ForeignMount, ForeignDispose, vars, HInv
  <2> DEFINE c == Confined(policy)
             h == Hardened(patch, policy, ProviderResult.argv)
  <2>2. patch \in Instances /\ patch \notin Foreign /\ policy \in Policy
    BY HardeningAssumption
  <2>3. c = WrapperResult(patch, policy, ProviderResult)
    BY <2>2, LoneResult DEF HInv, ChainType, Chain, Slot, Confined, Through
  <2>4. /\ ProviderResult.argv \in Argv /\ ProviderResult.argv.layers = {}
        /\ ~ProviderResult.failed /\ ProviderResult.audits = {}
    BY DEF ProviderResult, Argv, HInv, ChainType, SettingType
  <2>5. c.failed = h.failed /\ c.argv = h.argv /\ c.audits = {<<patch, h.audit>>}
    BY <2>2, <2>3, <2>4 DEF WrapperResult
  <2>6. h.audit \in Audit /\ h.audit.failed = h.failed
        /\ (~h.failed => h.argv.layers \ {<<patch, "trailing">>}
                           = {patch} \X (h.audit.applied \ Lost))
    <3> DEFINE gotten == Gotten(patch, policy, ProviderResult.argv.head)
               placed == Placed(gotten, ProviderResult.argv.head)
    <3>1. h.audit \in Audit /\ h.audit.failed = h.failed
      <4>1. h.audit \in Audit
        BY <2>2, <2>4, HardenedType DEF HInv, ChainType
      <4> QED
        BY <4>1 DEF Hardened
    <3>2. ~h.failed => h.audit.applied = gotten /\ h.argv.layers = {patch} \X placed
      BY <2>4 DEF Hardened
    <3>3. gotten \in SUBSET (Limits \cup {"network"})
      BY <2>2, AskedType DEF Gotten, HInv, ChainType
    <3> HIDE DEF gotten, h
    <3>4. placed \ {"trailing"} = gotten \ Lost
      BY <3>3, PlacedKeeps DEF HInv, ChainType
    <3> HIDE DEF placed
    <3>5. ({patch} \X placed) \ {<<patch, "trailing">>} = {patch} \X (placed \ {"trailing"})
      OBVIOUS
    <3> QED
      BY <3>1, <3>2, <3>4, <3>5
  <2> HIDE DEF c, h
  <2>7. (CHOOSE a \in c.audits : a[1] = patch) = <<patch, h.audit>>
    BY <2>5
  <2>8. ledgers'[patch] = Pushed(ledgers[patch], h.audit)
    BY <2>1, <2>2, <2>5, <2>7 DEF Confine, Audited, c
  <2>9. last'.failed = c.failed /\ last'.argv = c.argv
    BY <2>1 DEF Confine, c
  <2>10. l.total = ledgers[patch].total + 1 /\ r = h.audit
    BY <2>2, <2>6, <2>8, PushedAudit DEF HInv, LedgersType
  <2> QED
    BY <2>5, <2>6, <2>9, <2>10
<1> QED
  BY <1>1, SpecHInv, PTL DEF Spec, EveryCallIsAudited

\* No mount and no disposal takes the owner or a loaded plugin's wrapper out of
\* the path of calls (index.ts 535-545).
THEOREM SpecNobodyIsClobbered == Spec => NobodyIsClobbered
<1> DEFINE Stays == \A l \in Through(slot) :
                      l \in {patch'} \cup (Foreign \ gone') => l \in Through(slot')
<1>1. HInv /\ [Next]_vars => [Stays]_vars
  <2> SUFFICES ASSUME HInv, Next PROVE Stays
    OBVIOUS
  <2>1. ASSUME NEW i \in Instances, Mount(i) PROVE Stays
    <3>1. i \in Layers /\ Loose(slot, i)
      BY <2>1, HardeningAssumption DEF Mount, HInv, PathInv, Layers
    <3> QED
      BY <2>1, <3>1, WrappedChain DEF Mount, HInv, ChainType
  <2>2. ASSUME NEW i \in Instances, Dispose(i) PROVE Stays
    <3>1. i \in Layers /\ i \notin Foreign /\ i # None
      BY HardeningAssumption DEF Layers
    <3> QED
      BY <2>2, <3>1, RestoredChain DEF Dispose, HInv, ChainType
  <2>3. ASSUME NEW f \in Foreign, ForeignMount(f) PROVE Stays
    <3>1. f \in Layers /\ Loose(slot, f)
      BY <2>3, HardeningAssumption DEF ForeignMount, HInv, PathInv, Layers
    <3> QED
      BY <2>3, <3>1, WrappedChain DEF ForeignMount, HInv, ChainType
  <2>4. ASSUME NEW f \in Foreign, ForeignDispose(f) PROVE Stays
    <3>1. f \in Layers /\ f # patch
      BY HardeningAssumption DEF Layers, HInv
    <3> QED
      BY <2>4, <3>1, RestoredChain DEF ForeignDispose, HInv, ChainType
  <2>5. ASSUME NEW policy \in Policies, Confine(policy) PROVE Stays
    BY <2>5 DEF Confine
  <2> QED
    BY <2>1, <2>2, <2>3, <2>4, <2>5 DEF Next
<1> QED
  BY <1>1, SpecHInv, PTL DEF Spec, NobodyIsClobbered
=============================================================================
