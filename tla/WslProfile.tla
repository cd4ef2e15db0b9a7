----------------------------- MODULE WslProfile -----------------------------
(* The two DSH profiles dsh-orcana owns, "headless" and "web": what their    *)
(* manifests must say (wsl-profile.ts), the transactions that install them   *)
(* (wsl-install.ts), and the parts of DSH, pnpm and the Linux toolchain      *)
(* those use. A version is "pinned", the one this release names, or "other"; *)
(* a selector may also be "floating", a tag or a range.                      *)
EXTENDS SequencesExt

Kinds           == {"headless", "web"}
CompanionOf     == [k \in Kinds |-> IF k = "headless" THEN "dsh-headless" ELSE "dsh-web-app"]
RuntimePackages == {"governor-core", "dsh-governor", "dsh-orcana-linux"}
Bundles         == << "dsh-bundle", "dsh-orcana-linux-bundle" >>
Layers          == ToSet(Bundles) \cup {"dsh-headless", "dsh-web-app"}
Packages        == Layers \cup RuntimePackages

Exact(selector) == selector # "floating"

-----------------------------------------------------------------------------
(* A manifest as DSH and pnpm keep it: the version of every dependency, and  *)
(* the layers of the profile in order.                                       *)

Manifests == [installed : BOOLEAN, deps : [Packages -> {"absent", "pinned", "other"}],
              layers : Seq(Layers \cup {"dsh-base", "user-bundle"})]

Missing == [installed |-> FALSE, deps |-> [p \in Packages |-> "absent"], layers |-> <<>>]

\* pnpm writes the dependencies down; DSH has given a new profile its base layer.
Saved(m, specs) ==
  [installed |-> TRUE,
   deps      |-> [p \in Packages |-> IF \E s \in specs : s.name = p
                                     THEN (CHOOSE s \in specs : s.name = p).version
                                     ELSE m.deps[p]],
   layers    |-> IF m.installed THEN m.layers ELSE << "dsh-base" >>]

\* DSH appends the layers it newly discovers, in the order pnpm gives the dependencies.
Discovered(m) == {p \in Layers : m.deps[p] # "absent"} \ ToSet(m.layers)
Reconciled(m) == {[m EXCEPT !.layers = @ \o order] : order \in SetToSeqs(Discovered(m))}

-----------------------------------------------------------------------------
(* The expectation and its check.                                            *)

Spec1(name, version) == [name |-> name, version |-> version]

\* The version DSH's companion takes is that of the selected DSH.
ExpectedDeps(kind, version) ==
  [p \in {CompanionOf[kind]} \cup RuntimePackages \cup ToSet(Bundles) |->
     IF p = CompanionOf[kind] THEN version ELSE "pinned"]
ExpectedBundles == [kind \in Kinds |-> << "dsh-base", CompanionOf[kind] >> \o Bundles]

\* Mutant of OrderProblem: a bundle of the user's between the required ones is a problem.
OrderProblemIfMixed(layers, required) == layers # required

\* Where a layer stands behind the one found before it; others may stand between.
Behind(layers, cursor, layer) == {j \in DOMAIN layers : j > cursor /\ layers[j] = layer}

\* The next cursor: it stays where it is when the layer is not found.
Advanced(layers, layer) ==
  [cursor \in 0..Len(layers) |->
     IF Behind(layers, cursor, layer) = {} THEN cursor ELSE Min(Behind(layers, cursor, layer))]

\* The cursor after each required layer.
Cursor(layers, required) ==
  LET cursor[i \in 0..Len(required)] ==
        IF i = 0 THEN 0 ELSE Advanced(layers, required[i])[cursor[i - 1]]
  IN  cursor

OrderProblem(layers, required) ==
  \E i \in DOMAIN required : Behind(layers, Cursor(layers, required)[i - 1], required[i]) = {}

\* Mutant of ManifestStatus: the order of the layers is not checked.
ManifestStatusAnyOrder(m, kind, version) ==
  IF ~m.installed THEN 2
  ELSE IF \E p \in DOMAIN ExpectedDeps(kind, version) : m.deps[p] # ExpectedDeps(kind, version)[p] THEN 66
  ELSE 0

\* The exit code of the check before it goes on to import.
ManifestStatus(m, kind, version) ==
  LET expected == ExpectedDeps(kind, version)
  IN  IF ~m.installed THEN 2
      ELSE IF \/ \E p \in DOMAIN expected : m.deps[p] # expected[p]
              \/ OrderProblem(m.layers, ExpectedBundles[kind]) THEN 66
      ELSE 0

-----------------------------------------------------------------------------
(* The installing script: its transactions in order, and what it needs. The  *)
(* toolchain says what `node`, `dsh` and `pnpm` there are in the Linux world *)
(* (their versions, or "absent") and whether there is an npx.                *)

\* Mutant of Transactions: the bundles in one transaction.
TransactionsAtOnce(kind, version) ==
  << {Spec1(CompanionOf[kind], version)}, {Spec1(p, "pinned") : p \in RuntimePackages},
     {Spec1(p, "pinned") : p \in ToSet(Bundles)} >>

Transactions(kind, version) ==
  << {Spec1(CompanionOf[kind], version)}, {Spec1(p, "pinned") : p \in RuntimePackages} >>
  \o [i \in DOMAIN Bundles |-> {Spec1(Bundles[i], "pinned")}]

LocalDsh(tools, selector) == Exact(selector) /\ tools.node # "absent" /\ tools.dsh = selector

\* Node's contract, then the pinned dsh and pnpm or npx.
PreflightStatus(tools, selector) ==
  IF tools.node # "supported" THEN 126
  ELSE IF ~(LocalDsh(tools, selector) /\ tools.pnpm = "pinned") /\ ~tools.npx THEN 127
  ELSE 0

\* The dsh a run gets: the installed one when it is the selected one, else npx's, else none.
ResolvedDsh(tools, selector) ==
  IF LocalDsh(tools, selector) \/ tools.npx THEN selector ELSE "absent"

DoctorStatus(tools, selector) ==
  IF tools.node = "supported" /\ (LocalDsh(tools, selector) \/ tools.npx) THEN 0 ELSE 1
=============================================================================
