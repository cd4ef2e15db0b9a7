----------------------------- MODULE WslLaunch -----------------------------
(* dsh-orcana on Windows and on Linux: launches, one after another, of the   *)
(* doctor, of an installation or of DSH itself (wsl-launcher.ts, and the     *)
(* processes wsl-bridge.ts and wsl-product-profiles.ts start for it).        *)
(*                                                                           *)
(* A launch runs its children one at a time; the installing script is a      *)
(* child of several steps, between which it may fail, and which goes on as   *)
(* an orphan when only the launcher is killed. What is on disk, a manifest   *)
(* per distro and profile, outlives all of them.                             *)
EXTENDS WslArgs, WslEnv, WslProfile

CONSTANTS Arguments,  \* what an argument may be, and a value given in line
          Worlds,     \* the distros
          Profiles,   \* every profile name
          Scenarios   \* [disks, tools, faults, agendas]: how it may start, what can fail, what is launched

\* A call: [windows, cwd, args, env, selector, command, rows, vars, listed]. selector and command
\* are ORCANA_WSL_DSH_PACKAGE and ORCANA_WSL_DSH_COMMAND ("" when unset), rows is WSLENV.

ProfileOf(k, base) == IF k = "headless" THEN base ELSE orcanaWebProfileName(base)

Parsed(c) == parseWslBridgeArgs(c.args, c.env)

\* Every argument, and every distro and profile a call's arguments name, is one there is. A name is
\* a word, and so is a path a user gives as Linux names it: only translation says whose it is.
ASSUME LaunchAssumption ==
  /\ DefaultDistro \in Worlds /\ None \notin Arguments
  /\ {ProfileOf(k, DefaultProfile) : k \in Kinds} \subseteq Profiles
  /\ EmptyText \notin Worlds \cup Profiles
  /\ \A p \in Profiles : p \in Seq(STRING) /\ Kind(p) = "word"
  /\ \A a \in Arguments : /\ Kind(a) # "linux"
                          /\ Owner(a) \in Worlds \cup {None}
                          /\ Kind(a) \in DOMAIN InlineOf \cup {"--patch="} => a[2] \in Arguments
  /\ \A s \in Scenarios : /\ s.faults \in Nat /\ s.disks \subseteq [Worlds -> [Profiles -> Manifests]]
                          /\ \A a \in s.agendas : a \in Seq(ToSet(a))
  /\ \A s \in Scenarios : \A a \in s.agendas : \A c \in ToSet(a) :
       /\ c.windows \in BOOLEAN /\ c.args \in Seq(Arguments) /\ c.cwd \in Arguments
       /\ c.selector \in {"pinned", "other", "floating"}
       /\ c.rows \in Seq(EnvRows) /\ c.vars \subseteq STRING /\ IsFiniteSet(c.vars)
       /\ ~Parsed(c).error => /\ {ProfileOf(k, Parsed(c).profile) : k \in Kinds} \subseteq Profiles
                              /\ Parsed(c).distro \in Worlds \cup {None}

VARIABLES agenda,     \* the calls still to come
          tools,      \* the toolchain inside Linux
          faults,     \* how many more steps may fail
          disk,       \* disk[world][profile], a manifest
          pc,         \* where the launcher is
          kind,       \* the profile it is installing or checking
          launch,     \* [call, options], the options parseWslBridgeArgs gave
          script,     \* the installing scripts: the launcher's child, and an orphan
          worlds,     \* where this launch has started children
          verified,   \* the <<profile, world>> this launch has checked
          ran,        \* the DSH it has started: [argv, world, dsh]
          status      \* its exit code

vars == <<agenda, tools, faults, disk, pc, kind, launch, script, worlds, verified, ran, status>>

Slots    == {"child", "orphan"}
NoScript == [next |-> 0, world |-> None, profile |-> None, kind |-> "headless", selector |-> ""]
NotRun   == [argv |-> <<>>, world |-> None, dsh |-> ""]
NoLaunch == [call |-> [windows |-> FALSE], options |-> [mode |-> "none"]]
AtRest   == {"idle", "exited", "killed"}

call    == launch.call
options == launch.options
Manifest(w, p)     == disk[w][p]

Init ==
  /\ \E s \in Scenarios : agenda \in s.agendas /\ tools \in s.tools /\ faults = s.faults /\ disk \in s.disks
  /\ pc = "idle" /\ kind = "headless" /\ launch = NoLaunch /\ status = 0
  /\ script = [s \in Slots |-> NoScript]
  /\ worlds = {} /\ verified = {} /\ ran = NotRun

-----------------------------------------------------------------------------
(* Which distro a child runs in. Linux is its own, and only, world.          *)

\* Mutant of BridgeTarget: only a flag or the environment names the world.
FlagTarget(c, opts, argv) == [error |-> FALSE, world |-> opts.distro]

\* The bridge's choice, from its options, the workspace and the paths among DSH's arguments.
BridgeTarget(c, opts, argv) ==
  LET inferred == inferWslDistroFromDshPathArgs(argv)
      chosen   == CASE opts.distro # None    -> opts.distro
                    [] opts.distro = None /\ Owner(c.cwd) # None -> Owner(c.cwd)
                    [] OTHER                 -> inferred.distro
      mapped   == windowsPathToWsl(c.cwd, chosen)
  IN  IF ~c.windows THEN [error |-> FALSE, world |-> DefaultDistro]
      ELSE [error |-> inferred.error \/ mapped.error
                      \/ (None \notin {Owner(c.cwd), inferred.distro} /\ Owner(c.cwd) # inferred.distro),
            world |-> World(mapped.distro)]

\* The product profiles' checks and the Web installation take the launcher's own choice.
LauncherWorld == IF call.windows THEN World(options.distro) ELSE DefaultDistro

-----------------------------------------------------------------------------
(* The launcher.                                                             *)

Finish(code) == pc' = "exited" /\ status' = code

Start ==
  /\ pc \in AtRest /\ agenda # <<>>
  /\ LET c      == Head(agenda)
         parsed == parseWslBridgeArgs(c.args, c.env)
         home   == IF c.windows THEN distroForWindowsWorkspace(c.cwd, parsed.distro)
                   ELSE [error |-> FALSE, distro |-> parsed.distro]
     IN  /\ launch' = [call |-> c, options |-> [parsed EXCEPT !.distro = home.distro]]
         /\ IF parsed.error \/ home.error THEN Finish(1)
            ELSE /\ pc' = [run |-> "gate", install |-> "install", doctor |-> "doctor"][parsed.mode]
                 /\ status' = 0
  /\ agenda' = Tail(agenda) /\ kind' = "headless"
  /\ worlds' = {} /\ verified' = {} /\ ran' = NotRun
  /\ UNCHANGED <<tools, faults, disk, script>>

\* wslpath fails or times out while a path is being translated.
TranslationFails ==
  /\ pc \in {"install", "doctor", "run"} /\ call.windows /\ faults > 0
  /\ faults' = faults - 1 /\ Finish(1)
  /\ UNCHANGED <<agenda, tools, disk, kind, launch, script, worlds, verified, ran>>

\* One check of a profile: its manifest, then, if asked, the imports, which may fail.
Checked(world, k, imports, code) ==
  LET st == ManifestStatus(Manifest(world, ProfileOf(k, options.profile)), k, call.selector)
  IN  /\ worlds' = worlds \cup {world}
      /\ \/ tools.node = "absent" /\ call.windows /\ code = 127 /\ UNCHANGED <<faults, verified>>
         \/ /\ tools.node # "absent" \/ ~call.windows
            /\ \/ /\ code = st /\ UNCHANGED faults
                  /\ verified' = IF st = 0 THEN verified \cup {<<ProfileOf(k, options.profile), world>>}
                                 ELSE verified
               \/ st = 0 /\ imports /\ faults > 0 /\ code \in {67, 68}
                  /\ faults' = faults - 1 /\ UNCHANGED verified

\* A real run: the profile it needs, if it is one of the launcher's, has to be complete.
Gate ==
  /\ pc = "gate"
  /\ LET required == requiredOrcanaProfileForRun(options.dshArgs, options.profile) IN
     \/ required = "none" /\ pc' = "run" /\ UNCHANGED <<worlds, verified, faults, status>>
     \/ required # "none" /\ ~Exact(call.selector) /\ Finish(78) /\ UNCHANGED <<worlds, verified, faults>>
     \/ /\ required # "none" /\ Exact(call.selector)
        /\ \E code \in {0, 2, 66, 67, 68, 127} :
             /\ Checked(LauncherWorld, required, FALSE, code)
             /\ IF code = 0 THEN pc' = "run" /\ UNCHANGED status ELSE Finish(code)
  /\ UNCHANGED <<agenda, tools, disk, kind, launch, script, ran>>

\* The arguments of the run, as the bridge parses them and gives them to DSH.
RunArgs ==
  LET product == rewriteOrcanaWebInvocation(options.dshArgs, options.profile)
      plugin  == IF call.windows THEN translateDshPluginPathSpecsForWsl(product, options.distro)
                 ELSE [error |-> FALSE, distro |-> options.distro, args |-> product]
      bridged == parseWslBridgeArgs(canonicalBridgeArgs([options EXCEPT !.distro = plugin.distro], plugin.args),
                                    call.env)
      argv    == dshArgsForBridge(bridged)
      target  == BridgeTarget(call, bridged, argv)
      final   == IF call.windows THEN translateDshPathArgsForWsl(argv, target.world)
                 ELSE [error |-> FALSE, args |-> argv]
  IN  [error |-> plugin.error \/ bridged.error \/ target.error \/ final.error,
       world |-> target.world, argv |-> final.args]

\* The user's own command, or the dsh the resolver finds.
Dsh == IF call.command # "" THEN call.command ELSE ResolvedDsh(tools, call.selector)

Run ==
  /\ pc = "run"
  /\ IF RunArgs.error THEN Finish(1) /\ UNCHANGED <<worlds, ran>>
     ELSE /\ worlds' = worlds \cup {RunArgs.world}
          /\ IF Dsh = "absent" THEN Finish(127) /\ UNCHANGED ran
             ELSE /\ ran' = [argv |-> RunArgs.argv, world |-> RunArgs.world, dsh |-> Dsh]
                  /\ pc' = "running" /\ UNCHANGED status
  /\ UNCHANGED <<agenda, tools, faults, disk, kind, launch, script, verified>>

\* DSH ends with a code of its own, or by a signal.
RunEnds ==
  /\ pc = "running" /\ \E code \in {0, 1, 130} : Finish(code)
  /\ UNCHANGED <<agenda, tools, faults, disk, kind, launch, script, worlds, verified, ran>>

-----------------------------------------------------------------------------
(* An installation: of the headless profile, then of the Web profile; each   *)
(* by a script whose result is then checked.                                 *)

StartScript ==
  /\ pc = "install"
  /\ LET target == BridgeTarget(call, options, <<>>)
         pre    == PreflightStatus(tools, call.selector)
     IN  IF ~Exact(call.selector) \/ target.error
         THEN Finish(1) /\ UNCHANGED <<script, worlds>>
         ELSE /\ worlds' = worlds \cup {target.world}
              /\ IF pre # 0 THEN Finish(pre) /\ UNCHANGED script
                 ELSE /\ pc' = "installing" /\ UNCHANGED status
                      /\ script' = [script EXCEPT !["child"] =
                           [next |-> 1, world |-> target.world, kind |-> kind, selector |-> call.selector,
                            profile |-> ProfileOf(kind, options.profile)]]
  /\ UNCHANGED <<agenda, tools, faults, disk, kind, launch, verified, ran>>

\* A script ends; the launcher hears of its own child only.
ScriptEnds(slot, code) ==
  /\ script' = [script EXCEPT ![slot] = NoScript]
  /\ IF slot = "orphan" THEN UNCHANGED <<pc, status>>
     ELSE IF code = 0 THEN pc' = "check" /\ UNCHANGED status
     ELSE Finish(code)

Steps(s) == Transactions(s.kind, s.selector)

\* One `dsh plugin add`. It may fail with nothing done, or with the dependencies saved alone.
Transaction(slot) ==
  LET s == script[slot] IN
  /\ s.next \in DOMAIN Steps(s)
  /\ LET before == Manifest(s.world, s.profile)
         saved  == Saved(before, Steps(s)[s.next])
     IN \/ /\ \E after \in Reconciled(saved) : disk' = [disk EXCEPT ![s.world][s.profile] = after]
           /\ script' = [script EXCEPT ![slot].next = @ + 1]
           /\ UNCHANGED <<pc, status, faults>>
        \/ /\ faults > 0 /\ faults' = faults - 1
           /\ \E after \in {before, saved} : disk' = [disk EXCEPT ![s.world][s.profile] = after]
           /\ ScriptEnds(slot, 1)
  /\ UNCHANGED <<agenda, tools, kind, launch, worlds, verified, ran>>

\* The composition smoke, the script's last step.
Smoke(slot) ==
  /\ script[slot].next = Len(Steps(script[slot])) + 1
  /\ \/ ScriptEnds(slot, 0) /\ UNCHANGED faults
     \/ faults > 0 /\ faults' = faults - 1 /\ ScriptEnds(slot, 1)
  /\ UNCHANGED <<agenda, tools, disk, kind, launch, worlds, verified, ran>>

CheckInstalled ==
  /\ pc = "check"
  /\ \E code \in {0, 2, 66, 67, 68, 127} :
       /\ Checked(BridgeTarget(call, options, <<>>).world, kind, TRUE, code)
       /\ IF code = 0 /\ kind = "headless" THEN pc' = "install" /\ kind' = "web" /\ UNCHANGED status
          ELSE Finish(code) /\ UNCHANGED kind
  /\ UNCHANGED <<agenda, tools, disk, launch, script, ran>>

-----------------------------------------------------------------------------
(* The doctor: the environment, both profiles, which may be missing, and on  *)
(* Windows the other doctors.                                                *)

Doctor ==
  /\ pc = "doctor"
  /\ LET target == BridgeTarget(call, options, <<>>) IN
     IF target.error THEN Finish(1) /\ UNCHANGED worlds
     ELSE /\ worlds' = worlds \cup {target.world}
          /\ IF DoctorStatus(tools, call.selector) # 0 THEN Finish(1)
             ELSE pc' = "doctor-profile" /\ UNCHANGED status
  /\ UNCHANGED <<agenda, tools, faults, disk, kind, launch, script, verified, ran>>

\* A selector that is not exact leaves nothing to check against.
DoctorProfile ==
  /\ pc = "doctor-profile"
  /\ \E code \in {0, 2, 66, 67, 68, 127} :
       /\ IF Exact(call.selector)
          THEN Checked(IF kind = "headless" THEN BridgeTarget(call, options, <<>>).world ELSE LauncherWorld,
                       kind, TRUE, code)
          ELSE code = 0 /\ UNCHANGED <<worlds, verified, faults>>
       /\ IF code \notin {0, 2} THEN Finish(code) /\ UNCHANGED kind
          ELSE IF kind = "headless" THEN kind' = "web" /\ UNCHANGED <<pc, status>>
          ELSE IF call.windows THEN pc' = "other-doctors" /\ UNCHANGED <<kind, status>>
          ELSE Finish(0) /\ UNCHANGED kind
  /\ UNCHANGED <<agenda, tools, disk, launch, script, ran>>

OtherDoctors ==
  /\ pc = "other-doctors" /\ \E code \in {0, 1} : Finish(code)
  /\ UNCHANGED <<agenda, tools, faults, disk, kind, launch, script, worlds, verified, ran>>

-----------------------------------------------------------------------------
(* A kill: of everything, or of the launcher alone.                          *)

Kill ==
  /\ pc \notin AtRest /\ faults > 0 /\ faults' = faults - 1
  /\ pc' = "killed" /\ status' = 143
  /\ script' \in {[s \in Slots |-> NoScript]} \cup
                 (IF script["orphan"] = NoScript
                  THEN {[s \in Slots |-> IF s = "orphan" THEN script["child"] ELSE NoScript]} ELSE {})
  /\ UNCHANGED <<agenda, tools, disk, kind, launch, worlds, verified, ran>>

Next ==
  \/ Start \/ TranslationFails \/ Gate \/ Run \/ RunEnds
  \/ StartScript \/ CheckInstalled \/ Doctor \/ DoctorProfile \/ OtherDoctors \/ Kill
  \/ \E slot \in Slots : Transaction(slot) \/ Smoke(slot)

Spec == Init /\ [][Next]_vars

\* The launcher's children end and their ends are reported: every step of an installation is taken.
FairSpec ==
  /\ Spec
  /\ WF_vars(StartScript \/ CheckInstalled)
  /\ WF_vars(Transaction("child") \/ Smoke("child"))

-----------------------------------------------------------------------------
(* Properties.                                                               *)

\* The type invariant.
TypeOK ==
  /\ pc \in AtRest \cup {"gate", "run", "running", "install", "installing", "check",
                        "doctor", "doctor-profile", "other-doctors"}
  /\ kind \in Kinds /\ faults \in Nat /\ status \in Nat
  /\ disk \in [Worlds -> [Profiles -> Manifests]]
  /\ \A slot \in Slots :
       \/ script[slot] = NoScript
       \/ script[slot].next \in 1..5 /\ script[slot].world \in Worlds /\ script[slot].profile \in Profiles
  /\ worlds \subseteq Worlds /\ verified \subseteq Profiles \X Worlds

\* DSH boots p: one of its leading flags says so. (What DSH does, not how the launcher finds out.)
\* All that stands before i is flags, and the values of those that take one.
Leading(argv, i) ==
  \E flags \in SUBSET (1..i - 1) :
    /\ \A j \in flags : Kind(argv[j]) \in {"--patch", "--patch=", "--dump-config"}
    /\ \A j \in 1..i : j \in flags \cup {i} <=> ~(j - 1 \in flags /\ Kind(argv[j - 1]) = "--patch")
Boots(argv, p) ==
  \E i \in DOMAIN argv : /\ Leading(argv, i)
                        /\ \/ argv[i] = <<"--profile">> /\ Arg(argv, i + 1) = p
                           \/ argv[i] = <<"--profile=", p>>

\* Of the layers the profile requires, the manifest has the first n, each once and in order.
PlacesOf(m, l) == {j \in DOMAIN m.layers : m.layers[j] = l}
Placed(m, k, n) ==
  LET required == ExpectedBundles[k] IN
  /\ ToSet(m.layers) \cap ToSet(required) = {required[i] : i \in 1..n}
  /\ \A i, j \in 1..n : i <= j =>
       \A p \in PlacesOf(m, required[i]), q \in PlacesOf(m, required[j]) : p <= q

Complete(k, w) ==
  LET m == Manifest(w, ProfileOf(k, options.profile))
  IN  /\ m.installed /\ Placed(m, k, Len(ExpectedBundles[k]))
      /\ \A p \in DOMAIN ExpectedDeps(k, call.selector) : m.deps[p] = ExpectedDeps(k, call.selector)[p]

\* A real run fails closed (wsl-launcher.ts:178-181): however its arguments name it, a profile of the
\* launcher's is booted only where its manifest is exact, with the DSH it was made for. This is about
\* the distro the launcher chose; a distro only a path names is the subject of RunsWhereVerified.
RunsOnlyComplete ==
  pc = "running" /\ (options.distro = None => ran.world = DefaultDistro) =>
    \A k \in Kinds : Boots(ran.argv, ProfileOf(k, options.profile)) =>
      Complete(k, ran.world) /\ (call.command = "" => ran.dsh = call.selector)

\* "the verification target cannot drift from the execution target" (wsl-launcher.ts:72-73): a
\* profile of the launcher's runs in the distro it was checked in.
RunsWhereVerified ==
  pc = "running" => \A k \in Kinds :
    Boots(ran.argv, ProfileOf(k, options.profile)) => <<ProfileOf(k, options.profile), ran.world>> \in verified

\* One execution world (README, bridge invariant 1): where a flag, the environment or the workspace
\* chooses a distro, every child of the launch runs in it and every path is named as it names it; and
\* whoever chose, an installation or a doctor never spreads over two.
ChosenWorldIsKept ==
  /\ call.windows /\ options.distro # None /\ pc # "idle" =>
       /\ worlds \subseteq {options.distro}
       /\ \A i \in DOMAIN ran.argv : PathAt(ran.argv, i)[1] = "linux" => PathAt(ran.argv, i)[2] = options.distro
  /\ options.mode \in {"install", "doctor"} => Cardinality(worlds) <= 1

\* Everything from the sentinel on, and from the first word of the task on, reaches DSH as it was
\* typed (wsl-bridge.ts:102-105, README invariants 3 and 4), though it was parsed, rewritten,
\* composed, parsed again and translated: only the launcher's own flags before the sentinel go.
\* A word that is a flag's value begins no task, nor does one that becomes a value as those go.
NamesNext          == {"--patch", "--profile"}
TaskStarts(args)   == {i \in DOMAIN args : /\ args[i] = Sentinel \/ Kind(args[i]) = "word"
                                          /\ Kind(Arg(args, i - 1)) \notin ValueFlags \cup NamesNext}
TaskOf(args)       == SubSeq(args, Min(TaskStarts(args)), Len(args))
BridgeFlags        == ModeFlags \cup ValueFlags \cup DOMAIN InlineOf
PlainTask(args)    == \A i \in DOMAIN args : Kind(args[i]) \in BridgeFlags => \E j \in 1..i : args[j] = Sentinel
TaskIsOpaque ==
  LET task   == TaskOf(call.args)
      before == Arg(options.dshArgs, Len(options.dshArgs) - Len(task))
  IN  /\ pc = "running" /\ TaskStarts(call.args) # {} /\ Kind(Arg(options.dshArgs, 1)) # "plugin"
      /\ PlainTask(task) /\ Kind(before) \notin NamesNext
      => IsSuffix(task, ran.argv)

\* An installation that reports success has left both profiles exact, in the distro it worked in.
InstallIsComplete ==
  pc = "exited" /\ options.mode = "install" /\ status = 0 =>
    worlds # {} /\ \A k \in Kinds, w \in worlds : Complete(k, w)

\* The layers of a profile that are the installer's are the first few it requires, in order, and at
\* most the next of them is saved without being a layer yet.
Ordered(m, k) ==
  \E n \in 0..Len(ExpectedBundles[k]) :
    /\ Placed(m, k, n)
    /\ Discovered(m) \subseteq {ExpectedBundles[k][i] : i \in {n + 1} \cap DOMAIN ExpectedBundles[k]}

\* No installation, failed, killed, repeated or racing with an orphan of another, puts the layers of a
\* profile out of order (wsl-install.ts:53-60): that is what a later installation could not mend.
OrderIsNeverLost ==
  [][\A w \in Worlds, k \in Kinds :
       LET p == ProfileOf(k, DefaultProfile)
       IN  disk'[w][p] # disk[w][p] /\ Ordered(disk[w][p], k) => Ordered(disk'[w][p], k)]_vars

\* What a failed or killed installation left behind, the next one completes, if nothing fails then:
\* the advice the launcher gives ("run dsh-orcana --wsl-install first") is good.
Repairable ==
  /\ pc = "install" /\ kind = "headless" /\ faults = 0 /\ Exact(call.selector)
  /\ PreflightStatus(tools, call.selector) = 0 /\ ~BridgeTarget(call, options, <<>>).error
  /\ \A k \in Kinds : Ordered(Manifest(BridgeTarget(call, options, <<>>).world, ProfileOf(k, options.profile)), k)
ReinstallRepairs == Repairable ~> (pc = "exited" /\ status = 0)

\* The rows of some names in their order, the variables that are set and that the launcher or the
\* bridge owns, and the mode the host or else the user's first row gives one.
RowsOf(rows, names) == Joined([n \in DOMAIN rows |-> IF rows[n].name \in names THEN << rows[n] >> ELSE <<>>])
Owned == Forwarded(call.vars, call.listed) \cup (DOMAIN HostModes \cap call.vars)
ModeGiven(name) ==
  LET own == RowsOf(call.rows, {name})
  IN  IF name \in DOMAIN HostModes THEN HostModes[name]
      ELSE IF name \in BridgeNames \/ own = <<>> THEN "" ELSE own[1].mode

\* What crosses into WSL (wsl-bridge.ts:412-445, wsl-host-env.ts:54-72): nothing of the home and path
\* variables, nothing of ORCANA_WSL_* that the user did not list (a listed one may cross, 422 and
\* 439-441, although the comment at 409-410 has all of them removed); of the other names those the
\* launcher or the bridge owns and that are set, and of nobody's only what was inherited; of an owned
\* name that crosses one row, inward only, a path in the mode its owner or the user gave; and nobody's
\* rows as they were, in their order.
EnvironmentIsOwned ==
  pc = "running" /\ call.windows =>
    LET rows     == ChildRows(call.rows, call.vars, call.listed)
        nobodys  == NamesIn(call.rows) \ (Owned \cup NeverNames \cup BridgeNames)
    IN /\ NamesIn(rows) \cap (NeverNames \cup (BridgeNames \ call.listed)) = {}
       /\ NamesIn(rows) \ BridgeNames = nobodys \cup (Owned \ BridgeNames)
       /\ \A name \in Owned \cap NamesIn(rows) : RowsOf(rows, {name}) = << Row(name, ModeGiven(name)) >>
       /\ RowsOf(rows, nobodys) = RowsOf(call.rows, nobodys)

=============================================================================
