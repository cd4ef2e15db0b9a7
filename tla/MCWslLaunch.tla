---------------------------- MODULE MCWslLaunch ----------------------------
(* Small instances of WslLaunch: every short argument list; every kind of    *)
(* toolchain; installations on every kind of profile with two failures; and  *)
(* the rows WSLENV can hold.                                                 *)
EXTENDS WslLaunch

Ubuntu == <<"word", "Ubuntu">>
Debian == <<"word", "Debian">>
Bench  == <<"word", "bench">>

MCWorlds   == {Ubuntu, Debian}
Owners     == {DefaultProfile, Bench}
MCProfiles == Owners \cup {orcanaWebProfileName(p) : p \in Owners}

-----------------------------------------------------------------------------
(* Manifests and disks.                                                      *)

Installed(k, versions, order) ==
  [installed |-> TRUE, layers |-> order,
   deps |-> [p \in Packages |-> IF p \in ToSet(order) \cup RuntimePackages
                                THEN IF p \in DOMAIN versions THEN versions[p] ELSE "pinned" ELSE "absent"]]
Good(k)  == Installed(k, <<>>, ExpectedBundles[k])
Drift(k) == Installed(k, CompanionOf[k] :> "other", ExpectedBundles[k])
\* A bundle of the user's between the required ones; and the required ones the wrong way round.
Extra(k) == Installed(k, <<>>, << "dsh-base", CompanionOf[k], Bundles[1], "user-bundle", Bundles[2] >>)
Wrong(k) == Installed(k, <<>>, << "dsh-base", CompanionOf[k], Bundles[2], Bundles[1] >>)
Half(k)  == [Saved(Missing, {Spec1(CompanionOf[k], "other")}) EXCEPT !.layers = << "dsh-base" >>]

\* The manifests of the two owned profiles in a world.
Pair(h, w) == [p \in MCProfiles |-> IF p = DefaultProfile THEN h
                                    ELSE IF p = orcanaWebProfileName(DefaultProfile) THEN w ELSE Missing]
Both(u, d) == [x \in MCWorlds |-> IF x = Ubuntu THEN u ELSE d]

None2  == Pair(Missing, Missing)
Ready  == Pair(Extra("headless"), Good("web"))
Partial == Pair(Good("headless"), Drift("web"))

Toolchain   == [node |-> "supported", dsh |-> "pinned", pnpm |-> "pinned", npx |-> TRUE]
Toolchains  == {Toolchain, [Toolchain EXCEPT !.dsh = "other"], [Toolchain EXCEPT !.npx = FALSE],
                [Toolchain EXCEPT !.dsh = "absent", !.npx = FALSE], [Toolchain EXCEPT !.node = "absent"],
                [Toolchain EXCEPT !.node = "old"]}

-----------------------------------------------------------------------------
(* Calls.                                                                    *)

Call(args) ==
  [windows |-> TRUE, cwd |-> <<"drive">>, args |-> args, env |-> [distro |-> None, profile |-> None],
   selector |-> "pinned", command |-> "", rows |-> <<>>, vars |-> {}, listed |-> {}]

\* Arguments by the piece, a flag with its value.
Heads == { << <<"--wsl-distro">>, Debian >>, << <<"--wsl-distro=", Debian>> >>, << <<"--wsl-profile">>, Bench >>,
           << <<"--profile">>, DefaultProfile >>, << <<"--profile=", orcanaWebProfileName(DefaultProfile)>> >>,
           << <<"--profile">>, Bench >>, << <<"--patch">>, <<"drive">> >>, << <<"--patch">>, <<"unc", Debian>> >>,
           << <<"--patch=", <<"unc", Debian>> >> >>, << <<"--dump-config">> >>, << <<"--help">> >>,
           << <<"web">> >>, << <<"plugin">> >>, << Sentinel >>, << <<"word", "task">> >> }
Tails == Heads \cup { << <<"drive">> >>, << <<"unc", Debian>> >>, << <<"backslashed">> >>,
                      << <<"--patch">>, <<"backslashed">> >>, << <<"--wsl-profile">>, EmptyText >>,
                      << <<"--wsl-doctor">> >>, << <<"--wsl-distro">> >> }
MCArguments == UNION {ToSet(a) : a \in Tails} \cup {<<"--wsl-install">>, <<"unc", Debian>>, orcanaWebProfileName(DefaultProfile)}
ArgLists == {<<>>} \cup Heads \cup {a \o b : a \in Heads, b \in Tails}
            \cup {a \o b \o c : a \in Heads, b \in Heads, c \in Tails}

Scenario(disks, tool, n, agendas) == [disks |-> disks, tools |-> tool, faults |-> n, agendas |-> agendas]
Places       == {c \in {[Call(<<>>) EXCEPT !.cwd = w, !.windows = b, !.env.distro = e] :
                          w \in {<<"drive">>, <<"unc", Debian>>}, b \in BOOLEAN, e \in {None, Ubuntu}} :
                   c.windows \/ c = [Call(<<>>) EXCEPT !.windows = FALSE]}
ArgScenarios == {Scenario({Both(Ready, Partial)}, {Toolchain}, 0,
                          {<< [c EXCEPT !.args = a] >> : a \in ArgLists, c \in Places})}

\* Installations: over what may be there, with what may fail; then a run of each kind.
Install        == << <<"--wsl-install">> >>
Manifests1(k)  == {Missing, Extra(k), Drift(k), Wrong(k), Half(k)}
InstallDisks   == {Both(Pair(h, w), None2) : h \in Manifests1("headless"), w \in Manifests1("web")}
Agendas        == { << Call(Install), Call(Install), Call(<<>>) >>,
                    << Call(Install), Call(<< <<"web">> >>) >>,
                    << [Call(Install) EXCEPT !.windows = FALSE], [Call(<< <<"--wsl-doctor">> >>) EXCEPT !.windows = FALSE] >> }
InstallScenarios == {Scenario(InstallDisks, {Toolchain}, 2, Agendas)}
Selected(c)    == {[c EXCEPT !.selector = s, !.command = m] : s \in {"pinned", "other", "floating"}, m \in {"", "mydsh"}}
ToolScenarios  ==
  {Scenario({Both(Ready, None2)}, Toolchains, 1,
     {<< c >> : c \in UNION {Selected(Call(a)) : a \in {Install, <<>>, << <<"--wsl-doctor">> >>, << <<"--profile">>, Bench >>}}})}

-----------------------------------------------------------------------------
(* The environment.                                                          *)

MCForward   == {"OPENAI_API_KEY", "ORCANA_LOG"}
MCNever     == {"DSH_HOME"}
MCBridge    == {"ORCANA_WSL_PROFILE"}
MCHostModes == [n \in {"CA_FILE", "CA_DIR"} |-> IF n = "CA_FILE" THEN "p" ELSE "l"]

Names == MCForward \cup MCNever \cup MCBridge \cup DOMAIN MCHostModes \cup {"MINE"}
Rows  == [name : Names, mode : {"", "p"}, way : {"", "w"}]
EnvScenarios ==
  {Scenario({Both(Ready, None2)}, {Toolchain}, 0,
     {<< [Call(<<>>) EXCEPT !.rows = r, !.vars = v, !.listed = l] >> :
        r \in {<<>>} \cup {<<a, b>> : a \in Rows, b \in Rows}
              \cup {<< a, [name |-> "MINE", mode |-> "l", way |-> "u"], b >> : a \in Rows, b \in Rows},
        v \in {Names, Names \ {"OPENAI_API_KEY", "CA_FILE"}},
        l \in {{}, {"MINE", "CA_FILE", "DSH_HOME"}, {"ORCANA_WSL_PROFILE"}}})}

MCScenarios == ArgScenarios \cup InstallScenarios \cup ToolScenarios \cup EnvScenarios
=============================================================================
