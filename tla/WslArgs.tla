------------------------------ MODULE WslArgs ------------------------------
(* What dsh-orcana does to its arguments (wsl-bridge.ts, wsl-launcher.ts):   *)
(* it takes its own flags out, decides which profile DSH boots, finds the    *)
(* few arguments that are paths of DSH's, and has WSL translate them.        *)
(*                                                                           *)
(* An argument is a tuple whose head is its kind:                            *)
(*   <<"--patch">>, <<"web">>      a flag, a command of DSH                  *)
(*   <<"--patch=", v>>             a flag with its value in line             *)
(*   <<"word", ...>>               any other text; <<"word", "">> is empty   *)
(*   <<"drive">>, <<"unc", d>>     a Windows path; one of distro d's files   *)
(*   <<"backslashed">>, <<"slashed">>   a relative path                      *)
(*   <<"linux", d>>                a path as distro d names it               *)
(* "--dump-config" and "--help" stand for both dump flags and for the four   *)
(* help and version flags, and distros are equal when their names are equal  *)
(* up to case. A profile or a distro is the argument that named it.          *)
EXTENDS SequencesExt

CONSTANT DefaultDistro   \* the distro wsl.exe takes when none is named

None           == <<>>
EmptyText      == <<"word", "">>
Sentinel       == <<"--">>
DefaultProfile == <<"word", "orcana">>

Arg(args, i) == IF i \in DOMAIN args THEN args[i] ELSE None
Kind(arg)    == IF arg = None THEN "none" ELSE arg[1]

-----------------------------------------------------------------------------
(* The launcher's own flags.                                                 *)

ModeFlags  == {"--wsl-install", "--wsl-doctor"}
ValueFlags == {"--wsl-distro", "--wsl-profile"}
InlineOf   == [f \in {"--wsl-distro=", "--wsl-profile="} |->
                 IF f = "--wsl-distro=" THEN "--wsl-distro" ELSE "--wsl-profile"]

\* owes is the flag whose value comes next.
WithValue(s, flag, value) ==
  IF value = EmptyText THEN [s EXCEPT !.error = TRUE]
  ELSE IF flag = "--wsl-distro" THEN [s EXCEPT !.owes = "", !.distro = value]
  ELSE [s EXCEPT !.owes = "", !.profile = value]

\* Mutant of ParseTurn: the sentinel does not end the launcher's flags.
ParseTurnOn(s, arg) ==
  IF s.error THEN s
  ELSE IF s.owes # "" THEN WithValue(s, s.owes, arg)
  ELSE IF Kind(arg) \in ValueFlags THEN [s EXCEPT !.owes = Kind(arg)]
  ELSE IF Kind(arg) \in ModeFlags THEN [s EXCEPT !.mode = "doctor"]
  ELSE [s EXCEPT !.dshArgs = Append(@, arg)]

\* One turn of the loop.
ParseTurn(s, arg) ==
  IF s.error THEN s
  ELSE IF s.owes # "" THEN WithValue(s, s.owes, arg)
  ELSE IF s.passthrough THEN [s EXCEPT !.dshArgs = Append(@, arg)]
  ELSE IF Kind(arg) \in ModeFlags THEN
    [s EXCEPT !.error = (s.mode # "run"),
              !.mode  = IF Kind(arg) = "--wsl-install" THEN "install" ELSE "doctor"]
  ELSE IF Kind(arg) \in ValueFlags THEN [s EXCEPT !.owes = Kind(arg)]
  ELSE IF Kind(arg) \in DOMAIN InlineOf THEN WithValue(s, InlineOf[Kind(arg)], arg[2])
  ELSE [s EXCEPT !.dshArgs = Append(@, arg), !.passthrough = (arg = Sentinel)]

\* env: the distro and the profile the environment names, or None.
Unparsed(env) ==
  [error |-> FALSE, owes |-> "", passthrough |-> FALSE, mode |-> "run", dshArgs |-> <<>>,
   distro |-> env.distro, profile |-> IF env.profile = None THEN DefaultProfile ELSE env.profile]

\* The loop after each of its turns.
ParsedTo(args, env) ==
  LET s[n \in 0..Len(args)] == IF n = 0 THEN Unparsed(env) ELSE ParseTurn(s[n - 1], args[n])
  IN  s

parseWslBridgeArgs(args, env) ==
  LET s == ParsedTo(args, env)[Len(args)]
  IN  [error |-> s.error \/ s.owes # "", distro |-> s.distro, profile |-> s.profile,
       mode |-> s.mode, dshArgs |-> s.dshArgs]

\* Mutant of canonicalBridgeArgs: the workspace's distro is left to the bridge to find again.
canonicalSansDistro(options, dshArgs) == << <<"--wsl-profile">>, options.profile >> \o dshArgs

\* The launcher hands its options to the bridge as arguments again.
canonicalBridgeArgs(options, dshArgs) ==
  (IF options.distro = None THEN <<>> ELSE << <<"--wsl-distro">>, options.distro >>)
  \o << <<"--wsl-profile">>, options.profile >>
  \o (CASE options.mode = "install" -> << <<"--wsl-install">> >>
        [] options.mode = "doctor"  -> << <<"--wsl-doctor">> >>
        [] OTHER                    -> <<>>)
  \o dshArgs

-----------------------------------------------------------------------------
(* The profile DSH boots.                                                    *)

\* What comes after an argument: another of DSH's own leading flags, the value of --patch, or
\* neither, since the flags are over.
RootTurn(next, arg) ==
  CASE next = "value"                                                   -> "flag"
    [] next = "flag" /\ Kind(arg) = "--patch"                          -> "value"
    [] next = "flag" /\ Kind(arg) \in {"--patch=", "--dump-config"}    -> "flag"
    [] OTHER                                                            -> "over"

RootScan(args) ==
  LET next[n \in 0..Len(args)] == IF n = 0 THEN "flag" ELSE RootTurn(next[n - 1], args[n])
  IN  next

\* The first argument that is none of those flags.
RootEnd(args) == Min({n \in DOMAIN args : RootScan(args)[n] = "over"} \cup {Len(args) + 1})

shouldInjectDefaultProfile(args) ==
  Kind(Arg(args, RootEnd(args))) \notin {"--profile", "--profile=", "--help", "web", "plugin"}

\* Mutant of explicitRootProfile: only the first argument is looked at.
explicitFirstProfile(args) ==
  CASE Kind(Arg(args, 1)) = "--profile"  -> Arg(args, 2)
    [] Kind(Arg(args, 1)) = "--profile=" -> args[1][2]
    [] OTHER                             -> None

explicitRootProfile(args) ==
  LET at == Arg(args, RootEnd(args))
  IN  CASE Kind(at) = "--profile"  -> Arg(args, RootEnd(args) + 1)
        [] Kind(at) = "--profile=" -> at[2]
        [] OTHER                   -> None

orcanaWebProfileName(base) == Append(base, "web")

\* The profile of the launcher's that has to be complete before DSH is run.
requiredOrcanaProfileForRun(dshArgs, base) ==
  IF Kind(Arg(dshArgs, 1)) = "web" THEN "web"
  ELSE IF shouldInjectDefaultProfile(dshArgs) \/ explicitRootProfile(dshArgs) = base THEN "headless"
  ELSE IF explicitRootProfile(dshArgs) = orcanaWebProfileName(base) THEN "web"
  ELSE "none"

\* DSH's alias `web` would boot DSH's own Web profile.
rewriteOrcanaWebInvocation(dshArgs, base) ==
  IF Kind(Arg(dshArgs, 1)) # "web" THEN dshArgs
  ELSE << <<"--profile">>, orcanaWebProfileName(base) >> \o Tail(dshArgs)

dshArgsForBridge(options) ==
  IF shouldInjectDefaultProfile(options.dshArgs)
  THEN << <<"--profile">>, options.profile >> \o options.dshArgs
  ELSE options.dshArgs

-----------------------------------------------------------------------------
(* Distros and paths.                                                        *)

World(distro) == IF distro = None THEN DefaultDistro ELSE distro
Owner(path)   == IF Kind(path) = "unc" THEN path[2] ELSE None

\* A workspace of a distro's own belongs there, whatever else is selected.
distroForWindowsWorkspace(cwd, configured) ==
  [error  |-> None \notin {Owner(cwd), configured} /\ Owner(cwd) # configured,
   distro |-> IF configured = None THEN Owner(cwd) ELSE configured]

windowsPathToWsl(path, distro) ==
  IF Owner(path) = None
  THEN [error |-> FALSE, distro |-> distro, path |-> <<"linux", World(distro)>>]
  ELSE [error  |-> distro # None /\ distro # Owner(path),
        distro |-> IF distro = None THEN Owner(path) ELSE distro,
        path   |-> <<"linux", Owner(path)>>]

\* After an argument: whose flags are next (the root's, its web command's, nobody's), and
\* whether the next argument is the value of one, "path" or "name".
PatchTurn(s, arg) ==
  LET kind == Kind(arg)
  IN  IF s.owes # "" THEN [s EXCEPT !.owes = ""]
      ELSE CASE s.mode # "over" /\ kind = "--patch"                       -> [s EXCEPT !.owes = "path"]
             [] s.mode # "over" /\ kind \in {"--patch=", "--dump-config"} -> s
             [] s.mode = "root" /\ kind = "--profile"                     -> [s EXCEPT !.owes = "name"]
             [] s.mode = "root" /\ kind = "--profile="                    -> s
             [] s.mode = "root" /\ kind = "web"                           -> [s EXCEPT !.mode = "web"]
             [] OTHER                                                     -> [s EXCEPT !.mode = "over"]

PatchScan(args) ==
  LET s[n \in 0..Len(args)] == IF n = 0 THEN [mode |-> "root", owes |-> ""] ELSE PatchTurn(s[n - 1], args[n])
  IN  s

\* The positions of the --patch values that are DSH's.
collectDshPatchPathRefs(args) ==
  {n \in DOMAIN args :
     LET before == PatchScan(args)[n - 1]
     IN  \/ before.owes = "path"
         \/ before.owes = "" /\ before.mode # "over" /\ Kind(args[n]) = "--patch="}

PathAt(args, i) == IF Kind(args[i]) = "--patch=" THEN args[i][2] ELSE args[i]

\* The distro those values belong to; an error when they belong to two.
inferWslDistroFromDshPathArgs(args) ==
  LET owners == {Owner(PathAt(args, i)) : i \in collectDshPatchPathRefs(args)} \ {None}
  IN  [error  |-> \E a, b \in owners : a # b,
       distro |-> IF owners = {} THEN None ELSE CHOOSE d \in owners : TRUE]

windowsArgumentPathToWsl(path, distro) ==
  CASE Kind(path) \in {"drive", "unc"} -> windowsPathToWsl(path, distro)
    [] Kind(path) = "backslashed"      -> [error |-> FALSE, path |-> <<"slashed">>]
    [] OTHER                           -> [error |-> FALSE, path |-> path]

translateDshPathArgsForWsl(args, distro) ==
  LET refs     == collectDshPatchPathRefs(args)
      mapped   == [i \in refs |-> windowsArgumentPathToWsl(PathAt(args, i), distro)]
  IN  [error |-> \E i \in refs : mapped[i].error,
       args  |-> [i \in DOMAIN args |->
                    IF i \notin refs THEN args[i]
                    ELSE IF Kind(args[i]) = "--patch=" THEN <<"--patch=", mapped[i].path>>
                    ELSE mapped[i].path]]

\* Where pnpm's arguments begin in `plugin --profile <name> ...`; 0 for any other command.
pluginPnpmArgsStart(args) ==
  CASE Kind(Arg(args, 1)) = "plugin" /\ Kind(Arg(args, 2)) = "--profile" /\ Arg(args, 3) # None -> 4
    [] Kind(Arg(args, 1)) = "plugin" /\ Kind(Arg(args, 2)) = "--profile="                       -> 3
    [] OTHER                                                                                    -> 0

\* One turn of the loop over pnpm's arguments: a package given by its path.
TranslateSpec(s, arg) ==
  LET mapped == windowsPathToWsl(arg, s.distro)
  IN  IF s.error THEN s
      ELSE IF Kind(arg) = "backslashed" THEN [s EXCEPT !.args = Append(@, <<"slashed">>)]
      ELSE IF Kind(arg) \in {"drive", "unc"}
      THEN [error |-> mapped.error, distro |-> mapped.distro, args |-> Append(s.args, mapped.path)]
      ELSE [s EXCEPT !.args = Append(@, arg)]

translateDshPluginPathSpecsForWsl(args, distro) ==
  LET start == pluginPnpmArgsStart(args)
      head  == IF start = 0 THEN args ELSE SubSeq(args, 1, start - 1)
      specs == IF start = 0 THEN <<>> ELSE SubSeq(args, start, Len(args))
      s[n \in 0..Len(specs)] == IF n = 0 THEN [error |-> FALSE, distro |-> distro, args |-> head]
                                ELSE TranslateSpec(s[n - 1], specs[n])
  IN  s[Len(specs)]
=============================================================================
