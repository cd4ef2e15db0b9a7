-------------------------- MODULE WslLaunchProofs --------------------------
(***************************************************************************)
(* Installations never put layers out of order, and are complete when they *)
(* say so; a launch keeps to the world it chose; a run boots a profile of  *)
(* the launcher's only where it is complete; DSH gets the task as it was   *)
(* typed; and of the environment only what is owned crosses into WSL.      *)
(*                                                                         *)
(* Manifests.  A transaction appends, and what it appends is the next      *)
(* layer of the profile, since a profile a script has come to step n on    *)
(* has the layers of the steps before (At).  No step of another script     *)
(* takes a layer away, so this survives orphans (DiskInv), and it survives *)
(* failures, which leave one layer saved and not discovered.               *)
(*                                                                         *)
(* Checks.  A check of four layers that are there once each finds them in  *)
(* order (CheckedIsPlaced): its cursor is a recursion over the required    *)
(* layers, solved in Induction.  What a check has found whole stays whole  *)
(* under any transaction for the same DSH (WholeKept), which carries a     *)
(* check over whatever an installation does after it (DoneKept).           *)
(*                                                                         *)
(* Arguments.  They are parsed, rewritten, composed, parsed again and      *)
(* translated on their way to DSH.  The first parse leaves none of the     *)
(* launcher's own flags before the sentinel (Clean), so the second takes   *)
(* the flags the launcher composed and nothing else (Reparsed); and what   *)
(* translation does to an argument is to spell a path as the distro does   *)
(* (Like).  Hence the paths of a run are named as the launch's world names *)
(* them (RunPaths), and its root flags are those that were typed.          *)
(*                                                                         *)
(* Boots.  DSH's leading flags end where the launcher's search for a root  *)
(* profile ends (BootsGiven), a path respelled or not (RootLike), so the   *)
(* profile DSH boots is the one the gate has asked for (BootsRequired),    *)
(* and what the gate has found is what runs (GateInv).                     *)
(*                                                                         *)
(* Task.  The first parse passes on everything from where the task begins  *)
(* (TaskParsed).  Each stage after it keeps the task the end of its list,  *)
(* and no value of a flag (Fits), and the translation's search for paths   *)
(* is over where it begins (SearchIsOver).                                 *)
(*                                                                         *)
(* Environment.  What a loop makes of the rows of WSLENV is lists put      *)
(* together, one per row and one per row it adds, and the rows of some     *)
(* names of that are the lists of those names put together (RowsOfJoined). *)
(* Of a name each of the two loops leaves all rows (LoopKeeps), one, which *)
(* it found (LoopMeets) or added (LoopAdds), or none (LoopDrops).          *)
(***************************************************************************)
EXTENDS WslLaunch, Induction, SequenceTheorems


-----------------------------------------------------------------------------
(* The parsing of arguments. *)

Modes == {"run", "install", "doctor"}

\* What the loop may have come to.
ParseState(env) ==
  [error : BOOLEAN, owes : {""} \cup ValueFlags, passthrough : BOOLEAN, mode : Modes, dshArgs : Seq(Arguments),
   distro : Arguments \cup {env.distro}, profile : Arguments \cup {DefaultProfile, env.profile}]

\* A turn of the loop stays among those states.
LEMMA ParseTurnType ==
  ASSUME NEW env, NEW s \in ParseState(env), NEW arg \in Arguments
  PROVE  ParseTurn(s, arg) \in ParseState(env)
<1>1. ASSUME NEW flag \in ValueFlags, NEW value \in Arguments
      PROVE  WithValue(s, flag, value) \in ParseState(env)
  BY <1>1 DEF WithValue, ParseState
<1>2. Kind(arg) \in DOMAIN InlineOf => InlineOf[Kind(arg)] \in ValueFlags /\ arg[2] \in Arguments
  BY LaunchAssumption DEF InlineOf, ValueFlags
<1>3. Append(s.dshArgs, arg) \in Seq(Arguments)
  <2>1. s.dshArgs \in Seq(Arguments)
    BY DEF ParseState
  <2> QED
    BY <2>1, AppendProperties
<1>4. s.owes # "" => s.owes \in ValueFlags
  BY DEF ParseState
<1>5. CASE s.error
  BY <1>5 DEF ParseTurn
<1>6. CASE ~s.error /\ s.owes # ""
  BY <1>1, <1>4, <1>6 DEF ParseTurn
<1>7. CASE ~s.error /\ s.owes = "" /\ s.passthrough
  <2>1. ParseTurn(s, arg) = [s EXCEPT !.dshArgs = Append(@, arg)]
    BY <1>7 DEF ParseTurn
  <2> QED
    BY <1>3, <2>1 DEF ParseState
<1>8. CASE ~s.error /\ s.owes = "" /\ ~s.passthrough
  <2>1. CASE Kind(arg) \in ModeFlags
    <3>1. ParseTurn(s, arg) = [s EXCEPT !.error = (s.mode # "run"),
                                 !.mode  = IF Kind(arg) = "--wsl-install" THEN "install" ELSE "doctor"]
      BY <1>8, <2>1 DEF ParseTurn
    <3> QED
      BY <3>1 DEF ParseState, Modes
  <2>2. CASE Kind(arg) \notin ModeFlags /\ Kind(arg) \in ValueFlags
    <3>1. ParseTurn(s, arg) = [s EXCEPT !.owes = Kind(arg)]
      BY <1>8, <2>2 DEF ParseTurn
    <3> QED
      BY <2>2, <3>1 DEF ParseState
  <2>3. CASE Kind(arg) \notin ModeFlags \cup ValueFlags /\ Kind(arg) \in DOMAIN InlineOf
    BY <1>1, <1>2, <1>8, <2>3 DEF ParseTurn
  <2>4. CASE Kind(arg) \notin ModeFlags \cup ValueFlags \cup DOMAIN InlineOf
    <3>1. ParseTurn(s, arg) = [s EXCEPT !.dshArgs = Append(@, arg), !.passthrough = (arg = Sentinel)]
      BY <1>8, <2>4 DEF ParseTurn
    <3> QED
      BY <1>3, <3>1 DEF ParseState
  <2> QED
    BY <2>1, <2>2, <2>3, <2>4
<1> QED
  BY <1>5, <1>6, <1>7, <1>8 DEF ParseState

\* So does its beginning.
LEMMA UnparsedType ==
  ASSUME NEW env
  PROVE  Unparsed(env) \in ParseState(env)
<1>1. <<>> \in Seq(Arguments)
  OBVIOUS
<1> QED
  BY <1>1 DEF Unparsed, ParseState, Modes

\* The loop goes as its definition says, and stays among those states.
LEMMA ParsedEquation ==
  ASSUME NEW env, NEW args \in Seq(Arguments)
  PROVE  /\ ParsedTo(args, env)[0] = Unparsed(env)
         /\ \A n \in 1 .. Len(args) : ParsedTo(args, env)[n] = ParseTurn(ParsedTo(args, env)[n - 1], args[n])
         /\ \A n \in 0 .. Len(args) : ParsedTo(args, env)[n] \in ParseState(env)
<1> DEFINE N == Len(args)
           V == ParseState(env)
           Def(f) == [n \in 0 .. N |-> IF n = 0 THEN Unparsed(env) ELSE ParseTurn(f[n - 1], args[n])]
           G == [n \in 1 .. N |-> [s \in V |-> ParseTurn(s, args[n])]]
           to == CHOOSE f : f = Def(f)
<1>1. N \in Nat /\ \A n \in 1 .. N : args[n] \in Arguments
  OBVIOUS
<1>2. G \in [1 .. N -> [V -> V]]
  BY <1>1, ParseTurnType
<1>3. PICK f : Iterates(N, V, Unparsed(env), G, f)
  <2> HIDE DEF G, N, V
  <2>1. Unparsed(env) \in V
    BY UnparsedType DEF V
  <2> QED
    BY <1>1, <1>2, <2>1, PositionRecursion
<1>4. f = Def(f)
  <2>1. /\ f \in [0 .. N -> V] /\ f[0] = Unparsed(env)
        /\ \A n \in 1 .. N : f[n] = G[n][f[n - 1]]
    BY <1>3 DEF Iterates
  <2>2. ASSUME NEW n \in 0 .. N, n # 0 PROVE f[n] = ParseTurn(f[n - 1], args[n])
    <3>1. n \in 1 .. N /\ n - 1 \in 0 .. N
      BY <1>1, <2>2
    <3> QED
      BY <2>1, <3>1
  <2>3. \A n \in 0 .. N : f[n] = IF n = 0 THEN Unparsed(env) ELSE ParseTurn(f[n - 1], args[n])
    BY <2>1, <2>2
  <2> QED
    BY <2>1, <2>3
<1>5. to = Def(to)
  <2> HIDE DEF Def
  <2> QED
    BY <1>4
<1>6. ParsedTo(args, env) = to
  BY DEF ParsedTo
<1> HIDE DEF to
<1>7. to[0] = Unparsed(env)
  BY <1>1, <1>5
<1>8. ASSUME NEW n \in 1 .. N PROVE to[n] = ParseTurn(to[n - 1], args[n])
  <2>1. n \in 0 .. N /\ n # 0
    BY <1>1
  <2> QED
    BY <1>5, <2>1
<1> DEFINE P == {n \in 0 .. N : to[n] \in V}
<1>9. \A n \in 0 .. N : n \in P
  <2>1. 0 \in P
    BY <1>1, <1>7, UnparsedType
  <2>2. ASSUME NEW n \in 1 .. N, n - 1 \in P PROVE n \in P
    BY <1>1, <1>8, <2>2, ParseTurnType
  <2> HIDE DEF P
  <2> QED
    BY <1>1, <2>1, <2>2, EveryPosition
<1> QED
  BY <1>6, <1>7, <1>8, <1>9

\* What parsing gives.
LEMMA ParsedType ==
  ASSUME NEW env, NEW args \in Seq(Arguments)
  PROVE  /\ parseWslBridgeArgs(args, env).mode \in Modes
         /\ parseWslBridgeArgs(args, env).error \in BOOLEAN
         /\ parseWslBridgeArgs(args, env).dshArgs \in Seq(Arguments)
         /\ parseWslBridgeArgs(args, env).distro \in Arguments \cup {env.distro}
         /\ parseWslBridgeArgs(args, env).profile \in Arguments \cup {DefaultProfile, env.profile}
<1>1. ParsedTo(args, env)[Len(args)] \in ParseState(env)
  BY ParsedEquation
<1> QED
  BY <1>1 DEF parseWslBridgeArgs, ParseState


\* What goes as the loop goes is what the loop comes to.
LEMMA ParsedSolved ==
  ASSUME NEW env, NEW S, NEW args \in Seq(S), NEW f, f = [n \in 0 .. Len(args) |-> f[n]],
         f[0] = Unparsed(env),
         \A n \in 1 .. Len(args) : f[n] = ParseTurn(f[n - 1], args[n])
  PROVE  ParsedTo(args, env) = f
<1> DEFINE N == Len(args)
           Def(g) == [n \in 0 .. N |-> IF n = 0 THEN Unparsed(env) ELSE ParseTurn(g[n - 1], args[n])]
           to == CHOOSE g : g = Def(g)
<1>1. N \in Nat
  OBVIOUS
<1>2. f = Def(f)
  <2>1. \A n \in 0 .. N : f[n] = IF n = 0 THEN Unparsed(env) ELSE ParseTurn(f[n - 1], args[n])
    <3>1. ASSUME NEW n \in 0 .. N, n # 0 PROVE n \in 1 .. N
      BY <1>1, <3>1
    <3> QED
      BY <3>1
  <2> QED
    BY <2>1
<1>3. to = Def(to)
  <2> HIDE DEF Def
  <2> QED
    BY <1>2
<1>4. ParsedTo(args, env) = to
  BY DEF ParsedTo
<1> HIDE DEF to
<1> DEFINE P == {n \in 0 .. N : to[n] = f[n]}
<1>5. 0 \in P
  BY <1>1, <1>3
<1>6. ASSUME NEW n \in 1 .. N, n - 1 \in P PROVE n \in P
  <2>1. n \in 0 .. N /\ n # 0
    BY <1>1
  <2>2. to[n] = ParseTurn(to[n - 1], args[n])
    BY <1>3, <2>1
  <2> QED
    BY <1>6, <2>1, <2>2
<1>7. \A n \in 0 .. N : to[n] = f[n]
  <2>1. \A n \in 0 .. N : n \in P
    <3> HIDE DEF P
    <3> QED
      BY <1>1, <1>5, <1>6, EveryPosition
  <2> QED
    BY <2>1
<1>8. to = [n \in 0 .. N |-> to[n]]
  BY <1>3
<1> HIDE DEF N
<1>9. to = f
  BY <1>7, <1>8 DEF N
<1> QED
  BY <1>4, <1>9

\* Whether the sentinel is among arguments.
Ended(d) == \E j \in 1 .. Len(d) : d[j] = Sentinel

\* The launcher's own flags stand after it only: none that parsing would take out.
Clean(d) == \A i \in 1 .. Len(d) : Kind(d[i]) \in BridgeFlags => \E j \in 1 .. i - 1 : d[j] = Sentinel

\* A flag of the launcher's may be put behind the sentinel only.
LEMMA CleanAppend ==
  ASSUME NEW S, NEW d \in Seq(S), NEW e \in S, Clean(d), Kind(e) \in BridgeFlags => Ended(d)
  PROVE  Clean(Append(d, e)) /\ (Ended(Append(d, e)) <=> (Ended(d) \/ e = Sentinel))
<1> DEFINE a == Append(d, e)
<1>1. /\ Len(d) \in Nat /\ Len(a) = Len(d) + 1 /\ \A i \in 1 .. Len(d) : a[i] = d[i]
      /\ a[Len(d) + 1] = e
  BY AppendProperties
<1> HIDE DEF a
<1>2. ASSUME NEW i \in 1 .. Len(a), Kind(a[i]) \in BridgeFlags
      PROVE  \E j \in 1 .. i - 1 : a[j] = Sentinel
  <2>1. CASE i <= Len(d)
    <3>1. i \in 1 .. Len(d) /\ a[i] = d[i]
      BY <1>1, <2>1
    <3>2. PICK j \in 1 .. i - 1 : d[j] = Sentinel
      BY <1>2, <3>1 DEF Clean
    <3> QED
      BY <1>1, <3>1, <3>2
  <2>2. CASE i = Len(d) + 1
    <3>1. Ended(d)
      BY <1>1, <1>2, <2>2
    <3>2. PICK j \in 1 .. Len(d) : d[j] = Sentinel
      BY <3>1 DEF Ended
    <3> QED
      BY <1>1, <2>2, <3>2
  <2> QED
    BY <1>1, <2>1, <2>2
<1>3. Ended(a) <=> (Ended(d) \/ e = Sentinel)
  <2>1. ASSUME Ended(a) PROVE Ended(d) \/ e = Sentinel
    <3>1. PICK j \in 1 .. Len(a) : a[j] = Sentinel
      BY <2>1 DEF Ended
    <3>2. CASE j <= Len(d)
      <4>1. j \in 1 .. Len(d) /\ d[j] = Sentinel
        BY <1>1, <3>1, <3>2
      <4> QED
        BY <4>1 DEF Ended
    <3>3. CASE j = Len(d) + 1
      BY <1>1, <3>1, <3>3
    <3> QED
      BY <1>1, <3>2, <3>3
  <2>2. ASSUME Ended(d) PROVE Ended(a)
    <3>1. PICK j \in 1 .. Len(d) : d[j] = Sentinel
      BY <2>2 DEF Ended
    <3>2. j \in 1 .. Len(a) /\ a[j] = Sentinel
      BY <1>1, <3>1
    <3> QED
      BY <3>2 DEF Ended
  <2>3. ASSUME e = Sentinel PROVE Ended(a)
    <3>1. Len(d) + 1 \in 1 .. Len(a) /\ a[Len(d) + 1] = Sentinel
      BY <1>1, <2>3
    <3> QED
      BY <3>1 DEF Ended
  <2> QED
    BY <2>1, <2>2, <2>3
<1> QED
  BY <1>2, <1>3 DEF Clean, a

\* What the loop passes on is clean, and it knows whether the sentinel has been.
CleanState(s) == s.error \/ (Clean(s.dshArgs) /\ (s.passthrough <=> Ended(s.dshArgs)))

\* That is how the loop passes arguments on.
LEMMA CleanTurn ==
  ASSUME NEW env, NEW s \in ParseState(env), NEW arg \in Arguments, CleanState(s)
  PROVE  CleanState(ParseTurn(s, arg))
<1> DEFINE t == ParseTurn(s, arg)
<1>1. s.dshArgs \in Seq(Arguments)
  BY DEF ParseState
<1>2. CASE t.error \/ (t.error = s.error /\ t.dshArgs = s.dshArgs /\ t.passthrough = s.passthrough)
  BY <1>2 DEF CleanState
<1>3. CASE /\ ~s.error /\ t.dshArgs = Append(s.dshArgs, arg)
           /\ \/ s.passthrough /\ t.passthrough
              \/ ~s.passthrough /\ Kind(arg) \notin BridgeFlags /\ (t.passthrough <=> arg = Sentinel)
  <2>1. Clean(s.dshArgs) /\ (s.passthrough <=> Ended(s.dshArgs))
    BY <1>3 DEF CleanState
  <2>2. /\ Clean(Append(s.dshArgs, arg))
        /\ Ended(Append(s.dshArgs, arg)) <=> (Ended(s.dshArgs) \/ arg = Sentinel)
    BY <1>1, <1>3, <2>1, CleanAppend
  <2> QED
    BY <1>3, <2>1, <2>2 DEF CleanState
<1>4. ASSUME NEW flag, NEW value
      PROVE  LET w == WithValue(s, flag, value)
             IN  w.error \/ (w.error = s.error /\ w.dshArgs = s.dshArgs /\ w.passthrough = s.passthrough)
  BY DEF WithValue, ParseState
<1>5. CASE s.error
  BY <1>2, <1>5 DEF ParseTurn
<1>6. CASE ~s.error /\ s.owes # ""
  BY <1>2, <1>4, <1>6 DEF ParseTurn
<1>7. CASE ~s.error /\ s.owes = "" /\ s.passthrough
  <2>1. t = [s EXCEPT !.dshArgs = Append(@, arg)]
    BY <1>7 DEF ParseTurn
  <2> QED
    BY <1>3, <1>7, <2>1 DEF ParseState
<1>8. CASE ~s.error /\ s.owes = "" /\ ~s.passthrough
  <2>1. CASE Kind(arg) \in ModeFlags
    <3>1. t = [s EXCEPT !.error = (s.mode # "run"),
                        !.mode  = IF Kind(arg) = "--wsl-install" THEN "install" ELSE "doctor"]
      BY <1>8, <2>1 DEF ParseTurn
    <3>2. t.error = (s.mode # "run") /\ t.dshArgs = s.dshArgs /\ t.passthrough = s.passthrough
      BY <3>1 DEF ParseState
    <3> QED
      BY <1>2, <1>8, <3>2 DEF CleanState
  <2>2. CASE Kind(arg) \notin ModeFlags /\ Kind(arg) \in ValueFlags
    <3>1. t = [s EXCEPT !.owes = Kind(arg)]
      BY <1>8, <2>2 DEF ParseTurn
    <3> QED
      BY <1>2, <3>1 DEF ParseState
  <2>3. CASE Kind(arg) \notin ModeFlags \cup ValueFlags /\ Kind(arg) \in DOMAIN InlineOf
    BY <1>2, <1>4, <1>8, <2>3 DEF ParseTurn
  <2>4. CASE Kind(arg) \notin ModeFlags \cup ValueFlags \cup DOMAIN InlineOf
    <3>1. t = [s EXCEPT !.dshArgs = Append(@, arg), !.passthrough = (arg = Sentinel)]
      BY <1>8, <2>4 DEF ParseTurn
    <3>2. t.dshArgs = Append(s.dshArgs, arg) /\ t.passthrough = (arg = Sentinel)
      BY <3>1 DEF ParseState
    <3> QED
      BY <1>3, <1>8, <2>4, <3>2 DEF BridgeFlags
  <2> QED
    BY <2>1, <2>2, <2>3, <2>4
<1> QED
  BY <1>5, <1>6, <1>7, <1>8 DEF ParseState

\* Parsed arguments are clean.
LEMMA ParsedClean ==
  ASSUME NEW env, NEW args \in Seq(Arguments), ~parseWslBridgeArgs(args, env).error
  PROVE  Clean(parseWslBridgeArgs(args, env).dshArgs)
<1> DEFINE to == ParsedTo(args, env)
           P == {n \in 0 .. Len(args) : CleanState(to[n])}
<1>1. /\ to[0] = Unparsed(env)
      /\ \A n \in 1 .. Len(args) : to[n] = ParseTurn(to[n - 1], args[n])
      /\ \A n \in 0 .. Len(args) : to[n] \in ParseState(env)
  BY ParsedEquation
<1> HIDE DEF to
<1>2. Len(args) \in Nat /\ \A n \in 1 .. Len(args) : args[n] \in Arguments
  OBVIOUS
<1>3. 0 \in P
  <2>1. Unparsed(env).dshArgs = <<>> /\ Unparsed(env).passthrough = FALSE
    BY DEF Unparsed
  <2>2. Len(<<>>) = 0
    OBVIOUS
  <2>3. Clean(<<>>) /\ ~Ended(<<>>)
    BY <2>2 DEF Clean, Ended
  <2>4. CleanState(Unparsed(env))
    BY <2>1, <2>3 DEF CleanState
  <2> QED
    BY <1>1, <1>2, <2>4
<1>4. ASSUME NEW n \in 1 .. Len(args), n - 1 \in P PROVE n \in P
  <2>1. n - 1 \in 0 .. Len(args) /\ n \in 0 .. Len(args) /\ args[n] \in Arguments /\ CleanState(to[n - 1])
    BY <1>2, <1>4
  <2>2. to[n - 1] \in ParseState(env)
    BY <1>1, <2>1
  <2>3. CleanState(ParseTurn(to[n - 1], args[n]))
    BY <2>1, <2>2, CleanTurn
  <2> QED
    BY <1>1, <2>1, <2>3
<1>5. Len(args) \in P
  <2>1. \A n \in 0 .. Len(args) : n \in P
    <3> HIDE DEF P
    <3> QED
      BY <1>2, <1>3, <1>4, EveryPosition
  <2> QED
    BY <1>2, <2>1
<1> QED
  BY <1>5 DEF CleanState, parseWslBridgeArgs, to

\* A longer beginning is the shorter one and an argument more.
LEMMA Beginning ==
  ASSUME NEW S, NEW d \in Seq(S), NEW n \in 1 .. Len(d)
  PROVE  SubSeq(d, 1, n) = Append(SubSeq(d, 1, n - 1), d[n])
<1>1. SubSeq(d, 1, n) = SubSeq(d, 1, n - 1) \o << d[n] >>
  BY SubSeqRecursiveSecond
<1>2. SubSeq(d, 1, n - 1) \in Seq(S) /\ d[n] \in S
  BY SubSeqProperties
<1> QED
  BY <1>1, <1>2, AppendIsConcat

\* No flag is owed its value.
Nothing == ""

\* A state of the loop's in a run, free of errors.
Running(owes, ended, d, w, p) ==
  [error |-> FALSE, owes |-> owes, passthrough |-> ended, mode |-> "run", dshArgs |-> d, distro |-> w, profile |-> p]

\* What the loop has come to while it parses a run.
LEMMA RunningFields ==
  ASSUME NEW owes, NEW ended, NEW d, NEW w, NEW p, NEW s, s = Running(owes, ended, d, w, p)
  PROVE  /\ ~s.error /\ s.owes = owes /\ s.mode = "run" /\ s.dshArgs = d /\ s.distro = w /\ s.profile = p
BY DEF Running

\* A flag gets its value.
LEMMA OwedTurn ==
  ASSUME NEW ended, NEW d, NEW w, NEW p, NEW arg, arg # EmptyText
  PROVE  /\ ParseTurn(Running("--wsl-distro", ended, d, w, p), arg) = Running(Nothing, ended, d, arg, p)
         /\ ParseTurn(Running("--wsl-profile", ended, d, w, p), arg) = Running(Nothing, ended, d, w, arg)
<1>1. ASSUME NEW owes \in {"--wsl-distro", "--wsl-profile"}
      PROVE  ParseTurn(Running(owes, ended, d, w, p), arg) =
               IF owes = "--wsl-distro" THEN Running(Nothing, ended, d, arg, p) ELSE Running(Nothing, ended, d, w, arg)
  <2> DEFINE s == Running(owes, ended, d, w, p)
  <2>1. s.error = FALSE /\ s.owes = owes /\ owes # ""
    BY DEF Running
  <2>2. ParseTurn(s, arg) = WithValue(s, owes, arg)
    BY <2>1 DEF ParseTurn
  <2> QED
    BY <1>1, <2>2 DEF WithValue, Running, Nothing
<1> QED
  BY <1>1

\* A flag that takes a value.
LEMMA OwingTurn ==
  ASSUME NEW ended \in BOOLEAN, NEW d, NEW w, NEW p, NEW arg, ~ended, Kind(arg) \in ValueFlags
  PROVE  ParseTurn(Running(Nothing, ended, d, w, p), arg) = Running(Kind(arg), ended, d, w, p)
<1> DEFINE s == Running(Nothing, ended, d, w, p)
<1>1. s.error = FALSE /\ s.owes = "" /\ s.passthrough = ended
  BY DEF Running, Nothing
<1>2. ParseTurn(s, arg) = [s EXCEPT !.owes = Kind(arg)]
  BY <1>1 DEF ParseTurn, ModeFlags, ValueFlags
<1> QED
  BY <1>2 DEF Running

\* An argument of DSH's.
LEMMA PassingTurn ==
  ASSUME NEW ended \in BOOLEAN, NEW after \in BOOLEAN, NEW d, NEW w, NEW p, NEW arg,
         after <=> (ended \/ arg = Sentinel),
         ended \/ Kind(arg) \notin BridgeFlags
  PROVE  ParseTurn(Running(Nothing, ended, d, w, p), arg) = Running(Nothing, after, Append(d, arg), w, p)
<1> DEFINE s == Running(Nothing, ended, d, w, p)
<1>1. s.error = FALSE /\ s.owes = "" /\ s.passthrough = ended
  BY DEF Running, Nothing
<1>2. CASE ended
  <2>1. ParseTurn(s, arg) = [s EXCEPT !.dshArgs = Append(@, arg)]
    BY <1>1, <1>2 DEF ParseTurn
  <2>2. after = ended
    BY <1>2
  <2> QED
    BY <2>1, <2>2 DEF Running
<1>3. CASE ~ended
  <2>1. ParseTurn(s, arg) = [s EXCEPT !.dshArgs = Append(@, arg), !.passthrough = (arg = Sentinel)]
    BY <1>1, <1>3 DEF ParseTurn, BridgeFlags
  <2>2. after = (arg = Sentinel)
    BY <1>3
  <2>3. ParseTurn(s, arg) = [s EXCEPT !.dshArgs = Append(@, arg), !.passthrough = after]
    BY <2>1, <2>2
  <2> QED
    BY <2>3 DEF Running
<1> QED
  BY <1>2, <1>3

\* The loop after n arguments of d, all of them passed on.
Passed(w, p, d, n) == Running(Nothing, \E j \in 1 .. n : d[j] = Sentinel, SubSeq(d, 1, n), w, p)

\* A turn of the loop on an argument that is not the launcher's passes it on.
LEMMA PassedTurn ==
  ASSUME NEW S, NEW d \in Seq(S), Clean(d), NEW n \in 1 .. Len(d), NEW w, NEW p
  PROVE  ParseTurn(Passed(w, p, d, n - 1), d[n]) = Passed(w, p, d, n)
<1> DEFINE ended(m) == \E j \in 1 .. m : d[j] = Sentinel
           before == ended(n - 1)
           after == ended(n)
<1>1. Len(d) \in Nat /\ SubSeq(d, 1, n) = Append(SubSeq(d, 1, n - 1), d[n])
  BY Beginning
<1>2. after = (before \/ d[n] = Sentinel)
  <2>1. \A j : j \in 1 .. n <=> (j \in 1 .. n - 1 \/ j = n)
    BY <1>1
  <2> QED
    BY <2>1
<1>3. Kind(d[n]) \in BridgeFlags => before
  BY DEF Clean
<1>4. before \in BOOLEAN /\ after \in BOOLEAN
  OBVIOUS
<1>5. Passed(w, p, d, n - 1) = Running(Nothing, before, SubSeq(d, 1, n - 1), w, p)
  BY DEF Passed
<1>6. Passed(w, p, d, n) = Running(Nothing, after, SubSeq(d, 1, n), w, p)
  BY DEF Passed
<1> HIDE DEF before, after
<1>7. ParseTurn(Running(Nothing, before, SubSeq(d, 1, n - 1), w, p), d[n])
        = Running(Nothing, after, Append(SubSeq(d, 1, n - 1), d[n]), w, p)
  <2>1. after <=> (before \/ d[n] = Sentinel)
    BY <1>2
  <2> QED
    BY <1>3, <1>4, <2>1, PassingTurn
<1> QED
  BY <1>1, <1>5, <1>6, <1>7

\* What the launcher composes for the bridge, the bridge parses to what it was composed of.
LEMMA Reparsed ==
  ASSUME NEW S, NEW d \in Seq(S), Clean(d), NEW env, NEW o, o.mode = "run",
         o.distro # EmptyText, o.profile # EmptyText
  PROVE  parseWslBridgeArgs(canonicalBridgeArgs(o, d), env) =
           [error |-> FALSE, distro |-> IF o.distro = None THEN env.distro ELSE o.distro, profile |-> o.profile,
            mode |-> "run", dshArgs |-> d]
<1> DEFINE W == << <<"--wsl-distro">>, o.distro >>
           P == << <<"--wsl-profile">>, o.profile >>
           args == canonicalBridgeArgs(o, d)
           T == S \cup {<<"--wsl-distro">>, o.distro, <<"--wsl-profile">>, o.profile}
           w == IF o.distro = None THEN env.distro ELSE o.distro
           No == FALSE
           q == IF env.profile = None THEN DefaultProfile ELSE env.profile
           k == IF o.distro = None THEN 2 ELSE 4
           N == Len(args)
           f == [n \in 0 .. N |->
                   IF n >= k THEN Passed(w, o.profile, d, n - k)
                   ELSE IF n = 0 THEN Running(Nothing, No, <<>>, env.distro, q)
                   ELSE IF n = k - 1 THEN Running("--wsl-profile", No, <<>>, w, q)
                   ELSE IF n = 1 THEN Running("--wsl-distro", No, <<>>, env.distro, q)
                   ELSE Running(Nothing, No, <<>>, w, q)]
<1>1. W \in Seq(T) /\ P \in Seq(T) /\ d \in Seq(T) /\ <<>> \in Seq(T)
  OBVIOUS
<1>2. args = IF o.distro = None THEN P \o d ELSE (W \o P) \o d
  <2>1. args = (((IF o.distro = None THEN <<>> ELSE W) \o P) \o <<>>) \o d
    BY DEF canonicalBridgeArgs
  <2>2. <<>> \o P = P /\ P \o <<>> = P /\ (W \o P) \o <<>> = W \o P
    BY <1>1, ConcatEmptySeq, ConcatProperties
  <2> QED
    BY <2>1, <2>2
<1>3. Len(P) = 2 /\ Len(W) = 2 /\ Len(d) \in Nat /\ W \o P \in Seq(T) /\ Len(W \o P) = 4
  BY <1>1, ConcatProperties
<1>4. args \in Seq(T) /\ N = Len(d) + k /\ \A i \in 1 .. Len(d) : args[i + k] = d[i]
  <2> DEFINE F == IF o.distro = None THEN P ELSE W \o P
  <2>1. F \in Seq(T) /\ Len(F) = k /\ args = F \o d
    BY <1>1, <1>2, <1>3
  <2> HIDE DEF F, k, args
  <2>2. F \o d \in Seq(T) /\ Len(F \o d) = k + Len(d)
    BY <1>1, <2>1, ConcatProperties
  <2>3. k \in Nat
    BY <2>1
  <2>4. ASSUME NEW i \in 1 .. Len(d) PROVE (F \o d)[i + k] = d[i]
    <3>1. i + k \in 1 .. Len(F) + Len(d) /\ ~(i + k <= Len(F)) /\ (i + k) - Len(F) = i
      BY <1>3, <2>1, <2>3
    <3> QED
      BY <1>1, <2>1, <3>1, ConcatProperties
  <2> QED
    BY <1>3, <2>1, <2>2, <2>3, <2>4
<1>5. args[k - 1] = <<"--wsl-profile">> /\ args[k] = o.profile
  <2>1. P[1] = <<"--wsl-profile">> /\ P[2] = o.profile
    OBVIOUS
  <2>2. CASE o.distro = None
    <3>1. (P \o d)[1] = P[1] /\ (P \o d)[2] = P[2]
      BY <1>1, <1>3, ConcatProperties
    <3> QED
      BY <1>2, <2>1, <2>2, <3>1
  <2>3. CASE o.distro # None
    <3>1. (W \o P)[3] = P[1] /\ (W \o P)[4] = P[2]
      BY <1>1, <1>3, ConcatProperties
    <3>2. ((W \o P) \o d)[3] = (W \o P)[3] /\ ((W \o P) \o d)[4] = (W \o P)[4]
      BY <1>1, <1>3, ConcatProperties
    <3> QED
      BY <1>2, <2>1, <2>3, <3>1, <3>2
  <2> QED
    BY <2>2, <2>3
<1>6. o.distro # None => args[1] = <<"--wsl-distro">> /\ args[2] = o.distro
  <2>1. W[1] = <<"--wsl-distro">> /\ W[2] = o.distro
    OBVIOUS
  <2>2. (W \o P)[1] = W[1] /\ (W \o P)[2] = W[2]
    BY <1>1, <1>3, ConcatProperties
  <2>3. ((W \o P) \o d)[1] = (W \o P)[1] /\ ((W \o P) \o d)[2] = (W \o P)[2]
    BY <1>1, <1>3, ConcatProperties
  <2> QED
    BY <1>2, <2>1, <2>2, <2>3
<1>7. Kind(<<"--wsl-distro">>) = "--wsl-distro" /\ Kind(<<"--wsl-profile">>) = "--wsl-profile"
  BY DEF Kind, None
<1>8. k \in {2, 4} /\ (k = 2 => o.distro = None /\ w = env.distro) /\ (k = 4 => o.distro # None /\ w = o.distro)
  OBVIOUS
<1>9. N \in Nat /\ N >= k
  BY <1>3, <1>4, <1>8
<1> HIDE DEF args, T, W, P, N, k, w, No
<1>10. /\ f[0] = Running(Nothing, No, <<>>, env.distro, q)
       /\ f[k - 1] = Running("--wsl-profile", No, <<>>, w, q)
       /\ k = 4 => /\ f[1] = Running("--wsl-distro", No, <<>>, env.distro, q)
                   /\ f[2] = Running(Nothing, No, <<>>, w, q)
       /\ \A n \in k .. N : f[n] = Passed(w, o.profile, d, n - k)
  <2>1. 0 \in 0 .. N /\ k - 1 \in 0 .. N /\ k - 1 # 0 /\ ~(k - 1 >= k) /\ ~(0 >= k)
    BY <1>8, <1>9
  <2>2. k = 4 => 1 \in 0 .. N /\ 2 \in 0 .. N
    BY <1>8, <1>9
  <2>3. f[0] = Running(Nothing, No, <<>>, env.distro, q)
    BY <2>1
  <2>4. f[k - 1] = Running("--wsl-profile", No, <<>>, w, q)
    BY <2>1
  <2>5. k = 4 => f[1] = Running("--wsl-distro", No, <<>>, env.distro, q)
    BY <2>2
  <2>6. k = 4 => f[2] = Running(Nothing, No, <<>>, w, q)
    BY <2>2
  <2>7. ASSUME NEW n \in k .. N PROVE f[n] = Passed(w, o.profile, d, n - k)
    <3>1. n \in 0 .. N /\ n >= k
      BY <1>8, <1>9
    <3> QED
      BY <3>1
  <2> QED
    BY <2>3, <2>4, <2>5, <2>6, <2>7
<1>b. f = [n \in 0 .. N |-> f[n]]
  OBVIOUS
<1> HIDE DEF f
<1>11. Unparsed(env) = Running(Nothing, No, <<>>, env.distro, q)
  BY DEF Unparsed, Running, No, Nothing
<1>a. No \in BOOLEAN /\ ~No
  BY DEF No
<1> HIDE DEF q
<1>12. ASSUME NEW n \in 1 .. N
       PROVE  f[n] = ParseTurn(f[n - 1], args[n])
  <2>1. CASE n > k
    <3>1. PICK i \in 1 .. Len(d) : n = i + k
      <4>1. n - k \in 1 .. Len(d) /\ n = (n - k) + k
        BY <1>3, <1>4, <1>8, <1>9, <2>1
      <4> QED
        BY <4>1
    <3>2. args[n] = d[i] /\ n \in k .. N /\ n - 1 \in k .. N /\ n - k = i /\ (n - 1) - k = i - 1
      BY <1>3, <1>4, <1>8, <1>9, <2>1, <3>1
    <3>3. f[n - 1] = Passed(w, o.profile, d, i - 1) /\ f[n] = Passed(w, o.profile, d, i)
      BY <1>10, <3>2
    <3> QED
      BY <3>2, <3>3, PassedTurn
  <2>2. CASE n = k
    <3>1. f[n - 1] = Running("--wsl-profile", No, <<>>, w, q) /\ f[n] = Passed(w, o.profile, d, 0)
      BY <1>8, <1>9, <1>10, <2>2
    <3>2. SubSeq(d, 1, 0) = <<>> /\ (\E j \in 1 .. 0 : d[j] = Sentinel) = No
      BY SubSeqEmpty DEF No
    <3>3. f[n] = Running(Nothing, No, <<>>, w, o.profile)
      BY <3>1, <3>2 DEF Passed
    <3> QED
      BY <1>5, <2>2, <3>1, <3>3, OwedTurn
  <2>3. CASE n = k - 1
    <3>1. f[n - 1] = Running(Nothing, No, <<>>, w, q) /\ f[n] = Running("--wsl-profile", No, <<>>, w, q)
      BY <1>8, <1>10, <2>3
    <3>2. args[n] = <<"--wsl-profile">> /\ Kind(args[n]) = "--wsl-profile" /\ "--wsl-profile" \in ValueFlags
      BY <1>5, <1>7, <2>3 DEF ValueFlags
    <3> QED
      BY <1>a, <3>1, <3>2, OwingTurn
  <2>4. CASE n < k - 1
    <3>1. k = 4 /\ n \in {1, 2} /\ o.distro # None /\ w = o.distro
      BY <1>8, <2>4
    <3>2. CASE n = 1
      <4>1. f[n - 1] = Running(Nothing, No, <<>>, env.distro, q) /\ f[n] = Running("--wsl-distro", No, <<>>, env.distro, q)
        BY <1>10, <3>1, <3>2
      <4>2. Kind(args[n]) = "--wsl-distro" /\ "--wsl-distro" \in ValueFlags
        BY <1>6, <1>7, <3>1, <3>2 DEF ValueFlags
      <4> QED
        BY <1>a, <4>1, <4>2, OwingTurn
    <3>3. CASE n = 2
      <4>1. f[n - 1] = Running("--wsl-distro", No, <<>>, env.distro, q) /\ f[n] = Running(Nothing, No, <<>>, w, q)
        BY <1>10, <3>1, <3>3
      <4>2. args[n] = w /\ w # EmptyText
        BY <1>6, <3>1, <3>3
      <4> QED
        BY <4>1, <4>2, OwedTurn
    <3> QED
      BY <3>1, <3>2, <3>3
  <2> QED
    BY <1>8, <1>9, <2>1, <2>2, <2>3, <2>4
<1>13. ParsedTo(args, env) = f
  <2>1. f[0] = Unparsed(env)
    BY <1>10, <1>11
  <2> QED
    BY <1>4, <1>b, <1>12, <2>1, ParsedSolved DEF N
<1>14. f[N] = Passed(w, o.profile, d, Len(d))
  BY <1>3, <1>4, <1>8, <1>9, <1>10
<1> DEFINE ended == \E j \in 1 .. Len(d) : d[j] = Sentinel
<1>15. f[N] = Running(Nothing, ended, d, w, o.profile)
  BY <1>14, SubSeqFull DEF Passed
<1> HIDE DEF ended
<1>16. /\ ~f[N].error /\ f[N].owes = Nothing /\ f[N].distro = w /\ f[N].profile = o.profile
       /\ f[N].mode = "run" /\ f[N].dshArgs = d
  BY <1>15, RunningFields
<1>17. parseWslBridgeArgs(args, env) = [error |-> FALSE, distro |-> w, profile |-> o.profile, mode |-> "run", dshArgs |-> d]
  BY <1>13, <1>16 DEF parseWslBridgeArgs, N, Nothing
<1> QED
  BY <1>17 DEF args, w

-----------------------------------------------------------------------------
(* What becomes of arguments on their way to DSH. *)

\* DSH's arguments as typed, or put there by the launcher,
Typed == Arguments \cup Profiles \cup {<<"--profile">>}

\* and as translated.
Spelled == Typed \cup {<<"slashed">>} \cup {<<"linux", w>> : w \in Worlds}

\* What an argument that was typed cannot be.
LEMMA TypedKinds ==
  ASSUME NEW x \in Typed
  PROVE  /\ Kind(x) # "linux" /\ x # None /\ Owner(x) \in Worlds \cup {None}
         /\ Kind(x) = "--patch=" => x[2] \in Arguments
         /\ x \in Profiles => Kind(x) = "word"
<1>1. ASSUME x \in Arguments
      PROVE  Kind(x) # "linux" /\ x # None /\ Owner(x) \in Worlds \cup {None} /\ (Kind(x) = "--patch=" => x[2] \in Arguments)
  BY <1>1, LaunchAssumption
<1>2. ASSUME x \in Profiles
      PROVE  Kind(x) = "word" /\ x # None /\ Owner(x) = None
  BY <1>2, LaunchAssumption DEF Kind, Owner
<1>3. ASSUME x = <<"--profile">>
      PROVE  Kind(x) = "--profile" /\ x # None /\ Owner(x) = None
  BY <1>3 DEF Kind, Owner, None
<1> QED
  BY <1>1, <1>2, <1>3 DEF Typed

\* The alias `web` is the only thing rewritten.
LEMMA Rewritten ==
  ASSUME NEW d \in Seq(Arguments), Clean(d), NEW p, orcanaWebProfileName(p) \in Profiles
  PROVE  LET r == rewriteOrcanaWebInvocation(d, p)
         IN  /\ r \in Seq(Typed) /\ Clean(r)
             /\ Kind(Arg(d, 1)) # "web" => r = d
             /\ Kind(Arg(d, 1)) = "web" =>
                  /\ Len(d) >= 1 /\ Len(r) = Len(d) + 1 /\ r[1] = <<"--profile">> /\ r[2] = orcanaWebProfileName(p)
                  /\ \A i \in 2 .. Len(d) : r[i + 1] = d[i]
<1>1. d \in Seq(Typed) /\ Len(d) \in Nat /\ DOMAIN d = 1 .. Len(d)
  BY DEF Typed
<1>2. CASE Kind(Arg(d, 1)) # "web"
  BY <1>1, <1>2 DEF rewriteOrcanaWebInvocation
<1>3. CASE Kind(Arg(d, 1)) = "web"
  <2> DEFINE h == << <<"--profile">>, orcanaWebProfileName(p) >>
             t == Tail(d)
             r == h \o t
  <2>1. rewriteOrcanaWebInvocation(d, p) = r
    BY <1>3 DEF rewriteOrcanaWebInvocation
  <2>2. 1 \in DOMAIN d /\ Kind(d[1]) = "web"
    BY <1>3 DEF Arg, Kind, None
  <2>3. d # <<>> /\ Len(d) >= 1
    BY <1>1, <2>2
  <2>4. t \in Seq(Typed) /\ Len(t) = Len(d) - 1 /\ \A i \in 1 .. Len(t) : t[i] = d[i + 1]
    BY <1>1, <2>3, HeadTailProperties
  <2>5. h \in Seq(Typed) /\ Len(h) = 2 /\ h[1] = <<"--profile">> /\ h[2] = orcanaWebProfileName(p)
    BY DEF Typed
  <2> HIDE DEF h, t
  <2>6. /\ r \in Seq(Typed) /\ Len(r) = Len(h) + Len(t)
        /\ \A i \in 1 .. Len(h) + Len(t) : r[i] = IF i <= Len(h) THEN h[i] ELSE t[i - Len(h)]
    BY <2>4, <2>5, ConcatProperties
  <2> HIDE DEF r
  <2>7. Len(r) = Len(d) + 1 /\ r[1] = <<"--profile">> /\ r[2] = orcanaWebProfileName(p)
    BY <1>1, <2>3, <2>4, <2>5, <2>6
  <2>8. \A i \in 2 .. Len(d) : r[i + 1] = d[i]
    <3>1. ASSUME NEW i \in 2 .. Len(d) PROVE r[i + 1] = d[i]
      <4>1. i + 1 \in 1 .. Len(h) + Len(t) /\ ~(i + 1 <= Len(h)) /\ (i + 1) - Len(h) = i - 1
            /\ i - 1 \in 1 .. Len(t) /\ (i - 1) + 1 = i
        BY <1>1, <2>4, <2>5
      <4>2. r[i + 1] = t[i - 1] /\ t[i - 1] = d[i]
        BY <2>4, <2>6, <4>1
      <4> QED
        BY <4>2
    <3> QED
      BY <3>1
  <2>9. Clean(r)
    <3> SUFFICES ASSUME NEW i \in 1 .. Len(r), Kind(r[i]) \in BridgeFlags
                 PROVE  \E j \in 1 .. i - 1 : r[j] = Sentinel
      BY DEF Clean
    <3>1. Kind(<<"--profile">>) \notin BridgeFlags /\ Kind(orcanaWebProfileName(p)) = "word"
      BY LaunchAssumption DEF Kind, None, BridgeFlags, ModeFlags, ValueFlags, InlineOf
    <3>2. "word" \notin BridgeFlags
      BY DEF BridgeFlags, ModeFlags, ValueFlags, InlineOf
    <3>3. i # 1 /\ i # 2
      BY <2>7, <3>1, <3>2
    <3>4. i - 1 \in 2 .. Len(d) /\ (i - 1) + 1 = i
      BY <1>1, <2>7, <3>3
    <3>5. Kind(d[i - 1]) \in BridgeFlags
      BY <2>8, <3>4
    <3>6. PICK j \in 1 .. (i - 1) - 1 : d[j] = Sentinel
      BY <3>4, <3>5 DEF Clean
    <3>7. j # 1
      BY <2>2, <3>6 DEF Sentinel, Kind, None
    <3>8. j \in 2 .. Len(d) /\ j + 1 \in 1 .. i - 1
      BY <1>1, <3>4, <3>6, <3>7
    <3> QED
      BY <2>8, <3>6, <3>8
  <2> QED
    BY <1>3, <2>1, <2>3, <2>6, <2>7, <2>8, <2>9
<1> QED
  BY <1>2, <1>3

\* How an argument may be spelled where DSH runs, in w if one is chosen.
Like(x, y, w) ==
  \/ x = y
  \/ Kind(y) \in {"backslashed", "drive", "unc"} /\ x = <<"slashed">>
  \/ /\ Kind(y) \in {"drive", "unc"} /\ \E v \in Worlds : x = <<"linux", v>>
     /\ w # None => x = <<"linux", w>>

\* t has an argument more than s had, what y was before.
Turned(s, y, t) ==
  /\ ~s.error /\ (s.distro # None => t.distro = s.distro)
  /\ \E x \in Spelled : t.args = Append(s.args, x) /\ Like(x, y, s.distro)

\* One package of pnpm's, translated.
LEMMA SpecTurn ==
  ASSUME NEW s, s.error \in BOOLEAN, s.distro \in Worlds \cup {None}, s.args \in Seq(Spelled),
         s = [error |-> s.error, distro |-> s.distro, args |-> s.args], NEW y \in Typed,
         NEW t, t = TranslateSpec(s, y)
  PROVE  /\ t.error \in BOOLEAN /\ t.distro \in Worlds \cup {None} /\ t.args \in Seq(Spelled)
         /\ t = [error |-> t.error, distro |-> t.distro, args |-> t.args]
         /\ ~t.error => Turned(s, y, t)
<1> DEFINE m == windowsPathToWsl(y, s.distro)
<1>1. CASE s.error
  <2>1. t = s
    BY <1>1 DEF TranslateSpec
  <2> QED
    BY <1>1, <2>1
<1>2. ASSUME NEW x \in Spelled, ~s.error, Like(x, y, s.distro), t = [s EXCEPT !.args = Append(@, x)]
      PROVE  /\ t.error \in BOOLEAN /\ t.distro \in Worlds \cup {None} /\ t.args \in Seq(Spelled)
             /\ t = [error |-> t.error, distro |-> t.distro, args |-> t.args]
             /\ ~t.error => Turned(s, y, t)
  <2>1. Append(s.args, x) \in Seq(Spelled)
    BY AppendProperties
  <2>2. t = [error |-> s.error, distro |-> s.distro, args |-> Append(s.args, x)]
    BY <1>2
  <2>3. t.error = s.error /\ t.distro = s.distro /\ t.args = Append(s.args, x)
    BY <2>2
  <2> QED
    BY <1>2, <2>1, <2>2, <2>3 DEF Turned
<1>3. CASE ~s.error /\ Kind(y) = "backslashed"
  <2>1. t = [s EXCEPT !.args = Append(@, <<"slashed">>)]
    BY <1>3 DEF TranslateSpec
  <2>2. <<"slashed">> \in Spelled /\ Like(<<"slashed">>, y, s.distro)
    BY <1>3 DEF Spelled, Like
  <2> QED
    BY <1>2, <1>3, <2>1, <2>2
<1>4. CASE ~s.error /\ Kind(y) \in {"drive", "unc"}
  <2>1. t = [error |-> m.error, distro |-> m.distro, args |-> Append(s.args, m.path)]
    BY <1>4 DEF TranslateSpec
  <2>2. Owner(y) \in Worlds \cup {None} /\ DefaultDistro \in Worlds
    BY TypedKinds, LaunchAssumption
  <2>3. /\ m.error \in BOOLEAN /\ m.distro \in Worlds \cup {None} /\ \E v \in Worlds : m.path = <<"linux", v>>
        /\ ~m.error /\ s.distro # None => m.distro = s.distro /\ m.path = <<"linux", s.distro>>
    BY <2>2 DEF windowsPathToWsl, World
  <2> HIDE DEF m
  <2>4. m.path \in Spelled
    BY <2>3 DEF Spelled
  <2>5. Append(s.args, m.path) \in Seq(Spelled)
    BY <2>4, AppendProperties
  <2>6. t.error = m.error /\ t.distro = m.distro /\ t.args = Append(s.args, m.path)
        /\ t = [error |-> t.error, distro |-> t.distro, args |-> t.args]
    BY <2>1
  <2>7. ~m.error => Like(m.path, y, s.distro)
    BY <1>4, <2>3 DEF Like
  <2> QED
    BY <1>4, <2>3, <2>4, <2>5, <2>6, <2>7 DEF Turned
<1>5. CASE ~s.error /\ Kind(y) \notin {"backslashed", "drive", "unc"}
  <2>1. t = [s EXCEPT !.args = Append(@, y)]
    BY <1>5 DEF TranslateSpec
  <2>2. y \in Spelled /\ Like(y, y, s.distro)
    BY DEF Spelled, Like
  <2> QED
    BY <1>2, <1>5, <2>1, <2>2
<1> QED
  BY <1>1, <1>3, <1>4, <1>5

\* Only the spelling of arguments changes, and no chosen distro.
LEMMA SpecsTranslated ==
  ASSUME NEW d \in Seq(Typed), NEW w \in Worlds \cup {None}
  PROVE  LET t == translateDshPluginPathSpecsForWsl(d, w)
         IN  /\ Kind(Arg(d, 1)) # "plugin" => t = [error |-> FALSE, distro |-> w, args |-> d]
             /\ ~t.error =>
                  /\ t.distro \in Worlds \cup {None} /\ (w # None => t.distro = w)
                  /\ t.args \in Seq(Spelled) /\ Len(t.args) = Len(d)
                  /\ \A i \in 1 .. Len(d) : Like(t.args[i], d[i], w)
<1> DEFINE start == pluginPnpmArgsStart(d)
           head == IF start = 0 THEN d ELSE SubSeq(d, 1, start - 1)
           specs == IF start = 0 THEN <<>> ELSE SubSeq(d, start, Len(d))
           N == Len(specs)
           H == Len(head)
           V == {s \in [error : BOOLEAN, distro : Worlds \cup {None}, args : Seq(Spelled)] : TRUE}
           b == [error |-> FALSE, distro |-> w, args |-> head]
           G == [n \in 1 .. N |-> [s \in V |-> TranslateSpec(s, specs[n])]]
           Def(f) == [n \in 0 .. N |-> IF n = 0 THEN b ELSE TranslateSpec(f[n - 1], specs[n])]
           to == CHOOSE f : f = Def(f)
           t == translateDshPluginPathSpecsForWsl(d, w)
<1>1. Len(d) \in Nat /\ DOMAIN d = 1 .. Len(d) /\ \A i \in 1 .. Len(d) : d[i] \in Typed
  OBVIOUS
<1>2. /\ start \in {0, 3, 4} /\ (start # 0 => start - 1 <= Len(d))
      /\ Kind(Arg(d, 1)) # "plugin" => start = 0
  BY <1>1 DEF pluginPnpmArgsStart, Arg, Kind, None
<1>3. /\ head \in Seq(Typed) /\ specs \in Seq(Typed) /\ H \in Nat /\ N \in Nat /\ H + N = Len(d)
      /\ \A i \in 1 .. H : head[i] = d[i]
      /\ \A i \in 1 .. N : specs[i] = d[H + i]
  <2>1. CASE start = 0
    <3>1. head = d /\ specs = <<>>
      BY <2>1
    <3> HIDE DEF head, specs
    <3> QED
      BY <1>1, <3>1
  <2>2. CASE start # 0
    <3> DEFINE k == start - 1
    <3>1. k \in {2, 3} /\ k <= Len(d) /\ start = k + 1
      BY <1>2, <2>2
    <3>2. head = SubSeq(d, 1, k) /\ specs = SubSeq(d, k + 1, Len(d))
      BY <2>2, <3>1
    <3> HIDE DEF head, specs, k, start
    <3>3. /\ head \in Seq(Typed) /\ Len(head) = k /\ \A i \in 1 .. k : head[i] = d[i]
      <4>1. \A i \in 1 .. k : d[i] \in Typed
        BY <1>1, <3>1
      <4> QED
        BY <3>1, <3>2, <4>1, SubSeqProperties
    <3>4. /\ specs \in Seq(Typed) /\ Len(specs) = Len(d) - k /\ \A i \in 1 .. Len(d) - k : specs[i] = d[k + i]
      <4>1. \A i \in k + 1 .. Len(d) : d[i] \in Typed
        BY <1>1, <3>1
      <4> DEFINE q == k + 1
      <4>2. q \in Int /\ Len(d) \in Int /\ Len(d) - q + 1 = Len(d) - k
        BY <1>1, <3>1
      <4>3. /\ SubSeq(d, q, Len(d)) \in Seq(Typed)
            /\ Len(SubSeq(d, q, Len(d))) = IF q <= Len(d) THEN Len(d) - q + 1 ELSE 0
            /\ \A i \in 1 .. Len(d) - q + 1 : SubSeq(d, q, Len(d))[i] = d[q + i - 1]
        <5> HIDE DEF q
        <5>1. \A i \in q .. Len(d) : d[i] \in Typed
          BY <4>1 DEF q
        <5> QED
          BY <4>2, <5>1, SubSeqProperties
      <4>4. \A i \in 1 .. Len(d) - k : q + i - 1 = k + i
        BY <1>1, <3>1
      <4>5. specs = SubSeq(d, q, Len(d)) /\ q = k + 1
        BY <3>2
      <4> HIDE DEF q
      <4>6. specs \in Seq(Typed) /\ Len(specs) = Len(d) - k
        <5>1. CASE k = Len(d)
          <6>1. ~(q <= Len(d)) /\ Len(d) - k = 0
            BY <1>1, <4>5, <5>1
          <6> QED
            BY <4>3, <4>5, <6>1
        <5>2. CASE k # Len(d)
          <6>1. ASSUME NEW x \in Nat, NEW y \in Nat, y <= x, y # x PROVE y + 1 <= x
            BY <6>1
          <6>2. k \in Nat /\ Len(d) \in Nat /\ k <= Len(d)
            BY <1>1, <3>1
          <6>3. k + 1 <= Len(d)
            BY <5>2, <6>1, <6>2
          <6>4. q <= Len(d) /\ Len(d) - q + 1 = Len(d) - k
            BY <4>2, <4>5, <6>3
          <6> QED
            BY <4>3, <4>5, <6>4
        <5> QED
          BY <5>1, <5>2
      <4>7. ASSUME NEW i \in 1 .. Len(d) - k PROVE specs[i] = d[k + i]
        <5>1. i \in 1 .. Len(d) - q + 1 /\ q + i - 1 = k + i
          BY <4>2, <4>4
        <5> QED
          BY <4>3, <4>5, <5>1
      <4> QED
        BY <4>6, <4>7
    <3> QED
      BY <1>1, <3>1, <3>3, <3>4
  <2> QED
    BY <2>1, <2>2
<1>4. t = to[N]
  BY DEF translateDshPluginPathSpecsForWsl
<1> HIDE DEF start, head, specs, N, H
<1>5. b \in V
  <2>1. head \in Seq(Spelled)
    BY <1>3 DEF Spelled
  <2> QED
    BY <2>1
<1>6. \A n \in 1 .. N : specs[n] \in Typed
  BY <1>3 DEF N
<1>7. ASSUME NEW s \in V, NEW y \in Typed PROVE TranslateSpec(s, y) \in V
  <2>1. /\ s.error \in BOOLEAN /\ s.distro \in Worlds \cup {None} /\ s.args \in Seq(Spelled)
        /\ s = [error |-> s.error, distro |-> s.distro, args |-> s.args]
    OBVIOUS
  <2> DEFINE u == TranslateSpec(s, y)
  <2>2. /\ u.error \in BOOLEAN /\ u.distro \in Worlds \cup {None} /\ u.args \in Seq(Spelled)
        /\ u = [error |-> u.error, distro |-> u.distro, args |-> u.args]
    BY <2>1, SpecTurn
  <2> HIDE DEF u
  <2>3. u \in V
    BY <2>2
  <2> QED
    BY <2>3 DEF u
<1>8. G \in [1 .. N -> [V -> V]]
  BY <1>6, <1>7
<1>9. PICK f : Iterates(N, V, b, G, f)
  <2> HIDE DEF G, V, b
  <2> QED
    BY <1>3, <1>5, <1>8, PositionRecursion
<1>10. /\ f \in [0 .. N -> V] /\ f[0] = b
       /\ \A n \in 1 .. N : f[n] = TranslateSpec(f[n - 1], specs[n])
  <2> HIDE DEF V, b
  <2>1. /\ f \in [0 .. N -> V] /\ f[0] = b
        /\ \A n \in 1 .. N : f[n] = G[n][f[n - 1]]
    BY <1>9 DEF Iterates
  <2>2. ASSUME NEW n \in 1 .. N PROVE f[n] = TranslateSpec(f[n - 1], specs[n])
    <3>1. n - 1 \in 0 .. N
      BY <1>3
    <3> QED
      BY <2>1, <3>1
  <2> QED
    BY <2>1, <2>2
<1> HIDE DEF V, b
<1>11. f = Def(f)
  <2>1. ASSUME NEW n \in 0 .. N, n # 0 PROVE f[n] = TranslateSpec(f[n - 1], specs[n])
    <3>1. n \in 1 .. N
      BY <1>3, <2>1
    <3> QED
      BY <1>10, <3>1
  <2>2. \A n \in 0 .. N : f[n] = IF n = 0 THEN b ELSE TranslateSpec(f[n - 1], specs[n])
    BY <1>10, <2>1
  <2> QED
    BY <1>10, <2>2
<1>12. to = Def(to)
  <2> HIDE DEF Def
  <2> QED
    BY <1>11
<1> HIDE DEF to
<1>13. to[0] = b
  BY <1>3, <1>12
<1>14. ASSUME NEW n \in 1 .. N PROVE to[n] = TranslateSpec(to[n - 1], specs[n])
  <2>1. n \in 0 .. N /\ n # 0
    BY <1>3
  <2> QED
    BY <1>12, <2>1
<1> DEFINE Good(n) == /\ Len(to[n].args) = H + n /\ (w # None => to[n].distro = w)
                      /\ \A i \in 1 .. H + n : Like(to[n].args[i], d[i], w)
           P == {n \in 0 .. N : to[n] \in V /\ (~to[n].error => Good(n))}
<1>15. 0 \in P
  <2>1. b.args = head /\ b.distro = w
    BY DEF b
  <2>2. Good(0)
    BY <1>3, <1>13, <2>1 DEF Like, H
  <2> QED
    BY <1>3, <1>5, <1>13, <2>2
<1>16. ASSUME NEW n \in 1 .. N, n - 1 \in P
       PROVE  n \in P
  <2> DEFINE s == to[n - 1]
             y == specs[n]
             u == TranslateSpec(s, y)
  <2>1. s \in V /\ y \in Typed /\ u = to[n] /\ n \in 0 .. N
    BY <1>3, <1>6, <1>14, <1>16
  <2>2. /\ s.error \in BOOLEAN /\ s.distro \in Worlds \cup {None} /\ s.args \in Seq(Spelled)
        /\ s = [error |-> s.error, distro |-> s.distro, args |-> s.args]
    BY <2>1 DEF V
  <2>a. ~u.error => Turned(s, y, u)
    <3> HIDE DEF s, y, u
    <3>1. u = TranslateSpec(s, y) /\ y \in Typed
      BY <2>1 DEF u
    <3> QED
      BY <2>2, <3>1, SpecTurn
  <2>3. ~u.error => /\ ~s.error /\ (s.distro # None => u.distro = s.distro)
                    /\ \E x \in Spelled : u.args = Append(s.args, x) /\ Like(x, y, s.distro)
    <3> HIDE DEF s, y, u
    <3> QED
      BY <2>a DEF Turned
  <2>4. u \in V
    BY <1>7, <2>1
  <2>5. ASSUME ~u.error PROVE Good(n)
    <3>1. PICK x \in Spelled : u.args = Append(s.args, x) /\ Like(x, y, s.distro)
      BY <2>3, <2>5
    <3>2. ~s.error /\ Good(n - 1)
      BY <1>16, <2>3, <2>5
    <3>3. Len(s.args) = H + (n - 1) /\ (w # None => s.distro = w)
          /\ \A i \in 1 .. H + (n - 1) : Like(s.args[i], d[i], w)
      BY <3>2
    <3>4. y = d[H + n] /\ H + n = Len(s.args) + 1
      BY <1>3, <3>3
    <3> HIDE DEF s, y, u
    <3>5. /\ Len(u.args) = Len(s.args) + 1 /\ \A i \in 1 .. Len(s.args) : u.args[i] = s.args[i]
          /\ u.args[Len(s.args) + 1] = x
      BY <2>2, <3>1, AppendProperties
    <3>6. Like(x, y, w)
      <4>1. CASE w # None
        BY <3>1, <3>3, <4>1
      <4>2. CASE w = None
        BY <3>1, <4>2 DEF Like
      <4> QED
        BY <4>1, <4>2
    <3>7. ASSUME NEW i \in 1 .. H + n PROVE Like(u.args[i], d[i], w)
      <4>1. CASE i = H + n
        BY <3>4, <3>5, <3>6, <4>1
      <4>2. CASE i # H + n
        <5>1. i \in 1 .. H + (n - 1) /\ i \in 1 .. Len(s.args)
          BY <1>3, <3>3, <4>2
        <5> QED
          BY <3>3, <3>5, <5>1
      <4> QED
        BY <4>1, <4>2
    <3>8. Len(u.args) = H + n /\ (w # None => u.distro = w)
      BY <2>3, <2>5, <3>3, <3>4, <3>5
    <3> QED
      BY <2>1, <3>7, <3>8
  <2> HIDE DEF Good, u, s
  <2> QED
    BY <2>1, <2>4, <2>5
<1>17. N \in P
  <2>1. \A n \in 0 .. N : n \in P
    <3> HIDE DEF P
    <3> QED
      BY <1>3, <1>15, <1>16, EveryPosition
  <2> QED
    BY <1>3, <2>1
<1>18. Kind(Arg(d, 1)) # "plugin" => t = [error |-> FALSE, distro |-> w, args |-> d]
  <2> SUFFICES ASSUME Kind(Arg(d, 1)) # "plugin"
               PROVE  t = [error |-> FALSE, distro |-> w, args |-> d]
    OBVIOUS
  <2>1. start = 0
    BY <1>2
  <2>2. head = d /\ N = 0
    BY <2>1 DEF head, N, specs
  <2> QED
    BY <1>4, <1>13, <2>2 DEF b
<1>19. ASSUME ~t.error
       PROVE  /\ t.distro \in Worlds \cup {None} /\ (w # None => t.distro = w)
              /\ t.args \in Seq(Spelled) /\ Len(t.args) = Len(d)
              /\ \A i \in 1 .. Len(d) : Like(t.args[i], d[i], w)
  <2>1. t \in V /\ Good(N)
    BY <1>4, <1>17, <1>19
  <2> HIDE DEF t
  <2>2. t.distro \in Worlds \cup {None} /\ t.args \in Seq(Spelled)
    BY <2>1 DEF V
  <2> QED
    BY <1>3, <1>4, <2>1, <2>2
<1> QED
  BY <1>18, <1>19

-----------------------------------------------------------------------------
(* Manifests, and what a transaction makes of one. *)

\* What an exact selector may be.
Versions == {"pinned", "other"}

\* Two pairs one behind the other.
LEMMA Four ==
  ASSUME NEW a, NEW b, NEW c, NEW d
  PROVE  << a, b >> \o << c, d >> = << a, b, c, d >>
<1> DEFINE S == {a, b, c, d}
<1>1. << a, b >> \in Seq(S) /\ << c, d >> \in Seq(S)
  OBVIOUS
<1> DEFINE s == << a, b >> \o << c, d >>
<1>2. s \in Seq(S) /\ Len(s) = 4
  BY <1>1, ConcatProperties
<1>3. s[1] = a /\ s[2] = b /\ s[3] = c /\ s[4] = d
  BY <1>1, ConcatProperties
<1> HIDE DEF s
<1>4. \A i \in 1 .. 4 : s[i] = << a, b, c, d >>[i]
  BY <1>3
<1>5. << a, b, c, d >> \in Seq(S) /\ Len(<< a, b, c, d >>) = 4
  OBVIOUS
<1>6. s = << a, b, c, d >>
  BY <1>2, <1>4, <1>5, SeqEqual
<1> QED
  BY <1>6 DEF s

\* The layers of a profile are four, all different; DSH gives the first, and packages the others.
LEMMA Required ==
  ASSUME NEW k \in Kinds
  PROVE  /\ DOMAIN ExpectedBundles[k] = 1 .. 4 /\ Len(ExpectedBundles[k]) = 4
         /\ ExpectedBundles[k][1] = "dsh-base" /\ ExpectedBundles[k][2] = CompanionOf[k]
         /\ ExpectedBundles[k][3] = "dsh-bundle" /\ ExpectedBundles[k][4] = "dsh-orcana-linux-bundle"
         /\ \A i, j \in 1 .. 4 : ExpectedBundles[k][i] = ExpectedBundles[k][j] => i = j
         /\ CompanionOf[k] \in {"dsh-headless", "dsh-web-app"}
         /\ ToSet(ExpectedBundles[k]) = {ExpectedBundles[k][i] : i \in 1 .. 4}
<1> DEFINE r == ExpectedBundles[k]
<1>1. r = << "dsh-base", CompanionOf[k], "dsh-bundle", "dsh-orcana-linux-bundle" >>
  BY Four DEF ExpectedBundles, Bundles
<1>2. CompanionOf[k] \in {"dsh-headless", "dsh-web-app"}
  BY DEF CompanionOf
<1> HIDE DEF r
<1>3. /\ DOMAIN r = 1 .. 4 /\ Len(r) = 4
      /\ r[1] = "dsh-base" /\ r[2] = CompanionOf[k] /\ r[3] = "dsh-bundle" /\ r[4] = "dsh-orcana-linux-bundle"
  BY <1>1
<1>4. \A i, j \in 1 .. 4 : r[i] = r[j] => i = j
  <2>1. \A i \in 1 .. 4 : i = 1 \/ i = 2 \/ i = 3 \/ i = 4
    OBVIOUS
  <2> QED
    BY <1>2, <1>3, <2>1
<1>5. ToSet(r) = {r[i] : i \in 1 .. 4}
  BY <1>3 DEF ToSet
<1> QED
  BY <1>2, <1>3, <1>4, <1>5 DEF r

\* The layers the two profiles are made of.
LEMMA LayerSet ==
  Layers = {"dsh-bundle", "dsh-orcana-linux-bundle", "dsh-headless", "dsh-web-app"}
BY DEF Layers, Bundles, ToSet

\* The specs of each transaction.
LEMMA Transacted ==
  ASSUME NEW k \in Kinds, NEW v
  PROVE  /\ Len(Transactions(k, v)) = 4 /\ DOMAIN Transactions(k, v) = 1 .. 4
         /\ Transactions(k, v)[1] = {Spec1(CompanionOf[k], v)}
         /\ Transactions(k, v)[2] = {Spec1(p, "pinned") : p \in RuntimePackages}
         /\ Transactions(k, v)[3] = {Spec1("dsh-bundle", "pinned")}
         /\ Transactions(k, v)[4] = {Spec1("dsh-orcana-linux-bundle", "pinned")}
<1> DEFINE a == << {Spec1(CompanionOf[k], v)}, {Spec1(p, "pinned") : p \in RuntimePackages} >>
           b == [i \in DOMAIN Bundles |-> {Spec1(Bundles[i], "pinned")}]
<1>1. Transactions(k, v) = a \o b
  BY DEF Transactions
<1>2. b = << {Spec1("dsh-bundle", "pinned")}, {Spec1("dsh-orcana-linux-bundle", "pinned")} >>
  <2>1. DOMAIN Bundles = 1 .. 2
    BY DEF Bundles
  <2> QED
    BY <2>1 DEF Bundles
<1>3. Len(a) = 2 /\ Len(b) = 2
  BY <1>2
<1>4. a \o b = << {Spec1(CompanionOf[k], v)}, {Spec1(p, "pinned") : p \in RuntimePackages},
                {Spec1("dsh-bundle", "pinned")}, {Spec1("dsh-orcana-linux-bundle", "pinned")} >>
  BY <1>2, Four
<1> HIDE DEF a, b
<1>5. Transactions(k, v) = << {Spec1(CompanionOf[k], v)}, {Spec1(p, "pinned") : p \in RuntimePackages},
                {Spec1("dsh-bundle", "pinned")}, {Spec1("dsh-orcana-linux-bundle", "pinned")} >>
  BY <1>1, <1>4
<1> QED
  BY <1>5

\* The packages a transaction writes down, and the version of each.
Names(k, n) == CASE n = 1 -> {CompanionOf[k]}
                 [] n = 2 -> RuntimePackages
                 [] n = 3 -> {"dsh-bundle"}
                 [] OTHER -> {"dsh-orcana-linux-bundle"}
VersionAt(v, n) == IF n = 1 THEN v ELSE "pinned"

\* What pnpm writes down in a transaction.
LEMMA SavedManifest ==
  ASSUME NEW m \in Manifests, NEW k \in Kinds, NEW v \in Versions, NEW n \in 1 .. 4
  PROVE  /\ Saved(m, Transactions(k, v)[n]) \in Manifests
         /\ Saved(m, Transactions(k, v)[n]).installed
         /\ Saved(m, Transactions(k, v)[n]).layers = IF m.installed THEN m.layers ELSE << "dsh-base" >>
         /\ \A p \in Packages : Saved(m, Transactions(k, v)[n]).deps[p] =
              IF p \in Names(k, n) THEN VersionAt(v, n) ELSE m.deps[p]
<1> DEFINE specs == Transactions(k, v)[n]
<1>1. specs = {Spec1(p, VersionAt(v, n)) : p \in Names(k, n)}
  <2>1. n = 1 \/ n = 2 \/ n = 3 \/ n = 4
    OBVIOUS
  <2> QED
    BY <2>1, Transacted DEF Names, VersionAt
<1> HIDE DEF specs
<1>2. \A p : (\E s \in specs : s.name = p) <=> p \in Names(k, n)
  <2>1. ASSUME NEW p \in Names(k, n) PROVE \E s \in specs : s.name = p
    <3>1. Spec1(p, VersionAt(v, n)) \in specs /\ Spec1(p, VersionAt(v, n)).name = p
      BY <1>1 DEF Spec1
    <3> QED
      BY <3>1
  <2>2. ASSUME NEW s \in specs PROVE s.name \in Names(k, n)
    BY <1>1 DEF Spec1
  <2> QED
    BY <2>1, <2>2
<1>3. \A s \in specs : s.version = VersionAt(v, n)
  BY <1>1 DEF Spec1
<1>4. \A p \in Names(k, n) : (CHOOSE s \in specs : s.name = p).version = VersionAt(v, n)
  BY <1>2, <1>3
<1>5. \A p \in Packages : Saved(m, specs).deps[p] =
        IF p \in Names(k, n) THEN VersionAt(v, n) ELSE m.deps[p]
  BY <1>2, <1>4 DEF Saved
<1>6. Saved(m, specs) \in Manifests
  <2>1. VersionAt(v, n) \in {"absent", "pinned", "other"}
    BY DEF VersionAt, Versions
  <2>2. \A p \in Packages : Saved(m, specs).deps[p] \in {"absent", "pinned", "other"}
    BY <1>5, <2>1 DEF Manifests
  <2>3. << "dsh-base" >> \in Seq(Layers \cup {"dsh-base", "user-bundle"})
    OBVIOUS
  <2> QED
    BY <2>2, <2>3 DEF Saved, Manifests
<1> QED
  BY <1>5, <1>6 DEF Saved, specs

\* A sequence that goes on from another with newcomers only, each once.
Extended(old, new) ==
  /\ Len(old) <= Len(new)
  /\ \A j \in 1 .. Len(old) : new[j] = old[j]
  /\ \A i, j \in Len(old) + 1 .. Len(new) : new[i] = new[j] => i = j
  /\ \A j \in Len(old) + 1 .. Len(new) : new[j] \notin ToSet(old)

\* The orders of a finite set have each of its members once.
LEMMA Orders ==
  ASSUME NEW S, IsFiniteSet(S), NEW order \in SetToSeqs(S)
  PROVE  /\ order \in Seq(S)
         /\ ToSet(order) = S
         /\ \A i, j \in 1 .. Len(order) : order[i] = order[j] => i = j
<1> DEFINE D == 1 .. Cardinality(S)
<1>1. Cardinality(S) \in Nat
  BY FS_CardinalityType
<1>2. order \in [D -> S] /\ \A i, j \in D : i # j => order[i] # order[j]
  BY DEF SetToSeqs
<1>3. order \in Seq(S) /\ Len(order) = Cardinality(S)
  BY <1>1, <1>2
<1>4. Cardinality(D) = Cardinality(S)
  BY <1>1, FS_Interval
<1>5. order \in Injection(D, S)
  BY <1>2 DEF Injection, IsInjective
<1>6. order \in Surjection(D, S)
  BY <1>4, <1>5, FS_Injection
<1> QED
  BY <1>2, <1>3, <1>6 DEF Surjection, ToSet

\* What DSH makes of that: it adds what it discovers, at the end.
LEMMA ReconciledManifest ==
  ASSUME NEW m \in Manifests, NEW after \in Reconciled(m)
  PROVE  /\ after \in Manifests /\ after.installed = m.installed /\ after.deps = m.deps
         /\ Extended(m.layers, after.layers)
         /\ ToSet(after.layers) = ToSet(m.layers) \cup Discovered(m)
<1> DEFINE All == Layers \cup {"dsh-base", "user-bundle"}
           S == Discovered(m)
<1>1. PICK order \in SetToSeqs(S) : after = [m EXCEPT !.layers = @ \o order]
  BY DEF Reconciled
<1>2. S \subseteq Layers
  BY DEF Discovered
<1>3. IsFiniteSet(S)
  <2>1. IsFiniteSet({}) /\ IsFiniteSet({} \cup {"dsh-bundle"})
    BY FS_EmptySet, FS_AddElement
  <2>2. IsFiniteSet(({} \cup {"dsh-bundle"}) \cup {"dsh-orcana-linux-bundle"})
    BY <2>1, FS_AddElement
  <2>3. IsFiniteSet((({} \cup {"dsh-bundle"}) \cup {"dsh-orcana-linux-bundle"}) \cup {"dsh-headless"})
    BY <2>2, FS_AddElement
  <2>4. IsFiniteSet(((({} \cup {"dsh-bundle"}) \cup {"dsh-orcana-linux-bundle"}) \cup {"dsh-headless"}) \cup {"dsh-web-app"})
    BY <2>3, FS_AddElement
  <2>5. Layers = ((({} \cup {"dsh-bundle"}) \cup {"dsh-orcana-linux-bundle"}) \cup {"dsh-headless"}) \cup {"dsh-web-app"}
    BY LayerSet
  <2> QED
    BY <1>2, <2>4, <2>5, FS_Subset
<1>4. /\ order \in Seq(S) /\ ToSet(order) = S
      /\ \A i, j \in 1 .. Len(order) : order[i] = order[j] => i = j
  BY <1>3, Orders
<1>5. m.layers \in Seq(All) /\ order \in Seq(All)
  BY <1>2, <1>4 DEF Manifests
<1>6. after.layers = m.layers \o order /\ after.installed = m.installed /\ after.deps = m.deps
  BY <1>1 DEF Manifests
<1> DEFINE old == m.layers
           new == after.layers
<1>7. /\ new \in Seq(All) /\ Len(new) = Len(old) + Len(order)
      /\ \A i \in 1 .. Len(new) : new[i] = IF i <= Len(old) THEN old[i] ELSE order[i - Len(old)]
  BY <1>5, <1>6, ConcatProperties
<1>8. \A i \in Len(old) + 1 .. Len(new) : i - Len(old) \in 1 .. Len(order) /\ new[i] = order[i - Len(old)]
  BY <1>5, <1>7
<1>9. Extended(old, new)
  <2>1. \A i, j \in Len(old) + 1 .. Len(new) : new[i] = new[j] => i = j
    <3>1. ASSUME NEW i \in Len(old) + 1 .. Len(new), NEW j \in Len(old) + 1 .. Len(new), new[i] = new[j]
          PROVE  i - Len(old) = j - Len(old)
      BY <1>4, <1>8, <3>1
    <3>2. Len(old) \in Nat
      BY <1>5
    <3> HIDE DEF old, new
    <3> QED
      BY <3>1, <3>2
  <2>2. \A j \in Len(old) + 1 .. Len(new) : new[j] \notin ToSet(old)
    <3>1. \A i \in 1 .. Len(order) : order[i] \in S
      BY <1>4
    <3> QED
      BY <1>8, <3>1 DEF Discovered
  <2> QED
    BY <1>5, <1>7, <2>1, <2>2 DEF Extended
<1>10. ToSet(new) = ToSet(old) \cup S
  <2>1. Range(m.layers \o order) = Range(m.layers) \cup Range(order)
    BY <1>5, RangeConcatenation
  <2>2. ToSet(m.layers \o order) = Range(m.layers \o order) /\ ToSet(m.layers) = Range(m.layers) /\ ToSet(order) = Range(order)
    BY DEF ToSet, Range
  <2> QED
    BY ONLY <1>4, <1>6, <2>1, <2>2, Zenon
<1>11. after \in Manifests
  BY <1>1, <1>6, <1>7 DEF Manifests
<1> QED
  BY <1>6, <1>9, <1>10, <1>11

-----------------------------------------------------------------------------
(* The order of the layers. *)

\* Placed, layer by layer.
LEMMA PlacedMeans ==
  ASSUME NEW m, NEW k \in Kinds, NEW c \in 0 .. 4
  PROVE  Placed(m, k, c) <=>
           /\ \A i \in 1 .. 4 : ExpectedBundles[k][i] \in ToSet(m.layers) <=> i <= c
           /\ \A i, j \in 1 .. c : i <= j =>
                \A p \in PlacesOf(m, ExpectedBundles[k][i]), q \in PlacesOf(m, ExpectedBundles[k][j]) : p <= q
<1> DEFINE r == ExpectedBundles[k]
           C == {r[i] : i \in 1 .. c}
           L == ToSet(m.layers) \cap ToSet(r)
<1>1. /\ \A i, j \in 1 .. 4 : r[i] = r[j] => i = j
      /\ ToSet(r) = {r[i] : i \in 1 .. 4}
  BY Required
<1>2. \A i \in 1 .. 4 : /\ r[i] \in C <=> i <= c
                        /\ r[i] \in L <=> r[i] \in ToSet(m.layers)
  BY <1>1
<1>3. \A x \in C \cup L : \E i \in 1 .. 4 : x = r[i]
  BY <1>1
<1> HIDE DEF r
<1>4. L = C <=> \A i \in 1 .. 4 : r[i] \in ToSet(m.layers) <=> i <= c
  <2> HIDE DEF L, C
  <2>1. ASSUME \A i \in 1 .. 4 : r[i] \in ToSet(m.layers) <=> i <= c PROVE L = C
    <3>1. \A i \in 1 .. 4 : r[i] \in L <=> r[i] \in C
      BY <1>2, <2>1
    <3> QED
      BY <1>3, <3>1
  <2> QED
    BY <1>2, <2>1
<1> QED
  BY <1>4 DEF Placed, r

\* Ordered, layer by layer.
LEMMA OrderedMeans ==
  ASSUME NEW m, NEW k \in Kinds
  PROVE  Ordered(m, k) <=>
           \E c \in 0 .. 4 :
             /\ Placed(m, k, c)
             /\ \A p \in Discovered(m) : c < 4 /\ p = ExpectedBundles[k][c + 1]
<1> DEFINE r == ExpectedBundles[k]
           N(c) == {r[i] : i \in {c + 1} \cap DOMAIN r}
<1>1. DOMAIN r = 1 .. 4 /\ Len(r) = 4
  BY Required
<1>2. ASSUME NEW c \in 0 .. 4
      PROVE  Discovered(m) \subseteq N(c) <=> \A p \in Discovered(m) : c < 4 /\ p = r[c + 1]
  <2>1. ASSUME NEW p PROVE p \in N(c) <=> c < 4 /\ p = r[c + 1]
    <3> HIDE DEF r
    <3>1. CASE c < 4
      <4>1. c + 1 \in DOMAIN r
        BY <1>1, <3>1
      <4> QED
        BY <3>1, <4>1
    <3>2. CASE ~(c < 4)
      <4>1. {c + 1} \cap DOMAIN r = {}
        BY <1>1, <3>2
      <4> QED
        BY <3>2, <4>1
    <3> QED
      BY <3>1, <3>2
  <2> HIDE DEF N
  <2> QED
    BY <2>1
<1> QED
  BY <1>1, <1>2 DEF Ordered

\* A new layer goes behind the others, so the placed ones stay placed.
LEMMA PlacedExtended ==
  ASSUME NEW m \in Manifests, NEW after \in Manifests, NEW k \in Kinds, NEW c \in 0 .. 4, NEW d \in 0 .. 4,
         d = c \/ d = c + 1,
         Extended(m.layers, after.layers),
         \A i \in 1 .. 4 : ExpectedBundles[k][i] \in ToSet(after.layers) <=> i <= d,
         Placed(m, k, c)
  PROVE  Placed(after, k, d)
<1> DEFINE r == ExpectedBundles[k]
           old == m.layers
           new == after.layers
<1>1. (\A i, j \in 1 .. d : i <= j =>
         \A p \in PlacesOf(after, r[i]), q \in PlacesOf(after, r[j]) : p <= q) => Placed(after, k, d)
  BY PlacedMeans
<1>2. /\ \A i \in 1 .. 4 : r[i] \in ToSet(old) <=> i <= c
      /\ \A i, j \in 1 .. c : i <= j =>
           \A p \in PlacesOf(m, r[i]), q \in PlacesOf(m, r[j]) : p <= q
  BY PlacedMeans
<1>3. DOMAIN old = 1 .. Len(old) /\ DOMAIN new = 1 .. Len(new) /\ Len(old) \in Nat /\ Len(new) \in Nat
  BY DEF Manifests
<1> HIDE DEF r, old, new
<1>4. /\ Len(old) <= Len(new)
      /\ \A j \in 1 .. Len(old) : new[j] = old[j]
      /\ \A i, j \in Len(old) + 1 .. Len(new) : new[i] = new[j] => i = j
      /\ \A j \in Len(old) + 1 .. Len(new) : new[j] \notin ToSet(old)
  BY DEF Extended, old, new
<1>5. ASSUME NEW l, NEW p \in PlacesOf(after, l)
      PROVE  \/ p \in PlacesOf(m, l) /\ p <= Len(old)
             \/ p \in Len(old) + 1 .. Len(new) /\ l \notin ToSet(old)
  <2>1. p \in 1 .. Len(new) /\ new[p] = l
    BY <1>3, <1>5 DEF PlacesOf, new
  <2>2. CASE p \in 1 .. Len(old)
    BY <1>3, <1>4, <2>1, <2>2 DEF PlacesOf, old
  <2>3. CASE p \notin 1 .. Len(old)
    BY <1>3, <1>4, <2>1, <2>3
  <2> QED
    BY <2>2, <2>3
<1>6. ASSUME NEW i \in 1 .. d, NEW j \in 1 .. d, i <= j,
             NEW p \in PlacesOf(after, r[i]), NEW q \in PlacesOf(after, r[j])
      PROVE  p <= q
  <2>0. /\ \/ p \in PlacesOf(m, r[i]) /\ p <= Len(old)
           \/ p \in Len(old) + 1 .. Len(new) /\ r[i] \notin ToSet(old)
        /\ \/ q \in PlacesOf(m, r[j]) /\ q <= Len(old)
           \/ q \in Len(old) + 1 .. Len(new) /\ r[j] \notin ToSet(old)
    BY <1>5
  <2>1. CASE j <= c
    BY <1>2, <1>6, <2>0, <2>1
  <2>2. CASE j = c + 1
    <3>1. r[j] \notin ToSet(old)
      BY <1>2, <2>2
    <3>2. \A x : x \notin PlacesOf(m, r[j])
      BY <3>1 DEF PlacesOf, ToSet, old
    <3>3. q \in Len(old) + 1 .. Len(new) /\ new[q] = r[j]
      BY <1>6, <2>0, <3>2 DEF PlacesOf, new
    <3>4. CASE i <= c
      <4>1. p <= Len(old) /\ p \in PlacesOf(m, r[i])
        BY <1>2, <2>0, <3>4
      <4>2. p \in Nat
        BY <1>3, <4>1 DEF PlacesOf, old
      <4> QED
        BY <1>3, <3>3, <4>1, <4>2
    <3>5. CASE i = j
      <4>1. p \in Len(old) + 1 .. Len(new) /\ new[p] = r[j]
        BY <1>6, <2>0, <3>2, <3>5 DEF PlacesOf, new
      <4> QED
        BY <1>3, <1>4, <3>3, <4>1
    <3> QED
      BY <1>6, <2>2, <3>4, <3>5
  <2> QED
    BY <2>1, <2>2
<1> QED
  BY <1>1, <1>6

\* The layers an installation has laid when its script comes to step n.
Laid(k, n) == (IF n > 1 THEN {"dsh-base", CompanionOf[k]} ELSE {})
              \cup (IF n > 3 THEN {"dsh-bundle"} ELSE {})
              \cup (IF n > 4 THEN {"dsh-orcana-linux-bundle"} ELSE {})

\* What DSH guarantees of a manifest: a profile has its base layer, or is not there at all.
Grounded(m) == IF m.installed THEN "dsh-base" \in ToSet(m.layers) ELSE m = Missing

\* A profile a script has come to step n on.
At(m, k, n) == Grounded(m) /\ Laid(k, n) \subseteq ToSet(m.layers) /\ (n > 1 => m.installed)

\* A transaction, whether or not DSH goes on to add the layers, keeps the order.
LEMMA TransactionOrder ==
  ASSUME NEW m \in Manifests, NEW k \in Kinds, NEW v \in Versions, NEW n \in 1 .. 4, At(m, k, n), Ordered(m, k)
  PROVE  /\ Ordered(Saved(m, Transactions(k, v)[n]), k)
         /\ \A after \in Reconciled(Saved(m, Transactions(k, v)[n])) : Ordered(after, k)
<1> DEFINE s == Saved(m, Transactions(k, v)[n])
           r == ExpectedBundles[k]
<1>1. /\ r[1] = "dsh-base" /\ r[2] = CompanionOf[k] /\ r[3] = "dsh-bundle" /\ r[4] = "dsh-orcana-linux-bundle"
      /\ \A i, j \in 1 .. 4 : r[i] = r[j] => i = j
      /\ CompanionOf[k] \in {"dsh-headless", "dsh-web-app"}
  BY Required
<1>2. s \in Manifests
  BY SavedManifest
<1>3. s.layers = IF m.installed THEN m.layers ELSE << "dsh-base" >>
  BY DEF Saved
<1>4. \A p \in Packages : s.deps[p] = IF p \in Names(k, n) THEN VersionAt(v, n) ELSE m.deps[p]
  BY SavedManifest
<1>5. /\ \A x : Ordered(x, k) <=>
           \E c \in 0 .. 4 : Placed(x, k, c) /\ \A p \in Discovered(x) : c < 4 /\ p = r[c + 1]
      /\ \A x : \A c \in 0 .. 4 : Placed(x, k, c) =>
           \A i \in 1 .. 4 : r[i] \in ToSet(x.layers) <=> i <= c
  BY OrderedMeans, PlacedMeans
<1>6. (/\ \A i \in 1 .. 4 : r[i] \in ToSet(s.layers) <=> i <= 1
       /\ \A l : PlacesOf(s, l) \subseteq {1}) => Placed(s, k, 1)
  <2> SUFFICES ASSUME \A i \in 1 .. 4 : r[i] \in ToSet(s.layers) <=> i <= 1,
                      \A l : PlacesOf(s, l) \subseteq {1}
               PROVE  Placed(s, k, 1)
    OBVIOUS
  <2> HIDE DEF s
  <2>1. \A i, j \in 1 .. 1 : i <= j => \A p \in PlacesOf(s, r[i]), q \in PlacesOf(s, r[j]) : p <= q
    OBVIOUS
  <2> QED
    BY <2>1, PlacedMeans
<1>7. ASSUME NEW after \in Manifests, NEW c \in 0 .. 4, NEW d \in 0 .. 4, d = c \/ d = c + 1,
             Extended(s.layers, after.layers),
             \A i \in 1 .. 4 : r[i] \in ToSet(after.layers) <=> i <= d,
             Placed(s, k, c)
      PROVE  Placed(after, k, d)
  BY <1>2, <1>7, PlacedExtended
<1> HIDE DEF r, s
<1>8. PICK b \in 0 .. 4 : Placed(m, k, b) /\ \A p \in Discovered(m) : b < 4 /\ p = r[b + 1]
  BY <1>5
<1>9. PICK c \in 0 .. 4 : Placed(s, k, c) /\ (m.installed => c = b)
  <2>1. CASE m.installed
    <3>1. s.layers = m.layers
      BY <1>3, <2>1
    <3>2. Placed(s, k, b)
      BY <1>8, <3>1 DEF Placed, PlacesOf
    <3> QED
      BY <3>2
  <2>2. CASE ~m.installed
    <3>1. s.layers = << "dsh-base" >>
      BY <1>3, <2>2
    <3>2. \A i \in 1 .. 4 : r[i] \in ToSet(s.layers) <=> i <= 1
      BY <1>1, <3>1 DEF ToSet
    <3>3. \A l : PlacesOf(s, l) \subseteq {1}
      BY <3>1 DEF PlacesOf
    <3> QED
      BY <1>6, <2>2, <3>2, <3>3
  <2> QED
    BY <2>1, <2>2
<1>10. \A i \in 1 .. 4 : r[i] \in ToSet(s.layers) <=> i <= c
  BY <1>5, <1>9
<1>11. Laid(k, n) \subseteq ToSet(s.layers) /\ "dsh-base" \in ToSet(s.layers)
  <2>1. CASE m.installed
    BY <1>3, <2>1 DEF At, Grounded
  <2>2. CASE ~m.installed
    <3>1. s.layers = << "dsh-base" >> /\ n = 1
      BY <1>3, <2>2 DEF At
    <3> QED
      BY <3>1 DEF ToSet, Laid
  <2> QED
    BY <2>1, <2>2
<1>12. ASSUME NEW p \in Discovered(s)
       PROVE  c < 4 /\ p = r[c + 1]
  <2>1. p \in Layers /\ s.deps[p] # "absent" /\ p \notin ToSet(s.layers)
    BY DEF Discovered
  <2>2. CASE p \in Names(k, n)
    <3>1. \/ n = 1 /\ p = r[2]
          \/ n = 3 /\ p = r[3]
          \/ n = 4 /\ p = r[4]
      BY <1>1, <2>1, <2>2, LayerSet DEF Names, RuntimePackages
    <3>2. /\ c >= 1
          /\ n > 1 => c >= 2
          /\ n > 3 => c >= 3
      BY <1>1, <1>10, <1>11 DEF Laid
    <3>3. \/ c = 1 /\ p = r[2]
          \/ c = 2 /\ p = r[3]
          \/ c = 3 /\ p = r[4]
      BY <1>10, <2>1, <3>1, <3>2
    <3> QED
      BY <3>3
  <2>3. CASE p \notin Names(k, n)
    <3>1. p \in Packages /\ m.deps[p] # "absent"
      BY <1>4, <2>1, <2>3 DEF Packages
    <3>2. m.installed
      BY <3>1 DEF At, Grounded, Missing
    <3>3. p \in Discovered(m) /\ b = c
      BY <1>3, <1>9, <2>1, <3>1, <3>2 DEF Discovered
    <3> QED
      BY <1>8, <3>3
  <2> QED
    BY <2>2, <2>3
<1>13. Ordered(s, k)
  BY <1>5, <1>9, <1>12
<1>14. ASSUME NEW after \in Reconciled(s)
       PROVE  Ordered(after, k)
  <2>1. /\ after \in Manifests /\ after.deps = s.deps /\ Extended(s.layers, after.layers)
        /\ ToSet(after.layers) = ToSet(s.layers) \cup Discovered(s)
    BY <1>2, ReconciledManifest
  <2>2. Discovered(after) = {}
    BY <2>1 DEF Discovered
  <2>3. CASE Discovered(s) = {}
    <3>1. Placed(after, k, c)
      BY <1>7, <1>9, <1>10, <2>1, <2>3
    <3> QED
      BY <1>5, <2>2, <3>1
  <2>4. CASE Discovered(s) # {}
    <3>1. c + 1 \in 1 .. 4 /\ Discovered(s) = {r[c + 1]}
      BY <1>12, <2>4
    <3>2. \A i \in 1 .. 4 : r[i] \in ToSet(after.layers) <=> i <= c + 1
      BY <1>1, <1>10, <2>1, <3>1
    <3>3. Placed(after, k, c + 1)
      BY <1>7, <1>9, <2>1, <3>1, <3>2
    <3> QED
      BY <1>5, <2>2, <3>1, <3>3
  <2> QED
    BY <2>3, <2>4
<1> QED
  BY <1>13, <1>14 DEF s

\* A transaction takes nothing away.
LEMMA TransactionGrows ==
  ASSUME NEW m \in Manifests, Grounded(m), NEW k \in Kinds, NEW v \in Versions, NEW n \in 1 .. 4,
         NEW after \in {Saved(m, Transactions(k, v)[n])} \cup Reconciled(Saved(m, Transactions(k, v)[n]))
  PROVE  /\ after \in Manifests /\ after.installed /\ Grounded(after)
         /\ ToSet(m.layers) \subseteq ToSet(after.layers)
<1> DEFINE s == Saved(m, Transactions(k, v)[n])
<1>1. s \in Manifests /\ s.installed
  BY SavedManifest
<1>2. s.layers = IF m.installed THEN m.layers ELSE << "dsh-base" >>
  BY DEF Saved
<1> HIDE DEF s
<1>3. "dsh-base" \in ToSet(s.layers) /\ ToSet(m.layers) \subseteq ToSet(s.layers)
  <2>1. CASE m.installed
    BY <1>2, <2>1 DEF Grounded
  <2>2. CASE ~m.installed
    <3>1. s.layers = << "dsh-base" >> /\ m.layers = << >>
      BY <1>2, <2>2 DEF Grounded, Missing
    <3> QED
      BY <3>1 DEF ToSet
  <2> QED
    BY <2>1, <2>2
<1>4. CASE after = s
  BY <1>1, <1>3, <1>4 DEF Grounded
<1>5. CASE after \in Reconciled(s)
  <2>1. /\ after \in Manifests /\ after.installed
        /\ ToSet(after.layers) = ToSet(s.layers) \cup Discovered(s)
    BY <1>1, <1>5, ReconciledManifest
  <2> QED
    BY <1>3, <2>1 DEF Grounded
<1> QED
  BY <1>4, <1>5 DEF s

\* A transaction DSH has finished lays its layer.
LEMMA TransactionLays ==
  ASSUME NEW m \in Manifests, NEW k \in Kinds, NEW v \in Versions, NEW n \in 1 .. 4, At(m, k, n),
         NEW after \in Reconciled(Saved(m, Transactions(k, v)[n]))
  PROVE  At(after, k, n + 1)
<1> DEFINE s == Saved(m, Transactions(k, v)[n])
<1>1. s \in Manifests
  BY SavedManifest
<1>2. \A p \in Packages : s.deps[p] = IF p \in Names(k, n) THEN VersionAt(v, n) ELSE m.deps[p]
  BY SavedManifest
<1>3. /\ after.installed /\ Grounded(after)
      /\ ToSet(m.layers) \subseteq ToSet(after.layers)
  BY TransactionGrows DEF At
<1>4. ToSet(after.layers) = ToSet(s.layers) \cup Discovered(s)
  BY <1>1, ReconciledManifest
<1> HIDE DEF s
<1>5. VersionAt(v, n) # "absent"
  BY DEF VersionAt, Versions
<1>6. \A p \in Names(k, n) \cap Layers : p \in ToSet(after.layers)
  BY <1>2, <1>4, <1>5 DEF Discovered, Packages
<1>7. CompanionOf[k] \in {"dsh-headless", "dsh-web-app"}
  BY Required
<1>8. "dsh-base" \in ToSet(after.layers)
  BY <1>3 DEF Grounded
<1>9. Laid(k, n + 1) \subseteq Laid(k, n) \cup {"dsh-base"} \cup (Names(k, n) \cap Layers)
  <2>1. n = 1 \/ n = 2 \/ n = 3 \/ n = 4
    OBVIOUS
  <2> QED
    BY <1>7, <2>1, LayerSet DEF Laid, Names
<1> QED
  BY <1>3, <1>6, <1>8, <1>9 DEF At

-----------------------------------------------------------------------------
(* What a check that passes has found. *)

Unique(l) == \A i, j \in 1 .. Len(l) : l[i] = l[j] => i = j

\* Where a layer stands behind the cursor, the least such place is one of them.
LEMMA AdvancedMeans ==
  ASSUME NEW V, NEW l \in Seq(V), NEW x
  PROVE  /\ Advanced(l, x) \in [0 .. Len(l) -> 0 .. Len(l)]
         /\ \A c \in 0 .. Len(l) : Behind(l, c, x) # {} => Advanced(l, x)[c] \in Behind(l, c, x)
<1>1. ASSUME NEW c \in 0 .. Len(l), Behind(l, c, x) # {}
      PROVE  Min(Behind(l, c, x)) \in Behind(l, c, x)
  <2> DEFINE B == Behind(l, c, x)
  <2>1. B \in SUBSET Nat /\ B # {}
    BY <1>1 DEF Behind
  <2> HIDE DEF B
  <2>2. PICK n \in B : \A m \in B : n <= m
    BY <2>1, LeastNumber
  <2>3. Min(B) \in B
    BY <2>2 DEF Min
  <2> QED
    BY <2>3 DEF B
<1>2. \A c \in 0 .. Len(l) : Behind(l, c, x) \subseteq 0 .. Len(l)
  BY DEF Behind
<1> QED
  BY <1>1, <1>2 DEF Advanced

\* The cursor is what its definition says.
LEMMA CursorEquation ==
  ASSUME NEW V, NEW l \in Seq(V), NEW W, NEW r \in Seq(W)
  PROVE  /\ Cursor(l, r)[0] = 0
         /\ \A i \in 1 .. Len(r) : Cursor(l, r)[i] = Advanced(l, r[i])[Cursor(l, r)[i - 1]]
<1> DEFINE N == Len(r)
           D == 0 .. Len(l)
           Def(f) == [i \in 0 .. N |-> IF i = 0 THEN 0 ELSE Advanced(l, r[i])[f[i - 1]]]
           G == [i \in 1 .. N |-> Advanced(l, r[i])]
           cursor == CHOOSE f : f = Def(f)
<1>1. N \in Nat /\ 0 \in D
  OBVIOUS
<1>2. G \in [1 .. N -> [D -> D]]
  BY AdvancedMeans
<1>3. PICK f : Iterates(N, D, 0, G, f)
  <2> HIDE DEF G, N, D
  <2> QED
    BY <1>1, <1>2, PositionRecursion
<1>4. f = Def(f)
  <2>1. /\ f \in [0 .. N -> D] /\ f[0] = 0
        /\ \A n \in 1 .. N : f[n] = G[n][f[n - 1]]
    BY <1>3 DEF Iterates
  <2>2. ASSUME NEW n \in 0 .. N, n # 0 PROVE f[n] = Advanced(l, r[n])[f[n - 1]]
    <3>1. n \in 1 .. N
      BY <1>1, <2>2
    <3> QED
      BY <2>1, <3>1
  <2>3. \A n \in 0 .. N : f[n] = IF n = 0 THEN 0 ELSE Advanced(l, r[n])[f[n - 1]]
    BY <2>1, <2>2
  <2> QED
    BY <2>1, <2>3
<1>5. cursor = Def(cursor)
  <2> HIDE DEF Def
  <2> QED
    BY <1>4
<1>6. Cursor(l, r) = cursor
  BY DEF Cursor
<1> HIDE DEF cursor
<1>7. cursor[0] = 0
  BY <1>1, <1>5
<1>8. ASSUME NEW i \in 1 .. N PROVE cursor[i] = Advanced(l, r[i])[cursor[i - 1]]
  <2>1. i \in 0 .. N /\ i # 0
    BY <1>1
  <2> QED
    BY <1>5, <2>1
<1> QED
  BY <1>6, <1>7, <1>8

\* A manifest whose order is no problem has all four layers placed.
LEMMA CheckedIsPlaced ==
  ASSUME NEW m \in Manifests, Unique(m.layers), NEW k \in Kinds, ~OrderProblem(m.layers, ExpectedBundles[k])
  PROVE  Placed(m, k, 4)
<1> DEFINE l == m.layers
           r == ExpectedBundles[k]
           D == 0 .. Len(l)
           c == Cursor(l, r)
           All == Layers \cup {"dsh-base", "user-bundle"}
<1>1. l \in Seq(All)
  BY DEF Manifests
<1>2. DOMAIN r = 1 .. 4 /\ Len(r) = 4 /\ r \in Seq(ToSet(r))
  <2>1. r = << "dsh-base", CompanionOf[k], "dsh-bundle", "dsh-orcana-linux-bundle" >>
    BY Four DEF ExpectedBundles, Bundles
  <2>2. r \in Seq(ToSet(r))
    BY <2>1 DEF ToSet
  <2> QED
    BY <2>2, Required
<1>3. \A i \in 1 .. 4 : Behind(l, c[i - 1], r[i]) # {}
  BY <1>2 DEF OrderProblem
<1>4. c[0] = 0 /\ \A i \in 1 .. 4 : c[i] = Advanced(l, r[i])[c[i - 1]]
  BY <1>1, <1>2, CursorEquation, SMTT(40)
<1>5. \A p \in PlacesOf(m, r[1]) \cup PlacesOf(m, r[2]) \cup PlacesOf(m, r[3]) \cup PlacesOf(m, r[4]) : p \in 1 .. Len(l)
  BY <1>1 DEF PlacesOf
<1> HIDE DEF c, r, l
<1>6. ASSUME NEW i \in 1 .. 4, c[i - 1] \in D
      PROVE  c[i] \in D /\ c[i] > c[i - 1] /\ l[c[i]] = r[i] /\ c[i] \in DOMAIN l
  <2>1. c[i] \in Behind(l, c[i - 1], r[i])
    BY <1>1, <1>3, <1>4, <1>6, AdvancedMeans
  <2> QED
    BY <1>1, <2>1 DEF Behind
<1>7. c[0] \in D /\ Len(l) \in Nat
  BY <1>1, <1>4
<1>8. c[1] \in D /\ c[1] > 0 /\ l[c[1]] = r[1] /\ c[1] \in DOMAIN l
  BY <1>4, <1>6, <1>7
<1>9. c[2] \in D /\ c[2] > c[1] /\ l[c[2]] = r[2] /\ c[2] \in DOMAIN l
  BY <1>6, <1>8
<1>10. c[3] \in D /\ c[3] > c[2] /\ l[c[3]] = r[3] /\ c[3] \in DOMAIN l
  BY <1>6, <1>9
<1>11. c[4] \in D /\ c[4] > c[3] /\ l[c[4]] = r[4] /\ c[4] \in DOMAIN l
  BY <1>6, <1>10
<1>12. \A i \in 1 .. 4 : i = 1 \/ i = 2 \/ i = 3 \/ i = 4
  OBVIOUS
<1>13. ASSUME NEW i \in 1 .. 4, NEW p \in PlacesOf(m, r[i])
       PROVE  p = c[i]
  <2>1. l[c[i]] = r[i] /\ c[i] \in DOMAIN l
    BY <1>8, <1>9, <1>10, <1>11, <1>12
  <2>2. l[p] = r[i] /\ p \in DOMAIN l
    BY <1>13 DEF PlacesOf, l
  <2> QED
    BY <1>1, <2>1, <2>2 DEF Unique, l
<1>14. \A i, j \in 1 .. 4 : i <= j => c[i] <= c[j]
  BY <1>7, <1>8, <1>9, <1>10, <1>11, <1>12
<1>15. \A i \in 1 .. 4 : r[i] \in ToSet(l)
  BY <1>8, <1>9, <1>10, <1>11, <1>12 DEF ToSet
<1>16. \A i, j \in 1 .. 4 : i <= j =>
         \A p \in PlacesOf(m, r[i]), q \in PlacesOf(m, r[j]) : p <= q
  BY <1>13, <1>14
<1>17. \A i \in 1 .. 4 : r[i] \in ToSet(l) <=> i <= 4
  BY <1>15
<1> QED
  BY <1>16, <1>17, PlacedMeans DEF r, l

\* A manifest the installation of profile k, for the DSH v, has completed.
Whole(m, k, v) ==
  /\ m.installed /\ Placed(m, k, 4)
  /\ \A p \in DOMAIN ExpectedDeps(k, v) : m.deps[p] = ExpectedDeps(k, v)[p]

\* The dependencies a profile must have.
LEMMA Expected ==
  ASSUME NEW k \in Kinds, NEW v \in Versions
  PROVE  /\ DOMAIN ExpectedDeps(k, v) = {CompanionOf[k]} \cup RuntimePackages \cup {"dsh-bundle", "dsh-orcana-linux-bundle"}
         /\ DOMAIN ExpectedDeps(k, v) \subseteq Packages
         /\ \A p \in DOMAIN ExpectedDeps(k, v) :
              ExpectedDeps(k, v)[p] = IF p = CompanionOf[k] THEN v ELSE "pinned"
         /\ CompanionOf[k] \notin RuntimePackages \cup {"dsh-bundle", "dsh-orcana-linux-bundle"}
<1>1. ToSet(Bundles) = {"dsh-bundle", "dsh-orcana-linux-bundle"}
  BY DEF Bundles, ToSet
<1>2. CompanionOf[k] \in {"dsh-headless", "dsh-web-app"}
  BY Required
<1> QED
  BY <1>1, <1>2, LayerSet DEF ExpectedDeps, RuntimePackages, Packages

\* So a manifest whose status is 0 is whole.
LEMMA CheckedIsWhole ==
  ASSUME NEW m \in Manifests, Unique(m.layers), NEW k \in Kinds, NEW v, ManifestStatus(m, k, v) = 0
  PROVE  Whole(m, k, v)
<1>1. /\ m.installed /\ ~OrderProblem(m.layers, ExpectedBundles[k])
      /\ \A p \in DOMAIN ExpectedDeps(k, v) : m.deps[p] = ExpectedDeps(k, v)[p]
  BY DEF ManifestStatus
<1> QED
  BY <1>1, CheckedIsPlaced DEF Whole

\* What a transaction may leave of a manifest.
Outcomes(m, k, v, n) ==
  {m, Saved(m, Transactions(k, v)[n])} \cup Reconciled(Saved(m, Transactions(k, v)[n]))

\* No transaction for the same DSH, of either profile, takes the completeness away again.
LEMMA WholeKept ==
  ASSUME NEW m \in Manifests, NEW k \in Kinds, NEW j \in Kinds, NEW v \in Versions, NEW n \in 1 .. 4,
         Whole(m, k, v), NEW after \in Outcomes(m, j, v, n)
  PROVE  Whole(after, k, v)
<1> DEFINE s == Saved(m, Transactions(j, v)[n])
<1>1. /\ s \in Manifests /\ s.installed /\ s.layers = m.layers
      /\ \A p \in Packages : s.deps[p] = IF p \in Names(j, n) THEN VersionAt(v, n) ELSE m.deps[p]
  <2>1. /\ s \in Manifests
        /\ s.installed
        /\ s.layers = IF m.installed THEN m.layers ELSE << "dsh-base" >>
        /\ \A p \in Packages : s.deps[p] = IF p \in Names(j, n) THEN VersionAt(v, n) ELSE m.deps[p]
    BY ONLY SavedManifest, m \in Manifests, j \in Kinds, v \in Versions, n \in 1 .. 4, Zenon
  <2>2. m.installed
    BY DEF Whole
  <2> HIDE DEF s
  <2> QED
    BY <2>1, <2>2
<1> HIDE DEF s
<1>2. \A p \in DOMAIN ExpectedDeps(k, v) : p \in Names(j, n) => VersionAt(v, n) = ExpectedDeps(k, v)[p]
  <2>1. n = 1 \/ n = 2 \/ n = 3 \/ n = 4
    OBVIOUS
  <2>2. CompanionOf[k] \in {"dsh-headless", "dsh-web-app"} /\ CompanionOf[j] \in {"dsh-headless", "dsh-web-app"}
    BY Required
  <2>3. ASSUME NEW p \in DOMAIN ExpectedDeps(k, v), p \in Names(j, n)
        PROVE  VersionAt(v, n) = ExpectedDeps(k, v)[p]
    <3> DEFINE D == DOMAIN ExpectedDeps(k, v)
    <3>0. /\ D = {CompanionOf[k]} \cup RuntimePackages \cup {"dsh-bundle", "dsh-orcana-linux-bundle"}
          /\ \A q \in D : ExpectedDeps(k, v)[q] = IF q = CompanionOf[k] THEN v ELSE "pinned"
      BY Expected, SMTT(40)
    <3> HIDE DEF D
    <3>1. ExpectedDeps(k, v)[p] = IF p = CompanionOf[k] THEN v ELSE "pinned"
      BY <2>3, <3>0 DEF D
    <3>2. p \in {CompanionOf[k]} \cup RuntimePackages \cup {"dsh-bundle", "dsh-orcana-linux-bundle"}
      BY <2>3, <3>0 DEF D
    <3>3. p = CompanionOf[k] <=> n = 1
      BY <2>1, <2>2, <2>3, <3>2 DEF Names, RuntimePackages
    <3> QED
      BY <3>1, <3>3 DEF VersionAt
  <2> QED
    BY <2>3
<1>3. \A p \in DOMAIN ExpectedDeps(k, v) : s.deps[p] = ExpectedDeps(k, v)[p]
  BY <1>1, <1>2, Expected DEF Whole
<1>4. Whole(s, k, v)
  BY <1>1, <1>3 DEF Whole, Placed, PlacesOf
<1>5. CASE after \in Reconciled(s)
  <2>1. /\ after \in Manifests /\ after.installed /\ after.deps = s.deps
        /\ Extended(s.layers, after.layers) /\ ToSet(s.layers) \subseteq ToSet(after.layers)
    BY <1>1, <1>5, ReconciledManifest
  <2>2. Placed(s, k, 4)
    BY <1>4 DEF Whole
  <2>3. \A i \in 1 .. 4 : ExpectedBundles[k][i] \in ToSet(after.layers) <=> i <= 4
    BY <2>1, <2>2, PlacedMeans
  <2>4. Placed(after, k, 4)
    BY <1>1, <2>1, <2>2, <2>3, PlacedExtended
  <2> QED
    BY <1>4, <2>1, <2>4 DEF Whole
<1> QED
  BY <1>4, <1>5 DEF Outcomes, s

\* DSH adds no layer twice.
LEMMA UniqueKept ==
  ASSUME NEW m \in Manifests, Unique(m.layers), NEW k \in Kinds, NEW v \in Versions, NEW n \in 1 .. 4,
         NEW after \in Outcomes(m, k, v, n)
  PROVE  Unique(after.layers)
<1> DEFINE s == Saved(m, Transactions(k, v)[n])
<1>1. s \in Manifests /\ s.layers = IF m.installed THEN m.layers ELSE << "dsh-base" >>
  BY SavedManifest
<1> HIDE DEF s
<1>2. Unique(s.layers)
  <2>1. Unique(<< "dsh-base" >>)
    BY DEF Unique
  <2> QED
    BY <1>1, <2>1
<1>3. CASE after \in Reconciled(s)
  <2>1. Extended(s.layers, after.layers) /\ after \in Manifests
    BY <1>1, <1>3, ReconciledManifest
  <2> DEFINE old == s.layers
             new == after.layers
             All == Layers \cup {"dsh-base", "user-bundle"}
  <2>2. old \in Seq(All) /\ new \in Seq(All)
    BY <1>1, <2>1 DEF Manifests
  <2> HIDE DEF old, new, All
  <2>3. ASSUME NEW a \in 1 .. Len(new), NEW b \in 1 .. Len(new), new[a] = new[b]
        PROVE  a = b
    <3>1. /\ Len(old) <= Len(new)
          /\ \A i \in 1 .. Len(old) : new[i] = old[i] /\ old[i] \in ToSet(old)
          /\ \A i, l \in Len(old) + 1 .. Len(new) : new[i] = new[l] => i = l
          /\ \A i \in Len(old) + 1 .. Len(new) : new[i] \notin ToSet(old)
      BY <2>1, <2>2, SMTT(40) DEF Extended, ToSet, old, new
    <3>2. \A i, l \in 1 .. Len(old) : old[i] = old[l] => i = l
      BY <1>2 DEF Unique, old
    <3>3. \A i \in 1 .. Len(new) : i \in 1 .. Len(old) \/ i \in Len(old) + 1 .. Len(new)
      BY <2>2
    <3> QED
      BY <2>3, <3>1, <3>2, <3>3
  <2> QED
    BY <2>3 DEF Unique, new
<1> QED
  BY <1>2, <1>3 DEF Outcomes, s

-----------------------------------------------------------------------------
(* Launches. *)

\* What may be launched.
Calls == UNION {ToSet(a) : a \in UNION {s.agendas : s \in Scenarios}}

\* The assumption on launches, call by call.
LEMMA CallType ==
  ASSUME NEW c \in Calls
  PROVE  /\ c.windows \in BOOLEAN /\ c.args \in Seq(Arguments) /\ c.cwd \in Arguments
         /\ c.selector \in {"pinned", "other", "floating"}
         /\ ~Parsed(c).error => /\ {ProfileOf(k, Parsed(c).profile) : k \in Kinds} \subseteq Profiles
                                /\ Parsed(c).distro \in Worlds \cup {None}
BY LaunchAssumption DEF Calls

\* What Start makes of a call.
Home(c)      == IF c.windows THEN distroForWindowsWorkspace(c.cwd, Parsed(c).distro)
                ELSE [error |-> FALSE, distro |-> Parsed(c).distro]
OptionsOf(c) == [Parsed(c) EXCEPT !.distro = Home(c).distro]
Accepted(c)  == c \in Calls /\ ~Parsed(c).error /\ ~Home(c).error

\* Start changes nothing but the distro.
LEMMA Opted ==
  ASSUME NEW c
  PROVE  /\ OptionsOf(c).distro = Home(c).distro /\ OptionsOf(c).profile = Parsed(c).profile
         /\ OptionsOf(c).mode = Parsed(c).mode /\ OptionsOf(c).dshArgs = Parsed(c).dshArgs
BY DEF OptionsOf, Parsed, parseWslBridgeArgs

\* The distro a launch chooses is one there is.
LEMMA HomeType ==
  ASSUME NEW c, Accepted(c)
  PROVE  Home(c).distro \in Worlds \cup {None} /\ Owner(c.cwd) \in Worlds \cup {None}
<1>1. Parsed(c).distro \in Worlds \cup {None} /\ Owner(c.cwd) \in Worlds \cup {None}
  BY LaunchAssumption, CallType DEF Accepted
<1> QED
  BY <1>1 DEF Home, distroForWindowsWorkspace

\* Where an installation works.
Target(c) == BridgeTarget(c, OptionsOf(c), <<>>).world

\* An installation works in a distro there is.
LEMMA TargetType ==
  ASSUME NEW c, Accepted(c)
  PROVE  Target(c) \in Worlds
<1>1. inferWslDistroFromDshPathArgs(<<>>).distro = None
  BY DEF inferWslDistroFromDshPathArgs, collectDshPatchPathRefs
<1>2. OptionsOf(c).distro \in Worlds \cup {None} /\ Owner(c.cwd) \in Worlds \cup {None}
  BY Opted, HomeType
<1>3. DefaultDistro \in Worlds
  BY LaunchAssumption
<1>4. \A d \in Worlds \cup {None} : World(windowsPathToWsl(c.cwd, d).distro) \in Worlds
  BY <1>2, <1>3 DEF windowsPathToWsl, World
<1> QED
  BY <1>1, <1>2, <1>3, <1>4 DEF Target, BridgeTarget

\* A script of an accepted call's, on the profile and world d says.
Working(s, d) ==
  /\ s.next \in 1 .. 5 /\ s.world \in Worlds /\ s.profile \in Profiles /\ s.kind \in Kinds
  /\ s.selector \in Versions
  /\ At(d[s.world][s.profile], s.kind, s.next)
  /\ \E c : Accepted(c) /\ s.profile = ProfileOf(s.kind, Parsed(c).profile)

Script == [next : 0 .. 5, world : Worlds \cup {None}, profile : Profiles \cup {None}, kind : Kinds,
           selector : Versions \cup {""}]

\* The absent script is one that takes no step.
LEMMA NoScriptType == NoScript \in Script /\ NoScript.next = 0
BY DEF NoScript, Script, Kinds

\* A script has four transactions.
LEMMA ScriptSteps ==
  ASSUME NEW s \in Script
  PROVE  /\ Steps(s) = Transactions(s.kind, s.selector) /\ Len(Steps(s)) = 4 /\ DOMAIN Steps(s) = 1 .. 4
         /\ s.next \in 1 .. 4 => [s EXCEPT !.next = @ + 1] \in Script
<1>1. s.kind \in Kinds /\ Steps(s) = Transactions(s.kind, s.selector)
  BY DEF Steps, Script
<1>2. Len(Steps(s)) = 4 /\ DOMAIN Steps(s) = 1 .. 4
  BY <1>1, Transacted
<1>3. ASSUME s.next \in 1 .. 4 PROVE [s EXCEPT !.next = @ + 1] \in Script
  <2>1. s.next + 1 \in 0 .. 5
    BY <1>3
  <2> QED
    BY <2>1 DEF Script
<1> QED
  BY <1>1, <1>2, <1>3

\* The script the launcher is waiting for.
Awaited == [next |-> script["child"].next, world |-> Target(call), kind |-> kind, selector |-> call.selector,
            profile |-> ProfileOf(kind, options.profile)]

\* A launch in progress is of a call there is, with the options Start gave it.
LaunchInv ==
  /\ agenda \in Seq(Calls)
  /\ pc # "idle" => launch.call \in Calls /\ launch.options = OptionsOf(launch.call)
  /\ pc \notin AtRest => Accepted(launch.call)
  /\ kind \in Kinds
  /\ script \in [Slots -> Script]
  /\ script["child"] = NoScript \/ (pc = "installing" /\ script["child"] = Awaited)

\* Every script has found what the steps before it have laid.
DiskInv ==
  /\ disk \in [Worlds -> [Profiles -> Manifests]]
  /\ \A w \in Worlds, p \in Profiles : Grounded(disk[w][p])
  /\ \A slot \in Slots : script[slot] = NoScript \/ Working(script[slot], disk)

\* A launch goes on with the options Start gave it, and waits for the script it started.
LEMMA LaunchStep ==
  ASSUME LaunchInv, [Next]_vars
  PROVE  LaunchInv'
<1> USE DEF LaunchInv
<1>1. CASE Start
  <2>1. agenda # <<>> /\ Head(agenda) \in Calls /\ Tail(agenda) \in Seq(Calls)
    BY <1>1 DEF Start
  <2>2. agenda' = Tail(agenda) /\ kind' \in Kinds /\ script' = script /\ script["child"] = NoScript
    BY <1>1 DEF Start, Kinds, AtRest
  <2>3. launch'.call = Head(agenda) /\ launch'.options = OptionsOf(Head(agenda))
    BY <1>1 DEF Start, OptionsOf, Home, Parsed
  <2>4. pc' \notin AtRest => ~Parsed(Head(agenda)).error /\ ~Home(Head(agenda)).error
    BY <1>1 DEF Start, Home, Parsed, Finish, AtRest
  <2> QED
    BY <2>1, <2>2, <2>3, <2>4 DEF Accepted
<1>2. ASSUME UNCHANGED <<agenda, launch, script>>, pc \notin AtRest, pc # "installing", kind' \in Kinds
      PROVE  LaunchInv'
  BY <1>2 DEF AtRest
<1>3. CASE TranslationFails
  BY <1>2, <1>3 DEF TranslationFails, AtRest
<1>4. CASE Gate
  BY <1>2, <1>4 DEF Gate, AtRest
<1>5. CASE Run
  BY <1>2, <1>5 DEF Run, AtRest
<1>6. CASE RunEnds
  BY <1>2, <1>6 DEF RunEnds, AtRest
<1>7. CASE StartScript
  <2>1. UNCHANGED <<agenda, launch, kind>> /\ pc = "install" /\ script["child"] = NoScript /\ Accepted(call)
    BY <1>7 DEF StartScript, AtRest, call
  <2>2. CASE script' = script
    BY <2>1, <2>2 DEF AtRest
  <2>3. CASE script' # script
    <3>1. /\ pc' = "installing" /\ Exact(call.selector)
          /\ script' = [script EXCEPT !["child"] =
               [next |-> 1, world |-> BridgeTarget(call, options, <<>>).world, kind |-> kind,
                selector |-> call.selector, profile |-> ProfileOf(kind, options.profile)]]
      BY <1>7, <2>3 DEF StartScript
    <3>2. BridgeTarget(call, options, <<>>).world = Target(call)
      BY <2>1 DEF Target, AtRest, call, options
    <3>3. call.selector \in Versions
      BY <2>1, <3>1, LaunchAssumption, CallType DEF Exact, Versions, Accepted
    <3>4. ProfileOf(kind, options.profile) \in Profiles
      <4>1. options.profile = Parsed(call).profile
        BY <2>1, Opted DEF AtRest, call, options
      <4> QED
        BY <2>1, <4>1, LaunchAssumption, CallType DEF Accepted
    <3>5. Target(call) \in Worlds
      BY <2>1, TargetType
    <3> DEFINE s == [next |-> 1, world |-> Target(call), kind |-> kind,
                     selector |-> call.selector, profile |-> ProfileOf(kind, options.profile)]
    <3>6. s \in Script
      <4>1. 1 \in 0 .. 5 /\ kind \in Kinds
        OBVIOUS
      <4> HIDE DEF LaunchInv
      <4> QED
        BY <3>3, <3>4, <3>5, <4>1 DEF Script
    <3>7. script' = [script EXCEPT !["child"] = s] /\ script'["child"] = s
      BY <3>1, <3>2 DEF Slots
    <3>8. script' \in [Slots -> Script]
      BY <3>6, <3>7
    <3>9. script'["child"] = Awaited'
      BY <2>1, <3>7 DEF Awaited, call, options
    <3> HIDE DEF s
    <3> QED
      BY <2>1, <3>1, <3>8, <3>9 DEF AtRest, call
  <2> QED
    BY <2>2, <2>3
<1>8. CASE CheckInstalled
  BY <1>2, <1>8 DEF CheckInstalled, AtRest, Kinds
<1>9. CASE Doctor
  BY <1>2, <1>9 DEF Doctor, AtRest
<1>10. CASE DoctorProfile
  BY <1>2, <1>10 DEF DoctorProfile, AtRest, Kinds
<1>11. CASE OtherDoctors
  BY <1>2, <1>11 DEF OtherDoctors, AtRest
<1>12. CASE Kill
  <2>1. UNCHANGED <<agenda, launch, kind>> /\ pc \notin AtRest /\ pc' = "killed"
    BY <1>12 DEF Kill
  <2>3. script' \in [Slots -> Script] /\ script'["child"] = NoScript
    BY <1>12, NoScriptType DEF Kill, Slots
  <2> QED
    BY <2>1, <2>3 DEF AtRest
<1>13. ASSUME NEW slot \in Slots, Transaction(slot) \/ Smoke(slot)
       PROVE  LaunchInv'
  <2>1. UNCHANGED <<agenda, launch, kind>>
    BY <1>13 DEF Transaction, Smoke
  <2>2. script[slot].next \in 1 .. 5
    <3>1. Len(Steps(script[slot])) = 4 /\ DOMAIN Steps(script[slot]) = 1 .. 4
      BY ScriptSteps
    <3> QED
      BY <1>13, <3>1 DEF Transaction, Smoke
  <2>3. script[slot] # NoScript
    BY <2>2, NoScriptType
  <2>4. CASE \E code : ScriptEnds(slot, code)
    <3>2. script' = [script EXCEPT ![slot] = NoScript] /\ script' \in [Slots -> Script]
      BY <2>4, NoScriptType DEF ScriptEnds
    <3>3. CASE slot = "child"
      <4>1. script'["child"] = NoScript /\ pc = "installing"
        BY <2>3, <3>2, <3>3 DEF Slots
      <4> QED
        BY <2>1, <3>2, <4>1 DEF AtRest
    <3>4. CASE slot = "orphan"
      <4>1. script'["child"] = script["child"] /\ pc' = pc
        BY <2>4, <3>2, <3>4 DEF ScriptEnds, Slots
      <4> QED
        BY <2>1, <3>2, <4>1 DEF Awaited, call, options
    <3> QED
      BY <3>3, <3>4 DEF Slots
  <2>5. CASE /\ script' = [script EXCEPT ![slot].next = @ + 1] /\ pc' = pc
             /\ script[slot].next \in 1 .. 4
    <3>1. script' = [script EXCEPT ![slot] = [script[slot] EXCEPT !.next = @ + 1]]
      BY <2>5
    <3>2. [script[slot] EXCEPT !.next = @ + 1] \in Script
      BY <2>5, ScriptSteps
    <3>3. script' \in [Slots -> Script]
      BY <3>1, <3>2
    <3>4. slot = "child" => script'["child"] = Awaited'
      <4>1. CASE slot = "child"
        <5>1. script["child"] = Awaited /\ script'["child"] = [script["child"] EXCEPT !.next = @ + 1]
          BY <2>3, <3>1, <4>1
        <5>2. script'["child"].next = script["child"].next + 1
          BY <5>1 DEF Awaited
        <5> QED
          BY <2>1, <5>1, <5>2 DEF Awaited, call, options
      <4> QED
        BY <4>1
    <3>5. slot = "orphan" => script'["child"] = script["child"]
      BY <3>1 DEF Slots
    <3>6. script["child"] = Awaited /\ script'["child"] = script["child"] => script'["child"] = Awaited'
      BY <2>1 DEF Awaited, call, options
    <3>7. slot = "child" => pc = "installing"
      BY <2>3
    <3> QED
      BY <2>1, <2>5, <3>3, <3>4, <3>5, <3>6, <3>7 DEF Slots
  <2> QED
    BY <1>13, <2>4, <2>5, ScriptSteps DEF Transaction, Smoke
<1>14. CASE UNCHANGED vars
  BY <1>14 DEF vars, Awaited, call, options
<1> QED
  BY <1>1, <1>3, <1>4, <1>5, <1>6, <1>7, <1>8, <1>9, <1>10, <1>11, <1>12, <1>13, <1>14 DEF Next

\* A transaction of a script's: what it does to the disk, and where the script goes on.
Transacts(slot, s, after) ==
  /\ Working(s, disk) /\ s.next \in 1 .. 4 /\ s = script[slot]
  /\ after \in Outcomes(disk[s.world][s.profile], s.kind, s.selector, s.next)
  /\ disk' = [disk EXCEPT ![s.world][s.profile] = after]
  /\ \/ /\ after \in Reconciled(Saved(disk[s.world][s.profile], Transactions(s.kind, s.selector)[s.next]))
        /\ script' = [script EXCEPT ![slot] = [s EXCEPT !.next = @ + 1]]
     \/ script' = [script EXCEPT ![slot] = NoScript]

\* A transaction of the model's is one of a working script's.
LEMMA TransactionStep ==
  ASSUME LaunchInv, DiskInv, NEW slot \in Slots, Transaction(slot)
  PROVE  \E after : Transacts(slot, script[slot], after)
<1> DEFINE s == script[slot]
           m == disk[s.world][s.profile]
           saved == Saved(m, Transactions(s.kind, s.selector)[s.next])
<1>1. s \in Script
  BY DEF LaunchInv
<1>2. Steps(s) = Transactions(s.kind, s.selector) /\ DOMAIN Steps(s) = 1 .. 4
  BY <1>1, ScriptSteps
<1>3. s.next \in 1 .. 4
  BY <1>2 DEF Transaction
<1>4. Working(s, disk)
  BY <1>3, NoScriptType DEF DiskInv
<1>5. \/ \E after \in Reconciled(saved) :
           /\ disk' = [disk EXCEPT ![s.world][s.profile] = after]
           /\ script' = [script EXCEPT ![slot].next = @ + 1]
      \/ \E after \in {m, saved} :
           /\ disk' = [disk EXCEPT ![s.world][s.profile] = after]
           /\ script' = [script EXCEPT ![slot] = NoScript]
  BY <1>2 DEF Transaction, Manifest, ScriptEnds
<1>6. [script EXCEPT ![slot].next = @ + 1] = [script EXCEPT ![slot] = [s EXCEPT !.next = @ + 1]]
  OBVIOUS
<1> HIDE DEF s, m, saved
<1>7. CASE \E after \in Reconciled(saved) :
             /\ disk' = [disk EXCEPT ![s.world][s.profile] = after]
             /\ script' = [script EXCEPT ![slot].next = @ + 1]
  BY <1>3, <1>4, <1>6, <1>7 DEF Transacts, Outcomes, s, m, saved
<1>8. CASE \E after \in {m, saved} :
             /\ disk' = [disk EXCEPT ![s.world][s.profile] = after]
             /\ script' = [script EXCEPT ![slot] = NoScript]
  BY <1>3, <1>4, <1>8 DEF Transacts, Outcomes, s, m, saved
<1> QED
  BY <1>5, <1>7, <1>8

\* No manifest loses anything.
Grows(m, after) ==
  /\ after \in Manifests /\ Grounded(after) /\ (m.installed => after.installed)
  /\ ToSet(m.layers) \subseteq ToSet(after.layers)

\* It changes one profile, and takes nothing away there.
LEMMA DiskGrows ==
  ASSUME DiskInv, NEW slot \in Slots, NEW after, Transacts(slot, script[slot], after)
  PROVE  /\ disk' \in [Worlds -> [Profiles -> Manifests]]
         /\ \A w \in Worlds, p \in Profiles :
              /\ Grows(disk[w][p], disk'[w][p])
              /\ disk'[w][p] = IF w = script[slot].world /\ p = script[slot].profile THEN after ELSE disk[w][p]
<1> DEFINE s == script[slot]
           m == disk[s.world][s.profile]
<1>1. /\ s.world \in Worlds /\ s.profile \in Profiles /\ s.kind \in Kinds /\ s.selector \in Versions
      /\ s.next \in 1 .. 4 /\ after \in Outcomes(m, s.kind, s.selector, s.next)
      /\ disk' = [disk EXCEPT ![s.world][s.profile] = after]
  BY DEF Transacts, Working
<1>2. /\ disk \in [Worlds -> [Profiles -> Manifests]]
      /\ \A w \in Worlds, p \in Profiles : Grounded(disk[w][p])
  BY DEF DiskInv
<1> HIDE DEF s
<1>3. m \in Manifests /\ Grounded(m)
  BY <1>1, <1>2
<1>4. Grows(m, after)
  BY <1>1, <1>3, TransactionGrows DEF Grows, Outcomes
<1>5. after \in Manifests
  BY <1>4 DEF Grows
<1>6. disk' \in [Worlds -> [Profiles -> Manifests]]
  BY <1>1, <1>2, <1>5
<1>7. ASSUME NEW w \in Worlds, NEW p \in Profiles
      PROVE  disk'[w][p] = IF w = s.world /\ p = s.profile THEN after ELSE disk[w][p]
  BY <1>1, <1>2
<1>8. ASSUME NEW w \in Worlds, NEW p \in Profiles
      PROVE  Grows(disk[w][p], disk'[w][p])
  <2>1. disk[w][p] \in Manifests /\ Grounded(disk[w][p])
    BY <1>2
  <2>2. Grows(disk[w][p], disk[w][p])
    BY <2>1 DEF Grows
  <2> QED
    BY <1>4, <1>7, <2>2
<1> QED
  BY <1>6, <1>7, <1>8 DEF s

\* So what other scripts have laid stays laid.
LEMMA WorkingKept ==
  ASSUME NEW s, NEW d, NEW e, Working(s, d),
         \A w \in Worlds, p \in Profiles : Grows(d[w][p], e[w][p])
  PROVE  Working(s, e)
BY DEF Working, At, Grows

\* Every step keeps the disk's invariant.
LEMMA DiskStep ==
  ASSUME LaunchInv, DiskInv, [Next]_vars
  PROVE  DiskInv'
<1>1. ASSUME disk' = disk, \A slot \in Slots : script'[slot] \in {NoScript, script["child"], script["orphan"]}
      PROVE  DiskInv'
  BY <1>1 DEF DiskInv, Slots
<1>2. CASE UNCHANGED <<disk, script>>
  BY <1>1, <1>2 DEF Slots
<1>3. CASE StartScript
  <2>1. CASE script' = script
    BY <1>2, <1>3, <2>1 DEF StartScript
  <2>2. CASE script' # script
    <3>1. LaunchInv'
      BY LaunchStep
    <3>2. /\ disk' = disk /\ launch' = launch /\ kind' = kind /\ pc = "install"
          /\ script' = [script EXCEPT !["child"] =
               [next |-> 1, world |-> BridgeTarget(call, options, <<>>).world, kind |-> kind,
                selector |-> call.selector, profile |-> ProfileOf(kind, options.profile)]]
          /\ Exact(call.selector)
      BY <1>3, <2>2 DEF StartScript
    <3>3. Accepted(call) /\ options = OptionsOf(call) /\ kind \in Kinds
      BY <3>2 DEF LaunchInv, AtRest, call, options
    <3>4. Target(call) = BridgeTarget(call, options, <<>>).world /\ Target(call) \in Worlds
      BY <3>3, TargetType DEF Target
    <3>5. options.profile = Parsed(call).profile /\ ProfileOf(kind, Parsed(call).profile) \in Profiles
      BY <3>3, Opted, LaunchAssumption, CallType DEF Accepted
    <3>6. call.selector \in Versions
      BY <3>2, <3>3, LaunchAssumption, CallType DEF Exact, Versions, Accepted
    <3> DEFINE s == script'["child"]
    <3>7. s = [next |-> 1, world |-> Target(call), kind |-> kind,
               selector |-> call.selector, profile |-> ProfileOf(kind, options.profile)]
      BY <3>2, <3>4 DEF LaunchInv, Slots
    <3>8. Grounded(disk[Target(call)][ProfileOf(kind, options.profile)])
      BY <3>4, <3>5 DEF DiskInv
    <3>9. Working(s, disk)
      <4>1. Laid(kind, 1) = {}
        BY DEF Laid
      <4>2. At(disk[s.world][s.profile], s.kind, s.next)
        BY <3>7, <3>8, <4>1 DEF At
      <4> QED
        BY <3>3, <3>4, <3>5, <3>6, <3>7, <4>2 DEF Working
    <3>10. script'["orphan"] = script["orphan"]
      BY <3>2 DEF LaunchInv, Slots
    <3> QED
      BY <3>2, <3>9, <3>10 DEF DiskInv, Slots
  <2> QED
    BY <2>1, <2>2
<1>4. CASE Kill
  BY <1>1, <1>4 DEF Kill, Slots
<1>5. ASSUME NEW slot \in Slots, Smoke(slot)
      PROVE  DiskInv'
  <2>1. script' = [script EXCEPT ![slot] = NoScript] /\ disk' = disk
    BY <1>5 DEF Smoke, ScriptEnds
  <2>2. \A t \in Slots : script'[t] = IF t = slot THEN NoScript ELSE script[t]
    BY <2>1 DEF LaunchInv
  <2> QED
    BY <1>1, <2>1, <2>2 DEF Slots
<1>6. ASSUME NEW slot \in Slots, Transaction(slot)
      PROVE  DiskInv'
  <2>1. PICK after : Transacts(slot, script[slot], after)
    BY <1>6, TransactionStep
  <2> DEFINE s == script[slot]
  <2>2. /\ disk' \in [Worlds -> [Profiles -> Manifests]]
        /\ \A w \in Worlds, p \in Profiles :
             /\ Grows(disk[w][p], disk'[w][p])
             /\ disk'[w][p] = IF w = s.world /\ p = s.profile THEN after ELSE disk[w][p]
    BY <2>1, DiskGrows
  <2>3. /\ Working(s, disk) /\ s.next \in 1 .. 4
        /\ \/ /\ after \in Reconciled(Saved(disk[s.world][s.profile], Transactions(s.kind, s.selector)[s.next]))
              /\ script' = [script EXCEPT ![slot] = [s EXCEPT !.next = @ + 1]]
           \/ script' = [script EXCEPT ![slot] = NoScript]
    BY <2>1 DEF Transacts
  <2>4. ASSUME NEW t \in Slots, t # slot
        PROVE  script'[t] = NoScript \/ Working(script'[t], disk')
    <3>1. script'[t] = script[t]
      BY <2>3, <2>4 DEF LaunchInv
    <3> QED
      BY <2>2, <3>1, WorkingKept DEF DiskInv
  <2>5. script'[slot] = NoScript \/ Working(script'[slot], disk')
    <3>1. CASE script' = [script EXCEPT ![slot] = NoScript]
      BY <3>1 DEF LaunchInv
    <3>2. CASE /\ after \in Reconciled(Saved(disk[s.world][s.profile], Transactions(s.kind, s.selector)[s.next]))
               /\ script' = [script EXCEPT ![slot] = [s EXCEPT !.next = @ + 1]]
      <4> DEFINE t == [s EXCEPT !.next = @ + 1]
      <4>1. script'[slot] = t
        BY <3>2 DEF LaunchInv
      <4>2. /\ t.next = s.next + 1 /\ t.world = s.world /\ t.profile = s.profile /\ t.kind = s.kind
            /\ t.selector = s.selector
        BY DEF LaunchInv, Script
      <4>3. /\ s.world \in Worlds /\ s.profile \in Profiles /\ s.kind \in Kinds /\ s.selector \in Versions
            /\ At(disk[s.world][s.profile], s.kind, s.next)
            /\ \E c : Accepted(c) /\ s.profile = ProfileOf(s.kind, Parsed(c).profile)
        BY <2>3 DEF Working
      <4>4. disk[s.world][s.profile] \in Manifests
        BY <4>3 DEF DiskInv
      <4> HIDE DEF s, t
      <4>5. At(after, s.kind, s.next + 1)
        BY <2>3, <3>2, <4>3, <4>4, TransactionLays
      <4>6. disk'[s.world][s.profile] = after /\ s.next + 1 \in 1 .. 5
        BY <2>2, <2>3, <4>3
      <4> QED
        BY <4>1, <4>2, <4>3, <4>5, <4>6 DEF Working
    <3> QED
      BY <2>3, <3>1, <3>2
  <2> QED
    BY <2>2, <2>4, <2>5 DEF DiskInv, Grows
<1> QED
  <2>1. \/ UNCHANGED <<disk, script>> \/ StartScript \/ Kill
        \/ \E slot \in Slots : Transaction(slot) \/ Smoke(slot)
    BY DEF Next, vars, Start, TranslationFails, Gate, Run, RunEnds, CheckInstalled, Doctor, DoctorProfile, OtherDoctors
  <2> QED
    BY <1>2, <1>3, <1>4, <1>5, <1>6, <2>1

\* Every disk there may be to begin with has its profiles with their base layer, or not at all.
GroundedDisks == \A s \in Scenarios : \A d \in s.disks : \A w \in Worlds, p \in Profiles : Grounded(d[w][p])

\* No call takes one of the default profiles for its other kind, `--wsl-profile orcana-web`.
SeparateProfiles ==
  \A c \in Calls : ~Parsed(c).error =>
    \A j, k \in Kinds : ProfileOf(j, Parsed(c).profile) = ProfileOf(k, DefaultProfile) => j = k

\* Both invariants hold at the beginning,
LEMMA InitLaunch ==
  ASSUME Init
  PROVE  LaunchInv
<1>1. PICK s \in Scenarios : agenda \in s.agendas
  BY DEF Init
<1>2. agenda \in Seq(ToSet(agenda))
  BY <1>1, LaunchAssumption
<1>3. ToSet(agenda) \subseteq Calls
  BY <1>1 DEF Calls
<1>4. agenda \in Seq(Calls)
  BY <1>2, <1>3
<1>5. script \in [Slots -> Script] /\ \A slot \in Slots : script[slot] = NoScript
  BY NoScriptType DEF Init
<1> QED
  BY <1>4, <1>5 DEF LaunchInv, Init, AtRest, Kinds, Slots

\* the one about the disk if it does of the disk,
LEMMA InitInv ==
  ASSUME GroundedDisks, Init
  PROVE  LaunchInv /\ DiskInv
<1>1. PICK s \in Scenarios : disk \in s.disks
  BY DEF Init
<1>2. disk \in [Worlds -> [Profiles -> Manifests]]
  BY <1>1, LaunchAssumption
<1>3. \A slot \in Slots : script[slot] = NoScript
  BY DEF Init
<1>4. DiskInv
  BY <1>1, <1>2, <1>3 DEF DiskInv, GroundedDisks
<1> QED
  BY <1>4, InitLaunch

\* and so always.
LEMMA InvariantLaunch ==
  ASSUME GroundedDisks
  PROVE  Spec => [](LaunchInv /\ DiskInv)
<1>1. Init => LaunchInv /\ DiskInv
  BY InitInv
<1>2. (LaunchInv /\ DiskInv) /\ [Next]_vars => (LaunchInv /\ DiskInv)'
  BY LaunchStep, DiskStep
<1> QED
  BY <1>1, <1>2, PTL DEF Spec

\* OrderIsNeverLost, for any worlds, profiles, calls and disks: whatever installations do, in whatever
\* order their steps come, fail or are cut short, the layers of the default profiles stay in order.
THEOREM InstallsKeepOrder ==
  ASSUME GroundedDisks, SeparateProfiles
  PROVE  Spec => OrderIsNeverLost
<1> DEFINE Keeps == \A w \in Worlds, k \in Kinds :
                      LET p == ProfileOf(k, DefaultProfile)
                      IN  disk'[w][p] # disk[w][p] /\ Ordered(disk[w][p], k) => Ordered(disk'[w][p], k)
<1>1. ASSUME LaunchInv, DiskInv, [Next]_vars
      PROVE  [Keeps]_vars
  <2> SUFFICES ASSUME NEW w \in Worlds, NEW k \in Kinds,
                      disk'[w][ProfileOf(k, DefaultProfile)] # disk[w][ProfileOf(k, DefaultProfile)],
                      Ordered(disk[w][ProfileOf(k, DefaultProfile)], k)
               PROVE  Ordered(disk'[w][ProfileOf(k, DefaultProfile)], k)
    OBVIOUS
  <2> DEFINE p == ProfileOf(k, DefaultProfile)
  <2>1. PICK slot \in Slots : Transaction(slot)
    BY <1>1 DEF Next, vars, Start, TranslationFails, Gate, Run, RunEnds, StartScript, CheckInstalled,
                Doctor, DoctorProfile, OtherDoctors, Kill, Smoke
  <2>2. PICK after : Transacts(slot, script[slot], after)
    BY <1>1, <2>1, TransactionStep
  <2> DEFINE s == script[slot]
             m == disk[s.world][s.profile]
  <2>3. p \in Profiles
    BY LaunchAssumption
  <2>4. disk'[w][p] = IF w = s.world /\ p = s.profile THEN after ELSE disk[w][p]
    BY <1>1, <2>2, <2>3, DiskGrows
  <2>5. w = s.world /\ p = s.profile /\ disk'[w][p] = after /\ after # m
    BY <2>4
  <2>6. /\ s.next \in 1 .. 4 /\ s.kind \in Kinds /\ s.selector \in Versions
        /\ At(m, s.kind, s.next)
        /\ after \in Outcomes(m, s.kind, s.selector, s.next)
        /\ \E c : Accepted(c) /\ s.profile = ProfileOf(s.kind, Parsed(c).profile)
    BY <2>2 DEF Transacts, Working
  <2>7. s.kind = k
    BY <2>5, <2>6 DEF SeparateProfiles, Accepted
  <2>8. m \in Manifests
    BY <1>1, <2>3, <2>5 DEF DiskInv
  <2> HIDE DEF s
  <2> QED
    BY <2>5, <2>6, <2>7, <2>8, TransactionOrder DEF Outcomes
<1>2. LaunchInv /\ DiskInv /\ [Next]_vars => [Keeps]_vars
  BY <1>1
<1> HIDE DEF Keeps
<1>3. Spec => [](LaunchInv /\ DiskInv)
  BY InvariantLaunch
<1>4. Spec => [][Keeps]_vars
  BY <1>2, <1>3, PTL DEF Spec
<1> QED
  BY <1>4 DEF OrderIsNeverLost, Keeps

-----------------------------------------------------------------------------
(* What an installation has done. *)

\* No layer is there twice.
UniqueInv == \A w \in Worlds, p \in Profiles : Unique(disk[w][p].layers)

\* One selector for every call there still is, and for the scripts of those there were.
SelectorInv ==
  \E v : /\ \A c \in ToSet(agenda) : c.selector = v
         /\ pc # "idle" => call.selector = v
         /\ \A slot \in Slots : script[slot] # NoScript => script[slot].selector = v

\* The launch has installed profile k.
Done(k) == Accepted(call) /\ Whole(disk[Target(call)][ProfileOf(k, options.profile)], k, call.selector)

Succeeded == pc = "exited" /\ status = 0

\* What an installation in progress has done so far.
InstallInv ==
  /\ pc \in {"install", "installing", "check"} => options.mode = "install"
  /\ pc # "idle" /\ options.mode = "install" =>
       /\ pc \in {"install", "installing", "check", "exited", "killed"}
       /\ worlds \subseteq {Target(call)}
       /\ pc \in {"installing", "check"} => worlds = {Target(call)}
       /\ kind = "web" \/ Succeeded => worlds = {Target(call)} /\ Done("headless")
       /\ Succeeded => Done("web")

\* Every disk there may be to begin with has each layer once, as DSH keeps them.
UniqueLayers == \A s \in Scenarios : \A d \in s.disks : \A w \in Worlds, p \in Profiles : Unique(d[w][p].layers)

\* The launches of one agenda select the same DSH.
OneSelector ==
  \A s \in Scenarios : \A a \in s.agendas : \A c, d \in ToSet(a) : c.selector = d.selector

\* The launcher's own script steps only while it waits for it.
LEMMA AtWork ==
  ASSUME LaunchInv, NEW slot \in Slots, Transaction(slot) \/ Smoke(slot)
  PROVE  script[slot] # NoScript /\ (slot = "child" => pc = "installing")
<1>1. script[slot] \in Script
  BY DEF LaunchInv
<1>2. Len(Steps(script[slot])) = 4 /\ DOMAIN Steps(script[slot]) = 1 .. 4
  BY <1>1, ScriptSteps
<1>3. script[slot].next # 0
  BY <1>2 DEF Transaction, Smoke
<1>4. script[slot] # NoScript
  BY <1>3, NoScriptType
<1> QED
  BY <1>4 DEF LaunchInv

\* Every step keeps each layer single,
LEMMA UniqueStep ==
  ASSUME LaunchInv, DiskInv, UniqueInv, [Next]_vars
  PROVE  UniqueInv'
<1>1. CASE disk' = disk
  BY <1>1 DEF UniqueInv
<1>2. ASSUME NEW slot \in Slots, Transaction(slot)
      PROVE  UniqueInv'
  <2>1. PICK after : Transacts(slot, script[slot], after)
    BY <1>2, TransactionStep
  <2> DEFINE s == script[slot]
             m == disk[s.world][s.profile]
  <2>2. \A w \in Worlds, p \in Profiles :
          disk'[w][p] = IF w = s.world /\ p = s.profile THEN after ELSE disk[w][p]
    BY <2>1, DiskGrows
  <2>3. /\ s.next \in 1 .. 4 /\ s.kind \in Kinds /\ s.selector \in Versions
        /\ s.world \in Worlds /\ s.profile \in Profiles
        /\ after \in Outcomes(m, s.kind, s.selector, s.next)
    BY <2>1 DEF Transacts, Working
  <2>4. m \in Manifests /\ Unique(m.layers)
    BY <2>3 DEF DiskInv, UniqueInv
  <2> HIDE DEF s
  <2>5. Unique(after.layers)
    BY <2>3, <2>4, UniqueKept
  <2> QED
    BY <2>2, <2>5 DEF UniqueInv
<1> QED
  BY <1>1, <1>2 DEF Next, vars, Start, TranslationFails, Gate, Run, RunEnds, StartScript, CheckInstalled,
                    Doctor, DoctorProfile, OtherDoctors, Kill, Smoke

\* the selector the same,
LEMMA SelectorStep ==
  ASSUME LaunchInv, DiskInv, SelectorInv, [Next]_vars
  PROVE  SelectorInv'
<1>1. PICK v : /\ \A c \in ToSet(agenda) : c.selector = v
               /\ pc # "idle" => call.selector = v
               /\ \A slot \in Slots : script[slot] # NoScript => script[slot].selector = v
  BY DEF SelectorInv
<1>2. CASE Start
  <2>1. /\ agenda \in Seq(Calls) /\ agenda # <<>> /\ agenda' = Tail(agenda) /\ script' = script
        /\ launch'.call = Head(agenda)
    BY <1>2 DEF Start, LaunchInv
  <2>2. Head(agenda) \in ToSet(agenda) /\ ToSet(Tail(agenda)) \subseteq ToSet(agenda)
    BY <2>1 DEF ToSet
  <2> QED
    BY <1>1, <2>1, <2>2 DEF SelectorInv, call
<1>3. ASSUME UNCHANGED <<agenda, launch>>, pc # "idle",
             \A slot \in Slots : script'[slot] # NoScript => script'[slot].selector = v
      PROVE  SelectorInv'
  BY <1>1, <1>3 DEF SelectorInv, call
<1>4. CASE UNCHANGED vars
  BY <1>1, <1>4 DEF SelectorInv, vars, call
<1>5. CASE TranslationFails \/ Gate \/ Run \/ RunEnds \/ CheckInstalled \/ Doctor \/ DoctorProfile \/ OtherDoctors
  BY <1>1, <1>3, <1>5 DEF TranslationFails, Gate, Run, RunEnds, CheckInstalled, Doctor, DoctorProfile, OtherDoctors
<1>6. CASE StartScript
  <2>1. UNCHANGED <<agenda, launch>> /\ pc = "install"
    BY <1>6 DEF StartScript
  <2>2. script'["child"] # NoScript => script'["child"].selector = v
    <3>1. script["child"] = NoScript
      BY <2>1 DEF LaunchInv
    <3>2. script' = script \/ script'["child"].selector = call.selector
      BY <1>6 DEF StartScript, LaunchInv, Slots
    <3> QED
      BY <1>1, <2>1, <3>1, <3>2
  <2>3. script'["orphan"] = script["orphan"]
    BY <1>6 DEF StartScript, LaunchInv, Slots
  <2> QED
    BY <1>1, <1>3, <2>1, <2>2, <2>3 DEF Slots
<1>7. CASE Kill
  <2>1. UNCHANGED <<agenda, launch>> /\ pc # "idle"
    BY <1>7 DEF Kill, AtRest
  <2>2. \A slot \in Slots : script'[slot] \in {NoScript, script["child"]}
    BY <1>7 DEF Kill
  <2> QED
    BY <1>1, <1>3, <2>1, <2>2 DEF Slots
<1>8. ASSUME NEW slot \in Slots, Transaction(slot) \/ Smoke(slot)
      PROVE  SelectorInv'
  <2>1. UNCHANGED <<agenda, launch>>
    BY <1>8 DEF Transaction, Smoke
  <2>2. \A t \in Slots \ {slot} : script'[t] = script[t]
    BY <1>8 DEF Transaction, Smoke, ScriptEnds, LaunchInv
  <2>3. script'[slot] = NoScript \/ (script[slot] # NoScript /\ script'[slot].selector = script[slot].selector)
    <3>1. CASE script' = [script EXCEPT ![slot] = NoScript]
      BY <3>1 DEF LaunchInv
    <3>2. CASE Transaction(slot) /\ script' = [script EXCEPT ![slot].next = @ + 1]
      <4>1. PICK after : Transacts(slot, script[slot], after)
        BY <3>2, TransactionStep
      <4>2. script[slot] # NoScript
        BY <4>1, NoScriptType DEF Transacts
      <4>3. script'[slot] = [script[slot] EXCEPT !.next = @ + 1] /\ script[slot] \in Script
        BY <3>2 DEF LaunchInv
      <4>4. script'[slot].selector = script[slot].selector
        BY <4>3 DEF Script
      <4> QED
        BY <4>2, <4>4
    <3> QED
      BY <1>8, <3>1, <3>2 DEF Transaction, Smoke, ScriptEnds
  <2>4. pc' # "idle" => pc # "idle"
    <3>1. CASE slot = "child"
      BY <1>8, <3>1, AtWork
    <3>2. CASE slot = "orphan"
      BY <1>8, <3>2 DEF Transaction, Smoke, ScriptEnds
    <3> QED
      BY <3>1, <3>2 DEF Slots
  <2> QED
    BY <1>1, <2>1, <2>2, <2>3, <2>4 DEF SelectorInv, call
<1> QED
  BY <1>2, <1>4, <1>5, <1>6, <1>7, <1>8 DEF Next

\* What a launch has installed stays whole while other scripts go on.
LEMMA DoneKept ==
  ASSUME LaunchInv, DiskInv, SelectorInv, [Next]_vars, launch' = launch, pc # "idle", NEW k \in Kinds, Done(k)
  PROVE  Done(k)'
<1> DEFINE W == Target(call)
           P == ProfileOf(k, options.profile)
<1>1. call' = call /\ options' = options /\ Accepted(call) /\ options = OptionsOf(call)
  BY DEF Done, call, options, LaunchInv
<1>2. W \in Worlds /\ P \in Profiles
  BY <1>1, TargetType, Opted, LaunchAssumption, CallType DEF Accepted
<1>3. CASE disk' = disk
  BY <1>1, <1>3 DEF Done
<1>4. ASSUME NEW slot \in Slots, Transaction(slot)
      PROVE  Done(k)'
  <2>1. PICK after : Transacts(slot, script[slot], after)
    BY <1>4, TransactionStep
  <2> DEFINE s == script[slot]
             m == disk[s.world][s.profile]
  <2>2. disk'[W][P] = IF W = s.world /\ P = s.profile THEN after ELSE disk[W][P]
    BY <1>2, <2>1, DiskGrows
  <2>3. /\ s.next \in 1 .. 4 /\ s.kind \in Kinds /\ s.selector \in Versions
        /\ s.world \in Worlds /\ s.profile \in Profiles
        /\ after \in Outcomes(m, s.kind, s.selector, s.next)
    BY <2>1 DEF Transacts, Working
  <2>4. m \in Manifests
    BY <2>3 DEF DiskInv
  <2>5. s.selector = call.selector
    BY <1>4, AtWork DEF SelectorInv
  <2>6. Whole(disk[W][P], k, call.selector)
    BY DEF Done
  <2> HIDE DEF s, W, P
  <2>7. Whole(disk'[W][P], k, call.selector)
    BY <2>2, <2>3, <2>4, <2>5, <2>6, WholeKept
  <2> QED
    BY <1>1, <2>7 DEF Done, W, P
<1> QED
  BY <1>3, <1>4 DEF Next, vars, Start, TranslationFails, Gate, Run, RunEnds, StartScript, CheckInstalled,
                    Doctor, DoctorProfile, OtherDoctors, Kill, Smoke

\* A check that passes has found the profile whole, where the installation works.
LEMMA CheckedIsDone ==
  ASSUME LaunchInv, DiskInv, UniqueInv, pc = "check",
         Checked(BridgeTarget(call, options, <<>>).world, kind, TRUE, 0)
  PROVE  Done(kind) /\ worlds' = worlds \cup {Target(call)}
<1>1. Accepted(call) /\ options = OptionsOf(call) /\ kind \in Kinds
  BY DEF LaunchInv, AtRest, call, options
<1> DEFINE W == BridgeTarget(call, options, <<>>).world
           P == ProfileOf(kind, options.profile)
<1>2. W = Target(call)
  BY <1>1 DEF Target
<1>3. W \in Worlds /\ P \in Profiles
  BY <1>1, <1>2, TargetType, Opted, LaunchAssumption, CallType DEF Accepted
<1>4. ManifestStatus(disk[W][P], kind, call.selector) = 0 /\ worlds' = worlds \cup {W}
  BY DEF Checked, Manifest
<1>5. disk[W][P] \in Manifests /\ Unique(disk[W][P].layers)
  BY <1>3 DEF DiskInv, UniqueInv
<1> HIDE DEF W, P
<1>6. Whole(disk[W][P], kind, call.selector)
  BY <1>1, <1>4, <1>5, CheckedIsWhole
<1> QED
  BY <1>1, <1>2, <1>4, <1>6 DEF Done, P

\* and what an installation says it has done, done.
LEMMA InstallStep ==
  ASSUME LaunchInv, DiskInv, UniqueInv, SelectorInv, InstallInv, [Next]_vars
  PROVE  InstallInv'
<1>0. "headless" \in Kinds /\ "web" \in Kinds /\ kind \in Kinds
  BY DEF Kinds, LaunchInv
<1>1. ASSUME launch' = launch, pc # "idle"
      PROVE  (/\ pc' \in {"install", "installing", "check"} => options.mode = "install"
              /\ options.mode = "install" =>
                   /\ pc' \in {"install", "installing", "check", "exited", "killed"}
                   /\ worlds' \subseteq {Target(call)}
                   /\ pc' \in {"installing", "check"} => worlds' = {Target(call)}
                   /\ kind' = "web" \/ (pc' = "exited" /\ status' = 0) => worlds' = {Target(call)} /\ Done("headless")
                   /\ pc' = "exited" /\ status' = 0 => Done("web"))
             => InstallInv'
  <2>1. call' = call /\ options' = options
    BY <1>1 DEF call, options
  <2>2. Target(call)' = Target(call)
    BY <2>1
  <2>3. (Done("headless") => Done("headless")') /\ (Done("web") => Done("web")')
    BY <1>0, <1>1, DoneKept
  <2>4. Succeeded' <=> pc' = "exited" /\ status' = 0
    BY DEF Succeeded
  <2> QED
    BY <2>1, <2>2, <2>3, <2>4 DEF InstallInv
<1>2. CASE UNCHANGED vars
  BY <1>2 DEF InstallInv, vars, Done, Succeeded, call, options
<1>3. CASE Start
  <2>1. /\ worlds' = {} /\ kind' = "headless"
        /\ launch'.call = Head(agenda) /\ launch'.options = OptionsOf(Head(agenda))
        /\ \/ pc' = "exited" /\ status' = 1
           \/ pc' = [run |-> "gate", install |-> "install", doctor |-> "doctor"][Parsed(Head(agenda)).mode]
    BY <1>3 DEF Start, OptionsOf, Home, Parsed, Finish
  <2>2. Head(agenda) \in Calls
    BY <1>3 DEF Start, LaunchInv
  <2>3. Parsed(Head(agenda)).mode \in Modes
    BY <2>2, ParsedType, LaunchAssumption, CallType DEF Parsed
  <2>4. OptionsOf(Head(agenda)).mode = Parsed(Head(agenda)).mode
    BY Opted
  <2>5. \/ pc' = "exited" /\ status' = 1
        \/ pc' = "install" /\ options'.mode = "install"
        \/ pc' \in {"gate", "doctor"} /\ options'.mode # "install"
    BY <2>1, <2>3, <2>4 DEF Modes, options
  <2> QED
    BY <2>1, <2>5 DEF InstallInv, Succeeded
<1>4. ASSUME launch' = launch, options.mode # "install", pc # "idle",
             pc' \notin {"install", "installing", "check"}
      PROVE  InstallInv'
  BY <1>1, <1>4 DEF InstallInv
<1>5. CASE Gate \/ Run \/ RunEnds \/ Doctor \/ DoctorProfile \/ OtherDoctors
  <2>1. launch' = launch /\ pc \in {"gate", "run", "running", "doctor", "doctor-profile", "other-doctors"}
    BY <1>5 DEF Gate, Run, RunEnds, Doctor, DoctorProfile, OtherDoctors
  <2>2. pc' \notin {"install", "installing", "check"}
    BY <1>5 DEF Gate, Run, RunEnds, Doctor, DoctorProfile, OtherDoctors, Finish
  <2>3. options.mode # "install"
    BY <2>1 DEF InstallInv
  <2> QED
    BY <1>4, <2>1, <2>2, <2>3
<1>6. ASSUME launch' = launch, pc # "idle", UNCHANGED <<worlds, kind>>,
             pc' \in {"exited", "killed"}, pc' = "exited" => status' # 0, pc \notin AtRest
      PROVE  InstallInv'
  <2>1. ~Succeeded'
    BY <1>6 DEF Succeeded
  <2> QED
    BY <1>1, <1>6, <2>1 DEF InstallInv, AtRest, Succeeded
<1>7. CASE TranslationFails \/ Kill
  BY <1>6, <1>7 DEF TranslationFails, Kill, Finish, AtRest
<1>8. CASE StartScript
  <2>1. launch' = launch /\ pc = "install" /\ kind' = kind
    BY <1>8 DEF StartScript
  <2>2. Target(call) = BridgeTarget(call, options, <<>>).world
    BY <2>1 DEF Target, LaunchInv, AtRest, call, options
  <2>3. \/ pc' = "exited" /\ status' # 0 /\ worlds' \in {worlds, worlds \cup {Target(call)}}
        \/ pc' = "installing" /\ worlds' = worlds \cup {Target(call)}
    BY <1>8, <2>2 DEF StartScript, Finish
  <2>4. ~Succeeded'
    BY <2>3 DEF Succeeded
  <2> QED
    BY <1>1, <2>1, <2>3, <2>4 DEF InstallInv, Succeeded
<1>9. CASE CheckInstalled
  <2>1. launch' = launch /\ pc = "check" /\ options.mode = "install"
    BY <1>9 DEF CheckInstalled, InstallInv
  <2>2. PICK code \in {0, 2, 66, 67, 68, 127} :
          /\ Checked(BridgeTarget(call, options, <<>>).world, kind, TRUE, code)
          /\ IF code = 0 /\ kind = "headless" THEN pc' = "install" /\ kind' = "web" /\ UNCHANGED status
             ELSE Finish(code) /\ UNCHANGED kind
    BY <1>9 DEF CheckInstalled
  <2>3. worlds' = {Target(call)} /\ worlds = {Target(call)}
    <3>1. Target(call) = BridgeTarget(call, options, <<>>).world
      BY <2>1 DEF Target, LaunchInv, AtRest, call, options
    <3>2. worlds' = worlds \cup {Target(call)}
      BY <2>2, <3>1 DEF Checked
    <3> QED
      BY <2>1, <3>2 DEF InstallInv
  <2>4. CASE code = 0
    <3>1. Done(kind)
      BY <2>1, <2>2, <2>4, CheckedIsDone
    <3>2. CASE kind = "headless"
      <4>1. pc' = "install" /\ kind' = "web" /\ ~Succeeded'
        BY <2>2, <2>4, <3>2 DEF Succeeded
      <4> QED
        BY <1>1, <2>1, <2>3, <3>1, <3>2, <4>1 DEF InstallInv, Succeeded
    <3>3. CASE kind = "web"
      <4>1. pc' = "exited" /\ kind' = "web" /\ Done("headless")
        BY <2>1, <2>2, <3>3 DEF InstallInv, Finish
      <4> QED
        BY <1>1, <2>1, <2>3, <3>1, <3>3, <4>1 DEF InstallInv, Succeeded
    <3> QED
      BY <1>0, <3>2, <3>3 DEF Kinds
  <2>5. CASE code # 0
    <3>1. pc' = "exited" /\ status' # 0 /\ kind' = kind
      BY <2>2, <2>5 DEF Finish
    <3> QED
      BY <1>6, <2>1, <2>3, <3>1 DEF AtRest
  <2> QED
    BY <2>4, <2>5
<1>10. ASSUME NEW slot \in Slots, Transaction(slot) \/ Smoke(slot)
       PROVE  InstallInv'
  <2>1. UNCHANGED <<launch, kind, worlds>>
    BY <1>10 DEF Transaction, Smoke
  <2>2. CASE UNCHANGED <<pc, status>>
    <3>1. CASE pc = "idle"
      BY <2>2, <3>1 DEF InstallInv
    <3>2. CASE pc # "idle"
      BY <1>1, <2>1, <2>2, <3>2 DEF InstallInv, Succeeded
    <3> QED
      BY <3>1, <3>2
  <2>3. CASE ~UNCHANGED <<pc, status>>
    <3>1. slot = "child" /\ pc = "installing"
      BY <1>10, <2>3, AtWork DEF Transaction, Smoke, ScriptEnds, Slots
    <3>2. \/ pc' = "check" /\ ~Succeeded'
          \/ pc' = "exited" /\ status' = 1
      BY <1>10, <2>3 DEF Transaction, Smoke, ScriptEnds, Succeeded, Finish
    <3>3. CASE pc' = "check" /\ ~Succeeded'
      BY <1>1, <2>1, <3>1, <3>3 DEF InstallInv, Succeeded
    <3>4. CASE pc' = "exited" /\ status' = 1
      BY <1>6, <2>1, <3>1, <3>4 DEF AtRest
    <3> QED
      BY <3>2, <3>3, <3>4
  <2> QED
    BY <2>2, <2>3
<1> QED
  BY <1>2, <1>3, <1>5, <1>7, <1>8, <1>9, <1>10 DEF Next

\* All that holds at the beginning.
LEMMA InitInstall ==
  ASSUME GroundedDisks, UniqueLayers, OneSelector, Init
  PROVE  UniqueInv /\ SelectorInv /\ InstallInv
<1>1. PICK s \in Scenarios : agenda \in s.agendas /\ disk \in s.disks
  BY DEF Init
<1>2. UniqueInv
  BY <1>1 DEF UniqueLayers, UniqueInv
<1>3. pc = "idle" /\ \A slot \in Slots : script[slot] = NoScript
  BY DEF Init
<1>4. SelectorInv
  <2>1. \A c, d \in ToSet(agenda) : c.selector = d.selector
    BY <1>1 DEF OneSelector
  <2>2. \E v : \A c \in ToSet(agenda) : c.selector = v
    <3>1. CASE ToSet(agenda) = {}
      BY <3>1
    <3>2. ASSUME NEW d \in ToSet(agenda)
          PROVE  \E v : \A c \in ToSet(agenda) : c.selector = v
      BY <2>1, <3>2
    <3> QED
      BY <3>1, <3>2
  <2> QED
    BY <1>3, <2>2 DEF SelectorInv
<1>5. InstallInv
  BY <1>3 DEF InstallInv
<1> QED
  BY <1>2, <1>4, <1>5

\* InstallIsComplete, for any worlds, profiles, calls and disks: an installation that reports success
\* has left both profiles exact in the one distro it worked in, also when a script orphaned by an
\* earlier launch goes on there, provided it was started for the same DSH.
THEOREM InstallsAreComplete ==
  ASSUME GroundedDisks, UniqueLayers, OneSelector
  PROVE  Spec => []InstallIsComplete
<1> DEFINE Inv == LaunchInv /\ DiskInv /\ UniqueInv /\ SelectorInv /\ InstallInv
<1>1. Init => Inv
  BY InitInv, InitInstall
<1>2. Inv /\ [Next]_vars => Inv'
  BY LaunchStep, DiskStep, UniqueStep, SelectorStep, InstallStep
<1>3. Inv => InstallIsComplete
  <2> SUFFICES ASSUME Inv, Succeeded, options.mode = "install"
               PROVE  worlds # {} /\ \A k \in Kinds, w \in worlds : Complete(k, w)
    BY DEF InstallIsComplete, Succeeded
  <2>1. worlds = {Target(call)} /\ Done("headless") /\ Done("web")
    BY DEF InstallInv, Succeeded
  <2>2. ASSUME NEW k \in Kinds PROVE Complete(k, Target(call))
    <3>1. Whole(disk[Target(call)][ProfileOf(k, options.profile)], k, call.selector)
      BY <2>1 DEF Done, Kinds
    <3>2. Len(ExpectedBundles[k]) = 4
      BY Required
    <3> QED
      BY <3>1, <3>2 DEF Complete, Whole, Manifest
  <2> QED
    BY <2>1, <2>2
<1> QED
  BY <1>1, <1>2, <1>3, PTL DEF Spec

-----------------------------------------------------------------------------
(* A run: what it is given, where it goes. *)

\* The stages RunArgs goes through.
Product(c) == rewriteOrcanaWebInvocation(OptionsOf(c).dshArgs, OptionsOf(c).profile)
Plugin(c)  == IF c.windows THEN translateDshPluginPathSpecsForWsl(Product(c), OptionsOf(c).distro)
              ELSE [error |-> FALSE, distro |-> OptionsOf(c).distro, args |-> Product(c)]
Bridged(c) == parseWslBridgeArgs(canonicalBridgeArgs([OptionsOf(c) EXCEPT !.distro = Plugin(c).distro],
                                                     Plugin(c).args), c.env)
Given(c)   == dshArgsForBridge(Bridged(c))
Aim(c)     == BridgeTarget(c, Bridged(c), Given(c))
Final(c)   == IF c.windows THEN translateDshPathArgsForWsl(Given(c), Aim(c).world)
              ELSE [error |-> FALSE, args |-> Given(c)]

\* They are what RunArgs gives a launch that goes on with the options Start gave it.
LEMMA RunArgsMean ==
  ASSUME launch.options = OptionsOf(launch.call)
  PROVE  /\ Plugin(call).error \/ Bridged(call).error \/ Aim(call).error \/ Final(call).error => RunArgs.error
         /\ RunArgs.world = Aim(call).world /\ RunArgs.argv = Final(call).args
BY DEF RunArgs, Product, Plugin, Bridged, Given, Aim, Final, call, options

\* A different spelling leaves arguments clean.
LEMMA LikeClean ==
  ASSUME NEW d \in Seq(Typed), Clean(d), NEW t, Len(t) = Len(d), NEW w,
         \A i \in 1 .. Len(d) : Like(t[i], d[i], w)
  PROVE  Clean(t)
<1> SUFFICES ASSUME NEW i \in 1 .. Len(t), Kind(t[i]) \in BridgeFlags
             PROVE  \E j \in 1 .. i - 1 : t[j] = Sentinel
  BY DEF Clean
<1>1. Len(d) \in Nat
  OBVIOUS
<1>2. ASSUME NEW v PROVE Kind(<<"linux", v>>) \notin BridgeFlags /\ Kind(<<"slashed">>) \notin BridgeFlags
  BY DEF Kind, None, BridgeFlags, ModeFlags, ValueFlags, InlineOf
<1>3. t[i] = d[i]
  BY <1>1, <1>2 DEF Like
<1>4. PICK j \in 1 .. i - 1 : d[j] = Sentinel
  BY <1>1, <1>3 DEF Clean
<1>5. Kind(Sentinel) \notin {"backslashed", "drive", "unc"}
  BY DEF Kind, Sentinel, None
<1>6. Like(t[j], d[j], w)
  BY <1>1, <1>4
<1>7. t[j] = Sentinel
  BY <1>4, <1>5, <1>6 DEF Like
<1> QED
  BY <1>4, <1>7

\* Where the call's workspace and its arguments choose no distro, no environment does.
LEMMA Unchosen ==
  ASSUME NEW c, Accepted(c), OptionsOf(c).distro = None
  PROVE  c.env.distro = None /\ Parsed(c).distro = None /\ (c.windows => Owner(c.cwd) = None)
<1>1. c.args \in Seq(Arguments)
  BY CallType DEF Accepted
<1>2. Parsed(c).distro \in Arguments \cup {c.env.distro}
  BY <1>1, ParsedType DEF Parsed
<1>3. Home(c).distro = None
  BY Opted
<1>4. Parsed(c).distro = None
  BY <1>3 DEF Home, distroForWindowsWorkspace
<1> QED
  BY <1>2, <1>3, <1>4, LaunchAssumption DEF Home, distroForWindowsWorkspace

\* What an accepted call's options are.
LEMMA OptionsType ==
  ASSUME NEW c, Accepted(c)
  PROVE  /\ OptionsOf(c).distro \in Worlds \cup {None} /\ OptionsOf(c).dshArgs \in Seq(Arguments)
         /\ Clean(OptionsOf(c).dshArgs) /\ OptionsOf(c).mode \in Modes
         /\ OptionsOf(c).profile \in Profiles /\ orcanaWebProfileName(OptionsOf(c).profile) \in Profiles
<1>1. c \in Calls /\ ~Parsed(c).error /\ c.args \in Seq(Arguments)
  BY CallType DEF Accepted
<1>2. Parsed(c).dshArgs \in Seq(Arguments) /\ Clean(Parsed(c).dshArgs) /\ Parsed(c).mode \in Modes
  BY <1>1, ParsedType, ParsedClean DEF Parsed
<1>3. {ProfileOf(k, Parsed(c).profile) : k \in Kinds} \subseteq Profiles
  BY <1>1, CallType
<1>4. ProfileOf("headless", Parsed(c).profile) \in Profiles /\ ProfileOf("web", Parsed(c).profile) \in Profiles
  BY <1>3 DEF Kinds
<1>5. Parsed(c).profile \in Profiles /\ orcanaWebProfileName(Parsed(c).profile) \in Profiles
  BY <1>4 DEF ProfileOf
<1> QED
  BY <1>2, <1>5, Opted, HomeType

\* The bridge parses the run to what the launcher made of it.
LEMMA BridgedRun ==
  ASSUME NEW c, Accepted(c), OptionsOf(c).mode = "run", ~Plugin(c).error
  PROVE  /\ Bridged(c) = [error |-> FALSE, distro |-> Plugin(c).distro, profile |-> OptionsOf(c).profile,
                          mode |-> "run", dshArgs |-> Plugin(c).args]
         /\ Plugin(c).distro \in Worlds \cup {None}
         /\ OptionsOf(c).distro # None => Plugin(c).distro = OptionsOf(c).distro
         /\ Product(c) \in Seq(Typed) /\ Clean(Product(c))
         /\ Plugin(c).args \in Seq(Spelled) /\ Len(Plugin(c).args) = Len(Product(c))
         /\ \A i \in 1 .. Len(Product(c)) : Like(Plugin(c).args[i], Product(c)[i], OptionsOf(c).distro)
<1> DEFINE o == OptionsOf(c)
           p == Plugin(c)
           r == Product(c)
<1>1. /\ o.distro \in Worlds \cup {None} /\ o.dshArgs \in Seq(Arguments) /\ Clean(o.dshArgs)
      /\ o.profile \in Profiles /\ orcanaWebProfileName(o.profile) \in Profiles
  BY OptionsType
<1>2. r \in Seq(Typed) /\ Clean(r)
  BY <1>1, Rewritten DEF Product
<1> HIDE DEF r
<1>3. /\ p.distro \in Worlds \cup {None} /\ (o.distro # None => p.distro = o.distro)
      /\ p.args \in Seq(Spelled) /\ Len(p.args) = Len(r)
      /\ \A i \in 1 .. Len(r) : Like(p.args[i], r[i], o.distro)
  <2>1. CASE c.windows
    <3>1. p = translateDshPluginPathSpecsForWsl(r, o.distro)
      BY <2>1 DEF Plugin, r
    <3> HIDE DEF p
    <3> QED
      BY <1>1, <1>2, <3>1, SpecsTranslated DEF p
  <2>2. CASE ~c.windows
    <3>1. p.distro = o.distro /\ p.args = r
      BY <2>2 DEF Plugin, r
    <3> QED
      BY <1>1, <1>2, <3>1 DEF Spelled, Like
  <2> QED
    BY <2>1, <2>2
<1>4. Clean(p.args)
  BY <1>2, <1>3, LikeClean
<1>5. p.distro # EmptyText /\ o.profile # EmptyText
  <2>1. None # EmptyText
    BY DEF None, EmptyText
  <2> HIDE DEF o, p
  <2> QED
    BY <1>1, <1>3, <2>1, LaunchAssumption
<1>6. p.distro = None => c.env.distro = None
  BY <1>3, Unchosen
<1> DEFINE q == [o EXCEPT !.distro = p.distro]
<1>7. q.mode = "run" /\ q.distro = p.distro /\ q.profile = o.profile
  BY DEF OptionsOf, Parsed, parseWslBridgeArgs
<1>8. Bridged(c) = parseWslBridgeArgs(canonicalBridgeArgs(q, p.args), c.env)
  BY DEF Bridged
<1> HIDE DEF q, p, o
<1>9. parseWslBridgeArgs(canonicalBridgeArgs(q, p.args), c.env) =
        [error |-> FALSE, distro |-> IF q.distro = None THEN c.env.distro ELSE q.distro, profile |-> q.profile,
         mode |-> "run", dshArgs |-> p.args]
  BY <1>3, <1>4, <1>5, <1>7, Reparsed
<1>10. (IF q.distro = None THEN c.env.distro ELSE q.distro) = p.distro
  BY <1>6, <1>7
<1> QED
  BY <1>2, <1>3, <1>7, <1>8, <1>9, <1>10 DEF p, o, r

\* DSH's arguments name no path but by one of the kinds there are.
LEMMA SpelledKinds ==
  ASSUME NEW x \in Spelled
  PROVE  /\ x # None /\ Kind(x) = x[1] /\ Owner(x) \in Worlds \cup {None}
         /\ Kind(x) = "--patch=" => x[2] \in Arguments
<1>1. CASE x \in Typed
  BY <1>1, TypedKinds DEF Kind
<1>2. CASE x = <<"slashed">>
  BY <1>2 DEF Kind, Owner, None
<1>3. CASE \E w \in Worlds : x = <<"linux", w>>
  BY <1>3 DEF Kind, Owner, None
<1> QED
  BY <1>1, <1>2, <1>3 DEF Spelled

\* What DSH is given are the bridge's arguments, with the profile in front if they leave it open.
LEMMA GivenType ==
  ASSUME NEW c, Accepted(c), OptionsOf(c).mode = "run", ~Plugin(c).error
  PROVE  /\ Given(c) \in Seq(Spelled)
         /\ \A i \in 1 .. Len(Given(c)) :
              \/ Given(c)[i] \in Typed
              \/ \E j \in 1 .. Len(Product(c)) : Like(Given(c)[i], Product(c)[j], OptionsOf(c).distro)
         /\ \A i \in 1 .. Len(Given(c)) : Owner(PathAt(Given(c), i)) \in Worlds \cup {None}
<1> DEFINE a == Plugin(c).args
           h == << <<"--profile">>, OptionsOf(c).profile >>
           g == Given(c)
           T == Len(Product(c))
           Meant(x) == x \in Typed \/ \E j \in 1 .. T : Like(x, Product(c)[j], OptionsOf(c).distro)
<1>1. /\ Bridged(c).dshArgs = a /\ Bridged(c).profile = OptionsOf(c).profile
      /\ a \in Seq(Spelled) /\ Len(a) = T /\ T \in Nat
      /\ \A i \in 1 .. T : Like(a[i], Product(c)[i], OptionsOf(c).distro)
  BY BridgedRun
<1>2. OptionsOf(c).profile \in Profiles
  BY OptionsType
<1>3. h \in Seq(Spelled) /\ Len(h) = 2 /\ h[1] \in Typed /\ h[2] \in Typed
  BY <1>2 DEF Spelled, Typed
<1>4. g = a \/ g = h \o a
  BY <1>1 DEF Given, dshArgsForBridge
<1>5. \A i \in 1 .. T : Meant(a[i])
  BY <1>1
<1>6. Meant(h[1]) /\ Meant(h[2])
  BY <1>3
<1> HIDE DEF a, h, g, T, Meant
<1>7. g \in Seq(Spelled) /\ \A i \in 1 .. Len(g) : Meant(g[i])
  <2>1. CASE g = a
    BY <1>1, <1>5, <2>1
  <2>2. CASE g = h \o a
    <3>1. /\ g \in Seq(Spelled) /\ Len(g) = Len(h) + Len(a)
          /\ \A i \in 1 .. Len(h) + Len(a) : g[i] = IF i <= Len(h) THEN h[i] ELSE a[i - Len(h)]
      BY <1>1, <1>3, <2>2, ConcatProperties
    <3>2. ASSUME NEW i \in 1 .. Len(g) PROVE Meant(g[i])
      <4>1. CASE i <= 2
        <5>1. i = 1 \/ i = 2
          BY <1>1, <1>3, <3>1, <4>1
        <5>2. g[i] = h[i]
          BY <1>3, <3>1, <3>2, <4>1
        <5> QED
          BY <1>6, <5>1, <5>2
      <4>2. CASE ~(i <= 2)
        <5>1. i - 2 \in 1 .. T /\ g[i] = a[i - 2]
          BY <1>1, <1>3, <3>1, <3>2, <4>2
        <5> QED
          BY <1>5, <5>1
      <4> QED
        BY <4>1, <4>2
    <3> QED
      BY <3>1, <3>2
  <2> QED
    BY <1>4, <2>1, <2>2
<1>8. ASSUME NEW i \in 1 .. Len(g) PROVE Owner(PathAt(g, i)) \in Worlds \cup {None}
  <2>1. g[i] \in Spelled
    BY <1>7
  <2> QED
    BY <2>1, SpelledKinds, LaunchAssumption DEF PathAt
<1> QED
  BY <1>7, <1>8 DEF g, Meant, T

\* A run goes to a distro there is, and to the chosen one if one is chosen.
LEMMA RunWorld ==
  ASSUME NEW c, Accepted(c), OptionsOf(c).mode = "run", ~Plugin(c).error
  PROVE  /\ Aim(c).world \in Worlds
         /\ c.windows /\ OptionsOf(c).distro # None => Aim(c).world = OptionsOf(c).distro
<1> DEFINE o == OptionsOf(c)
           inferred == inferWslDistroFromDshPathArgs(Given(c)).distro
           b == Bridged(c).distro
           chosen == CASE b # None -> b
                       [] b = None /\ Owner(c.cwd) # None -> Owner(c.cwd)
                       [] OTHER -> inferred
           mapped == windowsPathToWsl(c.cwd, chosen)
<1>1. DefaultDistro \in Worlds /\ Owner(c.cwd) \in Worlds \cup {None}
  BY HomeType, LaunchAssumption
<1>2. b \in Worlds \cup {None} /\ (o.distro # None => b = o.distro)
  BY BridgedRun
<1>3. inferred \in Worlds \cup {None}
  <2> DEFINE owners == {Owner(PathAt(Given(c), i)) : i \in collectDshPatchPathRefs(Given(c))} \ {None}
  <2>1. inferred = IF owners = {} THEN None ELSE CHOOSE d \in owners : TRUE
    BY DEF inferWslDistroFromDshPathArgs
  <2>2. collectDshPatchPathRefs(Given(c)) \subseteq 1 .. Len(Given(c))
    <3>1. DOMAIN Given(c) = 1 .. Len(Given(c))
      BY GivenType
    <3> QED
      BY <3>1 DEF collectDshPatchPathRefs
  <2>3. \A i \in collectDshPatchPathRefs(Given(c)) : Owner(PathAt(Given(c), i)) \in Worlds \cup {None}
    BY <2>2, GivenType
  <2>4. owners \subseteq Worlds
    BY <2>3
  <2> HIDE DEF owners, inferred
  <2> QED
    BY <2>1, <2>4
<1>4. Aim(c).world = IF ~c.windows THEN DefaultDistro ELSE World(mapped.distro)
  BY DEF Aim, BridgeTarget
<1> HIDE DEF b, inferred, o
<1>5. chosen \in Worlds \cup {None} /\ (b # None => chosen = b)
  BY <1>1, <1>2, <1>3
<1> HIDE DEF chosen
<1>6. mapped.distro \in Worlds \cup {None} /\ (chosen # None => mapped.distro = chosen)
  BY <1>1, <1>5 DEF windowsPathToWsl
<1> HIDE DEF mapped
<1> QED
  BY <1>1, <1>2, <1>4, <1>5, <1>6 DEF World, o

\* Where a launch chooses a distro, DSH is given no path as another distro names it.
LEMMA RunPaths ==
  ASSUME NEW c, Accepted(c), OptionsOf(c).mode = "run", ~Plugin(c).error, ~Final(c).error,
         c.windows, OptionsOf(c).distro # None, NEW i \in DOMAIN Final(c).args, PathAt(Final(c).args, i)[1] = "linux"
  PROVE  PathAt(Final(c).args, i)[2] = OptionsOf(c).distro
<1> DEFINE d == OptionsOf(c).distro
           g == Given(c)
           w == Aim(c).world
           refs == collectDshPatchPathRefs(g)
           mapped(j) == windowsArgumentPathToWsl(PathAt(g, j), w)
           a == Final(c).args
<1>1. w = d /\ d \in Worlds
  BY RunWorld
<1>2. g \in Seq(Spelled) /\ DOMAIN g = 1 .. Len(g)
  BY GivenType
<1>3. /\ \A j \in refs : ~mapped(j).error
      /\ a = [j \in DOMAIN g |->
                IF j \notin refs THEN g[j]
                ELSE IF Kind(g[j]) = "--patch=" THEN <<"--patch=", mapped(j).path>> ELSE mapped(j).path]
  BY DEF Final, translateDshPathArgsForWsl
<1>4. i \in 1 .. Len(g) /\ g[i] \in Spelled
  BY <1>2, <1>3
<1>5. PathAt(g, i)[1] = "linux" => PathAt(g, i) = <<"linux", d>>
  <2>1. CASE Kind(g[i]) = "--patch="
    <3>1. g[i][2] \in Arguments /\ PathAt(g, i) = g[i][2]
      BY <1>4, <2>1, SpelledKinds DEF PathAt
    <3> QED
      BY <3>1, LaunchAssumption DEF Kind
  <2>2. CASE Kind(g[i]) # "--patch="
    <3>1. PathAt(g, i) = g[i] /\ Kind(g[i]) = g[i][1]
      BY <1>4, <2>2, SpelledKinds DEF PathAt
    <3>2. \/ g[i] \in Typed
          \/ \E j \in 1 .. Len(Product(c)) : Like(g[i], Product(c)[j], d)
      BY <1>4, GivenType
    <3>3. g[i] \in Typed => g[i][1] # "linux"
      BY <3>1, TypedKinds
    <3>4. ASSUME NEW j \in 1 .. Len(Product(c)), Like(g[i], Product(c)[j], d), g[i][1] = "linux"
          PROVE  g[i] = <<"linux", d>>
      <4>1. Product(c)[j] \in Typed
        BY BridgedRun
      <4>2. g[i] # Product(c)[j]
        BY <3>1, <3>4, <4>1, TypedKinds
      <4>3. <<"slashed">>[1] # "linux"
        OBVIOUS
      <4> QED
        BY <3>4, <4>2, <4>3 DEF Like
    <3> QED
      BY <3>1, <3>2, <3>3, <3>4
  <2> QED
    BY <2>1, <2>2
<1>6. CASE i \notin refs
  <2>1. PathAt(a, i) = PathAt(g, i)
    BY <1>2, <1>3, <1>4, <1>6 DEF PathAt
  <2> QED
    BY <1>5, <2>1
<1>7. CASE i \in refs
  <2> DEFINE p == PathAt(g, i)
  <2>1. \/ mapped(i).path = <<"linux", d>>
        \/ mapped(i).path = <<"slashed">>
        \/ mapped(i).path = p
    <3>1. ~windowsArgumentPathToWsl(p, d).error
      BY <1>1, <1>3, <1>7
    <3>2. windowsArgumentPathToWsl(p, d).path \in {<<"linux", d>>, <<"slashed">>, p}
      BY <3>1 DEF windowsArgumentPathToWsl, windowsPathToWsl, World
    <3> QED
      BY <1>1, <3>2
  <2>2. PathAt(a, i) = mapped(i).path
    <3>1. CASE Kind(g[i]) = "--patch="
      <4>1. a[i] = <<"--patch=", mapped(i).path>>
        BY <1>2, <1>3, <1>4, <1>7, <3>1
      <4> QED
        BY <4>1 DEF PathAt, Kind, None
    <3>2. CASE Kind(g[i]) # "--patch="
      <4>1. a[i] = mapped(i).path /\ p = g[i]
        BY <1>2, <1>3, <1>4, <1>7, <3>2 DEF PathAt
      <4>2. Kind(mapped(i).path) # "--patch="
        BY <2>1, <3>2, <4>1 DEF Kind, None
      <4> QED
        BY <4>1, <4>2 DEF PathAt
    <3> QED
      BY <3>1, <3>2
  <2>3. mapped(i).path[1] = "linux"
    BY <2>2
  <2>4. <<"slashed">>[1] # "linux"
    OBVIOUS
  <2> HIDE DEF mapped
  <2>5. mapped(i).path = <<"linux", d>>
    BY <1>5, <2>1, <2>3, <2>4
  <2> QED
    BY <2>2, <2>5
<1> QED
  BY <1>6, <1>7

\* Its other children go where its options say.
LEMMA TargetMeans ==
  ASSUME NEW c, Accepted(c)
  PROVE  /\ Target(c) = IF c.windows THEN World(OptionsOf(c).distro) ELSE DefaultDistro
         /\ c.windows /\ OptionsOf(c).distro # None => Target(c) = OptionsOf(c).distro
<1> DEFINE o == OptionsOf(c)
<1>1. inferWslDistroFromDshPathArgs(<<>>).distro = None
  BY DEF inferWslDistroFromDshPathArgs, collectDshPatchPathRefs
<1>2. o.distro = None => (c.windows => Owner(c.cwd) = None)
  BY Unchosen
<1> HIDE DEF o
<1>3. Target(c) = IF c.windows THEN World(o.distro) ELSE DefaultDistro
  BY <1>1, <1>2 DEF Target, BridgeTarget, windowsPathToWsl, World, o
<1> QED
  BY <1>3 DEF World, o

\* This launch chooses a distro.
Chooses == call.windows /\ options.distro # None

\* Where the launcher may be.
Moments == AtRest \cup {"gate", "run", "running", "install", "installing", "check",
                        "doctor", "doctor-profile", "other-doctors"}

\* Every path that was translated is named as d names it.
NamedBy(argv, d) == \A i \in DOMAIN argv : PathAt(argv, i)[1] = "linux" => PathAt(argv, i)[2] = d

\* A launch has started its children, and named its paths, where it chose to.
WorldInv ==
  /\ pc \in Moments /\ status \in Nat /\ faults \in Nat
  /\ worlds \subseteq Worlds /\ verified \subseteq Profiles \X Worlds
  /\ pc \in {"gate", "run"} => options.mode = "run"
  /\ pc = "idle" => worlds = {}
  /\ pc # "idle" => /\ options.mode # "run" => worlds \subseteq {Target(call)}
                    /\ Chooses => worlds \subseteq {options.distro} /\ NamedBy(ran.argv, options.distro)

\* A step of a launch that goes nowhere but where its options say.
LEMMA StayingStep ==
  ASSUME LaunchInv, WorldInv, pc \notin AtRest, launch' = launch, ran' = ran,
         worlds' \subseteq worlds \cup {Target(call)}, verified' \subseteq Profiles \X Worlds,
         faults' \in Nat, status' \in Nat, pc' \in Moments \ {"idle"},
         pc' \in {"gate", "run"} => pc \in {"gate", "run"}
  PROVE  WorldInv'
<1>1. Accepted(call) /\ options = OptionsOf(call) /\ pc # "idle"
  BY DEF LaunchInv, AtRest, call, options
<1>2. call' = call /\ options' = options
  BY DEF call, options
<1>3. Target(call)' = Target(call) /\ Chooses' = Chooses
  BY <1>2 DEF Chooses
<1>4. Target(call) \in Worlds /\ (Chooses => Target(call) = options.distro)
  BY <1>1, TargetType, TargetMeans DEF Chooses
<1> QED
  BY <1>1, <1>2, <1>3, <1>4 DEF WorldInv

\* Every step keeps to where it may go.
LEMMA WorldStep ==
  ASSUME LaunchInv, WorldInv, [Next]_vars
  PROVE  WorldInv'
<1>a. pc \notin AtRest => /\ Accepted(call) /\ options = OptionsOf(call) /\ Target(call) \in Worlds
                          /\ LauncherWorld = Target(call)
                          /\ BridgeTarget(call, options, <<>>).world = Target(call)
  <2> SUFFICES ASSUME pc \notin AtRest
               PROVE  /\ Accepted(call) /\ options = OptionsOf(call) /\ Target(call) \in Worlds
                      /\ LauncherWorld = Target(call)
                      /\ BridgeTarget(call, options, <<>>).world = Target(call)
    OBVIOUS
  <2>1. Accepted(call) /\ options = OptionsOf(call)
    BY DEF LaunchInv, AtRest, call, options
  <2> QED
    BY <2>1, TargetType, TargetMeans DEF LauncherWorld, Target
<1>b. worlds \subseteq Worlds /\ verified \subseteq Profiles \X Worlds /\ faults \in Nat /\ status \in Nat
      /\ kind \in Kinds
  BY DEF WorldInv, LaunchInv
<1>c. pc \notin AtRest => \A k \in Kinds : ProfileOf(k, options.profile) \in Profiles
  <2> SUFFICES ASSUME pc \notin AtRest, NEW k \in Kinds PROVE ProfileOf(k, options.profile) \in Profiles
    OBVIOUS
  <2>1. options.profile \in Profiles /\ orcanaWebProfileName(options.profile) \in Profiles
    BY <1>a, OptionsType
  <2> QED
    BY <2>1 DEF ProfileOf
<1>1. CASE UNCHANGED vars
  BY <1>1 DEF WorldInv, vars, Chooses, call, options, NamedBy, Target
<1>2. CASE Start
  <2>1. /\ worlds' = {} /\ verified' = {} /\ ran' = NotRun /\ faults' = faults
        /\ launch'.call = Head(agenda) /\ launch'.options = OptionsOf(Head(agenda))
        /\ \/ pc' = "exited" /\ status' = 1
           \/ /\ pc' = [run |-> "gate", install |-> "install", doctor |-> "doctor"][Parsed(Head(agenda)).mode]
              /\ status' = 0
    BY <1>2 DEF Start, OptionsOf, Home, Parsed, Finish
  <2>2. Head(agenda) \in Calls
    BY <1>2 DEF Start, LaunchInv
  <2>3. Parsed(Head(agenda)).mode \in Modes
    BY <2>2, ParsedType, LaunchAssumption, CallType DEF Parsed
  <2>4. OptionsOf(Head(agenda)).mode = Parsed(Head(agenda)).mode
    BY Opted
  <2>5. pc' \in Moments /\ status' \in Nat /\ (pc' \in {"gate", "run"} => options'.mode = "run")
    BY <2>1, <2>3, <2>4 DEF Modes, Moments, AtRest, options
  <2>6. NamedBy(<<>>, options'.distro)
    BY DEF NamedBy
  <2>7. ran'.argv = <<>>
    BY <2>1 DEF NotRun
  <2> QED
    BY <1>b, <2>1, <2>5, <2>6, <2>7 DEF WorldInv
<1>3. CASE TranslationFails \/ Kill
  <2>1. /\ pc \notin AtRest /\ launch' = launch /\ ran' = ran /\ worlds' = worlds /\ verified' = verified
        /\ faults' \in Nat /\ status' \in Nat /\ pc' \in {"exited", "killed"}
    BY <1>3, <1>b DEF TranslationFails, Kill, Finish, AtRest
  <2> QED
    BY <1>b, <2>1, StayingStep DEF Moments, AtRest
<1>4. CASE Gate
  <2>1. pc = "gate" /\ launch' = launch /\ ran' = ran
    BY <1>4 DEF Gate
  <2>2. CASE UNCHANGED <<worlds, verified, faults>>
    <3>1. status' \in Nat /\ pc' \in {"run", "exited"}
      BY <1>4, <1>b DEF Gate, Finish, Checked
    <3> QED
      BY <1>b, <2>1, <2>2, <3>1, StayingStep DEF Moments, AtRest
  <2>3. CASE ~UNCHANGED <<worlds, verified, faults>>
    <3> DEFINE required == requiredOrcanaProfileForRun(options.dshArgs, options.profile)
    <3>1. required # "none" /\ \E code \in {0, 2, 66, 67, 68, 127} :
            /\ Checked(LauncherWorld, required, FALSE, code)
            /\ IF code = 0 THEN pc' = "run" /\ UNCHANGED status ELSE Finish(code)
      BY <1>4, <2>3 DEF Gate
    <3>2. PICK code \in {0, 2, 66, 67, 68, 127} :
            /\ Checked(LauncherWorld, required, FALSE, code)
            /\ IF code = 0 THEN pc' = "run" /\ UNCHANGED status ELSE Finish(code)
      BY <3>1
    <3>3. required \in Kinds
      BY <3>1 DEF requiredOrcanaProfileForRun, Kinds
    <3>4. LauncherWorld = Target(call) /\ Target(call) \in Worlds /\ pc \notin AtRest
      BY <1>a, <2>1 DEF AtRest
    <3> HIDE DEF required
    <3>5. /\ worlds' = worlds \cup {Target(call)} /\ verified' \subseteq Profiles \X Worlds /\ faults' \in Nat
          /\ code \in Nat
      BY <1>b, <1>c, <3>2, <3>3, <3>4 DEF Checked
    <3>6. status' \in Nat /\ pc' \in {"run", "exited"}
      BY <1>b, <3>2, <3>5 DEF Finish
    <3> QED
      BY <2>1, <3>4, <3>5, <3>6, StayingStep DEF Moments, AtRest
  <2> QED
    BY <2>2, <2>3
<1>5. CASE Run
  <2>1. /\ pc = "run" /\ options.mode = "run" /\ launch' = launch /\ faults' = faults /\ verified' = verified
    BY <1>5 DEF Run, WorldInv
  <2>2. Accepted(call) /\ options = OptionsOf(call) /\ pc \notin AtRest
    BY <1>a, <2>1 DEF AtRest
  <2>3. status' \in Nat /\ pc' \in {"running", "exited"}
    BY <1>5, <1>b DEF Run, Finish
  <2>4. CASE RunArgs.error
    <3>1. worlds' = worlds /\ ran' = ran
      BY <1>5, <2>4 DEF Run
    <3> QED
      BY <1>b, <2>1, <2>2, <2>3, <3>1, StayingStep DEF Moments, AtRest
  <2>5. CASE ~RunArgs.error
    <3>1. worlds' = worlds \cup {RunArgs.world} /\ (ran' = ran \/ ran'.argv = RunArgs.argv)
      BY <1>5, <2>5 DEF Run
    <3>2. /\ ~Plugin(call).error /\ ~Final(call).error
          /\ RunArgs.world = Aim(call).world /\ RunArgs.argv = Final(call).args
      <4>1. launch.options = OptionsOf(launch.call)
        BY <2>2 DEF call, options
      <4> QED
        BY <2>5, <4>1, RunArgsMean
    <3>3. Aim(call).world \in Worlds /\ (Chooses => Aim(call).world = options.distro)
      BY <2>1, <2>2, <3>2, RunWorld DEF Chooses
    <3>4. Chooses => NamedBy(Final(call).args, options.distro)
      BY <2>1, <2>2, <3>2, RunPaths DEF Chooses, NamedBy
    <3>5. call' = call /\ options' = options /\ Chooses' = Chooses
      BY <2>1 DEF Chooses, call, options
    <3>6. Chooses => worlds \subseteq {options.distro} /\ NamedBy(ran.argv, options.distro)
      BY <2>1 DEF WorldInv
    <3>7. Chooses => worlds' \subseteq {options.distro} /\ NamedBy(ran'.argv, options.distro)
      BY <3>1, <3>2, <3>3, <3>4, <3>6
    <3> QED
      BY <1>b, <2>1, <2>3, <3>1, <3>2, <3>3, <3>5, <3>7 DEF WorldInv, Moments, AtRest
  <2> QED
    BY <2>4, <2>5
<1>6. CASE RunEnds \/ OtherDoctors
  <2>1. /\ pc \notin AtRest /\ launch' = launch /\ ran' = ran /\ worlds' = worlds /\ verified' = verified
        /\ faults' = faults /\ status' \in Nat /\ pc' = "exited"
    BY <1>6 DEF RunEnds, OtherDoctors, Finish, AtRest
  <2> QED
    BY <1>b, <2>1, StayingStep DEF Moments, AtRest
<1>7. CASE StartScript \/ Doctor
  <2>1. pc \notin AtRest /\ launch' = launch /\ ran' = ran /\ verified' = verified /\ faults' = faults
    BY <1>7 DEF StartScript, Doctor, AtRest
  <2>2. BridgeTarget(call, options, <<>>).world = Target(call)
    BY <1>a, <2>1
  <2>3. /\ worlds' \subseteq worlds \cup {Target(call)} /\ status' \in Nat
        /\ pc' \in {"exited", "installing", "doctor-profile"}
    BY <1>7, <1>b, <2>2 DEF StartScript, Doctor, Finish, PreflightStatus
  <2> QED
    BY <1>b, <2>1, <2>3, StayingStep DEF Moments, AtRest
<1>8. CASE CheckInstalled
  <2>1. pc \notin AtRest /\ launch' = launch /\ ran' = ran
    BY <1>8 DEF CheckInstalled, AtRest
  <2>2. PICK code \in {0, 2, 66, 67, 68, 127} :
          /\ Checked(BridgeTarget(call, options, <<>>).world, kind, TRUE, code)
          /\ IF code = 0 /\ kind = "headless" THEN pc' = "install" /\ kind' = "web" /\ UNCHANGED status
             ELSE Finish(code) /\ UNCHANGED kind
    BY <1>8 DEF CheckInstalled
  <2>3. Checked(Target(call), kind, TRUE, code) /\ Target(call) \in Worlds
    BY <1>a, <2>1, <2>2
  <2>4. /\ worlds' = worlds \cup {Target(call)} /\ verified' \subseteq Profiles \X Worlds /\ faults' \in Nat
        /\ code \in Nat
    BY <1>b, <1>c, <2>1, <2>3 DEF Checked
  <2>5. status' \in Nat /\ pc' \in {"install", "exited"}
    BY <1>b, <2>2, <2>4 DEF Finish
  <2> QED
    BY <2>1, <2>4, <2>5, StayingStep DEF Moments, AtRest
<1>9. CASE DoctorProfile
  <2>1. pc = "doctor-profile" /\ pc \notin AtRest /\ launch' = launch /\ ran' = ran
    BY <1>9 DEF DoctorProfile, AtRest
  <2>2. PICK code \in {0, 2, 66, 67, 68, 127} :
          /\ IF Exact(call.selector)
             THEN Checked(IF kind = "headless" THEN BridgeTarget(call, options, <<>>).world ELSE LauncherWorld,
                          kind, TRUE, code)
             ELSE code = 0 /\ UNCHANGED <<worlds, verified, faults>>
          /\ IF code \notin {0, 2} THEN Finish(code) /\ UNCHANGED kind
             ELSE IF kind = "headless" THEN kind' = "web" /\ UNCHANGED <<pc, status>>
             ELSE IF call.windows THEN pc' = "other-doctors" /\ UNCHANGED <<kind, status>>
             ELSE Finish(0) /\ UNCHANGED kind
    BY <1>9 DEF DoctorProfile
  <2>3. status' \in Nat /\ pc' \in {"doctor-profile", "other-doctors", "exited"}
    BY <1>b, <2>1, <2>2 DEF Finish
  <2>4. CASE Exact(call.selector)
    <3>1. Checked(Target(call), kind, TRUE, code) /\ Target(call) \in Worlds
      BY <1>a, <2>1, <2>2, <2>4
    <3>2. worlds' = worlds \cup {Target(call)} /\ verified' \subseteq Profiles \X Worlds /\ faults' \in Nat
      BY <1>b, <1>c, <2>1, <3>1 DEF Checked
    <3> QED
      BY <2>1, <2>3, <3>2, StayingStep DEF Moments, AtRest
  <2>5. CASE ~Exact(call.selector)
    BY <1>b, <2>1, <2>2, <2>3, <2>5, StayingStep DEF Moments, AtRest
  <2> QED
    BY <2>4, <2>5
<1>10. ASSUME NEW slot \in Slots, Transaction(slot) \/ Smoke(slot)
       PROVE  WorldInv'
  <2>1. /\ launch' = launch /\ ran' = ran /\ worlds' = worlds /\ verified' = verified /\ faults' \in Nat
    BY <1>10, <1>b DEF Transaction, Smoke
  <2>2. CASE UNCHANGED <<pc, status>>
    BY <2>1, <2>2 DEF WorldInv, Chooses, call, options, Target
  <2>3. CASE ~UNCHANGED <<pc, status>>
    <3>1. slot = "child" /\ pc = "installing"
      BY <1>10, <2>3, AtWork DEF Transaction, Smoke, ScriptEnds, Slots
    <3>2. status' \in Nat /\ pc' \in {"check", "exited"}
      BY <1>10, <1>b, <2>3 DEF Transaction, Smoke, ScriptEnds, Finish
    <3> QED
      BY <1>b, <2>1, <3>1, <3>2, StayingStep DEF Moments, AtRest
  <2> QED
    BY <2>2, <2>3
<1> QED
  BY <1>1, <1>2, <1>3, <1>4, <1>5, <1>6, <1>7, <1>8, <1>9, <1>10 DEF Next

\* That holds at the beginning.
LEMMA InitWorld ==
  ASSUME Init
  PROVE  WorldInv
<1>1. PICK s \in Scenarios : faults = s.faults
  BY DEF Init
<1> QED
  BY <1>1, LaunchAssumption DEF Init, WorldInv, Moments, AtRest

\* The types, for any worlds, profiles, calls and disks: a launch only ever starts its children in a
\* distro there is, and only there keeps what it has checked; and no installation, however it ends or
\* is repeated, makes a manifest that is none.
THEOREM LauncherType ==
  ASSUME GroundedDisks
  PROVE  Spec => []TypeOK
<1>1. LaunchInv /\ DiskInv /\ WorldInv => TypeOK
  <2> SUFFICES ASSUME LaunchInv, DiskInv, WorldInv PROVE TypeOK
    OBVIOUS
  <2>1. \A slot \in Slots :
          \/ script[slot] = NoScript
          \/ script[slot].next \in 1..5 /\ script[slot].world \in Worlds /\ script[slot].profile \in Profiles
    BY DEF DiskInv, Working
  <2> QED
    BY <2>1 DEF TypeOK, LaunchInv, DiskInv, WorldInv, Moments
<1>2. Init => WorldInv
  BY InitWorld
<1>3. LaunchInv /\ WorldInv /\ [Next]_vars => WorldInv'
  BY WorldStep
<1>4. Spec => [](LaunchInv /\ DiskInv)
  BY InvariantLaunch
<1> QED
  BY <1>1, <1>2, <1>3, <1>4, PTL DEF Spec

\* ChosenWorldIsKept, for any worlds, profiles and calls: where a flag, the environment or the
\* workspace chooses a distro, every child of the launch runs in it, and DSH is given no path as
\* another names it; and an installation or a doctor never spreads over two, whoever chose.
THEOREM WorldIsKept == Spec => []ChosenWorldIsKept
<1>1. LaunchInv /\ WorldInv => ChosenWorldIsKept
  <2> SUFFICES ASSUME LaunchInv, WorldInv PROVE ChosenWorldIsKept
    OBVIOUS
  <2>1. ASSUME call.windows, options.distro # None, pc # "idle"
        PROVE  /\ worlds \subseteq {options.distro}
               /\ \A i \in DOMAIN ran.argv : PathAt(ran.argv, i)[1] = "linux" => PathAt(ran.argv, i)[2] = options.distro
    BY <2>1 DEF WorldInv, Chooses, NamedBy
  <2>2. ASSUME options.mode \in {"install", "doctor"} PROVE Cardinality(worlds) <= 1
    <3>1. worlds \subseteq {Target(call)}
      BY <2>2 DEF WorldInv, Modes
    <3>2. worlds = {} \/ worlds = {Target(call)}
      BY <3>1
    <3>3. CASE worlds = {}
      <4>1. Cardinality({}) = 0
        BY FS_EmptySet
      <4> QED
        BY <3>3, <4>1
    <3>4. CASE worlds = {Target(call)}
      <4>1. Cardinality({Target(call)}) = 1
        BY FS_Singleton, Zenon
      <4> QED
        BY <3>4, <4>1
    <3> QED
      BY <3>2, <3>3, <3>4
  <2> QED
    BY <2>1, <2>2 DEF ChosenWorldIsKept
<1>2. Init => LaunchInv /\ WorldInv
  BY InitLaunch, InitWorld
<1>3. (LaunchInv /\ WorldInv) /\ [Next]_vars => (LaunchInv /\ WorldInv)'
  BY LaunchStep, WorldStep
<1> QED
  BY <1>1, <1>2, <1>3, PTL DEF Spec

-----------------------------------------------------------------------------
(* Which profile DSH boots. *)

\* The search for DSH's profile goes as its definition says.
LEMMA RootEquation ==
  ASSUME NEW S, NEW args \in Seq(S)
  PROVE  /\ RootScan(args)[0] = "flag"
         /\ \A n \in 1 .. Len(args) : RootScan(args)[n] = RootTurn(RootScan(args)[n - 1], args[n])
<1> DEFINE N == Len(args)
           V == {"flag", "value", "over"}
           b == "flag"
           Def(f) == [n \in 0 .. N |-> IF n = 0 THEN "flag" ELSE RootTurn(f[n - 1], args[n])]
           G == [n \in 1 .. N |-> [v \in V |-> RootTurn(v, args[n])]]
           next == CHOOSE f : f = Def(f)
<1>1. N \in Nat /\ b \in V
  OBVIOUS
<1>2. G \in [1 .. N -> [V -> V]]
  BY DEF RootTurn
<1>3. PICK f : Iterates(N, V, b, G, f)
  <2> HIDE DEF G, N, V, b
  <2> QED
    BY <1>1, <1>2, PositionRecursion
<1>4. f = Def(f)
  <2>1. /\ f \in [0 .. N -> V] /\ f[0] = "flag"
        /\ \A n \in 1 .. N : f[n] = G[n][f[n - 1]]
    BY <1>3 DEF Iterates
  <2>2. ASSUME NEW n \in 0 .. N, n # 0 PROVE f[n] = RootTurn(f[n - 1], args[n])
    <3>1. n \in 1 .. N /\ n - 1 \in 0 .. N
      BY <1>1, <2>2
    <3> QED
      BY <2>1, <3>1
  <2>3. \A n \in 0 .. N : f[n] = IF n = 0 THEN "flag" ELSE RootTurn(f[n - 1], args[n])
    BY <2>1, <2>2
  <2> QED
    BY <2>1, <2>3
<1>5. next = Def(next)
  <2> HIDE DEF Def
  <2> QED
    BY <1>4
<1>6. RootScan(args) = next
  BY DEF RootScan
<1> HIDE DEF next
<1>7. next[0] = "flag"
  BY <1>1, <1>5
<1>8. ASSUME NEW n \in 1 .. N PROVE next[n] = RootTurn(next[n - 1], args[n])
  <2>1. n \in 0 .. N /\ n # 0
    BY <1>1
  <2> QED
    BY <1>5, <2>1
<1> QED
  BY <1>6, <1>7, <1>8

\* The states of the search for paths.
PatchState == [mode : {"root", "web", "over"}, owes : {"", "path", "name"}]
PatchStart == [mode |-> "root", owes |-> ""]

\* So does the search for paths.
LEMMA PatchEquation ==
  ASSUME NEW S, NEW args \in Seq(S)
  PROVE  /\ PatchScan(args)[0] = PatchStart
         /\ \A n \in 1 .. Len(args) : PatchScan(args)[n] = PatchTurn(PatchScan(args)[n - 1], args[n])
         /\ \A n \in 0 .. Len(args) : PatchScan(args)[n] \in PatchState
<1> DEFINE N == Len(args)
           V == PatchState
           b == PatchStart
           Def(f) == [n \in 0 .. N |-> IF n = 0 THEN b ELSE PatchTurn(f[n - 1], args[n])]
           G == [n \in 1 .. N |-> [v \in V |-> PatchTurn(v, args[n])]]
           scan == CHOOSE f : f = Def(f)
<1>1. N \in Nat /\ b \in V
  BY DEF PatchStart, PatchState
<1>2. G \in [1 .. N -> [V -> V]]
  <2>1. ASSUME NEW v \in PatchState, NEW x PROVE PatchTurn(v, x) \in PatchState
    BY <2>1 DEF PatchTurn, PatchState
  <2> QED
    BY <2>1
<1>3. PICK f : Iterates(N, V, b, G, f)
  <2> HIDE DEF G, N, V, b
  <2> QED
    BY <1>1, <1>2, PositionRecursion
<1> HIDE DEF b, V
<1>a. /\ f \in [0 .. N -> V] /\ f[0] = b
      /\ \A n \in 1 .. N : f[n] = PatchTurn(f[n - 1], args[n])
  <2>1. /\ f \in [0 .. N -> V] /\ f[0] = b
        /\ \A n \in 1 .. N : f[n] = G[n][f[n - 1]]
    BY <1>3 DEF Iterates
  <2>2. ASSUME NEW n \in 1 .. N PROVE f[n] = PatchTurn(f[n - 1], args[n])
    <3>1. n - 1 \in 0 .. N
      BY <1>1
    <3> QED
      BY <2>1, <3>1
  <2> QED
    BY <2>1, <2>2
<1>4. f = Def(f)
  <2>1. ASSUME NEW n \in 0 .. N, n # 0 PROVE f[n] = PatchTurn(f[n - 1], args[n])
    <3>1. n \in 1 .. N
      BY <1>1, <2>1
    <3> QED
      BY <1>a, <3>1
  <2>2. \A n \in 0 .. N : f[n] = IF n = 0 THEN b ELSE PatchTurn(f[n - 1], args[n])
    BY <1>a, <2>1
  <2> QED
    BY <1>a, <2>2
<1>5. scan = Def(scan)
  <2> HIDE DEF Def
  <2> QED
    BY <1>4
<1>6. PatchScan(args) = scan
  BY DEF PatchScan, b, PatchStart
<1> HIDE DEF scan
<1>7. scan[0] = b
  BY <1>1, <1>5
<1>8. ASSUME NEW n \in 1 .. N PROVE scan[n] = PatchTurn(scan[n - 1], args[n])
  <2>1. n \in 0 .. N /\ n # 0
    BY <1>1
  <2> QED
    BY <1>5, <2>1
<1> DEFINE P == {n \in 0 .. N : scan[n] \in V}
<1>9. \A n \in 0 .. N : n \in P
  <2>1. 0 \in P
    BY <1>1, <1>7
  <2>2. ASSUME NEW n \in 1 .. N, n - 1 \in P PROVE n \in P
    <3>1. scan[n - 1] \in V /\ n \in 0 .. N
      BY <1>1, <2>2
    <3>2. PatchTurn(scan[n - 1], args[n]) \in V
      BY <3>1 DEF PatchTurn, V, PatchState
    <3> QED
      BY <1>8, <3>1, <3>2
  <2> HIDE DEF P
  <2> QED
    BY <1>1, <2>1, <2>2, EveryPosition
<1> QED
  BY <1>6, <1>7, <1>8, <1>9 DEF b, V

\* Where the root's flags end with one for the profile.
LEMMA RootEndsAt ==
  ASSUME NEW S, NEW args \in Seq(S), NEW i \in 1 .. Len(args), RootScan(args)[i - 1] = "flag",
         Kind(args[i]) \in {"--profile", "--profile="}, \A j \in 1 .. i - 1 : RootScan(args)[j] # "over"
  PROVE  RootEnd(args) = i
<1> DEFINE B == {n \in DOMAIN args : RootScan(args)[n] = "over"} \cup {Len(args) + 1}
<1>1. RootScan(args)[i] = "over"
  BY RootEquation DEF RootTurn
<1>2. i \in B /\ \A n \in B : i <= n /\ n \in Nat
  BY <1>1
<1>3. RootEnd(args) = CHOOSE n \in B : \A m \in B : n <= m
  BY DEF RootEnd, Min
<1> HIDE DEF B
<1>4. \A n \in B : (\A m \in B : n <= m) => n = i
  BY <1>2
<1> QED
  BY <1>2, <1>3, <1>4

\* The search for paths among the root's flags.
LEMMA PatchTurnMeans ==
  ASSUME NEW s \in PatchState, s.mode = "root", NEW arg, NEW t, t = PatchTurn(s, arg)
  PROVE  /\ s.owes = "path" => t.mode = "root" /\ t.owes = ""
         /\ s.owes = "" /\ Kind(arg) = "--patch" => t.mode = "root" /\ t.owes = "path"
         /\ s.owes = "" /\ Kind(arg) \in {"--patch=", "--dump-config"} => t.mode = "root" /\ t.owes = ""
         /\ s.owes = "" /\ Kind(arg) = "--profile" => t.owes = "name"
BY DEF PatchTurn, PatchState

\* a is g with some of its paths spelled otherwise.
Respelled(a, g) ==
  /\ DOMAIN a = DOMAIN g
  /\ \A j \in DOMAIN g :
       a[j] # g[j] => j \in collectDshPatchPathRefs(g) /\ (Kind(g[j]) = "--patch=" => Kind(a[j]) = "--patch=")

\* What DSH boots is what the launcher takes for its profile, however paths are spelled.
LEMMA BootsGiven ==
  ASSUME NEW S, NEW g \in Seq(S), NEW a, Respelled(a, g), NEW p, Boots(a, p)
  PROVE  Kind(Arg(g, RootEnd(g))) \in {"--profile", "--profile="} /\ explicitRootProfile(g) = p
<1> DEFINE r == RootScan(g)
           s == PatchScan(g)
           refs == collectDshPatchPathRefs(g)
<1>1. Len(g) \in Nat /\ DOMAIN a = 1 .. Len(g) /\ DOMAIN g = 1 .. Len(g)
  BY DEF Respelled
<1>2. PICK i \in 1 .. Len(g) : /\ Leading(a, i)
                             /\ \/ a[i] = <<"--profile">> /\ Arg(a, i + 1) = p
                                \/ a[i] = <<"--profile=", p>>
  BY <1>1 DEF Boots
<1>3. PICK flags \in SUBSET (1 .. i - 1) :
        /\ \A j \in flags : Kind(a[j]) \in {"--patch", "--patch=", "--dump-config"}
        /\ \A j \in 1 .. i : j \in flags \cup {i} <=> ~(j - 1 \in flags /\ Kind(a[j - 1]) = "--patch")
  BY <1>2 DEF Leading
<1>4. /\ r[0] = "flag" /\ \A n \in 1 .. Len(g) : r[n] = RootTurn(r[n - 1], g[n])
  BY RootEquation
<1>5. /\ s[0].mode = "root" /\ s[0].owes = ""
      /\ \A n \in 1 .. Len(g) : s[n] = PatchTurn(s[n - 1], g[n])
      /\ \A n \in 0 .. Len(g) : s[n] \in PatchState
  <2>1. PatchStart.mode = "root" /\ PatchStart.owes = ""
    BY DEF PatchStart
  <2> QED
    BY <2>1, PatchEquation
<1>6. \A n \in 1 .. Len(g) :
        n \in refs <=> \/ s[n - 1].owes = "path"
                       \/ s[n - 1].owes = "" /\ s[n - 1].mode # "over" /\ Kind(g[n]) = "--patch="
  BY <1>1 DEF collectDshPatchPathRefs
<1>7. \A n \in 1 .. Len(g) : a[n] = g[n] \/ (n \in refs /\ (Kind(g[n]) = "--patch=" => Kind(a[n]) = "--patch="))
  BY <1>1 DEF Respelled
<1> HIDE DEF r, s, refs
\* A flag of the root's, or the profile's, is spelled as it was.
<1>8. ASSUME NEW n \in 1 .. Len(g), s[n - 1].mode = "root", s[n - 1].owes = ""
      PROVE  Kind(a[n]) = Kind(g[n]) /\ (Kind(g[n]) # "--patch=" => a[n] = g[n])
  BY <1>6, <1>7, <1>8
<1> DEFINE P == {n \in 0 .. i - 1 :
                   /\ n + 1 \in flags \cup {i} => r[n] = "flag" /\ s[n].mode = "root" /\ s[n].owes = ""
                   /\ n + 1 \notin flags \cup {i} => r[n] = "value" /\ s[n].mode = "root" /\ s[n].owes = "path"}
<1>9. 0 \in P
  <2>1. 0 \in 0 .. i - 1 /\ 0 + 1 = 1 /\ 1 \in 1 .. i
    BY <1>1
  <2>2. 1 - 1 \notin flags
    BY <1>3
  <2>3. 1 \in flags \cup {i}
    BY <1>3, <2>1, <2>2
  <2> QED
    BY <1>4, <1>5, <2>1, <2>3
<1>10. ASSUME NEW n \in 1 .. i - 1, n - 1 \in P PROVE n \in P
  <2>1. n \in 1 .. Len(g) /\ n \in 0 .. i - 1 /\ n + 1 \in 1 .. i /\ (n - 1) + 1 = n /\ (n + 1) - 1 = n
        /\ n # i /\ n - 1 \in 0 .. Len(g)
    BY <1>1
  <2>2. n + 1 \in flags \cup {i} <=> ~(n \in flags /\ Kind(a[n]) = "--patch")
    BY <1>3, <2>1
  <2>3. r[n] = RootTurn(r[n - 1], g[n]) /\ s[n] = PatchTurn(s[n - 1], g[n]) /\ s[n - 1] \in PatchState
    BY <1>4, <1>5, <2>1
  <2>4. CASE n \in flags
    <3>1. r[n - 1] = "flag" /\ s[n - 1].mode = "root" /\ s[n - 1].owes = ""
      BY <1>10, <2>1, <2>4
    <3>2. Kind(g[n]) = Kind(a[n]) /\ Kind(g[n]) \in {"--patch", "--patch=", "--dump-config"}
      BY <1>3, <1>8, <2>1, <2>4, <3>1
    <3>3. CASE Kind(g[n]) = "--patch"
      <4>1. r[n] = "value"
        BY <2>3, <3>1, <3>3 DEF RootTurn
      <4>2. s[n].mode = "root" /\ s[n].owes = "path"
        BY ONLY <2>3, <3>1, <3>3, PatchTurnMeans
      <4> QED
        BY <2>1, <2>2, <2>4, <3>2, <3>3, <4>1, <4>2
    <3>4. CASE Kind(g[n]) # "--patch"
      <4>1. r[n] = "flag"
        BY <2>3, <3>1, <3>2, <3>4 DEF RootTurn
      <4>2. Kind(g[n]) \in {"--patch=", "--dump-config"}
        BY <3>2, <3>4
      <4>3. s[n].mode = "root" /\ s[n].owes = ""
        BY ONLY <2>3, <3>1, <4>2, PatchTurnMeans
      <4> QED
        BY <2>1, <2>2, <3>2, <3>4, <4>1, <4>3
    <3> QED
      BY <3>3, <3>4
  <2>5. CASE n \notin flags
    <3>1. r[n - 1] = "value" /\ s[n - 1].mode = "root" /\ s[n - 1].owes = "path"
      BY <1>10, <2>1, <2>5
    <3>2. r[n] = "flag"
      BY <2>3, <3>1 DEF RootTurn
    <3>3. s[n].mode = "root" /\ s[n].owes = ""
      <4> DEFINE before == s[n - 1]
                 after == s[n]
                 arg == g[n]
      <4>1. before \in PatchState /\ before.mode = "root" /\ before.owes = "path" /\ after = PatchTurn(before, arg)
        BY <2>3, <3>1
      <4> HIDE DEF before, after, arg
      <4>2. after.mode = "root" /\ after.owes = ""
        BY ONLY <4>1, PatchTurnMeans
      <4> QED
        BY <4>2 DEF after
    <3> QED
      BY <2>1, <2>2, <2>5, <3>2, <3>3
  <2> QED
    BY <2>4, <2>5
<1>11. \A n \in 0 .. i - 1 : n \in P
  <2>1. i - 1 \in Nat
    BY <1>1
  <2> HIDE DEF P
  <2> QED
    BY <1>9, <1>10, <2>1, EveryPosition
<1>12. r[i - 1] = "flag" /\ s[i - 1].mode = "root" /\ s[i - 1].owes = ""
  <2>1. i - 1 \in 0 .. i - 1 /\ (i - 1) + 1 = i
    BY <1>1
  <2> QED
    BY <1>11, <2>1
<1>13. \A j \in 1 .. i - 1 : r[j] # "over"
  <2>1. ASSUME NEW j \in 1 .. i - 1 PROVE r[j] # "over"
    <3>1. j \in 0 .. i - 1
      BY <1>1
    <3> QED
      BY <1>11, <3>1
  <2> QED
    BY <2>1
<1>14. Kind(a[i]) \in {"--profile", "--profile="}
  <2>1. Kind(<<"--profile">>) = "--profile" /\ Kind(<<"--profile=", p>>) = "--profile="
    BY DEF Kind, None
  <2> QED
    BY <1>2, <2>1
<1>15. a[i] = g[i] /\ Kind(g[i]) = Kind(a[i])
  BY <1>8, <1>12, <1>14
<1>16. RootEnd(g) = i
  BY <1>12, <1>13, <1>14, <1>15, RootEndsAt DEF r
<1>17. Arg(g, RootEnd(g)) = a[i]
  BY <1>1, <1>15, <1>16 DEF Arg
<1>18. CASE a[i] = <<"--profile=", p>>
  <2>1. Kind(a[i]) = "--profile=" /\ a[i][2] = p
    BY <1>18 DEF Kind, None
  <2> QED
    BY <1>17, <2>1 DEF explicitRootProfile
<1>19. CASE a[i] = <<"--profile">> /\ Arg(a, i + 1) = p
  <2>1. Kind(g[i]) = "--profile" /\ Kind(a[i]) = "--profile"
    BY <1>15, <1>19 DEF Kind, None
  <2>2. s[i] = PatchTurn(s[i - 1], g[i]) /\ s[i - 1] \in PatchState
    <3>1. i - 1 \in 0 .. Len(g)
      BY <1>1
    <3> QED
      BY <1>5, <3>1
  <2>3. s[i].owes = "name"
    BY <1>12, <2>1, <2>2, PatchTurnMeans
  <2>4. i + 1 \in 1 .. Len(g) => a[i + 1] = g[i + 1]
    <3>1. ASSUME i + 1 \in 1 .. Len(g) PROVE a[i + 1] = g[i + 1]
      <4>1. (i + 1) - 1 = i
        BY <1>1
      <4>2. i + 1 \notin refs
        BY <1>6, <2>3, <3>1, <4>1
      <4> QED
        BY <1>7, <3>1, <4>2
    <3> QED
      BY <3>1
  <2>5. Arg(g, i + 1) = p
    BY <1>1, <1>19, <2>4 DEF Arg
  <2> QED
    BY <1>16, <1>17, <2>1, <2>5 DEF explicitRootProfile
<1> QED
  BY <1>2, <1>18, <1>19

\* A search finds the same where only the spelling of paths differs.
LEMMA RootLike ==
  ASSUME NEW S, NEW d \in Seq(S), NEW T, NEW t \in Seq(T), Len(t) = Len(d), NEW w,
         \A i \in 1 .. Len(d) : Like(t[i], d[i], w)
  PROVE  /\ RootEnd(t) = RootEnd(d) /\ shouldInjectDefaultProfile(t) = shouldInjectDefaultProfile(d)
         /\ Kind(Arg(t, RootEnd(t))) \in {"--profile", "--profile="} => Arg(d, RootEnd(d)) = Arg(t, RootEnd(t))
         /\ \A p : Kind(Arg(t, RootEnd(t))) \in {"--profile", "--profile="} /\ explicitRootProfile(t) = p
                    /\ Kind(p) = "word" => explicitRootProfile(d) = p
<1> DEFINE Flags == {"--patch", "--patch=", "--dump-config", "--profile", "--profile=", "--help", "web", "plugin"}
<1>1. Len(d) \in Nat /\ DOMAIN d = 1 .. Len(d) /\ DOMAIN t = 1 .. Len(d)
  OBVIOUS
<1>2. ASSUME NEW x, NEW y, Like(x, y, w)
      PROVE  x = y \/ (Kind(x) \in {"slashed", "linux"} /\ Kind(y) \in {"backslashed", "drive", "unc"})
  <2>1. \A v : Kind(<<"linux", v>>) = "linux" /\ Kind(<<"slashed">>) = "slashed"
    BY DEF Kind, None
  <2> QED
    BY <1>2, <2>1 DEF Like
<1>3. ASSUME NEW i
      PROVE  Arg(t, i) = Arg(d, i) \/ (Kind(Arg(t, i)) \in {"slashed", "linux"} /\ Kind(Arg(d, i)) \in {"backslashed", "drive", "unc"})
  <2>1. CASE i \in 1 .. Len(d)
    <3>1. Arg(t, i) = t[i] /\ Arg(d, i) = d[i] /\ Like(t[i], d[i], w)
      BY <1>1, <2>1 DEF Arg
    <3> QED
      BY <1>2, <3>1
  <2>2. CASE i \notin 1 .. Len(d)
    BY <1>1, <2>2 DEF Arg
  <2> QED
    BY <2>1, <2>2
<1> DEFINE r == RootScan(d)
           q == RootScan(t)
           P == {n \in 0 .. Len(d) : q[n] = r[n]}
<1>4. /\ r[0] = "flag" /\ q[0] = "flag"
      /\ \A n \in 1 .. Len(d) : r[n] = RootTurn(r[n - 1], d[n])
      /\ \A n \in 1 .. Len(d) : q[n] = RootTurn(q[n - 1], t[n])
  BY RootEquation
<1> HIDE DEF r, q
<1>5. ASSUME NEW n \in 1 .. Len(d), n - 1 \in P PROVE n \in P
  <2>1. q[n - 1] = r[n - 1] /\ n \in 0 .. Len(d)
    BY <1>1, <1>5
  <2>2. t[n] = d[n] \/ (Kind(t[n]) \in {"slashed", "linux"} /\ Kind(d[n]) \in {"backslashed", "drive", "unc"})
    BY <1>2
  <2>3. RootTurn(q[n - 1], t[n]) = RootTurn(r[n - 1], d[n])
    BY <2>1, <2>2 DEF RootTurn
  <2> QED
    BY <1>4, <2>1, <2>3
<1>6. \A n \in 0 .. Len(d) : q[n] = r[n]
  <2>1. 0 \in P
    BY <1>1, <1>4
  <2>2. \A n \in 0 .. Len(d) : n \in P
    <3> HIDE DEF P
    <3> QED
      BY <1>1, <1>5, <2>1, EveryPosition
  <2> QED
    BY <2>2
<1>7. RootEnd(t) = RootEnd(d)
  <2>1. \A n \in 1 .. Len(d) : n \in 0 .. Len(d)
    BY <1>1
  <2>2. {n \in DOMAIN t : RootScan(t)[n] = "over"} = {n \in DOMAIN d : RootScan(d)[n] = "over"}
    BY <1>1, <1>6, <2>1 DEF q, r
  <2> QED
    BY <2>2 DEF RootEnd
<1> DEFINE e == RootEnd(d)
<1>8. Arg(t, e) = Arg(d, e) \/ (Kind(Arg(t, e)) \in {"slashed", "linux"} /\ Kind(Arg(d, e)) \in {"backslashed", "drive", "unc"})
  BY <1>3
<1>9. shouldInjectDefaultProfile(t) = shouldInjectDefaultProfile(d)
  BY <1>7, <1>8 DEF shouldInjectDefaultProfile
<1>10. Kind(Arg(t, e)) \in {"--profile", "--profile="} => Arg(d, e) = Arg(t, e)
  BY <1>8
<1>11. ASSUME NEW p, Kind(Arg(t, e)) \in {"--profile", "--profile="}, explicitRootProfile(t) = p, Kind(p) = "word"
       PROVE  explicitRootProfile(d) = p
  <2>1. Arg(d, e) = Arg(t, e)
    BY <1>10, <1>11
  <2>2. CASE Kind(Arg(t, e)) = "--profile="
    BY <1>7, <1>11, <2>1, <2>2 DEF explicitRootProfile
  <2>3. CASE Kind(Arg(t, e)) = "--profile"
    <3>1. Arg(t, e + 1) = p
      BY <1>7, <1>11, <2>3 DEF explicitRootProfile
    <3>2. Arg(d, e + 1) = p
      BY <1>3, <1>11, <3>1
    <3> QED
      BY <1>7, <2>1, <2>3, <3>2 DEF explicitRootProfile
  <2> QED
    BY <1>11, <2>2, <2>3
<1> HIDE DEF e
<1> QED
  BY <1>7, <1>9, <1>10, <1>11 DEF e

\* Arguments that begin with a profile have that one.
LEMMA RootFirst ==
  ASSUME NEW S, NEW g \in Seq(S), Len(g) >= 2, g[1] = <<"--profile">>
  PROVE  /\ explicitRootProfile(g) = g[2] /\ Kind(Arg(g, RootEnd(g))) = "--profile"
         /\ ~shouldInjectDefaultProfile(g)
<1>1. Len(g) \in Nat /\ DOMAIN g = 1 .. Len(g) /\ 1 \in 1 .. Len(g) /\ 2 \in DOMAIN g
  OBVIOUS
<1>2. Kind(g[1]) = "--profile"
  BY DEF Kind, None
<1>3. RootScan(g)[1 - 1] = "flag"
  BY RootEquation
<1>4. RootEnd(g) = 1
  BY <1>1, <1>2, <1>3, RootEndsAt
<1>5. Arg(g, RootEnd(g)) = g[1] /\ Arg(g, RootEnd(g) + 1) = g[2]
  BY <1>1, <1>4 DEF Arg
<1> QED
  BY <1>2, <1>5 DEF explicitRootProfile, shouldInjectDefaultProfile

\* What the gate requires, from what DSH's arguments say.
LEMMA RequiredFrom ==
  ASSUME NEW D, NEW base, NEW web, web = orcanaWebProfileName(base), web # base
  PROVE  /\ Kind(Arg(D, 1)) = "web" => requiredOrcanaProfileForRun(D, base) = "web"
         /\ Kind(Arg(D, 1)) # "web" /\ (shouldInjectDefaultProfile(D) \/ explicitRootProfile(D) = base)
              => requiredOrcanaProfileForRun(D, base) = "headless"
         /\ Kind(Arg(D, 1)) # "web" /\ ~shouldInjectDefaultProfile(D) /\ explicitRootProfile(D) = web
              => requiredOrcanaProfileForRun(D, base) = "web"
  BY DEF requiredOrcanaProfileForRun

\* What the bridge gives DSH: its arguments, after the profile if they name none.
Prefixed(g, B, base) == g = IF shouldInjectDefaultProfile(B) THEN << <<"--profile">>, base >> \o B ELSE B

\* Arguments like others but for their paths boot what those boot, a profile put before them or not.
LEMMA RequiredOfLike ==
  ASSUME NEW D \in Seq(Arguments), NEW B \in Seq(Spelled), Len(B) = Len(D), NEW w,
         \A i \in 1 .. Len(D) : Like(B[i], D[i], w),
         NEW base \in Profiles, NEW g \in Seq(Spelled),
         Prefixed(g, B, base),
         NEW p, Kind(p) = "word",
         Kind(Arg(g, RootEnd(g))) \in {"--profile", "--profile="}, explicitRootProfile(g) = p
  PROVE  /\ shouldInjectDefaultProfile(D) => p = base
         /\ ~shouldInjectDefaultProfile(D) => explicitRootProfile(D) = p
<1>1. /\ shouldInjectDefaultProfile(B) = shouldInjectDefaultProfile(D)
      /\ Kind(Arg(B, RootEnd(B))) \in {"--profile", "--profile="} /\ explicitRootProfile(B) = p
             => explicitRootProfile(D) = p
  BY RootLike
<1>2. CASE shouldInjectDefaultProfile(B)
  <2> DEFINE h == << <<"--profile">>, base >>
  <2>1. h \in Seq(Spelled) /\ Len(h) = 2 /\ h[1] = <<"--profile">> /\ h[2] = base
    BY DEF Spelled, Typed
  <2>2. g = h \o B
    BY <1>2 DEF Prefixed
  <2> HIDE DEF h
  <2>3. Len(h \o B) = Len(h) + Len(B) /\ \A i \in 1 .. Len(h) : (h \o B)[i] = h[i]
    <3>1. Len(h) + Len(B) \in Nat /\ \A i \in 1 .. Len(h) : i \in 1 .. Len(h) + Len(B) /\ i <= Len(h)
      BY <2>1
    <3> QED
      BY ONLY <2>1, <3>1, B \in Seq(Spelled), ConcatProperties
  <2>4. Len(g) >= 2 /\ g[1] = <<"--profile">> /\ g[2] = base
    <3>1. Len(B) \in Nat
      OBVIOUS
    <3> QED
      BY <2>1, <2>2, <2>3, <3>1
  <2>5. explicitRootProfile(g) = base
    BY <2>4, RootFirst
  <2> QED
    BY <1>1, <1>2, <2>5
<1>3. CASE ~shouldInjectDefaultProfile(B)
  BY <1>1, <1>3 DEF Prefixed
<1> QED
  BY <1>2, <1>3

\* What DSH boots, if it is one of the launcher's, is what the gate has required.
LEMMA BootsRequired ==
  ASSUME NEW c, Accepted(c), OptionsOf(c).mode = "run", ~Plugin(c).error,
         NEW k \in Kinds, Boots(Final(c).args, ProfileOf(k, OptionsOf(c).profile))
  PROVE  requiredOrcanaProfileForRun(OptionsOf(c).dshArgs, OptionsOf(c).profile) = k
<1> DEFINE base == OptionsOf(c).profile
           web == orcanaWebProfileName(base)
           p == ProfileOf(k, base)
           D == OptionsOf(c).dshArgs
           R == Product(c)
           B == Plugin(c).args
           g == Given(c)
           a == Final(c).args
           w == OptionsOf(c).distro
<1>1. /\ base \in Profiles /\ web \in Profiles /\ D \in Seq(Arguments) /\ Clean(D)
  BY OptionsType
<1>2. web # base
  <2>1. base \in Seq(STRING)
    BY <1>1, LaunchAssumption
  <2>2. Len(web) = Len(base) + 1 /\ Len(base) \in Nat
    BY <2>1, AppendProperties DEF orcanaWebProfileName
  <2> QED
    BY <2>2
<1>3. (k = "headless" /\ p = base) \/ (k = "web" /\ p = web)
  BY DEF Kinds, ProfileOf
<1>4. Kind(p) = "word" /\ Kind(web) = "word"
  BY <1>1, <1>3, LaunchAssumption
<1>5. /\ Bridged(c).dshArgs = B /\ Bridged(c).profile = base
      /\ R \in Seq(Typed) /\ B \in Seq(Spelled) /\ Len(B) = Len(R)
      /\ \A i \in 1 .. Len(R) : Like(B[i], R[i], w)
  BY BridgedRun
<1>6. g = IF shouldInjectDefaultProfile(B) THEN << <<"--profile">>, base >> \o B ELSE B
  BY <1>5 DEF Given, dshArgsForBridge
<1>7. g \in Seq(Spelled)
  BY GivenType
<1>8. Respelled(a, g)
  <2>1. CASE ~c.windows
    BY <2>1 DEF Final, Respelled
  <2>2. CASE c.windows
    <3> DEFINE refs == collectDshPatchPathRefs(g)
               mapped == [i \in refs |-> windowsArgumentPathToWsl(PathAt(g, i), Aim(c).world)]
    <3>1. a = [i \in DOMAIN g |->
                IF i \notin refs THEN g[i]
                ELSE IF Kind(g[i]) = "--patch=" THEN <<"--patch=", mapped[i].path>> ELSE mapped[i].path]
      BY <2>2 DEF Final, translateDshPathArgsForWsl
    <3>2. \A x : Kind(<<"--patch=", x>>) = "--patch="
      BY DEF Kind, None
    <3> HIDE DEF mapped
    <3> QED
      BY <3>1, <3>2 DEF Respelled
  <2> QED
    BY <2>1, <2>2
<1>9. Kind(Arg(g, RootEnd(g))) \in {"--profile", "--profile="} /\ explicitRootProfile(g) = p
  BY <1>7, <1>8, BootsGiven
<1> HIDE DEF base, web, p, D, R, B, g, a, w
<1>12. R = rewriteOrcanaWebInvocation(D, base)
  BY DEF R, D, base, Product
<1>13. Prefixed(g, B, base)
  BY <1>6 DEF Prefixed
<1>10. CASE Kind(Arg(D, 1)) = "web"
  <2>1. Len(D) >= 1 /\ Len(R) = Len(D) + 1 /\ R[1] = <<"--profile">> /\ R[2] = web
    BY <1>1, <1>10, <1>12, Rewritten DEF web
  <2>2. Len(R) >= 2 /\ 1 \in 1 .. Len(R) /\ 2 \in 1 .. Len(R) /\ Len(R) \in Nat
    BY <1>1, <2>1
  <2>3. Kind(<<"--profile">>) = "--profile"
    BY DEF Kind, None
  <2>4. B[1] = <<"--profile">> /\ B[2] = web
    BY <1>4, <1>5, <2>1, <2>2, <2>3 DEF Like
  <2>5. explicitRootProfile(B) = web /\ ~shouldInjectDefaultProfile(B)
    BY <1>5, <2>2, <2>4, RootFirst
  <2>6. k = "web"
    BY <1>2, <1>3, <1>6, <1>9, <2>5
  <2>7. requiredOrcanaProfileForRun(D, base) = "web"
    BY <1>2, <1>10, RequiredFrom DEF web
  <2> QED
    BY <2>6, <2>7 DEF D, base
<1>11. CASE Kind(Arg(D, 1)) # "web"
  <2>1. R = D
    BY <1>1, <1>11, <1>12, Rewritten DEF web
  <2>2. /\ shouldInjectDefaultProfile(D) => p = base
        /\ ~shouldInjectDefaultProfile(D) => explicitRootProfile(D) = p
    <3>1. Len(B) = Len(D) /\ \A i \in 1 .. Len(D) : Like(B[i], D[i], w)
      BY <1>5, <2>1
    <3>2. D \in Seq(Arguments) /\ B \in Seq(Spelled) /\ base \in Profiles
      BY <1>1, <1>5
    <3> QED
      BY ONLY <1>4, <1>7, <1>9, <1>13, <3>1, <3>2, RequiredOfLike
  <2>3. requiredOrcanaProfileForRun(D, base) = k
    BY <1>2, <1>3, <1>11, <2>2, RequiredFrom DEF web
  <2> QED
    BY <2>3 DEF D, base
<1> QED
  BY <1>10, <1>11

-----------------------------------------------------------------------------
(* What runs is what RunArgs gave. *)

\* What runs is what RunArgs gave a run, with a DSH there is.
RanInv ==
  pc = "running" => /\ options.mode = "run" /\ ~Plugin(call).error
                    /\ ran.argv = Final(call).args /\ ran.world = Aim(call).world
                    /\ ran.dsh = Dsh /\ Dsh # "absent"

\* Where a launch may come to run DSH.
LEMMA RunningFrom ==
  ASSUME LaunchInv, [Next]_vars, pc' \in {"run", "running"}
  PROVE  /\ launch' = launch /\ tools' = tools /\ pc # "idle"
         /\ \/ pc' = pc /\ ran' = ran
            \/ Gate /\ pc = "gate" /\ pc' = "run"
            \/ Run /\ pc = "run" /\ pc' = "running"
<1>1. ~Start
  <2> SUFFICES ASSUME Start PROVE FALSE
    OBVIOUS
  <2>1. \/ pc' = "exited"
        \/ pc' = [run |-> "gate", install |-> "install", doctor |-> "doctor"][Parsed(Head(agenda)).mode]
    BY DEF Start, Parsed, Finish
  <2>2. Head(agenda) \in Calls
    BY DEF Start, LaunchInv
  <2>3. Parsed(Head(agenda)).mode \in Modes
    BY <2>2, ParsedType, LaunchAssumption, CallType DEF Parsed
  <2> QED
    BY <2>1, <2>3 DEF Modes
<1>2. ~(TranslationFails \/ Kill \/ RunEnds \/ StartScript \/ CheckInstalled \/ Doctor \/ DoctorProfile \/ OtherDoctors)
  BY DEF TranslationFails, Kill, RunEnds, StartScript, CheckInstalled, Doctor, DoctorProfile, OtherDoctors, Finish
<1>3. CASE Gate
  BY <1>3 DEF Gate, Finish
<1>4. CASE Run
  BY <1>4 DEF Run, Finish
<1>5. ASSUME NEW slot \in Slots, Transaction(slot) \/ Smoke(slot)
      PROVE  launch' = launch /\ tools' = tools /\ pc' = pc /\ ran' = ran
  BY <1>5 DEF Transaction, Smoke, ScriptEnds, Finish
<1>6. CASE UNCHANGED vars
  BY <1>6 DEF vars
<1> QED
  BY <1>1, <1>2, <1>3, <1>4, <1>5, <1>6 DEF Next

\* So it goes on.
LEMMA RanStep ==
  ASSUME LaunchInv, WorldInv, RanInv, [Next]_vars
  PROVE  RanInv'
<1> SUFFICES ASSUME pc' = "running" PROVE RanInv'
  BY DEF RanInv
<1>1. /\ launch' = launch /\ tools' = tools /\ pc # "idle"
      /\ (pc' = pc /\ ran' = ran) \/ (Run /\ pc = "run")
  BY RunningFrom
<1>2. call' = call /\ options' = options /\ launch.options = OptionsOf(launch.call)
  BY <1>1 DEF call, options, LaunchInv
<1>3. Plugin(call)' = Plugin(call) /\ Final(call)' = Final(call) /\ Aim(call)' = Aim(call) /\ Dsh' = Dsh
  BY <1>1, <1>2 DEF Dsh
<1>4. CASE pc' = pc /\ ran' = ran
  BY <1>2, <1>3, <1>4 DEF RanInv
<1>5. CASE Run /\ pc = "run"
  <2>1. options.mode = "run"
    BY <1>5 DEF WorldInv
  <2>2. /\ ~RunArgs.error /\ Dsh # "absent"
        /\ ran' = [argv |-> RunArgs.argv, world |-> RunArgs.world, dsh |-> Dsh]
    BY <1>5 DEF Run, Finish
  <2>3. ~Plugin(call).error /\ RunArgs.world = Aim(call).world /\ RunArgs.argv = Final(call).args
    BY <1>2, <2>2, RunArgsMean
  <2>4. ran'.argv = Final(call).args /\ ran'.world = Aim(call).world /\ ran'.dsh = Dsh
    BY <2>2, <2>3
  <2> QED
    BY <1>2, <1>3, <2>1, <2>2, <2>3, <2>4 DEF RanInv
<1> QED
  BY <1>1, <1>4, <1>5

-----------------------------------------------------------------------------
(* A run boots a profile of the launcher's only where its gate found it complete. *)

\* The profile the gate asks for.
Needed == requiredOrcanaProfileForRun(options.dshArgs, options.profile)

\* What the gate has found stays so.
GateInv == pc \in {"run", "running"} /\ Needed # "none" => Done(Needed)

\* The gate lets pass what is whole.
LEMMA GateChecks ==
  ASSUME LaunchInv, DiskInv, UniqueInv, pc = "gate", NEW k \in Kinds,
         ManifestStatus(Manifest(LauncherWorld, ProfileOf(k, options.profile)), k, call.selector) = 0
  PROVE  Done(k)
<1>1. Accepted(call) /\ options = OptionsOf(call)
  BY DEF LaunchInv, AtRest, call, options
<1> DEFINE W == Target(call)
           P == ProfileOf(k, options.profile)
<1>2. LauncherWorld = W /\ W \in Worlds
  BY <1>1, TargetType, TargetMeans DEF LauncherWorld
<1>3. P \in Profiles
  BY <1>1, Opted, LaunchAssumption, CallType DEF Accepted
<1>4. ManifestStatus(disk[W][P], k, call.selector) = 0
  BY <1>2 DEF Manifest
<1>5. disk[W][P] \in Manifests /\ Unique(disk[W][P].layers)
  BY <1>2, <1>3 DEF DiskInv, UniqueInv
<1> HIDE DEF W, P
<1>6. Whole(disk[W][P], k, call.selector)
  BY <1>4, <1>5, CheckedIsWhole
<1> QED
  BY <1>1, <1>6 DEF Done, W, P

\* Every step keeps what the gate has found.
LEMMA GateStep ==
  ASSUME LaunchInv, DiskInv, UniqueInv, SelectorInv, GateInv, [Next]_vars
  PROVE  GateInv'
<1> SUFFICES ASSUME pc' \in {"run", "running"}, Needed' # "none" PROVE Done(Needed)'
  BY DEF GateInv
<1>1. launch' = launch /\ pc # "idle" /\ (pc \in {"run", "running"} \/ (Gate /\ pc = "gate" /\ pc' = "run"))
  BY RunningFrom
<1>2. Needed' = Needed
  BY <1>1 DEF Needed, options
<1>3. Needed \in Kinds
  BY <1>2 DEF Needed, requiredOrcanaProfileForRun, Kinds
<1>4. Done(Needed)
  <2>1. CASE pc \in {"run", "running"}
    BY <1>2, <2>1 DEF GateInv
  <2>2. CASE Gate /\ pc = "gate" /\ pc' = "run"
    <3>1. ManifestStatus(Manifest(LauncherWorld, ProfileOf(Needed, options.profile)), Needed, call.selector) = 0
      BY <1>2, <2>2 DEF Gate, Finish, Checked, Needed
    <3>2. ASSUME NEW k \in Kinds, Needed = k PROVE Done(k)
      BY <2>2, <3>1, <3>2, GateChecks
    <3> QED
      BY <1>3, <3>2
  <2> QED
    BY <1>1, <2>1, <2>2
<1>5. ASSUME NEW k \in Kinds, Needed = k PROVE Done(Needed)'
  <2>1. Done(k)'
    BY <1>1, <1>4, <1>5, DoneKept
  <2>2. Needed' = k
    BY <1>2, <1>5
  <2> QED
    BY <2>1, <2>2 DEF Done
<1> QED
  BY <1>3, <1>5

\* RunsOnlyComplete, for any worlds, profiles, calls and disks: whatever the arguments say, in the
\* environment, before and after the sentinel and in the bridge's own second parse of them, DSH boots a
\* profile of the launcher's only where its manifest is exact, and the DSH it was made for does; also
\* when an installation, orphaned by an earlier launch of the same DSH, is still at work there.
THEOREM RunsFailClosed ==
  ASSUME GroundedDisks, UniqueLayers, OneSelector
  PROVE  Spec => []RunsOnlyComplete
<1> DEFINE Inv == LaunchInv /\ DiskInv /\ UniqueInv /\ SelectorInv /\ InstallInv /\ WorldInv /\ RanInv /\ GateInv
<1>1. Init => Inv
  <2>1. Init => RanInv /\ GateInv
    BY DEF Init, RanInv, GateInv
  <2> QED
    BY <2>1, InitInv, InitInstall, InitWorld
<1>2. Inv /\ [Next]_vars => Inv'
  BY LaunchStep, DiskStep, UniqueStep, SelectorStep, InstallStep, WorldStep, RanStep, GateStep
<1>3. Inv => RunsOnlyComplete
  <2> SUFFICES ASSUME Inv, pc = "running", options.distro = None => ran.world = DefaultDistro,
                      NEW k \in Kinds, Boots(ran.argv, ProfileOf(k, options.profile))
               PROVE  Complete(k, ran.world) /\ (call.command = "" => ran.dsh = call.selector)
    BY DEF RunsOnlyComplete
  <2>1. /\ options.mode = "run" /\ ~Plugin(call).error
        /\ ran.argv = Final(call).args /\ ran.world = Aim(call).world /\ ran.dsh = Dsh /\ Dsh # "absent"
        /\ (Needed # "none" => Done(Needed))
    BY DEF RanInv, GateInv
  <2>2. Accepted(call) /\ options = OptionsOf(call)
    BY DEF LaunchInv, AtRest, call, options
  <2>3. Needed = k
    BY <2>1, <2>2, BootsRequired DEF Needed
  <2>4. Done(k)
    BY <2>1, <2>3 DEF Kinds
  <2>5. Aim(call).world = Target(call)
    <3>1. CASE call.windows /\ options.distro # None
      BY <2>1, <2>2, <3>1, RunWorld, TargetMeans
    <3>2. CASE call.windows /\ options.distro = None
      BY <2>1, <2>2, <3>2, TargetMeans DEF World
    <3>3. CASE ~call.windows
      BY <2>2, <3>3, TargetMeans DEF Aim, BridgeTarget
    <3> QED
      BY <3>1, <3>2, <3>3
  <2>6. Complete(k, Target(call))
    <3>1. Len(ExpectedBundles[k]) = 4
      BY Required
    <3> QED
      BY <2>4, <3>1 DEF Done, Complete, Whole, Manifest
  <2>7. call.command = "" => ran.dsh = call.selector
    BY <2>1 DEF Dsh, ResolvedDsh
  <2> QED
    BY <2>1, <2>5, <2>6, <2>7
<1> QED
  BY <1>1, <1>2, <1>3, PTL DEF Spec

-----------------------------------------------------------------------------
(* The task reaches DSH as it was typed. *)

\* t is the end of x.
Ends(x, t) == Len(t) <= Len(x) /\ \A i \in 1 .. Len(t) : x[Len(x) - Len(t) + i] = t[i]

\* So it is a suffix, as the library says it of what is read backwards.
LEMMA EndsIsSuffix ==
  ASSUME NEW S, NEW x \in Seq(S), NEW T, NEW t \in Seq(T), Ends(x, t)
  PROVE  IsSuffix(t, x)
<1> DEFINE Rt == Reverse(t)
           Rx == Reverse(x)
<1>1. Len(t) \in Nat /\ Len(x) \in Nat /\ Len(t) <= Len(x)
  BY DEF Ends
<1>2. /\ Rt \in Seq(T) /\ Len(Rt) = Len(t) /\ \A i \in 1 .. Len(t) : Rt[i] = t[(Len(t) - i) + 1]
      /\ Rx \in Seq(S) /\ Len(Rx) = Len(x) /\ \A i \in 1 .. Len(x) : Rx[i] = x[(Len(x) - i) + 1]
  BY <1>1 DEF Reverse
<1> HIDE DEF Rt, Rx
<1>3. ASSUME NEW i \in 1 .. Len(t) PROVE Rt[i] = Rx[i]
  <2>1. (Len(t) - i) + 1 \in 1 .. Len(t) /\ i \in 1 .. Len(x)
    BY <1>1
  <2>2. x[Len(x) - Len(t) + ((Len(t) - i) + 1)] = t[(Len(t) - i) + 1]
    BY <2>1 DEF Ends
  <2>3. Len(x) - Len(t) + ((Len(t) - i) + 1) = (Len(x) - i) + 1
    BY <1>1
  <2> QED
    BY <1>2, <2>1, <2>2, <2>3
<1>4. SubSeq(Rt, 1, Len(Rt)) = SubSeq(Rx, 1, Len(Rt))
  BY <1>1, <1>2, <1>3
<1>5. IsPrefix(Rt, Rx)
  BY <1>1, <1>2, <1>4 DEF IsPrefix
<1> QED
  BY <1>5 DEF IsSuffix, Rt, Rx

\* Only a flag that takes a value leaves the loop waiting for one.
LEMMA OwesNothing ==
  ASSUME NEW env, NEW s \in ParseState(env), NEW arg \in Arguments, Kind(arg) \notin ValueFlags,
         NEW u, u = ParseTurn(s, arg), ~u.error
  PROVE  u.owes = ""
<1>1. ~s.error
  BY DEF ParseTurn
<1>2. ASSUME NEW flag, NEW value, u = WithValue(s, flag, value) PROVE u.owes = ""
  <2>1. u \in {[s EXCEPT !.error = TRUE], [s EXCEPT !.owes = "", !.distro = value], [s EXCEPT !.owes = "", !.profile = value]}
    BY <1>2 DEF WithValue
  <2> QED
    BY <2>1 DEF ParseState
<1>3. CASE s.owes # "" \/ (~s.passthrough /\ Kind(arg) \notin ModeFlags /\ Kind(arg) \in DOMAIN InlineOf)
  BY <1>1, <1>2, <1>3 DEF ParseTurn
<1>4. CASE s.owes = "" /\ (s.passthrough \/ Kind(arg) \in ModeFlags \/ Kind(arg) \notin DOMAIN InlineOf)
  BY <1>1, <1>4 DEF ParseTurn, ParseState
<1> QED
  BY <1>3, <1>4

\* From the state s to u, arg is passed on.
PassesOn(s, arg, u) ==
  u.owes = "" /\ u.dshArgs = Append(s.dshArgs, arg) /\ (s.passthrough \/ arg = Sentinel => u.passthrough)

\* An argument behind the sentinel, or that is none of the launcher's flags, is passed on.
LEMMA PlainTurn ==
  ASSUME NEW env, NEW s \in ParseState(env), NEW arg \in Arguments, ~s.error, s.owes = "",
         s.passthrough \/ Kind(arg) \notin BridgeFlags,
         NEW u, u = ParseTurn(s, arg)
  PROVE  PassesOn(s, arg, u)
<1>1. CASE s.passthrough
  BY <1>1 DEF ParseTurn, ParseState, PassesOn
<1>2. CASE ~s.passthrough
  <2>1. u = [s EXCEPT !.dshArgs = Append(@, arg), !.passthrough = (arg = Sentinel)]
    BY <1>2 DEF ParseTurn, BridgeFlags
  <2> QED
    BY <1>2, <2>1 DEF ParseState, PassesOn
<1> QED
  BY <1>1, <1>2

\* From the first word of the task on, the first parse passes everything on.
LEMMA TaskParsed ==
  ASSUME NEW env, NEW args \in Seq(Arguments), ~parseWslBridgeArgs(args, env).error,
         NEW m \in TaskStarts(args), NEW t, t = SubSeq(args, m, Len(args)), PlainTask(t)
  PROVE  Ends(parseWslBridgeArgs(args, env).dshArgs, t)
<1> DEFINE to == ParsedTo(args, env)
           N == Len(args)
<1>1. /\ to[0] = Unparsed(env)
      /\ \A n \in 1 .. N : to[n] = ParseTurn(to[n - 1], args[n])
      /\ \A n \in 0 .. N : to[n] \in ParseState(env)
  BY ParsedEquation
<1>2. N \in Nat /\ DOMAIN args = 1 .. N /\ m \in 1 .. N /\ \A n \in 1 .. N : args[n] \in Arguments
  BY DEF TaskStarts
<1>3. ~to[N].error /\ parseWslBridgeArgs(args, env).dshArgs = to[N].dshArgs
  BY DEF parseWslBridgeArgs
<1> HIDE DEF to, N
<1>4. \A n \in 0 .. N : ~to[n].error
  <2> DEFINE P == {k \in 0 .. N : ~to[N - k].error}
  <2>1. 0 \in P
    BY <1>2, <1>3
  <2>2. ASSUME NEW k \in 1 .. N, k - 1 \in P PROVE k \in P
    <3>1. N - k + 1 \in 1 .. N /\ N - (k - 1) = N - k + 1 /\ (N - k + 1) - 1 = N - k /\ k \in 0 .. N
      BY <1>2
    <3>2. to[N - k + 1] = ParseTurn(to[N - k], args[N - k + 1]) /\ ~to[N - k + 1].error
      BY <1>1, <2>2, <3>1
    <3>3. to[N - k].error => to[N - k + 1] = to[N - k]
      BY <3>2 DEF ParseTurn
    <3> QED
      BY <3>1, <3>2, <3>3
  <2>3. \A k \in 0 .. N : k \in P
    <3> HIDE DEF P
    <3> QED
      BY <1>2, <2>1, <2>2, EveryPosition
  <2>4. ASSUME NEW n \in 0 .. N PROVE ~to[n].error
    <3>1. N - n \in 0 .. N /\ N - (N - n) = n
      BY <1>2
    <3> QED
      BY <2>3, <3>1
  <2> QED
    BY <2>4
<1>5. to[m - 1].owes = ""
  <2>1. CASE m = 1
    <3>1. m - 1 = 0 /\ Unparsed(env).owes = ""
      BY <2>1 DEF Unparsed
    <3> QED
      BY <1>1, <3>1
  <2>2. CASE m # 1
    <3>1. m - 1 \in 1 .. N /\ m - 1 \in 0 .. N /\ (m - 1) - 1 \in 0 .. N
      BY <1>2, <2>2
    <3>2. Kind(args[m - 1]) \notin ValueFlags
      BY <1>2, <3>1 DEF TaskStarts, Arg
    <3>3. to[m - 1] = ParseTurn(to[(m - 1) - 1], args[m - 1]) /\ ~to[m - 1].error
      BY <1>1, <1>4, <3>1
    <3> QED
      BY <1>1, <1>2, <3>1, <3>2, <3>3, OwesNothing
  <2> QED
    BY <2>1, <2>2
<1> DEFINE K == N - m + 1
           L == Len(to[m - 1].dshArgs)
<1>6. K \in Nat /\ m - 1 \in 0 .. N /\ L \in Nat /\ m - 1 + K = N
  <2>1. K \in Nat /\ m - 1 \in 0 .. N /\ m - 1 + K = N
    BY <1>2
  <2>2. to[m - 1] \in ParseState(env)
    BY <1>1, <2>1
  <2>3. to[m - 1].dshArgs \in Seq(Arguments)
    BY <2>2 DEF ParseState
  <2> QED
    BY <2>1, <2>3
<1>7. Len(t) = K /\ \A i \in 1 .. K : t[i] = args[m - 1 + i]
  <2>1. t = SubSeq(args, m, N)
    BY DEF N
  <2> QED
    BY <1>2, <2>1, SubSeqProperties
<1>8. DOMAIN t = 1 .. K
  BY <1>2 DEF N
<1> DEFINE Arrived(k) ==
             /\ to[m - 1 + k].owes = "" /\ Len(to[m - 1 + k].dshArgs) = L + k
             /\ \A i \in 1 .. k : to[m - 1 + k].dshArgs[L + i] = t[i]
             /\ \A i \in 1 .. k : t[i] = Sentinel => to[m - 1 + k].passthrough
           Q == {k \in 0 .. K : Arrived(k)}
<1>9. 0 \in Q
  <2>1. m - 1 + 0 = m - 1 /\ L + 0 = L
    BY <1>6
  <2>2. to[m - 1 + 0].owes = ""
    BY <1>5, <2>1
  <2>3. Len(to[m - 1 + 0].dshArgs) = L
    BY <2>1
  <2>4. 0 \in 0 .. K /\ \A i \in 1 .. 0 : FALSE
    BY <1>6
  <2> HIDE DEF L, K
  <2>5. Arrived(0)
    BY <2>1, <2>2, <2>3, <2>4
  <2> HIDE DEF Arrived
  <2> QED
    BY <2>4, <2>5
<1>10. ASSUME NEW k \in 1 .. K, k - 1 \in Q PROVE k \in Q
  <2> DEFINE n == m - 1 + k
             s == to[n - 1]
             u == to[n]
  <2>1. /\ n \in 1 .. N /\ n - 1 \in 0 .. N /\ n \in 0 .. N /\ n - 1 = m - 1 + (k - 1) /\ k \in 0 .. K
        /\ args[n] = t[k] /\ args[n] \in Arguments
    <3>1. m \in Nat /\ N \in Nat /\ k \in Nat /\ k >= 1 /\ k <= N - m + 1 /\ m >= 1
      BY <1>2
    <3>2. n \in 1 .. N /\ n - 1 \in 0 .. N /\ n \in 0 .. N /\ n - 1 = m - 1 + (k - 1) /\ k \in 0 .. K
      BY <3>1
    <3>3. args[n] = t[k]
      BY <1>7
    <3> QED
      BY <1>2, <3>2, <3>3
  <2>2. s \in ParseState(env) /\ u = ParseTurn(s, args[n]) /\ ~s.error
    BY <1>1, <1>4, <2>1
  <2>3. /\ s.owes = "" /\ Len(s.dshArgs) = L + (k - 1)
        /\ \A i \in 1 .. k - 1 : s.dshArgs[L + i] = t[i]
        /\ \A i \in 1 .. k - 1 : t[i] = Sentinel => s.passthrough
    BY <1>10, <2>1
  <2>4. s.passthrough \/ Kind(args[n]) \notin BridgeFlags
    <3> SUFFICES ASSUME Kind(t[k]) \in BridgeFlags PROVE s.passthrough
      BY <2>1
    <3>1. PICK j \in 1 .. k : t[j] = Sentinel
      BY <1>8 DEF PlainTask
    <3>2. j # k
      <4>1. Kind(Sentinel) = "--"
        BY DEF Kind, Sentinel, None
      <4> QED
        BY <3>1, <4>1 DEF BridgeFlags, ModeFlags, ValueFlags, InlineOf
    <3>3. j \in 1 .. k - 1
      BY <3>1, <3>2
    <3> QED
      BY <2>3, <3>1, <3>3
  <2> HIDE DEF s, u, n
  <2>5. u.owes = "" /\ u.dshArgs = Append(s.dshArgs, t[k]) /\ (s.passthrough \/ t[k] = Sentinel => u.passthrough)
    <3> DEFINE a == args[n]
    <3>1. /\ a \in Arguments /\ a = t[k] /\ s \in ParseState(env) /\ ~s.error /\ s.owes = ""
          /\ (s.passthrough \/ Kind(a) \notin BridgeFlags) /\ u = ParseTurn(s, a)
      BY <2>1, <2>2, <2>3, <2>4
    <3> HIDE DEF a
    <3>2. PassesOn(s, a, u)
      BY ONLY <3>1, PlainTurn
    <3> QED
      BY <3>1, <3>2 DEF PassesOn
  <2>6. s.dshArgs \in Seq(Arguments) /\ t[k] \in Arguments
    BY <2>1, <2>2 DEF ParseState
  <2> DEFINE x == s.dshArgs
             y == t[k]
  <2>7. x \in Seq(Arguments) /\ y \in Arguments /\ Len(x) = L + (k - 1)
    BY <2>3, <2>6
  <2>a. u.dshArgs = Append(x, y)
    BY <2>5
  <2>b. (\A i \in 1 .. k - 1 : x[L + i] = t[i]) /\ y = t[k]
    BY <2>3
  <2> HIDE DEF x, y
  <2>8. Len(Append(x, y)) = Len(x) + 1 /\ Append(x, y)[Len(x) + 1] = y /\ \A i \in 1 .. Len(x) : Append(x, y)[i] = x[i]
    BY <2>7, AppendProperties
  <2>9. Len(u.dshArgs) = L + k
    BY <1>6, <2>7, <2>a, <2>8
  <2>10. ASSUME NEW i \in 1 .. k PROVE u.dshArgs[L + i] = t[i]
    <3>1. CASE i = k
      <4>1. L + i = Len(x) + 1
        BY <1>6, <2>7, <3>1
      <4> QED
        BY <2>a, <2>b, <2>8, <3>1, <4>1
    <3>2. CASE i # k
      <4>1. i \in 1 .. k - 1 /\ L + i \in 1 .. Len(x)
        BY <1>6, <2>7, <3>2
      <4> QED
        BY <2>a, <2>b, <2>8, <4>1
    <3> QED
      BY <3>1, <3>2
  <2>11. ASSUME NEW i \in 1 .. k, t[i] = Sentinel PROVE u.passthrough
    <3>1. i = k \/ i \in 1 .. k - 1
      OBVIOUS
    <3> QED
      BY <2>3, <2>5, <2>11, <3>1
  <2> QED
    BY <2>1, <2>5, <2>9, <2>10, <2>11 DEF u, n
<1>11. K \in Q
  <2> HIDE DEF Q, K
  <2>1. \A k \in 0 .. K : k \in Q
    BY <1>6, <1>9, <1>10, EveryPosition
  <2> QED
    BY <1>6, <2>1
<1>12. Len(to[N].dshArgs) = L + K /\ \A i \in 1 .. K : to[N].dshArgs[L + i] = t[i]
  BY <1>6, <1>11
<1> HIDE DEF L, K
<1>13. Len(to[N].dshArgs) - Len(t) = L /\ Len(t) <= Len(to[N].dshArgs)
  BY <1>6, <1>7, <1>12
<1> QED
  BY <1>3, <1>7, <1>12, <1>13 DEF Ends

\* The search for paths is over with an argument that is no flag's value and no flag.
LEMMA SearchIsOver ==
  ASSUME NEW S, NEW g \in Seq(S), NEW q \in 1 .. Len(g), Kind(g[q]) \in {"word", "--"},
         q = 1 \/ Kind(g[q - 1]) \notin NamesNext
  PROVE  \A i \in q .. Len(g) : i \notin collectDshPatchPathRefs(g)
<1> DEFINE s == PatchScan(g)
           N == Len(g)
<1>1. /\ s[0] = PatchStart
      /\ \A n \in 1 .. N : s[n] = PatchTurn(s[n - 1], g[n])
      /\ \A n \in 0 .. N : s[n] \in PatchState
  BY PatchEquation
<1>2. N \in Nat /\ DOMAIN g = 1 .. N
  OBVIOUS
<1>3. \A i \in 1 .. N : i \in collectDshPatchPathRefs(g) <=>
        \/ s[i - 1].owes = "path"
        \/ s[i - 1].owes = "" /\ s[i - 1].mode # "over" /\ Kind(g[i]) = "--patch="
  BY <1>2 DEF collectDshPatchPathRefs
<1> HIDE DEF s, N
<1>4. s[q - 1].owes = ""
  <2>1. CASE q = 1
    <3>1. q - 1 = 0 /\ PatchStart.owes = ""
      BY <2>1 DEF PatchStart
    <3> QED
      BY <1>1, <3>1
  <2>2. CASE q # 1
    <3>1. q - 1 \in 1 .. N /\ (q - 1) - 1 \in 0 .. N /\ q - 1 \in 0 .. N
      BY <1>2, <2>2 DEF N
    <3> DEFINE v == s[(q - 1) - 1]
               u == s[q - 1]
    <3>2. v \in PatchState /\ u = PatchTurn(v, g[q - 1]) /\ Kind(g[q - 1]) \notin NamesNext
      BY <1>1, <2>2, <3>1
    <3> HIDE DEF v, u
    <3>3. u.owes = ""
      BY <3>2 DEF PatchTurn, PatchState, NamesNext
    <3> QED
      BY <3>3 DEF u
  <2> QED
    BY <2>1, <2>2
<1> DEFINE O == {v \in PatchState : v.mode = "over" /\ v.owes = ""}
<1>5. s[q] \in O
  <2>1. q \in 1 .. N /\ q - 1 \in 0 .. N /\ q \in 0 .. N
    BY <1>2 DEF N
  <2> DEFINE v == s[q - 1]
             u == s[q]
  <2>2. v \in PatchState /\ u \in PatchState /\ v.owes = "" /\ u = PatchTurn(v, g[q])
    BY <1>1, <1>4, <2>1
  <2> HIDE DEF v, u
  <2>3. u.mode = "over" /\ u.owes = ""
    BY <2>2 DEF PatchTurn, PatchState
  <2> QED
    BY <2>2, <2>3 DEF u
<1>6. ASSUME NEW n \in 1 .. N, s[n - 1] \in O PROVE s[n] \in O
  <2> DEFINE v == s[n - 1]
             u == s[n]
  <2>1. v \in O /\ u = PatchTurn(v, g[n])
    BY <1>1, <1>6
  <2> HIDE DEF v, u
  <2>2. u = [v EXCEPT !.mode = "over"]
    BY <2>1 DEF PatchTurn
  <2>3. u \in O
    BY <2>1, <2>2 DEF PatchState
  <2> QED
    BY <2>3 DEF u
<1> DEFINE P == {k \in 0 .. N - q : s[q + k] \in O}
<1>7. \A k \in 0 .. N - q : k \in P
  <2>1. N - q \in Nat /\ q + 0 = q /\ q \in 1 .. N
    BY <1>2 DEF N
  <2>2. 0 \in P
    <3> HIDE DEF O
    <3>1. s[q + 0] \in O
      BY <1>5, <2>1
    <3>2. 0 \in 0 .. N - q
      BY <2>1
    <3> QED
      BY <3>1, <3>2
  <2>3. ASSUME NEW k \in 1 .. N - q, k - 1 \in P PROVE k \in P
    <3>1. q + k \in 1 .. N /\ (q + k) - 1 = q + (k - 1) /\ k \in 0 .. N - q
      BY <1>2, <2>1
    <3> HIDE DEF O
    <3>2. s[(q + k) - 1] \in O
      BY <2>3, <3>1
    <3>3. s[q + k] \in O
      BY <1>6, <3>1, <3>2
    <3> QED
      BY <3>1, <3>3
  <2> HIDE DEF P
  <2> QED
    BY <2>1, <2>2, <2>3, EveryPosition
<1>8. ASSUME NEW i \in q .. Len(g) PROVE i \notin collectDshPatchPathRefs(g)
  <2>1. i \in 1 .. N
    BY <1>2 DEF N
  <2>2. CASE i = q
    BY <1>3, <1>4, <2>1, <2>2
  <2>3. CASE i # q
    <3>1. (i - 1) - q \in 0 .. N - q /\ q + ((i - 1) - q) = i - 1
      BY <1>2, <2>1, <2>3
    <3>2. s[i - 1] \in O
      BY <1>7, <3>1
    <3> QED
      BY <1>3, <2>1, <3>2
  <2> QED
    BY <2>2, <2>3
<1> QED
  BY <1>8

\* t is the end of x, and no flag's value there.
Fits(x, t) == Ends(x, t) /\ Kind(Arg(x, Len(x) - Len(t))) \notin NamesNext

\* What is put in front, a flag and its value, changes nothing about that.
LEMMA FitsBehind ==
  ASSUME NEW S, NEW x \in Seq(S), NEW y \in Seq(S), NEW T, NEW t \in Seq(T),
         NEW n \in {0, 1}, Len(x) >= n, Len(y) = Len(x) + (2 - n), Kind(y[2]) = "word",
         \A i \in n + 1 .. Len(x) : y[i + (2 - n)] = x[i],
         Len(t) <= Len(x) - n, Fits(x, t)
  PROVE  Fits(y, t)
<1>1. /\ Len(x) \in Nat /\ Len(y) \in Nat /\ Len(t) \in Nat /\ DOMAIN x = 1 .. Len(x) /\ DOMAIN y = 1 .. Len(y)
      /\ \A i \in 1 .. Len(t) : x[Len(x) - Len(t) + i] = t[i]
      /\ Kind(Arg(x, Len(x) - Len(t))) \notin NamesNext
  BY DEF Fits, Ends
<1>2. ASSUME NEW i \in 1 .. Len(t) PROVE y[Len(y) - Len(t) + i] = t[i]
  <2>1. Len(x) - Len(t) + i \in n + 1 .. Len(x) /\ Len(y) - Len(t) + i = (Len(x) - Len(t) + i) + (2 - n)
    BY <1>1
  <2> QED
    BY <1>1, <2>1
<1>3. Kind(Arg(y, Len(y) - Len(t))) \notin NamesNext
  <2>1. CASE Len(x) - Len(t) = n
    <3>1. Len(y) - Len(t) = 2 /\ 2 \in 1 .. Len(y)
      BY <1>1, <2>1
    <3> QED
      BY <1>1, <3>1 DEF Arg, NamesNext
  <2>2. CASE Len(x) - Len(t) # n
    <3>1. /\ Len(x) - Len(t) \in n + 1 .. Len(x) /\ Len(x) - Len(t) \in 1 .. Len(x)
          /\ Len(y) - Len(t) = (Len(x) - Len(t)) + (2 - n) /\ Len(y) - Len(t) \in 1 .. Len(y)
      <4> DEFINE a == Len(x)
                 b == Len(y)
                 l == Len(t)
      <4>1. a \in Nat /\ b \in Nat /\ l \in Nat /\ n \in {0, 1} /\ b = a + (2 - n) /\ l <= a - n /\ a - l # n
        <5>1. a \in Nat /\ b \in Nat /\ l \in Nat
          BY <1>1
        <5> QED
          BY ONLY <2>2, <5>1, n \in {0, 1}, Len(y) = Len(x) + (2 - n), Len(t) <= Len(x) - n
      <4> HIDE DEF a, b, l
      <4>2. a - l \in n + 1 .. a /\ a - l \in 1 .. a /\ b - l = (a - l) + (2 - n) /\ b - l \in 1 .. b
        BY ONLY <4>1
      <4> QED
        BY <4>2 DEF a, b, l
    <3> QED
      BY <1>1, <3>1 DEF Arg
  <2> QED
    BY <2>1, <2>2
<1>4. Len(t) <= Len(y)
  BY <1>1
<1> QED
  BY <1>2, <1>3, <1>4 DEF Fits, Ends

\* The task is the end of what DSH is given, and no flag's value there, if it was so in its arguments.
LEMMA TaskGiven ==
  ASSUME NEW c, Accepted(c), OptionsOf(c).mode = "run", ~Plugin(c).error,
         NEW t \in Seq(Arguments), Len(t) >= 1, Kind(t[1]) \in {"word", "--"},
         Fits(OptionsOf(c).dshArgs, t), Kind(Arg(OptionsOf(c).dshArgs, 1)) # "plugin"
  PROVE  Given(c) \in Seq(Spelled) /\ Fits(Given(c), t)
<1> DEFINE D == OptionsOf(c).dshArgs
           base == OptionsOf(c).profile
           web == orcanaWebProfileName(base)
           R == Product(c)
           g == Given(c)
<1>1. base \in Profiles /\ web \in Profiles /\ D \in Seq(Arguments) /\ Clean(D)
  BY OptionsType
<1>2. Kind(base) = "word" /\ Kind(web) = "word"
  BY <1>1, LaunchAssumption
<1>3. R = rewriteOrcanaWebInvocation(D, base) /\ R \in Seq(Typed) /\ Len(t) \in Nat /\ Len(D) \in Nat
  BY <1>1, Rewritten DEF Product
<1>4. Fits(D, t) /\ Kind(Arg(D, 1)) # "plugin"
  OBVIOUS
<1>5. /\ Plugin(c).args \in Seq(Spelled) /\ Bridged(c).dshArgs = Plugin(c).args /\ Bridged(c).profile = base
      /\ g \in Seq(Spelled)
  BY BridgedRun, GivenType
<1>6. R \in Seq(Typed) /\ OptionsOf(c).distro \in Worlds \cup {None}
  BY <1>3, OptionsType
<1> HIDE DEF D, base, web, R
<1>7. Fits(R, t) /\ Kind(Arg(R, 1)) # "plugin"
  <2>1. CASE Kind(Arg(D, 1)) # "web"
    BY <1>1, <1>3, <1>4, <2>1, Rewritten DEF web
  <2>2. CASE Kind(Arg(D, 1)) = "web"
    <3>1. /\ Len(D) >= 1 /\ Len(R) = Len(D) + 1 /\ R[1] = <<"--profile">> /\ R[2] = web
          /\ \A i \in 2 .. Len(D) : R[i + 1] = D[i]
      BY <1>1, <1>3, <2>2, Rewritten DEF web
    <3>2. Len(t) # Len(D)
      <4> SUFFICES ASSUME Len(t) = Len(D) PROVE FALSE
        OBVIOUS
      <4>1. Len(D) - Len(t) + 1 = 1 /\ 1 \in 1 .. Len(t) /\ 1 \in DOMAIN D
        BY <1>1, <1>3
      <4>2. D[1] = t[1]
        BY <1>4, <4>1 DEF Fits, Ends
      <4> QED
        BY <2>2, <4>1, <4>2 DEF Arg
    <3>3. Len(t) <= Len(D) - 1
      BY <1>3, <1>4, <3>2 DEF Fits, Ends
    <3>4. D \in Seq(Typed) /\ Kind(R[2]) = "word"
      BY <1>1, <1>2, <3>1 DEF Typed
    <3>5. Fits(R, t)
      <4>1. 1 \in {0, 1} /\ Len(R) = Len(D) + (2 - 1) /\ \A i \in 1 + 1 .. Len(D) : R[i + (2 - 1)] = D[i]
        BY <1>3, <3>1
      <4>2. Len(D) >= 1
        BY <3>1
      <4> QED
        BY ONLY <1>3, <1>4, <3>3, <3>4, <4>1, <4>2, t \in Seq(Arguments), FitsBehind
    <3>6. Arg(R, 1) = <<"--profile">>
      BY <1>3, <3>1 DEF Arg
    <3>7. Kind(<<"--profile">>) = "--profile"
      BY DEF Kind, None
    <3> QED
      BY <3>5, <3>6, <3>7
  <2> QED
    BY <2>1, <2>2
<1>8. Plugin(c).args = R
  <2>1. CASE c.windows
    <3>1. translateDshPluginPathSpecsForWsl(R, OptionsOf(c).distro) = [error |-> FALSE, distro |-> OptionsOf(c).distro, args |-> R]
      BY <1>6, <1>7, SpecsTranslated
    <3> QED
      BY <2>1, <3>1 DEF Plugin, R
  <2>2. CASE ~c.windows
    BY <2>2 DEF Plugin, R
  <2> QED
    BY <2>1, <2>2
<1>9. Fits(g, t)
  <2>1. CASE ~shouldInjectDefaultProfile(R)
    <3>1. g = R
      BY <1>5, <1>8, <2>1 DEF Given, dshArgsForBridge
    <3> QED
      BY <1>7, <3>1
  <2>2. CASE shouldInjectDefaultProfile(R)
    <3> DEFINE h == << <<"--profile">>, base >>
    <3>1. g = h \o R
      BY <1>5, <1>8, <2>2 DEF Given, dshArgsForBridge
    <3>2. h \in Seq(Spelled) /\ Len(h) = 2 /\ h[2] = base
      BY <1>1 DEF Spelled, Typed
    <3>3. R \in Seq(Spelled) /\ Len(R) \in Nat
      BY <1>5, <1>8
    <3> HIDE DEF h, g
    <3>4. /\ Len(h \o R) = Len(h) + Len(R)
          /\ \A i \in 1 .. Len(h) + Len(R) : (h \o R)[i] = IF i <= Len(h) THEN h[i] ELSE R[i - Len(h)]
      BY ONLY <3>2, <3>3, ConcatProperties
    <3>5. /\ Len(g) = Len(R) + (2 - 0) /\ g[2] = base /\ \A i \in 0 + 1 .. Len(R) : g[i + (2 - 0)] = R[i]
      <4>1. Len(g) = Len(R) + (2 - 0) /\ g[2] = base
        BY <3>1, <3>2, <3>3, <3>4
      <4>2. ASSUME NEW i \in 0 + 1 .. Len(R) PROVE g[i + (2 - 0)] = R[i]
        <5>1. i + (2 - 0) \in 1 .. Len(h) + Len(R) /\ ~(i + (2 - 0) <= Len(h)) /\ (i + (2 - 0)) - Len(h) = i
          BY <3>2, <3>3
        <5> QED
          BY <3>1, <3>4, <5>1
      <4> QED
        BY <4>1, <4>2
    <3>6. 0 \in {0, 1} /\ Len(R) >= 0 /\ Kind(g[2]) = "word" /\ Len(t) <= Len(R) - 0
      <4>1. Len(t) <= Len(R)
        BY <1>7 DEF Fits, Ends
      <4> QED
        BY <1>2, <1>3, <3>3, <3>5, <4>1
    <3> QED
      BY ONLY <1>5, <1>7, <3>3, <3>5, <3>6, t \in Seq(Arguments), FitsBehind
  <2> QED
    BY <2>1, <2>2
<1> QED
  BY <1>5, <1>9

\* So it is the end of what DSH gets.
LEMMA TaskArrives ==
  ASSUME NEW c, Accepted(c), OptionsOf(c).mode = "run", ~Plugin(c).error,
         NEW t \in Seq(Arguments), Len(t) >= 1, Kind(t[1]) \in {"word", "--"},
         Fits(OptionsOf(c).dshArgs, t), Kind(Arg(OptionsOf(c).dshArgs, 1)) # "plugin"
  PROVE  IsSuffix(t, Final(c).args)
<1> DEFINE g == Given(c)
           a == Final(c).args
           q == Len(g) - Len(t) + 1
<1>1. g \in Seq(Spelled) /\ Fits(g, t)
  BY TaskGiven
<1>2. CASE ~c.windows
  <2>1. a = g
    BY <1>2 DEF Final
  <2> HIDE DEF g, a
  <2>2. IsSuffix(t, a)
    BY <1>1, <2>1, EndsIsSuffix DEF Fits
  <2> QED
    BY <2>2 DEF a
<1>3. CASE c.windows
  <2>1. DOMAIN a = DOMAIN g /\ a = [i \in DOMAIN g |-> a[i]]
        /\ \A i \in DOMAIN g : i \notin collectDshPatchPathRefs(g) => a[i] = g[i]
    BY <1>3 DEF Final, translateDshPathArgsForWsl
  <2> HIDE DEF g, a
  <2>2. /\ Len(g) \in Nat /\ Len(t) \in Nat /\ DOMAIN g = 1 .. Len(g) /\ Len(t) <= Len(g) /\ q \in 1 .. Len(g)
        /\ Len(g) - Len(t) + 1 = q /\ Len(g) - Len(t) = q - 1
    BY <1>1 DEF Fits, Ends
  <2>3. g[q] = t[1] /\ Kind(Arg(g, q - 1)) \notin NamesNext
    BY <1>1, <2>2 DEF Fits, Ends
  <2>4. q = 1 \/ Kind(g[q - 1]) \notin NamesNext
    BY <2>2, <2>3 DEF Arg
  <2> HIDE DEF q
  <2>5. \A i \in q .. Len(g) : i \notin collectDshPatchPathRefs(g)
    BY <1>1, <2>2, <2>3, <2>4, SearchIsOver
  <2> DEFINE S == {a[i] : i \in 1 .. Len(g)}
  <2>6. a \in Seq(S) /\ Len(a) = Len(g)
    <3>1. a \in [1 .. Len(g) -> S]
      BY <2>1, <2>2
    <3> HIDE DEF S
    <3>2. a \in Seq(S)
      BY <2>2, <3>1
    <3> QED
      BY <2>1, <2>2, <3>2
  <2>7. ASSUME NEW i \in 1 .. Len(t) PROVE a[Len(a) - Len(t) + i] = t[i]
    <3>1. Len(g) - Len(t) + i \in q .. Len(g) /\ Len(g) - Len(t) + i \in DOMAIN g
      BY <2>2
    <3>2. g[Len(g) - Len(t) + i] = t[i]
      BY <1>1 DEF Fits, Ends
    <3> QED
      BY <2>1, <2>5, <2>6, <3>1, <3>2
  <2>8. Ends(a, t)
    BY <2>2, <2>6, <2>7 DEF Ends
  <2> HIDE DEF S
  <2>9. IsSuffix(t, a)
    BY <2>6, <2>8, EndsIsSuffix
  <2> QED
    BY <2>9 DEF a
<1> QED
  BY <1>2, <1>3

\* TaskIsOpaque, for any worlds, profiles and calls: from the sentinel or the first word of the task
\* on, DSH gets the arguments as they were typed, whatever they look like.
THEOREM TasksAreOpaque == Spec => []TaskIsOpaque
<1> DEFINE Inv == LaunchInv /\ WorldInv /\ RanInv
<1>1. Init => Inv
  <2>1. Init => RanInv
    BY DEF Init, RanInv
  <2> QED
    BY <2>1, InitLaunch, InitWorld
<1>2. Inv /\ [Next]_vars => Inv'
  BY LaunchStep, WorldStep, RanStep
<1>3. Inv => TaskIsOpaque
  <2> DEFINE args == call.args
             t == TaskOf(args)
             D == options.dshArgs
  <2> SUFFICES ASSUME Inv, pc = "running", TaskStarts(args) # {}, Kind(Arg(D, 1)) # "plugin",
                      PlainTask(t), Kind(Arg(D, Len(D) - Len(t))) \notin NamesNext
               PROVE  IsSuffix(t, ran.argv)
    BY DEF TaskIsOpaque
  <2>1. options.mode = "run" /\ ~Plugin(call).error /\ ran.argv = Final(call).args
    BY DEF RanInv
  <2>2. Accepted(call) /\ options = OptionsOf(call)
    BY DEF LaunchInv, AtRest, call, options
  <2>3. args \in Seq(Arguments) /\ ~Parsed(call).error /\ D = Parsed(call).dshArgs
    BY <2>2, CallType, Opted DEF Accepted
  <2>4. Parsed(call) = parseWslBridgeArgs(args, call.env)
    BY DEF Parsed
  <2> HIDE DEF args, D
  <2>5. Len(args) \in Nat /\ DOMAIN args = 1 .. Len(args)
    BY <2>3
  <2> DEFINE m == Min(TaskStarts(args))
  <2>6. m \in TaskStarts(args)
    <3>1. TaskStarts(args) \in SUBSET Nat /\ TaskStarts(args) # {}
      BY <2>5 DEF TaskStarts
    <3>2. \E n \in TaskStarts(args) : \A k \in TaskStarts(args) : n <= k
      BY <3>1, LeastNumber
    <3> QED
      BY <3>2 DEF Min
  <2>7. t = SubSeq(args, m, Len(args))
    BY DEF TaskOf
  <2> HIDE DEF m, t
  <2>8. m \in 1 .. Len(args) /\ (args[m] = Sentinel \/ Kind(args[m]) = "word")
    BY <2>5, <2>6 DEF TaskStarts
  <2>9. t \in Seq(Arguments) /\ Len(t) >= 1 /\ t[1] = args[m]
    <3>1. t \in Seq(Arguments) /\ Len(t) = Len(args) - m + 1
      BY <2>3, <2>5, <2>7, <2>8, SubSeqProperties
    <3>2. Len(t) >= 1 /\ 1 \in 1 .. Len(args) - m + 1 /\ m + 1 - 1 = m
      BY <2>5, <2>8, <3>1
    <3> QED
      BY <2>3, <2>5, <2>7, <2>8, <3>1, <3>2, SubSeqProperties
  <2>10. Kind(t[1]) \in {"word", "--"}
    <3>1. Kind(Sentinel) = "--"
      BY DEF Kind, Sentinel, None
    <3> QED
      BY <2>8, <2>9, <3>1
  <2>11. Ends(D, t)
    BY <2>3, <2>4, <2>6, <2>7, TaskParsed
  <2>12. Fits(D, t)
    BY <2>11 DEF Fits
  <2>13. IsSuffix(t, Final(call).args)
    BY <2>1, <2>2, <2>9, <2>10, <2>12, TaskArrives DEF D
  <2> QED
    BY <2>1, <2>13
<1> QED
  BY <1>1, <1>2, <1>3, PTL DEF Spec

-----------------------------------------------------------------------------
(* What crosses into WSL. *)

\* Lists put together, from the first on.
LEMMA JoinedEquation ==
  ASSUME NEW R, NEW lists \in Seq(Seq(R))
  PROVE  /\ JoinedTo(lists)[0] = <<>>
         /\ \A n \in 1 .. Len(lists) : JoinedTo(lists)[n] = JoinedTo(lists)[n - 1] \o lists[n]
         /\ \A n \in 0 .. Len(lists) : JoinedTo(lists)[n] \in Seq(R)
<1> DEFINE N == Len(lists)
           V == Seq(R)
           Def(f) == [n \in 0 .. N |-> IF n = 0 THEN <<>> ELSE f[n - 1] \o lists[n]]
           G == [n \in 1 .. N |-> [s \in V |-> s \o lists[n]]]
           to == CHOOSE f : f = Def(f)
<1>1. N \in Nat /\ (\A n \in 1 .. N : lists[n] \in V) /\ <<>> \in V
  OBVIOUS
<1>2. G \in [1 .. N -> [V -> V]]
  <2>1. \A n \in 1 .. N : \A s \in V : s \o lists[n] \in V
    BY <1>1
  <2> HIDE DEF V
  <2> QED
    BY <2>1
<1>3. PICK f : Iterates(N, V, <<>>, G, f)
  <2> HIDE DEF G, N, V
  <2> QED
    BY <1>1, <1>2, PositionRecursion
<1>4. f = Def(f)
  <2>1. /\ f \in [0 .. N -> V] /\ f[0] = <<>>
        /\ \A n \in 1 .. N : f[n] = G[n][f[n - 1]]
    BY <1>3 DEF Iterates
  <2> HIDE DEF V
  <2>2. ASSUME NEW n \in 0 .. N, n # 0 PROVE f[n] = f[n - 1] \o lists[n]
    <3>1. n \in 1 .. N /\ n - 1 \in 0 .. N
      BY <1>1, <2>2
    <3> QED
      BY <2>1, <3>1
  <2>3. \A n \in 0 .. N : f[n] = IF n = 0 THEN <<>> ELSE f[n - 1] \o lists[n]
    BY <2>1, <2>2
  <2> QED
    BY <2>1, <2>3
<1>5. to = Def(to)
  <2> HIDE DEF Def
  <2> QED
    BY <1>4
<1>6. JoinedTo(lists) = to
  BY DEF JoinedTo
<1> HIDE DEF to
<1>7. to[0] = <<>>
  BY <1>1, <1>5
<1>8. ASSUME NEW n \in 1 .. N PROVE to[n] = to[n - 1] \o lists[n]
  <2>1. n \in 0 .. N /\ n # 0
    BY <1>1
  <2> QED
    BY <1>5, <2>1
<1> DEFINE P == {n \in 0 .. N : to[n] \in V}
<1>9. \A n \in 0 .. N : n \in P
  <2>1. 0 \in P
    <3> HIDE DEF V
    <3> QED
      BY <1>1, <1>7
  <2>2. ASSUME NEW n \in 1 .. N, n - 1 \in P PROVE n \in P
    <3>1. \A s \in V, t \in V : s \o t \in V
      OBVIOUS
    <3> HIDE DEF V
    <3>2. to[n - 1] \in V /\ lists[n] \in V /\ n \in 0 .. N
      BY <1>1, <2>2
    <3> QED
      BY <1>8, <3>1, <3>2
  <2> HIDE DEF P
  <2> QED
    BY <1>1, <2>1, <2>2, EveryPosition
<1> QED
  BY <1>6, <1>7, <1>8, <1>9

\* Only what has come counts.
LEMMA JoinedAlike ==
  ASSUME NEW R, NEW a \in Seq(Seq(R)), NEW b \in Seq(Seq(R)), NEW m \in Nat, m <= Len(a), m <= Len(b),
         \A n \in 1 .. m : a[n] = b[n]
  PROVE  JoinedTo(a)[m] = JoinedTo(b)[m]
<1> DEFINE P == {n \in 0 .. m : JoinedTo(a)[n] = JoinedTo(b)[n]}
<1>1. 0 \in P
  <2>1. JoinedTo(a)[0] = <<>> /\ JoinedTo(b)[0] = <<>>
    BY JoinedEquation
  <2> QED
    BY <2>1
<1>2. ASSUME NEW n \in 1 .. m, n - 1 \in P PROVE n \in P
  <2>1. n \in 1 .. Len(a) /\ n \in 1 .. Len(b) /\ n \in 0 .. m /\ a[n] = b[n]
    OBVIOUS
  <2>2. JoinedTo(a)[n] = JoinedTo(a)[n - 1] \o a[n] /\ JoinedTo(b)[n] = JoinedTo(b)[n - 1] \o b[n]
    BY <2>1, JoinedEquation
  <2>3. JoinedTo(a)[n - 1] = JoinedTo(b)[n - 1]
    BY <1>2
  <2>4. JoinedTo(a)[n] = JoinedTo(b)[n]
    BY <2>1, <2>2, <2>3
  <2> QED
    BY <2>1, <2>4
<1>3. \A n \in 0 .. m : n \in P
  <2> HIDE DEF P
  <2> QED
    BY <1>1, <1>2, EveryPosition
<1> QED
  BY <1>3

\* Empty lists add nothing.
LEMMA JoinedGap ==
  ASSUME NEW R, NEW lists \in Seq(Seq(R)), NEW k \in Nat, NEW m \in Nat, k <= m, m <= Len(lists),
         \A n \in (k + 1) .. m : lists[n] = <<>>
  PROVE  JoinedTo(lists)[m] = JoinedTo(lists)[k]
<1> DEFINE P == {n \in 0 .. m : n <= k \/ JoinedTo(lists)[n] = JoinedTo(lists)[k]}
<1>1. 0 \in P
  OBVIOUS
<1>2. ASSUME NEW n \in 1 .. m, n - 1 \in P PROVE n \in P
  <2>1. CASE n <= k
    BY <2>1
  <2>2. CASE ~(n <= k)
    <3>1. n \in (k + 1) .. m /\ n \in 1 .. Len(lists) /\ n - 1 \in 0 .. Len(lists)
      BY <2>2
    <3>2. JoinedTo(lists)[n] = JoinedTo(lists)[n - 1] \o lists[n] /\ JoinedTo(lists)[n - 1] \in Seq(R)
      BY <3>1, JoinedEquation
    <3>3. JoinedTo(lists)[n] = JoinedTo(lists)[n - 1]
      <4>1. lists[n] = <<>>
        BY <3>1
      <4> QED
        BY <3>2, <4>1, ConcatEmptySeq
    <3>4. n - 1 <= k => n - 1 = k
      BY <2>2
    <3> QED
      BY <1>2, <3>3, <3>4
  <2> QED
    BY <2>1, <2>2
<1>3. \A n \in 0 .. m : n \in P
  <2> HIDE DEF P
  <2> QED
    BY <1>1, <1>2, EveryPosition
<1>4. m \in P
  BY <1>3
<1> QED
  BY <1>4

\* A list behind the others.
LEMMA JoinedAppend ==
  ASSUME NEW R, NEW lists \in Seq(Seq(R)), NEW l \in Seq(R)
  PROVE  Joined(Append(lists, l)) = Joined(lists) \o l
<1> DEFINE more == Append(lists, l)
           N == Len(lists)
<1>1. /\ N \in Nat /\ more \in Seq(Seq(R)) /\ Len(more) = N + 1 /\ more[N + 1] = l
      /\ \A n \in 1 .. N : more[n] = lists[n]
  OBVIOUS
<1> HIDE DEF more, N
<1>2. JoinedTo(more)[N + 1] = JoinedTo(more)[(N + 1) - 1] \o more[N + 1]
  <2>1. N + 1 \in 1 .. Len(more)
    BY <1>1
  <2> QED
    BY <1>1, <2>1, JoinedEquation
<1>3. JoinedTo(more)[N] = JoinedTo(lists)[N]
  <2>1. N <= Len(more) /\ N <= Len(lists)
    BY <1>1 DEF N
  <2> QED
    BY <1>1, <2>1, JoinedAlike
<1>4. (N + 1) - 1 = N
  BY <1>1
<1> QED
  BY <1>1, <1>2, <1>3, <1>4 DEF Joined, N, more

\* The first list that is not empty comes first.
LEMMA JoinedFirst ==
  ASSUME NEW R, NEW lists \in Seq(Seq(R)), NEW k \in 1 .. Len(lists), lists[k] # <<>>,
         \A n \in 1 .. (k - 1) : lists[n] = <<>>
  PROVE  Joined(lists) # <<>> /\ Joined(lists)[1] = lists[k][1]
<1> DEFINE N == Len(lists)
           P == {n \in 0 .. N : n < k \/ (JoinedTo(lists)[n] # <<>> /\ JoinedTo(lists)[n][1] = lists[k][1])}
<1>1. N \in Nat /\ k - 1 \in Nat /\ lists[k] \in Seq(R)
  OBVIOUS
<1>2. JoinedTo(lists)[k - 1] = <<>>
  <2>1. JoinedTo(lists)[k - 1] = JoinedTo(lists)[0]
    <3>1. 0 <= k - 1 /\ k - 1 <= Len(lists) /\ \A n \in (0 + 1) .. (k - 1) : lists[n] = <<>>
      OBVIOUS
    <3> QED
      BY <1>1, <3>1, JoinedGap
  <2> QED
    BY <2>1, JoinedEquation
<1>3. 0 \in P
  OBVIOUS
<1>4. ASSUME NEW n \in 1 .. N, n - 1 \in P PROVE n \in P
  <2>1. n \in 1 .. Len(lists) /\ n - 1 \in 0 .. Len(lists) /\ lists[n] \in Seq(R)
    OBVIOUS
  <2>2. JoinedTo(lists)[n] = JoinedTo(lists)[n - 1] \o lists[n] /\ JoinedTo(lists)[n - 1] \in Seq(R)
    BY <2>1, JoinedEquation
  <2>3. CASE n < k
    BY <2>3
  <2>4. CASE n = k
    <3>1. JoinedTo(lists)[n] = lists[k]
      BY <1>1, <1>2, <2>2, <2>4, ConcatEmptySeq
    <3> QED
      BY <3>1
  <2>5. CASE n > k
    <3>1. ~(n - 1 < k)
      BY <2>5
    <3>2. JoinedTo(lists)[n - 1] # <<>> /\ JoinedTo(lists)[n - 1][1] = lists[k][1]
      BY <1>4, <3>1
    <3> DEFINE s == JoinedTo(lists)[n - 1]
               t == lists[n]
    <3>3. s \in Seq(R) /\ t \in Seq(R) /\ s # <<>>
      BY <2>1, <2>2, <3>2
    <3> HIDE DEF s, t
    <3>4. s \o t # <<>> /\ (s \o t)[1] = s[1]
      BY <3>3
    <3>5. JoinedTo(lists)[n] = s \o t /\ s[1] = lists[k][1]
      BY <2>2, <3>2 DEF s, t
    <3>6. JoinedTo(lists)[n] # <<>> /\ JoinedTo(lists)[n][1] = lists[k][1]
      BY <3>4, <3>5
    <3> QED
      BY <3>6
  <2> QED
    BY <2>3, <2>4, <2>5
<1>5. \A n \in 0 .. N : n \in P
  <2> HIDE DEF P
  <2> QED
    BY <1>1, <1>3, <1>4, EveryPosition
<1>6. N \in P /\ ~(N < k)
  BY <1>5
<1> QED
  BY <1>6 DEF Joined

\* Of lists only one of which is not empty, that one remains.
LEMMA JoinedOne ==
  ASSUME NEW R, NEW lists \in Seq(Seq(R)), NEW k \in 1 .. Len(lists),
         \A n \in 1 .. Len(lists) : n # k => lists[n] = <<>>
  PROVE  Joined(lists) = lists[k]
<1> DEFINE N == Len(lists)
<1>1. N \in Nat /\ k - 1 \in Nat /\ k \in Nat /\ lists[k] \in Seq(R)
  OBVIOUS
<1>2. JoinedTo(lists)[k - 1] = <<>>
  <2>1. JoinedTo(lists)[k - 1] = JoinedTo(lists)[0]
    <3>1. 0 <= k - 1 /\ k - 1 <= Len(lists) /\ \A n \in (0 + 1) .. (k - 1) : lists[n] = <<>>
      OBVIOUS
    <3> QED
      BY <1>1, <3>1, JoinedGap
  <2> QED
    BY <2>1, JoinedEquation
<1>3. JoinedTo(lists)[k] = lists[k]
  <2>1. JoinedTo(lists)[k] = JoinedTo(lists)[k - 1] \o lists[k]
    BY JoinedEquation
  <2> QED
    BY <1>1, <1>2, <2>1
<1>4. JoinedTo(lists)[N] = JoinedTo(lists)[k]
  <2>1. k <= N /\ N <= Len(lists) /\ \A n \in (k + 1) .. N : lists[n] = <<>>
    OBVIOUS
  <2> QED
    BY <1>1, <2>1, JoinedGap
<1> QED
  BY <1>3, <1>4 DEF Joined

\* Of empty lists nothing does.
LEMMA JoinedNone ==
  ASSUME NEW R, NEW lists \in Seq(Seq(R)), \A n \in 1 .. Len(lists) : lists[n] = <<>>
  PROVE  Joined(lists) = <<>>
<1>1. 0 <= Len(lists) /\ Len(lists) \in Nat /\ Len(lists) <= Len(lists) /\ \A n \in (0 + 1) .. Len(lists) : lists[n] = <<>>
  OBVIOUS
<1>2. JoinedTo(lists)[Len(lists)] = JoinedTo(lists)[0]
  BY <1>1, JoinedGap
<1> QED
  BY <1>2, JoinedEquation DEF Joined

\* A row that stays is a list of one, a row that goes an empty one.
OneOrNone == {<<>>} \cup {<< r >> : r \in EnvRows}

\* Of such a list, what bears one of the names.
OnlyOf(l, names) == IF l # <<>> /\ l[1].name \in names THEN l ELSE <<>>

\* A list of one or no row is a list of rows, and so is what of it bears one of the names.
LEMMA OneOrNoneIsList ==
  /\ \A l \in OneOrNone : l \in Seq(EnvRows)
  /\ Seq(OneOrNone) \subseteq Seq(Seq(EnvRows))
  /\ \A l \in OneOrNone : \A names : OnlyOf(l, names) \in OneOrNone
<1>1. \A r \in EnvRows : << r >> \in Seq(EnvRows)
  OBVIOUS
<1>2. OneOrNone \subseteq Seq(EnvRows)
  <2> DEFINE T == Seq(EnvRows)
  <2>1. <<>> \in T /\ \A r \in EnvRows : << r >> \in T
    BY <1>1
  <2> HIDE DEF T
  <2>2. OneOrNone \subseteq T
    BY <2>1 DEF OneOrNone
  <2> QED
    BY <2>2 DEF T
<1>3. \A s \in Seq(OneOrNone) : s \in Seq(Seq(EnvRows))
  <2> DEFINE T == Seq(EnvRows)
  <2>1. OneOrNone \subseteq T
    BY <1>2
  <2> HIDE DEF T
  <2>2. \A s \in Seq(OneOrNone) : s \in Seq(T)
    BY <2>1
  <2> QED
    BY <2>2 DEF T
<1> QED
  BY <1>2, <1>3 DEF OnlyOf, OneOrNone

\* The rows of some names, as lists.
Parts(rows, names) == [n \in DOMAIN rows |-> IF rows[n].name \in names THEN << rows[n] >> ELSE <<>>]

\* They are lists of one or no row, and put together they are the rows of those names.
LEMMA PartsType ==
  ASSUME NEW rows \in Seq(EnvRows), NEW names
  PROVE  /\ Parts(rows, names) \in Seq(OneOrNone) /\ Parts(rows, names) \in Seq(Seq(EnvRows))
         /\ Len(Parts(rows, names)) = Len(rows)
         /\ \A n \in 1 .. Len(rows) : Parts(rows, names)[n] = OnlyOf(<< rows[n] >>, names)
         /\ RowsOf(rows, names) = Joined(Parts(rows, names))
         /\ RowsOf(rows, names) \in Seq(EnvRows)
<1> DEFINE p == Parts(rows, names)
           N == Len(rows)
<1>1. N \in Nat /\ DOMAIN rows = 1 .. N /\ \A n \in 1 .. N : rows[n] \in EnvRows
  OBVIOUS
<1>2. \A n \in 1 .. N : (IF rows[n].name \in names THEN << rows[n] >> ELSE <<>>) \in OneOrNone
  BY <1>1 DEF OneOrNone
<1>3. p \in [1 .. N -> OneOrNone]
  BY <1>1, <1>2 DEF Parts
<1>4. p \in Seq(OneOrNone) /\ Len(p) = N
  <2> HIDE DEF p, N
  <2> QED
    BY <1>1, <1>3
<1>5. p \in Seq(Seq(EnvRows))
  BY <1>4, OneOrNoneIsList
<1>6. \A n \in 1 .. N : p[n] = OnlyOf(<< rows[n] >>, names)
  <2>1. ASSUME NEW n \in 1 .. N PROVE p[n] = OnlyOf(<< rows[n] >>, names)
    <3>1. p[n] = IF rows[n].name \in names THEN << rows[n] >> ELSE <<>>
      BY <1>1 DEF Parts
    <3>2. << rows[n] >> # <<>> /\ << rows[n] >>[1] = rows[n]
      OBVIOUS
    <3> QED
      BY <3>1, <3>2 DEF OnlyOf
  <2> QED
    BY <2>1
<1>7. RowsOf(rows, names) = Joined(p)
  BY DEF RowsOf, Parts
<1>8. Joined(p) \in Seq(EnvRows)
  <2>1. Len(p) \in 0 .. Len(p)
    BY <1>1, <1>4
  <2> HIDE DEF p
  <2> QED
    BY <1>5, <2>1, JoinedEquation DEF Joined
<1> QED
  BY <1>4, <1>5, <1>6, <1>7, <1>8

\* A row behind the others.
LEMMA RowsOfAppend ==
  ASSUME NEW rows \in Seq(EnvRows), NEW row \in EnvRows, NEW names
  PROVE  RowsOf(Append(rows, row), names) = RowsOf(rows, names) \o OnlyOf(<< row >>, names)
<1> DEFINE more == Append(rows, row)
           l == OnlyOf(<< row >>, names)
           N == Len(rows)
           p == Parts(rows, names)
           q == Parts(more, names)
<1>1. /\ N \in Nat /\ more \in Seq(EnvRows) /\ Len(more) = N + 1 /\ more[N + 1] = row
      /\ \A n \in 1 .. N : more[n] = rows[n]
  OBVIOUS
<1>2. l \in Seq(EnvRows)
  <2>1. << row >> \in OneOrNone
    BY DEF OneOrNone
  <2> QED
    BY <2>1, OneOrNoneIsList
<1> HIDE DEF more, l
<1>3. /\ p \in Seq(Seq(EnvRows)) /\ Len(p) = N /\ RowsOf(rows, names) = Joined(p)
      /\ \A n \in 1 .. N : p[n] = OnlyOf(<< rows[n] >>, names)
  BY PartsType
<1>4. /\ q \in Seq(Seq(EnvRows)) /\ Len(q) = N + 1 /\ RowsOf(more, names) = Joined(q)
      /\ \A n \in 1 .. Len(more) : q[n] = OnlyOf(<< more[n] >>, names)
  BY <1>1, PartsType
<1>5. \A n \in 1 .. N : q[n] = p[n]
  <2>1. ASSUME NEW n \in 1 .. N PROVE q[n] = p[n]
    <3>1. n \in 1 .. Len(more) /\ more[n] = rows[n]
      BY <1>1
    <3> QED
      BY <1>3, <1>4, <3>1
  <2> QED
    BY <2>1
<1>6. q[N + 1] = l
  <2>1. N + 1 \in 1 .. Len(more)
    BY <1>1
  <2> QED
    BY <1>1, <1>4, <2>1 DEF l
<1> HIDE DEF p, q, N
<1>7. q = Append(p, l)
  <2>1. Append(p, l) \in Seq(Seq(EnvRows)) /\ Len(Append(p, l)) = N + 1 /\ Append(p, l)[N + 1] = l
        /\ \A n \in 1 .. N : Append(p, l)[n] = p[n]
    BY <1>1, <1>2, <1>3
  <2>2. \A n \in 1 .. (N + 1) : n \in 1 .. N \/ n = N + 1
    BY <1>1
  <2>3. \A n \in 1 .. (N + 1) : q[n] = Append(p, l)[n]
    BY <1>5, <1>6, <2>1, <2>2
  <2> DEFINE T == Seq(EnvRows)
             u == Append(p, l)
  <2>4. q \in Seq(T) /\ u \in Seq(T) /\ Len(q) = Len(u) /\ \A n \in 1 .. Len(q) : q[n] = u[n]
    BY <1>4, <2>1, <2>3
  <2>5. q = u
    <3> HIDE DEF T, u
    <3> QED
      BY <2>4, SeqEqual
  <2> QED
    BY <2>5
<1>8. Joined(Append(p, l)) = Joined(p) \o l
  BY <1>2, <1>3, JoinedAppend
<1> QED
  BY <1>3, <1>4, <1>7, <1>8 DEF more, l

\* Of each list what bears one of the names.
OnlyIn(lists, names) == [n \in DOMAIN lists |-> OnlyOf(lists[n], names)]

\* They are lists of one or no row.
LEMMA OnlyInType ==
  ASSUME NEW lists \in Seq(OneOrNone), NEW names
  PROVE  /\ OnlyIn(lists, names) \in Seq(OneOrNone) /\ OnlyIn(lists, names) \in Seq(Seq(EnvRows))
         /\ Len(OnlyIn(lists, names)) = Len(lists)
         /\ \A n \in 1 .. Len(lists) : OnlyIn(lists, names)[n] = OnlyOf(lists[n], names)
<1> DEFINE p == OnlyIn(lists, names)
           N == Len(lists)
<1>1. N \in Nat /\ DOMAIN lists = 1 .. N /\ \A n \in 1 .. N : lists[n] \in OneOrNone
  OBVIOUS
<1>2. \A n \in 1 .. N : OnlyOf(lists[n], names) \in OneOrNone
  BY <1>1, OneOrNoneIsList
<1>3. p \in [1 .. N -> OneOrNone] /\ \A n \in 1 .. N : p[n] = OnlyOf(lists[n], names)
  BY <1>1, <1>2 DEF OnlyIn
<1>4. p \in Seq(OneOrNone) /\ Len(p) = N
  <2> HIDE DEF p, N
  <2> QED
    BY <1>1, <1>3
<1> QED
  BY <1>3, <1>4, OneOrNoneIsList

\* Of what was put together, the rows of some names are the lists of those names put together.
LEMMA RowsOfJoined ==
  ASSUME NEW lists \in Seq(OneOrNone), NEW names
  PROVE  RowsOf(Joined(lists), names) = Joined(OnlyIn(lists, names))
<1> DEFINE only == OnlyIn(lists, names)
           N == Len(lists)
           P == {n \in 0 .. N : RowsOf(JoinedTo(lists)[n], names) = JoinedTo(only)[n]}
<1>1. /\ N \in Nat /\ lists \in Seq(Seq(EnvRows)) /\ (\A n \in 1 .. N : lists[n] \in OneOrNone)
      /\ only \in Seq(Seq(EnvRows)) /\ Len(only) = N
      /\ \A n \in 1 .. N : only[n] = OnlyOf(lists[n], names)
  BY OneOrNoneIsList, OnlyInType
<1> HIDE DEF only
<1>2. 0 \in P
  <2>1. JoinedTo(lists)[0] = <<>> /\ JoinedTo(only)[0] = <<>>
    BY <1>1, JoinedEquation
  <2> DEFINE none == <<>>
             p == Parts(none, names)
  <2>2. none \in Seq(EnvRows) /\ Len(none) = 0
    OBVIOUS
  <2> HIDE DEF none
  <2>3. p \in Seq(Seq(EnvRows)) /\ Len(p) = 0 /\ RowsOf(none, names) = Joined(p)
    BY <2>2, PartsType
  <2>4. JoinedTo(p)[0] = <<>>
    <3> HIDE DEF p
    <3> QED
      BY <2>3, JoinedEquation
  <2>5. RowsOf(none, names) = <<>>
    BY <2>3, <2>4 DEF Joined
  <2>6. RowsOf(JoinedTo(lists)[0], names) = JoinedTo(only)[0]
    BY <2>1, <2>5 DEF none
  <2> QED
    BY <1>1, <2>6
<1>3. ASSUME NEW n \in 1 .. N, n - 1 \in P PROVE n \in P
  <2> DEFINE s == JoinedTo(lists)[n - 1]
             t == JoinedTo(only)[n - 1]
             l == lists[n]
  <2>1. n \in 1 .. Len(lists) /\ n \in 1 .. Len(only) /\ n - 1 \in 0 .. Len(lists) /\ n \in 0 .. N
    BY <1>1
  <2>2. JoinedTo(lists)[n] = s \o l /\ s \in Seq(EnvRows)
    BY <1>1, <2>1, JoinedEquation
  <2>3. JoinedTo(only)[n] = t \o OnlyOf(l, names) /\ t \in Seq(EnvRows)
    <3>1. JoinedTo(only)[n] = t \o only[n] /\ t \in Seq(EnvRows)
      BY <1>1, <2>1, JoinedEquation
    <3> QED
      BY <1>1, <3>1
  <2>4. l \in OneOrNone /\ RowsOf(s, names) = t
    BY <1>1, <1>3
  <2> HIDE DEF s, t, l
  <2>5. RowsOf(s \o l, names) = t \o OnlyOf(l, names)
    <3>1. CASE l = <<>>
      <4>1. s \o l = s /\ OnlyOf(l, names) = <<>> /\ t \o <<>> = t
        BY <2>2, <2>3, <3>1, ConcatEmptySeq DEF OnlyOf
      <4> QED
        BY <2>4, <4>1
    <3>2. CASE l # <<>>
      <4>1. PICK r \in EnvRows : l = << r >>
        BY <2>4, <3>2 DEF OneOrNone
      <4>2. s \o << r >> = Append(s, r)
        BY <2>2, <4>1
      <4> QED
        BY <2>2, <2>4, <4>1, <4>2, RowsOfAppend
    <3> QED
      BY <3>1, <3>2
  <2>6. RowsOf(JoinedTo(lists)[n], names) = JoinedTo(only)[n]
    BY <2>2, <2>3, <2>5
  <2> QED
    BY <2>1, <2>6
<1>4. \A n \in 0 .. N : n \in P
  <2> HIDE DEF P
  <2> QED
    BY <1>1, <1>2, <1>3, EveryPosition
<1>5. N \in P
  BY <1>1, <1>4
<1> QED
  BY <1>1, <1>5 DEF Joined, only

\* What a loop leaves of some names' rows if it leaves them alone: lists for the rows there were, more behind.
LEMMA AllStay ==
  ASSUME NEW rows \in Seq(EnvRows), NEW lists \in Seq(OneOrNone), NEW more \in Seq(OneOrNone), NEW names,
         Len(lists) = Len(rows),
         \A n \in 1 .. Len(rows) : OnlyOf(lists[n], names) = OnlyOf(<< rows[n] >>, names),
         \A n \in 1 .. Len(more) : OnlyOf(more[n], names) = <<>>
  PROVE  RowsOf(Joined(lists \o more), names) = RowsOf(rows, names)
<1> DEFINE all == lists \o more
           only == OnlyIn(all, names)
           p == Parts(rows, names)
           N == Len(rows)
           M == Len(more)
<1>1. /\ N \in Nat /\ M \in Nat /\ all \in Seq(OneOrNone) /\ Len(all) = N + M
      /\ (\A n \in 1 .. N : all[n] = lists[n]) /\ (\A n \in 1 .. M : all[N + n] = more[n])
  OBVIOUS
<1> HIDE DEF all
<1>2. /\ only \in Seq(Seq(EnvRows)) /\ Len(only) = N + M
      /\ \A n \in 1 .. N + M : only[n] = OnlyOf(all[n], names)
  <2>1. /\ only \in Seq(Seq(EnvRows)) /\ Len(only) = Len(all)
        /\ \A n \in 1 .. Len(all) : only[n] = OnlyOf(all[n], names)
    BY ONLY <1>1, OnlyInType
  <2> HIDE DEF only, N, M
  <2> QED
    BY ONLY <1>1, <2>1
<1>3. /\ p \in Seq(Seq(EnvRows)) /\ Len(p) = N /\ RowsOf(rows, names) = Joined(p)
      /\ \A n \in 1 .. N : p[n] = OnlyOf(<< rows[n] >>, names)
  BY PartsType
<1> HIDE DEF only, p
<1>4. JoinedTo(only)[N] = JoinedTo(p)[N]
  <2>1. \A n \in 1 .. N : only[n] = p[n]
    <3>1. ASSUME NEW n \in 1 .. N PROVE only[n] = p[n]
      <4>1. n \in 1 .. N + M
        BY <1>1
      <4>2. only[n] = OnlyOf(all[n], names) /\ all[n] = lists[n]
        BY <1>1, <1>2, <4>1
      <4> QED
        BY <1>3, <4>2
    <3> QED
      BY <3>1
  <2>2. N <= Len(only) /\ N <= Len(p)
    BY <1>1, <1>2, <1>3
  <2>3. N \in Nat /\ only \in Seq(Seq(EnvRows)) /\ p \in Seq(Seq(EnvRows))
    BY <1>1, <1>2, <1>3
  <2> HIDE DEF N, M
  <2> QED
    BY ONLY <2>1, <2>2, <2>3, JoinedAlike
<1>5. JoinedTo(only)[N + M] = JoinedTo(only)[N]
  <2>1. ASSUME NEW n \in (N + 1) .. (N + M) PROVE only[n] = <<>>
    <3>1. n - N \in 1 .. M /\ n = N + (n - N) /\ n \in 1 .. N + M
      BY <1>1
    <3>2. all[n] = more[n - N]
      BY <1>1, <3>1
    <3> QED
      BY <1>2, <3>1, <3>2
  <2>2. N + M \in Nat /\ N <= N + M /\ N + M <= Len(only)
    BY <1>1, <1>2
  <2> HIDE DEF N, M
  <2> QED
    BY <1>1, <1>2, <2>1, <2>2, JoinedGap
<1>6. RowsOf(Joined(all), names) = Joined(only)
  BY <1>1, RowsOfJoined DEF only
<1> QED
  BY <1>2, <1>3, <1>4, <1>5, <1>6 DEF Joined, all

\* What it leaves if it leaves of them one row, or none.
LEMMA OneStays ==
  ASSUME NEW all \in Seq(OneOrNone), NEW names, NEW k \in 1 .. Len(all),
         \A n \in 1 .. Len(all) : n # k => OnlyOf(all[n], names) = <<>>
  PROVE  RowsOf(Joined(all), names) = OnlyOf(all[k], names)
<1> DEFINE only == OnlyIn(all, names)
<1>1. /\ only \in Seq(Seq(EnvRows)) /\ Len(only) = Len(all)
      /\ \A n \in 1 .. Len(all) : only[n] = OnlyOf(all[n], names)
  BY OnlyInType
<1> HIDE DEF only
<1>2. k \in 1 .. Len(only) /\ \A n \in 1 .. Len(only) : n # k => only[n] = <<>>
  BY <1>1
<1>3. Joined(only) = only[k]
  BY <1>1, <1>2, JoinedOne
<1> QED
  BY <1>1, <1>3, RowsOfJoined DEF only

\* If no list has a row of some names, nor has what is put together.
LEMMA NoneStays ==
  ASSUME NEW all \in Seq(OneOrNone), NEW names, \A n \in 1 .. Len(all) : OnlyOf(all[n], names) = <<>>
  PROVE  RowsOf(Joined(all), names) = <<>>
<1> DEFINE only == OnlyIn(all, names)
<1>1. /\ only \in Seq(Seq(EnvRows)) /\ Len(only) = Len(all)
      /\ \A n \in 1 .. Len(all) : only[n] = OnlyOf(all[n], names)
  BY OnlyInType
<1> HIDE DEF only
<1>2. \A n \in 1 .. Len(only) : only[n] = <<>>
  BY <1>1
<1>3. Joined(only) = <<>>
  BY <1>1, <1>2, JoinedNone
<1> QED
  BY <1>3, RowsOfJoined DEF only

\* A name that has rows has a first one; a name without has none.
LEMMA FirstRow ==
  ASSUME NEW rows \in Seq(EnvRows), NEW name \in NamesIn(rows)
  PROVE  \E k \in 1 .. Len(rows) :
           /\ rows[k].name = name /\ ~IsLater(rows, k)
           /\ \A n \in 1 .. Len(rows) : n # k /\ rows[n].name = name => IsLater(rows, n)
           /\ RowsOf(rows, {name}) # <<>> /\ RowsOf(rows, {name})[1] = rows[k]
<1> DEFINE N == Len(rows)
           B == {n \in 1 .. N : rows[n].name = name}
           p == Parts(rows, {name})
<1>1. N \in Nat /\ DOMAIN rows = 1 .. N
  OBVIOUS
<1>2. B \in SUBSET Nat /\ B # {}
  BY <1>1 DEF NamesIn
<1>3. PICK k \in B : \A n \in B : k <= n
  <2> HIDE DEF B
  <2> QED
    BY <1>2, LeastNumber
<1>4. k \in 1 .. N /\ rows[k].name = name /\ \A n \in 1 .. (k - 1) : rows[n].name # name
  <2>1. k \in 1 .. N /\ rows[k].name = name
    BY <1>3
  <2>2. ASSUME NEW n \in 1 .. (k - 1) PROVE rows[n].name # name
    <3>1. n \in 1 .. N /\ ~(k <= n)
      BY <1>1, <2>1
    <3> QED
      BY <1>3, <3>1
  <2> QED
    BY <2>1, <2>2
<1>5. ~IsLater(rows, k)
  BY <1>4 DEF IsLater
<1>6. ASSUME NEW n \in 1 .. N, n # k, rows[n].name = name PROVE IsLater(rows, n)
  <2>1. k <= n
    BY <1>3, <1>6
  <2>2. k \in 1 .. (n - 1)
    BY <1>1, <1>4, <1>6, <2>1
  <2> QED
    BY <1>4, <1>6, <2>2 DEF IsLater
<1>7. /\ p \in Seq(Seq(EnvRows)) /\ Len(p) = N /\ RowsOf(rows, {name}) = Joined(p)
      /\ \A n \in 1 .. N : p[n] = OnlyOf(<< rows[n] >>, {name})
  BY PartsType
<1>8. \A n \in 1 .. N : p[n] = IF rows[n].name = name THEN << rows[n] >> ELSE <<>>
  <2>1. ASSUME NEW n \in 1 .. N PROVE p[n] = IF rows[n].name = name THEN << rows[n] >> ELSE <<>>
    <3>1. << rows[n] >> # <<>> /\ << rows[n] >>[1] = rows[n]
      OBVIOUS
    <3> HIDE DEF p
    <3> QED
      BY <1>7, <3>1 DEF OnlyOf
  <2> QED
    BY <2>1
<1> HIDE DEF p
<1>9. p[k] = << rows[k] >> /\ p[k] # <<>> /\ \A n \in 1 .. (k - 1) : p[n] = <<>>
  <2>1. p[k] = << rows[k] >>
    BY <1>4, <1>8
  <2>2. ASSUME NEW n \in 1 .. (k - 1) PROVE p[n] = <<>>
    <3>1. n \in 1 .. N
      BY <1>1, <1>4
    <3> QED
      BY <1>4, <1>8, <3>1
  <2> QED
    BY <2>1, <2>2
<1>10. Joined(p) # <<>> /\ Joined(p)[1] = p[k][1]
  <2>1. k \in 1 .. Len(p)
    BY <1>4, <1>7
  <2> QED
    BY <1>7, <1>9, <2>1, JoinedFirst
<1>11. p[k][1] = rows[k]
  BY <1>9
<1>12. RowsOf(rows, {name}) # <<>> /\ RowsOf(rows, {name})[1] = rows[k]
  BY <1>7, <1>10, <1>11
<1> QED
  BY <1>4, <1>5, <1>6, <1>12

\* A name no row bears has no rows.
LEMMA NoRow ==
  ASSUME NEW rows \in Seq(EnvRows), NEW name, name \notin NamesIn(rows)
  PROVE  RowsOf(rows, {name}) = <<>>
<1> DEFINE p == Parts(rows, {name})
<1>1. /\ p \in Seq(Seq(EnvRows)) /\ Len(p) = Len(rows) /\ RowsOf(rows, {name}) = Joined(p)
      /\ \A n \in 1 .. Len(rows) : p[n] = OnlyOf(<< rows[n] >>, {name})
  BY PartsType
<1>2. ASSUME NEW n \in 1 .. Len(rows) PROVE p[n] = <<>>
  <2>1. n \in DOMAIN rows /\ << rows[n] >>[1] = rows[n]
    OBVIOUS
  <2>2. rows[n].name # name
    BY <2>1 DEF NamesIn
  <2> HIDE DEF p
  <2> QED
    BY <1>1, <2>1, <2>2 DEF OnlyOf
<1> HIDE DEF p
<1>3. Joined(p) = <<>>
  BY <1>1, <1>2, JoinedNone
<1> QED
  BY <1>1, <1>3

\* A finite set listed is one of its orders.
LEMMA ListedIsOrder ==
  ASSUME NEW S, IsFiniteSet(S)
  PROVE  SetToSeq(S) \in SetToSeqs(S)
<1> DEFINE I == 1 .. Cardinality(S)
<1>1. Cardinality(S) \in Nat /\ ExistsBijection(I, S)
  BY FS_CardinalityType
<1> HIDE DEF I
<1>2. PICK h : h \in [I -> S] /\ IsInjective(h)
  BY <1>1 DEF ExistsBijection, Bijection, Injection
<1>3. SetToSeq(S) \in [I -> S] /\ IsInjective(SetToSeq(S))
  BY <1>2 DEF SetToSeq, I
<1> QED
  BY <1>3 DEF SetToSeqs, IsInjective, I

\* The rows that are added, in any order: one for each name.
RowsAdded(A, g) == {<< Row(name, g[name]) >> : name \in A}

\* They are finitely many, and each is of one name.
LEMMA RowsAddedType ==
  ASSUME NEW A \in SUBSET STRING, IsFiniteSet(A), NEW g \in [A -> {"", "p", "l"}]
  PROVE  /\ IsFiniteSet(RowsAdded(A, g)) /\ RowsAdded(A, g) \subseteq OneOrNone
         /\ \A l \in RowsAdded(A, g) : \E name \in A : l = << Row(name, g[name]) >> /\ l[1].name = name
         /\ \A name \in A : << Row(name, g[name]) >> \in RowsAdded(A, g)
<1> DEFINE f == [name \in A |-> << Row(name, g[name]) >>]
           S == RowsAdded(A, g)
<1>1. IsFiniteSet(S)
  <2>1. f \in Surjection(A, S)
    BY DEF Surjection, RowsAdded
  <2> HIDE DEF f, S
  <2> QED
    BY <2>1, FS_Surjection
<1>2. \A name \in A : Row(name, g[name]) \in EnvRows /\ Row(name, g[name]).name = name
  BY DEF Row, EnvRows
<1>3. S \subseteq OneOrNone
  BY <1>2 DEF OneOrNone, RowsAdded
<1>4. ASSUME NEW l \in S PROVE \E name \in A : l = << Row(name, g[name]) >> /\ l[1].name = name
  <2>1. PICK name \in A : l = << Row(name, g[name]) >>
    BY DEF RowsAdded
  <2>2. \A row : << row >>[1] = row
    OBVIOUS
  <2>3. l[1] = Row(name, g[name])
    BY <2>1, <2>2
  <2> QED
    BY <1>2, <2>1, <2>3
<1> QED
  BY <1>1, <1>3, <1>4 DEF RowsAdded

\* So listed, they are a row behind the others for each of those names.
Adds(more, A, g) ==
  /\ more \in Seq(OneOrNone)
  /\ \A name \in A : \E k \in 1 .. Len(more) :
       /\ more[k] = << Row(name, g[name]) >>
       /\ \A n \in 1 .. Len(more) : n # k => OnlyOf(more[n], {name}) = <<>>
  /\ \A names : names \cap A = {} => \A n \in 1 .. Len(more) : OnlyOf(more[n], names) = <<>>

\* A sequence over a set is one over a larger set.
LEMMA SeqOfMore ==
  ASSUME NEW S, NEW T, S \subseteq T, NEW s \in Seq(S)
  PROVE  s \in Seq(T) /\ DOMAIN s = 1 .. Len(s) /\ \A n \in 1 .. Len(s) : s[n] \in S
<1>1. \A n \in 1 .. Len(s) : s[n] \in S
  OBVIOUS
<1> QED
  BY <1>1

\* The rows that are added are for each name one.
LEMMA AddedRows ==
  ASSUME NEW A \in SUBSET STRING, IsFiniteSet(A), NEW g \in [A -> {"", "p", "l"}]
  PROVE  Adds(SetToSeq(RowsAdded(A, g)), A, g)
<1> DEFINE S == RowsAdded(A, g)
           more == SetToSeq(S)
<1>1. /\ IsFiniteSet(S) /\ S \subseteq OneOrNone
      /\ \A l \in S : \E name \in A : l = << Row(name, g[name]) >> /\ l[1].name = name
      /\ \A name \in A : << Row(name, g[name]) >> \in S
  BY RowsAddedType
<1> HIDE DEF S
<1>2. more \in Seq(S) /\ ToSet(more) = S /\ \A i, j \in 1 .. Len(more) : more[i] = more[j] => i = j
  <2>1. more \in SetToSeqs(S)
    BY <1>1, ListedIsOrder
  <2> HIDE DEF more
  <2> QED
    BY <1>1, <2>1, Orders
<1> HIDE DEF more
<1>3. more \in Seq(OneOrNone) /\ DOMAIN more = 1 .. Len(more) /\ \A n \in 1 .. Len(more) : more[n] \in S
  BY <1>1, <1>2, SeqOfMore
<1>4. ASSUME NEW n \in 1 .. Len(more), NEW names, OnlyOf(more[n], names) # <<>>
      PROVE  \E name \in A : name \in names /\ more[n] = << Row(name, g[name]) >>
  <2>1. PICK name \in A : more[n] = << Row(name, g[name]) >> /\ more[n][1].name = name
    BY <1>1, <1>3
  <2>2. name \in names
    BY <1>4, <2>1 DEF OnlyOf
  <2> QED
    BY <2>1, <2>2
<1>5. ASSUME NEW name \in A
      PROVE  \E k \in 1 .. Len(more) :
               /\ more[k] = << Row(name, g[name]) >>
               /\ \A n \in 1 .. Len(more) : n # k => OnlyOf(more[n], {name}) = <<>>
  <2>1. PICK k \in 1 .. Len(more) : more[k] = << Row(name, g[name]) >>
    <3>1. << Row(name, g[name]) >> \in ToSet(more)
      BY <1>1, <1>2
    <3> QED
      BY <1>3, <3>1 DEF ToSet
  <2>2. ASSUME NEW n \in 1 .. Len(more), n # k, OnlyOf(more[n], {name}) # <<>> PROVE FALSE
    <3>1. PICK other \in A : other \in {name} /\ more[n] = << Row(other, g[other]) >>
      BY <1>4, <2>2
    <3>2. more[n] = more[k]
      BY <2>1, <3>1
    <3> QED
      BY <1>2, <2>2, <3>2
  <2> QED
    BY <2>1, <2>2
<1>6. ASSUME NEW names, names \cap A = {}, NEW n \in 1 .. Len(more) PROVE OnlyOf(more[n], names) = <<>>
  BY <1>4, <1>6
<1>7. Adds(more, A, g)
  BY <1>3, <1>5, <1>6 DEF Adds
<1> QED
  BY <1>7 DEF more, S

\* A loop that answers each row with at most one of the same name.
Answers(rows, lists) ==
  /\ lists \in Seq(OneOrNone) /\ Len(lists) = Len(rows)
  /\ \A n \in 1 .. Len(rows) : lists[n] # <<>> => lists[n][1].name = rows[n].name

\* Positions in the answers and in what is added behind them.
PutBehind(a, b, all) ==
  /\ Len(a) \in Nat /\ Len(b) \in Nat /\ all \in Seq(OneOrNone) /\ Len(all) = Len(a) + Len(b)
  /\ \A n \in 1 .. Len(a) : all[n] = a[n] /\ n \in 1 .. Len(all)
  /\ \A n \in 1 .. Len(b) : all[Len(a) + n] = b[n] /\ Len(a) + n \in 1 .. Len(all)
  /\ \A n \in 1 .. Len(all) : n \in 1 .. Len(a) \/ \E m \in 1 .. Len(b) : n = Len(a) + m

\* Of two lists put behind each other, each position is one of the first or of the second.
LEMMA Concatenated ==
  ASSUME NEW a \in Seq(OneOrNone), NEW b \in Seq(OneOrNone), NEW all, all = a \o b
  PROVE  PutBehind(a, b, all)
<1> DEFINE N == Len(a)
           M == Len(b)
<1>1. N \in Nat /\ M \in Nat /\ all \in Seq(OneOrNone) /\ Len(all) = N + M
  OBVIOUS
<1>2. \A n \in 1 .. N : all[n] = a[n]
  OBVIOUS
<1>3. \A n \in 1 .. M : all[N + n] = b[n]
  OBVIOUS
<1>4. ASSUME NEW n \in 1 .. Len(all), n \notin 1 .. N PROVE \E m \in 1 .. M : n = N + m
  <2>1. n - N \in 1 .. M /\ n = N + (n - N)
    BY <1>1, <1>4
  <2> QED
    BY <2>1
<1>5. /\ \A n \in 1 .. N : n \in 1 .. Len(all)
      /\ \A n \in 1 .. M : N + n \in 1 .. Len(all)
  BY <1>1
<1> QED
  BY ONLY <1>1, <1>2, <1>3, <1>4, <1>5, Zenon DEF PutBehind

\* Of a row of another name nothing bears these names.
LEMMA AnswersApart ==
  ASSUME NEW rows, NEW lists, Answers(rows, lists), NEW n \in 1 .. Len(rows), NEW names, rows[n].name \notin names
  PROVE  OnlyOf(lists[n], names) = <<>>
BY DEF Answers, OnlyOf

\* Of a name it answers one row only, or none; of what is added one bears it, or none.
Meets(rows, lists, name, k) ==
  /\ k \in 1 .. Len(rows) /\ rows[k].name = name /\ lists[k] # <<>>
  /\ \A n \in 1 .. Len(rows) : n # k /\ rows[n].name = name => lists[n] = <<>>
Misses(rows, lists, name) == \A n \in 1 .. Len(rows) : rows[n].name = name => lists[n] = <<>>
AddsOne(more, names, m)   ==
  /\ m \in 1 .. Len(more) /\ OnlyOf(more[m], names) = more[m]
  /\ \A n \in 1 .. Len(more) : n # m => OnlyOf(more[n], names) = <<>>
AddsNone(more, names)     == \A n \in 1 .. Len(more) : OnlyOf(more[n], names) = <<>>

\* Rows it answers with themselves stay as they were.
LEMMA LoopKeeps ==
  ASSUME NEW rows \in Seq(EnvRows), NEW lists, Answers(rows, lists), NEW more \in Seq(OneOrNone), NEW names,
         \A n \in 1 .. Len(rows) : rows[n].name \in names => lists[n] = << rows[n] >>,
         \A n \in 1 .. Len(more) : OnlyOf(more[n], names) = <<>>
  PROVE  RowsOf(Joined(lists \o more), names) = RowsOf(rows, names)
<1>1. \A row : << row >> # <<>> /\ << row >>[1] = row
  OBVIOUS
<1>2. ASSUME NEW n \in 1 .. Len(rows) PROVE OnlyOf(lists[n], names) = OnlyOf(<< rows[n] >>, names)
  <2>1. CASE rows[n].name \in names
    BY <2>1
  <2>2. CASE rows[n].name \notin names
    <3>1. OnlyOf(lists[n], names) = <<>>
      BY <2>2, AnswersApart
    <3>2. OnlyOf(<< rows[n] >>, names) = <<>>
      BY <1>1, <2>2 DEF OnlyOf
    <3> QED
      BY <3>1, <3>2
  <2> QED
    BY <2>1, <2>2
<1>3. lists \in Seq(OneOrNone) /\ Len(lists) = Len(rows)
  BY DEF Answers
<1> QED
  BY <1>2, <1>3, AllStay

\* A name only one of whose rows is answered has that answer.
LEMMA LoopMeets ==
  ASSUME NEW rows \in Seq(EnvRows), NEW lists, Answers(rows, lists), NEW more \in Seq(OneOrNone), NEW name, NEW one, one = {name},
         NEW k, Meets(rows, lists, name, k), AddsNone(more, one)
  PROVE  RowsOf(Joined(lists \o more), one) = lists[k]
<1> USE DEF Meets, Misses, AddsOne, AddsNone
<1> DEFINE all == lists \o more
<1>1. lists \in Seq(OneOrNone) /\ more \in Seq(OneOrNone) /\ Len(lists) = Len(rows)
  BY DEF Answers
<1>0. all = lists \o more
  OBVIOUS
<1> HIDE DEF all
<1>2. PutBehind(lists, more, all)
  BY ONLY <1>0, <1>1, Concatenated
<1>3. ASSUME NEW n \in 1 .. Len(lists), n # k PROVE OnlyOf(lists[n], one) = <<>>
  <2>1. CASE rows[n].name = name
    BY <1>1, <1>3, <2>1 DEF OnlyOf
  <2>2. CASE rows[n].name # name
    <3>1. n \in 1 .. Len(rows) /\ rows[n].name \notin one
      BY <1>1, <2>2
    <3>2. Answers(rows, lists)
      OBVIOUS
    <3> QED
      BY ONLY <3>1, <3>2, AnswersApart
  <2> QED
    BY <2>1, <2>2
<1>4. OnlyOf(lists[k], one) = lists[k]
  BY DEF Answers, OnlyOf
<1>5. ASSUME NEW n \in 1 .. Len(all), n # k PROVE OnlyOf(all[n], one) = <<>>
  <2>1. CASE n \in 1 .. Len(lists)
    <3>1. all[n] = lists[n]
      BY <1>2, <2>1 DEF PutBehind
    <3> QED
      BY <1>3, <1>5, <2>1, <3>1
  <2>2. CASE n \notin 1 .. Len(lists)
    <3>1. PICK i \in 1 .. Len(more) : n = Len(lists) + i
      BY <1>2, <2>2 DEF PutBehind
    <3>2. all[n] = more[i]
      BY <1>2, <3>1 DEF PutBehind
    <3> QED
      BY <3>1, <3>2
  <2> QED
    BY <2>1, <2>2
<1>6. k \in 1 .. Len(all) /\ all[k] = lists[k]
  BY <1>1, <1>2 DEF PutBehind
<1>7. RowsOf(Joined(all), one) = OnlyOf(all[k], one)
  BY <1>2, <1>5, <1>6, OneStays DEF PutBehind
<1> QED
  BY <1>4, <1>6, <1>7 DEF all

\* A name none of whose rows is answered has what is added.
LEMMA LoopAdds ==
  ASSUME NEW rows \in Seq(EnvRows), NEW lists, Answers(rows, lists), NEW more \in Seq(OneOrNone), NEW name, NEW one, one = {name},
         NEW m, Misses(rows, lists, name), AddsOne(more, one, m)
  PROVE  RowsOf(Joined(lists \o more), one) = more[m]
<1> USE DEF Meets, Misses, AddsOne, AddsNone
<1> DEFINE all == lists \o more
           k == Len(lists) + m
<1>1. lists \in Seq(OneOrNone) /\ more \in Seq(OneOrNone) /\ Len(lists) = Len(rows) /\ Len(lists) \in Nat
  BY DEF Answers
<1>0. all = lists \o more
  OBVIOUS
<1> HIDE DEF all
<1>2. PutBehind(lists, more, all)
  BY ONLY <1>0, <1>1, Concatenated
<1>3. ASSUME NEW n \in 1 .. Len(lists) PROVE OnlyOf(lists[n], one) = <<>>
  <2>1. CASE rows[n].name = name
    BY <1>1, <2>1 DEF OnlyOf
  <2>2. CASE rows[n].name # name
    <3>1. n \in 1 .. Len(rows) /\ rows[n].name \notin one
      BY <1>1, <2>2
    <3>2. Answers(rows, lists)
      OBVIOUS
    <3> QED
      BY ONLY <3>1, <3>2, AnswersApart
  <2> QED
    BY <2>1, <2>2
<1>4. k \in 1 .. Len(all) /\ all[k] = more[m]
  BY <1>2 DEF PutBehind
<1>5. ASSUME NEW n \in 1 .. Len(all), n # k PROVE OnlyOf(all[n], one) = <<>>
  <2>1. CASE n \in 1 .. Len(lists)
    <3>1. all[n] = lists[n]
      BY <1>2, <2>1 DEF PutBehind
    <3> QED
      BY <1>3, <2>1, <3>1
  <2>2. CASE n \notin 1 .. Len(lists)
    <3>1. PICK i \in 1 .. Len(more) : n = Len(lists) + i
      BY <1>2, <2>2 DEF PutBehind
    <3>2. all[n] = more[i]
      BY <1>2, <3>1 DEF PutBehind
    <3> QED
      BY <1>5, <3>1, <3>2
  <2> QED
    BY <2>1, <2>2
<1> HIDE DEF k
<1>6. RowsOf(Joined(all), one) = OnlyOf(all[k], one)
  BY <1>2, <1>4, <1>5, OneStays DEF PutBehind
<1> QED
  BY <1>4, <1>6 DEF all

\* Without one it has none.
LEMMA LoopDrops ==
  ASSUME NEW rows \in Seq(EnvRows), NEW lists, Answers(rows, lists), NEW more \in Seq(OneOrNone), NEW name, NEW one, one = {name},
         Misses(rows, lists, name), AddsNone(more, one)
  PROVE  RowsOf(Joined(lists \o more), one) = <<>>
<1> USE DEF Meets, Misses, AddsOne, AddsNone
<1> DEFINE all == lists \o more
<1>1. lists \in Seq(OneOrNone) /\ more \in Seq(OneOrNone) /\ Len(lists) = Len(rows)
  BY DEF Answers
<1>0. all = lists \o more
  OBVIOUS
<1> HIDE DEF all
<1>2. PutBehind(lists, more, all)
  BY ONLY <1>0, <1>1, Concatenated
<1>3. ASSUME NEW n \in 1 .. Len(lists) PROVE OnlyOf(lists[n], one) = <<>>
  <2>1. CASE rows[n].name = name
    BY <1>1, <2>1 DEF OnlyOf
  <2>2. CASE rows[n].name # name
    <3>1. n \in 1 .. Len(rows) /\ rows[n].name \notin one
      BY <1>1, <2>2
    <3>2. Answers(rows, lists)
      OBVIOUS
    <3> QED
      BY ONLY <3>1, <3>2, AnswersApart
  <2> QED
    BY <2>1, <2>2
<1>4. ASSUME NEW n \in 1 .. Len(all) PROVE OnlyOf(all[n], one) = <<>>
  <2>1. CASE n \in 1 .. Len(lists)
    <3>1. all[n] = lists[n]
      BY <1>2, <2>1 DEF PutBehind
    <3> QED
      BY <1>3, <2>1, <3>1
  <2>2. CASE n \notin 1 .. Len(lists)
    <3>1. PICK i \in 1 .. Len(more) : n = Len(lists) + i
      BY <1>2, <2>2 DEF PutBehind
    <3>2. all[n] = more[i]
      BY <1>2, <3>1 DEF PutBehind
    <3> QED
      BY <3>1, <3>2
  <2> QED
    BY <2>1, <2>2
<1> QED
  BY <1>2, <1>4, NoneStays DEF PutBehind, all

\* The answers to all rows, as a list.
LEMMA AnswersListed ==
  ASSUME NEW rows \in Seq(EnvRows), NEW lists, lists = [n \in DOMAIN rows |-> lists[n]],
         \A n \in 1 .. Len(rows) : lists[n] \in OneOrNone,
         \A n \in 1 .. Len(rows) : lists[n] # <<>> => lists[n][1].name = rows[n].name
  PROVE  Answers(rows, lists)
<1> DEFINE N == Len(rows)
<1>1. N \in Nat /\ DOMAIN rows = 1 .. N
  OBVIOUS
<1>2. lists \in [1 .. N -> OneOrNone]
  BY <1>1
<1>3. lists \in Seq(OneOrNone) /\ Len(lists) = N
  <2> HIDE DEF N
  <2> QED
    BY ONLY <1>1, <1>2
<1> QED
  BY <1>3 DEF Answers

\* What is put together are rows.
LEMMA JoinedType ==
  ASSUME NEW rows, NEW lists, Answers(rows, lists), NEW more \in Seq(OneOrNone)
  PROVE  Joined(lists \o more) \in Seq(EnvRows)
<1> DEFINE all == lists \o more
<1>1. all \in Seq(OneOrNone)
  BY DEF Answers
<1> HIDE DEF all
<1>2. all \in Seq(Seq(EnvRows)) /\ Len(all) \in 0 .. Len(all)
  BY <1>1, OneOrNoneIsList
<1> QED
  BY <1>2, JoinedEquation DEF Joined, all

\* What the launcher's loop makes of the rows.
SettledBy(rows, hosts, u) ==
  /\ u \in Seq(EnvRows)
  /\ \A name \in hosts : RowsOf(u, {name}) = << Row(name, HostModes[name]) >>
  /\ \A names : names \cap hosts = {} => RowsOf(u, names) = RowsOf(rows, names)

\* The host settings get their rows, the rows of other names stay.
LEMMA Augmented ==
  ASSUME NEW rows \in Seq(EnvRows), NEW set \in SUBSET STRING, IsFiniteSet(set),
         NEW hosts, hosts = DOMAIN HostModes \cap set,
         NEW u, u = augmentWslHostEnvironment(rows, set)
  PROVE  SettledBy(rows, hosts, u)
<1> DEFINE A == hosts \ NamesIn(rows)
           g == [name \in A |-> HostModes[name]]
           lists == [n \in DOMAIN rows |-> upsertOneWayEntry(rows, n, hosts)]
           more == SetToSeq(RowsAdded(A, g))
           N == Len(rows)
<1>0. rows \in Seq(EnvRows)
  OBVIOUS
<1>1. DOMAIN rows = 1 .. N /\ \A n \in 1 .. N : rows[n] \in EnvRows
  OBVIOUS
<1>2. hosts \subseteq STRING /\ IsFiniteSet(hosts) /\ A \subseteq STRING /\ IsFiniteSet(A) /\ A \subseteq hosts
  BY FS_Subset
<1>3. \A name \in hosts : HostModes[name] \in {"", "p", "l"}
  BY EnvAssumption
<1>4. g \in [A -> {"", "p", "l"}] /\ \A name \in A : g[name] = HostModes[name]
  BY <1>2, <1>3
<1>5. Adds(more, A, g)
  <2> HIDE DEF A, g
  <2> QED
    BY <1>2, <1>4, AddedRows
<1>6. u = Joined(lists \o more)
  <2>1. RowsAdded(A, g) = {<< Row(name, HostModes[name]) >> : name \in A}
    BY DEF RowsAdded
  <2> QED
    BY <2>1 DEF augmentWslHostEnvironment
<1>7. \A n \in 1 .. N : lists[n] = upsertOneWayEntry(rows, n, hosts)
  BY <1>1
<1>8. \A name \in hosts : /\ Row(name, HostModes[name]) \in EnvRows
                          /\ Row(name, HostModes[name]).name = name
  BY <1>2, <1>3 DEF Row, EnvRows
<1>9. lists = [n \in DOMAIN rows |-> lists[n]]
  OBVIOUS
<1> HIDE DEF lists, more, A, g
<1>10. \A row : << row >> # <<>> /\ << row >>[1] = row
  OBVIOUS
<1>11. ASSUME NEW n \in 1 .. N
       PROVE  lists[n] \in OneOrNone /\ (lists[n] # <<>> => lists[n][1].name = rows[n].name)
  <2> DEFINE r == rows[n]
             h == Row(rows[n].name, HostModes[rows[n].name])
  <2>1. lists[n] \in {<<>>, << r >>} \/ (r.name \in hosts /\ lists[n] = << h >>)
    BY <1>7 DEF upsertOneWayEntry
  <2>2. r \in EnvRows /\ (r.name \in hosts => h \in EnvRows /\ h.name = r.name)
    BY <1>1, <1>8
  <2>3. rows[n].name = r.name
    OBVIOUS
  <2> HIDE DEF r, h
  <2> QED
    BY <1>10, <2>1, <2>2, <2>3 DEF OneOrNone
<1>12. Answers(rows, lists)
  BY <1>9, <1>11, AnswersListed
<1>13. more \in Seq(OneOrNone)
  BY <1>5 DEF Adds
<1>14. ASSUME NEW names, names \cap hosts = {} PROVE RowsOf(u, names) = RowsOf(rows, names)
  <2>1. \A n \in 1 .. N : rows[n].name \in names => lists[n] = << rows[n] >>
    BY <1>7, <1>14 DEF upsertOneWayEntry
  <2>2. \A n \in 1 .. Len(more) : OnlyOf(more[n], names) = <<>>
    BY <1>2, <1>5, <1>14 DEF Adds
  <2> QED
    BY <1>6, <1>12, <1>13, <2>1, <2>2, LoopKeeps
<1>15. ASSUME NEW name \in hosts PROVE RowsOf(u, {name}) = << Row(name, HostModes[name]) >>
  <2> DEFINE one == {name}
  <2>0. one = {name}
    OBVIOUS
  <2> HIDE DEF one
  <2>1. CASE name \in NamesIn(rows)
    <3>1. PICK k \in 1 .. N : /\ rows[k].name = name /\ ~IsLater(rows, k)
                              /\ \A n \in 1 .. N : n # k /\ rows[n].name = name => IsLater(rows, n)
      BY <2>1, FirstRow
    <3>2. lists[k] = << Row(name, HostModes[name]) >> /\ lists[k] # <<>>
      BY <1>7, <1>10, <3>1 DEF upsertOneWayEntry
    <3>3. \A n \in 1 .. N : n # k /\ rows[n].name = name => lists[n] = <<>>
      BY <1>7, <3>1 DEF upsertOneWayEntry
    <3>4. \A n \in 1 .. Len(more) : OnlyOf(more[n], one) = <<>>
      <4>1. one \cap A = {}
        BY <2>0, <2>1 DEF A
      <4> QED
        BY <1>5, <4>1 DEF Adds
    <3>5. Meets(rows, lists, name, k) /\ AddsNone(more, one)
      BY <3>1, <3>2, <3>3, <3>4 DEF Meets, AddsNone
    <3>6. RowsOf(Joined(lists \o more), one) = lists[k]
      BY ONLY <1>0, <1>12, <1>13, <2>0, <3>5, LoopMeets
    <3> QED
      BY <1>6, <2>0, <3>2, <3>6
  <2>2. CASE name \notin NamesIn(rows)
    <3>1. name \in A
      BY <2>2 DEF A
    <3>2. PICK m \in 1 .. Len(more) : /\ more[m] = << Row(name, g[name]) >>
                                      /\ \A n \in 1 .. Len(more) : n # m => OnlyOf(more[n], one) = <<>>
      BY <1>5, <2>0, <3>1 DEF Adds
    <3>3. more[m] = << Row(name, HostModes[name]) >> /\ OnlyOf(more[m], one) = more[m]
      <4> DEFINE row == Row(name, HostModes[name])
      <4>1. more[m] = << row >> /\ row.name = name
        BY <1>4, <1>8, <3>1, <3>2
      <4> HIDE DEF row
      <4>2. OnlyOf(more[m], one) = more[m]
        BY <1>10, <2>0, <4>1 DEF OnlyOf
      <4> QED
        BY <4>1, <4>2 DEF row
    <3>4. \A n \in 1 .. N : rows[n].name = name => lists[n] = <<>>
      BY <1>1, <2>2 DEF NamesIn
    <3>5. Misses(rows, lists, name) /\ AddsOne(more, one, m)
      BY <2>0, <3>2, <3>3, <3>4 DEF Misses, AddsOne
    <3>6. RowsOf(Joined(lists \o more), one) = more[m]
      BY ONLY <1>0, <1>12, <1>13, <2>0, <3>5, LoopAdds
    <3> QED
      BY <1>6, <2>0, <3>3, <3>6
  <2> QED
    BY <2>1, <2>2
<1>16. u \in Seq(EnvRows)
  BY <1>6, <1>12, <1>13, JoinedType
<1> QED
  BY <1>14, <1>15, <1>16 DEF SettledBy

\* The mode a forwarded name has from the row it comes with.
Inherited(rows, name) ==
  IF name \in BridgeNames \/ RowsOf(rows, {name}) = <<>> THEN "" ELSE RowsOf(rows, {name})[1].mode

\* What the bridge's loop makes of the rows.
MergedBy(rows, forward, u) ==
  /\ u \in Seq(EnvRows)
  /\ \A name \in forward : RowsOf(u, {name}) = << Row(name, Inherited(rows, name)) >>
  /\ \A name \in (NeverNames \cup BridgeNames) \ forward : RowsOf(u, {name}) = <<>>
  /\ \A names : names \cap (forward \cup NeverNames \cup BridgeNames) = {} => RowsOf(u, names) = RowsOf(rows, names)

\* Forwarded names get their rows, blocked names lose theirs, the rows of other names stay.
LEMMA ForwardedRows ==
  ASSUME NEW rows \in Seq(EnvRows), NEW set \in SUBSET STRING, IsFiniteSet(set), NEW listed,
         NEW forward, forward = Forwarded(set, listed),
         NEW u, u = environmentForWsl(rows, set, listed)
  PROVE  MergedBy(rows, forward, u)
<1> DEFINE blocked == NeverNames \cup BridgeNames
           A == forward \ (NamesIn(rows) \ blocked)
           g == [name \in A |-> ""]
           lists == [n \in DOMAIN rows |-> MergeRow(rows, n, forward)]
           more == SetToSeq(RowsAdded(A, g))
           N == Len(rows)
<1>0. rows \in Seq(EnvRows)
  OBVIOUS
<1>1. DOMAIN rows = 1 .. N /\ \A n \in 1 .. N : rows[n] \in EnvRows
  OBVIOUS
<1>2. forward \subseteq STRING /\ IsFiniteSet(forward) /\ A \subseteq STRING /\ IsFiniteSet(A) /\ forward \cap NeverNames = {}
  <2>1. forward \subseteq set /\ forward \cap NeverNames = {}
    BY DEF Forwarded
  <2>2. A \subseteq set
    BY <2>1
  <2> QED
    BY <2>1, <2>2, FS_Subset
<1>3. g \in [A -> {"", "p", "l"}] /\ \A name \in A : g[name] = ""
  OBVIOUS
<1>4. A \subseteq forward
  OBVIOUS
<1>5. Adds(more, A, g)
  <2> HIDE DEF A, g
  <2> QED
    BY <1>2, <1>3, AddedRows
<1>6. u = Joined(lists \o more)
  <2>1. RowsAdded(A, g) = {<< Row(name, "") >> : name \in A}
    BY DEF RowsAdded
  <2> QED
    BY <2>1 DEF environmentForWsl
<1>7. \A n \in 1 .. N : lists[n] = MergeRow(rows, n, forward)
  BY <1>1
<1>9. lists = [n \in DOMAIN rows |-> lists[n]]
  OBVIOUS
<1>10. \A row : << row >> # <<>> /\ << row >>[1] = row
  OBVIOUS
<1>11. ASSUME NEW n \in 1 .. N
       PROVE  lists[n] \in OneOrNone /\ (lists[n] # <<>> => lists[n][1].name = rows[n].name)
  <2> DEFINE r == rows[n]
             h == Row(rows[n].name, rows[n].mode)
  <2>1. lists[n] \in {<<>>, << r >>, << h >>}
    BY <1>7 DEF MergeRow
  <2>2. r \in EnvRows /\ h \in EnvRows /\ h.name = r.name
    BY <1>1 DEF Row, EnvRows
  <2>3. rows[n].name = r.name
    OBVIOUS
  <2> HIDE DEF r, h, lists
  <2> QED
    BY <1>10, <2>1, <2>2, <2>3 DEF OneOrNone
<1> HIDE DEF lists, more, A, g
<1>12. Answers(rows, lists)
  BY <1>9, <1>11, AnswersListed
<1>13. more \in Seq(OneOrNone)
  BY <1>5 DEF Adds
<1>14. ASSUME NEW names, names \cap (forward \cup NeverNames \cup BridgeNames) = {}
       PROVE  RowsOf(u, names) = RowsOf(rows, names)
  <2>1. \A n \in 1 .. N : rows[n].name \in names => lists[n] = << rows[n] >>
    BY <1>7, <1>14 DEF MergeRow
  <2>2. \A n \in 1 .. Len(more) : OnlyOf(more[n], names) = <<>>
    BY <1>4, <1>5, <1>14 DEF Adds
  <2> QED
    BY <1>6, <1>12, <1>13, <2>1, <2>2, LoopKeeps
<1>15. ASSUME NEW name \in blocked \ forward PROVE RowsOf(u, {name}) = <<>>
  <2> DEFINE one == {name}
  <2>0. one = {name}
    OBVIOUS
  <2> HIDE DEF one
  <2>1. Misses(rows, lists, name)
    BY <1>7, <1>15 DEF Misses, MergeRow
  <2>2. AddsNone(more, one)
    <3>1. one \cap A = {}
      BY <1>4, <1>15, <2>0
    <3> QED
      BY <1>5, <3>1 DEF Adds, AddsNone
  <2>3. RowsOf(Joined(lists \o more), one) = <<>>
    BY ONLY <1>0, <1>12, <1>13, <2>0, <2>1, <2>2, LoopDrops
  <2> QED
    BY <1>6, <2>0, <2>3
<1>16. ASSUME NEW name \in forward PROVE RowsOf(u, {name}) = << Row(name, Inherited(rows, name)) >>
  <2> DEFINE one == {name}
             given == Row(name, Inherited(rows, name))
  <2>0. one = {name}
    OBVIOUS
  <2>1. name \notin NeverNames
    BY <1>2
  <2>2. CASE name \in NamesIn(rows) /\ name \notin BridgeNames
    <3>1. PICK k \in 1 .. N : /\ rows[k].name = name /\ ~IsLater(rows, k)
                              /\ \A n \in 1 .. N : n # k /\ rows[n].name = name => IsLater(rows, n)
                              /\ RowsOf(rows, {name}) # <<>> /\ RowsOf(rows, {name})[1] = rows[k]
      BY <2>2, FirstRow
    <3>2. Inherited(rows, name) = rows[k].mode
      BY <2>2, <3>1 DEF Inherited
    <3>3. lists[k] = << given >> /\ lists[k] # <<>>
      <4>1. lists[k] = << Row(rows[k].name, rows[k].mode) >>
        BY <1>7, <2>1, <2>2, <3>1 DEF MergeRow
      <4> QED
        BY <1>10, <3>1, <3>2, <4>1
    <3> HIDE DEF one, given
    <3>4. \A n \in 1 .. N : n # k /\ rows[n].name = name => lists[n] = <<>>
      BY <1>7, <3>1 DEF MergeRow
    <3>5. AddsNone(more, one)
      <4>1. one \cap A = {}
        BY <2>0, <2>1, <2>2 DEF A
      <4> QED
        BY <1>5, <4>1 DEF Adds, AddsNone
    <3>6. Meets(rows, lists, name, k)
      BY <3>1, <3>3, <3>4 DEF Meets
    <3>7. RowsOf(Joined(lists \o more), one) = lists[k]
      BY ONLY <1>0, <1>12, <1>13, <2>0, <3>5, <3>6, LoopMeets
    <3> QED
      BY <1>6, <2>0, <3>3, <3>7 DEF given
  <2>3. CASE ~(name \in NamesIn(rows) /\ name \notin BridgeNames)
    <3>1. name \in A
      BY <2>3 DEF A
    <3>2. PICK m \in 1 .. Len(more) : /\ more[m] = << Row(name, g[name]) >>
                                      /\ \A n \in 1 .. Len(more) : n # m => OnlyOf(more[n], {name}) = <<>>
      BY <1>5, <3>1 DEF Adds
    <3>3. Inherited(rows, name) = ""
      BY <2>3, NoRow DEF Inherited
    <3>4. more[m] = << given >> /\ given.name = name
      BY <1>3, <3>1, <3>2, <3>3 DEF Row
    <3> HIDE DEF one, given
    <3>5. OnlyOf(more[m], one) = more[m]
      BY <1>10, <2>0, <3>4 DEF OnlyOf
    <3>6. AddsOne(more, one, m)
      BY <2>0, <3>2, <3>5 DEF AddsOne
    <3>7. Misses(rows, lists, name)
      <4>1. CASE name \in BridgeNames
        BY <1>7, <4>1 DEF Misses, MergeRow
      <4>2. CASE name \notin NamesIn(rows)
        BY <1>1, <4>2 DEF Misses, NamesIn
      <4> QED
        BY <2>3, <4>1, <4>2
    <3>8. RowsOf(Joined(lists \o more), one) = more[m]
      BY ONLY <1>0, <1>12, <1>13, <2>0, <3>6, <3>7, LoopAdds
    <3> QED
      BY <1>6, <2>0, <3>4, <3>8 DEF given
  <2> QED
    BY <2>2, <2>3
<1>17. u \in Seq(EnvRows)
  BY <1>6, <1>12, <1>13, JoinedType
<1> QED
  BY <1>14, <1>15, <1>16, <1>17 DEF MergedBy

\* A name has rows if some bear it.
LEMMA Named ==
  ASSUME NEW rows \in Seq(EnvRows), NEW name
  PROVE  name \in NamesIn(rows) <=> RowsOf(rows, {name}) # <<>>
BY FirstRow, NoRow

\* The environment a launch is called with.
LEMMA CallEnvType ==
  ASSUME NEW c \in Calls
  PROVE  c.rows \in Seq(EnvRows) /\ c.vars \in SUBSET STRING /\ IsFiniteSet(c.vars)
BY LaunchAssumption DEF Calls

\* EnvironmentIsOwned, for any rows, variables and names: what the two loops make of WSLENV
\* (wsl-bridge.ts 412-445, wsl-host-env.ts 54-72).
THEOREM EnvironmentsAreOwned == Spec => []EnvironmentIsOwned
<1>1. LaunchInv => EnvironmentIsOwned
  <2> DEFINE old     == call.rows
             set     == call.vars
             listed  == call.listed
             hosts   == DOMAIN HostModes \cap set
             forward == Forwarded(set, listed)
             owned   == forward \cup hosts
             blocked == NeverNames \cup BridgeNames
             aug     == augmentWslHostEnvironment(old, set)
             rows    == environmentForWsl(aug, set, listed)
             nobodys == NamesIn(old) \ (owned \cup NeverNames \cup BridgeNames)
             O(name) == RowsOf(old, {name})
             A(name) == RowsOf(aug, {name})
             R(name) == RowsOf(rows, {name})
  <2> SUFFICES ASSUME LaunchInv, pc = "running"
               PROVE  /\ NamesIn(rows) \cap (NeverNames \cup (BridgeNames \ listed)) = {}
                      /\ NamesIn(rows) \ BridgeNames = nobodys \cup (owned \ BridgeNames)
                      /\ \A name \in owned \cap NamesIn(rows) : R(name) = << Row(name, ModeGiven(name)) >>
                      /\ RowsOf(rows, nobodys) = RowsOf(old, nobodys)
    BY DEF EnvironmentIsOwned, ChildRows, Owned
  <2>1. old \in Seq(EnvRows) /\ set \in SUBSET STRING /\ IsFiniteSet(set)
    <3>1. call \in Calls
      BY DEF LaunchInv, AtRest, call, Accepted
    <3> QED
      BY <3>1, CallEnvType
  <2>2. \A name : ModeGiven(name) = IF name \in DOMAIN HostModes THEN HostModes[name]
                                    ELSE IF name \in BridgeNames \/ O(name) = <<>> THEN "" ELSE O(name)[1].mode
    BY DEF ModeGiven
  <2> HIDE DEF old, set, listed
  <2>3. hosts = DOMAIN HostModes \cap set /\ forward = Forwarded(set, listed)
    OBVIOUS
  <2>4. aug = augmentWslHostEnvironment(old, set)
    OBVIOUS
  <2>5. rows = environmentForWsl(aug, set, listed)
    OBVIOUS
  <2> HIDE DEF hosts, forward, aug, rows
  <2>6. SettledBy(old, hosts, aug)
    BY ONLY <2>1, <2>3, <2>4, Augmented
  <2>7. MergedBy(aug, forward, rows)
    <3>1. aug \in Seq(EnvRows)
      BY <2>6 DEF SettledBy
    <3> QED
      BY ONLY <2>1, <2>3, <2>5, <3>1, ForwardedRows
  <2>8. /\ aug \in Seq(EnvRows)
        /\ \A name \in hosts : A(name) = << Row(name, HostModes[name]) >>
        /\ \A names : names \cap hosts = {} => RowsOf(aug, names) = RowsOf(old, names)
    BY <2>6 DEF SettledBy
  <2>9. /\ rows \in Seq(EnvRows)
        /\ \A name \in forward : R(name) = << Row(name, Inherited(aug, name)) >>
        /\ \A name \in blocked \ forward : R(name) = <<>>
        /\ \A names : names \cap (forward \cup NeverNames \cup BridgeNames) = {} => RowsOf(rows, names) = RowsOf(aug, names)
    BY <2>7 DEF MergedBy
  <2>10. \A name : /\ name \in NamesIn(rows) <=> R(name) # <<>>
                   /\ name \in NamesIn(old) <=> O(name) # <<>>
    BY <2>1, <2>9, Named
  <2>11. \A name : Inherited(aug, name) = IF name \in BridgeNames \/ A(name) = <<>> THEN "" ELSE A(name)[1].mode
    BY DEF Inherited
  <2>12. ASSUME NEW name, name \notin hosts PROVE A(name) = O(name)
    <3>1. {name} \cap hosts = {}
      BY <2>12
    <3> QED
      BY <2>8, <3>1
  <2>13. ASSUME NEW name, name \notin forward \cup blocked PROVE R(name) = A(name)
    <3>1. {name} \cap (forward \cup NeverNames \cup BridgeNames) = {}
      BY <2>13
    <3> QED
      BY <2>9, <3>1
  <2>14. RowsOf(rows, nobodys) = RowsOf(old, nobodys)
    <3>1. nobodys \cap (forward \cup NeverNames \cup BridgeNames) = {} /\ nobodys \cap hosts = {}
      OBVIOUS
    <3> HIDE DEF nobodys
    <3> QED
      BY <2>8, <2>9, <3>1
  <2> HIDE DEF O, A, R
  <2>15. /\ forward \cap NeverNames = {} /\ forward \cap BridgeNames \subseteq listed /\ forward \subseteq set
         /\ DOMAIN HostModes \cap blocked = {} /\ owned \cap NeverNames = {}
    BY <2>3, EnvAssumption DEF Forwarded
  <2>16. ASSUME NEW name \in owned PROVE R(name) = << Row(name, ModeGiven(name)) >>
    <3>0. \A row : << row >> # <<>> /\ << row >>[1] = row
      OBVIOUS
    <3>1. CASE name \in forward
      <4>1. Inherited(aug, name) = ModeGiven(name)
        <5>1. CASE name \in BridgeNames
          BY <2>2, <2>11, <2>15, <5>1
        <5>2. CASE name \notin BridgeNames /\ name \in DOMAIN HostModes
          <6> DEFINE row == Row(name, HostModes[name])
          <6>1. name \in hosts
            BY <2>15, <2>3, <3>1, <5>2
          <6>2. A(name) = << row >> /\ row.mode = HostModes[name]
            BY <2>8, <6>1 DEF Row
          <6> HIDE DEF row
          <6>3. A(name) # <<>> /\ A(name)[1].mode = HostModes[name]
            BY <3>0, <6>2
          <6> QED
            BY <2>2, <2>11, <5>2, <6>3
        <5>3. CASE name \notin BridgeNames /\ name \notin DOMAIN HostModes
          <6>1. A(name) = O(name)
            BY <2>3, <2>12, <5>3
          <6> QED
            BY <2>2, <2>11, <5>3, <6>1
        <5> QED
          BY <5>1, <5>2, <5>3
      <4> QED
        BY <2>9, <3>1, <4>1
    <3>2. CASE name \notin forward
      <4>1. name \in hosts /\ name \in DOMAIN HostModes /\ name \notin forward \cup blocked
        BY <2>15, <2>3, <3>2
      <4>2. R(name) = A(name) /\ A(name) = << Row(name, HostModes[name]) >>
        BY <2>8, <2>13, <4>1
      <4> QED
        BY <2>2, <4>1, <4>2
    <3> QED
      BY <3>1, <3>2
  <2>17. NamesIn(rows) \cap (NeverNames \cup (BridgeNames \ listed)) = {}
    <3>1. ASSUME NEW name \in NeverNames \cup (BridgeNames \ listed) PROVE name \notin NamesIn(rows)
      <4>1. name \in blocked \ forward
        BY <2>15
      <4> QED
        BY <2>9, <2>10, <4>1
    <3> QED
      BY <3>1
  <2>18. ASSUME NEW name \in NamesIn(rows) PROVE name \in nobodys \cup owned
    <3>1. CASE name \in owned
      BY <3>1
    <3>2. CASE name \notin owned
      <4>1. name \notin blocked
        BY <2>9, <2>10, <2>18, <3>2
      <4>2. R(name) = O(name)
        BY <2>12, <2>13, <3>2, <4>1
      <4>3. name \in NamesIn(old)
        BY <2>10, <2>18, <4>2
      <4> QED
        BY <3>2, <4>1, <4>3
    <3> QED
      BY <3>1, <3>2
  <2>19. ASSUME NEW name \in nobodys \cup owned PROVE name \in NamesIn(rows)
    <3>1. CASE name \in owned
      <4>1. << Row(name, ModeGiven(name)) >> # <<>>
        OBVIOUS
      <4> QED
        BY <2>10, <2>16, <3>1, <4>1
    <3>2. CASE name \in nobodys
      <4>1. R(name) = O(name)
        BY <2>12, <2>13, <3>2
      <4> QED
        BY <2>10, <3>2, <4>1
    <3> QED
      BY <3>1, <3>2
  <2>20. NamesIn(rows) \ BridgeNames = nobodys \cup (owned \ BridgeNames)
    <3>1. nobodys \cap BridgeNames = {} /\ NamesIn(rows) = nobodys \cup owned
      BY <2>18, <2>19
    <3> QED
      BY <3>1
  <2> QED
    BY <2>14, <2>16, <2>17, <2>20
<1> QED
  BY <1>1, InitLaunch, LaunchStep, PTL DEF Spec
=============================================================================
