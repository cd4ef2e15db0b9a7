------------------------------- MODULE WslEnv -------------------------------
(* What crosses from Windows into WSL: WSLENV, the list of the variables     *)
(* wsl.exe passes on and how (wsl-host-env.ts, environmentForWsl of          *)
(* wsl-bridge.ts). A row is [name, mode, way]: mode "p" translates a path,   *)
(* "l" a list of paths; way "u" passes the variable into WSL only, "w" out   *)
(* of it only, "" both ways. The order of rows that are appended in one go   *)
(* is left open.                                                             *)
EXTENDS SequencesExt

CONSTANTS ForwardNames,   \* DEFAULT_FORWARD_ENV, and the DSH_* and ORCANA_* variables
          NeverNames,     \* DSH_HOME, HOME, PATH
          BridgeNames,    \* ORCANA_WSL_*
          HostModes       \* the host settings augmentWslHostEnvironment owns, with their mode

ASSUME EnvAssumption ==
  /\ HostModes \in [DOMAIN HostModes -> {"", "p", "l"}]
  /\ DOMAIN HostModes \cap (NeverNames \cup BridgeNames) = {} /\ ForwardNames \cap BridgeNames = {}

EnvRows         == [name : STRING, mode : {"", "p", "l"}, way : {"", "u", "w"}]
Row(name, mode) == [name |-> name, mode |-> mode, way |-> "u"]

\* Lists put together: a row that goes has given <<>>, one that stays or changes a list of one.
JoinedTo(lists) ==
  LET s[n \in 0..Len(lists)] == IF n = 0 THEN <<>> ELSE s[n - 1] \o lists[n]
  IN  s
Joined(lists) == JoinedTo(lists)[Len(lists)]

NamesIn(rows)    == {rows[i].name : i \in DOMAIN rows}
IsLater(rows, n) == \E i \in 1..(n - 1) : rows[i].name = rows[n].name

\* The first row of a host setting becomes the one its owner wants, later ones go.
upsertOneWayEntry(rows, n, hosts) ==
  IF rows[n].name \notin hosts THEN << rows[n] >>
  ELSE IF IsLater(rows, n) THEN <<>>
  ELSE << Row(rows[n].name, HostModes[rows[n].name]) >>

\* vars: the variables that are set. A host setting without a row gets one.
augmentWslHostEnvironment(rows, vars) ==
  LET hosts == DOMAIN HostModes \cap vars
  IN  Joined([n \in DOMAIN rows |-> upsertOneWayEntry(rows, n, hosts)]
             \o SetToSeq({<< Row(name, HostModes[name]) >> : name \in hosts \ NamesIn(rows)}))

\* listed: the names ORCANA_WSL_FORWARD_ENV gives.
Forwarded(vars, listed) == ((ForwardNames \cup listed) \ NeverNames) \cap vars

\* Mutant of MergeRow: the row of a variable the bridge owns stays as it was inherited.
MergeRowAsIs(rows, n, forward) ==
  IF \/ rows[n].name \in NeverNames \cup BridgeNames
     \/ rows[n].name \in forward /\ IsLater(rows, n)
  THEN <<>> ELSE << rows[n] >>

\* One turn of the loop over the inherited rows: of a forwarded name the first row stays, one way.
MergeRow(rows, n, forward) ==
  IF \/ rows[n].name \in NeverNames \cup BridgeNames
     \/ rows[n].name \in forward /\ IsLater(rows, n)
  THEN <<>>
  ELSE IF rows[n].name \in forward THEN << Row(rows[n].name, rows[n].mode) >> ELSE << rows[n] >>

environmentForWsl(rows, vars, listed) ==
  LET forward   == Forwarded(vars, listed)
      satisfied == NamesIn(rows) \ (NeverNames \cup BridgeNames)
  IN  Joined([n \in DOMAIN rows |-> MergeRow(rows, n, forward)]
             \o SetToSeq({<< Row(name, "") >> : name \in forward \ satisfied}))

\* What the launcher and then the bridge make of the rows they inherit.
ChildRows(rows, vars, listed) == environmentForWsl(augmentWslHostEnvironment(rows, vars), vars, listed)
=============================================================================
