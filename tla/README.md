# Orcana for DSH: models, checks and proofs

TLA+ modules for the run-time parts of this repository: the progress-fact
engine and the governor plugin that steers an agent with it, the two Linux
plugins that wrap methods of DSH's services, the launcher that installs and runs
DSH inside WSL, and the benchmark supervisor. Each module is written from the
source it names; `PROJECT.json` maps every definition to its lines.

Contents: [Inventory](#inventory), [Modules](#modules), [Runs](#runs),
[Findings](#findings), [Proofs](#proofs), [Not modelled](#not-modelled),
[Plan](#plan).

## Inventory

| Part | Source | State | Operations |
|---|---|---|---|
| Progress-fact engine | `packages/governor-core/src/index.ts` | generation, ring of recent observations, latest receipt per verification command, chain of idle rounds, the open round | `applyEvent`, `endTurn`, `resetChains`, `consumeInlineReminder`, `snapshot`, `restore`, `rebuild`; pure rules `completionViolations` |
| Governor adapter | `packages/dsh-governor/src/index.ts` | an engine and a forced-continuation count per agent | listeners `agent/session-start`, `agent/pre-step`, `tools/post-execute`, `agent/turn-stopping`, `agent/context`, `agent/created` |
| Native evidence | `packages/dsh-orcana-linux/src/native-evidence.ts`, `native-tool-correlation.ts` | the wrappers on `shell.run`/`shell.start`, a bounded ledger kept on the shell, a pending count, async-local correlation | mount, dispose, run, start, `find`, `latest` |
| Legacy hardening | `packages/dsh-orcana-linux/src/index.ts` | the wrapper on `sandbox.confine`, an audit ledger per instance | mount, dispose, confine |
| WSL launcher and bridge | `wsl-launcher.ts`, `wsl-bridge.ts`, `wsl-host-env.ts` | one launch: its options, the distro of each child, the child under way, an exit code; `WSLENV` | run, install, doctor; rewriting of argv, paths and environment |
| WSL install and profiles | `wsl-install.ts`, `wsl-profile.ts`, `wsl-product-profiles.ts` | the manifest (dependencies, layers) of a profile in a distro; the script that installs it | install transactions; check of a manifest before a run, after an install, in a doctor |
| WSL doctors | `wsl-*-doctor.ts` | none | probes that print |
| Benchmark supervisor | `benchmark/runner/supervisor.mjs`, `judge.mjs` | a child process, budgets, workspaces, records | plan, stage, run, poll, kill, retry, judge |
| Benchmark analysis | `aggregate.mjs`, `analyze.mjs`, `model-proxy.mjs` | finished runs | reports |

How they interact. The adapter is the engine's only client and owns all I/O. It
talks to the host's agent loop by listeners and by `agent.steer`, which queues a
message and keeps the loop going; the host keeps the session log, from which the
adapter rebuilds the engine on resume and compaction. The two Linux plugins are
independent of the governor and of each other; they share a mechanism, taking a
method out of a service object and putting a wrapper in its place, which every
other plugin may do as well, before and after them. The launcher parses its
arguments, has the profile checked in the distro it takes for the target,
composes the canonical arguments, and hands them to the bridge, which parses them
again, chooses the distro once more, from the paths it finds, translates those, and
starts DSH. An installing script is a process of Linux and goes on when
only its launcher is killed.

What is hard here:

- the live path and the replay of the log must agree, although the one goes
  through rounds, resets and reminders and the other through none of them, a
  crash may fall between a transition and its log entry, and a compaction may
  have rewritten the log;
- two steering paths (ladder and completion guard) share one budget that
  messages, resumes and compactions refill;
- the verdict of a round and the chain of idle rounds are folded event by event;
- wrappers are not always on top when they are disposed, and executions are
  under way while instances are swapped;
- nested and concurrent tool calls share one async-local store;
- the same arguments are scanned three times, by three functions, that must
  agree on what is a flag, a path, or the task's text;
- an installation fails or is killed between any two transactions, and is
  repeated over what it left, perhaps while its orphan goes on;
- the supervisor's agents are processes that end, hang or write their logs
  between any two polls.

What makes each part correct: for the engine, that its folded facts are those
of the history; for the adapter, that a stop never stands on unverified work
while the guard may still act, that steering ends, and that resumed and live
facts are the same; for the evidence observer, that each observed execution is
recorded once, under the right identity, and accounted for when dropped; for
the hardening, that no argv leaves without a required layer, that none is refused
without need, and that the record tells what was applied; for the launcher, that DSH boots only a complete profile, in the one
distro the call names, with the task's text untouched; for an installation, that
success means complete, that the order of layers is never lost, and that
repeating it repairs; for the supervisor, that only an exhausted budget stops an
agent, that results are final, and that nothing outlives its record.
`PROJECT.json` lists the hazards with the lines where they bite.

## Modules

    ProgressEngine            the engine as a value, its methods as operators
      EngineSession           every order of methods, beside the history
      SessionLog              the log's tool events; what they say of the work
        Governor              the adapter within the host's loop
          GovernorReplay      translate + rebuild as the code writes them
          GovernorPromise --> CompletionPromise     the abstract promise
    BoundedLedger, WrapperChain   shared by
      NativeEvidence
      Hardening
    WslArgs                   the arguments: flags, profile, paths, distro
    WslEnv                    WSLENV
    WslProfile                manifests, expectations, install transactions
      WslLaunch               launches over all three
    Supervisor                the benchmark, by itself
    EngineProofs -> EngineSessionProofs
    EngineProofs, Induction -> GovernorProofs
    Induction -> NativeEvidenceProofs, HardeningProofs, WslLaunchProofs
    SupervisorProofs
    MCEngineSession, MCGovernor, MCNativeEvidence, MCHardening, MCSupervisor,
    MCWslLaunch               instances for TLC

**ProgressEngine.** One operator per method. `ApplyEvent` is `applyEvent` with
all it does: generation, ring, receipt and round together. A call stands for a
(tool, canonical arguments) pair and a content for a rendered result, of which
the engine keeps the hash; what string inspection says of them (mutation tool,
verification command, exit marker, interruption) are constants, so every
classification is covered and no text is spelt out. `beginTurn` and
`onMutation` have no caller in the adapter and are absent.

**EngineSession** puts an engine under every order of its public methods and
keeps the history of events beside it. Its invariants define generation, window,
receipts, idle rounds and repeats on the history, with quantifiers, and compare.

**Governor.** One agent: the maps of the plugin are keyed by agent and nothing
else is shared. `engine`, `mounted`, `forced` are the entries of `engines` and
`forced`; `log` is the session's tool events; `phase` says where the host's loop
is. The listeners run without awaiting, so each is one action, with two
exceptions: `tools/post-execute` awaits the listeners after it, so `PostExecute`
and `ToolReturn` are separate and a crash or a replacement may come between;
`session-start` does not await, but its loop over the log is written as steps
(`ReplayEntry`) that nothing but a crash interrupts, because a step per entry is
what an inductive proof can follow. `agent/turn-stopping` is `Stop`, split by
its outcome: ladder steer, guard steer, release, and the early return for an
agent without an engine. The loop itself, messages, crashes and compactions are
the host's and are marked external in the map. One tool runs at a time.

**GovernorReplay** has the two passes of a resume, `translateSessionEvents` and
`rebuild`, each as a function of how many entries it has read. `LiveEqualsReplay` compares the result with the live engine
in every state in which no result is under way.

**CompletionPromise** knows only whether the work is dirty, which commands
fail, how many units are spent, and whether a user's message waits. Its `Rest`
says what the plugin promises: at rest on unverified work only if the budget is
spent. **GovernorPromise** maps the adapter to it, reading dirty and failing from
the *log*, not from the engine.

**WrapperChain** is a method slot: the layer on top, and below each layer the
function it took. **BoundedLedger** is the window both plugins keep.

**NativeEvidence.** `slots` are `raw.run` and `raw.start`, `patch` the owner
symbol, `active` the closures' flags, `ledger` and `pending` the state kept on
the shell, `store` the async-local value in the body of each tool call, `execs`
what a wrapper captured at the start of an execution. `Settle` and `Release` are
the continuations of `wrappedRun` and of `done.then/catch/finally`. Foreign
wrappers call on at once and restore the slot only when on top; one that awaited
before calling on would let a disposal fall in between, which is not modelled.

**Hardening.** `Confined` evaluates a call through the whole chain, from the
provider up, since `confine` is synchronous. An argv is its head and the layers
it carries by the instance that added them. The network layer needs a place in the
provider's argv (`seam`): the `--` of bwrap, the profile behind `-p` of sandbox-exec.
Without one bwrap's flag goes to the end ("trailing") and sandbox-exec's argv stays as it was
(`Placed`), and the code takes both for applied (`Gotten`). Configurations, the
presence of prlimit, the provider's runner and the seam are chosen in the initial state; that
the provider builds its argvs all alike on one host is assumed, as it is external.

**WslArgs.** An argument is a tuple whose head is its kind: a flag, a flag with a
value in line, a word, or a path that is of a drive, of a distro's share, relative
or already of Linux. `parseWslBridgeArgs`, `dshArgsForBridge`,
`inferWslDistroFromDshPathArgs` and the translation are functions on such lists,
each with the scanning loop of its source, written as a function of the position it has
come to (`ParsedTo`, `RootScan`, `PatchScan`). What a path says beyond its kind and
its distro is left out; `wslpath` is external.

**WslEnv.** A row of `WSLENV` is a name, a mode and a way. `augmentWslHostEnvironment` and
`environmentForWsl` answer each row with a list of one or none (it stays, is rewritten or goes)
and append rows, in any order; `Joined` puts the lists together. The launcher's loop runs once per
host setting in the code and once per row here: no setting's turn touches the rows of another.

**WslProfile.** A manifest has a version per package and the layers in order. A
transaction writes dependencies (pnpm) and appends newly discovered layers (DSH),
in any order; both are external and modelled from how the installer uses
them: that order is why it adds its bundles one by one. The expectation and its check
are the code's.

**WslLaunch.** `agenda` are the calls to come, `pc` is where the launcher is,
`script` has two slots for installing scripts: the launcher's child and an orphan.
`disk` outlives every process, `worlds`, `verified` and `ran` keep where this launch
has started children, which profiles it checked, and the DSH it booted. A step of a
script may fail or be killed (`faults`); a launch may be killed with its child or
leave it. A transaction is atomic except that it fails: what a killed `pnpm`
leaves of its own files is pnpm's. A scenario (disks, toolchains, faults, agendas) is
chosen in the initial state.

**Supervisor.** `phase` follows `runLive` and `runOne`. A poll is synchronous,
hence one action (`PollEnded`, `PollFails`, `PollOn`, `PollStops`, by what it
finds), and an exit is only reported (`ExitSeen`) while something is awaited.
`children` are the agents of the current run, an attempt's latest last: an agent
works, writes its log, exits or dies at any time, an abandoned one too. A log is
`torn` while it is written and cannot be read to its end. There is no clock: the
wall deadline passes at any time (`late`), and a sleep takes any time. The seed
chooses any order of arms. A row is only the run it is for, since neither metrics
nor judgment change what follows. A failed spawn or copy, a log that cannot
be folded, and a record or a report that cannot be written throw out of `runLive`:
phase "aborted".

## Runs

| Run | What it asks | Bounds |
|---|---|---|
| `engine_session` | Are facts, window, verdicts, chain and reminders those of the history, under every order of methods? | 4 events of 8 kinds, window 2, two commands; a full window, a wrap and a mutation inside need 4 |
| `governor` | Budget, reach of the ladder and coming to rest, without crashes, with replaced results | 4 calls, 2 messages, thresholds 1, 2, 3, budget 2 |
| `governor_restart` | The inductive invariants, live = replay, verified stops and the promise, with crashes and compactions | 3 calls, 2 messages, 1 restart, 1 compaction |
| `native_evidence` | One record each, of its own call, exact pending count, ledger, nobody clobbered, everything that ended released | 2 instances, sizes 1 and 2, and any three of 1 foreign wrapper, 2 nested calls and 2 executions |
| `hardening` | Fails closed but for a network layer without a seam, refuses only the impossible, audits every call | 2 instances with any of 4 configurations, 1 foreign wrapper, 4 carriers, 3 runners with and without a seam, 3 calls |
| `hardening_overlap` | One configuration at a time? (no) | the same |
| `hardening_seam` | Is every required layer enforced when the call is not refused? (no) | the same |
| `supervisor` | Who is stopped, with what verdict, what is retried, does it end | 1 task, 2 pairs, 2 requests of 2 tokens, budget 2, ceiling 0 or 2 |
| `supervisor_budget` | Is an exhausted budget always incomplete? (no) | the same |
| `supervisor_fence` | Has every recorded run ended? (no) | the same |
| `wsl_launch` | Does only a complete profile boot, in the chosen distro, with the task as given; is an installation complete, in order, and repaired by repeating it, and what crosses into WSL? | arguments of up to 3 pieces (15 heads, 22 tails) from 5 places; 6 toolchains with every selector and command, 1 fault; 25 half-installed disks, 3 agendas, 2 faults; 2 or 3 rows of `WSLENV` |
| `wsl_drift` | Does DSH run where its profile was checked? (no) | the argument lists |

Bounds. `MaxEvents`, `MaxCalls`, `MaxMessages`, `MaxRestarts`,
`MaxCompactions`, `MaxConfines` and `MaxWork` cap counters in guards. Four calls fit an
edit, a failing and a passing verification and a repeat; two messages fit an
interjection in a round that a message began; a budget of 2 is used up within
them. Two instances and one foreign wrapper are the least in which a wrapper is
left behind and mounted over. With `MaxWork` 3 two executions run on either side of
a foreign wrapper, or one in a call dispatched by another; roots differ in the
proof only. Two pairs are the least in which a run can be
taken for one of the other pair; with a ceiling of 2 one request exhausts the
tokens and two the calls. Three pieces of arguments fit a flag of the launcher,
one of DSH or a command, and a task, each before or after the other; two faults
fit a failed installation whose repetition fails as well, or one that is
killed and leaves an orphan beside its repetition. `CHECK_DEADLOCK FALSE` is set where the system may
stop: an idle agent without messages, a shell without calls, a benchmark at its end,
a launcher with nothing left to launch.

Fairness. `Governor` assumes that the host's loop goes on when it can
(`WF_vars(Loop)`): it is one task that awaits only tools and the model, both
bounded by timeouts of the host. Messages, crashes and compactions need not
come. `ComesToRest` then rests on the bounds of calls and on the budget alone.
`NativeEvidence` assumes that queued continuations run, which the JavaScript
runtime guarantees; nothing is assumed of executions, which may run for ever.

`Supervisor` assumes that timers fire, continuations run, exits are reported,
killed processes end and time passes; nothing of agents. `WslLaunch` assumes that
a child's steps go on and that its end is reported: `spawnAndWait` and `runChild`
resolve when the child ends, a failed spawn included. Of an orphan nothing is assumed.

The `mutants` of `PROJECT.json` break each property by a plausible bug in a
mapped definition; they stand in the modules beside what they replace.

## Findings

Each is a run that TLC ends with a violation of what the repository says:

1. `hardening_overlap`: two configurations "must not silently overlap" (index
   459), but an instance disposed under a foreign wrapper goes on hardening.
2. `supervisor_fence`: "30 min wall fence, 5 s SIGTERM grace, then SIGKILL"
   (supervisor 9), but a poll that throws records the run and leaves its agent
   running (341-343), in the workspace of the retry and of the judge.
3. `supervisor_budget`: exhaustion is incomplete "BEFORE any exit code" (10-11),
   but an agent that exits before the next poll is completed (314).
4. `wsl_drift`: "the verification target cannot drift from the execution target"
   (launcher 72-73), but the launcher checks the profile in the default distro when no
   distro is named (228) while the bridge goes where a path of the task
   lies (bridge 537-541).
5. `hardening_seam`: enforcement fails closed "instead of returning an unenforced
   argv" (index 371-372), but when sandbox-exec's argv has no profile to append the
   denial to, it is returned as it was (309, 311), nothing is reported degraded
   (358-360), and nothing refuses it. The provider's argv is external and no
   test has this shape; whether a host produces it is not for this repository to
   say. A bwrap flag appended for want of a `--` (302) is counted as enforced,
   as the test of it (`hardening.spec.ts` 95) has it. What holds is `FailsClosed`.
   The audit record has the "layers actually applied" (136), but has
   `network-none` also then (360); `EveryCallIsAudited` makes the same exception.

Other things met while modelling, without a run.

- "ORCANA_WSL_* are removed from this child WSLENV even when globally present" (bridge
  409-410), but one that the user lists in `ORCANA_WSL_FORWARD_ENV` may be put in
  again (422, 439-441). `EnvironmentIsOwned` keeps out those that are not listed, and
  of the listed ones says only their form.
- Nothing holds a profile between its check (launcher 228-232) and the boot (237, 246):
  the orphan of a killed installation for another DSH may change it.
  `RunsOnlyComplete` is checked and proved for launches that select one DSH.
- A replaced result makes live and resumed state differ (`PLAN-v0.1.md` 451
  names the limitation); `governor_restart` and `EvidenceHolds` assume it away.
- After a compaction the log is replayed into the open round, so a reminder may be
  for repeats of earlier rounds.
- Claims are checked (adapter 108), but not those of an agent that has not used
  a tool (501).
- The ladder cannot climb above the budget by itself (`LadderIsBounded`): each
  continuation is one rung and one unit, so with the defaults (thresholds 2, 3, 4,
  budget 3) the third rung needs messages of other plugins.
- `evidence.enabled` only governs the context message; the engine counts
  generations in either case.
- "Exact DSH causal identity" (native-evidence 129): a nested call dispatched
  between a disposal and a remount has the correlation of the outer one
  (native-tool-correlation 55); `CorrelationIsCausal` says what does hold.
- `assertSupportedProductToolchainSelectors` (wsl-launcher 87-108) has no caller in
  the launcher.
- Of two path arguments of a plugin command, a drive's path before a distro's is
  translated by the default distro while the run goes to the other (launcher
  139-153, 128-129).

## Proofs

All theorems hold for every value of the constants that satisfies the named
assumptions of the modules (`CallAssumption`, `ContentAssumption`,
`OptionAssumption`, `SessionAssumption`, `ConfigAssumption`, `HostAssumption`,
`EvidenceAssumption`, `HardeningAssumption`, `BudgetAssumption`, `LaunchAssumption`, `EnvAssumption`),
thus for every number of calls, messages, crashes, compactions, observers, executions, instances,
carriers, tasks, requests, distros, profiles, launches and rows of `WSLENV`.

| Theorem | States |
|---|---|
| `GovernorProofs!TypeCorrect` | `TypeOK` and `LogIsPaired` always |
| `GovernorProofs!Budget` | `BudgetIsBounded` always |
| `GovernorProofs!LadderReach` | `LadderIsBounded` always |
| `GovernorProofs!EvidenceHolds` | `EvidenceInv` always, if nobody replaces results |
| `GovernorProofs!StopsAreVerified` | `ReleaseIsVerified`, likewise |
| `GovernorProofs!Refinement` | `KeepsPromise`: the adapter implements `CompletionPromise`, likewise |
| `GovernorProofs!LiveIsReplay` | `LiveEqualsReplay` always, likewise |
| `EngineSessionProofs!SessionType` | `TypeOK` always |
| `EngineSessionProofs!FactsAreAlwaysHistory` | `FactsAreHistory` always |
| `EngineSessionProofs!RingIsAlwaysWindow` | `RingIsWindow` always |
| `EngineSessionProofs!RoundVerdictIsAlwaysExact` | `RoundVerdictIsExact` always |
| `EngineSessionProofs!ChainIsIdleRounds` | `ChainCountsIdleRounds` always |
| `EngineSessionProofs!ReminderIsAlwaysEarned` | `ReminderIsEarned` always |
| `NativeEvidenceProofs!EvidenceType` | `TypeOK` always |
| `NativeEvidenceProofs!LedgerIsAlwaysWindow` | `LedgerIsWindow` always |
| `NativeEvidenceProofs!RecordedExactlyOnce` | `RecordedOnce` always |
| `NativeEvidenceProofs!PendingIsAlwaysInFlight` | `PendingIsInFlight` always |
| `NativeEvidenceProofs!CorrelationIsAlwaysCausal` | `CorrelationIsCausal` always |
| `NativeEvidenceProofs!NobodyIsEverClobbered` | `NobodyIsClobbered`: no mount or disposal takes a live foreign wrapper off the path of a call |
| `HardeningProofs!SpecTypeOK` | `TypeOK` always |
| `HardeningProofs!SpecFailsClosed` | `FailsClosed` always: it excepts a network layer without a seam |
| `HardeningProofs!SpecRefusesOnlyTheImpossible` | `RefusesOnlyTheImpossible` always |
| `HardeningProofs!SpecEveryCallIsAudited` | `EveryCallIsAudited`, of every step, with the same exception |
| `HardeningProofs!SpecNobodyIsClobbered` | `NobodyIsClobbered`, of every step |
| `WslLaunchProofs!InstallsKeepOrder` | `OrderIsNeverLost`, of every step, from profiles that have their base layer and that no call gives to the other kind |
| `WslLaunchProofs!InstallsAreComplete` | `InstallIsComplete` always, from profiles with each layer once, if the launches select one DSH |
| `WslLaunchProofs!LauncherType` | `TypeOK` always, from profiles that have their base layer |
| `WslLaunchProofs!WorldIsKept` | `ChosenWorldIsKept` always |
| `WslLaunchProofs!RunsFailClosed` | `RunsOnlyComplete` always, from profiles as in `InstallsAreComplete`, if the launches select one DSH |
| `WslLaunchProofs!TasksAreOpaque` | `TaskIsOpaque` always |
| `WslLaunchProofs!EnvironmentsAreOwned` | `EnvironmentIsOwned` always |
| `SupervisorProofs!SupervisorType` | `TypeOK` always |
| `SupervisorProofs!StopsHaveABudget` | `OnlyBudgetsStop` always |
| `SupervisorProofs!IncompleteIsStopped` | `StopsAreIncomplete` always |
| `SupervisorProofs!NothingRunsOn` | `RecordedHasEnded` always |
| `SupervisorProofs!NoResultIsRetried` | `ResultsAreFinal` always |

- `EngineProofs` proves that each method keeps an engine in its type and what it
  does to generation, receipts and chain. `GovernorProofs` begins with what one more
  entry does to what the log says of the work; nothing changes but at its end.
- `TypeCorrect` carries `LogIsPaired`, since the type of a replayed event depends
  on what it is paired with.
- `LadderReach` rests on `ChainInv`. That the chain never exceeds what was paid
  for is not inductive by itself: a message that waits has paid for a round that
  has not begun. `ChainInv` says, for each phase and for what waits, how much of
  the payment is used.
- `StopsAreVerified` and `Refinement` rest on `EvidenceInv`: whatever the log says
  is unverified or failing, the engine knows. It needs three parts to be
  inductive: no receipt is of a future generation (else a mutation would not make
  it stale), pairs in the log are unique (else one result would count for two
  calls), and an agent without an engine has nothing to know. During a replay it
  speaks of the part of the log replayed so far, and in the phase "observed" of
  the log and the result under way.
- `Refinement` then has a step for each action: a replay stutters, a steer spends
  a unit, a release is the promise's `Rest`, whose guard `InformedStop` supplies.

- `EngineSessionProofs` carries one invariant for all six theorems. An appended
  event changes nothing that is said of earlier ones (`Stable`), so each part
  has to be shown for the last event only. Verdicts compare the ring with the
  history, hence `RingInv` links what the ring holds to the events since the last
  mutation; reminders need that the streak counter is the length of an unbroken
  run of identical calls in the open round (`StreakInv`), and that an armed
  reminder stands on such a run (`ArmedInv`, `EarnedInv`).
- `NativeEvidenceProofs` rests on the fact that at most one observer is active,
  whatever is left in the slots: that is why an execution whose call goes through
  several wrappers is written once. A write moves the window by one, and the pending
  count is the size of the set of observed executions in flight.
- `SupervisorProofs` needs `Coherent`: what each phase knows of the attempts'
  children (one fact per phase), and that a first attempt before a second was lost.

- `LiveIsReplay` compares an engine that lived through the calls with one that read
  the log. `ReplayInv` says, for each phase, that the engine is `Rebuild` of the
  part of the log it knows. The step is `RebuildAppend`: one more event rebuilds as
  `applyEvent` of the rebuilt engine, and `CallsWait`: a call entry whose result has not come
  is still pending when it comes, which needs that pairs in the log are unique.
- `HardeningProofs` follows a call up the chain. `ResultIsClosed` says of every layer
  that what it answers is refused or carries the requirements of every active layer from
  there down, but for what may be lost without a seam (`Due`, and `PlacedKeeps` of a single layer); `LoneResult` says when the answer of a single active layer is a refusal.
  `HInv` adds to the type that the chain ends, that an active layer is on it, and that a
  layer which is not mounted and not left behind is below nobody.
- `Induction` has what the proofs need of chains and of positions. A chain is a slot for
  any layers; that it ends is said of sets: of any set of layers one calls on to something
  outside. A mount of a layer that nobody calls (`Loose`) and a disposal keep it, and
  recursion and induction along the chain follow from it (`ChainRecursion`, `ChainInduction`).
- The library's theorems of induction take a predicate as a parameter and cannot
  be used by the installed provers. The same facts stated of a *set* can: `EveryNumber`,
  `EveryPosition`, `LeastNumber` and `PositionRecursion` (a recursive function over positions
  satisfies its equation) are proved from the well-foundedness of the inclusion of
  finite sets.
- `InstallsKeepOrder` and `InstallsAreComplete` are about installations. A script that has
  come to a step has laid the layers of the steps before it (`At`), and nobody takes a layer
  away; so the layer a transaction adds is the next one, and a failure leaves at most that one
  saved without being a layer. The check's cursor is a recursion over the required layers; over
  layers that are there once it finds each where it is (`CheckedIsPlaced`). What it has found whole
  stays whole under transactions for the same DSH (`WholeKept`), by the launch's own script for the
  other profile or by an orphan's. The hypotheses are of the world and of what is launched:
  `GroundedDisks` (an existing profile has its base layer), `UniqueLayers` (DSH lists a layer once),
  `OneSelector` (the launches that share a disk select one DSH) and `SeparateProfiles` (nobody
  gives a default profile, by `--wsl-profile`, to the other kind). The instance `MCWslLaunch`
  satisfies all four. Without `OneSelector` an orphan for another DSH
  could change a profile between its check and the report.
- `WorldIsKept` and `RunsFailClosed` follow a run's arguments through `RunArgs`. What the first parse
  passes on has none of the launcher's flags before the sentinel (`Clean`), and the rewriting of `web` and
  of plugin specs keeps it so: hence the bridge's parse of what was composed takes the canonical
  flags, and nothing that was typed (`Reparsed`). Translation leaves every argument alone but paths,
  which it spells as the launch's distro does (`Like`, `RunPaths`). `WorldInv` then says for every
  step where children may have been started. DSH's leading flags end where the gate's scan for a root
  profile ends (`BootsGiven`), also after translation (`RootLike`), and the default profile is
  injected under the same condition in both: so what DSH boots, if it is one of the launcher's,
  is what the gate asked for (`BootsRequired`). `GateInv` says that what the gate found is whole while the
  run lasts (`DoneKept` again) and that what runs is what `RunArgs` gave. Three scans of arguments, each
  a recursive function over positions, are compared by `EveryPosition`: two scans of lists that agree
  up to the spelling of paths are equal at every position. `WorldIsKept` has no hypothesis but
  `LaunchAssumption`; it says of a name, a word, that it is no path and of what a user types that it
  is not yet a translated path.
- `TasksAreOpaque`: while the bridge parses, what begins the task is passed on and so is everything
  after it (`TaskParsed`); it owes no flag a value there, and past the sentinel no flag is the
  launcher's. Rewriting, composition and the second parse put arguments before the task and none after
  (`Fits`), and the translation's search for path arguments is over where a task begins
  (`SearchIsOver`). What a task is had to be said precisely for this: a word is none if the flag before
  it takes it as a value, and none if dropping the launcher's flags between puts it behind
  `--patch` or `--profile`.
- `EnvironmentsAreOwned`: what a loop makes of the rows of `WSLENV` is lists put together, one per
  row it passes and one per row it adds (`Joined`, a recursive function over the lists). What bears some
  names in the whole is what bears them in each list, put together (`RowsOfJoined`, by
  `EveryPosition`); so of a name each loop leaves all rows (`LoopKeeps`), one, which it met
  (`LoopMeets`) or added (`LoopAdds`), or none (`LoopDrops`). `Augmented` and `ForwardedRows` say it
  of the two loops, for any rows, and the theorem puts the second behind the first.
  `EnvAssumption` says that no host setting is a home, path or bridge variable and that the
  variables forwarded by default are none of the bridge's, as the lists in the code have it.

Only model-checked: liveness (`ComesToRest`, `EndedIsReleased`, `BenchmarkEnds`,
`ReinstallRepairs`), which the prover cannot do under fairness. The properties of the findings are violated; the theorems state what
holds beside them.

## Not modelled

The regular expressions and normalisations that classify commands, claims and
exit markers; rendered texts; the model router and tool profiles of
`agent/created`; the context message with the verification state; the
evidence queries, which read only; validation of configurations. Tools that
run in parallel: the model has one tool at a time, because how the host
dispatches is not in this repository. Mutations made inside shell commands are
invisible to the governor by design. The supervisor's environment pins, the filters
of its plan (supervisor 516-518) and the text of its report; the judge's verdict and
patterns, which decide nothing of the control.

Of the launcher: the text of paths; the relays of single signals (a child's code or an
orphan, their outcome, is modelled); the pnpm selector; manifests and profile
names that are not well formed; the reasons a check or a doctor prints. Doctors,
analysis, bundles and scripts are not modelled: they have no state, or no behaviour
of the running system.

## Plan

Done, in this order: engine, adapter, promise and proofs; evidence observer;
hardening; supervisor; launcher and installation; proofs for the engine under every
order of its methods, for the evidence observer, for the supervisor, for live = replay,
for the hardening, for installations, for the launcher's runs, and for the rows of `WSLENV`.

What is left: parallel tools as an alternative host of the governor, once the host's contract can be settled from its use.
