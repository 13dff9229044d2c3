# A verification of WorkloadGuard

WorkloadGuard watches the processes of a macOS workstation and acts on
workloads that run away: a policy names a process and a count, and when that
many are running (under optional load and parent conditions) its actions are
executed: log, notify, diagnose, sample, or terminate with SIGTERM, a grace
period and SIGKILL. This directory holds TLA+ modules that model the program,
TLC configurations that check them on small instances, and proofs checked by
TLAPS. Source paths below are relative to the repository.

## The system

| Component | Source | State | Operations |
|---|---|---|---|
| Daemon | `internal/daemon/daemon.go` | last trigger per policy, latest snapshot and decisions, the running check | `Run` (a select over shutdown, periodic tick, load tick), `runCheck`, `checkLoadTrigger`, `Terminate` |
| Executor | `internal/policy/executor.go` | only its position in a list of actions and pids | `Execute`, `executeTerminate`, `Term`, `Kill` |
| Policy engine | `internal/policy/engine.go`, `convert.go` | policies and the Cedar policy set, fixed | `Evaluate` |
| Collector | `internal/collector/collector.go` | none | `Collect`, the indices of a snapshot |
| API server | `internal/api/` | WebSocket clients, alerts | status, policies, processes, `handleTerminate`, broadcasts |
| Application | `internal/app/app.go`, `internal/cli/`, `configs/*.plist` | the goroutines it started | `Run` with its HTTP server and broadcaster, shutdown; the one-shot `Check`; restart by launchd |
| Configuration | `internal/config/config.go` | none | `Default`, `Load`, `Validate` |
| Diagnostics | `internal/diagnostics/diagnostics.go` | files of a capture | `Capture`, the process tree of the targets |
| Metrics, logging | `internal/metrics`, `internal/logging` | counters, log files | side effects that nothing reads back |
| Platform | `internal/platform` | none | system calls |

How they interact. One goroutine runs the daemon: every check collects a
snapshot, evaluates all policies against it, publishes both under
`latestMu`, and then executes the triggered decisions one after the other, in
the same goroutine. The HTTP server's goroutines read the published snapshot
and decisions under separate read locks, and `handleTerminate` signals
processes without the lock that excludes concurrent checks. A third goroutine
broadcasts the status to WebSocket clients every two seconds. All of them act
on a process table that the operating system changes under them, and on a
context that a signal may cancel at any moment. launchd starts the program
again whenever it has ended; nothing it knew is kept.

What is hard, and what it must not break:

* The snapshot is stale as soon as it is taken. Grace periods (seconds) and
  several policies per check make it older still, and a process may meanwhile
  exec another program or lose its parent. A signal must hit only the processes
  that the check listed and the policy described then, never somebody who was
  given the pid since, and SIGKILL only those that were warned.
* Failures are partial: one signal fails, one action fails, one system query
  fails. The others must go on, and the cooldown must mean what it says.
* Shutdown may come at any point of a check and must end it, the daemon, and
  the program, with requests under way that may never finish.
* A crash leaves processes that were warned and not killed, and forgets the
  cooldowns. The next daemon starts among them.
* Ticks are dropped while a check runs; a runaway must be handled all the same.
* API requests interleave with checks; a reply must be true, and the parts of a
  status must fit together.
* Configuration files have keys missing, misspelt or out of range, and process
  lists are put together one process at a time, so that parents may form cycles.

`PROJECT.json` lists these hazards at their lines, with the properties that
cover each, and the map from definitions to source lines.

## The modules

| Module | Models | Extends |
|---|---|---|
| `Engine` | parent names, thresholds, Cedar, evaluation | |
| `Config` | defaults, loading, validation | |
| `Diagnostics` | the process tree of a capture | |
| `EngineLaws` | inputs of an evaluation, from file to decision | `Engine`, `Config`, `Diagnostics` |
| `Enforcement` | what the program promises (abstract) | |
| `Lifetime` | what it promises across stops and restarts (abstract) | `Enforcement` |
| `Daemon` | the daemon's goroutine and the executor | `Engine`; implements `Enforcement` |
| `TerminateApi` | terminate requests beside the daemon | `Daemon` |
| `StatusApi` | reading requests beside both | `TerminateApi` |
| `App` | start, shutdown, crash, restart, one-shot check | `TerminateApi`; implements `Lifetime` |
| `Rounds` | what clients can rely on (abstract) | |
| `WebSocket` | connections, heartbeat, broadcasts | implements `Rounds` |

`Engine` has no variables. It gives the collector's resolution of parent names,
the thresholds, the generated Cedar permits and the requests made to them, and
the set of decision lists that one call of `Evaluate` may return (a set,
because the sort is unstable and starts from map order). cedar-go itself is
external: with permits only, a request is allowed iff one permit is satisfied.
Loads are integers in thousandths, so that the truncation to hundredths on both
sides of the Cedar comparison is part of the model.

`Config` has no variables either: `Load` turns what a file says into the
configurations that may result (none if it fails; the default if there is no
file), key by key over the defaults, and `Validate` is the check of the
`validate` command, which `run` and `check` do not make. `Diagnostics` gives the
parent chain and the parent summary that a capture writes for the targets.

`EngineLaws` walks over inputs: the raw list of processes, the loads and the
configuration file change one at a time, and every decision, chain and summary
they lead to must satisfy the laws stated there.

`Enforcement` is the abstract specification: policies act one at a time and no
policy twice within its cooldown; they touch only processes they were written
for when the program last looked; a process is killed only after a warning and a
grace period. It has no snapshot, no list of decisions and no loop. `looked` is
what each process was when the program last looked at it (`Look`), which it does
not do while it acts; a process may turn into something else at any moment
(`Alter`) and stays the same process, and once it is gone nothing is known of its
pid (`Becomes`). `KillsAreDue` says what this comes to: whoever is being killed has
been warned, has had the whole grace period, and is the very process that the
program saw and the acting policy was written for then. That it still is such a
process is not promised: the executor never looks again. `Daemon` implements it
(`Promise`, property `Enforced`): `acting` is the policy of the decision being
executed, `doomed` whom the SIGKILL loop has still to reach, `looked` is
`listedAs`, and the other variables are the daemon's history variables.

`Lifetime` adds to it that the program may stop at any moment (`Stop`) and then
knows nothing any more: not whom it has warned, nor whom it was about to kill,
nor which policies are within their cooldown, nor what it saw. While it is not
`running`, processes come, change and go and nobody is touched (`DownIsIdle`); when
it runs again (`Restart`) it must look before it acts and warn before it kills. `App` implements it (`Life`, property `KeptForLife`): `running` is
`stage = "up"`, so the program counts as stopped from the moment it begins to
shut down, and what it still remembers then (`Known`) is no longer part of the
promise. A SIGKILL that a client asks for is, as in `Enforcement`, a process that
exits.

`Daemon` extends `Engine` with the goroutine of `Run`, statement by statement
where something can happen in between: `pc` is its place, `next` and `step` the
loop indices, `todo` the pids that the current signal loop has not reached. The
environment acts at any moment: processes start (`Spawn`), exit, and exec or are
reparented (`Alter`), the load moves, the clock ticks, the tickers fire, the user
cancels. Clocks are relative
and saturate (`sinceTrigger`, `graceLeft`, ...): a counter runs up to the only
bound the code compares it with, so no horizon cuts behaviours off. History
variables record what the properties speak of: `seen` (the process at this pid
was there when the snapshot was taken), `listedAs` (what it was then), `termed`
and `termAge` (it got SIGTERM, and when), `sinceNotify`.

`TerminateApi` extends `Daemon` with the handlers of `POST /api/terminate`, one
per client, which validate against `latestSnapshot` and then signal pid by pid
between the steps of the daemon. `published` (whose process is still the one
that the published snapshot listed) and `asked` (who got SIGTERM from a request)
are history variables.

`StatusApi` adds the handlers that only read: status, policies, one policy,
processes. Each fetches snapshot and decisions in steps of its own and then asks
for one cooldown at a time (`ShowPolicy`), and checks may publish in between.
The status broadcast and the first message of a WebSocket do the same.

`App` is the life of the program. `program` is the command, `stage` where it is
between start and end. `StartServing` is the listener's goroutine. When the
daemon has stopped, `BeginDrain` closes the listener and `EndDrain` ends the
program when all requests are answered or `DrainLimit`, the five seconds of
`Shutdown`, is over. `Crash` ends it anywhere. `Down` drops all that the program
knew; processes keep what happened to them, warnings included. `Relaunch` is
launchd's `KeepAlive`, possibly with another `dry_run`. The one-shot check is
the same collector, engine and executor without dry run and cooldown, and with a
timeout; it runs on its own, since a check beside the daemon is to the daemon
one more reason for processes to exit.

`WebSocket` stands alone: it shares no state with the daemon but the status it
sends. It models the registry of connections behind its `RWMutex` (once a
handler has called `Lock`, no new reader gets in), the handler of each
connection (`at` is its place: register, first status, the select of the ping
loop, ping, unregister, close), its reading goroutine, and the broadcasters: the
ticker's goroutine and the handlers of terminate requests. Of gorilla/websocket
it takes what the code relies on: a failed write makes all later ones fail, a
write deadline holds for all writes that begin after it was set, writes queue at
the connection's mutex (a channel, hence in order of arrival), and two at once are
answered by a panic when the unsynchronised flag shows them. A panic
unwinds a handler, which net/http recovers, and ends the process in the ticker's
goroutine. A connection is used again once it is closed.

`Rounds` is what that promises, without locks, writes and timers: connections open,
join, leave and close, in this order; nobody joins or leaves in the middle of a
round; a round reaches each client that was a member when it began, once, unless a
panic breaks it off. `WebSocket` implements it (`Round`, property
`BroadcastsAreRounds`), where a connection is a member between `registerClient` and
the deletion in `unregisterClient`.

`MCEngine`, `MCDaemon`, `MCApi`, `MCApp` and `MCWebSocket` define the small
instances. The modules named `...Proofs` hold the theorems.

Definitions marked "Mutant of" are deliberate errors, one for each property of a
run, by which the property is shown to be able to fail there.

What was abstracted, and why it is sound for the properties:

* Pids are a set: the loops over them may take any order, a superset of the
  order of the snapshot.
* The probe with signal 0 and the SIGKILL after it are one step. A process that
  exits in between makes the second call fail as the first would have; a pid
  reused in between is the same hazard as one reused just before.
* A living process may become anything else that the same user may run
  (`Alter`): another name by exec, another parent when its own has exited. The
  new parent is not tied to the exit of the old one, so the model allows more than
  the machine does. That it comes to belong to another user (exec of a setuid
  program) is left out.
* The listing of processes is one step in `Daemon`: who exits during it counts
  as exiting before or after, and a parent that exits between the listing of its
  child and its own counts as a failing query (`CollectorFails`). `EngineLaws`, whose laws need no more than a list,
  takes any list with distinct pids, consistent or not.
* Metrics, log lines and the files of a capture change no state that the program
  reads.
* `TryLock` in `runCheck` never fails, since `Run` is the only caller and waits
  for it; the model has no such branch.
* In `WebSocket` code takes no time: the clocks move only when every goroutine
  waits for the lock, a stalled peer, a timer or a pong. The statements about
  time need the program to be faster than its timers, not more.
* The results of a terminate request are sets: of a pid that a request names twice
  the code reports the result twice, the model once.
* Killed processes leave the table at once; a SIGTERM may be ignored for ever.
* `StatusApi` drops a snapshot that a later check has replaced: `StatusIsCoherent`
  compares nothing with it, only says that the decisions are no older. The
  cooldowns of a reply are in the model and in no property: each is true when it
  is asked for, and nothing says that they belong to the check of the decisions.

## What the runs check

| Run | Bounds | Question |
|---|---|---|
| `engine` | lists of up to 3 processes with 2 names and parents that may form cycles, 4 load pairs around 2.50, files that are valid (2 policies), odd, broken or absent | from a file to decisions: what triggers, on whom, in which order; what `validate` is worth; chains and summaries |
| `signals` | 2 pids whose parent may become one that a policy excludes, and no longer be it, 2 policies of equal priority, steady load, cooldown 3, grace period 2, the notifier may fail, dry run on and off | who gets which signal when; spacing of triggers and notifications; a check only comes nearer to its end (`ChecksGoForward`); `Enforced` |
| `live` | 1 pid, processes that exec the other program, also of another user, 2 policies, moving load | progress, under fairness |
| `api` | 2 pids, also of another user, 1 policy with count 0 and an unknown action, failing queries, dry run on and off, 1 client with requests for listed, unknown and repeated pids and with every reading request | requests interleaved with checks: replies, status, and the signal guarantees |
| `app` | 1 pid, processes as in `live`, 1 client, 1 policy whose `diagnose` may fail, `run`, `check` and `check --execute`, drain limit 1, 2 stops or crashes | start to end and start again; `KeptForLife`; progress under fairness |
| `ws` | 2 connections, ticker and 1 request, peers that stall or go, timers 1, 2, 1 | the registry under broadcasts (`BroadcastsAreRounds`), what may hold it up, the heartbeat |
| `ws_live` | 2 connections, ticker, peers that fall silent or go | clients leave and broadcasts end, under fairness |
| `storm`, `reuse`, `ws_stall`, `ws_deadline`, `ws_crash` | minimal | documented statements that the code does not keep |

Two pids are enough for what the loops can get wrong: one target ahead of and
one behind the loop's position, one that is gone or foreign and one that is
not. Two policies give an earlier decision during which the later one's targets
change. Bounds of two clock units separate "just now", "in between" and "over"; the
cooldown of `signals` is longer than the grace period, as it is by default: a
shorter one would be over whenever a check that terminates is. One client is
enough beside the daemon: clients share nothing but the process table, which
already changes at every step, and what is proved is proved for any number.
Three processes make every shape of parent: a chain, a cycle of two, a process
that is its own parent, a parent that is missing, and root. In `app` two ends
reach a second relaunch, and an end during the drain or in the middle of a grace
period that an earlier end has left warnings to.
`ReuseTargets = FALSE` assumes that the operating system does not give the pid
of a process that the running check still has to act on to a new process; pids
are reused at every other moment. It is the assumption under which the signal
guarantees hold, and `reuse` shows that they need it.

Fairness (`Fairness` in `Daemon`): the goroutine is scheduled (weak fairness of
a check's steps), time passes, the tickers fire. Go's select picks among the
ready cases at random, so a case that is ready again and again is picked:
strong fairness for `Stop` and `PeriodicCheck`. Nothing is assumed of processes,
load, user or clients. `AppSpec` adds that the deferred shutdown runs and ends
(`BeginDrain`, `EndDrain`) and that launchd starts the daemon again; it assumes
nothing of handlers, one of which may be stuck for ever behind a client that
takes no data, and nothing of crashes.
`Fairness` in `WebSocket` is of the same kind; strong fairness stands for what
Go's mutexes promise to those who wait, namely that a waiting `Lock` is served
in turn and that waiting readers get in when a writer leaves.

Two connections are enough for the registry: one that a broadcast has passed or
is stuck at, one still ahead of it, each of which may be the one that leaves. A
write deadline of one unit is passed or not; the ping period is shorter than the
wait for a pong, as 54 seconds are than 60. What is true of the registry for
more connections, requests and other timers is proved.

Deadlock is checked in every run: the clock and the environment can always
move, also after the daemon has stopped.

### Where the code and its documentation disagree

* `storm`: `config.go:62` calls the cooldown "the minimum interval between
  notifications for the same policy". The cooldown starts only when every
  action succeeded, so a policy that notifies and then fails notifies at every
  check.
* `reuse`: "Send SIGKILL only to surviving processes" (`README.md:417`). The
  loop kills whoever has the pid after the grace period.
* `ws_stall`: "Client will be removed on next read error" (`server.go:119`). A
  peer that takes no data blocks `broadcast` under the read lock, for ever if the
  write began before the first ping set a deadline. That ping (54 seconds) comes
  before the read timeout (60 seconds): when the read fails, the handler has
  already panicked in its ping, whose write met the stuck one, and waits in the
  deferred `unregisterClient` for the lock, or its ping is queued behind the stuck
  write and it never gets to `unregisterClient`. Only closing the connection could
  end the write, so none of the three moves again, nor does any later broadcast,
  registration or reply to a terminate request.
* `ws_deadline`: "The connection is kept alive with a ping/pong heartbeat"
  (`docs/guides/api.md:79`). The write deadline of a ping is never lifted. Ten
  seconds after the first one every broadcast fails, and the second ping, which
  fails as well, ends the connection.
* `ws_crash`: "UI failures must not affect daemon operation"
  (`docs/specs/ui/PRD.md:105`). A connection is in the registry before its
  handler writes the first status: a broadcast at that moment makes two writes
  at once, and the panic in the ticker's goroutine ends the daemon.

More were met that are plain from the code and have no run:

* A process that has run another program or lost its parent since the snapshot, so
  that its policy no longer describes it, is sent SIGTERM and SIGKILL all the same
  (`executor.go:138-189`): the name and parent that the policy is compared
  with are those of the listing. What is checked and proved of targets is said of the
  moment at which they were listed.
* "a request containing an unknown PID is rejected with `400`"
  (`docs/guides/api.md:64`): `handleTerminate` drops unknown pids and signals
  the others.
* "the same `SIGTERM`-then-`SIGKILL` flow is available on demand"
  (`docs/guides/architecture.md:66`): a request sends one signal.
* "DryRun logs actions without executing them" (`config.go:56`): `check
  --execute` does not look at it.
* The `count` of a policy that did not trigger is 0 in a status, however many
  processes run: the engine names targets only when it triggers.
* `GET /api/policies` lists the policies of the last evaluation: none before the
  first check, and never a disabled one.
* `daemon.Run` returns the error of its context, so `run` ends with exit status
  1 after a normal shutdown.
* `run` and `check` do not validate: a `periodic_interval` of zero makes
  `NewTicker` panic, right after the startup check has acted.

## What is proved

All theorems hold for every set of pids, kinds, policies, clients, connections
and every bound, under the assumptions named in the modules
(`DaemonAssumption`, `TerminateApiAssumption`, `StatusApiAssumption`,
`AppAssumption`, `EngineLawsAssumption`, `WebSocketAssumption`), which TLC
evaluates in the runs.

`DaemonProofs`:

* `TypeCorrect`: `Spec => []TypeOK`. The inductive invariant is `TypeInv`, which
  adds to `TypeOK` that the loop index is in range whenever a decision is being
  executed; without it `Current` could not be shown to be a decision.
  `EvaluationsTargetSnapshot` types what the engine returns.
* `OnlySurvivorsAreKilled`: `~ReuseTargets => (Spec => []KillOnlySurvivors)`.
  `KillOnlySurvivors` speaks of the SIGKILL loop alone. `SurvivorInv`
  strengthens it along the way a target takes: what is listed was seen
  (`ListedAreSeen`), what a decision names was listed (`TargetsAreSeen`), the
  loops stay within the decision (`TodoAreTargets`), whoever the SIGTERM loop
  has passed is warned (`PassedAreTermed`), and no warning is younger than the
  part of the grace period that has run (`GraceIsServed`). `SnapshotDropped` is
  needed for processes that start: outside the evaluation no snapshot is left
  that could name them.
* `ChecksComeForward`: `Spec => ChecksGoForward`. `Ahead` is what a check has still
  to do: phases, then turns of the decision loop, then stages of the actions of one
  execution, then pids of one signal loop. Every step of the check makes it less in
  the order of the first difference (`Below`), whatever fails or survives, and
  nothing that happens beside the check changes it. It needs `StepInRange`: an
  execution does not go past its last action.
* `ChecksAreFinite`: `Ahead` is a quadruple of natural numbers in every state, and no
  infinite sequence of such quadruples goes down by `Below`; so a check takes finitely
  many steps. That it takes them is what fairness is for: the two together are the
  argument for `RunawaysAreHandled` and `ShutdownCompletes`. The
  descent is refuted by least elements (`SomeRankIsLeast`): the values of the
  sequence have a smallest first component, among those with it a smallest second
  one, and so on.

`PromiseProofs` is about the abstract specifications alone. That a kill is due is
written into no action of `Enforcement`: `Doom` chooses among those whose time is up,
but warnings, clocks, other processes at the same pid and the end of the execution
come in between. `KillsAreAlwaysDue` proves it from `Spec`, `KillsAreDueForLife` from
`LifeSpec`, with `DownIsIdle`. Its invariant is `Promised` (`TypeOK` and
`KillsAreDue`), and it needs that nobody is warned while a round of kills is under
way. What implements the specifications has the same by instantiation:
`DaemonKillsWhenDue` in `EnforcementProofs`, `KillsAreDueThroughRestarts` in
`AppProofs`.

`EnforcementProofs` goes on from there:

* `DaemonKeepsPromise`: `~ReuseTargets => (Spec => Enforced)`, step by step
  under the mapping of `Promise`. It rests on `SurvivorInv`, `DescriptionInv`
  and `ActingIsCooled`: a policy that is being executed was off cooldown when
  it began and has recorded nothing since.
* `DescriptionsHold`: a target that is still there was as its policy describes it
  when it was listed, because names and parents in a snapshot are those of the
  processes it listed and `Evaluate` selects by them. It is said of `listedAs` and
  not of `table`, which moves on. `SignalsReachTargets` follows, with
  `SurvivorInv`: without it the process at the pid might be another one.
* `DaemonKillsWhenDue`: `~ReuseTargets => (Spec => []Promise!KillsAreDue)`, by
  `DaemonKeepsPromise` and `KillsAreAlwaysDue`. Where `KillOnlySurvivors` speaks of
  warnings and ages, it adds that whoever is still to be hit is a process that the
  check saw and the policy described then, and that it is this policy, and no
  other, that kills him.
* `NoSurvivorIsSpared`, `CooldownsRunOut`, `DryRunsAreInert`.
* `TriggersFollowNotifications` and `NotificationsAreSpaced`:
  `ReliableNotifiers => ...`, that is, provided no policy that notifies has an
  action that can fail; `storm` shows what happens without that. `CleanStart` is
  what makes `CooldownInv` inductive.

`EngineProofs`: the laws of `EngineLaws`, of every list, load and file, by
`Picked` (the current input is one of the inputs). `EvaluationIsOrdered` includes
that an evaluation has a result at all (`SomeOrderExists`: finitely many policies
can be sorted), without which the other laws could be true of nothing.
`ChainsLeadToEveryTarget` applies `ParentChainLeads`; it needs that no listed pid
is 0, at which the program ends a chain and which its listing leaves out. `CedarNeverVetoes` is the
arithmetic of cutting both sides to hundredths; `TargetsRunAway` and
`SummariesAgree` tie counts and parents to the raw list through the injection
from processes to pids; `ValidatedPoliciesAct` needs that a positive count
leaves no decision without targets.

`ChainsUp` gives for the pids seen so far what the chain looks like from the next
one up, and calls itself with one pid more. That such a function exists at all, and
what it returns, are inductions over finite sets, for which the library's theorems
take the hypothesis as an operator, out of the provers' reach. They are proved by extreme elements of collections of sets instead
(`SomeSetIsMinimal`, `SomeSetIsMaximal`). `ChainsExist` takes a largest upward
closed collection of sets of seen pids for which the recursive equation has a
solution; were it not all of them, a largest set outside it could be added. In
the same way there is no largest set at which a chain does not lead to its target
(`ChainsLead`), which gives `ParentChainLeads`: a chain ends at the target, goes
from parent to child, and repeats nobody.

`TerminateProofs`: `RequestsAreExits` shows that terminate requests beside the
daemon are steps of `Daemon`: `SysSpec => Spec`, because all that a handler
changes there is that a process exits. Every theorem about the daemon then holds
beside requests, and three are stated again (`KillsStandRequests`,
`SurvivorsFallBesideRequests`, `PromiseStandsRequests`). `SysInv` types the handlers and gives
`HandlersTyped`, `RepliesTellTheTruth` and `DryRunsTouchNobody`.

`StatusProofs`: `ReadersLookOn` shows `WebSpec => SysSpec`, so what holds
beside terminate requests holds beside readers, too (`RepliesStandReaders`).
`StatusFitsTogether` is by `WebInv`, which says of every reader what it has
fetched: decisions that are no older than the snapshot, whose targets are in it
if they are of its check.

`AppProofs`: `PhasesFit`, `ChecksTouchNobody`, and `KillsStandRestarts`, which
carries `KillOnlySurvivors` over crashes, restarts and the one-shot check.
`AppSteps` sorts the steps of the program into those of the daemon, to which the
lemmas above apply, those of the check's own loop, the end (after which no
target is left), and the relaunch. `ProgramKeepsPromise` is the refinement of
`Lifetime`: `~ReuseTargets => (AppSpec => KeptForLife)`. Its invariant, `LifeInv`,
is that of `DaemonKeepsPromise` with `OneShotsAreCold`: a one-shot check records no
trigger, so that it may act without looking at cooldowns and still no policy acts
twice within one. While the program is up a step is one of `Enforcement`
(`UpKeepsPromise`); while it is not, the daemon's goroutine has ended and only
processes and the clock move (`IdleKeepsPromise`); when it comes up again it
knows nothing (`DownIsBlank`), which is what makes `Relaunch` a `Restart`.
`KillsAreDueThroughRestarts` says what that comes to for whom the program kills.

`WebSocketProofs` proves, for any number of connections and requests and any
timers, `WebSocketTypeCorrect`, `RegistryStaysOpen`, `BroadcastsServeRounds`,
`HeartbeatKeepsReads` and `RegistryIsHeldByStalledPeers`. The first two are one
inductive invariant, `Inv`: a goroutine writes only where it may
(`WritesInPlace`), because a broadcaster's list is empty outside the read lock
and is a part of the registry inside it; and the registry is where the handlers
say it is, because removal waits for the readers. `BroadcastsServeRounds` is
the refinement of `Rounds`, by that invariant: the members of a handler's
`Life` are the map of clients (`MembersAreClients`), and apart from the steps
of a broadcast and the four by which a handler crosses the registry all are
stutters. `HeartbeatKeepsReads` is about time, which passes only when everybody
waits. `Kept` says that the next ping comes before the read deadline unless a
pong is due; that no time passes while a ping is being written to a peer that
is ready needs `QueueInv`: those in the queue at a connection are exactly those
in a write to it, so somebody has the turn and is not blocked.
`RegistryIsHeldByStalledPeers` follows from the same two invariants: when
everybody waits and a handler waits for the lock, some broadcast is under the
read lock with connections left, so it is in a write, and whoever has the turn
there waits for a peer that takes no data (`OnlyStalledPeersHoldUpWrites`). It
is the safety half of what `ws_stall` refutes as liveness.

Only model-checked: liveness (`RunawaysAreHandled`, `TermedProcessesGo`,
`ShutdownCompletes`, `ReadErrorsRemove`, `BroadcastsReturn`, `ShutdownEnds`,
`RunawaysAreHandledAgain`), which rests on fairness and so on ENABLED, out of the
prover's reach; what of them is safety is proved (`ChecksAreFinite`,
`RegistryIsHeldByStalledPeers`). Every safety property of the passing runs is proved.

## Plan

1. Done: engine, configuration, process tree, daemon, terminate and status
   requests, application, WebSocket; the abstract specifications, their
   refinement and what they amount to; all safety properties of the runs proved.
2. Contents of a status in `WebSocket`, so that `StatusIsCoherent` can be stated
   of what a client receives in the order in which it is broadcast.
3. The one-shot check beside a running daemon as a composition of its own,
   instead of as exits of processes.

## Not modelled

* Metrics: counters and gauges that nothing in the program reads. They count
  terminations only for API requests, and no action of an execution of which one
  failed; both are plain from the code.
* Logging, the commands whose output a capture stores, the paths and names of its
  files, flag parsing, printing, the syntax of TOML and of durations.
* Memory, CPU and load figures in snapshots and replies, reasons of decisions,
  the grouping of processes by name: figures that are passed through.
* Alerts: no caller in the program adds or clears one.
* The system calls themselves, cedar-go, gorilla/websocket and net/http, of
  which the models take what the code relies on.
