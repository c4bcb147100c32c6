# Free Model Router: TLA+ specifications

The gateway offers one OpenAI-compatible endpoint in front of several free
model providers. It discovers their models, keeps the user's selection of
them, tries one route after another until one answers, and records what
happened. These modules describe the parts where steps of several actors meet.
TLC checks them on small instances; TLAPS proves the main theorems for every
value of the constants.

Paths below are relative to the repository (`src/`).

## Inventory

| part | code | state | operations | what is hard |
|---|---|---|---|---|
| chat failover | `internal/gateway/attempt.go`, `failover.go` | the attempt loop of a request, the attempt budget, the answer so far, the usage collector | accept, attempt a route, commit, forward, fail over, finish, record | the deadline's timer against the commit; a client that leaves; streams that break after their first bytes |
| failure policy | `internal/model/failure.go`, `attempt.go` 444-541 | none | classify an error, choose the action, choose the next candidate | sequences of failures with different scopes |
| candidate resolution | `attempt.go` 349-442, `internal/router` | none (reads pool, pin, health, latency) | filter, rank, list fallback-only routes last | the list is fixed while the world moves |
| provider slots | `internal/health/health.go` 40-104 | caps, counters, notification channels | acquire, release, set cap | lost wake-ups, double release, cancellation while waiting |
| route health | `health.go` 106-174 | failures, cooldown, quota per route | failure, success, quota | late results of old attempts |
| probes | `internal/probe/probe.go` | the loop, claims, backoffs | start, stop, sweep | stop and start while a sweep runs |
| scores | `internal/scoring`, `internal/matcher`, `internal/benchmarks`, `internal/latency` | caches, statistics | refresh, match, rank | floating point, no shared protocol |
| provider adapters | `internal/providers/*` | one stream parser each | chat, next, discover | what counts as the end of a stream |
| registry | `internal/providers/registry` | none | fan out a discovery, tolerate failing providers | partial catalogs |
| catalog and pool | `internal/catalog` | snapshot, selection, mode, revision, tombstones | reconcile, select, replace | models that vanish and come back |
| control state | `internal/gateway/control.go`, `gateway.go` 148-210 | pool, pin | mutate under a revision, refresh, restore | lost updates, stale pins |
| management API | `internal/control` | none of its own | mutate, then persist, then answer | three steps that are not one |
| application | `internal/app/app.go` | the configuration in memory | start, persist, stop | order of saves, failing saves, restarts |
| configuration and secrets | `internal/app/config_update.go`, `internal/config` | two files and the OS credential store | update in several steps with clean-up | a step in the middle fails |
| usage log | `internal/usage` | records, the log file, subscribers | append, prune, query, publish | failing rewrites, slow subscribers |
| desktop | `internal/desktop`, `desktop/` | the lease of the profile, the runtime record, the supervised process | acquire, release, start, adopt, restart, stop, quit | who owns the profile and the process |
| security, logging, packaging, commands | `internal/security`, `internal/logging`, `internal/packaging`, `cmd` | none | checks and output | nothing concurrent |

Interaction: a chat request reads the pool, the pin and the health of the
routes once, then runs attempts; each attempt takes a provider slot (shared
with the probes), calls an adapter, and tells health and usage how it ended.
Management requests and the desktop change the pool under the gateway's lock
and the configuration under another. Refreshes and restarts change the pool
too. The hazards this gives rise to are listed in `PROJECT.json`, each at the
line where it bites and with the property that guards it.

What makes each part correct:

- a request is answered once, by one route, or its client has left; it always
  comes to an end; what health and usage record is what happened;
- slots never exceed the cap, their count is exact, nobody sleeps while there
  is room;
- there is one probe loop, a route is probed by one worker and not while it backs
  off, and stopping leaves nothing running;
- a request's candidates are routes it may use, the model it names first, and
  no usable one is missing;
- an adapter's stream says what the upstream said, once and in order;
- a usage record that was acknowledged is in the log until it is too old or
  crowded out; a slow reader costs nobody else anything;
- one desktop owns the profile, can stop every gateway it has started, and
  reports a restart only when the new configuration is in force;
- every credential the configuration names can be read;
- the pin is in the pool; no client's update is lost; only clients take models
  out; what was answered is in the file; a restart gives back what was saved.

## Modules

| module | role |
|---|---|
| `CandidateList` | the list of candidates and its form, shared by the two ends of it |
| `RouteSelection` | how a request gets its candidates |
| `FailurePolicy` | errors, their classification, actions and the choice of the next candidate, as operators |
| `ClientAnswer` | abstract: what a client is promised |
| `ChatFailover` | one request, in full; implements `ClientAnswer` |
| `SlotLimit` | abstract: callers are let in below a limit |
| `ProviderSlots` | the slots with their locks and channels; implements `SlotLimit` |
| `ProbeScheduler` | the probe loop, its workers, claims and backoffs |
| `StreamContract` | abstract: what a provider's stream promises |
| `ProviderStream` | a call of one of four adapters and its stream; implements `StreamContract` |
| `FileReplacement` | replacing a file with and without an atomic rename |
| `UsageLog` | the usage log on `FileReplacement`, with its live events |
| `InstanceLock` | the lease of a desktop profile |
| `DesktopShell` | desktop processes on `InstanceLock`, and the gateways they attach to or start |
| `ControlPlane` | pool, pin, management requests, refreshes, saves, restarts |
| `ConfigUpdate` | providers and the inference key, over the configuration file and the two stores of secrets |
| `MC*` | instances for TLC |
| `*Proofs` | theorems, proved with TLAPS |

### ChatFailover and FailurePolicy

The handler is one goroutine, so `phase` is its program counter. Between two
phases the client may leave (`ClientLeaves`), the deadline may pass, the
timer's callback may win the state word (`TimerExpires`) and, as a step of its
own, cancel the attempt's context (`TimerCancels`): the code does these two in
this order without a lock. Both kinds of attempt share the phases `acquire`,
`call`, `next`, `event`; streaming attempts go on through `commit` and `write`
back to `next`, buffered ones collect until `respond`. An attempt that returns
runs its deferred calls in `EndAttempt`: slot, stream and budget are released,
the collector records the attempt, and the loop answers or goes on. Writing
the body, encoding it and measuring times are left out; an event is told apart
by what the handler branches on: a heartbeat, content, a finish reason, end of
stream, an error, and whether it carries token counts.

`budget` is the state word of `attemptBudget`, and `response` is what the
client has received: a status line, the routes its content came from and
whether it is complete. `called` and `verdict` remember which routes were asked
and what was last reported to the health manager; they are not read by any
guard.

Errors are those the code can tell apart (`Error`). `PossibleErrors` restricts
what a provider returns: a cancellation only if the attempt's context is done.
The adapters that ship never return a request-scoped `BadRequest`; the model
includes it because the policy names it and the interface allows it.
`DisableRoute` is in the policy but `fallbackDecision` never lets it through,
since protocol errors are turned into `NextModel` first; `CooldownProvider`
needs a provider-scoped rate limit, which no shipped adapter reports.

### CandidateList and RouteSelection

`resolveAttemptCandidates` and `ChatFailover` meet in `CandidateList`:
`InCandidateListForm` is what `RouteSelection` ensures (`ListIsSound`) and what
`ChatFailover` assumes of its constant `CandidateLists`. The form is as weak as
the code makes it: a fallback-only route of an explicit model that is in the
pool too is found by two passes and listed twice, which does no harm because
the attempts remember the routes they have tried.

The gateway's lock is held throughout, so catalog, pool and pin stay what they
are from `Resolve` to `Return`; `Reconfigure` changes them between requests. The
health manager has a lock of its own: `RouteFailure` and `RouteRecovers` come
between any two routes that a pass of `router.Filter` looks at (`Examine`).
`pass` is the pass that runs; an explicit or pinned model takes four, other
requests two. `steady` and `seenUp` remember which routes were available all
along, and at some time, since the request began: the properties are about
those, since the list cannot be right about anything else. Ranking is any order
(`RankExplicit`, `RankPool`, `Return` choose one): the scores come from latencies
that change while they are compared, and nothing but the order depends on them.
`capable` stands for the filters on capabilities, protocol and the adapter's
presence, which look at the request only. A pin takes the place of `fmr/auto`,
and not of a request that names no model (`isAutoModel`).

### ProviderStream

Four packages have the same stream reader with small differences, which are
the arguments of the shared steps: what is refused before sending (`Fault`), the
class of an unreadable body, a last line without a newline, and who closes the
body. A line is what the reader branches on (`Line`), a body a sequence of lines
and the way it ends (`Ending`), a result the class and scope of the failure, as
`FailurePolicy` reads them. The caller's context may be cancelled or expire at
any step, and the adapter's own timeout may fire. `StreamContract` says what all
of them promise: one stream, events in the order of the lines, each at most
once, nothing after the end.

### UsageLog and FileReplacement

`FileReplacement` is the procedure that three packages share: write a temporary
file, rename it, and where that fails move the old file aside first. Its steps
are those a crash can come between. `UsageLog` runs it under the store's lock
(`op`): `Append` copies the records, adds one, prunes and rewrites, and restores
the copy when that fails; `Prune` and a start over a log with old records rewrite
too. A start that fails to load or rewrite keeps its usage in memory
(`durable = FALSE`). The broadcaster's channels are bounded `queue`s into which
`Publish` puts an event or drops it: of a request, of each of its attempts
(`Announce`) and of its record. A size is that of a record's line with its newline,
so that `Append` admits up to `MaxBytes + 1` of it, and pruning keeps up to `MaxBytes`. `follows` and `view` are what a client knows
that subscribes, lists the log and then reads its queue, as the desktop's page
does. `acked`, `unsure` and `torn` remember what was promised: a record whose
`Append` returned no error, one whose failed `Append` may have reached the file,
and a store that was given up between the two renames, when only the backup
has the log, which nobody reads.

### InstanceLock and DesktopShell

`InstanceLock` splits `Acquire` and `Release` at every system call. All of them
name the file by its path, so a step acts on whatever lies there by then.
Whether an owner lives is asked of the system, which may be wrong either way
(`ProbeOwner`): a query that fails makes it dead, and its id may be another's by now.
`CanMoveOpenFile` is whether the system renames or removes a file that somebody
holds open. Windows, where the desktop ships, does not, and that is what makes
the lock work: the owner keeps its lease open.

`DesktopShell` has two programs over the same gateways. `kind = "tauri"` is
`main.rs`: one process, whose commands run one at a time under its lifecycle
lock, so `step` is the place of the one under way and `child`, `owner`, `status`
and `error` are the `RuntimeState`. `kind = "library"` is `GatewayConnector` and
`GatewayConnection` of `desktop.go`, used by a caller that holds the lease
meanwhile; no program in the repository calls it yet, so that caller is
external. Gateways load the configuration when they start (`loaded`), compete
for one address (`Bind`), may be started by hand (`OutsideStart`) and may die at
any time. The answer
to an update's request may be lost. Probes are answered by whoever serves, refused by a gateway with
another token, or not answered. Kills may be refused by the system (`KillRefused`,
`AbortRefused`). The usage stream's thread, the window, the tray and the
autostart file are left out.

### ProviderSlots

Each locked section of `AcquireSlot`, `ReleaseSlot` and `SetProviderCap` is one
action; reading the channel under the lock and selecting on it afterwards are
two. A notification closes the current channel, so who waits on which channel
is all that matters: `parked` callers wait on the current one, `woken` callers
on a closed one. `SetProviderCap` has no caller in the production wiring; it is
exported and tested, and the model includes it.

### ProbeScheduler

A sweep is a goroutine (`place`) that hands its targets to workers
(`worker[s][r]`), at most `MaxConcurrentProbes` at a time: it looks at its
context (`CheckContext`), waits for room and launches one (`Launch`), and
waits for all of them (`EndSweep`). `Manual` are the callers of `RunOnce`, which
the gateway exports and nothing forbids beside the loop, or beside another
`RunOnce`; their contexts stay alive. Runs of the loop are numbered by `runID`; `current` stands for
`running`, `cancel` and `done`, which the code sets and clears together.
Deregistering a run (`LeaveLoop`) and closing its channel (`CloseDone`) are two
steps, and a `Start` may come between them. A `Start` while a canceled loop is
still finishing has no effect, in the code as in the model.

What `EligibleTargets` finds is any subset of the routes: the pool and the
cooldowns change at any time. For that reason cooldowns are not kept, and the
calls of `RouteFailure` and `RouteSuccess` leave no trace in the state. A slot
may be had or not, since chat requests hold slots too. Errors, timeouts and
ends without a token are one outcome, `failed`, as they have the same effects.

### ControlPlane

The gateway's lock makes every mutation one action. A management request then
takes a snapshot (`ControlSnapshot`), persists it under the configuration lock
(`PersistControlState`) and answers (`WritePool`); other requests, refreshes
and configuration updates may come between any two of these. Saving can fail
before or after the file is replaced (`SaveFails`). `view` is what a client
last read, including the run of the gateway it read it from. Models are native,
some of them `Free`, or `Generic` (of a configured OpenAI-compatible provider);
Automatic takes the free ones, a generic model is
in the pool by default unless the configuration excludes it, which takes effect
at the next start. `Boot` finds any subset of the models, since a provider may
not answer; a saved pin that cannot be restored keeps the program from
starting, as in the code. `up = FALSE` stands for a stop and for a crash: the
file is replaced by one rename. The values of `Init` are those of a first
start; the first `Boot` loads the default configuration.

### ConfigUpdate

`at` is the place in `updateConfig`: credentials are stored one by one
(`stage`), the file is saved (`save`), the inference key is changed
(`inference`), and then the stale credentials are deleted (`clean`); a failure
goes back through `rollback` and `undo`. The configuration lock keeps two
updates, and an update and a control save, apart, so that the only thing that
comes between two steps is `Stop`: the program ends, and `Start` loads what is
in the file. `BeginUpdate` is an update that is not refused: one with a stale
revision changes nothing. A save is one rename; the fallback of `replaceFile`,
which moves the old file away first, is in `FileReplacement`, and a program
that ends in it leaves no configuration, so that `Load` starts again at
revision 0: `RevisionNamesConfig` is claimed of the single rename. While the program is down, `cfg` is the configuration of the last
run; what a client remembers of it is compared with the next run's.

`secrets` has the OS store and the file. `osAnswers` is what the OS store may
do in a run: `obeys`, `refuses`, `absent` (no backend or no `secret-tool`: `Set` goes to the
file and `Delete` has nothing to do), or a mix for one that may refuse at any time. `Get`, `SetSecret` and `DeleteStrict` follow `SecretStore`: the OS
store first, the file when it refuses. The two deletions of a `DeleteStrict`,
or the set and the deletion of a `Set`, are one step of the model. A secret's
value is the endpoint it was entered for, which is all that is needed to tell a
wrong credential. `Start` includes `resolveToken`, which makes a key for a
gateway that listens beyond the loopback.

Some of what the code does is worth knowing and is not an error of the model.
An update that clears the inference key always fails where the OS store is there
and cannot delete it (a locked keyring), after the file's copy has gone; without
a backend or `secret-tool` there is nothing to delete and it succeeds. A replaced
credential is deleted at once, while the running gateway keeps using the value
it has read until it is restarted.

## Runs

| run | question | bounds |
|---|---|---|
| `chat` | every property of a request, safety and its end, and the refinement of `ClientAnswer` | 5 routes of 3 models, 2 providers, 3 attempts, an error for each way ahead (next route, next model, next credential, none) and cancellation, candidate lists with alternates, one of them listed twice |
| `chat_credential` | is a failed credential excluded for the rest of the request: no | as `chat`, every kind of error |
| `selection` | is the list of candidates sound, and complete | 2 models with 2 routes each, of every access class but `Paid`, any pool and pin, a catalog and a request that may lack a route, health that changes at every step |
| `slots` | admission, progress and the refinement of `SlotLimit` | 3 callers, 2 providers, caps 0 to 2 |
| `streams` | what each adapter delivers, whom it blames, and the refinement of `StreamContract` | every answer of up to 3 lines, 4 adapters |
| `probes` | one loop, honest backoffs, a Stop that returns and leaves nothing behind | 2 routes, 1 worker per sweep, 2 runs of the loop, any number of manual sweeps after one another, 1 caller of Stop, a backoff of one length |
| `control` | pins, lost updates, selections, restarts | 2 clients, a native and a generic model, 3 revisions, two runs with different catalogs, failing saves |
| `control_order` | is what was answered in the file with two clients: no | 2 clients, one run |
| `config_update` | credentials, inference key and revisions while steps fail or are cut off | 2 providers, 2 endpoints, 2 keys, 2 revisions, one failure, an OS store that obeys, refuses or is absent in a run and may appear between two |
| `config_flaky` | is the key that was set the key that is read, if the OS store may refuse at any time: no | 1 provider, 2 keys, no other failure |
| `usage` | are acknowledged records kept and followers told, does nobody wait for a reader | 2 requests, records of 4 sizes in a log of 2 (below, at and above the limit, with and without their newline), 2 subscribers with a queue of 1, two runs, failing renames |
| `desktop` | who owns the profile, the children and a reported restart | 2 desktops, 3 gateways, one update, refused kills, crashes, Windows files |

Why the bounds are enough: three attempts are the shortest sequence in which
what one failure ruled out can come back after another, which it does
(`FailedCredentialExcluded`). The default is four (`DefaultFailoverPolicy`), for
which the safety properties have been checked by hand and are proved. Five routes give two routes of one
model, two models of one credential and a second provider. Two models with two
routes are an explicit model beside a pool, each with an alternate; `Paid` routes
differ from `Unknown` ones only in being excluded by the alternates' passes, and
the theorems cover them. Three callers and a cap of one or two give a holder, a
waiter and a caller that comes between a release and the waiter. Three lines are
a delta, what may come between, and an end or a line that is cut. Two routes and
one worker make a sweep wait for its own worker; two runs give a start beside a
stop. The backoff has one length in the run, where only having one matters; its
doubling and its cap are proved for all values. Two clients are what a lost
update takes, and two runs a restart. Two records, of sizes that fit beside each
other, fill the log, or do not fit, are a pruning by age and one by size. Two
desktops are a stale lease and two that find it; three gateways are a child, its
successor and an outsider. Two providers and two endpoints let one step of an
update fail after another has succeeded, and a credential be offered to the
wrong endpoint. One failure (`MaxFaults`) is a single failing or interrupted
step; saves fail before the file is replaced (`SaveFaults`). With two failures, a
save and the save that should undo it, or with a save that fails after the
rename, the file may name a credential that was deleted: `StoresMatchConfig` is
claimed for one failure before the rename only. `MaxRevision`, `MaxBoots` and
`MaxSaves` only cut off counting.

Deadlock is checked for requests, whose `Terminated` step is explicit, for the
selection of candidates, the slots and the probes. It is switched off where the
bounds stop the system (control plane, configuration, usage log), where a stream
is over, and for the desktop, whose processes may all have ended.

Properties come in groups where one behaviour has several sides: `AnswerIsSound`
is `OneSource`, `SilenceMeansGone` and `CommittedOutlivesDeadline`; `UsageIsTrue`
the two properties of the collector; `NextFollowsFailure`, `RequestEnds`,
`AdmissionIsExact`, `WaitersSettle`, `StoresMatchConfig`, `BackoffIsHonest` and
`ListIsSound` likewise, each with named parts.

### What the three violations show

- `FailedCredentialExcluded`: `PLAN_V7.2.md` excludes candidates with a
  credential that failed authentication; `nextAttemptCandidate` compares with
  the previous attempt only, so the credential returns after an intermediate
  failure of another one. In the same way the plan excludes a model after a 400
  or a malformed response (782-784), and the code forgets it after one attempt:
  a model of credential A answers 400, one of credential B answers 400, and the
  first model's other route is asked. `FailedModelExcluded` states it, and TLC
  violates it on the same instance. What holds, and is all that
  `NextFollowsFailure` claims, is that each attempt goes where the failure right
  before it sends it.
- `AnsweredIsPersisted` with two clients: the snapshot is taken before the
  lock that orders the saves, so the older one may be saved last.
- `GivenKeyIsRead` with an OS store that refuses once: `SecretStore.Set` falls
  back to the file and leaves the older value in the OS store, which `Get`
  prefers. An OS store that always obeys, always refuses or is never there is harmless
  (`config_update`).

### What the models show beside that

- After a restart an Automatic pool is what was saved, not what discovery has
  just found: `RestoreControlState` replaces it, and free models that are new
  since the last save come back with the next refresh.
- Where an open file can be moved, two desktops may own the profile
  (`CanMoveOpenFile = TRUE` violates `OneDesktop`): both read the lease of a dead
  process, one renames it aside and creates its own, and the other renames that
  one aside; or the question whether the owner lives fails, which
  `defaultProcessAlive` takes for its death (desktop.go 245-258). On Windows the
  open lease cannot be renamed, so that a failing `tasklist` costs the second
  process its four tries and nobody the profile.
- A process that ends between creating and writing its lease leaves a file that
  blocks every later `Acquire`.
- A library connection whose one `Stop` failed never tries again (`closeOnce`):
  `ChildrenAreKept` excepts it. A shell that crashes leaves its gateway running.
- Whichever gateway answers at the address is taken for the child that was just
  started. `RestartsAreTrue` is therefore about the child the shell is connected
  to: a gateway that somebody started by hand, with the same token and before
  the update, may answer in its place and be reported as restarted.
- A crash between the two renames of a file that cannot be replaced in one
  leaves only the backup; the configuration and the usage log never read it.
- `Append` refuses a record above `MaxBytes` (usage.go 202), and pruning counts
  its newline too (334-339): a record of exactly `MaxBytes` is acknowledged and
  announced, and leaves an empty log behind, the older records gone with it,
  though `ErrRecordTooLarge` is the error of a record that "cannot fit"
  (usage.go 34). `AckedIsKept` has it as a record that is crowded out.
- An update whose request was saved but whose answer was lost is reported as
  failed, and the gateway keeps the older configuration until somebody restarts
  it (main.rs 968).
- opencode and nvidia drop a last line without a newline, xai and gemini read it.

## Fairness

- The handler's goroutine runs, time passes, a due timer fires and its callback
  finishes: weak fairness of `HandlerStep`, `DeadlinePasses`, `TimerExpires`,
  `TimerCancels`. These are Go's scheduler and timers.
- A provider's call or `Next` whose context is done eventually returns an
  error: strong fairness of `UpstreamGivesUp`. `net/http` closes the connection
  of a canceled request; an event that was already on its way may be delivered
  first, so the step need not stay enabled. Nothing is assumed of a live
  upstream, of slots becoming free or of clients.
- Waiters on a slot run when they can (weak fairness of `Acquire(c)`). Holders
  need not release and there is no order among waiters, so `RoomIsUsed` allows
  that another caller took the room.
- The store's lock is released by file operations that end, and taken by the
  requests that wait for it when it is free: weak fairness of `Replace`, `Return`
  and `TakeRecord` together. Nothing is assumed of those who read the events.
- The goroutine of a probe loop and its workers run, and every call of a probe
  ends: `AcquireSlot` has two seconds and the upstream ten, and both honour
  their contexts (weak fairness of `SweepStep`, `CloseDone`, `StopReturns`). The
  `select` of the loop chooses a done context against a fired timer at some time
  (strong fairness of `LeaveLoop`): the timer is set anew each time, and Go
  chooses at random.

## Proofs

Each theorem holds for any value of the constants that meets the named
assumption of its module: `ConstantsAssumption` and `NoRouteAssumption` (routes
have a provider, candidate lists have the form that `RouteSelectionProofs` proves
of `resolveAttemptCandidates`, the attempt limit is the normalized one,
and providers report a cancellation only when the context is done),
`SlotsAssumption` (finitely many callers), `ControlAssumption`,
`ConfigUpdateAssumption` (values that must differ do), `RoutesAssumption` (finitely
many routes, whose classes and policies are those the code knows),
`NamesAssumption`, `OutsideAssumption` and `GatewayAssumption` (processes are told
apart), `UsageAssumption` (sizes and limits are numbers, and no log is taken for no
file), `ReplacementAssumption`, `ProbeAssumption` (the first
backoff is positive and not above the cap), `MaxLinesAssumption` (a body may have a
line). `KeyIsTheGivenOne` and `StoresAgree` assume in addition what may fail
(`SteadyStores`, `OneFault`), `TurnsArePersisted` that the configuration can be
written (`~SaveMayFail`), `AtomicRenamesKeepFile` that a rename does not fail
(`~RenameMayFail`).

- `ChatFailoverProofs`. The invariant `IInv` adds four parts to the types:
  `AttemptShape` (an attempt exists exactly inside its phases), `CommitShape`
  (commit and expiry exclude each other, and only the loser of the state word
  is cancelled), `AnswerShape` (what has been written at each phase) and
  `CancelShape` (a cancellation no answer is written for is the client's). The
  last is what makes `SilenceMeansGone` inductive: the error of an attempt that
  the deadline cancelled has been translated before the attempt returns. From
  it follow `OneSource`, `SilenceMeansGone`, `CommittedOutlivesDeadline`, the
  action property `AnswerIsFinal` and the refinement of `ClientAnswer`, action
  by action.
  The other safety properties need more shapes, each inductive on top of `IInv`.
  `HoldShape`: a call has the slot of its route, and nothing is open before it
  (`NothingLeaks`). `VerdictShape`: whatever waits for an answer was asked
  (`VerdictsAreEarned`, and with it `GoneClientBlamesNoRoute`). `RecordShape`:
  the running attempt is counted and not yet recorded. `ChoiceShape`, on top of
  it: no recorded failure but the last is the request's own fault, an alternate
  that runs follows a route of its model, and the loop's `action` is what the last
  recorded failure asks for, so that every attempt keeps off the model, the
  credential or the provider the failure right before it ruled out, and stays with
  its model while that has a route left where the failure asks for another route
  (`NextFollowsFailure`; it is as much as holds, the run `chat_credential` shows
  that the attempt after the next may use the credential again).
  `UsageShape`:
  the collector knows no outcome before the handler returns, and what it knows
  then is what was written (`UsageIsTrue`). The module begins with lemmas about
  `FailurePolicy`: the form of errors, the type of decisions, the statuses, and
  that the next candidate was not attempted before.
- `ProviderProofs`, for the slots. The types, the exact count and `NoStrandedWaiter` are
  inductive together; the refinement of `SlotLimit` follows, because the count
  is the cardinality of the callers inside.
- `ControlPlaneProofs`. `IInv` adds `ClientsAreCurrent` to the pin's invariant:
  whatever a client or a request under way knows of this run is no newer than
  the pool, and is the pool if its revision is. `RevisionNamesState` alone is
  not inductive, since a request carries the pool it will answer with.
  `AnsweredIsPersisted`, which overlapping requests break, holds of all that do
  not overlap (`TurnsArePersisted`, assuming `TakingTurns` throughout a run and a
  file that can be written), and so of a single client. Its invariant
  `SavedInTurn` says that the memory is what the file has, and that a snapshot
  about to be saved is still true, since a refresh between them changes neither
  the mode nor the pin.
- `ProbeSchedulerProofs`. `IInv` adds `ClaimShape` (a claimed route has exactly one
  worker), `RouteShape` (what that worker knows of the backoff and the registry;
  all other routes are settled) and `LoopShape` (the registered run is the last
  one; only a sweep at its targets has workers). All five safety properties of
  the run follow, `StopLeavesNoProbe` from `LoopShape` and the step of
  `StopReturns`.
- `ConfigUpdateProofs`. `IInv` adds `RevisionShape`: the file is never older
  than the memory, and the same when it is of the same revision; the candidate
  is the next revision until it is committed. From it follows
  `RevisionNamesConfig`, for any number of failures and for saves that fail
  after the rename too. What the stores hold is inductive on top of it in four
  parts. `SlotShape`: a reference is named after the revision that brought it, so
  what is being stored or undone is named by nobody yet. `KeptShape`: while nothing
  went wrong, whatever is stored is named, about to be or about to go; it gives
  `NothingStaysBehind` without any further assumption. `SteadyShape`: without an
  OS store the secrets are in the file alone; it gives `GivenKeyIsRead`, assuming
  `SteadyStores` (an OS store obeys, refuses or is absent throughout a run, the run
  `config_flaky` shows why). `ResolveShape`: the candidate's credentials are stored
  before it is saved, and what is deleted is not named; it gives
  `StoresMatchConfig`, assuming `OneFault` too: a second failure, of the save that
  rolls the file back, would leave a file that names deleted credentials. The
  `...Effect` lemmas say once what an operation does to what is read of every
  slot.

- `RouteSelectionProofs`. `FilterIsRight` says what a pass has let through and
  what it has yet to look at: every route it must find is among those, whatever
  the health of the others does, and every route it found was available once
  (`HealthIsSeen`). `NormalIsSound`, `NormalIsComplete`, `UnknownIsSound` and
  `UnknownIsComplete` carry that from one pass to the next, until `ResultIsRight`
  is `ListIsSound` and `NothingUsableIsLost`.
- `ProviderProofs`, for the streams and bodies of any length. `IInv` adds `StreamShape`:
  nothing is read or given before there is a stream, what was given was read, and
  an ended stream that is still being read has no line left. `DeliversWhatWasSaid`
  is inductive on top of it: it speaks of every line read so far, and
  `InterpretForms` says once what a line may do. `GoneCallerBlamesNoRoute` and the
  refinement of `StreamContract` follow step by step. The proof names the places
  of a step (`CallStep`, `StreamStep`), so that the adapters' shared steps are
  proved once.
- `DesktopShellProofs`. For the lease: whoever has created the file and not yet
  closed it has it at the lock's path (`HolderIsAtPath`), if an open file cannot
  be moved; hence `OneDesktop`, for any number of processes and whatever they are
  told of an owner's life. For the gateways:
  `InOrder` says of each record that a child is managed and that there is none
  where the operation under way is about to take one, `LoadsSaved` that what an
  update has started loaded what it saved, and `Keeps` that what a process
  started is in its hands. `ChildrenAreKept` needs `InOrder`: were there a child
  when another is started, the first would be forgotten. Three lemmas
  (`GatewayStep`, `RecordStep`, `QuietStep`) say once what a step leaves alone.

- `UsageLogProofs`. The first half is about retention. What the newest records
  take up (`SizeOfNewest`) and the log without the old ones (`Unexpired`) are
  recursive functions, and what they compute is proved for logs of any length
  by `Induction`, over a set of numbers that is closed under successor: the
  library's induction theorems take an operator, but its theorem that the
  numbers are well-founded does not, and a least number outside the set is all
  that is needed. `PrunedForm` sums it up: what `pruneLocked` keeps is a part of the
  log that fits, and what it drops is too old or has no room any more. `InOrder`
  (a log is a part of what arrived, in its order) and `CrowdsStays` (what has no
  room in a part has none in the whole, nor later) then stand for all of it.
  The second half is the invariant, in five parts. `FileShape`: a replacement
  writes what the memory has, and only the lock's holder replaces. `OrderShape`:
  every log, the backup's too, is a part of what arrived, and what arrived keeps
  its size. `KeptShape`: the file has what was acknowledged, or the memory has it
  and is durable or about to be; while the file is away the backup has it too,
  which is what a failed replacement puts back. `AckedIsKept` alone is not
  inductive: it does not say what a failing `Append` restores. `KnownShape`: what
  a file has was acknowledged, may have been written or is being written.
  `FollowShape`: a follower knows the memory but for the record whose `Append` is
  under way, and what a failing one restores. `KeptShape` gives `AckedIsKept`,
  `FollowShape` gives `FollowersKnowTheLog`; TLC has checked `IInv` on the run's
  instance. `AtomicRenamesKeepFile` says what `torn` stands for: where every rename
  replaces its file (`RenameMayFail` is `FALSE`), no store is ever given up while
  its file is away (`NeverAway`), and what was acknowledged is in the file itself.

Only model-checked: everything about liveness (`RequestEnds`, `WaitersSettle`,
`EveryStopReturns`, `SlowReadersHoldNobody`), which is out of the prover's reach,
and the properties that the code violates; of those, theorems say under which
condition `GivenKeyIsRead` and `AnsweredIsPersisted` hold. Every other property of a
run is stated by a theorem.

## Plan

Done: the modules above. What would add most next: the length of
cooldowns as attempts and probes report them to one health manager; the
desktop's usage stream, whose thread may outlive a stop and a new start
(`main.rs` 726).

## Not modelled

Scores, matching, benchmarks and latency statistics (floating point that only
orders candidates, and every order is allowed); authentication and header
checks, logging, packaging and the command line (sequential and stateless);
request decoding beyond its outcome and the requests the adapters build; the
sums of usage queries; the listeners; the desktop's page, window, tray and
autostart file. `PROJECT.json` says for each part what is left out.
