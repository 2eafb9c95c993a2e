# A TLA+ verification of nibrun

nibrun runs each app in a Firecracker microVM of its own, on hosts that a control plane tells what
to run. This directory holds TLA+ models of the parts of it where concurrency and failure are hard,
the host agent (`apps/agent`) and the control plane's handling of releases, deletions and storage
(`apps/api`); what TLC checks of them; and what TLAPS proves of them. Paths below are relative to the
repository's root, `agent/` standing for `apps/agent/src/` and `api/` for `apps/api/src/`.

## 1. The system

| Part | State it keeps | Operations | Talks to |
| --- | --- | --- | --- |
| Control plane (`apps/api`) | apps, deployments, hosts, volumes, exports, migrations in Postgres | create, redeploy, suspend; desired state out, host reports in | agents (HTTP polls and reports), third parties |
| Host agent (`apps/agent`) | `AgentState` (a record per app, start claims, marks, `deferredWork`), the cached desired state, slots, files | nine loops (below) | systemd, Firecracker sockets, ZeroFS, nftables, Caddy, the guest over vsock |
| Guest init (`apps/runtime`) | the tenant's process, the freeze lease, cron and SQLite workers | supervise, freeze and thaw, run a cron, serve queries | the agent over vsock |
| Launcher and units (`infra/app-host`) | units, the snapshot directory | start a unit: boot, or restore when a stamp is there | systemd |
| `packages/*`, dashboard, www | none that is concurrent | user interfaces, command line, schemas | the API |

Inside the agent:

- **poll loop**: fetches desired state and runs a reconcile pass when it moved, or when
  `deferredWork` says the last pass, or something since, left work to do;
- **reconcile pass**: observes records and units, plans per app (`stop`, `replace`, `forget`,
  `sleep`, `start`), applies stops, volumes, sleeps and starts in that order, persists;
- **status loop**: probes each guest, settles each record, schedules retries of failed microVMs;
- **measurement loop**: finds apps gone quiet and captures them, that is pauses, snapshots, stops;
- **wakes**: a request, a cron run, a file or database query finds an app idle and restores or
  boots it;
- **fences** (`VolumeMigrationFences`): keep lifecycle operations out of an app whose volume is
  being migrated; **guest activity** (`GuestActivity`): counts guest work, keeps a capture or a
  migration apart from it;
- **SQLite sessions**: a loop polls the control plane for callers' queries and gives each to a
  fiber; a session holds its guest awake until it is closed, expires or is withdrawn;
- slots, exports with a freeze lease, cron registry and executions, log and report loops, and an
  adapter for a single-host runner.

Inside the control plane:

- **what an owner asks for** (deploy, roll back, edit, suspend, delete, export, migrate): one
  transaction each, which locks the app's row;
- **acceptReport**: applies a host's report in statements of their own: live deployments are read,
  judged and written back, deletions the host confirms are completed, abandoned migrations are
  swept, deleted apps are purged;
- **desired state**: one query per poll of a host, over the newest deployments;
- **SQLite streams**: a caller's stream is a remote session, whose operations wait in memory, each
  with a deadline, until the host polls for them and answers.

No lock is held from a report's first statement to its last, reports of one host may overlap or be
applied late, and any of them may be cut off. What is hard is what a report says of a world that
has moved on, and requests that are each fine and together point an app at storage its data is not
in.

All of the agent is Effect fibers in one process: they interleave at every await, share `AgentState`
through atomic `Ref` updates, and hold no locks but the fence and the gate. What is hard is what a
fiber reads before an await and uses after it, what two fibers write in the wrong order, and what a
dead agent leaves behind, because units and snapshots outlive it. `PROJECT.json` lists these hazards
at their lines with the properties that would catch each.

## 2. Modules

| Module | Models | Kind |
| --- | --- | --- |
| `MigrationExclusion` | what the fence promises: open, closed by one, worked on when empty | abstract specification |
| `VolumeMigrationFences` | `agent/services/volume-migration-fences.service.ts`, with the reconcile pass's use of it | component |
| `VolumeMigrationFencesProofs` | | proofs |
| `GuestExclusion` | what guest activity promises: open, closed by one, alone once empty and still quiet | abstract specification |
| `GuestActivity` | `agent/services/guest-activity.service.ts`, with `suspendInstance`'s second look | component |
| `GuestActivityProofs` | | proofs |
| `InstanceLifecycle` | `agent/lib/reconcile/instances.ts`, `agent/services/{vm-manager,reconciler,agent-state}.service.ts`, `agent/lib/{reconcile/plan,vm/recovery,health/state}.ts`, the launcher | composition of the loops over one app |
| `InstanceLifecycleProofs`, `InstanceConvergenceProofs` | | proofs |
| `HostStorage` | `agent/services/{slot-allocator,volume-manager}.service.ts`, `agent/lib/reconcile/{plan,volumes}.ts`, `agent/lib/volumes/{provision,teardown,activate-app-volume,retire-app-volume,reclaim-app-zerofs}.ts`, the saves of `reconciler.service.ts` | composition: a pass, the allocator, the state files and the host |
| `HostStorageProofs` | | proofs |
| `Releases` | `api/services/{deployments,apps,agent}.service.ts`, `api/repositories/{deployments,apps}.repository.ts`, `api/lib/deployments/lifecycle.ts` | composition: an owner, a host and handlers of its reports |
| `ReleasesProofs` | | proofs |
| `StorageMigrations` | `api/repositories/{volume-storage-migrations,exports,deployments,apps}.repository.ts`, `api/services/volume-storage-migrations.service.ts` | component |
| `StorageMigrationsProofs` | | proofs |
| `SqliteSessions` | `packages/sqlite/src/{hrana-streams,hrana-relay}.ts`, `api/lib/sqlite/{remote-session,pending-queries}.ts`, `agent/lib/agent/sqlite-query.ts`, `agent/services/sqlite-sessions.service.ts` | composition: a stream, the relay, the host's loop, its sessions and a reconcile pass |
| `SqliteSessionsProofs` | | proofs |
| `MC*` | symmetry and views | model-checking instances |

A definition whose comment begins with "Mutated:" is a wrong version of the one after it, kept
beside it: substituting one makes a named property fail, which shows what the property depends on.
Nothing uses them otherwise.

### VolumeMigrationFences

`entries` is the `Ref<Map<AppId, Entry>>`; `NoEntry` stands for a missing key. `access` and
`migration` are the progress of each fiber through `acquireUseRelease`. The code's atomic steps are
kept: `Ref.modify` is one action, completing a Deferred another (`Finish`, then `Signal` once per
Deferred). A Deferred's identity is a number, and one that nothing refers to may be handed out
again, as after garbage collection. `acquire` refused with `VolumeMigrationFenceBusy` changes
nothing and has no action. `EnterReconcile` and `Plan` are the reconcile pass seen from the fence:
it asks for every app, plans without the held ones and writes `deferredWork`.

`during` has no caller yet, and the migration steps that call `requireHeld` say that a coordinator
holds it; the model lets migrations begin at any time.

### GuestActivity

One app. An `Activity` object is a number; `mapped` and `users` are the map's entry. `gate` names
the fiber in whose body the semaphore's permit is held: `run` holds it only to count itself in, so
`CountIn` takes and gives it back in one step. A fiber may be interrupted while it queues or while
it drains. `stale` is `lastActiveAtMs # quietSinceMs`; `workedSince` is not state of the code but
the history `CapturesOnlyQuiet` is stated over. In `GuestExclusion` there are no objects, counters or
Deferreds: work is inside until it has counted itself out, the guest is closed by the fiber in the
body of `withPermits`, and the service is shown to implement that.

### InstanceLifecycle

One app on one host, and every fiber that touches it. Each fiber is a record with a `pc`; a value
read before an await is a field of it (`reconcile.seen`, `start[p].attempted`, `status.seen`,
`status.unit`), which is how stale reads are possible in the model exactly where they are in the
code.

| Fiber | Actions, in the code's order |
| --- | --- |
| `pollLoop`, `Reconciler.reconcile` | `Poll`, `Observe`, `Plan`, `Sync`, then `StopMark StopDiscard StopUnit StopDone`, `DiscardVm DropRecord`, `SleepInstance`, `ClaimStart` as planned, `Persist` |
| `attemptStartInstance` (of a pass or a wake) | `NotStartable` or `Startable`, `Attempt`, `BootDiscard`, `BootLaunch`, `Booted` or `BootFailed` |
| `resumeInstance`, `VmManager.wake` | `Request`, `ClaimWake`, `WakeStatus`, `WakeCheck`, `WakeLaunch`, `WakeLoad`, `Restored` or `WakeFailed` |
| `suspendInstance`, `VmManager.sleep` | `MeasureQuiet`, `BeginCapture`, `RefuseCapture`, `CaptureDiscard`, `TakeSnapshot`, `CaptureStop`, `WriteStamp`, `RecordSleep` |
| `refreshStates`, `settle` | `StatusTick`, `ReadUnit`, `Settle`, `PersistStatus` |
| outside | `VmCrash`, `AgentDies`, `HostReboots` |

Data is abstracted to what the properties tell apart. A unit and the VMM in it are one of `off
failed guest paused empty`, `empty` being a Firecracker started to restore and not loaded yet. The
snapshot's files are `fresh` while the guest they are an image of is the last that used the disk,
`overtaken` when another was put on it before the capture had stamped them, `stale` when after. A
failure is of a boot, of entry into KVM or other; each record keeps the kind of the one it is
retried for, because `vmRecoveryPolicy` gives failures to enter KVM a budget of their own
(`MaxKvmRetries`, ten in the code, against `MaxRetries`, three) while attempts add up whatever they
were for. `revived` is not state of the code but history: a status pass wrote this retry back after
a stop had withdrawn it. `startedAt` is a token that is only ever compared. Retry times become "the
time has or has not come" (`Startable` and `NotStartable` are both enabled for a retry that is due);
grace periods, probes and exit causes become choices in `Settle`. The health thresholds are one
probe.

What is left out makes an operation fail or not happen: volumes, artifacts, slots, the isolation
ruleset, the host's memory, and the routes a replacement renders before its stops. A boot or a stop
that fails is a `Fault` at the step where the code would see it, and where the code does not look,
as at the stop after a failed load, the unit stays up and the wake reports its failure all the same;
a wake refused before it begins is a request not made. A request that arrives while a wake is answered joins it in the code;
here a new one may follow the moment the wake's record is written, which allows more.

### HostStorage

Several apps on one host: some in the shared bucket, some (`Own`) with a bucket and a ZeroFS of
their own. The state falls in three parts that outlive one another: the agent's memory (`slot`,
`cursor`, `deleted`, `reported`, `registered`, `deferred`), its files (`slotsFile`, `cursorFile`,
`deletedFile`), and the host (`device`, `image`, `staged`, `writer`, `retired`, `guest`).

| Code | Actions |
| --- | --- |
| `pollLoop`, `run` | `Poll`, `Restore`: observe, `planVolumes`, `hasDeferredWork` |
| `applyStops`, `applyVolumes` | `ApplyStops`; `Provision` or `ProvisionRefused`, `Activate`, `Attach`; `EndVolumes` |
| `applyStarts` | `StartAllocates`, `StartExhausted`, `ApplyStarts` |
| `applyTeardowns`, `teardownVolume` | `Teardown`, `Remove` |
| `retireAppVolume` | `Retire`, `RemoveOwn`, `StopWriter`, `RecordRetirement`, `Release` |
| `hasPendingAppRetirements`, `reclaimAppZerofs` | `EndTeardowns` |
| `persist`, of a pass and of a status pass | `SaveBegins`, `SaveSlots`, `SaveRest` |
| failures | `ProvisionFails`, `TeardownFails`, `PassFails`, `Crash` (of the agent, or with its host) |

The scan of `nextFree` is a definition: the free slot at the least distance from the cursor, modulo
the span. A slot stands for its device, tap, port and address. The control plane's part (`Deploy`,
`Delete`, `Acknowledge`) is reduced to what its desired state says of an app's volume and when it
stops saying it (`Releases` has the rest); it happens between passes, because only a poll reads it.
`teardownVolume` does not look at what `nbd-client -d` exits with: `Teardown` may go on with the
device still attached, and `RemoveOwn`, whose detach is verified, fails instead. `issued`,
`unsaved`, `undetached` and `dropped` are history that properties are stated over; `Stray` names the
apps that a device may be attached to in another's slot. Sizes, seeds, exports and checkpoints are
left out, and a guest is only what keeps a volume in use.

### Releases

One app's rows, and the calls that write them. `handler` is each `acceptReport` under way: its
`pc` is the next statement that has something to say, and `observed`, `activated` and `failed` are
what `applyHostReport` worked out of the rows it read and has yet to write. Between `ReadLive` and
the writes anything may happen, a redeploy, a deletion or another handler included; `HandlerDies`
ends one anywhere. `AdvanceState` is `DeploymentLifecycle.advanceState`; a deadline is whether it
has passed, any time being able to pass between two steps. `HostPass` is an agent's pass over the
desired state it fetched, reduced to what a report will say: it may fail to make or to reclaim the
volume, as often as it likes, so `host.held` (the host has the volume) and `host.volume` (what it says
of it) are two things. `SendReport` is `reportLoop`, which puts on the wire what the agent has then.

### StorageMigrations

The same app seen from where its volume is stored. A config version's storage is `Shared` or the
version for which a bucket was minted; a deployment names a config and a host. Each request is one
action, because it locks the app's row for its whole transaction, and `Locked` is
`lockAppForMutation`. A migration's worker names its attempt by the config version it was told of,
so a call about an attempt long over is a call with another version; `Restore` is what `cancel`,
`sweepAbandoned` and `abortStarted` share. `AppsService.delete` is two actions, `Delete` and
`FailInFlight`, as its two transactions are.

### SqliteSessions

A caller's stream and everything it passes through on its way to a guest. A query is an operation of
a session; `query` is what the control plane knows of it and `work` what the host does about it, so
a query that is over on one side may be under way on the other. `scope`, `ready`, `opener` and
`closer` are a session's scope, its Deferred, the fiber that opens it and then stays, and whoever has
taken the session out of the registry and has its scope to close.

| Code | Actions |
| --- | --- |
| `HranaStreams`, `RemoteSqliteSession` | `OpenStream`, `Leave`, `Pipeline`, `CloseStream` |
| `PendingSqliteQueries` | `Claim`, `Deadline`, and the answer in `Send` |
| `sqliteQueryLoop` | `Poll`, `EndPoll`, `Dispatch`, `Send`; `LoseClaim` and `LoseResult` are the network |
| `open` | `Reserve`, `Fork`, `AwaitOpen`; its fiber: `Enter`, `Check`, `Wake`, `Recheck`, `Connect`, `FailOpening` |
| `execute`, `close`, `expire` | `Look`, `Touch`, `AwaitReady`, `EndPipeline`, `Remove`, `Expire`, `CloseScope` |
| `syncDeployments` and the pass that calls it | `Desire`, `Sync`, `Apply` |
| `GuestActivity.whenIdle`, of a suspend | `BeginCapture`, `EndCapture` |

`Remove` and `CloseScope` are two steps because the registry is modified first; `CloseScope` is one,
because `Scope.close` comes back when the fibers it interrupts have ended and nothing else can stop
it. What a caller sends and gets is left out: an exchange with the guest ends well or does not, and a
pipeline's answer may or may not end the stream. Other apps' queries and sessions are a choice in
`Dispatch` and `Reserve`. A deployment that is replaced is one that is withdrawn.

## 3. What TLC checks

| Run | Instance | Shows | States |
| --- | --- | --- | --- |
| `fences` | 1 app, reconciler + 1 fiber, 2 migrations, 4 Deferreds | `MigrationRunsAlone`, `HeldWhileWorking`, `DrainNotLost`, `DrainEnds`, `SkippedIsReconciled`, refinement `ImplementsExclusion` | 8 830 |
| `activity` | 2 runs, 1 suspend, 1 exclusive | `OneOrMany`, `OneActivity`, `CapturesOnlyQuiet`, `EveryoneIsServed`, refinement `ImplementsExclusion` | 29 157 |
| `lifecycle` | 2 deployments, all modes, 1 change of mind, 2 asks | `OneStarter`, `DeploymentConverges` | 1 276 383 |
| `lifecycle_restart` | 1 deployment on request, budgets 0 and 1, 3 asks, 1 fault, 1 restart | `WithinRetryBudget`, `RestoresOnlyFresh` | 3 231 457 |
| `lifecycle_live` | 1 deployment, on request or withdrawn, 2 changes, 1 ask, 1 fault | `RetryIsScheduled`, `RetryIsMade` | 461 357 |
| `releases` | 3 deployments, 1 handler at a time, 1 that dies | `LiveIsNewest`, `DeletedIsGone`, `UnstampedOnlyByFailure`, `TerminalStays`, `DeletionCompletes` | 115 676 |
| `storage` | 2 hosts, 4 deployments, 5 config versions, 2 exports | `OneHost`, `StorageAgrees`, `MigrationExcludesExport`, `PendingIsKept`, `StorageNeverReverts` | ~86 000 |
| `host_storage` | 2 apps, 1 with a bucket of its own, 2 slots, 1 device, 1 fault | `OneAppPerDevice`, `DeletedMeansGone`, `RetiredStaysClosed`, `FreedWaits`, `RemovalIsReported` | 301 308 |
| `sqlite` | 1 session, 1 active query, 2 changes of what is wanted | `NoOrphan`, `StopsUnused`, `QueriesEnd` | 35 736 |
| `not_wanted`, `up_not_stopping`, `empty_vmm` | | disagreements between code and comments, section 5 | |

**Why the bounds are enough for what is asked.** A first deploy boots, so a capture and a wake take
two asks and a second capture after it three; that is what a stale snapshot needs. One change of
mind makes each pair of modes and a redeploy happen at every point of every fiber. One fault puts a
crash or a failing command at every step, one restart a dead agent or a rebooted host. With budgets of
nought and one the two differ, and a failure to enter KVM is retried where another is not. Two changes
of mind, a withdrawal and a return, are what brings a withdrawn retry back. The exceptions that
`RestoresOnlyFresh`, `RetryIsScheduled` and `RetryIsMade` make (section 5) are stated in the formulas
and do not rest on the bounds: the first two are proved for any, and `RetryIsMade` was also run with
two asks and no fault (404 259 states), with `running` for `absent`, two faults and two retries
(307 524), and with a restart (539 188). The pool of
Deferreds is one more than can be referred to at once, and so is that of Activities, so a run never
stops for want of one. Four tokens outnumber the copies that are compared. Three deployments let a
release be stood down, its replacement fail and be replaced under one report. Five config versions
are a migration that is put back, another that is cut over, and an edit or a rollback past it. Two
apps on two slots fill a host, one device makes the scan come round past a free slot it may not
take, and one fault is a failing step, a dead agent or a reboot at every point; the safety
properties of `HostStorage` and those of `Releases` with two handlers are covered for any number by
the proofs. So are the fence's with two apps, which meet only in the pool of Deferreds. Sessions meet
only in the bounds on them, which the model lets others use up at any time, so one is enough for
liveness; two were checked once for safety, which is proved for any number. Two changes of what is
wanted are a withdrawal and a return.

**Symmetry and views.** Deployments of `InstanceLifecycle` and hosts are interchangeable,
and the runs that use symmetry check no liveness. The view of `MCInstanceLifecycle` replaces a
`startedAt` by its comparison with the record's, the only use the code makes of it, and drops fields
that are not read again. With `MaxRestarts = 0` nothing reads the saved record, and it is not kept.

**Fairness.** Effect's scheduler runs every runnable fiber, so steps of fibers in flight are weakly
fair, and so are the poll and status loops, which repeat on a schedule. Nothing obliges a request, a
quiet spell, a migration, a deployment or an interruption to happen. In `HostStorage` a pass goes on
(the loop is supervised, its commands time out) and only so many steps fail. In `Releases` the agent
reports on a timer and a handler goes on or dies; nothing obliges a pass of the host to happen or to
succeed, so that its deletion is ever reported is a hypothesis of `DeletionCompletes`. What the agent
does give towards it is `RemovalIsReported`, with its exceptions.
`storage` may stop, its requests being bounded, and checks no deadlock and no liveness. In
`SqliteSessions` the host's fibers run, its timers fire, a guest answers or the exchange times out,
and a pass and a capture end; nothing is asked of callers, of the network or of the loop's polls, so
the system may come to rest and no deadlock is looked for. Strong fairness is used for two things: on
`Startable`, because a retry is refused each time its moment has not come and that moment does come;
and on taking `GuestActivity`'s gate (in its own module and in `Enter`), because Effect's semaphore
serves its queue in order.

## 4. What TLAPS proves

For every value of the constants that satisfies the named assumptions (finitely many fibers, the
reconciler one of them; modes among the four; bounds and the retry budget naturals):

| Theorem | Statement |
| --- | --- |
| `VolumeMigrationFencesProofs!TypeCorrect` | `TypeOK` is an invariant |
| `!RunsAlone` | `MigrationRunsAlone` |
| `!RequireHeldSound`, `!RequireHeldVouches` | `HeldWhileWorking`, `RequireHeldIsSafe` |
| `!DrainIsNotLost` | `DrainNotLost` |
| `!EntriesAreReclaimed` | `NoIdleEntry` |
| `!Implements` | the fence implements `MigrationExclusion` |
| `GuestActivityProofs!TypeCorrect` | `TypeOK` is an invariant |
| `!AloneOrTogether`, `!SameObject` | `OneOrMany`, `OneActivity` |
| `!SecondLookSuffices` | `CapturesOnlyQuiet` (of steps) |
| `!Implements` | guest activity implements `GuestExclusion` |
| `InstanceLifecycleProofs!TypeCorrect` | `TypeOK` is an invariant |
| `!ClaimHasOneHolder` | `OneStarter` |
| `!BudgetIsKept` | `WithinRetryBudget` |
| `!RestoresFresh`, `!OnlyAPassOvertakes` | `RestoresOnlyFresh` (of steps); only a boot of a pass overtakes a capture |
| `InstanceConvergenceProofs!HostConverges` | `DeploymentConverges` |
| `!RetryStaysScheduled`, `!OnlyASettleRevives` | `RetryIsScheduled`; only a status pass brings a withdrawn retry back |
| `HostStorageProofs!TypeCorrect` | `TypeOK` is an invariant |
| `!NoSharedDevice`, `!RemovalIsReal`, `!RetirementIsFinal` | `OneAppPerDevice`, `DeletedMeansGone`, `RetiredStaysClosed` |
| `!FreedSlotWaits` | `FreedWaits` (of steps) |
| `ReleasesProofs!TypeCorrect` | `TypeOK` is an invariant |
| `!NewestAloneIsLive`, `!VolumeGoneFirst`, `!StampedUnlessDied` | `LiveIsNewest`, `DeletedIsGone`, `UnstampedOnlyByFailure` |
| `!EndedStaysEnded` | `TerminalStays` (of steps) |
| `StorageMigrationsProofs!TypeCorrect` | `TypeOK` is an invariant |
| `!HostIsKept`, `!ConfigNamesItsStorage`, `!ExportsStandAside`, `!PendingAppStays` | `OneHost`, `StorageAgrees`, `MigrationExcludesExport`, `PendingIsKept` |
| `!StorageMovesOnce` | `StorageNeverReverts` (of steps) |
| `SqliteSessionsProofs!TypeCorrect` | `TypeOK` is an invariant |
| `!EveryScopeHasACloser` | `NoOrphan` |
| `!SessionsEndFirst` | `StopsUnused` (of steps) |

*The fence.* `MigrationRunsAlone` is not inductive: it says nothing of why a completed Deferred means
an empty app. The inductive invariant ties each entry's count to the set of fibers admitted
(`CountInv`), says an entry exists only while it counts or holds (`EntryInv`), that a held app has
one owner (`OwnerInv`), that no two entries share a Deferred and that a completed or about-to-be
completed one belongs to an entry that counts nothing (`SignalInv`), and that a migration waits on
its own app's Deferred (`WaitInv`). Recycling of Deferreds is what makes `SignalInv` necessary. The
refinement follows step by step from the same invariant.

*The lifecycle.* A boot and a status pass carry copies of the record across awaits and write parts
of them back, and a restart brings back the saved one; `BudgetInv` asks of every copy what
`WithinRetryBudget` asks of the record. `OneStarter` is inductive with the type invariant.

`DeploymentConverges` speaks of a host at rest and needs what is true on the way there.
`ConvergenceInv` has a conjunct for every place where a fiber holds something read before an await:
a boot's copy is of the record's deployment unless the record has been dropped (`CopyInv`); a pass is
about the state last accepted (`PassInv`), and what it is to start or replace stays deferred until a
later pass finds it done (`DeferInv`); a pass that read the right record and is about to find nothing
to replace is right, boots under way included (`SeenInv`); and where no pass is coming, the record
and every copy of it that may still be written follow the accepted deployment (`SettledInv`). It
holds for any number of changes of mind, faults and restarts.

`RestoresOnlyFresh` rests on `SnapshotInv`: no stamp, no VMM waiting to be loaded and no capture
past its image has a stale image beside it (`StaleInv`), a capture has thrown the last stamp away
(`UnstampedInv`), and a wake has seen the unit down and nobody else can have started it since
(`WakeInv`, which rests on `OneStarter`). What it excepts, an overtaken image, comes of one step:
`OnlyAPassOvertakes` proves that it is `PassLaunchesOverCapture`, a pass's boot that launches
between a capture's image and its stamp. `RetryIsScheduled` rests on `RetryScheduled`, which asks
the same of apps that are being stopped or are no longer wanted, and on `SpentInv`: a boot that has
begun carries no retry with it. What it excepts is a retry marked `revived`, and
`OnlyASettleRevives` proves that a record comes to be so marked only in `settle`, when it writes
back a retry that a stop has withdrawn since it was read, or when a restart reads such a record from
its file. Both theorems hold for all behaviours. TLC finds behaviours with each of the two steps
(section 5), so neither exception can be left out.

*Guest activity.* Exclusion needs to know that everyone uses the same object: `UseInv` says a fiber
inside was given the one the map has, and that the map counts exactly those fibers. Then the gate
has one holder (`GateInv`), the counter is the work that has not counted itself out (`CountInv`),
and its Deferred is not completed while it is above nought (`SignalInv`), so that whoever is alone
found or waited for nought (`QuietInv`, `DrainInv`). `WorkInv` says work since a measurement still
runs or has made it stale. With these, each step of the service is a step of `GuestExclusion` or is
not seen by it: a free gate means that nobody has closed the guest, its holder is the one who has, and
a count of nought that nobody is inside.

*Storage on a host.* Slots are apart in memory, in the file, and in the readings that two saves may
still write (`SlotInv`): a save from an older reading must not put back a slot that has since been
given to another. `DeviceInv` says what a device is attached to, through every step of a teardown
and with the stray devices left out, `PlanInv` what has been done by the time a plan is at a step,
`GoneInv` that what is said to be deleted in memory, in a save under way or on file is gone and no
longer wanted, and `HeldInv` that what was once wanted gone is never wanted again. `FreedWaits`
rests on arithmetic of the scan alone: the slot just behind the cursor is at the greatest distance
from it, so it is chosen only if no other is free.

*Releases.* A handler's decisions are about rows it has read, so `DecisionsKnown` says they name
deployments that have been inserted; the writes' own guard (`Live`) does the rest. `VolumeInv` says
a report that the volume is gone was sent by a host that holds none, and that it was asked to go and
is never made again; `StampInv` that a release running and unstamped has its handler, or one has
died.

*Storage migrations.* Two facts are added to the properties: a release names a config version that
has been written, so that a new version never changes what an old release means (`ConfigsKnown`);
and while an attempt is pending the newest version is its destination, and the app runs from the
shared bucket or from there (`AttemptInv`).

*SQLite sessions.* `NoOrphan` is inductive with the type invariant. `StopsUnused` needs two facts
more: what runs in a session's scope runs while the scope is open (`RunsInScope`), and from a
withdrawal to the stop the registry is empty and admits nobody (`WithdrawnIsEmpty`). At the stop a
session that runs is then open, not in the registry, and so in the hands of a closer, who is not the
pass, because the pass has waited for its own.

The inductive invariants were found with TLC, on instances like those of the runs, before they were
proved.
`NoIdleEntry`, `RequireHeldIsSafe` and the type invariants of `GuestActivity` and `SqliteSessions` are
proved and have no run of their own. Only model-checked: every liveness property (`DrainEnds`,
`SkippedIsReconciled`, `EveryoneIsServed`, `RetryIsMade`, `DeletionCompletes`, `RemovalIsReported`,
`QueriesEnd`), which is out of the prover's reach, as is `ENABLED`.

## 5. Where the code and its comments disagree

- **`not_wanted`**: `plan.ts` says a microVM the control plane does not mention is stopped. A wake
  that read desired state before the app was withdrawn goes on to restore it after the pass that
  found nothing running; the pass leaves no work deferred, and the microVM stays up until desired
  state moves again.
- **`up_not_stopping`**: `settle` takes care not to leave a stop flag on an instance that is up,
  "a state nothing forwards to and no later pass leaves". A capture's last write leaves it there
  when a status pass has already called the app idle and a request has already woken it.
- **`empty_vmm`**: `vm_launch.sh` says that an agent that dies between starting a unit to restore and
  loading it leaves a microVM that cold-boots off its disk. It leaves an active unit with no guest,
  which the planner takes to be running.

Also met, and not stated as runs yet: an agent that dies after a retry's launch and before the record
is saved, and a failed load whose stop fails too, leave a due retry over a unit that is up, which no
pass makes (`RetryIsMade`, except `Active`); a
status pass that reads the snapshotting mark before a capture and the unit after it reads the sleep
as a crash; a capture that outlives a change from `on-request` to `running` leaves the app asleep; an
agent that dies during a capture leaves its guest paused; a `forget` that fails leaves its record and
defers nothing.

Two more came out of proofs that would not go through, and TLC has a behaviour of each; the properties
except them by name:

- **an overtaken image is restored** (`RestoresOnlyFresh`, except `overtaken`; with two changes of
  mind, three asks and one fault). A pass plans to start an app that is down; a wake boots it first,
  it goes quiet, and a capture begins. The boot of the pass discards the snapshot, the capture takes
  its image and stops the unit, the boot finds the unit down and launches, and the capture then
  stamps an image of a guest that another has since used the disk of, where `vm_launch.sh` says that
  the agent writes the stamp "only after the microVM is down". Nothing orders `VmManager.boot` and
  `VmManager.sleep`: a start claim does not keep a capture out, nor the snapshotting mark a boot.
- **a retry is lost** (`RetryIsScheduled` and `RetryIsMade`, except `revived`; with two changes of
  mind and two asks, no fault needed). A status pass reads the record of an app that is being
  stopped with a retry due, and that an earlier one has already found down and called stopped; the
  stop ends and withdraws the retry; `settle`, which finds the record the same in what it compares,
  writes back the recovery it had read. A wake clears the stop flag, and the retry is due with
  `deferredWork` unset: status passes leave such a record to its retry, and the app stays "starting"
  over a running guest.

Met in storage, reports and SQLite sessions, where properties hold with the exception named:

- a host with no slot left for an app to start ends every pass there, before the teardowns that
  would free one (`RemovalIsReported`, except `Full`); the control plane does not cap the apps of a
  host at its slots;
- a failed teardown of a volume in the shared bucket, and a pass that fails as a whole, leave no
  deferred work, so the removal waits for desired state to move (except `dropped`);
- an agent that dies between attaching a volume and saving leaves a device in a slot no file has,
  which the restarted agent may give to another app; one in the shared bucket takes a device that
  answers for its own (`OneAppPerDevice`, except `unsaved`);
- `detach` of a volume in the shared bucket ends well whatever `nbd-client` exits with, and
  `teardownVolume` then removes the image and frees the slot: the device may stay attached in a slot
  that goes to another app, which takes a device that answers for its own (`OneAppPerDevice`, except
  `undetached`);
- the removal of a volume of its own bucket that was never staged fails on every pass, although
  `plan.ts` has it torn down "whether or not anything was found" (`RemovalIsReported`, of volumes that
  were staged);
- while any of these keeps a removal from being reported, the app stays `deleting`
  (`DeletionCompletes`, on condition that the host comes to keep saying that the volume is gone);
- an opening fiber interrupted before it is past `GuestActivity`'s gate (its session expired,
  was closed or was withdrawn while a capture held the gate, or between the reservation and the
  fork) completes no Deferred: the handlers are on the effect inside. The open query awaits it for
  ever and keeps one of the host's `MAX_ACTIVE_SQLITE_QUERIES` places, where a test has the loop
  return "one outcome per claimed query" (`QueriesEnd`, except `cut`);
- `syncDeployments` closes the sessions it finds before it returns, as a test's title says; one that
  an expiry or a close has just taken out of the registry it neither finds nor waits for, and the
  pass may stop the guest while that one is closing (`StopsUnused`, except its closers);
- a handler that dies between `applyReport` and `stampActivation` leaves a release running and
  never stamped (`UnstampedOnlyByFailure`, except a failure).

## 6. What is left

1. `AppWaker`: joining, timeouts, the answer to those who joined; composed with the fence and
   `GuestActivity`, for the order their comments prescribe.
2. The freeze lease between `exports/freeze.ts` and `guest-control.c`; the supervisor's shutdown.
3. Cron executions: owners and capacity against a withdrawal.
4. Artifacts and imports in the API: an object found for reuse and purged with another app before
   the upload that reuses it completes; a sweep of abandoned imports against `completeUpload`;
   seeding decided by `data_initialized_at` read outside the app's lock.
5. Proofs: every safety property of the runs is proved. Left are abstract specifications of releases
   and of storage on a host, and their refinement.

### Not modelled

Most of the repository's lines are not behaviour that a model tells apart: the dashboard, the
website and the command line; generated queries and schemas (`queries.gen.ts`); presets and
machine descriptions; parsers of archives and binaries (`zip.ts`, `elf`), which are pure functions
over bytes; rendering of rulesets and routes; HTTP clients, payments, DNS, accounts and GitHub, which
are calls to third parties and rows of one table; provisioning scripts. They have no interleaving
of their own. What has, and is not modelled yet, is the list above.
