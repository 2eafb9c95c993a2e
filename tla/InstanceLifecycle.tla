------------------------- MODULE InstanceLifecycle -------------------------
(***************************************************************************)
(* One app on one host: what the agent's concurrent loops do to its record *)
(* and to its microVM (apps/agent/src/lib/reconcile/instances.ts,          *)
(* services/vm-manager.service.ts, services/reconciler.service.ts).        *)
(*                                                                         *)
(* Five fibers share AgentState, systemd and the snapshot directory with   *)
(* no lock around them:                                                    *)
(*   - the poll loop's reconcile pass (observe, plan, stop, sleep, start); *)
(*   - a wake, asked for by a request the activator holds;                 *)
(*   - a capture, asked for by the measurement loop for an app gone quiet; *)
(*   - the status loop, which probes and settles the record;               *)
(*   - the boot that a reconcile pass or a wake runs under a start claim.  *)
(* Each is cut where its code awaits: a step is what happens between two   *)
(* awaits, and a value read before one is kept in the fiber.               *)
(***************************************************************************)
EXTENDS Naturals

CONSTANTS
    Deployments, \* DeploymentId
    NoDeployment,
    Modes,       \* desiredState, with "absent" for an app desired state does not name
    MaxRetries,  \* VM_RECOVERY_POLICY.maxRetries
    MaxKvmRetries, \* KVM_RECOVERY_POLICY.maxRetries
    Tokens,      \* startedAt timestamps, which are only ever compared
    MaxChanges,  \* bound: how often the control plane changes its mind
    MaxAsks,     \* bound: requests for the app, and times it is found quiet
    MaxFaults,   \* bound: crashes of the guest, and commands of the host that fail
    MaxRestarts  \* bound: deaths of the agent, alone or with its host

ASSUME ConstantsAssumption ==
    /\ NoDeployment \notin Deployments
    /\ Modes \subseteq {"running", "on-request", "stopped", "absent"}
    /\ MaxRetries \in Nat /\ MaxKvmRetries \in Nat /\ MaxRetries <= MaxKvmRetries
    /\ MaxChanges \in Nat /\ MaxAsks \in Nat /\ MaxFaults \in Nat /\ MaxRestarts \in Nat
    /\ Tokens \subseteq Nat \ {0}

VARIABLES
    accepted,     \* DesiredStateCache.latest, which survives the agent
    record,       \* AgentState.records for this app
    saved,        \* the record in instancesFile
    starting,     \* AgentState.starting has this app
    snapshotting, \* AgentState.snapshotting has this app
    deferredWork, \* AgentState.deferredWork
    vm,           \* the unit and the VMM inside it
    ranThisBoot,  \* UnitStatus.startedThisBoot
    stamp,        \* stamp.json in the snapshot directory
    files,        \* the memory and state files beside it
    reconcile,    \* the reconcile pass
    start,        \* the boot a reconcile pass or a wake runs
    wake,         \* the wake
    capture,      \* the capture
    status,       \* the status pass
    changes, asks, faults, restarts \* how much of each bound is used

agentState == <<record, starting, snapshotting, deferredWork>>
host == <<vm, ranThisBoot, stamp, files>>
fibers == <<reconcile, start, wake, capture, status>>
bounds == <<changes, asks, faults, restarts>>
vars == <<accepted, saved, agentState, host, fibers, bounds>>

---------------------------------------------------------------------------
(* Data *)

Desires == [mode : Modes, deployment : Deployments]

InstanceStates == {"pending", "starting", "running", "unhealthy", "stopping", "stopped",
                   "idle", "failed"}

(* recovery is undefined, or an attempt count, whether another is due and whether
   the failure it is due for is of kind kvm.  revived is history, of no part of
   the code: a status pass merged this retry back after a stop had withdrawn it.
   Of the health tracker everHealthy is kept: the status loop probes at every
   tick, with thresholds of one probe. *)
Records == [deployment : Deployments \cup {NoDeployment},
            state : InstanceStates \cup {"none"},
            desiredRunning : BOOLEAN, onRequest : BOOLEAN, stopRequested : BOOLEAN,
            startedAt : Tokens \cup {0}, everHealthy : BOOLEAN,
            attempts : Nat, retryDue : BOOLEAN, kvm : BOOLEAN, revived : BOOLEAN]

NoRecord == [deployment |-> NoDeployment, state |-> "none", desiredRunning |-> FALSE,
             onRequest |-> FALSE, stopRequested |-> FALSE, startedAt |-> 0,
             everHealthy |-> FALSE, attempts |-> 0, retryDue |-> FALSE, kvm |-> FALSE,
             revived |-> FALSE]

Present(r) == r.state # "none"

(* newInstanceRecord over recordFields. *)
NewRecord(desired, state) ==
    [NoRecord EXCEPT !.deployment = desired.deployment, !.state = state,
                     !.desiredRunning = TRUE, !.onRequest = desired.mode = "on-request"]

(* AgentState.updateRecord: nothing happens to a record that is not there. *)
Update(r, changed) == IF Present(r) THEN changed ELSE r

(* "guest": a guest runs; "paused": one is paused; "empty": a VMM started to
   restore and given nothing to run yet; "failed" and "off": no VMM. *)
VmStates == {"off", "failed", "guest", "paused", "empty"}
Active == vm \in {"guest", "paused", "empty"}

(* "fresh": an image of the guest that last used the disk; "stale": a guest has
   used the disk since; "overtaken": one was put on the disk before the capture
   that took the image had stamped it; "empty": a directory without files;
   "absent": none. *)
FileStates == {"absent", "empty", "fresh", "stale", "overtaken"}
Images == {"fresh", "stale", "overtaken"}
NoStamp == [deployment |-> NoDeployment, thisBoot |-> FALSE]
Stamps == [deployment : Deployments \cup {NoDeployment}, thisBoot : BOOLEAN]

NoDesire == [mode |-> "absent", deployment |-> NoDeployment]

PlannedActions == {"stop", "replace", "forget", "sleep", "start", "none"}

Passes == [pc : {"idle", "observe", "plan", "sync", "stopMark", "stopDiscard", "stopUnit",
                 "stopDone", "discard", "drop", "sleep", "claim", "starting", "persist"},
           desired : Desires \cup {NoDesire}, seen : Records, sawStarting : BOOLEAN,
           action : PlannedActions, first : BOOLEAN]
IdleReconcile == [pc |-> "idle", desired |-> NoDesire, seen |-> NoRecord,
                  sawStarting |-> FALSE, action |-> "none", first |-> FALSE]

Boots == [pc : {"idle", "read", "attempt", "discard", "launch", "booted", "failed"},
          desired : Desires \cup {NoDesire}, attempted : Records]
IdleStart == [pc |-> "idle", desired |-> NoDesire, attempted |-> NoRecord]

Wakes == [pc : {"idle", "asked", "status", "check", "launch", "load", "restored", "failed"},
          desired : Desires \cup {NoDesire}, seen : Records]
IdleWake == [pc |-> "idle", desired |-> NoDesire, seen |-> NoRecord]

Captures == [pc : {"idle", "quiet", "refuse", "discard", "snapshot", "stop", "stamp", "record"},
             deployment : Deployments \cup {NoDeployment}, touched : BOOLEAN]
IdleCapture == [pc |-> "idle", deployment |-> NoDeployment, touched |-> FALSE]

StatusPasses == [pc : {"idle", "unit", "settle", "persist"}, seen : Records,
                 sawSnapshotting : BOOLEAN, unit : VmStates]
IdleStatus == [pc |-> "idle", seen |-> NoRecord, sawSnapshotting |-> FALSE, unit |-> "off"]

Starters == {"reconcile", "wake"}

Init ==
    /\ accepted \in {d \in Desires : d.mode \in {"running", "on-request"}}
    /\ record = NoRecord /\ saved = NoRecord
    /\ starting = FALSE /\ snapshotting = FALSE /\ deferredWork = FALSE
    /\ vm = "off" /\ ranThisBoot = FALSE /\ stamp = NoStamp /\ files = "absent"
    /\ reconcile = [IdleReconcile EXCEPT !.pc = "observe", !.desired = accepted]
    /\ start = [p \in Starters |-> IdleStart]
    /\ wake = IdleWake /\ capture = IdleCapture /\ status = IdleStatus
    /\ changes = 0 /\ asks = 0 /\ faults = 0 /\ restarts = 0

(* A timestamp no record has that anything still compares. *)
Fresh(t) ==
    LET used == {record.startedAt, status.seen.startedAt}
                  \cup {start[p].attempted.startedAt : p \in Starters}
    IN  t \in Tokens \ used /\ \A u \in Tokens \ used : t <= u

(* Only a restart reads instancesFile: where there is none, nothing is saved. *)
Saved(r) == IF MaxRestarts = 0 THEN saved ELSE r

Ask == asks < MaxAsks /\ asks' = asks + 1

Fault == faults < MaxFaults /\ faults' = faults + 1

(* discardSnapshot: the stamp, then the directory. *)
Discard == stamp' = NoStamp /\ files' = "absent"

(* markActive, to the one that compares it: a capture measured quiet before. *)
Touched(c) == IF c.pc = "quiet" THEN [c EXCEPT !.touched = TRUE] ELSE c

(* What a guest started on the disk makes of an image of it. *)
Overtaken ==
    IF files # "fresh" THEN files
    ELSE IF capture.pc \in {"stop", "stamp"} THEN "overtaken" ELSE "stale"

(* Mutated: the stamp is read and not consumed. *)
LaunchKeepingStamp ==
    /\ vm' = IF stamp # NoStamp THEN "empty" ELSE "guest"
    /\ UNCHANGED stamp
    /\ files' = IF stamp = NoStamp THEN Overtaken ELSE files
    /\ ranThisBoot' = TRUE

(* vm_launch.sh: a stamp makes this start a restore and is consumed by it. *)
Launch ==
    /\ vm' = IF stamp # NoStamp THEN "empty" ELSE "guest"
    /\ stamp' = NoStamp
    /\ files' = IF stamp = NoStamp THEN Overtaken ELSE files
    /\ ranThisBoot' = TRUE

(* systemctl start, which does nothing to a unit already up. *)
SystemdStart == IF Active THEN UNCHANGED host ELSE Launch

(* systemctl stop, which leaves a failed unit failed. *)
Stopped == IF Active THEN "off" ELSE vm

---------------------------------------------------------------------------
(* The poll loop *)

(* Desired state that moved is accepted and reconciled; state that did not is
   reconciled again only when the last pass, or anything since, deferred work. *)
Poll ==
    /\ reconcile.pc = "idle"
    /\ \/ changes < MaxChanges /\ changes' = changes + 1 /\ accepted' \in Desires \ {accepted}
       \/ deferredWork /\ UNCHANGED <<changes, accepted>>
    /\ reconcile' = [IdleReconcile EXCEPT !.pc = "observe", !.desired = accepted']
    /\ UNCHANGED <<saved, agentState, host, start, wake, capture, status, asks, faults, restarts>>

---------------------------------------------------------------------------
(* recovery.ts *)

(* What befell a microVM: a boot or a restore failed, its console tells of a KVM
   entry that did, or anything else. *)
Failures == [kind : {"boot", "kvm", "other"}, retryable : BOOLEAN]
BootFailure == [kind |-> "boot", retryable |-> TRUE]

(* vmRecoveryPolicy: a budget of its own for failures to enter KVM. *)
Budget(kvm) == IF kvm THEN MaxKvmRetries ELSE MaxRetries

(* Mutated: the comparison with the budget is off by one. *)
AfterVmFailureOnceMore(r, failure) ==
    LET kvm == failure.kind = "kvm"
    IN  [attempts |-> r.attempts, kvm |-> kvm,
         retryDue |-> failure.retryable /\ r.attempts <= Budget(kvm)]

(* Mutated: a failure gives an attempt back. *)
AfterVmFailureRefunding(r, failure) ==
    LET kvm == failure.kind = "kvm"
    IN  [attempts |-> r.attempts - 1, kvm |-> kvm,
         retryDue |-> failure.retryable /\ r.attempts < Budget(kvm)]

(* Attempts add up whatever they were for; the budget is the latest failure's. *)
AfterVmFailure(r, failure) ==
    LET kvm == failure.kind = "kvm"
    IN  [attempts |-> r.attempts, kvm |-> kvm,
         retryDue |-> failure.retryable /\ r.attempts < Budget(kvm)]

(* Whether the record is still the one that r was a copy of. *)
SameRecord(r) ==
    /\ record.deployment = r.deployment
    /\ record.state = r.state
    /\ record.startedAt = r.startedAt
    /\ record.stopRequested = r.stopRequested

(* recordVmFailure: written only over the record the failure was found in. *)
FailureApplies(r, failure) ==
    /\ Present(record)
    /\ SameRecord(r)
    /\ record.desiredRunning
    /\ ~record.stopRequested
    /\ failure.kind = "boot" \/ ~starting

(* The recovery written into a record. *)
Recovering(r, recovery) ==
    [r EXCEPT !.attempts = recovery.attempts, !.retryDue = recovery.retryDue,
              !.kvm = recovery.kvm, !.revived = FALSE,
              !.state = IF recovery.retryDue THEN "starting" ELSE "failed"]

(* Mutated: a retry is written into the record and nobody is told. *)
RecordVmFailureQuietly(r, failure) ==
    /\ record' = IF FailureApplies(r, failure)
                   THEN Recovering(record, AfterVmFailure(r, failure)) ELSE record
    /\ UNCHANGED deferredWork

RecordVmFailure(r, failure) ==
    LET recovery == AfterVmFailure(r, failure)
    IN  IF FailureApplies(r, failure)
          THEN /\ record' = Recovering(record, recovery)
               /\ deferredWork' = (deferredWork \/ recovery.retryDue)
          ELSE UNCHANGED <<record, deferredWork>>

---------------------------------------------------------------------------
(* A reconcile pass *)

(* observeUnits takes the records and the start claims first ... *)
Observe ==
    /\ reconcile.pc = "observe"
    /\ reconcile' = [reconcile EXCEPT !.pc = "plan", !.seen = record, !.sawStarting = starting]
    /\ UNCHANGED <<accepted, saved, agentState, host, start, wake, capture, status, bounds>>

(* planInstances for one app.  An app neither recorded nor listed by systemd is
   not observed at all. *)
PlanInstance(desired, seen, sawStarting, unit, ranSinceBoot) ==
    LET active   == unit \in {"guest", "paused", "empty"}
        observed == Present(seen) \/ active \/ unit = "failed"
        running  == observed /\ (active \/ sawStarting)
        exited   == /\ ~active
                    /\ ranSinceBoot \/ seen.state = "pending"
                    /\ seen.startedAt # 0
                    /\ ~seen.stopRequested
    IN  CASE desired.mode = "absent" -> IF ~observed THEN "none"
                                        ELSE IF running THEN "stop" ELSE "forget"
          [] desired.mode = "stopped" -> IF running THEN "stop" ELSE "none"
          [] OTHER ->
               IF ~observed THEN "start"
               ELSE IF seen.deployment # desired.deployment THEN "replace"
               ELSE IF running \/ seen.state = "failed" THEN "none"
               ELSE IF seen.retryDue THEN "start"
               ELSE IF desired.mode = "on-request" THEN "sleep"
               ELSE IF exited THEN "none" ELSE "start"

(* ... and then asks systemd; an answer that cannot be had reads as no unit. *)
Plan ==
    /\ reconcile.pc = "plan"
    /\ \E answered \in BOOLEAN :
         /\ IF answered THEN UNCHANGED faults ELSE Fault
         /\ reconcile' = [reconcile EXCEPT
                !.pc = "sync", !.seen = NoRecord, !.sawStarting = FALSE,
                !.action = PlanInstance(reconcile.desired, reconcile.seen, reconcile.sawStarting,
                                        IF answered THEN vm ELSE "off",
                                        answered /\ ranThisBoot)]
    /\ UNCHANGED <<accepted, saved, agentState, host, start, wake, capture, status,
                   changes, asks, restarts>>

FirstStep == [stop |-> "stopMark", replace |-> "stopMark", forget |-> "discard",
              sleep |-> "sleep", start |-> "claim", none |-> "persist"]

(* Mutated: only the plan says whether work is left. *)
HasPlannedWork == reconcile.action \in {"start", "replace"}

(* Mutated: a replacement is taken to be made once it is planned. *)
HasWorkToStart == reconcile.action = "start" \/ record.retryDue

(* hasDeferredWork, of the plan and of the record as it is by now. *)
HasDeferredWork == reconcile.action \in {"start", "replace"} \/ record.retryDue

(* deferredWork is written over, and then syncDesired folds the desired state into the record. *)
Sync ==
    /\ reconcile.pc = "sync"
    /\ deferredWork' = HasDeferredWork
    /\ record' = IF reconcile.desired.mode = "absent" THEN record
                 ELSE Update(record, [record EXCEPT
                          !.desiredRunning = reconcile.desired.mode # "stopped",
                          !.onRequest = reconcile.desired.mode = "on-request"])
    /\ reconcile' = [reconcile EXCEPT !.pc = FirstStep[reconcile.action]]
    /\ UNCHANGED <<accepted, saved, starting, snapshotting, host, start, wake, capture,
                   status, bounds>>

StopMark ==
    /\ reconcile.pc = "stopMark"
    /\ record' = Update(record, [record EXCEPT !.state = "stopping", !.stopRequested = TRUE])
    /\ reconcile' = [reconcile EXCEPT !.pc = "stopDiscard"]
    /\ UNCHANGED <<accepted, saved, starting, snapshotting, deferredWork, host, start, wake,
                   capture, status, bounds>>

(* VmManager.stop: the snapshot, then the unit.  A stop that fails is logged
   and the pass goes on as if it had not. *)
StopDiscard ==
    /\ reconcile.pc = "stopDiscard"
    /\ \/ /\ Discard
          /\ reconcile' = [reconcile EXCEPT !.pc = "stopUnit"]
          /\ UNCHANGED faults
       \/ /\ Fault
          /\ reconcile' = [reconcile EXCEPT !.pc = "stopDone"]
          /\ UNCHANGED <<stamp, files>>
    /\ UNCHANGED <<accepted, saved, agentState, vm, ranThisBoot, start, wake, capture,
                   status, changes, asks, restarts>>

StopUnit ==
    /\ reconcile.pc = "stopUnit"
    /\ \/ vm' = Stopped /\ UNCHANGED faults
       \/ Fault /\ UNCHANGED vm
    /\ reconcile' = [reconcile EXCEPT !.pc = "stopDone"]
    /\ UNCHANGED <<accepted, saved, agentState, ranThisBoot, stamp, files, start, wake,
                   capture, status, changes, asks, restarts>>

StopDone ==
    /\ reconcile.pc = "stopDone"
    /\ record' = Update(record, [record EXCEPT !.state = "stopped", !.attempts = 0,
                            !.retryDue = FALSE, !.kvm = FALSE, !.revived = FALSE])
    /\ reconcile' = [reconcile EXCEPT !.pc = IF reconcile.action = "replace" THEN "discard"
                                                                             ELSE "persist"]
    /\ UNCHANGED <<accepted, saved, starting, snapshotting, deferredWork, host, start, wake,
                   capture, status, bounds>>

(* VmManager.discard.  A replacement it fails ends the pass with work deferred. *)
DiscardVm ==
    /\ reconcile.pc = "discard"
    /\ \/ /\ Discard
          /\ vm' = IF vm = "failed" THEN "off" ELSE vm
          /\ reconcile' = [reconcile EXCEPT !.pc = "drop"]
          /\ UNCHANGED <<deferredWork, faults>>
       \/ /\ Fault
          /\ deferredWork' = (deferredWork \/ reconcile.action = "replace")
          /\ reconcile' = IdleReconcile
          /\ UNCHANGED <<vm, stamp, files>>
    /\ UNCHANGED <<accepted, saved, record, starting, snapshotting, ranThisBoot, start, wake,
                   capture, status, changes, asks, restarts>>

DropRecord ==
    /\ reconcile.pc = "drop"
    /\ record' = NoRecord
    /\ reconcile' = [reconcile EXCEPT !.pc = IF reconcile.action = "replace" THEN "claim"
                                                                             ELSE "persist"]
    /\ UNCHANGED <<accepted, saved, starting, snapshotting, deferredWork, host, start, wake,
                   capture, status, bounds>>

SleepInstance ==
    /\ reconcile.pc = "sleep"
    /\ record' = IF Present(record)
                   THEN [record EXCEPT !.deployment = reconcile.desired.deployment,
                                       !.desiredRunning = TRUE, !.onRequest = TRUE]
                   ELSE NewRecord(reconcile.desired, "idle")
    /\ reconcile' = [reconcile EXCEPT !.pc = "persist"]
    /\ UNCHANGED <<accepted, saved, starting, snapshotting, deferredWork, host, start, wake,
                   capture, status, bounds>>

(* Mutated: an app is claimed whoever has it. *)
AlwaysClaimed == TRUE

(* claimStart: refused while someone else is starting the app. *)
Claimable == ~starting

(* startInstance: an app someone else is starting is left to them. *)
ClaimStart ==
    /\ reconcile.pc = "claim"
    /\ IF Claimable
         THEN /\ starting' = TRUE
              /\ start' = [start EXCEPT !["reconcile"] = [IdleStart EXCEPT
                                !.pc = "read", !.desired = reconcile.desired]]
              /\ reconcile' = [reconcile EXCEPT !.pc = "starting"]
         ELSE /\ reconcile' = [reconcile EXCEPT !.pc = "persist"]
              /\ UNCHANGED <<starting, start>>
    /\ UNCHANGED <<accepted, saved, record, snapshotting, deferredWork, host, wake, capture,
                   status, bounds>>

Persist ==
    /\ reconcile.pc = "persist"
    /\ saved' = Saved(record)
    /\ reconcile' = IdleReconcile
    /\ UNCHANGED <<accepted, agentState, host, start, wake, capture, status, bounds>>

---------------------------------------------------------------------------
(* attemptStartInstance, under the start claim of p *)

(* releaseStart; a reconcile pass goes on to persist. *)
EndStart(p) ==
    /\ starting' = FALSE
    /\ start' = [start EXCEPT ![p] = IdleStart]
    /\ reconcile' = IF p = "reconcile" THEN [reconcile EXCEPT !.pc = "persist"] ELSE reconcile

(* isStartable refuses a failed app, and a retry whose time has not come. *)
NotStartable(p) ==
    /\ start[p].pc = "read"
    /\ record.state = "failed" \/ record.retryDue
    /\ EndStart(p)
    /\ UNCHANGED <<accepted, saved, record, snapshotting, deferredWork, host, wake, capture,
                   status, bounds>>

Startable(p) ==
    /\ start[p].pc = "read"
    /\ record.state # "failed"
    /\ start' = [start EXCEPT ![p].pc = "attempt", ![p].attempted =
                     IF Present(record) THEN record ELSE NewRecord(start[p].desired, "pending")]
    /\ UNCHANGED <<accepted, saved, agentState, host, reconcile, wake, capture, status,
                   bounds>>

(* The attempt is written over whatever the record has become meanwhile. *)
Attempt(p) ==
    LET existing == start[p].attempted
    IN  /\ start[p].pc = "attempt"
        /\ \E t \in Tokens :
             /\ Fresh(t)
             /\ record' = [existing EXCEPT
                    !.state = "pending", !.everHealthy = FALSE, !.startedAt = t,
                    !.attempts = IF existing.retryDue THEN @ + 1 ELSE @,
                    !.retryDue = FALSE, !.revived = FALSE, !.stopRequested = FALSE]
        /\ start' = [start EXCEPT ![p].pc = "discard", ![p].attempted = record']
        /\ capture' = Touched(capture)
        /\ UNCHANGED <<accepted, saved, starting, snapshotting, deferredWork, host, reconcile,
                       wake, status, bounds>>

(* VmManager.boot: the snapshot goes, files are staged, the unit is started. *)
BootDiscard(p) ==
    /\ start[p].pc = "discard"
    /\ \/ Discard /\ start' = [start EXCEPT ![p].pc = "launch"] /\ UNCHANGED faults
       \/ Fault /\ start' = [start EXCEPT ![p].pc = "failed"] /\ UNCHANGED <<stamp, files>>
    /\ UNCHANGED <<accepted, saved, agentState, vm, ranThisBoot, reconcile, wake, capture,
                   status, changes, asks, restarts>>

BootLaunch(p) ==
    /\ start[p].pc = "launch"
    /\ \/ SystemdStart /\ start' = [start EXCEPT ![p].pc = "booted"] /\ UNCHANGED faults
       \/ Fault /\ start' = [start EXCEPT ![p].pc = "failed"] /\ UNCHANGED host
    /\ UNCHANGED <<accepted, saved, agentState, reconcile, wake, capture, status,
                   changes, asks, restarts>>

(* A boot that succeeded puts the attempt back, whatever the record is by now. *)
Booted(p) ==
    /\ start[p].pc = "booted"
    /\ \E t \in Tokens :
         /\ Fresh(t)
         /\ record' = [start[p].attempted EXCEPT !.state = "starting", !.startedAt = t]
    /\ EndStart(p)
    /\ UNCHANGED <<accepted, saved, snapshotting, deferredWork, host, wake, capture, status,
                   bounds>>

BootFailed(p) ==
    /\ start[p].pc = "failed"
    /\ RecordVmFailure(start[p].attempted, BootFailure)
    /\ EndStart(p)
    /\ UNCHANGED <<accepted, saved, snapshotting, host, wake, capture, status, bounds>>

---------------------------------------------------------------------------
(* AppWaker.boot and attemptResumeInstance *)

(* A visitor, a cron run, a query of its database or of its files finds the app
   idle and desired state calling it on-request.  Those that come while one is
   being answered join it. *)
Request ==
    /\ wake.pc = "idle"
    /\ record.state = "idle"
    /\ accepted.mode = "on-request"
    /\ Ask
    /\ wake' = [IdleWake EXCEPT !.pc = "asked", !.desired = accepted]
    /\ UNCHANGED <<accepted, saved, agentState, host, reconcile, start, capture, status,
                   changes, faults, restarts>>

ClaimWake ==
    /\ wake.pc = "asked"
    /\ IF Claimable /\ record.state # "failed" /\ ~record.retryDue
         THEN wake' = [wake EXCEPT !.pc = "status", !.seen = record] /\ starting' = TRUE
         ELSE wake' = IdleWake /\ UNCHANGED starting
    /\ UNCHANGED <<accepted, saved, record, snapshotting, deferredWork, host, reconcile,
                   start, capture, status, bounds>>

(* Nothing to wake, or a start someone else is in the middle of. *)
WakeStatus ==
    /\ wake.pc = "status"
    /\ IF Active \/ (Present(wake.seen) /\ wake.seen.state \notin {"idle", "stopped"})
         THEN wake' = IdleWake /\ starting' = FALSE /\ UNCHANGED capture
         ELSE /\ wake' = [wake EXCEPT !.pc = "check", !.seen = NoRecord]
              /\ capture' = Touched(capture)
              /\ UNCHANGED starting
    /\ UNCHANGED <<accepted, saved, record, snapshotting, deferredWork, host, reconcile,
                   start, status, bounds>>

(* VmManager.wake: a stamp that is not of this deployment and this boot of the
   host is thrown away, and the app is cold-booted. *)
WakeCheck ==
    /\ wake.pc = "check"
    /\ IF stamp = [deployment |-> wake.desired.deployment, thisBoot |-> TRUE]
         THEN wake' = [wake EXCEPT !.pc = "launch"] /\ UNCHANGED <<stamp, files, start>>
         ELSE /\ Discard
              /\ start' = [start EXCEPT !["wake"] = [IdleStart EXCEPT
                                !.pc = "read", !.desired = wake.desired]]
              /\ wake' = IdleWake
    /\ UNCHANGED <<accepted, saved, agentState, vm, ranThisBoot, reconcile, capture, status,
                   bounds>>

WakeLaunch ==
    /\ wake.pc = "launch"
    /\ \/ SystemdStart /\ wake' = [wake EXCEPT !.pc = "load"] /\ UNCHANGED faults
       \/ Fault /\ wake' = [wake EXCEPT !.pc = "failed"] /\ UNCHANGED host
    /\ UNCHANGED <<accepted, saved, agentState, reconcile, start, capture, status,
                   changes, asks, restarts>>

(* Firecracker loads only into a process given nothing, from files that are
   there.  A load that is refused stops the unit, and so does a load, a resume or
   a neighbour refresh that fails: but a stop that fails too is ignored, and what
   had come of the load stays up. *)
WakeLoad ==
    LET loadable == vm = "empty" /\ files \in Images
    IN  /\ wake.pc = "load"
        /\ \/ /\ loadable
              /\ vm' = "guest" /\ files' = "stale"
              /\ wake' = [wake EXCEPT !.pc = "restored"]
              /\ UNCHANGED faults
           \/ /\ ~loadable
              /\ vm' = Stopped
              /\ wake' = [wake EXCEPT !.pc = "failed"]
              /\ UNCHANGED <<files, faults>>
           \/ /\ Fault
              /\ \/ vm' \in {vm, Stopped} /\ UNCHANGED files
                 \/ loadable /\ vm' = "paused" /\ UNCHANGED files
                 \/ loadable /\ vm' \in {"guest", "off"} /\ files' = "stale"
              /\ wake' = [wake EXCEPT !.pc = "failed"]
        /\ UNCHANGED <<accepted, saved, agentState, ranThisBoot, stamp, reconcile, start, capture,
                       status, changes, asks, restarts>>

(* forgetSnapshot on every way out, and then what became of it. *)
Restored ==
    /\ wake.pc = "restored"
    /\ Discard
    /\ \E t \in Tokens :
         /\ Fresh(t)
         /\ record' = Update(record, [record EXCEPT !.state = "starting", !.startedAt = t,
                                                    !.stopRequested = FALSE])
    /\ starting' = FALSE
    /\ wake' = IdleWake
    /\ UNCHANGED <<accepted, saved, snapshotting, deferredWork, vm, ranThisBoot, reconcile,
                   start, capture, status, bounds>>

WakeFailed ==
    LET latest   == [record EXCEPT !.stopRequested = FALSE]
        recovery == AfterVmFailure(latest, BootFailure)
    IN  /\ wake.pc = "failed"
        /\ Discard
        /\ IF /\ Present(record) /\ record.deployment = wake.desired.deployment
              /\ record.desiredRunning /\ record.state # "stopped"
             THEN /\ record' = Recovering(latest, recovery)
                  /\ deferredWork' = (deferredWork \/ recovery.retryDue)
             ELSE UNCHANGED <<record, deferredWork>>
        /\ starting' = FALSE
        /\ wake' = IdleWake
        /\ UNCHANGED <<accepted, saved, snapshotting, vm, ranThisBoot, reconcile, start,
                       capture, status, bounds>>

---------------------------------------------------------------------------
(* The measurement loop: applySleep, suspendInstance, VmManager.sleep *)

(* The status and measurement loops begin once run's first pass is over. *)
LoopsRun == reconcile.pc = "idle" \/ ~reconcile.first

MeasureQuiet ==
    /\ capture.pc = "idle"
    /\ LoopsRun
    /\ accepted.mode = "on-request"
    /\ record.state = "running" /\ record.onRequest /\ record.desiredRunning
    /\ Ask
    /\ capture' = [IdleCapture EXCEPT !.pc = "quiet", !.deployment = record.deployment]
    /\ UNCHANGED <<accepted, saved, agentState, host, reconcile, start, wake, status,
                   changes, faults, restarts>>

(* An app active since the measurement is left up; another is marked as being
   captured, and its filesystem is settled. *)
BeginCapture ==
    /\ capture.pc = "quiet"
    /\ IF capture.touched
         THEN capture' = IdleCapture /\ UNCHANGED snapshotting
         ELSE capture' = [capture EXCEPT !.pc = "refuse"] /\ snapshotting' = TRUE
    /\ UNCHANGED <<accepted, saved, record, starting, deferredWork, host, reconcile, start,
                   wake, status, bounds>>

EndCapture == capture' = IdleCapture /\ snapshotting' = FALSE

(* refusalToSnapshot and refusalToSleep, on the record as it is now.  The disk
   may refuse as well. *)
RefuseCapture ==
    /\ capture.pc = "refuse"
    /\ \/ EndCapture
       \/ /\ vm \in {"guest", "paused"}
          /\ Present(record) /\ ~record.stopRequested /\ record.desiredRunning
          /\ record.everHealthy
          /\ capture' = [capture EXCEPT !.pc = "discard"]
          /\ UNCHANGED snapshotting
    /\ UNCHANGED <<accepted, saved, record, starting, deferredWork, host, reconcile, start,
                   wake, status, bounds>>

CaptureDiscard ==
    /\ capture.pc = "discard"
    /\ stamp' = NoStamp /\ files' = "empty"
    /\ capture' = [capture EXCEPT !.pc = "snapshot"]
    /\ UNCHANGED <<accepted, saved, agentState, vm, ranThisBoot, reconcile, start, wake,
                   status, bounds>>

(* Pause and createSnapshot; either failing leaves the guest running. *)
TakeSnapshot ==
    /\ capture.pc = "snapshot"
    /\ IF vm \in {"guest", "paused"} /\ files # "absent"
         THEN /\ vm' = "paused" /\ files' = "fresh"
              /\ capture' = [capture EXCEPT !.pc = "stop"]
              /\ UNCHANGED snapshotting
         ELSE EndCapture /\ UNCHANGED <<vm, files>>
    /\ UNCHANGED <<accepted, saved, record, starting, deferredWork, ranThisBoot, stamp,
                   reconcile, start, wake, status, bounds>>

(* A unit that would not stop is resumed, and the image is of the past. *)
CaptureStop ==
    /\ capture.pc = "stop"
    /\ \/ /\ vm' = Stopped
          /\ capture' = [capture EXCEPT !.pc = "stamp"]
          /\ UNCHANGED <<snapshotting, files, faults>>
       \/ /\ Fault
          /\ EndCapture
          /\ vm' = IF vm = "paused" THEN "guest" ELSE vm
          /\ files' = IF vm = "paused" /\ files = "fresh" THEN "stale" ELSE files
    /\ UNCHANGED <<accepted, saved, record, starting, deferredWork, ranThisBoot, stamp,
                   reconcile, start, wake, status, changes, asks, restarts>>

(* writeJsonFile makes the directory where there is none. *)
WriteStamp ==
    /\ capture.pc = "stamp"
    /\ stamp' = [deployment |-> capture.deployment, thisBoot |-> TRUE]
    /\ files' = IF files = "absent" THEN "empty" ELSE files
    /\ capture' = [capture EXCEPT !.pc = "record"]
    /\ UNCHANGED <<accepted, saved, agentState, vm, ranThisBoot, reconcile, start, wake,
                   status, bounds>>

RecordSleep ==
    /\ capture.pc = "record"
    /\ record' = Update(record, [record EXCEPT !.state = "idle", !.stopRequested = TRUE])
    /\ EndCapture
    /\ UNCHANGED <<accepted, saved, starting, deferredWork, host, reconcile, start, wake,
                   status, bounds>>

---------------------------------------------------------------------------
(* The status loop: refreshStates, settle *)

StatusTick ==
    /\ status.pc = "idle"
    /\ LoopsRun
    /\ IF Present(record) /\ ~starting
         THEN /\ status' = [IdleStatus EXCEPT !.pc = "unit", !.seen = record,
                                              !.sawSnapshotting = snapshotting]
              /\ UNCHANGED saved
         ELSE saved' = Saved(record) /\ UNCHANGED status
    /\ UNCHANGED <<accepted, agentState, host, reconcile, start, wake, capture, bounds>>

ReadUnit ==
    /\ status.pc = "unit"
    /\ status' = [status EXCEPT !.pc = "settle", !.unit = vm]
    /\ UNCHANGED <<accepted, saved, agentState, host, reconcile, start, wake, capture, bounds>>

EvaluateStoppedState(r, captured) ==
    LET down == IF r.onRequest /\ r.desiredRunning THEN "idle" ELSE "stopped"
    IN  IF r.stopRequested \/ captured \/ ~r.desiredRunning THEN down
        ELSE IF r.startedAt # 0 THEN "failed"
        ELSE IF r.onRequest /\ r.state # "pending" THEN down ELSE "pending"

EvaluateInstanceState(r, unit, probe, everHealthy, captured, withinGrace) ==
    IF unit = "failed" /\ r.desiredRunning /\ ~r.stopRequested /\ ~captured THEN "failed"
    ELSE IF unit \in {"off", "failed"} THEN EvaluateStoppedState(r, captured)
    ELSE IF r.stopRequested THEN "stopping"
    ELSE IF probe = "healthy" THEN "running"
    ELSE IF ~withinGrace THEN IF everHealthy THEN "unhealthy" ELSE "failed"
    ELSE IF everHealthy THEN "running" ELSE "starting"

(* A guest may answer a probe or not, nothing else answers one. *)
ProbeResults(unit) == IF unit = "guest" THEN {"healthy", "unhealthy"} ELSE {"unhealthy"}

IsAwaitingRecovery(r) ==
    (r.retryDue \/ r.state = "failed") /\ r.desiredRunning /\ ~r.stopRequested

ShouldRecover(r, state, captured) ==
    state = "failed" /\ r.state # "failed" /\ r.desiredRunning /\ ~r.stopRequested /\ ~captured

(* What was measured, merged into the record as it stands. *)
Merge(r, state, everHealthy, recovered) ==
    LET due == ~recovered /\ r.retryDue
    IN  record' = IF SameRecord(r)
                    THEN [record EXCEPT
                            !.state = state, !.everHealthy = everHealthy,
                            !.attempts = IF recovered THEN 0 ELSE r.attempts,
                            !.retryDue = due, !.kvm = ~recovered /\ r.kvm,
                            !.revived = due /\ (record.retryDue => record.revived)]
                    ELSE record

(* verdict: a microVM that is up has failed its probes for good; the console of
   one that is down may tell why, if there was a start to read it from. *)
Verdict(r, unit) ==
    LET down == unit \in {"off", "failed"}
    IN  {f \in Failures : /\ f.kind # "boot"
                          /\ f.kind = "kvm" => down /\ r.startedAt # 0 /\ f.retryable
                          /\ f.retryable => down
                          /\ down /\ r.startedAt = 0 => f.retryable}

(* settle, once the probe has come back: withinGrace, failure and reset are what
   the clock and the unit's exit make of it. *)
SettleMeasured(r, probe, withinGrace, failure, reset) ==
    LET everHealthy == r.everHealthy \/ probe = "healthy"
        state       == EvaluateInstanceState(r, status.unit, probe, everHealthy,
                                             status.sawSnapshotting, withinGrace)
        recovered   == \/ ~r.desiredRunning
                       \/ reset /\ state = "running" /\ probe = "healthy"
    IN  IF ShouldRecover(r, state, status.sawSnapshotting)
          THEN RecordVmFailure(r, failure)
          ELSE Merge(r, state, everHealthy, recovered) /\ UNCHANGED deferredWork

(* A record that awaits its retry is left to it. *)
Settle ==
    /\ status.pc = "settle"
    /\ \/ IsAwaitingRecovery(status.seen) /\ UNCHANGED <<record, deferredWork>>
       \/ /\ ~IsAwaitingRecovery(status.seen)
          /\ \E probe \in ProbeResults(status.unit), withinGrace, reset \in BOOLEAN,
                failure \in Verdict(status.seen, status.unit) :
               SettleMeasured(status.seen, probe, withinGrace, failure, reset)
    /\ status' = [IdleStatus EXCEPT !.pc = IF MaxRestarts = 0 THEN "idle" ELSE "persist"]
    /\ UNCHANGED <<accepted, saved, starting, snapshotting, host, reconcile, start, wake,
                   capture, bounds>>

PersistStatus ==
    /\ status.pc = "persist"
    /\ saved' = Saved(record)
    /\ status' = IdleStatus
    /\ UNCHANGED <<accepted, agentState, host, reconcile, start, wake, capture, bounds>>

---------------------------------------------------------------------------
(* What happens to them all *)

(* A guest that powers off, or a VMM that dies. *)
VmCrash ==
    /\ Active
    /\ Fault
    /\ vm' \in {"off", "failed"}
    /\ UNCHANGED <<accepted, saved, agentState, ranThisBoot, stamp, files, fibers,
                   changes, asks, restarts>>

(* load, and then run's first pass over the cached desired state.  Units are
   not the agent's children and outlive it. *)
Restart ==
    /\ restarts < MaxRestarts
    /\ restarts' = restarts + 1
    /\ record' = saved
    /\ starting' = FALSE /\ snapshotting' = FALSE /\ deferredWork' = FALSE
    /\ reconcile' = [IdleReconcile EXCEPT !.pc = "observe", !.desired = accepted, !.first = TRUE]
    /\ start' = [p \in Starters |-> IdleStart]
    /\ wake' = IdleWake /\ capture' = IdleCapture /\ status' = IdleStatus
    /\ UNCHANGED <<accepted, saved, changes, asks, faults>>

AgentDies == Restart /\ UNCHANGED host

HostReboots ==
    /\ Restart
    /\ vm' = "off" /\ ranThisBoot' = FALSE
    /\ stamp' = [stamp EXCEPT !.thisBoot = FALSE]
    /\ UNCHANGED files

ReconcileStep ==
    \/ Observe \/ Plan \/ Sync \/ StopMark \/ StopDiscard \/ StopUnit \/ StopDone \/ DiscardVm
    \/ DropRecord \/ SleepInstance \/ ClaimStart \/ Persist

StartStep(p) ==
    \/ NotStartable(p) \/ Startable(p) \/ Attempt(p) \/ BootDiscard(p) \/ BootLaunch(p)
    \/ Booted(p) \/ BootFailed(p)

WakeStep == ClaimWake \/ WakeStatus \/ WakeCheck \/ WakeLaunch \/ WakeLoad \/ Restored \/ WakeFailed

CaptureStep ==
    \/ BeginCapture \/ RefuseCapture \/ CaptureDiscard \/ TakeSnapshot \/ CaptureStop
    \/ WriteStamp \/ RecordSleep

StatusStep == ReadUnit \/ Settle \/ PersistStatus

Next ==
    \/ Poll \/ ReconcileStep
    \/ \E p \in Starters : StartStep(p)
    \/ Request \/ WakeStep
    \/ MeasureQuiet \/ CaptureStep
    \/ StatusTick \/ StatusStep
    \/ VmCrash \/ AgentDies \/ HostReboots

Spec == Init /\ [][Next]_vars

(* Every loop keeps running and every fiber gets to its end; a retry whose time
   keeps not having come is made in the end.  Requests and quiet spells are
   nobody's obligation. *)
Fairness ==
    /\ WF_vars(deferredWork /\ Poll) /\ WF_vars(ReconcileStep)
    /\ \A p \in Starters : WF_vars(StartStep(p)) /\ SF_vars(Startable(p))
    /\ WF_vars(WakeStep) /\ WF_vars(CaptureStep)
    /\ WF_vars(StatusTick) /\ WF_vars(StatusStep)

FairSpec == Spec /\ Fairness

---------------------------------------------------------------------------

(* The variables are of the shapes the agent keeps. *)
TypeOK ==
    /\ accepted \in Desires
    /\ record \in Records /\ saved \in Records
    /\ starting \in BOOLEAN /\ snapshotting \in BOOLEAN /\ deferredWork \in BOOLEAN
    /\ vm \in VmStates /\ ranThisBoot \in BOOLEAN /\ stamp \in Stamps /\ files \in FileStates
    /\ reconcile \in Passes
    /\ start \in [Starters -> Boots]
    /\ wake \in Wakes
    /\ capture \in Captures
    /\ status \in StatusPasses
    /\ changes \in 0..MaxChanges /\ asks \in 0..MaxAsks
    /\ faults \in 0..MaxFaults /\ restarts \in 0..MaxRestarts

(* The start claim is held by the one boot or wake that is under way: never by
   two, never by nobody, and a pass that waits for its boot is the one that has
   it. *)
OneStarter ==
    LET Busy(p) == start[p].pc # "idle"
        resuming == wake.pc \notin {"idle", "asked"}
    IN  /\ starting <=> (\E p \in Starters : Busy(p)) \/ resuming
        /\ \A p, q \in Starters : Busy(p) /\ Busy(q) => p = q
        /\ ~(resuming /\ \E p \in Starters : Busy(p))
        /\ reconcile.pc = "starting" <=> Busy("reconcile")

(* However its failures are found, in a boot, a restore or a status pass, and
   whichever of them writes last, an app is retried within the budget of the
   failure it is retried for: a count that failures to enter KVM have run up past
   MaxRetries is not added to on account of any other. *)
WithinRetryBudget ==
    /\ record.attempts <= MaxKvmRetries
    /\ record.retryDue => record.attempts < Budget(record.kvm)

(* A guest is put back only from an image of the guest that last used its disk:
   never from one the disk has moved on from, unless a pass put a guest on the
   disk in the middle of the capture. *)
RestoresOnlyFresh == [][vm = "empty" /\ vm' = "guest" => files \in {"fresh", "overtaken"}]_vars

(* Nothing is in flight and nothing will make the poll loop reconcile. *)
Quiescent ==
    /\ reconcile.pc = "idle" /\ wake.pc = "idle" /\ capture.pc = "idle"
    /\ \A p \in Starters : start[p].pc = "idle"
    /\ ~deferredWork

(* When the host has settled on what the control plane last asked for, the
   record is of the deployment it asked for. *)
DeploymentConverges ==
    Quiescent /\ accepted.mode \in {"running", "on-request"} =>
        Present(record) /\ record.deployment = accepted.deployment

(* A retry that is due is one the poll loop will come back for: deferredWork,
   which each pass writes over, is not lost.  It is lost to a retry that a stop
   withdrew and a status pass merged back. *)
RetryIsScheduled ==
    record.retryDue /\ ~record.revived /\ record.desiredRunning /\ ~record.stopRequested =>
        deferredWork \/ reconcile.pc \in {"observe", "plan", "sync"}

(* An app whose retry is due is not left down: the retry is made, or stops being
   due, or the app stops being wanted, however often requests, captures and
   settlings get in its way.  Nobody makes the retry of a unit that is up, nor
   one that a stop withdrew and a status pass merged back. *)
RetryIsMade ==
    LET wanted == accepted.mode \in {"running", "on-request"}
        owed   == record.retryDue /\ ~record.revived
    IN  owed /\ wanted ~> ~owed \/ ~wanted \/ Active

---------------------------------------------------------------------------
(* What the repository says of itself and the code does not keep *)

(* plan.ts: "a microVM the control plane does not mention is stopped".  When the
   host has settled on desired state that does not want the app up, it is not. *)
NotWantedIsDown ==
    Quiescent /\ accepted.mode \in {"stopped", "absent"} => ~Active

(* vm_launch.sh: "an agent that dies between this exec and the load leaves a
   microVM that cold-boots off its disk".  A VMM given nothing to run does not
   stay so. *)
EmptyVmmIsReplaced == vm = "empty" ~> vm # "empty"

(* settle: a stop flag left on an instance that is up is "a state nothing
   forwards to and no later pass leaves".  An app that is wanted and up, on a
   settled host, does not carry it. *)
UpIsNotStopping ==
    Quiescent /\ accepted.mode \in {"running", "on-request"} /\ Active => ~record.stopRequested
===========================================================================
