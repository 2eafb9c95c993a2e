------------------------------ MODULE Releases ------------------------------
(***************************************************************************)
(* One app's releases as the control plane keeps them (apps/api/src): the  *)
(* app's row, its deployments rows, and everyone who writes them.          *)
(*                                                                         *)
(* The owner deploys, rolls back, suspends and deletes.  Every report of a *)
(* host is applied by acceptReport, which reads the live deployments,      *)
(* works out what each becomes and writes that back in later statements;   *)
(* what it read may be out of date by then, the report may have waited     *)
(* before it was read, and two calls overlap when an agent gives up on one *)
(* and makes the next.  A transaction that locks the app's row is one      *)
(* step, and so is each statement of acceptReport that decides something.  *)
(*                                                                         *)
(* Of the app's host (apps/agent/src) only what its reports rest on is     *)
(* here: it fetches its document, brings the volume and its record of the  *)
(* app in line with it or fails to, and reports; how it does is in         *)
(* HostStorage and InstanceLifecycle.  A deadline is whether it has        *)
(* passed, a choice at the moment it is looked at, since any time may pass *)
(* between two steps.  Config versions, exports and the storage migration  *)
(* are in StorageMigrations.                                               *)
(***************************************************************************)
EXTENDS Naturals

CONSTANTS
    Handlers,        \* calls of acceptReport that may be under way at once
    MaxDeployments,  \* bound: deployments ever inserted
    MaxFailures      \* bound: handlers that die part way

ASSUME ConstantsAssumption == MaxDeployments \in Nat /\ MaxFailures \in Nat

DeploymentIds == 1..MaxDeployments

VARIABLES
    app,         \* apps.state
    deployment,  \* each deployments row's state, or "none"
    deployments, \* how many have been inserted: the newest one's id
    activated,   \* deployments whose activated_at is set
    deleting,    \* where an `AppsService.delete` has got to
    handler,     \* each acceptReport: where it is, its report, what it decided
    host,        \* what the app's host has come to since it last fetched its document
    failures     \* handlers that have died so far

vars == <<app, deployment, deployments, activated, deleting, handler, host, failures>>

States == {"pending", "starting", "running", "stopped", "superseded", "failed"}
Over == {"superseded", "failed"}
ReportedStates == {"pending", "starting", "running", "idle", "unhealthy", "stopping",
                   "stopped", "failed"}

(* What acceptReport tells apart of a volume; any other state, and none, are "none". *)
VolumeStates == {"none", "failed", "deleted"}

(* A handler keeps of its report and of its decisions what it has yet to use. *)
Idle == [pc |-> "idle", instance |-> 0, volume |-> "none",
         observed |-> {}, activated |-> {}, failed |-> {}]

Init ==
    /\ app = "active"
    /\ deployment = [i \in DeploymentIds |-> "none"]
    /\ deployments = 0
    /\ activated = {}
    /\ deleting = "no"
    /\ handler = [r \in Handlers |-> Idle]
    /\ host = [instance |-> 0, volume |-> "none", held |-> FALSE]
    /\ failures = 0

---------------------------------------------------------------------------
(* The relations the statements are written against. *)

Written(i) == i \in DeploymentIds /\ deployment[i] # "none"

(* state NOT IN ('superseded', 'failed') *)
Live(i) == Written(i) /\ deployment[i] \notin Over

(* latest_app_deployments: an app that has been deployed, until it is purged. *)
Deployed == Written(deployments)

---------------------------------------------------------------------------
(* What an owner asks for. *)

(* Mutated: what was live is left as it was. *)
InsertBeside ==
    /\ app # "deleted"
    /\ deployments < MaxDeployments
    /\ deployments' = deployments + 1
    /\ deployment' = [deployment EXCEPT ![deployments + 1] = "pending"]
    /\ UNCHANGED <<app, activated, deleting, handler, host, failures>>

(* insertDeployment, insertRollback and a migration's deployDestination, under the
   app's lock: what was live is superseded and the new row begins pending.  An app
   being deleted is still one of live_apps, and may be deployed. *)
Insert ==
    /\ app # "deleted"
    /\ deployments < MaxDeployments
    /\ deployments' = deployments + 1
    /\ deployment' = [i \in DeploymentIds |->
            IF i = deployments + 1 THEN "pending"
            ELSE IF Live(i) THEN "superseded" ELSE deployment[i]]
    /\ UNCHANGED <<app, activated, deleting, handler, host, failures>>

(* setState: suspend and resume, which an app being deleted is past. *)
SetState(state) ==
    /\ app \in {"active", "suspended"}
    /\ app' = state
    /\ UNCHANGED <<deployment, deployments, activated, deleting, handler, host, failures>>

(* delete, by the owner or by `expire` in their name; asking again changes nothing. *)
Delete ==
    /\ app # "deleted"
    /\ deleting = "no"
    /\ app' = "deleting"
    /\ deleting' = "finish"
    /\ UNCHANGED <<deployment, deployments, activated, handler, host, failures>>

(* Mutated: an app none of whose releases is live is taken to have no volume. *)
FinishableUnlessLive == app = "deleting" /\ \A i \in DeploymentIds : ~ Live(i)

(* finishable_deletions: no host was ever told of a volume, so none will say it is gone. *)
Finishable == app = "deleting" /\ ~ Deployed

(* finishIfNothingToTearDown *)
FinishDelete ==
    /\ deleting = "finish"
    /\ deleting' = "no"
    /\ app' = IF Finishable THEN "deleted" ELSE app
    /\ UNCHANGED <<deployment, deployments, activated, handler, host, failures>>

---------------------------------------------------------------------------
(* The host: the deployment it has a record of, what it says of the volume, and whether
   it holds one. *)

(* desiredState, in one snapshot: the newest deployment that is not superseded, of an
   app that is neither going nor gone; a volume from the first deployment on, asked to
   go while the app is being deleted. *)
DesiredInstance == IF app \in {"active", "suspended"} THEN deployments ELSE 0
DesiredVolume ==
    CASE app = "deleted" -> "unmentioned" [] app = "deleting" -> "absent" [] OTHER -> "present"

(* What a pass may come to. Making or reattaching a volume may fail, having made it or
   not. A removal is said once it has been made; it may be held up, or fail, for ever, and
   one that was made may go untold, or be forgotten, with the agent. A volume that is not
   mentioned is left alone and no longer spoken of. *)
VolumeOutcomes ==
    CASE DesiredVolume = "present" -> [volume : {"none", "failed"}, held : {host.held, TRUE}]
      [] DesiredVolume = "absent" -> [volume : {"none"}, held : {host.held, FALSE}]
                                       \cup {[volume |-> "deleted", held |-> FALSE]}
      [] OTHER -> {[volume |-> "none", held |-> host.held]}

(* A fetch and the pass over what was fetched. *)
HostPass ==
    /\ Deployed
    /\ \E v \in VolumeOutcomes :
          host' = [instance |-> DesiredInstance, volume |-> v.volume, held |-> v.held]
    /\ UNCHANGED <<app, deployment, deployments, activated, deleting, handler, failures>>

(* A report is of the record and the volume as they are when it is made; which state it
   gives the record is open until it is read. *)
SendReport(r) ==
    /\ handler[r].pc = "idle"
    /\ \E i \in {0, host.instance} :
         handler' = [handler EXCEPT ![r] =
                [Idle EXCEPT !.pc = "read", !.instance = i, !.volume = host.volume]]
    /\ UNCHANGED <<app, deployment, deployments, activated, deleting, host, failures>>

---------------------------------------------------------------------------
(* acceptReport.  A loop over nothing is no step: the handler goes on to the next
   statement it has something to say with. *)

GoOn(h) ==
    [h EXCEPT !.pc = CASE h.observed # {} -> "apply"
                       [] h.observed = {} /\ h.activated # {} -> "stamp"
                       [] h.observed = {} /\ h.activated = {} /\ h.failed # {} -> "fail"
                       [] OTHER -> IF h.volume = "deleted" THEN "complete" ELSE "finish"]

(* Mutated: a release coming up takes the state its instance is reported in. *)
AdvanceStateAsReported(state, reported, desiredRunning, overdue) ==
    CASE state \in Over -> state
      [] reported # "none" -> reported
      [] OTHER -> IF desiredRunning /\ overdue THEN "failed" ELSE state

(* DeploymentLifecycle.advanceState: what a report, or its silence, moves a deployment to. *)
AdvanceState(state, reported, desiredRunning, overdue) ==
    CASE state \in Over -> state
      [] reported = "failed" -> "failed"
      [] ~ desiredRunning /\ reported = "stopped" -> "stopped"
      [] state = "running" \/ reported \in {"running", "idle"} -> "running"
      [] reported \in {"pending", "starting"} -> "starting"
      [] state = "stopped" -> "stopped"
      [] OTHER -> IF desiredRunning /\ overdue THEN "failed" ELSE state

(* applyHostReport up to its first write.  A pending release whose volume could not be
   made fails, whatever is said of its instance. *)
ReadLive(r) ==
    /\ handler[r].pc = "read"
    /\ \E overdue \in BOOLEAN, state \in ReportedStates :
         LET live == {i \in DeploymentIds : Live(i)}
             notCreated == {i \in live : deployment[i] = "pending" /\ handler[r].volume = "failed"}
             considered == live \ notCreated
             reported(i) == IF handler[r].instance = i THEN state ELSE "none"
             next(i) == AdvanceState(deployment[i], reported(i), app = "active", overdue)
         IN handler' = [handler EXCEPT ![r] =
              GoOn([handler[r] EXCEPT !.instance = 0,
                 !.volume = IF handler[r].volume = "deleted" THEN "deleted" ELSE "none",
                 !.observed = {<<i, next(i)>> : i \in {j \in considered : reported(j) # "none"}},
                 !.activated = {i \in considered : next(i) = "running" /\ deployment[i] # "running"},
                 !.failed = notCreated \cup
                              {i \in considered : reported(i) = "none" /\ next(i) = "failed"}])]
    /\ UNCHANGED <<app, deployment, deployments, activated, deleting, host, failures>>

(* applyReport: the row takes the state worked out for it, unless it has ended since. *)
ApplyReport(r) ==
    /\ handler[r].pc = "apply"
    /\ deployment' = [i \in DeploymentIds |->
            IF Live(i) /\ \E s \in States : <<i, s>> \in handler[r].observed
              THEN CHOOSE s \in States : <<i, s>> \in handler[r].observed
              ELSE deployment[i]]
    /\ handler' = [handler EXCEPT ![r] = GoOn([@ EXCEPT !.observed = {}])]
    /\ UNCHANGED <<app, deployments, activated, deleting, host, failures>>

(* Mutated: a release is stamped only while its app is still active. *)
StampWhileActive(r) ==
    /\ handler[r].pc = "stamp"
    /\ activated' = activated \cup {i \in handler[r].activated : Live(i) /\ app = "active"}
    /\ handler' = [handler EXCEPT ![r] = GoOn([@ EXCEPT !.activated = {}])]
    /\ UNCHANGED <<app, deployment, deployments, deleting, host, failures>>

(* stampActivation: once, for releases that have not ended. *)
StampActivation(r) ==
    /\ handler[r].pc = "stamp"
    /\ activated' = activated \cup {i \in handler[r].activated : Live(i)}
    /\ handler' = [handler EXCEPT ![r] = GoOn([@ EXCEPT !.activated = {}])]
    /\ UNCHANGED <<app, deployment, deployments, deleting, host, failures>>

(* Mutated: a release is failed though it has been superseded since it was read. *)
FailAll(r) ==
    /\ handler[r].pc = "fail"
    /\ deployment' = [i \in DeploymentIds |->
            IF Written(i) /\ i \in handler[r].failed THEN "failed" ELSE deployment[i]]
    /\ handler' = [handler EXCEPT ![r] = GoOn([@ EXCEPT !.failed = {}])]
    /\ UNCHANGED <<app, deployments, activated, deleting, host, failures>>

Fail(r) ==
    /\ handler[r].pc = "fail"
    /\ deployment' = [i \in DeploymentIds |->
            IF Live(i) /\ i \in handler[r].failed THEN "failed" ELSE deployment[i]]
    /\ handler' = [handler EXCEPT ![r] = GoOn([@ EXCEPT !.failed = {}])]
    /\ UNCHANGED <<app, deployments, activated, deleting, host, failures>>

(* completeDeletions: only a host that says the volume is gone ends a deletion. *)
CompleteDeletions(r) ==
    /\ handler[r].pc = "complete"
    /\ app' = IF app = "deleting" /\ Deployed THEN "deleted" ELSE app
    /\ handler' = [handler EXCEPT ![r] = GoOn([@ EXCEPT !.volume = "none"])]
    /\ UNCHANGED <<deployment, deployments, activated, deleting, host, failures>>

(* Mutated: nothing but its owner's request finishes an app that was never deployed. *)
FinishNothing(r) ==
    /\ handler[r].pc = "finish"
    /\ handler' = [handler EXCEPT ![r].pc = "purge"]
    /\ UNCHANGED <<app, deployment, deployments, activated, deleting, host, failures>>

FinishDeletions(r) ==
    /\ handler[r].pc = "finish"
    /\ app' = IF Finishable THEN "deleted" ELSE app
    /\ handler' = [handler EXCEPT ![r].pc = "purge"]
    /\ UNCHANGED <<deployment, deployments, activated, deleting, host, failures>>

(* purgeDeleted: the rows of an app that is gone, in one transaction. *)
PurgeDeleted(r) ==
    /\ handler[r].pc = "purge"
    /\ IF app = "deleted"
         THEN deployment' = [i \in DeploymentIds |-> "none"] /\ activated' = {}
         ELSE UNCHANGED <<deployment, activated>>
    /\ handler' = [handler EXCEPT ![r] = Idle]
    /\ UNCHANGED <<app, deployments, deleting, host, failures>>

(* The process dies or a statement fails: the rest of the handler is not run. *)
HandlerDies(r) ==
    /\ handler[r].pc # "idle"
    /\ failures < MaxFailures
    /\ failures' = failures + 1
    /\ handler' = [handler EXCEPT ![r] = Idle]
    /\ UNCHANGED <<app, deployment, deployments, activated, deleting, host>>

---------------------------------------------------------------------------

Handle(r) ==
    \/ ReadLive(r) \/ ApplyReport(r) \/ StampActivation(r) \/ Fail(r)
    \/ CompleteDeletions(r) \/ FinishDeletions(r) \/ PurgeDeleted(r)

Next ==
    \/ Insert \/ Delete \/ FinishDelete
    \/ \E state \in {"active", "suspended"} : SetState(state)
    \/ HostPass
    \/ \E r \in Handlers : SendReport(r) \/ Handle(r) \/ HandlerDies(r)

Spec == Init /\ [][Next]_vars

(* The agent reports on a timer, in a loop that is supervised, and a statement that is
   sent is answered.  Neither the owner nor a pass of the host owes anything. *)
Fairness == \A r \in Handlers : WF_vars(SendReport(r)) /\ WF_vars(Handle(r))

FairSpec == Spec /\ Fairness

---------------------------------------------------------------------------

(* The variables are of the shapes the tables, the handlers and the host keep. *)
TypeOK ==
    /\ app \in {"active", "suspended", "deleting", "deleted"}
    /\ deployment \in [DeploymentIds -> States \cup {"none"}]
    /\ deployments \in 0..MaxDeployments
    /\ activated \in SUBSET DeploymentIds
    /\ deleting \in {"no", "finish"}
    /\ handler \in [Handlers ->
         [pc : {"idle", "read", "apply", "stamp", "fail", "complete", "finish", "purge"},
          instance : 0..MaxDeployments,
          volume : VolumeStates, observed : SUBSET (DeploymentIds \X States),
          activated : SUBSET DeploymentIds, failed : SUBSET DeploymentIds]]
    /\ host \in [instance : 0..MaxDeployments, volume : VolumeStates, held : BOOLEAN]
    /\ failures \in 0..MaxFailures

(* Only the newest deployment is live: however late a handler writes, a release that a
   redeploy stood down does not come back beside the one that replaced it. *)
LiveIsNewest == \A i \in DeploymentIds : Live(i) => i = deployments

(* superseded and failed are where a release ends: until the app is purged, no report,
   overlapping handler or request moves it out of either. *)
TerminalStays ==
    [][\A i \in DeploymentIds :
         deployment[i] \in Over => deployment'[i] \in {deployment[i], "none"}]_vars

(* An app is called deleted only once no host holds its volume: not while a report
   from before is being applied, nor because a report leaves the volume out. *)
DeletedIsGone == app = "deleted" => ~ host.held

(* A release is running and unstamped only while a handler that saw it come up has yet
   to stamp it, or because one died in between: later reports find it running already. *)
UnstampedOnlyByFailure ==
    \A i \in DeploymentIds :
        deployment[i] = "running" /\ i \notin activated =>
            \/ failures > 0
            \/ \E r \in Handlers : handler[r].pc = "stamp" /\ i \in handler[r].activated

(* A deletion that its host comes to keep saying it has made, or of an app no host was
   told of, ends, and what it leaves behind is purged, though handlers die and the owner
   goes on deploying what is being deleted.  Whether the host comes to say so is for
   RemovalIsReported of HostStorage. *)
DeletionCompletes ==
    <>[](app = "deleting" /\ Deployed => host.volume = "deleted")
        => (app = "deleting" ~> (app = "deleted" /\ ~ Deployed))
===========================================================================
