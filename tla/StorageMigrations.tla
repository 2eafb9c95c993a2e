------------------------- MODULE StorageMigrations -------------------------
(***************************************************************************)
(* Where one app's volume is stored, as the control plane decides it       *)
(* (apps/api/src): config versions, the deployments that name them, the    *)
(* migration from the shared bucket to one of the app's own, and exports.  *)
(*                                                                         *)
(* Every request locks the app's row for its whole transaction, so each is *)
(* one step; but they come in any order, from an owner, from a migration   *)
(* worker that may have been told of an attempt long over, and from the    *)
(* sweep in acceptReport that ends attempts nobody started.                *)
(*                                                                         *)
(* The newest deployment's config says where the volume is; the newest     *)
(* config is the one the next deployment will take.  States of a release   *)
(* other than being inserted do not matter here: see Releases.             *)
(***************************************************************************)
EXTENDS Naturals

CONSTANTS
    Hosts,           \* the fleet
    NoHost,
    MaxDeployments,  \* bound: deployments ever inserted
    MaxConfigs,      \* bound: config versions ever written
    MaxExports       \* bound: exports ever requested

ASSUME ConstantsAssumption ==
    /\ NoHost \notin Hosts
    /\ MaxDeployments \in Nat /\ MaxExports \in Nat
    /\ MaxConfigs \in Nat \ {0}

DeploymentIds == 1..MaxDeployments
ConfigIds == 1..MaxConfigs
ExportIds == 1..MaxExports

VARIABLES
    app,         \* apps.state
    migration,   \* volume_storage_migration_{state, started_at, host_id}
    storageOf,   \* each config version's volume storage
    configs,     \* how many config versions there are: the newest one's id
    deployment,  \* each deployments row's config and host
    deployments, \* how many have been inserted: the newest one's id
    export,      \* each exports row's state
    exports,     \* how many have been requested
    deleting     \* where an `AppsService.delete` has got to

vars == <<app, migration, storageOf, configs, deployment, deployments, export, exports, deleting>>

(* A volume is in the shared bucket, or under the prefix minted for the config version
   that asked for a bucket of its own. *)
Shared == 0

NoMigration == [state |-> "none", started |-> FALSE, host |-> NoHost]
NoDeployment == [config |-> 1, host |-> NoHost]

Init ==
    /\ app = "active"
    /\ migration = NoMigration
    /\ storageOf = [c \in ConfigIds |-> Shared]
    /\ configs = 1
    /\ deployment = [i \in DeploymentIds |-> NoDeployment]
    /\ deployments = 0
    /\ export = [e \in ExportIds |-> "none"]
    /\ exports = 0
    /\ deleting = "no"

---------------------------------------------------------------------------

Pending == migration.state = "pending"
Running == app \in {"active", "suspended"}
Deployed == deployments > 0
AppHost == deployment[deployments].host

(* deployedConfig *)
DeployedConfig == deployment[deployments].config
DeployedStorage == storageOf[DeployedConfig]

(* exports_in_flight_idx: an export that is pending or preparing. *)
InFlight(e) == export[e] = "inFlight"

(* lockAppForMutation: everything but the migration itself waits for it to be over. *)
Locked == app # "deleted" /\ ~ Pending

(* appendConfigVersion *)
AppendConfig(storage) ==
    /\ configs < MaxConfigs
    /\ configs' = configs + 1
    /\ storageOf' = [storageOf EXCEPT ![configs + 1] = storage]

InsertDeployment(config, host) ==
    /\ deployments < MaxDeployments
    /\ deployments' = deployments + 1
    /\ deployment' = [deployment EXCEPT ![deployments + 1] = [config |-> config, host |-> host]]

---------------------------------------------------------------------------
(* What an owner asks for. *)

(* Mutated: a deployment names the version after the newest. *)
CreateFromNext ==
    /\ Locked
    /\ \E h \in Hosts : /\ Deployed => h = AppHost
                        /\ InsertDeployment(configs + 1, h)
    /\ UNCHANGED <<app, migration, storageOf, configs, export, exports, deleting>>

(* Mutated: a host is chosen for every deployment. *)
CreateAnywhere ==
    /\ Locked
    /\ \E h \in Hosts : InsertDeployment(configs, h)
    /\ UNCHANGED <<app, migration, storageOf, configs, export, exports, deleting>>

(* insertDeployment: the newest config, on the host the app has, or on any that is
   ready if it has none. *)
Create ==
    /\ Locked
    /\ \E h \in Hosts : /\ Deployed => h = AppHost
                        /\ InsertDeployment(configs, h)
    /\ UNCHANGED <<app, migration, storageOf, configs, export, exports, deleting>>

(* Mutated: the earlier release's config is replayed as it was. *)
RollbackAsItWas(i) ==
    /\ Locked
    /\ i <= deployments
    /\ InsertDeployment(deployment[i].config, AppHost)
    /\ UNCHANGED <<app, migration, storageOf, configs, export, exports, deleting>>

(* insertRollback: the earlier release's settings with the storage the volume is in
   now, as a new version where the two are not of one config. *)
Rollback(i) ==
    /\ Locked
    /\ i <= deployments
    /\ IF storageOf[deployment[i].config] = DeployedStorage
         THEN InsertDeployment(deployment[i].config, AppHost) /\ UNCHANGED <<storageOf, configs>>
         ELSE AppendConfig(DeployedStorage) /\ InsertDeployment(configs + 1, AppHost)
    /\ UNCHANGED <<app, migration, export, exports, deleting>>

(* update: a version that carries the newest one's storage forward. *)
Update ==
    /\ Locked
    /\ AppendConfig(storageOf[configs])
    /\ UNCHANGED <<app, migration, deployment, deployments, export, exports, deleting>>

SetState(state) ==
    /\ Locked /\ Running
    /\ app' = state
    /\ UNCHANGED <<migration, storageOf, configs, deployment, deployments, export, exports, deleting>>

(* Mutated: an export is asked for while a migration may be pending. *)
RequestExportAnyTime ==
    /\ app # "deleted" /\ Deployed
    /\ \A e \in ExportIds : ~ InFlight(e)
    /\ exports < MaxExports
    /\ exports' = exports + 1
    /\ export' = [export EXCEPT ![exports + 1] = "inFlight"]
    /\ UNCHANGED <<app, migration, storageOf, configs, deployment, deployments, deleting>>

RequestExport ==
    /\ Locked /\ Deployed
    /\ \A e \in ExportIds : ~ InFlight(e)
    /\ exports < MaxExports
    /\ exports' = exports + 1
    /\ export' = [export EXCEPT ![exports + 1] = "inFlight"]
    /\ UNCHANGED <<app, migration, storageOf, configs, deployment, deployments, deleting>>

(* exports.applyReport: the app's host says a bundle it was told of is written or
   could not be; an export already over is not reopened. *)
ReportExport(e) ==
    /\ InFlight(e)
    /\ export' = [export EXCEPT ![e] = "over"]
    /\ UNCHANGED <<app, migration, storageOf, configs, deployment, deployments, exports, deleting>>

(* Mutated: an app is deleted under the plain lock. *)
DeleteAnyTime ==
    /\ app # "deleted"
    /\ deleting = "no"
    /\ app' = "deleting"
    /\ deleting' = "failExports"
    /\ UNCHANGED <<migration, storageOf, configs, deployment, deployments, export, exports>>

(* AppsService.delete: the state first, then the export it would leave running. *)
Delete ==
    /\ Locked
    /\ deleting = "no"
    /\ app' = "deleting"
    /\ deleting' = "failExports"
    /\ UNCHANGED <<migration, storageOf, configs, deployment, deployments, export, exports>>

FailInFlight ==
    /\ deleting = "failExports"
    /\ deleting' = "no"
    /\ export' = [e \in ExportIds |-> IF InFlight(e) THEN "over" ELSE export[e]]
    /\ UNCHANGED <<app, migration, storageOf, configs, deployment, deployments, exports>>

(* The host says the volume is gone, or there never was one. *)
FinishDeleting ==
    /\ app = "deleting"
    /\ app' = "deleted"
    /\ UNCHANGED <<migration, storageOf, configs, deployment, deployments, export, exports, deleting>>

---------------------------------------------------------------------------
(* VolumeStorageMigrationsRepository.  A caller names the attempt by the config
   version it was told of. *)

Request ==
    /\ Running /\ ~ Pending
    /\ Deployed /\ DeployedStorage = Shared
    /\ \A e \in ExportIds : ~ InFlight(e)
    /\ AppendConfig(configs + 1)
    /\ migration' = [state |-> "pending", started |-> FALSE, host |-> NoHost]
    /\ UNCHANGED <<app, deployment, deployments, export, exports, deleting>>

(* Only one worker wins an attempt. *)
Start(c, h) ==
    /\ Pending /\ ~ migration.started
    /\ c = configs
    /\ migration' = [migration EXCEPT !.started = TRUE, !.host = h]
    /\ UNCHANGED <<app, storageOf, configs, deployment, deployments, export, exports, deleting>>

(* What cutover and complete ask of a caller: that it started the newest config's attempt. *)
Attempting(c, h) ==
    /\ app # "deleted"
    /\ migration.state \in {"pending", "completed"} /\ migration.started /\ migration.host = h
    /\ c = configs /\ storageOf[c] # Shared

(* A cutover repeated after its answer was lost finds the config deployed and
   inserts nothing. *)
Cutover(c, h) ==
    /\ Attempting(c, h)
    /\ Running /\ Deployed
    /\ DeployedConfig # c
    /\ Pending /\ DeployedStorage = Shared
    /\ InsertDeployment(c, AppHost)
    /\ UNCHANGED <<app, migration, storageOf, configs, export, exports, deleting>>

Complete(c, h) ==
    /\ Attempting(c, h)
    /\ Running /\ Deployed
    /\ DeployedConfig = c
    /\ Pending
    /\ migration' = [migration EXCEPT !.state = "completed"]
    /\ UNCHANGED <<app, storageOf, configs, deployment, deployments, export, exports, deleting>>

(* Mutated: an attempt is put back though its destination is deployed. *)
RestoreAnyway(c, h, state) ==
    /\ Pending
    /\ h = (IF migration.started THEN migration.host ELSE NoHost)
    /\ c = configs
    /\ Running /\ Deployed
    /\ AppendConfig(Shared)
    /\ migration' = [migration EXCEPT !.state = state]
    /\ UNCHANGED <<app, deployment, deployments, export, exports, deleting>>

(* restore: on behalf of the host that started the attempt, or of none while none has;
   never once its destination is deployed.  The version written back has the storage
   of the release that runs. *)
Restore(c, h, state) ==
    /\ Pending
    /\ h = (IF migration.started THEN migration.host ELSE NoHost)
    /\ c = configs
    /\ Running /\ Deployed
    /\ DeployedStorage = Shared
    /\ AppendConfig(DeployedStorage)
    /\ migration' = [migration EXCEPT !.state = state]
    /\ UNCHANGED <<app, deployment, deployments, export, exports, deleting>>

(* cancel, which an owner may ask for until it starts *)
Cancel(c) == Restore(c, NoHost, "cancelled")

(* sweepAbandoned: listed as queued too long, and put back if it still is. *)
SweepAbandoned(c) == ~ migration.started /\ Restore(c, NoHost, "failed")

(* abortStarted, by the host whose copy has stopped *)
AbortStarted(c, h) == Restore(c, h, "failed")

---------------------------------------------------------------------------

Next ==
    \/ Create \/ Update \/ RequestExport \/ Delete \/ FailInFlight \/ FinishDeleting
    \/ \E i \in DeploymentIds : Rollback(i)
    \/ \E state \in {"active", "suspended"} : SetState(state)
    \/ \E e \in ExportIds : ReportExport(e)
    \/ Request
    \/ \E c \in ConfigIds : Cancel(c) \/ SweepAbandoned(c)
    \/ \E c \in ConfigIds, h \in Hosts :
         Start(c, h) \/ Cutover(c, h) \/ Complete(c, h) \/ AbortStarted(c, h)

Spec == Init /\ [][Next]_vars

---------------------------------------------------------------------------

(* The variables are of the shapes the tables keep. *)
TypeOK ==
    /\ app \in {"active", "suspended", "deleting", "deleted"}
    /\ migration \in [state : {"none", "pending", "completed", "cancelled", "failed"},
                      started : BOOLEAN, host : Hosts \cup {NoHost}]
    /\ storageOf \in [ConfigIds -> ConfigIds \cup {Shared}]
    /\ configs \in ConfigIds
    /\ deployment \in [DeploymentIds -> [config : ConfigIds, host : Hosts \cup {NoHost}]]
    /\ deployments \in 0..MaxDeployments
    /\ export \in [ExportIds -> {"none", "inFlight", "over"}]
    /\ exports \in 0..MaxExports
    /\ deleting \in {"no", "failExports"}

(* An app stays on the host of its first deployment, where its volume is, through
   redeploys, rollbacks and a migration's cutover. *)
OneHost == \A i, j \in 1..deployments : deployment[i].host = deployment[j].host

(* Unless a migration is pending, the config the next deployment takes has the storage
   the volume is in: no edit, rollback, cancelled, swept or completed migration leaves a
   version that would point the app at a bucket without its data. *)
StorageAgrees == ~ Pending /\ Deployed => storageOf[configs] = DeployedStorage

(* An app's storage moves once, out of the shared bucket: no release that follows takes
   it back, or on to the bucket of another attempt. *)
StorageNeverReverts ==
    [][Deployed /\ DeployedStorage # Shared => DeployedStorage' = DeployedStorage]_vars

(* No export reads a volume a migration is moving: neither begins under the other. *)
MigrationExcludesExport == Pending => \A e \in ExportIds : ~ InFlight(e)

(* A deletion and a migration are never both under way, so a worker that won an attempt
   never finds its app gone. *)
PendingIsKept == Pending => Running /\ Deployed
===========================================================================
