---------------------- MODULE StorageMigrationsProofs ----------------------
(***************************************************************************)
(* For any fleet and any number of releases, config versions, exports and  *)
(* migration attempts: what the control plane says of an app's storage     *)
(* agrees with where the volume is, and moves once.                        *)
(*                                                                         *)
(* The runs' invariants need two more facts to be inductive: a release     *)
(* names a version that has been written (ConfigsKnown), so that a new     *)
(* version never changes what an old release means; and a pending attempt  *)
(* has either not been cut over or is what is deployed (AttemptInv).       *)
(***************************************************************************)
EXTENDS StorageMigrations, TLAPS

(* A release's config is one of the versions written so far. *)
ConfigsKnown == \A i \in 1..deployments : deployment[i].config <= configs

(* While an attempt is pending the newest version is its destination, and the
   app runs from the shared bucket or from that destination. *)
AttemptInv ==
    Pending => /\ storageOf[configs] # Shared
               /\ DeployedStorage = Shared \/ DeployedConfig = configs

IInv ==
    /\ TypeOK /\ ConfigsKnown /\ OneHost /\ StorageAgrees
    /\ MigrationExcludesExport /\ PendingIsKept /\ AttemptInv

USE DEF DeploymentIds, ConfigIds, ExportIds, Shared

---------------------------------------------------------------------------

(* The newest release, where there is one, is a row with a known config. *)
LEMMA NewestRow ==
    ASSUME IInv, Deployed
    PROVE  /\ deployments \in DeploymentIds /\ deployments \in 1..deployments
           /\ DeployedConfig \in ConfigIds /\ DeployedConfig <= configs
           /\ AppHost \in Hosts \cup {NoHost}
           /\ DeployedStorage \in ConfigIds \cup {Shared}
<1>1. deployments \in 1..MaxDeployments /\ deployments \in 1..deployments
  BY ConstantsAssumption DEF IInv, TypeOK, Deployed
<1>2. deployment[deployments] \in [config : ConfigIds, host : Hosts \cup {NoHost}]
  BY <1>1 DEF IInv, TypeOK
<1>3. deployment[deployments].config <= configs
  BY <1>1 DEF IInv, ConfigsKnown
<1> QED BY <1>1, <1>2, <1>3 DEF IInv, TypeOK, DeployedConfig, AppHost, DeployedStorage

(* What appendConfigVersion leaves: one more version, and the others as they were. *)
LEMMA AppendedConfig ==
    ASSUME IInv, NEW s \in ConfigIds \cup {Shared}, AppendConfig(s)
    PROVE  /\ configs' = configs + 1 /\ configs' \in ConfigIds
           /\ storageOf' \in [ConfigIds -> ConfigIds \cup {Shared}]
           /\ storageOf'[configs'] = s
           /\ \A c \in ConfigIds : c <= configs => storageOf'[c] = storageOf[c]
<1>1. configs \in 1..MaxConfigs /\ MaxConfigs \in Nat /\ configs < MaxConfigs
  BY ConstantsAssumption DEF IInv, TypeOK, AppendConfig
<1>2. configs + 1 \in 1..MaxConfigs
  BY <1>1
<1>3. storageOf \in [1..MaxConfigs -> (1..MaxConfigs) \cup {0}]
  BY DEF IInv, TypeOK
<1>4. \A c \in 1..MaxConfigs : c <= configs => c # configs + 1
  BY <1>1
<1> QED BY <1>1, <1>2, <1>3, <1>4 DEF AppendConfig

(* What inserting a release leaves: one more row, and the others as they were. *)
LEMMA InsertedRow ==
    ASSUME IInv, NEW c \in ConfigIds, NEW h \in Hosts \cup {NoHost}, InsertDeployment(c, h)
    PROVE  /\ deployments' = deployments + 1 /\ deployments' \in 0..MaxDeployments
           /\ deployments \in Nat
           /\ deployment' \in [DeploymentIds -> [config : ConfigIds, host : Hosts \cup {NoHost}]]
           /\ deployment'[deployments'] = [config |-> c, host |-> h]
           /\ \A i \in 1..deployments : deployment'[i] = deployment[i]
<1>1. deployments \in 0..MaxDeployments /\ MaxDeployments \in Nat /\ deployments < MaxDeployments
  BY ConstantsAssumption DEF IInv, TypeOK, InsertDeployment
<1>2. deployments + 1 \in 1..MaxDeployments
  BY <1>1
<1>3. deployment \in [1..MaxDeployments -> [config : ConfigIds, host : Hosts \cup {NoHost}]]
  BY DEF IInv, TypeOK
<1>4. \A i \in 1..deployments : i \in 1..MaxDeployments /\ i # deployments + 1
  BY <1>1
<1> QED BY <1>1, <1>2, <1>3, <1>4 DEF InsertDeployment

(* A new release on the host the app has keeps all of them on one host. *)
LEMMA StillOneHost ==
    ASSUME IInv, NEW c \in ConfigIds, NEW h \in Hosts \cup {NoHost}, InsertDeployment(c, h),
           Deployed => h = AppHost
    PROVE  OneHost'
<1>0. /\ deployments' = deployments + 1 /\ deployments \in Nat
      /\ deployment'[deployments'] = [config |-> c, host |-> h]
      /\ \A i \in 1..deployments : deployment'[i] = deployment[i]
  BY InsertedRow
<1>1. ASSUME NEW i \in 1..deployments' PROVE deployment'[i].host = h
  <2>1. CASE i = deployments'
    BY <1>0, <2>1
  <2>2. CASE i # deployments'
    <3>1. i \in 1..deployments /\ Deployed
      BY <1>0, <2>2 DEF Deployed
    <3>2. deployments \in 1..deployments
      BY <3>1, NewestRow
    <3>3. deployment[i].host = deployment[deployments].host
      BY <3>1, <3>2 DEF IInv, OneHost
    <3> QED BY <1>0, <3>1, <3>3 DEF AppHost
  <2> QED BY <2>1, <2>2
<1> QED BY <1>1 DEF OneHost

(* A new version leaves every release with the storage it had. *)
LEMMA ReleasesKeepStorage ==
    ASSUME IInv, NEW s \in ConfigIds \cup {Shared}, AppendConfig(s),
           NEW i \in 1..deployments
    PROVE  /\ storageOf'[deployment[i].config] = storageOf[deployment[i].config]
           /\ deployment[i].config \in ConfigIds /\ deployment[i].config <= configs
<1>1. i \in 1..MaxDeployments
  BY ConstantsAssumption DEF IInv, TypeOK
<1>2. deployment[i].config \in ConfigIds
  BY <1>1 DEF IInv, TypeOK
<1>3. deployment[i].config <= configs
  BY DEF IInv, ConfigsKnown
<1> QED BY <1>2, <1>3, AppendedConfig

---------------------------------------------------------------------------

(* An app begins with one version, in the shared bucket, and nothing deployed. *)
LEMMA InitIInv == Init => IInv
<1> SUFFICES ASSUME Init PROVE IInv
  OBVIOUS
<1>1. TypeOK
  BY ConstantsAssumption DEF Init, TypeOK, NoMigration, NoDeployment
<1>2. ConfigsKnown /\ OneHost /\ StorageAgrees
  BY DEF Init, ConfigsKnown, OneHost, StorageAgrees, Deployed
<1>3. MigrationExcludesExport /\ PendingIsKept /\ AttemptInv
  BY DEF Init, MigrationExcludesExport, PendingIsKept, AttemptInv, Pending, NoMigration
<1> QED BY <1>1, <1>2, <1>3 DEF IInv

(* A step that leaves versions, releases, exports and the pending attempt alone. *)
LEMMA Untouched ==
    ASSUME IInv, TypeOK', UNCHANGED <<migration, storageOf, configs, deployment, deployments>>,
           Pending => \A e \in ExportIds : export'[e] = export[e], Pending => Running'
    PROVE  IInv'
<1>1. ConfigsKnown' /\ OneHost' /\ StorageAgrees' /\ AttemptInv'
  BY DEF IInv, ConfigsKnown, OneHost, StorageAgrees, AttemptInv, Pending, Deployed,
         DeployedStorage, DeployedConfig
<1>2. MigrationExcludesExport'
  BY DEF IInv, MigrationExcludesExport, InFlight, Pending
<1>3. PendingIsKept'
  BY DEF IInv, PendingIsKept, Pending, Deployed
<1> QED BY <1>1, <1>2, <1>3 DEF IInv

(* A release inserted with the storage the next one would have had, under no attempt. *)
LEMMA InsertKeeps ==
    ASSUME IInv, NEW c \in ConfigIds, NEW h \in Hosts \cup {NoHost}, InsertDeployment(c, h),
           Deployed => h = AppHost, c <= configs, ~ Pending, storageOf[c] = storageOf[configs],
           UNCHANGED <<app, migration, storageOf, configs, export, exports, deleting>>
    PROVE  IInv'
<1>0. /\ deployments' = deployments + 1 /\ deployments \in Nat
      /\ deployments' \in 0..MaxDeployments
      /\ deployment' \in [DeploymentIds -> [config : ConfigIds, host : Hosts \cup {NoHost}]]
      /\ deployment'[deployments'] = [config |-> c, host |-> h]
      /\ \A i \in 1..deployments : deployment'[i] = deployment[i]
  BY InsertedRow
<1>1. TypeOK'
  BY <1>0 DEF IInv, TypeOK
<1>2. ConfigsKnown'
  <2> SUFFICES ASSUME NEW i \in 1..deployments' PROVE deployment'[i].config <= configs
    BY DEF ConfigsKnown
  <2>1. CASE i = deployments'
    BY <1>0, <2>1
  <2>2. CASE i # deployments'
    <3>1. i \in 1..deployments
      BY <1>0, <2>2
    <3> QED BY <1>0, <3>1 DEF IInv, ConfigsKnown
  <2> QED BY <2>1, <2>2
<1>3. OneHost'
  BY StillOneHost
<1>4. StorageAgrees'
  BY <1>0 DEF StorageAgrees, DeployedStorage, DeployedConfig
<1>5. MigrationExcludesExport' /\ PendingIsKept' /\ AttemptInv'
  BY DEF MigrationExcludesExport, PendingIsKept, AttemptInv, Pending
<1> QED BY <1>1, <1>2, <1>3, <1>4, <1>5 DEF IInv

(* A version appended with the storage of what runs, or as an attempt's destination. *)
LEMMA AppendKeeps ==
    ASSUME IInv, NEW s \in ConfigIds \cup {Shared}, AppendConfig(s), TypeOK',
           UNCHANGED <<deployment, deployments>>,
           ~ Pending' /\ Deployed => s = DeployedStorage,
           Pending' => /\ s # Shared /\ Deployed /\ DeployedStorage = Shared /\ Running'
                       /\ \A e \in ExportIds : ~ InFlight(e)',
           Deployed => DeployedStorage' = DeployedStorage
    PROVE  IInv'
<1>0. configs' = configs + 1 /\ configs \in Nat /\ storageOf'[configs'] = s
  BY AppendedConfig DEF IInv, TypeOK
<1>1. ConfigsKnown'
  <2> SUFFICES ASSUME NEW i \in 1..deployments PROVE deployment[i].config <= configs + 1
    BY <1>0 DEF ConfigsKnown
  <2>1. deployment[i].config \in ConfigIds /\ deployment[i].config <= configs
    BY ReleasesKeepStorage
  <2> QED BY <1>0, <2>1
<1>2. OneHost'
  BY DEF IInv, OneHost
<1>3. StorageAgrees'
  BY <1>0 DEF StorageAgrees, Deployed
<1>4. MigrationExcludesExport' /\ PendingIsKept' /\ AttemptInv'
  BY <1>0 DEF MigrationExcludesExport, PendingIsKept, AttemptInv, Deployed
<1> QED BY <1>1, <1>2, <1>3, <1>4 DEF IInv

(* What a new version leaves of the storage of what runs. *)
LEMMA AppendKeepsDeployed ==
    ASSUME IInv, NEW s \in ConfigIds \cup {Shared}, AppendConfig(s), Deployed,
           UNCHANGED <<deployment, deployments>>
    PROVE  DeployedStorage' = DeployedStorage
<1>1. deployments \in 1..deployments
  BY NewestRow
<1> QED BY <1>1, ReleasesKeepStorage DEF DeployedStorage, DeployedConfig

---------------------------------------------------------------------------

(* The second half of a rollback past a migration: a version written with the storage
   of what runs, and deployed at once. *)
LEMMA RollbackAppends ==
    ASSUME IInv, ~ Pending, Deployed, AppendConfig(DeployedStorage),
           InsertDeployment(configs + 1, AppHost),
           UNCHANGED <<app, migration, export, exports, deleting>>
    PROVE  IInv' /\ DeployedStorage' = DeployedStorage
<1>0. DeployedStorage \in ConfigIds \cup {Shared} /\ AppHost \in Hosts \cup {NoHost}
  BY NewestRow
<1>1. /\ configs' = configs + 1 /\ configs' \in ConfigIds /\ configs \in Nat
      /\ storageOf' \in [ConfigIds -> ConfigIds \cup {Shared}]
      /\ storageOf'[configs'] = DeployedStorage
  BY <1>0, AppendedConfig DEF IInv, TypeOK
<1>2. /\ deployments' = deployments + 1 /\ deployments \in Nat
      /\ deployments' \in 0..MaxDeployments
      /\ deployment' \in [DeploymentIds -> [config : ConfigIds, host : Hosts \cup {NoHost}]]
      /\ deployment'[deployments'] = [config |-> configs', host |-> AppHost]
      /\ \A i \in 1..deployments : deployment'[i] = deployment[i]
  BY <1>0, <1>1, InsertedRow
<1>3. TypeOK'
  BY <1>1, <1>2 DEF IInv, TypeOK
<1>4. ConfigsKnown'
  <2> SUFFICES ASSUME NEW i \in 1..deployments' PROVE deployment'[i].config <= configs'
    BY DEF ConfigsKnown
  <2>1. CASE i = deployments'
    BY <1>1, <1>2, <2>1
  <2>2. CASE i # deployments'
    <3>1. i \in 1..deployments
      BY <1>2, <2>2
    <3>2. deployment[i].config \in ConfigIds /\ deployment[i].config <= configs
      BY <1>0, <3>1, ReleasesKeepStorage
    <3> QED BY <1>1, <1>2, <3>1, <3>2
  <2> QED BY <2>1, <2>2
<1>5. OneHost'
  BY <1>0, <1>1, StillOneHost
<1>6. DeployedStorage' = DeployedStorage
  BY <1>1, <1>2 DEF DeployedStorage, DeployedConfig
<1>7. StorageAgrees'
  BY <1>1, <1>2 DEF StorageAgrees, DeployedStorage, DeployedConfig
<1>8. MigrationExcludesExport' /\ PendingIsKept' /\ AttemptInv'
  BY DEF MigrationExcludesExport, PendingIsKept, AttemptInv, Pending
<1> QED BY <1>3, <1>4, <1>5, <1>6, <1>7, <1>8 DEF IInv

(* A release taken from the newest version, or replayed with the storage of what
   runs, leaves that storage as it is. *)
LEMMA InsertKeepsDeployed ==
    ASSUME IInv, NEW c \in ConfigIds, NEW h \in Hosts \cup {NoHost}, InsertDeployment(c, h),
           UNCHANGED storageOf, Deployed, storageOf[c] = DeployedStorage
    PROVE  DeployedStorage' = DeployedStorage
<1>1. deployment'[deployments'] = [config |-> c, host |-> h]
  BY InsertedRow
<1> QED BY <1>1 DEF DeployedStorage, DeployedConfig

(* What each step keeps: the invariant, and the storage of what runs once that is out
   of the shared bucket. *)
Kept == IInv' /\ (Deployed /\ DeployedStorage # Shared => DeployedStorage' = DeployedStorage)

(* A first or a new deployment runs from the storage of the newest config version,
   on the host the app has. *)
LEMMA CreateKeeps == IInv /\ Create => Kept
<1> SUFFICES ASSUME IInv, Create PROVE Kept
  OBVIOUS
<1>1. PICK h \in Hosts : (Deployed => h = AppHost) /\ InsertDeployment(configs, h)
  BY DEF Create
<1>2. configs \in ConfigIds /\ configs <= configs /\ ~ Pending
  BY DEF IInv, TypeOK, Create, Locked
<1>3. UNCHANGED <<app, migration, storageOf, configs, export, exports, deleting>>
  BY DEF Create
<1>4. IInv'
  BY <1>1, <1>2, <1>3, InsertKeeps
<1>5. Deployed => DeployedStorage' = DeployedStorage
  BY <1>1, <1>2, <1>3, InsertKeepsDeployed DEF IInv, StorageAgrees
<1> QED BY <1>4, <1>5 DEF Kept

(* A rollback copies an earlier config into the storage the app has now. *)
LEMMA RollbackKeeps == \A i \in DeploymentIds : IInv /\ Rollback(i) => Kept
<1> SUFFICES ASSUME NEW i \in DeploymentIds, IInv, Rollback(i) PROVE Kept
  OBVIOUS
<1>1. i \in 1..deployments /\ Deployed /\ ~ Pending
  BY ConstantsAssumption DEF IInv, TypeOK, Rollback, Deployed, Locked
<1>2. /\ DeployedStorage \in ConfigIds \cup {Shared} /\ AppHost \in Hosts \cup {NoHost}
      /\ deployment[i].config \in ConfigIds /\ deployment[i].config <= configs
  BY <1>1, NewestRow DEF IInv, TypeOK, ConfigsKnown
<1>3. CASE storageOf[deployment[i].config] = DeployedStorage
  <2>1. /\ InsertDeployment(deployment[i].config, AppHost)
        /\ UNCHANGED <<app, migration, storageOf, configs, export, exports, deleting>>
    BY <1>3 DEF Rollback
  <2>2. storageOf[deployment[i].config] = storageOf[configs]
    BY <1>1, <1>3 DEF IInv, StorageAgrees
  <2>3. IInv'
    BY <1>1, <1>2, <2>1, <2>2, InsertKeeps
  <2>4. DeployedStorage' = DeployedStorage
    BY <1>1, <1>2, <1>3, <2>1, InsertKeepsDeployed
  <2> QED BY <2>3, <2>4 DEF Kept
<1>4. CASE storageOf[deployment[i].config] # DeployedStorage
  <2>1. /\ AppendConfig(DeployedStorage) /\ InsertDeployment(configs + 1, AppHost)
        /\ UNCHANGED <<app, migration, export, exports, deleting>>
    BY <1>4 DEF Rollback
  <2> QED BY <1>1, <2>1, RollbackAppends DEF Kept
<1> QED BY <1>3, <1>4

(* An edit writes a version with the storage of the one before it. *)
LEMMA UpdateKeeps == IInv /\ Update => Kept
<1> SUFFICES ASSUME IInv, Update PROVE Kept
  OBVIOUS
<1>1. storageOf[configs] \in ConfigIds \cup {Shared} /\ AppendConfig(storageOf[configs])
  BY DEF IInv, TypeOK, Update
<1>2. ~ Pending /\ UNCHANGED <<app, migration, deployment, deployments, export, exports, deleting>>
  BY DEF Update, Locked
<1>3. Deployed => DeployedStorage' = DeployedStorage
  BY <1>1, <1>2, AppendKeepsDeployed
<1>4. TypeOK'
  BY <1>1, <1>2, AppendedConfig DEF IInv, TypeOK
<1>5. ~ Pending'
  BY <1>2 DEF Pending
<1>6. IInv'
  BY <1>1, <1>2, <1>3, <1>4, <1>5, AppendKeeps DEF IInv, StorageAgrees
<1> QED BY <1>3, <1>6 DEF Kept

(* A migration is requested of an app in the shared bucket with no export in flight,
   and mints its destination. *)
LEMMA RequestKeeps == IInv /\ Request => Kept
<1> SUFFICES ASSUME IInv, Request PROVE Kept
  OBVIOUS
<1>1. /\ AppendConfig(configs + 1) /\ Deployed /\ DeployedStorage = Shared /\ Running
      /\ \A e \in ExportIds : ~ InFlight(e)
      /\ UNCHANGED <<app, deployment, deployments, export, exports, deleting>>
      /\ migration' = [state |-> "pending", started |-> FALSE, host |-> NoHost]
  BY DEF Request
<1>2. configs + 1 \in ConfigIds /\ configs + 1 # Shared
  BY <1>1, ConstantsAssumption DEF IInv, TypeOK, AppendConfig
<1>3. DeployedStorage' = DeployedStorage
  BY <1>1, <1>2, AppendKeepsDeployed
<1>4. TypeOK'
  BY <1>1, <1>2, AppendedConfig DEF IInv, TypeOK
<1>5. Pending' /\ Running' /\ \A e \in ExportIds : ~ InFlight(e)'
  BY <1>1 DEF Pending, Running, InFlight
<1>6. IInv'
  BY <1>1, <1>2, <1>3, <1>4, <1>5, AppendKeeps
<1> QED BY <1>3, <1>6 DEF Kept

(* An attempt that is cancelled, swept or aborted puts the shared bucket back, as a
   version of its own. *)
LEMMA RestoreKeeps ==
    ASSUME NEW c, NEW h, NEW state \in {"cancelled", "failed"}
    PROVE  IInv /\ Restore(c, h, state) => Kept
<1> SUFFICES ASSUME IInv, Restore(c, h, state) PROVE Kept
  OBVIOUS
<1>1. /\ Deployed /\ AppendConfig(DeployedStorage)
      /\ UNCHANGED <<app, deployment, deployments, export, exports, deleting>>
      /\ migration' = [migration EXCEPT !.state = state]
  BY DEF Restore
<1>2. DeployedStorage \in ConfigIds \cup {Shared}
  BY <1>1, NewestRow
<1>3. DeployedStorage' = DeployedStorage
  BY <1>1, <1>2, AppendKeepsDeployed
<1>4. migration' \in [state : {"none", "pending", "completed", "cancelled", "failed"},
                      started : BOOLEAN, host : Hosts \cup {NoHost}] /\ migration'.state = state
  BY <1>1 DEF IInv, TypeOK
<1>5. TypeOK'
  BY <1>1, <1>2, <1>4, AppendedConfig DEF IInv, TypeOK
<1>6. ~ Pending'
  BY <1>4 DEF Pending
<1>7. IInv'
  BY <1>1, <1>2, <1>3, <1>5, <1>6, AppendKeeps
<1> QED BY <1>3, <1>7 DEF Kept

(* Only the attempt that is pending is started. *)
LEMMA StartKeeps == \A c \in ConfigIds, h \in Hosts : IInv /\ Start(c, h) => Kept
<1> SUFFICES ASSUME NEW c \in ConfigIds, NEW h \in Hosts, IInv, Start(c, h) PROVE Kept
  OBVIOUS
<1>1. /\ Pending /\ migration' = [migration EXCEPT !.started = TRUE, !.host = h]
      /\ UNCHANGED <<app, storageOf, configs, deployment, deployments, export, exports, deleting>>
  BY DEF Start
<1>2. migration' \in [state : {"none", "pending", "completed", "cancelled", "failed"},
                      started : BOOLEAN, host : Hosts \cup {NoHost}]
      /\ migration'.state = migration.state
  BY <1>1 DEF IInv, TypeOK
<1>3. TypeOK'
  BY <1>1, <1>2 DEF IInv, TypeOK
<1>4. Pending' /\ Deployed' = Deployed /\ Running' = Running /\ DeployedStorage' = DeployedStorage
      /\ DeployedConfig' = DeployedConfig /\ \A e \in ExportIds : InFlight(e)' = InFlight(e)
  BY <1>1, <1>2 DEF Pending, Deployed, Running, DeployedStorage, DeployedConfig, InFlight
<1>5. ConfigsKnown' /\ OneHost' /\ StorageAgrees'
  BY <1>1, <1>4 DEF IInv, ConfigsKnown, OneHost, StorageAgrees
<1>6. MigrationExcludesExport' /\ PendingIsKept' /\ AttemptInv'
  BY <1>1, <1>4 DEF IInv, MigrationExcludesExport, PendingIsKept, AttemptInv
<1> QED BY <1>3, <1>4, <1>5, <1>6 DEF Kept, IInv

(* A cutover deploys the destination on the app's own host. *)
LEMMA CutoverKeeps == \A c \in ConfigIds, h \in Hosts : IInv /\ Cutover(c, h) => Kept
<1> SUFFICES ASSUME NEW c \in ConfigIds, NEW h \in Hosts, IInv, Cutover(c, h) PROVE Kept
  OBVIOUS
<1>1. /\ c = configs /\ Deployed /\ Pending /\ Running /\ DeployedStorage = Shared
      /\ InsertDeployment(c, AppHost)
      /\ UNCHANGED <<app, migration, storageOf, configs, export, exports, deleting>>
  BY DEF Cutover, Attempting
<1>2. AppHost \in Hosts \cup {NoHost} /\ configs \in Nat
  BY <1>1, NewestRow DEF IInv, TypeOK
<1>3. /\ deployments' = deployments + 1 /\ deployments \in Nat
      /\ deployments' \in 0..MaxDeployments
      /\ deployment' \in [DeploymentIds -> [config : ConfigIds, host : Hosts \cup {NoHost}]]
      /\ deployment'[deployments'] = [config |-> c, host |-> AppHost]
      /\ \A i \in 1..deployments : deployment'[i] = deployment[i]
  BY <1>1, <1>2, InsertedRow
<1>4. TypeOK'
  BY <1>1, <1>3 DEF IInv, TypeOK
<1>5. ConfigsKnown'
  <2> SUFFICES ASSUME NEW i \in 1..deployments' PROVE deployment'[i].config <= configs
    BY <1>1 DEF ConfigsKnown
  <2>1. CASE i = deployments'
    BY <1>1, <1>2, <1>3, <2>1
  <2>2. CASE i # deployments'
    <3>1. i \in 1..deployments
      BY <1>3, <2>2
    <3> QED BY <1>3, <3>1 DEF IInv, ConfigsKnown
  <2> QED BY <2>1, <2>2
<1>6. OneHost'
  BY <1>1, <1>2, StillOneHost
<1>7. Pending' /\ Running' /\ Deployed' /\ \A e \in ExportIds : InFlight(e)' = InFlight(e)
  BY <1>1, <1>3 DEF Pending, Running, Deployed, InFlight
<1>8. DeployedConfig' = configs'
  BY <1>1, <1>3 DEF DeployedConfig
<1>9. StorageAgrees' /\ MigrationExcludesExport' /\ PendingIsKept' /\ AttemptInv'
  BY <1>1, <1>7, <1>8
     DEF IInv, StorageAgrees, MigrationExcludesExport, PendingIsKept, AttemptInv
<1> QED BY <1>1, <1>4, <1>5, <1>6, <1>9 DEF Kept, IInv

(* A migration completes once its destination is what is deployed. *)
LEMMA CompleteKeeps == \A c \in ConfigIds, h \in Hosts : IInv /\ Complete(c, h) => Kept
<1> SUFFICES ASSUME NEW c \in ConfigIds, NEW h \in Hosts, IInv, Complete(c, h) PROVE Kept
  OBVIOUS
<1>1. /\ c = configs /\ Deployed /\ DeployedConfig = c
      /\ migration' = [migration EXCEPT !.state = "completed"]
      /\ UNCHANGED <<app, storageOf, configs, deployment, deployments, export, exports, deleting>>
  BY DEF Complete, Attempting
<1>2. migration' \in [state : {"none", "pending", "completed", "cancelled", "failed"},
                      started : BOOLEAN, host : Hosts \cup {NoHost}] /\ ~ Pending'
  BY <1>1 DEF IInv, TypeOK, Pending
<1>3. TypeOK'
  BY <1>1, <1>2 DEF IInv, TypeOK
<1>4. DeployedStorage' = DeployedStorage /\ DeployedConfig' = DeployedConfig
  BY <1>1 DEF DeployedStorage, DeployedConfig
<1>5. StorageAgrees'
  BY <1>1, <1>4 DEF StorageAgrees, DeployedStorage
<1>6. ConfigsKnown' /\ OneHost'
  BY <1>1 DEF IInv, ConfigsKnown, OneHost
<1>7. MigrationExcludesExport' /\ PendingIsKept' /\ AttemptInv'
  BY <1>2 DEF MigrationExcludesExport, PendingIsKept, AttemptInv
<1> QED BY <1>3, <1>4, <1>5, <1>6, <1>7 DEF Kept, IInv

(* What touches neither versions nor releases: exports, and the app's own state. *)
LEMMA OtherKeeps ==
    ASSUME IInv,
           \/ RequestExport \/ Delete \/ FailInFlight \/ FinishDeleting
           \/ \E e \in ExportIds : ReportExport(e)
           \/ \E state \in {"active", "suspended"} : SetState(state)
    PROVE  Kept
<1>1. UNCHANGED <<migration, storageOf, configs, deployment, deployments>>
  BY DEF RequestExport, Delete, FailInFlight, FinishDeleting, ReportExport, SetState
<1>2. DeployedStorage' = DeployedStorage
  BY <1>1 DEF DeployedStorage, DeployedConfig
<1>3. SUFFICES TypeOK' /\ (Pending => Running' /\ \A e \in ExportIds : export'[e] = export[e])
  BY <1>1, <1>2, Untouched DEF Kept
<1>4. CASE RequestExport
  <2>1. exports + 1 \in 0..MaxExports
    BY <1>4, ConstantsAssumption DEF RequestExport, IInv, TypeOK
  <2>2. TypeOK'
    BY <1>4, <2>1 DEF RequestExport, IInv, TypeOK
  <2> QED BY <1>4, <2>2 DEF RequestExport, Locked
<1>5. CASE Delete
  <2>1. TypeOK'
    BY <1>5 DEF Delete, IInv, TypeOK
  <2> QED BY <1>5, <2>1 DEF Delete, Locked
<1>6. CASE FailInFlight
  <2>1. TypeOK'
    BY <1>6 DEF FailInFlight, IInv, TypeOK
  <2>2. Pending => \A e \in ExportIds : export'[e] = export[e]
    BY <1>6 DEF FailInFlight, IInv, MigrationExcludesExport
  <2>3. Pending => Running'
    BY <1>6 DEF FailInFlight, IInv, PendingIsKept, Running
  <2> QED BY <2>1, <2>2, <2>3
<1>7. CASE FinishDeleting
  <2>1. TypeOK'
    BY <1>7 DEF FinishDeleting, IInv, TypeOK
  <2>2. ~ Pending
    BY <1>7 DEF FinishDeleting, IInv, PendingIsKept, Running
  <2> QED BY <2>1, <2>2
<1>8. ASSUME NEW e \in ExportIds, ReportExport(e)
      PROVE  TypeOK' /\ (Pending => Running' /\ \A x \in ExportIds : export'[x] = export[x])
  <2>1. TypeOK'
    BY <1>8 DEF ReportExport, IInv, TypeOK
  <2>2. ~ Pending
    BY <1>8 DEF ReportExport, IInv, MigrationExcludesExport
  <2> QED BY <2>1, <2>2
<1>9. ASSUME NEW state \in {"active", "suspended"}, SetState(state)
      PROVE  TypeOK' /\ (Pending => Running' /\ \A x \in ExportIds : export'[x] = export[x])
  <2>1. TypeOK'
    BY <1>9 DEF SetState, IInv, TypeOK
  <2> QED BY <1>9, <2>1 DEF SetState, Locked
<1> QED BY <1>4, <1>5, <1>6, <1>7, <1>8, <1>9

(* A step in which nothing happens. *)
LEMMA StutterKeeps == IInv /\ UNCHANGED vars => Kept
<1> SUFFICES ASSUME IInv, UNCHANGED vars PROVE Kept
  OBVIOUS
<1>1. TypeOK' /\ DeployedStorage' = DeployedStorage
  BY DEF vars, IInv, TypeOK, DeployedStorage, DeployedConfig
<1>2. Pending => Running'
  BY DEF vars, IInv, PendingIsKept, Running
<1>3. IInv'
  BY <1>1, <1>2, Untouched DEF vars
<1> QED BY <1>1, <1>3 DEF Kept

(* Every step keeps the invariant and what the step properties say. *)
LEMMA StepKeeps == IInv /\ [Next]_vars => Kept
<1> SUFFICES ASSUME IInv, [Next]_vars PROVE Kept
  OBVIOUS
<1>1. CASE Create
  BY <1>1, CreateKeeps
<1>2. CASE Update
  BY <1>2, UpdateKeeps
<1>3. CASE \E i \in DeploymentIds : Rollback(i)
  BY <1>3, RollbackKeeps
<1>4. CASE Request
  BY <1>4, RequestKeeps
<1>5. ASSUME NEW c \in ConfigIds, Cancel(c) \/ SweepAbandoned(c) PROVE Kept
  BY <1>5, RestoreKeeps DEF Cancel, SweepAbandoned
<1>6. ASSUME NEW c \in ConfigIds, NEW h \in Hosts, AbortStarted(c, h) PROVE Kept
  BY <1>6, RestoreKeeps DEF AbortStarted
<1>7. ASSUME NEW c \in ConfigIds, NEW h \in Hosts, Start(c, h) \/ Cutover(c, h) \/ Complete(c, h)
      PROVE  Kept
  BY <1>7, StartKeeps, CutoverKeeps, CompleteKeeps
<1>8. CASE UNCHANGED vars
  BY <1>8, StutterKeeps
<1>9. CASE \/ RequestExport \/ Delete \/ FailInFlight \/ FinishDeleting
           \/ \E e \in ExportIds : ReportExport(e)
           \/ \E state \in {"active", "suspended"} : SetState(state)
  BY <1>9, OtherKeeps
<1> QED BY <1>1, <1>2, <1>3, <1>4, <1>5, <1>6, <1>7, <1>8, <1>9 DEF Next

---------------------------------------------------------------------------

(* The invariant the theorems rest on holds throughout. *)
LEMMA Invariance == Spec => []IInv
<1>1. IInv /\ [Next]_vars => IInv'
  BY StepKeeps DEF Kept
<1> QED BY <1>1, InitIInv, PTL DEF Spec

(* The tables' rows keep their shapes. *)
THEOREM TypeCorrect == Spec => []TypeOK
<1>1. IInv => TypeOK
  BY DEF IInv
<1> QED BY <1>1, Invariance, PTL

(* Every release of an app, however it came about, is on the host its volume is on. *)
THEOREM HostIsKept == Spec => []OneHost
<1>1. IInv => OneHost
  BY DEF IInv
<1> QED BY <1>1, Invariance, PTL

(* The config the next deployment takes (insertDeployment) names the storage the volume
   is in, unless a migration is pending. *)
THEOREM ConfigNamesItsStorage == Spec => []StorageAgrees
<1>1. IInv => StorageAgrees
  BY DEF IInv
<1> QED BY <1>1, Invariance, PTL

(* An export and a migration (request in either repository) are never both under way. *)
THEOREM ExportsStandAside == Spec => []MigrationExcludesExport
<1>1. IInv => MigrationExcludesExport
  BY DEF IInv
<1> QED BY <1>1, Invariance, PTL

(* An app with a pending migration (lockAppForMutation) is there, and deployed. *)
THEOREM PendingAppStays == Spec => []PendingIsKept
<1>1. IInv => PendingIsKept
  BY DEF IInv
<1> QED BY <1>1, Invariance, PTL

(* Once an app's storage has moved (cutover), nothing later moves it again. *)
THEOREM StorageMovesOnce == Spec => StorageNeverReverts
<1>1. IInv /\ [Next]_vars =>
        [Deployed /\ DeployedStorage # Shared => DeployedStorage' = DeployedStorage]_vars
  BY StepKeeps DEF Kept
<1> QED BY <1>1, Invariance, PTL DEF Spec, StorageNeverReverts
============================================================================
