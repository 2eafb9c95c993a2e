---------------------- MODULE InstanceConvergenceProofs ----------------------
(***************************************************************************)
(* What is proved of InstanceLifecycle about work that is still to be done *)
(* and nobody would come back for: that a settled host has the deployment  *)
(* the control plane asked for, and that the poll loop comes back for every *)
(* due retry but those a status pass wrote back after a stop withdrew them. *)
(*                                                                         *)
(* Neither is inductive.  A boot carries a copy of the record across its   *)
(* awaits and writes it over whatever the record has become, a plan is     *)
(* made from a record that has been read before, and deferredWork is       *)
(* written over by each pass.  ConvergenceInv says of each of these that   *)
(* it is about the accepted deployment whenever no later pass is certain.  *)
(***************************************************************************)
EXTENDS InstanceLifecycleProofs

Wanted == accepted.mode \in {"running", "on-request"}

(* The record, or a copy of it, is of the deployment that is asked for. *)
Follows(r) == Present(r) /\ r.deployment = accepted.deployment

(* The boot of p has its copy of the record, and will write it. *)
Underway(p) == start[p].pc \notin {"idle", "read"}

(* So is everything that may still become the record. *)
Agrees == Follows(record) /\ \A p \in Starters : Underway(p) => Follows(start[p].attempted)

(* A record that is not there is of no deployment. *)
AbsentInv ==
    \A r \in {record, saved, reconcile.seen} : ~Present(r) => r.deployment = NoDeployment

(* The copy a boot has is of the record's deployment, unless the record was dropped. *)
CopyInv ==
    \A p \in Starters : Underway(p) =>
        /\ Present(start[p].attempted)
        /\ Present(record) => start[p].attempted.deployment = record.deployment

(* The steps of a pass that carry out each action. *)
Fits(pc, action) ==
    /\ pc \in {"stopMark", "stopDiscard", "stopUnit", "stopDone"} => action \in {"stop", "replace"}
    /\ pc \in {"discard", "drop"} => action \in {"forget", "replace"}
    /\ pc \in {"claim", "starting"} => action \in {"start", "replace"}
    /\ pc = "sleep" => action = "sleep"

(* A pass is about the state last accepted, and what it does fits that. *)
PassInv ==
    /\ reconcile.pc # "idle" => reconcile.desired = accepted
    /\ Fits(reconcile.pc, reconcile.action)
    /\ reconcile.pc \notin {"idle", "observe", "plan"} =>
         /\ reconcile.action \in {"stop", "forget"} => ~Wanted
         /\ reconcile.action \in {"start", "replace", "sleep"} => Wanted

(* Work that a pass is to do is deferred until a later pass finds it done. *)
DeferInv ==
    /\ reconcile.pc \notin {"idle", "observe", "plan", "sync"}
    /\ reconcile.action \in {"start", "replace"}
    => deferredWork

(* A pass about to decide that nothing is to be replaced is right. *)
SeenInv == reconcile.pc = "plan" /\ Wanted /\ Follows(reconcile.seen) => Agrees

(* So is one that has decided it, and a host that no later pass is due on. *)
SettledInv ==
    /\ Wanted /\ reconcile.pc \notin {"idle", "observe", "plan"}
       /\ reconcile.action \in {"none", "sleep"} => Agrees
    /\ Wanted /\ reconcile.pc \notin {"observe", "plan", "sync"} /\ ~deferredWork => Agrees

(* A status pass looks at a record that was there. *)
LookInv == status.pc \in {"unit", "settle"} => Present(status.seen)

ConvergenceInv == AbsentInv /\ CopyInv /\ PassInv /\ DeferInv /\ SeenInv /\ SettledInv

---------------------------------------------------------------------------
(* Steps that leave the record's deployment alone *)

(* The record is of the same deployment as before, if there is one. *)
SameDeployment ==
    record'.deployment = record.deployment /\ (Present(record') <=> Present(record))

(* No boot comes to have a copy, or another copy, of the record. *)
SameCopies ==
    \A p \in Starters :
        start'[p].pc \notin {"idle", "read"} =>
            Underway(p) /\ start'[p].attempted = start[p].attempted

(* What is asked for, the record's deployment and the boots' copies stay, work
   stays deferred and a pass goes on: nothing that convergence rests on moves. *)
LEMMA Kept ==
    ASSUME ConvergenceInv, SameDeployment, SameCopies,
           accepted' = accepted, saved' \in {saved, record, record'},
           deferredWork => deferredWork',
           \/ reconcile' = reconcile
           \/ /\ reconcile.pc \notin {"idle", "observe", "plan", "sync"}
              /\ reconcile'.pc \notin {"idle", "observe", "plan", "sync"}
              /\ reconcile'.action = reconcile.action
              /\ reconcile'.desired = reconcile.desired
              /\ reconcile'.seen = reconcile.seen
              /\ Fits(reconcile'.pc, reconcile'.action)
    PROVE  ConvergenceInv'
<1>1. Wanted' <=> Wanted
  BY DEF Wanted
<1>2. Agrees => Agrees'
  BY DEF Agrees, Follows, SameDeployment, SameCopies, Underway, Present
<1>3. AbsentInv'
  BY DEF ConvergenceInv, AbsentInv, SameDeployment, Present
<1>4. CopyInv'
  BY DEF ConvergenceInv, CopyInv, SameDeployment, SameCopies, Underway, Present
<1>5. PassInv'
  BY <1>1 DEF ConvergenceInv, PassInv
<1>6. DeferInv'
  BY DEF ConvergenceInv, DeferInv
<1>7. SeenInv'
  BY <1>1, <1>2 DEF ConvergenceInv, SeenInv, Follows, Present
<1>8. SettledInv'
  BY <1>1, <1>2 DEF ConvergenceInv, SettledInv
<1> QED
  BY <1>3, <1>4, <1>5, <1>6, <1>7, <1>8 DEF ConvergenceInv

(* Captures, status passes, wakes and crashes that write no record. *)
LEMMA Elsewhere ==
    ASSUME ConvergenceInv,
           \/ MeasureQuiet \/ BeginCapture \/ RefuseCapture \/ CaptureDiscard \/ TakeSnapshot
           \/ CaptureStop \/ WriteStamp \/ StatusTick \/ ReadUnit \/ PersistStatus \/ VmCrash
           \/ Request \/ ClaimWake \/ WakeStatus \/ WakeLaunch \/ WakeLoad
    PROVE  ConvergenceInv'
<1>1. /\ UNCHANGED <<accepted, record, deferredWork, reconcile, start>>
      /\ saved' \in {saved, record}
  BY DEF MeasureQuiet, BeginCapture, RefuseCapture, CaptureDiscard, TakeSnapshot, CaptureStop,
       WriteStamp, StatusTick, ReadUnit, PersistStatus, VmCrash, Request, ClaimWake, WakeStatus,
       WakeLaunch, WakeLoad, agentState, fibers, Saved
<1>2. SameDeployment /\ SameCopies
  BY <1>1 DEF SameDeployment, SameCopies, Underway
<1> QED
  BY <1>1, <1>2, Kept

(* updateRecord leaves a record that is not there alone, and what a stop, a
   sleep or a wake changes of one is not its deployment. *)
LEMMA UpdateSameDeployment ==
    ASSUME TypeOK, NEW changed \in Records, record' = Update(record, changed),
           changed.deployment = record.deployment, Present(changed)
    PROVE  SameDeployment
  BY DEF Update, SameDeployment, Present

(* recordVmFailure writes over a record that is there, and not its deployment. *)
LEMMA FailureSameDeployment ==
    ASSUME TypeOK, NEW r, NEW failure, RecordVmFailure(r, failure)
    PROVE  SameDeployment /\ (deferredWork => deferredWork')
<1>1. CASE ~FailureApplies(r, failure)
  BY <1>1 DEF RecordVmFailure, SameDeployment, Present
<1>2. CASE FailureApplies(r, failure)
  <2> DEFINE rec == AfterVmFailure(r, failure)
  <2>1. PICK s \in {"starting", "failed"} :
          record' = [record EXCEPT !.attempts = rec.attempts, !.retryDue = rec.retryDue,
                                   !.kvm = rec.kvm, !.revived = FALSE, !.state = s]
    BY <1>2 DEF RecordVmFailure, Recovering
  <2>2. deferredWork => deferredWork'
    BY <1>2 DEF RecordVmFailure
  <2>3. record'.deployment = record.deployment /\ record'.state = s
    BY <2>1 DEF TypeOK, Records
  <2> QED
    BY <1>2, <2>2, <2>3 DEF SameDeployment, Present, FailureApplies
<1> QED
  BY <1>1, <1>2

(* What a status pass merges into the record leaves its deployment alone. *)
LEMMA MergeSameDeployment ==
    ASSUME TypeOK, NEW r, Present(r), NEW s \in InstanceStates, NEW h, NEW x, Merge(r, s, h, x)
    PROVE  SameDeployment
<1>1. CASE ~SameRecord(r)
  BY <1>1 DEF Merge, SameDeployment, Present
<1>2. CASE SameRecord(r)
  <2>1. PICK n, due, kvm, revived :
          record' = [record EXCEPT !.state = s, !.everHealthy = h, !.attempts = n,
                                   !.retryDue = due, !.kvm = kvm, !.revived = revived]
    BY <1>2 DEF Merge
  <2>2. record'.deployment = record.deployment /\ record'.state = s
    BY <2>1 DEF TypeOK, Records
  <2> QED
    BY <1>2, <2>2 DEF SameDeployment, Present, SameRecord, InstanceStates
<1> QED
  BY <1>1, <1>2

(* A status pass settles a record, or leaves it, as the deployment it was. *)
LEMMA SettleSameDeployment ==
    ASSUME TypeOK, LookInv, Settle
    PROVE  SameDeployment /\ (deferredWork => deferredWork')
<1>1. CASE UNCHANGED <<record, deferredWork>>
  BY <1>1 DEF SameDeployment
<1>2. CASE ~UNCHANGED <<record, deferredWork>>
  <2> DEFINE r == status.seen
  <2>1. PICK probe, withinGrace, failure, reset :
          SettleMeasured(r, probe, withinGrace, failure, reset)
    BY <1>2 DEF Settle
  <2> DEFINE everHealthy == r.everHealthy \/ probe = "healthy"
             state == EvaluateInstanceState(r, status.unit, probe, everHealthy,
                                            status.sawSnapshotting, withinGrace)
             recovered == ~r.desiredRunning \/ (reset /\ state = "running" /\ probe = "healthy")
  <2>2. state \in InstanceStates
    BY EvaluateTypes
  <2>3. \/ RecordVmFailure(r, failure)
        \/ Merge(r, state, everHealthy, recovered) /\ deferredWork' = deferredWork
    BY <2>1 DEF SettleMeasured
  <2>4. Present(r)
    BY DEF LookInv, Settle
  <2> HIDE DEF r, everHealthy, state, recovered
  <2>5. CASE RecordVmFailure(r, failure)
    BY <2>5, FailureSameDeployment
  <2>6. CASE Merge(r, state, everHealthy, recovered) /\ deferredWork' = deferredWork
    BY <2>2, <2>4, <2>6, MergeSameDeployment
  <2> QED
    BY <2>3, <2>5, <2>6
<1> QED
  BY <1>1, <1>2

(* A status pass settles, a capture records its sleep, a wake its outcome: the
   record's deployment is nobody's to change there. *)
LEMMA RecordKept ==
    ASSUME TypeOK, LookInv, ConvergenceInv, Settle \/ RecordSleep \/ Restored \/ WakeFailed
    PROVE  ConvergenceInv'
<1>1. /\ UNCHANGED <<accepted, reconcile, start>>
      /\ saved' \in {saved, record}
  BY DEF Settle, RecordSleep, Restored, WakeFailed
<1>2. SameCopies
  BY <1>1 DEF SameCopies, Underway
<1>3. SameDeployment /\ (deferredWork => deferredWork')
  <2>1. CASE Settle
    BY <2>1, SettleSameDeployment
  <2>2. CASE RecordSleep
    <3> DEFINE r == [record EXCEPT !.state = "idle", !.stopRequested = TRUE]
    <3>1. r \in Records /\ r.deployment = record.deployment /\ Present(r)
      BY DEF TypeOK, Records, Present, InstanceStates
    <3>2. record' = Update(record, r) /\ deferredWork' = deferredWork
      BY <2>2 DEF RecordSleep
    <3> HIDE DEF r
    <3> QED
      BY <3>1, <3>2, UpdateSameDeployment
  <2>3. CASE Restored
    <3>1. PICK t \in Tokens :
            record' = Update(record, [record EXCEPT !.state = "starting", !.startedAt = t,
                                                    !.stopRequested = FALSE])
      BY <2>3 DEF Restored
    <3> DEFINE r == [record EXCEPT !.state = "starting", !.startedAt = t, !.stopRequested = FALSE]
    <3>2. r \in Records /\ r.deployment = record.deployment /\ Present(r)
      BY DEF TypeOK, Records, Present, InstanceStates
    <3>3. record' = Update(record, r) /\ deferredWork' = deferredWork
      BY <2>3, <3>1 DEF Restored
    <3> HIDE DEF r
    <3> QED
      BY <3>2, <3>3, UpdateSameDeployment
  <2>4. CASE WakeFailed
    <3>1. CASE UNCHANGED <<record, deferredWork>>
      BY <3>1 DEF SameDeployment
    <3>2. CASE ~UNCHANGED <<record, deferredWork>>
      <4> DEFINE latest == [record EXCEPT !.stopRequested = FALSE]
                 rec == AfterVmFailure(latest, BootFailure)
      <4>1. /\ Present(record) /\ record' = Recovering(latest, rec)
            /\ deferredWork => deferredWork'
        BY <2>4, <3>2 DEF WakeFailed
      <4> HIDE DEF rec
      <4>2. PICK s \in {"starting", "failed"} :
              record' = [latest EXCEPT !.attempts = rec.attempts, !.retryDue = rec.retryDue,
                                       !.kvm = rec.kvm, !.revived = FALSE, !.state = s]
        BY <4>1 DEF Recovering
      <4>3. record'.deployment = record.deployment /\ record'.state = s
        BY <4>2 DEF TypeOK, Records
      <4> QED
        BY <4>1, <4>3 DEF SameDeployment, Present
    <3> QED
      BY <3>1, <3>2
  <2> QED
    BY <2>1, <2>2, <2>3, <2>4
<1> QED
  BY <1>1, <1>2, <1>3, Kept

(* A wake that goes on to boot has no copy of the record yet. *)
LEMMA WakeCheckKept ==
    ASSUME TypeOK, ConvergenceInv, WakeCheck
    PROVE  ConvergenceInv'
<1>1. UNCHANGED <<accepted, record, deferredWork, reconcile, saved>>
  BY DEF WakeCheck, agentState
<1>2. SameDeployment
  BY <1>1 DEF SameDeployment
<1>3. SameCopies
  <2>1. \/ start' = start
        \/ start' = [start EXCEPT !["wake"] = [IdleStart EXCEPT !.pc = "read",
                                                               !.desired = wake.desired]]
    BY DEF WakeCheck
  <2>2. [IdleStart EXCEPT !.pc = "read", !.desired = wake.desired].pc = "read"
    BY DEF IdleStart
  <2> QED
    BY <2>1, <2>2 DEF SameCopies, Underway, TypeOK, Starters
<1> QED
  BY <1>1, <1>2, <1>3, Kept

---------------------------------------------------------------------------
(* The poll loop and a reconcile pass *)

(* A pass that has only begun has decided nothing. *)
LEMMA Beginning ==
    ASSUME CopyInv', AbsentInv', reconcile'.pc = "observe", reconcile'.desired = accepted'
    PROVE  ConvergenceInv'
  BY DEF ConvergenceInv, PassInv, Fits, DeferInv, SeenInv, SettledInv

(* A poll starts a pass over what is accepted. *)
LEMMA PollConverges == ASSUME TypeOK, ConvergenceInv, Poll PROVE ConvergenceInv'
<1>1. UNCHANGED <<record, saved, start>> /\ reconcile'.seen = NoRecord
  BY DEF Poll, agentState, IdleReconcile
<1>2. reconcile'.pc = "observe" /\ reconcile'.desired = accepted'
  BY DEF Poll, IdleReconcile
<1>3. CopyInv'
  BY <1>1 DEF ConvergenceInv, CopyInv, Underway
<1>4. AbsentInv'
  BY <1>1 DEF ConvergenceInv, AbsentInv, NoRecord
<1> QED
  BY <1>2, <1>3, <1>4, Beginning

(* What a pass observes is the record, and a boot under way has a copy of it. *)
LEMMA ObserveConverges == ASSUME TypeOK, ConvergenceInv, Observe PROVE ConvergenceInv'
<1>1. UNCHANGED <<accepted, record, saved, start, deferredWork>>
  BY DEF Observe, agentState
<1>2. /\ reconcile.pc = "observe" /\ reconcile'.pc = "plan" /\ reconcile'.seen = record
      /\ reconcile'.desired = reconcile.desired
  BY DEF Observe, TypeOK, Passes
<1>3. CopyInv' /\ AbsentInv'
  BY <1>1, <1>2 DEF ConvergenceInv, CopyInv, AbsentInv, Underway
<1>4. PassInv' /\ DeferInv'
  BY <1>1, <1>2 DEF ConvergenceInv, PassInv, DeferInv, Fits, Wanted
<1>5. SeenInv'
  <2>1. Follows(record) => Agrees
    BY DEF ConvergenceInv, CopyInv, Agrees, Follows
  <2> QED
    BY <1>1, <1>2, <2>1 DEF SeenInv, Agrees, Follows, Wanted, Underway
<1>6. SettledInv'
  BY <1>2 DEF SettledInv
<1> QED
  BY <1>3, <1>4, <1>5, <1>6 DEF ConvergenceInv

(* planInstances leaves a wanted app alone, or asleep, only if its record is of
   the deployment that is wanted; stops and forgets only what is not wanted; and
   starts, replaces and puts to sleep only what is. *)
LEMMA PlanFollows ==
    ASSUME NEW d \in Desires, NEW r \in Records, NEW b, NEW u, NEW x,
           ~Present(r) => r.deployment = NoDeployment
    PROVE  LET a == PlanInstance(d, r, b, u, x)
               wanted == d.mode \in {"running", "on-request"}
           IN  /\ wanted /\ a \in {"none", "sleep"} => Present(r) /\ r.deployment = d.deployment
               /\ a \in {"stop", "forget"} => ~wanted
               /\ a \in {"start", "replace", "sleep"} => wanted
<1> DEFINE a == PlanInstance(d, r, b, u, x)
<1>1. d.deployment # NoDeployment /\ d.mode \in {"running", "on-request", "stopped", "absent"}
  BY ConstantsAssumption DEF Desires
<1>2. CASE d.mode = "absent"
  BY <1>2 DEF PlanInstance
<1>3. CASE d.mode = "stopped"
  BY <1>3 DEF PlanInstance
<1>4. CASE d.mode \in {"running", "on-request"}
  <2>1. a \notin {"stop", "forget"}
    BY <1>4 DEF PlanInstance
  <2>2. a \in {"none", "sleep"} => r.deployment = d.deployment
    BY <1>4 DEF PlanInstance
  <2> QED
    BY <1>1, <1>4, <2>1, <2>2
<1> QED
  BY <1>1, <1>2, <1>3, <1>4

(* A plan that leaves a wanted app alone is made from a record that follows. *)
LEMMA PlanConverges == ASSUME TypeOK, ConvergenceInv, Plan PROVE ConvergenceInv'
<1>1. UNCHANGED <<accepted, record, saved, start, deferredWork>>
  BY DEF Plan, agentState
<1>2. reconcile.pc = "plan" /\ reconcile.desired = accepted /\ accepted \in Desires
  BY DEF Plan, ConvergenceInv, PassInv, TypeOK
<1>3. reconcile.seen \in Records /\ (~Present(reconcile.seen) =>
                                        reconcile.seen.deployment = NoDeployment)
  BY DEF TypeOK, Passes, ConvergenceInv, AbsentInv
<1>4. PICK u, x :
        reconcile' = [reconcile EXCEPT !.pc = "sync", !.seen = NoRecord, !.sawStarting = FALSE,
            !.action = PlanInstance(reconcile.desired, reconcile.seen, reconcile.sawStarting, u, x)]
  BY DEF Plan
<1> DEFINE a == PlanInstance(accepted, reconcile.seen, reconcile.sawStarting, u, x)
<1>5. /\ reconcile'.pc = "sync" /\ reconcile'.seen = NoRecord /\ reconcile'.action = a
      /\ reconcile'.desired = accepted
  BY <1>2, <1>4 DEF TypeOK, Passes
<1>6. /\ Wanted /\ a \in {"none", "sleep"} => Follows(reconcile.seen)
      /\ a \in {"stop", "forget"} => ~Wanted
      /\ a \in {"start", "replace", "sleep"} => Wanted
  BY <1>2, <1>3, PlanFollows DEF Wanted, Follows
<1> HIDE DEF a
<1>7. CopyInv' /\ AbsentInv'
  BY <1>1, <1>5 DEF ConvergenceInv, CopyInv, AbsentInv, Underway, NoRecord
<1>8. PassInv' /\ DeferInv' /\ SeenInv'
  BY <1>1, <1>5, <1>6 DEF PassInv, DeferInv, SeenInv, Fits, Wanted
<1>9. SettledInv'
  <2>1. Wanted /\ a \in {"none", "sleep"} => Agrees
    BY <1>2, <1>6 DEF ConvergenceInv, SeenInv
  <2>2. Agrees' <=> Agrees
    BY <1>1 DEF Agrees, Follows, Underway
  <2> QED
    BY <1>1, <1>5, <2>1, <2>2 DEF SettledInv, Wanted
<1> QED
  BY <1>7, <1>8, <1>9 DEF ConvergenceInv

(* A pass that clears deferredWork has nothing to start or to replace. *)
LEMMA SyncConverges == ASSUME TypeOK, ConvergenceInv, Sync PROVE ConvergenceInv'
<1>1. UNCHANGED <<accepted, saved, start>> /\ reconcile.pc = "sync"
  BY DEF Sync
<1>2. SameDeployment
  <2>1. \/ record' = record
        \/ \E b, c : record' = [record EXCEPT !.desiredRunning = b, !.onRequest = c]
    BY DEF Sync, Update
  <2> QED
    BY <2>1 DEF SameDeployment, Present, TypeOK, Records
<1>3. reconcile.action \in PlannedActions
  BY DEF TypeOK, Passes
<1>4. /\ reconcile'.pc = FirstStep[reconcile.action] /\ reconcile'.action = reconcile.action
      /\ reconcile'.desired = reconcile.desired /\ reconcile'.seen = reconcile.seen
  BY DEF Sync, TypeOK, Passes
<1>5. /\ FirstStep[reconcile.action] \notin {"idle", "observe", "plan", "sync"}
      /\ Fits(FirstStep[reconcile.action], reconcile.action)
  BY <1>3 DEF PlannedActions, FirstStep, Fits
<1>6. reconcile.action \in {"start", "replace"} => deferredWork'
  BY DEF Sync, HasDeferredWork
<1>7. Agrees => Agrees'
  BY <1>1, <1>2 DEF Agrees, Follows, Underway, SameDeployment
<1>8. CopyInv' /\ AbsentInv'
  BY <1>1, <1>2, <1>4 DEF ConvergenceInv, CopyInv, AbsentInv, Underway, SameDeployment
<1>9. PassInv' /\ DeferInv' /\ SeenInv'
  BY <1>1, <1>4, <1>5, <1>6 DEF ConvergenceInv, PassInv, DeferInv, SeenInv, Wanted
<1>10. SettledInv'
  <2>1. Wanted /\ reconcile.action \in {"none", "sleep"} => Agrees
    BY <1>1 DEF ConvergenceInv, SettledInv
  <2>2. Wanted /\ ~deferredWork' => reconcile.action \in {"none", "sleep"}
    BY <1>1, <1>3, <1>6 DEF ConvergenceInv, PassInv, PlannedActions
  <2> QED
    BY <1>1, <1>4, <1>7, <2>1, <2>2 DEF SettledInv, Wanted
<1> QED
  BY <1>8, <1>9, <1>10 DEF ConvergenceInv

(* Stopping leaves the record's deployment alone. *)
LEMMA StopConverges ==
    ASSUME TypeOK, ConvergenceInv, StopMark \/ StopDiscard \/ StopUnit \/ StopDone
    PROVE  ConvergenceInv'
<1>1. UNCHANGED <<accepted, saved, start, deferredWork>>
  BY DEF StopMark, StopDiscard, StopUnit, StopDone, agentState
<1>2. SameCopies
  BY <1>1 DEF SameCopies, Underway
<1>3. SameDeployment
  <2>1. \/ record' = record
        \/ record' = Update(record, [record EXCEPT !.state = "stopping", !.stopRequested = TRUE])
        \/ record' = Update(record, [record EXCEPT !.state = "stopped", !.attempts = 0,
                                !.retryDue = FALSE, !.kvm = FALSE, !.revived = FALSE])
    BY DEF StopMark, StopDiscard, StopUnit, StopDone, agentState
  <2> QED
    BY <2>1 DEF SameDeployment, Update, Present, TypeOK, Records
<1>4. PICK next \in {"stopDiscard", "stopUnit", "stopDone", "discard", "persist"} :
        /\ reconcile' = [reconcile EXCEPT !.pc = next]
        /\ next = "discard" => reconcile.action = "replace"
  BY DEF StopMark, StopDiscard, StopUnit, StopDone
<1>5. reconcile.pc \in {"stopMark", "stopDiscard", "stopUnit", "stopDone"}
  BY DEF StopMark, StopDiscard, StopUnit, StopDone
<1>6. Fits(next, reconcile.action)
  BY <1>4, <1>5 DEF ConvergenceInv, PassInv, Fits
<1>7. /\ reconcile'.pc = next /\ reconcile'.action = reconcile.action
      /\ reconcile'.desired = reconcile.desired /\ reconcile'.seen = reconcile.seen
  BY <1>4 DEF TypeOK, Passes
<1> QED
  BY <1>1, <1>2, <1>3, <1>4, <1>5, <1>6, <1>7, Kept

(* A pass that ends leaves a host that it found right, or work deferred. *)
LEMMA PassEnds ==
    ASSUME TypeOK, ConvergenceInv, UNCHANGED <<accepted, record, start>>,
           saved' \in {saved, record}, reconcile' = IdleReconcile,
           reconcile.pc \notin {"idle", "observe", "plan", "sync"},
           deferredWork => deferredWork'
    PROVE  ConvergenceInv'
<1>1. reconcile'.pc = "idle" /\ reconcile'.seen = NoRecord
  BY DEF IdleReconcile
<1>2. CopyInv' /\ AbsentInv'
  BY <1>1 DEF ConvergenceInv, CopyInv, AbsentInv, Underway, NoRecord
<1>3. PassInv' /\ DeferInv' /\ SeenInv'
  BY <1>1 DEF PassInv, DeferInv, SeenInv, Fits
<1>4. SettledInv'
  <2>1. Agrees' <=> Agrees
    BY DEF Agrees, Follows, Underway
  <2>2. Wanted' <=> Wanted
    BY DEF Wanted
  <2> QED
    BY <1>1, <2>1, <2>2 DEF ConvergenceInv, SettledInv
<1> QED
  BY <1>2, <1>3, <1>4 DEF ConvergenceInv

(* A replacement that cannot be made ends the pass with work deferred. *)
LEMMA DiscardVmConverges == ASSUME TypeOK, ConvergenceInv, DiscardVm PROVE ConvergenceInv'
<1>1. UNCHANGED <<accepted, saved, record, start>> /\ reconcile.pc = "discard"
  BY DEF DiscardVm
<1>2. deferredWork => deferredWork'
  BY DEF DiscardVm
<1>3. CASE reconcile' = IdleReconcile
  BY <1>1, <1>2, <1>3, PassEnds
<1>4. CASE reconcile' = [reconcile EXCEPT !.pc = "drop"]
  <2>1. /\ reconcile'.pc = "drop" /\ reconcile'.action = reconcile.action
        /\ reconcile'.desired = reconcile.desired /\ reconcile'.seen = reconcile.seen
    BY <1>4 DEF TypeOK, Passes
  <2>2. Fits("drop", reconcile.action)
    BY <1>1 DEF ConvergenceInv, PassInv, Fits
  <2>3. SameDeployment /\ SameCopies
    BY <1>1 DEF SameDeployment, SameCopies, Underway
  <2> QED
    BY <1>1, <1>2, <2>1, <2>2, <2>3, Kept
<1> QED
  BY <1>3, <1>4 DEF DiscardVm

(* A record is dropped for an app that is not wanted, or by a pass whose work
   stays deferred: a boot that still holds a copy is looked at again. *)
LEMMA DropRecordConverges == ASSUME TypeOK, ConvergenceInv, DropRecord PROVE ConvergenceInv'
<1>1. UNCHANGED <<accepted, saved, start, deferredWork>> /\ reconcile.pc = "drop"
  BY DEF DropRecord
<1>2. record'.deployment = NoDeployment /\ ~Present(record')
  BY DEF DropRecord, NoRecord, Present
<1>3. PICK next \in {"claim", "persist"} :
        /\ reconcile' = [reconcile EXCEPT !.pc = next]
        /\ next = "claim" => reconcile.action = "replace"
  BY DEF DropRecord
<1>4. /\ reconcile'.pc = next /\ reconcile'.action = reconcile.action
      /\ reconcile'.desired = reconcile.desired /\ reconcile'.seen = reconcile.seen
  BY <1>3 DEF TypeOK, Passes
<1>5. reconcile.action \in {"forget", "replace"}
  BY <1>1 DEF ConvergenceInv, PassInv, Fits
<1>6. CopyInv' /\ AbsentInv'
  BY <1>1, <1>2, <1>4 DEF ConvergenceInv, CopyInv, AbsentInv, Underway
<1>7. PassInv' /\ DeferInv' /\ SeenInv'
  BY <1>1, <1>3, <1>4, <1>5 DEF ConvergenceInv, PassInv, DeferInv, SeenInv, Fits, Wanted
<1>8. SettledInv'
  BY <1>1, <1>3, <1>4, <1>5 DEF ConvergenceInv, PassInv, DeferInv, SettledInv, Wanted
<1> QED
  BY <1>6, <1>7, <1>8 DEF ConvergenceInv

(* An app put to sleep has the record it was observed with. *)
LEMMA SleepConverges == ASSUME TypeOK, ConvergenceInv, SleepInstance PROVE ConvergenceInv'
<1>1. UNCHANGED <<accepted, saved, start, deferredWork>> /\ reconcile.pc = "sleep"
  BY DEF SleepInstance
<1>2. reconcile.action = "sleep" /\ reconcile.desired = accepted /\ Agrees
  BY <1>1 DEF ConvergenceInv, PassInv, SettledInv, Fits
<1>3. record' = [record EXCEPT !.deployment = accepted.deployment,
                               !.desiredRunning = TRUE, !.onRequest = TRUE]
  BY <1>2 DEF SleepInstance, Agrees, Follows
<1>4. SameDeployment
  BY <1>2, <1>3 DEF SameDeployment, Agrees, Follows, Present, TypeOK, Records
<1>5. SameCopies
  BY <1>1 DEF SameCopies, Underway
<1>6. /\ reconcile'.pc = "persist" /\ reconcile'.action = reconcile.action
      /\ reconcile'.desired = reconcile.desired /\ reconcile'.seen = reconcile.seen
  BY DEF SleepInstance, TypeOK, Passes
<1>7. Fits("persist", reconcile.action)
  BY DEF Fits
<1> QED
  BY <1>1, <1>4, <1>5, <1>6, <1>7, Kept

(* A claimed start has no copy of the record yet. *)
LEMMA ClaimStartConverges == ASSUME TypeOK, ConvergenceInv, ClaimStart PROVE ConvergenceInv'
<1>1. UNCHANGED <<accepted, saved, record, deferredWork>> /\ reconcile.pc = "claim"
  BY DEF ClaimStart
<1>2. SameCopies
  <2>1. \/ start' = start
        \/ start' = [start EXCEPT !["reconcile"] = [IdleStart EXCEPT !.pc = "read",
                                                        !.desired = reconcile.desired]]
    BY DEF ClaimStart
  <2>2. [IdleStart EXCEPT !.pc = "read", !.desired = reconcile.desired].pc = "read"
    BY DEF IdleStart
  <2> QED
    BY <2>1, <2>2 DEF SameCopies, Underway, TypeOK, Starters
<1>3. SameDeployment
  BY <1>1 DEF SameDeployment
<1>4. PICK next \in {"starting", "persist"} : reconcile' = [reconcile EXCEPT !.pc = next]
  BY DEF ClaimStart
<1>5. /\ reconcile'.pc = next /\ reconcile'.action = reconcile.action
      /\ reconcile'.desired = reconcile.desired /\ reconcile'.seen = reconcile.seen
  BY <1>4 DEF TypeOK, Passes
<1>6. Fits(next, reconcile.action)
  BY <1>1 DEF ConvergenceInv, PassInv, Fits
<1> QED
  BY <1>1, <1>2, <1>3, <1>5, <1>6, Kept

(* The end of a pass saves the record it leaves. *)
LEMMA PersistConverges == ASSUME TypeOK, ConvergenceInv, Persist PROVE ConvergenceInv'
<1>1. /\ UNCHANGED <<accepted, record, start, deferredWork>> /\ reconcile' = IdleReconcile
      /\ saved' \in {saved, record} /\ reconcile.pc = "persist"
  BY DEF Persist, agentState, Saved
<1> QED
  BY <1>1, PassEnds

---------------------------------------------------------------------------
(* A boot *)

(* While p has a boot under way nobody else has, and a pass whose boot it is
   waits for it. *)
LEMMA OneBoot ==
    ASSUME OneStarter, NEW p \in Starters, start[p].pc # "idle"
    PROVE  /\ \A q \in Starters : Underway(q) => q = p
           /\ p = "reconcile" => reconcile.pc = "starting"
  BY DEF OneStarter, Underway, Starters

(* A start that ends has no copy any more, and a pass that waited goes on. *)
LEMMA EndStartKept ==
    ASSUME TypeOK, OneStarter, ConvergenceInv, NEW p \in Starters, start[p].pc # "idle",
           EndStart(p)
    PROVE  /\ SameCopies
           /\ \/ reconcile' = reconcile
              \/ /\ reconcile.pc \notin {"idle", "observe", "plan", "sync"}
                 /\ reconcile'.pc \notin {"idle", "observe", "plan", "sync"}
                 /\ reconcile'.action = reconcile.action
                 /\ reconcile'.desired = reconcile.desired
                 /\ reconcile'.seen = reconcile.seen
                 /\ Fits(reconcile'.pc, reconcile'.action)
<1>1. SameCopies
  BY DEF EndStart, SameCopies, Underway, IdleStart, TypeOK
<1>2. CASE p = "reconcile"
  <2>1. reconcile.pc = "starting"
    BY <1>2, OneBoot
  <2>2. /\ reconcile'.pc = "persist" /\ reconcile'.action = reconcile.action
        /\ reconcile'.desired = reconcile.desired /\ reconcile'.seen = reconcile.seen
    BY <1>2 DEF EndStart, TypeOK, Passes
  <2> QED
    BY <1>1, <2>1, <2>2 DEF Fits
<1>3. CASE p # "reconcile"
  BY <1>1, <1>3 DEF EndStart
<1> QED
  BY <1>2, <1>3

(* A boot that is refused, that goes on or that fails leaves the record's
   deployment alone. *)
LEMMA BootKept ==
    ASSUME TypeOK, OneStarter, ConvergenceInv, NEW p \in Starters,
           NotStartable(p) \/ BootDiscard(p) \/ BootLaunch(p) \/ BootFailed(p)
    PROVE  ConvergenceInv'
<1>1. CASE NotStartable(p)
  <2>1. UNCHANGED <<accepted, saved, record, deferredWork>> /\ EndStart(p) /\ start[p].pc # "idle"
    BY <1>1 DEF NotStartable
  <2>2. SameDeployment
    BY <2>1 DEF SameDeployment
  <2> QED
    BY <2>1, <2>2, EndStartKept, Kept
<1>2. CASE BootDiscard(p) \/ BootLaunch(p)
  <2>1. UNCHANGED <<accepted, saved, record, deferredWork, reconcile>>
    BY <1>2 DEF BootDiscard, BootLaunch, agentState
  <2>2. PICK l \in {"launch", "booted", "failed"} : start' = [start EXCEPT ![p].pc = l]
    BY <1>2 DEF BootDiscard, BootLaunch
  <2>3. Underway(p)
    BY <1>2 DEF BootDiscard, BootLaunch, Underway
  <2>4. start'[p].attempted = start[p].attempted
        /\ \A q \in Starters : q # p => start'[q] = start[q]
    BY <2>2 DEF TypeOK, Boots
  <2>5. SameCopies /\ SameDeployment
    BY <2>1, <2>3, <2>4 DEF SameCopies, SameDeployment, Underway
  <2> QED
    BY <2>1, <2>5, Kept
<1>3. CASE BootFailed(p)
  <2>1. UNCHANGED <<accepted, saved>> /\ EndStart(p) /\ start[p].pc # "idle"
    BY <1>3 DEF BootFailed
  <2>2. SameDeployment /\ (deferredWork => deferredWork')
    BY <1>3, FailureSameDeployment DEF BootFailed
  <2> QED
    BY <2>1, <2>2, EndStartKept, Kept
<1> QED
  BY <1>1, <1>2, <1>3

(* What a boot copies is the record, where there is one. *)
LEMMA StartableConverges ==
    ASSUME TypeOK, OneStarter, ConvergenceInv, NEW p \in Starters, Startable(p)
    PROVE  ConvergenceInv'
<1>1. UNCHANGED <<accepted, saved, record, deferredWork, reconcile>>
  BY DEF Startable, agentState
<1>2. start[p].pc = "read"
  BY DEF Startable
<1> DEFINE r == IF Present(record) THEN record ELSE NewRecord(start[p].desired, "pending")
<1>3. start' = [start EXCEPT ![p].pc = "attempt", ![p].attempted = r]
  BY DEF Startable
<1>4. Present(r) /\ (Present(record) => r = record)
  BY DEF NewRecord, NoRecord, Present
<1> HIDE DEF r
<1>5. start'[p].attempted = r /\ \A q \in Starters : q # p => start'[q] = start[q]
  BY <1>3 DEF TypeOK, Boots
<1>6. \A q \in Starters : q # p => ~Underway(q)
  BY <1>2, OneBoot
<1>7. CopyInv'
  BY <1>1, <1>4, <1>5, <1>6 DEF CopyInv, Underway
<1>8. Agrees => Agrees'
  BY <1>1, <1>4, <1>5, <1>6 DEF Agrees, Follows, Underway
<1> QED
  BY <1>1, <1>7, <1>8 DEF ConvergenceInv, AbsentInv, PassInv, DeferInv, SeenInv, SettledInv,
       Follows, Wanted

(* A boot writes its copy of the record over the record, at its beginning and
   at its end: what it writes is of the record's deployment, or the record was
   dropped and a pass will look again. *)
LEMMA WritesCopy ==
    ASSUME ConvergenceInv, OneStarter, NEW p \in Starters, Underway(p),
           UNCHANGED <<accepted, saved, deferredWork>>,
           record'.deployment = start[p].attempted.deployment, Present(record'),
           start'[p].pc \notin {"idle", "read"} => start'[p].attempted = record',
           \A q \in Starters : q # p => start'[q] = start[q],
           \/ reconcile' = reconcile
           \/ /\ reconcile.pc = "starting" /\ reconcile'.pc = "persist"
              /\ reconcile'.action = reconcile.action
              /\ reconcile'.desired = reconcile.desired
              /\ reconcile'.seen = reconcile.seen
    PROVE  ConvergenceInv'
<1>1. \A q \in Starters : q # p => ~Underway(q)
  BY OneBoot DEF Underway
<1>2. Agrees => Agrees'
  BY <1>1 DEF Agrees, Follows, Underway
<1>3. CopyInv'
  BY <1>1 DEF CopyInv, Underway
<1>4. AbsentInv'
  BY DEF ConvergenceInv, AbsentInv
<1>5. PassInv' /\ DeferInv'
  BY DEF ConvergenceInv, PassInv, DeferInv, Fits, Wanted
<1>6. SeenInv' /\ SettledInv'
  BY <1>2 DEF ConvergenceInv, SeenInv, SettledInv, Follows, Wanted
<1> QED
  BY <1>3, <1>4, <1>5, <1>6 DEF ConvergenceInv

(* The attempt is written over the record. *)
LEMMA AttemptConverges ==
    ASSUME TypeOK, OneStarter, ConvergenceInv, NEW p \in Starters, Attempt(p)
    PROVE  ConvergenceInv'
<1>1. UNCHANGED <<accepted, saved, deferredWork, reconcile>>
  BY DEF Attempt
<1>2. Underway(p)
  BY DEF Attempt, Underway
<1>3. start[p].attempted \in Records
  BY DEF TypeOK, Boots
<1>4. record'.deployment = start[p].attempted.deployment /\ Present(record')
  <2>1. PICK t, n :
          record' = [start[p].attempted EXCEPT
                       !.state = "pending", !.everHealthy = FALSE, !.startedAt = t,
                       !.attempts = n, !.retryDue = FALSE, !.revived = FALSE,
                       !.stopRequested = FALSE]
    BY DEF Attempt
  <2> QED
    BY <1>3, <2>1 DEF Records, Present
<1>5. start' = [start EXCEPT ![p].pc = "discard", ![p].attempted = record']
  BY DEF Attempt
<1>6. start'[p].attempted = record' /\ \A q \in Starters : q # p => start'[q] = start[q]
  BY <1>5 DEF TypeOK, Boots
<1> QED
  BY <1>1, <1>2, <1>4, <1>6, WritesCopy

(* So is the boot's outcome. *)
LEMMA BootedConverges ==
    ASSUME TypeOK, OneStarter, ConvergenceInv, NEW p \in Starters, Booted(p)
    PROVE  ConvergenceInv'
<1>1. UNCHANGED <<accepted, saved, deferredWork>> /\ EndStart(p)
  BY DEF Booted
<1>2. Underway(p) /\ start[p].pc # "idle"
  BY DEF Booted, Underway
<1>3. start[p].attempted \in Records
  BY DEF TypeOK, Boots
<1>4. record'.deployment = start[p].attempted.deployment /\ Present(record')
  <2>1. PICK t : record' = [start[p].attempted EXCEPT !.state = "starting", !.startedAt = t]
    BY DEF Booted
  <2> QED
    BY <1>3, <2>1 DEF Records, Present
<1>5. start'[p].pc = "idle" /\ \A q \in Starters : q # p => start'[q] = start[q]
  BY <1>1 DEF EndStart, IdleStart, TypeOK
<1>6. \/ reconcile' = reconcile
      \/ /\ reconcile.pc = "starting" /\ reconcile'.pc = "persist"
         /\ reconcile'.action = reconcile.action /\ reconcile'.desired = reconcile.desired
         /\ reconcile'.seen = reconcile.seen
  <2>1. CASE p = "reconcile"
    BY <1>1, <1>2, <2>1, OneBoot DEF EndStart, TypeOK, Passes
  <2>2. CASE p # "reconcile"
    BY <1>1, <2>2 DEF EndStart
  <2> QED
    BY <2>1, <2>2
<1> QED
  BY <1>1, <1>2, <1>4, <1>5, <1>6, WritesCopy

(* A restarted agent reads a record back and begins a pass over it. *)
LEMMA RestartConverges == ASSUME TypeOK, ConvergenceInv, Restart PROVE ConvergenceInv'
<1>1. record' = saved /\ saved' = saved /\ reconcile'.seen = NoRecord
  BY DEF Restart, IdleReconcile
<1>2. reconcile'.pc = "observe" /\ reconcile'.desired = accepted'
  BY DEF Restart, IdleReconcile
<1>3. CopyInv'
  BY DEF Restart, CopyInv, Underway, IdleStart
<1>4. AbsentInv'
  BY <1>1 DEF ConvergenceInv, AbsentInv, NoRecord
<1> QED
  BY <1>2, <1>3, <1>4, Beginning

(* A status pass is begun for a record that is there. *)
LEMMA LookKept == ASSUME TypeOK, LookInv, [Next]_vars PROVE LookInv'
<1>1. CASE StatusTick
  BY <1>1 DEF StatusTick, LookInv, IdleStatus, Present
<1>2. CASE ReadUnit
  BY <1>2 DEF ReadUnit, LookInv, Present, TypeOK, StatusPasses
<1>3. CASE Settle \/ PersistStatus \/ Restart
  BY <1>3 DEF Settle, PersistStatus, Restart, LookInv, IdleStatus
<1>4. CASE status' = status
  BY <1>4 DEF LookInv
<1>5. ASSUME NEW p \in Starters, StartStep(p) PROVE status' = status
  BY <1>5 DEF StartStep, NotStartable, Startable, Attempt, BootDiscard, BootLaunch, Booted,
       BootFailed
<1>6. ASSUME Poll \/ ReconcileStep PROVE status' = status
  BY <1>6 DEF Poll, ReconcileStep, Observe, Plan, Sync, StopMark, StopDiscard, StopUnit,
       StopDone, DiscardVm, DropRecord, SleepInstance, ClaimStart, Persist
<1>7. ASSUME \/ Request \/ WakeStep \/ MeasureQuiet \/ CaptureStep \/ VmCrash
             \/ UNCHANGED vars
      PROVE  status' = status
  BY <1>7 DEF Request, WakeStep, ClaimWake, WakeStatus, WakeCheck, WakeLaunch, WakeLoad,
       Restored, WakeFailed, MeasureQuiet, CaptureStep, BeginCapture, RefuseCapture,
       CaptureDiscard, TakeSnapshot, CaptureStop, WriteStamp, RecordSleep, VmCrash, vars, fibers
<1> QED
  BY <1>1, <1>2, <1>3, <1>4, <1>5, <1>6, <1>7 DEF Next, StatusStep, AgentDies, HostReboots

---------------------------------------------------------------------------

(* Whatever is read before an await and used after it, by passes, boots, wakes
   and status passes in any order, is about the accepted deployment or will be
   looked at again. *)
THEOREM ConvergenceInductive == Spec => [](LookInv /\ ConvergenceInv)
<1>1. Init => LookInv /\ ConvergenceInv
  <2> SUFFICES ASSUME Init PROVE LookInv /\ ConvergenceInv
    OBVIOUS
  <2>1. /\ record = NoRecord /\ saved = NoRecord /\ reconcile.seen = NoRecord
        /\ reconcile.pc = "observe" /\ reconcile.desired = accepted
        /\ status.pc = "idle" /\ \A p \in Starters : start[p].pc = "idle"
    BY DEF Init, IdleReconcile, IdleStatus, IdleStart
  <2> QED
    BY <2>1 DEF LookInv, ConvergenceInv, AbsentInv, CopyInv, PassInv, Fits, DeferInv, SeenInv,
         SettledInv, Underway, NoRecord
<1>2. IInv /\ LookInv /\ ConvergenceInv /\ [Next]_vars => (LookInv /\ ConvergenceInv)'
  <2> SUFFICES ASSUME TypeOK, OneStarter, LookInv, ConvergenceInv, [Next]_vars
               PROVE  LookInv' /\ ConvergenceInv'
    BY DEF IInv
  <2>1. LookInv'
    BY LookKept
  <2>2. CASE Poll \/ ReconcileStep
    BY <2>1, <2>2, PollConverges, ObserveConverges, PlanConverges, SyncConverges, StopConverges,
       DiscardVmConverges, DropRecordConverges, SleepConverges, ClaimStartConverges,
       PersistConverges DEF ReconcileStep
  <2>3. ASSUME NEW p \in Starters, StartStep(p) PROVE ConvergenceInv'
    BY <2>3, BootKept, StartableConverges, AttemptConverges, BootedConverges DEF StartStep
  <2>4. CASE Request \/ WakeStep
    BY <2>1, <2>4, Elsewhere, RecordKept, WakeCheckKept DEF WakeStep
  <2>5. CASE MeasureQuiet \/ CaptureStep \/ StatusTick \/ StatusStep \/ VmCrash
    BY <2>1, <2>5, Elsewhere, RecordKept DEF CaptureStep, StatusStep
  <2>6. CASE AgentDies \/ HostReboots
    BY <2>1, <2>6, RestartConverges DEF AgentDies, HostReboots
  <2>7. CASE UNCHANGED vars
    <3>1. /\ UNCHANGED <<accepted, saved, record, deferredWork, reconcile, start>>
          /\ SameDeployment /\ SameCopies
      BY <2>7 DEF vars, agentState, fibers, SameDeployment, SameCopies, Underway
    <3> QED
      BY <2>1, <3>1, Kept
  <2> QED
    BY <2>1, <2>2, <2>3, <2>4, <2>5, <2>6, <2>7 DEF Next
<1> QED
  BY <1>1, <1>2, Inductive, PTL DEF Spec

(* Whenever nothing is in flight and nothing will make the poll loop reconcile,
   a wanted app has a record, and it is of the deployment last asked for: no
   order of redeploys, boots, wakes, captures, faults and restarts leaves the
   old one behind with nobody to replace it. *)
THEOREM HostConverges == Spec => []DeploymentConverges
<1>1. ConvergenceInv => DeploymentConverges
  BY DEF ConvergenceInv, SettledInv, DeploymentConverges, Quiescent, Agrees, Follows, Wanted
<1> QED
  BY ConvergenceInductive, <1>1, PTL

---------------------------------------------------------------------------
(* Retries *)

(* A retry is due, and not because a status pass brought it back. *)
Owed(r) == r.retryDue /\ ~r.revived

(* A retry that is owed, to an app that is wanted or not, is one a pass is about
   to see or will be made to see. *)
RetryScheduled ==
    Owed(record) => deferredWork \/ reconcile.pc \in {"observe", "plan", "sync"}

(* A boot that has begun has used up the retry it was made for. *)
SpentInv ==
    \A p \in Starters :
        start[p].pc \in {"discard", "launch", "booted", "failed"} =>
            ~start[p].attempted.retryDue /\ ~start[p].attempted.revived

(* A status pass that looked at a stopping app merges back the recovery it had
   read, a retry that the stop has withdrawn since. *)
RevivesRetry ==
    /\ status.pc = "settle" /\ SameRecord(status.seen)
    /\ status.seen.stopRequested /\ status.seen.retryDue
    /\ ~record.retryDue /\ record'.retryDue

(* Attempt is the one step that takes a boot past its copy, and it writes the
   retry off. *)
LEMMA SpentKept == ASSUME TypeOK, SpentInv, [Next]_vars PROVE SpentInv'
<1>1. ASSUME NEW p \in Starters, NotStartable(p) \/ Booted(p) \/ BootFailed(p) PROVE SpentInv'
  <2>1. start' = [start EXCEPT ![p] = IdleStart]
    BY <1>1 DEF NotStartable, Booted, BootFailed, EndStart
  <2>2. start'[p].pc = "idle" /\ \A q \in Starters : q # p => start'[q] = start[q]
    BY <2>1 DEF IdleStart, TypeOK
  <2> QED
    BY <2>2 DEF SpentInv
<1>2. ASSUME NEW p \in Starters, Startable(p) PROVE SpentInv'
  <2>1. start'[p].pc = "attempt" /\ \A q \in Starters : q # p => start'[q] = start[q]
    BY <1>2 DEF Startable, TypeOK, Boots
  <2> QED
    BY <2>1 DEF SpentInv
<1>3. ASSUME NEW p \in Starters, Attempt(p) PROVE SpentInv'
  <2>1. start' = [start EXCEPT ![p].pc = "discard", ![p].attempted = record']
    BY <1>3 DEF Attempt
  <2>2. start'[p].attempted = record' /\ \A q \in Starters : q # p => start'[q] = start[q]
    BY <2>1 DEF TypeOK, Boots
  <2>3. PICK t, n :
          record' = [start[p].attempted EXCEPT
                       !.state = "pending", !.everHealthy = FALSE, !.startedAt = t,
                       !.attempts = n, !.retryDue = FALSE, !.revived = FALSE,
                       !.stopRequested = FALSE]
    BY <1>3 DEF Attempt
  <2>4. ~record'.retryDue /\ ~record'.revived
    BY <2>3 DEF TypeOK, Boots, Records
  <2> QED
    BY <2>2, <2>4 DEF SpentInv
<1>4. ASSUME NEW p \in Starters, BootDiscard(p) \/ BootLaunch(p) PROVE SpentInv'
  <2>1. PICK l : start' = [start EXCEPT ![p].pc = l]
    BY <1>4 DEF BootDiscard, BootLaunch
  <2>2. start'[p].attempted = start[p].attempted
        /\ \A q \in Starters : q # p => start'[q] = start[q]
    BY <2>1 DEF TypeOK, Boots
  <2>3. start[p].pc \in {"discard", "launch"}
    BY <1>4 DEF BootDiscard, BootLaunch
  <2> QED
    BY <2>2, <2>3 DEF SpentInv
<1>5. CASE ClaimStart \/ WakeCheck
  <2>1. start' = start \/ \E q \in Starters : \E d :
          start' = [start EXCEPT ![q] = [IdleStart EXCEPT !.pc = "read", !.desired = d]]
    BY <1>5 DEF ClaimStart, WakeCheck, Starters
  <2>2. \A d : [IdleStart EXCEPT !.pc = "read", !.desired = d].pc = "read"
    BY DEF IdleStart
  <2> QED
    BY <2>1, <2>2 DEF SpentInv, TypeOK
<1>6. CASE Restart
  BY <1>6 DEF Restart, SpentInv, IdleStart
<1>7. CASE start' = start
  BY <1>7 DEF SpentInv
<1>8. ASSUME Poll \/ ReconcileStep PROVE start' = start \/ ClaimStart
  BY <1>8 DEF Poll, ReconcileStep, Observe, Plan, Sync, StopMark, StopDiscard, StopUnit,
       StopDone, DiscardVm, DropRecord, SleepInstance, Persist
<1>9. ASSUME \/ Request \/ WakeStep \/ MeasureQuiet \/ CaptureStep \/ StatusTick \/ StatusStep
             \/ VmCrash \/ UNCHANGED vars
      PROVE  start' = start \/ WakeCheck
  BY <1>9 DEF Request, WakeStep, ClaimWake, WakeStatus, WakeLaunch, WakeLoad,
       Restored, WakeFailed, MeasureQuiet, CaptureStep, BeginCapture, RefuseCapture,
       CaptureDiscard, TakeSnapshot, CaptureStop, WriteStamp, RecordSleep, StatusTick, StatusStep,
       ReadUnit, Settle, PersistStatus, VmCrash, vars, fibers
<1>10. ASSUME NEW p \in Starters, StartStep(p) PROVE SpentInv'
  BY <1>1, <1>2, <1>3, <1>4, <1>10 DEF StartStep
<1>11. CASE AgentDies \/ HostReboots
  BY <1>6, <1>11 DEF AgentDies, HostReboots
<1> QED
  BY <1>5, <1>7, <1>8, <1>9, <1>10, <1>11 DEF Next

(* Steps that make no retry due without deferring work for it. *)
LEMMA KeepsSchedule ==
    ASSUME RetryScheduled,
           Owed(record') => Owed(record) \/ deferredWork',
           deferredWork => deferredWork',
           reconcile.pc \in {"observe", "plan", "sync"} =>
               reconcile'.pc \in {"observe", "plan", "sync"}
    PROVE  RetryScheduled'
  BY DEF RetryScheduled

(* recordVmFailure defers work for the retry it makes due. *)
LEMMA FailureSchedules ==
    ASSUME TypeOK, NEW r, NEW failure, RecordVmFailure(r, failure)
    PROVE  /\ Owed(record') => Owed(record) \/ deferredWork'
           /\ deferredWork => deferredWork'
           /\ record'.revived => record.revived
<1> DEFINE rec == AfterVmFailure(r, failure)
<1>1. \/ UNCHANGED <<record, deferredWork>>
      \/ /\ \E s : record' = [record EXCEPT
                                !.attempts = rec.attempts, !.retryDue = rec.retryDue,
                                !.kvm = rec.kvm, !.revived = FALSE, !.state = s]
         /\ (rec.retryDue => deferredWork') /\ (deferredWork => deferredWork')
  BY DEF RecordVmFailure, Recovering
<1> HIDE DEF rec
<1>2. CASE UNCHANGED <<record, deferredWork>>
  BY <1>2
<1>3. CASE ~UNCHANGED <<record, deferredWork>>
  <2>1. record'.retryDue = rec.retryDue
    BY <1>1, <1>3 DEF TypeOK, Records
  <2>2. record'.revived = FALSE
    BY <1>1, <1>3 DEF TypeOK, Records
  <2> QED
    BY <1>1, <1>3, <2>1, <2>2 DEF Owed
<1> QED
  BY <1>2, <1>3

(* Each pass finds out again whether a retry is due, after it has planned. *)
LEMMA PassSchedules ==
    ASSUME TypeOK, RetryScheduled, Poll \/ ReconcileStep
    PROVE  RetryScheduled' /\ (record'.revived => record.revived)
<1>1. CASE Poll \/ Observe \/ Plan
  <2>1. reconcile'.pc \in {"observe", "plan", "sync"}
    BY <1>1 DEF Poll, Observe, Plan, IdleReconcile, TypeOK, Passes
  <2>2. record' = record
    BY <1>1 DEF Poll, Observe, Plan, agentState
  <2> QED
    BY <2>1, <2>2 DEF RetryScheduled
<1>2. CASE Sync
  <2>1. \/ record' = record
        \/ \E b, c : record' = [record EXCEPT !.desiredRunning = b, !.onRequest = c]
    BY <1>2 DEF Sync, Update
  <2>2. record'.retryDue = record.retryDue /\ record'.revived = record.revived
    BY <2>1 DEF TypeOK, Records
  <2>3. record.retryDue => deferredWork'
    BY <1>2 DEF Sync, HasDeferredWork
  <2> QED
    BY <2>2, <2>3 DEF RetryScheduled, Owed
<1>3. CASE \/ StopMark \/ StopDiscard \/ StopUnit \/ StopDone \/ DiscardVm \/ DropRecord
           \/ SleepInstance \/ ClaimStart \/ Persist
  <2>1. reconcile.pc \notin {"observe", "plan", "sync"}
    BY <1>3 DEF StopMark, StopDiscard, StopUnit, StopDone, DiscardVm, DropRecord, SleepInstance,
         ClaimStart, Persist
  <2>2. deferredWork => deferredWork'
    BY <1>3 DEF StopMark, StopDiscard, StopUnit, StopDone, DiscardVm, DropRecord, SleepInstance,
         ClaimStart, Persist, agentState
  <2>3. (Owed(record') => Owed(record)) /\ (record'.revived => record.revived)
    <3>1. \/ record' = record
          \/ record' = [record EXCEPT !.state = "stopping", !.stopRequested = TRUE]
          \/ record' = [record EXCEPT !.state = "stopped", !.attempts = 0, !.retryDue = FALSE,
                                      !.kvm = FALSE, !.revived = FALSE]
          \/ record' = NoRecord
          \/ \E d : record' = [record EXCEPT !.deployment = d, !.desiredRunning = TRUE,
                                             !.onRequest = TRUE]
          \/ record' = NewRecord(reconcile.desired, "idle")
      BY <1>3 DEF StopMark, StopDiscard, StopUnit, StopDone, DiscardVm, DropRecord,
           SleepInstance, ClaimStart, Persist, agentState, Update
    <3>2. NoRecord.retryDue = FALSE /\ NewRecord(reconcile.desired, "idle").retryDue = FALSE
      BY DEF NoRecord, NewRecord
    <3>3. NoRecord.revived = FALSE /\ NewRecord(reconcile.desired, "idle").revived = FALSE
      BY DEF NoRecord, NewRecord
    <3>4. record'.retryDue = record.retryDue \/ record'.retryDue = FALSE
      BY <3>1, <3>2 DEF TypeOK, Records
    <3>5. record'.revived = record.revived
          \/ (record'.revived = FALSE /\ record'.retryDue = FALSE)
      BY <3>1, <3>2, <3>3 DEF TypeOK, Records
    <3> QED
      BY <3>4, <3>5 DEF Owed
  <2> QED
    BY <2>1, <2>2, <2>3, KeepsSchedule
<1> QED
  BY <1>1, <1>2, <1>3 DEF ReconcileStep

(* A boot uses its retry up, or fails and defers the next. *)
LEMMA BootSchedules ==
    ASSUME TypeOK, OneStarter, SpentInv, RetryScheduled, NEW p \in Starters, StartStep(p)
    PROVE  RetryScheduled' /\ (record'.revived => record.revived)
<1>1. reconcile.pc \in {"observe", "plan", "sync"} => reconcile'.pc = reconcile.pc
  <2>1. CASE reconcile' = reconcile
    BY <2>1
  <2>2. CASE reconcile' # reconcile
    <3>1. p = "reconcile" /\ start[p].pc # "idle"
      BY <2>2 DEF StartStep, NotStartable, Startable, Attempt, BootDiscard, BootLaunch, Booted,
           BootFailed, EndStart
    <3> QED
      BY <3>1, OneBoot
  <2> QED
    BY <2>1, <2>2
<1>2. /\ Owed(record') => Owed(record) \/ deferredWork'
      /\ deferredWork => deferredWork'
      /\ record'.revived => record.revived
  <2>1. CASE NotStartable(p) \/ Startable(p) \/ BootDiscard(p) \/ BootLaunch(p)
    BY <2>1 DEF NotStartable, Startable, BootDiscard, BootLaunch, agentState
  <2>2. CASE Attempt(p)
    <3>1. PICK t, n :
            record' = [start[p].attempted EXCEPT
                         !.state = "pending", !.everHealthy = FALSE, !.startedAt = t,
                         !.attempts = n, !.retryDue = FALSE, !.revived = FALSE,
                         !.stopRequested = FALSE]
      BY <2>2 DEF Attempt
    <3>2. ~record'.retryDue /\ ~record'.revived
      BY <3>1 DEF TypeOK, Boots, Records
    <3>3. deferredWork' = deferredWork
      BY <2>2 DEF Attempt
    <3> QED
      BY <3>2, <3>3 DEF Owed
  <2>3. CASE Booted(p)
    <3>1. PICK t : record' = [start[p].attempted EXCEPT !.state = "starting", !.startedAt = t]
      BY <2>3 DEF Booted
    <3>2. /\ record'.retryDue = start[p].attempted.retryDue
          /\ record'.revived = start[p].attempted.revived
      BY <3>1 DEF TypeOK, Boots, Records
    <3>3. /\ ~start[p].attempted.retryDue /\ ~start[p].attempted.revived
          /\ deferredWork' = deferredWork
      BY <2>3 DEF Booted, SpentInv
    <3> QED
      BY <3>2, <3>3 DEF Owed
  <2>4. CASE BootFailed(p)
    BY <2>4, FailureSchedules DEF BootFailed
  <2> QED
    BY <2>1, <2>2, <2>3, <2>4 DEF StartStep
<1> QED
  BY <1>1, <1>2, KeepsSchedule

(* A status pass makes a retry due and defers it, keeps the record's, or merges
   back the one it had read, and marks it so. *)
LEMMA SettleSchedules ==
    ASSUME TypeOK, RetryScheduled, Settle
    PROVE  RetryScheduled' /\ (record'.revived => record.revived \/ RevivesRetry)
<1> DEFINE r == status.seen
<1>1. reconcile' = reconcile /\ status.pc = "settle"
  BY DEF Settle
<1>2. CASE UNCHANGED <<record, deferredWork>>
  BY <1>1, <1>2, KeepsSchedule
<1>3. CASE ~UNCHANGED <<record, deferredWork>>
  <2>1. PICK probe, withinGrace, failure, reset :
          SettleMeasured(r, probe, withinGrace, failure, reset)
    BY <1>3 DEF Settle
  <2>2. ~IsAwaitingRecovery(r)
    BY <1>3 DEF Settle
  <2> DEFINE everHealthy == r.everHealthy \/ probe = "healthy"
             state == EvaluateInstanceState(r, status.unit, probe, everHealthy,
                                            status.sawSnapshotting, withinGrace)
             measured == reset /\ state = "running" /\ probe = "healthy"
  <2>3. \/ RecordVmFailure(r, failure)
        \/ /\ Merge(r, state, everHealthy, ~r.desiredRunning \/ measured)
           /\ deferredWork' = deferredWork
    BY <2>1 DEF SettleMeasured
  <2> HIDE DEF r, everHealthy, state, measured
  <2>4. CASE RecordVmFailure(r, failure)
    BY <1>1, <2>4, FailureSchedules, KeepsSchedule
  <2>5. CASE /\ Merge(r, state, everHealthy, ~r.desiredRunning \/ measured)
             /\ deferredWork' = deferredWork
    <3>1. CASE ~SameRecord(r)
      BY <1>1, <2>5, <3>1, KeepsSchedule DEF Merge
    <3>2. CASE SameRecord(r)
      <4>1. PICK n, due, kvm, revived :
              /\ due = (~(~r.desiredRunning \/ measured) /\ r.retryDue)
              /\ revived = (due /\ (record.retryDue => record.revived))
              /\ record' = [record EXCEPT !.state = state, !.everHealthy = everHealthy,
                                          !.attempts = n, !.retryDue = due, !.kvm = kvm,
                                          !.revived = revived]
        BY <2>5, <3>2 DEF Merge
      <4>2. record'.retryDue = due
        BY <4>1 DEF TypeOK, Records
      <4>3. record'.revived = revived
        BY <4>1 DEF TypeOK, Records
      <4>4. record'.retryDue => r.retryDue /\ r.stopRequested
        BY <2>2, <4>1, <4>2 DEF IsAwaitingRecovery
      <4>5. record'.revived => record'.retryDue /\ (record.retryDue => record.revived)
        BY <4>1, <4>2, <4>3
      <4>6. record'.revived => record.revived \/ RevivesRetry
        BY <1>1, <3>2, <4>4, <4>5 DEF RevivesRetry, r
      <4>7. Owed(record') => Owed(record)
        BY <4>1, <4>2, <4>3 DEF Owed
      <4> QED
        BY <1>1, <2>5, <4>6, <4>7, KeepsSchedule
    <3> QED
      BY <3>1, <3>2
  <2> QED
    BY <2>3, <2>4, <2>5
<1> QED
  BY <1>2, <1>3

(* A wake that fails defers the retry it makes due; captures, wakes and crashes
   make none due otherwise. *)
LEMMA OthersSchedule ==
    ASSUME TypeOK, RetryScheduled,
           \/ MeasureQuiet \/ CaptureStep \/ StatusTick \/ ReadUnit \/ PersistStatus \/ VmCrash
           \/ Request \/ WakeStep \/ UNCHANGED vars
    PROVE  RetryScheduled' /\ (record'.revived => record.revived)
<1>1. reconcile' = reconcile
  BY DEF MeasureQuiet, CaptureStep, BeginCapture, RefuseCapture, CaptureDiscard, TakeSnapshot,
       CaptureStop, WriteStamp, RecordSleep, StatusTick, ReadUnit, PersistStatus, VmCrash,
       Request, WakeStep, ClaimWake, WakeStatus, WakeCheck, WakeLaunch, WakeLoad, Restored,
       WakeFailed, vars, fibers
<1>2. \/ WakeFailed
      \/ /\ deferredWork' = deferredWork
         /\ \/ record' = record
            \/ record' = [record EXCEPT !.state = "idle", !.stopRequested = TRUE]
            \/ \E t : record' = [record EXCEPT !.state = "starting", !.startedAt = t,
                                               !.stopRequested = FALSE]
  BY DEF MeasureQuiet, CaptureStep, BeginCapture, RefuseCapture, CaptureDiscard, TakeSnapshot,
       CaptureStop, WriteStamp, RecordSleep, StatusTick, ReadUnit, PersistStatus, VmCrash,
       Request, WakeStep, ClaimWake, WakeStatus, WakeCheck, WakeLaunch, WakeLoad, Restored,
       vars, agentState, Update
<1>3. CASE WakeFailed
  <2>1. CASE UNCHANGED <<record, deferredWork>>
    BY <1>1, <2>1, KeepsSchedule
  <2>2. CASE ~UNCHANGED <<record, deferredWork>>
    <3> DEFINE latest == [record EXCEPT !.stopRequested = FALSE]
               rec == AfterVmFailure(latest, BootFailure)
    <3>1. /\ \E s : record' = [latest EXCEPT
                                !.attempts = rec.attempts, !.retryDue = rec.retryDue,
                                !.kvm = rec.kvm, !.revived = FALSE, !.state = s]
          /\ (rec.retryDue => deferredWork') /\ (deferredWork => deferredWork')
      BY <1>3, <2>2 DEF WakeFailed, Recovering
    <3> HIDE DEF rec
    <3>2. record'.retryDue = rec.retryDue
      BY <3>1 DEF TypeOK, Records
    <3>3. record'.revived = FALSE
      BY <3>1 DEF TypeOK, Records
    <3>4. Owed(record') => deferredWork'
      BY <3>1, <3>2 DEF Owed
    <3> QED
      BY <1>1, <3>1, <3>3, <3>4, KeepsSchedule
  <2> QED
    BY <2>1, <2>2
<1>4. CASE ~WakeFailed
  <2>1. record'.retryDue = record.retryDue /\ record'.revived = record.revived
    BY <1>2, <1>4 DEF TypeOK, Records
  <2>2. deferredWork' = deferredWork /\ (Owed(record') => Owed(record))
    BY <1>2, <1>4, <2>1 DEF Owed
  <2> QED
    BY <1>1, <2>1, <2>2, KeepsSchedule
<1> QED
  BY <1>3, <1>4

(* One step keeps every retry that is owed scheduled, and marks one as brought
   back only if it is the merge that did it, or a restart that read it back. *)
LEMMA StepSchedules ==
    ASSUME TypeOK, OneStarter, SpentInv, RetryScheduled, [Next]_vars
    PROVE  RetryScheduled' /\ (record'.revived => record.revived \/ RevivesRetry \/ Restart)
<1>1. CASE AgentDies \/ HostReboots
  BY <1>1 DEF AgentDies, HostReboots, Restart, IdleReconcile, RetryScheduled
<1>2. ASSUME NEW p \in Starters, StartStep(p)
      PROVE  RetryScheduled' /\ (record'.revived => record.revived)
  BY <1>2, BootSchedules
<1>3. CASE Poll \/ ReconcileStep
  BY <1>3, PassSchedules
<1>4. CASE Settle
  BY <1>4, SettleSchedules
<1>5. CASE \/ MeasureQuiet \/ CaptureStep \/ StatusTick \/ ReadUnit \/ PersistStatus \/ VmCrash
           \/ Request \/ WakeStep \/ UNCHANGED vars
  BY <1>5, OthersSchedule
<1> QED
  BY <1>1, <1>2, <1>3, <1>4, <1>5 DEF Next, StatusStep

(* A boot that has begun carries no retry with it: what it writes back when it
   succeeds makes none due. *)
THEOREM RetryIsSpent == Spec => []SpentInv
<1>1. Init => SpentInv
  BY DEF Init, SpentInv, IdleStart
<1>2. IInv /\ SpentInv /\ [Next]_vars => SpentInv'
  BY SpentKept DEF IInv
<1> QED
  BY <1>1, <1>2, Inductive, PTL DEF Spec

(* What RetryScheduled needs of each step, kept together. *)
THEOREM RetryInductive == Spec => []RetryScheduled
<1>1. Init => RetryScheduled
  BY DEF Init, RetryScheduled, Owed, NoRecord
<1>2. IInv /\ SpentInv /\ RetryScheduled /\ [Next]_vars => RetryScheduled'
  BY StepSchedules DEF IInv
<1> QED
  BY <1>1, <1>2, Inductive, RetryIsSpent, PTL DEF Spec

(* Every retry that is due, of an app that is wanted and not being stopped, is one
   the poll loop will come back for, unless it was brought back: deferredWork,
   which each pass writes over, is lost to no other by any step of any fiber. *)
THEOREM RetryStaysScheduled == Spec => []RetryIsScheduled
<1>1. RetryScheduled => RetryIsScheduled
  BY DEF RetryScheduled, RetryIsScheduled, Owed
<1> QED
  BY <1>1, RetryInductive, PTL

(* The retries excepted there are exactly those of one race: a record comes to be
   marked so only when settle merges into it the recovery it had read of a
   stopping app before the stop withdrew it, or when a restart reads it back. *)
THEOREM OnlyASettleRevives ==
    Spec => [][record'.revived => record.revived \/ RevivesRetry \/ Restart]_vars
<1>1. IInv /\ SpentInv /\ RetryScheduled /\ [Next]_vars
        => [record'.revived => record.revived \/ RevivesRetry \/ Restart]_vars
  BY StepSchedules DEF IInv
<1> QED
  BY <1>1, Inductive, RetryIsSpent, RetryInductive, PTL DEF Spec
=============================================================================
