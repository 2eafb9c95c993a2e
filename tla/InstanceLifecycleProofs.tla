----------------------- MODULE InstanceLifecycleProofs -----------------------
(***************************************************************************)
(* What is proved of InstanceLifecycle for every set of deployments, modes *)
(* and timestamps and every bound: its type invariant, that a start claim  *)
(* has exactly one holder, and that no interleaving of the fibers takes an *)
(* app past its retry budget.                                              *)
(*                                                                         *)
(* The budget is not inductive as it stands: a boot and a status pass each *)
(* carry a copy of the record across awaits and write parts of it back,    *)
(* and a restart brings back the saved one.  BudgetInv asks of every such  *)
(* copy what WithinRetryBudget asks of the record.                         *)
(*                                                                         *)
(* Of snapshots it is proved that an image the disk has moved on from is   *)
(* never restored but where a guest was put on the disk in the middle of   *)
(* the capture that took it, and that only a pass's boot puts one there.   *)
(***************************************************************************)
EXTENDS InstanceLifecycle, TLAPS

(* Records a retry can be made from without exceeding the budget. *)
Budgeted ==
    {r \in Records : r.attempts <= MaxKvmRetries /\ (r.retryDue => r.attempts < Budget(r.kvm))}

BudgetInv ==
    /\ record \in Budgeted
    /\ saved \in Budgeted
    /\ status.seen \in Budgeted
    /\ \A p \in Starters : start[p].attempted \in Budgeted

IInv == TypeOK /\ BudgetInv /\ OneStarter

---------------------------------------------------------------------------
(* The fibers at rest, and the operators the actions share *)

(* What an idle fiber and a missing record or stamp look like is well typed:
   every early return of the code goes back to one of these. *)
LEMMA IdleTypes ==
    /\ NoRecord \in Records /\ NoRecord \in Budgeted
    /\ IdleReconcile \in Passes /\ IdleStart \in Boots /\ IdleWake \in Wakes
    /\ IdleCapture \in Captures /\ IdleStatus \in StatusPasses /\ NoStamp \in Stamps
<1>1. NoRecord \in Records /\ NoRecord.attempts = 0 /\ NoRecord.retryDue = FALSE
  BY DEF NoRecord, Records
<1>2. NoRecord \in Budgeted
  BY <1>1, ConstantsAssumption DEF Budgeted
<1> QED
  BY <1>1, <1>2 DEF IdleReconcile, IdleStart, IdleWake, IdleCapture, IdleStatus, Passes, Boots,
       Wakes, Captures, StatusPasses, NoDesire, PlannedActions, VmStates, NoStamp, Stamps

(* newInstanceRecord starts an app with its whole budget. *)
LEMMA NewRecordBudgeted ==
    ASSUME NEW d \in Desires \cup {NoDesire}, NEW s \in InstanceStates
    PROVE  NewRecord(d, s) \in Budgeted
<1>1. d.deployment \in Deployments \cup {NoDeployment}
  BY DEF Desires, NoDesire
<1>2. NewRecord(d, s) \in Records
  BY <1>1 DEF NewRecord, NoRecord, Records
<1>3. NewRecord(d, s).attempts = 0 /\ NewRecord(d, s).retryDue = FALSE
  BY DEF NewRecord, NoRecord
<1> QED
  BY <1>2, <1>3, ConstantsAssumption DEF Budgeted

(* Either policy's budget is a number, and none exceeds the one for KVM. *)
LEMMA BudgetTypes == \A kvm \in BOOLEAN : Budget(kvm) \in Nat /\ Budget(kvm) <= MaxKvmRetries
  BY ConstantsAssumption DEF Budget

(* afterVmFailure keeps the count, and makes a retry due only while the count is
   below the budget of the failure it is given. *)
LEMMA AfterVmFailureFields ==
    ASSUME NEW r \in Budgeted, NEW failure \in Failures
    PROVE  LET rec == AfterVmFailure(r, failure)
           IN  /\ rec.attempts \in Nat /\ rec.attempts <= MaxKvmRetries
               /\ rec.retryDue \in BOOLEAN /\ rec.kvm \in BOOLEAN
               /\ rec.retryDue => rec.attempts < Budget(rec.kvm)
<1> DEFINE kvm == failure.kind = "kvm"
           due == failure.retryable /\ r.attempts < Budget(kvm)
           rec == [attempts |-> r.attempts, kvm |-> kvm, retryDue |-> due]
<1>1. AfterVmFailure(r, failure) = rec
  BY DEF AfterVmFailure
<1>2. r.attempts \in Nat /\ r.attempts <= MaxKvmRetries
  BY DEF Budgeted, Records
<1>3. due \in BOOLEAN /\ kvm \in BOOLEAN /\ (due => r.attempts < Budget(kvm))
  BY DEF Failures
<1> HIDE DEF kvm, due
<1>4. rec.attempts = r.attempts /\ rec.kvm = kvm /\ rec.retryDue = due
  OBVIOUS
<1> HIDE DEF rec
<1> QED
  BY <1>1, <1>2, <1>3, <1>4

(* A recovery within its budget leaves a record within it. *)
LEMMA RecoveringBudgeted ==
    ASSUME NEW r \in Records, NEW rec,
           rec.attempts \in Nat, rec.attempts <= MaxKvmRetries,
           rec.retryDue \in BOOLEAN, rec.kvm \in BOOLEAN,
           rec.retryDue => rec.attempts < Budget(rec.kvm)
    PROVE  Recovering(r, rec) \in Budgeted
<1>1. PICK s \in {"starting", "failed"} :
        Recovering(r, rec) = [r EXCEPT !.attempts = rec.attempts, !.retryDue = rec.retryDue,
                                       !.kvm = rec.kvm, !.revived = FALSE, !.state = s]
  BY DEF Recovering
<1>2. /\ Recovering(r, rec) \in Records
      /\ Recovering(r, rec).attempts = rec.attempts
      /\ Recovering(r, rec).retryDue = rec.retryDue
      /\ Recovering(r, rec).kvm = rec.kvm
  BY <1>1 DEF Records, InstanceStates
<1> QED
  BY <1>2 DEF Budgeted

(* recordVmFailure writes a budgeted record when it is given one: a retry is
   due only while the attempts of the record it was found in are below the
   budget of the failure. *)
LEMMA RecordVmFailureBudgeted ==
    ASSUME record \in Budgeted, deferredWork \in BOOLEAN,
           NEW r \in Budgeted, NEW failure \in Failures, RecordVmFailure(r, failure)
    PROVE  record' \in Budgeted /\ deferredWork' \in BOOLEAN
<1> DEFINE rec == AfterVmFailure(r, failure)
<1>1. /\ rec.attempts \in Nat /\ rec.attempts <= MaxKvmRetries
      /\ rec.retryDue \in BOOLEAN /\ rec.kvm \in BOOLEAN
      /\ rec.retryDue => rec.attempts < Budget(rec.kvm)
  BY AfterVmFailureFields
<1>2. \/ record' = record /\ deferredWork' = deferredWork
      \/ record' = Recovering(record, rec) /\ deferredWork' = (deferredWork \/ rec.retryDue)
  BY DEF RecordVmFailure
<1> HIDE DEF rec
<1>3. Recovering(record, rec) \in Budgeted
  BY <1>1, RecoveringBudgeted DEF Budgeted
<1> QED
  BY <1>1, <1>2, <1>3

(* Starting a unit leaves the host well typed, whether or not it was up. *)
LEMMA SystemdStartTypes ==
    ASSUME TypeOK, SystemdStart
    PROVE  vm' \in VmStates /\ ranThisBoot' \in BOOLEAN /\ stamp' \in Stamps /\ files' \in FileStates
  BY IdleTypes DEF TypeOK, SystemdStart, Launch, Overtaken, host, VmStates, FileStates

(* A fault, of the guest or of a command of the host, stays within its bound. *)
LEMMA FaultTypes == ASSUME TypeOK, Fault PROVE faults' \in 0..MaxFaults
  BY ConstantsAssumption DEF TypeOK, Fault

(* A request or a quiet spell stays within its bound. *)
LEMMA AskTypes == ASSUME TypeOK, Ask PROVE asks' \in 0..MaxAsks
  BY ConstantsAssumption DEF TypeOK, Ask

(* planInstance always decides for one of the six actions. *)
LEMMA PlanInstanceTypes == \A d, r, b, u, x : PlanInstance(d, r, b, u, x) \in PlannedActions
  BY DEF PlanInstance, PlannedActions

---------------------------------------------------------------------------
(* The poll loop and a reconcile pass *)

(* Polling: every variable keeps its type and every copy of the record its
   budget. *)
LEMMA PollTypes ==
    ASSUME TypeOK, BudgetInv, Poll
    PROVE  TypeOK' /\ BudgetInv'
<1>1. accepted' \in Desires /\ changes' \in 0..MaxChanges
  BY ConstantsAssumption DEF Poll, TypeOK
<1>2. reconcile' \in Passes
  BY <1>1, IdleTypes DEF Poll, Passes
<1> QED
  BY <1>1, <1>2 DEF Poll, TypeOK, BudgetInv, agentState, host, fibers, bounds

(* The observation keeps a copy of the record: every variable keeps its
   type and every copy of the record its budget. *)
LEMMA ObserveTypes ==
    ASSUME TypeOK, BudgetInv, Observe
    PROVE  TypeOK' /\ BudgetInv'
<1>1. reconcile' \in Passes
  BY DEF Observe, TypeOK, Passes
<1> QED
  BY <1>1 DEF Observe, TypeOK, BudgetInv, agentState, host, fibers, bounds

(* The plan is one of the six actions: every variable keeps its type and
   every copy of the record its budget. *)
LEMMA PlanTypes ==
    ASSUME TypeOK, BudgetInv, Plan
    PROVE  TypeOK' /\ BudgetInv'
<1>1. reconcile' \in Passes
  <2>1. PICK a \in PlannedActions :
          reconcile' = [reconcile EXCEPT !.pc = "sync", !.seen = NoRecord, !.sawStarting = FALSE,
                                         !.action = a]
    BY PlanInstanceTypes DEF Plan
  <2> QED
    BY <2>1, IdleTypes DEF TypeOK, Passes
<1>2. faults' \in 0..MaxFaults
  BY FaultTypes DEF Plan, TypeOK
<1> QED
  BY <1>1, <1>2 DEF Plan, TypeOK, BudgetInv, agentState, host, fibers, bounds

(* Desired state folded into the record leaves its budget alone: every
   variable keeps its type and every copy of the record its budget. *)
LEMMA SyncTypes ==
    ASSUME TypeOK, BudgetInv, Sync
    PROVE  TypeOK' /\ BudgetInv'
<1>1. record' \in Budgeted
  <2>1. \/ record' = record
        \/ \E b, c \in BOOLEAN : record' = [record EXCEPT !.desiredRunning = b, !.onRequest = c]
    BY DEF Sync, Update
  <2> QED
    BY <2>1 DEF BudgetInv, Budgeted, Records
<1>2. reconcile' \in Passes
  <2>1. FirstStep[reconcile.action] \in {"stopMark", "discard", "sleep", "claim", "persist"}
    BY DEF TypeOK, Passes, PlannedActions, FirstStep
  <2> QED
    BY <2>1 DEF Sync, TypeOK, Passes
<1>3. deferredWork' \in BOOLEAN
  BY DEF Sync, HasDeferredWork, TypeOK, Records
<1> QED
  BY <1>1, <1>2, <1>3 DEF Sync, TypeOK, BudgetInv, agentState, host, fibers, bounds, Budgeted

(* Marking a stop leaves the budget alone: every variable keeps its type
   and every copy of the record its budget. *)
LEMMA StopMarkTypes ==
    ASSUME TypeOK, BudgetInv, StopMark
    PROVE  TypeOK' /\ BudgetInv'
<1>1. record' \in Budgeted
  <2>1. record' = record \/ record' = [record EXCEPT !.state = "stopping", !.stopRequested = TRUE]
    BY DEF StopMark, Update
  <2> QED
    BY <2>1 DEF BudgetInv, Budgeted, Records, InstanceStates
<1>2. reconcile' \in Passes
  BY DEF StopMark, TypeOK, Passes
<1> QED
  BY <1>1, <1>2 DEF StopMark, TypeOK, BudgetInv, agentState, host, fibers, bounds, Budgeted

(* Discarding the snapshot of a stop: every variable keeps its type and
   every copy of the record its budget. *)
LEMMA StopDiscardTypes ==
    ASSUME TypeOK, BudgetInv, StopDiscard
    PROVE  TypeOK' /\ BudgetInv'
<1>1. reconcile' \in Passes
  BY DEF StopDiscard, TypeOK, Passes
<1>2. stamp' \in Stamps /\ files' \in FileStates
  BY IdleTypes DEF StopDiscard, Discard, TypeOK, FileStates
<1>3. faults' \in 0..MaxFaults
  BY FaultTypes DEF StopDiscard, TypeOK
<1> QED
  BY <1>1, <1>2, <1>3 DEF StopDiscard, TypeOK, BudgetInv, agentState, host, fibers, bounds

(* Stopping the unit of a stop: every variable keeps its type and every
   copy of the record its budget. *)
LEMMA StopUnitTypes ==
    ASSUME TypeOK, BudgetInv, StopUnit
    PROVE  TypeOK' /\ BudgetInv'
<1>1. reconcile' \in Passes
  BY DEF StopUnit, TypeOK, Passes
<1>2. vm' \in VmStates
  BY DEF StopUnit, Stopped, TypeOK, VmStates
<1>3. faults' \in 0..MaxFaults
  BY FaultTypes DEF StopUnit, TypeOK
<1> QED
  BY <1>1, <1>2, <1>3 DEF StopUnit, TypeOK, BudgetInv, agentState, host, fibers, bounds

(* A stop gives the whole budget back: every variable keeps its type and
   every copy of the record its budget. *)
LEMMA StopDoneTypes ==
    ASSUME TypeOK, BudgetInv, StopDone
    PROVE  TypeOK' /\ BudgetInv'
<1>1. record' \in Budgeted
  <2>1. record' = record \/ record' = [record EXCEPT !.state = "stopped", !.attempts = 0,
                                        !.retryDue = FALSE, !.kvm = FALSE, !.revived = FALSE]
    BY DEF StopDone, Update
  <2>2. record \in Records
    BY DEF TypeOK
  <2>3. ASSUME record' = [record EXCEPT !.state = "stopped", !.attempts = 0,
                                        !.retryDue = FALSE, !.kvm = FALSE, !.revived = FALSE]
        PROVE  record' \in Records /\ record'.attempts = 0 /\ record'.retryDue = FALSE
    BY <2>2, <2>3 DEF Records, InstanceStates
  <2>4. CASE record' = record
    BY <2>4 DEF BudgetInv
  <2>5. CASE record' # record
    <3>1. record' \in Records /\ record'.attempts = 0 /\ record'.retryDue = FALSE
      BY <2>1, <2>3, <2>5
    <3>2. 0 <= MaxKvmRetries
      BY ConstantsAssumption
    <3> QED
      BY <3>1, <3>2 DEF Budgeted
  <2> QED
    BY <2>4, <2>5
<1>2. reconcile' \in Passes
  BY DEF StopDone, TypeOK, Passes
<1> QED
  BY <1>1, <1>2 DEF StopDone, TypeOK, BudgetInv, agentState, host, fibers, bounds, Budgeted

(* Discarding a microVM: every variable keeps its type and every copy of
   the record its budget. *)
LEMMA DiscardVmTypes ==
    ASSUME TypeOK, BudgetInv, DiscardVm
    PROVE  TypeOK' /\ BudgetInv'
<1>1. reconcile' \in Passes
  BY IdleTypes DEF DiscardVm, TypeOK, Passes
<1>2. stamp' \in Stamps /\ files' \in FileStates /\ vm' \in VmStates
  BY IdleTypes DEF DiscardVm, Discard, TypeOK, FileStates, VmStates
<1>3. faults' \in 0..MaxFaults
  BY FaultTypes DEF DiscardVm, TypeOK
<1>4. deferredWork' \in BOOLEAN
  BY DEF DiscardVm, TypeOK
<1> QED
  BY <1>1, <1>2, <1>3, <1>4 DEF DiscardVm, TypeOK, BudgetInv, agentState, host, fibers, bounds

(* A dropped record is a budgeted one: every variable keeps its type and
   every copy of the record its budget. *)
LEMMA DropRecordTypes ==
    ASSUME TypeOK, BudgetInv, DropRecord
    PROVE  TypeOK' /\ BudgetInv'
<1>1. reconcile' \in Passes
  BY DEF DropRecord, TypeOK, Passes
<1> QED
  BY <1>1, IdleTypes DEF DropRecord, TypeOK, BudgetInv, agentState, host, fibers, bounds

(* An app put to sleep keeps the budget it had: every variable keeps its
   type and every copy of the record its budget. *)
LEMMA SleepInstanceTypes ==
    ASSUME TypeOK, BudgetInv, SleepInstance
    PROVE  TypeOK' /\ BudgetInv'
<1>1. record' \in Budgeted
  <2>1. CASE Present(record)
    <3>1. reconcile.desired.deployment \in Deployments \cup {NoDeployment}
      BY DEF TypeOK, Passes, Desires, NoDesire
    <3>2. record' = [record EXCEPT !.deployment = reconcile.desired.deployment,
                                   !.desiredRunning = TRUE, !.onRequest = TRUE]
      BY <2>1 DEF SleepInstance
    <3> QED
      BY <3>1, <3>2 DEF BudgetInv, Budgeted, Records
  <2>2. CASE ~Present(record)
    <3>1. reconcile.desired \in Desires \cup {NoDesire} /\ "idle" \in InstanceStates
      BY DEF TypeOK, Passes, InstanceStates
    <3>2. record' = NewRecord(reconcile.desired, "idle")
      BY <2>2 DEF SleepInstance
    <3> QED
      BY <3>1, <3>2, NewRecordBudgeted
  <2> QED
    BY <2>1, <2>2
<1>2. reconcile' \in Passes
  BY DEF SleepInstance, TypeOK, Passes
<1> QED
  BY <1>1, <1>2 DEF SleepInstance, TypeOK, BudgetInv, agentState, host, fibers, bounds, Budgeted

(* A claimed start begins with no record of its own: every variable keeps
   its type and every copy of the record its budget. *)
LEMMA ClaimStartTypes ==
    ASSUME TypeOK, BudgetInv, ClaimStart
    PROVE  TypeOK' /\ BudgetInv'
<1>1. reconcile' \in Passes
  BY DEF ClaimStart, TypeOK, Passes
<1>2. start' \in [Starters -> Boots] /\ starting' \in BOOLEAN
  <2>1. [IdleStart EXCEPT !.pc = "read", !.desired = reconcile.desired] \in Boots
    BY IdleTypes DEF TypeOK, Passes, Boots
  <2> QED
    BY <2>1 DEF ClaimStart, TypeOK
<1>3. \A p \in Starters : start'[p].attempted \in Budgeted
  <2>1. [IdleStart EXCEPT !.pc = "read", !.desired = reconcile.desired].attempted = NoRecord
    BY DEF IdleStart
  <2> QED
    BY <2>1, IdleTypes DEF ClaimStart, TypeOK, BudgetInv, Boots
<1> QED
  BY <1>1, <1>2, <1>3 DEF ClaimStart, TypeOK, BudgetInv, agentState, host, fibers, bounds

(* Saving copies the record: every variable keeps its type and every copy
   of the record its budget. *)
LEMMA PersistTypes ==
    ASSUME TypeOK, BudgetInv, Persist
    PROVE  TypeOK' /\ BudgetInv'
<1>1. reconcile' \in Passes
  BY IdleTypes DEF Persist
<1> QED
  BY <1>1 DEF Persist, TypeOK, BudgetInv, agentState, host, fibers, bounds, Saved

---------------------------------------------------------------------------
(* A boot *)

(* A start that ends is idle again, and so is the claim. *)
LEMMA EndStartTypes ==
    ASSUME TypeOK, BudgetInv, NEW p \in Starters, EndStart(p)
    PROVE  /\ starting' \in BOOLEAN /\ start' \in [Starters -> Boots] /\ reconcile' \in Passes
           /\ \A q \in Starters : start'[q].attempted \in Budgeted
<1>1. start' \in [Starters -> Boots]
  BY IdleTypes DEF EndStart, TypeOK
<1>2. \A q \in Starters : start'[q].attempted \in Budgeted
  BY IdleTypes DEF EndStart, TypeOK, BudgetInv, IdleStart
<1>3. reconcile' \in Passes
  BY DEF EndStart, TypeOK, Passes
<1> QED
  BY <1>1, <1>2, <1>3 DEF EndStart

(* A boot that goes on to another label keeps its type and the record it
   carries. *)
LEMMA GoOnTypes ==
    ASSUME TypeOK, BudgetInv, NEW p \in Starters,
           NEW l \in {"idle", "read", "attempt", "discard", "launch", "booted", "failed"},
           start' = [start EXCEPT ![p].pc = l]
    PROVE  /\ start' \in [Starters -> Boots]
           /\ \A q \in Starters : start'[q].attempted \in Budgeted
<1>1. [start[p] EXCEPT !.pc = l] \in Boots
  BY DEF TypeOK, Boots
<1>2. [start[p] EXCEPT !.pc = l].attempted = start[p].attempted
  BY DEF TypeOK, Boots
<1> QED
  BY <1>1, <1>2 DEF TypeOK, BudgetInv

(* A boot refused: every variable keeps its type and every copy of the
   record its budget. *)
LEMMA NotStartableTypes ==
    ASSUME TypeOK, BudgetInv, NEW p \in Starters, NotStartable(p)
    PROVE  TypeOK' /\ BudgetInv'
<1>1. /\ starting' \in BOOLEAN /\ start' \in [Starters -> Boots] /\ reconcile' \in Passes
      /\ \A q \in Starters : start'[q].attempted \in Budgeted
  BY EndStartTypes DEF NotStartable
<1> QED
  BY <1>1 DEF NotStartable, TypeOK, BudgetInv, agentState, host, fibers, bounds

(* A boot carries the record it read, or a new one: every variable keeps
   its type and every copy of the record its budget. *)
LEMMA StartableTypes ==
    ASSUME TypeOK, BudgetInv, NEW p \in Starters, Startable(p)
    PROVE  TypeOK' /\ BudgetInv'
<1>1. /\ start' \in [Starters -> Boots]
      /\ \A q \in Starters : start'[q].attempted \in Budgeted
  <2>1. PICK r \in Budgeted :
          start' = [start EXCEPT ![p].pc = "attempt", ![p].attempted = r]
    <3>1. start[p].desired \in Desires \cup {NoDesire} /\ "pending" \in InstanceStates
      BY DEF TypeOK, Boots, InstanceStates
    <3>2. NewRecord(start[p].desired, "pending") \in Budgeted
      BY <3>1, NewRecordBudgeted
    <3> QED
      BY <3>2 DEF Startable, BudgetInv
  <2>2. r \in Records
    BY DEF Budgeted
  <2>3. [start[p] EXCEPT !.pc = "attempt", !.attempted = r] \in Boots
    BY <2>2 DEF TypeOK, Boots
  <2>4. [start[p] EXCEPT !.pc = "attempt", !.attempted = r].attempted = r
    BY DEF TypeOK, Boots
  <2>5. start' = [start EXCEPT ![p] = [start[p] EXCEPT !.pc = "attempt", !.attempted = r]]
    BY <2>1
  <2> QED
    BY <2>3, <2>4, <2>5 DEF TypeOK, BudgetInv
<1> QED
  BY <1>1 DEF Startable, TypeOK, BudgetInv, agentState, host, fibers, bounds

(* An attempt charges the budget only for a retry that was due: every
   variable keeps its type and every copy of the record its budget. *)
LEMMA AttemptTypes ==
    ASSUME TypeOK, BudgetInv, NEW p \in Starters, Attempt(p)
    PROVE  TypeOK' /\ BudgetInv'
<1>1. record' \in Budgeted
  <2>1. PICK t \in Tokens :
          record' = [start[p].attempted EXCEPT
                       !.state = "pending", !.everHealthy = FALSE, !.startedAt = t,
                       !.attempts = IF start[p].attempted.retryDue THEN @ + 1 ELSE @,
                       !.retryDue = FALSE, !.revived = FALSE, !.stopRequested = FALSE]
    BY DEF Attempt
  <2>2. PICK r \in Budgeted : r = start[p].attempted
    BY DEF BudgetInv
  <2>3. /\ r \in Records /\ r.attempts <= MaxKvmRetries
        /\ r.retryDue => r.attempts < MaxKvmRetries
    <3>1. r \in Records /\ r.attempts \in Nat /\ r.kvm \in BOOLEAN
      BY DEF Budgeted, Records
    <3>2. r.attempts <= MaxKvmRetries /\ (r.retryDue => r.attempts < Budget(r.kvm))
      BY DEF Budgeted
    <3>3. Budget(r.kvm) \in Nat /\ Budget(r.kvm) <= MaxKvmRetries
      BY <3>1, BudgetTypes
    <3> QED
      BY <3>1, <3>2, <3>3, ConstantsAssumption
  <2>4. PICK n : /\ n = IF r.retryDue THEN r.attempts + 1 ELSE r.attempts
                 /\ record' = [r EXCEPT !.state = "pending", !.everHealthy = FALSE,
                                        !.startedAt = t, !.attempts = n,
                                        !.retryDue = FALSE, !.revived = FALSE,
                                        !.stopRequested = FALSE]
    BY <2>1, <2>2
  <2>5. n \in Nat /\ n <= MaxKvmRetries
    BY <2>3, <2>4, ConstantsAssumption DEF Records
  <2>6. record' \in Records /\ record'.attempts = n /\ record'.retryDue = FALSE
    BY <2>3, <2>4, <2>5 DEF Records, InstanceStates
  <2> QED
    BY <2>5, <2>6 DEF Budgeted
<1>2. /\ start' \in [Starters -> Boots]
      /\ \A q \in Starters : start'[q].attempted \in Budgeted
  <2>1. record' \in Records
    BY <1>1 DEF Budgeted
  <2>2. [start[p] EXCEPT !.pc = "discard", !.attempted = record'] \in Boots
    BY <2>1 DEF TypeOK, Boots
  <2>3. [start[p] EXCEPT !.pc = "discard", !.attempted = record'].attempted = record'
    BY DEF TypeOK, Boots
  <2>4. start' = [start EXCEPT ![p] = [start[p] EXCEPT !.pc = "discard", !.attempted = record']]
    BY DEF Attempt
  <2> QED
    BY <1>1, <2>2, <2>3, <2>4 DEF TypeOK, BudgetInv
<1>3. capture' \in Captures
  BY DEF Attempt, Touched, TypeOK, Captures
<1> QED
  BY <1>1, <1>2, <1>3 DEF Attempt, TypeOK, BudgetInv, agentState, host, fibers, bounds, Budgeted

(* Discarding the snapshot of a boot: every variable keeps its type and
   every copy of the record its budget. *)
LEMMA BootDiscardTypes ==
    ASSUME TypeOK, BudgetInv, NEW p \in Starters, BootDiscard(p)
    PROVE  TypeOK' /\ BudgetInv'
<1>1. /\ start' \in [Starters -> Boots]
      /\ \A q \in Starters : start'[q].attempted \in Budgeted
  <2>1. start' = [start EXCEPT ![p].pc = "launch"] \/ start' = [start EXCEPT ![p].pc = "failed"]
    BY DEF BootDiscard
  <2> QED
    BY <2>1, GoOnTypes
<1>2. stamp' \in Stamps /\ files' \in FileStates
  BY IdleTypes DEF BootDiscard, Discard, TypeOK, FileStates
<1>3. faults' \in 0..MaxFaults
  BY FaultTypes DEF BootDiscard, TypeOK
<1> QED
  BY <1>1, <1>2, <1>3 DEF BootDiscard, TypeOK, BudgetInv, agentState, host, fibers, bounds

(* Starting the unit of a boot: every variable keeps its type and every
   copy of the record its budget. *)
LEMMA BootLaunchTypes ==
    ASSUME TypeOK, BudgetInv, NEW p \in Starters, BootLaunch(p)
    PROVE  TypeOK' /\ BudgetInv'
<1>1. /\ start' \in [Starters -> Boots]
      /\ \A q \in Starters : start'[q].attempted \in Budgeted
  <2>1. start' = [start EXCEPT ![p].pc = "booted"] \/ start' = [start EXCEPT ![p].pc = "failed"]
    BY DEF BootLaunch
  <2> QED
    BY <2>1, GoOnTypes
<1>2. vm' \in VmStates /\ ranThisBoot' \in BOOLEAN /\ stamp' \in Stamps /\ files' \in FileStates
  BY SystemdStartTypes DEF BootLaunch, TypeOK, host
<1>3. faults' \in 0..MaxFaults
  BY FaultTypes DEF BootLaunch, TypeOK
<1> QED
  BY <1>1, <1>2, <1>3 DEF BootLaunch, TypeOK, BudgetInv, agentState, host, fibers, bounds

(* A boot that succeeded writes its attempt back: every variable keeps its
   type and every copy of the record its budget. *)
LEMMA BootedTypes ==
    ASSUME TypeOK, BudgetInv, NEW p \in Starters, Booted(p)
    PROVE  TypeOK' /\ BudgetInv'
<1>1. record' \in Budgeted
  <2>1. PICK t \in Tokens :
          record' = [start[p].attempted EXCEPT !.state = "starting", !.startedAt = t]
    BY DEF Booted
  <2>2. start[p].attempted \in Budgeted
    BY DEF BudgetInv
  <2> QED
    BY <2>1, <2>2 DEF Budgeted, Records, InstanceStates
<1>2. /\ starting' \in BOOLEAN /\ start' \in [Starters -> Boots] /\ reconcile' \in Passes
      /\ \A q \in Starters : start'[q].attempted \in Budgeted
  BY EndStartTypes DEF Booted
<1> QED
  BY <1>1, <1>2 DEF Booted, TypeOK, BudgetInv, agentState, host, fibers, bounds, Budgeted

(* A boot that failed is a failure of its attempt: every variable keeps its
   type and every copy of the record its budget. *)
LEMMA BootFailedTypes ==
    ASSUME TypeOK, BudgetInv, NEW p \in Starters, BootFailed(p)
    PROVE  TypeOK' /\ BudgetInv'
<1>1. record' \in Budgeted /\ deferredWork' \in BOOLEAN
  BY RecordVmFailureBudgeted DEF BootFailed, BudgetInv, TypeOK, BootFailure, Failures
<1>2. /\ starting' \in BOOLEAN /\ start' \in [Starters -> Boots] /\ reconcile' \in Passes
      /\ \A q \in Starters : start'[q].attempted \in Budgeted
  BY EndStartTypes DEF BootFailed
<1> QED
  BY <1>1, <1>2 DEF BootFailed, TypeOK, BudgetInv, agentState, host, fibers, bounds, Budgeted

---------------------------------------------------------------------------
(* A wake *)

(* Asking for an app: every variable keeps its type and every copy of the
   record its budget. *)
LEMMA RequestTypes ==
    ASSUME TypeOK, BudgetInv, Request
    PROVE  TypeOK' /\ BudgetInv'
<1>1. wake' \in Wakes
  BY IdleTypes DEF Request, TypeOK, Wakes
<1>2. asks' \in 0..MaxAsks
  BY AskTypes DEF Request
<1> QED
  BY <1>1, <1>2 DEF Request, TypeOK, BudgetInv, agentState, host, fibers, bounds

(* Claiming a wake: every variable keeps its type and every copy of the
   record its budget. *)
LEMMA ClaimWakeTypes ==
    ASSUME TypeOK, BudgetInv, ClaimWake
    PROVE  TypeOK' /\ BudgetInv'
<1>1. wake' \in Wakes
  <2>1. wake' = IdleWake \/ wake' = [wake EXCEPT !.pc = "status", !.seen = record]
    BY DEF ClaimWake
  <2> QED
    BY <2>1, IdleTypes DEF TypeOK, Wakes
<1>2. starting' \in BOOLEAN
  BY DEF ClaimWake, TypeOK
<1> QED
  BY <1>1, <1>2 DEF ClaimWake, TypeOK, BudgetInv, agentState, host, fibers, bounds

(* Asking systemd about the unit of a wake: every variable keeps its type
   and every copy of the record its budget. *)
LEMMA WakeStatusTypes ==
    ASSUME TypeOK, BudgetInv, WakeStatus
    PROVE  TypeOK' /\ BudgetInv'
<1>1. wake' \in Wakes
  <2>1. wake' = IdleWake \/ wake' = [wake EXCEPT !.pc = "check", !.seen = NoRecord]
    BY DEF WakeStatus
  <2> QED
    BY <2>1, IdleTypes DEF TypeOK, Wakes
<1>2. starting' \in BOOLEAN /\ capture' \in Captures
  BY DEF WakeStatus, Touched, TypeOK, Captures
<1> QED
  BY <1>1, <1>2 DEF WakeStatus, TypeOK, BudgetInv, agentState, host, fibers, bounds

(* A wake goes on to restore, or to boot: every variable keeps its type and
   every copy of the record its budget. *)
LEMMA WakeCheckTypes ==
    ASSUME TypeOK, BudgetInv, WakeCheck
    PROVE  TypeOK' /\ BudgetInv'
<1>1. wake' \in Wakes
  <2>1. wake' = IdleWake \/ wake' = [wake EXCEPT !.pc = "launch"]
    BY DEF WakeCheck
  <2> QED
    BY <2>1, IdleTypes DEF TypeOK, Wakes
<1>2. /\ start' \in [Starters -> Boots]
      /\ \A q \in Starters : start'[q].attempted \in Budgeted
  <2> DEFINE new == [IdleStart EXCEPT !.pc = "read", !.desired = wake.desired]
  <2>1. new \in Boots /\ new.attempted = NoRecord
    BY IdleTypes DEF TypeOK, Wakes, Boots, IdleStart
  <2>2. start' = start \/ start' = [start EXCEPT !["wake"] = new]
    BY DEF WakeCheck
  <2> HIDE DEF new
  <2> QED
    BY <2>1, <2>2, IdleTypes DEF TypeOK, BudgetInv
<1>3. stamp' \in Stamps /\ files' \in FileStates
  BY IdleTypes DEF WakeCheck, Discard, TypeOK, FileStates
<1> QED
  BY <1>1, <1>2, <1>3 DEF WakeCheck, TypeOK, BudgetInv, agentState, host, fibers, bounds

(* Starting the unit of a wake: every variable keeps its type and every
   copy of the record its budget. *)
LEMMA WakeLaunchTypes ==
    ASSUME TypeOK, BudgetInv, WakeLaunch
    PROVE  TypeOK' /\ BudgetInv'
<1>1. wake' \in Wakes
  BY DEF WakeLaunch, TypeOK, Wakes
<1>2. vm' \in VmStates /\ ranThisBoot' \in BOOLEAN /\ stamp' \in Stamps /\ files' \in FileStates
  BY SystemdStartTypes DEF WakeLaunch, TypeOK, host
<1>3. faults' \in 0..MaxFaults
  BY FaultTypes DEF WakeLaunch, TypeOK
<1> QED
  BY <1>1, <1>2, <1>3 DEF WakeLaunch, TypeOK, BudgetInv, agentState, host, fibers, bounds

(* Loading the image of a wake: every variable keeps its type and every
   copy of the record its budget. *)
LEMMA WakeLoadTypes ==
    ASSUME TypeOK, BudgetInv, WakeLoad
    PROVE  TypeOK' /\ BudgetInv'
<1>1. wake' \in Wakes
  BY DEF WakeLoad, TypeOK, Wakes
<1>2. vm' \in VmStates /\ files' \in FileStates
  BY DEF WakeLoad, Stopped, TypeOK, VmStates, FileStates
<1>3. faults' \in 0..MaxFaults
  BY FaultTypes DEF WakeLoad, TypeOK
<1> QED
  BY <1>1, <1>2, <1>3 DEF WakeLoad, TypeOK, BudgetInv, agentState, host, fibers, bounds

(* A restore charges nothing to the budget: every variable keeps its type
   and every copy of the record its budget. *)
LEMMA RestoredTypes ==
    ASSUME TypeOK, BudgetInv, Restored
    PROVE  TypeOK' /\ BudgetInv'
<1>1. record' \in Budgeted
  <2>1. \/ record' = record
        \/ \E t \in Tokens : record' = [record EXCEPT !.state = "starting", !.startedAt = t,
                                                       !.stopRequested = FALSE]
    BY DEF Restored, Update
  <2> QED
    BY <2>1 DEF BudgetInv, Budgeted, Records, InstanceStates
<1> QED
  BY <1>1, IdleTypes DEF Restored, TypeOK, BudgetInv, agentState, host, fibers, bounds,
       Budgeted, Discard, FileStates

(* A wake that failed is a failure of the record as it is by then: every
   variable keeps its type and every copy of the record its budget. *)
LEMMA WakeFailedTypes ==
    ASSUME TypeOK, BudgetInv, WakeFailed
    PROVE  TypeOK' /\ BudgetInv'
<1>1. record' \in Budgeted /\ deferredWork' \in BOOLEAN
  <2> DEFINE latest == [record EXCEPT !.stopRequested = FALSE]
             rec == AfterVmFailure(latest, BootFailure)
  <2>1. latest \in Budgeted /\ latest \in Records
    BY DEF BudgetInv, Budgeted, Records
  <2>2. \/ record' = record /\ deferredWork' = deferredWork
        \/ record' = Recovering(latest, rec) /\ deferredWork' = (deferredWork \/ rec.retryDue)
    BY DEF WakeFailed
  <2> HIDE DEF latest
  <2>3. /\ rec.attempts \in Nat /\ rec.attempts <= MaxKvmRetries
        /\ rec.retryDue \in BOOLEAN /\ rec.kvm \in BOOLEAN
        /\ rec.retryDue => rec.attempts < Budget(rec.kvm)
    BY <2>1, AfterVmFailureFields DEF BootFailure, Failures
  <2> HIDE DEF rec
  <2>4. Recovering(latest, rec) \in Budgeted
    BY <2>1, <2>3, RecoveringBudgeted
  <2> QED
    BY <2>2, <2>3, <2>4 DEF BudgetInv, TypeOK
<1> QED
  BY <1>1, IdleTypes DEF WakeFailed, TypeOK, BudgetInv, agentState, host, fibers, bounds,
       Budgeted, Discard, FileStates

---------------------------------------------------------------------------
(* A capture *)

(* Measuring an app quiet: every variable keeps its type and every copy of
   the record its budget. *)
LEMMA MeasureQuietTypes ==
    ASSUME TypeOK, BudgetInv, MeasureQuiet
    PROVE  TypeOK' /\ BudgetInv'
<1>1. capture' \in Captures
  <2>1. record.deployment \in Deployments \cup {NoDeployment}
    BY DEF TypeOK, Records
  <2> QED
    BY <2>1, IdleTypes DEF MeasureQuiet, Captures
<1>2. asks' \in 0..MaxAsks
  BY AskTypes DEF MeasureQuiet
<1> QED
  BY <1>1, <1>2 DEF MeasureQuiet, TypeOK, BudgetInv, agentState, host, fibers, bounds

(* Beginning a capture: every variable keeps its type and every copy of the
   record its budget. *)
LEMMA BeginCaptureTypes ==
    ASSUME TypeOK, BudgetInv, BeginCapture
    PROVE  TypeOK' /\ BudgetInv'
<1>1. capture' \in Captures /\ snapshotting' \in BOOLEAN
  <2>1. capture' = IdleCapture \/ capture' = [capture EXCEPT !.pc = "refuse"]
    BY DEF BeginCapture
  <2>2. snapshotting' \in BOOLEAN
    BY DEF BeginCapture, TypeOK
  <2> QED
    BY <2>1, <2>2, IdleTypes DEF TypeOK, Captures
<1> QED
  BY <1>1 DEF BeginCapture, TypeOK, BudgetInv, agentState, host, fibers, bounds

(* Refusing a capture, or not: every variable keeps its type and every copy
   of the record its budget. *)
LEMMA RefuseCaptureTypes ==
    ASSUME TypeOK, BudgetInv, RefuseCapture
    PROVE  TypeOK' /\ BudgetInv'
<1>1. capture' \in Captures /\ snapshotting' \in BOOLEAN
  <2>1. capture' = IdleCapture \/ capture' = [capture EXCEPT !.pc = "discard"]
    BY DEF RefuseCapture, EndCapture
  <2>2. snapshotting' \in BOOLEAN
    BY DEF RefuseCapture, EndCapture, TypeOK
  <2> QED
    BY <2>1, <2>2, IdleTypes DEF TypeOK, Captures
<1> QED
  BY <1>1 DEF RefuseCapture, TypeOK, BudgetInv, agentState, host, fibers, bounds

(* Discarding what was captured before: every variable keeps its type and
   every copy of the record its budget. *)
LEMMA CaptureDiscardTypes ==
    ASSUME TypeOK, BudgetInv, CaptureDiscard
    PROVE  TypeOK' /\ BudgetInv'
<1>1. capture' \in Captures
  BY DEF CaptureDiscard, TypeOK, Captures
<1> QED
  BY <1>1, IdleTypes DEF CaptureDiscard, TypeOK, BudgetInv, agentState, host, fibers, bounds,
       FileStates

(* Taking the snapshot: every variable keeps its type and every copy of the
   record its budget. *)
LEMMA TakeSnapshotTypes ==
    ASSUME TypeOK, BudgetInv, TakeSnapshot
    PROVE  TypeOK' /\ BudgetInv'
<1>1. capture' \in Captures /\ snapshotting' \in BOOLEAN
  <2>1. capture' = IdleCapture \/ capture' = [capture EXCEPT !.pc = "stop"]
    BY DEF TakeSnapshot, EndCapture
  <2>2. snapshotting' \in BOOLEAN
    BY DEF TakeSnapshot, EndCapture, TypeOK
  <2> QED
    BY <2>1, <2>2, IdleTypes DEF TypeOK, Captures
<1>2. vm' \in VmStates /\ files' \in FileStates
  BY DEF TakeSnapshot, TypeOK, VmStates, FileStates
<1> QED
  BY <1>1, <1>2 DEF TakeSnapshot, TypeOK, BudgetInv, agentState, host, fibers, bounds

(* Stopping the captured unit: every variable keeps its type and every copy
   of the record its budget. *)
LEMMA CaptureStopTypes ==
    ASSUME TypeOK, BudgetInv, CaptureStop
    PROVE  TypeOK' /\ BudgetInv'
<1>1. capture' \in Captures /\ snapshotting' \in BOOLEAN
  <2>1. capture' = IdleCapture \/ capture' = [capture EXCEPT !.pc = "stamp"]
    BY DEF CaptureStop, EndCapture
  <2>2. snapshotting' \in BOOLEAN
    BY DEF CaptureStop, EndCapture, TypeOK
  <2> QED
    BY <2>1, <2>2, IdleTypes DEF TypeOK, Captures
<1>2. vm' \in VmStates /\ files' \in FileStates
  BY DEF CaptureStop, Stopped, TypeOK, VmStates, FileStates
<1>3. faults' \in 0..MaxFaults
  BY FaultTypes DEF CaptureStop, TypeOK
<1> QED
  BY <1>1, <1>2, <1>3 DEF CaptureStop, TypeOK, BudgetInv, agentState, host, fibers, bounds

(* Writing the stamp: every variable keeps its type and every copy of the
   record its budget. *)
LEMMA WriteStampTypes ==
    ASSUME TypeOK, BudgetInv, WriteStamp
    PROVE  TypeOK' /\ BudgetInv'
<1>1. capture' \in Captures
  BY DEF WriteStamp, TypeOK, Captures
<1>2. stamp' \in Stamps /\ files' \in FileStates
  BY DEF WriteStamp, TypeOK, Captures, Stamps, FileStates
<1> QED
  BY <1>1, <1>2 DEF WriteStamp, TypeOK, BudgetInv, agentState, host, fibers, bounds

(* Sleeping leaves the budget alone: every variable keeps its type and
   every copy of the record its budget. *)
LEMMA RecordSleepTypes ==
    ASSUME TypeOK, BudgetInv, RecordSleep
    PROVE  TypeOK' /\ BudgetInv'
<1>1. record' \in Budgeted
  <2>1. \/ record' = record
        \/ record' = [record EXCEPT !.state = "idle", !.stopRequested = TRUE]
    BY DEF RecordSleep, Update
  <2> QED
    BY <2>1 DEF BudgetInv, Budgeted, Records, InstanceStates
<1> QED
  BY <1>1, IdleTypes DEF RecordSleep, TypeOK, BudgetInv, agentState, host, fibers, bounds,
       Budgeted, EndCapture

---------------------------------------------------------------------------
(* The status loop *)

(* A status pass carries the record it read: every variable keeps its type
   and every copy of the record its budget. *)
LEMMA StatusTickTypes ==
    ASSUME TypeOK, BudgetInv, StatusTick
    PROVE  TypeOK' /\ BudgetInv'
<1>1. status' \in StatusPasses /\ status'.seen \in Budgeted
  <2> DEFINE new == [IdleStatus EXCEPT !.pc = "unit", !.seen = record,
                                     !.sawSnapshotting = snapshotting]
  <2>1. new \in StatusPasses /\ new.seen = record
    BY IdleTypes DEF TypeOK, StatusPasses, IdleStatus
  <2>2. status' = status \/ status' = new
    BY DEF StatusTick
  <2> HIDE DEF new
  <2> QED
    BY <2>1, <2>2 DEF TypeOK, BudgetInv
<1>2. saved' \in Budgeted
  BY DEF StatusTick, Saved, BudgetInv
<1> QED
  BY <1>1, <1>2 DEF StatusTick, TypeOK, BudgetInv, agentState, host, fibers, bounds, Budgeted

(* Reading the unit: every variable keeps its type and every copy of the
   record its budget. *)
LEMMA ReadUnitTypes ==
    ASSUME TypeOK, BudgetInv, ReadUnit
    PROVE  TypeOK' /\ BudgetInv'
<1>1. status' \in StatusPasses /\ status'.seen \in Budgeted
  <2>1. status' = [status EXCEPT !.pc = "settle", !.unit = vm]
    BY DEF ReadUnit
  <2> QED
    BY <2>1 DEF TypeOK, BudgetInv, StatusPasses
<1> QED
  BY <1>1 DEF ReadUnit, TypeOK, BudgetInv, agentState, host, fibers, bounds

(* What a status pass makes of what it read is a state of an instance. *)
LEMMA EvaluateTypes ==
    \A r, unit, probe, everHealthy, captured, withinGrace :
        EvaluateInstanceState(r, unit, probe, everHealthy, captured, withinGrace) \in InstanceStates
  BY DEF EvaluateInstanceState, EvaluateStoppedState, InstanceStates

(* Merging a measurement puts back the recovery that was read with the attempts
   that were read, or gives the budget back. *)
LEMMA MergeBudgeted ==
    ASSUME record \in Budgeted, NEW r \in Budgeted, NEW s \in InstanceStates,
           NEW h \in BOOLEAN, NEW recovered \in BOOLEAN, Merge(r, s, h, recovered)
    PROVE  record' \in Budgeted
<1>1. /\ record \in Records /\ r.attempts \in Nat /\ r.retryDue \in BOOLEAN
      /\ r.kvm \in BOOLEAN /\ r.attempts <= MaxKvmRetries
      /\ r.retryDue => r.attempts < Budget(r.kvm)
  BY DEF Budgeted, Records
<1>2. PICK n, due, kvm, revived :
        /\ n = IF recovered THEN 0 ELSE r.attempts
        /\ due = (~recovered /\ r.retryDue)
        /\ kvm = (~recovered /\ r.kvm)
        /\ revived = (due /\ (record.retryDue => record.revived))
  OBVIOUS
<1>3. n \in Nat /\ n <= MaxKvmRetries
  BY <1>1, <1>2, ConstantsAssumption
<1>4. due \in BOOLEAN /\ kvm \in BOOLEAN /\ revived \in BOOLEAN
  BY <1>1, <1>2
<1>5. CASE SameRecord(r)
  <2>1. record' = [record EXCEPT !.state = s, !.everHealthy = h, !.attempts = n,
                                 !.retryDue = due, !.kvm = kvm, !.revived = revived]
    BY <1>2, <1>5 DEF Merge
  <2>2. /\ record' \in Records /\ record'.attempts = n /\ record'.retryDue = due
        /\ record'.kvm = kvm
    <3>1. record \in Records /\ n \in Nat
      BY <1>1, <1>3
    <3>2. record' \in Records
      BY <2>1, <3>1, <1>4 DEF Records
    <3>3. record'.attempts = n
      BY <2>1, <3>1 DEF Records
    <3>4. record'.retryDue = due
      BY <2>1, <3>1 DEF Records
    <3>5. record'.kvm = kvm
      BY <2>1, <3>1 DEF Records
    <3> QED
      BY <3>2, <3>3, <3>4, <3>5
  <2>3. due => n < Budget(kvm)
    <3>1. CASE recovered
      BY <1>2, <3>1
    <3>2. CASE ~recovered
      <4>1. n = r.attempts /\ kvm = r.kvm /\ (due => r.retryDue)
        BY <1>1, <1>2, <3>2
      <4> QED
        BY <1>1, <4>1
    <3> QED
      BY <3>1, <3>2
  <2> QED
    BY <2>2, <2>3, <1>3 DEF Budgeted
<1>6. CASE ~SameRecord(r)
  BY <1>6 DEF Merge
<1> QED
  BY <1>5, <1>6

(* Either way a status pass settles, it leaves a budgeted record. *)
LEMMA SettleMeasuredBudgeted ==
    ASSUME record \in Budgeted, deferredWork \in BOOLEAN, NEW r \in Budgeted,
           NEW probe, NEW withinGrace, NEW failure \in Failures, NEW reset,
           SettleMeasured(r, probe, withinGrace, failure, reset)
    PROVE  record' \in Budgeted /\ deferredWork' \in BOOLEAN
<1> DEFINE everHealthy == r.everHealthy \/ probe = "healthy"
           state == EvaluateInstanceState(r, status.unit, probe, everHealthy,
                                          status.sawSnapshotting, withinGrace)
           recovered == ~r.desiredRunning \/ (reset /\ state = "running" /\ probe = "healthy")
<1>1. state \in InstanceStates
  BY EvaluateTypes
<1>2. everHealthy \in BOOLEAN /\ recovered \in BOOLEAN
  OBVIOUS
<1>3. \/ RecordVmFailure(r, failure)
      \/ Merge(r, state, everHealthy, recovered) /\ deferredWork' = deferredWork
  BY DEF SettleMeasured
<1> HIDE DEF everHealthy, state, recovered
<1>4. CASE RecordVmFailure(r, failure)
  BY <1>4, RecordVmFailureBudgeted
<1>5. CASE Merge(r, state, everHealthy, recovered) /\ deferredWork' = deferredWork
  BY <1>1, <1>2, <1>5, MergeBudgeted
<1> QED
  BY <1>3, <1>4, <1>5

(* A status pass puts back the recovery it read, or gives the budget back:
   every variable keeps its type and every copy of the record its budget. *)
LEMMA SettleTypes ==
    ASSUME TypeOK, BudgetInv, Settle
    PROVE  TypeOK' /\ BudgetInv'
<1>1. status' \in StatusPasses /\ status'.seen \in Budgeted
  <2>1. PICK l \in {"idle", "persist"} : status' = [IdleStatus EXCEPT !.pc = l]
    BY DEF Settle
  <2>2. [IdleStatus EXCEPT !.pc = l] \in StatusPasses
    BY IdleTypes DEF StatusPasses
  <2>3. [IdleStatus EXCEPT !.pc = l].seen = NoRecord
    BY DEF IdleStatus
  <2> QED
    BY <2>1, <2>2, <2>3, IdleTypes
<1>2. record' \in Budgeted /\ deferredWork' \in BOOLEAN
  <2>1. \/ record' = record /\ deferredWork' = deferredWork
        \/ \E probe, withinGrace, reset : \E failure \in Failures :
             SettleMeasured(status.seen, probe, withinGrace, failure, reset)
    BY DEF Settle, Verdict
  <2> QED
    BY <2>1, SettleMeasuredBudgeted DEF BudgetInv, TypeOK
<1> QED
  BY <1>1, <1>2 DEF Settle, TypeOK, BudgetInv, agentState, host, fibers, bounds, Budgeted

(* Saving copies the record: every variable keeps its type and every copy
   of the record its budget. *)
LEMMA PersistStatusTypes ==
    ASSUME TypeOK, BudgetInv, PersistStatus
    PROVE  TypeOK' /\ BudgetInv'
<1> QED
  BY IdleTypes DEF PersistStatus, TypeOK, BudgetInv, agentState, host, fibers, bounds, Saved,
       IdleStatus

---------------------------------------------------------------------------
(* Crashes and restarts *)

(* A guest that crashes: every variable keeps its type and every copy of
   the record its budget. *)
LEMMA VmCrashTypes ==
    ASSUME TypeOK, BudgetInv, VmCrash
    PROVE  TypeOK' /\ BudgetInv'
<1>1. faults' \in 0..MaxFaults
  BY FaultTypes DEF VmCrash
<1> QED
  BY <1>1 DEF VmCrash, TypeOK, BudgetInv, agentState, host, fibers, bounds, VmStates

(* An agent that starts again has the record it saved and fibers at rest. *)
LEMMA RestartTypes ==
    ASSUME TypeOK, BudgetInv, Restart
    PROVE  /\ BudgetInv'
           /\ accepted' \in Desires /\ record' \in Records /\ saved' \in Records
           /\ starting' \in BOOLEAN /\ snapshotting' \in BOOLEAN /\ deferredWork' \in BOOLEAN
           /\ reconcile' \in Passes /\ start' \in [Starters -> Boots] /\ wake' \in Wakes
           /\ capture' \in Captures /\ status' \in StatusPasses
           /\ changes' \in 0..MaxChanges /\ asks' \in 0..MaxAsks
           /\ faults' \in 0..MaxFaults /\ restarts' \in 0..MaxRestarts
<1>1. reconcile' \in Passes
  BY IdleTypes DEF Restart, TypeOK, Passes
<1>2. restarts' \in 0..MaxRestarts
  BY ConstantsAssumption DEF Restart, TypeOK
<1>3. BudgetInv'
  BY IdleTypes DEF Restart, BudgetInv, IdleStart, IdleStatus
<1> QED
  BY <1>1, <1>2, <1>3, IdleTypes DEF Restart, TypeOK

(* The agent alone: every variable keeps its type and every copy of the
   record its budget. *)
LEMMA AgentDiesTypes ==
    ASSUME TypeOK, BudgetInv, AgentDies
    PROVE  TypeOK' /\ BudgetInv'
<1> QED
  BY RestartTypes DEF AgentDies, TypeOK, BudgetInv, agentState, host, fibers, bounds

(* The agent with its host: every variable keeps its type and every copy of
   the record its budget. *)
LEMMA HostRebootsTypes ==
    ASSUME TypeOK, BudgetInv, HostReboots
    PROVE  TypeOK' /\ BudgetInv'
<1>1. stamp' \in Stamps
  BY DEF HostReboots, TypeOK, Stamps
<1> QED
  BY <1>1, RestartTypes DEF HostReboots, TypeOK, BudgetInv, agentState, host, fibers, bounds,
       VmStates

---------------------------------------------------------------------------
(* Who has the start claim *)

(* A step that leaves the claim, the boots and the wake alone, and begins or
   ends no boot of a pass, leaves the claim with its holder. *)
LEMMA ClaimsUntouched ==
    ASSUME OneStarter, UNCHANGED <<starting, start, wake>>,
           reconcile'.pc = "starting" <=> reconcile.pc = "starting"
    PROVE  OneStarter'
  BY DEF OneStarter

(* A reconcile pass: only startInstance takes the claim, and only when it is
   free. *)
LEMMA PassClaims ==
    ASSUME TypeOK, OneStarter, ReconcileStep PROVE OneStarter'
<1>1. CASE Sync
  <2>1. FirstStep[reconcile.action] # "starting"
    BY DEF TypeOK, Passes, PlannedActions, FirstStep
  <2>2. reconcile'.pc # "starting" /\ reconcile.pc # "starting"
    BY <1>1, <2>1 DEF Sync, TypeOK, Passes
  <2> QED
    BY <1>1, <2>2, ClaimsUntouched DEF Sync
<1>2. CASE ClaimStart
  <2>1. CASE Claimable
    <3>1. /\ starting' = TRUE /\ wake' = wake /\ reconcile'.pc = "starting"
          /\ start' = [start EXCEPT !["reconcile"] = [IdleStart EXCEPT
                             !.pc = "read", !.desired = reconcile.desired]]
      BY <1>2, <2>1 DEF ClaimStart, TypeOK, Passes
    <3>2. start'["reconcile"].pc = "read" /\ start'["wake"] = start["wake"]
      BY <3>1 DEF TypeOK, Starters, IdleStart
    <3> QED
      BY <2>1, <3>1, <3>2 DEF OneStarter, Claimable, Starters
  <2>2. CASE ~Claimable
    <3>1. reconcile'.pc = "persist" /\ reconcile.pc = "claim"
      BY <1>2, <2>2 DEF ClaimStart, TypeOK, Passes
    <3> QED
      BY <1>2, <2>2, <3>1, ClaimsUntouched DEF ClaimStart
  <2> QED
    BY <2>1, <2>2
<1>3. CASE Observe \/ Plan \/ StopMark \/ StopDiscard \/ StopUnit \/ StopDone \/ DiscardVm
             \/ DropRecord \/ SleepInstance \/ Persist
  <2>1. reconcile.pc # "starting"
    BY <1>3 DEF Observe, Plan, StopMark, StopDiscard, StopUnit, StopDone, DiscardVm, DropRecord,
         SleepInstance, Persist
  <2>2. UNCHANGED <<starting, start, wake>>
    BY <1>3 DEF Observe, Plan, StopMark, StopDiscard, StopUnit, StopDone,
         DiscardVm, DropRecord, SleepInstance, Persist, agentState
  <2>3. Plan => reconcile'.pc # "starting"
    BY DEF Plan, TypeOK, Passes
  <2>4. Observe \/ StopMark \/ StopDiscard \/ StopUnit => reconcile'.pc # "starting"
    BY DEF Observe, StopMark, StopDiscard, StopUnit, TypeOK, Passes
  <2>5. StopDone \/ DropRecord => reconcile'.pc # "starting"
    BY DEF StopDone, DropRecord, TypeOK, Passes
  <2>6. DiscardVm \/ SleepInstance \/ Persist => reconcile'.pc # "starting"
    BY DEF DiscardVm, SleepInstance, Persist, IdleReconcile, TypeOK, Passes
  <2>7. reconcile'.pc # "starting"
    BY <1>3, <2>3, <2>4, <2>5, <2>6
  <2> QED
    BY <2>1, <2>2, <2>7, ClaimsUntouched
<1> QED
  BY <1>1, <1>2, <1>3 DEF ReconcileStep

(* A boot holds the claim until it ends, and withStartClaim then gives it back. *)
LEMMA BootClaims ==
    ASSUME TypeOK, OneStarter, NEW p \in Starters, StartStep(p) PROVE OneStarter'
<1>1. CASE NotStartable(p) \/ Booted(p) \/ BootFailed(p)
  <2>1. EndStart(p) /\ wake' = wake /\ start[p].pc # "idle"
    BY <1>1 DEF NotStartable, Booted, BootFailed
  <2>2. /\ start'[p].pc = "idle" /\ \A q \in Starters \ {p} : start'[q] = start[q]
        /\ starting' = FALSE
    BY <2>1 DEF EndStart, TypeOK, IdleStart
  <2>3. reconcile'.pc = IF p = "reconcile" THEN "persist" ELSE reconcile.pc
    BY <2>1 DEF EndStart, TypeOK, Passes
  <2> QED
    BY <2>1, <2>2, <2>3 DEF OneStarter, Starters
<1>2. CASE Startable(p) \/ Attempt(p) \/ BootDiscard(p) \/ BootLaunch(p)
  <2>1. start[p].pc # "idle" /\ start'[p].pc # "idle" /\ \A q \in Starters \ {p} : start'[q] = start[q]
    <3>1. Startable(p) \/ Attempt(p) =>
            /\ start[p].pc # "idle" /\ start'[p].pc # "idle"
            /\ \A q \in Starters \ {p} : start'[q] = start[q]
      BY DEF Startable, Attempt, TypeOK, Boots
    <3>2. BootDiscard(p) \/ BootLaunch(p) =>
            /\ start[p].pc # "idle" /\ start'[p].pc # "idle"
            /\ \A q \in Starters \ {p} : start'[q] = start[q]
      BY DEF BootDiscard, BootLaunch, TypeOK, Boots
    <3> QED
      BY <1>2, <3>1, <3>2
  <2>2. UNCHANGED <<starting, wake, reconcile>>
    BY <1>2 DEF Startable, Attempt, BootDiscard, BootLaunch, agentState
  <2> QED
    BY <2>1, <2>2 DEF OneStarter, Starters
<1> QED
  BY <1>1, <1>2 DEF StartStep

(* A wake takes the claim when it is free, hands it to the boot it falls back
   to, and otherwise gives it back however it ends. *)
LEMMA WakeClaims ==
    ASSUME TypeOK, OneStarter, Request \/ WakeStep PROVE OneStarter'
<1>1. CASE Request
  <2>1. wake.pc = "idle" /\ wake'.pc = "asked" /\ UNCHANGED <<starting, start, reconcile>>
    BY <1>1 DEF Request, IdleWake, agentState
  <2> QED
    BY <2>1 DEF OneStarter
<1>2. CASE ClaimWake
  <2>1. /\ wake.pc = "asked" /\ UNCHANGED <<start, reconcile>>
        /\ \/ /\ wake' = [wake EXCEPT !.pc = "status", !.seen = record]
              /\ starting' = TRUE /\ ~starting
           \/ wake' = IdleWake /\ starting' = starting
    BY <1>2 DEF ClaimWake, Claimable
  <2>2. /\ [wake EXCEPT !.pc = "status", !.seen = record].pc = "status"
        /\ IdleWake.pc = "idle"
    BY DEF TypeOK, Wakes, IdleWake
  <2>3. CASE wake'.pc = "status" /\ starting' = TRUE /\ ~starting
    BY <2>1, <2>3 DEF OneStarter
  <2>4. CASE wake'.pc = "idle" /\ starting' = starting
    BY <2>1, <2>4 DEF OneStarter
  <2> QED
    BY <2>1, <2>2, <2>3, <2>4
<1>3. CASE WakeStatus
  <2>1. /\ wake.pc = "status" /\ UNCHANGED <<start, reconcile>>
        /\ \/ wake' = [wake EXCEPT !.pc = "check", !.seen = NoRecord] /\ starting' = starting
           \/ wake' = IdleWake /\ starting' = FALSE
    BY <1>3 DEF WakeStatus
  <2>2. /\ [wake EXCEPT !.pc = "check", !.seen = NoRecord].pc = "check"
        /\ IdleWake.pc = "idle"
    BY DEF TypeOK, Wakes, IdleWake
  <2> QED
    BY <2>1, <2>2 DEF OneStarter
<1>4. CASE WakeCheck
  <2>1. /\ wake.pc = "check" /\ UNCHANGED <<starting, reconcile>>
        /\ \/ wake'.pc = "launch" /\ start' = start
           \/ /\ wake'.pc = "idle"
              /\ start' = [start EXCEPT !["wake"] = [IdleStart EXCEPT
                                !.pc = "read", !.desired = wake.desired]]
    BY <1>4 DEF WakeCheck, IdleWake, TypeOK, Wakes, agentState
  <2>2. CASE wake'.pc = "launch" /\ start' = start
    BY <2>1, <2>2 DEF OneStarter
  <2>3. CASE /\ wake'.pc = "idle"
             /\ start' = [start EXCEPT !["wake"] = [IdleStart EXCEPT
                                !.pc = "read", !.desired = wake.desired]]
    <3>1. start'["wake"].pc = "read" /\ start'["reconcile"] = start["reconcile"]
      BY <2>3 DEF TypeOK, Starters, IdleStart
    <3> QED
      BY <2>1, <2>3, <3>1 DEF OneStarter, Starters
  <2> QED
    BY <2>1, <2>2, <2>3
<1>5. CASE WakeLaunch \/ WakeLoad
  <2>1. wake.pc \in {"launch", "load"} /\ wake'.pc \in {"load", "restored", "failed"}
    BY <1>5 DEF WakeLaunch, WakeLoad, TypeOK, Wakes
  <2>2. UNCHANGED <<starting, start, reconcile>>
    BY <1>5 DEF WakeLaunch, WakeLoad, agentState
  <2> QED
    BY <2>1, <2>2 DEF OneStarter
<1>6. CASE Restored \/ WakeFailed
  <2>1. wake.pc \in {"restored", "failed"} /\ wake'.pc = "idle" /\ starting' = FALSE
    <3>1. Restored => wake.pc = "restored" /\ wake' = IdleWake /\ starting' = FALSE
      BY DEF Restored
    <3>2. WakeFailed => wake.pc = "failed" /\ wake' = IdleWake /\ starting' = FALSE
      BY DEF WakeFailed
    <3> QED
      BY <1>6, <3>1, <3>2 DEF IdleWake
  <2>2. UNCHANGED <<start, reconcile>>
    BY <1>6 DEF Restored, WakeFailed
  <2> QED
    BY <2>1, <2>2 DEF OneStarter
<1> QED
  BY <1>1, <1>2, <1>3, <1>4, <1>5, <1>6 DEF WakeStep

(* Polls, captures, status passes and crashes have nothing to do with claims. *)
LEMMA OtherClaims ==
    ASSUME TypeOK, OneStarter,
           Poll \/ MeasureQuiet \/ CaptureStep \/ StatusTick \/ StatusStep \/ VmCrash
    PROVE  OneStarter'
<1>1. UNCHANGED <<starting, start, wake>>
  BY DEF Poll, MeasureQuiet, CaptureStep, BeginCapture, RefuseCapture, CaptureDiscard,
       TakeSnapshot, CaptureStop, WriteStamp, RecordSleep, StatusTick, StatusStep, ReadUnit,
       Settle, PersistStatus, VmCrash, agentState, fibers
<1>2. reconcile' = reconcile \/ (reconcile.pc = "idle" /\ reconcile'.pc = "observe")
  BY DEF Poll, MeasureQuiet, CaptureStep, BeginCapture, RefuseCapture, CaptureDiscard,
       TakeSnapshot, CaptureStop, WriteStamp, RecordSleep, StatusTick, StatusStep, ReadUnit,
       Settle, PersistStatus, VmCrash, fibers, IdleReconcile
<1> QED
  BY <1>1, <1>2, ClaimsUntouched

(* A restarted agent has no claim and nothing under way. *)
LEMMA RestartClaims ==
    ASSUME Restart PROVE OneStarter'
<1>1. /\ starting' = FALSE /\ wake'.pc = "idle" /\ reconcile'.pc = "observe"
      /\ \A p \in Starters : start'[p].pc = "idle"
  BY DEF Restart, IdleWake, IdleReconcile, IdleStart
<1> QED
  BY <1>1 DEF OneStarter, Starters

---------------------------------------------------------------------------

(* The types, the budgets of all copies of the record and the claim hold in
   every state of every instance: no interleaving of a pass, a boot, a wake, a
   capture and a status pass, and no restart, breaks them. *)
THEOREM Inductive == Spec => []IInv
<1>1. Init => IInv
  <2> SUFFICES ASSUME Init PROVE IInv
    OBVIOUS
  <2>1. accepted \in Desires
    BY DEF Init
  <2>2. reconcile \in Passes
    BY <2>1, IdleTypes DEF Init, Passes
  <2>3. TypeOK
    <3>1. start \in [Starters -> Boots] /\ wake \in Wakes /\ capture \in Captures
          /\ status \in StatusPasses
      BY IdleTypes DEF Init
    <3>2. /\ changes \in 0..MaxChanges /\ asks \in 0..MaxAsks
          /\ faults \in 0..MaxFaults /\ restarts \in 0..MaxRestarts
      BY ConstantsAssumption DEF Init
    <3>3. vm \in VmStates /\ ranThisBoot \in BOOLEAN /\ stamp \in Stamps /\ files \in FileStates
      BY IdleTypes DEF Init, VmStates, FileStates
    <3>4. /\ record \in Records /\ saved \in Records
          /\ starting \in BOOLEAN /\ snapshotting \in BOOLEAN /\ deferredWork \in BOOLEAN
      BY IdleTypes DEF Init
    <3> QED
      BY <2>1, <2>2, <3>1, <3>2, <3>3, <3>4 DEF TypeOK
  <2>4. BudgetInv
    BY IdleTypes DEF Init, BudgetInv, IdleStart, IdleStatus
  <2>5. OneStarter
    BY DEF Init, OneStarter, Starters, IdleStart, IdleWake, IdleReconcile
  <2> QED
    BY <2>3, <2>4, <2>5 DEF IInv
<1>2. IInv /\ [Next]_vars => IInv'
  <2> SUFFICES ASSUME TypeOK, BudgetInv, OneStarter, [Next]_vars PROVE IInv'
    BY DEF IInv
  <2>1. CASE ReconcileStep
    <3>1. TypeOK' /\ BudgetInv'
      BY <2>1, ObserveTypes, PlanTypes, SyncTypes, StopMarkTypes, StopDiscardTypes,
         StopUnitTypes, StopDoneTypes, DiscardVmTypes, DropRecordTypes, SleepInstanceTypes,
         ClaimStartTypes, PersistTypes DEF ReconcileStep
    <3> QED
      BY <3>1, <2>1, PassClaims DEF IInv
  <2>2. ASSUME NEW p \in Starters, StartStep(p) PROVE IInv'
    <3>1. TypeOK' /\ BudgetInv'
      BY <2>2, NotStartableTypes, StartableTypes, AttemptTypes, BootDiscardTypes,
         BootLaunchTypes, BootedTypes, BootFailedTypes DEF StartStep
    <3> QED
      BY <3>1, <2>2, BootClaims DEF IInv
  <2>3. CASE Request \/ WakeStep
    <3>1. TypeOK' /\ BudgetInv'
      BY <2>3, RequestTypes, ClaimWakeTypes, WakeStatusTypes, WakeCheckTypes, WakeLaunchTypes,
         WakeLoadTypes, RestoredTypes, WakeFailedTypes DEF WakeStep
    <3> QED
      BY <3>1, <2>3, WakeClaims DEF IInv
  <2>4. CASE Poll \/ MeasureQuiet \/ CaptureStep \/ StatusTick \/ StatusStep \/ VmCrash
    <3>1. TypeOK' /\ BudgetInv'
      BY <2>4, PollTypes, MeasureQuietTypes, BeginCaptureTypes, RefuseCaptureTypes,
         CaptureDiscardTypes, TakeSnapshotTypes, CaptureStopTypes, WriteStampTypes,
         RecordSleepTypes, StatusTickTypes, ReadUnitTypes, SettleTypes, PersistStatusTypes,
         VmCrashTypes DEF CaptureStep, StatusStep
    <3> QED
      BY <3>1, <2>4, OtherClaims DEF IInv
  <2>5. CASE AgentDies \/ HostReboots
    <3>1. TypeOK' /\ BudgetInv'
      BY <2>5, AgentDiesTypes, HostRebootsTypes
    <3> QED
      BY <3>1, <2>5, RestartClaims DEF IInv, AgentDies, HostReboots
  <2>6. CASE UNCHANGED vars
    BY <2>6 DEF vars, agentState, host, fibers, bounds, IInv, TypeOK, BudgetInv, OneStarter
  <2> QED
    BY <2>1, <2>2, <2>3, <2>4, <2>5, <2>6 DEF Next
<1> QED
  BY <1>1, <1>2, PTL DEF Spec

(* The agent's state, the host and the fibers keep their shapes. *)
THEOREM TypeCorrect == Spec => []TypeOK
<1>1. IInv => TypeOK
  BY DEF IInv
<1> QED
  BY Inductive, <1>1, PTL

(* AgentState.starting names an app exactly while one boot or one wake of it is
   under way: claimStart and releaseStart are never paired wrongly. *)
THEOREM ClaimHasOneHolder == Spec => []OneStarter
<1>1. IInv => OneStarter
  BY DEF IInv
<1> QED
  BY Inductive, <1>1, PTL

(* An app is retried within the budget of the failure it is retried for, whoever
   finds the failures, of whichever kinds, and whoever writes the record last. *)
THEOREM BudgetIsKept == Spec => []WithinRetryBudget
<1>1. IInv => WithinRetryBudget
  BY DEF IInv, BudgetInv, Budgeted, WithinRetryBudget
<1> QED
  BY Inductive, <1>1, PTL

---------------------------------------------------------------------------
(* Snapshots *)

(* An image that the disk has moved on from is not one a start would restore: no
   stamp stands beside it, no VMM waits for it, no capture is about to stamp it.
   One that was overtaken in its own capture is another matter. *)
StaleInv ==
    /\ stamp # NoStamp => files # "stale"
    /\ vm = "empty" => files # "stale" /\ stamp = NoStamp
    /\ capture.pc \in {"stop", "stamp"} => files # "stale" /\ vm # "empty"

(* A capture has thrown the last stamp away before it writes its own. *)
UnstampedInv == capture.pc \in {"snapshot", "stop", "stamp"} => stamp = NoStamp

(* A wake has seen the unit down, and nobody but it can start one: what it boots
   it boots with the image gone, what it restores no capture is writing. *)
WakeInv ==
    /\ wake.pc \in {"check", "launch"} => ~Active
    /\ wake.pc = "launch" => capture.pc \notin {"stop", "stamp"}
    /\ start["wake"].pc \in {"read", "attempt", "discard", "launch"} => ~Active /\ files # "fresh"

SnapshotInv == StaleInv /\ UnstampedInv /\ WakeInv

(* The boot of a reconcile pass starts a guest on the disk between a capture's
   image and its stamp. *)
PassLaunchesOverCapture ==
    /\ start["reconcile"].pc = "launch" /\ capture.pc \in {"stop", "stamp"}
    /\ ~Active /\ vm' = "guest"

(* No fiber comes to a place that SnapshotInv speaks of, but for a wake that has
   seen the unit down. *)
NoNearer ==
    /\ capture'.pc \in {"snapshot", "stop", "stamp"} => capture'.pc = capture.pc
    /\ wake'.pc \in {"check", "launch"} => wake'.pc = wake.pc \/ (wake'.pc = "check" /\ ~Active)
    /\ start'["wake"].pc \in {"read", "attempt", "discard", "launch"} =>
           start["wake"].pc \in {"read", "attempt", "discard", "launch"}

(* A unit left alone or taken down, with the snapshot left alone or thrown away,
   brings no stale image nearer. *)
LEMMA Quieter ==
    ASSUME SnapshotInv, NoNearer, vm' \in {vm, "off", "failed"},
           \/ files' = files /\ (stamp' # NoStamp => stamp # NoStamp)
           \/ Discard
    PROVE  SnapshotInv'
<1>1. ~Active => ~Active'
  BY DEF Active
<1>2. StaleInv'
  BY DEF SnapshotInv, StaleInv, NoNearer, Discard
<1>3. UnstampedInv'
  BY DEF SnapshotInv, UnstampedInv, NoNearer, Discard
<1>4. WakeInv'
  BY <1>1 DEF SnapshotInv, WakeInv, NoNearer, Discard
<1> QED
  BY <1>2, <1>3, <1>4 DEF SnapshotInv

(* A pass throws snapshots away and takes units down. *)
LEMMA PassQuieter ==
    ASSUME TypeOK, SnapshotInv, Poll \/ ReconcileStep
    PROVE  SnapshotInv'
<1>1. capture' = capture /\ wake' = wake
  BY DEF Poll, ReconcileStep, Observe, Plan, Sync, StopMark, StopDiscard, StopUnit, StopDone,
       DiscardVm, DropRecord, SleepInstance, ClaimStart, Persist
<1>2. start'["wake"] = start["wake"]
  BY DEF Poll, ReconcileStep, Observe, Plan, Sync, StopMark, StopDiscard, StopUnit, StopDone,
       DiscardVm, DropRecord, SleepInstance, ClaimStart, Persist, TypeOK, Starters
<1>3. vm' \in {vm, "off", "failed"}
  BY DEF Poll, ReconcileStep, Observe, Plan, Sync, StopMark, StopDiscard, StopUnit, StopDone,
       DiscardVm, DropRecord, SleepInstance, ClaimStart, Persist, host, Stopped
<1>4. UNCHANGED <<stamp, files>> \/ Discard
  BY DEF Poll, ReconcileStep, Observe, Plan, Sync, StopMark, StopDiscard, StopUnit, StopDone,
       DiscardVm, DropRecord, SleepInstance, ClaimStart, Persist, host
<1>5. NoNearer
  BY <1>1, <1>2 DEF NoNearer
<1> QED
  BY <1>3, <1>4, <1>5, Quieter

(* A boot before and after its launch, and a launch that fails or finds the unit
   up, leaves the unit alone; the snapshot goes before it. *)
LEMMA BootQuieter ==
    ASSUME TypeOK, SnapshotInv, NEW p \in Starters,
           \/ NotStartable(p) \/ Startable(p) \/ Attempt(p) \/ BootDiscard(p)
           \/ BootLaunch(p) /\ UNCHANGED host
           \/ Booted(p) \/ BootFailed(p)
    PROVE  SnapshotInv'
<1>1. capture'.pc = capture.pc /\ wake' = wake
  <2>1. capture' = capture \/ capture' = [capture EXCEPT !.touched = TRUE]
    BY DEF NotStartable, Startable, Attempt, BootDiscard, BootLaunch, Booted, BootFailed, Touched
  <2>2. capture'.pc = capture.pc
    BY <2>1 DEF TypeOK, Captures
  <2> QED
    BY <2>2 DEF NotStartable, Startable, Attempt, BootDiscard, BootLaunch, Booted, BootFailed
<1>2. start'["wake"].pc \in {"read", "attempt", "discard", "launch"} =>
        start["wake"].pc \in {"read", "attempt", "discard", "launch"}
  <2>1. CASE p = "wake"
    <3>1. CASE Startable(p) \/ Attempt(p) \/ BootDiscard(p) \/ BootLaunch(p)
      BY <2>1, <3>1 DEF Startable, Attempt, BootDiscard, BootLaunch
    <3>2. CASE NotStartable(p) \/ Booted(p) \/ BootFailed(p)
      <4>1. start' = [start EXCEPT ![p] = IdleStart]
        BY <3>2 DEF NotStartable, Booted, BootFailed, EndStart
      <4> QED
        BY <2>1, <4>1 DEF TypeOK, Starters, IdleStart
    <3> QED
      BY <3>1, <3>2
  <2>2. CASE p # "wake"
    BY <2>2 DEF NotStartable, Startable, Attempt, BootDiscard, BootLaunch, Booted, BootFailed,
         EndStart, TypeOK, Starters
  <2> QED
    BY <2>1, <2>2
<1>3. vm' = vm /\ (UNCHANGED <<stamp, files>> \/ Discard)
  BY DEF NotStartable, Startable, Attempt, BootDiscard, BootLaunch, Booted, BootFailed, host
<1>4. NoNearer
  BY <1>1, <1>2 DEF NoNearer
<1> QED
  BY <1>3, <1>4, Quieter

(* A launch of a unit that is down.  With a stamp it consumes it and no capture
   is under way; without one it puts a guest on the disk. *)
LEMMA LaunchSnapshot ==
    ASSUME TypeOK, SnapshotInv, ~Active, Launch, capture' = capture,
           wake'.pc \notin {"check", "launch"},
           start'["wake"].pc \notin {"read", "attempt", "discard", "launch"}
    PROVE  SnapshotInv'
<1>1. stamp' = NoStamp /\ vm' \in {"empty", "guest"}
  BY DEF Launch
<1>2. UnstampedInv' /\ WakeInv'
  BY <1>1 DEF UnstampedInv, WakeInv
<1>3. CASE stamp # NoStamp
  <2>1. vm' = "empty" /\ files' = files
    BY <1>3 DEF Launch
  <2> QED
    BY <1>1, <1>2, <1>3, <2>1 DEF SnapshotInv, StaleInv, UnstampedInv
<1>4. CASE stamp = NoStamp
  <2>1. vm' = "guest" /\ (files' = "stale" => files = "stale" \/ capture.pc \notin {"stop", "stamp"})
    BY <1>4 DEF Launch, Overtaken
  <2> QED
    BY <1>1, <1>2, <1>4, <2>1 DEF SnapshotInv, StaleInv
<1> QED
  BY <1>3, <1>4

(* A boot launches: a wake's, with the image gone; a pass's, over whatever image
   there is, which it overtakes or makes stale. *)
LEMMA BootLaunchSnapshot ==
    ASSUME TypeOK, OneStarter, SnapshotInv, NEW p \in Starters, BootLaunch(p)
    PROVE  SnapshotInv'
<1>1. CASE UNCHANGED host
  BY <1>1, BootQuieter
<1>2. CASE ~UNCHANGED host
  <2>1. start[p].pc = "launch" /\ ~Active /\ Launch
    BY <1>2 DEF BootLaunch, SystemdStart
  <2>2. start' = [start EXCEPT ![p].pc = "booted"]
    BY <1>2 DEF BootLaunch
  <2>3. capture' = capture /\ wake' = wake
    BY DEF BootLaunch
  <2>4. wake.pc \in {"idle", "asked"} /\ (p = "reconcile" => start["wake"].pc = "idle")
    BY <2>1 DEF OneStarter, Starters
  <2>5. start'["wake"].pc \in {"booted", "idle"}
    <3>1. CASE p = "wake"
      BY <2>2, <3>1 DEF TypeOK, Boots, Starters
    <3>2. CASE p = "reconcile"
      BY <2>2, <2>4, <3>2 DEF TypeOK, Starters
    <3> QED
      BY <3>1, <3>2 DEF Starters
  <2> QED
    BY <2>1, <2>3, <2>4, <2>5, LaunchSnapshot
<1> QED
  BY <1>1, <1>2

(* A wake up to its launch, and one that fails or is done: it goes on from a unit
   it has seen down, and what it ends it ends with the snapshot thrown away. *)
LEMMA WakeQuieter ==
    ASSUME TypeOK, OneStarter, SnapshotInv,
           \/ Request \/ ClaimWake \/ WakeStatus \/ Restored \/ WakeFailed
           \/ WakeLaunch /\ UNCHANGED host
           \/ WakeLoad /\ vm' \in {vm, "off"} /\ files' = files
    PROVE  SnapshotInv'
<1>1. capture'.pc = capture.pc
  <2>1. capture' = capture \/ capture' = [capture EXCEPT !.touched = TRUE]
    BY DEF Request, ClaimWake, WakeStatus, Restored, WakeFailed, WakeLaunch, WakeLoad, Touched
  <2> QED
    BY <2>1 DEF TypeOK, Captures
<1>2. start' = start
  BY DEF Request, ClaimWake, WakeStatus, Restored, WakeFailed, WakeLaunch, WakeLoad
<1>3. wake'.pc \in {"check", "launch"} => wake'.pc = "check" /\ ~Active
  <2>0. IdleWake.pc = "idle"
    BY DEF IdleWake
  <2>1. CASE WakeStatus
    <3>1. \/ wake' = IdleWake
          \/ ~Active /\ wake' = [wake EXCEPT !.pc = "check", !.seen = NoRecord]
      BY <2>1 DEF WakeStatus
    <3>2. CASE wake' = IdleWake
      BY <3>2, <2>0
    <3>3. CASE ~Active /\ wake' = [wake EXCEPT !.pc = "check", !.seen = NoRecord]
      <4>1. wake'.pc = "check"
        BY <3>3 DEF TypeOK, Wakes
      <4> QED
        BY <3>3, <4>1
    <3> QED
      BY <3>1, <3>2, <3>3
  <2>2. CASE Request
    <3>1. wake' = [IdleWake EXCEPT !.pc = "asked", !.desired = accepted]
      BY <2>2 DEF Request
    <3>2. wake'.pc = "asked"
      BY <3>1 DEF IdleWake
    <3> QED
      BY <3>2
  <2>3. CASE ClaimWake
    <3>1. wake' = IdleWake \/ wake' = [wake EXCEPT !.pc = "status", !.seen = record]
      BY <2>3 DEF ClaimWake
    <3>2. CASE wake' = IdleWake
      BY <3>2, <2>0
    <3>3. CASE wake' = [wake EXCEPT !.pc = "status", !.seen = record]
      <4>1. wake'.pc = "status"
        BY <3>3 DEF TypeOK, Wakes
      <4> QED
        BY <4>1
    <3> QED
      BY <3>1, <3>2, <3>3
  <2>4. CASE Restored \/ WakeFailed
    BY <2>0, <2>4 DEF Restored, WakeFailed
  <2>5. CASE WakeLaunch \/ WakeLoad
    <3>1. PICK l \in {"load", "failed", "restored"} : wake' = [wake EXCEPT !.pc = l]
      BY <2>5 DEF WakeLaunch, WakeLoad
    <3>2. wake'.pc = l
      BY <3>1 DEF TypeOK, Wakes
    <3> QED
      BY <3>2
  <2> QED
    BY <2>1, <2>2, <2>3, <2>4, <2>5
<1>4. /\ vm' \in {vm, "off", "failed"}
      /\ UNCHANGED <<stamp, files>> \/ Discard
  BY DEF Request, ClaimWake, WakeStatus, Restored, WakeFailed, WakeLaunch, WakeLoad, host
<1>5. NoNearer
  BY <1>1, <1>2, <1>3 DEF NoNearer
<1> QED
  BY <1>4, <1>5, Quieter

(* A wake that finds a stamp finds it while no capture is writing; one that finds
   none, or another's, throws the snapshot away before it boots. *)
LEMMA WakeCheckSnapshot ==
    ASSUME TypeOK, SnapshotInv, WakeCheck
    PROVE  SnapshotInv'
<1>1. /\ wake.pc = "check" /\ ~Active /\ UNCHANGED <<vm, capture>>
  BY DEF WakeCheck, SnapshotInv, WakeInv
<1>2. CASE stamp = [deployment |-> wake.desired.deployment, thisBoot |-> TRUE]
  <2>1. stamp # NoStamp
    BY <1>2 DEF NoStamp
  <2>2. wake' = [wake EXCEPT !.pc = "launch"] /\ UNCHANGED <<stamp, files, start>>
    BY <1>2 DEF WakeCheck
  <2>3. wake'.pc = "launch"
    BY <2>2 DEF TypeOK, Wakes
  <2> QED
    BY <1>1, <2>1, <2>2, <2>3 DEF SnapshotInv, StaleInv, UnstampedInv, WakeInv, Active
<1>3. CASE stamp # [deployment |-> wake.desired.deployment, thisBoot |-> TRUE]
  <2>1. Discard /\ wake'.pc = "idle"
    BY <1>3 DEF WakeCheck, IdleWake
  <2> QED
    BY <1>1, <2>1 DEF SnapshotInv, StaleInv, UnstampedInv, WakeInv, Active, Discard
<1> QED
  BY <1>2, <1>3

(* A restore is launched by a wake alone, and with nothing being captured. *)
LEMMA WakeLaunchSnapshot ==
    ASSUME TypeOK, OneStarter, SnapshotInv, WakeLaunch
    PROVE  SnapshotInv'
<1>1. CASE UNCHANGED host
  BY <1>1, WakeQuieter
<1>2. CASE ~UNCHANGED host
  <2>1. wake.pc = "launch" /\ ~Active /\ Launch
    BY <1>2 DEF WakeLaunch, SystemdStart
  <2>2. capture' = capture /\ start' = start /\ wake' = [wake EXCEPT !.pc = "load"]
    BY <1>2 DEF WakeLaunch
  <2>3. wake'.pc = "load"
    BY <2>2 DEF TypeOK, Wakes
  <2>4. start["wake"].pc = "idle"
    BY <2>1 DEF OneStarter, Starters
  <2> QED
    BY <2>1, <2>2, <2>3, <2>4, LaunchSnapshot
<1> QED
  BY <1>1, <1>2

(* A guest put back uses its disk from then on: its image is stale, and neither
   stamped nor about to be, whether or not the wake took it down again. *)
LEMMA WakeLoadSnapshot ==
    ASSUME TypeOK, OneStarter, SnapshotInv, WakeLoad
    PROVE  SnapshotInv'
<1>1. CASE vm' \in {vm, "off"} /\ files' = files
  BY <1>1, WakeQuieter
<1>2. CASE ~(vm' \in {vm, "off"} /\ files' = files)
  <2>1. vm = "empty" /\ vm' \in {"guest", "paused", "off"} /\ files' \in {files, "stale"}
    BY <1>2 DEF WakeLoad, Stopped, Active
  <2>2. /\ UNCHANGED <<stamp, capture, start>> /\ wake.pc = "load"
        /\ \E l \in {"restored", "failed"} : wake' = [wake EXCEPT !.pc = l]
    BY DEF WakeLoad
  <2>3. wake'.pc \in {"restored", "failed"} /\ wake.pc = "load"
    BY <2>2 DEF TypeOK, Wakes
  <2>4. start["wake"].pc = "idle"
    BY <2>3 DEF OneStarter, Starters
  <2> QED
    BY <2>1, <2>2, <2>3, <2>4 DEF SnapshotInv, StaleInv, UnstampedInv, WakeInv
<1> QED
  BY <1>1, <1>2

(* A capture up to its own discarding of the last snapshot, and the record of
   what it took. *)
LEMMA CaptureQuieter ==
    ASSUME TypeOK, SnapshotInv, MeasureQuiet \/ BeginCapture \/ RefuseCapture \/ RecordSleep
    PROVE  SnapshotInv'
<1>1. capture'.pc \in {"idle", "quiet", "refuse", "discard"}
  <2>1. CASE MeasureQuiet
    <3>1. capture' = [IdleCapture EXCEPT !.pc = "quiet", !.deployment = record.deployment]
      BY <2>1 DEF MeasureQuiet
    <3>2. capture'.pc = "quiet"
      BY <3>1 DEF IdleCapture
    <3> QED
      BY <3>2
  <2>2. CASE BeginCapture \/ RefuseCapture \/ RecordSleep
    <3>1. \/ capture' = IdleCapture
          \/ \E l \in {"refuse", "discard"} : capture' = [capture EXCEPT !.pc = l]
      BY <2>2 DEF BeginCapture, RefuseCapture, RecordSleep, EndCapture
    <3> QED
      BY <3>1 DEF IdleCapture, TypeOK, Captures
  <2> QED
    BY <2>1, <2>2
<1>2. UNCHANGED <<wake, start, vm, stamp, files>>
  BY DEF MeasureQuiet, BeginCapture, RefuseCapture, RecordSleep, host
<1>3. NoNearer
  BY <1>1, <1>2 DEF NoNearer
<1> QED
  BY <1>2, <1>3, Quieter

(* A capture begins with neither stamp nor image. *)
LEMMA CaptureDiscardSnapshot ==
    ASSUME TypeOK, SnapshotInv, CaptureDiscard
    PROVE  SnapshotInv'
<1>1. capture' = [capture EXCEPT !.pc = "snapshot"]
  BY DEF CaptureDiscard
<1>2. capture'.pc = "snapshot"
  BY <1>1 DEF TypeOK, Captures
<1>3. stamp' = NoStamp /\ files' = "empty" /\ UNCHANGED <<vm, start, wake>>
  BY DEF CaptureDiscard
<1> QED
  BY <1>2, <1>3 DEF SnapshotInv, StaleInv, UnstampedInv, WakeInv, Active

(* An image is taken of a guest that is up, so no wake is past seeing it down. *)
LEMMA TakeSnapshotFresh ==
    ASSUME TypeOK, SnapshotInv, TakeSnapshot
    PROVE  SnapshotInv'
<1>1. capture.pc = "snapshot" /\ stamp' = stamp /\ stamp = NoStamp /\ UNCHANGED <<start, wake>>
  BY DEF TakeSnapshot, SnapshotInv, UnstampedInv
<1>2. CASE vm \in {"guest", "paused"} /\ files # "absent"
  <2>1. vm' = "paused" /\ files' = "fresh" /\ capture' = [capture EXCEPT !.pc = "stop"]
    BY <1>2 DEF TakeSnapshot
  <2>2. /\ wake'.pc \notin {"check", "launch"}
        /\ start'["wake"].pc \notin {"read", "attempt", "discard", "launch"}
    BY <1>1, <1>2 DEF SnapshotInv, WakeInv, Active
  <2> QED
    BY <1>1, <2>1, <2>2 DEF SnapshotInv, StaleInv, UnstampedInv, WakeInv
<1>3. CASE ~(vm \in {"guest", "paused"} /\ files # "absent")
  <2>1. capture'.pc = "idle" /\ UNCHANGED <<vm, files>>
    BY <1>3 DEF TakeSnapshot, EndCapture, IdleCapture
  <2>2. NoNearer
    BY <1>1, <2>1 DEF NoNearer
  <2> QED
    BY <1>1, <2>1, <2>2, Quieter
<1> QED
  BY <1>2, <1>3

(* A unit that stops leaves the image as it is; one that would not is resumed,
   and its image, unstamped, is left behind by the disk. *)
LEMMA CaptureStopSnapshot ==
    ASSUME TypeOK, SnapshotInv, CaptureStop
    PROVE  SnapshotInv'
<1>1. /\ capture.pc = "stop" /\ stamp' = stamp /\ stamp = NoStamp /\ files # "stale"
      /\ vm # "empty" /\ UNCHANGED <<start, wake>>
  BY DEF CaptureStop, SnapshotInv, StaleInv, UnstampedInv
<1>2. CASE vm' = Stopped /\ capture' = [capture EXCEPT !.pc = "stamp"] /\ UNCHANGED files
  <2>1. capture'.pc = "stamp"
    BY <1>2 DEF TypeOK, Captures
  <2>2. vm' # "empty" /\ (~Active => ~Active')
    BY <1>1, <1>2 DEF Stopped, Active
  <2>3. StaleInv' /\ UnstampedInv'
    BY <1>1, <1>2, <2>1, <2>2 DEF StaleInv, UnstampedInv
  <2>4. WakeInv'
    BY <1>1, <1>2, <2>2 DEF SnapshotInv, WakeInv
  <2> QED
    BY <2>3, <2>4 DEF SnapshotInv
<1>3. CASE EndCapture /\ vm = "paused" /\ vm' = "guest"
  <2>1. capture'.pc = "idle"
    BY <1>3 DEF EndCapture, IdleCapture
  <2>2. /\ wake'.pc \notin {"check", "launch"}
        /\ start'["wake"].pc \notin {"read", "attempt", "discard", "launch"}
    BY <1>1, <1>3 DEF SnapshotInv, WakeInv, Active
  <2> QED
    BY <1>1, <1>3, <2>1, <2>2 DEF SnapshotInv, StaleInv, UnstampedInv, WakeInv
<1>4. CASE EndCapture /\ vm # "paused" /\ UNCHANGED <<vm, files>>
  <2>1. capture'.pc = "idle"
    BY <1>4 DEF EndCapture, IdleCapture
  <2>2. NoNearer
    BY <1>1, <2>1 DEF NoNearer
  <2> QED
    BY <1>1, <1>4, <2>2, Quieter
<1> QED
  BY <1>2, <1>3, <1>4 DEF CaptureStop

(* What is stamped is what was taken: no guest has used the disk since, but one
   that overtook it. *)
LEMMA WriteStampSnapshot ==
    ASSUME TypeOK, SnapshotInv, WriteStamp
    PROVE  SnapshotInv'
<1>1. capture.pc = "stamp" /\ files # "stale" /\ vm # "empty" /\ UNCHANGED <<vm, start, wake>>
  BY DEF WriteStamp, SnapshotInv, StaleInv
<1>2. files' = (IF files = "absent" THEN "empty" ELSE files)
      /\ capture' = [capture EXCEPT !.pc = "record"]
  BY DEF WriteStamp
<1>3. capture'.pc = "record"
  BY <1>2 DEF TypeOK, Captures
<1> QED
  BY <1>1, <1>2, <1>3 DEF SnapshotInv, StaleInv, UnstampedInv, WakeInv, Active

(* A status pass, a crash and a restart bring nothing nearer: a rebooted host
   keeps a stamp, though not as one of this boot. *)
LEMMA OthersQuieter ==
    ASSUME TypeOK, SnapshotInv,
           \/ StatusTick \/ StatusStep \/ VmCrash \/ AgentDies \/ HostReboots \/ UNCHANGED vars
    PROVE  SnapshotInv'
<1>1. CASE StatusTick \/ StatusStep \/ VmCrash \/ UNCHANGED vars
  <2>1. UNCHANGED <<capture, wake, start, stamp, files>> /\ vm' \in {vm, "off", "failed"}
    BY <1>1 DEF StatusTick, StatusStep, ReadUnit, Settle, PersistStatus, VmCrash, vars, host, fibers
  <2>2. NoNearer
    BY <2>1 DEF NoNearer
  <2> QED
    BY <2>1, <2>2, Quieter
<1>2. CASE AgentDies \/ HostReboots
  <2>1. capture'.pc = "idle" /\ wake'.pc = "idle" /\ start'["wake"].pc = "idle"
    BY <1>2 DEF AgentDies, HostReboots, Restart, IdleCapture, IdleWake, IdleStart, Starters
  <2>2. NoNearer
    BY <2>1 DEF NoNearer
  <2>3. files' = files /\ vm' \in {vm, "off"}
    BY <1>2 DEF AgentDies, HostReboots, host
  <2>4. stamp = NoStamp => stamp' = NoStamp
    BY <1>2 DEF AgentDies, HostReboots, host, NoStamp
  <2> QED
    BY <2>2, <2>3, <2>4, Quieter
<1> QED
  BY <1>1, <1>2

(* Every step of every fiber keeps SnapshotInv. *)
LEMMA SnapshotStep ==
    ASSUME TypeOK, OneStarter, SnapshotInv, [Next]_vars
    PROVE  SnapshotInv'
<1>1. CASE \E p \in Starters : StartStep(p)
  BY <1>1, BootQuieter, BootLaunchSnapshot DEF StartStep
<1>2. CASE Request \/ WakeStep
  BY <1>2, WakeQuieter, WakeCheckSnapshot, WakeLaunchSnapshot, WakeLoadSnapshot DEF WakeStep
<1>3. CASE MeasureQuiet \/ CaptureStep
  BY <1>3, CaptureQuieter, CaptureDiscardSnapshot, TakeSnapshotFresh, CaptureStopSnapshot,
     WriteStampSnapshot DEF CaptureStep
<1> QED
  BY <1>1, <1>2, <1>3, PassQuieter, OthersQuieter DEF Next

(* A VMM that was started to restore is given its guest by a wake that loads the
   files: no other step turns the one into the other. *)
LEMMA OnlyALoadRestores ==
    ASSUME TypeOK, [Next]_vars, vm = "empty", vm' = "guest"
    PROVE  files \in Images
<1>1. CASE Poll \/ ReconcileStep
  BY <1>1 DEF Poll, ReconcileStep, Observe, Plan, Sync, StopMark, StopDiscard, StopUnit, StopDone,
       DiscardVm, DropRecord, SleepInstance, ClaimStart, Persist, host, Stopped
<1>2. ASSUME NEW p \in Starters, StartStep(p) PROVE FALSE
  <2>1. vm' = vm
    BY <1>2 DEF StartStep, NotStartable, Startable, Attempt, BootDiscard, BootLaunch, Booted,
         BootFailed, SystemdStart, Active, host
  <2> QED
    BY <2>1
<1>3. CASE Request \/ WakeStep
  BY <1>3 DEF Request, WakeStep, ClaimWake, WakeStatus, WakeCheck, WakeLaunch, WakeLoad, Restored,
       WakeFailed, SystemdStart, Active, Stopped, host
<1>4. CASE MeasureQuiet \/ CaptureStep
  BY <1>4 DEF MeasureQuiet, CaptureStep, BeginCapture, RefuseCapture, CaptureDiscard, TakeSnapshot,
       CaptureStop, WriteStamp, RecordSleep, Stopped, host
<1>5. CASE \/ StatusTick \/ StatusStep \/ VmCrash \/ AgentDies \/ HostReboots \/ UNCHANGED vars
  BY <1>5 DEF StatusTick, StatusStep, ReadUnit, Settle, PersistStatus, VmCrash, AgentDies,
       HostReboots, vars, host
<1> QED
  BY <1>1, <1>2, <1>3, <1>4, <1>5 DEF Next

(* An image is overtaken by a launch alone, with no stamp to consume and a capture
   in the middle of stamping it; a wake's finds no image, or no capture. *)
LEMMA OnlyALaunchOvertakes ==
    ASSUME TypeOK, OneStarter, SnapshotInv, [Next]_vars, files # "overtaken", files' = "overtaken"
    PROVE  PassLaunchesOverCapture
<1>1. ~(Poll \/ ReconcileStep)
  BY DEF Poll, ReconcileStep, Observe, Plan, Sync, StopMark, StopDiscard, StopUnit, StopDone,
       DiscardVm, DropRecord, SleepInstance, ClaimStart, Persist, host, Discard
<1>2. ASSUME NEW p \in Starters, StartStep(p) PROVE PassLaunchesOverCapture
  <2>1. BootLaunch(p) /\ ~Active /\ Launch
    BY <1>2 DEF StartStep, NotStartable, Startable, Attempt, BootDiscard, BootLaunch, Booted,
         BootFailed, SystemdStart, host, Discard
  <2>2. files = "fresh" /\ capture.pc \in {"stop", "stamp"} /\ vm' = "guest"
    BY <2>1 DEF Launch, Overtaken
  <2>3. p # "wake"
    BY <2>1, <2>2 DEF BootLaunch, SnapshotInv, WakeInv
  <2> QED
    BY <2>1, <2>2, <2>3 DEF BootLaunch, PassLaunchesOverCapture, Starters
<1>3. ~(Request \/ WakeStep)
  <2>1. ~WakeLaunch
    BY DEF WakeLaunch, SystemdStart, Launch, Overtaken, host, SnapshotInv, WakeInv
  <2> QED
    BY <2>1 DEF Request, WakeStep, ClaimWake, WakeStatus, WakeCheck, WakeLoad, Restored,
         WakeFailed, host, Discard
<1>4. ~(MeasureQuiet \/ CaptureStep)
  BY DEF MeasureQuiet, CaptureStep, BeginCapture, RefuseCapture, CaptureDiscard, TakeSnapshot,
       CaptureStop, WriteStamp, RecordSleep, host
<1>5. ~(\/ StatusTick \/ StatusStep \/ VmCrash \/ AgentDies \/ HostReboots \/ UNCHANGED vars)
  BY DEF StatusTick, StatusStep, ReadUnit, Settle, PersistStatus, VmCrash, AgentDies,
       HostReboots, vars, host
<1> QED
  BY <1>1, <1>2, <1>3, <1>4, <1>5 DEF Next

(* SnapshotInv holds of every state, whatever interleaves with a capture. *)
THEOREM SnapshotInductive == Spec => []SnapshotInv
<1>1. Init => SnapshotInv
  BY DEF Init, SnapshotInv, StaleInv, UnstampedInv, WakeInv, IdleCapture, IdleWake, IdleStart,
       Starters, Active, NoStamp
<1>2. IInv /\ SnapshotInv /\ [Next]_vars => SnapshotInv'
  BY SnapshotStep DEF IInv
<1> QED
  BY Inductive, <1>1, <1>2, PTL DEF Spec

(* Only the boot of a reconcile pass puts a guest on the disk between a capture's
   image and its stamp: a wake, which the start claim does not keep from a capture
   either, never does. *)
THEOREM OnlyAPassOvertakes ==
    Spec => [][files # "overtaken" /\ files' = "overtaken" => PassLaunchesOverCapture]_vars
<1>1. IInv /\ SnapshotInv /\ [Next]_vars
        => [files # "overtaken" /\ files' = "overtaken" => PassLaunchesOverCapture]_vars
  BY OnlyALaunchOvertakes DEF IInv
<1> QED
  BY Inductive, SnapshotInductive, <1>1, PTL DEF Spec

(* Through crashes of guest, agent and host, and whatever interleaves, a guest is
   put back only from an image of the guest that last used its disk, or from one
   that was overtaken in its capture. *)
THEOREM RestoresFresh == Spec => RestoresOnlyFresh
<1>1. IInv /\ SnapshotInv /\ [Next]_vars
        => [vm = "empty" /\ vm' = "guest" => files \in {"fresh", "overtaken"}]_vars
  BY OnlyALoadRestores DEF IInv, SnapshotInv, StaleInv, Images
<1> QED
  BY Inductive, SnapshotInductive, <1>1, PTL DEF Spec, RestoresOnlyFresh
=============================================================================
