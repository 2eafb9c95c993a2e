-------------------------- MODULE ReleasesProofs --------------------------
(***************************************************************************)
(* For any number of releases and of reports being applied at once: only   *)
(* the newest release is live, a release that ended stays ended, an app is *)
(* deleted only once its volume is gone, and a release that came up is     *)
(* stamped unless a handler died.                                          *)
(*                                                                         *)
(* What makes these inductive is what a handler's decisions are worth by   *)
(* the time it writes them: they are about releases that exist             *)
(* (DecisionsKnown), a removal it was told of is for good (VolumeInv),     *)
(* and a state `running` it is about to write has a stamp that is made or  *)
(* under way (StampInv).                                                   *)
(***************************************************************************)
EXTENDS Releases, TLAPS

HandlerRecords ==
    [pc : {"idle", "read", "apply", "stamp", "fail", "complete", "finish", "purge"},
     instance : 0..MaxDeployments,
     volume : VolumeStates, observed : SUBSET (DeploymentIds \X States),
     activated : SUBSET DeploymentIds, failed : SUBSET DeploymentIds]

(* Rows are inserted in order. *)
Unwritten == \A i \in DeploymentIds : i > deployments => deployment[i] = "none"

(* A handler has decided something only of rows that are there, and is at the first of
   the statements that have something to say. *)
DecisionsKnown ==
    \A r \in Handlers :
        /\ \A i \in DeploymentIds, s \in States :
             <<i, s>> \in handler[r].observed => i <= deployments
        /\ handler[r].observed # {} => handler[r].pc = "apply"
        /\ handler[r].pc = "complete" => handler[r].volume = "deleted"

(* The volume has been removed, of an app that will not want it again. *)
Gone == app \in {"deleting", "deleted"} /\ ~ host.held

(* A removal is only ever said, by the host or in a report it once made, of a volume that
   is gone and stays so; until the app is first deployed there is none. *)
VolumeInv ==
    /\ host.volume = "deleted" => Gone
    /\ \A r \in Handlers : handler[r].volume = "deleted" => Gone
    /\ app # "deleted" => Deployed \/ (deployments = 0 /\ ~ host.held)
    /\ app = "deleted" => ~ host.held

(* A release is stamped, or a handler is about to. *)
Stamping(i) == i \in activated \/ \E r \in Handlers : handler[r].pc = "stamp" /\ i \in handler[r].activated

(* So long as no handler has died, a live release that is running, or that a handler is
   about to call running, is stamped or being stamped, by that handler if by no other. *)
StampInv ==
    failures = 0 =>
      \A i \in DeploymentIds : Live(i) =>
        /\ deployment[i] = "running" => Stamping(i)
        /\ \A r \in Handlers : <<i, "running">> \in handler[r].observed =>
             i \in handler[r].activated \/ Stamping(i)

IInv == TypeOK /\ LiveIsNewest /\ Unwritten /\ DecisionsKnown /\ VolumeInv /\ StampInv

(* A release that has ended is left as it is, or goes with its app. *)
EndedStays ==
    \A i \in DeploymentIds : deployment[i] \in Over => deployment'[i] \in {deployment[i], "none"}

---------------------------------------------------------------------------

(* Going on to the next statement changes where a handler is and nothing else. *)
LEMMA GoesOn ==
    ASSUME NEW h \in HandlerRecords
    PROVE  /\ GoOn(h) \in HandlerRecords
           /\ GoOn(h).observed = h.observed /\ GoOn(h).activated = h.activated
           /\ GoOn(h).volume = h.volume /\ GoOn(h).failed = h.failed
           /\ h.observed # {} => GoOn(h).pc = "apply"
           /\ h.observed = {} /\ h.activated # {} => GoOn(h).pc = "stamp"
           /\ GoOn(h).pc = "complete" => h.volume = "deleted"
<1> DEFINE next == CASE h.observed # {} -> "apply"
                       [] h.observed = {} /\ h.activated # {} -> "stamp"
                       [] h.observed = {} /\ h.activated = {} /\ h.failed # {} -> "fail"
                       [] OTHER -> IF h.volume = "deleted" THEN "complete" ELSE "finish"
<1>1. /\ next \in {"apply", "stamp", "fail", "complete", "finish"}
      /\ h.observed # {} => next = "apply"
      /\ h.observed = {} /\ h.activated # {} => next = "stamp"
      /\ next = "complete" => h.volume = "deleted"
  OBVIOUS
<1>2. GoOn(h) = [h EXCEPT !.pc = next]
  BY DEF GoOn
<1> HIDE DEF next
<1>3. /\ GoOn(h) \in HandlerRecords /\ GoOn(h).pc = next
      /\ GoOn(h).observed = h.observed /\ GoOn(h).activated = h.activated
      /\ GoOn(h).volume = h.volume /\ GoOn(h).failed = h.failed
  BY <1>1, <1>2 DEF HandlerRecords
<1> QED BY <1>1, <1>3

(* A handler is a record of what it has yet to use. *)
LEMMA HandlersTyped == TypeOK => handler \in [Handlers -> HandlerRecords]
  BY DEF TypeOK, HandlerRecords

(* One at rest has nothing. *)
LEMMA IdleTyped == Idle \in HandlerRecords
  BY ConstantsAssumption DEF Idle, HandlerRecords, VolumeStates

(* A step that writes none of the rows and stamps nothing. *)
LEMMA RowsUntouched ==
    ASSUME UNCHANGED <<deployment, deployments>>
    PROVE  /\ LiveIsNewest => LiveIsNewest'
           /\ Unwritten => Unwritten'
           /\ EndedStays
           /\ Deployed' = Deployed
           /\ \A i \in DeploymentIds : Live(i)' = Live(i)
  BY DEF LiveIsNewest, Unwritten, EndedStays, Live, Written, Deployed

(* An app begins active, with nothing deployed and no report under way. *)
LEMMA InitIInv == Init => IInv
<1> SUFFICES ASSUME Init PROVE IInv
  OBVIOUS
<1>1. handler \in [Handlers -> HandlerRecords] /\ \A r \in Handlers : handler[r] = Idle
  BY IdleTyped DEF Init
<1>2. TypeOK
  BY <1>1, ConstantsAssumption DEF Init, TypeOK, HandlerRecords, VolumeStates
<1>3. LiveIsNewest /\ Unwritten /\ StampInv
  BY DEF Init, LiveIsNewest, Unwritten, StampInv, Live, Written
<1>4. DecisionsKnown
  <2>1. Idle.observed = {} /\ Idle.pc = "idle"
    BY DEF Idle
  <2>2. \A r \in Handlers : handler[r].observed = {} /\ handler[r].pc = "idle"
    BY <1>1, <2>1
  <2> QED BY <2>2 DEF DecisionsKnown
<1>5. VolumeInv
  BY <1>1 DEF Init, VolumeInv, Idle
<1> QED BY <1>2, <1>3, <1>4, <1>5 DEF IInv

(* What a step keeps. *)
Kept == IInv' /\ EndedStays

(* One handler moves on. *)
LEMMA OneHandler ==
    ASSUME IInv, NEW r \in Handlers, NEW h \in HandlerRecords, handler' = [handler EXCEPT ![r] = h]
    PROVE  /\ handler' \in [Handlers -> HandlerRecords]
           /\ handler'[r] = h
           /\ \A q \in Handlers : q # r => handler'[q] = handler[q]
  BY HandlersTyped DEF IInv

---------------------------------------------------------------------------
(* What an owner asks for. *)

(* A redeploy supersedes what was live before its own row is there. *)
LEMMA InsertKeeps == IInv /\ Insert => Kept
<1> SUFFICES ASSUME IInv, Insert PROVE Kept
  OBVIOUS
<1>1. deployments \in Nat /\ deployments' = deployments + 1 /\ deployments' \in DeploymentIds
      /\ deployments' \in 0..MaxDeployments
  BY ConstantsAssumption DEF IInv, TypeOK, Insert, DeploymentIds
<1>2. /\ deployment' \in [DeploymentIds -> States \cup {"none"}]
      /\ deployment'[deployments'] = "pending"
      /\ \A i \in DeploymentIds : i # deployments' =>
           deployment'[i] = IF Live(i) THEN "superseded" ELSE deployment[i]
  BY <1>1 DEF IInv, TypeOK, Insert, States
<1>3. UNCHANGED <<app, activated, deleting, handler, host, failures>> /\ app # "deleted"
  BY DEF Insert
<1>4. TypeOK'
  BY <1>1, <1>2, <1>3 DEF IInv, TypeOK
<1>5. \A i \in DeploymentIds : Live(i)' => i = deployments'
  BY <1>2 DEF Live, Written, Over
<1>6. LiveIsNewest'
  BY <1>5 DEF LiveIsNewest
<1>7. Unwritten'
  <2> SUFFICES ASSUME NEW i \in DeploymentIds, i > deployments' PROVE deployment'[i] = "none"
    BY DEF Unwritten
  <2>1. i > deployments /\ i # deployments'
    BY <1>1 DEF DeploymentIds
  <2>2. deployment[i] = "none"
    BY <2>1 DEF IInv, Unwritten
  <2> QED BY <1>2, <2>1, <2>2 DEF Live, Written
<1>8. DecisionsKnown'
  <2>1. \A i \in DeploymentIds : i <= deployments => i <= deployments'
    BY <1>1 DEF DeploymentIds
  <2> QED BY <1>3, <2>1 DEF IInv, DecisionsKnown
<1>9. Deployed'
  BY <1>1, <1>2 DEF Deployed, Written
<1>10. VolumeInv'
  BY <1>3, <1>9 DEF IInv, VolumeInv, Gone
<1>11. StampInv'
  <2>1. \A r \in Handlers : <<deployments', "running">> \notin handler'[r].observed
    <3>1. ~ (deployments' <= deployments) /\ "running" \in States
      BY <1>1 DEF States
    <3> QED BY <1>1, <1>3, <3>1 DEF IInv, DecisionsKnown
  <2> QED BY <1>2, <1>5, <2>1 DEF StampInv
<1>12. EndedStays
  <2> SUFFICES ASSUME NEW i \in DeploymentIds, deployment[i] \in Over
               PROVE  deployment'[i] = deployment[i]
    BY DEF EndedStays
  <2>1. i # deployments'
    <3>1. ~ (i > deployments)
      BY DEF IInv, Unwritten, Over
    <3> QED BY <1>1, <3>1 DEF DeploymentIds
  <2> QED BY <1>2, <2>1 DEF Live
<1> QED BY <1>4, <1>6, <1>7, <1>8, <1>10, <1>11, <1>12 DEF Kept, IInv

(* A change of the app's state alone: not back from a deletion whose volume is gone,
   and to deleted only where there is no volume. *)
LEMMA AppKeeps ==
    ASSUME IInv, app' \in {"active", "suspended", "deleting", "deleted"},
           deleting' \in {"no", "finish"},
           UNCHANGED <<deployment, deployments, activated, host, failures, handler>>,
           app' \in {"active", "suspended"} => app \in {"active", "suspended"},
           app = "deleted" => app' = "deleted",
           app' = "deleted" => app = "deleted" \/ ~ host.held
    PROVE  Kept
<1>1. TypeOK'
  BY DEF IInv, TypeOK
<1>2. LiveIsNewest' /\ Unwritten' /\ EndedStays /\ Deployed' = Deployed
  BY RowsUntouched DEF IInv
<1>3. DecisionsKnown'
  BY DEF IInv, DecisionsKnown
<1>4. VolumeInv'
  <2>1. Gone => Gone'
    BY DEF Gone
  <2> QED BY <1>2, <2>1 DEF IInv, VolumeInv
<1>5. StampInv'
  BY DEF IInv, StampInv, Stamping, Live, Written
<1> QED BY <1>1, <1>2, <1>3, <1>4, <1>5 DEF Kept, IInv

(* An app that is finishable has never had a volume. *)
LEMMA FinishableHasNone == IInv /\ Finishable => app = "deleting" /\ ~ host.held
  BY DEF IInv, VolumeInv, Finishable

(* Suspending, resuming and deleting touch no release; an app that was never
   deployed has no volume to wait for. *)
LEMMA OwnerKeeps ==
    IInv /\ (Delete \/ FinishDelete \/ \E state \in {"active", "suspended"} : SetState(state)) => Kept
<1> SUFFICES ASSUME IInv, Delete \/ FinishDelete \/ \E state \in {"active", "suspended"} : SetState(state)
             PROVE  Kept
  OBVIOUS
<1>0. app \in {"active", "suspended", "deleting", "deleted"} /\ deleting \in {"no", "finish"}
  BY DEF IInv, TypeOK
<1>1. CASE Delete
  BY <1>0, <1>1, AppKeeps DEF Delete
<1>2. CASE FinishDelete
  <2>1. app' = (IF Finishable THEN "deleted" ELSE app) /\ deleting' = "no"
        /\ UNCHANGED <<deployment, deployments, activated, handler, host, failures>>
    BY <1>2 DEF FinishDelete
  <2>2. CASE Finishable
    BY <1>0, <2>1, <2>2, AppKeeps, FinishableHasNone
  <2>3. CASE ~ Finishable
    BY <1>0, <2>1, <2>3, AppKeeps
  <2> QED BY <2>2, <2>3
<1>3. ASSUME NEW state \in {"active", "suspended"}, SetState(state) PROVE Kept
  BY <1>0, <1>3, AppKeeps DEF SetState
<1> QED BY <1>1, <1>2, <1>3

---------------------------------------------------------------------------
(* The host. *)

(* A pass makes the volume while it is wanted, and reclaims it only for an app being
   deleted. *)
LEMMA HostKeeps == IInv /\ HostPass => Kept
<1> SUFFICES ASSUME IInv, HostPass PROVE Kept
  OBVIOUS
<1>1. PICK v \in VolumeOutcomes :
        host' = [instance |-> DesiredInstance, volume |-> v.volume, held |-> v.held]
  BY DEF HostPass
<1>2. Deployed /\ UNCHANGED <<app, deployment, deployments, activated, deleting, handler, failures>>
  BY DEF HostPass
<1>3. host.held \in BOOLEAN /\ DesiredInstance \in 0..MaxDeployments
  BY ConstantsAssumption DEF IInv, TypeOK, DesiredInstance
<1>4. /\ v.volume \in VolumeStates /\ v.held \in BOOLEAN
      /\ v.volume = "deleted" => app = "deleting" /\ ~ v.held
      /\ app \in {"deleting", "deleted"} /\ ~ host.held => ~ v.held
  <2>1. CASE app = "deleted"
    <3>1. v = [volume |-> "none", held |-> host.held]
      BY <2>1 DEF VolumeOutcomes, DesiredVolume
    <3> QED BY <1>3, <2>1, <3>1 DEF VolumeStates
  <2>2. CASE app = "deleting"
    <3>1. \/ v \in [volume : {"none"}, held : {host.held, FALSE}]
          \/ v = [volume |-> "deleted", held |-> FALSE]
      BY <2>2 DEF VolumeOutcomes, DesiredVolume
    <3>2. /\ v.volume \in {"none", "deleted"} /\ v.held \in {host.held, FALSE}
          /\ v.volume = "deleted" => ~ v.held
      <4>1. CASE v \in [volume : {"none"}, held : {host.held, FALSE}]
        BY <4>1
      <4>2. CASE v = [volume |-> "deleted", held |-> FALSE]
        <5>1. v.volume = "deleted" /\ v.held = FALSE
          BY <4>2
        <5> QED BY <5>1
      <4> QED BY <3>1, <4>1, <4>2
    <3> QED BY <1>3, <2>2, <3>2 DEF VolumeStates
  <2>3. CASE app \notin {"deleted", "deleting"}
    <3>1. v \in [volume : {"none", "failed"}, held : {host.held, TRUE}]
      BY <2>3 DEF VolumeOutcomes, DesiredVolume
    <3> QED BY <1>3, <2>3, <3>1 DEF VolumeStates
  <2> QED BY <2>1, <2>2, <2>3
<1>5. /\ host' \in [instance : 0..MaxDeployments, volume : VolumeStates, held : BOOLEAN]
      /\ host'.volume = v.volume /\ host'.held = v.held
  BY <1>1, <1>3, <1>4
<1>6. TypeOK'
  BY <1>2, <1>5 DEF IInv, TypeOK
<1>7. LiveIsNewest' /\ Unwritten' /\ EndedStays /\ Deployed' = Deployed
  BY <1>2, RowsUntouched DEF IInv
<1>8. DecisionsKnown' /\ StampInv'
  BY <1>2 DEF IInv, DecisionsKnown, StampInv, Stamping, Live, Written
<1>9. VolumeInv'
  <2>1. Gone => Gone'
    BY <1>2, <1>4, <1>5 DEF Gone
  <2>2. host'.volume = "deleted" => Gone'
    BY <1>2, <1>4, <1>5 DEF Gone
  <2>3. app = "deleted" => ~ host'.held
    BY <1>4, <1>5 DEF IInv, VolumeInv
  <2> QED BY <1>2, <1>7, <2>1, <2>2, <2>3 DEF IInv, VolumeInv
<1> QED BY <1>6, <1>7, <1>8, <1>9 DEF Kept, IInv

---------------------------------------------------------------------------
(* The handlers.  A step of one keeps the invariant if what it then remembers is worth
   what DecisionsKnown and VolumeInv say, it stamps what it was about to stamp, and a
   row it makes running has a stamp under way. *)

(* What every step of acceptReport keeps: it writes only rows that are still live,
   for handlers it does not disturb. *)
LEMMA HandlerKeeps ==
    ASSUME IInv, NEW r \in Handlers, NEW h \in HandlerRecords, handler' = [handler EXCEPT ![r] = h],
           UNCHANGED <<app, deployments, deleting, host, failures>>,
           deployment' \in [DeploymentIds -> States \cup {"none"}],
           activated' \in SUBSET DeploymentIds, activated \subseteq activated' \/ app = "deleted",
           \A i \in DeploymentIds, s \in States : <<i, s>> \in h.observed => i <= deployments,
           h.observed # {} => h.pc = "apply",
           h.pc = "complete" => h.volume = "deleted",
           h.volume = "deleted" => Gone,
           \A i \in DeploymentIds : Live(i)' => Live(i),
           \A i \in DeploymentIds : deployment[i] = "none" \/ deployment[i] \in Over =>
                                      deployment'[i] \in {deployment[i], "none"},
           app # "deleted" => \A i \in DeploymentIds : Written(i) => Written(i)',
           \A i \in DeploymentIds : failures = 0 /\ Live(i)' /\ Stamping(i) => Stamping(i)',
           \A i \in DeploymentIds : failures = 0 /\ Live(i)' /\ deployment'[i] = "running" =>
               \/ deployment[i] = "running" \/ Stamping(i)
               \/ h.pc = "stamp" /\ i \in h.activated,
           \A i \in DeploymentIds : failures = 0 /\ Live(i)' /\ <<i, "running">> \in h.observed =>
               i \in h.activated \/ Stamping(i)
    PROVE  Kept
<1>1. /\ handler' \in [Handlers -> HandlerRecords] /\ handler'[r] = h
      /\ \A q \in Handlers : q # r => handler'[q] = handler[q]
  BY OneHandler
<1>2. TypeOK'
  BY <1>1 DEF IInv, TypeOK, HandlerRecords
<1>3. LiveIsNewest'
  BY DEF IInv, LiveIsNewest
<1>4. Unwritten'
  BY DEF IInv, Unwritten
<1>5. EndedStays
  BY DEF EndedStays
<1>6. DecisionsKnown'
  <2> SUFFICES ASSUME NEW q \in Handlers
               PROVE  /\ \A i \in DeploymentIds, s \in States :
                           <<i, s>> \in handler'[q].observed => i <= deployments
                      /\ handler'[q].observed # {} => handler'[q].pc = "apply"
                      /\ handler'[q].pc = "complete" => handler'[q].volume = "deleted"
    BY DEF DecisionsKnown
  <2>1. CASE q = r
    BY <1>1, <2>1
  <2>2. CASE q # r
    BY <1>1, <2>2 DEF IInv, DecisionsKnown
  <2> QED BY <2>1, <2>2
<1>7. VolumeInv'
  <2>1. app # "deleted" => (Deployed => Deployed')
    BY DEF Deployed, Written
  <2>2. \A q \in Handlers : handler'[q].volume = "deleted" => Gone
    BY <1>1 DEF IInv, VolumeInv
  <2>3. Gone' = Gone
    BY DEF Gone
  <2> QED BY <2>1, <2>2, <2>3 DEF IInv, VolumeInv
<1>8. StampInv'
  <2> SUFFICES ASSUME failures = 0, NEW i \in DeploymentIds, Live(i)'
               PROVE  /\ deployment'[i] = "running" => Stamping(i)'
                      /\ \A q \in Handlers : <<i, "running">> \in handler'[q].observed =>
                           i \in handler'[q].activated \/ Stamping(i)'
    BY DEF StampInv
  <2>1. Live(i)
    OBVIOUS
  <2>2. Stamping(i) => Stamping(i)'
    OBVIOUS
  <2>3. h.pc = "stamp" /\ i \in h.activated => Stamping(i)'
    BY <1>1 DEF Stamping
  <2>4. deployment[i] = "running" => Stamping(i)
    BY <2>1 DEF IInv, StampInv
  <2>5. deployment'[i] = "running" => Stamping(i)'
    BY <2>2, <2>3, <2>4
  <2>6. ASSUME NEW q \in Handlers, <<i, "running">> \in handler'[q].observed
        PROVE  i \in handler'[q].activated \/ Stamping(i)'
    <3>1. CASE q = r
      BY <1>1, <2>2, <2>6, <3>1
    <3>2. CASE q # r
      BY <1>1, <2>1, <2>2, <2>6, <3>2 DEF IInv, StampInv
    <3> QED BY <3>1, <3>2
  <2> QED BY <2>5, <2>6
<1> QED BY <1>2, <1>3, <1>4, <1>5, <1>6, <1>7, <1>8 DEF Kept, IInv

(* A handler that is not at its stamps takes none away from a release by moving on. *)
LEMMA StampsStay ==
    ASSUME IInv, NEW r \in Handlers, NEW h \in HandlerRecords, handler' = [handler EXCEPT ![r] = h],
           handler[r].pc # "stamp", activated \subseteq activated'
    PROVE  \A i \in DeploymentIds : Stamping(i) => Stamping(i)'
<1> SUFFICES ASSUME NEW i \in DeploymentIds, Stamping(i) PROVE Stamping(i)'
  OBVIOUS
<1>1. CASE i \in activated
  BY <1>1 DEF Stamping
<1>2. CASE \E q \in Handlers : handler[q].pc = "stamp" /\ i \in handler[q].activated
  <2>1. PICK q \in Handlers : handler[q].pc = "stamp" /\ i \in handler[q].activated
    BY <1>2
  <2>2. handler'[q] = handler[q]
    BY <2>1, OneHandler
  <2> QED BY <2>1, <2>2 DEF Stamping
<1> QED BY <1>1, <1>2 DEF Stamping

(* A report says of the volume what the host does. *)
LEMMA SendKeeps == \A r \in Handlers : IInv /\ SendReport(r) => Kept
<1> SUFFICES ASSUME NEW r \in Handlers, IInv, SendReport(r) PROVE Kept
  OBVIOUS
<1>1. PICK i \in {0, host.instance} :
        handler' = [handler EXCEPT ![r] =
                [Idle EXCEPT !.pc = "read", !.instance = i, !.volume = host.volume]]
  BY DEF SendReport
<1> DEFINE h == [Idle EXCEPT !.pc = "read", !.instance = i, !.volume = host.volume]
<1>2. i \in 0..MaxDeployments /\ host.volume \in VolumeStates
  BY ConstantsAssumption DEF IInv, TypeOK
<1>3. /\ h \in HandlerRecords /\ h.pc = "read" /\ h.observed = {} /\ h.activated = {}
      /\ h.volume = host.volume
  BY <1>2 DEF Idle, HandlerRecords
<1>4. /\ handler' = [handler EXCEPT ![r] = h] /\ handler[r].pc # "stamp"
      /\ UNCHANGED <<app, deployment, deployments, activated, deleting, host, failures>>
  BY <1>1 DEF SendReport
<1> HIDE DEF h
<1>5. \A i_1 \in DeploymentIds : Stamping(i_1) => Stamping(i_1)'
  BY <1>3, <1>4, StampsStay
<1>6. /\ \A i_1 \in DeploymentIds : Live(i_1)' = Live(i_1) /\ Written(i_1)' = Written(i_1)
      /\ deployment \in [DeploymentIds -> States \cup {"none"}] /\ activated \in SUBSET DeploymentIds
  BY <1>4 DEF Live, Written, IInv, TypeOK
<1>7. h.volume = "deleted" => Gone
  BY <1>3 DEF IInv, VolumeInv
<1> QED BY <1>3, <1>4, <1>5, <1>6, <1>7, HandlerKeeps

(* A live row, moved by a report, is a live row or has failed. *)
LEMMA AdvanceTyped ==
    ASSUME NEW state \in States, NEW reported, NEW desiredRunning \in BOOLEAN, NEW overdue \in BOOLEAN
    PROVE  AdvanceState(state, reported, desiredRunning, overdue) \in States
  BY DEF AdvanceState, States

(* What a handler decides is about rows that are there, and what it finds come up it
   goes on to stamp. *)
LEMMA ReadLiveKeeps == \A r \in Handlers : IInv /\ ReadLive(r) => Kept
<1> SUFFICES ASSUME NEW r \in Handlers, IInv, ReadLive(r) PROVE Kept
  OBVIOUS
<1> DEFINE live == {i \in DeploymentIds : Live(i)}
           notCreated == {i \in live : deployment[i] = "pending" /\ handler[r].volume = "failed"}
           considered == live \ notCreated
           reported(state, i) == IF handler[r].instance = i THEN state ELSE "none"
           next(state, overdue, i) ==
              AdvanceState(deployment[i], reported(state, i), app = "active", overdue)
           seen(state, overdue) ==
              {<<i, next(state, overdue, i)>> : i \in {j \in considered : reported(state, j) # "none"}}
           up(state, overdue) ==
              {i \in considered : next(state, overdue, i) = "running" /\ deployment[i] # "running"}
           over(state, overdue) == notCreated \cup
              {i \in considered : reported(state, i) = "none" /\ next(state, overdue, i) = "failed"}
<1>1. PICK overdue \in BOOLEAN, state \in ReportedStates :
        handler' = [handler EXCEPT ![r] =
              GoOn([handler[r] EXCEPT !.instance = 0,
                 !.volume = IF handler[r].volume = "deleted" THEN "deleted" ELSE "none",
                 !.observed = seen(state, overdue),
                 !.activated = up(state, overdue),
                 !.failed = over(state, overdue)])]
  BY DEF ReadLive
<1>2. /\ handler[r].pc # "stamp"
      /\ UNCHANGED <<app, deployment, deployments, activated, deleting, host, failures>>
  BY DEF ReadLive
<1> DEFINE observed == seen(state, overdue)
           came == up(state, overdue)
           ended == over(state, overdue)
           volume == IF handler[r].volume = "deleted" THEN "deleted" ELSE "none"
<1>3. handler[r] \in HandlerRecords
  BY HandlersTyped DEF IInv
<1>4. volume \in VolumeStates /\ (volume = "deleted" => Gone)
  BY <1>3 DEF IInv, VolumeInv, VolumeStates
<1>5. \A i \in live : next(state, overdue, i) \in States
  <2>1. \A i \in live : deployment[i] \in States
    BY DEF IInv, TypeOK, Live, Written
  <2>2. (app = "active") \in BOOLEAN
    OBVIOUS
  <2> QED BY <2>1, <2>2, AdvanceTyped
<1>6. observed \in SUBSET (DeploymentIds \X States) /\ came \in SUBSET DeploymentIds
      /\ ended \in SUBSET DeploymentIds
  BY <1>5
<1>7. \A i \in DeploymentIds, s \in States : <<i, s>> \in observed =>
        Live(i) /\ (s = "running" => deployment[i] = "running" \/ i \in came)
  OBVIOUS
<1> HIDE DEF observed, came, ended, volume
<1> DEFINE base == [handler[r] EXCEPT !.instance = 0, !.volume = volume, !.observed = observed,
                                      !.activated = came, !.failed = ended]
           h == GoOn(base)
<1>8. /\ base \in HandlerRecords /\ base.observed = observed /\ base.activated = came
      /\ base.volume = volume
  <2>1. 0 \in 0..MaxDeployments
    BY ConstantsAssumption
  <2> QED BY <1>3, <1>4, <1>6, <2>1 DEF HandlerRecords
<1>9. handler' = [handler EXCEPT ![r] = h]
  BY <1>1 DEF observed, came, ended, volume
<1> HIDE DEF base
<1>10. /\ h \in HandlerRecords /\ h.observed = observed /\ h.activated = came /\ h.volume = volume
       /\ observed # {} => h.pc = "apply"
       /\ h.pc = "complete" => volume = "deleted"
  BY <1>8, GoesOn
<1> HIDE DEF h
<1>11. \A i \in DeploymentIds : Stamping(i) => Stamping(i)'
  BY <1>2, <1>9, <1>10, StampsStay
<1>12. /\ \A i \in DeploymentIds : Live(i)' = Live(i) /\ Written(i)' = Written(i)
       /\ deployment \in [DeploymentIds -> States \cup {"none"}] /\ activated \in SUBSET DeploymentIds
  BY <1>2 DEF Live, Written, IInv, TypeOK
<1>13. \A i \in DeploymentIds, s \in States : <<i, s>> \in h.observed => i <= deployments
  <2>1. \A i \in DeploymentIds, s \in States : <<i, s>> \in observed => i = deployments
    BY <1>7 DEF IInv, LiveIsNewest
  <2>2. deployments <= deployments
    BY DEF IInv, TypeOK
  <2> QED BY <1>10, <2>1, <2>2
<1>14. \A i \in DeploymentIds : failures = 0 /\ Live(i)' /\ <<i, "running">> \in h.observed =>
         i \in h.activated \/ Stamping(i)
  BY <1>7, <1>10, <1>12 DEF IInv, StampInv, States
<1> QED BY <1>2, <1>4, <1>9, <1>10, <1>11, <1>12, <1>13, <1>14, HandlerKeeps

(* A row takes the state worked out for it only while it is live; one that comes up
   has its handler to stamp it. *)
LEMMA ApplyKeeps == \A r \in Handlers : IInv /\ ApplyReport(r) => Kept
<1> SUFFICES ASSUME NEW r \in Handlers, IInv, ApplyReport(r) PROVE Kept
  OBVIOUS
<1> DEFINE base == [handler[r] EXCEPT !.observed = {}]
           h == GoOn(base)
<1>1. handler[r] \in HandlerRecords
  BY HandlersTyped DEF IInv
<1>2. base \in HandlerRecords /\ base.observed = {} /\ base.activated = handler[r].activated
      /\ base.volume = handler[r].volume
  BY <1>1 DEF HandlerRecords
<1>3. /\ handler' = [handler EXCEPT ![r] = h] /\ handler[r].pc # "stamp"
      /\ UNCHANGED <<app, deployments, activated, deleting, host, failures>>
  BY <1>1 DEF ApplyReport, HandlerRecords
<1> HIDE DEF base
<1>4. /\ h \in HandlerRecords /\ h.observed = {} /\ h.activated = handler[r].activated
      /\ h.volume = handler[r].volume
      /\ h.activated # {} => h.pc = "stamp"
      /\ h.pc = "complete" => h.volume = "deleted"
  BY <1>2, GoesOn
<1> HIDE DEF h
<1>5. ASSUME NEW i \in DeploymentIds
      PROVE  /\ deployment'[i] \in States \cup {"none"}
             /\ deployment'[i] # deployment[i] =>
                  Live(i) /\ deployment'[i] \in States /\ <<i, deployment'[i]>> \in handler[r].observed
  <2>1. deployment[i] \in States \cup {"none"}
    BY DEF IInv, TypeOK
  <2>2. CASE Live(i) /\ \E s \in States : <<i, s>> \in handler[r].observed
    <3>1. deployment'[i] = CHOOSE s \in States : <<i, s>> \in handler[r].observed
      BY <2>2 DEF ApplyReport
    <3> QED BY <2>2, <3>1
  <2>3. CASE ~ (Live(i) /\ \E s \in States : <<i, s>> \in handler[r].observed)
    <3>1. deployment'[i] = deployment[i]
      BY <2>3 DEF ApplyReport
    <3> QED BY <2>1, <3>1
  <2> QED BY <2>2, <2>3
<1>6. deployment' \in [DeploymentIds -> States \cup {"none"}]
  <2>1. deployment' = [i \in DeploymentIds |-> deployment'[i]]
    BY DEF ApplyReport
  <2> QED BY <1>5, <2>1
<1>7. /\ \A i \in DeploymentIds : Live(i)' => Live(i)
      /\ \A i \in DeploymentIds : deployment[i] = "none" \/ deployment[i] \in Over =>
                                      deployment'[i] = deployment[i]
      /\ \A i \in DeploymentIds : Written(i) => Written(i)'
  BY <1>5 DEF Live, Written, States
<1>8. \A i \in DeploymentIds : Stamping(i) => Stamping(i)'
  BY <1>3, <1>4, StampsStay
<1>9. \A i \in DeploymentIds : failures = 0 /\ Live(i)' /\ deployment'[i] = "running" =>
          \/ deployment[i] = "running" \/ Stamping(i)
          \/ h.pc = "stamp" /\ i \in h.activated
  BY <1>4, <1>5, <1>7 DEF IInv, StampInv
<1>10. activated \in SUBSET DeploymentIds /\ (h.volume = "deleted" => Gone)
  BY <1>4 DEF IInv, TypeOK, VolumeInv
<1> QED BY <1>3, <1>4, <1>6, <1>7, <1>8, <1>9, <1>10, HandlerKeeps

(* A stamp is set once, for what the handler saw come up and is still live. *)
LEMMA StampKeeps == \A r \in Handlers : IInv /\ StampActivation(r) => Kept
<1> SUFFICES ASSUME NEW r \in Handlers, IInv, StampActivation(r) PROVE Kept
  OBVIOUS
<1> DEFINE base == [handler[r] EXCEPT !.activated = {}]
           h == GoOn(base)
<1>1. handler[r] \in HandlerRecords /\ handler[r].observed = {}
  BY HandlersTyped DEF IInv, DecisionsKnown, StampActivation
<1>2. base \in HandlerRecords /\ base.observed = {} /\ base.volume = handler[r].volume
  BY <1>1 DEF HandlerRecords
<1>3. /\ handler' = [handler EXCEPT ![r] = h] /\ handler[r].pc = "stamp"
      /\ activated' = activated \cup {i \in handler[r].activated : Live(i)}
      /\ UNCHANGED <<app, deployment, deployments, deleting, host, failures>>
  BY <1>1 DEF StampActivation, HandlerRecords
<1> HIDE DEF base
<1>4. /\ h \in HandlerRecords /\ h.observed = {} /\ h.volume = handler[r].volume
      /\ h.pc = "complete" => h.volume = "deleted"
  BY <1>2, GoesOn
<1> HIDE DEF h
<1>5. /\ \A i \in DeploymentIds : Live(i)' = Live(i) /\ Written(i)' = Written(i)
      /\ deployment \in [DeploymentIds -> States \cup {"none"}]
      /\ activated' \in SUBSET DeploymentIds /\ activated \subseteq activated'
  BY <1>1, <1>3 DEF Live, Written, IInv, TypeOK, HandlerRecords
<1>6. ASSUME NEW i \in DeploymentIds, Live(i), Stamping(i) PROVE Stamping(i)'
  <2>1. CASE i \in activated \/ i \in handler[r].activated
    BY <1>3, <1>6, <2>1 DEF Stamping
  <2>2. CASE \E q \in Handlers : q # r /\ handler[q].pc = "stamp" /\ i \in handler[q].activated
    BY <1>3, <1>4, <2>2, OneHandler DEF Stamping
  <2> QED BY <1>6, <2>1, <2>2 DEF Stamping
<1>7. h.volume = "deleted" => Gone
  BY <1>4 DEF IInv, VolumeInv
<1> QED BY <1>3, <1>4, <1>5, <1>6, <1>7, HandlerKeeps

(* A release is failed only while it is live. *)
LEMMA FailKeeps == \A r \in Handlers : IInv /\ Fail(r) => Kept
<1> SUFFICES ASSUME NEW r \in Handlers, IInv, Fail(r) PROVE Kept
  OBVIOUS
<1> DEFINE base == [handler[r] EXCEPT !.failed = {}]
           h == GoOn(base)
<1>1. handler[r] \in HandlerRecords /\ handler[r].observed = {}
  BY HandlersTyped DEF IInv, DecisionsKnown, Fail
<1>2. base \in HandlerRecords /\ base.observed = {} /\ base.volume = handler[r].volume
  BY <1>1 DEF HandlerRecords
<1>3. /\ handler' = [handler EXCEPT ![r] = h] /\ handler[r].pc # "stamp"
      /\ UNCHANGED <<app, deployments, activated, deleting, host, failures>>
  BY <1>1 DEF Fail, HandlerRecords
<1> HIDE DEF base
<1>4. /\ h \in HandlerRecords /\ h.observed = {} /\ h.volume = handler[r].volume
      /\ h.pc = "complete" => h.volume = "deleted"
  BY <1>2, GoesOn
<1> HIDE DEF h
<1>5. deployment' = [i \in DeploymentIds |->
            IF Live(i) /\ i \in handler[r].failed THEN "failed" ELSE deployment[i]]
  BY DEF Fail
<1>6. deployment \in [DeploymentIds -> States \cup {"none"}] /\ activated \in SUBSET DeploymentIds
  BY DEF IInv, TypeOK
<1>7. deployment' \in [DeploymentIds -> States \cup {"none"}]
  BY <1>5, <1>6 DEF States
<1>8. \A i \in DeploymentIds :
        deployment'[i] = IF Live(i) /\ i \in handler[r].failed THEN "failed" ELSE deployment[i]
  BY <1>5
<1>9. /\ \A i \in DeploymentIds : Live(i)' => Live(i) /\ deployment'[i] = deployment[i]
      /\ \A i \in DeploymentIds : deployment[i] = "none" \/ deployment[i] \in Over =>
                                      deployment'[i] = deployment[i]
      /\ \A i \in DeploymentIds : Written(i) => Written(i)'
  BY <1>8 DEF Live, Written, Over
<1>10. \A i \in DeploymentIds : Stamping(i) => Stamping(i)'
  BY <1>3, <1>4, StampsStay
<1>11. h.volume = "deleted" => Gone
  BY <1>4 DEF IInv, VolumeInv
<1> QED BY <1>3, <1>4, <1>6, <1>7, <1>9, <1>10, <1>11, HandlerKeeps

(* The steps of a handler that may end a deletion write none of the rows. *)
LEMMA DeletionKeeps ==
    ASSUME IInv, NEW r \in Handlers, NEW h \in HandlerRecords, handler' = [handler EXCEPT ![r] = h],
           UNCHANGED <<deployment, deployments, activated, deleting, host, failures>>,
           app' = app \/ (app' = "deleted" /\ ~ host.held),
           handler[r].pc # "stamp", h.observed = {},
           h.pc = "complete" => h.volume = "deleted",
           h.volume = "deleted" => Gone
    PROVE  Kept
<1>1. /\ handler' \in [Handlers -> HandlerRecords] /\ handler'[r] = h
      /\ \A q \in Handlers : q # r => handler'[q] = handler[q]
  BY OneHandler
<1>2. TypeOK'
  BY <1>1 DEF IInv, TypeOK, HandlerRecords
<1>3. /\ LiveIsNewest' /\ Unwritten' /\ EndedStays /\ Deployed' = Deployed
      /\ \A i \in DeploymentIds : Live(i)' = Live(i)
  BY RowsUntouched DEF IInv
<1>4. DecisionsKnown'
  <2> SUFFICES ASSUME NEW q \in Handlers
               PROVE  /\ \A i \in DeploymentIds, s \in States :
                           <<i, s>> \in handler'[q].observed => i <= deployments
                      /\ handler'[q].observed # {} => handler'[q].pc = "apply"
                      /\ handler'[q].pc = "complete" => handler'[q].volume = "deleted"
    BY DEF DecisionsKnown
  <2>1. CASE q = r
    BY <1>1, <2>1
  <2>2. CASE q # r
    BY <1>1, <2>2 DEF IInv, DecisionsKnown
  <2> QED BY <2>1, <2>2
<1>5. VolumeInv'
  <2>2. Gone => Gone'
    BY DEF Gone
  <2>1. \A q \in Handlers : handler'[q].volume = "deleted" => Gone
    BY <1>1 DEF IInv, VolumeInv
  <2> QED BY <1>3, <2>1, <2>2 DEF IInv, VolumeInv
<1>6. \A i \in DeploymentIds : Stamping(i) => Stamping(i)'
  BY StampsStay
<1>7. StampInv'
  <2> SUFFICES ASSUME failures = 0, NEW i \in DeploymentIds, Live(i)
               PROVE  /\ deployment[i] = "running" => Stamping(i)'
                      /\ \A q \in Handlers : <<i, "running">> \in handler'[q].observed =>
                           i \in handler'[q].activated \/ Stamping(i)'
    BY <1>3 DEF StampInv
  <2>1. deployment[i] = "running" => Stamping(i)'
    BY <1>6 DEF IInv, StampInv
  <2>2. ASSUME NEW q \in Handlers, <<i, "running">> \in handler'[q].observed
        PROVE  i \in handler'[q].activated \/ Stamping(i)'
    <3>1. q # r
      BY <1>1, <2>2
    <3> QED BY <1>1, <1>6, <2>2, <3>1 DEF IInv, StampInv
  <2> QED BY <2>1, <2>2
<1> QED BY <1>2, <1>3, <1>4, <1>5, <1>7 DEF Kept, IInv

(* A deletion is completed on the word of a host whose volume is gone. *)
LEMMA CompleteKeeps == \A r \in Handlers : IInv /\ CompleteDeletions(r) => Kept
<1> SUFFICES ASSUME NEW r \in Handlers, IInv, CompleteDeletions(r) PROVE Kept
  OBVIOUS
<1> DEFINE base == [handler[r] EXCEPT !.volume = "none"]
           h == GoOn(base)
<1>1. handler[r] \in HandlerRecords /\ handler[r].observed = {} /\ handler[r].volume = "deleted"
  BY HandlersTyped DEF IInv, DecisionsKnown, CompleteDeletions
<1>2. base \in HandlerRecords /\ base.observed = {} /\ base.volume = "none"
  BY <1>1 DEF HandlerRecords, VolumeStates
<1>3. /\ handler' = [handler EXCEPT ![r] = h] /\ handler[r].pc # "stamp"
      /\ app' = app \/ app' = "deleted"
      /\ UNCHANGED <<deployment, deployments, activated, deleting, host, failures>>
  BY <1>1 DEF CompleteDeletions, HandlerRecords
<1> HIDE DEF base
<1>4. h \in HandlerRecords /\ h.observed = {} /\ h.volume = "none" /\ h.pc # "complete"
  BY <1>2, GoesOn
<1> HIDE DEF h
<1>5. ~ host.held
  BY <1>1 DEF IInv, VolumeInv, Gone
<1> QED BY <1>3, <1>4, <1>5, DeletionKeeps

(* A deletion with nothing to tear down is finished. *)
LEMMA FinishKeeps == \A r \in Handlers : IInv /\ FinishDeletions(r) => Kept
<1> SUFFICES ASSUME NEW r \in Handlers, IInv, FinishDeletions(r) PROVE Kept
  OBVIOUS
<1> DEFINE h == [handler[r] EXCEPT !.pc = "purge"]
<1>1. handler \in [Handlers -> HandlerRecords] /\ handler[r].observed = {} /\ handler[r].pc # "stamp"
  BY HandlersTyped DEF IInv, DecisionsKnown, FinishDeletions
<1>2. h \in HandlerRecords /\ h.observed = {} /\ h.pc = "purge" /\ h.volume = handler[r].volume
  BY <1>1 DEF HandlerRecords
<1>3. /\ handler' = [handler EXCEPT ![r] = h]
      /\ app' = (IF Finishable THEN "deleted" ELSE app)
      /\ UNCHANGED <<deployment, deployments, activated, deleting, host, failures>>
  BY <1>1 DEF FinishDeletions, HandlerRecords
<1> HIDE DEF h
<1>4. app' = app \/ (app' = "deleted" /\ ~ host.held)
  BY <1>3, FinishableHasNone
<1>5. h.volume = "deleted" => Gone
  BY <1>2 DEF IInv, VolumeInv
<1> QED BY <1>1, <1>2, <1>3, <1>4, <1>5, DeletionKeeps

(* Only the rows of a deleted app are purged. *)
LEMMA PurgeKeeps == \A r \in Handlers : IInv /\ PurgeDeleted(r) => Kept
<1> SUFFICES ASSUME NEW r \in Handlers, IInv, PurgeDeleted(r) PROVE Kept
  OBVIOUS
<1>1. /\ Idle \in HandlerRecords /\ Idle.observed = {} /\ Idle.pc = "idle" /\ Idle.volume = "none"
  BY IdleTyped DEF Idle
<1>2. /\ handler' = [handler EXCEPT ![r] = Idle] /\ handler[r].pc # "stamp"
      /\ UNCHANGED <<app, deployments, deleting, host, failures>>
  BY DEF PurgeDeleted
<1>3. deployment \in [DeploymentIds -> States \cup {"none"}] /\ activated \in SUBSET DeploymentIds
  BY DEF IInv, TypeOK
<1>4. CASE app = "deleted"
  <2>1. activated' = {} /\ deployment' = [i \in DeploymentIds |-> "none"]
    BY <1>4 DEF PurgeDeleted
  <2>2. deployment' \in [DeploymentIds -> States \cup {"none"}]
    BY <2>1
  <2>3. \A i \in DeploymentIds : deployment'[i] = "none" /\ ~ Live(i)'
    BY <2>1 DEF Live, Written
  <2> QED BY <1>1, <1>2, <1>4, <2>1, <2>2, <2>3, HandlerKeeps
<1>5. CASE app # "deleted"
  <2>1. UNCHANGED <<deployment, activated>>
    BY <1>5 DEF PurgeDeleted
  <2>2. \A i \in DeploymentIds : Live(i)' = Live(i) /\ Written(i)' = Written(i)
    BY <2>1 DEF Live, Written
  <2>3. \A i \in DeploymentIds : Stamping(i) => Stamping(i)'
    BY <1>1, <1>2, <2>1, StampsStay
  <2> QED BY <1>1, <1>2, <1>3, <2>1, <2>2, <2>3, HandlerKeeps
<1> QED BY <1>4, <1>5

(* A handler that dies leaves what it had yet to do to nobody, and is counted. *)
LEMMA DiesKeeps == \A r \in Handlers : IInv /\ HandlerDies(r) => Kept
<1> SUFFICES ASSUME NEW r \in Handlers, IInv, HandlerDies(r) PROVE Kept
  OBVIOUS
<1>1. /\ Idle \in HandlerRecords /\ Idle.observed = {} /\ Idle.pc = "idle" /\ Idle.volume = "none"
  BY IdleTyped DEF Idle
<1>2. /\ handler' = [handler EXCEPT ![r] = Idle]
      /\ UNCHANGED <<app, deployment, deployments, activated, deleting, host>>
  BY DEF HandlerDies
<1>3. failures' \in 0..MaxFailures /\ failures' # 0
  BY ConstantsAssumption DEF IInv, TypeOK, HandlerDies
<1>4. /\ handler' \in [Handlers -> HandlerRecords] /\ handler'[r] = Idle
      /\ \A q \in Handlers : q # r => handler'[q] = handler[q]
  BY <1>1, <1>2, OneHandler
<1>5. TypeOK'
  BY <1>2, <1>3, <1>4 DEF IInv, TypeOK, HandlerRecords
<1>6. LiveIsNewest' /\ Unwritten' /\ EndedStays /\ Deployed' = Deployed
  BY <1>2, RowsUntouched DEF IInv
<1>7. DecisionsKnown'
  <2> SUFFICES ASSUME NEW q \in Handlers
               PROVE  /\ \A i \in DeploymentIds, s \in States :
                           <<i, s>> \in handler'[q].observed => i <= deployments
                      /\ handler'[q].observed # {} => handler'[q].pc = "apply"
                      /\ handler'[q].pc = "complete" => handler'[q].volume = "deleted"
    BY <1>2 DEF DecisionsKnown
  <2>1. CASE q = r
    BY <1>1, <1>4, <2>1
  <2>2. CASE q # r
    BY <1>4, <2>2 DEF IInv, DecisionsKnown
  <2> QED BY <2>1, <2>2
<1>8. VolumeInv'
  <2>1. \A q \in Handlers : handler'[q].volume = "deleted" => Gone
    BY <1>1, <1>4 DEF IInv, VolumeInv
  <2>2. Gone' = Gone
    BY <1>2 DEF Gone
  <2> QED BY <1>2, <1>6, <2>1, <2>2 DEF IInv, VolumeInv
<1>9. StampInv'
  BY <1>3 DEF StampInv
<1> QED BY <1>5, <1>6, <1>7, <1>8, <1>9 DEF Kept, IInv

---------------------------------------------------------------------------

(* Nothing changes where nothing happens. *)
LEMMA StutterKeeps == IInv /\ UNCHANGED vars => Kept
<1> SUFFICES ASSUME IInv, UNCHANGED vars PROVE Kept
  OBVIOUS
<1>1. LiveIsNewest' /\ Unwritten' /\ EndedStays /\ Deployed' = Deployed
  BY RowsUntouched DEF IInv, vars
<1>2. TypeOK' /\ DecisionsKnown' /\ VolumeInv'
  BY <1>1 DEF IInv, vars, TypeOK, DecisionsKnown, VolumeInv, Gone
<1>3. StampInv'
  BY DEF IInv, vars, StampInv, Stamping, Live, Written
<1> QED BY <1>1, <1>2, <1>3 DEF Kept, IInv

(* Every step keeps the invariant and what the step properties say. *)
LEMMA StepKeeps == IInv /\ [Next]_vars => Kept
<1> SUFFICES ASSUME IInv, [Next]_vars PROVE Kept
  OBVIOUS
<1>1. CASE Insert
  BY <1>1, InsertKeeps
<1>2. CASE Delete \/ FinishDelete \/ \E state \in {"active", "suspended"} : SetState(state)
  BY <1>2, OwnerKeeps
<1>3. CASE HostPass
  BY <1>3, HostKeeps
<1>4. ASSUME NEW r \in Handlers, SendReport(r) \/ Handle(r) \/ HandlerDies(r) PROVE Kept
  BY <1>4, SendKeeps, ReadLiveKeeps, ApplyKeeps, StampKeeps, FailKeeps, CompleteKeeps, FinishKeeps,
     PurgeKeeps, DiesKeeps DEF Handle
<1>5. CASE UNCHANGED vars
  BY <1>5, StutterKeeps
<1> QED BY <1>1, <1>2, <1>3, <1>4, <1>5 DEF Next

(* The invariant the theorems rest on holds throughout. *)
LEMMA Invariance == Spec => []IInv
<1>1. IInv /\ [Next]_vars => IInv'
  BY StepKeeps DEF Kept
<1> QED BY InitIInv, <1>1, PTL DEF Spec

(* However many deployments and overlapping reports there are, the tables, the handlers
   and the host keep the shapes the model gives them. *)
THEOREM TypeCorrect == Spec => []TypeOK
<1>1. IInv => TypeOK
  BY DEF IInv
<1> QED BY Invariance, <1>1, PTL

(* Only the newest deployment is ever live, whatever a handler read before a redeploy:
   insertDeployment ends the others under the app's lock, and applyReport and `fail`
   write none that has ended. *)
THEOREM NewestAloneIsLive == Spec => []LiveIsNewest
<1>1. IInv => LiveIsNewest
  BY DEF IInv
<1> QED BY Invariance, <1>1, PTL

(* completeDeletions and finishable_deletions call an app deleted only when no host
   holds its volume. *)
THEOREM VolumeGoneFirst == Spec => []DeletedIsGone
<1>1. IInv => DeletedIsGone
  BY DEF IInv, VolumeInv, DeletedIsGone
<1> QED BY Invariance, <1>1, PTL

(* The release that applyReport calls running is stamped by a handler that is still at
   it, unless one died between the two statements. *)
THEOREM StampedUnlessDied == Spec => []UnstampedOnlyByFailure
<1>1. IInv => UnstampedOnlyByFailure
  <2> SUFFICES ASSUME IInv, NEW i \in DeploymentIds, deployment[i] = "running", i \notin activated,
                      ~ (failures > 0)
               PROVE  \E r \in Handlers : handler[r].pc = "stamp" /\ i \in handler[r].activated
    BY DEF UnstampedOnlyByFailure
  <2>1. failures = 0
    BY DEF IInv, TypeOK
  <2>2. Live(i)
    BY DEF Live, Written, Over
  <2> QED BY <2>1, <2>2 DEF IInv, StampInv, Stamping
<1> QED BY Invariance, <1>1, PTL

(* No report, overlapping handler or request moves a release out of superseded or
   failed; purgeDeleted removes it with its app. *)
THEOREM EndedStaysEnded == Spec => TerminalStays
<1>1. IInv /\ [Next]_vars => [EndedStays]_vars
  BY StepKeeps DEF Kept
<1>2. [][EndedStays]_vars => TerminalStays
  BY PTL DEF TerminalStays, EndedStays
<1> QED BY Invariance, <1>1, <1>2, PTL DEF Spec
===========================================================================
