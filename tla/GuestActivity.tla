--------------------------- MODULE GuestActivity ---------------------------
(***************************************************************************)
(* Who may be working with an app's guest                                  *)
(* (apps/agent/src/services/guest-activity.service.ts), for one app.       *)
(*                                                                         *)
(* Guest work (`run`) is counted; a suspend (`whenIdle`) goes ahead only   *)
(* when nothing is counted and keeps new work out while it captures the    *)
(* guest; a migration (`exclusively`) keeps new work out and waits for the *)
(* work already counted.  The semaphore and the counter live in an         *)
(* Activity object that the map drops when its last user leaves, so fibers *)
(* exclude one another only if they hold the SAME object: the identity of  *)
(* an Activity is a member of Activities.                                  *)
(*                                                                         *)
(* suspendInstance (lib/reconcile/instances.ts) calls whenIdle for an app  *)
(* measured quiet earlier and looks again, inside, whether the app has     *)
(* been active since.                                                      *)
(***************************************************************************)
EXTENDS Naturals, FiniteSets

CONSTANTS
    Runs,        \* fibers that call `run`
    Suspends,    \* fibers that call `whenIdle`
    Exclusives,  \* fibers that call `exclusively`
    Activities,  \* identities of Activity objects
    Signals,     \* identities of the Deferreds in their counters
    NoActivity,
    NoSignal

Fibers == Runs \cup Suspends \cup Exclusives

ASSUME ConstantsAssumption ==
    /\ IsFiniteSet(Fibers) /\ "free" \notin Fibers
    /\ Runs \cap Suspends = {} /\ Runs \cap Exclusives = {} /\ Suspends \cap Exclusives = {}
    /\ Activities \subseteq Nat /\ NoActivity \notin Activities
    /\ Signals \subseteq Nat /\ NoSignal \notin Signals

VARIABLES
    mapped,   \* the Activity the map has for the app, or NoActivity
    users,    \* its count of users
    activity, \* each Activity object: who holds its gate, its count, its Deferred
    done,     \* the Deferreds that have been completed
    pc,       \* each fiber's progress
    mine,     \* the Activity a fiber was given, or NoActivity
    waitsOn,  \* the Deferred an `exclusively` waits for
    toSignal, \* the Deferred a finished run has yet to complete
    stale,    \* suspends whose quietSinceMs is no longer lastActiveAtMs
    workedSince \* suspends since whose measurement some guest work has begun or ended

vars == <<mapped, users, activity, done, pc, mine, waitsOn, toSignal, stale, workedSince>>

Free == "free"

NewActivity == [gate |-> Free, count |-> 0, drained |-> NoSignal]

Init ==
    /\ mapped = NoActivity
    /\ users = 0
    /\ activity = [i \in Activities |-> NewActivity]
    /\ done = {}
    /\ pc = [f \in Fibers |-> "out"]
    /\ mine = [f \in Fibers |-> NoActivity]
    /\ waitsOn = [f \in Exclusives |-> NoSignal]
    /\ toSignal = [f \in Runs |-> NoSignal]
    /\ stale = {}
    /\ workedSince = {}

Goto(f, label) == pc' = [pc EXCEPT ![f] = label]

---------------------------------------------------------------------------
(* withActivity: acquire before the use, release after it. *)

UnusedActivities == Activities \ ({mine[f] : f \in Fibers} \cup {mapped})

Acquire(f) ==
    /\ IF mapped # NoActivity
         THEN /\ mine' = [mine EXCEPT ![f] = mapped]
              /\ UNCHANGED <<mapped, activity>>
         ELSE \E i \in UnusedActivities :
                /\ \A j \in UnusedActivities : i <= j
                /\ mapped' = i
                /\ mine' = [mine EXCEPT ![f] = i]
                /\ activity' = [activity EXCEPT ![i] = NewActivity]
    /\ users' = users + 1
    /\ Goto(f, "gate")
    /\ UNCHANGED <<done, waitsOn, toSignal, stale>>

(* Mutated: the first fiber to leave deletes the entry. *)
ReleaseFirst(f) ==
    /\ pc[f] = "leaving"
    /\ mapped' = NoActivity /\ users' = 0
    /\ mine' = [mine EXCEPT ![f] = NoActivity]
    /\ Goto(f, "out")
    /\ UNCHANGED <<activity, done, waitsOn, toSignal, stale, workedSince>>

(* release counts the fiber out of whatever the map has for the app now. *)
Release(f) ==
    /\ pc[f] = "leaving"
    /\ IF users = 1 THEN mapped' = NoActivity /\ users' = 0
                    ELSE users' = users - 1 /\ UNCHANGED mapped
    /\ mine' = [mine EXCEPT ![f] = NoActivity]
    /\ Goto(f, "out")
    /\ UNCHANGED <<activity, done, waitsOn, toSignal, stale, workedSince>>

(* A suspend is measured quiet some time before it is asked for; any work that
   begins or ends from here on is work its capture would cut short. *)
MeasureQuiet(s) ==
    /\ pc[s] = "out"
    /\ Goto(s, "measured")
    /\ stale' = stale \ {s}
    /\ workedSince' = workedSince \ {s}
    /\ UNCHANGED <<mapped, users, activity, done, mine, waitsOn, toSignal>>

Enter(f) ==
    /\ pc[f] = (IF f \in Suspends THEN "measured" ELSE "out")
    /\ Acquire(f)
    /\ UNCHANGED workedSince

TakeGate(f, label) ==
    /\ pc[f] = "gate"
    /\ activity[mine[f]].gate = Free
    /\ Goto(f, label)

(* A fiber may be interrupted while it queues at the gate: a cron run or a
   database session whose deployment is withdrawn. *)
Interrupt(f) ==
    /\ pc[f] = "gate"
    /\ Goto(f, "leaving")
    /\ UNCHANGED <<mapped, users, activity, done, mine, waitsOn, toSignal, stale, workedSince>>

(* withPermits gives the gate back when its body is over. *)
OpenGate(f) == [activity EXCEPT ![mine[f]].gate = Free]

---------------------------------------------------------------------------
(* run *)

UnusedSignals ==
    Signals \ ({activity[i].drained : i \in Activities}
                 \cup {waitsOn[f] : f \in Exclusives} \cup {toSignal[f] : f \in Runs})

(* The count goes up with the gate held, and the first one in makes the
   Deferred that the last one out completes. *)
CountIn(r) ==
    /\ TakeGate(r, "running")
    /\ \E d \in UnusedSignals :
         /\ \A e \in UnusedSignals : d <= e
         /\ activity' = [activity EXCEPT
                ![mine[r]].count = @ + 1,
                ![mine[r]].drained = IF activity[mine[r]].count = 0 THEN d ELSE @]
         /\ done' = done \ {d}
    /\ workedSince' = Suspends
    /\ UNCHANGED <<mapped, users, mine, waitsOn, toSignal, stale>>

(* Mutated: guest work leaves no trace of when it ended. *)
MarkNothing(r) ==
    /\ pc[r] = "running"
    /\ workedSince' = Suspends
    /\ Goto(r, "countingOut")
    /\ UNCHANGED <<mapped, users, activity, done, mine, waitsOn, toSignal, stale>>

(* The effect is over and the app is marked active: every suspend measured
   before this holds a stale quietSinceMs. *)
MarkActive(r) ==
    /\ pc[r] = "running"
    /\ stale' = Suspends
    /\ workedSince' = Suspends
    /\ Goto(r, "countingOut")
    /\ UNCHANGED <<mapped, users, activity, done, mine, waitsOn, toSignal>>

CountOut(r) ==
    /\ pc[r] = "countingOut"
    /\ activity' = [activity EXCEPT ![mine[r]].count = @ - 1]
    /\ toSignal' = [toSignal EXCEPT ![r] =
                        IF activity[mine[r]].count = 1 THEN activity[mine[r]].drained ELSE NoSignal]
    /\ Goto(r, "signalling")
    /\ UNCHANGED <<mapped, users, done, mine, waitsOn, stale, workedSince>>

(* Mutated: the last one out completes nothing. *)
SignalNobody(r) ==
    /\ pc[r] = "signalling"
    /\ toSignal' = [toSignal EXCEPT ![r] = NoSignal]
    /\ Goto(r, "leaving")
    /\ UNCHANGED <<mapped, users, activity, done, mine, waitsOn, stale, workedSince>>

SignalDrained(r) ==
    /\ pc[r] = "signalling"
    /\ done' = IF toSignal[r] = NoSignal THEN done ELSE done \cup {toSignal[r]}
    /\ toSignal' = [toSignal EXCEPT ![r] = NoSignal]
    /\ Goto(r, "leaving")
    /\ UNCHANGED <<mapped, users, activity, mine, waitsOn, stale, workedSince>>

---------------------------------------------------------------------------
(* whenIdle, with suspendInstance's second look inside it *)

(* Mutated: the gate is given back before the body and not after it. *)
WhenIdleUngated(s) ==
    /\ TakeGate(s, "looking")
    /\ UNCHANGED <<mapped, users, activity, done, mine, waitsOn, toSignal, stale, workedSince>>

WhenIdle(s) ==
    /\ TakeGate(s, "looking")
    /\ activity' = [activity EXCEPT ![mine[s]].gate = s]
    /\ UNCHANGED <<mapped, users, done, mine, waitsOn, toSignal, stale, workedSince>>

Look(s) ==
    /\ pc[s] = "looking"
    /\ IF activity[mine[s]].count = 0 /\ s \notin stale
         THEN Goto(s, "capturing") /\ UNCHANGED activity
         ELSE Goto(s, "leaving") /\ activity' = OpenGate(s)
    /\ UNCHANGED <<mapped, users, done, mine, waitsOn, toSignal, stale, workedSince>>

EndCapture(s) ==
    /\ pc[s] = "capturing"
    /\ activity' = OpenGate(s)
    /\ Goto(s, "leaving")
    /\ UNCHANGED <<mapped, users, done, mine, waitsOn, toSignal, stale, workedSince>>

---------------------------------------------------------------------------
(* exclusively *)

(* Mutated: work already counted is not waited for. *)
ExclusivelyAtOnce(e) ==
    /\ TakeGate(e, "draining")
    /\ activity' = [activity EXCEPT ![mine[e]].gate = e]
    /\ UNCHANGED <<mapped, users, done, mine, waitsOn, toSignal, stale, workedSince>>

Exclusively(e) ==
    /\ TakeGate(e, "draining")
    /\ activity' = [activity EXCEPT ![mine[e]].gate = e]
    /\ waitsOn' = [waitsOn EXCEPT ![e] =
                      IF activity[mine[e]].count > 0 THEN activity[mine[e]].drained ELSE NoSignal]
    /\ UNCHANGED <<mapped, users, done, mine, toSignal, stale, workedSince>>

Drained(e) ==
    /\ pc[e] = "draining"
    /\ waitsOn[e] \in done \cup {NoSignal}
    /\ waitsOn' = [waitsOn EXCEPT ![e] = NoSignal]
    /\ Goto(e, "exclusive")
    /\ UNCHANGED <<mapped, users, activity, done, mine, toSignal, stale, workedSince>>

(* The effect ends, or the fiber is interrupted while it waits. *)
EndExclusive(e) ==
    /\ pc[e] \in {"exclusive", "draining"}
    /\ activity' = OpenGate(e)
    /\ waitsOn' = [waitsOn EXCEPT ![e] = NoSignal]
    /\ Goto(e, "leaving")
    /\ UNCHANGED <<mapped, users, done, mine, toSignal, stale, workedSince>>

Next ==
    \/ \E f \in Fibers : Enter(f) \/ Interrupt(f) \/ Release(f)
    \/ \E r \in Runs : CountIn(r) \/ MarkActive(r) \/ CountOut(r) \/ SignalDrained(r)
    \/ \E s \in Suspends : MeasureQuiet(s) \/ WhenIdle(s) \/ Look(s) \/ EndCapture(s)
    \/ \E e \in Exclusives : Exclusively(e) \/ Drained(e) \/ EndExclusive(e)

Spec == Init /\ [][Next]_vars

(* Fibers run; guest work and captures end; an exclusive effect ends once it
   has begun.  The semaphore queues its waiters, so one that keeps finding the
   gate free is not passed over for ever. *)
Fairness ==
    /\ \A f \in Fibers : WF_vars(Release(f))
    /\ \A r \in Runs : /\ SF_vars(CountIn(r)) /\ WF_vars(MarkActive(r))
                       /\ WF_vars(CountOut(r)) /\ WF_vars(SignalDrained(r))
    /\ \A s \in Suspends : SF_vars(WhenIdle(s)) /\ WF_vars(Look(s)) /\ WF_vars(EndCapture(s))
    /\ \A e \in Exclusives : /\ SF_vars(Exclusively(e)) /\ WF_vars(Drained(e))
                             /\ WF_vars(pc[e] = "exclusive" /\ EndExclusive(e))

FairSpec == Spec /\ Fairness

---------------------------------------------------------------------------

(* The variables are of the shapes the service keeps. *)
TypeOK ==
    /\ mapped \in Activities \cup {NoActivity}
    /\ users \in Nat
    /\ activity \in [Activities -> [gate : Fibers \cup {Free}, count : Nat,
                                    drained : Signals \cup {NoSignal}]]
    /\ done \in SUBSET Signals
    /\ pc \in [Fibers -> {"out", "measured", "gate", "running", "countingOut", "signalling",
                          "looking", "capturing", "draining", "exclusive", "leaving"}]
    /\ mine \in [Fibers -> Activities \cup {NoActivity}]
    /\ waitsOn \in [Exclusives -> Signals \cup {NoSignal}]
    /\ toSignal \in [Runs -> Signals \cup {NoSignal}]
    /\ stale \in SUBSET Suspends
    /\ workedSince \in SUBSET Suspends

Working == {r \in Runs : pc[r] = "running"}
Alone == {f \in Fibers : pc[f] \in {"capturing", "exclusive"}}

(* A capture or a migration's effect runs with no guest work and no other
   capture or migration beside it. *)
OneOrMany ==
    /\ Cardinality(Alone) <= 1
    /\ Alone # {} => Working = {}

(* No app is captured after work its quietness was not measured against: work
   that came and went between the measurement and the capture is seen. *)
CapturesOnlyQuiet ==
    [][\A s \in Suspends : pc[s] = "looking" /\ pc'[s] = "capturing" => s \notin workedSince]_vars

(* The map forgets an app exactly when nobody uses its Activity, so that two
   fibers never synchronise on two different objects. *)
OneActivity ==
    /\ users = Cardinality({f \in Fibers : mine[f] # NoActivity})
    /\ \A f \in Fibers : mine[f] # NoActivity => mine[f] = mapped

(* The service implements GuestExclusion: work is inside until it has counted
   itself out, and the guest is closed by the fiber in the body of withPermits. *)
Counted == {r \in Runs : pc[r] \in {"running", "countingOut"}}
Holding == {"looking", "capturing", "draining", "exclusive"}

Exclusion == INSTANCE GuestExclusion WITH
    inside   <- Counted,
    closedBy <- {f \in Fibers : pc[f] \in Holding},
    alone    <- Alone,
    worked   <- workedSince

(* Every step of the service is a step of GuestExclusion or leaves what it sees
   unchanged, whichever Activity objects the map makes and forgets meanwhile. *)
ImplementsExclusion == Exclusion!Spec

(* A fiber that asked for the guest gets it, and guest work gets to run even
   though migrations and suspends keep coming. *)
EveryoneIsServed == \A f \in Fibers : pc[f] = "gate" ~> pc[f] = "out"
===========================================================================
