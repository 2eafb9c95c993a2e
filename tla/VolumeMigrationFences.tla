---------------------- MODULE VolumeMigrationFences ----------------------
(***************************************************************************)
(* The fence that keeps a volume's storage migration apart from every      *)
(* lifecycle operation on the app that owns the volume                     *)
(* (apps/agent/src/services/volume-migration-fences.service.ts).           *)
(*                                                                         *)
(* `access` admits a fiber to the apps it names, except the ones a         *)
(* migration holds, and counts it out again.  `during` closes an app to    *)
(* admission, waits for the fibers already inside to leave, runs its       *)
(* effect and reopens the app.  The wait is on a one-shot Deferred kept in *)
(* the app's entry, so what has to be right is WHICH Deferred is waited on *)
(* and completed as entries are deleted and created again: the identity of *)
(* a Deferred is a member of Signals.  A Deferred nothing refers to may be *)
(* used again for a new one, which is how garbage collection looks from    *)
(* here and what keeps the model finite.                                   *)
(***************************************************************************)
EXTENDS Naturals, FiniteSets

CONSTANTS
    Apps,        \* AppId
    Accesses,    \* fibers that call `access`: wakes, suspends, refreshes, the reconciler
    Reconciler,  \* the one of them that is the poll loop's reconcile pass
    Migrations,  \* calls of `during`
    Signals,     \* identities of Deferreds, numbered so that the least unused one is next
    NoSignal

ASSUME ConstantsAssumption ==
    /\ IsFiniteSet(Accesses)
    /\ Reconciler \in Accesses
    /\ Signals \subseteq Nat
    /\ NoSignal \notin Signals

VARIABLES
    entries,      \* the Ref's Map<AppId, Entry>; NoEntry where the map has no key
    done,         \* the Deferreds that have been completed
    access,       \* each access fiber's progress through acquireUseRelease
    migration,    \* each `during` call's progress through acquireUseRelease
    deferredWork, \* AgentState.deferredWork
    skipped       \* apps the last reconcile pass left alone because they were held

vars == <<entries, done, access, migration, deferredWork, skipped>>

NoEntry == [active |-> 0, held |-> FALSE, drained |-> NoSignal]

HasEntry(a) == entries[a].drained # NoSignal

Held(a) == entries[a].held

IdleAccess == [pc |-> "idle", admitted |-> {}, blocked |-> {}, signals |-> {}]

(* Deferreds something still points at: an entry, a finish that has yet to
   complete them, a `during` that waits for one. *)
Referenced ==
    {entries[a].drained : a \in Apps}
        \cup (UNION {access[x].signals : x \in Accesses})
        \cup {migration[m].drained : m \in Migrations}

Unused == Signals \ Referenced

(* S is the Deferreds that Deferred.make hands out next. *)
NextUnused(S) == \A d \in Unused, e \in S : d < e => d \in S

---------------------------------------------------------------------------

Init ==
    /\ entries = [a \in Apps |-> NoEntry]
    /\ done = {}
    /\ access = [x \in Accesses |-> IdleAccess]
    /\ \E target \in [Migrations -> Apps] :
         migration = [m \in Migrations |-> [pc |-> "idle", app |-> target[m],
                                            drained |-> NoSignal]]
    /\ deferredWork \in BOOLEAN
    /\ skipped = {}

(* One entry of admit's loop: an app not held is counted up, and given the
   fresh Deferred where it had no entry. *)
AdmitEntry(a, fresh) ==
    [active  |-> entries[a].active + 1,
     held    |-> FALSE,
     drained |-> IF HasEntry(a) THEN entries[a].drained ELSE fresh[a]]

(* Mutated: a held app is admitted to like any other. *)
AdmittingHeld(appIds) == appIds

(* Of the apps asked for, the ones admit lets a fiber into. *)
Admissible(appIds) == {a \in appIds : ~Held(a)}

(* admit: blocked is every held app, whether or not it was asked for. *)
Admit(x, appIds) ==
    LET admitted == Admissible(appIds)
        new      == {a \in admitted : ~HasEntry(a)}
    IN  /\ access[x].pc = "idle"
        /\ \E fresh \in [new -> Unused] :
             /\ \A a, b \in new : a # b => fresh[a] # fresh[b]
             /\ NextUnused({fresh[a] : a \in new})
             /\ entries' = [a \in Apps |-> IF a \in admitted THEN AdmitEntry(a, fresh)
                                                             ELSE entries[a]]
             /\ done' = done \ {fresh[a] : a \in new}
        /\ access' = [access EXCEPT ![x] = [pc |-> "using", admitted |-> admitted,
                                            blocked |-> {a \in Apps : Held(a)},
                                            signals |-> {}]]
        /\ UNCHANGED <<migration, skipped>>

(* Any fiber but the reconciler may ask for its apps at any time. *)
Enter(x) ==
    /\ x # Reconciler
    /\ \E appIds \in SUBSET Apps \ {{}} : Admit(x, appIds)
    /\ UNCHANGED deferredWork

(* The poll loop reconciles every app it knows, and with desired state not
   moving it does so only while deferredWork is set (poll.ts). *)
EnterReconcile ==
    /\ deferredWork
    /\ Admit(Reconciler, Apps)
    /\ UNCHANGED deferredWork

(* Mutated: a pass that skipped held apps asks for no other. *)
PlanForgetsHeld ==
    /\ access[Reconciler].pc = "using"
    /\ deferredWork' \in BOOLEAN
    /\ skipped' = access[Reconciler].blocked
    /\ access' = [access EXCEPT ![Reconciler].pc = "planned"]
    /\ UNCHANGED <<entries, done, migration>>

(* The pass plans without the held apps and says whether another is needed:
   always when an app was held, and otherwise as its plan decides. *)
Plan ==
    /\ access[Reconciler].pc = "using"
    /\ \E deferredByPlan \in BOOLEAN :
         deferredWork' = (access[Reconciler].blocked # {} \/ deferredByPlan)
    /\ skipped' = access[Reconciler].blocked
    /\ access' = [access EXCEPT ![Reconciler].pc = "planned"]
    /\ UNCHANGED <<entries, done, migration>>

(* Mutated: the last one out deletes the entry of an app that is held. *)
FinishEntryHeld(a) ==
    IF entries[a].active > 1 THEN [entries[a] EXCEPT !.active = @ - 1] ELSE NoEntry

(* Mutated: the first one out deletes the entry of an app that is not. *)
FinishEntryEarly(a) ==
    IF Held(a) THEN [entries[a] EXCEPT !.active = @ - 1] ELSE NoEntry

FinishEntry(a) ==
    IF entries[a].active > 1 THEN [entries[a] EXCEPT !.active = @ - 1]
    ELSE IF Held(a) THEN [entries[a] EXCEPT !.active = 0]
    ELSE NoEntry

(* Mutated: the count is compared as if it had gone down already. *)
EmptiedLate(x) == {a \in access[x].admitted : HasEntry(a) /\ entries[a].active < 1}

(* The apps x is the last to leave. *)
Emptied(x) == {a \in access[x].admitted : HasEntry(a) /\ entries[a].active <= 1}

(* finish: the entries in one Ref.modify, the Deferreds of the ones it
   emptied afterwards. *)
Finish(x) ==
    /\ access[x].pc = (IF x = Reconciler THEN "planned" ELSE "using")
    /\ entries' = [a \in Apps |-> IF a \in access[x].admitted THEN FinishEntry(a)
                                                              ELSE entries[a]]
    /\ access' = [access EXCEPT ![x] =
            [pc |-> "signalling", admitted |-> {}, blocked |-> {},
             signals |-> {entries[a].drained : a \in Emptied(x)}]]
    /\ UNCHANGED <<done, migration, deferredWork, skipped>>

(* Mutated: the Deferreds are dropped and not completed. *)
SignalNobody(x) ==
    /\ access[x].pc = "signalling"
    /\ access[x].signals # {}
    /\ access' = [access EXCEPT ![x].signals = {}]
    /\ UNCHANGED <<entries, done, migration, deferredWork, skipped>>

Signal(x) ==
    /\ access[x].pc = "signalling"
    /\ \E d \in access[x].signals :
         /\ done' = done \cup {d}
         /\ access' = [access EXCEPT ![x].signals = @ \ {d}]
    /\ UNCHANGED <<entries, migration, deferredWork, skipped>>

Leave(x) ==
    /\ access[x].pc = "signalling"
    /\ access[x].signals = {}
    /\ access' = [access EXCEPT ![x] = IdleAccess]
    /\ UNCHANGED <<entries, done, migration, deferredWork, skipped>>

---------------------------------------------------------------------------

(* Mutated: an app with operations inside is closed and not waited for. *)
AwaitingNobody(a) == NoSignal

(* What `acquire` waits for once it has closed an app: with fibers inside, the
   Deferred the app's entry already has. *)
Awaited(a) == IF entries[a].active > 0 THEN entries[a].drained ELSE NoSignal

(* acquire: a held app is refused with VolumeMigrationFenceBusy, which changes
   nothing. *)
Acquire(m) ==
    LET a == migration[m].app
    IN  /\ migration[m].pc = "idle"
        /\ ~Held(a)
        /\ \E fresh \in Unused :
             /\ NextUnused({fresh})
             /\ entries' = [entries EXCEPT ![a] = [active  |-> entries[a].active, held |-> TRUE,
                                                   drained |-> IF HasEntry(a) THEN entries[a].drained
                                                                              ELSE fresh]]
             /\ done' = IF HasEntry(a) THEN done ELSE done \ {fresh}
        /\ migration' = [migration EXCEPT ![m] =
                [pc |-> "draining", app |-> a, drained |-> Awaited(a)]]
        /\ UNCHANGED <<access, deferredWork, skipped>>

(* The await returns and `during`'s effect begins. *)
Drained(m) ==
    /\ migration[m].pc = "draining"
    /\ migration[m].drained \in done \cup {NoSignal}
    /\ migration' = [migration EXCEPT ![m].pc = "working"]
    /\ UNCHANGED <<entries, done, access, deferredWork, skipped>>

(* The effect ends, well or badly. *)
EndWork(m) ==
    /\ migration[m].pc = "working"
    /\ migration' = [migration EXCEPT ![m].pc = "releasing"]
    /\ UNCHANGED <<entries, done, access, deferredWork, skipped>>

(* The await is interruptible, and acquireUseRelease releases all the same. *)
Interrupt(m) ==
    /\ migration[m].pc = "draining"
    /\ migration' = [migration EXCEPT ![m].pc = "releasing"]
    /\ UNCHANGED <<entries, done, access, deferredWork, skipped>>

ReleaseEntry(a) ==
    IF entries[a].active = 0 THEN NoEntry ELSE [entries[a] EXCEPT !.held = FALSE]

Release(m) ==
    /\ migration[m].pc = "releasing"
    /\ entries' = [entries EXCEPT ![migration[m].app] = ReleaseEntry(migration[m].app)]
    /\ migration' = [migration EXCEPT ![m].pc = "deferring", ![m].drained = NoSignal]
    /\ UNCHANGED <<done, access, deferredWork, skipped>>

(* release ends by asking the poll loop for another pass. *)
Defer(m) ==
    /\ migration[m].pc = "deferring"
    /\ deferredWork' = TRUE
    /\ migration' = [migration EXCEPT ![m].pc = "released"]
    /\ UNCHANGED <<entries, done, access, skipped>>

Next ==
    \/ EnterReconcile
    \/ Plan
    \/ \E x \in Accesses : Enter(x) \/ Finish(x) \/ Signal(x) \/ Leave(x)
    \/ \E m \in Migrations :
         \/ Acquire(m) \/ Drained(m) \/ EndWork(m) \/ Interrupt(m)
         \/ Release(m) \/ Defer(m)

Spec == Init /\ [][Next]_vars

(* Fibers keep running: an admitted operation ends, a finished one completes
   its Deferreds, a migration's effect ends, and the poll loop polls.  Nothing
   obliges anyone to enter or to acquire. *)
Fairness ==
    /\ WF_vars(EnterReconcile)
    /\ WF_vars(Plan)
    /\ \A x \in Accesses : WF_vars(Finish(x)) /\ WF_vars(Signal(x)) /\ WF_vars(Leave(x))
    /\ \A m \in Migrations :
         WF_vars(Drained(m)) /\ WF_vars(EndWork(m)) /\ WF_vars(Release(m)) /\ WF_vars(Defer(m))

FairSpec == Spec /\ Fairness

---------------------------------------------------------------------------

Users(a) == {x \in Accesses : a \in access[x].admitted}

(* requireHeld: what the migration steps check before they touch a volume. *)
RequireHeld(a) == Held(a) /\ entries[a].active = 0

Owns(m, a) == migration[m].app = a /\ migration[m].pc \in {"draining", "working", "releasing"}

(* The variables are of the shapes the service keeps. *)
TypeOK ==
    /\ entries \in [Apps -> [active : Nat, held : BOOLEAN, drained : Signals \cup {NoSignal}]]
    /\ done \in SUBSET Signals
    /\ access \in [Accesses -> [pc : {"idle", "using", "planned", "signalling"},
                                admitted : SUBSET Apps, blocked : SUBSET Apps,
                                signals : SUBSET Signals]]
    /\ migration \in [Migrations ->
                        [pc : {"idle", "draining", "working", "releasing", "deferring", "released"},
                         app : Apps, drained : Signals \cup {NoSignal}]]
    /\ deferredWork \in BOOLEAN
    /\ skipped \in SUBSET Apps

(* While a migration's effect runs, no admitted operation is inside its app,
   and no other migration's effect is. *)
MigrationRunsAlone ==
    \A m \in Migrations :
        migration[m].pc = "working" =>
            /\ Users(migration[m].app) = {}
            /\ \A n \in Migrations \ {m} :
                 ~(migration[n].pc = "working" /\ migration[n].app = migration[m].app)

(* requireHeld succeeds all the while a migration's effect runs, whatever
   other fibers do meanwhile: entries are rewritten by every one of them. *)
HeldWhileWorking ==
    \A m \in Migrations : migration[m].pc = "working" => RequireHeld(migration[m].app)

(* requireHeld never vouches for an app an operation is inside of. *)
RequireHeldIsSafe == \A a \in Apps : RequireHeld(a) => Users(a) = {}

(* A waiting migration can still be woken: its Deferred is complete, about to
   be completed, or belongs to an entry an operation inside will empty. *)
DrainNotLost ==
    \A m \in Migrations :
        migration[m].pc = "draining" =>
            \/ migration[m].drained \in done \cup {NoSignal}
            \/ \E x \in Accesses : migration[m].drained \in access[x].signals
            \/ /\ entries[migration[m].app].drained = migration[m].drained
               /\ Users(migration[m].app) # {}

(* An entry exists only for as long as something is counted or held in it:
   the map does not grow with the apps the host has ever seen. *)
NoIdleEntry == \A a \in Apps : HasEntry(a) => Held(a) \/ Users(a) # {}

---------------------------------------------------------------------------

(* The fence implements MigrationExclusion, where an app is closed from the
   moment `acquire` marks it held and not from the moment it has drained. *)
Exclusion == INSTANCE MigrationExclusion WITH
    inside   <- [a \in Apps |-> Users(a)],
    closedBy <- [a \in Apps |-> {m \in Migrations : Owns(m, a)}],
    working  <- [a \in Apps |-> {m \in Migrations :
                                   migration[m].app = a /\ migration[m].pc = "working"}]

(* Every step of the service is a step of MigrationExclusion or leaves what it
   sees unchanged: the bookkeeping of entries and Deferreds adds nothing. *)
ImplementsExclusion == Exclusion!Spec

(* A migration that closed an app gets to run, or is interrupted. *)
DrainEnds == \A m \in Migrations : migration[m].pc = "draining" ~> migration[m].pc # "draining"

(* An app a reconcile pass left alone because it was held is reconciled once
   the migrations are over, with no new desired state to prompt it. *)
SkippedIsReconciled == \A a \in Apps : a \in skipped ~> a \notin skipped
===========================================================================
