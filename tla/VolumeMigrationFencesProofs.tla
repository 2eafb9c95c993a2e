-------------------- MODULE VolumeMigrationFencesProofs --------------------
(***************************************************************************)
(* For any apps, fibers and migrations: the fence keeps a migration's      *)
(* effect apart from every admitted operation, and implements              *)
(* MigrationExclusion.  The counts in the entries are tied to the fibers   *)
(* they count (CountInv); the rest of the inductive invariant says which   *)
(* Deferred is whose, so that a completed one always means an empty app.   *)
(***************************************************************************)
EXTENDS VolumeMigrationFences, FiniteSetTheorems, TLAPS

(* An entry counts exactly the fibers admitted to its app. *)
CountInv == \A a \in Apps : entries[a].active = Cardinality(Users(a))

(* There is an entry exactly while it counts or holds something. *)
EntryInv ==
    \A a \in Apps :
        /\ ~HasEntry(a) => entries[a].active = 0 /\ ~Held(a)
        /\ HasEntry(a) /\ entries[a].active = 0 => Held(a)

(* A fiber is admitted somewhere only between admit and finish, and has
   Deferreds to complete only after finish. *)
AccessInv ==
    \A x \in Accesses :
        /\ access[x].pc \in {"idle", "signalling"} => access[x].admitted = {}
        /\ access[x].pc # "signalling" => access[x].signals = {}

(* A held app is held by one migration. *)
OwnerInv ==
    /\ \A m \in Migrations, a \in Apps : Owns(m, a) => Held(a)
    /\ \A a \in Apps : Held(a) => \E m \in Migrations : Owns(m, a)
    /\ \A m, n \in Migrations, a \in Apps : Owns(m, a) /\ Owns(n, a) => m = n

(* Entries do not share a Deferred, and one that is complete, or that a finish
   is about to complete, belongs to an entry that counts nothing. *)
SignalInv ==
    /\ \A a, b \in Apps : HasEntry(a) /\ entries[a].drained = entries[b].drained => a = b
    /\ \A a \in Apps : HasEntry(a) /\ entries[a].drained \in done => entries[a].active = 0
    /\ \A a \in Apps, x \in Accesses :
         HasEntry(a) /\ entries[a].drained \in access[x].signals => entries[a].active = 0

(* What a migration waits on is its app's own Deferred, and one that waits on
   nothing, or no longer waits, has an empty app. *)
WaitInv ==
    \A m \in Migrations :
        /\ migration[m].pc = "draining" =>
             IF migration[m].drained = NoSignal
             THEN entries[migration[m].app].active = 0
             ELSE migration[m].drained = entries[migration[m].app].drained
        /\ migration[m].pc = "working" => entries[migration[m].app].active = 0

IInv == TypeOK /\ CountInv /\ EntryInv /\ AccessInv /\ OwnerInv /\ SignalInv /\ WaitInv

---------------------------------------------------------------------------

(* The fibers counted for an app are a finite set. *)
LEMMA UsersFinite ==
    ASSUME NEW a \in Apps
    PROVE  IsFiniteSet(Users(a)) /\ Cardinality(Users(a)) \in Nat
<1>1. Users(a) \subseteq Accesses
  BY DEF Users
<1>2. IsFiniteSet(Users(a))
  BY <1>1, FS_Subset, ConstantsAssumption
<1> QED BY <1>2, FS_CardinalityType

(* An entry that counts nothing has nobody inside its app. *)
LEMMA NobodyInside ==
    ASSUME IInv, NEW a \in Apps, entries[a].active = 0
    PROVE  Users(a) = {}
<1>1. Cardinality(Users(a)) = 0
  BY DEF IInv, CountInv
<1> QED BY <1>1, UsersFinite, FS_EmptySet

(* A fiber admitted to an app is counted there. *)
LEMMA InsideIsCounted ==
    ASSUME IInv, NEW x \in Accesses, NEW a \in access[x].admitted
    PROVE  a \in Apps /\ entries[a].active >= 1 /\ HasEntry(a)
<1>1. a \in Apps
  BY DEF IInv, TypeOK
<1>2. x \in Users(a)
  BY DEF Users
<1>3. Cardinality(Users(a)) # 0
  BY <1>1, <1>2, UsersFinite, FS_EmptySet
<1>4. entries[a].active = Cardinality(Users(a)) /\ entries[a].active \in Nat
  BY <1>1 DEF IInv, CountInv, TypeOK
<1>5. entries[a].active >= 1
  BY <1>3, <1>4
<1> QED BY <1>1, <1>5 DEF IInv, EntryInv

(* A Deferred handed out by Deferred.make is one nothing refers to. *)
LEMMA UnusedIsFresh ==
    ASSUME NEW d \in Unused
    PROVE  /\ d \in Signals /\ d # NoSignal
           /\ \A a \in Apps : entries[a].drained # d
           /\ \A x \in Accesses : d \notin access[x].signals
           /\ \A m \in Migrations : migration[m].drained # d
<1>1. d \in Signals /\ d # NoSignal
  BY ConstantsAssumption DEF Unused
<1>2. \A a \in Apps : entries[a].drained # d
  BY DEF Unused, Referenced
<1>3. \A x \in Accesses : d \notin access[x].signals
  BY DEF Unused, Referenced
<1>4. \A m \in Migrations : migration[m].drained # d
  BY DEF Unused, Referenced
<1> QED BY <1>1, <1>2, <1>3, <1>4

(* The service starts with no entries, so nothing is counted or held. *)
LEMMA InitIInv == Init => IInv
<1> SUFFICES ASSUME Init PROVE IInv
  OBVIOUS
<1> USE DEF Init
<1>1. TypeOK
  BY ConstantsAssumption DEF TypeOK, NoEntry, IdleAccess
<1>2. CountInv
  <2> SUFFICES ASSUME NEW a \in Apps PROVE entries[a].active = Cardinality(Users(a))
    BY DEF CountInv
  <2>1. Users(a) = {}
    BY DEF Users, IdleAccess
  <2> QED BY <2>1, FS_EmptySet DEF NoEntry
<1>3. EntryInv /\ AccessInv /\ OwnerInv /\ SignalInv /\ WaitInv
  BY DEF EntryInv, AccessInv, OwnerInv, SignalInv, WaitInv, HasEntry, Held, Owns, NoEntry, IdleAccess
<1> QED BY <1>1, <1>2, <1>3 DEF IInv

(* admit keeps the invariant: held entries are not touched, the others gain
   the fiber, and a new entry's Deferred is nobody else's. *)
LEMMA AdmitIInv ==
    ASSUME IInv, NEW x \in Accesses, NEW appIds \in SUBSET Apps, Admit(x, appIds),
           deferredWork' \in BOOLEAN
    PROVE  IInv'
<1> DEFINE admitted == {a \in appIds : ~Held(a)}
           new == {a \in admitted : ~HasEntry(a)}
<1>1. PICK fresh \in [new -> Unused] :
        /\ \A a, b \in new : a # b => fresh[a] # fresh[b]
        /\ entries' = [a \in Apps |-> IF a \in admitted THEN AdmitEntry(a, fresh) ELSE entries[a]]
        /\ done' = done \ {fresh[a] : a \in new}
  BY DEF Admit, Admissible
<1>2. /\ access[x].pc = "idle"
      /\ access' = [access EXCEPT ![x] = [pc |-> "using", admitted |-> admitted,
                                          blocked |-> {a \in Apps : Held(a)}, signals |-> {}]]
      /\ migration' = migration /\ skipped' = skipped
  BY DEF Admit, Admissible
<1> HIDE DEF admitted
<1>3. admitted \subseteq Apps /\ \A a \in admitted : ~Held(a)
  BY DEF admitted
<1>4. \A a \in new : /\ fresh[a] \in Signals /\ fresh[a] # NoSignal
                     /\ \A b \in Apps : entries[b].drained # fresh[a]
                     /\ \A y \in Accesses : fresh[a] \notin access[y].signals
                     /\ \A m \in Migrations : migration[m].drained # fresh[a]
  <2> SUFFICES ASSUME NEW a \in new
               PROVE  /\ fresh[a] \in Signals /\ fresh[a] # NoSignal
                      /\ \A b \in Apps : entries[b].drained # fresh[a]
                      /\ \A y \in Accesses : fresh[a] \notin access[y].signals
                      /\ \A m \in Migrations : migration[m].drained # fresh[a]
    OBVIOUS
  <2>1. fresh[a] \in Unused
    BY <1>1
  <2> QED BY <2>1, UnusedIsFresh
<1>5. \A a \in Apps : /\ a \notin admitted => entries'[a] = entries[a]
                      /\ a \in admitted =>
                           /\ entries'[a].active = entries[a].active + 1
                           /\ entries'[a].held = FALSE
                           /\ entries'[a].drained = IF HasEntry(a) THEN entries[a].drained
                                                                   ELSE fresh[a]
                           /\ entries'[a] \in [active : Nat, held : BOOLEAN,
                                               drained : Signals \cup {NoSignal}]
  BY <1>1, <1>3, <1>4 DEF AdmitEntry, IInv, TypeOK
<1>6. TypeOK'
  <2>1. entries' \in [Apps -> [active : Nat, held : BOOLEAN, drained : Signals \cup {NoSignal}]]
    <3>1. \A a \in Apps : entries'[a] \in [active : Nat, held : BOOLEAN,
                                           drained : Signals \cup {NoSignal}]
      BY <1>5 DEF IInv, TypeOK
    <3> QED BY <1>1, <3>1
  <2>2. done' \in SUBSET Signals
    BY <1>1 DEF IInv, TypeOK
  <2>3. access' \in [Accesses -> [pc : {"idle", "using", "planned", "signalling"},
                                  admitted : SUBSET Apps, blocked : SUBSET Apps,
                                  signals : SUBSET Signals]]
    BY <1>2, <1>3 DEF IInv, TypeOK
  <2> QED BY <1>2, <2>1, <2>2, <2>3 DEF IInv, TypeOK
<1>7. CountInv'
  <2> SUFFICES ASSUME NEW a \in Apps PROVE entries'[a].active = Cardinality(Users(a)')
    BY DEF CountInv
  <2>1. x \notin Users(a)
    BY <1>2 DEF Users, IInv, AccessInv
  <2>2. entries[a].active = Cardinality(Users(a))
    BY DEF IInv, CountInv
  <2>3. CASE a \in admitted
    <3>1. Users(a)' = Users(a) \cup {x}
      BY <1>2, <2>3 DEF Users, IInv, TypeOK
    <3>2. Cardinality(Users(a) \cup {x}) = Cardinality(Users(a)) + 1
      BY <2>1, UsersFinite, FS_AddElement
    <3> QED BY <1>5, <2>2, <2>3, <3>1, <3>2
  <2>4. CASE a \notin admitted
    <3>1. Users(a)' = Users(a)
      BY <1>2, <2>1, <2>4 DEF Users, IInv, TypeOK
    <3> QED BY <1>5, <2>2, <2>4, <3>1
  <2> QED BY <2>3, <2>4
<1>8. EntryInv'
  BY <1>3, <1>4, <1>5 DEF EntryInv, HasEntry, Held, IInv, TypeOK
<1>9. AccessInv'
  BY <1>2 DEF AccessInv, IInv, TypeOK
<1>10. OwnerInv'
  <2>1. \A a \in Apps : Held(a)' <=> Held(a)
    BY <1>3, <1>5 DEF Held
  <2>2. \A m \in Migrations, a \in Apps : Owns(m, a)' <=> Owns(m, a)
    BY <1>2 DEF Owns
  <2> QED BY <2>1, <2>2 DEF OwnerInv, IInv
<1>11. SignalInv'
  <2>1. \A a, b \in Apps : HasEntry(a)' /\ entries'[a].drained = entries'[b].drained => a = b
    BY <1>1, <1>3, <1>4, <1>5 DEF SignalInv, HasEntry, IInv
  <2>2. \A a \in Apps : HasEntry(a)' /\ entries'[a].drained \in done' => entries'[a].active = 0
    <3> SUFFICES ASSUME NEW a \in Apps, HasEntry(a)', entries'[a].drained \in done'
                 PROVE  entries'[a].active = 0
      OBVIOUS
    <3>1. CASE a \notin admitted
      BY <1>1, <1>5, <3>1 DEF SignalInv, HasEntry, IInv
    <3>2. CASE a \in admitted /\ HasEntry(a)
      <4>1. entries[a].active = 0
        BY <1>1, <1>5, <3>2 DEF SignalInv, HasEntry, IInv
      <4> QED BY <4>1, <3>2, <1>3 DEF IInv, EntryInv
    <3>3. CASE a \in admitted /\ ~HasEntry(a)
      BY <1>1, <1>5, <3>3
    <3> QED BY <3>1, <3>2, <3>3
  <2>3. \A a \in Apps, y \in Accesses :
          HasEntry(a)' /\ entries'[a].drained \in access'[y].signals => entries'[a].active = 0
    <3> SUFFICES ASSUME NEW a \in Apps, NEW y \in Accesses,
                        HasEntry(a)', entries'[a].drained \in access'[y].signals
                 PROVE  entries'[a].active = 0
      OBVIOUS
    <3>1. y # x /\ entries'[a].drained \in access[y].signals
      BY <1>2 DEF IInv, TypeOK
    <3>2. CASE a \notin admitted
      BY <1>5, <3>1, <3>2 DEF SignalInv, HasEntry, IInv
    <3>3. CASE a \in admitted /\ HasEntry(a)
      <4>1. entries[a].active = 0
        BY <1>5, <3>1, <3>3 DEF SignalInv, HasEntry, IInv
      <4> QED BY <4>1, <3>3, <1>3 DEF IInv, EntryInv
    <3>4. CASE a \in admitted /\ ~HasEntry(a)
      BY <1>4, <1>5, <3>1, <3>4
    <3> QED BY <3>2, <3>3, <3>4
  <2> QED BY <2>1, <2>2, <2>3 DEF SignalInv
<1>12. WaitInv'
  <2>1. \A m \in Migrations : migration[m].pc \in {"draining", "working"} =>
            entries'[migration[m].app] = entries[migration[m].app]
    BY <1>3, <1>5 DEF IInv, OwnerInv, Owns, TypeOK
  <2> QED BY <1>2, <2>1 DEF WaitInv, IInv
<1> QED BY <1>6, <1>7, <1>8, <1>9, <1>10, <1>11, <1>12 DEF IInv

(* finish keeps the invariant: the fiber is counted out of every app it was
   admitted to, and the Deferreds it takes along belong to emptied entries. *)
LEMMA FinishIInv ==
    ASSUME IInv, NEW x \in Accesses, Finish(x)
    PROVE  IInv'
<1> DEFINE admitted == access[x].admitted
           emptied == {b \in admitted : HasEntry(b) /\ entries[b].active <= 1}
<1>1. /\ access[x].pc \in {"using", "planned"}
      /\ entries' = [a \in Apps |-> IF a \in admitted THEN FinishEntry(a) ELSE entries[a]]
      /\ access' = [access EXCEPT ![x] = [pc |-> "signalling", admitted |-> {}, blocked |-> {},
                                          signals |-> {entries[a].drained : a \in emptied}]]
      /\ done' = done /\ migration' = migration
      /\ deferredWork' = deferredWork /\ skipped' = skipped
  BY DEF Finish, Emptied
<1>2. \A a \in admitted : a \in Apps /\ entries[a].active >= 1 /\ HasEntry(a)
  BY InsideIsCounted
<1>3. \A a \in Apps :
        /\ a \notin admitted => entries'[a] = entries[a]
        /\ a \in admitted /\ entries[a].active > 1 =>
             /\ entries'[a].active = entries[a].active - 1
             /\ entries'[a].held = entries[a].held
             /\ entries'[a].drained = entries[a].drained
        /\ a \in admitted /\ entries[a].active = 1 /\ Held(a) =>
             /\ entries'[a].active = 0
             /\ entries'[a].held = TRUE
             /\ entries'[a].drained = entries[a].drained
        /\ a \in admitted /\ entries[a].active = 1 /\ ~Held(a) => entries'[a] = NoEntry
        /\ entries'[a] \in [active : Nat, held : BOOLEAN, drained : Signals \cup {NoSignal}]
  <2> SUFFICES ASSUME NEW a \in Apps
               PROVE  /\ a \notin admitted => entries'[a] = entries[a]
                      /\ a \in admitted /\ entries[a].active > 1 =>
                           /\ entries'[a].active = entries[a].active - 1
                           /\ entries'[a].held = entries[a].held
                           /\ entries'[a].drained = entries[a].drained
                      /\ a \in admitted /\ entries[a].active = 1 /\ Held(a) =>
                           /\ entries'[a].active = 0
                           /\ entries'[a].held = TRUE
                           /\ entries'[a].drained = entries[a].drained
                      /\ a \in admitted /\ entries[a].active = 1 /\ ~Held(a) =>
                           entries'[a] = NoEntry
                      /\ entries'[a] \in [active : Nat, held : BOOLEAN,
                                          drained : Signals \cup {NoSignal}]
    OBVIOUS
  <2>1. entries[a] \in [active : Nat, held : BOOLEAN, drained : Signals \cup {NoSignal}]
    BY DEF IInv, TypeOK
  <2>2. CASE a \notin admitted
    BY <1>1, <2>1, <2>2
  <2>3. CASE a \in admitted /\ entries[a].active > 1
    <3>1. entries'[a] = [entries[a] EXCEPT !.active = @ - 1]
      BY <1>1, <2>3 DEF FinishEntry
    <3> QED BY <2>1, <2>3, <3>1
  <2>4. CASE a \in admitted /\ ~(entries[a].active > 1)
    <3>1. entries'[a] = IF Held(a) THEN [entries[a] EXCEPT !.active = 0] ELSE NoEntry
      BY <1>1, <2>4 DEF FinishEntry
    <3>2. entries'[a] \in [active : Nat, held : BOOLEAN, drained : Signals \cup {NoSignal}]
      BY <2>1, <3>1 DEF NoEntry
    <3>3. Held(a) => /\ entries'[a].active = 0
                     /\ entries'[a].held = TRUE
                     /\ entries'[a].drained = entries[a].drained
      BY <2>1, <3>1 DEF Held
    <3> QED BY <2>4, <3>1, <3>2, <3>3
  <2> QED BY <2>2, <2>3, <2>4
<1>4. \A a \in Apps : a \in admitted => entries[a].active = 1 \/ entries[a].active > 1
  BY <1>2 DEF IInv, TypeOK
<1>5. \A a \in emptied : a \in Apps /\ a \in admitted /\ entries[a].active = 1
                         /\ entries[a].drained \in Signals
  BY <1>2 DEF HasEntry, IInv, TypeOK
<1>6. TypeOK'
  <2>1. entries' \in [Apps -> [active : Nat, held : BOOLEAN, drained : Signals \cup {NoSignal}]]
    BY <1>1, <1>3
  <2>2. {entries[a].drained : a \in emptied} \in SUBSET Signals
    BY <1>5
  <2>3. access' \in [Accesses -> [pc : {"idle", "using", "planned", "signalling"},
                                  admitted : SUBSET Apps, blocked : SUBSET Apps,
                                  signals : SUBSET Signals]]
    BY <1>1, <2>2 DEF IInv, TypeOK
  <2> QED BY <1>1, <2>1, <2>3 DEF IInv, TypeOK
<1>7. CountInv'
  <2> SUFFICES ASSUME NEW a \in Apps PROVE entries'[a].active = Cardinality(Users(a)')
    BY DEF CountInv
  <2>1. entries[a].active = Cardinality(Users(a)) /\ entries[a].active \in Nat
    BY DEF IInv, CountInv, TypeOK
  <2>2. Users(a)' = Users(a) \ {x}
    BY <1>1 DEF Users, IInv, TypeOK
  <2>3. CASE a \in admitted
    <3>1. x \in Users(a)
      BY <2>3 DEF Users
    <3>2. Cardinality(Users(a) \ {x}) = Cardinality(Users(a)) - 1
      BY <3>1, UsersFinite, FS_RemoveElement
    <3>3. entries'[a].active = entries[a].active - 1
      BY <1>3, <1>4, <2>1, <2>3 DEF NoEntry
    <3> QED BY <2>1, <2>2, <3>2, <3>3
  <2>4. CASE a \notin admitted
    <3>1. Users(a) \ {x} = Users(a)
      BY <2>4 DEF Users
    <3> QED BY <1>3, <2>1, <2>2, <2>4, <3>1
  <2> QED BY <2>3, <2>4
<1>8. EntryInv'
  <2> SUFFICES ASSUME NEW a \in Apps
               PROVE  /\ ~HasEntry(a)' => entries'[a].active = 0 /\ ~Held(a)'
                      /\ HasEntry(a)' /\ entries'[a].active = 0 => Held(a)'
    BY DEF EntryInv
  <2>1. CASE a \notin admitted
    BY <1>3, <2>1 DEF EntryInv, HasEntry, Held, IInv
  <2>2. CASE a \in admitted /\ entries[a].active > 1
    <3>1. entries[a].active \in Nat /\ HasEntry(a)
      BY <1>2, <2>2 DEF IInv, TypeOK
    <3> QED BY <1>3, <2>2, <3>1 DEF HasEntry, Held
  <2>3. CASE a \in admitted /\ entries[a].active = 1
    BY <1>2, <1>3, <2>3 DEF HasEntry, Held, NoEntry
  <2> QED BY <1>4, <2>1, <2>2, <2>3
<1>9. AccessInv'
  BY <1>1 DEF AccessInv, IInv, TypeOK
<1>10. OwnerInv'
  <2>1. \A a \in Apps : Held(a)' <=> Held(a)
    BY <1>3, <1>4 DEF Held, NoEntry
  <2>2. \A m \in Migrations, a \in Apps : Owns(m, a)' <=> Owns(m, a)
    BY <1>1 DEF Owns
  <2> QED BY <2>1, <2>2 DEF OwnerInv, IInv
<1>11. \A a \in Apps : HasEntry(a)' => HasEntry(a) /\ entries'[a].drained = entries[a].drained
  BY <1>2, <1>3, <1>4 DEF HasEntry, NoEntry
<1>12. SignalInv'
  <2>1. \A a, b \in Apps : HasEntry(a)' /\ entries'[a].drained = entries'[b].drained => a = b
    BY <1>11 DEF SignalInv, HasEntry, IInv
  <2>2. \A a \in Apps : HasEntry(a)' /\ entries[a].active = 0 => entries'[a].active = 0
    BY <1>2, <1>3
  <2>3. \A a \in Apps : HasEntry(a)' /\ entries'[a].drained \in done' => entries'[a].active = 0
    BY <1>1, <1>11, <2>2 DEF SignalInv, IInv
  <2>4. \A a \in Apps, y \in Accesses :
          HasEntry(a)' /\ entries'[a].drained \in access'[y].signals => entries'[a].active = 0
    <3> SUFFICES ASSUME NEW a \in Apps, NEW y \in Accesses,
                        HasEntry(a)', entries'[a].drained \in access'[y].signals
                 PROVE  entries'[a].active = 0
      OBVIOUS
    <3>1. CASE y # x
      BY <1>1, <1>11, <2>2, <3>1 DEF SignalInv, IInv, TypeOK
    <3>2. CASE y = x
      <4>1. PICK b \in emptied : entries[a].drained = entries[b].drained
        BY <1>1, <1>11, <3>2 DEF IInv, TypeOK
      <4>2. a = b
        BY <1>5, <1>11, <4>1 DEF SignalInv, IInv
      <4> QED BY <1>3, <1>5, <4>1, <4>2 DEF NoEntry
    <3> QED BY <3>1, <3>2
  <2> QED BY <2>1, <2>3, <2>4 DEF SignalInv
<1>13. WaitInv'
  <2> SUFFICES ASSUME NEW m \in Migrations
               PROVE  /\ migration[m].pc = "draining" =>
                           IF migration[m].drained = NoSignal
                           THEN entries'[migration[m].app].active = 0
                           ELSE migration[m].drained = entries'[migration[m].app].drained
                      /\ migration[m].pc = "working" => entries'[migration[m].app].active = 0
    BY <1>1 DEF WaitInv
  <2> DEFINE a == migration[m].app
  <2>1. a \in Apps
    BY DEF IInv, TypeOK
  <2>2. entries[a].active = 0 => entries'[a].active = 0
    BY <1>2, <1>3, <2>1
  <2>3. Held(a) => entries'[a].drained = entries[a].drained
    BY <1>3, <1>4, <2>1
  <2>4. migration[m].pc = "draining" => Held(a)
    BY <2>1 DEF IInv, OwnerInv, Owns
  <2> QED BY <2>2, <2>3, <2>4 DEF WaitInv, IInv
<1> QED BY <1>6, <1>7, <1>8, <1>9, <1>10, <1>12, <1>13 DEF IInv

(* acquire keeps the invariant: an app nobody held gets its one owner, and a
   Deferred that is not complete while fibers are inside. *)
LEMMA AcquireIInv ==
    ASSUME IInv, NEW m \in Migrations, Acquire(m)
    PROVE  IInv'
<1>1. PICK a \in Apps : a = migration[m].app
  BY DEF IInv, TypeOK
<1>2. PICK fresh \in Unused :
        /\ entries' = [entries EXCEPT ![a] =
                         [active |-> entries[a].active, held |-> TRUE,
                          drained |-> IF HasEntry(a) THEN entries[a].drained ELSE fresh]]
        /\ done' = IF HasEntry(a) THEN done ELSE done \ {fresh}
  BY <1>1 DEF Acquire, Awaited
<1>3. /\ migration[m].pc = "idle" /\ ~Held(a)
      /\ migration' = [migration EXCEPT ![m] =
            [pc |-> "draining", app |-> a,
             drained |-> IF entries[a].active > 0 THEN entries[a].drained ELSE NoSignal]]
      /\ access' = access /\ deferredWork' = deferredWork /\ skipped' = skipped
  BY <1>1 DEF Acquire, Awaited
<1>4. /\ entries[a].active \in Nat /\ entries[a].drained \in Signals \cup {NoSignal}
      /\ fresh \in Signals /\ fresh # NoSignal
      /\ \A b \in Apps : entries[b].drained # fresh
      /\ \A x \in Accesses : fresh \notin access[x].signals
  BY <1>1, UnusedIsFresh DEF IInv, TypeOK
<1>5. /\ entries'[a].active = entries[a].active
      /\ entries'[a].held = TRUE
      /\ entries'[a].drained = IF HasEntry(a) THEN entries[a].drained ELSE fresh
      /\ HasEntry(a)'
      /\ \A b \in Apps \ {a} : entries'[b] = entries[b]
  <2>1. \A b \in Apps : entries'[b] =
          IF b = a THEN [active |-> entries[a].active, held |-> TRUE,
                         drained |-> IF HasEntry(a) THEN entries[a].drained ELSE fresh]
                   ELSE entries[b]
    BY <1>1, <1>2 DEF IInv, TypeOK
  <2> QED BY <1>1, <1>4, <2>1 DEF HasEntry
<1>6. TypeOK'
  BY <1>1, <1>2, <1>3, <1>4 DEF IInv, TypeOK
<1>7. CountInv'
  <2>1. \A b \in Apps : Users(b)' = Users(b)
    BY <1>3 DEF Users
  <2> QED BY <1>5, <2>1 DEF CountInv, IInv
<1>8. EntryInv'
  <2> SUFFICES ASSUME NEW b \in Apps
               PROVE  /\ ~HasEntry(b)' => entries'[b].active = 0 /\ ~Held(b)'
                      /\ HasEntry(b)' /\ entries'[b].active = 0 => Held(b)'
    BY DEF EntryInv
  <2>1. CASE b = a
    BY <1>5, <2>1 DEF HasEntry, Held
  <2>2. CASE b # a
    BY <1>5, <2>2 DEF EntryInv, HasEntry, Held, IInv
  <2> QED BY <2>1, <2>2
<1>9. AccessInv'
  BY <1>3 DEF AccessInv, IInv
<1>10. OwnerInv'
  <2>1. \A b \in Apps : Held(b)' <=> b = a \/ Held(b)
    BY <1>1, <1>5 DEF Held
  <2>2. \A n \in Migrations, b \in Apps : Owns(n, b)' <=> (n = m /\ b = a) \/ Owns(n, b)
    BY <1>1, <1>3 DEF Owns, IInv, TypeOK
  <2>3. \A n \in Migrations : ~Owns(n, a)
    BY <1>1, <1>3 DEF IInv, OwnerInv
  <2>4. \A b \in Apps : ~Owns(m, b)
    BY <1>3 DEF Owns
  <2>5. \A n \in Migrations, b \in Apps : Owns(n, b)' => Held(b)'
    BY <2>1, <2>2 DEF IInv, OwnerInv
  <2>6. \A b \in Apps : Held(b)' => \E n \in Migrations : Owns(n, b)'
    BY <2>1, <2>2 DEF IInv, OwnerInv
  <2>7. \A n, o \in Migrations, b \in Apps : Owns(n, b)' /\ Owns(o, b)' => n = o
    BY <2>2, <2>3, <2>4 DEF IInv, OwnerInv
  <2> QED BY <2>5, <2>6, <2>7 DEF OwnerInv
<1>11. SignalInv'
  <2>1. \A b, c \in Apps : HasEntry(b)' /\ entries'[b].drained = entries'[c].drained => b = c
    BY <1>4, <1>5 DEF SignalInv, HasEntry, IInv
  <2>2. \A b \in Apps : HasEntry(b)' /\ entries'[b].drained \in done' => entries'[b].active = 0
    <3> SUFFICES ASSUME NEW b \in Apps, HasEntry(b)', entries'[b].drained \in done'
                 PROVE  entries'[b].active = 0
      OBVIOUS
    <3>1. done' \subseteq done
      BY <1>2
    <3>2. CASE b # a
      BY <1>5, <3>1, <3>2 DEF SignalInv, HasEntry, IInv
    <3>3. CASE b = a /\ HasEntry(a)
      BY <1>5, <3>1, <3>3 DEF SignalInv, IInv
    <3>4. CASE b = a /\ ~HasEntry(a)
      BY <1>2, <1>5, <3>4
    <3> QED BY <3>2, <3>3, <3>4
  <2>3. \A b \in Apps, x \in Accesses :
          HasEntry(b)' /\ entries'[b].drained \in access'[x].signals => entries'[b].active = 0
    BY <1>3, <1>4, <1>5 DEF SignalInv, HasEntry, IInv
  <2> QED BY <2>1, <2>2, <2>3 DEF SignalInv
<1>12. WaitInv'
  <2> SUFFICES ASSUME NEW n \in Migrations
               PROVE  /\ migration'[n].pc = "draining" =>
                           IF migration'[n].drained = NoSignal
                           THEN entries'[migration'[n].app].active = 0
                           ELSE migration'[n].drained = entries'[migration'[n].app].drained
                      /\ migration'[n].pc = "working" => entries'[migration'[n].app].active = 0
    BY DEF WaitInv
  <2>1. CASE n = m
    <3>1. /\ migration'[n].pc = "draining" /\ migration'[n].app = a
          /\ migration'[n].drained = IF entries[a].active > 0 THEN entries[a].drained ELSE NoSignal
      BY <1>3, <2>1 DEF IInv, TypeOK
    <3>2. entries[a].active > 0 => HasEntry(a)
      BY <1>1, <1>4 DEF IInv, EntryInv
    <3> QED BY <1>4, <1>5, <3>1, <3>2 DEF HasEntry
  <2>2. CASE n # m
    <3>1. migration'[n] = migration[n] /\ migration[n].app \in Apps
      BY <1>3, <2>2 DEF IInv, TypeOK
    <3>2. migration[n].pc \in {"draining", "working"} => migration[n].app # a
      BY <1>1, <1>3 DEF IInv, OwnerInv, Owns
    <3>3. migration[n].pc \in {"draining", "working"} =>
            entries'[migration[n].app] = entries[migration[n].app]
      BY <1>5, <3>1, <3>2
    <3> QED BY <3>1, <3>3 DEF WaitInv, IInv
  <2> QED BY <2>1, <2>2
<1> QED BY <1>6, <1>7, <1>8, <1>9, <1>10, <1>11, <1>12 DEF IInv

(* release keeps the invariant: the app's only owner goes, and the entry with
   it unless fibers are still inside (an interrupted drain). *)
LEMMA ReleaseIInv ==
    ASSUME IInv, NEW m \in Migrations, Release(m)
    PROVE  IInv'
<1>0. PICK a \in Apps : a = migration[m].app
  BY DEF IInv, TypeOK
<1>1. /\ migration[m].pc = "releasing"
      /\ entries' = [entries EXCEPT ![a] = ReleaseEntry(a)]
      /\ migration' = [migration EXCEPT ![m].pc = "deferring", ![m].drained = NoSignal]
      /\ done' = done /\ access' = access /\ deferredWork' = deferredWork /\ skipped' = skipped
  BY <1>0 DEF Release
<1>2. /\ entries'[a] \in [active : Nat, held : BOOLEAN, drained : Signals \cup {NoSignal}]
      /\ entries'[a].held = FALSE
      /\ entries'[a].active = entries[a].active
      /\ entries'[a].drained = IF entries[a].active = 0 THEN NoSignal ELSE entries[a].drained
      /\ \A b \in Apps \ {a} : entries'[b] = entries[b]
  <2>1. entries[a] \in [active : Nat, held : BOOLEAN, drained : Signals \cup {NoSignal}]
    BY <1>1 DEF IInv, TypeOK
  <2>2. entries'[a] = ReleaseEntry(a) /\ \A b \in Apps \ {a} : entries'[b] = entries[b]
    BY <1>1 DEF IInv, TypeOK
  <2>3. CASE entries[a].active = 0
    BY <2>2, <2>3 DEF ReleaseEntry, NoEntry
  <2>4. CASE entries[a].active # 0
    BY <2>1, <2>2, <2>4 DEF ReleaseEntry
  <2> QED BY <2>2, <2>3, <2>4
<1>3. TypeOK'
  <2>1. entries' \in [Apps -> [active : Nat, held : BOOLEAN, drained : Signals \cup {NoSignal}]]
    BY <1>1, <1>2 DEF IInv, TypeOK
  <2>2. migration' \in [Migrations ->
           [pc : {"idle", "draining", "working", "releasing", "deferring", "released"},
            app : Apps, drained : Signals \cup {NoSignal}]]
    BY <1>1 DEF IInv, TypeOK
  <2> QED BY <1>1, <2>1, <2>2 DEF IInv, TypeOK
<1>4. CountInv'
  <2>1. \A b \in Apps : Users(b)' = Users(b)
    BY <1>1 DEF Users
  <2> QED BY <1>2, <2>1 DEF CountInv, IInv
<1>5. EntryInv'
  BY <1>1, <1>2 DEF EntryInv, HasEntry, Held, IInv
<1>6. AccessInv'
  BY <1>1 DEF AccessInv, IInv
<1>7. Owns(m, a)
  BY <1>0, <1>1 DEF Owns
<1>8. OwnerInv'
  <2>1. \A b \in Apps : Held(b)' <=> b # a /\ Held(b)
    BY <1>1, <1>2 DEF Held
  <2>2. \A n \in Migrations, b \in Apps : Owns(n, b)' <=> n # m /\ Owns(n, b)
    BY <1>1 DEF Owns, IInv, TypeOK
  <2>3. \A n \in Migrations : Owns(n, a) => n = m
    BY <1>1, <1>7 DEF IInv, OwnerInv
  <2>4. \A b \in Apps : Owns(m, b) => b = a
    BY <1>0 DEF Owns
  <2>5. \A n \in Migrations, b \in Apps : Owns(n, b)' => Held(b)'
    BY <2>1, <2>2, <2>3 DEF IInv, OwnerInv
  <2>6. \A b \in Apps : Held(b)' => \E n \in Migrations : Owns(n, b)'
    BY <2>1, <2>2, <2>4 DEF IInv, OwnerInv
  <2>7. \A n, o \in Migrations, b \in Apps : Owns(n, b)' /\ Owns(o, b)' => n = o
    BY <2>2 DEF IInv, OwnerInv
  <2> QED BY <2>5, <2>6, <2>7 DEF OwnerInv
<1>9. SignalInv'
  BY <1>1, <1>2 DEF SignalInv, HasEntry, IInv
<1>10. WaitInv'
  <2> SUFFICES ASSUME NEW n \in Migrations
               PROVE  /\ migration'[n].pc = "draining" =>
                           IF migration'[n].drained = NoSignal
                           THEN entries'[migration'[n].app].active = 0
                           ELSE migration'[n].drained = entries'[migration'[n].app].drained
                      /\ migration'[n].pc = "working" => entries'[migration'[n].app].active = 0
    BY DEF WaitInv
  <2>1. CASE n = m
    BY <1>1, <2>1 DEF IInv, TypeOK
  <2>2. CASE n # m
    <3>1. migration'[n] = migration[n] /\ migration[n].app \in Apps
      BY <1>1, <2>2 DEF IInv, TypeOK
    <3>2. migration[n].pc \in {"draining", "working"} => migration[n].app # a
      BY <1>1, <1>7, <2>2 DEF IInv, OwnerInv, Owns
    <3>3. migration[n].pc \in {"draining", "working"} =>
            entries'[migration[n].app] = entries[migration[n].app]
      BY <1>2, <3>1, <3>2
    <3> QED BY <3>1, <3>3 DEF WaitInv, IInv
  <2> QED BY <2>1, <2>2
<1> QED BY <1>3, <1>4, <1>5, <1>6, <1>8, <1>9, <1>10 DEF IInv

(* Planning moves the reconciler along and touches no entry. *)
LEMMA PlanIInv ==
    ASSUME IInv, Plan
    PROVE  IInv'
<1>1. /\ access' = [access EXCEPT ![Reconciler].pc = "planned"]
      /\ access[Reconciler].pc = "using"
      /\ deferredWork' \in BOOLEAN /\ skipped' = access[Reconciler].blocked
      /\ entries' = entries /\ done' = done /\ migration' = migration
  BY DEF Plan
<1>2. /\ \A y \in Accesses : /\ access'[y].admitted = access[y].admitted
                             /\ access'[y].signals = access[y].signals
                             /\ access'[y].pc # access[y].pc =>
                                  access[y].pc = "using" /\ access'[y].pc = "planned"
      /\ \A a \in Apps : Users(a)' = Users(a)
  BY <1>1, ConstantsAssumption DEF Users, IInv, TypeOK
<1>3. TypeOK'
  BY <1>1, ConstantsAssumption DEF IInv, TypeOK
<1>4. CountInv' /\ AccessInv' /\ SignalInv'
  BY <1>1, <1>2 DEF IInv, CountInv, AccessInv, SignalInv, HasEntry
<1> QED BY <1>1, <1>3, <1>4 DEF IInv, EntryInv, OwnerInv, WaitInv, HasEntry, Held, Owns

(* Completing a Deferred is safe because finish took it from an emptied entry. *)
LEMMA SignalIInv ==
    ASSUME IInv, NEW x \in Accesses, Signal(x)
    PROVE  IInv'
<1>1. PICK d \in access[x].signals :
        /\ done' = done \cup {d}
        /\ access' = [access EXCEPT ![x].signals = @ \ {d}]
  BY DEF Signal
<1>2. /\ entries' = entries /\ migration' = migration
      /\ deferredWork' = deferredWork /\ skipped' = skipped
  BY DEF Signal
<1>3. /\ \A y \in Accesses : /\ access'[y].admitted = access[y].admitted
                             /\ access'[y].signals \subseteq access[y].signals
                             /\ access'[y].pc = access[y].pc
      /\ \A a \in Apps : Users(a)' = Users(a)
  BY <1>1 DEF Users, IInv, TypeOK
<1>4. TypeOK'
  BY <1>1, <1>2 DEF IInv, TypeOK
<1>5. CountInv' /\ AccessInv'
  BY <1>2, <1>3 DEF IInv, CountInv, AccessInv
<1>6. SignalInv'
  BY <1>1, <1>2, <1>3 DEF IInv, SignalInv, HasEntry
<1> QED BY <1>2, <1>4, <1>5, <1>6 DEF IInv, EntryInv, OwnerInv, WaitInv, HasEntry, Held, Owns

(* A fiber with nothing left to complete leaves nothing behind. *)
LEMMA LeaveIInv ==
    ASSUME IInv, NEW x \in Accesses, Leave(x)
    PROVE  IInv'
<1>1. /\ access[x].pc = "signalling"
      /\ access' = [access EXCEPT ![x] = IdleAccess]
      /\ entries' = entries /\ done' = done /\ migration' = migration
      /\ deferredWork' = deferredWork /\ skipped' = skipped
  BY DEF Leave
<1>2. /\ \A y \in Accesses : /\ access'[y].admitted = access[y].admitted
                             /\ access'[y].signals \subseteq access[y].signals
      /\ \A a \in Apps : Users(a)' = Users(a)
  BY <1>1 DEF Users, IdleAccess, IInv, AccessInv, TypeOK
<1>3. TypeOK' /\ AccessInv'
  BY <1>1 DEF IInv, TypeOK, AccessInv, IdleAccess
<1>4. CountInv' /\ SignalInv'
  BY <1>1, <1>2 DEF IInv, CountInv, SignalInv, HasEntry
<1> QED BY <1>1, <1>3, <1>4 DEF IInv, EntryInv, OwnerInv, WaitInv, HasEntry, Held, Owns

(* The steps of a migration between acquire and release; in Drained the
   completed Deferred is believed, and SignalInv is why that is right. *)
LEMMA MigrationIInv ==
    ASSUME IInv, NEW m \in Migrations,
           Drained(m) \/ EndWork(m) \/ Interrupt(m) \/ Defer(m)
    PROVE  IInv'
<1>1. /\ entries' = entries /\ done' = done /\ access' = access /\ skipped' = skipped
      /\ deferredWork' \in BOOLEAN
      /\ \E pc \in {"working", "releasing", "released"} :
           migration' = [migration EXCEPT ![m].pc = pc]
  BY DEF Drained, EndWork, Interrupt, Defer, IInv, TypeOK
<1>2. /\ \A n \in Migrations : /\ migration'[n].app = migration[n].app
                               /\ migration'[n].drained = migration[n].drained
                               /\ n # m => migration'[n].pc = migration[n].pc
      /\ migration'[m].pc \in {"working", "releasing"} =>
           migration[m].pc \in {"draining", "working"}
      /\ migration[m].pc \in {"draining", "working", "releasing"} =>
           migration'[m].pc \in {"draining", "working", "releasing"}
      /\ migration'[m].pc # "draining"
  BY <1>1 DEF Drained, EndWork, Interrupt, Defer, IInv, TypeOK
<1>3. TypeOK'
  BY <1>1 DEF IInv, TypeOK
<1>4. \A n \in Migrations, a \in Apps : Owns(n, a)' <=> Owns(n, a)
  BY <1>1, <1>2 DEF Owns, IInv, TypeOK
<1>5. OwnerInv'
  BY <1>1, <1>4 DEF IInv, OwnerInv, Held
<1>6. migration'[m].pc = "working" => entries[migration[m].app].active = 0
  <2> SUFFICES ASSUME migration'[m].pc = "working" PROVE entries[migration[m].app].active = 0
    OBVIOUS
  <2>1. Drained(m)
    BY <1>1 DEF EndWork, Interrupt, Defer, IInv, TypeOK
  <2>2. migration[m].app \in Apps /\ Held(migration[m].app)
    BY <2>1 DEF Drained, Owns, IInv, OwnerInv, TypeOK
  <2>3. HasEntry(migration[m].app)
    BY <2>2 DEF IInv, EntryInv
  <2> QED BY <2>1, <2>2, <2>3 DEF Drained, IInv, WaitInv, SignalInv
<1>7. WaitInv'
  BY <1>1, <1>2, <1>6 DEF IInv, WaitInv
<1>8. CountInv' /\ EntryInv' /\ AccessInv' /\ SignalInv'
  BY <1>1 DEF IInv, CountInv, EntryInv, AccessInv, SignalInv, Users, HasEntry, Held
<1> QED BY <1>3, <1>5, <1>7, <1>8 DEF IInv

(* Every step of the service keeps the invariant. *)
LEMMA NextIInv == IInv /\ [Next]_vars => IInv'
<1> SUFFICES ASSUME IInv, [Next]_vars PROVE IInv'
  OBVIOUS
<1>1. CASE EnterReconcile
  BY <1>1, AdmitIInv, ConstantsAssumption DEF EnterReconcile, IInv, TypeOK
<1>2. CASE Plan
  BY <1>2, PlanIInv
<1>3. ASSUME NEW x \in Accesses, Enter(x) PROVE IInv'
  BY <1>3, AdmitIInv DEF Enter, IInv, TypeOK
<1>4. ASSUME NEW x \in Accesses, Finish(x) \/ Signal(x) \/ Leave(x) PROVE IInv'
  BY <1>4, FinishIInv, SignalIInv, LeaveIInv
<1>5. ASSUME NEW m \in Migrations, Acquire(m) \/ Release(m) PROVE IInv'
  BY <1>5, AcquireIInv, ReleaseIInv
<1>6. ASSUME NEW m \in Migrations, Drained(m) \/ EndWork(m) \/ Interrupt(m) \/ Defer(m)
      PROVE  IInv'
  BY <1>6, MigrationIInv
<1>7. CASE UNCHANGED vars
  BY <1>7 DEF vars, IInv, TypeOK, CountInv, EntryInv, AccessInv, OwnerInv, SignalInv, WaitInv,
              Users, HasEntry, Held, Owns
<1> QED BY <1>1, <1>2, <1>3, <1>4, <1>5, <1>6, <1>7 DEF Next

(* The inductive invariant holds throughout. *)
THEOREM Inductive == Spec => []IInv
<1> QED BY InitIInv, NextIInv, PTL DEF Spec

(* The shapes of the service's state, for any number of fibers. *)
THEOREM TypeCorrect == Spec => []TypeOK
<1>1. IInv => TypeOK
  BY DEF IInv
<1> QED BY <1>1, Inductive, PTL

(* A migration's effect never overlaps an admitted operation on its app, nor
   another migration's effect: what `during` exists for. *)
THEOREM RunsAlone == Spec => []MigrationRunsAlone
<1>1. IInv => MigrationRunsAlone
  <2> SUFFICES ASSUME IInv, NEW m \in Migrations, migration[m].pc = "working"
               PROVE  /\ Users(migration[m].app) = {}
                      /\ \A n \in Migrations \ {m} :
                           ~(migration[n].pc = "working" /\ migration[n].app = migration[m].app)
    BY DEF MigrationRunsAlone
  <2>1. migration[m].app \in Apps /\ entries[migration[m].app].active = 0
    BY DEF IInv, TypeOK, WaitInv
  <2>2. Users(migration[m].app) = {}
    BY <2>1, NobodyInside
  <2>3. \A n \in Migrations : Owns(n, migration[m].app) => n = m
    BY <2>1 DEF IInv, OwnerInv, Owns
  <2> QED BY <2>2, <2>3 DEF Owns
<1> QED BY <1>1, Inductive, PTL

(* What the migration steps check before they touch a volume stays true for as long as
   `during` runs them. *)
THEOREM RequireHeldSound == Spec => []HeldWhileWorking
<1>1. IInv => HeldWhileWorking
  <2> SUFFICES ASSUME IInv, NEW m \in Migrations, migration[m].pc = "working"
               PROVE  RequireHeld(migration[m].app)
    BY DEF HeldWhileWorking
  <2>1. migration[m].app \in Apps /\ entries[migration[m].app].active = 0
    BY DEF IInv, TypeOK, WaitInv
  <2>2. Held(migration[m].app)
    BY <2>1 DEF IInv, OwnerInv, Owns
  <2> QED BY <2>1, <2>2 DEF RequireHeld
<1> QED BY <1>1, Inductive, PTL

(* requireHeld never succeeds with an operation inside the app, whichever fiber wrote
   the app's entry last: the count it reads is of the operations inside. *)
THEOREM RequireHeldVouches == Spec => []RequireHeldIsSafe
<1>1. IInv => RequireHeldIsSafe
  BY NobodyInside DEF RequireHeldIsSafe, RequireHeld
<1> QED BY <1>1, Inductive, PTL

(* DrainNotLost of one migration: what it waits on has been completed, is about to be,
   or belongs to its app's entry, with a fiber inside that will complete it. *)
Wakeable(m) ==
    \/ migration[m].drained \in done \cup {NoSignal}
    \/ \E x \in Accesses : migration[m].drained \in access[x].signals
    \/ /\ entries[migration[m].app].drained = migration[m].drained
       /\ Users(migration[m].app) # {}

(* What becomes of the Deferred a migration waits on: a step that neither hands it out
   again nor empties its app without taking it along keeps the migration wakeable. *)
LEMMA StillWakeable ==
    ASSUME IInv, DrainNotLost, IInv', NEW m \in Migrations, migration' = migration,
           migration'[m].pc = "draining",
           migration[m].drained \in done => migration[m].drained \in done',
           \A x \in Accesses : migration[m].drained \in access[x].signals =>
               migration[m].drained \in done' \/ migration[m].drained \in access'[x].signals,
           \/ Users(migration[m].app) \subseteq Users(migration[m].app)'
           \/ Users(migration[m].app)' # {}
           \/ \E x \in Accesses : entries[migration[m].app].drained \in access'[x].signals
    PROVE  Wakeable(m)'
<1>1. CASE migration[m].drained = NoSignal \/ migration[m].drained \in done'
  BY <1>1 DEF Wakeable
<1>2. CASE \E x \in Accesses : migration[m].drained \in access'[x].signals
  BY <1>2 DEF Wakeable
<1>3. CASE /\ migration[m].drained # NoSignal /\ migration[m].drained \notin done'
           /\ \A x \in Accesses : migration[m].drained \notin access'[x].signals
  <2>1. migration[m].drained \notin done
        /\ \A x \in Accesses : migration[m].drained \notin access[x].signals
    BY <1>3
  <2>2. entries[migration[m].app].drained = migration[m].drained /\ Users(migration[m].app) # {}
    BY <1>3, <2>1 DEF DrainNotLost
  <2>3. Users(migration[m].app)' # {}
    BY <1>3, <2>2
  <2>4. (entries[migration[m].app].drained = migration[m].drained)'
    BY <1>3 DEF IInv, WaitInv
  <2> QED BY <2>3, <2>4 DEF Wakeable
<1> QED BY <1>1, <1>2, <1>3

(* No step of any fiber loses a drain that a migration waits for. *)
LEMMA DrainStep ==
    ASSUME IInv, DrainNotLost, [Next]_vars
    PROVE  DrainNotLost'
<1>0. IInv'
  BY NextIInv
<1> SUFFICES ASSUME NEW m \in Migrations, migration'[m].pc = "draining"
             PROVE  Wakeable(m)'
  BY DEF DrainNotLost, Wakeable
<1>1. ASSUME NEW x \in Accesses, NEW appIds \in SUBSET Apps, Admit(x, appIds) PROVE Wakeable(m)'
  <2>1. /\ migration' = migration /\ access[x].signals = {}
        /\ \A y \in Accesses : y # x => access'[y] = access[y]
        /\ access'[x].signals = {}
    BY <1>1 DEF Admit, IInv, AccessInv, TypeOK
  <2>2. migration[m].drained \in done => migration[m].drained \in done'
    <3>1. PICK fresh \in [{a \in Admissible(appIds) : ~HasEntry(a)} -> Unused] :
            done' = done \ {fresh[a] : a \in {b \in Admissible(appIds) : ~HasEntry(b)}}
      BY <1>1 DEF Admit
    <3> QED BY <3>1, UnusedIsFresh
  <2>3. access[x].admitted = {}
    BY <1>1 DEF Admit, IInv, AccessInv
  <2>4. Users(migration[m].app) \subseteq Users(migration[m].app)'
    BY <2>1, <2>3 DEF Users
  <2> QED BY <1>0, <2>1, <2>2, <2>4, StillWakeable
<1>2. CASE Plan
  <2>1. /\ migration' = migration /\ done' = done
        /\ \A y \in Accesses : access'[y].signals = access[y].signals
                               /\ access'[y].admitted = access[y].admitted
    BY <1>2, ConstantsAssumption DEF Plan, IInv, TypeOK
  <2>2. Users(migration[m].app) \subseteq Users(migration[m].app)'
    BY <2>1 DEF Users
  <2> QED BY <1>0, <2>1, <2>2, StillWakeable
<1>3. ASSUME NEW x \in Accesses, Finish(x) PROVE Wakeable(m)'
  <2>1. /\ migration' = migration /\ done' = done /\ access[x].signals = {}
        /\ access'[x].admitted = {}
        /\ access'[x].signals = {entries[a].drained : a \in Emptied(x)}
        /\ \A y \in Accesses : y # x => access'[y] = access[y]
    BY <1>3 DEF Finish, IInv, AccessInv, TypeOK
  <2>2. migration[m].app \in Apps
    BY DEF IInv, TypeOK
  <2>3. Users(migration[m].app)' = Users(migration[m].app) \ {x}
    BY <2>1 DEF Users
  <2>4. CASE x \notin Users(migration[m].app) \/ Users(migration[m].app)' # {}
    BY <1>0, <2>1, <2>3, <2>4, StillWakeable
  <2>5. CASE x \in Users(migration[m].app) /\ Users(migration[m].app)' = {}
    <3>1. Users(migration[m].app) = {x}
      BY <2>3, <2>5
    <3>2. entries[migration[m].app].active = 1
      BY <2>2, <3>1, FS_Singleton DEF IInv, CountInv
    <3>3. migration[m].app \in Emptied(x)
      BY <2>2, <2>5, <3>2, InsideIsCounted DEF Emptied, Users
    <3> QED BY <1>0, <2>1, <3>3, StillWakeable
  <2> QED BY <2>4, <2>5
<1>4. ASSUME NEW x \in Accesses, Signal(x) PROVE Wakeable(m)'
  <2>1. PICK d \in access[x].signals :
          done' = done \cup {d} /\ access' = [access EXCEPT ![x].signals = @ \ {d}]
    BY <1>4 DEF Signal
  <2>2. /\ migration' = migration
        /\ \A y \in Accesses : access'[y].admitted = access[y].admitted
                               /\ access[y].signals \subseteq access'[y].signals \cup {d}
    BY <1>4, <2>1 DEF Signal, IInv, TypeOK
  <2>3. Users(migration[m].app) \subseteq Users(migration[m].app)'
    BY <2>2 DEF Users
  <2> QED BY <1>0, <2>1, <2>2, <2>3, StillWakeable
<1>5. ASSUME NEW x \in Accesses, Leave(x) PROVE Wakeable(m)'
  <2>1. /\ migration' = migration /\ done' = done /\ access[x].signals = {} /\ access[x].admitted = {}
        /\ \A y \in Accesses : y # x => access'[y] = access[y]
    BY <1>5 DEF Leave, IInv, AccessInv, TypeOK
  <2>2. Users(migration[m].app) \subseteq Users(migration[m].app)'
    BY <2>1 DEF Users
  <2> QED BY <1>0, <2>1, <2>2, StillWakeable
<1>6. ASSUME NEW n \in Migrations, Acquire(n) PROVE Wakeable(m)'
  <2>1. PICK fresh \in Unused : done' = IF HasEntry(migration[n].app) THEN done ELSE done \ {fresh}
    BY <1>6 DEF Acquire
  <2>2. access' = access /\ \A a \in Apps : Users(a)' = Users(a)
    BY <1>6 DEF Acquire, Users
  <2>3. CASE m = n
    <3>1. migration'[m].drained = Awaited(migration[m].app) /\ migration'[m].app = migration[m].app
          /\ migration[m].app \in Apps
      BY <1>6, <2>3 DEF Acquire, IInv, TypeOK
    <3>2. CASE entries[migration[m].app].active > 0
      <4>1. Users(migration[m].app) # {}
        BY <3>1, <3>2, FS_EmptySet DEF IInv, CountInv
      <4>2. entries'[migration[m].app].drained = entries[migration[m].app].drained
        <5>1. HasEntry(migration[m].app)
          BY <3>1, <3>2 DEF IInv, EntryInv
        <5> QED BY <1>6, <2>3, <3>1, <5>1 DEF Acquire, IInv, TypeOK
      <4> QED BY <2>2, <3>1, <3>2, <4>1, <4>2 DEF Awaited, Wakeable
    <3>3. CASE ~(entries[migration[m].app].active > 0)
      BY <3>1, <3>3 DEF Awaited, Wakeable
    <3> QED BY <3>2, <3>3
  <2>4. CASE m # n
    <3>1. migration'[m] = migration[m]
      BY <1>6, <2>4 DEF Acquire, IInv, TypeOK
    <3>2. Wakeable(m) /\ migration[m].app \in Apps
      BY <3>1 DEF DrainNotLost, Wakeable, IInv, TypeOK
    <3>3. migration[m].drained \in done => migration[m].drained \in done'
      BY <2>1, UnusedIsFresh
    <3>4. migration[m].drained # NoSignal => entries'[migration[m].app].drained = migration[m].drained
      BY <1>0, <3>1 DEF IInv, WaitInv
    <3> QED BY <2>2, <3>1, <3>2, <3>3, <3>4 DEF Wakeable
  <2> QED BY <2>3, <2>4
<1>7. ASSUME NEW n \in Migrations, Drained(n) \/ EndWork(n) \/ Interrupt(n) \/ Release(n) \/ Defer(n)
      PROVE  Wakeable(m)'
  <2>1. access' = access /\ done' = done /\ \A a \in Apps : Users(a)' = Users(a)
    BY <1>7 DEF Drained, EndWork, Interrupt, Release, Defer, Users
  <2>2. m # n /\ migration'[m] = migration[m]
    BY <1>7 DEF Drained, EndWork, Interrupt, Release, Defer, IInv, TypeOK
  <2>3. Wakeable(m) /\ migration[m].app \in Apps
    BY <2>2 DEF DrainNotLost, Wakeable, IInv, TypeOK
  <2>4. migration[m].drained # NoSignal => entries'[migration[m].app].drained = migration[m].drained
    BY <1>0, <2>2 DEF IInv, WaitInv
  <2> QED BY <2>1, <2>2, <2>3, <2>4 DEF Wakeable
<1>8. CASE UNCHANGED vars
  BY <1>8 DEF vars, DrainNotLost, Wakeable, Users
<1>9. ASSUME NEW x \in Accesses, Enter(x) PROVE Wakeable(m)'
  BY <1>1, <1>9 DEF Enter
<1>10. CASE EnterReconcile
  BY <1>1, <1>10, ConstantsAssumption DEF EnterReconcile
<1> QED BY <1>2, <1>3, <1>4, <1>5, <1>6, <1>7, <1>8, <1>9, <1>10 DEF Next

(* A migration that waits for operations to leave can always still be woken: no finish,
   no recycled Deferred and no other migration's release leaves it waiting for one that
   nobody will complete. *)
THEOREM DrainIsNotLost == Spec => []DrainNotLost
<1>1. Init => DrainNotLost
  BY DEF Init, DrainNotLost
<1>2. IInv /\ DrainNotLost /\ [Next]_vars => DrainNotLost'
  BY DrainStep
<1> QED BY <1>1, <1>2, Inductive, PTL DEF Spec

(* The map holds an entry only while something is inside or holds the app. *)
THEOREM EntriesAreReclaimed == Spec => []NoIdleEntry
<1>1. IInv => NoIdleEntry
  <2> SUFFICES ASSUME IInv, NEW a \in Apps, HasEntry(a), ~Held(a), Users(a) = {}
               PROVE  FALSE
    BY DEF NoIdleEntry
  <2>1. entries[a].active = 0
    BY FS_EmptySet DEF IInv, CountInv
  <2> QED BY <2>1 DEF IInv, EntryInv
<1> QED BY <1>1, Inductive, PTL

---------------------------------------------------------------------------

(* The refinement mapping, as definitions of this module. *)
Inside == [a \in Apps |-> Users(a)]
ClosedBy == [a \in Apps |-> {m \in Migrations : Owns(m, a)}]
Working == [a \in Apps |-> {m \in Migrations :
                              migration[m].app = a /\ migration[m].pc = "working"}]

(* Admitting a fiber is an Enter of MigrationExclusion. *)
LEMMA AdmitEnters ==
    ASSUME IInv, NEW x \in Accesses, NEW appIds \in SUBSET Apps, Admit(x, appIds)
    PROVE  Exclusion!Enter(x, appIds)
<1>1. /\ access[x].pc = "idle"
      /\ access' = [access EXCEPT ![x] = [pc |-> "using", admitted |-> {a \in appIds : ~Held(a)},
                                          blocked |-> {a \in Apps : Held(a)}, signals |-> {}]]
      /\ migration' = migration
  BY DEF Admit, Admissible
<1>2. \A a \in Apps : x \notin Inside[a]
  BY <1>1 DEF Inside, Users, IInv, AccessInv
<1>3. \A a \in Apps : ClosedBy[a] = {} <=> ~Held(a)
  BY DEF ClosedBy, IInv, OwnerInv
<1>4. \A a \in Apps : Users(a)' = IF a \in appIds /\ ~Held(a) THEN Users(a) \cup {x} ELSE Users(a)
  <2> SUFFICES ASSUME NEW a \in Apps
               PROVE  Users(a)' = IF a \in appIds /\ ~Held(a) THEN Users(a) \cup {x} ELSE Users(a)
    OBVIOUS
  <2>1. access'[x].admitted = {b \in appIds : ~Held(b)}
        /\ \A y \in Accesses \ {x} : access'[y] = access[y]
    BY <1>1 DEF IInv, TypeOK
  <2>2. x \notin Users(a)
    BY <1>2 DEF Inside
  <2> QED BY <2>1, <2>2 DEF Users
<1>5. Inside' = [a \in Apps |-> IF a \in appIds /\ ClosedBy[a] = {} THEN Inside[a] \cup {x}
                                                                   ELSE Inside[a]]
  BY <1>3, <1>4 DEF Inside
<1>6. ClosedBy' = ClosedBy /\ Working' = Working
  BY <1>1 DEF ClosedBy, Working, Owns
<1> QED BY <1>2, <1>5, <1>6 DEF Exclusion!Enter, Inside, ClosedBy, Working

(* Counting a fiber out is a Leave. *)
LEMMA FinishLeaves ==
    ASSUME IInv, NEW x \in Accesses, Finish(x)
    PROVE  Exclusion!Leave(x)
<1>1. /\ access'[x].admitted = {}
      /\ \A y \in Accesses \ {x} : access'[y] = access[y]
      /\ migration' = migration
  BY DEF Finish, Emptied, IInv, TypeOK
<1>2. \A a \in Apps : Users(a)' = Users(a) \ {x}
  BY <1>1 DEF Users
<1>3. Inside' = [a \in Apps |-> Inside[a] \ {x}] /\ ClosedBy' = ClosedBy /\ Working' = Working
  BY <1>1, <1>2 DEF Inside, ClosedBy, Working, Owns
<1> QED BY <1>3 DEF Exclusion!Leave, Inside, ClosedBy, Working

(* What a step that leaves the admitted fibers and the owners alone maps to. *)
LEMMA Stutters ==
    ASSUME IInv, \A y \in Accesses : access'[y].admitted = access[y].admitted,
           migration' = migration
    PROVE  UNCHANGED Exclusion!vars
<1>1. Inside' = Inside /\ ClosedBy' = ClosedBy /\ Working' = Working
  BY DEF Inside, ClosedBy, Working, Users, Owns
<1> QED BY <1>1 DEF Exclusion!vars, Inside, ClosedBy, Working

(* A migration's own steps are Close, Begin, End and Open. *)
LEMMA MigrationSteps ==
    ASSUME IInv, NEW m \in Migrations,
           \/ Acquire(m) \/ Drained(m) \/ EndWork(m) \/ Interrupt(m) \/ Release(m) \/ Defer(m)
    PROVE  \/ \E a \in Apps : \/ Exclusion!Close(m, a) \/ Exclusion!Begin(m, a)
                              \/ Exclusion!End(m, a) \/ Exclusion!Open(m, a)
           \/ UNCHANGED Exclusion!vars
<1>1. PICK a \in Apps : a = migration[m].app
  BY DEF IInv, TypeOK
<1>2. access' = access
  BY DEF Acquire, Awaited, Drained, EndWork, Interrupt, Release, Defer
<1>3. Inside' = Inside
  BY <1>2 DEF Inside, Users
<1>4. /\ migration'[m].app = a
      /\ \A n \in Migrations \ {m} : migration'[n] = migration[n]
  BY <1>1 DEF Acquire, Awaited, Drained, EndWork, Interrupt, Release, Defer, IInv, TypeOK
<1>5. \A b \in Apps \ {a} : ClosedBy'[b] = ClosedBy[b] /\ Working'[b] = Working[b]
  BY <1>1, <1>4 DEF ClosedBy, Working, Owns
<1>6. ClosedBy'[a] = (ClosedBy[a] \ {m}) \cup
            (IF migration'[m].pc \in {"draining", "working", "releasing"} THEN {m} ELSE {})
  BY <1>1, <1>4 DEF ClosedBy, Owns
<1>7. Working'[a] = (Working[a] \ {m}) \cup
            (IF migration'[m].pc = "working" THEN {m} ELSE {})
  BY <1>1, <1>4 DEF Working
<1>8. /\ m \in ClosedBy[a] <=> migration[m].pc \in {"draining", "working", "releasing"}
      /\ m \in Working[a] <=> migration[m].pc = "working"
      /\ Working[a] \subseteq ClosedBy[a]
  BY <1>1 DEF ClosedBy, Working, Owns
<1>9. CASE Acquire(m)
  <2>1. migration[m].pc = "idle" /\ migration'[m].pc = "draining" /\ ~Held(a)
    BY <1>1, <1>9 DEF Acquire, Awaited, IInv, TypeOK
  <2>2. ClosedBy[a] = {}
    BY <2>1 DEF ClosedBy, IInv, OwnerInv
  <2>3. ClosedBy'[a] = {m} /\ Working'[a] = Working[a]
    BY <1>6, <1>7, <1>8, <2>1, <2>2
  <2>4. ClosedBy' = [ClosedBy EXCEPT ![a] = {m}] /\ Working' = Working
    BY <1>5, <2>3 DEF ClosedBy, Working
  <2> QED BY <1>3, <2>2, <2>4 DEF Exclusion!Close, Inside, ClosedBy, Working
<1>10. Owns(m, a) => ClosedBy[a] = {m}
  BY DEF ClosedBy, IInv, OwnerInv
<1>11. CASE Drained(m)
  <2>1. migration[m].pc = "draining" /\ migration'[m].pc = "working" /\ Owns(m, a)
    BY <1>1, <1>11 DEF Drained, Owns, IInv, TypeOK
  <2>2. entries'[a].active = 0 /\ entries' = entries
    BY <1>1, <1>4, <1>11, <2>1, MigrationIInv DEF IInv, WaitInv, Drained
  <2>3. Inside[a] = {}
    BY <2>2, NobodyInside DEF Inside
  <2>4. Working'[a] = {m} /\ ClosedBy'[a] = ClosedBy[a]
    BY <1>6, <1>7, <1>8, <1>10, <2>1
  <2>5. Working' = [Working EXCEPT ![a] = {m}] /\ ClosedBy' = ClosedBy
    BY <1>5, <2>4 DEF ClosedBy, Working
  <2> QED BY <1>3, <1>10, <2>1, <2>3, <2>5 DEF Exclusion!Begin, Inside, ClosedBy, Working
<1>12. CASE EndWork(m)
  <2>1. migration[m].pc = "working" /\ migration'[m].pc = "releasing" /\ Owns(m, a)
    BY <1>1, <1>12 DEF EndWork, Owns, IInv, TypeOK
  <2>2. Working[a] = {m} /\ Working'[a] = {} /\ ClosedBy'[a] = ClosedBy[a]
    BY <1>6, <1>7, <1>8, <1>10, <2>1
  <2>3. Working' = [Working EXCEPT ![a] = {}] /\ ClosedBy' = ClosedBy
    BY <1>5, <2>2 DEF ClosedBy, Working
  <2> QED BY <1>3, <2>2, <2>3 DEF Exclusion!End, Inside, ClosedBy, Working
<1>13. CASE Interrupt(m) \/ Defer(m)
  <2>1. /\ migration'[m].pc # "working" /\ migration[m].pc # "working"
        /\ migration'[m].pc \in {"draining", "working", "releasing"} <=>
             migration[m].pc \in {"draining", "working", "releasing"}
    BY <1>13 DEF Interrupt, Defer, IInv, TypeOK
  <2>2. ClosedBy'[a] = ClosedBy[a] /\ Working'[a] = Working[a]
    BY <1>6, <1>7, <1>8, <2>1
  <2>3. ClosedBy' = ClosedBy /\ Working' = Working
    BY <1>5, <2>2 DEF ClosedBy, Working
  <2> QED BY <1>3, <2>3 DEF Exclusion!vars, Inside, ClosedBy, Working
<1>14. CASE Release(m)
  <2>1. migration[m].pc = "releasing" /\ migration'[m].pc = "deferring" /\ Owns(m, a)
    BY <1>1, <1>14 DEF Release, Owns, IInv, TypeOK
  <2>2. Working[a] = {} /\ Working'[a] = {} /\ ClosedBy'[a] = {}
    BY <1>6, <1>7, <1>8, <1>10, <2>1
  <2>3. /\ \A b \in Apps : ClosedBy'[b] = IF b = a THEN {} ELSE ClosedBy[b]
        /\ \A b \in Apps : Working'[b] = Working[b]
    BY <1>5, <2>2
  <2>4. ClosedBy' = [ClosedBy EXCEPT ![a] = {}]
    BY <2>3 DEF ClosedBy
  <2>5. Working' = Working
    BY <2>3 DEF Working
  <2> QED BY <1>3, <1>10, <2>1, <2>2, <2>4, <2>5 DEF Exclusion!Open, Inside, ClosedBy, Working
<1> QED BY <1>9, <1>11, <1>12, <1>13, <1>14

(* The fence service implements MigrationExclusion: whatever the entries and
   Deferreds do, what operations and migrations see is one closing at a time. *)
THEOREM Implements == Spec => ImplementsExclusion
<1>1. Init => Exclusion!Init
  <2> SUFFICES ASSUME Init PROVE Exclusion!Init
    OBVIOUS
  <2>1. \A a \in Apps : Users(a) = {}
    BY DEF Init, Users, IdleAccess
  <2>2. \A m \in Migrations : migration[m].pc = "idle"
    BY DEF Init
  <2> QED BY <2>1, <2>2 DEF Exclusion!Init, Owns
<1>2. IInv /\ [Next]_vars => [Exclusion!Next]_(Exclusion!vars)
  <2> SUFFICES ASSUME IInv, [Next]_vars PROVE [Exclusion!Next]_(Exclusion!vars)
    OBVIOUS
  <2>1. CASE EnterReconcile
    <3>1. Exclusion!Enter(Reconciler, Apps)
      BY <2>1, AdmitEnters, ConstantsAssumption DEF EnterReconcile
    <3> QED BY <3>1, ConstantsAssumption DEF Exclusion!Next
  <2>2. CASE Plan
    <3>1. migration' = migration /\ \A y \in Accesses : access'[y].admitted = access[y].admitted
      BY <2>2, ConstantsAssumption DEF Plan, IInv, TypeOK
    <3> QED BY <3>1, Stutters
  <2>3. ASSUME NEW x \in Accesses, Enter(x) PROVE [Exclusion!Next]_(Exclusion!vars)
    <3>1. PICK appIds \in SUBSET Apps : Admit(x, appIds)
      BY <2>3 DEF Enter
    <3>2. Exclusion!Enter(x, appIds)
      BY <3>1, AdmitEnters
    <3> QED BY <3>2 DEF Exclusion!Next
  <2>4. ASSUME NEW x \in Accesses, Finish(x) PROVE [Exclusion!Next]_(Exclusion!vars)
    <3>1. Exclusion!Leave(x)
      BY <2>4, FinishLeaves
    <3> QED BY <3>1 DEF Exclusion!Next
  <2>5. ASSUME NEW x \in Accesses, Signal(x) \/ Leave(x)
        PROVE  [Exclusion!Next]_(Exclusion!vars)
    <3>1. migration' = migration /\ \A y \in Accesses : access'[y].admitted = access[y].admitted
      <4>1. CASE Signal(x)
        BY <4>1 DEF Signal, IInv, TypeOK
      <4>2. CASE Leave(x)
        BY <4>2 DEF Leave, IdleAccess, IInv, AccessInv, TypeOK
      <4> QED BY <2>5, <4>1, <4>2
    <3> QED BY <3>1, Stutters
  <2>6. ASSUME NEW m \in Migrations,
               \/ Acquire(m) \/ Drained(m) \/ EndWork(m) \/ Interrupt(m) \/ Release(m) \/ Defer(m)
        PROVE  [Exclusion!Next]_(Exclusion!vars)
    <3>1. \/ \E a \in Apps : \/ Exclusion!Close(m, a) \/ Exclusion!Begin(m, a)
                             \/ Exclusion!End(m, a) \/ Exclusion!Open(m, a)
          \/ UNCHANGED Exclusion!vars
      BY <2>6, MigrationSteps
    <3> QED BY <3>1 DEF Exclusion!Next
  <2>7. CASE UNCHANGED vars
    BY <2>7, Stutters DEF vars
  <2> QED BY <2>1, <2>2, <2>3, <2>4, <2>5, <2>6, <2>7 DEF Next
<1> QED BY <1>1, <1>2, Inductive, PTL DEF Spec, ImplementsExclusion, Exclusion!Spec
===========================================================================
