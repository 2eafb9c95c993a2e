------------------------ MODULE GuestActivityProofs ------------------------
(***************************************************************************)
(* What GuestActivity promises, for any number of fibers: captures and     *)
(* migrations are alone, nobody synchronises on an object the map has      *)
(* forgotten, no capture cuts short work it was not measured against, and  *)
(* so the service implements GuestExclusion.                               *)
(***************************************************************************)
EXTENDS GuestActivity, FiniteSetTheorems, TLAPS

Users == {f \in Fibers : mine[f] # NoActivity}

(* A fiber inside withActivity was given the Activity the map has, which the map keeps
   for as long as it counts somebody. *)
UseInv ==
    /\ \A f \in Fibers : IF pc[f] \in {"out", "measured"} THEN mine[f] = NoActivity
                         ELSE mine[f] = mapped /\ mapped # NoActivity
    /\ users = Cardinality(Users)
    /\ mapped = NoActivity => users = 0

(* Only guest work runs, only a suspend captures, only a migration drains. *)
RoleInv ==
    \A f \in Fibers :
        /\ pc[f] \in {"running", "countingOut", "signalling"} => f \in Runs
        /\ pc[f] \in {"measured", "looking", "capturing"} => f \in Suspends
        /\ pc[f] \in {"draining", "exclusive"} => f \in Exclusives

(* The counter counts the work that is running or has yet to count itself out. *)
CountInv == mapped # NoActivity => activity[mapped].count = Cardinality(Counted)

(* A fiber in the body of withPermits has the gate. *)
GateInv == \A f \in Fibers : pc[f] \in Holding => activity[mapped].gate = f

(* Whoever is alone found the counter at nought or waited until it was. *)
QuietInv == \A f \in Fibers : pc[f] \in {"capturing", "exclusive"} => activity[mapped].count = 0

(* A migration waits for the Deferred of its Activity, or had nothing to wait for. *)
DrainInv ==
    \A e \in Exclusives : pc[e] = "draining" =>
        \/ waitsOn[e] = NoSignal /\ activity[mapped].count = 0
        \/ waitsOn[e] = activity[mapped].drained

(* While work is counted, its Deferred is neither completed nor about to be. *)
SignalInv ==
    mapped # NoActivity /\ activity[mapped].count > 0 =>
        /\ activity[mapped].drained \in Signals \ done
        /\ \A r \in Runs : toSignal[r] # activity[mapped].drained

(* Work since a measurement either still runs or has made the measurement stale. *)
WorkInv == \A s \in workedSince : s \in stale \/ \E r \in Runs : pc[r] = "running"

IInv == TypeOK /\ UseInv /\ RoleInv /\ CountInv /\ GateInv /\ QuietInv /\ DrainInv
        /\ SignalInv /\ WorkInv

---------------------------------------------------------------------------

(* Fibers are finitely many, so the map's users and the counted work have sizes. *)
LEMMA Finite ==
    ASSUME TypeOK
    PROVE  /\ IsFiniteSet(Fibers) /\ IsFiniteSet(Runs)
           /\ IsFiniteSet(Users) /\ IsFiniteSet(Counted)
           /\ Cardinality(Users) \in Nat /\ Cardinality(Counted) \in Nat
<1>1. Runs \subseteq Fibers /\ Users \subseteq Fibers /\ Counted \subseteq Fibers
  BY DEF Fibers, Users, Counted
<1>2. IsFiniteSet(Fibers) /\ IsFiniteSet(Runs) /\ IsFiniteSet(Users) /\ IsFiniteSet(Counted)
  BY <1>1, ConstantsAssumption, FS_Subset
<1> QED BY <1>2, FS_CardinalityType

(* A count of nought is nobody, and a fiber inside is counted. *)
LEMMA NobodyCounted ==
    ASSUME TypeOK, CountInv, mapped # NoActivity
    PROVE  /\ activity[mapped].count = 0 <=> Counted = {}
           /\ activity[mapped].count \in Nat
<1>1. IsFiniteSet(Counted)
  BY Finite
<1> QED BY <1>1, FS_EmptySet DEF CountInv, TypeOK

(* A count of users of nought is nobody, and of one is one fiber: the test release
   makes. *)
LEMMA UsersCounted ==
    ASSUME TypeOK, UseInv
    PROVE  /\ users = 0 <=> Users = {}
           /\ users = 1 => \A f, g \in Users : f = g
<1>1. IsFiniteSet(Users)
  BY Finite
<1>2. users = 0 <=> Users = {}
  BY <1>1, FS_EmptySet DEF UseInv
<1>3. ASSUME users = 1, NEW f \in Users, NEW g \in Users PROVE f = g
  <2>1. PICK x : Users = {x}
    BY <1>1, <1>3, FS_Singleton DEF UseInv
  <2> QED BY <2>1, <1>3
<1> QED BY <1>2, <1>3

(* Of the fibers in the body of withPermits there is at most one. *)
LEMMA OneHolder ==
    ASSUME GateInv, NEW f \in Fibers, NEW g \in Fibers, pc[f] \in Holding, pc[g] \in Holding
    PROVE  f = g
BY DEF GateInv

(* A service that nobody has used yet satisfies the invariant. *)
LEMMA InitIInv ==
    ASSUME Init
    PROVE  IInv
<1>1. TypeOK
  BY DEF Init, TypeOK, NewActivity, Free
<1>2. Users = {} /\ Counted = {}
  BY DEF Init, Users, Counted, Fibers
<1>3. UseInv
  BY <1>2, FS_EmptySet DEF Init, UseInv
<1>4. RoleInv /\ CountInv /\ GateInv /\ QuietInv /\ DrainInv /\ SignalInv /\ WorkInv
  BY DEF Init, RoleInv, CountInv, GateInv, QuietInv, DrainInv, SignalInv, WorkInv, Holding, Fibers
<1> QED BY <1>1, <1>3, <1>4 DEF IInv

---------------------------------------------------------------------------
(* withActivity *)

(* acquire finds the map's Activity or makes one nobody refers to, and counts the
   fiber in either case. *)
LEMMA EnterIInv ==
    ASSUME IInv, NEW f \in Fibers, Enter(f)
    PROVE  IInv'
<1>1. /\ pc[f] \in {"out", "measured"} /\ pc' = [pc EXCEPT ![f] = "gate"]
      /\ users' = users + 1
      /\ UNCHANGED <<done, waitsOn, toSignal, stale, workedSince>>
  BY DEF Enter, Acquire, Goto
<1>2. mine[f] = NoActivity
  BY <1>1 DEF IInv, UseInv
<1>3. /\ mapped' \in Activities
      /\ mine' = [mine EXCEPT ![f] = mapped']
      /\ \/ mapped' = mapped /\ activity' = activity
         \/ mapped = NoActivity /\ activity' = [activity EXCEPT ![mapped'] = NewActivity]
  BY DEF Enter, Acquire, UnusedActivities, IInv, TypeOK
<1>4. TypeOK'
  BY <1>1, <1>3 DEF IInv, TypeOK, NewActivity, Free
<1>5. Counted' = Counted
  BY <1>1 DEF Counted, IInv, TypeOK
<1>6. mapped = NoActivity => \A g \in Fibers : pc[g] \in {"out", "measured"}
  BY DEF IInv, UseInv
<1>7. UseInv'
  <2>1. Users' = Users \cup {f} /\ f \notin Users
    BY <1>2, <1>3, ConstantsAssumption DEF Users, IInv, TypeOK
  <2>2. Cardinality(Users') = Cardinality(Users) + 1
    BY <2>1, Finite, FS_AddElement DEF IInv
  <2>3. (mapped # NoActivity)'
    BY <1>3, ConstantsAssumption
  <2>4. ASSUME NEW g \in Fibers
        PROVE (IF pc[g] \in {"out", "measured"} THEN mine[g] = NoActivity
               ELSE mine[g] = mapped /\ mapped # NoActivity)'
    BY <1>1, <1>3, <1>6, <2>3 DEF IInv, UseInv, TypeOK
  <2> QED BY <1>1, <2>2, <2>3, <2>4 DEF IInv, UseInv
<1>8. RoleInv'
  BY <1>1 DEF IInv, TypeOK, RoleInv
<1>9. ASSUME mapped' = mapped, activity' = activity
      PROVE  CountInv' /\ SignalInv' /\ GateInv' /\ QuietInv' /\ DrainInv'
  <2>1. CountInv' /\ SignalInv'
    BY <1>1, <1>5, <1>9 DEF IInv, CountInv, SignalInv
  <2>2. GateInv' /\ QuietInv' /\ DrainInv'
    BY <1>1, <1>9 DEF IInv, TypeOK, GateInv, QuietInv, DrainInv, Holding, Fibers
  <2> QED BY <2>1, <2>2
<1>10. ASSUME mapped = NoActivity, activity' = [activity EXCEPT ![mapped'] = NewActivity]
       PROVE  CountInv' /\ SignalInv' /\ GateInv' /\ QuietInv' /\ DrainInv'
  <2>1. \A g \in Fibers : pc'[g] \in {"out", "measured", "gate"}
    BY <1>1, <1>6, <1>10 DEF IInv, TypeOK
  <2>2. activity'[mapped'].count = 0
    BY <1>3, <1>10 DEF NewActivity, IInv, TypeOK
  <2>3. Counted' = {}
    BY <2>1 DEF Counted, Fibers
  <2>4. CountInv' /\ SignalInv'
    BY <2>2, <2>3, FS_EmptySet DEF CountInv, SignalInv
  <2>5. GateInv' /\ QuietInv' /\ DrainInv'
    BY <2>1 DEF GateInv, QuietInv, DrainInv, Holding, Fibers
  <2> QED BY <2>4, <2>5
<1>11. WorkInv'
  BY <1>1 DEF IInv, TypeOK, WorkInv
<1> QED BY <1>3, <1>4, <1>7, <1>8, <1>9, <1>10, <1>11 DEF IInv

(* release drops the entry only with its last user, so nobody inside loses the
   object it was given. *)
LEMMA ReleaseIInv ==
    ASSUME IInv, NEW f \in Fibers, Release(f)
    PROVE  IInv'
<1>1. /\ pc[f] = "leaving" /\ pc' = [pc EXCEPT ![f] = "out"]
      /\ mine' = [mine EXCEPT ![f] = NoActivity]
      /\ UNCHANGED <<activity, done, waitsOn, toSignal, stale, workedSince>>
      /\ \/ users = 1 /\ mapped' = NoActivity /\ users' = 0
         \/ users # 1 /\ mapped' = mapped /\ users' = users - 1
  BY DEF Release, Goto
<1>2. f \in Users /\ users # 0
  <2>1. f \in Users
    BY <1>1 DEF IInv, UseInv, Users
  <2> QED BY <2>1, UsersCounted DEF IInv
<1>3. TypeOK'
  BY <1>1, <1>2 DEF IInv, TypeOK
<1>4. Counted' = Counted
  BY <1>1 DEF Counted, IInv, TypeOK
<1>5. Users' = Users \ {f}
  BY <1>1 DEF Users, IInv, TypeOK
<1>6. Cardinality(Users') = Cardinality(Users) - 1
  BY <1>2, <1>5, Finite, FS_RemoveElement DEF IInv
<1>7. users = 1 => \A g \in Fibers : g # f => pc[g] \in {"out", "measured"}
  BY <1>2, UsersCounted DEF IInv, UseInv, Users
<1>8. UseInv'
  <2>1. users' = users - 1
    BY <1>1
  <2>2. mapped' = NoActivity => users' = 0
    BY <1>1, <1>2 DEF IInv, UseInv
  <2>3. ASSUME NEW g \in Fibers
        PROVE (IF pc[g] \in {"out", "measured"} THEN mine[g] = NoActivity
               ELSE mine[g] = mapped /\ mapped # NoActivity)'
    BY <1>1, <1>7 DEF IInv, UseInv, TypeOK
  <2> QED BY <1>6, <2>1, <2>2, <2>3 DEF IInv, UseInv
<1>9. RoleInv'
  BY <1>1 DEF IInv, TypeOK, RoleInv
<1>10. CountInv' /\ SignalInv'
  BY <1>1, <1>4 DEF IInv, CountInv, SignalInv
<1>11. GateInv' /\ QuietInv' /\ DrainInv'
  <2>1. \A g \in Fibers : pc'[g] \in Holding => pc[g] = pc'[g] /\ mapped' = mapped
    BY <1>1, <1>7 DEF IInv, TypeOK, Holding
  <2> QED BY <1>1, <2>1 DEF IInv, GateInv, QuietInv, DrainInv, Holding, Fibers
<1>12. WorkInv'
  BY <1>1 DEF IInv, TypeOK, WorkInv
<1> QED BY <1>3, <1>8, <1>9, <1>10, <1>11, <1>12 DEF IInv

(* Steps of one fiber's own that touch neither an Activity nor what is counted. *)
LEMMA OwnStep ==
    ASSUME IInv, NEW f \in Fibers, NEW label,
           pc' = [pc EXCEPT ![f] = label],
           UNCHANGED <<mapped, users, activity, mine, waitsOn>>,
           \/ pc[f] = "gate" /\ label = "leaving"
           \/ pc[f] = "out" /\ label = "measured" /\ f \in Suspends
           \/ pc[f] = "signalling" /\ label = "leaving"
           \/ pc[f] = "running" /\ label = "countingOut"
    PROVE  UseInv' /\ RoleInv' /\ CountInv' /\ GateInv' /\ QuietInv' /\ DrainInv'
<1>1. Counted' = Counted
  BY DEF Counted, IInv, TypeOK
<1>2. Users' = Users
  BY DEF Users
<1>3. UseInv'
  BY <1>2 DEF IInv, UseInv, TypeOK
<1>4. RoleInv'
  BY DEF IInv, RoleInv, TypeOK
<1>5. CountInv'
  BY <1>1 DEF IInv, CountInv
<1>6. GateInv' /\ QuietInv' /\ DrainInv'
  BY DEF IInv, TypeOK, GateInv, QuietInv, DrainInv, Holding, Fibers
<1> QED BY <1>3, <1>4, <1>5, <1>6

(* A fiber interrupted at the gate holds nothing and is counted nowhere but in
   users. *)
LEMMA InterruptIInv ==
    ASSUME IInv, NEW f \in Fibers, Interrupt(f)
    PROVE  IInv'
<1>1. UseInv' /\ RoleInv' /\ CountInv' /\ GateInv' /\ QuietInv' /\ DrainInv'
  BY OwnStep DEF Interrupt, Goto
<1>2. TypeOK'
  BY DEF Interrupt, Goto, IInv, TypeOK
<1>3. SignalInv' /\ WorkInv'
  BY DEF Interrupt, Goto, IInv, TypeOK, SignalInv, WorkInv
<1> QED BY <1>1, <1>2, <1>3 DEF IInv

(* A measurement makes a suspend fresh, and forgets the work before it. *)
LEMMA MeasureQuietIInv ==
    ASSUME IInv, NEW s \in Suspends, MeasureQuiet(s)
    PROVE  IInv'
<1>1. s \in Fibers
  BY DEF Fibers
<1>2. UseInv' /\ RoleInv' /\ CountInv' /\ GateInv' /\ QuietInv' /\ DrainInv'
  BY <1>1, OwnStep DEF MeasureQuiet, Goto
<1>3. TypeOK'
  BY DEF MeasureQuiet, Goto, IInv, TypeOK
<1>4. SignalInv' /\ WorkInv'
  BY <1>1 DEF MeasureQuiet, Goto, IInv, TypeOK, SignalInv, WorkInv
<1> QED BY <1>2, <1>3, <1>4 DEF IInv

---------------------------------------------------------------------------
(* run *)

(* Work counts itself in with the gate free, so nobody is alone; the first one's
   Deferred is one that nothing has completed. *)
LEMMA CountInIInv ==
    ASSUME IInv, NEW r \in Runs, CountIn(r)
    PROVE  IInv'
<1>0. r \in Fibers
  BY DEF Fibers
<1>1. /\ pc[r] = "gate" /\ pc' = [pc EXCEPT ![r] = "running"]
      /\ activity[mine[r]].gate = Free
      /\ UNCHANGED <<mapped, users, mine, waitsOn, toSignal, stale>>
      /\ workedSince' = Suspends
  BY DEF CountIn, TakeGate, Goto
<1>2. mine[r] = mapped /\ mapped \in Activities /\ mapped # NoActivity
  BY <1>0, <1>1 DEF IInv, UseInv, TypeOK
<1>3. PICK d \in UnusedSignals :
        /\ activity' = [activity EXCEPT
                ![mapped].count = @ + 1,
                ![mapped].drained = IF activity[mapped].count = 0 THEN d ELSE @]
        /\ done' = done \ {d}
  BY <1>2 DEF CountIn
<1>4. d \in Signals /\ \A x \in Runs : toSignal[x] # d
  BY DEF UnusedSignals
<1>5. /\ activity'[mapped].count = activity[mapped].count + 1
      /\ activity'[mapped].gate = activity[mapped].gate
      /\ activity'[mapped].drained = IF activity[mapped].count = 0 THEN d ELSE activity[mapped].drained
  BY <1>2, <1>3 DEF IInv, TypeOK
<1>6. TypeOK'
  <2>1. activity' \in [Activities -> [gate : Fibers \cup {Free}, count : Nat,
                                      drained : Signals \cup {NoSignal}]]
    <3>1. /\ activity'[mapped].count \in Nat /\ activity'[mapped].gate \in Fibers \cup {Free}
          /\ activity'[mapped].drained \in Signals \cup {NoSignal}
      BY <1>2, <1>4, <1>5 DEF IInv, TypeOK
    <3>2. activity'[mapped] = [gate |-> activity'[mapped].gate, count |-> activity'[mapped].count,
                               drained |-> activity'[mapped].drained]
      BY <1>2, <1>3 DEF IInv, TypeOK
    <3>3. \A i \in Activities : i # mapped => activity'[i] = activity[i]
      BY <1>2, <1>3 DEF IInv, TypeOK
    <3>4. activity' = [i \in Activities |-> activity'[i]]
      BY <1>3 DEF IInv, TypeOK
    <3>5. \A i \in Activities : activity'[i] \in [gate : Fibers \cup {Free}, count : Nat,
                                                  drained : Signals \cup {NoSignal}]
      BY <3>1, <3>2, <3>3 DEF IInv, TypeOK
    <3> QED BY <3>4, <3>5
  <2> QED BY <1>0, <1>1, <1>3, <2>1 DEF IInv, TypeOK
<1>7. \A g \in Fibers : pc[g] \notin Holding
  BY <1>1, <1>2, ConstantsAssumption DEF IInv, GateInv, Free
<1>8. GateInv' /\ QuietInv' /\ DrainInv'
  BY <1>0, <1>1, <1>7 DEF IInv, TypeOK, GateInv, QuietInv, DrainInv, Holding, Fibers
<1>9. UseInv' /\ RoleInv'
  <2>1. Users' = Users
    BY <1>1 DEF Users
  <2> QED BY <1>0, <1>1, <2>1 DEF IInv, UseInv, RoleInv, TypeOK
<1>10. CountInv'
  <2>1. Counted' = Counted \cup {r} /\ r \notin Counted
    BY <1>0, <1>1 DEF Counted, IInv, TypeOK
  <2>2. Cardinality(Counted') = Cardinality(Counted) + 1
    BY <2>1, Finite, FS_AddElement DEF IInv
  <2> QED BY <1>1, <1>2, <1>5, <2>2 DEF IInv, CountInv
<1>11. SignalInv'
  <2>0. done' = done \ {d}
    BY <1>3
  <2>1. activity[mapped].count \in Nat
    BY <1>2 DEF IInv, TypeOK
  <2>2. CASE activity[mapped].count = 0
    <3>1. activity'[mapped].drained = d
      BY <1>5, <2>2
    <3> QED BY <1>1, <1>4, <2>0, <3>1 DEF SignalInv
  <2>3. CASE activity[mapped].count > 0
    <3>1. activity'[mapped].drained = activity[mapped].drained
      BY <1>5, <2>1, <2>3
    <3> QED BY <1>1, <1>2, <2>0, <2>3, <3>1 DEF IInv, SignalInv
  <2> QED BY <2>1, <2>2, <2>3
<1>12. WorkInv'
  BY <1>0, <1>1 DEF IInv, TypeOK, WorkInv
<1> QED BY <1>6, <1>8, <1>9, <1>10, <1>11, <1>12 DEF IInv

(* Work marks its app active before it counts itself out: every suspend measured
   before is stale from here on. *)
LEMMA MarkActiveIInv ==
    ASSUME IInv, NEW r \in Runs, MarkActive(r)
    PROVE  IInv'
<1>0. r \in Fibers
  BY DEF Fibers
<1>1. UseInv' /\ RoleInv' /\ CountInv' /\ GateInv' /\ QuietInv' /\ DrainInv'
  BY <1>0, OwnStep DEF MarkActive, Goto
<1>2. TypeOK'
  BY <1>0 DEF MarkActive, Goto, IInv, TypeOK
<1>3. SignalInv' /\ WorkInv'
  BY DEF MarkActive, IInv, SignalInv, WorkInv
<1> QED BY <1>1, <1>2, <1>3 DEF IInv

(* The last one out takes the Deferred along to complete it, and only with the count
   at nought. *)
LEMMA CountOutIInv ==
    ASSUME IInv, NEW r \in Runs, CountOut(r)
    PROVE  IInv'
<1>0. r \in Fibers
  BY DEF Fibers
<1>1. /\ pc[r] = "countingOut" /\ pc' = [pc EXCEPT ![r] = "signalling"]
      /\ UNCHANGED <<mapped, users, done, mine, waitsOn, stale, workedSince>>
  BY DEF CountOut, Goto
<1>2. mine[r] = mapped /\ mapped \in Activities /\ mapped # NoActivity
  BY <1>0, <1>1 DEF IInv, UseInv, TypeOK
<1>3. /\ activity' = [activity EXCEPT ![mapped].count = @ - 1]
      /\ toSignal' = [toSignal EXCEPT ![r] =
             IF activity[mapped].count = 1 THEN activity[mapped].drained ELSE NoSignal]
  BY <1>2 DEF CountOut
<1>4. r \in Counted
  BY <1>1 DEF Counted
<1>5. activity[mapped].count \in Nat \ {0}
  BY <1>2, <1>4, NobodyCounted DEF IInv
<1>6. /\ activity'[mapped].count = activity[mapped].count - 1
      /\ activity'[mapped].gate = activity[mapped].gate
      /\ activity'[mapped].drained = activity[mapped].drained
  BY <1>2, <1>3 DEF IInv, TypeOK
<1>7. TypeOK'
  <2>1. activity' \in [Activities -> [gate : Fibers \cup {Free}, count : Nat,
                                      drained : Signals \cup {NoSignal}]]
    BY <1>2, <1>3, <1>5 DEF IInv, TypeOK
  <2> QED BY <1>0, <1>1, <1>2, <1>3, <2>1 DEF IInv, TypeOK
<1>8. GateInv'
  BY <1>0, <1>1, <1>6 DEF IInv, TypeOK, GateInv, Holding
<1>9. QuietInv'
  BY <1>0, <1>1, <1>5 DEF IInv, TypeOK, QuietInv
<1>10. DrainInv'
  BY <1>0, <1>1, <1>5, <1>6 DEF IInv, TypeOK, DrainInv, Fibers
<1>11. UseInv' /\ RoleInv'
  <2>1. Users' = Users
    BY <1>1 DEF Users
  <2> QED BY <1>0, <1>1, <2>1 DEF IInv, UseInv, RoleInv, TypeOK
<1>12. CountInv'
  <2>1. Counted' = Counted \ {r}
    BY <1>0, <1>1 DEF Counted, IInv, TypeOK
  <2>2. Cardinality(Counted') = Cardinality(Counted) - 1
    BY <1>4, <2>1, Finite, FS_RemoveElement DEF IInv
  <2> QED BY <1>1, <1>2, <1>6, <2>2 DEF IInv, CountInv
<1>13. SignalInv'
  <2> SUFFICES ASSUME activity'[mapped].count > 0
               PROVE  /\ activity[mapped].drained \in Signals \ done
                      /\ \A x \in Runs : toSignal'[x] # activity[mapped].drained
    BY <1>1, <1>6 DEF SignalInv
  <2>1. activity[mapped].count > 1 /\ activity[mapped].count # 1
    BY <1>5, <1>6
  <2>2. /\ activity[mapped].drained \in Signals \ done
        /\ \A x \in Runs : toSignal[x] # activity[mapped].drained
    BY <1>2, <1>5 DEF IInv, SignalInv
  <2> QED BY <1>3, <2>1, <2>2, ConstantsAssumption DEF IInv, TypeOK
<1>14. WorkInv'
  BY <1>0, <1>1 DEF IInv, TypeOK, WorkInv
<1> QED BY <1>7, <1>8, <1>9, <1>10, <1>11, <1>12, <1>13, <1>14 DEF IInv

(* A Deferred is completed only when nothing is counted under it. *)
LEMMA SignalDrainedIInv ==
    ASSUME IInv, NEW r \in Runs, SignalDrained(r)
    PROVE  IInv'
<1>0. r \in Fibers
  BY DEF Fibers
<1>1. UseInv' /\ RoleInv' /\ CountInv' /\ GateInv' /\ QuietInv' /\ DrainInv'
  BY <1>0, OwnStep DEF SignalDrained, Goto
<1>2. /\ UNCHANGED <<mapped, activity, stale, workedSince>>
      /\ done' \subseteq done \cup {toSignal[r]} /\ done' \in SUBSET Signals
      /\ toSignal' = [toSignal EXCEPT ![r] = NoSignal]
      /\ pc' = [pc EXCEPT ![r] = "leaving"] /\ pc[r] = "signalling"
  BY DEF SignalDrained, Goto, IInv, TypeOK
<1>3. TypeOK'
  BY <1>0 DEF SignalDrained, Goto, IInv, TypeOK
<1>4. SignalInv'
  BY <1>2, ConstantsAssumption DEF IInv, TypeOK, SignalInv
<1>5. WorkInv'
  BY <1>0, <1>2 DEF IInv, TypeOK, WorkInv
<1> QED BY <1>1, <1>3, <1>4, <1>5 DEF IInv

---------------------------------------------------------------------------
(* whenIdle and exclusively: steps of a fiber that takes, has or gives back the gate. *)

(* What every step into, within and out of the body of withPermits keeps, whoever
   takes it. *)
LEMMA GateStep ==
    ASSUME IInv, NEW f \in Fibers, NEW label, NEW holder,
           pc[f] \in Holding \cup {"gate"}, f \in Suspends \cup Exclusives,
           label \in Holding \cup {"leaving"},
           label \in {"looking", "capturing"} => f \in Suspends,
           label \in {"draining", "exclusive"} => f \in Exclusives,
           pc' = [pc EXCEPT ![f] = label],
           pc[f] = "gate" => activity[mine[f]].gate = Free,
           holder \in Fibers \cup {Free},
           label \in Holding => holder = f,
           activity' = [activity EXCEPT ![mine[f]].gate = holder],
           UNCHANGED <<mapped, users, done, mine, toSignal, stale, workedSince>>,
           waitsOn' \in [Exclusives -> Signals \cup {NoSignal}]
    PROVE  /\ TypeOK' /\ UseInv' /\ RoleInv' /\ CountInv' /\ GateInv' /\ SignalInv' /\ WorkInv'
           /\ mine[f] = mapped /\ mapped \in Activities
           /\ activity'[mapped].count = activity[mapped].count
           /\ activity'[mapped].drained = activity[mapped].drained
           /\ \A g \in Fibers : g # f => pc'[g] \notin Holding
<1>1. mine[f] = mapped /\ mapped \in Activities /\ mapped # NoActivity
  BY DEF IInv, UseInv, TypeOK, Holding
<1>2. /\ activity'[mapped].count = activity[mapped].count
      /\ activity'[mapped].drained = activity[mapped].drained
      /\ activity'[mapped].gate = holder
  BY <1>1 DEF IInv, TypeOK
<1>3. TypeOK'
  <2>1. activity' \in [Activities -> [gate : Fibers \cup {Free}, count : Nat,
                                      drained : Signals \cup {NoSignal}]]
    BY <1>1 DEF IInv, TypeOK
  <2> QED BY <2>1 DEF IInv, TypeOK, Holding
<1>4. \A g \in Fibers : g # f => pc[g] \notin Holding
  <2> SUFFICES ASSUME NEW g \in Fibers, pc[g] \in Holding PROVE g = f
    OBVIOUS
  <2>1. activity[mapped].gate = g
    BY DEF IInv, GateInv
  <2>2. pc[f] # "gate"
    BY <1>1, <2>1, ConstantsAssumption DEF Free
  <2> QED BY <2>2, OneHolder DEF IInv
<1>5. \A g \in Fibers : g # f => pc'[g] = pc[g]
  BY DEF IInv, TypeOK
<1>6. GateInv'
  BY <1>2, <1>4, <1>5 DEF IInv, TypeOK, GateInv
<1>7. UseInv'
  <2>1. Users' = Users
    BY DEF Users
  <2> QED BY <1>1, <2>1 DEF IInv, UseInv, TypeOK, Holding
<1>8. RoleInv'
  BY DEF IInv, RoleInv, TypeOK, Holding
<1>9. CountInv'
  <2>1. Counted' = Counted
    BY DEF Counted, IInv, TypeOK, Holding
  <2> QED BY <1>2, <2>1 DEF IInv, CountInv
<1>10. SignalInv'
  BY <1>2 DEF IInv, SignalInv
<1>11. WorkInv'
  BY DEF IInv, TypeOK, WorkInv, Holding
<1> QED BY <1>1, <1>2, <1>3, <1>4, <1>5, <1>6, <1>7, <1>8, <1>9, <1>10, <1>11

(* A suspend takes a gate that is free. *)
LEMMA WhenIdleIInv ==
    ASSUME IInv, NEW s \in Suspends, WhenIdle(s)
    PROVE  IInv'
<1>0. s \in Fibers
  BY DEF Fibers
<1>1. /\ pc[s] = "gate" /\ pc' = [pc EXCEPT ![s] = "looking"] /\ activity[mine[s]].gate = Free
      /\ activity' = [activity EXCEPT ![mine[s]].gate = s]
      /\ UNCHANGED <<mapped, users, done, mine, waitsOn, toSignal, stale, workedSince>>
  BY DEF WhenIdle, TakeGate, Goto
<1>2. waitsOn' \in [Exclusives -> Signals \cup {NoSignal}]
  BY <1>1 DEF IInv, TypeOK
<1>3. /\ TypeOK' /\ UseInv' /\ RoleInv' /\ CountInv' /\ GateInv' /\ SignalInv' /\ WorkInv'
      /\ \A g \in Fibers : g # s => pc'[g] \notin Holding
  BY <1>0, <1>1, <1>2, GateStep DEF Holding
<1>4. QuietInv' /\ DrainInv'
  <2>1. pc'[s] = "looking"
    BY <1>0, <1>1 DEF IInv, TypeOK
  <2> QED BY <1>3, <2>1 DEF QuietInv, DrainInv, Holding, Fibers
<1> QED BY <1>3, <1>4 DEF IInv

(* A suspend goes ahead only over a count of nought, and otherwise gives the gate
   back. *)
LEMMA LookIInv ==
    ASSUME IInv, NEW s \in Suspends, Look(s)
    PROVE  IInv'
<1>0. s \in Fibers
  BY DEF Fibers
<1>1. /\ pc[s] = "looking"
      /\ UNCHANGED <<mapped, users, done, mine, waitsOn, toSignal, stale, workedSince>>
      /\ waitsOn' \in [Exclusives -> Signals \cup {NoSignal}]
  BY DEF Look, IInv, TypeOK
<1>2. mine[s] = mapped /\ mapped \in Activities /\ activity[mapped].gate = s
  BY <1>0, <1>1 DEF IInv, UseInv, TypeOK, GateInv, Holding
<1>3. CASE activity[mine[s]].count = 0 /\ s \notin stale
  <2>1. pc' = [pc EXCEPT ![s] = "capturing"] /\ activity' = activity
    BY <1>3 DEF Look, Goto
  <2>2. activity' = [activity EXCEPT ![mine[s]].gate = s]
    BY <1>2, <2>1 DEF IInv, TypeOK
  <2>3. /\ TypeOK' /\ UseInv' /\ RoleInv' /\ CountInv' /\ GateInv' /\ SignalInv' /\ WorkInv'
        /\ \A g \in Fibers : g # s => pc'[g] \notin Holding
    BY <1>0, <1>1, <2>1, <2>2, GateStep DEF Holding
  <2>4. pc'[s] = "capturing"
    BY <1>0, <2>1 DEF IInv, TypeOK
  <2>5. QuietInv' /\ DrainInv'
    BY <1>1, <1>2, <1>3, <2>1, <2>3, <2>4 DEF QuietInv, DrainInv, Holding, Fibers
  <2> QED BY <2>3, <2>5 DEF IInv
<1>4. CASE ~(activity[mine[s]].count = 0 /\ s \notin stale)
  <2>1. /\ pc' = [pc EXCEPT ![s] = "leaving"]
        /\ activity' = [activity EXCEPT ![mine[s]].gate = Free]
    BY <1>4 DEF Look, Goto, OpenGate
  <2>2. /\ TypeOK' /\ UseInv' /\ RoleInv' /\ CountInv' /\ GateInv' /\ SignalInv' /\ WorkInv'
        /\ \A g \in Fibers : g # s => pc'[g] \notin Holding
    BY <1>0, <1>1, <2>1, GateStep DEF Holding
  <2>3. pc'[s] = "leaving"
    BY <1>0, <2>1 DEF IInv, TypeOK
  <2>4. QuietInv' /\ DrainInv'
    BY <2>2, <2>3 DEF QuietInv, DrainInv, Holding, Fibers
  <2> QED BY <2>2, <2>4 DEF IInv
<1> QED BY <1>3, <1>4

(* A capture or a migration over, or a migration interrupted as it waits. *)
LEMMA GateGivenBack ==
    ASSUME IInv, NEW f \in Suspends \cup Exclusives, pc[f] \in Holding,
           pc' = [pc EXCEPT ![f] = "leaving"], activity' = OpenGate(f),
           UNCHANGED <<mapped, users, done, mine, toSignal, stale, workedSince>>,
           waitsOn' \in [Exclusives -> Signals \cup {NoSignal}]
    PROVE  IInv'
<1>0. f \in Fibers
  BY DEF Fibers
<1>1. /\ TypeOK' /\ UseInv' /\ RoleInv' /\ CountInv' /\ GateInv' /\ SignalInv' /\ WorkInv'
      /\ \A g \in Fibers : g # f => pc'[g] \notin Holding
  BY <1>0, GateStep DEF Holding, OpenGate
<1>2. pc'[f] = "leaving"
  BY <1>0 DEF IInv, TypeOK
<1>3. QuietInv' /\ DrainInv'
  BY <1>1, <1>2 DEF QuietInv, DrainInv, Holding, Fibers
<1> QED BY <1>1, <1>3 DEF IInv

(* A capture that is over gives the gate back. *)
LEMMA EndCaptureIInv ==
    ASSUME IInv, NEW s \in Suspends, EndCapture(s)
    PROVE  IInv'
<1>1. waitsOn' \in [Exclusives -> Signals \cup {NoSignal}]
  BY DEF EndCapture, IInv, TypeOK
<1> QED BY <1>1, GateGivenBack DEF EndCapture, Goto, Holding

(* A migration that is over, or interrupted while it drains, gives the gate back. *)
LEMMA EndExclusiveIInv ==
    ASSUME IInv, NEW e \in Exclusives, EndExclusive(e)
    PROVE  IInv'
<1>1. waitsOn' \in [Exclusives -> Signals \cup {NoSignal}]
  BY DEF EndExclusive, IInv, TypeOK
<1> QED BY <1>1, GateGivenBack DEF EndExclusive, Goto, Holding

(* A migration takes a gate that is free, and waits on the Deferred of what is
   counted then. *)
LEMMA ExclusivelyIInv ==
    ASSUME IInv, NEW e \in Exclusives, Exclusively(e)
    PROVE  IInv'
<1>0. e \in Fibers
  BY DEF Fibers
<1>1. /\ pc[e] = "gate" /\ pc' = [pc EXCEPT ![e] = "draining"] /\ activity[mine[e]].gate = Free
      /\ activity' = [activity EXCEPT ![mine[e]].gate = e]
      /\ UNCHANGED <<mapped, users, done, mine, toSignal, stale, workedSince>>
      /\ waitsOn' = [waitsOn EXCEPT ![e] =
             IF activity[mine[e]].count > 0 THEN activity[mine[e]].drained ELSE NoSignal]
  BY DEF Exclusively, TakeGate, Goto
<1>2. mine[e] = mapped /\ mapped \in Activities
  BY <1>0, <1>1 DEF IInv, UseInv, TypeOK
<1>3. waitsOn' \in [Exclusives -> Signals \cup {NoSignal}]
  BY <1>1, <1>2 DEF IInv, TypeOK
<1>4. /\ TypeOK' /\ UseInv' /\ RoleInv' /\ CountInv' /\ GateInv' /\ SignalInv' /\ WorkInv'
      /\ activity'[mapped].count = activity[mapped].count
      /\ activity'[mapped].drained = activity[mapped].drained
      /\ \A g \in Fibers : g # e => pc'[g] \notin Holding
  BY <1>0, <1>1, <1>3, GateStep DEF Holding
<1>5. pc'[e] = "draining"
  BY <1>0, <1>1 DEF IInv, TypeOK
<1>6. QuietInv'
  BY <1>4, <1>5 DEF QuietInv, Holding
<1>7. DrainInv'
  <2>1. activity[mapped].count \in Nat
    BY <1>2 DEF IInv, TypeOK
  <2>2. \/ waitsOn'[e] = NoSignal /\ activity'[mapped].count = 0
        \/ waitsOn'[e] = activity'[mapped].drained
    BY <1>1, <1>2, <1>4, <2>1 DEF IInv, TypeOK
  <2>3. \A g \in Exclusives : g # e => pc'[g] # "draining"
    BY <1>4 DEF Holding, Fibers
  <2> QED BY <1>1, <2>2, <2>3 DEF DrainInv
<1> QED BY <1>4, <1>6, <1>7 DEF IInv

(* A completed Deferred means a count of nought, because none is completed while
   work is counted. *)
LEMMA DrainedIInv ==
    ASSUME IInv, NEW e \in Exclusives, Drained(e)
    PROVE  IInv'
<1>0. e \in Fibers
  BY DEF Fibers
<1>1. /\ pc[e] = "draining" /\ pc' = [pc EXCEPT ![e] = "exclusive"]
      /\ waitsOn[e] \in done \cup {NoSignal}
      /\ UNCHANGED <<mapped, users, activity, done, mine, toSignal, stale, workedSince>>
      /\ waitsOn' \in [Exclusives -> Signals \cup {NoSignal}]
  BY DEF Drained, Goto, IInv, TypeOK
<1>2. mine[e] = mapped /\ mapped \in Activities /\ mapped # NoActivity /\ activity[mapped].gate = e
  BY <1>0, <1>1 DEF IInv, UseInv, TypeOK, GateInv, Holding
<1>3. activity' = [activity EXCEPT ![mine[e]].gate = e]
  BY <1>1, <1>2 DEF IInv, TypeOK
<1>4. /\ TypeOK' /\ UseInv' /\ RoleInv' /\ CountInv' /\ GateInv' /\ SignalInv' /\ WorkInv'
      /\ \A g \in Fibers : g # e => pc'[g] \notin Holding
  BY <1>0, <1>1, <1>3, GateStep DEF Holding
<1>5. pc'[e] = "exclusive"
  BY <1>0, <1>1 DEF IInv, TypeOK
<1>6. activity[mapped].count = 0
  <2>1. activity[mapped].count \in Nat
    BY <1>2 DEF IInv, TypeOK
  <2>2. activity[mapped].count > 0 => activity[mapped].drained \notin done \cup {NoSignal}
    BY <1>2, ConstantsAssumption DEF IInv, SignalInv
  <2> QED BY <1>1, <2>1, <2>2 DEF IInv, DrainInv
<1>7. QuietInv' /\ DrainInv'
  BY <1>1, <1>4, <1>5, <1>6 DEF QuietInv, DrainInv, Holding, Fibers
<1> QED BY <1>4, <1>7 DEF IInv

---------------------------------------------------------------------------

(* Every step of every fiber keeps the invariant. *)
LEMMA NextIInv ==
    ASSUME IInv, [Next]_vars
    PROVE  IInv'
<1>1. CASE UNCHANGED vars
  <2>1. Users' = Users /\ Counted' = Counted
    BY <1>1 DEF vars, Users, Counted
  <2> QED BY <1>1, <2>1 DEF vars, IInv, TypeOK, UseInv, RoleInv, CountInv, GateInv, QuietInv,
                            DrainInv, SignalInv, WorkInv
<1>2. CASE \E f \in Fibers : Enter(f) \/ Interrupt(f) \/ Release(f)
  BY <1>2, EnterIInv, InterruptIInv, ReleaseIInv
<1>3. CASE \E r \in Runs : CountIn(r) \/ MarkActive(r) \/ CountOut(r) \/ SignalDrained(r)
  BY <1>3, CountInIInv, MarkActiveIInv, CountOutIInv, SignalDrainedIInv
<1>4. CASE \E s \in Suspends : MeasureQuiet(s) \/ WhenIdle(s) \/ Look(s) \/ EndCapture(s)
  BY <1>4, MeasureQuietIInv, WhenIdleIInv, LookIInv, EndCaptureIInv
<1>5. CASE \E e \in Exclusives : Exclusively(e) \/ Drained(e) \/ EndExclusive(e)
  BY <1>5, ExclusivelyIInv, DrainedIInv, EndExclusiveIInv
<1> QED BY <1>1, <1>2, <1>3, <1>4, <1>5 DEF Next

(* The invariant the theorems rest on holds throughout. *)
THEOREM Inductive == Spec => []IInv
<1>1. IInv /\ [Next]_vars => IInv'
  BY NextIInv
<1> QED BY <1>1, InitIInv, PTL DEF Spec

(* The map, the Activity objects, the Deferreds and the fibers keep their shapes. *)
THEOREM TypeCorrect == Spec => []TypeOK
<1>1. IInv => TypeOK
  BY DEF IInv
<1> QED BY <1>1, Inductive, PTL

(* whenIdle and exclusively keep what they say: a capture or a migration's effect has the
   guest to itself, however many fibers come and go around it. *)
THEOREM AloneOrTogether == Spec => []OneOrMany
<1>1. IInv => OneOrMany
  <2> SUFFICES ASSUME IInv PROVE OneOrMany
    OBVIOUS
  <2>1. \A f, g \in Alone : f = g
    BY OneHolder DEF Alone, Holding, IInv
  <2>2. Cardinality(Alone) <= 1
    <3>1. CASE Alone = {}
      BY <3>1, FS_EmptySet
    <3>2. CASE \E f : f \in Alone
      <4>1. PICK f : f \in Alone
        BY <3>2
      <4>2. Alone = {f}
        BY <2>1, <4>1
      <4> QED BY <4>2, FS_Singleton
    <3> QED BY <3>1, <3>2
  <2>3. ASSUME NEW f \in Alone PROVE Working = {}
    <3>1. mapped # NoActivity /\ activity[mapped].count = 0
      BY DEF Alone, IInv, UseInv, QuietInv
    <3>2. Counted = {}
      BY <3>1, NobodyCounted DEF IInv
    <3> QED BY <3>2 DEF Counted, Working
  <2> QED BY <2>2, <2>3 DEF OneOrMany
<1> QED BY <1>1, Inductive, PTL

(* release drops the map's entry exactly when its last user leaves: no two fibers ever
   synchronise on two Activity objects of one app. *)
THEOREM SameObject == Spec => []OneActivity
<1>1. IInv => OneActivity
  BY DEF IInv, UseInv, OneActivity, Users
<1> QED BY <1>1, Inductive, PTL

(* Only Look begins a capture, and it looks at the counter and at the measurement. *)
LEMMA CaptureIsQuiet ==
    ASSUME IInv, [Next]_vars, NEW s \in Suspends, pc[s] = "looking", pc'[s] = "capturing"
    PROVE  s \notin workedSince
<1>0. s \in Fibers
  BY DEF Fibers
<1>1. Look(s)
  <2>1. ASSUME NEW f \in Fibers, NEW label, pc[f] # "looking", pc' = [pc EXCEPT ![f] = label]
        PROVE  FALSE
    BY <1>0, <2>1 DEF IInv, TypeOK
  <2>2. ASSUME NEW f \in Fibers, Enter(f) \/ Interrupt(f) \/ Release(f) PROVE FALSE
    BY <2>1, <2>2 DEF Enter, Acquire, Interrupt, Release, Goto
  <2>3. ASSUME NEW r \in Runs, CountIn(r) \/ MarkActive(r) \/ CountOut(r) \/ SignalDrained(r)
        PROVE  FALSE
    BY <2>1, <2>3 DEF CountIn, TakeGate, MarkActive, CountOut, SignalDrained, Goto, Fibers
  <2>4. ASSUME NEW t \in Suspends, MeasureQuiet(t) \/ WhenIdle(t) \/ EndCapture(t) PROVE FALSE
    BY <2>1, <2>4 DEF MeasureQuiet, WhenIdle, TakeGate, EndCapture, Goto, Fibers
  <2>5. ASSUME NEW e \in Exclusives, Exclusively(e) \/ Drained(e) \/ EndExclusive(e) PROVE FALSE
    BY <2>1, <2>5 DEF Exclusively, TakeGate, Drained, EndExclusive, Goto, Fibers
  <2>6. ASSUME NEW t \in Suspends, Look(t) PROVE t = s
    BY <1>0, <2>6 DEF Look, Goto, IInv, TypeOK, Fibers
  <2>7. pc' # pc
    BY <1>0
  <2> QED BY <2>2, <2>3, <2>4, <2>5, <2>6, <2>7 DEF Next, vars
<1>2. mine[s] = mapped /\ mapped # NoActivity
  BY <1>0 DEF IInv, UseInv
<1>3. activity[mapped].count = 0 /\ s \notin stale
  BY <1>0, <1>1, <1>2 DEF Look, Goto, IInv, TypeOK
<1>4. Counted = {}
  BY <1>2, <1>3, NobodyCounted DEF IInv
<1> QED BY <1>3, <1>4 DEF IInv, WorkInv, Counted

(* suspendInstance's second look finds the work that came and went since its app was
   measured quiet: a capture that goes ahead cuts none of it short. *)
THEOREM SecondLookSuffices == Spec => CapturesOnlyQuiet
<1> DEFINE Quiet == \A s \in Suspends :
                       pc[s] = "looking" /\ pc'[s] = "capturing" => s \notin workedSince
<1>1. IInv /\ [Next]_vars => [Quiet]_vars
  BY CaptureIsQuiet
<1> QED BY <1>1, Inductive, PTL DEF Spec, CapturesOnlyQuiet

---------------------------------------------------------------------------
(* The refinement of GuestExclusion *)

ClosedBy == {f \in Fibers : pc[f] \in Holding}

(* A step that takes one fiber from one label to another is seen by GuestExclusion only
   where one of the labels is inside or in the body of withPermits. *)
LEMMA SeenLabels ==
    ASSUME IInv, NEW f \in Fibers, NEW label, pc' = [pc EXCEPT ![f] = label]
    PROVE  /\ pc'[f] = label
           /\ label \notin Holding => ClosedBy' = ClosedBy \ {f}
           /\ label \in Holding => ClosedBy' = ClosedBy \cup {f}
           /\ label \notin {"capturing", "exclusive"} => Alone' = Alone \ {f}
           /\ label \in {"capturing", "exclusive"} => Alone' = Alone \cup {f}
           /\ label \notin {"running", "countingOut"} => Counted' = Counted \ {f}
           /\ label \in {"running", "countingOut"} /\ f \in Runs => Counted' = Counted \cup {f}
<1>1. /\ pc'[f] = label
      /\ \A g \in Fibers : g # f => pc'[g] = pc[g]
  BY DEF IInv, TypeOK
<1>2. Runs \subseteq Fibers
  BY DEF Fibers
<1> QED BY <1>1, <1>2 DEF ClosedBy, Alone, Counted

(* A fiber that is neither inside nor in the body of withPermits is not seen. *)
LEMMA UnseenFiber ==
    ASSUME NEW f \in Fibers, pc[f] \notin Holding \cup {"running", "countingOut"}
    PROVE  f \notin ClosedBy /\ f \notin Alone /\ f \notin Counted
BY DEF ClosedBy, Alone, Counted, Holding

(* With the gate free, nobody is in the body of withPermits. *)
LEMMA FreeIsOpen ==
    ASSUME IInv, NEW f \in Fibers, pc[f] = "gate", activity[mine[f]].gate = Free
    PROVE  ClosedBy = {} /\ Alone = {}
<1>1. mine[f] = mapped
  BY DEF IInv, UseInv
<1>2. \A g \in Fibers : pc[g] \notin Holding
  BY <1>1, ConstantsAssumption DEF IInv, GateInv, Free
<1> QED BY <1>2 DEF ClosedBy, Alone, Holding

(* The fiber in the body of withPermits is the one that has closed the guest, and
   nobody else is alone with it. *)
LEMMA HolderCloses ==
    ASSUME IInv, NEW f \in Fibers, pc[f] \in Holding
    PROVE  ClosedBy = {f} /\ Alone \subseteq {f}
<1>1. \A g \in Fibers : pc[g] \in Holding => g = f
  BY OneHolder DEF IInv
<1> QED BY <1>1 DEF ClosedBy, Alone, Holding

(* Coming, queueing, being interrupted and leaving are not seen: the map and its
   Activity objects are not part of what is promised. *)
LEMMA ComingAndGoing ==
    ASSUME IInv, NEW f \in Fibers, Enter(f) \/ Interrupt(f) \/ Release(f)
    PROVE  UNCHANGED Exclusion!vars
<1>1. /\ pc[f] \in {"out", "measured", "gate", "leaving"}
      /\ workedSince' = workedSince
      /\ \E label \in {"gate", "leaving", "out"} : pc' = [pc EXCEPT ![f] = label]
  BY DEF Enter, Acquire, Interrupt, Release, Goto
<1>2. PICK label \in {"gate", "leaving", "out"} : pc' = [pc EXCEPT ![f] = label]
  BY <1>1
<1>3. f \notin ClosedBy /\ f \notin Alone /\ f \notin Counted
  BY <1>1, UnseenFiber DEF Holding
<1>4. ClosedBy' = ClosedBy \ {f} /\ Alone' = Alone \ {f} /\ Counted' = Counted \ {f}
  BY <1>2, SeenLabels DEF Holding
<1>5. ClosedBy' = ClosedBy /\ Alone' = Alone /\ Counted' = Counted
  BY <1>3, <1>4
<1> QED BY <1>1, <1>5 DEF Exclusion!vars, ClosedBy

(* Guest work counts itself in at an open guest, and stays inside until it has counted
   itself out; what it completes afterwards is not seen. *)
LEMMA WorkSteps ==
    ASSUME IInv, NEW r \in Runs, CountIn(r) \/ MarkActive(r) \/ CountOut(r) \/ SignalDrained(r)
    PROVE  \/ Exclusion!Enter(r) \/ Exclusion!Finish(r) \/ Exclusion!Leave(r)
           \/ UNCHANGED Exclusion!vars
<1>0. r \in Fibers
  BY DEF Fibers
<1>1. CASE CountIn(r)
  <2>1. /\ pc[r] = "gate" /\ activity[mine[r]].gate = Free /\ workedSince' = Suspends
        /\ pc' = [pc EXCEPT ![r] = "running"]
    BY <1>1 DEF CountIn, TakeGate, Goto
  <2>2. ClosedBy = {} /\ Alone = {} /\ r \notin Counted
    BY <1>0, <2>1, FreeIsOpen, UnseenFiber DEF Holding
  <2>3. ClosedBy' = ClosedBy \ {r} /\ Alone' = Alone \ {r} /\ Counted' = Counted \cup {r}
    BY <1>0, <2>1, SeenLabels DEF Holding
  <2>4. Exclusion!Enter(r)
    BY <2>1, <2>2, <2>3 DEF Exclusion!Enter, ClosedBy
  <2> QED BY <2>4
<1>2. CASE MarkActive(r)
  <2>1. /\ pc[r] = "running" /\ workedSince' = Suspends
        /\ pc' = [pc EXCEPT ![r] = "countingOut"]
    BY <1>2 DEF MarkActive, Goto
  <2>2. r \in Counted /\ r \notin ClosedBy /\ r \notin Alone
    BY <2>1 DEF Counted, ClosedBy, Alone, Holding
  <2>3. ClosedBy' = ClosedBy \ {r} /\ Alone' = Alone \ {r} /\ Counted' = Counted \cup {r}
    BY <1>0, <2>1, SeenLabels DEF Holding
  <2>4. ClosedBy' = ClosedBy /\ Alone' = Alone /\ Counted' = Counted
    BY <2>2, <2>3
  <2>5. Exclusion!Finish(r)
    BY <2>1, <2>2, <2>4 DEF Exclusion!Finish, ClosedBy
  <2> QED BY <2>5
<1>3. CASE CountOut(r)
  <2>1. /\ pc[r] = "countingOut" /\ workedSince' = workedSince
        /\ pc' = [pc EXCEPT ![r] = "signalling"]
    BY <1>3 DEF CountOut, Goto
  <2>2. r \in Counted /\ r \notin ClosedBy /\ r \notin Alone
    BY <2>1 DEF Counted, ClosedBy, Alone, Holding
  <2>3. ClosedBy' = ClosedBy \ {r} /\ Alone' = Alone \ {r} /\ Counted' = Counted \ {r}
    BY <1>0, <2>1, SeenLabels DEF Holding
  <2>4. ClosedBy' = ClosedBy /\ Alone' = Alone
    BY <2>2, <2>3
  <2>5. Exclusion!Leave(r)
    BY <2>1, <2>2, <2>3, <2>4 DEF Exclusion!Leave, ClosedBy
  <2> QED BY <2>5
<1>4. CASE SignalDrained(r)
  <2>1. /\ pc[r] = "signalling" /\ workedSince' = workedSince
        /\ pc' = [pc EXCEPT ![r] = "leaving"]
    BY <1>4 DEF SignalDrained, Goto
  <2>2. r \notin ClosedBy /\ r \notin Alone /\ r \notin Counted
    BY <1>0, <2>1, UnseenFiber DEF Holding
  <2>3. ClosedBy' = ClosedBy \ {r} /\ Alone' = Alone \ {r} /\ Counted' = Counted \ {r}
    BY <1>0, <2>1, SeenLabels DEF Holding
  <2>4. ClosedBy' = ClosedBy /\ Alone' = Alone /\ Counted' = Counted
    BY <2>2, <2>3
  <2> QED BY <2>1, <2>4 DEF Exclusion!vars, ClosedBy
<1> QED BY <1>1, <1>2, <1>3, <1>4

(* Taking the gate closes the guest. *)
LEMMA GateCloses ==
    ASSUME IInv, NEW f \in Suspends \cup Exclusives, NEW label \in {"looking", "draining"},
           TakeGate(f, label), workedSince' = workedSince
    PROVE  Exclusion!Close(f)
<1>0. f \in Fibers
  BY DEF Fibers
<1>1. /\ pc[f] = "gate" /\ activity[mine[f]].gate = Free /\ pc' = [pc EXCEPT ![f] = label]
  BY DEF TakeGate, Goto
<1>2. ClosedBy = {} /\ Alone = {} /\ f \notin Counted
  BY <1>0, <1>1, FreeIsOpen, UnseenFiber DEF Holding
<1>3. ClosedBy' = ClosedBy \cup {f} /\ Alone' = Alone \ {f} /\ Counted' = Counted \ {f}
  BY <1>0, <1>1, SeenLabels DEF Holding
<1>4. ClosedBy' = {f} /\ Alone' = Alone /\ Counted' = Counted
  BY <1>2, <1>3
<1> QED BY <1>2, <1>4 DEF Exclusion!Close, ClosedBy

(* Giving the gate back opens it. *)
LEMMA GateOpens ==
    ASSUME IInv, NEW f \in Suspends \cup Exclusives, pc[f] \in Holding,
           pc' = [pc EXCEPT ![f] = "leaving"], workedSince' = workedSince
    PROVE  Exclusion!Open(f)
<1>0. f \in Fibers
  BY DEF Fibers
<1>1. ClosedBy = {f} /\ Alone \subseteq {f} /\ f \notin Counted
  BY <1>0, HolderCloses DEF Counted, Holding
<1>2. ClosedBy' = ClosedBy \ {f} /\ Alone' = Alone \ {f} /\ Counted' = Counted \ {f}
  BY <1>0, SeenLabels DEF Holding
<1>3. ClosedBy' = {} /\ Alone' = {} /\ Counted' = Counted
  BY <1>1, <1>2
<1> QED BY <1>1, <1>3 DEF Exclusion!Open, ClosedBy

(* Whoever begins with the guest to itself finds nobody inside, and a suspend no work
   since its measurement. *)
LEMMA AloneBegins ==
    ASSUME IInv, NEW f \in Suspends \cup Exclusives, pc[f] \in {"looking", "draining"},
           NEW label \in {"capturing", "exclusive"}, pc' = [pc EXCEPT ![f] = label],
           workedSince' = workedSince, activity[mapped].count = 0,
           f \in Suspends => f \notin workedSince
    PROVE  Exclusion!Begin(f)
<1>0. f \in Fibers
  BY DEF Fibers
<1>1. ClosedBy = {f} /\ f \notin Counted /\ Alone = {}
  <2>1. ClosedBy = {f} /\ Alone \subseteq {f}
    BY <1>0, HolderCloses DEF Holding
  <2>2. f \notin Counted /\ f \notin Alone
    BY DEF Counted, Alone
  <2> QED BY <2>1, <2>2
<1>2. Counted = {}
  <2>1. mapped # NoActivity
    BY <1>0 DEF IInv, UseInv
  <2> QED BY <2>1, NobodyCounted DEF IInv
<1>3. ClosedBy' = ClosedBy \cup {f} /\ Alone' = Alone \cup {f} /\ Counted' = Counted \ {f}
  BY <1>0, SeenLabels DEF Holding
<1>4. ClosedBy' = ClosedBy /\ Alone' = {f} /\ Counted' = Counted
  BY <1>1, <1>2, <1>3
<1> QED BY <1>1, <1>2, <1>4 DEF Exclusion!Begin, ClosedBy

(* A suspend measures, closes, has the guest or not, and opens. *)
LEMMA SuspendSteps ==
    ASSUME IInv, Next, NEW s \in Suspends,
           MeasureQuiet(s) \/ WhenIdle(s) \/ Look(s) \/ EndCapture(s)
    PROVE  Exclusion!Measure(s) \/ Exclusion!Close(s) \/ Exclusion!Begin(s) \/ Exclusion!Open(s)
<1>0. s \in Fibers
  BY DEF Fibers
<1>1. CASE MeasureQuiet(s)
  <2>1. /\ pc[s] = "out" /\ pc' = [pc EXCEPT ![s] = "measured"]
        /\ workedSince' = workedSince \ {s}
    BY <1>1 DEF MeasureQuiet, Goto
  <2>2. s \notin ClosedBy /\ s \notin Alone /\ s \notin Counted
    BY <1>0, <2>1, UnseenFiber DEF Holding
  <2>3. ClosedBy' = ClosedBy \ {s} /\ Alone' = Alone \ {s} /\ Counted' = Counted \ {s}
    BY <1>0, <2>1, SeenLabels DEF Holding
  <2>4. ClosedBy' = ClosedBy /\ Alone' = Alone /\ Counted' = Counted
    BY <2>2, <2>3
  <2>5. Exclusion!Measure(s)
    BY <2>1, <2>2, <2>4 DEF Exclusion!Measure, ClosedBy
  <2> QED BY <2>5
<1>2. CASE WhenIdle(s)
  <2>1. TakeGate(s, "looking") /\ workedSince' = workedSince
    BY <1>2 DEF WhenIdle
  <2>2. Exclusion!Close(s)
    BY <2>1, GateCloses
  <2> QED BY <2>2
<1>3. CASE Look(s)
  <2>1. pc[s] = "looking" /\ workedSince' = workedSince
    BY <1>3 DEF Look
  <2>2. mine[s] = mapped
    BY <1>0, <2>1 DEF IInv, UseInv
  <2>3. CASE activity[mine[s]].count = 0 /\ s \notin stale
    <3>1. pc' = [pc EXCEPT ![s] = "capturing"]
      BY <1>3, <2>3 DEF Look, Goto
    <3>2. pc'[s] = "capturing"
      BY <1>0, <3>1 DEF IInv, TypeOK
    <3>3. s \notin workedSince
      BY <2>1, <3>2, CaptureIsQuiet
    <3>4. Exclusion!Begin(s)
      BY <2>1, <2>2, <2>3, <3>1, <3>3, AloneBegins
    <3> QED BY <3>4
  <2>4. CASE ~(activity[mine[s]].count = 0 /\ s \notin stale)
    <3>1. pc' = [pc EXCEPT ![s] = "leaving"]
      BY <1>3, <2>4 DEF Look, Goto
    <3>2. Exclusion!Open(s)
      BY <2>1, <3>1, GateOpens DEF Holding
    <3> QED BY <3>2
  <2> QED BY <2>3, <2>4
<1>4. CASE EndCapture(s)
  <2>1. /\ pc[s] = "capturing" /\ pc' = [pc EXCEPT ![s] = "leaving"]
        /\ workedSince' = workedSince
    BY <1>4 DEF EndCapture, Goto
  <2>2. Exclusion!Open(s)
    BY <2>1, GateOpens DEF Holding
  <2> QED BY <2>2
<1> QED BY <1>1, <1>2, <1>3, <1>4

(* A migration closes, waits until nobody is inside, and opens. *)
LEMMA ExclusiveSteps ==
    ASSUME IInv, NEW e \in Exclusives, Exclusively(e) \/ Drained(e) \/ EndExclusive(e)
    PROVE  Exclusion!Close(e) \/ Exclusion!Begin(e) \/ Exclusion!Open(e)
<1>0. e \in Fibers /\ e \notin Suspends
  BY ConstantsAssumption DEF Fibers
<1>1. CASE Exclusively(e)
  <2>1. TakeGate(e, "draining") /\ workedSince' = workedSince
    BY <1>1 DEF Exclusively
  <2>2. Exclusion!Close(e)
    BY <2>1, GateCloses
  <2> QED BY <2>2
<1>2. CASE Drained(e)
  <2>1. /\ pc[e] = "draining" /\ pc' = [pc EXCEPT ![e] = "exclusive"]
        /\ workedSince' = workedSince /\ activity' = activity /\ mapped' = mapped
    BY <1>2 DEF Drained, Goto
  <2>2. pc'[e] = "exclusive"
    BY <1>0, <2>1 DEF IInv, TypeOK
  <2>3. activity[mapped].count = 0
    BY <1>0, <1>2, <2>1, <2>2, DrainedIInv DEF IInv, QuietInv
  <2>4. Exclusion!Begin(e)
    BY <1>0, <2>1, <2>3, AloneBegins
  <2> QED BY <2>4
<1>3. CASE EndExclusive(e)
  <2>1. /\ pc[e] \in {"exclusive", "draining"} /\ pc' = [pc EXCEPT ![e] = "leaving"]
        /\ workedSince' = workedSince
    BY <1>3 DEF EndExclusive, Goto
  <2>2. Exclusion!Open(e)
    BY <2>1, GateOpens DEF Holding
  <2> QED BY <2>2
<1> QED BY <1>1, <1>2, <1>3

(* GuestActivity implements GuestExclusion: whichever Activity objects the map makes and
   forgets, what work, suspends and migrations see is one guest, open or closed by one. *)
THEOREM Implements == Spec => ImplementsExclusion
<1>1. Init => Exclusion!Init
  BY DEF Init, Exclusion!Init, Counted, Alone, Holding, Fibers
<1>2. IInv /\ [Next]_vars => [Exclusion!Next]_(Exclusion!vars)
  <2> SUFFICES ASSUME IInv, [Next]_vars PROVE [Exclusion!Next]_(Exclusion!vars)
    OBVIOUS
  <2>1. CASE UNCHANGED vars
    BY <2>1 DEF vars, Exclusion!vars, Counted, Alone
  <2>2. ASSUME NEW f \in Fibers, Enter(f) \/ Interrupt(f) \/ Release(f)
        PROVE  [Exclusion!Next]_(Exclusion!vars)
    BY <2>2, ComingAndGoing
  <2>3. ASSUME NEW r \in Runs, CountIn(r) \/ MarkActive(r) \/ CountOut(r) \/ SignalDrained(r)
        PROVE  [Exclusion!Next]_(Exclusion!vars)
    BY <2>3, WorkSteps DEF Exclusion!Next
  <2>4. ASSUME Next, NEW s \in Suspends,
               MeasureQuiet(s) \/ WhenIdle(s) \/ Look(s) \/ EndCapture(s)
        PROVE  [Exclusion!Next]_(Exclusion!vars)
    BY <2>4, SuspendSteps DEF Exclusion!Next
  <2>5. ASSUME NEW e \in Exclusives, Exclusively(e) \/ Drained(e) \/ EndExclusive(e)
        PROVE  [Exclusion!Next]_(Exclusion!vars)
    BY <2>5, ExclusiveSteps DEF Exclusion!Next
  <2> QED BY <2>1, <2>2, <2>3, <2>4, <2>5 DEF Next
<1> QED BY <1>1, <1>2, Inductive, PTL DEF Spec, ImplementsExclusion, Exclusion!Spec
===========================================================================
