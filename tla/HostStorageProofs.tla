------------------------- MODULE HostStorageProofs -------------------------
(***************************************************************************)
(* For any number of apps and slots, and any failures: no two apps come to *)
(* share a device, a volume is called deleted only once it is gone, a      *)
(* retired ZeroFS stays closed, and a freed slot waits its turn.           *)
(*                                                                         *)
(* The invariant ties the three layers together.  What was ever written    *)
(* down of the slots, in memory, in the file or in a save under way, is    *)
(* one slot to an app (SlotInv); a device is attached to the app whose     *)
(* slot it is, or to one that is Stray (DeviceInv); each step of a         *)
(* removal leaves behind what the next relies on (PlanInv); and a removal  *)
(* is remembered anywhere only of a volume that is gone and no longer      *)
(* wanted (GoneInv), since what is wanted gone is never wanted again       *)
(* (HeldInv).                                                              *)
(***************************************************************************)
EXTENDS HostStorage, WellFoundedInduction, TLAPS

Savers == {"pass", "status"}

(* One slot to an app. *)
Distinct(slots) == \A a, b \in Apps : a # b /\ slots[a] = slots[b] => slots[a] = NoSlot

SlotInv ==
    /\ Distinct(slot) /\ Distinct(slotsFile)
    /\ \A p \in Savers : Distinct(saver[p].slots)
    /\ issued # NoSlot => cursor = issued + 1

(* A device is attached to nothing, to the app that has its slot, or to one that was
   left on it unawares. *)
DeviceInv ==
    \A a \in Apps, s \in Slots : device[s] = a => slot[a] = s \/ a \in Stray

(* No device is attached to the app, unless it is Stray. *)
Off(a) == \A s \in Slots : device[s] = a => a \in Stray

Removing == {"teardown", "blocked", "remove", "removeOwn", "stop", "record", "release"}

(* What each step of a provision and of a removal has behind it. *)
PlanOf(a) ==
    /\ plan[a] \in {"provision", "activate", "attach"} => held[a] = "present"
    /\ plan[a] \in Removing => held[a] = "absent"
    /\ plan[a] \in {"activate", "attach"} => a \notin retired
    /\ plan[a] \in {"activate", "removeOwn", "stop", "record", "release"} => a \in Own
    /\ plan[a] = "remove" => a \notin Own
    /\ plan[a] \in {"stop", "record"} => a \notin image
    /\ plan[a] = "record" => a \notin writer
    /\ plan[a] = "release" => a \in retired
    /\ plan[a] \in {"remove", "stop", "record"} \/ a \in retired => Off(a)

PlanInv == \A a \in Apps : PlanOf(a)

(* Wherever a removal is remembered. *)
SaidGone(a) ==
    a \in deleted \/ a \in reported \/ a \in deletedFile \/ \E p \in Savers : a \in saver[p].deleted

GoneInv ==
    \A a \in Apps : SaidGone(a) =>
        a \notin image /\ (a \in Own => a \in retired) /\ held[a] \in {"absent", "gone"}

HeldInv ==
    \A a \in Apps : held[a] \in {"absent", "gone"} => desired[a] \in {"absent", "gone"}

IInv == TypeOK /\ SlotInv /\ DeviceInv /\ PlanInv /\ GoneInv /\ HeldInv /\ RetiredStaysClosed

---------------------------------------------------------------------------
(* The allocator's arithmetic. *)

(* A set of naturals that is not empty has a least one. *)
LEMMA LeastOf ==
    ASSUME NEW T \in SUBSET Nat, T # {}
    PROVE  \E x \in T : \A y \in T : x <= y
<1> DEFINE R == OpToRel(<, Nat)
<1>1. IsWellFoundedOn(R, Nat)
  BY NatLessThanWellFounded
<1>2. \A x, y \in Nat : y < x => <<y, x>> \in R
  BY DEF OpToRel
<1> HIDE DEF R
<1>3. PICK x \in T : \A y \in T : ~ (<<y, x>> \in R)
  BY <1>1, WFMin
<1>4. \A y \in T : ~ (y < x)
  BY <1>2, <1>3
<1>5. \A y \in T : x <= y
  <2> SUFFICES ASSUME NEW y \in T PROVE x <= y
    OBVIOUS
  <2>1. ~ (y < x) /\ x \in Nat /\ y \in Nat
    BY <1>4
  <2> QED BY <2>1
<1> QED BY <1>5

(* Slots are the naturals below a span that is not nought, and NoSlot is none of
   them. *)
LEMMA SlotsAreNat == SlotSpan \in Nat /\ SlotSpan > 0 /\ Slots \subseteq Nat /\ NoSlot \notin Slots
  BY ConstantsAssumption DEF Slots

(* How far a slot is past the cursor, going round. *)
LEMMA Distances ==
    ASSUME NEW c \in 0..SlotSpan, NEW s \in Slots
    PROVE  /\ Wrapped(s - c) \in Nat
           /\ Wrapped(s - c) = IF s < c THEN s - c + SlotSpan ELSE s - c
<1>1. SlotSpan \in Nat /\ SlotSpan > 0 /\ s \in 0..(SlotSpan - 1)
  BY SlotsAreNat DEF Slots
<1>2. CASE s < c
  <2>1. (s - c) % SlotSpan = s - c + SlotSpan
    BY <1>1, <1>2
  <2> QED BY <1>1, <1>2, <2>1 DEF Wrapped
<1>3. CASE ~ (s < c)
  <2>1. (s - c) % SlotSpan = s - c
    BY <1>1, <1>3
  <2> QED BY <1>1, <1>3, <2>1 DEF Wrapped
<1> QED BY <1>2, <1>3

(* What nextFree chooses from are slots. *)
LEMMA FreeAreSlots == \A a \in Apps : Free(a) \subseteq Slots
  BY ConstantsAssumption DEF Free, Slots

(* nextFree finds a free slot, and none that is free is nearer to the cursor. *)
LEMMA NextFreeFound ==
    ASSUME TypeOK, NEW a \in Apps, Free(a) # {}
    PROVE  /\ NextFree(a) \in Free(a)
           /\ \A t \in Free(a) : Wrapped(NextFree(a) - cursor) <= Wrapped(t - cursor)
<1> DEFINE distance(s) == Wrapped(s - cursor)
           T == {distance(s) : s \in Free(a)}
<1>1. cursor \in 0..SlotSpan
  BY DEF TypeOK
<1>2. T \in SUBSET Nat /\ T # {}
  BY <1>1, FreeAreSlots, Distances
<1>3. \E x \in T : \A y \in T : x <= y
  BY <1>2, LeastOf
<1>4. \E s \in Free(a) : \A t \in Free(a) : distance(s) <= distance(t)
  BY <1>3
<1> QED BY <1>4 DEF NextFree

(* The slot that the cursor is just past is the last to be come round to. *)
LEMMA LastToBeGiven ==
    ASSUME TypeOK, NEW a \in Apps, Free(a) # {}, NextFree(a) = issued, cursor = issued + 1
    PROVE  Free(a) = {issued}
<1>1. issued \in Slots /\ cursor \in 0..SlotSpan
  BY NextFreeFound, FreeAreSlots DEF TypeOK
<1>2. Wrapped(issued - cursor) = issued - cursor + SlotSpan /\ issued < cursor
  <2>1. issued < cursor
    BY <1>1, SlotsAreNat
  <2> QED BY <1>1, <2>1, Distances
<1>3. ASSUME NEW t \in Free(a) PROVE t = issued
  <2>1. t \in Slots
    BY FreeAreSlots
  <2>2. Wrapped(issued - cursor) <= Wrapped(t - cursor)
    BY NextFreeFound
  <2>3. Wrapped(t - cursor) = IF t < cursor THEN t - cursor + SlotSpan ELSE t - cursor
    BY <1>1, <2>1, Distances
  <2>4. t \in 0..(SlotSpan - 1) /\ issued \in 0..(SlotSpan - 1) /\ SlotSpan \in Nat
    BY <1>1, <2>1, SlotsAreNat DEF Slots
  <2> QED BY <1>2, <2>2, <2>3, <2>4
<1> QED BY <1>3, NextFreeFound

(* What giving a slot away comes to. *)
LEMMA Given ==
    ASSUME TypeOK, NEW a \in Apps, Give(a)
    PROVE  /\ issued' \in Free(a) /\ issued' \in Slots
           /\ slot[a] = NoSlot /\ slot' = [slot EXCEPT ![a] = issued']
           /\ cursor' = issued' + 1 /\ cursor' \in 0..SlotSpan
<1>1. NextFree(a) \in Free(a) /\ NextFree(a) \in Slots
  BY NextFreeFound, FreeAreSlots DEF Give
<1>2. NextFree(a) + 1 \in 0..SlotSpan
  BY <1>1, SlotsAreNat DEF Slots
<1> QED BY <1>1, <1>2 DEF Give

---------------------------------------------------------------------------
(* Types. *)

Plans == {"none", "provision", "blocked", "teardown"} \cup InTheMiddle
Wishes == {"new", "present", "absent", "gone"}
Phases == {"idle", "restart", "stops", "volumes", "starts", "teardowns", "save"}
SaverRecords == [pc : {"idle", "off", "slots", "rest"}, slots : SlotOf, deleted : SUBSET Apps]

(* TypeOK in parts, by what a step changes together. *)
WishTyped == desired \in [Apps -> Wishes] /\ held \in [Apps -> Wishes]
SlotsTyped ==
    /\ slot \in SlotOf /\ slotsFile \in SlotOf
    /\ cursor \in 0..SlotSpan /\ cursorFile \in 0..SlotSpan
    /\ issued \in Slots \cup {NoSlot}
SaidTyped == deleted \subseteq Apps /\ reported \subseteq Apps /\ deletedFile \subseteq Apps
PassTyped ==
    /\ phase \in Phases /\ plan \in [Apps -> Plans] /\ faults \in 0..MaxFaults
    /\ unsaved \subseteq Apps /\ undetached \subseteq Apps /\ dropped \subseteq Apps
DeferredTyped == deferred \in BOOLEAN
SaverTyped == saver \in [Savers -> SaverRecords]
HostTyped ==
    /\ device \in [Slots -> Apps \cup {NoApp}] /\ image \subseteq Apps
    /\ staged \subseteq Own /\ writer \subseteq Own /\ retired \subseteq Own /\ registered \subseteq Own
    /\ guest \in [Apps -> {"none", "up", "down"}]

(* The type invariant, by the part of the state it speaks of. *)
LEMMA TypeParts ==
    TypeOK <=> /\ WishTyped /\ SlotsTyped /\ SaidTyped /\ PassTyped /\ DeferredTyped
               /\ SaverTyped /\ HostTyped
  BY DEF TypeOK, WishTyped, SlotsTyped, SaidTyped, PassTyped, DeferredTyped, SaverTyped, HostTyped, Wishes, Phases,
         Plans, Savers, SaverRecords

(* The same of the next state. *)
LEMMA TypePartsNext ==
    /\ WishTyped' /\ SlotsTyped' /\ SaidTyped' /\ PassTyped' /\ DeferredTyped'
    /\ SaverTyped' /\ HostTyped'
    => TypeOK'
  BY TypeParts, PTL

(* A plan that moves on moves on for its own app only. *)
LEMMA StepTyped ==
    ASSUME TypeOK, NEW a \in Apps, NEW next \in Plans, Step(a, next)
    PROVE  /\ plan' \in [Apps -> Plans] /\ plan'[a] = next
           /\ \A b \in Apps : b # a => plan'[b] = plan[b]
  BY DEF TypeOK, Step, Plans

(* Faults stay within their bound. *)
LEMMA FaultTyped == TypeOK /\ Fault => faults' \in 0..MaxFaults
  BY ConstantsAssumption DEF TypeOK, Fault

(* A save that is not under way holds no reading of the slots and no deletions. *)
LEMMA SavingTyped == /\ NoSlots \in SlotOf /\ NotSaving \in SaverRecords /\ NotRunning \in SaverRecords
                     /\ NotSaving.slots = NoSlots /\ NotSaving.deleted = {}
                     /\ NotRunning.slots = NoSlots /\ NotRunning.deleted = {}
  BY DEF NotSaving, NotRunning, SaverRecords, NoSlots, SlotOf

(* However a pass ends, what it leaves of the savers is what they were, or idle. *)
LEMMA PassEndsTyped ==
    ASSUME NEW saving \in [Savers -> SaverRecords], PassEnds(saving)
    PROVE  /\ phase' = "idle" /\ plan' = NoPlan /\ plan' \in [Apps -> Plans]
           /\ saver' \in [Savers -> SaverRecords]
           /\ \A p \in Savers : saver'[p] = saving[p] \/ saver'[p] = NotSaving
<1>1. phase' = "idle" /\ plan' = NoPlan /\ plan' \in [Apps -> Plans]
  BY DEF PassEnds, NoPlan, Plans
<1>2. CASE saving.status = NotRunning
  <2>1. saver' = [saving EXCEPT !["status"] = NotSaving]
    BY <1>2 DEF PassEnds
  <2> QED BY <1>1, <2>1, SavingTyped DEF Savers
<1>3. CASE saving.status # NotRunning
  BY <1>1, <1>3 DEF PassEnds
<1> QED BY <1>2, <1>3

(* A new host satisfies the invariant. *)
LEMMA InitIInv == Init => IInv
<1> SUFFICES ASSUME Init PROVE IInv
  OBVIOUS
<1>1. NoSlots \in SlotOf /\ Distinct(NoSlots)
  BY DEF NoSlots, SlotOf, Distinct
<1>2. /\ NotSaving = [pc |-> "idle", slots |-> NoSlots, deleted |-> {}]
      /\ \A p \in Savers : saver[p] = NotSaving
  BY DEF Init, NotSaving, Savers
<1>3. TypeOK
  <2>1. SlotsTyped
    BY <1>1, SlotsAreNat, ConstantsAssumption DEF Init, SlotsTyped
  <2>2. WishTyped /\ SaidTyped
    BY DEF Init, WishTyped, SaidTyped, Wishes
  <2>3. PassTyped
    BY ConstantsAssumption DEF Init, PassTyped, Phases, Plans, NoPlan
  <2>6. DeferredTyped
    BY DEF Init, DeferredTyped
  <2>4. SaverTyped
    BY SavingTyped DEF Init, SaverTyped, Savers
  <2>5. HostTyped
    BY DEF Init, HostTyped
  <2> QED BY <2>1, <2>2, <2>3, <2>4, <2>5, <2>6, TypeParts
<1>4. SlotInv
  <2>1. \A p \in Savers : Distinct(saver[p].slots)
    BY <1>1, <1>2, SavingTyped
  <2> QED BY <1>1, <2>1 DEF Init, SlotInv
<1>6. GoneInv
  BY <1>2, SavingTyped DEF Init, GoneInv, SaidGone
<1>5. DeviceInv /\ PlanInv /\ HeldInv /\ RetiredStaysClosed
  BY ConstantsAssumption
  DEF Init, DeviceInv, PlanInv, PlanOf, Off, Stray, Removing, HeldInv, RetiredStaysClosed, NoPlan
<1> QED BY <1>3, <1>4, <1>5, <1>6 DEF IInv

---------------------------------------------------------------------------
(* What each step leaves alone. *)

(* Only the control plane changes what is wanted, and only the beginning of a pass
   what a pass holds. *)
LEMMA WishFrame ==
    ASSUME [Next]_vars
    PROVE  \/ UNCHANGED <<desired, held>>
           \/ \E a \in Apps : Deploy(a) \/ Delete(a) \/ Acknowledge(a)
           \/ Begin(desired) \/ Begin(held)
  BY DEF Next, vars, Pass, Faults, StatusSaves, ControlPlane, Poll, Restore, ApplyStops, EndVolumes,
         ApplyStarts, EndTeardowns, SaveBegins, Provision, ProvisionRefused, Activate, Attach,
         StartAllocates, StartExhausted, Teardown, Remove, Retire, RemoveOwn, StopWriter,
         RecordRetirement, Release, SaveSlots, SaveRest, PassFails, ProvisionFails, TeardownFails, Crash

(* The slots in memory, and the cursor. *)
LEMMA SlotFrame ==
    ASSUME [Next]_vars
    PROVE  \/ UNCHANGED <<slot, cursor, issued>>
           \/ \E a \in Apps : Give(a) /\ (Provision(a) \/ StartAllocates(a))
           \/ \E a \in Apps : Removed(a) /\ UNCHANGED <<cursor, issued>> /\ (Remove(a) \/ Release(a))
           \/ \E reboot \in BOOLEAN : Crash(reboot)
  BY DEF Next, vars, memory, history, Pass, Faults, StatusSaves, ControlPlane, Deploy, Delete,
         Acknowledge, Poll, Restore, Begin, ApplyStops, EndVolumes, ApplyStarts, EndTeardowns,
         SaveBegins, Provision, Allocate, ProvisionRefused, Activate, Attach, StartAllocates,
         StartExhausted, Teardown, Remove, Retire, RemoveOwn, StopWriter, RecordRetirement, Release,
         SaveSlots, SaveRest, PassFails, ProvisionFails, TeardownFails

(* The removals remembered. *)
LEMMA SaidFrame ==
    ASSUME [Next]_vars
    PROVE  \/ UNCHANGED <<deleted, reported>>
           \/ EndVolumes
           \/ \E a \in Apps : Removed(a) /\ (Remove(a) \/ Release(a))
           \/ \E reboot \in BOOLEAN : Crash(reboot)
  BY DEF Next, vars, memory, Pass, Faults, StatusSaves, ControlPlane, Deploy, Delete,
         Acknowledge, Poll, Restore, Begin, ApplyStops, ApplyStarts, EndTeardowns,
         SaveBegins, Provision, ProvisionRefused, Activate, Attach, StartAllocates,
         StartExhausted, Teardown, Remove, Retire, RemoveOwn, StopWriter, RecordRetirement, Release,
         SaveSlots, SaveRest, PassFails, ProvisionFails, TeardownFails

(* Only a save writes the state files. *)
LEMMA FileFrame ==
    ASSUME [Next]_vars
    PROVE  UNCHANGED files \/ \E p \in Savers : SaveSlots(p) \/ SaveRest(p)
  BY DEF Next, vars, Pass, Faults, StatusSaves, ControlPlane, Deploy, Delete,
         Acknowledge, Poll, Restore, Begin, ApplyStops, EndVolumes, ApplyStarts, EndTeardowns,
         SaveBegins, Provision, ProvisionRefused, Activate, Attach, StartAllocates,
         StartExhausted, Teardown, Remove, Retire, RemoveOwn, StopWriter, RecordRetirement, Release,
         PassFails, ProvisionFails, TeardownFails, Crash, Savers

(* What a save holds is changed by its own steps, by the end of its pass and by a
   crash. *)
LEMMA SaverFrame ==
    ASSUME [Next]_vars
    PROVE  \/ UNCHANGED saver \/ PassEnds(saver)
           \/ \E p \in Savers : SaveBegins(p) \/ SaveSlots(p) \/ SaveRest(p)
           \/ \E reboot \in BOOLEAN : Crash(reboot)
  BY DEF Next, vars, Pass, Faults, StatusSaves, ControlPlane, Deploy, Delete,
         Acknowledge, Poll, Restore, Begin, ApplyStops, EndVolumes, ApplyStarts, EndTeardowns,
         Provision, ProvisionRefused, Activate, Attach, StartAllocates,
         StartExhausted, Teardown, Remove, Retire, RemoveOwn, StopWriter, RecordRetirement, Release,
         PassFails, ProvisionFails, TeardownFails, Savers

(* The NBD devices, the slots a crash lost and the devices a teardown left. *)
LEMMA DeviceFrame ==
    ASSUME [Next]_vars
    PROVE  \/ UNCHANGED <<device, unsaved, undetached>>
           \/ \E a \in Apps :
                /\ UNCHANGED unsaved /\ undetached' \in {undetached, undetached \cup {a}}
                /\ \/ Attach(a) \/ ProvisionFails(a) \/ Teardown(a) \/ RemoveOwn(a)
                   \/ TeardownFails(a)
           \/ \E reboot \in BOOLEAN : Crash(reboot)
  BY DEF Next, vars, host, history, Pass, Faults, StatusSaves, ControlPlane, Deploy, Delete,
         Acknowledge, Poll, Restore, Begin, ApplyStops, EndVolumes, ApplyStarts, EndTeardowns,
         SaveBegins, Provision, ProvisionRefused, Activate, Attach, StartAllocates,
         StartExhausted, Teardown, Remove, Retire, RemoveOwn, StopWriter, RecordRetirement, Release,
         SaveSlots, SaveRest, PassFails, ProvisionFails, TeardownFails

(* The device files, the retirements, and the ZeroFS of an app's own. *)
LEMMA VolumeFrame ==
    ASSUME [Next]_vars
    PROVE  \/ UNCHANGED <<image, retired, writer>>
           \/ \E a \in Apps :
                \/ (Attach(a) \/ ProvisionFails(a)) /\ UNCHANGED <<retired, writer>>
                \/ (Remove(a) \/ RemoveOwn(a)) /\ UNCHANGED <<retired, writer>>
                \/ Open(a) /\ (Activate(a) \/ Retire(a)) /\ UNCHANGED <<image, retired>>
                \/ StopWriter(a) /\ UNCHANGED <<image, retired>>
                \/ RecordRetirement(a) /\ UNCHANGED <<image, writer>>
           \/ writer' = {} /\ UNCHANGED <<image, retired>>
  BY DEF Next, vars, host, Pass, Faults, StatusSaves, ControlPlane, Deploy, Delete,
         Acknowledge, Poll, Restore, Begin, ApplyStops, EndVolumes, ApplyStarts, EndTeardowns,
         SaveBegins, Provision, ProvisionRefused, Activate, Attach, StartAllocates,
         StartExhausted, Teardown, Remove, Retire, RemoveOwn, StopWriter, RecordRetirement, Release,
         SaveSlots, SaveRest, PassFails, ProvisionFails, TeardownFails, Crash

---------------------------------------------------------------------------
(* What a step keeps of each part. *)

(* A removal of what remembers a slot for an app leaves the others distinct. *)
LEMMA RemovedSlots ==
    ASSUME slot \in SlotOf, Distinct(slot), NEW a \in Apps, Removed(a)
    PROVE  /\ slot' \in SlotOf /\ Distinct(slot')
           /\ slot'[a] = NoSlot /\ \A b \in Apps : b # a => slot'[b] = slot[b]
  BY DEF Removed, SlotOf, Distinct

(* A slot given to an app was nobody's. *)
LEMMA GivenSlots ==
    ASSUME TypeOK, Distinct(slot), NEW a \in Apps, Give(a)
    PROVE  /\ slot' \in SlotOf /\ Distinct(slot')
           /\ \A b \in Apps : b # a => slot'[b] = slot[b]
<1>1. issued' \in Free(a) /\ issued' \in Slots /\ slot' = [slot EXCEPT ![a] = issued']
  BY Given
<1>2. slot \in SlotOf
  BY DEF TypeOK
<1>3. \A b \in Apps : slot[b] # issued'
  BY <1>1, SlotsAreNat DEF Free, Taken
<1> QED BY <1>1, <1>2, <1>3 DEF SlotOf, Distinct

(* What was once wanted gone, and what a pass holds of it, is never wanted again. *)
LEMMA WishKept ==
    ASSUME IInv, [Next]_vars
    PROVE  WishTyped' /\ HeldInv'
<1>1. WishTyped /\ HeldInv
  BY TypeParts DEF IInv
<1>2. CASE UNCHANGED <<desired, held>>
  BY <1>1, <1>2 DEF WishTyped, HeldInv
<1>3. ASSUME NEW a \in Apps, Deploy(a) \/ Delete(a) \/ Acknowledge(a) PROVE WishTyped' /\ HeldInv'
  BY <1>1, <1>3 DEF WishTyped, HeldInv, Wishes, Deploy, Delete, Acknowledge
<1>4. CASE Begin(desired) \/ Begin(held)
  BY <1>1, <1>4 DEF WishTyped, HeldInv, Begin
<1> QED BY <1>2, <1>3, <1>4, WishFrame

(* A save's reading of the slots is one the allocator once had, in which no two apps
   share a slot; the deletions it writes were said in memory. *)
LEMMA SaverKept ==
    ASSUME IInv, [Next]_vars
    PROVE  /\ SaverTyped'
           /\ \A p \in Savers : Distinct(saver'[p].slots)
           /\ \A p \in Savers : saver'[p].deleted \subseteq saver[p].deleted \cup deleted
<1>1. /\ SaverTyped /\ slot \in SlotOf /\ deleted \subseteq Apps
      /\ \A p \in Savers : Distinct(saver[p].slots) /\ Distinct(slot)
  BY TypeParts DEF IInv, SlotInv, SlotsTyped, SaidTyped
<1>2. Distinct(NoSlots)
  BY DEF Distinct, NoSlots
<1>3. CASE UNCHANGED saver
  BY <1>1, <1>3 DEF SaverTyped
<1>4. CASE PassEnds(saver)
  BY <1>1, <1>2, <1>4, PassEndsTyped, SavingTyped DEF SaverTyped
<1>5. ASSUME NEW p \in Savers, SaveBegins(p)
      PROVE  /\ SaverTyped'
             /\ \A q \in Savers : Distinct(saver'[q].slots)
             /\ \A q \in Savers : saver'[q].deleted \subseteq saver[q].deleted \cup deleted
  <2> DEFINE new == [pc |-> "slots", slots |-> slot, deleted |-> deleted]
  <2>1. new \in SaverRecords /\ new.slots = slot /\ new.deleted = deleted
    BY <1>1 DEF SaverRecords
  <2>2. saver' = [saver EXCEPT ![p] = new]
    BY <1>5 DEF SaveBegins
  <2> HIDE DEF new
  <2> QED BY <1>1, <2>1, <2>2 DEF SaverTyped
<1>6. ASSUME NEW p \in Savers, SaveSlots(p)
      PROVE  /\ SaverTyped'
             /\ \A q \in Savers : Distinct(saver'[q].slots)
             /\ \A q \in Savers : saver'[q].deleted \subseteq saver[q].deleted \cup deleted
  <2> DEFINE new == [saver[p] EXCEPT !.pc = "rest", !.slots = NoSlots]
  <2>0. saver[p] \in SaverRecords
    BY <1>1 DEF SaverTyped
  <2>1. new \in SaverRecords /\ new.slots = NoSlots /\ new.deleted = saver[p].deleted
    BY <2>0, SavingTyped DEF SaverRecords
  <2>2. saver' = [saver EXCEPT ![p] = new]
    BY <1>1, <1>6, <2>0 DEF SaveSlots, SaverTyped, SaverRecords
  <2> HIDE DEF new
  <2> QED BY <1>1, <1>2, <2>1, <2>2 DEF SaverTyped
<1>7. ASSUME NEW p \in Savers, SaveRest(p)
      PROVE  /\ SaverTyped'
             /\ \A q \in Savers : Distinct(saver'[q].slots)
             /\ \A q \in Savers : saver'[q].deleted \subseteq saver[q].deleted \cup deleted
  <2> DEFINE done == [saver EXCEPT ![p] = NotSaving]
  <2>1. /\ done \in [Savers -> SaverRecords]
        /\ \A q \in Savers : done[q] = saver[q] \/ done[q] = NotSaving
    BY <1>1, SavingTyped DEF SaverTyped
  <2>2. PassEnds(done) \/ saver' = done
    BY <1>7 DEF SaveRest
  <2> HIDE DEF done
  <2>3. SaverTyped' /\ \A q \in Savers : saver'[q] = saver[q] \/ saver'[q] = NotSaving
    BY <2>1, <2>2, PassEndsTyped DEF SaverTyped
  <2> QED BY <1>1, <1>2, <2>3, SavingTyped
<1>8. ASSUME NEW reboot \in BOOLEAN, Crash(reboot)
      PROVE  /\ SaverTyped'
             /\ \A q \in Savers : Distinct(saver'[q].slots)
             /\ \A q \in Savers : saver'[q].deleted \subseteq saver[q].deleted \cup deleted
  <2>1. saver' = [pass |-> NotSaving, status |-> NotRunning]
    BY <1>8 DEF Crash
  <2>2. SaverTyped' /\ \A q \in Savers : saver'[q] = NotSaving \/ saver'[q] = NotRunning
    BY <2>1, SavingTyped DEF SaverTyped, Savers
  <2> QED BY <1>2, <2>2, SavingTyped
<1> QED BY <1>3, <1>4, <1>5, <1>6, <1>7, <1>8, SaverFrame

(* No two apps share a slot in memory, in the file or in a reading that may yet be
   written. *)
LEMMA SlotKept ==
    ASSUME IInv, [Next]_vars
    PROVE  SlotsTyped' /\ SlotInv'
<1>1. /\ SlotsTyped /\ Distinct(slot) /\ Distinct(slotsFile) /\ TypeOK /\ SaverTyped
      /\ \A p \in Savers : Distinct(saver[p].slots)
      /\ issued # NoSlot => cursor = issued + 1
  BY TypeParts DEF IInv, SlotInv
<1>2. slotsFile' \in SlotOf /\ Distinct(slotsFile') /\ cursorFile' \in 0..SlotSpan
  <2>1. CASE UNCHANGED files
    BY <1>1, <2>1 DEF files, SlotsTyped
  <2>2. ASSUME NEW p \in Savers, SaveSlots(p)
        PROVE  slotsFile' \in SlotOf /\ Distinct(slotsFile') /\ cursorFile' \in 0..SlotSpan
    BY <1>1, <2>2 DEF SaveSlots, SlotsTyped, SaverTyped, SaverRecords
  <2>3. ASSUME NEW p \in Savers, SaveRest(p)
        PROVE  slotsFile' \in SlotOf /\ Distinct(slotsFile') /\ cursorFile' \in 0..SlotSpan
    BY <1>1, <2>3 DEF SaveRest, SlotsTyped
  <2> QED BY <2>1, <2>2, <2>3, FileFrame
<1>3. /\ slot' \in SlotOf /\ Distinct(slot') /\ cursor' \in 0..SlotSpan
      /\ issued' \in Slots \cup {NoSlot}
      /\ issued' # NoSlot => cursor' = issued' + 1
  <2>1. CASE UNCHANGED <<slot, cursor, issued>>
    BY <1>1, <2>1 DEF SlotsTyped
  <2>2. ASSUME NEW a \in Apps, Give(a)
        PROVE  /\ slot' \in SlotOf /\ Distinct(slot') /\ cursor' \in 0..SlotSpan
               /\ issued' \in Slots /\ cursor' = issued' + 1
    BY <1>1, <2>2, Given, GivenSlots
  <2>3. ASSUME NEW a \in Apps, Removed(a), UNCHANGED <<cursor, issued>>
        PROVE  /\ slot' \in SlotOf /\ Distinct(slot') /\ cursor' \in 0..SlotSpan
               /\ issued' \in Slots \cup {NoSlot}
               /\ issued' # NoSlot => cursor' = issued' + 1
    BY <1>1, <2>3, RemovedSlots DEF SlotsTyped
  <2>4. ASSUME NEW reboot \in BOOLEAN, Crash(reboot)
        PROVE  /\ slot' \in SlotOf /\ Distinct(slot') /\ cursor' \in 0..SlotSpan
               /\ issued' = NoSlot
    BY <1>1, <2>4 DEF Crash, SlotsTyped
  <2> QED BY <2>1, <2>2, <2>3, <2>4, SlotFrame
<1>4. \A p \in Savers : Distinct(saver'[p].slots)
  BY SaverKept
<1> QED BY <1>2, <1>3, <1>4 DEF SlotsTyped, SlotInv

(* A step on one volume. *)
LEMMA PlanFrame ==
    ASSUME [Next]_vars
    PROVE  \/ UNCHANGED plan \/ Begin(desired) \/ Begin(held) \/ plan' = NoPlan
           \/ \E a \in Apps, next \in Plans : Step(a, next)
  BY DEF Next, vars, Pass, Faults, StatusSaves, ControlPlane, Deploy, Delete, Acknowledge, Poll,
         Restore, ApplyStops, EndVolumes, ApplyStarts, EndTeardowns, SaveBegins, Provision,
         ProvisionRefused, Activate, Attach, StartAllocates, StartExhausted, Teardown, Remove, Retire,
         RemoveOwn, StopWriter, RecordRetirement, Release, SaveSlots, SaveRest, PassFails,
         ProvisionFails, TeardownFails, Crash, PassEnds, Plans, InTheMiddle

(* planVolumes provisions what is wanted and tears down what is not, and nothing
   else. *)
LEMMA PlannedTyped ==
    ASSUME NEW a \in Apps, NEW wish, NEW answering
    PROVE  /\ PlanVolume(a, wish, answering) \in {"none", "provision", "blocked", "teardown"}
           /\ PlanVolume(a, wish, answering) = "provision" => wish = "present"
           /\ PlanVolume(a, wish, answering) \in {"blocked", "teardown"} => wish = "absent"
  BY DEF PlanVolume

(* A pass that begins plans for every app from the wish it holds. *)
LEMMA Begun ==
    ASSUME NEW wish, Begin(wish)
    PROVE  /\ plan' \in [Apps -> Plans] /\ held' = wish
           /\ \A a \in Apps : /\ plan'[a] \in {"none", "provision", "blocked", "teardown"}
                              /\ plan'[a] = "provision" => held'[a] = "present"
                              /\ plan'[a] \in {"blocked", "teardown"} => held'[a] = "absent"
<1>1. PICK answering \in SUBSET Apps : plan' = [a \in Apps |-> PlanVolume(a, wish[a], answering)]
  BY DEF Begin
<1>2. held' = wish
  BY DEF Begin
<1> QED BY <1>1, <1>2, PlannedTyped DEF Plans

(* Which steps fail, drop a removal, move the pass on and write deferredWork. *)
LEMMA FaultsFrame ==
    ASSUME [Next]_vars
    PROVE  /\ UNCHANGED faults \/ Fault
           /\ UNCHANGED dropped \/ dropped' = Apps \/ \E a \in Apps : dropped' = dropped \cup ({a} \ Own)
           /\ phase' \in {phase, "idle", "restart", "stops", "volumes", "starts", "teardowns", "save"}
           /\ UNCHANGED deferred \/ Begin(desired) \/ Begin(held) \/ EndTeardowns \/ deferred' = FALSE
  BY DEF Next, vars, history, memory, Pass, Faults, StatusSaves, ControlPlane, Deploy, Delete,
         Acknowledge, Poll, Restore, Begin, ApplyStops, EndVolumes, ApplyStarts, EndTeardowns,
         SaveBegins, Provision, ProvisionRefused, Activate, Attach, StartAllocates, StartExhausted,
         Teardown, Remove, Retire, RemoveOwn, StopWriter, RecordRetirement, Release, SaveSlots,
         SaveRest, PassFails, ProvisionFails, TeardownFails, Crash, PassEnds

(* deferredWork is a truth value. *)
LEMMA DeferredKept ==
    ASSUME IInv, [Next]_vars
    PROVE  DeferredTyped'
<1>1. DeferredTyped
  BY TypeParts DEF IInv
<1>2. CASE UNCHANGED deferred \/ deferred' = FALSE
  BY <1>1, <1>2 DEF DeferredTyped
<1>3. ASSUME NEW wish, Begin(wish) PROVE DeferredTyped'
  BY <1>3 DEF DeferredTyped, Begin, DeferredBy
<1>4. CASE EndTeardowns
  BY <1>1, <1>4 DEF DeferredTyped, EndTeardowns
<1> QED BY <1>2, <1>3, <1>4, FaultsFrame

(* A pass keeps its phase, its plans and its bounds. *)
LEMMA PassKept ==
    ASSUME IInv, [Next]_vars
    PROVE  PassTyped'
<1>1. PassTyped /\ TypeOK
  BY TypeParts DEF IInv
<1>2. plan' \in [Apps -> Plans]
  <2>1. CASE UNCHANGED plan \/ plan' = NoPlan
    BY <1>1, <2>1 DEF PassTyped, NoPlan, Plans
  <2>2. CASE Begin(desired) \/ Begin(held)
    BY <2>2, Begun
  <2>3. ASSUME NEW a \in Apps, NEW next \in Plans, Step(a, next) PROVE plan' \in [Apps -> Plans]
    BY <1>1, <2>3, StepTyped
  <2> QED BY <2>1, <2>2, <2>3, PlanFrame
<1>3. faults' \in 0..MaxFaults
  BY <1>1, FaultsFrame, FaultTyped DEF PassTyped
<1>4. dropped' \subseteq Apps
  BY <1>1, FaultsFrame DEF PassTyped
<1>5. phase' \in Phases
  BY <1>1, FaultsFrame DEF PassTyped, Phases
<1>6. unsaved' \subseteq Apps /\ undetached' \subseteq Apps
  <2>1. CASE UNCHANGED <<unsaved, undetached>>
    BY <1>1, <2>1 DEF PassTyped
  <2>2. ASSUME NEW a \in Apps, UNCHANGED unsaved, undetached' \in {undetached, undetached \cup {a}}
        PROVE  unsaved' \subseteq Apps /\ undetached' \subseteq Apps
    BY <1>1, <2>2 DEF PassTyped
  <2>3. ASSUME NEW reboot \in BOOLEAN, Crash(reboot)
        PROVE  unsaved' \subseteq Apps /\ undetached' \subseteq Apps
    BY <1>1, <2>3 DEF Crash, PassTyped
  <2> QED BY <2>1, <2>2, <2>3, DeviceFrame
<1> QED BY <1>2, <1>3, <1>4, <1>5, <1>6 DEF PassTyped

(* What is said to be deleted, in memory and on file, are apps. *)
LEMMA SaidKept ==
    ASSUME IInv, [Next]_vars
    PROVE  SaidTyped'
<1>1. SaidTyped /\ SaverTyped
  BY TypeParts DEF IInv
<1>2. deleted' \subseteq Apps /\ reported' \subseteq Apps
  BY <1>1, SaidFrame DEF SaidTyped, EndVolumes, Removed, Crash
<1>3. deletedFile' \subseteq Apps
  <2>1. CASE UNCHANGED files
    BY <1>1, <2>1 DEF SaidTyped, files
  <2>2. ASSUME NEW p \in Savers, SaveSlots(p) \/ SaveRest(p) PROVE deletedFile' \subseteq Apps
    BY <1>1, <2>2 DEF SaidTyped, SaverTyped, SaverRecords, SaveSlots, SaveRest
  <2> QED BY <2>1, <2>2, FileFrame
<1> QED BY <1>2, <1>3 DEF SaidTyped

(* Guests change with stops, starts and crashes; an app is staged or registered only
   by its activation or its retirement. *)
LEMMA GuestFrame ==
    ASSUME [Next]_vars
    PROVE  /\ \/ UNCHANGED guest \/ ApplyStops \/ ApplyStarts
              \/ \E reboot \in BOOLEAN : Crash(reboot)
           /\ \/ staged' \subseteq staged /\ registered' \subseteq registered
              \/ \E a \in Apps : Open(a) /\ (Activate(a) \/ Retire(a))
  BY DEF Next, vars, host, memory, Pass, Faults, StatusSaves, ControlPlane, Deploy, Delete,
         Acknowledge, Poll, Restore, Begin, EndVolumes, EndTeardowns,
         ApplyStops, ApplyStarts,
         SaveBegins, Provision, ProvisionRefused, Activate, Attach, StartAllocates, StartExhausted,
         Teardown, Remove, Retire, RemoveOwn, StopWriter, RecordRetirement, Release, SaveSlots,
         SaveRest, PassFails, ProvisionFails, TeardownFails, Crash

(* A device is attached to an app or to none. *)
LEMMA DeviceTyped ==
    ASSUME IInv, [Next]_vars
    PROVE  device' \in [Slots -> Apps \cup {NoApp}]
<1>1. device \in [Slots -> Apps \cup {NoApp}]
  BY DEF IInv, TypeOK
<1>2. CASE UNCHANGED device
  BY <1>1, <1>2
<1>3. ASSUME NEW a \in Apps,
             \/ Attach(a) \/ ProvisionFails(a) \/ Teardown(a) \/ RemoveOwn(a)
             \/ TeardownFails(a)
      PROVE  device' \in [Slots -> Apps \cup {NoApp}]
  BY <1>1, <1>3 DEF Attach, ProvisionFails, Teardown, RemoveOwn, TeardownFails, Detached
<1>4. ASSUME NEW reboot \in BOOLEAN, Crash(reboot) PROVE device' \in [Slots -> Apps \cup {NoApp}]
  BY <1>1, <1>4 DEF Crash
<1> QED BY <1>2, <1>3, <1>4, DeviceFrame

(* The host's devices, images, writers and guests keep their shapes. *)
LEMMA HostKept ==
    ASSUME IInv, [Next]_vars
    PROVE  HostTyped'
<1>1. HostTyped /\ PlanInv /\ Own \subseteq Apps
  BY TypeParts, ConstantsAssumption DEF IInv
<1>2. \A a \in Apps : Activate(a) \/ Retire(a) \/ StopWriter(a) \/ RecordRetirement(a) => a \in Own
  BY <1>1 DEF PlanInv, PlanOf, Activate, Retire, StopWriter, RecordRetirement
<1>3. image' \subseteq Apps /\ writer' \subseteq Own /\ retired' \subseteq Own
  BY <1>1, <1>2, VolumeFrame
  DEF HostTyped, Attach, ProvisionFails, Remove, RemoveOwn, Open, StopWriter, RecordRetirement
<1>4. staged' \subseteq Own /\ registered' \subseteq Own
  BY <1>1, <1>2, GuestFrame DEF HostTyped, Open
<1>5. guest' \in [Apps -> {"none", "up", "down"}]
  BY <1>1, GuestFrame DEF HostTyped, ApplyStops, ApplyStarts, Crash
<1> QED BY <1>3, <1>4, <1>5, DeviceTyped DEF HostTyped

(* Every step keeps the type invariant. *)
LEMMA TypeKept ==
    ASSUME IInv, [Next]_vars
    PROVE  TypeOK'
  BY WishKept, SlotKept, SaidKept, PassKept, DeferredKept, SaverKept, HostKept, TypePartsNext

---------------------------------------------------------------------------

(* A device is only ever attached for the app that has its slot; its slot is given up
   only once it has been detached, or with the agent. *)
LEMMA DeviceKept ==
    ASSUME IInv, [Next]_vars
    PROVE  DeviceInv'
<1> SUFFICES ASSUME NEW b \in Apps, NEW s \in Slots, device'[s] = b
             PROVE  slot'[b] = s \/ b \in Stray'
  BY DEF DeviceInv
<1>1. /\ device \in [Slots -> Apps \cup {NoApp}] /\ NoApp \notin Apps /\ slot \in SlotOf
      /\ device[s] = b => slot[b] = s \/ b \in Stray
  BY ConstantsAssumption DEF IInv, TypeOK, DeviceInv
<1>2. ASSUME NEW reboot \in BOOLEAN, Crash(reboot) PROVE slot'[b] = s \/ b \in Stray'
  <2>1. CASE reboot
    <3>1. device'[s] = NoApp
      BY <1>2, <2>1 DEF Crash
    <3> QED BY <1>1, <3>1
  <2>2. CASE ~ reboot
    <3>1. /\ device'[s] = device[s] /\ slot' = slotsFile
          /\ unsaved' = unsaved \cup {a \in Apps : slot[a] \notin {NoSlot, slotsFile[a]}}
          /\ undetached' = undetached
      BY <1>2, <2>2 DEF Crash
    <3>2. slot[b] = s => s # NoSlot
      BY SlotsAreNat
    <3> QED BY <1>1, <3>1, <3>2 DEF Stray
  <2> QED BY <2>1, <2>2
<1>3. CASE ~ \E reboot \in BOOLEAN : Crash(reboot)
  <2>1. Stray \subseteq Stray'
    BY <1>3, DeviceFrame DEF Stray
  <2>2. device'[s] = device[s] \/ slot[b] = s
    <3>1. CASE UNCHANGED device
      BY <3>1
    <3>2. ASSUME NEW a \in Apps, Attach(a) \/ ProvisionFails(a)
          PROVE  device'[s] = device[s] \/ slot[b] = s
      <4>1. \/ device' = device \/ device' = [device EXCEPT ![slot[a]] = NoApp]
            \/ device' = [device EXCEPT ![slot[a]] = a]
        BY <3>2 DEF Attach, ProvisionFails
      <4> QED BY <1>1, <4>1
    <3>3. ASSUME NEW a \in Apps, Teardown(a) \/ RemoveOwn(a) \/ TeardownFails(a)
          PROVE  device'[s] = device[s]
      <4>1. device' = device \/ device' = [device EXCEPT ![slot[a]] = NoApp]
        BY <3>3 DEF Teardown, RemoveOwn, TeardownFails, Detached
      <4> QED BY <1>1, <4>1
    <3> QED BY <1>3, <3>1, <3>2, <3>3, DeviceFrame
  <2>3. CASE slot'[b] = slot[b]
    <3>1. CASE device'[s] = device[s]
      BY <1>1, <2>1, <2>3, <3>1
    <3>2. CASE slot[b] = s
      BY <2>3, <3>2
    <3> QED BY <2>2, <3>1, <3>2
  <2>4. CASE slot'[b] # slot[b]
    <3>1. CASE \E a \in Apps : Give(a) /\ (Provision(a) \/ StartAllocates(a))
      <4>1. PICK a \in Apps : Give(a) /\ (Provision(a) \/ StartAllocates(a))
        BY <3>1
      <4>2. device' = device
        BY <4>1 DEF Provision, StartAllocates, host
      <4>3. a = b /\ slot[b] = NoSlot
        BY <2>4, <4>1, GivenSlots DEF IInv, SlotInv, Give
      <4> QED BY <1>1, <2>1, <4>2, <4>3, SlotsAreNat
    <3>2. CASE \E a \in Apps : Removed(a) /\ (Remove(a) \/ Release(a))
      <4>1. PICK a \in Apps : Removed(a) /\ (Remove(a) \/ Release(a))
        BY <3>2
      <4>2. device' = device
        BY <4>1 DEF Remove, Release, host
      <4>3. a = b
        BY <1>1, <2>4, <4>1, RemovedSlots DEF IInv, SlotInv
      <4>4. Off(a)
        BY <4>1 DEF IInv, PlanInv, PlanOf, Remove, Release
      <4> QED BY <2>1, <4>2, <4>3, <4>4 DEF Off
    <3> QED BY <1>3, <2>4, <3>1, <3>2, SlotFrame
  <2> QED BY <2>3, <2>4
<1> QED BY <1>2, <1>3

---------------------------------------------------------------------------
(* The steps of a pass on a volume. *)

(* A step that takes nothing away from what an app's part of the plan has behind it. *)
LEMMA PlanStays ==
    ASSUME NEW b \in Apps, PlanOf(b), plan'[b] \in {plan[b], "none"}, held'[b] = held[b],
           (b \in retired') = (b \in retired), b \in image' => b \in image,
           b \in writer' => b \in writer, Off(b) => Off(b)'
    PROVE  PlanOf(b)'
<1>1. /\ plan'[b] \in {"provision", "activate", "attach"} => plan[b] = plan'[b]
      /\ plan'[b] \in Removing => plan[b] = plan'[b]
  BY DEF Removing
<1>2. CASE plan'[b] = "none"
  BY <1>2 DEF PlanOf, Removing
<1>3. CASE plan'[b] = plan[b]
  BY <1>3 DEF PlanOf
<1> QED BY <1>2, <1>3

(* An app with no device keeps having none where none is attached to it. *)
LEMMA OffStays ==
    ASSUME NEW b \in Apps, \A s \in Slots : device'[s] = b => device[s] = b, Stray \subseteq Stray'
    PROVE  Off(b) => Off(b)'
  BY DEF Off

Acting(a) ==
    \/ Provision(a) \/ ProvisionRefused(a) \/ Activate(a) \/ Attach(a) \/ ProvisionFails(a)
    \/ Teardown(a) \/ Remove(a) \/ Retire(a) \/ RemoveOwn(a) \/ StopWriter(a)
    \/ RecordRetirement(a) \/ Release(a) \/ TeardownFails(a)

(* Outside the steps that act for one app, only the beginning of a pass and a crash
   touch a plan or what it is about. *)
LEMMA ActingFrame ==
    ASSUME [Next]_vars
    PROVE  \/ Begin(desired) \/ Begin(held)
           \/ \E reboot \in BOOLEAN : Crash(reboot)
           \/ \E a \in Apps : Acting(a)
           \/ /\ UNCHANGED <<held, retired, image, writer, device, unsaved, undetached>>
              /\ plan' = plan \/ plan' = NoPlan
  BY DEF Acting, Next, vars, host, history, Pass, Faults, StatusSaves, ControlPlane, Deploy, Delete,
         Acknowledge, Poll, Restore, ApplyStops, EndVolumes, ApplyStarts, EndTeardowns,
         SaveBegins, StartAllocates, StartExhausted, SaveSlots, SaveRest, PassFails, PassEnds

(* A step on one app's volume is nothing to another's. *)
LEMMA OthersStay ==
    ASSUME IInv, NEW a \in Apps, Acting(a), NEW b \in Apps, b # a
    PROVE  PlanOf(b)'
<1>1. plan \in [Apps -> Plans] /\ device \in [Slots -> Apps \cup {NoApp}] /\ NoApp \notin Apps
  BY ConstantsAssumption DEF IInv, TypeOK, Plans
<1>2. plan'[b] = plan[b]
  BY <1>1 DEF Acting, Provision, ProvisionRefused, Activate, Attach, ProvisionFails, Teardown, Remove,
     Retire, RemoveOwn, StopWriter, RecordRetirement, Release, TeardownFails, Step
<1>3. UNCHANGED held /\ Stray \subseteq Stray'
  BY DEF Stray, Acting, Provision, ProvisionRefused, Activate, Attach, ProvisionFails, Teardown, Remove,
     Retire, RemoveOwn, StopWriter, RecordRetirement, Release, TeardownFails, history
<1>4. /\ (b \in retired') = (b \in retired) /\ (b \in image') = (b \in image)
      /\ (b \in writer') = (b \in writer)
  BY DEF Acting, Provision, ProvisionRefused, Activate, Attach, ProvisionFails, Teardown, Remove,
     Retire, RemoveOwn, StopWriter, RecordRetirement, Release, TeardownFails, Open, host
<1>5. \/ UNCHANGED device
      \/ device' = [device EXCEPT ![slot[a]] = a] \/ device' = [device EXCEPT ![slot[a]] = NoApp]
  BY DEF Acting, Provision, ProvisionRefused, Activate, Attach, ProvisionFails, Teardown, Remove,
     Retire, RemoveOwn, StopWriter, RecordRetirement, Release, TeardownFails, Detached, host
<1>6. \A s \in Slots : device'[s] = b => device[s] = b
  BY <1>1, <1>5
<1>7. Off(b) => Off(b)'
  BY <1>3, <1>6, OffStays
<1>8. PlanOf(b)
  BY DEF IInv, PlanInv
<1> QED BY <1>2, <1>3, <1>4, <1>7, <1>8, PlanStays

(* The steps of a provision. *)
LEMMA ProvisionPlan ==
    ASSUME IInv, NEW a \in Apps,
           Provision(a) \/ ProvisionRefused(a) \/ Activate(a) \/ Attach(a) \/ ProvisionFails(a)
    PROVE  PlanOf(a)'
<1>1. plan \in [Apps -> Plans] /\ device \in [Slots -> Apps \cup {NoApp}] /\ NoApp \notin Apps
  BY ConstantsAssumption DEF IInv, TypeOK, Plans
<1>2. PlanOf(a)
  BY DEF IInv, PlanInv
<1>3. CASE Provision(a)
  <2>1. /\ plan[a] = "provision" /\ plan'[a] = IF a \in Own THEN "activate" ELSE "attach"
        /\ a \notin retired /\ UNCHANGED <<held, retired>>
    BY <1>1, <1>3 DEF Provision, Step, host
  <2> QED BY <1>2, <2>1 DEF PlanOf, Removing
<1>4. CASE ProvisionRefused(a)
  <2>1. /\ plan'[a] = "none" /\ UNCHANGED <<held, retired, image, writer, device>>
        /\ Stray' = Stray
    BY <1>1, <1>4 DEF ProvisionRefused, Step, host, history, Stray
  <2> QED BY <1>2, <2>1, PlanStays, OffStays
<1>5. CASE Activate(a)
  <2>1. plan[a] = "activate" /\ plan'[a] \in {"attach", "none"} /\ UNCHANGED <<held, retired>>
    BY <1>1, <1>5 DEF Activate, Step
  <2> QED BY <1>2, <2>1 DEF PlanOf, Removing
<1>6. CASE Attach(a)
  <2>1. plan[a] = "attach" /\ plan'[a] = "none" /\ UNCHANGED <<held, retired>>
    BY <1>1, <1>6 DEF Attach, Step
  <2> QED BY <1>2, <2>1 DEF PlanOf, Removing
<1>7. CASE ProvisionFails(a)
  <2>1. plan'[a] = "none" /\ UNCHANGED <<held, retired, writer>> /\ Stray' = Stray
    BY <1>1, <1>7 DEF ProvisionFails, Step, history, Stray
  <2>2. CASE plan[a] = "attach"
    BY <1>2, <2>1, <2>2 DEF PlanOf, Removing
  <2>3. CASE plan[a] # "attach"
    <3>1. UNCHANGED <<image, device>>
      BY <1>7, <2>3 DEF ProvisionFails
    <3> QED BY <1>2, <2>1, <3>1, PlanStays, OffStays
  <2> QED BY <2>2, <2>3
<1> QED BY <1>3, <1>4, <1>5, <1>6, <1>7

(* Off its device, an app is attached to none, unless it is Stray. *)
LEMMA DetachedIsOff ==
    ASSUME IInv, NEW a \in Apps, device' = Detached(a), Stray \subseteq Stray'
    PROVE  Off(a)'
<1> SUFFICES ASSUME NEW s \in Slots, device'[s] = a PROVE a \in Stray'
  BY DEF Off
<1>1. device \in [Slots -> Apps \cup {NoApp}] /\ NoApp \notin Apps
  BY ConstantsAssumption DEF IInv, TypeOK
<1>2. device[s] = a => slot[a] = s \/ a \in Stray
  BY DEF IInv, DeviceInv
<1>3. CASE slot[a] = NoSlot
  BY <1>2, <1>3, SlotsAreNat DEF Detached
<1>4. CASE slot[a] # NoSlot
  <2>1. device' = [device EXCEPT ![slot[a]] = NoApp]
    BY <1>4 DEF Detached
  <2> QED BY <1>1, <1>2, <2>1
<1> QED BY <1>3, <1>4

(* The steps of a removal. *)
LEMMA RemovalPlan ==
    ASSUME IInv, NEW a \in Apps,
           \/ Teardown(a) \/ Remove(a) \/ Retire(a) \/ RemoveOwn(a) \/ StopWriter(a)
           \/ RecordRetirement(a) \/ Release(a) \/ TeardownFails(a)
    PROVE  PlanOf(a)'
<1>1. plan \in [Apps -> Plans]
  BY DEF IInv, TypeOK, Plans
<1>2. PlanOf(a) /\ (a \in retired => a \notin writer /\ a \notin image)
  BY DEF IInv, PlanInv, RetiredStaysClosed
<1>3. CASE Teardown(a)
  <2>1. /\ plan[a] = "teardown" /\ plan'[a] = "remove" /\ a \notin Own
        /\ device' = Detached(a) \/ a \in Stray'
        /\ UNCHANGED <<held, retired, image>> /\ Stray \subseteq Stray'
    BY <1>1, <1>3 DEF Teardown, Step, Stray
  <2>2. Off(a)'
    <3>1. CASE device' = Detached(a)
      BY <2>1, <3>1, DetachedIsOff
    <3>2. CASE a \in Stray'
      BY <3>2 DEF Off
    <3> QED BY <2>1, <3>1, <3>2
  <2> QED BY <1>2, <2>1, <2>2 DEF PlanOf, Removing
<1>4. CASE Remove(a) \/ Release(a)
  <2>1. plan'[a] = "none" /\ UNCHANGED <<held, retired, device>> /\ Stray' = Stray
    BY <1>1, <1>4 DEF Remove, Release, Step, host, history, Stray
  <2>2. Off(a) => Off(a)'
    BY <2>1, OffStays
  <2> QED BY <1>2, <2>1, <2>2 DEF PlanOf, Removing
<1>5. CASE Retire(a)
  <2>1. /\ plan[a] = "teardown" /\ a \in Own
        /\ plan'[a] \in {"removeOwn", "none"} \/ (plan'[a] = "release" /\ a \in retired)
        /\ UNCHANGED <<held, retired, device, image>> /\ Stray' = Stray
    BY <1>1, <1>5 DEF Retire, Step, history, Stray
  <2>2. Off(a) => Off(a)'
    BY <2>1, OffStays
  <2> QED BY <1>2, <2>1, <2>2 DEF PlanOf, Removing
<1>6. CASE RemoveOwn(a)
  <2>1. /\ plan[a] = "removeOwn" /\ plan'[a] = "stop" /\ a \notin image'
        /\ device' = Detached(a) /\ UNCHANGED <<held, retired>> /\ Stray' = Stray
    BY <1>1, <1>6 DEF RemoveOwn, Step, history, Stray
  <2>2. Off(a)'
    BY <2>1, DetachedIsOff
  <2> QED BY <1>2, <2>1, <2>2 DEF PlanOf, Removing
<1>7. CASE StopWriter(a)
  <2>1. /\ plan[a] = "stop" /\ plan'[a] = "record" /\ a \notin writer'
        /\ UNCHANGED <<held, retired, device, image>> /\ Stray' = Stray
    BY <1>1, <1>7 DEF StopWriter, Step, history, Stray
  <2>2. Off(a) => Off(a)'
    BY <2>1, OffStays
  <2> QED BY <1>2, <2>1, <2>2 DEF PlanOf, Removing
<1>8. CASE RecordRetirement(a)
  <2>1. /\ plan[a] = "record" /\ plan'[a] = "release" /\ a \in retired'
        /\ UNCHANGED <<held, device, image, writer>> /\ Stray' = Stray
    BY <1>1, <1>8 DEF RecordRetirement, Step, history, Stray
  <2>2. Off(a) => Off(a)'
    BY <2>1, OffStays
  <2> QED BY <1>2, <2>1, <2>2 DEF PlanOf, Removing
<1>9. CASE TeardownFails(a)
  <2>1. /\ plan'[a] = "none" /\ UNCHANGED <<held, retired, image, writer>> /\ Stray' = Stray
        /\ UNCHANGED device \/ device' = Detached(a)
    BY <1>1, <1>9 DEF TeardownFails, Step, Stray
  <2>2. Off(a) => Off(a)'
    <3>1. CASE UNCHANGED device
      BY <2>1, <3>1, OffStays
    <3>2. CASE device' = Detached(a)
      BY <2>1, <3>2, DetachedIsOff
    <3> QED BY <2>1, <3>1, <3>2
  <2> QED BY <1>2, <2>1, <2>2, PlanStays
<1> QED BY <1>3, <1>4, <1>5, <1>6, <1>7, <1>8, <1>9

(* What has been done by the time a plan is at a step stays done. *)
LEMMA PlanKept ==
    ASSUME IInv, [Next]_vars
    PROVE  PlanInv'
<1> SUFFICES ASSUME NEW b \in Apps PROVE PlanOf(b)'
  BY DEF PlanInv
<1>1. PlanOf(b)
  BY DEF IInv, PlanInv
<1>2. ASSUME NEW wish, Begin(wish) PROVE PlanOf(b)'
  <2>1. UNCHANGED <<retired, device>> /\ Stray' = Stray
    BY <1>2 DEF Begin, host, history, Stray
  <2>2. Off(b) => Off(b)'
    BY <2>1, OffStays
  <2>3. /\ plan'[b] \in {"none", "provision", "blocked", "teardown"}
        /\ plan'[b] = "provision" => held'[b] = "present"
        /\ plan'[b] \in {"blocked", "teardown"} => held'[b] = "absent"
    BY <1>2, Begun
  <2> QED BY <1>1, <2>1, <2>2, <2>3 DEF PlanOf, Removing
<1>3. ASSUME NEW reboot \in BOOLEAN, Crash(reboot) PROVE PlanOf(b)'
  <2>1. /\ plan'[b] = "none" /\ UNCHANGED <<held, retired, image>>
        /\ b \in writer' => b \in writer
    BY <1>3 DEF Crash, NoPlan
  <2>2. Off(b) => Off(b)'
    <3>1. CASE reboot
      BY <1>3, <3>1, ConstantsAssumption DEF Crash, Off
    <3>2. CASE ~ reboot
      BY <1>3, <3>2 DEF Crash, Off, Stray
    <3> QED BY <3>1, <3>2
  <2> QED BY <1>1, <2>1, <2>2, PlanStays
<1>4. ASSUME NEW a \in Apps, Acting(a) PROVE PlanOf(b)'
  <2>1. CASE b = a
    BY <1>4, <2>1, ProvisionPlan, RemovalPlan DEF Acting
  <2>2. CASE b # a
    BY <1>4, <2>2, OthersStay
  <2> QED BY <2>1, <2>2
<1>5. CASE /\ UNCHANGED <<held, retired, image, writer, device, unsaved, undetached>>
           /\ plan' = plan \/ plan' = NoPlan
  <2>1. Stray' = Stray
    BY <1>5 DEF Stray
  <2> QED BY <1>1, <1>5, <2>1, PlanStays, OffStays DEF NoPlan
<1> QED BY <1>2, <1>3, <1>4, <1>5, ActingFrame

---------------------------------------------------------------------------

(* A retirement is recorded of a ZeroFS that has been stopped and emptied, and neither
   step that would open it again is taken for an app retired. *)
LEMMA RetiredKept ==
    ASSUME IInv, [Next]_vars
    PROVE  RetiredStaysClosed'
<1> SUFFICES ASSUME NEW b \in retired' PROVE b \notin writer' /\ b \notin image'
  BY DEF RetiredStaysClosed
<1>1. b \in Apps /\ retired \subseteq Apps
  <2>1. retired' \subseteq Own /\ retired \subseteq Own
    BY HostKept, TypeParts DEF HostTyped, IInv
  <2> QED BY <2>1, ConstantsAssumption
<1>2. PlanOf(b) /\ (b \in retired => b \notin writer /\ b \notin image)
  BY <1>1 DEF IInv, PlanInv, RetiredStaysClosed
<1>3. CASE UNCHANGED <<image, retired, writer>>
  BY <1>2, <1>3
<1>4. ASSUME NEW a \in Apps, Attach(a) \/ ProvisionFails(a), UNCHANGED <<retired, writer>>
      PROVE  b \notin writer' /\ b \notin image'
  BY <1>2, <1>4 DEF Attach, ProvisionFails, PlanOf
<1>5. ASSUME NEW a \in Apps, Remove(a) \/ RemoveOwn(a), UNCHANGED <<retired, writer>>
      PROVE  b \notin writer' /\ b \notin image'
  BY <1>2, <1>5 DEF Remove, RemoveOwn
<1>6. ASSUME NEW a \in Apps, Open(a), Activate(a) \/ Retire(a), UNCHANGED <<image, retired>>
      PROVE  b \notin writer' /\ b \notin image'
  <2>1. writer' = writer \cup {a}
    BY <1>6 DEF Open
  <2>2. CASE a = b
    <3>1. CASE Activate(a)
      BY <1>2, <1>6, <2>2, <3>1 DEF Activate, PlanOf
    <3>2. CASE Retire(a)
      <4>1. b \in retired /\ b \notin writer /\ UNCHANGED writer
        BY <1>2, <1>6, <2>2, <3>2 DEF Retire
      <4> QED BY <2>1, <2>2, <4>1
    <3> QED BY <1>6, <3>1, <3>2
  <2>3. CASE a # b
    BY <1>2, <1>6, <2>1, <2>3
  <2> QED BY <2>2, <2>3
<1>7. ASSUME NEW a \in Apps, StopWriter(a), UNCHANGED <<image, retired>>
      PROVE  b \notin writer' /\ b \notin image'
  BY <1>2, <1>7 DEF StopWriter
<1>8. ASSUME NEW a \in Apps, RecordRetirement(a), UNCHANGED <<image, writer>>
      PROVE  b \notin writer' /\ b \notin image'
  BY <1>2, <1>8 DEF RecordRetirement, PlanOf
<1>9. CASE writer' = {} /\ UNCHANGED <<image, retired>>
  BY <1>2, <1>9
<1> QED BY <1>3, <1>4, <1>5, <1>6, <1>7, <1>8, <1>9, VolumeFrame

(* A removal comes to be remembered only when it has been made, and is then only copied. *)
LEMMA SaidBefore ==
    ASSUME IInv, [Next]_vars, NEW b \in Apps, SaidGone(b)'
    PROVE  SaidGone(b) \/ Remove(b) \/ Release(b)
<1>1. b \in deleted' \/ b \in reported' => SaidGone(b) \/ Remove(b) \/ Release(b)
  BY SaidFrame DEF SaidGone, EndVolumes, Removed, Crash
<1>2. b \in deletedFile' => SaidGone(b)
  BY FileFrame DEF SaidGone, files, SaveSlots, SaveRest
<1>3. \A p \in Savers : b \in saver'[p].deleted => SaidGone(b)
  BY SaverKept DEF SaidGone
<1> QED BY <1>1, <1>2, <1>3 DEF SaidGone

(* What is said to be deleted is gone and no longer wanted, wherever it is said. *)
LEMMA GoneKept ==
    ASSUME IInv, [Next]_vars
    PROVE  GoneInv'
<1> SUFFICES ASSUME NEW b \in Apps, SaidGone(b)'
             PROVE  b \notin image' /\ (b \in Own => b \in retired') /\ held'[b] \in {"absent", "gone"}
  BY DEF GoneInv
<1>1. PlanOf(b) /\ (b \in retired => b \notin image)
  BY DEF IInv, PlanInv, RetiredStaysClosed
<1>2. CASE SaidGone(b)
  <2>1. b \notin image /\ (b \in Own => b \in retired) /\ held[b] \in {"absent", "gone"}
    BY <1>2 DEF IInv, GoneInv
  <2>2. held'[b] \in {"absent", "gone"}
    <3>1. CASE UNCHANGED held
      BY <2>1, <3>1
    <3>2. CASE Begin(desired) \/ Begin(held)
      BY <2>1, <3>2 DEF IInv, HeldInv, Begin
    <3>3. ASSUME NEW a \in Apps, Deploy(a) \/ Delete(a) \/ Acknowledge(a) PROVE UNCHANGED held
      BY <3>3 DEF Deploy, Delete, Acknowledge
    <3> QED BY <3>1, <3>2, <3>3, WishFrame
  <2>3. plan[b] # "attach"
    BY <1>1, <2>1 DEF PlanOf
  <2>4. b \notin image'
    BY <2>1, <2>3, VolumeFrame DEF Attach, ProvisionFails, Remove, RemoveOwn
  <2>5. retired \subseteq retired'
    BY VolumeFrame DEF RecordRetirement
  <2> QED BY <2>1, <2>2, <2>4, <2>5
<1>3. CASE Remove(b)
  BY <1>1, <1>3 DEF Remove, PlanOf, Removing
<1>4. CASE Release(b)
  BY <1>1, <1>4 DEF Release, host, PlanOf, Removing
<1> QED BY <1>2, <1>3, <1>4, SaidBefore

(* Every step keeps the invariant. *)
LEMMA StepKeeps == IInv /\ [Next]_vars => IInv'
  BY TypeKept, SlotKept, DeviceKept, PlanKept, GoneKept, WishKept, RetiredKept DEF IInv

(* The invariant the theorems rest on holds throughout. *)
LEMMA Invariance == Spec => []IInv
  BY InitIInv, StepKeeps, PTL DEF Spec

(* Whatever fails and whenever the agent or the host goes down, memory, files and host
   keep the shapes the model gives them: every slot given away is one the host has, and
   only apps with a bucket of their own come to have a ZeroFS. *)
THEOREM TypeCorrect == Spec => []TypeOK
<1>1. IInv => TypeOK
  BY DEF IInv
<1> QED BY Invariance, <1>1, PTL

(* However slots are given, freed, saved from an older reading and read back, no two
   apps have one, and the device in an app's slot is attached to no other app's volume
   but that of an app whose slot had reached no file when the agent died, or whose device
   nbd-client failed to take down when the volume was removed. *)
THEOREM NoSharedDevice == Spec => []OneAppPerDevice
<1>1. IInv => OneAppPerDevice
  <2> SUFFICES ASSUME IInv, NEW a \in Apps, slot[a] # NoSlot
               PROVE  device[slot[a]] \in {a, NoApp} \cup Stray
    BY DEF IInv, SlotInv, Distinct, OneAppPerDevice
  <2>1. slot[a] \in Slots /\ device[slot[a]] \in Apps \cup {NoApp}
    BY DEF IInv, TypeOK, SlotOf
  <2>2. \A b \in Apps : device[slot[a]] = b => slot[b] = slot[a] \/ b \in Stray
    BY <2>1 DEF IInv, DeviceInv
  <2>3. \A b \in Apps : slot[b] = slot[a] => b = a
    BY DEF IInv, SlotInv, Distinct
  <2> QED BY <2>1, <2>2, <2>3
<1> QED BY Invariance, <1>1, PTL

(* teardownVolume and retireAppVolume say a volume is deleted, and any save or restart
   repeats it, only when its device file is gone and any retirement is on record. *)
THEOREM RemovalIsReal == Spec => []DeletedMeansGone
<1>1. IInv => DeletedMeansGone
  <2> SUFFICES ASSUME IInv, NEW a \in deleted \cup reported \cup deletedFile
               PROVE  a \notin image /\ (a \in Own => a \in retired)
    BY DEF DeletedMeansGone
  <2>1. a \in Apps /\ SaidGone(a)
    BY TypeParts DEF IInv, SaidTyped, SaidGone
  <2> QED BY <2>1 DEF IInv, GoneInv
<1> QED BY Invariance, <1>1, PTL

(* Once writeAppZerofsRetirement has run, that ZeroFS never runs again and its device
   file never comes back. *)
THEOREM RetirementIsFinal == Spec => []RetiredStaysClosed
<1>1. IInv => RetiredStaysClosed
  BY DEF IInv
<1> QED BY Invariance, <1>1, PTL

Waits ==
    \A a \in Apps :
          /\ phase' # "restart"
          /\ slot[a] = NoSlot /\ slot'[a] # NoSlot /\ slot'[a] = issued
          => Free(a) = {slot'[a]}

(* On a host of any size, the slot nextFree gave away last is given to another app only
   when it is the only one that app could have. *)
THEOREM FreedSlotWaits == Spec => FreedWaits
<1>1. IInv /\ [Next]_vars => Waits
  <2> SUFFICES ASSUME IInv, [Next]_vars, NEW b \in Apps, phase' # "restart",
                      slot[b] = NoSlot, slot'[b] # NoSlot, slot'[b] = issued
               PROVE  Free(b) = {slot'[b]}
    BY DEF Waits
  <2>1. TypeOK /\ Distinct(slot) /\ slot \in SlotOf /\ (issued # NoSlot => cursor = issued + 1)
    BY DEF IInv, SlotInv, TypeOK
  <2>2. ~ \E reboot \in BOOLEAN : Crash(reboot)
    BY DEF Crash
  <2>3. ~ \E a \in Apps : Removed(a)
    BY <2>1, RemovedSlots
  <2>4. PICK a \in Apps : Give(a)
    BY <2>2, <2>3, SlotFrame
  <2>5. a = b
    BY <2>1, <2>4, GivenSlots
  <2>6. Free(b) # {} /\ slot'[b] = NextFree(b)
    BY <2>1, <2>4, <2>5 DEF Give, SlotOf
  <2> QED BY <2>1, <2>6, LastToBeGiven
<1>2. [][Waits]_vars => FreedWaits
  BY PTL DEF FreedWaits, Waits
<1> QED BY Invariance, <1>1, <1>2, PTL DEF Spec

=============================================================================
