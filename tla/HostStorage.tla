---------------------------- MODULE HostStorage ----------------------------
(***************************************************************************)
(* The volumes one host holds and the slots it holds them in, as the agent *)
(* (apps/agent/src) keeps them: the part of a reconcile pass that          *)
(* provisions and tears down, the slot allocator, and what of it reaches   *)
(* the state files.                                                        *)
(*                                                                         *)
(* Three things outlive one another here.  The agent's memory is lost with *)
(* the agent.  The files keep what was last saved, by the end of a pass or *)
(* by a status pass, which may be saving at the same time from an older    *)
(* reading.  And the host (device files, NBD devices, an app's own ZeroFS  *)
(* units) keeps what was last done to it until the host itself goes down.  *)
(*                                                                         *)
(* A volume is its app's, so it goes by the app's name; a slot stands for  *)
(* its device, tap, port and address.  Reports of anything but a removal,  *)
(* sizes, seeds, exports and checkpoints are left out, and a guest is only *)
(* what keeps a volume in use: see InstanceLifecycle for the rest of it.   *)
(***************************************************************************)
EXTENDS Integers, FiniteSets

CONSTANTS
    Apps,
    Own,           \* the apps with a bucket, and so a ZeroFS, of their own
    SlotSpan,      \* how many slots the host has
    NbdDevices,    \* the slots whose NBD device the kernel has already made
    NoApp,
    NoSlot,
    MaxFaults      \* bound: steps and passes that fail, and times the agent goes down

ASSUME ConstantsAssumption ==
    /\ Own \subseteq Apps
    /\ SlotSpan \in Nat \ {0}
    /\ NbdDevices \subseteq 0..(SlotSpan - 1)
    /\ NoApp \notin Apps
    /\ NoSlot \notin Nat
    /\ MaxFaults \in Nat

Slots == 0..(SlotSpan - 1)

VARIABLES
    desired,      \* what the control plane asks of each app's volume
    held,         \* the desired state the agent works from, kept on disk
    slot,         \* SlotAllocator: each app's slot
    cursor,       \* SlotAllocator: where the next scan starts
    deleted,      \* AgentState.deletedVolumes
    reported,     \* AgentState.volumeReports: the volumes reported deleted
    registered,   \* ZerofsTopology: the apps whose own filesystem may be used
    deferred,     \* AgentState.deferredWork
    phase,        \* how far the reconcile pass has got
    plan,         \* what is left of the pass to do to each volume
    saver,        \* what a pass and a status pass are writing to the files
    slotsFile, cursorFile, deletedFile,
    device,       \* whose volume each slot's NBD device is attached to
    image,        \* the volumes that have a device file
    staged,       \* the apps whose own ZeroFS has a config on disk
    writer,       \* the apps whose own ZeroFS is running
    retired,      \* the apps whose retirement is on record
    guest,        \* each app's microVM and record
    issued,       \* history: the last slot the allocator gave away
    unsaved,      \* history: the apps a crash found in a slot no file had
    undetached,   \* history: the apps whose device a teardown failed to take down, unnoticed
    dropped,      \* history: the apps whose removal a failure took out of the work deferred
    faults

memory == <<slot, cursor, deleted, reported, registered, deferred>>
files == <<slotsFile, cursorFile, deletedFile>>
host == <<device, image, staged, writer, retired, guest>>
history == <<issued, unsaved, undetached, dropped>>
vars == <<desired, held, memory, phase, plan, saver, files, host, history, faults>>

NoSlots == [a \in Apps |-> NoSlot]
NoPlan == [a \in Apps |-> "none"]
NotSaving == [pc |-> "idle", slots |-> NoSlots, deleted |-> {}]
NotRunning == [NotSaving EXCEPT !.pc = "off"]

Init ==
    /\ desired = [a \in Apps |-> "new"]
    /\ held = desired
    /\ slot = NoSlots /\ cursor = 0
    /\ deleted = {} /\ reported = {} /\ registered = {} /\ deferred = FALSE
    /\ phase = "idle" /\ plan = NoPlan
    /\ saver = [pass |-> NotSaving, status |-> NotSaving]
    /\ slotsFile = NoSlots /\ cursorFile = 0 /\ deletedFile = {}
    /\ device = [s \in Slots |-> NoApp]
    /\ image = {} /\ staged = {} /\ writer = {} /\ retired = {}
    /\ guest = [a \in Apps |-> "none"]
    /\ issued = NoSlot /\ unsaved = {} /\ undetached = {}
    /\ dropped = {} /\ faults = 0

---------------------------------------------------------------------------
(* The control plane. An app is deployed and deleted once, and is no longer named
   when the host has said its volume is gone. Only a poll reads what is desired, so it
   is enough to let it change between passes. *)

BetweenPasses == phase \in {"idle", "restart"}

Deploy(a) ==
    /\ BetweenPasses
    /\ desired[a] = "new"
    /\ desired' = [desired EXCEPT ![a] = "present"]
    /\ UNCHANGED <<held, memory, phase, plan, saver, files, host, history, faults>>

Delete(a) ==
    /\ BetweenPasses
    /\ desired[a] = "present"
    /\ desired' = [desired EXCEPT ![a] = "absent"]
    /\ UNCHANGED <<held, memory, phase, plan, saver, files, host, history, faults>>

Acknowledge(a) ==
    /\ BetweenPasses
    /\ desired[a] = "absent"
    /\ a \in reported
    /\ desired' = [desired EXCEPT ![a] = "gone"]
    /\ UNCHANGED <<held, memory, phase, plan, saver, files, host, history, faults>>

---------------------------------------------------------------------------
(* The allocator. *)

Taken == {slot[a] : a \in Apps} \ {NoSlot}
Wrapped(offset) == offset % SlotSpan

(* An attachment of an app's own ZeroFS is made on a device that exists; the shared one
   has the kernel make what it needs. *)
Free(a) == (IF a \in Own THEN NbdDevices ELSE Slots) \ Taken

(* Mutated: the scan does not come round. *)
NextUnwrapped(a) == cursor

(* Mutated: the lowest free slot. *)
LowestFree(a) == CHOOSE s \in Free(a) : \A t \in Free(a) : s <= t

(* The first free slot at or after the cursor, coming round once. *)
NextFree(a) ==
    LET distance(s) == Wrapped(s - cursor)
    IN CHOOSE s \in Free(a) : \A t \in Free(a) : distance(s) <= distance(t)

(* A slot given away, and the cursor past it. *)
Give(a) ==
    /\ slot[a] = NoSlot
    /\ Free(a) # {}
    /\ slot' = [slot EXCEPT ![a] = NextFree(a)]
    /\ cursor' = NextFree(a) + 1
    /\ issued' = NextFree(a)

(* An app keeps the slot it has, and the cursor stays where it is. *)
Allocate(a) ==
    \/ Give(a)
    \/ slot[a] # NoSlot /\ UNCHANGED <<slot, cursor, issued>>

Exhausted(a) == slot[a] = NoSlot /\ Free(a) = {}

---------------------------------------------------------------------------
(* A pass: what it observes, and the plan it makes of that. *)

Named(a) == held[a] \in {"present", "absent"}
Wanted(a) == held[a] = "present"

(* The device is read to see whether it answers, which one behind a ZeroFS that has
   restarted does not; only an app of its own bucket is asked whose device it is. *)
MayAnswer(a) ==
    /\ slot[a] # NoSlot
    /\ IF a \in Own THEN device[slot[a]] = a ELSE device[slot[a]] # NoApp

Observable(a) == a \in image /\ (a \in Own => a \in registered)

(* planVolumes, with what it is told of each app being desired `wish`. *)
PlanVolume(a, wish, answering) ==
    CASE wish = "present" ->
            IF Observable(a) /\ MayAnswer(a) /\ a \in answering THEN "none" ELSE "provision"
      [] wish = "absent" ->
            IF guest[a] # "none" THEN "blocked"
            ELSE IF ~ Observable(a) /\ a \in deleted THEN "none" ELSE "teardown"
      [] OTHER -> "none"

(* hasDeferredWork *)
DeferredBy(wish, planned) ==
    \E a \in Apps :
        \/ planned[a] = "blocked"
        \/ planned[a] = "provision" /\ a \in Own
        \/ wish[a] = "present" /\ guest[a] # "up"

Begin(wish) ==
    /\ held' = wish
    /\ phase' = "stops"
    /\ \E answering \in SUBSET Apps :
          plan' = [a \in Apps |-> PlanVolume(a, wish[a], answering)]
    /\ deferred' = DeferredBy(wish, plan')
    /\ UNCHANGED <<desired, slot, cursor, deleted, reported, registered, saver, files,
                   host, history, faults>>

(* pollLoop: a desired state that is news, or one a pass left something of. *)
Poll ==
    /\ phase = "idle"
    /\ desired # held \/ deferred
    /\ Begin(desired)

(* run: before the first poll, a pass on the desired state last held. *)
Restore ==
    /\ phase = "restart"
    /\ Begin(held)

(* applyStops: a microVM nobody wants is stopped by one pass and forgotten by a later
   one; until then its volume is in use. *)
ApplyStops ==
    /\ phase = "stops"
    /\ phase' = "volumes"
    /\ guest' = [a \in Apps |-> IF Wanted(a) THEN guest[a]
                                ELSE IF guest[a] = "up" THEN "down" ELSE "none"]
    /\ UNCHANGED <<desired, held, memory, plan, saver, files, device, image, staged,
                   writer, retired, history, faults>>

---------------------------------------------------------------------------
(* applyVolumes: each volume to provision, one after another. *)

(* The pass is over, however it went; the first one over, the other loops begin. *)
PassEnds(saving) ==
    /\ phase' = "idle"
    /\ plan' = NoPlan
    /\ saver' = IF saving.status = NotRunning THEN [saving EXCEPT !.status = NotSaving]
                ELSE saving

InTheMiddle == {"activate", "attach", "remove", "removeOwn", "stop", "record", "release"}
Unhindered == \A a \in Apps : plan[a] \notin InTheMiddle
Fault == faults < MaxFaults /\ faults' = faults + 1
Step(a, next) == plan' = [plan EXCEPT ![a] = next]

(* provisionVolume, as far as the slot; activateAppVolume refuses an app retired. *)
Provision(a) ==
    /\ phase = "volumes" /\ plan[a] = "provision" /\ Unhindered
    /\ a \notin retired
    /\ Allocate(a)
    /\ Step(a, IF a \in Own THEN "activate" ELSE "attach")
    /\ UNCHANGED <<desired, held, deleted, reported, registered, deferred, phase, saver,
                   files, host, unsaved, undetached, dropped, faults>>

ProvisionRefused(a) ==
    /\ phase = "volumes" /\ plan[a] = "provision" /\ Unhindered
    /\ a \in retired \/ Exhausted(a)
    /\ Step(a, "none")
    /\ UNCHANGED <<desired, held, memory, phase, saver, files, host, history, faults>>

(* inspectAttachment: a device attached to something else is not taken. *)
OwnDevice(a) == slot[a] # NoSlot => device[slot[a]] \in {NoApp, a}

(* activateAppZerofs: the config staged, the units started, the filesystem registered. *)
Open(a) ==
    /\ staged' = staged \cup {a}
    /\ writer' = writer \cup {a}
    /\ registered' = registered \cup {a}

Activate(a) ==
    /\ phase = "volumes" /\ plan[a] = "activate"
    /\ IF OwnDevice(a)
         THEN Open(a) /\ Step(a, "attach")
         ELSE Step(a, "none") /\ UNCHANGED <<staged, writer, registered>>
    /\ UNCHANGED <<desired, held, slot, cursor, deleted, reported, deferred, phase, saver,
                   files, device, image, retired, guest, history, faults>>

(* The device file, and the device if it does not answer already. An app in the shared
   bucket takes a device that answers for its own. *)
Attach(a) ==
    /\ phase = "volumes" /\ plan[a] = "attach"
    /\ image' = image \cup {a}
    /\ \/ device' = [device EXCEPT ![slot[a]] = a]
       \/ MayAnswer(a) /\ UNCHANGED device
    /\ Step(a, "none")
    /\ UNCHANGED <<desired, held, memory, phase, saver, files, staged, writer, retired,
                   guest, history, faults>>

(* Any command of these may fail: with the device file made, a reattachment with the old
   one already taken down, or the formatting of a device that is attached. *)
ProvisionFails(a) ==
    /\ phase = "volumes" /\ plan[a] \in {"provision", "activate", "attach"}
    /\ plan[a] = "provision" => Unhindered
    /\ Fault
    /\ \/ UNCHANGED <<image, device>>
       \/ /\ plan[a] = "attach"
          /\ image' = image \cup {a}
          /\ \/ UNCHANGED device
             \/ \E left \in {NoApp, a} : device' = [device EXCEPT ![slot[a]] = left]
    /\ Step(a, "none")
    /\ UNCHANGED <<desired, held, memory, phase, saver, files, staged, writer, retired, guest,
                   history>>

(* A removal no longer asked about is forgotten; the ones remembered are reported. *)
EndVolumes ==
    /\ phase = "volumes"
    /\ \A a \in Apps : plan[a] \in {"none", "blocked", "teardown"}
    /\ deleted' = {a \in deleted : Named(a)}
    /\ reported' = deleted'
    /\ phase' = "starts"
    /\ UNCHANGED <<desired, held, slot, cursor, registered, deferred, plan, saver, files,
                   host, history, faults>>

---------------------------------------------------------------------------
(* applyStarts, where an app takes a slot if provisioning could not, and one there is
   no slot for ends the whole pass. *)

StartAllocates(a) ==
    /\ phase = "starts"
    /\ Wanted(a) /\ guest[a] # "up"
    /\ Give(a)
    /\ UNCHANGED <<desired, held, deleted, reported, registered, deferred, phase, plan, saver,
                   files, host, unsaved, undetached, dropped, faults>>

StartExhausted(a) ==
    /\ phase = "starts"
    /\ Wanted(a) /\ guest[a] # "up" /\ Exhausted(a)
    /\ PassEnds(saver)
    /\ UNCHANGED <<desired, held, memory, files, host, history, faults>>

ApplyStarts ==
    /\ phase = "starts"
    /\ \A a \in Apps : Wanted(a) /\ guest[a] # "up" => slot[a] # NoSlot
    /\ guest' = [a \in Apps |-> IF ~ Wanted(a) \/ guest[a] = "up" THEN guest[a]
                                ELSE IF MayAnswer(a) THEN "up" ELSE "down"]
    /\ phase' = "teardowns"
    /\ UNCHANGED <<desired, held, memory, plan, saver, files, device, image, staged,
                   writer, retired, history, faults>>

---------------------------------------------------------------------------
(* applyTeardowns, one volume after another. *)

Detached(a) == IF slot[a] = NoSlot THEN device ELSE [device EXCEPT ![slot[a]] = NoApp]

(* The slot given up, the removal remembered and reported. *)
Removed(a) ==
    /\ slot' = [slot EXCEPT ![a] = NoSlot]
    /\ deleted' = deleted \cup {a}
    /\ reported' = reported \cup {a}

(* Mutated: the slot is given up, and the removal told, before anything is removed. *)
TeardownTold(a) ==
    /\ phase = "teardowns" /\ plan[a] = "teardown" /\ Unhindered
    /\ a \notin Own
    /\ Removed(a)
    /\ Step(a, "remove")
    /\ UNCHANGED <<desired, held, cursor, registered, deferred, phase, saver, files, host,
                   history, faults>>

(* teardownVolume: flushed, and off the device in whatever slot the app has. An
   nbd-client that exits with an error is not looked at. *)
Teardown(a) ==
    /\ phase = "teardowns" /\ plan[a] = "teardown" /\ Unhindered
    /\ a \notin Own
    /\ \/ device' = Detached(a) /\ UNCHANGED <<undetached, faults>>
       \/ /\ slot[a] # NoSlot
          /\ Fault
          /\ undetached' = undetached \cup {a}
          /\ UNCHANGED device
    /\ Step(a, "remove")
    /\ UNCHANGED <<desired, held, memory, phase, saver, files, image, staged, writer,
                   retired, guest, issued, unsaved, dropped>>

Remove(a) ==
    /\ phase = "teardowns" /\ plan[a] = "remove"
    /\ image' = image \ {a}
    /\ Removed(a)
    /\ Step(a, "none")
    /\ UNCHANGED <<desired, held, cursor, registered, deferred, phase, saver, files, device,
                   staged, writer, retired, guest, history, faults>>

(* Mutated: a retirement on record is not looked for. *)
RetireAgain(a) ==
    /\ phase = "teardowns" /\ plan[a] = "teardown" /\ Unhindered
    /\ a \in Own
    /\ IF a \in staged /\ OwnDevice(a) THEN Open(a) /\ Step(a, "removeOwn")
       ELSE Step(a, "none") /\ UNCHANGED <<staged, writer, registered>>
    /\ UNCHANGED <<desired, held, slot, cursor, deleted, reported, deferred, phase, saver,
                   files, device, image, retired, guest, history, faults>>

(* retireAppVolume: one already on record has only to be released. Otherwise a ZeroFS
   once staged is opened again to be emptied; without its config nothing is done. *)
Retire(a) ==
    /\ phase = "teardowns" /\ plan[a] = "teardown" /\ Unhindered
    /\ a \in Own
    /\ IF a \in retired THEN Step(a, "release") /\ UNCHANGED <<staged, writer, registered>>
       ELSE IF a \in staged /\ OwnDevice(a) THEN Open(a) /\ Step(a, "removeOwn")
       ELSE Step(a, "none") /\ UNCHANGED <<staged, writer, registered>>
    /\ UNCHANGED <<desired, held, slot, cursor, deleted, reported, deferred, phase, saver,
                   files, device, image, retired, guest, history, faults>>

(* Mutated: the device of an app's own is taken down no more carefully than a shared
   one, and is still attached. *)
RemoveOwnUnverified(a) ==
    /\ phase = "teardowns" /\ plan[a] = "removeOwn"
    /\ image' = image \ {a}
    /\ Step(a, "stop")
    /\ UNCHANGED <<desired, held, memory, phase, saver, files, device, staged, writer, retired,
                   guest, history, faults>>

(* detachVerified, which fails unless the device is off, and the device file. *)
RemoveOwn(a) ==
    /\ phase = "teardowns" /\ plan[a] = "removeOwn"
    /\ device' = Detached(a)
    /\ image' = image \ {a}
    /\ Step(a, "stop")
    /\ UNCHANGED <<desired, held, memory, phase, saver, files, staged, writer, retired,
                   guest, history, faults>>

(* flushAndStopAppZerofs, assertAppZerofsStopped *)
StopWriter(a) ==
    /\ phase = "teardowns" /\ plan[a] = "stop"
    /\ writer' = writer \ {a}
    /\ Step(a, "record")
    /\ UNCHANGED <<desired, held, memory, phase, saver, files, device, image, staged,
                   retired, guest, history, faults>>

(* writeAppZerofsRetirement *)
RecordRetirement(a) ==
    /\ phase = "teardowns" /\ plan[a] = "record"
    /\ retired' = retired \cup {a}
    /\ Step(a, "release")
    /\ UNCHANGED <<desired, held, memory, phase, saver, files, device, image, staged,
                   writer, guest, history, faults>>

Release(a) ==
    /\ phase = "teardowns" /\ plan[a] = "release"
    /\ registered' = registered \ {a}
    /\ Removed(a)
    /\ Step(a, "none")
    /\ UNCHANGED <<desired, held, cursor, deferred, phase, saver, files, host, history,
                   faults>>

(* Any command of these may fail, a removal from a ZeroFS of its own with the device
   already off. *)
TeardownFails(a) ==
    /\ phase = "teardowns"
    /\ plan[a] \in InTheMiddle \cup {"teardown"}
    /\ plan[a] = "teardown" => Unhindered
    /\ Fault
    /\ UNCHANGED device \/ (plan[a] = "removeOwn" /\ device' = Detached(a))
    /\ dropped' = dropped \cup ({a} \ Own)
    /\ Step(a, "none")
    /\ UNCHANGED <<desired, held, memory, phase, saver, files, image, staged, writer, retired,
                   guest, issued, unsaved, undetached>>

(* The apps reclaimAppZerofs takes the config of. *)
Reclaimable == {a \in staged : a \in retired /\ ~ Named(a)}

(* Mutated: a retirement that did not finish is not deferred work. *)
EndAnyway ==
    /\ phase = "teardowns"
    /\ \A a \in Apps : plan[a] \in {"none", "blocked"}
    /\ staged' = staged \ Reclaimable
    /\ phase' = "save"
    /\ UNCHANGED <<desired, held, memory, plan, saver, files, device, image, writer, retired,
                   guest, history, faults>>

(* hasPendingAppRetirements, and reclaimAppZerofs for those no longer named, which is
   taken up again where it fails for any. *)
EndTeardowns ==
    /\ phase = "teardowns"
    /\ \A a \in Apps : plan[a] \in {"none", "blocked"}
    /\ \/ /\ deferred' = (deferred \/ \E a \in Own : held[a] = "absent" /\ a \notin deleted)
          /\ staged' = staged \ Reclaimable
          /\ UNCHANGED faults
       \/ /\ Fault
          /\ deferred' = TRUE
          /\ \E reclaimed \in SUBSET Reclaimable : staged' = staged \ reclaimed
    /\ phase' = "save"
    /\ UNCHANGED <<desired, held, slot, cursor, deleted, reported, registered, plan, saver,
                   files, device, image, writer, retired, guest, history>>

(* The steps of a pass that are not about one volume end it where they fail: what was
   planned is dropped, and nothing is saved. *)
PassFails ==
    /\ phase \in {"stops", "starts", "save"}
    /\ saver.pass = NotSaving
    /\ Fault
    /\ dropped' = Apps
    /\ PassEnds(saver)
    /\ UNCHANGED <<desired, held, memory, files, host, issued, unsaved, undetached>>

---------------------------------------------------------------------------
(* persist, at the end of a pass and of every status pass: read, then file after file. *)

SaveBegins(p) ==
    /\ saver[p] = NotSaving
    /\ p = "pass" => phase = "save"
    /\ saver' = [saver EXCEPT ![p] = [pc |-> "slots", slots |-> slot, deleted |-> deleted]]
    /\ UNCHANGED <<desired, held, memory, phase, plan, files, host, history, faults>>

SaveSlots(p) ==
    /\ saver[p].pc = "slots"
    /\ slotsFile' = saver[p].slots
    /\ saver' = [saver EXCEPT ![p].pc = "rest", ![p].slots = NoSlots]
    /\ UNCHANGED <<desired, held, memory, phase, plan, cursorFile, deletedFile, host,
                   history, faults>>

(* The cursor as it is by now, and the removals as they were read. *)
SaveRest(p) ==
    /\ saver[p].pc = "rest"
    /\ cursorFile' = cursor
    /\ deletedFile' = saver[p].deleted
    /\ LET done == [saver EXCEPT ![p] = NotSaving]
       IN IF p = "pass" THEN PassEnds(done) ELSE saver' = done /\ UNCHANGED <<phase, plan>>
    /\ UNCHANGED <<desired, held, memory, slotsFile, host, history, faults>>

---------------------------------------------------------------------------
(* The agent goes down, alone or with its host, and comes back with the files. A host
   that went down has nothing attached and nothing running. *)
Crash(reboot) ==
    /\ Fault
    /\ phase' = "restart"
    /\ plan' = NoPlan
    /\ saver' = [pass |-> NotSaving, status |-> NotRunning]
    /\ slot' = slotsFile
    /\ cursor' = cursorFile
    /\ deleted' = deletedFile
    /\ reported' = {} /\ registered' = {} /\ deferred' = FALSE
    /\ issued' = NoSlot
    /\ IF reboot
         THEN /\ device' = [s \in Slots |-> NoApp]
              /\ writer' = {}
              /\ guest' = [a \in Apps |-> IF guest[a] = "up" THEN "down" ELSE guest[a]]
              /\ unsaved' = {} /\ undetached' = {}
         ELSE /\ unsaved' = unsaved \cup {a \in Apps : slot[a] \notin {NoSlot, slotsFile[a]}}
              /\ UNCHANGED <<device, writer, guest, undetached>>
    /\ UNCHANGED <<desired, held, files, image, staged, retired, dropped>>

---------------------------------------------------------------------------

Pass ==
    \/ Poll \/ Restore \/ ApplyStops \/ EndVolumes \/ ApplyStarts \/ EndTeardowns
    \/ SaveBegins("pass")
    \/ \E a \in Apps :
          \/ Provision(a) \/ ProvisionRefused(a) \/ Activate(a) \/ Attach(a)
          \/ StartAllocates(a) \/ StartExhausted(a)
          \/ Teardown(a) \/ Remove(a)
          \/ Retire(a) \/ RemoveOwn(a) \/ StopWriter(a) \/ RecordRetirement(a) \/ Release(a)
    \/ SaveSlots("pass") \/ SaveRest("pass")

Faults ==
    \/ PassFails
    \/ \E a \in Apps : ProvisionFails(a) \/ TeardownFails(a)
    \/ \E reboot \in BOOLEAN : Crash(reboot)

StatusSaves == SaveBegins("status") \/ SaveSlots("status") \/ SaveRest("status")

ControlPlane == \E a \in Apps : Deploy(a) \/ Delete(a) \/ Acknowledge(a)

Next == Pass \/ Faults \/ StatusSaves \/ ControlPlane

Spec == Init /\ [][Next]_vars

(* The poll loop is supervised and never waits for ever, and a command that neither
   fails nor answers is timed out: a pass goes on. *)
FairSpec == Spec /\ WF_vars(Pass)

---------------------------------------------------------------------------

SlotOf == [Apps -> Slots \cup {NoSlot}]

(* The variables are of the shapes the agent's memory, its files and the host keep. *)
TypeOK ==
    /\ desired \in [Apps -> {"new", "present", "absent", "gone"}]
    /\ held \in [Apps -> {"new", "present", "absent", "gone"}]
    /\ {slot, slotsFile} \subseteq SlotOf
    /\ {cursor, cursorFile} \subseteq 0..SlotSpan
    /\ \A set \in {deleted, reported, image, unsaved, undetached, dropped, deletedFile} :
          set \subseteq Apps
    /\ \A set \in {registered, staged, writer, retired} : set \subseteq Own
    /\ deferred \in BOOLEAN
    /\ phase \in {"idle", "restart", "stops", "volumes", "starts", "teardowns", "save"}
    /\ plan \in [Apps -> {"none", "provision", "blocked", "teardown"} \cup InTheMiddle]
    /\ saver \in [{"pass", "status"} ->
                   [pc : {"idle", "off", "slots", "rest"},
                    slots : SlotOf, deleted : SUBSET Apps]]
    /\ device \in [Slots -> Apps \cup {NoApp}]
    /\ guest \in [Apps -> {"none", "up", "down"}]
    /\ issued \in Slots \cup {NoSlot}
    /\ faults \in 0..MaxFaults

(* The apps that may have a device in a slot that is not theirs, and nothing says so: one
   whose slot had reached no file when the agent died, and one whose device nbd-client
   could not take down when its volume was removed. *)
Stray == unsaved \cup undetached

(* No two apps have one slot, in memory or in the file, and the device of an app's slot
   is attached to that app's volume or to none, whatever was torn down, saved from an
   older reading, or lost with the agent: to another's only if that one is Stray. *)
OneAppPerDevice ==
    /\ \A a, b \in Apps : /\ a # b /\ slot[a] = slot[b] => slot[a] = NoSlot
                         /\ a # b /\ slotsFile[a] = slotsFile[b] => slotsFile[a] = NoSlot
    /\ \A a \in Apps : slot[a] # NoSlot => device[slot[a]] \in {a, NoApp} \cup Stray

(* A volume is only said to be deleted, in a report, in memory or in the file a restarted
   agent reads, when its device file is gone; and one in a bucket of its own only with
   its retirement on record. *)
DeletedMeansGone ==
    \A a \in deleted \cup reported \cup deletedFile :
        a \notin image /\ (a \in Own => a \in retired)

(* "cached desired state must never resurrect deleted storage"
   (lib/volumes/reclaim-app-zerofs.ts): once a retirement is on record that app's ZeroFS
   never runs again and its volume never comes back, whenever the agent went down and
   however often the teardown is taken up again. *)
RetiredStaysClosed == \A a \in retired : a \notin writer /\ a \notin image

(* "a freed slot waits for the cursor to come round to it, which is every other slot
   first" (services/slot-allocator.service.ts): the slot given away last is given to
   another app only when every other slot is taken. *)
FreedWaits ==
    [][\A a \in Apps :
          /\ phase' # "restart"
          /\ slot[a] = NoSlot /\ slot'[a] # NoSlot /\ slot'[a] = issued
          => Free(a) = {slot'[a]}]_vars

(* A host with more apps to start than slots. *)
Full == \E a \in Apps : Wanted(a) /\ Exhausted(a)

(* A volume the control plane wants gone is reported gone, through failing steps and the
   agent going down: the removal of one with a bucket of its own is taken up again until
   it has been, provided that there was a ZeroFS to retire. Three things do stop it. On a
   full host each pass ends at the app it has no slot for, before the teardown that would
   free one. A failure may leave no deferred work behind: that of a pass as a whole, or of
   the teardown of a volume in the shared bucket. And a device a crash left attached in a
   slot no file had is not one a ZeroFS of its own is retired over. *)
RemovalIsReported ==
    \A a \in Apps :
        desired[a] = "absent" /\ (a \in Own => a \in staged)
            ~> a \in reported \/ desired[a] = "gone" \/ Full \/ a \in dropped
                 \/ unsaved # {}

=============================================================================
