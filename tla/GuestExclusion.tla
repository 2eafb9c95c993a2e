--------------------------- MODULE GuestExclusion ---------------------------
(***************************************************************************)
(* What GuestActivity promises, with no Activity objects, counters or      *)
(* Deferreds: guest work enters an open guest only; a suspend or a         *)
(* migration closes it, has it to itself once the work inside has left,    *)
(* and opens it; and a suspend has it only if no work has begun or ended   *)
(* since the suspend was measured quiet.                                   *)
(***************************************************************************)
CONSTANTS Runs, Suspends, Exclusives

VARIABLES
    inside,   \* the guest work that counts as under way
    closedBy, \* the suspend or migration that keeps new work out: none or one
    alone,    \* the one that has the guest to itself: none or one
    worked    \* the suspends since whose measurement there has been guest work

vars == <<inside, closedBy, alone, worked>>

Init == inside = {} /\ closedBy = {} /\ alone = {} /\ worked = {}

Enter(r) ==
    /\ closedBy = {}
    /\ r \notin inside
    /\ inside' = inside \cup {r}
    /\ worked' = Suspends
    /\ UNCHANGED <<closedBy, alone>>

(* Work that is over still counts until it has left. *)
Finish(r) ==
    /\ r \in inside
    /\ worked' = Suspends
    /\ UNCHANGED <<inside, closedBy, alone>>

Leave(r) ==
    /\ r \in inside
    /\ inside' = inside \ {r}
    /\ UNCHANGED <<closedBy, alone, worked>>

Measure(s) ==
    /\ s \notin closedBy
    /\ worked' = worked \ {s}
    /\ UNCHANGED <<inside, closedBy, alone>>

Close(f) ==
    /\ closedBy = {}
    /\ closedBy' = {f}
    /\ UNCHANGED <<inside, alone, worked>>

Begin(f) ==
    /\ closedBy = {f}
    /\ inside = {}
    /\ f \in Suspends => f \notin worked
    /\ alone' = {f}
    /\ UNCHANGED <<inside, closedBy, worked>>

(* Whether or not it came to have the guest to itself. *)
Open(f) ==
    /\ closedBy = {f}
    /\ closedBy' = {} /\ alone' = {}
    /\ UNCHANGED <<inside, worked>>

Next ==
    \/ \E r \in Runs : Enter(r) \/ Finish(r) \/ Leave(r)
    \/ \E s \in Suspends : Measure(s)
    \/ \E f \in Suspends \cup Exclusives : Close(f) \/ Begin(f) \/ Open(f)

Spec == Init /\ [][Next]_vars
=============================================================================
