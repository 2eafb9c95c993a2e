------------------------ MODULE MigrationExclusion ------------------------
(***************************************************************************)
(* What VolumeMigrationFences promises, with no entries, counts or         *)
(* Deferreds: each app is open, or closed by one migration.  Operations    *)
(* enter open apps only; the migration that closed an app works on it only *)
(* once every operation has left, and nobody enters until it opens it.     *)
(***************************************************************************)
CONSTANTS Apps, Accesses, Migrations

VARIABLES
    inside,   \* the operations inside each app
    closedBy, \* the migrations that have closed it: none or one
    working   \* the migrations whose effect runs on it: none or one

vars == <<inside, closedBy, working>>

Init ==
    /\ inside = [a \in Apps |-> {}]
    /\ closedBy = [a \in Apps |-> {}]
    /\ working = [a \in Apps |-> {}]

Enter(x, wanted) ==
    /\ \A a \in Apps : x \notin inside[a]
    /\ inside' = [a \in Apps |-> IF a \in wanted /\ closedBy[a] = {} THEN inside[a] \cup {x}
                                                                    ELSE inside[a]]
    /\ UNCHANGED <<closedBy, working>>

Leave(x) ==
    /\ inside' = [a \in Apps |-> inside[a] \ {x}]
    /\ UNCHANGED <<closedBy, working>>

Close(m, a) ==
    /\ closedBy[a] = {}
    /\ closedBy' = [closedBy EXCEPT ![a] = {m}]
    /\ UNCHANGED <<inside, working>>

Begin(m, a) ==
    /\ closedBy[a] = {m}
    /\ inside[a] = {}
    /\ working' = [working EXCEPT ![a] = {m}]
    /\ UNCHANGED <<inside, closedBy>>

End(m, a) ==
    /\ working[a] = {m}
    /\ working' = [working EXCEPT ![a] = {}]
    /\ UNCHANGED <<inside, closedBy>>

Open(m, a) ==
    /\ closedBy[a] = {m}
    /\ working[a] = {}
    /\ closedBy' = [closedBy EXCEPT ![a] = {}]
    /\ UNCHANGED <<inside, working>>

Next ==
    \/ \E x \in Accesses : Leave(x) \/ \E wanted \in SUBSET Apps : Enter(x, wanted)
    \/ \E m \in Migrations, a \in Apps : Close(m, a) \/ Begin(m, a) \/ End(m, a) \/ Open(m, a)

Spec == Init /\ [][Next]_vars
===========================================================================
