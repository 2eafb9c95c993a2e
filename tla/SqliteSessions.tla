--------------------------- MODULE SqliteSessions ---------------------------
(***************************************************************************)
(* A caller's SQLite stream, from the control plane to the guest and back. *)
(*                                                                         *)
(* Control plane: a stream (packages/sqlite/src/hrana-streams.ts) is a     *)
(* remote session (apps/api/src/lib/sqlite/remote-session.ts) whose        *)
(* operations wait, each with a deadline, in a map of pending queries that *)
(* the host polls (lib/sqlite/pending-queries.ts).                         *)
(*                                                                         *)
(* Host: the poll loop (apps/agent/src/lib/agent/sqlite-query.ts) gives    *)
(* every query to a fiber, a close excepted, and SqliteSessions            *)
(* (services/sqlite-sessions.service.ts) keeps the sessions: each has a    *)
(* scope with the fiber that opens it and then holds the guest awake, the  *)
(* one that expires it, and the pipelines under way.  Whoever takes a      *)
(* session out of the registry closes its scope, a step later.             *)
(*                                                                         *)
(* One app and one deployment of it, on one host whose other apps take any *)
(* share of what it has.  Answers, deliveries and callers may be lost, and *)
(* a deadline or a timer may be up at any time.                            *)
(***************************************************************************)
EXTENDS Naturals, FiniteSets

CONSTANTS
    Sessions,    \* SqliteSessionId: a random id, so used by one stream
    MaxSessions, \* SQLITE_MAX_GUEST_SESSIONS
    MaxActive,   \* MAX_ACTIVE_SQLITE_QUERIES
    MaxChanges   \* how often the control plane changes what it wants

ASSUME ConstantsAssumption ==
    /\ IsFiniteSet(Sessions)
    /\ MaxSessions \in Nat /\ MaxActive \in Nat /\ MaxChanges \in Nat

Ops == {"open", "pipeline", "close"}

(* A query is an operation of a session, and each is made once: a stream may have
   more pipelines, one after the other. *)
Queries == Sessions \X Ops

VARIABLES
    stream,     \* control plane: what is left of the stream with this session
    gone,       \* sessions whose caller left while the stream was opening
    query,      \* each query in PendingSqliteQueries
    loop,       \* host: sqliteQueryLoop
    work,       \* each query's fiber, or the loop's own work on it
    held,       \* registry.sessions
    owner,      \* what registry.deployments has for the app: the deployment, or "none"
    scope,      \* each session's scope
    ready,      \* each session's Deferred
    opener,     \* each session's opening fiber
    closer,     \* who took the session out of the registry and has yet to close its scope
    wanted,     \* the desired state the host has cached
    changes,    \* how often it changed
    pass,       \* the reconcile pass
    guest,      \* the microVM, as the app's record tells it
    gate        \* GuestActivity's gate: "free", or held by a "capture"

api == <<stream, gone, query>>
registry == <<held, owner, scope, ready, opener, closer>>
host == <<wanted, changes, pass, guest, gate>>
vars == <<stream, gone, query, loop, work, held, owner, scope, ready, opener, closer,
          wanted, changes, pass, guest, gate>>

Init ==
    /\ stream = [s \in Sessions |-> "none"]
    /\ gone = {}
    /\ query = [s \in Sessions |-> [op \in Ops |-> "none"]]
    /\ loop = "idle"
    /\ work = [s \in Sessions |-> [op \in Ops |-> "none"]]
    /\ held = {}
    /\ owner = "deployment"
    /\ scope = [s \in Sessions |-> "none"]
    /\ ready = [s \in Sessions |-> "pending"]
    /\ opener = [s \in Sessions |-> "none"]
    /\ closer = [s \in Sessions |-> "none"]
    /\ wanted = "running"
    /\ changes = 0
    /\ pass = "idle"
    /\ guest \in {"up", "asleep"}
    /\ gate = "free"

---------------------------------------------------------------------------
(* The control plane: HranaStreams, RemoteSqliteSession, PendingSqliteQueries *)

OpenStream(s) ==
    /\ stream[s] = "none"
    /\ stream' = [stream EXCEPT ![s] = "opening"]
    /\ query' = [query EXCEPT ![s]["open"] = "pending"]
    /\ UNCHANGED <<gone, loop, work, registry, host>>

(* The caller's signal aborts, or the stream's scope is closed, while it opens:
   the host's answer is awaited all the same. *)
Leave(s) ==
    /\ stream[s] = "opening"
    /\ s \notin gone
    /\ gone' = gone \cup {s}
    /\ UNCHANGED <<stream, query, loop, work, registry, host>>

Pipeline(s) ==
    /\ stream[s] = "open"
    /\ query[s]["pipeline"] = "none"
    /\ query' = [query EXCEPT ![s]["pipeline"] = "pending"]
    /\ UNCHANGED <<stream, gone, loop, work, registry, host>>

(* The stream has become `next`; the first thing to close it asks the host to. *)
Become(s, next, stages) ==
    /\ stream' = [stream EXCEPT ![s] = next]
    /\ query' = [stages EXCEPT ![s]["close"] =
                    IF next = "closing" /\ stream[s] # "closing" THEN "pending" ELSE @]

(* The idle timer, the caller's close, or closeScopes with a pipeline under way. *)
CloseStream(s) ==
    /\ stream[s] = "open"
    /\ Become(s, "closing", query)
    /\ UNCHANGED <<gone, loop, work, registry, host>>

(* What a stream may be after an answer: an answered pipeline ends the stream
   where the guest returned no baton. *)
AfterAnswer(s, op, good) ==
    CASE op = "open" -> {IF ~ good THEN "closed" ELSE IF s \in gone THEN "closing" ELSE "open"}
      [] op = "pipeline" /\ stream[s] = "open" -> IF good THEN {"open", "closing"} ELSE {"closing"}
      [] op = "pipeline" /\ stream[s] # "open" -> {stream[s]}
      [] op = "close" -> {"closed"}

(* An open nobody answered in time is not closed: whether it succeeded is not known. *)
AfterDeadline(s, op) ==
    IF op = "pipeline" THEN IF stream[s] = "open" THEN "closing" ELSE stream[s]
                       ELSE "closed"

(* The exchange is over and out of the map. *)
Settled(s, op) == [query EXCEPT ![s][op] = "over"]

Deadline(s, op) ==
    /\ query[s][op] \in {"pending", "claimed"}
    /\ Become(s, AfterDeadline(s, op), Settled(s, op))
    /\ UNCHANGED <<gone, loop, work, registry, host>>

(* acceptResult: an answer to an exchange that is over changes nothing. *)
Accept(s, op, good) ==
    IF query[s][op] = "claimed"
      THEN \E next \in AfterAnswer(s, op, good) : Become(s, next, Settled(s, op))
      ELSE UNCHANGED <<stream, query>>

---------------------------------------------------------------------------
(* The host's poll loop *)

(* A poll names the deployments the host is told of, stopped ones too; it is
   parked with that list until a query comes or its time is up. *)
Poll ==
    /\ loop = "idle" /\ wanted # "absent"
    /\ loop' = "parked"
    /\ UNCHANGED <<work, api, registry, host>>

EndPoll ==
    /\ loop = "parked"
    /\ loop' = "idle"
    /\ UNCHANGED <<work, api, registry, host>>

Claim(s, op) ==
    /\ loop = "parked"
    /\ query[s][op] = "pending"
    /\ loop' = "busy"
    /\ query' = [query EXCEPT ![s][op] = "claimed"]
    /\ work' = [work EXCEPT ![s][op] = "handed"]
    /\ UNCHANGED <<stream, gone, registry, host>>

(* The response that carries the query does not reach the host. *)
LoseClaim(s, op) ==
    /\ work[s][op] = "handed"
    /\ work' = [work EXCEPT ![s][op] = "lost"]
    /\ loop' = "idle"
    /\ UNCHANGED <<api, registry, host>>

Active == {q \in Queries : /\ q[2] # "close"
                            /\ work[q[1]][q[2]] \notin {"none", "handed", "lost", "refused", "done"}}

First(op) == IF op = "open" THEN "reserve" ELSE "look"

(* A close is worked on by the loop itself; anything else gets a fiber, or is
   refused with SQLITE_BUSY: the queries of other apps count too. *)
Dispatch(s, op) ==
    /\ work[s][op] = "handed"
    /\ \E others \in 0..MaxActive :
         IF op # "close" /\ Cardinality(Active) + others >= MaxActive
           THEN /\ work' = [work EXCEPT ![s][op] = "refused"]
                /\ UNCHANGED loop
           ELSE /\ work' = [work EXCEPT ![s][op] = First(op)]
                /\ loop' = IF op = "close" THEN loop ELSE "idle"
    /\ UNCHANGED <<api, registry, host>>

Sending == {"ok", "failed", "refused"}

(* The result is posted, or is not, and the fiber or the loop is done with it. *)
Sent(s, op) ==
    /\ work[s][op] \in Sending
    /\ work' = [work EXCEPT ![s][op] = "done"]
    /\ loop' = IF op = "close" \/ work[s][op] = "refused" THEN "idle" ELSE loop
    /\ UNCHANGED <<gone, registry, host>>

Send(s, op) == Sent(s, op) /\ Accept(s, op, work[s][op] = "ok")

LoseResult(s, op) == Sent(s, op) /\ UNCHANGED <<stream, query>>

---------------------------------------------------------------------------
(* SqliteSessions: open *)

(* `available`, as the cached desired state and the app's record have it. *)
Available == wanted = "running" /\ guest # "down"

Go(s, op, label) == work' = [work EXCEPT ![s][op] = label]

(* reserve: the deployment and both bounds are looked at in the step that adds the
   session; the host's bound may be used up by other apps. *)
Reserve(s) ==
    /\ work[s]["open"] = "reserve"
    /\ \E hostFull \in BOOLEAN :
         IF owner = "deployment" /\ Cardinality(held) < MaxSessions /\ ~ hostFull
           THEN /\ held' = held \cup {s}
                /\ scope' = [scope EXCEPT ![s] = "open"]
                /\ Go(s, "open", "fork")
           ELSE /\ Go(s, "open", "failed")
                /\ UNCHANGED <<held, scope>>
    /\ UNCHANGED <<api, loop, owner, ready, opener, closer, host>>

(* A fiber forked into a scope that has been closed is interrupted before it
   does anything. *)
Fork(s) ==
    /\ work[s]["open"] = "fork"
    /\ opener' = [opener EXCEPT ![s] = IF scope[s] = "open" THEN "gate" ELSE "cut"]
    /\ Go(s, "open", "await")
    /\ UNCHANGED <<api, loop, held, owner, scope, ready, closer, host>>

AwaitOpen(s) ==
    /\ work[s]["open"] = "await"
    /\ ready[s] # "pending"
    /\ Go(s, "open", IF ready[s] = "client" THEN "ok" ELSE "remove")
    /\ UNCHANGED <<api, loop, registry, host>>

(* The opening fiber, inside GuestActivity.run *)

Inside == {"check", "wake", "recheck", "connect", "serving"}

Opener(s, label) ==
    /\ opener' = [opener EXCEPT ![s] = label]
    /\ UNCHANGED <<api, loop, work, held, owner, scope, closer, wanted, changes, pass, gate>>

Enter(s) ==
    /\ opener[s] = "gate" /\ gate = "free"
    /\ Opener(s, "check")
    /\ UNCHANGED <<ready, guest>>

Check(s) ==
    /\ opener[s] = "check" /\ Available
    /\ Opener(s, IF guest = "asleep" THEN "wake" ELSE "recheck")
    /\ UNCHANGED <<ready, guest>>

Wake(s) ==
    /\ opener[s] = "wake" /\ guest # "down"
    /\ guest' = "up"
    /\ Opener(s, "recheck")
    /\ UNCHANGED ready

Recheck(s) ==
    /\ opener[s] = "recheck" /\ Available
    /\ Opener(s, "connect")
    /\ UNCHANGED <<ready, guest>>

(* client.open has answered: the session is ready, and its fiber stays. *)
Connect(s) ==
    /\ opener[s] = "connect" /\ guest = "up"
    /\ Opener(s, "serving")
    /\ ready' = [ready EXCEPT ![s] = "client"]
    /\ UNCHANGED guest

(* A check that does not pass, a wake that fails, a guest that refuses the path
   or does not answer. *)
FailOpening(s) ==
    /\ \/ opener[s] \in {"check", "recheck"} /\ ~ Available
       \/ opener[s] \in {"wake", "connect"}
    /\ Opener(s, "ended")
    /\ ready' = [ready EXCEPT ![s] = "failed"]
    /\ UNCHANGED guest

---------------------------------------------------------------------------
(* SqliteSessions: pipelines and closes, expiry, and the closing of scopes *)

Look(s, op) ==
    /\ work[s][op] = "look"
    /\ Go(s, op, IF Available THEN "touch" ELSE "failed")
    /\ UNCHANGED <<api, loop, registry, host>>

Touch(s, op) ==
    /\ work[s][op] = "touch"
    /\ Go(s, op, IF s \notin held THEN "failed" ELSE IF op = "close" THEN "remove" ELSE "await")
    /\ UNCHANGED <<api, loop, registry, host>>

(* A pipeline runs in the session's scope. *)
AwaitReady(s) ==
    /\ work[s]["pipeline"] = "await"
    /\ ready[s] # "pending"
    /\ Go(s, "pipeline", IF ready[s] = "failed" THEN "failed"
                         ELSE IF scope[s] = "open" THEN "run" ELSE "remove")
    /\ UNCHANGED <<api, loop, registry, host>>

EndPipeline(s) ==
    /\ work[s]["pipeline"] = "run"
    /\ \E label \in {"ok", "remove"} : Go(s, "pipeline", label)
    /\ UNCHANGED <<api, loop, registry, host>>

(* What a query comes to once its session is closed. *)
Closed(op) == IF op = "close" THEN "ok" ELSE "failed"

(* Mutated: the session is forgotten and its scope left as it is. *)
RemoveOnly(s, op) ==
    /\ work[s][op] = "remove"
    /\ held' = held \ {s}
    /\ Go(s, op, Closed(op))
    /\ UNCHANGED <<api, loop, owner, scope, ready, opener, closer, host>>

(* close: whoever finds the session in the registry has its scope to close. *)
Remove(s, op) ==
    /\ work[s][op] = "remove"
    /\ held' = held \ {s}
    /\ closer' = [closer EXCEPT ![s] = IF s \in held THEN op ELSE @]
    /\ Go(s, op, IF s \in held THEN "closing" ELSE Closed(op))
    /\ UNCHANGED <<api, loop, owner, scope, ready, opener, host>>

(* No request has touched the session for SQLITE_SESSION_IDLE_TIMEOUT_MS. *)
Expire(s) ==
    /\ s \in held /\ opener[s] # "none"
    /\ held' = held \ {s}
    /\ closer' = [closer EXCEPT ![s] = "expiry"]
    /\ UNCHANGED <<api, loop, work, owner, scope, ready, opener, host>>

(* Mutated: an interrupted opening leaves the Deferred as it is. *)
ReadyAsItWas(s) == ready[s]

(* What an interruption makes of the Deferred: its handlers are inside
   GuestActivity.run, and a fiber that queues at the gate is not there yet. *)
ReadyInterrupted(s) ==
    IF opener[s] \in Inside /\ ready[s] = "pending" THEN "failed" ELSE ready[s]

(* Scope.close interrupts the opening fiber, the expiry and the pipelines of the
   session, and comes back when they have ended. *)
CloseScope(s) ==
    /\ closer[s] # "none"
    /\ scope' = [scope EXCEPT ![s] = "closed"]
    /\ closer' = [closer EXCEPT ![s] = "none"]
    /\ opener' = [opener EXCEPT ![s] = IF @ = "gate" THEN "cut"
                                       ELSE IF @ \in Inside THEN "ended" ELSE @]
    /\ ready' = [ready EXCEPT ![s] = ReadyInterrupted(s)]
    /\ work' = [work EXCEPT ![s] = [op \in Ops |->
                    IF op = closer[s] THEN Closed(op)
                    ELSE IF work[s][op] = "run" THEN "remove" ELSE work[s][op]]]
    /\ UNCHANGED <<api, loop, held, owner, host>>

---------------------------------------------------------------------------
(* The reconcile pass, as far as sessions are concerned, and suspends *)

Desire(state) ==
    /\ pass = "idle" /\ changes < MaxChanges
    /\ wanted \notin {state, "absent"}
    /\ wanted' = state
    /\ changes' = changes + 1
    /\ pass' = "sync"
    /\ UNCHANGED <<api, loop, work, registry, guest, gate>>

(* syncDeployments: the registry in one step, the scopes after it. *)
Sync ==
    /\ pass = "sync"
    /\ owner' = IF wanted = "running" THEN "deployment" ELSE "none"
    /\ LET removed == IF wanted = "running" THEN {} ELSE held
       IN  /\ held' = held \ removed
           /\ closer' = [s \in Sessions |-> IF s \in removed THEN "sync" ELSE closer[s]]
    /\ pass' = "closing"
    /\ UNCHANGED <<api, loop, work, scope, ready, opener, wanted, changes, guest, gate>>

(* Mutated: the scopes are closed in the background. *)
SyncedAtOnce == TRUE

Synced == \A s \in Sessions : closer[s] # "sync"

(* What the rest of the pass does to the app: stops, forgets, starts. *)
Apply ==
    /\ pass = "closing" /\ Synced
    /\ guest' = IF wanted # "running" THEN "down" ELSE IF guest = "down" THEN "up" ELSE guest
    /\ pass' = "idle"
    /\ UNCHANGED <<api, loop, work, registry, wanted, changes, gate>>

(* A suspend captures a guest nothing is counted in, and keeps the gate. *)
BeginCapture ==
    /\ gate = "free" /\ guest = "up"
    /\ \A s \in Sessions : opener[s] \notin Inside
    /\ gate' = "capture"
    /\ UNCHANGED <<api, loop, work, registry, wanted, changes, pass, guest>>

EndCapture ==
    /\ gate = "capture"
    /\ gate' = "free"
    /\ guest' \in IF guest = "up" THEN {"up", "asleep"} ELSE {guest}
    /\ UNCHANGED <<api, loop, work, registry, wanted, changes, pass>>

---------------------------------------------------------------------------

Next ==
    \/ Poll \/ EndPoll \/ Sync \/ Apply \/ BeginCapture \/ EndCapture
    \/ \E state \in {"running", "stopped", "absent"} : Desire(state)
    \/ \E s \in Sessions :
         \/ OpenStream(s) \/ Leave(s) \/ Pipeline(s) \/ CloseStream(s)
         \/ Reserve(s) \/ Fork(s) \/ AwaitOpen(s)
         \/ Enter(s) \/ Check(s) \/ Wake(s) \/ Recheck(s) \/ Connect(s) \/ FailOpening(s)
         \/ AwaitReady(s) \/ EndPipeline(s) \/ Expire(s) \/ CloseScope(s)
    \/ \E s \in Sessions, op \in Ops :
         \/ Deadline(s, op) \/ Claim(s, op) \/ LoseClaim(s, op) \/ Dispatch(s, op)
         \/ Send(s, op) \/ LoseResult(s, op)
         \/ Look(s, op) \/ Touch(s, op) \/ Remove(s, op)

Spec == Init /\ [][Next]_vars

(* The host's fibers run, its timers fire, the guest answers or times out, a
   pass and a capture end, and the gate's queue is served in order.  Nothing is
   assumed of callers, of the network or of what the control plane wants. *)
Fairness ==
    /\ WF_vars(Sync) /\ WF_vars(Apply) /\ WF_vars(EndCapture)
    /\ \A s \in Sessions :
         /\ WF_vars(Reserve(s)) /\ WF_vars(Fork(s)) /\ WF_vars(AwaitOpen(s))
         /\ SF_vars(Enter(s)) /\ WF_vars(Check(s) \/ Wake(s) \/ Recheck(s) \/ Connect(s) \/ FailOpening(s))
         /\ WF_vars(AwaitReady(s)) /\ WF_vars(EndPipeline(s))
         /\ WF_vars(Expire(s)) /\ WF_vars(CloseScope(s))
    /\ \A s \in Sessions, op \in Ops :
         /\ WF_vars(LoseClaim(s, op) \/ Dispatch(s, op)) /\ WF_vars(Send(s, op) \/ LoseResult(s, op))
         /\ WF_vars(Look(s, op)) /\ WF_vars(Touch(s, op)) /\ WF_vars(Remove(s, op))

FairSpec == Spec /\ Fairness

---------------------------------------------------------------------------

(* The variables are of the shapes the services keep. *)
TypeOK ==
    /\ stream \in [Sessions -> {"none", "opening", "open", "closing", "closed"}]
    /\ gone \in SUBSET Sessions
    /\ query \in [Sessions -> [Ops -> {"none", "pending", "claimed", "over"}]]
    /\ loop \in {"idle", "parked", "busy"}
    /\ work \in [Sessions -> [Ops ->
                    {"none", "handed", "lost", "reserve", "fork", "await", "look", "touch", "run",
                     "remove", "closing", "ok", "failed", "refused", "done"}]]
    /\ held \in SUBSET Sessions
    /\ owner \in {"deployment", "none"}
    /\ scope \in [Sessions -> {"none", "open", "closed"}]
    /\ ready \in [Sessions -> {"pending", "client", "failed"}]
    /\ opener \in [Sessions -> {"none", "gate", "cut", "ended"} \cup Inside]
    /\ closer \in [Sessions -> {"none", "expiry", "sync"} \cup Ops]
    /\ wanted \in {"running", "stopped", "absent"}
    /\ changes \in 0..MaxChanges
    /\ pass \in {"idle", "sync", "closing"}
    /\ guest \in {"up", "asleep", "down"}
    /\ gate \in {"free", "capture"}

(* A session that is open is one somebody will close: it is in the registry,
   where a close, an expiry or a withdrawal finds it, or one of them has it.
   One that is neither would keep the guest awake for good. *)
NoOrphan == \A s \in Sessions : scope[s] = "open" => s \in held \/ closer[s] # "none"

(* A guest is stopped or replaced only after the sessions with it have ended: one
   still being opened, open or running SQL is one that an expiry or a close took
   out of the registry before the pass looked there, and is closing. *)
StopsUnused ==
    [][guest # "down" /\ guest' = "down" =>
         \A s \in Sessions : opener[s] \in Inside \/ work[s]["pipeline"] = "run" =>
            closer[s] \notin {"none", "sync"}]_vars

Busy(s, op) == work[s][op] \notin {"none", "lost", "done"}

(* A query the host took up is done with, and its place among the active ones is
   free again, unless its session's opening fiber was interrupted before it got
   past GuestActivity's gate: the Deferred its caller waits for is then nobody's. *)
QueriesEnd ==
    \A s \in Sessions, op \in Ops : Busy(s, op) ~> (~ Busy(s, op) \/ opener[s] = "cut")
===========================================================================
