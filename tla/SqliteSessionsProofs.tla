------------------------ MODULE SqliteSessionsProofs ------------------------
(***************************************************************************)
(* Proofs about SqliteSessions, for any number of sessions and any bounds. *)
(***************************************************************************)
EXTENDS SqliteSessions, TLAPS

(* What runs in a session's scope runs while the scope is open. *)
RunsInScope ==
    \A s \in Sessions :
        opener[s] \in Inside \cup {"gate"} \/ work[s]["pipeline"] = "run" => scope[s] = "open"

(* From the moment a pass has withdrawn the deployment until it has stopped the
   guest, the registry is empty and lets nobody in. *)
WithdrawnIsEmpty ==
    pass = "closing" /\ wanted # "running" => owner = "none" /\ held = {}

(* What StopsUnused says of a step takes the three together: at the stop a session
   that runs has an open scope, is not in the registry, and so has a closer. *)
Safe == NoOrphan /\ RunsInScope /\ WithdrawnIsEmpty

IInv == TypeOK /\ Safe

---------------------------------------------------------------------------

(* The services start with no session. *)
LEMMA InitInv == Init => IInv
  <1> SUFFICES ASSUME Init PROVE IInv
    OBVIOUS
  <1>1. TypeOK
    BY ConstantsAssumption DEF Init, TypeOK, Inside, Ops
  <1>2. NoOrphan /\ RunsInScope /\ WithdrawnIsEmpty
    BY DEF Init, NoOrphan, RunsInScope, WithdrawnIsEmpty, Inside, Ops
  <1> QED BY <1>1, <1>2 DEF IInv, Safe

(* An answer leaves a stream in one of its states and its exchange over. *)
LEMMA AcceptType ==
    ASSUME TypeOK, NEW s \in Sessions, NEW op \in Ops, Send(s, op)
    PROVE  /\ stream' \in [Sessions -> {"none", "opening", "open", "closing", "closed"}]
           /\ query' \in [Sessions -> [Ops -> {"none", "pending", "claimed", "over"}]]
  <1>1. CASE query[s][op] # "claimed"
    BY <1>1 DEF Send, Accept, TypeOK
  <1>2. CASE query[s][op] = "claimed"
    <2>1. PICK next \in AfterAnswer(s, op, work[s][op] = "ok") : Become(s, next, Settled(s, op))
      BY <1>2 DEF Send, Accept
    <2>2. stream[s] \in {"none", "opening", "open", "closing", "closed"}
      BY DEF TypeOK
    <2>3. next \in {"none", "opening", "open", "closing", "closed"}
      <3>1. CASE op = "open"
        BY <3>1, <2>1 DEF AfterAnswer
      <3>2. CASE op = "pipeline"
        BY <3>2, <2>1, <2>2 DEF AfterAnswer
      <3>3. CASE op = "close"
        BY <3>3, <2>1 DEF AfterAnswer
      <3> QED BY <3>1, <3>2, <3>3 DEF Ops
    <2>4. stream' = [stream EXCEPT ![s] = next]
      BY <2>1 DEF Become
    <2>5. Settled(s, op) \in [Sessions -> [Ops -> {"none", "pending", "claimed", "over"}]]
      BY DEF Settled, TypeOK
    <2>6. query' \in [Sessions -> [Ops -> {"none", "pending", "claimed", "over"}]]
      BY <2>1, <2>5 DEF Become, Ops
    <2> QED BY <2>3, <2>4, <2>6 DEF TypeOK
  <1> QED BY <1>1, <1>2

(* Every step keeps the variables' shapes. *)
LEMMA TypeNext == TypeOK /\ Next => TypeOK'
  <1> SUFFICES ASSUME TypeOK, Next PROVE TypeOK'
    OBVIOUS
  <1>1. ASSUME Poll PROVE TypeOK'
    BY <1>1 DEF Poll, TypeOK, Ops, Inside, api, registry, host
  <1>2. ASSUME EndPoll PROVE TypeOK'
    BY <1>2 DEF EndPoll, TypeOK, Ops, Inside, api, registry, host
  <1>3. ASSUME Sync PROVE TypeOK'
    BY <1>3 DEF Sync, TypeOK, Ops, Inside, api, registry, host
  <1>4. ASSUME Apply PROVE TypeOK'
    BY <1>4 DEF Apply, TypeOK, Ops, Inside, api, registry, host
  <1>5. ASSUME BeginCapture PROVE TypeOK'
    BY <1>5 DEF BeginCapture, TypeOK, Ops, Inside, api, registry, host
  <1>6. ASSUME EndCapture PROVE TypeOK'
    BY <1>6 DEF EndCapture, TypeOK, Ops, Inside, api, registry, host
  <1>7. ASSUME NEW state \in {"running", "stopped", "absent"}, Desire(state) PROVE TypeOK'
    BY <1>7, ConstantsAssumption DEF Desire, TypeOK, api, registry
  <1>8. ASSUME NEW s \in Sessions, OpenStream(s) PROVE TypeOK'
    BY <1>8 DEF OpenStream, TypeOK, Ops, Inside, api, registry, host
  <1>9. ASSUME NEW s \in Sessions, Leave(s) PROVE TypeOK'
    BY <1>9 DEF Leave, TypeOK, Ops, Inside, api, registry, host
  <1>10. ASSUME NEW s \in Sessions, Pipeline(s) PROVE TypeOK'
    BY <1>10 DEF Pipeline, TypeOK, Ops, Inside, api, registry, host
  <1>11. ASSUME NEW s \in Sessions, CloseStream(s) PROVE TypeOK'
    BY <1>11 DEF CloseStream, Become, TypeOK, Ops, Inside, api, registry, host
  <1>12. ASSUME NEW s \in Sessions, Reserve(s) PROVE TypeOK'
    <2>1. CASE /\ Go(s, "open", "fork")
               /\ held' = held \cup {s}
               /\ scope' = [scope EXCEPT ![s] = "open"]
      BY <1>12, <2>1 DEF Reserve, Go, TypeOK, Ops, Inside, api, host
    <2>2. CASE Go(s, "open", "failed") /\ UNCHANGED <<held, scope>>
      BY <1>12, <2>2 DEF Reserve, Go, TypeOK, Ops, Inside, api, host
    <2> QED BY <1>12, <2>1, <2>2 DEF Reserve
  <1>13. ASSUME NEW s \in Sessions, Fork(s) PROVE TypeOK'
    BY <1>13 DEF Fork, Go, TypeOK, Ops, Inside, api, registry, host
  <1>14. ASSUME NEW s \in Sessions, AwaitOpen(s) PROVE TypeOK'
    BY <1>14 DEF AwaitOpen, Go, TypeOK, Ops, Inside, api, registry, host
  <1>15. ASSUME NEW s \in Sessions, Enter(s) PROVE TypeOK'
    BY <1>15 DEF Enter, Opener, TypeOK, Ops, Inside, api, registry, host
  <1>16. ASSUME NEW s \in Sessions, Check(s) PROVE TypeOK'
    BY <1>16 DEF Check, Opener, TypeOK, Ops, Inside, api, registry, host
  <1>17. ASSUME NEW s \in Sessions, Wake(s) PROVE TypeOK'
    BY <1>17 DEF Wake, Opener, TypeOK, Ops, Inside, api, registry, host
  <1>18. ASSUME NEW s \in Sessions, Recheck(s) PROVE TypeOK'
    BY <1>18 DEF Recheck, Opener, TypeOK, Ops, Inside, api, registry, host
  <1>19. ASSUME NEW s \in Sessions, Connect(s) PROVE TypeOK'
    BY <1>19 DEF Connect, Opener, TypeOK, Ops, Inside, api, registry, host
  <1>20. ASSUME NEW s \in Sessions, FailOpening(s) PROVE TypeOK'
    BY <1>20 DEF FailOpening, Opener, TypeOK, Ops, Inside, api, registry, host
  <1>21. ASSUME NEW s \in Sessions, AwaitReady(s) PROVE TypeOK'
    BY <1>21 DEF AwaitReady, Go, TypeOK, Ops, Inside, api, registry, host
  <1>22. ASSUME NEW s \in Sessions, EndPipeline(s) PROVE TypeOK'
    BY <1>22 DEF EndPipeline, Go, TypeOK, Ops, Inside, api, registry, host
  <1>23. ASSUME NEW s \in Sessions, Expire(s) PROVE TypeOK'
    BY <1>23 DEF Expire, TypeOK, Ops, Inside, api, registry, host
  <1>24. ASSUME NEW s \in Sessions, CloseScope(s) PROVE TypeOK'
    BY <1>24 DEF CloseScope, Closed, ReadyInterrupted, TypeOK, Ops, Inside, api, registry,
       host
  <1>25. ASSUME NEW s \in Sessions, NEW op \in Ops, Deadline(s, op) PROVE TypeOK'
    BY <1>25 DEF Deadline, Become, AfterDeadline, Settled, TypeOK, Ops, Inside, api,
       registry, host
  <1>26. ASSUME NEW s \in Sessions, NEW op \in Ops, Claim(s, op) PROVE TypeOK'
    BY <1>26 DEF Claim, TypeOK, Ops, Inside, api, registry, host
  <1>27. ASSUME NEW s \in Sessions, NEW op \in Ops, LoseClaim(s, op) PROVE TypeOK'
    BY <1>27 DEF LoseClaim, TypeOK, Ops, Inside, api, registry, host
  <1>28. ASSUME NEW s \in Sessions, NEW op \in Ops, Dispatch(s, op) PROVE TypeOK'
    <2>1. PICK label \in {"refused", "reserve", "look"} : work' = [work EXCEPT ![s][op] = label]
      BY <1>28 DEF Dispatch, First
    <2>2. loop' \in {loop, "idle"}
      BY <1>28 DEF Dispatch
    <2> QED BY <1>28, <2>1, <2>2 DEF Dispatch, TypeOK, Ops, Inside, api, registry, host
  <1>29. ASSUME NEW s \in Sessions, NEW op \in Ops, Send(s, op) PROVE TypeOK'
    <2>1. stream' \in [Sessions -> {"none", "opening", "open", "closing", "closed"}]
          /\ query' \in [Sessions -> [Ops -> {"none", "pending", "claimed", "over"}]]
      BY <1>29, AcceptType DEF Send
    <2> QED BY <1>29, <2>1 DEF Send, Sent, Sending, TypeOK, Ops, Inside, registry, host
  <1>30. ASSUME NEW s \in Sessions, NEW op \in Ops, LoseResult(s, op) PROVE TypeOK'
    BY <1>30 DEF LoseResult, Sent, Sending, TypeOK, Ops, Inside, api, registry, host
  <1>31. ASSUME NEW s \in Sessions, NEW op \in Ops, Look(s, op) PROVE TypeOK'
    BY <1>31 DEF Look, Go, TypeOK, Ops, Inside, api, registry, host
  <1>32. ASSUME NEW s \in Sessions, NEW op \in Ops, Touch(s, op) PROVE TypeOK'
    BY <1>32 DEF Touch, Go, TypeOK, Ops, Inside, api, registry, host
  <1>33. ASSUME NEW s \in Sessions, NEW op \in Ops, Remove(s, op) PROVE TypeOK'
    BY <1>33 DEF Remove, Go, Closed, TypeOK, Ops, Inside, api, registry, host
  <1> QED BY <1>1, <1>2, <1>3, <1>4, <1>5, <1>6, <1>7, <1>8, <1>9, <1>10, <1>11, <1>12,
     <1>13, <1>14, <1>15, <1>16, <1>17, <1>18, <1>19, <1>20, <1>21, <1>22, <1>23, <1>24,
     <1>25, <1>26, <1>27, <1>28, <1>29, <1>30, <1>31, <1>32, <1>33 DEF Next

(* Every step keeps the three. *)
LEMMA SafeNext == TypeOK /\ Safe /\ Next => Safe'
  <1> SUFFICES ASSUME TypeOK, Safe, Next PROVE Safe'
    OBVIOUS
  <1>1. ASSUME Poll PROVE Safe'
    BY <1>1 DEF Poll, TypeOK, Safe, NoOrphan, RunsInScope, WithdrawnIsEmpty, Inside, Ops,
       api, registry, host
  <1>2. ASSUME EndPoll PROVE Safe'
    BY <1>2 DEF EndPoll, TypeOK, Safe, NoOrphan, RunsInScope, WithdrawnIsEmpty, Inside, Ops,
       api, registry, host
  <1>3. ASSUME Sync PROVE Safe'
    BY <1>3 DEF Sync, TypeOK, Safe, NoOrphan, RunsInScope, WithdrawnIsEmpty, Inside, Ops,
       api, registry, host
  <1>4. ASSUME Apply PROVE Safe'
    BY <1>4 DEF Apply, TypeOK, Safe, NoOrphan, RunsInScope, WithdrawnIsEmpty, Inside, Ops,
       api, registry, host
  <1>5. ASSUME BeginCapture PROVE Safe'
    BY <1>5 DEF BeginCapture, TypeOK, Safe, NoOrphan, RunsInScope, WithdrawnIsEmpty, Inside,
       Ops, api, registry, host
  <1>6. ASSUME EndCapture PROVE Safe'
    BY <1>6 DEF EndCapture, TypeOK, Safe, NoOrphan, RunsInScope, WithdrawnIsEmpty, Inside,
       Ops, api, registry, host
  <1>7. ASSUME NEW state \in {"running", "stopped", "absent"}, Desire(state) PROVE Safe'
    BY <1>7 DEF Desire, TypeOK, Safe, NoOrphan, RunsInScope, WithdrawnIsEmpty, Inside, Ops,
       api, registry, host
  <1>8. ASSUME NEW s \in Sessions, OpenStream(s) PROVE Safe'
    BY <1>8 DEF OpenStream, TypeOK, Safe, NoOrphan, RunsInScope, WithdrawnIsEmpty, Inside,
       Ops, api, registry, host
  <1>9. ASSUME NEW s \in Sessions, Leave(s) PROVE Safe'
    BY <1>9 DEF Leave, TypeOK, Safe, NoOrphan, RunsInScope, WithdrawnIsEmpty, Inside, Ops,
       api, registry, host
  <1>10. ASSUME NEW s \in Sessions, Pipeline(s) PROVE Safe'
    BY <1>10 DEF Pipeline, TypeOK, Safe, NoOrphan, RunsInScope, WithdrawnIsEmpty, Inside,
       Ops, api, registry, host
  <1>11. ASSUME NEW s \in Sessions, CloseStream(s) PROVE Safe'
    BY <1>11 DEF CloseStream, Become, TypeOK, Safe, NoOrphan, RunsInScope, WithdrawnIsEmpty,
       Inside, Ops, api, registry, host
  <1>12. ASSUME NEW s \in Sessions, Reserve(s) PROVE Safe'
    BY <1>12 DEF Reserve, Go, TypeOK, Safe, NoOrphan, RunsInScope, WithdrawnIsEmpty, Inside,
       Ops, api, registry, host
  <1>13. ASSUME NEW s \in Sessions, Fork(s) PROVE Safe'
    BY <1>13 DEF Fork, Go, TypeOK, Safe, NoOrphan, RunsInScope, WithdrawnIsEmpty, Inside,
       Ops, api, registry, host
  <1>14. ASSUME NEW s \in Sessions, AwaitOpen(s) PROVE Safe'
    BY <1>14 DEF AwaitOpen, Go, TypeOK, Safe, NoOrphan, RunsInScope, WithdrawnIsEmpty,
       Inside, Ops, api, registry, host
  <1>15. ASSUME NEW s \in Sessions, Enter(s) PROVE Safe'
    BY <1>15 DEF Enter, Opener, TypeOK, Safe, NoOrphan, RunsInScope, WithdrawnIsEmpty,
       Inside, Ops, api, registry, host
  <1>16. ASSUME NEW s \in Sessions, Check(s) PROVE Safe'
    BY <1>16 DEF Check, Opener, TypeOK, Safe, NoOrphan, RunsInScope, WithdrawnIsEmpty,
       Inside, Ops, api, registry, host
  <1>17. ASSUME NEW s \in Sessions, Wake(s) PROVE Safe'
    BY <1>17 DEF Wake, Opener, TypeOK, Safe, NoOrphan, RunsInScope, WithdrawnIsEmpty,
       Inside, Ops, api, registry, host
  <1>18. ASSUME NEW s \in Sessions, Recheck(s) PROVE Safe'
    BY <1>18 DEF Recheck, Opener, TypeOK, Safe, NoOrphan, RunsInScope, WithdrawnIsEmpty,
       Inside, Ops, api, registry, host
  <1>19. ASSUME NEW s \in Sessions, Connect(s) PROVE Safe'
    BY <1>19 DEF Connect, Opener, TypeOK, Safe, NoOrphan, RunsInScope, WithdrawnIsEmpty,
       Inside, Ops, api, registry, host
  <1>20. ASSUME NEW s \in Sessions, FailOpening(s) PROVE Safe'
    BY <1>20 DEF FailOpening, Opener, TypeOK, Safe, NoOrphan, RunsInScope, WithdrawnIsEmpty,
       Inside, Ops, api, registry, host
  <1>21. ASSUME NEW s \in Sessions, AwaitReady(s) PROVE Safe'
    BY <1>21 DEF AwaitReady, Go, TypeOK, Safe, NoOrphan, RunsInScope, WithdrawnIsEmpty,
       Inside, Ops, api, registry, host
  <1>22. ASSUME NEW s \in Sessions, EndPipeline(s) PROVE Safe'
    BY <1>22 DEF EndPipeline, Go, TypeOK, Safe, NoOrphan, RunsInScope, WithdrawnIsEmpty,
       Inside, Ops, api, registry, host
  <1>23. ASSUME NEW s \in Sessions, Expire(s) PROVE Safe'
    BY <1>23 DEF Expire, TypeOK, Safe, NoOrphan, RunsInScope, WithdrawnIsEmpty, Inside, Ops,
       api, registry, host
  <1>24. ASSUME NEW s \in Sessions, CloseScope(s) PROVE Safe'
    BY <1>24 DEF CloseScope, Closed, ReadyInterrupted, TypeOK, Safe, NoOrphan, RunsInScope,
       WithdrawnIsEmpty, Inside, Ops, api, registry, host
  <1>25. ASSUME NEW s \in Sessions, NEW op \in Ops, Deadline(s, op) PROVE Safe'
    BY <1>25 DEF Deadline, Become, AfterDeadline, Settled, TypeOK, Safe, NoOrphan,
       RunsInScope, WithdrawnIsEmpty, Inside, Ops, api, registry, host
  <1>26. ASSUME NEW s \in Sessions, NEW op \in Ops, Claim(s, op) PROVE Safe'
    BY <1>26 DEF Claim, TypeOK, Safe, NoOrphan, RunsInScope, WithdrawnIsEmpty, Inside, Ops,
       api, registry, host
  <1>27. ASSUME NEW s \in Sessions, NEW op \in Ops, LoseClaim(s, op) PROVE Safe'
    BY <1>27 DEF LoseClaim, TypeOK, Safe, NoOrphan, RunsInScope, WithdrawnIsEmpty, Inside,
       Ops, api, registry, host
  <1>28. ASSUME NEW s \in Sessions, NEW op \in Ops, Dispatch(s, op) PROVE Safe'
    <2>1. PICK label \in {"refused", "reserve", "look"} : work' = [work EXCEPT ![s][op] = label]
      BY <1>28 DEF Dispatch, First
    <2> QED BY <1>28, <2>1 DEF Dispatch, TypeOK, Safe, NoOrphan, RunsInScope, WithdrawnIsEmpty,
               Inside, Ops, api, registry, host
  <1>29. ASSUME NEW s \in Sessions, NEW op \in Ops, Send(s, op) PROVE Safe'
    BY <1>29 DEF Send, Sent, TypeOK, Safe, NoOrphan, RunsInScope, WithdrawnIsEmpty, Inside,
       Ops, api, registry, host
  <1>30. ASSUME NEW s \in Sessions, NEW op \in Ops, LoseResult(s, op) PROVE Safe'
    BY <1>30 DEF LoseResult, Sent, Sending, TypeOK, Safe, NoOrphan, RunsInScope,
       WithdrawnIsEmpty, Inside, Ops, api, registry, host
  <1>31. ASSUME NEW s \in Sessions, NEW op \in Ops, Look(s, op) PROVE Safe'
    BY <1>31 DEF Look, Go, TypeOK, Safe, NoOrphan, RunsInScope, WithdrawnIsEmpty, Inside,
       Ops, api, registry, host
  <1>32. ASSUME NEW s \in Sessions, NEW op \in Ops, Touch(s, op) PROVE Safe'
    BY <1>32 DEF Touch, Go, TypeOK, Safe, NoOrphan, RunsInScope, WithdrawnIsEmpty, Inside,
       Ops, api, registry, host
  <1>33. ASSUME NEW s \in Sessions, NEW op \in Ops, Remove(s, op) PROVE Safe'
    <2>1. NoOrphan'
      <3>1. CASE s \in held
        BY <1>33, <3>1 DEF Remove, TypeOK, Safe, NoOrphan, Ops
      <3>2. CASE s \notin held
        BY <1>33, <3>2 DEF Remove, TypeOK, Safe, NoOrphan, Ops
      <3> QED BY <3>1, <3>2
    <2>2. RunsInScope'
      BY <1>33 DEF Remove, Go, Closed, TypeOK, Safe, RunsInScope, Inside, Ops
    <2>3. WithdrawnIsEmpty'
      BY <1>33 DEF Remove, Safe, WithdrawnIsEmpty, host
    <2> QED BY <2>1, <2>2, <2>3 DEF Safe
  <1> QED BY <1>1, <1>2, <1>3, <1>4, <1>5, <1>6, <1>7, <1>8, <1>9, <1>10, <1>11, <1>12,
     <1>13, <1>14, <1>15, <1>16, <1>17, <1>18, <1>19, <1>20, <1>21, <1>22, <1>23, <1>24,
     <1>25, <1>26, <1>27, <1>28, <1>29, <1>30, <1>31, <1>32, <1>33 DEF Next

---------------------------------------------------------------------------

(* A step that changes nothing keeps everything. *)
LEMMA StutterInv == IInv /\ UNCHANGED vars => IInv'
  BY DEF IInv, Safe, TypeOK, NoOrphan, RunsInScope, WithdrawnIsEmpty, vars

(* The type invariant and the three are kept together. *)
LEMMA Inductive == Spec => []IInv
  <1>1. IInv /\ [Next]_vars => IInv'
    BY TypeNext, SafeNext, StutterInv DEF IInv
  <1> QED BY InitInv, <1>1, PTL DEF Spec

(* The queries, sessions and fibers of any number of streams stay in the shapes
   hrana-streams.ts, pending-queries.ts and sqlite-sessions.service.ts keep. *)
THEOREM TypeCorrect == Spec => []TypeOK
  BY Inductive, PTL DEF IInv

(* However closes, failed opens, expiries and withdrawals meet, an open scope of
   sqlite-sessions.service.ts is in the registry or somebody's to close. *)
THEOREM EveryScopeHasACloser == Spec => []NoOrphan
  BY Inductive, PTL DEF IInv, Safe

(* The one step that takes a guest down is the pass's, after syncDeployments has
   waited for the scopes it took. *)
LEMMA OnlyApplyStops ==
    ASSUME TypeOK, Next, guest # "down", guest' = "down"
    PROVE  Apply /\ wanted # "running"
  <1>1. CASE Apply
    BY <1>1 DEF Apply
  <1>2. CASE EndCapture
    BY <1>2 DEF EndCapture
  <1>3. ASSUME NEW s \in Sessions, Wake(s) PROVE FALSE
    BY <1>3 DEF Wake
  <1>4. CASE \/ Poll \/ EndPoll \/ Sync \/ BeginCapture
             \/ \E state \in {"running", "stopped", "absent"} : Desire(state)
    BY <1>4 DEF Poll, EndPoll, Sync, BeginCapture, Desire, host
  <1>5. ASSUME NEW s \in Sessions,
               \/ OpenStream(s) \/ Leave(s) \/ Pipeline(s) \/ CloseStream(s)
               \/ Reserve(s) \/ Fork(s) \/ AwaitOpen(s)
               \/ Enter(s) \/ Check(s) \/ Recheck(s) \/ Connect(s) \/ FailOpening(s)
               \/ AwaitReady(s) \/ EndPipeline(s) \/ Expire(s) \/ CloseScope(s)
        PROVE  FALSE
    BY <1>5 DEF OpenStream, Leave, Pipeline, CloseStream, Reserve, Fork, AwaitOpen, Enter, Check,
       Recheck, Connect, FailOpening, AwaitReady, EndPipeline, Expire, CloseScope, host
  <1>6. ASSUME NEW s \in Sessions, NEW op \in Ops,
               \/ Deadline(s, op) \/ Claim(s, op) \/ LoseClaim(s, op) \/ Dispatch(s, op)
               \/ Send(s, op) \/ LoseResult(s, op)
               \/ Look(s, op) \/ Touch(s, op) \/ Remove(s, op)
        PROVE  FALSE
    BY <1>6 DEF Deadline, Claim, LoseClaim, Dispatch, Send, LoseResult, Sent, Look, Touch, Remove,
       host
  <1> QED BY <1>1, <1>2, <1>3, <1>4, <1>5, <1>6 DEF Next

(* The pass of reconciler.service.ts stops a guest under no session but one that
   an expiry or a close had taken out of the registry and is closing. *)
THEOREM SessionsEndFirst == Spec => StopsUnused
  <1>1. ASSUME IInv, [Next]_vars, guest # "down", guest' = "down",
               NEW s \in Sessions, opener[s] \in Inside \/ work[s]["pipeline"] = "run"
        PROVE  closer[s] \notin {"none", "sync"}
    <2>1. Next
      BY <1>1 DEF vars
    <2>2. Apply /\ wanted # "running"
      BY <1>1, <2>1, OnlyApplyStops DEF IInv
    <2>3. closer[s] # "sync"
      BY <2>2 DEF Apply, Synced
    <2>4. held = {}
      BY <1>1, <2>2 DEF Apply, IInv, Safe, WithdrawnIsEmpty
    <2>5. scope[s] = "open"
      BY <1>1 DEF IInv, Safe, RunsInScope
    <2>6. closer[s] # "none"
      BY <1>1, <2>4, <2>5 DEF IInv, Safe, NoOrphan
    <2> QED BY <2>3, <2>6
  <1>2. IInv /\ [Next]_vars =>
          [guest # "down" /\ guest' = "down" =>
             \A s \in Sessions : opener[s] \in Inside \/ work[s]["pipeline"] = "run" =>
                closer[s] \notin {"none", "sync"}]_vars
    BY <1>1
  <1> QED BY Inductive, <1>2, PTL DEF Spec, StopsUnused
===========================================================================
