------------------------ MODULE MCInstanceLifecycle ------------------------
(* InstanceLifecycle for TLC.  A startedAt is compared with the record's and
   with nothing else, so states that differ in which timestamps stand for the
   same comparisons are one state. *)
EXTENDS InstanceLifecycle, TLC

Symmetry == Permutations(Deployments)

Compared(r) == [r EXCEPT !.startedAt = IF @ = 0 THEN 0 ELSE IF @ = record.startedAt THEN 1 ELSE 2]

View ==
    <<accepted, Compared(record), [saved EXCEPT !.startedAt = IF @ = 0 THEN 0 ELSE 1],
      starting, snapshotting, deferredWork, host,
      [reconcile EXCEPT !.seen.startedAt = IF @ = 0 THEN 0 ELSE 1],
      [p \in Starters |-> [start[p] EXCEPT !.attempted = Compared(@)]],
      wake.pc, wake.desired, wake.seen.state, capture, [status EXCEPT !.seen = Compared(@)], bounds>>
===========================================================================
