--------------------- MODULE MCVolumeMigrationFences ---------------------
(* VolumeMigrationFences for TLC.  Signals is a pool large enough for every
   Deferred that can be referred to at once and a fresh one per app. *)
EXTENDS VolumeMigrationFences
===========================================================================
