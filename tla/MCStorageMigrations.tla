----------------------- MODULE MCStorageMigrations -----------------------
(* StorageMigrations for TLC: room for a migration, its abort, a second one,
   its cutover and a rollback past it. *)
EXTENDS StorageMigrations, TLC

Symmetry == Permutations(Hosts)
===========================================================================
