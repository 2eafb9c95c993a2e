---------------------------- MODULE MCReleases ----------------------------
(* Releases for TLC: three deployments, so that a release can be stood down,
   fail and be replaced while one handler's report is under way.  What holds
   for any number of overlapping handlers is proved in ReleasesProofs. *)
EXTENDS Releases
===========================================================================
