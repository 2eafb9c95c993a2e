-------------------------- MODULE MCSqliteSessions --------------------------
(* SqliteSessions for TLC.  One session: others, of this app or of its
   neighbours, meet it only in the bounds, which the model lets anyone use up. *)
EXTENDS SqliteSessions
===========================================================================
