-------------------------- MODULE MCGuestActivity --------------------------
(* GuestActivity for TLC.  Activities and Signals are pools large enough for
   every object that can be referred to at once and a fresh one. *)
EXTENDS GuestActivity
===========================================================================
