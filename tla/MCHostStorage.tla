--------------------------- MODULE MCHostStorage ---------------------------
(***************************************************************************)
(* HostStorage on a host of two slots, only one of which has a device an   *)
(* app with a ZeroFS of its own could take.                                *)
(***************************************************************************)
EXTENDS HostStorage

CONSTANTS a1, a2

MCApps == {a1, a2}
MCOwn == {a1}

=============================================================================
