---------------------------- MODULE MCLinkKeeper ----------------------------
(* LinkKeeper for TLC: dashboard answers one after the other, or two at once. *)
EXTENDS LinkKeeper
=============================================================================
