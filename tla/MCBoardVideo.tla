---------------------------- MODULE MCBoardVideo ----------------------------
(* BoardVideo for TLC: two attempts can have something under way, and three failures in a row close the reader. *)
EXTENDS BoardVideo
=============================================================================
