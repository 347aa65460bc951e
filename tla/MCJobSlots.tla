---------------------------- MODULE MCJobSlots ----------------------------
(* A dmake and two dmakes below it, for TLC. *)
EXTENDS JobSlots

CONSTANTS r, x, y
=============================================================================
