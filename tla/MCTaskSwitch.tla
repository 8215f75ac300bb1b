---------------------------- MODULE MCTaskSwitch ----------------------------
(* Values of both signs, around powers of two, for TLC. *)
EXTENDS TaskSwitch

MCValues == (-4)..12
=============================================================================
