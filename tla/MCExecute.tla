----------------------------- MODULE MCExecute -----------------------------
(* Instances of Execute for TLC. *)
EXTENDS Execute

\* Arguments of m68k_modify_timeslice: one that shortens, one that extends.
MCDeltas == {-1, 2}
=============================================================================
