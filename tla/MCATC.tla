------------------------------- MODULE MCATC -------------------------------
(* The translation cache on a small instance. *)
EXTENDS ATC

\* User data (1) and supervisor data (5).
MCFC == {{0}, {0, 2}}

\* One page stands for the upper half of memory.
MCHigh == [p \in PPage |-> CHOOSE q \in PPage : TRUE]
=============================================================================
