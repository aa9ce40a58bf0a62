---------------------------- MODULE MCExceptions ----------------------------
(* Instances of Exceptions for TLC. *)
EXTENDS Exceptions

Ordinary == {"trap", "trapN", "privilege", "interrupt"}

\* Bus errors on the 68010, whose RTE knows the frame, and the 68040, whose does
\* not.
MCKinds == [c \in CPUs |-> CASE c = "010" -> Ordinary \cup {"bus"}
                             [] c = "040" -> {"trapN", "interrupt", "bus"}
                             [] OTHER -> Ordinary]

\* A CPU whose pushes fault has far more states: it nests two exceptions, the
\* second on top of the first.
MCDepth == [c \in CPUs |-> IF c \in PushFaults THEN 2 ELSE 3]
MCWords == [c \in CPUs |-> IF c \in PushFaults THEN 30 ELSE 64]

MCBus == [c \in CPUs |-> {"trap", "bus"}]
=============================================================================
