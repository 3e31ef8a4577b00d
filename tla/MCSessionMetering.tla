------------------------- MODULE MCSessionMetering -------------------------
(* Small instances of SessionMetering for TLC.                             *)
EXTENDS SoloMetering, TLC

\* A day of two ticks.
LongDays == [t \in Time |-> t \div 2]

\* Requests and session ids are interchangeable.
Symmetry == Permutations(Procs) \cup Permutations(Sessions)
=============================================================================
