--------------------------- MODULE MCOfflineReplay ---------------------------
(* Instances of OfflineReplay for TLC. *)
EXTENDS OfflineReplay, TLC

CONSTANTS u1, u2, s1, t1, t2

\* The first learner speaks; the second shares the device.
MCOwnerOf == s1 :> u1
MCSessionOf == [t \in Turns |-> s1]

\* Turns are interchangeable: they belong to one session.
TurnSymmetry == Permutations(Turns)
=============================================================================
