--------------------------- MODULE MCTurnPipeline ---------------------------
(* Small instances of TurnPipeline for TLC.                                *)
EXTENDS TurnPipeline, TLC

\* Requests are interchangeable: no action and no property names one.
RequestSymmetry == Permutations(Requests)
=============================================================================
