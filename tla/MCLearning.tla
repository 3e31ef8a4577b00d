----------------------------- MODULE MCLearning -----------------------------
(* Small instances of Debrief and of the Review it composes.  A behaviour  *)
(* looks closely at one of the two: the ladder of spaced repetition over   *)
(* many days, or the debriefs of the first two days.                       *)
EXTENDS Debrief, TLC

VARIABLE focus

LearningInit == focus \in {"review", "debrief"} /\ ReviewInit /\ DebriefInit
                /\ level = 0 /\ (focus = "review" => profile = "absent" /\ OneProcess)
ReviewOnly == focus = "review" /\ ReviewNext /\ UNCHANGED debriefVars
DebriefOnly == focus = "debrief" /\ DebriefNext /\ clock' <= 0
LearningNext == (ReviewOnly \/ DebriefOnly) /\ UNCHANGED focus
LearningSpec == LearningInit /\ [][LearningNext]_<<focus, reviewVars, debriefVars>>

\* Requests are interchangeable.
Symmetry == Permutations(Workers)
=============================================================================
