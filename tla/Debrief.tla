------------------------------ MODULE Debrief ------------------------------
(***************************************************************************)
(* The debrief of a session: generate of debrief/service.py, the save of   *)
(* debrief/repository.py, and the enrichment that follows it: vocabulary,  *)
(* spaced repetition (module Review) and analytics.  The placement of      *)
(* onboarding/service.py writes the same learner.                          *)
(*                                                                         *)
(* A request is a worker; several requests may run in one process, where   *)
(* an asyncio lock serialises them by session, or in several processes.    *)
(* The advisory lock of lock_for_session is taken and given back inside    *)
(* one step: the rollback of io_boundary ends its transaction before the   *)
(* LLM is called.                                                          *)
(***************************************************************************)
EXTENDS Review, FiniteSets

CONSTANTS
  Sessions,   \* the learner's sessions
  Spoken,     \* those whose transcript has turns
  Processes,  \* server processes
  TopLevel    \* the CEFR levels are 0 (A1) .. TopLevel (C2)
ASSUME DebriefAssumption == /\ Sessions # {} /\ Spoken \subseteq Sessions /\ IsFiniteSet(Spoken)
                            /\ TopLevel \in Nat

None == -1    \* no row; an estimate that is not a CEFR level
Levels == 0 .. TopLevel

VARIABLES
  level,      \* users.cefr_level
  profile,    \* learner_profiles: "absent", "blank" or "memory" (memory_summary is set)
  debrief,    \* debriefs.cefr_estimate by session
  completions,\* session_completed events in analytics_events
  activation, \* activation events in analytics_events
  home,       \* the process each request runs in
  job,        \* the locals of each request
  userRow,    \* who holds the row lock its flush took on the learner's rows
  start,      \* (history) the level before the first debrief
  promoted,   \* (history) how often the level was committed for each session
  activations,\* (history) activation events ever stored
  placement   \* (history) "none", "running", "half", "whole"

debriefVars == <<level, profile, debrief, completions, activation, home, job, userRow,
                 start, promoted, activations, placement>>
learner == <<level, profile, debrief>>
events == <<completions, activation, activations>>
history == <<home, start, promoted, placement>>

\* What the LLM wrote; est is None when it is not a CEFR level.
Result == [est : Levels \cup {None}, errors : SUBSET Types]

\* s: the session; raw: the LLM's answer; mine: the level of the user object loaded
\* after it; fresh: save saw no debrief yet; prior: the count of completions.
Job == [pc : {"idle", "locked", "llm", "loaded", "saving", "saved", "review",
              "counted", "completed", "placing", "placed"},
        s : Sessions, raw : Result, mine : Levels, fresh : BOOLEAN, prior : Nat \cup {None}]
Idle == [pc |-> "idle", s |-> CHOOSE s \in Sessions : TRUE,
         raw |-> [est |-> None, errors |-> {}], mine |-> 0, fresh |-> FALSE, prior |-> None]

At(w, l) == job[w].pc = l
Goto(w, l) == job' = [job EXCEPT ![w].pc = l]
Leave(w) == job' = [job EXCEPT ![w] = Idle]
\* After the save only the session and the errors are used.
Enrich(w) == job' = [job EXCEPT ![w] = [Idle EXCEPT !.pc = "saved", !.s = job[w].s,
                                                    !.raw.errors = job[w].raw.errors]]

DebriefTypeOK ==
  /\ level \in Levels /\ start \in Levels
  /\ profile \in {"absent", "blank", "memory"}
  /\ debrief \in [Sessions -> Levels \cup {None}]
  /\ completions \in Nat /\ activation \in {0, 1} /\ activations \in Nat
  /\ home \in [Workers -> Processes]
  /\ job \in [Workers -> Job]
  /\ userRow \in Workers \cup {NoWorker}
  /\ promoted \in [Sessions -> Nat]
  /\ placement \in {"none", "running", "half", "whole"}

DebriefInit ==
  /\ level \in Levels /\ start = level
  /\ profile \in {"absent", "blank"}
  /\ debrief = [s \in Sessions |-> None]
  /\ completions = 0 /\ activation = 0 /\ activations = 0
  /\ home \in [Workers -> Processes]
  /\ job = [w \in Workers |-> Idle]
  /\ userRow = NoWorker
  /\ promoted = [s \in Sessions |-> 0]
  /\ placement = "none"

----------------------------------------------------------------------------
(* The analysis                                                            *)

\* Faulty variant: straight to the estimate.
NextCefrLevelJump(current, est) == IF est = None THEN current ELSE est

\* next_cefr_level: one step toward the estimate.
NextCefrLevel(current, est) ==
  IF est = None THEN current
  ELSE IF est > current THEN current + 1 ELSE IF est < current THEN current - 1 ELSE current

\* analyze puts fallback_cefr in place of an estimate that is not a CEFR level.
Analyzed(raw, fallback) == IF raw.est = None THEN fallback ELSE raw.est

\* The debrief does not pass fallback_cefr; its default is A1.
Estimate(w) == Analyzed(job[w].raw, 0)
Nudged(w) == NextCefrLevel(job[w].mine, Estimate(w))

----------------------------------------------------------------------------
(* generate                                                                *)

\* Faulty variant: no in-process lock.
GenerateUnlocked(w, s) ==
  /\ At(w, "idle")
  /\ job' = [job EXCEPT ![w].pc = "locked", ![w].s = s]
  /\ UNCHANGED <<learner, events, history, userRow>>

\* _generation_lock: the asyncio lock of this process and session.
GenerationLockFree(w, s) ==
  \A v \in Workers : home[v] = home[w] /\ job[v].s = s =>
    job[v].pc \in {"idle", "placing", "placed"}

\* get_owned_session, then the lock, which is held across the LLM call.
Generate(w, s) ==
  /\ GenerationLockFree(w, s)
  /\ At(w, "idle")
  /\ job' = [job EXCEPT ![w].pc = "locked", ![w].s = s]
  /\ UNCHANGED <<learner, events, history, userRow>>

\* Faulty variant: the empty debrief is saved without looking for one.
StartGenerationBlind(w) ==
  LET s == job[w].s
  IN /\ At(w, "locked")
     /\ \/ debrief[s] # None /\ s \in Spoken /\ Leave(w) /\ UNCHANGED debrief
        \/ s \notin Spoken /\ debrief' = [debrief EXCEPT ![s] = level] /\ Leave(w)
        \/ debrief[s] = None /\ s \in Spoken /\ Goto(w, "llm") /\ UNCHANGED debrief
     /\ UNCHANGED <<level, profile, events, history, userRow>>

\* _generate_locked up to the LLM: an existing debrief is returned, a session without
\* turns gets an empty one, and for the others the connection is given back.
StartGeneration(w) ==
  LET s == job[w].s
  IN /\ At(w, "locked")
     /\ \/ debrief[s] # None /\ Leave(w) /\ UNCHANGED debrief
        \/ /\ debrief[s] = None /\ s \notin Spoken
           /\ debrief' = [debrief EXCEPT ![s] = level]
           /\ Leave(w)
        \/ debrief[s] = None /\ s \in Spoken /\ Goto(w, "llm") /\ UNCHANGED debrief
     /\ UNCHANGED <<level, profile, events, history, userRow>>

\* The LLM answers; the user and the profile are loaded again.
Analyze(w, raw) ==
  /\ At(w, "llm")
  /\ job' = [job EXCEPT ![w].pc = "loaded", ![w].raw = raw, ![w].mine = level]
  /\ UNCHANGED <<learner, events, history, userRow>>

\* The LLM fails, its output is no JSON object, or the client is gone.
AnalyzeFails(w) ==
  /\ At(w, "llm")
  /\ Leave(w)
  /\ UNCHANGED <<learner, events, history, userRow>>

\* _persist_core: the nudge and the memory are staged, and the query of save flushes
\* them, which locks the learner's rows when there is something to write.
Save(w) ==
  /\ At(w, "loaded")
  /\ LET writes == Nudged(w) # job[w].mine \/ profile # "absent"
     IN /\ writes => userRow = NoWorker
        /\ userRow' = IF writes THEN w ELSE userRow
  /\ job' = [job EXCEPT ![w].pc = "saving", ![w].fresh = debrief[job[w].s] = None]
  /\ UNCHANGED <<learner, events, history>>

\* _stage_memory: the summary of the last debrief, when there is a profile.
StagedMemory == IF profile = "absent" THEN profile ELSE "memory"

Released(w) == userRow' = IF userRow = w THEN NoWorker ELSE userRow

\* The one commit: the row is inserted, or the row save has found is overwritten,
\* together with the level and the memory.
Commit(w) ==
  LET s == job[w].s
  IN /\ At(w, "saving")
     /\ job[w].fresh => debrief[s] = None
     /\ debrief' = [debrief EXCEPT ![s] = Estimate(w)]
     /\ level' = IF Nudged(w) # job[w].mine THEN Nudged(w) ELSE level
     /\ profile' = StagedMemory
     /\ promoted' = [promoted EXCEPT ![s] = @ + 1]
     /\ Released(w)
     /\ Enrich(w)
     /\ UNCHANGED <<events, home, start, placement>>

\* The insert violates the unique session_id: rollback, and the row of the other
\* worker is returned.  The rollback has expired the user object, whose id the
\* enrichment reads next: the request goes on or ends with an error.
Recover(w) ==
  /\ At(w, "saving")
  /\ job[w].fresh /\ debrief[job[w].s] # None
  /\ Released(w)
  /\ Enrich(w) \/ Leave(w)
  /\ UNCHANGED <<learner, events, history>>

\* The commit fails for another reason: nothing is stored.
CommitFails(w) ==
  /\ At(w, "saving")
  /\ Released(w)
  /\ Leave(w)
  /\ UNCHANGED <<learner, events, history>>

----------------------------------------------------------------------------
(* PostDebriefEnrichment.run: every effect may fail alone                  *)

\* _schedule_review, after the vocabulary was captured (see VoiceErasure).
ScheduleReview(w) ==
  /\ At(w, "saved")
  /\ RecordSession(w, job[w].raw.errors)
  /\ Goto(w, "review")
  /\ UNCHANGED <<learner, events, history, userRow>>

\* session_completed: the count before the completion, or None when it fails.
CountEvents(w) ==
  /\ At(w, "review")
  /\ RecordReturns(w)
  /\ \E n \in {completions, None} :
       job' = [job EXCEPT ![w].pc = "counted", ![w].prior = n]
  /\ UNCHANGED <<learner, events, history, userRow>>

EmitCompleted(w) ==
  /\ At(w, "counted")
  /\ \/ /\ completions' = completions + 1
        /\ IF job[w].prior = 0 THEN Goto(w, "completed") ELSE Leave(w)
     \/ UNCHANGED completions /\ Leave(w)
  /\ UNCHANGED <<learner, activation, activations, history, userRow>>

\* Faulty variant: no partial unique index on activation.
EmitActivationAlways(w) ==
  /\ At(w, "completed")
  /\ activation' = 1
  /\ activations' = activations + 1
  /\ Leave(w)
  /\ UNCHANGED <<learner, completions, history, userRow>>

\* The partial unique index refuses a second activation of the learner.
EmitActivation(w) ==
  /\ At(w, "completed")
  /\ \/ activation = 0 /\ activation' = 1 /\ activations' = activations + 1
     \/ UNCHANGED <<activation, activations>>
  /\ Leave(w)
  /\ UNCHANGED <<learner, completions, history, userRow>>

\* purge/task.py: the events are past their retention; activation is exempt.
PurgeAnalytics ==
  /\ completions > 0
  /\ completions' = 0
  /\ UNCHANGED <<learner, activation, activations, history, job, userRow>>

----------------------------------------------------------------------------
(* place of onboarding/service.py                                          *)

Place(w) ==
  /\ At(w, "idle") /\ placement = "none"
  /\ placement' = "running"
  /\ job' = [job EXCEPT ![w].pc = "placing", ![w].mine = level]
  /\ UNCHANGED <<learner, events, home, start, promoted, userRow>>

\* The estimate, or the level the account had before the analysis.
PlacedLevel(w, raw) == Analyzed(raw, job[w].mine)

\* The level is set and flushed; first_touch_by_user_id of the profile commits it.
FirstTouch(w, raw) ==
  LET cefr == PlacedLevel(w, raw)
  IN /\ At(w, "placing")
     /\ cefr # level => userRow = NoWorker
     /\ level' = cefr
     /\ profile' = IF profile = "absent" THEN "blank" ELSE profile
     /\ placement' = IF cefr = level THEN placement ELSE "half"
     /\ Goto(w, "placed")
     /\ UNCHANGED <<debrief, events, home, start, promoted, userRow>>

\* profiles.save: the second commit stores the interests and the goal.
SaveProfile(w) ==
  /\ At(w, "placed")
  /\ userRow = NoWorker
  /\ placement' = "whole"
  /\ Leave(w)
  /\ UNCHANGED <<learner, events, home, start, promoted, userRow>>

\* The analysis, or one of the two commits, fails.
PlaceFails(w) ==
  /\ At(w, "placing") \/ At(w, "placed")
  /\ placement' = IF placement = "running" THEN "none" ELSE placement
  /\ Leave(w)
  /\ UNCHANGED <<learner, events, home, start, promoted, userRow>>

----------------------------------------------------------------------------
DebriefAlone(w) ==
  \/ \E s \in Sessions : Generate(w, s)
  \/ StartGeneration(w)
  \/ \E raw \in Result : Analyze(w, raw)
  \/ AnalyzeFails(w)
  \/ Save(w) \/ Commit(w) \/ Recover(w) \/ CommitFails(w)
  \/ EmitCompleted(w) \/ EmitActivation(w)
  \/ Place(w) \/ SaveProfile(w) \/ PlaceFails(w)
  \/ \E raw \in Result : raw.errors = {} /\ FirstTouch(w, raw)

DebriefNext ==
  \/ \E w \in Workers : \/ DebriefAlone(w) /\ UNCHANGED reviewVars
                        \/ ScheduleReview(w) \/ CountEvents(w)
                        \/ RecordStep(w) /\ UNCHANGED debriefVars
  \/ PurgeAnalytics /\ UNCHANGED reviewVars
  \/ Tomorrow /\ UNCHANGED debriefVars

DebriefSpec == ReviewInit /\ DebriefInit /\ [][DebriefNext]_<<reviewVars, debriefVars>>

----------------------------------------------------------------------------
(* Properties                                                              *)

OneProcess == \A v, w \in Workers : home[v] = home[w]

\* In one process a session moves the learner's level once, whatever retries, failed
\* commits and concurrent requests happen (_persist_core, #302).
PromotedOnce == OneProcess => \A s \in Sessions : promoted[s] <= 1

\* The level never runs ahead of the practice: it has moved by at most one step for
\* each session with a debrief, although each request works on the level it loaded
\* itself (cefr.py).
LevelWithinSessions ==
  OneProcess /\ placement = "none" =>
    Cardinality({level, start} \cup {k \in Levels : (k - start) * (k - level) < 0}) - 1
      <= Cardinality({s \in Spoken : debrief[s] # None})

\* A learner is activated once, although completions are counted without a lock and
\* purged after their retention (analytics/service.py).
ActivatedOnce == activations <= 1

\* In one process a debrief that is stored is what every later request returns, never
\* replaced by the answer of a second LLM call (generate).
FirstDebriefStands ==
  [][OneProcess => \A s \in Sessions : debrief[s] # None => debrief'[s] = debrief[s]]_debriefVars

-----------------------------------------------------------------------------
(* What comments say and the code does not keep; no run checks these.        *)

\* An estimate that is not a CEFR level moves nobody: "unknown `estimate` leaves the
\* level unchanged (defensive against a malformed LLM estimate)" (cefr.py).
MalformedMovesNobody ==
  [][\A w \in Workers : Commit(w) /\ job[w].raw.est = None => level' = level]_debriefVars

\* A placement whose profile write failed leaves nothing behind: "A failed profile
\* write must not leave a half-applied placement" (onboarding/service.py).
NoHalfPlacement ==
  placement = "half" => \E w \in Workers : At(w, "placed")
=============================================================================
