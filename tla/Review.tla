------------------------------- MODULE Review -------------------------------
(***************************************************************************)
(* record_session of review/service.py, run by several debriefs at once    *)
(* for one learner, under the advisory lock of review/repository.py.       *)
(*                                                                         *)
(* `now` is taken when the call starts, before it waits for the lock, so a *)
(* session may be recorded with an instant older than the last one.        *)
(***************************************************************************)
EXTENDS ReviewLedger

CONSTANTS Workers, NoWorker   \* debrief requests; nobody
ASSUME NoWorkerAssumption == NoWorker \notin Workers

VARIABLES
  clock,      \* the day
  reviewLock, \* who holds pg_advisory_xact_lock("review", user)
  rpc,        \* where each record_session is
  at,         \* its `now`
  seen,       \* its errors_seen
  rows,       \* what its list_for_user returned
  lastError,  \* (history) `now` of the last recorded session that saw the type
  climb       \* (history) days from that error to the session that mastered the type

reviewVars == <<items, clock, reviewLock, rpc, at, seen, rows, lastError, climb>>

ReviewTypeOK ==
  /\ items \in [Types -> Item]
  /\ clock \in Time
  /\ reviewLock \in Workers \cup {NoWorker}
  /\ rpc \in [Workers -> {"idle", "waiting", "locked", "done"}]
  /\ at \in [Workers -> Time]
  /\ seen \in [Workers -> SUBSET Types]
  /\ rows \in [Workers -> [Types -> Item]]
  /\ lastError \in [Types -> Time]
  /\ climb \in [Types -> Int]

ReviewInit ==
  /\ LedgerInit
  /\ clock = 0
  /\ reviewLock = NoWorker
  /\ rpc = [w \in Workers |-> "idle"]
  /\ at = [w \in Workers |-> 0]
  /\ seen = [w \in Workers |-> {}]
  /\ rows = [w \in Workers |-> [t \in Types |-> NewItem]]
  /\ lastError = [t \in Types |-> 0]
  /\ climb = [t \in Types |-> 0]

\* The call is over and its locals are gone.
Forget(w) ==
  /\ reviewLock' = NoWorker
  /\ rpc' = [rpc EXCEPT ![w] = "done"]
  /\ at' = [at EXCEPT ![w] = 0]
  /\ seen' = [seen EXCEPT ![w] = {}]
  /\ rows' = [rows EXCEPT ![w] = [t \in Types |-> NewItem]]

\* _schedule_review: the errors of the debrief and the instant are fixed here.
RecordSession(w, errors) ==
  /\ rpc[w] = "idle"
  /\ rpc' = [rpc EXCEPT ![w] = "waiting"]
  /\ at' = [at EXCEPT ![w] = clock]
  /\ seen' = [seen EXCEPT ![w] = errors]
  /\ UNCHANGED <<items, clock, reviewLock, rows, lastError, climb>>

\* Faulty variant: list_for_user before, and without, the lock.
LockForUserNever(w) ==
  /\ rpc[w] = "waiting"
  /\ rpc' = [rpc EXCEPT ![w] = "locked"]
  /\ rows' = [rows EXCEPT ![w] = items]
  /\ UNCHANGED <<items, clock, reviewLock, at, seen, lastError, climb>>

\* lock_for_user, then list_for_user.
LockForUser(w) ==
  /\ rpc[w] = "waiting"
  /\ reviewLock = NoWorker
  /\ reviewLock' = w
  /\ rpc' = [rpc EXCEPT ![w] = "locked"]
  /\ rows' = [rows EXCEPT ![w] = items]
  /\ UNCHANGED <<items, clock, at, seen, lastError, climb>>

\* Every upsert is staged, the single commit publishes them and releases the lock.
CommitSession(w) ==
  /\ rpc[w] = "locked"
  /\ items' = AfterSession(rows[w], seen[w], at[w])
  /\ Forget(w)
  /\ lastError' = [t \in Types |-> IF t \in seen[w] THEN at[w]
                                   ELSE IF items'[t].mastered THEN 0 ELSE lastError[t]]
  /\ climb' = [t \in Types |-> IF ~items'[t].mastered THEN 0
                               ELSE IF items[t].mastered THEN climb[t]
                               ELSE at[w] - lastError[t]]
  /\ UNCHANGED clock

\* An upsert or the commit fails: rollback, and the caller swallows the exception.
RollbackSession(w) ==
  /\ rpc[w] = "locked"
  /\ Forget(w)
  /\ UNCHANGED <<items, clock, lastError, climb>>

RecordReturns(w) ==
  /\ rpc[w] = "done"
  /\ rpc' = [rpc EXCEPT ![w] = "idle"]
  /\ UNCHANGED <<items, clock, reviewLock, at, seen, rows, lastError, climb>>

Tomorrow ==
  /\ clock < MaxTime
  /\ clock' = clock + 1
  /\ UNCHANGED <<items, reviewLock, rpc, at, seen, rows, lastError, climb>>

RecordStep(w) == LockForUser(w) \/ CommitSession(w) \/ RollbackSession(w)

ReviewNext ==
  \/ Tomorrow
  \/ \E w \in Workers : \/ \E errors \in SUBSET Types : RecordSession(w, errors)
                        \/ RecordStep(w)
                        \/ RecordReturns(w)

ReviewSpec == ReviewInit /\ [][ReviewNext]_reviewVars

\* list_due at the given day.
ListDue(day) == {t \in Types : /\ items[t].tracked /\ ~items[t].mastered
                               /\ items[t].next = Never \/ items[t].next <= day}

----------------------------------------------------------------------------
(* Properties                                                              *)

\* record_session is atomic: however calls of one learner overlap, the schedule
\* advances as if they had run one after the other (no lost advance, #361).
NoLostAdvance == [][LedgerStep]_items

\* A type is mastered only after the ladder was climbed since its last recorded
\* error: J+1, then J+3, then J+7 (scheduler.py, on_error_absent).
MasteredAfterLadder ==
  \A t \in Types : items[t].mastered => climb[t] >= 1 + 3 + 7

\* A tracked type that is not mastered is in list_due within a week: no interleaving
\* or failure makes the schedule forget it or push it out of reach.
ComesBackWithinAWeek ==
  \A t \in Types : items[t].tracked /\ ~items[t].mastered => t \in ListDue(clock + 7)
=============================================================================
