---------------------------- MODULE ReviewLedger ----------------------------
(***************************************************************************)
(* What spaced repetition promises: the schedule of a learner's error      *)
(* types advances by whole sessions, one after the other, each on what the *)
(* one before it left.  The pure rules are review/scheduler.py.            *)
(***************************************************************************)
EXTENDS Integers

CONSTANTS Types, MaxTime   \* error types; the last day of the model
ASSUME MaxTimeAssumption == MaxTime \in Nat

VARIABLE items             \* the review_items rows of one learner, by error_type

Time == 0 .. MaxTime
INTERVAL_DAYS == <<1, 3, 7>>
MASTERY_STREAK == 3
Never == -1                \* next_review_at IS NULL

\* A row, or ReviewState() for a type that is not tracked.
Item == [tracked : BOOLEAN, stage : 0 .. 2, streak : 0 .. MASTERY_STREAK,
         mastered : BOOLEAN, next : Int]
NewItem == [tracked |-> FALSE, stage |-> 0, streak |-> 0, mastered |-> FALSE, next |-> Never]

\* Faulty variant: the review is postponed from its old date.
OnErrorSeenPostponed(state, now) ==
  [tracked |-> TRUE, stage |-> 0, streak |-> 0, mastered |-> FALSE,
   next |-> (IF state.next = Never THEN now ELSE state.next) + INTERVAL_DAYS[1]]

OnErrorSeen(state, now) ==
  [tracked |-> TRUE, stage |-> 0, streak |-> 0, mastered |-> FALSE,
   next |-> now + INTERVAL_DAYS[1]]

\* A clean session once the item is due.
Advance(state, now) ==
  LET up == IF state.stage < 2 THEN state.stage + 1 ELSE 2
  IN IF state.streak + 1 >= MASTERY_STREAK
     THEN [state EXCEPT !.streak = @ + 1, !.mastered = TRUE, !.next = Never]
     ELSE [state EXCEPT !.streak = @ + 1, !.stage = up, !.next = now + INTERVAL_DAYS[up + 1]]

Waiting(state, now) == state.next # Never /\ now < state.next

\* Faulty variant: a session counts before the interval has elapsed.
OnErrorAbsentEager(state, now) == IF state.mastered THEN state ELSE Advance(state, now)

OnErrorAbsent(state, now) ==
  IF state.mastered \/ Waiting(state, now) THEN state ELSE Advance(state, now)

\* The whole session: every type tracked already, and every type seen now.
AfterSession(rows, seen, now) ==
  [t \in Types |-> IF t \in seen THEN OnErrorSeen(rows[t], now)
                   ELSE IF rows[t].tracked THEN OnErrorAbsent(rows[t], now) ELSE rows[t]]

LedgerInit == items = [t \in Types |-> NewItem]
LedgerStep == \E seen \in SUBSET Types, now \in Time : items' = AfterSession(items, seen, now)
LedgerSpec == LedgerInit /\ [][LedgerStep]_items
=============================================================================
