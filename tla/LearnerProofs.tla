---------------------------- MODULE LearnerProofs ----------------------------
(***************************************************************************)
(* Proofs about what the server keeps of a learner.  Their learning:       *)
(* Review and Debrief, for any number of requests, error types, sessions,  *)
(* processes and days, and Reports, for any sessions, starts and debriefs. *)
(* Their voice data: its erasure (VoiceErasure), the consents              *)
(* (VoiceConsents) and its export (VoiceExport), for any number of         *)
(* sessions, requests, devices and rows.                                   *)
(***************************************************************************)
EXTENDS Debrief, Reports, VoiceErasure, VoiceConsents, VoiceExport, FiniteSetTheorems, TLAPS

WF == INSTANCE WellFoundedInduction

----------------------------------------------------------------------------
(* Spaced repetition: the rungs of the ladder                              *)

\* The days a type needs, from its last error, to be due again after k clean sessions.
Rung(k) == IF k = 0 THEN 1 ELSE IF k = 1 THEN 1 + 3 ELSE 1 + 3 + 7

\* What a row says of a type, given its last error, the days of its climb and today.
Fresh(item) == item = NewItem
Mastered(item, days) == item \in Item /\ item.tracked /\ item.mastered /\ days >= 1 + 3 + 7
Climbing(item, error, today) ==
  /\ item \in Item /\ item.tracked /\ ~item.mastered
  /\ item.streak \in 0 .. 2 /\ item.stage = item.streak
  /\ item.next >= error + Rung(item.streak)
  /\ item.next <= today + 7
Consistent(item, error, days, today) ==
  Fresh(item) \/ Mastered(item, days) \/ Climbing(item, error, today)

LockInv ==
  \A w \in Workers : rpc[w] = "locked" => reviewLock = w /\ rows[w] = items
StartedInv == \A w \in Workers : at[w] <= clock
LadderInv == \A t \in Types : Consistent(items[t], lastError[t], climb[t], clock)

\* The inductive invariant of Review.
ReviewInv == ReviewTypeOK /\ LockInv /\ StartedInv /\ LadderInv

\* A row that was never written is a row.
LEMMA NewItemType == NewItem \in Item
BY DEF NewItem, Item, Never, MASTERY_STREAK

\* The two updates of Advance, field by field.
LEMMA LastRung ==
  ASSUME NEW item \in Item, item.tracked, NEW new,
         new = [item EXCEPT !.streak = 3, !.mastered = TRUE, !.next = Never]
  PROVE  new \in Item /\ new.tracked /\ new.mastered
<1>1. [item EXCEPT !.streak = 3] \in Item
  BY DEF Item, MASTERY_STREAK
<1>2. [[item EXCEPT !.streak = 3] EXCEPT !.mastered = TRUE] \in Item
  BY <1>1 DEF Item
<1>3. Never \in Int
  BY DEF Never
<1>4. [[[item EXCEPT !.streak = 3] EXCEPT !.mastered = TRUE] EXCEPT !.next = Never] \in Item
  BY <1>2, <1>3 DEF Item
<1>5. new.tracked /\ new.mastered
  BY DEF Item
<1>. QED
  BY <1>4, <1>5

ToRung(item, k, n) == [item EXCEPT !.streak = k, !.stage = k, !.next = n]
LEMMA NextRung ==
  ASSUME NEW item \in Item, item.tracked, ~item.mastered, NEW k \in 0 .. 2, NEW n \in Int
  PROVE  LET new == ToRung(item, k, n)
         IN  /\ new \in Item /\ new.tracked /\ ~new.mastered
             /\ new.streak = k /\ new.stage = k /\ new.next = n
<1> DEFINE new == ToRung(item, k, n)
<1> USE DEF ToRung
<1>1. [item EXCEPT !.streak = k] \in Item
  BY DEF Item, MASTERY_STREAK
<1>2. [[item EXCEPT !.streak = k] EXCEPT !.stage = k] \in Item
  BY <1>1 DEF Item
<1>3. [[[item EXCEPT !.streak = k] EXCEPT !.stage = k] EXCEPT !.next = n] \in Item
  BY <1>2 DEF Item
<1>4. new.tracked /\ ~new.mastered
  BY DEF Item
<1>5. new.streak = k /\ new.stage = k /\ new.next = n
  BY DEF Item
<1>. QED
  BY <1>3, <1>4, <1>5

\* An error starts the ladder again, from the session's instant.
LEMMA ErrorStartsLadder ==
  ASSUME NEW item, NEW now \in Time, NEW today \in Time, now <= today
  PROVE  Climbing(OnErrorSeen(item, now), now, today)
BY MaxTimeAssumption
   DEF Climbing, OnErrorSeen, Item, Rung, INTERVAL_DAYS, MASTERY_STREAK, Time

\* A clean session leaves a type where it is, or takes it up one rung once it is due.
LEMMA AbsenceClimbs ==
  ASSUME NEW item, NEW error \in Time, NEW now \in Time, NEW today \in Time, now <= today,
         Climbing(item, error, today)
  PROVE  LET new == OnErrorAbsent(item, now)
         IN  \/ Climbing(new, error, today)
             \/ Mastered(new, now - error)
<1> USE MaxTimeAssumption DEF Time
<1>1. CASE Waiting(item, now)
  BY <1>1 DEF OnErrorAbsent
<1>2. CASE ~Waiting(item, now)
  <2>1. OnErrorAbsent(item, now) = Advance(item, now)
    BY <1>2 DEF OnErrorAbsent, Climbing
  <2>2. item.next # Never /\ item.next \in Int
    BY DEF Climbing, Item, Rung, Never
  <2>3. now >= item.next
    BY <1>2, <2>2 DEF Waiting
  <2>4. item.streak \in {0, 1, 2} /\ item.stage = item.streak /\ item \in Item
        /\ item.tracked /\ ~item.mastered
    BY DEF Climbing
  <2> DEFINE new == OnErrorAbsent(item, now)
  <2>5. CASE item.streak = 2
    <3>1. new = [item EXCEPT !.streak = 3, !.mastered = TRUE, !.next = Never]
      BY <2>1, <2>4, <2>5 DEF Advance, MASTERY_STREAK
    <3>2. now - error >= 11
      BY <2>2, <2>3, <2>5 DEF Climbing, Rung
    <3>3. new \in Item /\ new.tracked /\ new.mastered
      <4> HIDE DEF new
      <4>. QED
        BY <2>4, <3>1, LastRung
    <3>4. Mastered(new, now - error)
      <4> HIDE DEF new
      <4>. QED
        BY <3>2, <3>3 DEF Mastered
    <3>. QED
      BY <3>4
  <2>6. CASE item.streak = 1
    <3>1. new = ToRung(item, 2, now + 7)
      BY <2>1, <2>4, <2>6 DEF Advance, MASTERY_STREAK, INTERVAL_DAYS, ToRung
    <3>2. now - error >= Rung(1) /\ now + 7 \in Int
      BY <2>2, <2>3, <2>6 DEF Climbing, Rung
    <3>3. /\ new \in Item /\ new.tracked /\ ~new.mastered
          /\ new.streak = 2 /\ new.stage = 2 /\ new.next = now + 7
      <4> HIDE DEF new
      <4>1. 2 \in 0 .. 2 /\ item \in Item /\ item.tracked /\ ~item.mastered
        BY <2>4
      <4>2. now + 7 \in Int
        BY <3>2
      <4>3. LET up == ToRung(item, 2, now + 7)
            IN  /\ up \in Item /\ up.tracked /\ ~up.mastered
                /\ up.streak = 2 /\ up.stage = 2 /\ up.next = now + 7
        BY <4>1, <4>2, NextRung
      <4>. QED
        BY <3>1, <4>3
    <3>4. Climbing(new, error, today)
      <4> HIDE DEF new
      <4>. QED
        BY <3>2, <3>3 DEF Climbing, Rung
    <3>. QED
      BY <3>4
  <2>7. CASE item.streak = 0
    <3>1. new = ToRung(item, 1, now + 3)
      BY <2>1, <2>4, <2>7 DEF Advance, MASTERY_STREAK, INTERVAL_DAYS, ToRung
    <3>2. now - error >= Rung(0) /\ now + 3 \in Int
      BY <2>2, <2>3, <2>7 DEF Climbing, Rung
    <3>3. /\ new \in Item /\ new.tracked /\ ~new.mastered
          /\ new.streak = 1 /\ new.stage = 1 /\ new.next = now + 3
      <4> HIDE DEF new
      <4>1. 1 \in 0 .. 2 /\ item \in Item /\ item.tracked /\ ~item.mastered
        BY <2>4
      <4>2. now + 3 \in Int
        BY <3>2
      <4>3. LET up == ToRung(item, 1, now + 3)
            IN  /\ up \in Item /\ up.tracked /\ ~up.mastered
                /\ up.streak = 1 /\ up.stage = 1 /\ up.next = now + 3
        BY <4>1, <4>2, NextRung
      <4>. QED
        BY <3>1, <4>3
    <3>4. Climbing(new, error, today)
      <4> HIDE DEF new
      <4>. QED
        BY <3>2, <3>3 DEF Climbing, Rung
    <3>. QED
      BY <3>4
  <2>. QED
    BY <2>4, <2>5, <2>6, <2>7
<1>. QED
  BY <1>1, <1>2

----------------------------------------------------------------------------
(* Spaced repetition: the inductive invariant                              *)

\* A consistent row is a row.
LEMMA ConsistentIsItem ==
  ASSUME NEW item, NEW error, NEW days, NEW today, Consistent(item, error, days, today)
  PROVE  item \in Item
BY NewItemType DEF Consistent, Fresh, Mastered, Climbing

LEMMA ReviewInvInit == ReviewInit => ReviewInv
<1> SUFFICES ASSUME ReviewInit PROVE ReviewInv
  OBVIOUS
<1>1. 0 \in Time
  BY MaxTimeAssumption DEF Time
<1>2. ReviewTypeOK
  BY <1>1, NewItemType DEF ReviewInit, LedgerInit, ReviewTypeOK
<1>3. LockInv /\ StartedInv
  BY DEF ReviewInit, LockInv, StartedInv
<1>4. LadderInv
  BY DEF ReviewInit, LedgerInit, LadderInv, Consistent, Fresh
<1>. QED
  BY <1>2, <1>3, <1>4 DEF ReviewInv

\* One row through one session, with the history that the session leaves.
LEMMA RowAfterSession ==
  ASSUME NEW item, NEW error \in Time, NEW days \in Int, NEW today \in Time, NEW now \in Time,
         now <= today, Consistent(item, error, days, today), NEW hit \in BOOLEAN
  PROVE  LET new == IF hit THEN OnErrorSeen(item, now)
                    ELSE IF item.tracked THEN OnErrorAbsent(item, now) ELSE item
             last == IF hit THEN now ELSE IF new.mastered THEN 0 ELSE error
             took == IF ~new.mastered THEN 0 ELSE IF item.mastered THEN days ELSE now - error
         IN  Consistent(new, last, took, today)
<1>1. CASE hit
  <2>1. Climbing(OnErrorSeen(item, now), now, today)
    BY ErrorStartsLadder
  <2>. QED
    BY <1>1, <2>1 DEF Consistent
<1>2. CASE ~hit /\ Fresh(item)
  BY <1>2 DEF Consistent, Fresh, NewItem
<1>3. CASE ~hit /\ Mastered(item, days)
  <2>1. OnErrorAbsent(item, now) = item /\ item.tracked /\ item.mastered
    BY <1>3 DEF Mastered, OnErrorAbsent
  <2>. QED
    BY <1>3, <2>1 DEF Consistent
<1>4. CASE ~hit /\ Climbing(item, error, today)
  <2> DEFINE new == OnErrorAbsent(item, now)
  <2>1. item.tracked /\ ~item.mastered
    BY <1>4 DEF Climbing
  <2>2. CASE Climbing(new, error, today)
    <3>1. ~new.mastered
      BY <2>2 DEF Climbing
    <3>. QED
      BY <1>4, <2>1, <2>2, <3>1 DEF Consistent
  <2>3. CASE Mastered(new, now - error)
    <3>1. new.mastered
      BY <2>3 DEF Mastered
    <3>. QED
      BY <1>4, <2>1, <2>3, <3>1 DEF Consistent, Mastered
  <2>. QED
    BY <1>4, <2>2, <2>3, AbsenceClimbs
<1>. QED
  BY <1>1, <1>2, <1>3, <1>4 DEF Consistent

\* A call that ends, with or without its commit, leaves well-typed locals.
LEMMA ForgetType ==
  ASSUME NEW w \in Workers, ReviewTypeOK, Forget(w)
  PROVE  /\ reviewLock' = NoWorker
         /\ rpc' = [rpc EXCEPT ![w] = "done"]
         /\ at' \in [Workers -> Time] /\ seen' \in [Workers -> SUBSET Types]
         /\ rows' \in [Workers -> [Types -> Item]]
         /\ \A v \in Workers : at'[v] = (IF v = w THEN 0 ELSE at[v])
         /\ \A v \in Workers \ {w} : rows'[v] = rows[v]
<1>1. 0 \in Time
  BY MaxTimeAssumption DEF Time
<1>. QED
  BY <1>1, NewItemType DEF ReviewTypeOK, Forget

\* The commit of a session keeps the ladder, because the rows it read are still there.
LEMMA CommitKeepsLadder ==
  ASSUME NEW w \in Workers, ReviewInv, CommitSession(w)
  PROVE  /\ items' = AfterSession(items, seen[w], at[w])
         /\ items' \in [Types -> Item]
         /\ lastError' \in [Types -> Time] /\ climb' \in [Types -> Int]
         /\ LadderInv'
<1>1. rows[w] = items /\ at[w] \in Time /\ at[w] <= clock /\ clock \in Time /\ 0 \in Time
  BY MaxTimeAssumption
     DEF ReviewInv, LockInv, StartedInv, CommitSession, ReviewTypeOK, Time
<1>2. items' = AfterSession(items, seen[w], at[w])
  BY <1>1 DEF CommitSession
<1>3. \A t \in Types : lastError[t] \in Time /\ climb[t] \in Int
  BY DEF ReviewInv, ReviewTypeOK
<1>4. /\ lastError' = [t \in Types |-> IF t \in seen[w] THEN at[w]
                            ELSE IF items'[t].mastered THEN 0 ELSE lastError[t]]
      /\ climb' = [t \in Types |-> IF ~items'[t].mastered THEN 0
                            ELSE IF items[t].mastered THEN climb[t]
                            ELSE at[w] - lastError[t]]
      /\ clock' = clock
  BY DEF CommitSession
<1>5. lastError' \in [Types -> Time] /\ climb' \in [Types -> Int]
  <2>0. ASSUME NEW t \in Types PROVE at[w] - lastError[t] \in Int
    <3>1. lastError[t] \in Int /\ at[w] \in Int
      BY <1>1, <1>3, MaxTimeAssumption DEF Time
    <3>. QED
      BY <3>1
  <2>1. \A t \in Types : at[w] - lastError[t] \in Int
    BY <2>0
  <2>. QED
    BY <1>1, <1>3, <1>4, <2>1
<1>6. ASSUME NEW t \in Types
      PROVE  Consistent(items'[t], lastError'[t], climb'[t], clock')
  <2> DEFINE hit == t \in seen[w]
             new == IF hit THEN OnErrorSeen(items[t], at[w])
                    ELSE IF items[t].tracked THEN OnErrorAbsent(items[t], at[w]) ELSE items[t]
             last == IF hit THEN at[w] ELSE IF new.mastered THEN 0 ELSE lastError[t]
             took == IF ~new.mastered THEN 0
                     ELSE IF items[t].mastered THEN climb[t] ELSE at[w] - lastError[t]
  <2>1. Consistent(items[t], lastError[t], climb[t], clock)
    BY DEF ReviewInv, LadderInv
  <2>2. Consistent(new, last, took, clock)
    BY <1>1, <1>3, <2>1, RowAfterSession
  <2>3. items'[t] = new
    BY <1>2 DEF AfterSession
  <2>4. lastError'[t] = last /\ climb'[t] = took
    BY <1>4, <2>3
  <2>. QED
    BY <1>4, <2>2, <2>3, <2>4
<1>7. items' = [t \in Types |-> items'[t]]
  BY <1>2 DEF AfterSession
<1>. QED
  BY <1>2, <1>5, <1>6, <1>7, ConsistentIsItem DEF LadderInv

\* A day passes: what was due within a week still is.
LEMMA TomorrowKeepsLadder ==
  ASSUME NEW item, NEW error \in Time, NEW days \in Int, NEW today \in Time,
         Consistent(item, error, days, today)
  PROVE  Consistent(item, error, days, today + 1)
<1>1. CASE Climbing(item, error, today)
  <2>1. item.next \in Int
    BY <1>1 DEF Climbing, Item
  <2>. QED
    BY <1>1, <2>1, MaxTimeAssumption DEF Consistent, Climbing, Time
<1>. QED
  BY <1>1 DEF Consistent

\* Every step keeps the invariant; the commits are the only steps that write the rows.
LEMMA ReviewInvStep == ReviewInv /\ [ReviewNext]_reviewVars => ReviewInv'
<1> SUFFICES ASSUME ReviewInv, [ReviewNext]_reviewVars PROVE ReviewInv'
  OBVIOUS
<1>0. ReviewTypeOK /\ LockInv /\ StartedInv /\ LadderInv
  BY DEF ReviewInv
<1>1. ASSUME NEW w \in Workers, NEW errors \in SUBSET Types, RecordSession(w, errors)
      PROVE  ReviewInv'
  <2>1. ReviewTypeOK'
    BY <1>0, <1>1 DEF RecordSession, ReviewTypeOK
  <2>2. LockInv' /\ StartedInv'
    BY <1>0, <1>1, MaxTimeAssumption DEF RecordSession, ReviewTypeOK, LockInv, StartedInv, Time
  <2>3. LadderInv'
    BY <1>0, <1>1 DEF RecordSession, LadderInv
  <2>. QED
    BY <2>1, <2>2, <2>3 DEF ReviewInv
<1>2. ASSUME NEW w \in Workers, LockForUser(w)
      PROVE  ReviewInv'
  <2>1. ReviewTypeOK'
    BY <1>0, <1>2 DEF LockForUser, ReviewTypeOK
  <2>2. LockInv'
    BY <1>0, <1>2, NoWorkerAssumption DEF LockForUser, ReviewTypeOK, LockInv
  <2>3. StartedInv' /\ LadderInv'
    BY <1>0, <1>2 DEF LockForUser, StartedInv, LadderInv
  <2>. QED
    BY <2>1, <2>2, <2>3 DEF ReviewInv
<1>3. ASSUME NEW w \in Workers, Forget(w), UNCHANGED clock, rpc[w] = "locked",
             items' \in [Types -> Item],
             lastError' \in [Types -> Time] /\ climb' \in [Types -> Int], LadderInv'
      PROVE  ReviewInv'
  <2>1. /\ reviewLock' = NoWorker
        /\ rpc' = [rpc EXCEPT ![w] = "done"]
        /\ at' \in [Workers -> Time] /\ seen' \in [Workers -> SUBSET Types]
        /\ rows' \in [Workers -> [Types -> Item]]
        /\ \A v \in Workers : at'[v] = (IF v = w THEN 0 ELSE at[v])
    BY <1>0, <1>3, ForgetType
  <2>2. ReviewTypeOK'
    BY <1>0, <1>3, <2>1 DEF ReviewTypeOK
  <2>3. LockInv'
    <3>1. \A v \in Workers : rpc[v] = "locked" => v = w
      BY <1>0, <1>3 DEF LockInv
    <3>. QED
      BY <1>0, <2>1, <3>1 DEF LockInv, ReviewTypeOK
  <2>4. StartedInv'
    <3>1. 0 <= clock
      BY <1>0, MaxTimeAssumption DEF ReviewTypeOK, Time
    <3>. QED
      BY <1>0, <1>3, <2>1, <3>1 DEF StartedInv
  <2>. QED
    BY <1>3, <2>2, <2>3, <2>4 DEF ReviewInv
<1>4. ASSUME NEW w \in Workers, CommitSession(w)
      PROVE  ReviewInv'
  BY <1>3, <1>4, CommitKeepsLadder DEF CommitSession
<1>5. ASSUME NEW w \in Workers, RollbackSession(w)
      PROVE  ReviewInv'
  <2>1. LadderInv' /\ items' \in [Types -> Item]
        /\ lastError' \in [Types -> Time] /\ climb' \in [Types -> Int]
    BY <1>0, <1>5 DEF RollbackSession, LadderInv, ReviewTypeOK
  <2>. QED
    BY <1>3, <1>5, <2>1 DEF RollbackSession
<1>6. ASSUME NEW w \in Workers, RecordReturns(w)
      PROVE  ReviewInv'
  <2>1. ReviewTypeOK'
    BY <1>0, <1>6 DEF RecordReturns, ReviewTypeOK
  <2>2. LockInv' /\ StartedInv' /\ LadderInv'
    BY <1>0, <1>6 DEF RecordReturns, ReviewTypeOK, LockInv, StartedInv, LadderInv
  <2>. QED
    BY <2>1, <2>2 DEF ReviewInv
<1>7. CASE Tomorrow
  <2>1. clock' = clock + 1 /\ clock' \in Time /\ clock \in Time
    BY <1>0, <1>7, MaxTimeAssumption DEF Tomorrow, ReviewTypeOK, Time
  <2>2. ReviewTypeOK' /\ LockInv'
    BY <1>0, <1>7, <2>1 DEF Tomorrow, ReviewTypeOK, LockInv
  <2>3. StartedInv'
    BY <1>0, <1>7, <2>1, MaxTimeAssumption DEF Tomorrow, ReviewTypeOK, StartedInv, Time
  <2>4. LadderInv'
    BY <1>0, <1>7, <2>1, TomorrowKeepsLadder DEF Tomorrow, ReviewTypeOK, LadderInv
  <2>. QED
    BY <2>2, <2>3, <2>4 DEF ReviewInv
<1>8. CASE UNCHANGED reviewVars
  BY <1>0, <1>8 DEF reviewVars, ReviewInv, ReviewTypeOK, LockInv, StartedInv, LadderInv
<1>. QED
  BY <1>1, <1>2, <1>4, <1>5, <1>6, <1>7, <1>8 DEF ReviewNext, RecordStep

\* Every reachable state of record_session satisfies the invariant.
LEMMA ReviewInvariant == ReviewSpec => []ReviewInv
BY ReviewInvInit, ReviewInvStep, PTL DEF ReviewSpec

----------------------------------------------------------------------------
(* Spaced repetition: what it means                                        *)

\* The state of record_session stays well typed.
THEOREM ReviewTypeCorrect == ReviewSpec => []ReviewTypeOK
<1>1. ReviewInv => ReviewTypeOK
  BY DEF ReviewInv
<1>. QED
  BY <1>1, ReviewInvariant, PTL

\* A type is mastered only after its ladder was climbed (on_error_absent), for any
\* number of debriefs that record sessions at once.
THEOREM MasteryIsEarned == ReviewSpec => []MasteredAfterLadder
<1>1. ReviewInv => MasteredAfterLadder
  <2> SUFFICES ASSUME ReviewInv, NEW t \in Types, items[t].mastered PROVE climb[t] >= 1 + 3 + 7
    BY DEF MasteredAfterLadder
  <2>1. Consistent(items[t], lastError[t], climb[t], clock)
    BY DEF ReviewInv, LadderInv
  <2>. QED
    BY <2>1 DEF Consistent, Fresh, NewItem, Mastered, Climbing
<1>. QED
  BY <1>1, ReviewInvariant, PTL

\* A tracked type that is not mastered is due within a week (list_due).
THEOREM NothingIsForgotten == ReviewSpec => []ComesBackWithinAWeek
<1>1. ReviewInv => ComesBackWithinAWeek
  <2> SUFFICES ASSUME ReviewInv, NEW t \in Types, items[t].tracked, ~items[t].mastered
               PROVE  t \in ListDue(clock + 7)
    BY DEF ComesBackWithinAWeek
  <2>1. Consistent(items[t], lastError[t], climb[t], clock)
    BY DEF ReviewInv, LadderInv
  <2>2. items[t].next <= clock + 7
    BY <2>1 DEF Consistent, Fresh, NewItem, Mastered, Climbing
  <2>. QED
    BY <2>2 DEF ListDue
<1>. QED
  BY <1>1, ReviewInvariant, PTL

\* A step of record_session is a whole session on the latest schedule, or leaves the
\* schedule alone.
LEMMA StepIsWholeSession ==
  ReviewInv /\ [ReviewNext]_reviewVars => [LedgerStep]_items
<1> SUFFICES ASSUME ReviewInv, [ReviewNext]_reviewVars PROVE LedgerStep \/ UNCHANGED items
  OBVIOUS
<1>1. ASSUME NEW w \in Workers, CommitSession(w) PROVE LedgerStep
  <2>1. seen[w] \in SUBSET Types /\ at[w] \in Time
    BY DEF ReviewInv, ReviewTypeOK
  <2>. QED
    BY <1>1, <2>1, CommitKeepsLadder DEF LedgerStep
<1>2. CASE ~\E w \in Workers : CommitSession(w)
  BY <1>2 DEF ReviewNext, RecordStep, RecordSession, LockForUser, RollbackSession,
              RecordReturns, Tomorrow, reviewVars
<1>. QED
  BY <1>1, <1>2

\* No advance of the schedule is lost (#361).
THEOREM SessionsAreAtomic == ReviewSpec => NoLostAdvance
BY ReviewInvariant, StepIsWholeSession, PTL DEF ReviewSpec, NoLostAdvance

\* record_session under its advisory lock implements the ledger of whole sessions.
THEOREM ReviewImplementsLedger == ReviewSpec => LedgerSpec
<1>1. ReviewInit => LedgerInit
  BY DEF ReviewInit
<1>. QED
  BY <1>1, ReviewInvariant, StepIsWholeSession, PTL DEF ReviewSpec, LedgerSpec

----------------------------------------------------------------------------
(* Debriefs: the locals of a request                                       *)

Steps == {"idle", "locked", "llm", "loaded", "saving", "saved", "review",
          "counted", "completed", "placing", "placed"}

\* A request that is not running has well-typed locals.
LEMMA IdleType == Idle \in Job /\ Idle.pc = "idle"
<1>1. (CHOOSE s \in Sessions : TRUE) \in Sessions
  BY DebriefAssumption
<1>2. [est |-> None, errors |-> {}] \in Result
  BY DEF Result
<1>. QED
  BY <1>1, <1>2, DebriefAssumption DEF Idle, Job, Levels

\* Assignments to one local.
LEMMA AssignPc ==
  ASSUME NEW j \in Job, NEW l \in Steps
  PROVE  LET n == [j EXCEPT !.pc = l]
         IN  n \in Job /\ n.pc = l /\ n.s = j.s /\ n.raw = j.raw /\ n.mine = j.mine /\ n.fresh = j.fresh
BY DEF Job, Steps
LEMMA AssignS ==
  ASSUME NEW j \in Job, NEW s \in Sessions
  PROVE  LET n == [j EXCEPT !.s = s]
         IN  n \in Job /\ n.pc = j.pc /\ n.s = s
BY DEF Job
LEMMA AssignRaw ==
  ASSUME NEW j \in Job, NEW raw \in Result
  PROVE  LET n == [j EXCEPT !.raw = raw]
         IN  n \in Job /\ n.pc = j.pc /\ n.s = j.s /\ n.raw = raw
BY DEF Job
LEMMA AssignMine ==
  ASSUME NEW j \in Job, NEW m \in Levels
  PROVE  LET n == [j EXCEPT !.mine = m]
         IN  n \in Job /\ n.pc = j.pc /\ n.s = j.s /\ n.raw = j.raw /\ n.mine = m
BY DEF Job
LEMMA AssignFresh ==
  ASSUME NEW j \in Job, NEW f \in BOOLEAN
  PROVE  LET n == [j EXCEPT !.fresh = f]
         IN  n \in Job /\ n.pc = j.pc /\ n.s = j.s /\ n.raw = j.raw /\ n.mine = j.mine /\ n.fresh = f
BY DEF Job
LEMMA AssignPrior ==
  ASSUME NEW j \in Job, NEW n \in Nat \cup {None}
  PROVE  LET k == [j EXCEPT !.prior = n]
         IN  k \in Job /\ k.pc = j.pc /\ k.s = j.s
BY DEF Job

\* Request w goes to step l; the others stay where they are.
Moves(w, l) == /\ job' \in [Workers -> Job]
               /\ \A v \in Workers \ {w} : job'[v] = job[v]
               /\ job'[w].pc = l

\* What each form of assignment in the actions does to the locals.
LEMMA MovesByGoto ==
  ASSUME job \in [Workers -> Job], NEW w \in Workers, NEW l \in Steps, Goto(w, l)
  PROVE  Moves(w, l) /\ job'[w].s = job[w].s
<1>1. [job[w] EXCEPT !.pc = l] \in Job
  BY AssignPc
<1>2. job' = [job EXCEPT ![w] = [job[w] EXCEPT !.pc = l]]
  BY DEF Goto
<1>3. job'[w].pc = l /\ job'[w].s = job[w].s
  BY <1>2, AssignPc
<1>. QED
  BY <1>1, <1>2, <1>3 DEF Moves

LEMMA MovesByLeave ==
  ASSUME job \in [Workers -> Job], NEW w \in Workers, Leave(w)
  PROVE  Moves(w, "idle")
BY IdleType DEF Leave, Moves

LEMMA MovesByEnrich ==
  ASSUME job \in [Workers -> Job], NEW w \in Workers, Enrich(w)
  PROVE  Moves(w, "saved") /\ job'[w].s = job[w].s
<1> DEFINE a == [Idle EXCEPT !.pc = "saved"]
           b == [a EXCEPT !.s = job[w].s]
           r == [b.raw EXCEPT !.errors = job[w].raw.errors]
           c == [b EXCEPT !.raw = r]
<1>1. a \in Job /\ a.pc = "saved"
  BY IdleType, AssignPc DEF Steps
<1>2. job[w].s \in Sessions /\ job[w].raw \in Result
  BY DEF Job
<1>3. b \in Job /\ b.pc = "saved" /\ b.s = job[w].s
  <2> HIDE DEF a
  <2>. QED
    BY <1>1, <1>2, AssignS
<1>4. r \in Result
  <2>1. b.raw \in Result
    <3> HIDE DEF b
    <3>. QED
      BY <1>3 DEF Job
  <2> HIDE DEF b
  <2>. QED
    BY <1>2, <2>1 DEF Result
<1>5. c \in Job /\ c.pc = "saved" /\ c.s = job[w].s
  <2> HIDE DEF b, r
  <2>. QED
    BY <1>3, <1>4, AssignRaw
<1>6. job' = [job EXCEPT ![w] = c]
  BY DEF Enrich
<1> HIDE DEF c
<1>. QED
  BY <1>5, <1>6 DEF Moves

LEMMA MovesByGenerate ==
  ASSUME job \in [Workers -> Job], NEW w \in Workers, NEW s \in Sessions, Generate(w, s)
  PROVE  Moves(w, "locked") /\ job'[w].s = s
<1> DEFINE a == [job[w] EXCEPT !.pc = "locked"]
           b == [a EXCEPT !.s = s]
<1>0. job[w] \in Job /\ "locked" \in Steps
  BY DEF Steps
<1>1. a \in Job /\ a.pc = "locked"
  BY <1>0, AssignPc
<1>2. b \in Job /\ b.pc = "locked" /\ b.s = s
  <2> HIDE DEF a
  <2>. QED
    BY <1>1, AssignS
<1>3. job' = [job EXCEPT ![w] = b]
  BY DEF Generate
<1> HIDE DEF b
<1>. QED
  BY <1>2, <1>3 DEF Moves

LEMMA MovesByAnalyze ==
  ASSUME job \in [Workers -> Job], level \in Levels, NEW w \in Workers, NEW raw \in Result,
         Analyze(w, raw)
  PROVE  Moves(w, "loaded") /\ job'[w].s = job[w].s /\ job'[w].mine = level
<1> DEFINE a == [job[w] EXCEPT !.pc = "loaded"]
           b == [a EXCEPT !.raw = raw]
           c == [b EXCEPT !.mine = level]
<1>0. job[w] \in Job /\ "loaded" \in Steps
  BY DEF Steps
<1>1. a \in Job /\ a.pc = "loaded" /\ a.s = job[w].s
  BY <1>0, AssignPc
<1>2. b \in Job /\ b.pc = "loaded" /\ b.s = job[w].s
  <2> HIDE DEF a
  <2>. QED
    BY <1>1, AssignRaw
<1>3. c \in Job /\ c.pc = "loaded" /\ c.s = job[w].s /\ c.mine = level
  <2> HIDE DEF b
  <2>. QED
    BY <1>2, AssignMine
<1>4. job' = [job EXCEPT ![w] = c]
  BY DEF Analyze
<1> HIDE DEF c
<1>. QED
  BY <1>3, <1>4 DEF Moves

LEMMA MovesBySave ==
  ASSUME job \in [Workers -> Job], NEW w \in Workers, Save(w)
  PROVE  /\ Moves(w, "saving") /\ job'[w].s = job[w].s /\ job'[w].mine = job[w].mine
         /\ debrief[job[w].s] = None => job'[w].fresh
<1> DEFINE f == debrief[job[w].s] = None
           a == [job[w] EXCEPT !.pc = "saving"]
           b == [a EXCEPT !.fresh = f]
<1>0. job[w] \in Job /\ "saving" \in Steps
  BY DEF Steps
<1>1. a \in Job /\ a.pc = "saving" /\ a.s = job[w].s /\ a.mine = job[w].mine
  BY <1>0, AssignPc
<1>2. f \in BOOLEAN
  OBVIOUS
<1>3. b \in Job /\ b.pc = "saving" /\ b.s = job[w].s /\ b.mine = job[w].mine /\ b.fresh = f
  <2> HIDE DEF a, f
  <2>. QED
    BY <1>1, <1>2, AssignFresh
<1>4. job' = [job EXCEPT ![w] = b]
  BY DEF Save
<1>5. job'[w] = b
  <2> HIDE DEF b
  <2>. QED
    BY <1>4
<1>6. debrief[job[w].s] = None => job'[w].fresh
  BY <1>3, <1>5
<1> HIDE DEF b
<1>. QED
  BY <1>3, <1>4, <1>6 DEF Moves

LEMMA MovesByCount ==
  ASSUME job \in [Workers -> Job], completions \in Nat, NEW w \in Workers, CountEvents(w)
  PROVE  Moves(w, "counted") /\ job'[w].s = job[w].s
<1>1. PICK n \in {completions, None} :
        job' = [job EXCEPT ![w].pc = "counted", ![w].prior = n]
  BY DEF CountEvents
<1> DEFINE a == [job[w] EXCEPT !.pc = "counted"]
           b == [a EXCEPT !.prior = n]
<1>0. job[w] \in Job /\ "counted" \in Steps
  BY DEF Steps
<1>2. a \in Job /\ a.pc = "counted" /\ a.s = job[w].s
  BY <1>0, AssignPc
<1>3. b \in Job /\ b.pc = "counted" /\ b.s = job[w].s
  <2> HIDE DEF a
  <2>. QED
    BY <1>2, AssignPrior
<1>4. job' = [job EXCEPT ![w] = b]
  BY <1>1
<1> HIDE DEF b
<1>. QED
  BY <1>3, <1>4 DEF Moves

LEMMA MovesByPlace ==
  ASSUME job \in [Workers -> Job], level \in Levels, NEW w \in Workers, Place(w)
  PROVE  Moves(w, "placing")
<1> DEFINE a == [job[w] EXCEPT !.pc = "placing"]
           b == [a EXCEPT !.mine = level]
<1>0. job[w] \in Job /\ "placing" \in Steps
  BY DEF Steps
<1>1. a \in Job /\ a.pc = "placing"
  BY <1>0, AssignPc
<1>2. b \in Job /\ b.pc = "placing"
  <2> HIDE DEF a
  <2>. QED
    BY <1>1, AssignMine
<1>3. job' = [job EXCEPT ![w] = b]
  BY DEF Place
<1> HIDE DEF b
<1>. QED
  BY <1>2, <1>3 DEF Moves

----------------------------------------------------------------------------
(* Debriefs: the inductive invariant                                       *)

\* A request that has the generation lock of its session; one that has not stored yet.
Owns(w) == job[w].pc \notin {"idle", "placing", "placed"}
Drafts(w) == job[w].pc \in {"llm", "loaded", "saving"}
Loaded(w) == job[w].pc \in {"loaded", "saving"}

Distance(a, b) == IF a < b THEN b - a ELSE a - b
Debriefed == {s \in Spoken : debrief[s] # None}
NoPlacement == placement \in {"none", "running"}

OwnedInv ==
  \A v, w \in Workers :
    v # w /\ home[v] = home[w] /\ Owns(v) /\ Owns(w) => job[v].s # job[w].s
SpokenInv == \A w \in Workers : Drafts(w) => job[w].s \in Spoken
DraftInv ==
  OneProcess => \A w \in Workers : /\ Drafts(w) => debrief[job[w].s] = None
                                   /\ job[w].pc = "saving" => job[w].fresh
PromotedInv ==
  \A s \in Sessions : /\ debrief[s] = None => promoted[s] = 0
                      /\ OneProcess => promoted[s] <= 1
LevelInv ==
  OneProcess /\ NoPlacement =>
    /\ Distance(level, start) <= Cardinality(Debriefed)
    /\ \A w \in Workers : Loaded(w) => Distance(job[w].mine, start) <= Cardinality(Debriefed)
ActivationInv == activations = activation

\* The inductive invariant of Debrief.
DebriefInv == /\ DebriefTypeOK /\ OwnedInv /\ SpokenInv /\ DraftInv
              /\ PromotedInv /\ LevelInv /\ ActivationInv

\* Nothing is debriefed and nobody works at first.
LEMMA DebriefInvInit == DebriefInit => DebriefInv
<1> SUFFICES ASSUME DebriefInit PROVE DebriefInv
  OBVIOUS
<1>1. DebriefTypeOK
  BY IdleType DEF DebriefInit, DebriefTypeOK
<1>2. \A w \in Workers : job[w].pc = "idle"
  BY IdleType DEF DebriefInit
<1>3. OwnedInv /\ SpokenInv /\ DraftInv /\ PromotedInv /\ ActivationInv
  BY <1>2 DEF DebriefInit, OwnedInv, SpokenInv, DraftInv, PromotedInv, ActivationInv, Owns, Drafts
<1>4. Debriefed = {}
  BY DebriefAssumption DEF DebriefInit, Debriefed
<1>5. Distance(level, start) = 0
  BY DebriefAssumption DEF DebriefInit, Distance, Levels
<1>6. LevelInv
  BY <1>2, <1>4, <1>5, FS_EmptySet DEF LevelInv, Loaded
<1>. QED
  BY <1>1, <1>3, <1>6 DEF DebriefInv

\* Of a set of debriefed sessions there are finitely many.
LEMMA DebriefedFinite ==
  IsFiniteSet(Debriefed) /\ Cardinality(Debriefed) \in Nat
BY DebriefAssumption, FS_Subset, FS_CardinalityType DEF Debriefed

\* A request moves and nothing is stored.
LEMMA MoveKeeps ==
  ASSUME DebriefInv, NEW w \in Workers, NEW l \in Steps, Moves(w, l),
         UNCHANGED <<debrief, home, start, promoted>>,
         level' = level \/ ~NoPlacement',
         NoPlacement' => NoPlacement,
         \/ l \in {"idle", "placing", "placed"}
         \/ \A v \in Workers \ {w} : home[v] = home[w] /\ Owns(v) => job[v].s # job'[w].s,
         l \in {"llm", "loaded", "saving"} =>
            job'[w].s \in Spoken /\ (OneProcess => debrief[job'[w].s] = None),
         l = "saving" /\ OneProcess => job'[w].fresh,
         l \in {"loaded", "saving"} /\ OneProcess /\ NoPlacement =>
            Distance(job'[w].mine, start) <= Cardinality(Debriefed)
  PROVE  OwnedInv' /\ SpokenInv' /\ DraftInv' /\ PromotedInv' /\ LevelInv'
<1>1. OwnedInv'
  BY DEF DebriefInv, OwnedInv, Owns, Moves
<1>2. SpokenInv'
  BY DEF DebriefInv, SpokenInv, Drafts, Moves
<1>3. DraftInv'
  BY DEF DebriefInv, DraftInv, Drafts, Moves, OneProcess
<1>4. PromotedInv'
  BY DEF DebriefInv, PromotedInv, OneProcess
<1>5. LevelInv'
  <2>1. Debriefed' = Debriefed
    BY DEF Debriefed
  <2>. QED
    BY <2>1 DEF DebriefInv, LevelInv, Loaded, Moves, OneProcess
<1>. QED
  BY <1>1, <1>2, <1>3, <1>4, <1>5

\* The owner of a session stores its debrief and is done with the draft.
LEMMA StoreKeeps ==
  ASSUME DebriefInv, NEW w \in Workers, NEW l \in {"idle", "saved"}, Moves(w, l), Owns(w),
         l = "saved" => job'[w].s = job[w].s,
         NEW est \in Levels, debrief' = [debrief EXCEPT ![job[w].s] = est],
         UNCHANGED <<home, start>>
  PROVE  OwnedInv' /\ SpokenInv' /\ DraftInv'
<1>1. OwnedInv'
  BY DEF DebriefInv, OwnedInv, Owns, Moves
<1>2. SpokenInv'
  BY DEF DebriefInv, SpokenInv, Drafts, Moves
<1>3. DraftInv'
  <2> SUFFICES ASSUME OneProcess', NEW v \in Workers
               PROVE  /\ Drafts(v)' => debrief'[job'[v].s] = None
                      /\ job'[v].pc = "saving" => job'[v].fresh
    BY DEF DraftInv
  <2>1. OneProcess
    BY DEF OneProcess
  <2>2. CASE v = w
    BY <2>2 DEF Moves, Drafts
  <2>3. CASE v # w /\ Drafts(v)
    <3>1. home[v] = home[w] /\ Owns(v)
      BY <2>1, <2>3 DEF OneProcess, Drafts, Owns
    <3>2. job[v].s # job[w].s
      BY <2>3, <3>1 DEF DebriefInv, OwnedInv
    <3>3. job'[v] = job[v] /\ job[v].s \in Sessions
      BY <2>3 DEF Moves, DebriefInv, DebriefTypeOK, Job
    <3>. QED
      BY <2>1, <2>3, <3>2, <3>3 DEF DebriefInv, DraftInv, DebriefTypeOK
  <2>4. CASE v # w /\ ~Drafts(v)
    BY <2>4 DEF Moves, Drafts
  <2>. QED
    BY <2>2, <2>3, <2>4
<1>. QED
  BY <1>1, <1>2, <1>3

\* next_cefr_level moves by at most one step and stays a level.
LEMMA NudgeIsOneStep ==
  ASSUME NEW a \in Levels, NEW est \in Levels, NEW b \in Levels
  PROVE  /\ NextCefrLevel(a, est) \in Levels
         /\ Distance(NextCefrLevel(a, est), b) <= Distance(a, b) + 1
BY DebriefAssumption DEF NextCefrLevel, Levels, None, Distance

\* What the steps of a request rely on.
LEMMA DebriefTypes ==
  ASSUME DebriefInv
  PROVE  /\ job \in [Workers -> Job] /\ level \in Levels /\ start \in Levels
         /\ debrief \in [Sessions -> Levels \cup {None}] /\ promoted \in [Sessions -> Nat]
         /\ completions \in Nat /\ activations \in Nat /\ activation \in {0, 1}
         /\ userRow \in Workers \cup {NoWorker}
         /\ \A w \in Workers : /\ job[w] \in Job /\ job[w].s \in Sessions /\ job[w].mine \in Levels
                               /\ Estimate(w) \in Levels /\ Nudged(w) \in Levels
                               /\ Estimate(w) # None
<1>1. DebriefTypeOK
  BY DEF DebriefInv
<1>2. ASSUME NEW w \in Workers
      PROVE  /\ job[w] \in Job /\ job[w].s \in Sessions /\ job[w].mine \in Levels
             /\ Estimate(w) \in Levels /\ Nudged(w) \in Levels /\ Estimate(w) # None
  <2>1. job[w] \in Job /\ job[w].s \in Sessions /\ job[w].mine \in Levels
        /\ job[w].raw.est \in Levels \cup {None}
    BY <1>1 DEF DebriefTypeOK, Job, Result
  <2>2. Estimate(w) \in Levels
    BY <2>1, DebriefAssumption DEF Estimate, Analyzed, Levels
  <2>3. Estimate(w) # None
    BY <2>2, DebriefAssumption DEF Levels, None
  <2>. QED
    BY <2>1, <2>2, <2>3, NudgeIsOneStep DEF Nudged
<1>. QED
  BY <1>1, <1>2 DEF DebriefTypeOK

\* The generation lock: a request that begins is alone on its session in its process.
LEMMA GenerateKeeps ==
  ASSUME DebriefInv, NEW w \in Workers, NEW s \in Sessions, Generate(w, s)
  PROVE  DebriefInv'
<1>1. Moves(w, "locked") /\ job'[w].s = s
  BY DebriefTypes, MovesByGenerate
<1>2. UNCHANGED <<learner, events, history, userRow>>
  BY DEF Generate
<1>3. \A v \in Workers \ {w} : home[v] = home[w] /\ Owns(v) => job[v].s # job'[w].s
  BY <1>1 DEF Generate, GenerationLockFree, Owns
<1>4. OwnedInv' /\ SpokenInv' /\ DraftInv' /\ PromotedInv' /\ LevelInv'
  BY <1>1, <1>2, <1>3, MoveKeeps DEF learner, history, NoPlacement, Steps
<1>. QED
  BY <1>1, <1>2, <1>4 DEF DebriefInv, DebriefTypeOK, Moves, ActivationInv, learner, events, history

\* An existing debrief is returned, an empty one is stored, or the draft begins.
LEMMA StartGenerationKeeps ==
  ASSUME DebriefInv, NEW w \in Workers, StartGeneration(w)
  PROVE  DebriefInv'
<1> DEFINE s == job[w].s
<1>1. UNCHANGED <<level, profile, events, history, userRow>> /\ Owns(w)
  BY DEF StartGeneration, At, Owns
<1>2. s \in Sessions /\ job \in [Workers -> Job] /\ level \in Levels
  BY DebriefTypes
<1>3. CASE Leave(w) /\ UNCHANGED debrief
  <2>1. Moves(w, "idle")
    BY <1>2, <1>3, MovesByLeave
  <2>2. OwnedInv' /\ SpokenInv' /\ DraftInv' /\ PromotedInv' /\ LevelInv'
    BY <1>1, <1>3, <2>1, MoveKeeps DEF history, NoPlacement, Steps
  <2>. QED
    BY <1>1, <1>3, <2>1, <2>2 DEF DebriefInv, DebriefTypeOK, Moves, ActivationInv, events, history
<1>4. CASE s \notin Spoken /\ debrief' = [debrief EXCEPT ![s] = level] /\ Leave(w)
  <2>1. Moves(w, "idle")
    BY <1>2, <1>4, MovesByLeave
  <2>2. OwnedInv' /\ SpokenInv' /\ DraftInv'
    BY <1>1, <1>2, <1>4, <2>1, StoreKeeps DEF history
  <2>3. PromotedInv'
    <3>1. level # None
      BY <1>2, DebriefAssumption DEF Levels, None
    <3>. QED
      BY <1>1, <1>4, <3>1 DEF DebriefInv, DebriefTypeOK, PromotedInv, OneProcess, history
  <2>4. LevelInv'
    <3>1. Debriefed' = Debriefed
      BY <1>4, DebriefAssumption DEF Debriefed, DebriefInv, DebriefTypeOK
    <3>. QED
      BY <1>1, <2>1, <3>1 DEF DebriefInv, LevelInv, Loaded, Moves, OneProcess, NoPlacement, history
  <2>5. debrief' \in [Sessions -> Levels \cup {None}]
    BY <1>2, <1>4 DEF DebriefInv, DebriefTypeOK
  <2>. QED
    BY <1>1, <2>1, <2>2, <2>3, <2>4, <2>5
       DEF DebriefInv, DebriefTypeOK, Moves, ActivationInv, events, history
<1>5. CASE debrief[s] = None /\ s \in Spoken /\ Goto(w, "llm") /\ UNCHANGED debrief
  <2>0. "llm" \in Steps
    BY DEF Steps
  <2>1. Moves(w, "llm") /\ job'[w].s = s
    BY <1>2, <1>5, <2>0, MovesByGoto
  <2>2. \A v \in Workers \ {w} : home[v] = home[w] /\ Owns(v) => job[v].s # job'[w].s
    BY <1>1, <2>1 DEF DebriefInv, OwnedInv
  <2>3. OwnedInv' /\ SpokenInv' /\ DraftInv' /\ PromotedInv' /\ LevelInv'
    BY <1>1, <1>5, <2>0, <2>1, <2>2, MoveKeeps DEF history, NoPlacement
  <2>. QED
    BY <1>1, <1>5, <2>1, <2>3 DEF DebriefInv, DebriefTypeOK, Moves, ActivationInv, events, history
<1>. QED
  BY <1>3, <1>4, <1>5 DEF StartGeneration

\* A request that ends without storing anything.
LEMMA LeaveKeeps ==
  ASSUME DebriefInv, NEW w \in Workers, Leave(w), UNCHANGED <<learner, home, start, promoted>>,
         NoPlacement' => NoPlacement, placement' \in {"none", "running", "half", "whole"},
         userRow' \in Workers \cup {NoWorker}, completions' \in Nat, activation' \in {0, 1},
         activations' = activation'
  PROVE  DebriefInv'
<1>1. Moves(w, "idle")
  BY DebriefTypes, MovesByLeave
<1>2. OwnedInv' /\ SpokenInv' /\ DraftInv' /\ PromotedInv' /\ LevelInv'
  BY <1>1, MoveKeeps DEF learner, Steps
<1>. QED
  BY <1>1, <1>2 DEF DebriefInv, DebriefTypeOK, Moves, ActivationInv, learner

\* An owner that goes on after its draft, on the same session.
LEMMA GoOnKeeps ==
  ASSUME DebriefInv, NEW w \in Workers, Owns(w), UNCHANGED <<learner, history>>,
         NEW l \in {"saved", "review", "counted", "completed"},
         Moves(w, l), job'[w].s = job[w].s,
         userRow' \in Workers \cup {NoWorker}, completions' \in Nat, activation' \in {0, 1},
         activations' = activation'
  PROVE  DebriefInv'
<1>1. \A v \in Workers \ {w} : home[v] = home[w] /\ Owns(v) => job[v].s # job'[w].s
  BY DEF DebriefInv, OwnedInv
<1>2. OwnedInv' /\ SpokenInv' /\ DraftInv' /\ PromotedInv' /\ LevelInv'
  BY <1>1, MoveKeeps DEF learner, history, Steps, NoPlacement
<1>. QED
  BY <1>2 DEF DebriefInv, DebriefTypeOK, Moves, ActivationInv, learner, history

\* The level that a request loads is within the bound that holds when it loads it.
LEMMA AnalyzeKeeps ==
  ASSUME DebriefInv, NEW w \in Workers, NEW raw \in Result, Analyze(w, raw)
  PROVE  DebriefInv'
<1>1. Moves(w, "loaded") /\ job'[w].s = job[w].s /\ job'[w].mine = level
  BY DebriefTypes, MovesByAnalyze
<1>2. UNCHANGED <<learner, events, history, userRow>> /\ Owns(w) /\ Drafts(w)
  BY DEF Analyze, At, Owns, Drafts
<1>3. \A v \in Workers \ {w} : home[v] = home[w] /\ Owns(v) => job[v].s # job'[w].s
  BY <1>1, <1>2 DEF DebriefInv, OwnedInv
<1>4. job'[w].s \in Spoken /\ (OneProcess => debrief[job'[w].s] = None)
  BY <1>1, <1>2 DEF DebriefInv, SpokenInv, DraftInv
<1>5. OneProcess /\ NoPlacement => Distance(job'[w].mine, start) <= Cardinality(Debriefed)
  BY <1>1 DEF DebriefInv, LevelInv
<1>6. OwnedInv' /\ SpokenInv' /\ DraftInv' /\ PromotedInv' /\ LevelInv'
  BY <1>1, <1>2, <1>3, <1>4, <1>5, MoveKeeps DEF learner, history, NoPlacement, Steps
<1>. QED
  BY <1>1, <1>2, <1>6 DEF DebriefInv, DebriefTypeOK, Moves, ActivationInv, learner, events, history

\* In one process the query of save finds no debrief.
LEMMA SaveKeeps ==
  ASSUME DebriefInv, NEW w \in Workers, Save(w)
  PROVE  DebriefInv'
<1>1. /\ Moves(w, "saving") /\ job'[w].s = job[w].s /\ job'[w].mine = job[w].mine
      /\ debrief[job[w].s] = None => job'[w].fresh
  BY DebriefTypes, MovesBySave
<1>2. UNCHANGED <<learner, events, history>> /\ Owns(w) /\ Drafts(w) /\ Loaded(w)
  BY DEF Save, At, Owns, Drafts, Loaded
<1>3. \A v \in Workers \ {w} : home[v] = home[w] /\ Owns(v) => job[v].s # job'[w].s
  BY <1>1, <1>2 DEF DebriefInv, OwnedInv
<1>4. job'[w].s \in Spoken /\ (OneProcess => debrief[job'[w].s] = None)
  BY <1>1, <1>2 DEF DebriefInv, SpokenInv, DraftInv
<1>5. OneProcess /\ NoPlacement => Distance(job'[w].mine, start) <= Cardinality(Debriefed)
  BY <1>1, <1>2 DEF DebriefInv, LevelInv
<1>6. OwnedInv' /\ SpokenInv' /\ DraftInv' /\ PromotedInv' /\ LevelInv'
  BY <1>1, <1>2, <1>3, <1>4, <1>5, MoveKeeps DEF learner, history, NoPlacement, Steps
<1>7. userRow' \in Workers \cup {NoWorker}
  BY DebriefTypes DEF Save
<1>. QED
  BY <1>1, <1>2, <1>6, <1>7 DEF DebriefInv, DebriefTypeOK, Moves, ActivationInv, learner, events, history

\* A commit adds one debrief and moves the level by at most one step.
LEMMA CommitKeeps ==
  ASSUME DebriefInv, NEW w \in Workers, Commit(w)
  PROVE  DebriefInv'
<1> DEFINE s == job[w].s
<1>1. /\ job[w].pc = "saving" /\ Owns(w) /\ Drafts(w) /\ Loaded(w)
      /\ debrief' = [debrief EXCEPT ![s] = Estimate(w)]
      /\ level' = IF Nudged(w) # job[w].mine THEN Nudged(w) ELSE level
      /\ profile' = StagedMemory
      /\ promoted' = [promoted EXCEPT ![s] = @ + 1]
      /\ Released(w) /\ Enrich(w)
      /\ UNCHANGED <<events, home, start, placement>>
  BY DEF Commit, At, Owns, Drafts, Loaded
<1>2. Moves(w, "saved") /\ job'[w].s = s
  BY <1>1, DebriefTypes, MovesByEnrich
<1>3. s \in Sessions /\ s \in Spoken /\ Estimate(w) \in Levels /\ Estimate(w) # None
      /\ Nudged(w) \in Levels /\ job[w].mine \in Levels
  BY <1>1, DebriefTypes DEF DebriefInv, SpokenInv
<1>4. OneProcess => debrief[s] = None
  BY <1>1 DEF DebriefInv, DraftInv
<1>5. OwnedInv' /\ SpokenInv' /\ DraftInv'
  BY <1>1, <1>2, <1>3, StoreKeeps
<1>6. PromotedInv'
  <2> SUFFICES ASSUME NEW t \in Sessions
               PROVE  /\ debrief'[t] = None => promoted'[t] = 0
                      /\ OneProcess' => promoted'[t] <= 1
    BY DEF PromotedInv
  <2>1. OneProcess' = OneProcess
    BY <1>1 DEF OneProcess
  <2>2. /\ debrief[t] = None => promoted[t] = 0
        /\ OneProcess => promoted[t] <= 1
    BY DEF DebriefInv, PromotedInv
  <2>. QED
    BY <1>1, <1>3, <1>4, <2>1, <2>2, DebriefTypes
<1>7. LevelInv'
  <2> SUFFICES ASSUME OneProcess', NoPlacement'
               PROVE  /\ Distance(level', start') <= Cardinality(Debriefed')
                      /\ \A v \in Workers : Loaded(v)' =>
                           Distance(job'[v].mine, start') <= Cardinality(Debriefed')
    BY DEF LevelInv
  <2>1. OneProcess /\ NoPlacement /\ start' = start
    BY <1>1 DEF OneProcess, NoPlacement
  <2>2. Debriefed' = Debriefed \cup {s} /\ s \notin Debriefed
    BY <1>1, <1>3, <1>4, <2>1, DebriefTypes, DebriefAssumption DEF Debriefed
  <2>3. Cardinality(Debriefed') = Cardinality(Debriefed) + 1 /\ Cardinality(Debriefed) \in Nat
    BY <2>2, DebriefedFinite, FS_AddElement
  <2>4. Distance(level, start) <= Cardinality(Debriefed)
        /\ \A v \in Workers : Loaded(v) => Distance(job[v].mine, start) <= Cardinality(Debriefed)
    BY <2>1 DEF DebriefInv, LevelInv
  <2>5. Distance(level, start) \in Int /\ Distance(job[w].mine, start) \in Int
        /\ Distance(Nudged(w), start) \in Int
    BY <1>3, DebriefTypes, DebriefAssumption DEF Distance, Levels
  <2>6. Distance(Nudged(w), start) <= Distance(job[w].mine, start) + 1
    BY <1>3, DebriefTypes, NudgeIsOneStep DEF Nudged
  <2>7. Distance(level', start) <= Cardinality(Debriefed')
    BY <1>1, <2>3, <2>4, <2>5, <2>6
  <2>8. ASSUME NEW v \in Workers, Loaded(v)'
        PROVE  Distance(job'[v].mine, start') <= Cardinality(Debriefed')
    <3>1. v # w /\ job'[v] = job[v] /\ Loaded(v)
      BY <1>2, <2>8 DEF Moves, Loaded
    <3>2. Distance(job[v].mine, start) \in Int
      BY DebriefTypes, DebriefAssumption DEF Distance, Levels
    <3>. QED
      BY <2>1, <2>3, <2>4, <3>1, <3>2
  <2>. QED
    BY <2>1, <2>7, <2>8
<1>8. DebriefTypeOK'
  <2>1. userRow' \in Workers \cup {NoWorker} /\ profile' \in {"absent", "blank", "memory"}
    BY <1>1, DebriefTypes DEF Released, StagedMemory
  <2>2. level' \in Levels /\ debrief' \in [Sessions -> Levels \cup {None}]
        /\ promoted' \in [Sessions -> Nat]
    BY <1>1, <1>3, DebriefTypes
  <2>. QED
    BY <1>1, <1>2, <2>1, <2>2 DEF DebriefInv, DebriefTypeOK, Moves, events
<1>. QED
  BY <1>1, <1>5, <1>6, <1>7, <1>8 DEF DebriefInv, ActivationInv, events

\* A placement writes the learner's level: from then on it is no longer "none".
LEMMA FirstTouchKeeps ==
  ASSUME DebriefInv, NEW w \in Workers, NEW raw \in Result, FirstTouch(w, raw)
  PROVE  DebriefInv'
<1> DEFINE cefr == PlacedLevel(w, raw)
<1>1. /\ level' = cefr /\ profile' = (IF profile = "absent" THEN "blank" ELSE profile)
      /\ placement' = IF cefr = level THEN placement ELSE "half"
      /\ Goto(w, "placed")
      /\ UNCHANGED <<debrief, events, home, start, promoted, userRow>>
  BY DEF FirstTouch
<1>2. cefr \in Levels
  BY DebriefTypes DEF PlacedLevel, Analyzed, Result
<1>3. "placed" \in Steps
  BY DEF Steps
<1>4. Moves(w, "placed")
  BY <1>1, <1>3, DebriefTypes, MovesByGoto
<1>5. (level' = level \/ ~NoPlacement') /\ (NoPlacement' => NoPlacement)
  BY <1>1 DEF NoPlacement
<1>6. OwnedInv' /\ SpokenInv' /\ DraftInv' /\ PromotedInv' /\ LevelInv'
  BY <1>1, <1>3, <1>4, <1>5, MoveKeeps
<1>7. placement' \in {"none", "running", "half", "whole"} /\ profile' \in {"absent", "blank", "memory"}
  BY <1>1 DEF DebriefInv, DebriefTypeOK
<1>. QED
  BY <1>1, <1>2, <1>4, <1>6, <1>7 DEF DebriefInv, DebriefTypeOK, Moves, ActivationInv, events

\* A placement begins when there has been none.
LEMMA PlaceKeeps ==
  ASSUME DebriefInv, NEW w \in Workers, Place(w)
  PROVE  DebriefInv'
<1>1. Moves(w, "placing")
  BY DebriefTypes, MovesByPlace
<1>2. /\ UNCHANGED <<learner, events, home, start, promoted, userRow>>
      /\ placement = "none" /\ placement' = "running"
  BY DEF Place
<1>3. OwnedInv' /\ SpokenInv' /\ DraftInv' /\ PromotedInv' /\ LevelInv'
  BY <1>1, <1>2, MoveKeeps DEF learner, NoPlacement, Steps
<1>. QED
  BY <1>1, <1>2, <1>3 DEF DebriefInv, DebriefTypeOK, Moves, ActivationInv, learner, events

\* Every step of the debriefs keeps the invariant.
LEMMA DebriefInvStep ==
  DebriefInv /\ [DebriefNext]_<<reviewVars, debriefVars>> => DebriefInv'
<1> SUFFICES ASSUME DebriefInv, [DebriefNext]_<<reviewVars, debriefVars>> PROVE DebriefInv'
  OBVIOUS
<1>0. /\ job \in [Workers -> Job] /\ userRow \in Workers \cup {NoWorker}
      /\ completions \in Nat /\ activations \in Nat /\ activation \in {0, 1}
      /\ placement \in {"none", "running", "half", "whole"}
      /\ activations = activation
  BY DebriefTypes DEF DebriefInv, DebriefTypeOK, ActivationInv
<1>1. ASSUME NEW w \in Workers, AnalyzeFails(w) PROVE DebriefInv'
  BY <1>0, <1>1, LeaveKeeps DEF AnalyzeFails, events, history, NoPlacement
<1>2. ASSUME NEW w \in Workers, Recover(w) PROVE DebriefInv'
  <2>1. userRow' \in Workers \cup {NoWorker}
    BY <1>0, <1>2 DEF Recover, Released
  <2>2. CASE Leave(w)
    BY <1>0, <1>2, <2>1, <2>2, LeaveKeeps DEF Recover, events, history, NoPlacement
  <2>3. CASE Enrich(w)
    <3>1. Moves(w, "saved") /\ job'[w].s = job[w].s /\ Owns(w)
      BY <1>0, <1>2, <2>3, MovesByEnrich DEF Recover, At, Owns
    <3>. QED
      BY <1>0, <1>2, <2>1, <3>1, GoOnKeeps DEF Recover, events
  <2>. QED
    BY <1>2, <2>2, <2>3 DEF Recover
<1>3. ASSUME NEW w \in Workers, CommitFails(w) PROVE DebriefInv'
  BY <1>0, <1>3, LeaveKeeps DEF CommitFails, Released, events, history, NoPlacement
<1>4. ASSUME NEW w \in Workers, ScheduleReview(w) PROVE DebriefInv'
  <2>1. Moves(w, "review") /\ job'[w].s = job[w].s /\ Owns(w)
    BY <1>0, <1>4, MovesByGoto DEF ScheduleReview, At, Owns, Steps
  <2>. QED
    BY <1>0, <1>4, <2>1, GoOnKeeps DEF ScheduleReview, events
<1>5. ASSUME NEW w \in Workers, CountEvents(w) PROVE DebriefInv'
  <2>1. Moves(w, "counted") /\ job'[w].s = job[w].s /\ Owns(w)
    BY <1>0, <1>5, MovesByCount DEF CountEvents, At, Owns
  <2>. QED
    BY <1>0, <1>5, <2>1, GoOnKeeps DEF CountEvents, events
<1>6. ASSUME NEW w \in Workers, EmitCompleted(w) PROVE DebriefInv'
  <2>1. completions' \in Nat /\ Owns(w)
        /\ UNCHANGED <<learner, activation, activations, history, userRow>>
    BY <1>0, <1>6 DEF EmitCompleted, At, Owns
  <2>2. CASE Leave(w)
    BY <1>0, <2>1, <2>2, LeaveKeeps DEF history, NoPlacement
  <2>3. CASE Goto(w, "completed")
    <3>1. Moves(w, "completed") /\ job'[w].s = job[w].s
      BY <1>0, <2>3, MovesByGoto DEF Steps
    <3>. QED
      BY <1>0, <2>1, <3>1, GoOnKeeps
  <2>. QED
    BY <1>6, <2>2, <2>3 DEF EmitCompleted
<1>7. ASSUME NEW w \in Workers, EmitActivation(w) PROVE DebriefInv'
  <2>1. activation' \in {0, 1} /\ activations' = activation'
    BY <1>0, <1>7 DEF EmitActivation
  <2>. QED
    BY <1>0, <1>7, <2>1, LeaveKeeps DEF EmitActivation, history, NoPlacement
<1>8. ASSUME NEW w \in Workers, SaveProfile(w) PROVE DebriefInv'
  BY <1>0, <1>8, LeaveKeeps DEF SaveProfile, events, NoPlacement
<1>9. ASSUME NEW w \in Workers, PlaceFails(w) PROVE DebriefInv'
  BY <1>0, <1>9, LeaveKeeps DEF PlaceFails, events, NoPlacement
<1>10. CASE PurgeAnalytics
  <2>1. OwnedInv' /\ SpokenInv' /\ DraftInv' /\ PromotedInv' /\ LevelInv' /\ ActivationInv'
    BY <1>10 DEF PurgeAnalytics, learner, history, DebriefInv, OwnedInv, SpokenInv, DraftInv,
                 PromotedInv, LevelInv, ActivationInv, Owns, Drafts, Loaded, Debriefed,
                 NoPlacement, OneProcess
  <2>. QED
    BY <1>10, <2>1 DEF PurgeAnalytics, learner, history, DebriefInv, DebriefTypeOK
<1>11. CASE UNCHANGED debriefVars
  BY <1>11 DEF debriefVars, DebriefInv, DebriefTypeOK, OwnedInv, SpokenInv, DraftInv,
               PromotedInv, LevelInv, ActivationInv, Owns, Drafts, Loaded, Debriefed,
               NoPlacement, OneProcess
<1>12. ASSUME NEW w \in Workers, DebriefAlone(w) PROVE DebriefInv'
  BY <1>12, <1>1, <1>2, <1>3, <1>6, <1>7, <1>8, <1>9, GenerateKeeps, StartGenerationKeeps,
     AnalyzeKeeps, SaveKeeps, CommitKeeps, PlaceKeeps, FirstTouchKeeps DEF DebriefAlone
<1>. QED
  BY <1>4, <1>5, <1>10, <1>11, <1>12 DEF DebriefNext

\* Every reachable state of the debriefs satisfies the invariant.
LEMMA DebriefInvariant == DebriefSpec => []DebriefInv
BY DebriefInvInit, DebriefInvStep, PTL DEF DebriefSpec

----------------------------------------------------------------------------
(* Debriefs: what it means                                                 *)

\* The state of the debriefs stays well typed.
THEOREM DebriefTypeCorrect == DebriefSpec => []DebriefTypeOK
<1>1. DebriefInv => DebriefTypeOK
  BY DEF DebriefInv
<1>. QED
  BY <1>1, DebriefInvariant, PTL

\* In one process a session moves the learner's level once (_persist_core, #302).
THEOREM LevelMovedOnce == DebriefSpec => []PromotedOnce
<1>1. DebriefInv => PromotedOnce
  BY DEF DebriefInv, PromotedInv, PromotedOnce
<1>. QED
  BY <1>1, DebriefInvariant, PTL

\* A learner is activated once, whatever is counted and purged (analytics/service.py).
THEOREM ActivationIsUnique == DebriefSpec => []ActivatedOnce
<1>1. DebriefInv => ActivatedOnce
  BY DEF DebriefInv, DebriefTypeOK, ActivationInv, ActivatedOnce
<1>. QED
  BY <1>1, DebriefInvariant, PTL

\* The product of two integers of one sign is not negative.
LEMMA SameSign ==
  ASSUME NEW a \in Int, NEW b \in Int, (a >= 0 /\ b >= 0) \/ (a <= 0 /\ b <= 0)
  PROVE  a * b >= 0
<1>1. CASE a >= 0 /\ b >= 0
  BY <1>1, SMT
<1>2. CASE a <= 0 /\ b <= 0
  BY <1>2, SMT
<1>. QED
  BY <1>1, <1>2

\* The levels from a to b are no more than the steps between them and one.
LEMMA LevelsBetween ==
  ASSUME NEW a \in Levels, NEW b \in Levels
  PROVE  LET between == {a, b} \cup {k \in Levels : (k - b) * (k - a) < 0}
         IN  Cardinality(between) \in Nat /\ Cardinality(between) - 1 <= Distance(a, b)
<1> DEFINE between == {a, b} \cup {k \in Levels : (k - b) * (k - a) < 0}
           lo == IF a < b THEN a ELSE b
           hi == IF a < b THEN b ELSE a
<1>1. Levels \subseteq Int /\ a \in Int /\ b \in Int
  BY DebriefAssumption DEF Levels
<1>2. ASSUME NEW k \in Levels, (k - b) * (k - a) < 0
      PROVE  k \in lo .. hi
  <2>1. k \in Int /\ k - b \in Int /\ k - a \in Int
    BY <1>1
  <2>2. ~((k - b >= 0 /\ k - a >= 0) \/ (k - b <= 0 /\ k - a <= 0))
    <3> SUFFICES ASSUME (k - b >= 0 /\ k - a >= 0) \/ (k - b <= 0 /\ k - a <= 0) PROVE FALSE
      OBVIOUS
    <3>1. (k - b) * (k - a) >= 0
      BY <2>1, SameSign
    <3>2. (k - b) * (k - a) \in Int
      BY <2>1
    <3>. QED
      BY <1>2, <3>1, <3>2
  <2>. QED
    BY <1>1, <2>1, <2>2
<1>3. between \in SUBSET (lo .. hi)
  <2>1. a \in lo .. hi /\ b \in lo .. hi
    BY <1>1
  <2> HIDE DEF lo, hi
  <2>. QED
    BY <1>2, <2>1, Zenon
<1>4. IsFiniteSet(lo .. hi) /\ Cardinality(lo .. hi) = Distance(a, b) + 1
  BY <1>1, FS_Interval DEF Distance
<1>5. Cardinality(between) \in Nat /\ Cardinality(between) <= Distance(a, b) + 1
  BY <1>3, <1>4, FS_Subset, FS_CardinalityType
<1>6. Distance(a, b) \in Int
  BY <1>1 DEF Distance
<1> HIDE DEF between
<1>7. Cardinality(between) - 1 <= Distance(a, b)
  BY <1>5, <1>6
<1>. QED
  BY <1>5, <1>7 DEF between

\* The level never runs ahead of the practice, although requests nudge the level they
\* loaded themselves (cefr.py).
THEOREM LevelFollowsPractice == DebriefSpec => []LevelWithinSessions
<1>1. DebriefInv => LevelWithinSessions
  <2> SUFFICES ASSUME DebriefInv, OneProcess, placement = "none"
               PROVE  Cardinality({level, start} \cup {k \in Levels : (k - start) * (k - level) < 0}) - 1
                        <= Cardinality({s \in Spoken : debrief[s] # None})
    BY DEF LevelWithinSessions
  <2> DEFINE between == {level, start} \cup {k \in Levels : (k - start) * (k - level) < 0}
  <2>1. level \in Levels /\ start \in Levels
    BY DebriefTypes
  <2>2. Cardinality(between) \in Nat /\ Cardinality(between) - 1 <= Distance(level, start)
    BY <2>1, LevelsBetween
  <2>3. Distance(level, start) <= Cardinality(Debriefed)
    BY DEF DebriefInv, LevelInv, NoPlacement
  <2>4. Distance(level, start) \in Int /\ Cardinality(Debriefed) \in Nat
    BY <2>1, DebriefAssumption, DebriefedFinite DEF Distance, Levels
  <2> HIDE DEF between
  <2>5. Cardinality(between) - 1 <= Cardinality(Debriefed)
    BY <2>2, <2>3, <2>4
  <2>. QED
    BY <2>5 DEF between, Debriefed
<1>. QED
  BY <1>1, DebriefInvariant, PTL

\* In one process a stored debrief is never replaced (generate).
THEOREM DebriefsStand == DebriefSpec => FirstDebriefStands
<1> DEFINE Kept == OneProcess => \A s \in Sessions : debrief[s] # None => debrief'[s] = debrief[s]
<1>1. DebriefInv /\ [DebriefNext]_<<reviewVars, debriefVars>> => [Kept]_debriefVars
  <2> SUFFICES ASSUME DebriefInv, [DebriefNext]_<<reviewVars, debriefVars>> PROVE Kept
    OBVIOUS
  <2>1. ASSUME NEW w \in Workers, StartGeneration(w) PROVE Kept
    BY <2>1, DebriefTypes DEF StartGeneration
  <2>2. ASSUME NEW w \in Workers, Commit(w) PROVE Kept
    <3>1. OneProcess => debrief[job[w].s] = None
      BY <2>2 DEF DebriefInv, DraftInv, Commit, At, Drafts
    <3>. QED
      BY <2>2, <3>1, DebriefTypes DEF Commit
  <2>3. CASE UNCHANGED debrief
    BY <2>3
  <2>4. ASSUME NEW w \in Workers, DebriefAlone(w), ~StartGeneration(w), ~Commit(w)
        PROVE  UNCHANGED debrief
    BY <2>4 DEF DebriefAlone, Generate, Analyze, AnalyzeFails, Save, Recover, CommitFails,
                EmitCompleted, EmitActivation, Place, SaveProfile, PlaceFails, FirstTouch, learner
  <2>5. (\E w \in Workers : DebriefAlone(w)) \/ UNCHANGED debrief
    BY DEF DebriefNext, ScheduleReview, CountEvents, PurgeAnalytics, learner, debriefVars
  <2>. QED
    BY <2>1, <2>2, <2>3, <2>4, <2>5
<1>. QED
  BY <1>1, DebriefInvariant, PTL DEF DebriefSpec, FirstDebriefStands

----------------------------------------------------------------------------
(* The composition                                                         *)

\* The debriefs use record_session as a request may use it: all that is proved of
\* Review holds of the learner's schedule in a system of debriefs.
THEOREM DebriefsRecordSessions == DebriefSpec => ReviewSpec
<1>1. DebriefInv /\ [DebriefNext]_<<reviewVars, debriefVars>> => [ReviewNext]_reviewVars
  <2> SUFFICES ASSUME DebriefInv, DebriefNext PROVE ReviewNext \/ UNCHANGED reviewVars
    OBVIOUS
  <2>1. ASSUME NEW w \in Workers, ScheduleReview(w) PROVE ReviewNext
    <3>1. job[w].raw.errors \in SUBSET Types
      BY DebriefTypes DEF Job, Result
    <3>2. RecordSession(w, job[w].raw.errors)
      BY <2>1 DEF ScheduleReview
    <3>. QED
      BY <3>1, <3>2 DEF ReviewNext
  <2>. QED
    BY <2>1 DEF DebriefNext, ReviewNext, CountEvents
<1>. QED
  BY <1>1, DebriefInvariant, PTL DEF DebriefSpec, ReviewSpec

\* However debriefs overlap, fail and are repeated, the schedule of the learner advances
\* by whole sessions, one after the other.
THEOREM DebriefsKeepLedger == DebriefSpec => LedgerSpec
BY DebriefsRecordSessions, ReviewImplementsLedger, PTL

----------------------------------------------------------------------------
(* Numbers                                                                 *)

\* A set of numbers that is not empty has a least one.
LEMMA LeastNumber ==
    ASSUME NEW T \in SUBSET Nat, T # {}
    PROVE  \E n \in T : \A m \in T : n <= m
<1>. DEFINE R == {x \in Nat \X Nat : x[1] < x[2]}
<1>1. WF!IsWellFoundedOn(R, Nat)
  BY WF!NatLessThanWellFounded DEF WF!OpToRel
<1>2. PICK n \in T : \A m \in T : ~(<<m, n>> \in R)
  <2>. HIDE DEF R
  <2>. QED
    BY <1>1, WF!WFMin
<1>3. ASSUME NEW m \in T PROVE n <= m
  <2>1. ~(m < n)
    BY <1>2
  <2>. QED
    BY <2>1
<1>. QED
  BY <1>3

\* What begins with 0 and goes on from each number to the next holds up to n.
LEMMA UpTo ==
    ASSUME NEW n \in Nat, NEW T \in SUBSET (0..n), 0 \in T,
           \A m \in 0..n : m + 1 \in 0..n /\ m \in T => m + 1 \in T
    PROVE  T = 0..n
<1>. DEFINE U == (0..n) \ T
<1>. SUFFICES ASSUME U # {} PROVE FALSE
  OBVIOUS
<1>0. U \in SUBSET Nat
  OBVIOUS
<1>1. PICK m \in U : \A k \in U : m <= k
  <2>. HIDE DEF U
  <2>. QED
    BY <1>0, LeastNumber
<1>2. m # 0 /\ m - 1 \in 0..n /\ (m - 1) + 1 = m
  BY <1>1
<1>3. m - 1 \in T
  BY <1>1, <1>2
<1>. QED
  BY <1>1, <1>2, <1>3

----------------------------------------------------------------------------
(* Finite sets in an order                                                 *)

\* In a finite set with a strict total order every place is taken.
LEMMA EveryPlaceIsTaken ==
    ASSUME NEW S, IsFiniteSet(S), NEW R,
           \A x \in S : <<x, x>> \notin R,
           \A x, y, z \in S : <<x, y>> \in R /\ <<y, z>> \in R => <<x, z>> \in R,
           \A x, y \in S : x = y \/ <<x, y>> \in R \/ <<y, x>> \in R
    PROVE  \A k \in 1..Cardinality(S) : \E e \in S : Cardinality({x \in S : <<x, e>> \in R}) = k - 1
<1>. DEFINE Below(e) == {x \in S : <<x, e>> \in R}
            n == Cardinality(S)
            place == [e \in S |-> Cardinality(Below(e))]
<1>. SUFFICES ASSUME NEW k \in 1..n PROVE \E e \in S : Cardinality(Below(e)) = k - 1
  OBVIOUS
<1>0. n \in Nat
  BY FS_CardinalityType
<1>1. \A e \in S : Below(e) \subseteq S /\ e \notin Below(e)
  OBVIOUS
<1>2. \A e \in S : IsFiniteSet(Below(e)) /\ Cardinality(Below(e)) \in Nat
  <2>. HIDE DEF Below
  <2>. QED
    BY <1>1, FS_Subset, FS_CardinalityType
<1>3. \A e \in S : Cardinality(Below(e)) \in 0..(n - 1)
  <2>. SUFFICES ASSUME NEW e \in S PROVE Cardinality(Below(e)) \in 0..(n - 1)
    OBVIOUS
  <2>. HIDE DEF Below
  <2>1. Below(e) \in SUBSET S /\ Below(e) # S
    BY <1>1
  <2>2. Cardinality(Below(e)) <= n /\ Cardinality(Below(e)) # n
    BY <2>1, FS_Subset
  <2>. HIDE DEF n
  <2>. QED
    BY <1>0, <1>2, <2>2
<1>4. \A x, y \in S : <<x, y>> \in R => Cardinality(Below(x)) < Cardinality(Below(y))
  <2>. SUFFICES ASSUME NEW x \in S, NEW y \in S, <<x, y>> \in R
                PROVE  Cardinality(Below(x)) < Cardinality(Below(y))
    OBVIOUS
  <2>1. Below(x) \in SUBSET Below(y) /\ x \in Below(y) /\ x \notin Below(x)
    OBVIOUS
  <2>. HIDE DEF Below
  <2>2. Cardinality(Below(x)) <= Cardinality(Below(y)) /\ Cardinality(Below(x)) # Cardinality(Below(y))
    BY <1>2, <2>1, FS_Subset
  <2>. QED
    BY <1>2, <2>2
<1>5. place \in [S -> 0..(n - 1)] /\ \A e \in S : place[e] = Cardinality(Below(e))
  BY <1>3
<1>6. \A x, y \in S : place[x] = place[y] => x = y
  <2>. SUFFICES ASSUME NEW x \in S, NEW y \in S, place[x] = place[y], x # y PROVE FALSE
    OBVIOUS
  <2>1. Cardinality(Below(x)) = Cardinality(Below(y)) /\ Cardinality(Below(x)) \in Nat
    <3>. HIDE DEF Below, place
    <3>. QED
      BY <1>2, <1>5
  <2>2. ~(Cardinality(Below(x)) < Cardinality(Below(y))) /\ ~(Cardinality(Below(y)) < Cardinality(Below(x)))
    <3>. HIDE DEF Below
    <3>. QED
      BY <2>1
  <2>. HIDE DEF Below
  <2>. QED
    BY <1>4, <2>2
<1>7. place \in Injection(S, 0..(n - 1))
  <2>. HIDE DEF place, n
  <2>. QED
    BY <1>5, <1>6 DEF Injection, IsInjective
<1>8. IsFiniteSet(0..(n - 1)) /\ Cardinality(0..(n - 1)) = n
  <2>. HIDE DEF n
  <2>. QED
    BY <1>0, FS_Interval
<1>9. place \in Surjection(S, 0..(n - 1))
  <2>. HIDE DEF place
  <2>. QED
    BY <1>7, <1>8, FS_Injection
<1>10. k - 1 \in 0..(n - 1)
  BY <1>0
<1>11. PICK e \in S : place[e] = k - 1
  <2>. HIDE DEF place, n
  <2>. QED
    BY <1>9, <1>10 DEF Surjection
<1>. QED
  BY <1>5, <1>11

\* The image of a finite set is finite.
LEMMA ImageIsFinite ==
    ASSUME NEW S, IsFiniteSet(S), NEW f, DOMAIN f = S, f = [x \in S |-> f[x]]
    PROVE  IsFiniteSet({f[x] : x \in S})
<1>. DEFINE T == {f[x] : x \in S}
<1>1. f \in Surjection(S, T)
  BY DEF Surjection
<1>. HIDE DEF T
<1>2. IsFiniteSet(T)
  BY <1>1, FS_Surjection
<1>. QED
  BY <1>2 DEF T

----------------------------------------------------------------------------
(* Reports: the stored debriefs and their order                            *)

DebriefsOK ==
    /\ IsFiniteSet(DOMAIN debriefs) /\ DOMAIN debriefs \subseteq Talked
    /\ \A s \in DOMAIN debriefs : debriefs[s] \in Contents /\ s > erasedTo

\* What is known of a session and of a debrief.
LEMMA SessionsAreNumbers ==
    /\ \A s \in Talked : s \in Nat /\ Started(s) \in Nat
    /\ \A s, t \in Talked : s < t => Started(s) <= Started(t)
    /\ \A c \in Contents : c.errors \in Seq(Int) /\ c.turns \in Nat
  BY ReportsAssumption

\* The k-th session in the order of the starts: k - 1 are before it.
LEMMA OrderedIs ==
    ASSUME DebriefsOK
    PROVE  /\ Len(Ordered) = Cardinality(DOMAIN debriefs) /\ Len(Ordered) \in Nat
           /\ \A k \in 1..Len(Ordered) : /\ Ordered[k] \in DOMAIN debriefs
                                         /\ Cardinality(Preceding(Ordered[k])) = k - 1
           /\ \A i, j \in 1..Len(Ordered) : i < j => Earlier(Ordered[i], Ordered[j])
           /\ \A s \in DOMAIN debriefs : \E k \in 1..Len(Ordered) : Ordered[k] = s
<1>. DEFINE D == DOMAIN debriefs
            n == Cardinality(D)
            R == {p \in D \X D : Earlier(p[1], p[2])}
<1>0. IsFiniteSet(D) /\ n \in Nat /\ \A s \in D : s \in Nat /\ Started(s) \in Nat
  BY SessionsAreNumbers, FS_CardinalityType DEF DebriefsOK
<1>1. \A s, t \in D : <<s, t>> \in R <=> Earlier(s, t)
  OBVIOUS
<1>2. /\ \A s \in D : ~Earlier(s, s)
      /\ \A s, t, u \in D : Earlier(s, t) /\ Earlier(t, u) => Earlier(s, u)
      /\ \A s, t \in D : s = t \/ Earlier(s, t) \/ Earlier(t, s)
  <2>. HIDE DEF D
  <2>. QED
    BY <1>0 DEF Earlier
<1>3. \A s \in D : Preceding(s) = {t \in D : <<t, s>> \in R}
  BY <1>1 DEF Preceding
<1>4. \A k \in 1..n : \E s \in D : Cardinality(Preceding(s)) = k - 1
  <2>1. \A k \in 1..n : \E s \in D : Cardinality({t \in D : <<t, s>> \in R}) = k - 1
    <3>1. /\ \A x \in D : <<x, x>> \notin R
          /\ \A x, y, z \in D : <<x, y>> \in R /\ <<y, z>> \in R => <<x, z>> \in R
          /\ \A x, y \in D : x = y \/ <<x, y>> \in R \/ <<y, x>> \in R
      <4>. HIDE DEF R, D
      <4>. QED
        BY <1>1, <1>2
    <3>. HIDE DEF R, D
    <3>. QED
      BY <1>0, <3>1, EveryPlaceIsTaken
  <2>. HIDE DEF R, D
  <2>. QED
    BY <1>3, <2>1
<1>5. Len(Ordered) = n
  BY <1>0 DEF Ordered
<1>6. ASSUME NEW k \in 1..n
      PROVE  Ordered[k] \in D /\ Cardinality(Preceding(Ordered[k])) = k - 1
  <2>1. Ordered[k] = CHOOSE s \in D : Cardinality(Preceding(s)) = k - 1
    BY DEF Ordered
  <2>. HIDE DEF D, n
  <2>. QED
    BY <1>4, <2>1
\* An earlier session has fewer before it.
<1>7. ASSUME NEW s \in D, NEW t \in D, Earlier(s, t)
      PROVE  /\ Cardinality(Preceding(s)) \in Nat /\ Cardinality(Preceding(t)) \in Nat
             /\ Cardinality(Preceding(s)) < Cardinality(Preceding(t))
  <2>1. Preceding(s) \in SUBSET Preceding(t) /\ s \in Preceding(t) /\ s \notin Preceding(s)
    BY <1>2, <1>7 DEF Preceding
  <2>2. Preceding(t) \in SUBSET D
    BY DEF Preceding
  <2>3. IsFiniteSet(Preceding(t)) /\ IsFiniteSet(Preceding(s))
    BY <1>0, <2>1, <2>2, FS_Subset
  <2>4. Cardinality(Preceding(s)) <= Cardinality(Preceding(t)) /\ Cardinality(Preceding(s)) # Cardinality(Preceding(t))
    BY <2>1, <2>3, FS_Subset
  <2>. QED
    BY <2>3, <2>4, FS_CardinalityType
<1>8. ASSUME NEW i \in 1..n, NEW j \in 1..n, i < j PROVE Earlier(Ordered[i], Ordered[j])
  <2>1. /\ Ordered[i] \in D /\ Ordered[j] \in D /\ Cardinality(Preceding(Ordered[i])) = i - 1
        /\ Cardinality(Preceding(Ordered[j])) = j - 1
    BY <1>6
  <2>2. i - 1 # j - 1 /\ ~(j - 1 < i - 1)
    BY <1>8
  <2>3. Ordered[i] # Ordered[j]
    BY <2>1, <2>2
  <2>4. ~Earlier(Ordered[j], Ordered[i])
    BY <1>7, <2>1, <2>2
  <2>. QED
    BY <1>2, <2>1, <2>3, <2>4
<1>9. ASSUME NEW s \in D PROVE \E k \in 1..n : Ordered[k] = s
  <2>. DEFINE k == Cardinality(Preceding(s)) + 1
  <2>1. Preceding(s) \in SUBSET D /\ s \notin Preceding(s)
    BY <1>2 DEF Preceding
  <2>2. IsFiniteSet(Preceding(s)) /\ Cardinality(Preceding(s)) \in Nat
    BY <1>0, <2>1, FS_Subset, FS_CardinalityType
  <2>3. Cardinality(Preceding(s)) <= n /\ Cardinality(Preceding(s)) # n
    BY <1>0, <2>1, FS_Subset
  <2>4. k \in 1..n /\ k - 1 = Cardinality(Preceding(s))
    <3>. HIDE DEF n
    <3>. QED
      BY <1>0, <2>2, <2>3
  <2>. HIDE DEF k
  <2>5. Ordered[k] \in D /\ Cardinality(Preceding(Ordered[k])) = Cardinality(Preceding(s))
    BY <1>6, <2>4
  <2>6. ~(Cardinality(Preceding(s)) < Cardinality(Preceding(s)))
    BY <2>2
  <2>7. ~Earlier(Ordered[k], s) /\ ~Earlier(s, Ordered[k])
    BY <1>7, <2>5, <2>6
  <2>. QED
    BY <1>2, <2>4, <2>5, <2>7
<1>. QED
  BY <1>0, <1>5, <1>6, <1>8, <1>9

----------------------------------------------------------------------------
(* Reports: rates by type and on the whole                                 *)

IsContent(c) == c.errors \in Seq(Int) /\ c.turns \in Nat

LEMMA Products ==
    ASSUME NEW x \in Nat, NEW y \in Nat, NEW u \in Nat, NEW v \in Nat, NEW p \in Nat, NEW q \in Nat
    PROVE  /\ x * p <= y * q /\ u * p <= v * q => (x + u) * p <= (y + v) * q
           /\ x <= y => x * p <= y * p
           /\ x * p \in Nat
<1>1. (x + u) * p = x * p + u * p /\ (y + v) * q = y * q + v * q
  OBVIOUS
<1>2. x * p \in Nat /\ u * p \in Nat /\ y * q \in Nat /\ v * q \in Nat /\ y * p \in Nat
  OBVIOUS
<1>3. x <= y => x * p <= y * p
  OBVIOUS
<1>. QED
  BY <1>1, <1>2, <1>3

\* If no type of a comes more often, per turn, than in b, then a as a whole does not.
LEMMA RatesAddUp ==
    ASSUME NEW a, IsContent(a), NEW b, IsContent(b),
           \A t \in TypesOf(a) : ~LowerRate(t, b, a)
    PROVE  Total(a) * Turns(b) <= Total(b) * Turns(a)
<1>. DEFINE T == TypesOf(a)
            n == Cardinality(T)
<1>1. IsFiniteSet(Entries(a)) /\ IsFiniteSet(Entries(b))
  <2>1. Len(a.errors) \in Nat /\ Len(b.errors) \in Nat
    BY DEF IsContent
  <2>2. IsFiniteSet(1..Len(a.errors)) /\ IsFiniteSet(1..Len(b.errors))
    <3>1. \A m \in Nat : IsFiniteSet(1..m)
      BY FS_Interval
    <3>. QED
      BY <2>1, <3>1
  <2>3. Entries(a) \in SUBSET (1..Len(a.errors)) /\ Entries(b) \in SUBSET (1..Len(b.errors))
    BY DEF Entries
  <2>. QED
    BY <2>2, <2>3, FS_Subset
<1>2. Turns(a) \in Nat /\ Turns(b) \in Nat
  BY DEF Turns, IsContent
<1>3. IsFiniteSet(T)
  <2>. DEFINE f == [j \in Entries(a) |-> TypeOf(a.errors[j])]
  <2>1. T = {f[j] : j \in Entries(a)} /\ DOMAIN f = Entries(a) /\ f = [j \in Entries(a) |-> f[j]]
    BY DEF TypesOf
  <2>. HIDE DEF f, T
  <2>. QED
    BY <1>1, <2>1, ImageIsFinite
<1>4. n \in Nat /\ \E e : e \in Bijection(1..n, T)
  BY <1>3, FS_CardinalityType DEF ExistsBijection
<1>5. PICK e : e \in Bijection(1..n, T)
  BY <1>4
<1>6. /\ \A i \in 1..n : e[i] \in T
      /\ \A i, j \in 1..n : e[i] = e[j] => i = j
      /\ \A t \in T : \E i \in 1..n : e[i] = t
  <2>. HIDE DEF T, n
  <2>1. e \in Injection(1..n, T) /\ e \in Surjection(1..n, T)
    BY <1>5 DEF Bijection
  <2>2. e \in [1..n -> T] /\ \A i, j \in 1..n : e[i] = e[j] => i = j
    BY <2>1 DEF Injection, IsInjective
  <2>3. \A t \in T : \E i \in 1..n : e[i] = t
    BY <2>1 DEF Surjection
  <2>. QED
    BY <2>2, <2>3
\* The entries of the first k types, and of one type.
<1>. DEFINE Part(c, k) == {j \in Entries(c) : \E i \in 1..k : TypeOf(c.errors[j]) = e[i]}
            Of(c, t) == {j \in Entries(c) : TypeOf(c.errors[j]) = t}
            K == {k \in 0..n : Cardinality(Part(a, k)) * Turns(b) <= Cardinality(Part(b, k)) * Turns(a)}
<1>7. ASSUME NEW c, IsFiniteSet(Entries(c)), NEW k \in 0..n
      PROVE  IsFiniteSet(Part(c, k)) /\ Cardinality(Part(c, k)) \in Nat
  <2>1. Part(c, k) \in SUBSET Entries(c)
    OBVIOUS
  <2>. HIDE DEF Part
  <2>. QED
    BY <1>7, <2>1, FS_Subset, FS_CardinalityType
<1>8. ASSUME NEW c, IsFiniteSet(Entries(c)), NEW t
      PROVE  IsFiniteSet(Of(c, t)) /\ Cardinality(Of(c, t)) \in Nat /\ CountOf(c, t) = Cardinality(Of(c, t))
  <2>1. Of(c, t) \in SUBSET Entries(c)
    OBVIOUS
  <2>2. CountOf(c, t) = Cardinality(Of(c, t))
    BY DEF CountOf
  <2>. HIDE DEF Of
  <2>. QED
    BY <1>8, <2>1, <2>2, FS_Subset, FS_CardinalityType
<1>9. ASSUME NEW c, IsFiniteSet(Entries(c)), NEW k \in 0..n, k + 1 \in 0..n
      PROVE  Cardinality(Part(c, k + 1)) = Cardinality(Part(c, k)) + CountOf(c, e[k + 1])
  <2>1. \A i : i \in 1..(k + 1) <=> i \in 1..k \/ i = k + 1
    BY <1>4, <1>9
  <2>2. Part(c, k + 1) = Part(c, k) \cup Of(c, e[k + 1])
    BY <2>1
  <2>3. k + 1 \in 1..n /\ \A i \in 1..k : i \in 1..n /\ i # k + 1
    BY <1>4, <1>9
  <2>4. Part(c, k) \cap Of(c, e[k + 1]) = {}
    <3>. HIDE DEF n
    <3>. QED
      BY <1>6, <2>3
  <2>5. IsFiniteSet(Part(c, k)) /\ IsFiniteSet(Of(c, e[k + 1])) /\ CountOf(c, e[k + 1]) = Cardinality(Of(c, e[k + 1]))
        /\ Cardinality(Part(c, k)) \in Nat /\ Cardinality(Of(c, e[k + 1])) \in Nat
    <3>. HIDE DEF Part, Of
    <3>. QED
      BY <1>7, <1>8, <1>9
  <2>. HIDE DEF Part, Of
  <2>6. Cardinality(Part(c, k + 1)) = Cardinality(Part(c, k)) + Cardinality(Of(c, e[k + 1])) - Cardinality({})
    BY <2>2, <2>4, <2>5, FS_Union
  <2>. QED
    BY <2>5, <2>6, FS_EmptySet
<1>10. 0 \in K
  <2>1. Part(a, 0) = {} /\ Part(b, 0) = {}
    OBVIOUS
  <2>2. Cardinality(Part(a, 0)) = 0 /\ Cardinality(Part(b, 0)) = 0
    BY <2>1, FS_EmptySet
  <2>. HIDE DEF Part, n
  <2>. QED
    BY <1>2, <1>4, <2>2
<1>11. ASSUME NEW k \in 0..n, k + 1 \in 0..n, k \in K PROVE k + 1 \in K
  <2>1. e[k + 1] \in T
    BY <1>4, <1>6, <1>11
  <2>2. ~(CountOf(b, e[k + 1]) * Turns(a) < CountOf(a, e[k + 1]) * Turns(b))
    BY <2>1 DEF LowerRate
  <2>3. CountOf(a, e[k + 1]) \in Nat /\ CountOf(b, e[k + 1]) \in Nat
    <3>. HIDE DEF Of
    <3>. QED
      BY <1>1, <1>8
  <2>4. CountOf(a, e[k + 1]) * Turns(b) <= CountOf(b, e[k + 1]) * Turns(a)
    <3>1. CountOf(a, e[k + 1]) * Turns(b) \in Nat /\ CountOf(b, e[k + 1]) * Turns(a) \in Nat
      BY <1>2, <2>3, Products
    <3>. QED
      BY <2>2, <3>1
  <2>. HIDE DEF Part, n
  <2>5. Cardinality(Part(a, k)) \in Nat /\ Cardinality(Part(b, k)) \in Nat
    BY <1>1, <1>7
  <2>6. /\ Cardinality(Part(a, k + 1)) = Cardinality(Part(a, k)) + CountOf(a, e[k + 1])
        /\ Cardinality(Part(b, k + 1)) = Cardinality(Part(b, k)) + CountOf(b, e[k + 1])
    BY <1>1, <1>9, <1>11
  <2>7. Cardinality(Part(a, k)) * Turns(b) <= Cardinality(Part(b, k)) * Turns(a)
    BY <1>11
  <2>8. (Cardinality(Part(a, k)) + CountOf(a, e[k + 1])) * Turns(b)
          <= (Cardinality(Part(b, k)) + CountOf(b, e[k + 1])) * Turns(a)
    BY <1>2, <2>3, <2>4, <2>5, <2>7, Products
  <2>. QED
    BY <1>11, <2>6, <2>8
<1>12. K = 0..n
  <2>1. K \in SUBSET (0..n)
    OBVIOUS
  <2>. HIDE DEF K, n
  <2>. QED
    BY <1>4, <1>10, <1>11, <2>1, UpTo
<1>13. Cardinality(Part(a, n)) * Turns(b) <= Cardinality(Part(b, n)) * Turns(a)
  <2>1. n \in K
    <3>. HIDE DEF K, n
    <3>. QED
      BY <1>4, <1>12
  <2>. HIDE DEF Part, n
  <2>. QED
    BY <2>1
<1>14. Part(a, n) = Entries(a)
  <2>1. \A j \in Entries(a) : TypeOf(a.errors[j]) \in T
    BY DEF TypesOf
  <2>. HIDE DEF T, n
  <2>. QED
    BY <1>6, <2>1
<1>15. Part(b, n) \in SUBSET Entries(b)
  OBVIOUS
<1>. HIDE DEF Part, n
<1>16. Cardinality(Part(b, n)) <= Cardinality(Entries(b)) /\ Cardinality(Part(b, n)) \in Nat
       /\ Cardinality(Entries(b)) \in Nat /\ Cardinality(Entries(a)) \in Nat
  BY <1>1, <1>15, FS_Subset, FS_CardinalityType
<1>17. Cardinality(Part(b, n)) * Turns(a) <= Cardinality(Entries(b)) * Turns(a)
  BY <1>2, <1>16, Products
<1>18. /\ Cardinality(Entries(a)) * Turns(b) \in Nat /\ Cardinality(Part(b, n)) * Turns(a) \in Nat
       /\ Cardinality(Entries(b)) * Turns(a) \in Nat
  BY <1>2, <1>16, Products
<1>19. Cardinality(Entries(a)) * Turns(b) <= Cardinality(Part(b, n)) * Turns(a)
  BY <1>13, <1>14
<1>20. Cardinality(Entries(a)) * Turns(b) <= Cardinality(Entries(b)) * Turns(a)
  BY <1>17, <1>18, <1>19
<1>. QED
  BY <1>20 DEF Total

\* A proof says one thing of each type, and names what went up or down on the whole.
LEMMA ProofsAreHonest ==
    ASSUME NEW b, NEW l, IsContent(b.content), IsContent(l.content), Earlier(b.id, l.id)
    PROVE  HonestProof(b, l)
<1>. DEFINE before == b.content
            after == l.content
            gains == Resolved(before, after) \cup Improved(before, after)
            losses == NewOrWorse(before, after)
<1>1. \A c, d, t : IsContent(c) /\ IsContent(d) => CountOf(c, t) * Turns(d) \in Nat
  <2>. SUFFICES ASSUME NEW c, NEW d, NEW t, IsContent(c), IsContent(d) PROVE CountOf(c, t) * Turns(d) \in Nat
    OBVIOUS
  <2>1. Len(c.errors) \in Nat
    BY DEF IsContent
  <2>2. {j \in Entries(c) : TypeOf(c.errors[j]) = t} \in SUBSET (1..Len(c.errors)) /\ IsFiniteSet(1..Len(c.errors))
    BY <2>1, FS_Interval DEF Entries
  <2>3. CountOf(c, t) \in Nat
    BY <2>2, FS_Subset, FS_CardinalityType DEF CountOf
  <2>4. Turns(d) \in Nat
    BY DEF Turns, IsContent
  <2>. QED
    BY <2>3, <2>4, Products
<1>2. gains \cap losses = {}
  <2>. SUFFICES ASSUME NEW t \in gains, t \in losses PROVE FALSE
    OBVIOUS
  <2>1. t \in TypesOf(after) /\ LowerRate(t, before, after)
    BY DEF NewOrWorse
  <2>2. LowerRate(t, after, before)
    BY <2>1 DEF Resolved, Improved
  <2>. QED
    BY <1>1, <2>1, <2>2 DEF LowerRate
<1>3. ASSUME losses = {} PROVE Total(after) * Turns(before) <= Total(before) * Turns(after)
  <2>1. \A t \in TypesOf(after) : ~LowerRate(t, before, after)
    BY <1>3 DEF NewOrWorse
  <2>. QED
    BY <2>1, RatesAddUp
<1>4. ASSUME gains = {} PROVE Total(before) * Turns(after) <= Total(after) * Turns(before)
  <2>1. \A t \in TypesOf(before) : ~LowerRate(t, after, before)
    BY <1>4 DEF Resolved, Improved
  <2>. QED
    BY <2>1, RatesAddUp
<1>5. \A c, d : IsContent(c) /\ IsContent(d) => Total(c) * Turns(d) \in Nat
  <2>. SUFFICES ASSUME NEW c, NEW d, IsContent(c), IsContent(d) PROVE Total(c) * Turns(d) \in Nat
    OBVIOUS
  <2>1. Len(c.errors) \in Nat
    BY DEF IsContent
  <2>2. Entries(c) \in SUBSET (1..Len(c.errors)) /\ IsFiniteSet(1..Len(c.errors))
    BY <2>1, FS_Interval DEF Entries
  <2>3. Total(c) \in Nat
    BY <2>2, FS_Subset, FS_CardinalityType DEF Total
  <2>4. Turns(d) \in Nat
    BY DEF Turns, IsContent
  <2>. QED
    BY <2>3, <2>4, Products
<1>6. Total(after) * Turns(before) > Total(before) * Turns(after) => losses # {}
  BY <1>3, <1>5
<1>7. Total(after) * Turns(before) < Total(before) * Turns(after) => gains # {}
  BY <1>4, <1>5
<1>. QED
  BY <1>2, <1>6, <1>7, Zenon DEF HonestProof

----------------------------------------------------------------------------
(* Reports: the recurring errors                                           *)

\* A row is a place in the listing and a place in the debrief's list.
LEMMA RowsAre ==
    ASSUME NEW q, NEW row
    PROVE  row \in ErrorRows(q) <=>
               \E i \in DOMAIN q : \E j \in Entries(debriefs[q[i]]) : i <= Recent /\ row = <<i, j>>
  BY DEF ErrorRows

LEMMA RowsAreFinite ==
    ASSUME DebriefsOK, NEW q \in NewestFirst
    PROVE  /\ \A row \in ErrorRows(q) :
                  /\ row[1] \in DOMAIN q /\ row[1] \in Nat /\ row[2] \in Nat /\ q[row[1]] \in DOMAIN debriefs
                  /\ RowType(q, row) \in Int /\ RowType(q, row) \in TypesOf(debriefs[q[row[1]]])
           /\ IsFiniteSet(ErrorRows(q)) /\ IsFiniteSet(ErrorTypes(q))
<1>. DEFINE n == Cardinality(DOMAIN debriefs)
<1>1. n \in Nat /\ DOMAIN q = 1..n /\ \A i \in DOMAIN q : q[i] \in DOMAIN debriefs
  BY FS_CardinalityType DEF DebriefsOK, NewestFirst
<1>2. ASSUME NEW s \in DOMAIN debriefs
      PROVE  debriefs[s].errors \in Seq(Int)
  BY <1>2, SessionsAreNumbers DEF DebriefsOK
<1>3. ASSUME NEW s \in DOMAIN debriefs, NEW j \in Entries(debriefs[s])
      PROVE  j \in Nat /\ TypeOf(debriefs[s].errors[j]) \in Int /\ TypeOf(debriefs[s].errors[j]) \in TypesOf(debriefs[s])
  <2>1. j \in 1..Len(debriefs[s].errors) /\ debriefs[s].errors[j] \in Int
    BY <1>2, <1>3 DEF Entries
  <2>2. TypeOf(debriefs[s].errors[j]) \in TypesOf(debriefs[s])
    BY DEF TypesOf
  <2>. QED
    BY <1>2, <2>1, <2>2 DEF TypeOf, Other
<1>4. ASSUME NEW row \in ErrorRows(q)
      PROVE  /\ row[1] \in DOMAIN q /\ row[1] \in Nat /\ row[2] \in Nat /\ q[row[1]] \in DOMAIN debriefs
             /\ RowType(q, row) \in Int /\ RowType(q, row) \in TypesOf(debriefs[q[row[1]]])
  <2>0. PICK i \in DOMAIN q : \E j \in Entries(debriefs[q[i]]) : row = <<i, j>>
    BY RowsAre
  <2>1. PICK j \in Entries(debriefs[q[i]]) : row = <<i, j>>
    BY <2>0
  <2>2. row[1] = i /\ row[2] = j
    BY <2>1
  <2>3. i \in Nat /\ q[i] \in DOMAIN debriefs
    BY <1>1, <2>1
  <2>4. RowType(q, row) = TypeOf(debriefs[q[i]].errors[j])
    BY <2>2 DEF RowType
  <2>. QED
    BY <1>3, <2>1, <2>2, <2>3, <2>4
<1>5. IsFiniteSet(ErrorRows(q))
  <2>. DEFINE I == {m \in DOMAIN q : m <= Recent}
              f == [i \in I |-> {<<i, j>> : j \in Entries(debriefs[q[i]])}]
  <2>1. IsFiniteSet(DOMAIN q) /\ I \in SUBSET DOMAIN q
    BY <1>1, FS_Interval
  <2>2. IsFiniteSet(I)
    <3>. HIDE DEF I
    <3>. QED
      BY <2>1, FS_Subset
  <2>3. ErrorRows(q) = UNION {f[i] : i \in I} /\ DOMAIN f = I /\ f = [i \in I |-> f[i]]
    BY DEF ErrorRows
  <2>4. IsFiniteSet({f[i] : i \in I})
    <3>. HIDE DEF f, I
    <3>. QED
      BY <2>2, <2>3, ImageIsFinite
  <2>5. ASSUME NEW i \in I PROVE IsFiniteSet(f[i])
    <3>. DEFINE J == Entries(debriefs[q[i]])
                g == [j \in J |-> <<i, j>>]
    <3>1. f[i] = {g[j] : j \in J} /\ DOMAIN g = J /\ g = [j \in J |-> g[j]]
      OBVIOUS
    <3>2. Len(debriefs[q[i]].errors) \in Nat
      BY <1>1, <1>2
    <3>3. IsFiniteSet(1..Len(debriefs[q[i]].errors))
      BY <3>2, FS_Interval
    <3>4. J \in SUBSET (1..Len(debriefs[q[i]].errors))
      BY DEF Entries
    <3>5. IsFiniteSet(J)
      <4>. HIDE DEF J
      <4>. QED
        BY <3>3, <3>4, FS_Subset
    <3>. HIDE DEF f, g, J, I
    <3>. QED
      BY <3>1, <3>5, ImageIsFinite
  <2>. HIDE DEF f, I
  <2>6. \A X \in {f[i] : i \in I} : IsFiniteSet(X)
    BY <2>5
  <2>. QED
    BY <2>3, <2>4, <2>6, FS_UNION
<1>6. IsFiniteSet(ErrorTypes(q))
  <2>. DEFINE f == [row \in ErrorRows(q) |-> RowType(q, row)]
  <2>1. ErrorTypes(q) = {f[row] : row \in ErrorRows(q)} /\ DOMAIN f = ErrorRows(q)
        /\ f = [row \in ErrorRows(q) |-> f[row]]
    BY DEF ErrorTypes
  <2>. HIDE DEF f
  <2>. QED
    BY <1>5, <2>1, ImageIsFinite
<1>. QED
  BY <1>4, <1>5, <1>6

\* Of the rows of a type one comes first.
LEMMA FirstRowIs ==
    ASSUME DebriefsOK, NEW q \in NewestFirst, NEW t \in ErrorTypes(q)
    PROVE  /\ FirstRow(q, t) \in RowsOf(q, t)
           /\ \A other \in RowsOf(q, t) : other = FirstRow(q, t) \/ Precedes(FirstRow(q, t), other)
<1>. DEFINE mine == RowsOf(q, t)
<1>1. \A row \in mine : /\ row[1] \in Nat /\ row[2] \in Nat /\ row = <<row[1], row[2]>>
                        /\ row \in ErrorRows(q)
  <2>. SUFFICES ASSUME NEW row \in mine
                PROVE  row[1] \in Nat /\ row[2] \in Nat /\ row = <<row[1], row[2]>> /\ row \in ErrorRows(q)
    OBVIOUS
  <2>1. row \in ErrorRows(q)
    BY DEF RowsOf
  <2>2. \E i, j : row = <<i, j>>
    BY <2>1, RowsAre
  <2>. QED
    BY <2>1, <2>2, RowsAreFinite
<1>2. mine # {}
  BY DEF ErrorTypes, RowsOf
<1>. DEFINE Places == {row[1] : row \in mine}
<1>. HIDE DEF mine
<1>3. Places \in SUBSET Nat /\ Places # {}
  BY <1>1, <1>2
<1>4. PICK i \in Places : \A m \in Places : i <= m
  <2>. HIDE DEF Places
  <2>. QED
    BY <1>3, LeastNumber
<1>. DEFINE Within == {row[2] : row \in {r \in mine : r[1] = i}}
<1>5. Within \in SUBSET Nat /\ Within # {}
  BY <1>1, <1>4
<1>6. PICK j \in Within : \A m \in Within : j <= m
  <2>. HIDE DEF Within
  <2>. QED
    BY <1>5, LeastNumber
<1>7. PICK first \in mine : first[1] = i /\ first[2] = j
  BY <1>6
<1>8. ASSUME NEW other \in mine PROVE other = first \/ Precedes(first, other)
  <2>1. other[1] \in Places /\ (other[1] = i => other[2] \in Within)
    OBVIOUS
  <2>2. i <= other[1] /\ (other[1] = i => j <= other[2])
    BY <1>4, <1>6, <2>1
  <2>3. other = <<other[1], other[2]>> /\ first = <<i, j>>
    BY <1>1, <1>7
  <2>4. i \in Nat /\ j \in Nat /\ other[1] \in Nat /\ other[2] \in Nat
    BY <1>1, <1>7
  <2>5. i < other[1] \/ (i = other[1] /\ j < other[2]) \/ (i = other[1] /\ j = other[2])
    BY <2>2, <2>4
  <2>. QED
    BY <1>7, <2>3, <2>5 DEF Precedes
<1>. QED
  BY <1>7, <1>8 DEF FirstRow, mine

\* The tally has one entry of each type, with the latest correction.
LEMMA TallyIs ==
    ASSUME DebriefsOK, NEW q \in NewestFirst
    PROVE  /\ IsFiniteSet(Tally(q))
           /\ \A e \in Tally(q) : e.type \in Int /\ e.count \in Nat /\ LatestCorrection(e)
           /\ \A e, x \in Tally(q) : e.type = x.type => e = x
<1>. DEFINE entry(t) == [type |-> t, count |-> Cardinality(RowsOf(q, t)), correction |-> Correction(q, t)]
<1>1. Tally(q) = {entry(t) : t \in ErrorTypes(q)}
  BY DEF Tally
<1>2. IsFiniteSet(Tally(q))
  <2>. DEFINE f == [t \in ErrorTypes(q) |-> entry(t)]
  <2>1. Tally(q) = {f[t] : t \in ErrorTypes(q)} /\ DOMAIN f = ErrorTypes(q)
        /\ f = [t \in ErrorTypes(q) |-> f[t]]
    <3>. HIDE DEF entry
    <3>. QED
      BY <1>1
  <2>. HIDE DEF f
  <2>. QED
    BY <2>1, RowsAreFinite, ImageIsFinite
<1>3. \A e, x \in Tally(q) : e.type = x.type => e = x
  BY <1>1
<1>4. ASSUME NEW t \in ErrorTypes(q)
      PROVE  entry(t).type \in Int /\ entry(t).count \in Nat /\ LatestCorrection(entry(t))
  <2>1. t \in Int
    BY RowsAreFinite DEF ErrorTypes
  <2>2. RowsOf(q, t) \in SUBSET ErrorRows(q)
    BY DEF RowsOf
  <2>3. Cardinality(RowsOf(q, t)) \in Nat
    BY <2>2, RowsAreFinite, FS_Subset, FS_CardinalityType
  <2>. DEFINE first == FirstRow(q, t)
  <2>4. first \in RowsOf(q, t) /\ \A other \in RowsOf(q, t) : other = first \/ Precedes(first, other)
    BY FirstRowIs
  <2>5. entry(t).type = t /\ entry(t).count = Cardinality(RowsOf(q, t)) /\ entry(t).correction[1] = q[first[1]]
    BY DEF Correction
  <2>. HIDE DEF first, entry
  <2>6. first[1] \in DOMAIN q /\ first[1] \in Nat /\ first[1] <= Recent
    <3>1. first \in ErrorRows(q)
      BY <2>2, <2>4
    <3>2. PICK i \in DOMAIN q : \E j \in Entries(debriefs[q[i]]) : i <= Recent /\ first = <<i, j>>
      BY <3>1, RowsAre
    <3>. QED
      BY <3>1, <3>2, RowsAreFinite
  <2>7. ASSUME NEW s \in DOMAIN debriefs, Started(s) > Started(q[first[1]]), t \in TypesOf(debriefs[s])
        PROVE  FALSE
    <3>1. PICK p \in DOMAIN q : q[p] = s
      BY <2>7 DEF NewestFirst
    <3>2. DOMAIN q = 1..Cardinality(DOMAIN debriefs) /\ Cardinality(DOMAIN debriefs) \in Nat
      BY FS_CardinalityType DEF NewestFirst, DebriefsOK
    <3>3. q[first[1]] \in DOMAIN debriefs
      BY <2>6 DEF NewestFirst
    <3>4. Started(s) \in Nat /\ Started(q[first[1]]) \in Nat
      BY <2>7, <3>3, SessionsAreNumbers DEF DebriefsOK
    <3>5. p < first[1]
      <4>. SUFFICES ASSUME ~(p < first[1]) PROVE FALSE
        OBVIOUS
      <4>1. p = first[1] \/ first[1] < p
        BY <2>6, <3>1, <3>2
      <4>2. Started(q[first[1]]) >= Started(q[p])
        <5>1. CASE p = first[1]
          BY <3>1, <3>4, <5>1
        <5>2. CASE first[1] < p
          BY <2>6, <3>1, <5>2 DEF NewestFirst
        <5>. QED
          BY <4>1, <5>1, <5>2
      <4>. QED
        BY <2>7, <3>1, <3>4, <4>2
    <3>6. PICK j \in Entries(debriefs[s]) : TypeOf(debriefs[s].errors[j]) = t
      BY <2>7 DEF TypesOf
    <3>. DEFINE row == <<p, j>>
    <3>7. p <= Recent
      BY <2>6, <3>1, <3>2, <3>5, ReportsAssumption
    <3>8. row \in ErrorRows(q)
      BY <3>1, <3>6, <3>7, RowsAre
    <3>9. RowType(q, row) = t
      BY <3>1, <3>6 DEF RowType
    <3>10. row \in RowsOf(q, t)
      BY <3>8, <3>9 DEF RowsOf
    <3>11. row[1] = p
      OBVIOUS
    <3>. HIDE DEF row
    <3>12. row = first \/ Precedes(first, row)
      BY <2>4, <3>10
    <3>. QED
      BY <2>6, <3>1, <3>2, <3>5, <3>11, <3>12 DEF Precedes
  <2>8. LatestCorrection(entry(t))
    BY <2>5, <2>7 DEF LatestCorrection
  <2>. QED
    BY <2>1, <2>3, <2>5, <2>8
<1>. HIDE DEF entry
<1>5. \A e \in Tally(q) : e.type \in Int /\ e.count \in Nat /\ LatestCorrection(e)
  BY <1>1, <1>4
<1>. QED
  BY <1>2, <1>3, <1>5

LEMMA RecurringIs ==
    ASSUME DebriefsOK, NEW q \in NewestFirst
    PROVE  LET r == Recurring(q)
           IN  /\ \A i \in 1..Len(r) : LatestCorrection(r[i])
               /\ \A i, j \in 1..Len(r) : i # j => r[i].type # r[j].type
<1>. DEFINE A == Tally(q)
            n == Cardinality(A)
            m == IF TopErrors < n THEN TopErrors ELSE n
            R == {p \in A \X A : MoreFrequent(p[1], p[2])}
            r == Recurring(q)
<1>1. /\ IsFiniteSet(A) /\ \A e, x \in A : e.type = x.type => e = x
      /\ \A e \in A : e.type \in Int /\ e.count \in Nat /\ LatestCorrection(e)
  BY TallyIs
<1>. HIDE DEF A
<1>2. n \in Nat /\ m \in Nat /\ m <= n
  BY <1>1, FS_CardinalityType, ReportsAssumption
<1>3. \A x, y \in A : <<x, y>> \in R <=> MoreFrequent(x, y)
  OBVIOUS
<1>4. /\ \A x \in A : ~MoreFrequent(x, x)
      /\ \A x, y, z \in A : MoreFrequent(x, y) /\ MoreFrequent(y, z) => MoreFrequent(x, z)
      /\ \A x, y \in A : x = y \/ MoreFrequent(x, y) \/ MoreFrequent(y, x)
  BY <1>1 DEF MoreFrequent
<1>5. \A e \in A : {x \in A : MoreFrequent(x, e)} = {x \in A : <<x, e>> \in R}
  <2>. HIDE DEF R
  <2>. QED
    BY <1>3
<1>6. \A k \in 1..n : \E e \in A : Cardinality({x \in A : <<x, e>> \in R}) = k - 1
  <2>1. /\ \A x \in A : <<x, x>> \notin R
        /\ \A x, y, z \in A : <<x, y>> \in R /\ <<y, z>> \in R => <<x, z>> \in R
        /\ \A x, y \in A : x = y \/ <<x, y>> \in R \/ <<y, x>> \in R
    <3>. HIDE DEF R
    <3>. QED
      BY <1>3, <1>4
  <2>2. IsFiniteSet(A)
    BY <1>1
  <2>. HIDE DEF R
  <2>. QED
    BY <2>1, <2>2, EveryPlaceIsTaken
<1>7. \A k \in 1..n : \E e \in A : Cardinality({x \in A : MoreFrequent(x, e)}) = k - 1
  <2>. HIDE DEF R, n
  <2>. QED
    BY <1>5, <1>6
<1>8. r = [k \in 1..m |-> CHOOSE e \in A : Cardinality({x \in A : MoreFrequent(x, e)}) = k - 1]
  BY DEF Recurring, A
<1>. HIDE DEF r, m, n, R
<1>9. Len(r) = m
  BY <1>2, <1>8
<1>10. ASSUME NEW k \in 1..m
       PROVE  r[k] \in A /\ Cardinality({x \in A : MoreFrequent(x, r[k])}) = k - 1
  <2>1. r[k] = CHOOSE e \in A : Cardinality({x \in A : MoreFrequent(x, e)}) = k - 1
    BY <1>8
  <2>2. k \in 1..n
    BY <1>2
  <2>. QED
    BY <1>7, <2>1, <2>2
<1>11. ASSUME NEW i \in 1..m, NEW j \in 1..m, i # j PROVE r[i].type # r[j].type
  <2>1. r[i] \in A /\ r[j] \in A
    BY <1>10
  <2>2. i - 1 # j - 1
    BY <1>2, <1>11
  <2>3. r[i] # r[j]
    BY <1>10, <2>2
  <2>. QED
    BY <1>1, <2>1, <2>3
<1>12. \A i \in 1..m : LatestCorrection(r[i])
  BY <1>1, <1>10
<1>. QED
  BY <1>9, <1>11, <1>12 DEF r

----------------------------------------------------------------------------
(* Reports: the invariant                                                  *)

\* A baseline that has been read is of a session that is stored or was erased, and
\* what has been shown is honest.
ReportsInv ==
    /\ DebriefsOK /\ erasedTo \in Nat
    /\ reader = "latest" =>
           /\ baseline.id \in Talked /\ IsContent(baseline.content)
           /\ baseline.id \in DOMAIN debriefs \/ baseline.id <= erasedTo
    /\ proof # NoProof => HonestProof(proof[1], proof[2])

LEMMA ReportsInvInit == ReportsInit => ReportsInv
<1>. SUFFICES ASSUME ReportsInit PROVE ReportsInv
  OBVIOUS
<1>1. DOMAIN debriefs = {}
  BY DEF ReportsInit
<1>2. DebriefsOK
  BY <1>1, FS_EmptySet DEF DebriefsOK
<1>. QED
  BY <1>2 DEF ReportsInit, ReportsInv

LEMMA StoreDebriefKeeps ==
    ASSUME ReportsInv, NEW s \in Talked, NEW c \in Contents, StoreDebrief(s, c)
    PROVE  ReportsInv'
<1>1. DOMAIN debriefs' = DOMAIN debriefs \cup {s}
  BY DEF StoreDebrief
<1>2. IsFiniteSet(DOMAIN debriefs')
  BY <1>1, FS_AddElement DEF ReportsInv, DebriefsOK
<1>3. DebriefsOK'
  <2>1. \A t \in DOMAIN debriefs' : debriefs'[t] = IF t = s THEN c ELSE debriefs[t]
    BY DEF StoreDebrief
  <2>. QED
    BY <1>1, <1>2, <2>1 DEF ReportsInv, DebriefsOK, StoreDebrief
<1>. QED
  BY <1>1, <1>3 DEF ReportsInv, StoreDebrief

LEMMA EraseHistoryKeeps ==
    ASSUME ReportsInv, NEW s \in Talked, EraseHistory(s)
    PROVE  ReportsInv'
<1>1. DOMAIN debriefs' = {}
  BY DEF EraseHistory
<1>2. DebriefsOK'
  BY <1>1, FS_EmptySet DEF DebriefsOK
<1>3. erasedTo' = s /\ s \in Nat /\ s > erasedTo /\ erasedTo \in Nat
  BY SessionsAreNumbers DEF EraseHistory, ReportsInv
<1>4. ASSUME reader' = "latest"
      PROVE  /\ baseline'.id \in Talked /\ IsContent(baseline'.content)
             /\ baseline'.id <= erasedTo'
  <2>1. /\ baseline.id \in Talked /\ IsContent(baseline.content)
        /\ baseline.id \in DOMAIN debriefs \/ baseline.id <= erasedTo
    BY <1>4 DEF EraseHistory, ReportsInv
  <2>2. baseline.id <= s
    <3>1. baseline.id \in DOMAIN debriefs => baseline.id <= s
      BY DEF EraseHistory
    <3>2. baseline.id \in Nat
      BY <2>1, SessionsAreNumbers
    <3>. QED
      BY <1>3, <2>1, <3>1, <3>2
  <2>. QED
    BY <1>3, <2>1, <2>2 DEF EraseHistory
<1>. QED
  BY <1>2, <1>3, <1>4 DEF ReportsInv, EraseHistory

LEMMA ReadBaselineKeeps ==
    ASSUME ReportsInv, ReadBaseline
    PROVE  ReportsInv'
<1>1. Ordered[1] \in DOMAIN debriefs
  <2>1. IsFiniteSet(DOMAIN debriefs) /\ DOMAIN debriefs # {}
    BY DEF ReportsInv, DebriefsOK, ReadBaseline
  <2>2. Cardinality(DOMAIN debriefs) \in Nat /\ Cardinality(DOMAIN debriefs) # 0
    BY <2>1, FS_CardinalityType, FS_EmptySet
  <2>. QED
    BY <2>2, OrderedIs DEF ReportsInv
<1>2. baseline'.id = Ordered[1] /\ baseline'.content = debriefs[Ordered[1]]
  BY DEF ReadBaseline, Row
<1>3. baseline'.id \in Talked /\ IsContent(baseline'.content) /\ baseline'.id \in DOMAIN debriefs
  BY <1>1, <1>2, SessionsAreNumbers DEF ReportsInv, DebriefsOK, IsContent
<1>. QED
  BY <1>3 DEF ReportsInv, DebriefsOK, ReadBaseline

LEMMA ReadLatestKeeps ==
    ASSUME ReportsInv, ReadLatest
    PROVE  ReportsInv'
<1>. DEFINE last == Ordered[Len(Ordered)]
<1>1. ASSUME DOMAIN debriefs # {}, last # baseline.id
      PROVE  HonestProof(baseline, Row(last))
  <2>1. Len(Ordered) \in Nat /\ Len(Ordered) # 0
    <3>1. IsFiniteSet(DOMAIN debriefs)
      BY DEF ReportsInv, DebriefsOK
    <3>2. Cardinality(DOMAIN debriefs) # 0
      BY <1>1, <3>1, FS_EmptySet
    <3>. QED
      BY <3>2, OrderedIs DEF ReportsInv
  <2>2. Len(Ordered) \in 1..Len(Ordered)
    BY <2>1
  <2>3. last \in DOMAIN debriefs
    BY <2>2, OrderedIs DEF ReportsInv
  <2>4. last \in Talked /\ last > erasedTo /\ IsContent(debriefs[last])
    BY <2>3, SessionsAreNumbers DEF ReportsInv, DebriefsOK, IsContent
  <2>5. /\ baseline.id \in Talked /\ IsContent(baseline.content)
        /\ baseline.id \in DOMAIN debriefs \/ baseline.id <= erasedTo
    BY DEF ReadLatest, ReportsInv
  <2>6. Earlier(baseline.id, last)
    <3>1. CASE baseline.id \in DOMAIN debriefs
      <4>1. PICK k \in 1..Len(Ordered) : Ordered[k] = baseline.id
        BY <3>1, OrderedIs DEF ReportsInv
      <4>2. k < Len(Ordered)
        BY <1>1, <2>1, <4>1
      <4>. QED
        BY <2>2, <4>1, <4>2, OrderedIs DEF ReportsInv
    \* It was erased between the two queries: every session there is now is newer.
    <3>2. CASE baseline.id <= erasedTo
      <4>1. baseline.id < last
        BY <2>4, <2>5, <3>2, SessionsAreNumbers DEF ReportsInv
      <4>2. Started(baseline.id) <= Started(last) /\ Started(baseline.id) \in Nat /\ Started(last) \in Nat
        BY <2>4, <2>5, <4>1, SessionsAreNumbers
      <4>. QED
        BY <4>1, <4>2 DEF Earlier
    <3>. QED
      BY <2>5, <3>1, <3>2
  <2>7. Row(last).id = last /\ Row(last).content = debriefs[last]
    BY DEF Row
  <2>. HIDE DEF last
  <2>. QED
    BY <2>4, <2>5, <2>6, <2>7, ProofsAreHonest
<1>2. proof' = IF DOMAIN debriefs = {} \/ last = baseline.id THEN NoProof ELSE <<baseline, Row(last)>>
  BY DEF ReadLatest
<1>. HIDE DEF last
<1>3. proof' # NoProof => HonestProof(proof'[1], proof'[2])
  BY <1>1, <1>2
<1>4. DebriefsOK' /\ erasedTo' \in Nat /\ reader' # "latest"
  BY DEF ReadLatest, ReportsInv, DebriefsOK
<1>. QED
  BY <1>3, <1>4 DEF ReportsInv

\* The snapshot leaves the proof and its rows alone.
LEMMA SnapshotKeeps ==
    ASSUME ReportsInv, ReadTrend \/ ReadErrors
    PROVE  ReportsInv'
<1>1. UNCHANGED <<debriefs, erasedTo, baseline, proof>> /\ reader' # "latest"
  BY DEF ReadTrend, ReadErrors
<1>. QED
  BY <1>1 DEF ReportsInv, DebriefsOK

LEMMA ReportsStep == ReportsInv /\ [ReportsNext]_reportVars => ReportsInv'
<1>. SUFFICES ASSUME ReportsInv, [ReportsNext]_reportVars PROVE ReportsInv'
  OBVIOUS
<1>1. CASE UNCHANGED reportVars
  BY <1>1 DEF ReportsInv, DebriefsOK, reportVars
<1>2. ASSUME NEW s \in Talked, NEW c \in Contents, StoreDebrief(s, c) PROVE ReportsInv'
  BY <1>2, StoreDebriefKeeps
<1>3. ASSUME NEW s \in Talked, EraseHistory(s) PROVE ReportsInv'
  BY <1>3, EraseHistoryKeeps
<1>. QED
  BY <1>1, <1>2, <1>3, ReadBaselineKeeps, ReadLatestKeeps, SnapshotKeeps DEF ReportsNext

\* A trend that is read is that of the latest sessions, in their order.
LEMMA TrendsRunForward ==
    ASSUME DebriefsOK, ReadTrend
    PROVE  Forward(trend')
<1>. DEFINE n == Len(Ordered)
            m == IF TrendPoints < n THEN TrendPoints ELSE n
            newest == NewestSessions(TrendPoints)
<1>1. n \in Nat /\ m \in Nat /\ m <= n
  BY OrderedIs, ReportsAssumption
<1>2. newest = [k \in 1..m |-> Ordered[n + 1 - k]]
  BY DEF NewestSessions
<1>3. trend' = [k \in 1..Len(newest) |-> newest[Len(newest) + 1 - k]]
  BY DEF ReadTrend
<1>. HIDE DEF newest, m, n
<1>4. Len(newest) = m
  BY <1>1, <1>2
<1>5. Len(trend') = m
  BY <1>1, <1>3, <1>4
<1>6. ASSUME NEW k \in 1..m
      PROVE  n - m + k \in 1..n /\ trend'[k] = Ordered[n - m + k]
  <2>1. m + 1 - k \in 1..m /\ n + 1 - (m + 1 - k) = n - m + k /\ n - m + k \in 1..n
    BY <1>1
  <2>2. trend'[k] = newest[m + 1 - k]
    BY <1>3, <1>4
  <2>3. newest[m + 1 - k] = Ordered[n + 1 - (m + 1 - k)]
    BY <1>2, <2>1
  <2>. QED
    BY <2>1, <2>2, <2>3
<1>7. \A i, j \in 1..n : i < j => Earlier(Ordered[i], Ordered[j])
  BY OrderedIs DEF n
<1>8. ASSUME NEW i \in 1..m, NEW j \in 1..m, i < j PROVE Earlier(trend'[i], trend'[j])
  <2>1. n - m + i < n - m + j
    BY <1>1, <1>8
  <2>. QED
    BY <1>6, <1>7, <2>1
<1>9. ASSUME NEW s \in DOMAIN debriefs
      PROVE  \/ \E i \in 1..m : trend'[i] = s
             \/ \A i \in 1..m : Earlier(s, trend'[i])
  <2>1. PICK k \in 1..n : Ordered[k] = s
    BY OrderedIs DEF n
  <2>2. CASE k <= n - m
    <3>. SUFFICES ASSUME NEW i \in 1..m PROVE Earlier(s, trend'[i])
      OBVIOUS
    <3>1. k < n - m + i
      BY <1>1, <2>1, <2>2
    <3>. QED
      BY <1>6, <1>7, <2>1, <3>1
  <2>3. CASE k > n - m
    <3>1. k - (n - m) \in 1..m /\ n - m + (k - (n - m)) = k
      BY <1>1, <2>1, <2>3
    <3>2. trend'[k - (n - m)] = s
      BY <1>6, <2>1, <3>1
    <3>. QED
      BY <3>1, <3>2
  <2>. QED
    BY <1>1, <2>1, <2>2, <2>3
<1>. QED
  BY <1>5, <1>8, <1>9 DEF Forward

\* Whatever the sessions, their starts and their debriefs, and whatever is stored or
\* erased between the queries: a proof never runs backwards, says one thing of each
\* type and hides neither a regression nor a gain; the trend is that of the latest
\* sessions in their order; a recurring error comes once, with its latest correction
\* (proof/service.py, proof/repository.py, progress/service.py, progress/repository.py).
THEOREM ReportsStayHonest == ReportsSpec => HonestReports
<1>1. ReportsInit => ReportsInv
  BY ReportsInvInit
<1>2. ReportsInv /\ [ReportsNext]_reportVars => ReportsInv'
  BY ReportsStep
<1>. DEFINE Honest ==
       /\ proof' # NoProof => HonestProof(proof'[1], proof'[2])
       /\ trend' # trend => Forward(trend')
       /\ top' # top => /\ \A i \in 1..Len(top') : LatestCorrection(top'[i])
                        /\ \A i, j \in 1..Len(top') : i # j => top'[i].type # top'[j].type
<1>3. ReportsInv /\ ReportsInv' /\ [ReportsNext]_reportVars => [Honest]_reportVars
  <2>. SUFFICES ASSUME ReportsInv, ReportsInv', ReportsNext PROVE Honest
    OBVIOUS
  <2>1. proof' # NoProof => HonestProof(proof'[1], proof'[2])
    BY DEF ReportsInv
  <2>2. trend' # trend => Forward(trend')
    <3>1. trend' # trend => ReadTrend
      BY DEF ReportsNext, StoreDebrief, EraseHistory, ReadBaseline, ReadLatest, ReadErrors
    <3>. QED
      BY <3>1, TrendsRunForward DEF ReportsInv
  <2>3. ASSUME top' # top
        PROVE  /\ \A i \in 1..Len(top') : LatestCorrection(top'[i])
               /\ \A i, j \in 1..Len(top') : i # j => top'[i].type # top'[j].type
    <3>1. ReadErrors
      BY <2>3 DEF ReportsNext, StoreDebrief, EraseHistory, ReadBaseline, ReadLatest, ReadTrend
    <3>2. PICK q \in NewestFirst : top' = Recurring(q)
      BY <3>1 DEF ReadErrors
    <3>3. /\ \A i \in 1..Len(Recurring(q)) : LatestCorrection(Recurring(q)[i])
          /\ \A i, j \in 1..Len(Recurring(q)) : i # j => Recurring(q)[i].type # Recurring(q)[j].type
      BY RecurringIs DEF ReportsInv
    <3>. QED
      BY <3>2, <3>3
  <2>. QED
    BY <2>1, <2>2, <2>3
<1>. QED
  BY <1>1, <1>2, <1>3, PTL DEF ReportsSpec, HonestReports

----------------------------------------------------------------------------
(* The erasure: its inductive invariant                                    *)

\* The kinds whose rows have all been deleted when purge has done k statements: no
\* request may add one behind the deletion.
Gone(k) == {kind \in Kinds :
              \/ kind = "vocabulary" /\ k >= 3
              \/ kind = "review" /\ k >= 4
              \/ kind \in {"transcript", "debrief", "session"} /\ k >= 5
              \/ kind = "mission" /\ k >= 6
              \/ kind = "event" /\ k >= 7
              \/ kind = "memory" /\ k >= 8
              \/ kind \in {"level", "streak"} /\ k >= 9
              \/ kind \in {"reply", "claim"} /\ k >= 10}

\* The user stays locked while purge runs, and nothing is deleted otherwise.
EraserInv == IF step = NotErasing THEN dropped = {} ELSE userLock = Eraser

GoneInv == /\ \A x \in speech : x[1] \in Gone(step) => x \in dropped
           /\ \A x \in dropped : x[1] = "memory" => step >= 8

\* A turn is alone in its session; its transcript's upsert keeps the session from deletion.
TurnAlone == \A r, o \in Requests :
    request[r].pc \in InTurn /\ request[o].pc \in InTurn /\ TalkOf(r) = TalkOf(o) => r = o
UpsertHolds == \A r \in Requests : Doing(r, "upserted") =>
    upserting[TalkOf(r)] = r /\ Exists(TalkOf(r)) /\ MayReferTo(TalkOf(r))

\* What a request of an erased talk may still store is accounted for as late.
LateInv == \A r \in Requests : TalkOf(r) \in erased =>
    /\ Pending(request[r].pc) \X {TalkOf(r)} \subseteq late
    /\ WillReply(r, TalkOf(r)) /\ KeyRows(TalkOf(r)) \cap speech # {} => <<"reply", TalkOf(r)>> \in late

ErasureInv == /\ ErasureTypeOK /\ EraserInv /\ GoneInv /\ TurnAlone /\ UpsertHolds
              /\ LateInv /\ SpeechErased

Pcs == {"idle", "claimed", "turn", "upserted", "replied", "releasing", "debrief", "flushed", "saved",
        "captured", "scheduled", "compiling", "placing"}
RequestState == [pc : Pcs, talk : Talks, nudge : BOOLEAN, keyed : BOOLEAN]

\* The statements of purge and the kinds of rows.
LEMMA OrderFacts ==
  /\ Len(EraseOrder) = 10
  /\ EraseOrder[1] = "transcript" /\ EraseOrder[2] = "debrief" /\ EraseOrder[3] = "vocabulary"
  /\ EraseOrder[4] = "review" /\ EraseOrder[5] = "session" /\ EraseOrder[6] = "mission"
  /\ EraseOrder[7] = "event" /\ EraseOrder[8] = "memory" /\ EraseOrder[9] = "stats"
  /\ EraseOrder[10] = "reply"
BY DEF EraseOrder

LEMMA KindFacts ==
  Kinds = {"transcript", "debrief", "vocabulary", "review", "session", "mission", "event",
           "memory", "level", "streak", "reply", "claim"}
<1> DEFINE all == {"transcript", "debrief", "vocabulary", "review", "session", "mission", "event",
                   "memory", "level", "streak", "reply", "claim"}
           plain == {"transcript", "debrief", "vocabulary", "review", "session", "mission", "event", "memory"}
<1>1. /\ \A kind \in plain : Covers(kind) = {kind}
      /\ Covers("stats") = {"level", "streak"} /\ Covers("reply") = {"reply", "claim"}
  BY DEF Covers
<1>2. \A i \in 1 .. 10 : Covers(EraseOrder[i]) \subseteq all
  BY <1>1, OrderFacts
<1>3. \A kind \in all : \E i \in 1 .. 10 : kind \in Covers(EraseOrder[i])
  <2> SUFFICES ASSUME NEW kind \in all PROVE \E i \in 1 .. 10 : kind \in Covers(EraseOrder[i])
    OBVIOUS
  <2>1. \A i \in 1 .. 8 : i \in 1 .. 10
    OBVIOUS
  <2>2. CASE kind \in plain
    <3>1. \E i \in {1, 2, 3, 4, 5, 6, 7, 8} : EraseOrder[i] = kind
      BY <2>2, OrderFacts
    <3>. QED
      BY <1>1, <2>2, <3>1
  <2>3. CASE kind \in {"level", "streak"}
    BY <1>1, <2>3, OrderFacts
  <2>4. CASE kind \in {"reply", "claim"}
    BY <1>1, <2>4, OrderFacts
  <2>. QED
    BY <2>2, <2>3, <2>4
<1>4. Kinds = UNION {Covers(EraseOrder[i]) : i \in 1 .. 10}
  BY OrderFacts DEF Kinds
<1> HIDE DEF all, plain
<1>5. \A x : x \in Kinds <=> x \in all
  BY <1>2, <1>3, <1>4, Zenon
<1>. QED
  BY <1>5 DEF all

\* Each statement covers what has to be gone behind it.
LEMMA StatementCovers ==
  ASSUME NEW k \in 0 .. 9, NEW kind \in Gone(k + 1), kind \notin Gone(k)
  PROVE  \/ kind \in Covers(EraseOrder[k + 1])
         \/ EraseOrder[k + 1] = "session" /\ kind \in {"transcript", "debrief"}
<1>1. CASE k = 2
  BY <1>1, OrderFacts DEF Gone, Covers
<1>2. CASE k = 3
  BY <1>2, OrderFacts DEF Gone, Covers
<1>3. CASE k = 4
  BY <1>3, OrderFacts DEF Gone, Covers
<1>4. CASE k = 5
  BY <1>4, OrderFacts DEF Gone, Covers
<1>5. CASE k = 6
  BY <1>5, OrderFacts DEF Gone, Covers
<1>6. CASE k = 7
  BY <1>6, OrderFacts DEF Gone, Covers
<1>7. CASE k = 8
  BY <1>7, OrderFacts DEF Gone, Covers
<1>8. CASE k = 9
  BY <1>8, OrderFacts DEF Gone, Covers
<1>9. CASE k \in {0, 1}
  BY <1>9 DEF Gone
<1>. QED
  BY <1>1, <1>2, <1>3, <1>4, <1>5, <1>6, <1>7, <1>8, <1>9

\* When purge has done its last statement, nothing may be left.
LEMMA AllGone == Gone(10) = Kinds
<1>1. \A kind \in Kinds : kind \in Gone(10)
  BY KindFacts DEF Gone
<1>. QED
  BY <1>1 DEF Gone

\* Nothing has to be gone while no purge runs.
LEMMA NothingGone == Gone(NotErasing) = {} /\ Gone(0) = {}
BY DEF Gone, NotErasing

\* A request is a record; its steps keep its talk.
LEMMA RequestMoves ==
  ASSUME NEW q \in RequestState, NEW p \in Pcs
  PROVE  LET r == [q EXCEPT !.pc = p]
         IN  r \in RequestState /\ r.pc = p /\ r.talk = q.talk
BY DEF RequestState

\* A request that is over.
LEMMA NoRequestFacts == NoRequest \in RequestState /\ NoRequest.pc = "idle"
<1>1. (CHOOSE t \in Talks : TRUE) \in Talks
  BY ErasureAssumption
<1>. QED
  BY <1>1 DEF NoRequest, RequestState, Pcs

\* A request that begins leaves the others as they were.
LEMMA Beginning ==
  ASSUME ErasureTypeOK, NEW r \in Requests, NEW t \in Talks, NEW p \in Pcs,
         NEW n \in BOOLEAN, NEW k \in BOOLEAN, Starts(r, p, t, n, k)
  PROVE  /\ request' \in [Requests -> RequestState]
         /\ request'[r].pc = p /\ request'[r].talk = t
         /\ \A o \in Requests : o # r => request'[o] = request[o]
<1>1. request \in [Requests -> RequestState]
  BY DEF ErasureTypeOK, RequestState, Pcs
<1> DEFINE new == [pc |-> p, talk |-> t, nudge |-> n, keyed |-> k]
<1>2. new \in RequestState /\ new.pc = p /\ new.talk = t
  BY DEF RequestState
<1>3. request' = [request EXCEPT ![r] = new]
  BY DEF Starts
<1> HIDE DEF new
<1>. QED
  BY <1>1, <1>2, <1>3

\* A request that goes on leaves the others, and its own talk, as they were.
LEMMA Proceeding ==
  ASSUME ErasureTypeOK, NEW r \in Requests,
         NEW p \in Pcs, Proceeds(r, p)
  PROVE  /\ request' \in [Requests -> RequestState]
         /\ request'[r].pc = p /\ request'[r].talk = request[r].talk
         /\ \A o \in Requests : o # r => request'[o] = request[o]
<1>1. request \in [Requests -> RequestState]
  BY DEF ErasureTypeOK, RequestState, Pcs
<1>2. request' = [request EXCEPT ![r] = [@ EXCEPT !.pc = p]]
  BY DEF Proceeds
<1> DEFINE new == [request[r] EXCEPT !.pc = p]
<1>3. new \in RequestState /\ new.pc = p /\ new.talk = request[r].talk
  BY <1>1, RequestMoves
<1>4. request' = [request EXCEPT ![r] = new]
  BY <1>2
<1> HIDE DEF new
<1>. QED
  BY <1>1, <1>3, <1>4

\* A request that ends leaves the others as they were.
LEMMA Ending ==
  ASSUME ErasureTypeOK, NEW r \in Requests, Ends(r)
  PROVE  /\ request' \in [Requests -> RequestState]
         /\ request'[r].pc = "idle"
         /\ \A o \in Requests : o # r => request'[o] = request[o]
<1>1. request \in [Requests -> RequestState]
  BY DEF ErasureTypeOK, RequestState, Pcs
<1>2. request' = [request EXCEPT ![r] = NoRequest]
  BY DEF Ends
<1>. QED
  BY <1>1, <1>2, NoRequestFacts

\* A turn that gives up is over, but for the release of its key.
LEMMA GivingUp ==
  ASSUME ErasureTypeOK, NEW r \in Requests, GivesUp(r)
  PROVE  /\ request' \in [Requests -> RequestState]
         /\ request'[r].pc \in {"idle", "releasing"}
         /\ \A o \in Requests : o # r => request'[o] = request[o]
<1>1. CASE request[r].keyed
  <2>1. Proceeds(r, "releasing") /\ "releasing" \in Pcs
    BY <1>1 DEF GivesUp, Pcs
  <2>. QED
    BY <2>1, Proceeding
<1>2. CASE ~request[r].keyed
  BY <1>2, Ending DEF GivesUp
<1>. QED
  BY <1>1, <1>2

\* While a turn or a debrief can still refer to an existing session, purge has not
\* deleted the sessions.
LEMMA SessionKept ==
  ASSUME GoneInv, ErasureTypeOK, NEW t \in Talks, Exists(t), MayReferTo(t)
  PROVE  step < 5 /\ step \in Int
<1>1. step \in {-1} \cup 0 .. 10
  BY OrderFacts DEF ErasureTypeOK, NotErasing
<1>2. "session" \notin Gone(step)
  BY DEF GoneInv, Exists, MayReferTo
<1>3. ~(step >= 5)
  BY <1>2, KindFacts DEF Gone
<1>. QED
  BY <1>1, <1>3

\* A purge that has not begun, or not yet deleted the sessions, asks for few kinds.
LEMMA FewGone ==
  ASSUME NEW k \in Int
  PROVE  /\ k < 5 => Gone(k) \subseteq {"vocabulary", "review"}
         /\ k < 3 => Gone(k) = {}
BY DEF Gone

----------------------------------------------------------------------------
(* The erasure: what the steps of the requests preserve                    *)

\* What the type says of the parts.
LEMMA ErasureTypes ==
  ASSUME ErasureTypeOK
  PROVE  /\ request \in [Requests -> RequestState] /\ \A r \in Requests : TalkOf(r) \in Talks
         /\ step \in {NotErasing} \cup 0 .. 10 /\ step \in Int
         /\ speech \subseteq Kinds \X Talks /\ dropped \subseteq speech
         /\ upserting \in [Talks -> Requests \cup {Nobody}]
<1>1. request \in [Requests -> RequestState]
  BY DEF ErasureTypeOK, RequestState, Pcs
<1>2. \A r \in Requests : TalkOf(r) \in Talks
  BY <1>1 DEF TalkOf, RequestState
<1>3. step \in {NotErasing} \cup 0 .. 10 /\ step \in Int
  BY OrderFacts DEF ErasureTypeOK, NotErasing
<1>. QED
  BY <1>1, <1>2, <1>3 DEF ErasureTypeOK

\* Nobody holds the lock on the user: no purge runs.
LEMMA NoPurgeRuns ==
  ASSUME EraserInv, userLock = Nobody
  PROVE  step = NotErasing /\ dropped = {} /\ Gone(step) = {}
BY ErasureAssumption, NothingGone DEF EraserInv

\* Which requests have something left to store after an erasure of their talk.
LEMMA PendingFacts ==
  /\ \A pc \in InTurn \cup {"idle", "claimed", "releasing", "debrief", "flushed"} : Pending(pc) = {}
  /\ Pending("compiling") = {"mission", "event"} /\ Pending("placing") = {"level"}
  /\ Pending("saved") = {"review", "event"} /\ Pending("captured") = {"review", "event"}
  /\ Pending("scheduled") = {"event"}
BY DEF Pending, InTurn

LEMMA PendingIsLate == \A pc : Pending(pc) \subseteq LateKinds
BY DEF Pending, LateKinds

\* A session that is there has not been erased, nor what refers to it.
LEMMA NotErasedYet ==
  ASSUME SpeechErased, NEW kind, NEW t, <<kind, t>> \in speech, kind \notin LateKinds \cup {"claim"}
  PROVE  t \notin erased
BY DEF SpeechErased

\* What may be stored of a talk.
MayBeStored(x) == x[2] \in erased => x[1] = "claim" \/ (x[1] \in LateKinds /\ x \in late)

\* Rows are added whose kind is not gone yet, about a talk that is not erased, or late.
LEMMA SpeechGrows ==
  ASSUME GoneInv, SpeechErased, step' = step, dropped' = dropped, erased' = erased,
         late \subseteq late',
         \A x \in speech' : x \in speech \/ (x[1] \notin Gone(step) /\ MayBeStored(x))
  PROVE  GoneInv' /\ SpeechErased'
<1>1. GoneInv'
  BY DEF GoneInv
<1>2. SpeechErased'
  BY DEF SpeechErased, MayBeStored
<1>. QED
  BY <1>1, <1>2

\* No key is claimed, and the request that moves on has less left to store.
LEMMA LateStands ==
  ASSUME LateInv, NEW r \in Requests, erased' = erased, late' = late,
         \A o \in Requests : o # r => request'[o] = request[o],
         \A t : KeyRows(t) \cap speech' # {} => KeyRows(t) \cap speech # {},
         \/ request'[r].talk \notin erased
         \/ /\ request'[r].pc # "replied"
            /\ \/ Pending(request'[r].pc) = {}
               \/ /\ request'[r].talk = request[r].talk
                  /\ Pending(request'[r].pc) \subseteq Pending(request[r].pc)
  PROVE  LateInv'
<1> SUFFICES ASSUME NEW o \in Requests, request'[o].talk \in erased
             PROVE  /\ Pending(request'[o].pc) \X {request'[o].talk} \subseteq late
                    /\ /\ request'[o].pc = "replied" /\ request'[o].keyed
                       /\ KeyRows(request'[o].talk) \cap speech' # {}
                       => <<"reply", request'[o].talk>> \in late
  BY DEF LateInv, TalkOf, WillReply, Doing, KeyRows
<1>1. CASE o # r
  <2>1. request'[o] = request[o]
    BY <1>1
  <2>. QED
    BY <2>1 DEF LateInv, TalkOf, WillReply, Doing
<1>2. CASE o = r
  <2>1. request'[r].pc # "replied"
    BY <1>2
  <2>2. CASE Pending(request'[r].pc) = {}
    BY <1>2, <2>1, <2>2
  <2>3. CASE /\ request'[r].talk = request[r].talk
             /\ Pending(request'[r].pc) \subseteq Pending(request[r].pc)
    <3>1. Pending(request[r].pc) \X {request[r].talk} \subseteq late
      BY <1>2, <2>3 DEF LateInv, TalkOf
    <3>. QED
      BY <1>2, <2>1, <2>3, <3>1
  <2>. QED
    BY <1>2, <2>2, <2>3
<1>. QED
  BY <1>1, <1>2

\* A request moves on: its session has no other turn for that.
LEMMA TurnsStand ==
  ASSUME TurnAlone,
         \A r \in Requests : request'[r].pc \in InTurn =>
            request[r].pc \in InTurn /\ request'[r].talk = request[r].talk
  PROVE  TurnAlone'
BY DEF TurnAlone, TalkOf, InTurn

\* The upserts in progress keep their row and their session.
LEMMA UpsertsStand ==
  ASSUME ErasureTypeOK, UpsertHolds,
         \A r \in Requests : request'[r].pc = "upserted" =>
            /\ request[r].pc = "upserted" /\ request'[r].talk = request[r].talk
            /\ upserting'[request[r].talk] = upserting[request[r].talk],
         \A t \in Talks : Exists(t) /\ MayReferTo(t) => (Exists(t) /\ MayReferTo(t))'
  PROVE  UpsertHolds'
BY ErasureTypes DEF UpsertHolds, Doing, TalkOf, Exists, MayReferTo

\* A session starts while no purge runs.
LEMMA StartKeeps ==
  ASSUME ErasureInv, NEW t \in Talks, StartTalk(t)
  PROVE  ErasureInv'
<1>1. /\ t \notin opened /\ MayLockUser /\ opened' = opened \cup {t}
      /\ speech' = speech \cup ({"session"} \X {t})
      /\ UNCHANGED <<eraser, locks, request>>
  BY DEF StartTalk, Add
<1>2. ErasureTypeOK /\ EraserInv /\ GoneInv /\ TurnAlone /\ UpsertHolds /\ LateInv /\ SpeechErased
  BY DEF ErasureInv
<1>3. step' = step /\ dropped' = dropped /\ erased' = erased /\ late' = late /\ userLock' = userLock
      /\ upserting' = upserting /\ request' = request
      /\ userWrite' = userWrite /\ profileLock' = profileLock
  BY <1>1 DEF eraser, locks
<1>4. Gone(step) = {}
  BY <1>1, <1>2, NoPurgeRuns DEF MayLockUser
<1>5. {"session"} \X {t} \subseteq Kinds \X Talks
  BY KindFacts
<1>6. ErasureTypeOK'
  BY <1>1, <1>2, <1>3, <1>5 DEF ErasureTypeOK
<1>7. EraserInv'
  BY <1>2, <1>3 DEF EraserInv
<1>8. t \notin erased
  BY <1>1, <1>2 DEF ErasureTypeOK
<1>9. \A x \in speech' : x \in speech \/ x[2] = t
  BY <1>1
<1>10. GoneInv' /\ SpeechErased'
  BY <1>2, <1>3, <1>4, <1>8, <1>9, SpeechGrows DEF MayBeStored
<1>11. TurnAlone'
  BY <1>2, <1>3 DEF TurnAlone, TalkOf
<1>12. UpsertHolds'
  BY <1>1, <1>2, <1>3 DEF UpsertHolds, Doing, TalkOf, Exists, MayReferTo
<1>13. LateInv'
  <2>1. \A x : KeyRows(x) \cap speech' = KeyRows(x) \cap speech
    BY <1>1 DEF KeyRows
  <2>. QED
    BY <1>2, <1>3, <2>1 DEF LateInv, TalkOf, WillReply, Doing, KeyRows
<1>. QED
  BY <1>6, <1>7, <1>10, <1>11, <1>12, <1>13 DEF ErasureInv

\* A step of one request: it may store rows that no purge has passed by, about a
\* talk that is not erased, or late.
LEMMA RequestSteps ==
  ASSUME ErasureInv, NEW r \in Requests,
         request' \in [Requests -> RequestState],
         \A o \in Requests : o # r => request'[o] = request[o],
         request'[r].pc \in InTurn => request[r].pc \in InTurn /\ request'[r].talk = request[r].talk,
         request'[r].pc # "upserted",
         \A o \in Requests : o # r /\ Doing(o, "upserted") => upserting'[TalkOf(o)] = upserting[TalkOf(o)],
         upserting' \in [Talks -> Requests \cup {Nobody}],
         {userWrite', profileLock'} \subseteq Requests \cup {Eraser, Nobody},
         opened \subseteq opened', opened' \subseteq Talks,
         late \subseteq late', late' \subseteq LateKinds \X Talks, LateInv',
         UNCHANGED <<step, dropped, erased, userLock>>,
         speech' \subseteq Kinds \X Talks, dropped \subseteq speech',
         \A t \in Talks : Exists(t) => Exists(t)',
         \A x \in speech' : x \in speech \/ (x[1] \notin Gone(step) /\ MayBeStored(x))
  PROVE  ErasureInv'
<1>1. ErasureTypeOK /\ EraserInv /\ GoneInv /\ TurnAlone /\ UpsertHolds /\ SpeechErased
  BY DEF ErasureInv
<1>2. ErasureTypeOK'
  BY <1>1 DEF ErasureTypeOK, RequestState, Pcs
<1>3. EraserInv'
  BY <1>1 DEF EraserInv
<1>4. GoneInv' /\ SpeechErased'
  BY <1>1, SpeechGrows
<1>5. TurnAlone'
  BY <1>1, TurnsStand
<1>6. UpsertHolds'
  <2>1. \A o \in Requests : request'[o].pc = "upserted" =>
            /\ request[o].pc = "upserted" /\ request'[o].talk = request[o].talk
            /\ upserting'[request[o].talk] = upserting[request[o].talk]
    BY DEF Doing, TalkOf
  <2>2. \A t \in Talks : Exists(t) /\ MayReferTo(t) => (Exists(t) /\ MayReferTo(t))'
    BY DEF MayReferTo
  <2>. QED
    BY <1>1, <2>1, <2>2, UpsertsStand
<1>. QED
  BY <1>2, <1>3, <1>4, <1>5, <1>6 DEF ErasureInv

\* A step of one request that is in no turn after it, and that touches no upsert and
\* no lock that purge looks at.
LEMMA PlainStep ==
  ASSUME ErasureInv, NEW r \in Requests,
         request' \in [Requests -> RequestState],
         \A o \in Requests : o # r => request'[o] = request[o],
         request'[r].pc \notin InTurn,
         opened \subseteq opened', opened' \subseteq Talks,
         UNCHANGED <<eraser, userLock, upserting>>,
         {userWrite', profileLock'} \subseteq Requests \cup {Eraser, Nobody},
         speech' \subseteq Kinds \X Talks, dropped \subseteq speech',
         \A t \in Talks : Exists(t) => Exists(t)',
         \A t : KeyRows(t) \cap speech' # {} => KeyRows(t) \cap speech # {},
         \/ request'[r].talk \notin erased
         \/ Pending(request'[r].pc) = {}
         \/ /\ request'[r].talk = request[r].talk
            /\ Pending(request'[r].pc) \subseteq Pending(request[r].pc),
         \A x \in speech' : x \in speech \/ (x[1] \notin Gone(step) /\ MayBeStored(x))
  PROVE  ErasureInv'
<1>1. UNCHANGED <<step, dropped, erased, late, userLock>> /\ upserting' = upserting
  BY DEF eraser
<1>2. upserting' \in [Talks -> Requests \cup {Nobody}] /\ late' \subseteq LateKinds \X Talks
  BY <1>1, ErasureTypes DEF ErasureInv, ErasureTypeOK
<1>3. request'[r].pc # "upserted" /\ request'[r].pc # "replied"
  BY DEF InTurn
<1>4. LateInv'
  BY <1>1, <1>3, LateStands DEF ErasureInv
<1>. QED
  BY <1>1, <1>2, <1>3, <1>4, RequestSteps

\* A step that ends a request, or leaves it only a key to release, and stores nothing.
LEMMA EndingStep ==
  ASSUME ErasureInv, NEW r \in Requests,
         request' \in [Requests -> RequestState],
         \A o \in Requests : o # r => request'[o] = request[o],
         request'[r].pc \in {"idle", "claimed", "releasing"},
         \A o \in Requests : o # r /\ Doing(o, "upserted") => upserting'[TalkOf(o)] = upserting[TalkOf(o)],
         upserting' \in [Talks -> Requests \cup {Nobody}],
         {userWrite', profileLock'} \subseteq Requests \cup {Eraser, Nobody},
         UNCHANGED <<opened, speech, eraser, userLock>>
  PROVE  ErasureInv'
<1>1. ErasureTypeOK /\ LateInv
  BY DEF ErasureInv
<1>2. UNCHANGED <<step, dropped, erased, late, userLock>> /\ speech' = speech /\ opened' = opened
  BY DEF eraser
<1>3. request'[r].pc \notin InTurn /\ request'[r].pc # "replied" /\ request'[r].pc # "upserted"
  BY DEF InTurn
<1>4. Pending(request'[r].pc) = {}
  BY PendingFacts
<1>5. LateInv'
  BY <1>1, <1>2, <1>3, <1>4, LateStands
<1>6. /\ opened \subseteq opened' /\ opened' \subseteq Talks /\ late' \subseteq LateKinds \X Talks
      /\ speech' \subseteq Kinds \X Talks /\ dropped \subseteq speech'
  BY <1>1, <1>2 DEF ErasureTypeOK
<1>7. \A t \in Talks : Exists(t) => Exists(t)'
  BY <1>2 DEF Exists
<1>. QED
  BY <1>2, <1>3, <1>5, <1>6, <1>7, RequestSteps

\* A mission or a placement begins, of a talk of its own.
LEMMA BeginKeeps ==
  ASSUME ErasureInv, NEW r \in Requests, NEW t \in Talks, BeginMission(r, t) \/ BeginPlacement(r, t)
  PROVE  ErasureInv'
<1>1. PICK p \in {"compiling", "placing"} : Begin(r, t, p)
  BY DEF BeginMission, BeginPlacement
<1>2. /\ t \notin opened /\ opened' = opened \cup {t}
      /\ Starts(r, p, t, FALSE, FALSE)
      /\ UNCHANGED <<speech, eraser, locks>>
  BY <1>1 DEF Begin
<1>3. ErasureTypeOK
  BY DEF ErasureInv
<1>4. p \in Pcs /\ p \notin InTurn
  BY DEF Pcs, InTurn
<1>5. /\ request' \in [Requests -> RequestState] /\ request'[r].pc = p /\ request'[r].talk = t
      /\ \A o \in Requests : o # r => request'[o] = request[o]
  BY <1>2, <1>3, <1>4, Beginning
<1>6. /\ UNCHANGED <<eraser, userLock, upserting>> /\ speech' = speech
      /\ userWrite' = userWrite /\ profileLock' = profileLock
  BY <1>2 DEF locks
<1>7. t \notin erased /\ opened \subseteq opened' /\ opened' \subseteq Talks
  BY <1>2, <1>3 DEF ErasureTypeOK
<1>8. {userWrite', profileLock'} \subseteq Requests \cup {Eraser, Nobody}
  BY <1>3, <1>6 DEF ErasureTypeOK
<1>. QED
  BY <1>3, <1>4, <1>5, <1>6, <1>7, <1>8, PlainStep DEF ErasureTypeOK, Exists

\* A compiled mission and a placed level are stored while no purge holds the user, and
\* are late if their talk has been erased.
LEMMA AnswerKeeps ==
  ASSUME ErasureInv, NEW r \in Requests, StoreMission(r) \/ StoreLevel(r)
  PROVE  ErasureInv'
<1>0. PICK t \in Talks : t = TalkOf(r)
  BY ErasureTypes DEF ErasureInv
<1>1. PICK kind \in {"mission", "level"} :
        /\ kind \in Pending(request[r].pc) /\ userLock = Nobody
        /\ Ends(r) \/ (Proceeds(r, "scheduled") /\ "event" \in Pending(request[r].pc))
        /\ \/ speech' = speech
           \/ speech' = speech \cup {<<kind, t>>}
           \/ speech' = {x \in speech : x[1] # "level"} \cup {<<kind, t>>}
        /\ UNCHANGED <<opened, eraser, locks>>
  <2>1. CASE StoreMission(r)
    <3>1. /\ Pending(request[r].pc) = {"mission", "event"} /\ userLock = Nobody
          /\ Ends(r) \/ Proceeds(r, "scheduled")
          /\ speech' = speech \cup {<<"mission", t>>}
          /\ UNCHANGED <<opened, eraser, locks>>
      BY <1>0, <2>1, PendingFacts DEF StoreMission, Doing, MayReferToUser, Add
    <3>. QED
      BY <3>1
  <2>2. CASE StoreLevel(r)
    <3>1. /\ Pending(request[r].pc) = {"level"} /\ userLock = Nobody /\ Ends(r)
          /\ \/ speech' = {x \in speech : x[1] # "level"} \cup {<<"level", t>>}
             \/ speech' = speech
          /\ UNCHANGED <<opened, eraser, locks>>
      BY <1>0, <2>2, PendingFacts DEF StoreLevel, Doing, MayLockUser
    <3>. QED
      BY <3>1
  <2>. QED
    BY <2>1, <2>2
<1>2. ErasureTypeOK /\ EraserInv /\ GoneInv /\ LateInv
  BY DEF ErasureInv
<1>3. /\ request' \in [Requests -> RequestState]
      /\ \/ request'[r].pc = "idle"
         \/ /\ request'[r].pc = "scheduled" /\ request'[r].talk = request[r].talk
            /\ "event" \in Pending(request[r].pc)
      /\ \A o \in Requests : o # r => request'[o] = request[o]
  <2>1. "scheduled" \in Pcs
    BY DEF Pcs
  <2>. QED
    BY <1>1, <1>2, <2>1, Ending, Proceeding
<1>4. /\ request'[r].pc \notin InTurn
      /\ \/ Pending(request'[r].pc) = {}
         \/ /\ request'[r].talk = request[r].talk
            /\ Pending(request'[r].pc) \subseteq Pending(request[r].pc)
  BY <1>3, PendingFacts DEF InTurn
<1>5. Gone(step) = {} /\ dropped = {}
  BY <1>1, <1>2, NoPurgeRuns
<1>6. t \in erased => <<kind, t>> \in late
  BY <1>0, <1>1, <1>2 DEF LateInv
<1>7. \A x \in speech' : x \in speech \/ x = <<kind, t>>
  BY <1>1
<1>8. \A x \in speech' : x \in speech \/ (x[1] \notin Gone(step) /\ MayBeStored(x))
  BY <1>5, <1>6, <1>7 DEF MayBeStored, LateKinds
<1>9. speech' \subseteq Kinds \X Talks /\ dropped \subseteq speech'
  <2>1. <<kind, t>> \in Kinds \X Talks
    BY KindFacts
  <2>. QED
    BY <1>2, <1>5, <1>7, <2>1 DEF ErasureTypeOK
<1>10. \A x \in Talks : Exists(x) => Exists(x)'
  BY <1>1 DEF Exists
<1>11. \A x : KeyRows(x) \cap speech' # {} => KeyRows(x) \cap speech # {}
  <2>1. \A x : <<kind, t>> \notin KeyRows(x)
    BY DEF KeyRows
  <2>. QED
    BY <1>7, <2>1
<1>12. /\ opened \subseteq opened' /\ opened' \subseteq Talks
       /\ UNCHANGED <<eraser, userLock, upserting>>
       /\ {userWrite', profileLock'} \subseteq Requests \cup {Eraser, Nobody}
  BY <1>1, <1>2 DEF locks, ErasureTypeOK
<1>. QED
  BY <1>3, <1>4, <1>8, <1>9, <1>10, <1>11, <1>12, PlainStep

\* A turn without a key begins.
LEMMA BeginTurnKeeps ==
  ASSUME ErasureInv, NEW r \in Requests, NEW t \in Talks, BeginTurn(r, t)
  PROVE  ErasureInv'
<1>1. /\ Starts(r, "claimed", t, FALSE, FALSE)
      /\ UNCHANGED <<speech, opened, eraser, locks>>
  BY DEF BeginTurn
<1>2. ErasureTypeOK /\ "claimed" \in Pcs
  BY DEF ErasureInv, Pcs
<1>3. /\ request' \in [Requests -> RequestState] /\ request'[r].pc = "claimed"
      /\ \A o \in Requests : o # r => request'[o] = request[o]
  BY <1>1, <1>2, Beginning
<1>4. /\ UNCHANGED <<opened, speech, eraser, userLock>> /\ upserting' = upserting
      /\ userWrite' = userWrite /\ profileLock' = profileLock
  BY <1>1 DEF locks
<1>5. /\ upserting' \in [Talks -> Requests \cup {Nobody}]
      /\ {userWrite', profileLock'} \subseteq Requests \cup {Eraser, Nobody}
  BY <1>2, <1>4 DEF ErasureTypeOK
<1>. QED
  BY <1>3, <1>4, <1>5, EndingStep

\* A key is claimed: if its talk has been erased, the reply on its way is late.
LEMMA ClaimKeeps ==
  ASSUME ErasureInv, NEW r \in Requests, NEW t \in Talks, ClaimKey(r, t)
  PROVE  ErasureInv'
<1>1. /\ IF <<"claim", t>> \in speech THEN <<"claim", t>> \notin dropped ELSE userLock = Nobody
      /\ speech' = speech \cup {<<"claim", t>>}
      /\ late' = IF t \in erased /\ \E o \in Requests : WillReply(o, t)
                 THEN late \cup {<<"reply", t>>} ELSE late
      /\ Starts(r, "claimed", t, FALSE, TRUE)
      /\ UNCHANGED <<opened, step, dropped, erased, locks>>
  <2>1. {"claim"} \X {t} = {<<"claim", t>>}
    OBVIOUS
  <2>. QED
    BY <2>1, Zenon DEF ClaimKey, Add, MayReferToUser
<1>2. ErasureTypeOK /\ EraserInv /\ GoneInv /\ LateInv /\ "claimed" \in Pcs
  BY DEF ErasureInv, Pcs
<1>3. /\ request' \in [Requests -> RequestState] /\ request'[r].pc = "claimed"
      /\ \A o \in Requests : o # r => request'[o] = request[o]
  BY <1>1, <1>2, Beginning
<1>4. /\ UNCHANGED <<step, dropped, erased, userLock>> /\ upserting' = upserting
      /\ opened' = opened /\ userWrite' = userWrite /\ profileLock' = profileLock
  BY <1>1 DEF locks
<1>5. /\ upserting' \in [Talks -> Requests \cup {Nobody}] /\ opened \subseteq opened' /\ opened' \subseteq Talks
      /\ {userWrite', profileLock'} \subseteq Requests \cup {Eraser, Nobody}
  BY <1>2, <1>4 DEF ErasureTypeOK
<1>6. late \subseteq late' /\ late' \subseteq LateKinds \X Talks
  <2>1. late \subseteq LateKinds \X Talks
    BY <1>2 DEF ErasureTypeOK
  <2>2. <<"reply", t>> \in LateKinds \X Talks
    BY DEF LateKinds
  <2>. QED
    BY <1>1, <2>1, <2>2
<1>7. LateInv'
  <2> SUFFICES ASSUME NEW o \in Requests, request'[o].talk \in erased
               PROVE  /\ Pending(request'[o].pc) \X {request'[o].talk} \subseteq late'
                      /\ /\ request'[o].pc = "replied" /\ request'[o].keyed
                         /\ KeyRows(request'[o].talk) \cap speech' # {}
                         => <<"reply", request'[o].talk>> \in late'
    BY <1>4 DEF LateInv, TalkOf, WillReply, Doing, KeyRows
  <2>1. CASE o = r
    BY <1>3, <2>1, PendingFacts
  <2>2. CASE o # r
    <3>1. request'[o] = request[o]
      BY <1>3, <2>2
    <3>2. Pending(request[o].pc) \X {request[o].talk} \subseteq late
      BY <1>2, <3>1 DEF LateInv, TalkOf
    <3>3. CASE request[o].talk = t
      BY <1>1, <1>6, <3>1, <3>2, <3>3 DEF WillReply, Doing, TalkOf
    <3>4. CASE request[o].talk # t
      <4>1. KeyRows(request[o].talk) \cap speech' = KeyRows(request[o].talk) \cap speech
        BY <1>1, <3>4 DEF KeyRows
      <4>. QED
        BY <1>2, <1>6, <3>1, <3>2, <4>1 DEF LateInv, WillReply, Doing, TalkOf
    <3>. QED
      BY <3>3, <3>4
  <2>. QED
    BY <2>1, <2>2
<1>8. speech' \subseteq Kinds \X Talks /\ dropped \subseteq speech'
  <2>1. <<"claim", t>> \in Kinds \X Talks
    BY KindFacts
  <2>. QED
    BY <1>1, <1>2, <2>1 DEF ErasureTypeOK
<1>9. \A x \in Talks : Exists(x) => Exists(x)'
  BY <1>1 DEF Exists
<1>10. <<"claim", t>> \notin speech => Gone(step) = {}
  BY <1>1, <1>2, NoPurgeRuns
<1>11. \A x \in speech' : x \in speech \/ (x[1] \notin Gone(step) /\ MayBeStored(x))
  BY <1>1, <1>10 DEF MayBeStored
<1>12. request'[r].pc \notin InTurn /\ request'[r].pc # "upserted"
  BY <1>3 DEF InTurn
<1>. QED
  BY <1>3, <1>4, <1>5, <1>6, <1>7, <1>8, <1>9, <1>11, <1>12, RequestSteps

\* A turn takes its lock: its session is there and has no other turn in progress.
LEMMA PrepareKeeps ==
  ASSUME ErasureInv, NEW r \in Requests, PrepareTurn(r)
  PROVE  ErasureInv'
<1>0. PICK t \in Talks : t = TalkOf(r)
  BY ErasureTypes DEF ErasureInv
<1>1. /\ Doing(r, "claimed")
      /\ IF Exists(t) /\ \A o \in Requests : request[o].pc \in InTurn => TalkOf(o) # t
         THEN Proceeds(r, "turn") ELSE GivesUp(r)
      /\ UNCHANGED <<speech, opened, eraser, locks>>
  BY <1>0 DEF PrepareTurn
<1>2. ErasureTypeOK /\ EraserInv /\ GoneInv /\ TurnAlone /\ UpsertHolds /\ LateInv /\ SpeechErased
  BY DEF ErasureInv
<1>3. /\ UNCHANGED <<opened, speech, eraser, userLock>> /\ upserting' = upserting
      /\ userWrite' = userWrite /\ profileLock' = profileLock
      /\ UNCHANGED <<step, dropped, erased, late>>
  BY <1>1 DEF locks, eraser
<1>4. CASE Exists(t) /\ \A o \in Requests : request[o].pc \in InTurn => TalkOf(o) # t
  <2>1. /\ request' \in [Requests -> RequestState] /\ request'[r].pc = "turn" /\ request'[r].talk = t
        /\ \A o \in Requests : o # r => request'[o] = request[o]
    <3>1. Proceeds(r, "turn") /\ "turn" \in Pcs
      BY <1>1, <1>4 DEF Pcs
    <3>. QED
      BY <1>0, <1>2, <3>1, Proceeding DEF TalkOf
  <2>2. ErasureTypeOK'
    BY <1>2, <1>3, <2>1 DEF ErasureTypeOK, RequestState, Pcs
  <2>3. EraserInv' /\ GoneInv' /\ SpeechErased'
    BY <1>2, <1>3 DEF EraserInv, GoneInv, SpeechErased
  <2>4. TurnAlone'
    BY <1>2, <1>4, <2>1 DEF TurnAlone, TalkOf, InTurn
  <2>5. UpsertHolds'
    <3>1. \A o \in Requests : request'[o].pc = "upserted" =>
              /\ request[o].pc = "upserted" /\ request'[o].talk = request[o].talk
              /\ upserting'[request[o].talk] = upserting[request[o].talk]
      BY <1>3, <2>1
    <3>2. \A x \in Talks : Exists(x) /\ MayReferTo(x) => (Exists(x) /\ MayReferTo(x))'
      BY <1>3 DEF Exists, MayReferTo
    <3>. QED
      BY <1>2, <3>1, <3>2, UpsertsStand
  <2>6. LateInv'
    <3>1. "turn" \in InTurn
      BY DEF InTurn
    <3>2. Pending(request'[r].pc) = {} /\ request'[r].pc # "replied"
      BY <2>1, <3>1, PendingFacts
    <3>. QED
      BY <1>2, <1>3, <2>1, <3>2, LateStands
  <2>. QED
    BY <2>2, <2>3, <2>4, <2>5, <2>6 DEF ErasureInv
<1>5. CASE ~(Exists(t) /\ \A o \in Requests : request[o].pc \in InTurn => TalkOf(o) # t)
  <2>1. GivesUp(r)
    BY <1>1, <1>5
  <2>2. /\ request' \in [Requests -> RequestState] /\ request'[r].pc \in {"idle", "releasing"}
        /\ \A o \in Requests : o # r => request'[o] = request[o]
    BY <1>2, <2>1, GivingUp
  <2>3. /\ upserting' \in [Talks -> Requests \cup {Nobody}]
        /\ {userWrite', profileLock'} \subseteq Requests \cup {Eraser, Nobody}
    BY <1>2, <1>3 DEF ErasureTypeOK
  <2>. QED
    BY <1>3, <2>2, <2>3, EndingStep
<1>. QED
  BY <1>4, <1>5

\* The transcript is upserted under a session that is there, or the turn ends.
LEMMA UpsertKeeps ==
  ASSUME ErasureInv, NEW r \in Requests, UpsertTranscript(r)
  PROVE  ErasureInv'
<1>0. PICK t \in Talks : t = TalkOf(r)
  BY ErasureTypes DEF ErasureInv
<1>1. /\ Doing(r, "turn") /\ MayReferTo(t)
      /\ IF Exists(t)
         THEN Proceeds(r, "upserted") /\ upserting' = [upserting EXCEPT ![t] = r]
         ELSE GivesUp(r) /\ UNCHANGED upserting
      /\ UNCHANGED <<speech, opened, eraser, userLock, userWrite, profileLock>>
  BY <1>0 DEF UpsertTranscript
<1>2. ErasureTypeOK /\ EraserInv /\ GoneInv /\ TurnAlone /\ UpsertHolds /\ LateInv /\ SpeechErased
  BY DEF ErasureInv
<1>3. /\ UNCHANGED <<opened, step, dropped, erased, late, userLock>>
      /\ speech' = speech /\ userWrite' = userWrite /\ profileLock' = profileLock
  BY <1>1 DEF eraser
<1>4. CASE Exists(t)
  <2>1. /\ request' \in [Requests -> RequestState]
        /\ request'[r].pc = "upserted" /\ request'[r].talk = t
        /\ \A o \in Requests : o # r => request'[o] = request[o]
    <3>1. Proceeds(r, "upserted") /\ "upserted" \in Pcs
      BY <1>1, <1>4 DEF Pcs
    <3>. QED
      BY <1>0, <1>2, <3>1, Proceeding DEF TalkOf
  <2>2. /\ upserting' \in [Talks -> Requests \cup {Nobody}] /\ upserting'[t] = r
        /\ \A x \in Talks : x # t => upserting'[x] = upserting[x]
    BY <1>1, <1>2, <1>4, ErasureTypes
  <2>3. ErasureTypeOK'
    BY <1>2, <1>3, <2>1, <2>2 DEF ErasureTypeOK, RequestState, Pcs
  <2>4. EraserInv'
    BY <1>2, <1>3 DEF EraserInv
  <2>5. GoneInv' /\ SpeechErased'
    BY <1>2, <1>3, SpeechGrows
  <2>6. TurnAlone'
    BY <1>0, <1>1, <1>2, <2>1, TurnsStand DEF Doing, InTurn, TalkOf
  <2>7. UpsertHolds'
    <3> SUFFICES ASSUME NEW o \in Requests, request'[o].pc = "upserted"
                 PROVE  /\ upserting'[request'[o].talk] = o
                        /\ <<"session", request'[o].talk>> \in speech
                        /\ <<"session", request'[o].talk>> \notin dropped
      BY <1>3 DEF UpsertHolds, Doing, TalkOf, Exists, MayReferTo
    <3>1. CASE o = r
      BY <1>1, <1>4, <2>1, <2>2, <3>1 DEF Exists, MayReferTo
    <3>2. CASE o # r
      <4>1. /\ request'[o] = request[o] /\ request[o].pc = "upserted"
        BY <2>1, <3>2
      <4>2. request[o].talk # t
        BY <1>0, <1>1, <1>2, <3>2, <4>1 DEF TurnAlone, Doing, TalkOf, InTurn
      <4>3. request[o].talk \in Talks
        BY <1>2, ErasureTypes DEF TalkOf
      <4>. QED
        BY <1>2, <2>2, <4>1, <4>2, <4>3 DEF UpsertHolds, Doing, TalkOf, Exists, MayReferTo
    <3>. QED
      BY <3>1, <3>2
  <2>8. LateInv'
    <3>1. "upserted" \in InTurn
      BY DEF InTurn
    <3>2. Pending(request'[r].pc) = {} /\ request'[r].pc # "replied"
      BY <2>1, <3>1, PendingFacts
    <3>. QED
      BY <1>2, <1>3, <2>1, <3>2, LateStands
  <2>. QED
    BY <2>3, <2>4, <2>5, <2>6, <2>7, <2>8 DEF ErasureInv
<1>5. CASE ~Exists(t)
  <2>1. GivesUp(r) /\ upserting' = upserting
    BY <1>1, <1>5
  <2>2. /\ request' \in [Requests -> RequestState] /\ request'[r].pc \in {"idle", "releasing"}
        /\ \A o \in Requests : o # r => request'[o] = request[o]
    BY <1>2, <2>1, GivingUp
  <2>3. /\ upserting' \in [Talks -> Requests \cup {Nobody}]
        /\ {userWrite', profileLock'} \subseteq Requests \cup {Eraser, Nobody}
    BY <1>2, <1>3, <2>1 DEF ErasureTypeOK
  <2>. QED
    BY <1>1, <2>1, <2>2, <2>3, EndingStep
<1>. QED
  BY <1>4, <1>5

\* The turn is metered, or its metering fails: its session is there, and purge has
\* not come to the sessions.
LEMMA MeterKeeps ==
  ASSUME ErasureInv, NEW r \in Requests, MeterTurn(r) \/ MeterFails(r)
  PROVE  ErasureInv'
<1>0. PICK t \in Talks : t = TalkOf(r)
  BY ErasureTypes DEF ErasureInv
<1>1. /\ Doing(r, "upserted")
      /\ \/ MayLockUser /\ speech' = speech \cup ({"transcript", "streak"} \X {t})
         \/ speech' = speech \cup ({"transcript"} \X {t})
         \/ speech' = speech
      /\ upserting' = [upserting EXCEPT ![t] = Nobody]
      /\ Proceeds(r, "replied")
      /\ UNCHANGED <<opened, eraser, userLock, userWrite, profileLock>>
  BY <1>0 DEF MeterTurn, MeterFails, Add
<1>2. ErasureTypeOK /\ EraserInv /\ GoneInv /\ TurnAlone /\ UpsertHolds /\ LateInv /\ SpeechErased
  BY DEF ErasureInv
<1>3. UNCHANGED <<opened, step, dropped, erased, late, userLock, userWrite, profileLock>>
  BY <1>1 DEF eraser
<1>4. Exists(t) /\ MayReferTo(t) /\ t \notin erased
  BY <1>0, <1>1, <1>2, NotErasedYet DEF UpsertHolds, Exists, LateKinds
<1>5. /\ "transcript" \notin Gone(step)
      /\ MayLockUser => "streak" \notin Gone(step)
  <2>1. step < 5 /\ step \in Int
    BY <1>2, <1>4, SessionKept
  <2>2. Gone(step) \subseteq {"vocabulary", "review"}
    BY <2>1, FewGone
  <2>. QED
    BY <2>2
<1>6. /\ request' \in [Requests -> RequestState]
      /\ request'[r].pc = "replied" /\ request'[r].talk = request[r].talk
      /\ \A o \in Requests : o # r => request'[o] = request[o]
  <2>1. "replied" \in Pcs
    BY DEF Pcs
  <2>. QED
    BY <1>1, <1>2, <2>1, Proceeding
<1>7. /\ upserting' \in [Talks -> Requests \cup {Nobody}]
      /\ \A x \in Talks : x # t => upserting'[x] = upserting[x]
  BY <1>1, <1>2, ErasureTypes
<1>8. \A o \in Requests : o # r /\ Doing(o, "upserted") => upserting'[TalkOf(o)] = upserting[TalkOf(o)]
  <2>1. \A o \in Requests : o # r /\ Doing(o, "upserted") => TalkOf(o) # t /\ TalkOf(o) \in Talks
    BY <1>0, <1>1, <1>2, ErasureTypes DEF TurnAlone, Doing, InTurn
  <2>. QED
    BY <1>7, <2>1
<1>9. {"transcript", "streak"} \X {t} \subseteq Kinds \X Talks /\ {"transcript"} \X {t} \subseteq Kinds \X Talks
  BY KindFacts
<1>10. speech' \subseteq Kinds \X Talks /\ dropped \subseteq speech' /\ speech \subseteq speech'
  BY <1>1, <1>2, <1>9 DEF ErasureTypeOK
<1>11. \A x \in speech' : x \in speech \/ (x[1] \notin Gone(step) /\ MayBeStored(x))
  BY <1>1, <1>4, <1>5 DEF MayBeStored
<1>12. \A x \in Talks : Exists(x) => Exists(x)'
  BY <1>10 DEF Exists
<1>13. request[r].pc \in InTurn /\ {userWrite', profileLock'} \subseteq Requests \cup {Eraser, Nobody}
  BY <1>1, <1>2, <1>3 DEF Doing, InTurn, ErasureTypeOK
<1>14. LateInv'
  <2>1. \A x : KeyRows(x) \cap speech' = KeyRows(x) \cap speech
    BY <1>1 DEF KeyRows
  <2>2. request'[r].talk \notin erased
    BY <1>0, <1>4, <1>6 DEF TalkOf
  <2>. QED
    BY <1>2, <1>3, <1>6, <2>1, <2>2, LateStands
<1>15. opened \subseteq opened' /\ opened' \subseteq Talks /\ late \subseteq late' /\ late' \subseteq LateKinds \X Talks
  BY <1>2, <1>3 DEF ErasureTypeOK
<1>. QED
  BY <1>3, <1>6, <1>7, <1>8, <1>10, <1>11, <1>12, <1>13, <1>14, <1>15, RequestSteps

\* A step about a key of a talk: it leaves the key, or nothing, where there was one.
LEMMA KeySteps ==
  ASSUME ErasureInv, NEW r \in Requests, NEW t \in Talks, Ends(r), UNCHANGED <<opened, eraser, locks>>,
         KeyRows(t) \cap dropped = {},
         \/ speech' = speech \ KeyRows(t)
         \/ /\ speech' = (speech \ KeyRows(t)) \cup {<<"reply", t>>}
            /\ KeyRows(t) \cap speech # {}
            /\ t \in erased => <<"reply", t>> \in late
  PROVE  ErasureInv'
<1>1. ErasureTypeOK /\ GoneInv
  BY DEF ErasureInv
<1>2. /\ request' \in [Requests -> RequestState] /\ request'[r].pc = "idle"
      /\ \A o \in Requests : o # r => request'[o] = request[o]
  BY <1>1, Ending
<1>3. request'[r].pc \notin InTurn /\ Pending(request'[r].pc) = {}
  BY <1>2, PendingFacts DEF InTurn
<1>4. <<"reply", t>> \in Kinds \X Talks
  BY KindFacts
<1>5. speech' \subseteq Kinds \X Talks /\ dropped \subseteq speech'
  BY <1>1, <1>4 DEF ErasureTypeOK
<1>6. \A x \in Talks : Exists(x) => Exists(x)'
  BY DEF Exists, KeyRows
<1>7. KeyRows(t) \cap speech # {} => "reply" \notin Gone(step)
  <2> SUFFICES ASSUME NEW x \in KeyRows(t), x \in speech PROVE "reply" \notin Gone(step)
    OBVIOUS
  <2>1. x[1] \in {"claim", "reply"} /\ x[1] \notin Gone(step)
    BY <1>1 DEF GoneInv, KeyRows
  <2>2. ~(step >= 10)
    BY <2>1, KindFacts DEF Gone
  <2>. QED
    BY <2>2 DEF Gone
<1>8. \A x \in speech' : x \in speech \/ (x[1] \notin Gone(step) /\ MayBeStored(x))
  BY <1>7 DEF MayBeStored, LateKinds
<1>9. \A x : KeyRows(x) \cap speech' # {} => KeyRows(x) \cap speech # {}
  <2>1. \A x : <<"reply", t>> \in KeyRows(x) => x = t
    BY DEF KeyRows
  <2>. QED
    BY <2>1
<1>10. /\ opened \subseteq opened' /\ opened' \subseteq Talks
       /\ UNCHANGED <<eraser, userLock, upserting>>
       /\ {userWrite', profileLock'} \subseteq Requests \cup {Eraser, Nobody}
  BY <1>1 DEF locks, ErasureTypeOK
<1>. QED
  BY <1>2, <1>3, <1>5, <1>6, <1>8, <1>9, <1>10, PlainStep

\* The key of a turn is released.
LEMMA ReleaseKeeps ==
  ASSUME ErasureInv, NEW r \in Requests, ReleaseKey(r)
  PROVE  ErasureInv'
<1>1. TalkOf(r) \in Talks
  BY ErasureTypes DEF ErasureInv
<1>. QED
  BY <1>1, KeySteps DEF ReleaseKey

\* The key of a turn is completed if there is one: after an erasure it has been claimed
\* again, and the reply is late.
LEMMA CompleteKeeps ==
  ASSUME ErasureInv, NEW r \in Requests, CompleteKey(r)
  PROVE  ErasureInv'
<1>0. PICK t \in Talks : t = TalkOf(r)
  BY ErasureTypes DEF ErasureInv
<1>1. /\ Doing(r, "replied")
      /\ request[r].keyed => KeyRows(t) \cap dropped = {}
      /\ speech' = IF request[r].keyed /\ KeyRows(t) \cap speech # {}
                   THEN (speech \ KeyRows(t)) \cup {<<"reply", t>>} ELSE speech
      /\ Ends(r) /\ UNCHANGED <<opened, eraser, locks>>
  BY <1>0 DEF CompleteKey
<1>2. CASE request[r].keyed /\ KeyRows(t) \cap speech # {}
  <2>1. t \in erased => <<"reply", t>> \in late
    BY <1>0, <1>1, <1>2 DEF ErasureInv, LateInv, WillReply
  <2>2. KeyRows(t) \cap dropped = {} /\ speech' = (speech \ KeyRows(t)) \cup {<<"reply", t>>}
    BY <1>1, <1>2
  <2>. QED
    BY <1>1, <1>2, <2>1, <2>2, KeySteps
<1>3. CASE ~(request[r].keyed /\ KeyRows(t) \cap speech # {})
  <2>1. ErasureTypeOK
    BY DEF ErasureInv
  <2>2. /\ request' \in [Requests -> RequestState] /\ request'[r].pc = "idle"
        /\ \A o \in Requests : o # r => request'[o] = request[o]
    BY <1>1, <2>1, Ending
  <2>3. UNCHANGED <<opened, speech, eraser, userLock>> /\ upserting' = upserting
        /\ userWrite' = userWrite /\ profileLock' = profileLock
    BY <1>1, <1>3 DEF locks
  <2>4. /\ upserting' \in [Talks -> Requests \cup {Nobody}]
        /\ {userWrite', profileLock'} \subseteq Requests \cup {Eraser, Nobody}
    BY <2>1, <2>3 DEF ErasureTypeOK
  <2>. QED
    BY <2>2, <2>3, <2>4, EndingStep
<1>. QED
  BY <1>2, <1>3

\* A debrief begins.
LEMMA BeginDebriefKeeps ==
  ASSUME ErasureInv, NEW r \in Requests, NEW t \in Talks, BeginDebrief(r, t)
  PROVE  ErasureInv'
<1>1. /\ Starts(r, "debrief", t, TRUE, FALSE) \/ Starts(r, "debrief", t, FALSE, FALSE)
      /\ UNCHANGED <<speech, opened, eraser, locks>>
  BY DEF BeginDebrief
<1>2. ErasureTypeOK /\ "debrief" \in Pcs
  BY DEF ErasureInv, Pcs
<1>3. /\ request' \in [Requests -> RequestState] /\ request'[r].pc = "debrief"
      /\ \A o \in Requests : o # r => request'[o] = request[o]
  BY <1>1, <1>2, Beginning
<1>4. request'[r].pc \notin InTurn /\ Pending(request'[r].pc) = {}
  BY <1>3, PendingFacts DEF InTurn
<1>5. /\ UNCHANGED <<eraser, userLock, upserting>> /\ speech' = speech /\ opened' = opened
      /\ userWrite' = userWrite /\ profileLock' = profileLock
  BY <1>1 DEF locks
<1>. QED
  BY <1>2, <1>3, <1>4, <1>5, PlainStep DEF ErasureTypeOK, Exists

\* The flush of a debrief takes row locks and stores nothing yet.
LEMMA FlushKeeps ==
  ASSUME ErasureInv, NEW r \in Requests, FlushDebrief(r)
  PROVE  ErasureInv'
<1>1. /\ profileLock' = r /\ userWrite' \in {r, userWrite} /\ Proceeds(r, "flushed")
      /\ UNCHANGED <<speech, opened, eraser, userLock, upserting>>
  BY DEF FlushDebrief
<1>2. ErasureTypeOK /\ "flushed" \in Pcs
  BY DEF ErasureInv, Pcs
<1>3. /\ request' \in [Requests -> RequestState] /\ request'[r].pc = "flushed"
      /\ \A o \in Requests : o # r => request'[o] = request[o]
  BY <1>1, <1>2, Proceeding
<1>4. {userWrite', profileLock'} \subseteq Requests \cup {Eraser, Nobody}
  BY <1>1, <1>2 DEF ErasureTypeOK
<1>5. request'[r].pc \notin InTurn /\ Pending(request'[r].pc) = {}
  BY <1>3, PendingFacts DEF InTurn
<1>. QED
  BY <1>1, <1>2, <1>3, <1>4, <1>5, PlainStep DEF ErasureTypeOK, Exists

\* The commit of a debrief: under a session that is there and not deleted, it
\* replaces the memory before purge comes to it.
LEMMA DebriefCommitKeeps ==
  ASSUME ErasureInv, NEW r \in Requests, CommitDebrief(r)
  PROVE  ErasureInv'
<1>0. PICK t \in Talks : t = TalkOf(r)
  BY ErasureTypes DEF ErasureInv
<1> DEFINE kept == {x \in speech : x[1] # "memory"}
           new == ({"debrief", "memory"} \X {t}) \cup (IF request[r].nudge THEN {<<"level", t>>} ELSE {})
<1>1. /\ MayReferTo(t) /\ Freed(r)
      /\ IF Exists(t) THEN speech' = kept \cup new /\ Proceeds(r, "saved")
                      ELSE Ends(r) /\ speech' = speech
      /\ UNCHANGED <<opened, eraser, userLock, upserting>>
  BY <1>0 DEF CommitDebrief
<1>2. ErasureTypeOK /\ GoneInv /\ SpeechErased
  BY DEF ErasureInv
<1>3. {userWrite', profileLock'} \subseteq Requests \cup {Eraser, Nobody}
  BY <1>1, <1>2 DEF Freed, ErasureTypeOK
<1>4. /\ new \subseteq Kinds \X Talks
      /\ \A x \in new : x[1] \in {"debrief", "memory", "level"} /\ x[2] = t
  BY KindFacts
<1>5. \A x \in kept : x \in speech
  OBVIOUS
<1>6. \A x \in speech : x[1] = "memory" \/ x \in kept
  OBVIOUS
<1> HIDE DEF kept, new
<1>7. CASE Exists(t)
  <2>1. /\ request' \in [Requests -> RequestState]
        /\ request'[r].pc \notin InTurn /\ request'[r].talk = t
        /\ \A o \in Requests : o # r => request'[o] = request[o]
    <3>1. Proceeds(r, "saved") /\ "saved" \in Pcs
      BY <1>1, <1>7 DEF Pcs
    <3>. QED
      BY <1>0, <1>2, <3>1, Proceeding DEF InTurn, TalkOf
  <2>2. step < 5 /\ step \in Int /\ t \notin erased
    BY <1>1, <1>2, <1>7, SessionKept, NotErasedYet DEF Exists, LateKinds
  <2>3. Gone(step) \subseteq {"vocabulary", "review"}
    BY <2>2, FewGone
  <2>4. speech' = kept \cup new
    BY <1>1, <1>7
  <2>5. \A x \in dropped : x[1] # "memory"
    BY <1>2, <2>2 DEF GoneInv
  <2>6. speech' \subseteq Kinds \X Talks /\ dropped \subseteq speech'
    BY <1>2, <1>4, <1>5, <1>6, <2>4, <2>5 DEF ErasureTypeOK
  <2>7. \A x \in Talks : Exists(x) => Exists(x)'
    <3>1. \A x : <<"session", x>> \in speech => <<"session", x>> \in kept
      BY <1>6
    <3>. QED
      BY <2>4, <3>1 DEF Exists
  <2>8. \A x \in speech' : x \in speech \/ (x[1] \notin Gone(step) /\ MayBeStored(x))
    BY <1>4, <1>5, <2>2, <2>3, <2>4 DEF MayBeStored
  <2>9. \A x : KeyRows(x) \cap speech' # {} => KeyRows(x) \cap speech # {}
    <3>1. \A x \in new : \A k : x \notin KeyRows(k)
      BY <1>4 DEF KeyRows
    <3>. QED
      BY <1>5, <2>4, <3>1
  <2>10. opened \subseteq opened' /\ opened' \subseteq Talks
    BY <1>1, <1>2 DEF ErasureTypeOK
  <2>. QED
    BY <1>1, <1>3, <2>1, <2>2, <2>6, <2>7, <2>8, <2>9, <2>10, PlainStep
<1>8. CASE ~Exists(t)
  <2>1. /\ request' \in [Requests -> RequestState] /\ request'[r].pc = "idle"
        /\ \A o \in Requests : o # r => request'[o] = request[o]
    BY <1>1, <1>2, <1>8, Ending
  <2>2. UNCHANGED <<opened, speech, eraser, userLock>> /\ upserting' = upserting
    BY <1>1, <1>8
  <2>3. upserting' \in [Talks -> Requests \cup {Nobody}]
    BY <1>2, <2>2 DEF ErasureTypeOK
  <2>. QED
    BY <1>3, <2>1, <2>2, <2>3, EndingStep
<1>. QED
  BY <1>7, <1>8

\* The enrichment of a debrief: words only under a session that is there; review
\* items and events only while no purge holds the user.
LEMMA EnrichKeeps ==
  ASSUME ErasureInv, NEW r \in Requests,
         CaptureVocabulary(r) \/ ScheduleReviewOf(r) \/ EmitEvents(r)
  PROVE  ErasureInv'
<1>0. PICK t \in Talks : t = TalkOf(r)
  BY ErasureTypes DEF ErasureInv
<1>1. PICK next \in {"captured", "scheduled", "idle"} :
        /\ userLock = Nobody
        /\ Proceeds(r, next) \/ (next = "idle" /\ Ends(r))
        /\ Pending(next) \subseteq Pending(request[r].pc)
        /\ \/ speech' = speech
           \/ Exists(t) /\ speech' = speech \cup {<<"vocabulary", t>>}
           \/ \E kind \in Pending(request[r].pc) : speech' = speech \cup {<<kind, t>>}
        /\ UNCHANGED <<opened, eraser, locks>>
  <2>1. CASE CaptureVocabulary(r)
    BY <1>0, <2>1, PendingFacts DEF CaptureVocabulary, Doing, MayReferToUser, Add
  <2>2. CASE ScheduleReviewOf(r)
    BY <1>0, <2>2, PendingFacts DEF ScheduleReviewOf, Doing, MayReferToUser, Add
  <2>3. CASE EmitEvents(r)
    BY <1>0, <2>3, PendingFacts DEF EmitEvents, Doing, MayReferToUser, Add
  <2>. QED
    BY <2>1, <2>2, <2>3
<1>2. ErasureTypeOK /\ EraserInv /\ GoneInv /\ LateInv /\ SpeechErased
  BY DEF ErasureInv
<1>3. /\ request' \in [Requests -> RequestState] /\ request'[r].pc = next
      /\ next = "idle" \/ request'[r].talk = request[r].talk
      /\ \A o \in Requests : o # r => request'[o] = request[o]
  <2>1. next \in Pcs
    BY DEF Pcs
  <2>. QED
    BY <1>1, <1>2, <2>1, Proceeding, Ending
<1>4. /\ request'[r].pc \notin InTurn
      /\ \/ Pending(request'[r].pc) = {}
         \/ /\ request'[r].talk = request[r].talk
            /\ Pending(request'[r].pc) \subseteq Pending(request[r].pc)
  BY <1>1, <1>3, PendingFacts DEF InTurn
<1>5. Gone(step) = {} /\ (Exists(t) => t \notin erased)
  BY <1>1, <1>2, NoPurgeRuns, NotErasedYet DEF Exists, LateKinds
<1>6. \A x \in speech' : x \in speech \/ (Exists(t) /\ x = <<"vocabulary", t>>)
                          \/ \E kind \in Pending(request[r].pc) : x = <<kind, t>>
  BY <1>1
<1>7. \A kind \in Pending(request[r].pc) :
        kind \in LateKinds /\ (t \in erased => <<kind, t>> \in late)
  BY <1>0, <1>2, PendingIsLate DEF LateInv
<1>8. \A x \in speech' : x \in speech \/ (x[1] \notin Gone(step) /\ MayBeStored(x))
  BY <1>5, <1>6, <1>7 DEF MayBeStored
<1>9. \A kind \in Pending(request[r].pc) : kind \in Kinds /\ kind \notin {"claim", "reply"}
  BY KindFacts DEF Pending
<1>10. speech' \subseteq Kinds \X Talks /\ dropped \subseteq speech' /\ speech \subseteq speech'
  <2>1. <<"vocabulary", t>> \in Kinds \X Talks
    BY KindFacts
  <2>. QED
    BY <1>1, <1>2, <1>6, <1>9, <2>1 DEF ErasureTypeOK
<1>11. \A x : KeyRows(x) \cap speech' # {} => KeyRows(x) \cap speech # {}
  <2>1. \A x : <<"vocabulary", t>> \notin KeyRows(x)
    BY DEF KeyRows
  <2>2. \A x : \A kind \in Pending(request[r].pc) : <<kind, t>> \notin KeyRows(x)
    BY <1>9 DEF KeyRows
  <2>. QED
    BY <1>6, <2>1, <2>2
<1>12. /\ opened \subseteq opened' /\ opened' \subseteq Talks
       /\ UNCHANGED <<eraser, userLock, upserting>>
       /\ {userWrite', profileLock'} \subseteq Requests \cup {Eraser, Nobody}
  BY <1>1, <1>2 DEF locks, ErasureTypeOK
<1>13. \A x \in Talks : Exists(x) => Exists(x)'
  BY <1>10 DEF Exists
<1>. QED
  BY <1>3, <1>4, <1>8, <1>10, <1>11, <1>12, <1>13, PlainStep

\* A turn that fails and a request that dies are rolled back.
LEMMA FailKeeps ==
  ASSUME ErasureInv, NEW r \in Requests, TurnFails(r) \/ RequestDies(r)
  PROVE  ErasureInv'
<1>1. /\ upserting' = [t \in Talks |-> IF upserting[t] = r THEN Nobody ELSE upserting[t]]
      /\ profileLock' \in {Nobody, profileLock} /\ userWrite' \in {Nobody, userWrite}
      /\ GivesUp(r) \/ Ends(r)
      /\ UNCHANGED <<opened, speech, eraser, userLock>>
  BY DEF TurnFails, RequestDies, RolledBack
<1>2. ErasureTypeOK /\ UpsertHolds
  BY DEF ErasureInv
<1>3. /\ request' \in [Requests -> RequestState] /\ request'[r].pc \in {"idle", "releasing"}
      /\ \A o \in Requests : o # r => request'[o] = request[o]
  BY <1>1, <1>2, Ending, GivingUp
<1>4. upserting' \in [Talks -> Requests \cup {Nobody}]
  BY <1>1, <1>2, ErasureTypes
<1>5. \A o \in Requests : o # r /\ Doing(o, "upserted") => upserting'[TalkOf(o)] = upserting[TalkOf(o)]
  <2>1. \A o \in Requests : Doing(o, "upserted") => upserting[TalkOf(o)] = o /\ TalkOf(o) \in Talks
    BY <1>2, ErasureTypes DEF UpsertHolds
  <2>. QED
    BY <1>1, <2>1
<1>6. {userWrite', profileLock'} \subseteq Requests \cup {Eraser, Nobody}
  BY <1>1, <1>2 DEF ErasureTypeOK
<1>. QED
  BY <1>1, <1>3, <1>4, <1>5, <1>6, EndingStep

----------------------------------------------------------------------------
(* The erasure: the statements of purge                                    *)

\* purge begins with the lock on the user.
LEMMA BeginEraseKeeps ==
  ASSUME ErasureInv, BeginErase
  PROVE  ErasureInv'
<1>1. /\ step = NotErasing /\ step' = 0 /\ userLock' = Eraser
      /\ UNCHANGED <<speech, opened, dropped, userWrite, profileLock, upserting, request, erased, late>>
  BY DEF BeginErase
<1>2. ErasureTypeOK /\ EraserInv /\ GoneInv /\ TurnAlone /\ UpsertHolds /\ LateInv /\ SpeechErased
  BY DEF ErasureInv
<1>3. ErasureTypeOK'
  BY <1>1, <1>2, OrderFacts DEF ErasureTypeOK
<1>4. EraserInv'
  BY <1>1 DEF EraserInv, NotErasing
<1>5. dropped = {}
  BY <1>1, <1>2 DEF EraserInv
<1>6. GoneInv'
  BY <1>1, <1>5, NothingGone DEF GoneInv
<1>7. TurnAlone' /\ UpsertHolds' /\ LateInv' /\ SpeechErased'
  BY <1>1, <1>2 DEF TurnAlone, UpsertHolds, LateInv, SpeechErased, TalkOf, Doing, Exists, MayReferTo,
                    WillReply, KeyRows
<1>. QED
  BY <1>3, <1>4, <1>6, <1>7 DEF ErasureInv

\* A statement of purge: it deletes what its kind has, with the cascade of the
\* sessions, and waits for the upserts that hold a session.
LEMMA StatementKeeps ==
  ASSUME ErasureInv, EraseNext
  PROVE  ErasureInv'
<1>0. step \in 0 .. 9
  BY OrderFacts DEF EraseNext
<1>1. PICK kind : kind = EraseOrder[step + 1]
  OBVIOUS
<1>2. /\ ~EraseWaits(kind)
      /\ dropped' = dropped \cup Rows(kind) \cup Cascade(kind)
      /\ profileLock' \in {Eraser, profileLock} /\ step' = step + 1
      /\ UNCHANGED <<speech, opened, userLock, userWrite, upserting, request, erased, late>>
  BY <1>1 DEF EraseNext
<1>3. ErasureTypeOK /\ EraserInv /\ GoneInv /\ TurnAlone /\ UpsertHolds /\ LateInv /\ SpeechErased
  BY DEF ErasureInv
<1>4. Rows(kind) \subseteq speech /\ Cascade(kind) \subseteq speech
  BY DEF Rows, Cascade
<1>5. ErasureTypeOK'
  BY <1>0, <1>2, <1>3, <1>4, OrderFacts DEF ErasureTypeOK
<1>6. EraserInv'
  BY <1>0, <1>2, <1>3 DEF EraserInv, NotErasing
<1>7. GoneInv'
  <2>1. ASSUME NEW x \in speech, x[1] \in Gone(step + 1) PROVE x \in dropped'
    <3>1. CASE x[1] \in Gone(step)
      BY <1>2, <1>3, <3>1 DEF GoneInv
    <3>2. CASE x[1] \notin Gone(step)
      <4>1. \/ x[1] \in Covers(kind)
            \/ kind = "session" /\ x[1] \in {"transcript", "debrief"}
        BY <1>0, <1>1, <2>1, <3>2, StatementCovers
      <4>2. x \in Rows(kind) \/ x \in Cascade(kind)
        BY <4>1 DEF Rows, Cascade
      <4>. QED
        BY <1>2, <4>2
    <3>. QED
      BY <3>1, <3>2
  <2>2. ASSUME NEW x \in dropped', x[1] = "memory" PROVE step + 1 >= 8
    <3>1. CASE x \in dropped
      BY <1>0, <1>3, <2>2, <3>1 DEF GoneInv
    <3>2. CASE x \notin dropped
      <4>1. x \in Rows(kind) \/ x \in Cascade(kind)
        BY <1>2, <2>2, <3>2
      <4>2. kind = "memory"
        BY <2>2, <4>1 DEF Rows, Cascade, Covers
      <4>3. \A i \in {1, 2, 3, 4, 5, 6, 7} : EraseOrder[i] # "memory"
        BY OrderFacts
      <4>4. step + 1 \notin {1, 2, 3, 4, 5, 6, 7}
        BY <1>1, <4>2, <4>3
      <4>. QED
        BY <1>0, <4>4
    <3>. QED
      BY <3>1, <3>2
  <2>. QED
    BY <1>2, <2>1, <2>2 DEF GoneInv
<1>8. UpsertHolds'
  <2> SUFFICES ASSUME NEW r \in Requests, Doing(r, "upserted")
               PROVE  <<"session", TalkOf(r)>> \notin dropped'
    BY <1>2, <1>3 DEF UpsertHolds, Doing, TalkOf, Exists, MayReferTo
  <2>1. upserting[TalkOf(r)] = r /\ <<"session", TalkOf(r)>> \notin dropped /\ TalkOf(r) \in Talks
    BY <1>3, ErasureTypes DEF UpsertHolds, MayReferTo
  <2>2. kind # "session"
    BY <1>2, <2>1, ErasureAssumption DEF EraseWaits
  <2>3. <<"session", TalkOf(r)>> \notin Rows(kind) /\ <<"session", TalkOf(r)>> \notin Cascade(kind)
    BY <2>2 DEF Rows, Cascade, Covers
  <2>. QED
    BY <1>2, <2>1, <2>3
<1>9. TurnAlone' /\ LateInv' /\ SpeechErased'
  BY <1>2, <1>3 DEF TurnAlone, LateInv, SpeechErased, TalkOf, WillReply, Doing, KeyRows
<1>. QED
  BY <1>5, <1>6, <1>7, <1>8, <1>9 DEF ErasureInv

\* purge commits: nothing is left, and what requests in flight may still store is
\* late.  Or it fails, and nothing has been deleted.
LEMMA EraseEndsKeeps ==
  ASSUME ErasureInv, EraseCommit \/ EraseFails
  PROVE  ErasureInv'
<1> DEFINE pending == UNION {Pending(request[r].pc) \X {TalkOf(r)} : r \in Requests}
<1>1. /\ \/ step = 10 /\ speech' = speech \ dropped /\ erased' = erased \cup opened /\ late' = pending
         \/ speech' = speech /\ erased' = erased /\ late' = late
      /\ step' = NotErasing /\ dropped' = {}
      /\ userLock' \in {Nobody, userLock} /\ profileLock' \in {Nobody, profileLock}
      /\ UNCHANGED <<opened, userWrite, upserting, request>>
  BY OrderFacts DEF EraseCommit, EraseFails, EraseReleases
<1>2. ErasureTypeOK /\ EraserInv /\ GoneInv /\ TurnAlone /\ UpsertHolds /\ LateInv /\ SpeechErased
  BY DEF ErasureInv
<1>3. step = 10 => speech \subseteq dropped
  <2>1. ASSUME step = 10, NEW x \in speech PROVE x \in dropped
    <3>1. x[1] \in Kinds
      BY <1>2, ErasureTypes
    <3>. QED
      BY <1>2, <2>1, <3>1, AllGone DEF GoneInv
  <2>. QED
    BY <2>1
<1>4. \A r \in Requests : Pending(request[r].pc) \X {TalkOf(r)} \subseteq pending
  OBVIOUS
<1>5. pending \subseteq LateKinds \X Talks
  <2>1. \A r \in Requests : TalkOf(r) \in Talks
    BY <1>2, ErasureTypes
  <2>. QED
    BY <2>1, PendingIsLate
<1> HIDE DEF pending
<1>6. ErasureTypeOK'
  BY <1>1, <1>2, <1>5 DEF ErasureTypeOK
<1>7. EraserInv' /\ GoneInv'
  BY <1>1, NothingGone DEF EraserInv, GoneInv
<1>8. TurnAlone'
  BY <1>1, <1>2 DEF TurnAlone, TalkOf
<1>9. UpsertHolds'
  BY <1>1, <1>2 DEF UpsertHolds, TalkOf, Doing, Exists, MayReferTo
<1>10. SpeechErased' /\ LateInv'
  <2>1. CASE step = 10 /\ speech' = speech \ dropped /\ erased' = erased \cup opened /\ late' = pending
    <3>1. speech' = {}
      BY <1>3, <2>1
    <3>. QED
      BY <1>1, <1>4, <2>1, <3>1 DEF SpeechErased, LateInv, TalkOf, KeyRows
  <2>2. CASE speech' = speech /\ erased' = erased /\ late' = late
    BY <1>1, <1>2, <2>2 DEF SpeechErased, LateInv, TalkOf, WillReply, Doing, KeyRows
  <2>. QED
    BY <1>1, <2>1, <2>2
<1>. QED
  BY <1>6, <1>7, <1>8, <1>9, <1>10 DEF ErasureInv

\* Nothing is stored and nobody works before the first talk.
LEMMA ErasureStarts == ErasureInit => ErasureInv
<1> SUFFICES ASSUME ErasureInit PROVE ErasureInv
  OBVIOUS
<1>1. /\ speech = {} /\ opened = {} /\ erased = {} /\ dropped = {} /\ late = {} /\ step = NotErasing
      /\ userLock = Nobody /\ userWrite = Nobody /\ profileLock = Nobody
      /\ upserting = [t \in Talks |-> Nobody] /\ request = [r \in Requests |-> NoRequest]
  BY DEF ErasureInit
<1>2. request \in [Requests -> RequestState] /\ \A r \in Requests : request[r].pc = "idle"
  BY <1>1, NoRequestFacts
<1>3. ErasureTypeOK
  BY <1>1, <1>2 DEF ErasureTypeOK, RequestState, Pcs
<1>4. EraserInv /\ GoneInv /\ LateInv /\ SpeechErased
  BY <1>1 DEF EraserInv, GoneInv, LateInv, SpeechErased
<1>5. TurnAlone /\ UpsertHolds
  BY <1>2 DEF TurnAlone, UpsertHolds, Doing, InTurn
<1>. QED
  BY <1>3, <1>4, <1>5 DEF ErasureInv

\* The invariant of the erasure is inductive.
LEMMA ErasureStep == ErasureInv /\ [ErasureNext]_erasureVars => ErasureInv'
<1> SUFFICES ASSUME ErasureInv, [ErasureNext]_erasureVars PROVE ErasureInv'
  OBVIOUS
<1>1. ASSUME NEW t \in Talks, StartTalk(t) PROVE ErasureInv'
  BY <1>1, StartKeeps
<1>2. ASSUME NEW r \in Requests, NEW t \in Talks,
             \/ BeginTurn(r, t) \/ ClaimKey(r, t) \/ BeginDebrief(r, t)
             \/ BeginMission(r, t) \/ BeginPlacement(r, t)
      PROVE  ErasureInv'
  BY <1>2, BeginTurnKeeps, ClaimKeeps, BeginDebriefKeeps, BeginKeeps
<1>3. ASSUME NEW r \in Requests,
             \/ PrepareTurn(r) \/ UpsertTranscript(r) \/ MeterTurn(r) \/ MeterFails(r)
             \/ CompleteKey(r) \/ TurnFails(r) \/ ReleaseKey(r)
      PROVE  ErasureInv'
  BY <1>3, PrepareKeeps, UpsertKeeps, MeterKeeps, CompleteKeeps, FailKeeps, ReleaseKeeps
<1>4. ASSUME NEW r \in Requests,
             \/ FlushDebrief(r) \/ CommitDebrief(r) \/ CaptureVocabulary(r) \/ ScheduleReviewOf(r)
             \/ EmitEvents(r) \/ StoreMission(r) \/ StoreLevel(r) \/ RequestDies(r)
      PROVE  ErasureInv'
  BY <1>4, FlushKeeps, DebriefCommitKeeps, EnrichKeeps, AnswerKeeps, FailKeeps
<1>5. CASE BeginErase \/ EraseNext \/ EraseCommit \/ EraseFails
  BY <1>5, BeginEraseKeeps, StatementKeeps, EraseEndsKeeps
<1>6. CASE UNCHANGED erasureVars
  <2>1. /\ speech' = speech /\ opened' = opened /\ erased' = erased /\ dropped' = dropped /\ step' = step
        /\ late' = late /\ userLock' = userLock /\ userWrite' = userWrite /\ profileLock' = profileLock
        /\ upserting' = upserting /\ request' = request
    BY <1>6 DEF erasureVars
  <2>2. ErasureTypeOK' /\ EraserInv' /\ GoneInv'
    BY <2>1 DEF ErasureInv, ErasureTypeOK, EraserInv, GoneInv
  <2>3. TurnAlone' /\ UpsertHolds' /\ LateInv' /\ SpeechErased'
    BY <2>1 DEF ErasureInv, TurnAlone, UpsertHolds, LateInv, SpeechErased, TalkOf, Doing, Exists,
                MayReferTo, WillReply, KeyRows
  <2>. QED
    BY <2>2, <2>3 DEF ErasureInv
<1>. QED
  BY <1>1, <1>2, <1>3, <1>4, <1>5, <1>6 DEF ErasureNext

\* The state of the erasure and of the requests around it stays well typed.
THEOREM ErasureTypeCorrect == ErasureSpec => []ErasureTypeOK
<1>1. ErasureInv => ErasureTypeOK
  BY DEF ErasureInv
<1>. QED
  BY <1>1, ErasureStarts, ErasureStep, PTL DEF ErasureSpec

\* Once a purge has committed, nothing derived from what the learner said before it
\* is stored or comes back, whatever request was in flight (purge of
\* voice_data/repository, #290), except what a request in flight at the commit had
\* left to store outside its session: a mission, a level, review items, events, and
\* the reply to a key claimed again.
THEOREM ErasureIsComplete == ErasureSpec => []SpeechErased
<1>1. ErasureInv => SpeechErased
  BY DEF ErasureInv
<1>. QED
  BY <1>1, ErasureStarts, ErasureStep, PTL DEF ErasureSpec

----------------------------------------------------------------------------
(* The consents                                                            *)

ConsentRow == [CONSENT_FIELDS -> BOOLEAN]
Edit == [pc : {"loaded"}, changes : Changes, loaded : ConsentRow]

\* The row is missing or whole, and a device is in the middle of an update or not.
ConsentTypeOK == /\ consent \in {NoRow} \cup ConsentRow
                 /\ editing \in [Devices -> {NoEdit} \cup Edit]
                 /\ upload \in [Devices -> {"none", "read", "refused"}]

\* A row made on first touch is a row, and is not touched again.
LEMMA FirstTouchFacts ==
  ASSUME NEW row \in {NoRow} \cup ConsentRow
  PROVE  FirstTouched(row) \in ConsentRow /\ (row # NoRow => FirstTouched(row) = row)
BY DEF FirstTouched, ConsentRow, ProtectiveDefaults

\* An update stores a whole row; a field that differs was asked for.
LEMMA StoredFacts ==
  ASSUME NEW row \in {NoRow} \cup ConsentRow, row # NoRow, NEW e \in Edit
  PROVE  /\ Stored(row, e) \in ConsentRow
         /\ \A f \in CONSENT_FIELDS : Stored(row, e)[f] # row[f] =>
              f \in DOMAIN e.changes /\ e.changes[f] = Stored(row, e)[f]
<1>1. row \in ConsentRow
  OBVIOUS
<1>2. e.changes \in Changes
  BY DEF Edit
<1>3. \A f \in DOMAIN e.changes : e.changes[f] \in BOOLEAN
  BY <1>2 DEF Changes
<1>4. Stored(row, e) \in ConsentRow
  BY <1>1, <1>3 DEF Stored, ConsentRow
<1>5. \A f \in CONSENT_FIELDS : Stored(row, e)[f] =
         IF f \in DOMAIN e.changes /\ e.changes[f] # e.loaded[f] THEN e.changes[f] ELSE row[f]
  BY DEF Stored
<1>. QED
  BY <1>4, <1>5

\* A row that is there is not the missing one.
LEMMA RowIsThere == \A row \in ConsentRow : row # NoRow
<1>1. \A row \in ConsentRow : DOMAIN row = CONSENT_FIELDS
  BY DEF ConsentRow
<1>2. DOMAIN NoRow = {} /\ CONSENT_FIELDS # {}
  BY DEF NoRow, CONSENT_FIELDS
<1>. QED
  BY <1>1, <1>2

\* An update in flight has loaded a row, and no row is ever deleted.
ConsentInv == /\ ConsentTypeOK
              /\ \A d \in Devices : editing[d].pc = "loaded" => consent # NoRow

\* At first there is no row and no request.
LEMMA ConsentStarts == ConsentInit => ConsentInv
BY DEF ConsentInit, ConsentInv, ConsentTypeOK, NoEdit

\* The change of a field of an existing row that no one asked for.
ConsentStep ==
    \A f \in CONSENT_FIELDS : consent # NoRow /\ consent'[f] # consent[f] =>
          \E d \in Devices : /\ editing[d].pc = "loaded" /\ editing'[d] = NoEdit
                             /\ f \in DOMAIN editing[d].changes
                             /\ editing[d].changes[f] = consent'[f]

\* GET /me/voice-consent makes the row if there is none.
LEMMA GetConsentKeeps == ConsentInv /\ GetConsent => ConsentInv' /\ ConsentStep
<1>. SUFFICES ASSUME ConsentInv, GetConsent PROVE ConsentInv' /\ ConsentStep
  OBVIOUS
<1>1. consent' \in ConsentRow /\ consent' # NoRow /\ (consent # NoRow => consent' = consent)
  BY FirstTouchFacts, RowIsThere DEF ConsentInv, ConsentTypeOK, GetConsent
<1>. QED
  BY <1>1 DEF ConsentInv, ConsentTypeOK, GetConsent, ConsentStep

\* A PUT loads the row, made if there is none.
LEMMA LoadConsentKeeps ==
  ASSUME NEW d \in Devices, NEW c \in Changes, ConsentInv, LoadConsent(d, c)
  PROVE  ConsentInv' /\ ConsentStep
<1>1. consent' \in ConsentRow /\ consent' # NoRow /\ (consent # NoRow => consent' = consent)
  BY FirstTouchFacts, RowIsThere DEF ConsentInv, ConsentTypeOK, LoadConsent
<1>2. [pc |-> "loaded", changes |-> c, loaded |-> consent'] \in Edit
  BY <1>1 DEF Edit
<1>3. editing' \in [Devices -> {NoEdit} \cup Edit] /\ upload' = upload
  BY <1>2 DEF ConsentInv, ConsentTypeOK, LoadConsent
<1>. QED
  BY <1>1, <1>3 DEF ConsentInv, ConsentTypeOK, ConsentStep

\* The UPDATE stores the fields asked for on the row as it is by then.
LEMMA SaveConsentKeeps ==
  ASSUME NEW d \in Devices, ConsentInv, SaveConsent(d)
  PROVE  ConsentInv' /\ ConsentStep
<1>1. editing[d] \in Edit
  BY DEF ConsentInv, ConsentTypeOK, SaveConsent, NoEdit
<1>2. consent \in {NoRow} \cup ConsentRow /\ consent # NoRow
  BY DEF ConsentInv, ConsentTypeOK, SaveConsent
<1>3. /\ consent' \in ConsentRow
      /\ \A f \in CONSENT_FIELDS : consent'[f] # consent[f] =>
            f \in DOMAIN editing[d].changes /\ editing[d].changes[f] = consent'[f]
  BY <1>1, <1>2, StoredFacts DEF SaveConsent
<1>4. editing[d].pc = "loaded" /\ editing'[d] = NoEdit
  BY DEF ConsentInv, ConsentTypeOK, SaveConsent
<1>5. editing' \in [Devices -> {NoEdit} \cup Edit] /\ upload' = upload
  BY DEF ConsentInv, ConsentTypeOK, SaveConsent
<1>6. consent' # NoRow
  BY <1>3, RowIsThere
<1>7. ConsentStep
  BY <1>3, <1>4 DEF ConsentStep
<1>8. ConsentTypeOK'
  BY <1>3, <1>5 DEF ConsentInv, ConsentTypeOK
<1>. QED
  BY <1>6, <1>7, <1>8 DEF ConsentInv

\* What leaves the row alone: a failed update, and the uploads.
LEMMA RowUntouched ==
  ASSUME NEW d \in Devices, ConsentInv, UpdateFails(d) \/ Transcribe(d) \/ TranscribeReturns(d)
  PROVE  ConsentInv' /\ ConsentStep
<1>1. consent' = consent
  BY DEF UpdateFails, Transcribe, TranscribeReturns
<1>2. editing' = editing \/ editing' = [editing EXCEPT ![d] = NoEdit]
  BY DEF UpdateFails, Transcribe, TranscribeReturns
<1>3. editing' \in [Devices -> {NoEdit} \cup Edit]
  BY <1>2 DEF ConsentInv, ConsentTypeOK
<1>4. upload' \in [Devices -> {"none", "read", "refused"}]
  BY DEF UpdateFails, Transcribe, TranscribeReturns, ConsentInv, ConsentTypeOK
<1>5. \A e \in Devices : editing'[e] = editing[e] \/ editing'[e] = NoEdit
  BY <1>2 DEF ConsentInv, ConsentTypeOK
<1>6. \A e \in Devices : editing'[e].pc = "loaded" => consent # NoRow
  BY <1>5 DEF ConsentInv, NoEdit
<1>. QED
  BY <1>1, <1>3, <1>4, <1>6 DEF ConsentInv, ConsentTypeOK, ConsentStep

\* Every step keeps the invariant, and changes of an existing row only what was asked for.
LEMMA ConsentNextKeeps == ConsentInv /\ [ConsentNext]_consentVars => ConsentInv' /\ [ConsentStep]_consentVars
<1>. SUFFICES ASSUME ConsentInv, [ConsentNext]_consentVars PROVE ConsentInv' /\ [ConsentStep]_consentVars
  OBVIOUS
<1>1. CASE UNCHANGED consentVars
  BY <1>1 DEF consentVars, ConsentInv, ConsentTypeOK
<1>2. CASE ConsentNext
  BY <1>2, GetConsentKeeps, LoadConsentKeeps, SaveConsentKeeps, RowUntouched DEF ConsentNext
<1>. QED
  BY <1>1, <1>2

\* The consent row, the updates and the uploads stay well typed.
THEOREM ConsentTypeCorrect == ConsentSpec => []ConsentTypeOK
<1>1. ConsentInv => ConsentTypeOK
  BY DEF ConsentInv
<1>. QED
  BY <1>1, ConsentStarts, ConsentNextKeeps, PTL DEF ConsentSpec

\* However many devices read and update it at once, a consent that is stored
\* changes only by the commit of a request that asked for that very value
\* (voice_consent/service.py: first touch, and the UPDATE of changed fields).
THEOREM ConsentsChangeAsAsked == ConsentSpec => OnlyAskedForChanges
<1>. QED
  BY ConsentStarts, ConsentNextKeeps, PTL DEF ConsentSpec, OnlyAskedForChanges, ConsentStep

----------------------------------------------------------------------------
(* The export                                                              *)

Key == Instants \X RowIds
KeysOf(q) == {q[i] : i \in 1..Len(q)}
InOrder(q) == \A i, j \in 1..Len(q) : i < j => Before(q[i], q[j])

ExportTypeOK == /\ stored \in SUBSET Key /\ IsFiniteSet(stored)
                /\ written \in SUBSET RowIds
                /\ page \in Seq(Key) /\ sent \in Seq(Key)
                /\ full \in BOOLEAN /\ cursor \in Key \cup {NoCursor}
                /\ exporting \in {"before", "reading", "done"}
                /\ throughout \in SUBSET stored

\* The cursor is the key of the last row sent; the page in hand comes after it.
CursorInv == /\ cursor = IF sent = <<>> THEN NoCursor ELSE sent[Len(sent)]
             /\ InOrder(sent)
             /\ InOrder(page) /\ \A i \in 1..Len(page) : Before(cursor, page[i])

\* How far the export has read.
ReadUpTo == IF page = <<>> THEN cursor ELSE page[Len(page)]

\* A row there since the beginning is sent, in hand, or of a page still to read.
SeenInv == /\ exporting = "before" => sent = <<>> /\ page = <<>> /\ full = TRUE
           /\ exporting # "before" =>
                \A x \in throughout : \/ x \in KeysOf(sent) \/ x \in KeysOf(page)
                                      \/ full = TRUE /\ Before(ReadUpTo, x)
           /\ exporting = "done" => page = <<>> /\ throughout \subseteq KeysOf(sent)

ExportInv == ExportTypeOK /\ CursorInv /\ SeenInv

\* (started_at, id) is a strict total order, and every key comes after no cursor.
LEMMA KeyOrder ==
  /\ \A a, b, c \in Key \cup {NoCursor} : Before(a, b) /\ Before(b, c) => Before(a, c)
  /\ \A a, b \in Key \cup {NoCursor} : a = b \/ Before(a, b) \/ Before(b, a)
  /\ \A a \in Key \cup {NoCursor} : ~Before(a, a)
  /\ \A a \in Key : Before(NoCursor, a)
<1>1. \A a \in Key \cup {NoCursor} : a[1] \in Int /\ a[2] \in Int /\ a = <<a[1], a[2]>>
  <2>1. \A a \in Key : a[1] \in Int /\ a[2] \in Int /\ a = <<a[1], a[2]>>
    <3>1. \A a \in Key : a[1] \in Instants /\ a[2] \in RowIds
      BY DEF Key
    <3>2. \A a \in Key : a = <<a[1], a[2]>>
      BY DEF Key
    <3>. QED
      BY <3>1, <3>2, ExportAssumption
  <2>2. NoCursor[1] \in Int /\ NoCursor[2] \in Int /\ NoCursor = <<NoCursor[1], NoCursor[2]>>
    BY DEF NoCursor
  <2>. QED
    BY <2>1, <2>2
<1>2. \A a \in Key : a[1] \in Nat /\ a[2] \in Nat
  BY ExportAssumption DEF Key
<1>3. NoCursor[1] = -1 /\ NoCursor[2] = -1
  BY DEF NoCursor
<1>4. \A a, b, c \in Key \cup {NoCursor} : Before(a, b) /\ Before(b, c) => Before(a, c)
  BY <1>1 DEF Before
<1>5. \A a, b \in Key \cup {NoCursor} : a = b \/ Before(a, b) \/ Before(b, a)
  BY <1>1 DEF Before
<1>6. \A a \in Key \cup {NoCursor} : ~Before(a, a)
  BY <1>1 DEF Before
<1>7. \A a \in Key : Before(NoCursor, a)
  BY <1>2, <1>3 DEF Before
<1>. QED
  BY <1>4, <1>5, <1>6, <1>7

\* The rows before a row, and its place among them.
RowsBefore(table, r) == {x \in table : Before(x, r)}
PlaceIn(table, r) == Cardinality(RowsBefore(table, r)) + 1

\* Places number finitely many rows from one on, in their order.
LEMMA PlaceFacts ==
  ASSUME NEW R \in SUBSET Key, IsFiniteSet(R)
  PROVE  /\ Cardinality(R) \in Nat
         /\ \A r \in R : PlaceIn(R, r) \in 1..Cardinality(R)
         /\ \A a, b \in R : Before(a, b) => PlaceIn(R, a) < PlaceIn(R, b)
         /\ \A i \in 1..Cardinality(R) : \E r \in R : PlaceIn(R, r) = i
<1>1. Cardinality(R) \in Nat
  BY FS_CardinalityType
<1>2. \A r \in R : RowsBefore(R, r) \in SUBSET R /\ IsFiniteSet(RowsBefore(R, r))
  BY FS_Subset DEF RowsBefore
<1>3. \A r \in R : Cardinality(RowsBefore(R, r)) \in Nat
  BY <1>2, FS_CardinalityType
<1>4. ASSUME NEW r \in R PROVE PlaceIn(R, r) \in 1..Cardinality(R)
  <2>1. r \notin RowsBefore(R, r)
    BY KeyOrder DEF RowsBefore
  <2>2. Cardinality(RowsBefore(R, r)) <= Cardinality(R) /\ Cardinality(R) # Cardinality(RowsBefore(R, r))
    BY <1>2, <2>1, FS_Subset
  <2>. QED
    BY <1>1, <1>3, <2>2 DEF PlaceIn
<1>5. ASSUME NEW a \in R, NEW b \in R, Before(a, b) PROVE PlaceIn(R, a) < PlaceIn(R, b)
  <2>1. RowsBefore(R, a) \in SUBSET RowsBefore(R, b)
    BY <1>5, KeyOrder DEF RowsBefore
  <2>2. a \in RowsBefore(R, b) /\ a \notin RowsBefore(R, a)
    BY <1>5, KeyOrder DEF RowsBefore
  <2>3. /\ Cardinality(RowsBefore(R, a)) <= Cardinality(RowsBefore(R, b))
        /\ Cardinality(RowsBefore(R, b)) # Cardinality(RowsBefore(R, a))
    BY <1>2, <2>1, <2>2, FS_Subset
  <2>. QED
    BY <1>3, <2>3 DEF PlaceIn
<1>6. \A i \in 1..Cardinality(R) : \E r \in R : PlaceIn(R, r) = i
  <2>. DEFINE f == [r \in R |-> PlaceIn(R, r)]
  <2>1. f \in [R -> 1..Cardinality(R)]
    BY <1>4
  <2>2. \A a, b \in R : f[a] = f[b] => a = b
    <3>. SUFFICES ASSUME NEW a \in R, NEW b \in R, a # b PROVE PlaceIn(R, a) # PlaceIn(R, b)
      OBVIOUS
    <3>1. Before(a, b) \/ Before(b, a)
      BY KeyOrder
    <3>2. PlaceIn(R, a) \in Int /\ PlaceIn(R, b) \in Int
      BY <1>3 DEF PlaceIn
    <3>. QED
      BY <1>5, <3>1, <3>2
  <2>3. f \in Injection(R, 1..Cardinality(R))
    BY <2>1, <2>2 DEF Injection, IsInjective
  <2>4. IsFiniteSet(1..Cardinality(R)) /\ Cardinality(1..Cardinality(R)) = Cardinality(R)
    BY <1>1, FS_Interval
  <2>. HIDE DEF f
  <2>5. f \in Surjection(R, 1..Cardinality(R))
    BY <2>3, <2>4, FS_Injection
  <2>6. \A i \in 1..Cardinality(R) : \E r \in R : f[r] = i
    BY <2>5 DEF Surjection
  <2>. QED
    BY <2>6 DEF f
<1>. QED
  BY <1>1, <1>4, <1>5, <1>6

\* The page read from the stored rows R: the first PageSize of them, in order;
\* a page that is not full is all of them.
LEMMA LimitedFacts ==
  ASSUME NEW R \in SUBSET Key, IsFiniteSet(R)
  PROVE  LET q == Limited(R) IN
         /\ q \in Seq(Key) /\ KeysOf(q) \subseteq R /\ InOrder(q)
         /\ \A x \in R : \/ x \in KeysOf(q)
                         \/ Len(q) = PageSize /\ q # <<>> /\ Before(q[Len(q)], x)
<1>. DEFINE n == Cardinality(R)
            m == IF n < PageSize THEN n ELSE PageSize
            q == Limited(R)
<1>1. n \in Nat /\ m \in Nat /\ m <= n /\ m <= PageSize /\ PageSize \in Nat \ {0}
  BY PlaceFacts, ExportAssumption
<1>2. q = [i \in 1..m |-> CHOOSE r \in R : PlaceIn(R, r) = i]
  BY DEF Limited, PlaceIn, RowsBefore
<1>3. \A i \in 1..n : \E r \in R : PlaceIn(R, r) = i
  BY PlaceFacts
<1>. HIDE DEF q
<1>4. m < n => m = PageSize
  BY <1>1
<1>. HIDE DEF m, n
<1>5. \A i \in 1..m : q[i] \in R /\ PlaceIn(R, q[i]) = i
  BY <1>1, <1>2, <1>3
<1>6. q \in Seq(Key) /\ Len(q) = m
  BY <1>1, <1>2, <1>5
<1>7. \A a, b \in R : PlaceIn(R, a) < PlaceIn(R, b) => Before(a, b)
  <2>1. \A a \in R : PlaceIn(R, a) \in Int
    BY PlaceFacts
  <2>2. \A a, b \in R : Before(b, a) => PlaceIn(R, b) < PlaceIn(R, a)
    BY PlaceFacts
  <2>3. \A a, b \in R : a = b \/ Before(a, b) \/ Before(b, a)
    BY KeyOrder
  <2>. QED
    BY <2>1, <2>2, <2>3
<1>8. InOrder(q)
  BY <1>1, <1>5, <1>6, <1>7 DEF InOrder
<1>9. KeysOf(q) \subseteq R
  BY <1>5, <1>6 DEF KeysOf
<1>10. ASSUME NEW x \in R
       PROVE  x \in KeysOf(q) \/ (Len(q) = PageSize /\ q # <<>> /\ Before(q[Len(q)], x))
  <2>1. PlaceIn(R, x) \in 1..n
    BY PlaceFacts DEF n
  <2>2. CASE PlaceIn(R, x) <= m
    <3>1. PlaceIn(R, x) \in 1..m
      BY <1>1, <2>1, <2>2
    <3>. DEFINE y == q[PlaceIn(R, x)]
    <3>2. y \in R /\ PlaceIn(R, y) = PlaceIn(R, x)
      BY <1>5, <3>1
    <3>. HIDE DEF y
    <3>3. ~Before(x, y) /\ ~Before(y, x)
      <4>1. Before(x, y) => PlaceIn(R, x) < PlaceIn(R, y)
        BY <3>2, PlaceFacts
      <4>2. Before(y, x) => PlaceIn(R, y) < PlaceIn(R, x)
        BY <3>2, PlaceFacts
      <4>. QED
        BY <1>1, <3>1, <3>2, <4>1, <4>2
    <3>4. x = y
      BY <3>2, <3>3, KeyOrder
    <3>. QED
      BY <1>6, <3>1, <3>4 DEF KeysOf, y
  <2>3. CASE m < PlaceIn(R, x)
    <3>1. m = PageSize /\ m \in 1..m
      BY <1>1, <1>4, <2>1, <2>3
    <3>2. q[m] \in R /\ PlaceIn(R, q[m]) < PlaceIn(R, x)
      BY <1>5, <3>1, <2>3
    <3>3. q # <<>>
      BY <1>1, <1>6, <3>1
    <3>. QED
      BY <1>6, <1>7, <3>1, <3>2, <3>3
  <2>. QED
    BY <1>1, <2>1, <2>2, <2>3
<1>11. /\ q \in Seq(Key) /\ KeysOf(q) \subseteq R /\ InOrder(q)
       /\ \A x \in R : x \in KeysOf(q) \/ (Len(q) = PageSize /\ q # <<>> /\ Before(q[Len(q)], x))
  BY <1>6, <1>8, <1>9, <1>10
<1>. QED
  BY <1>11 DEF q

\* Nothing is stored or sent at first.
LEMMA ExportStarts == ExportInit => ExportInv
<1>. SUFFICES ASSUME ExportInit PROVE ExportInv
  OBVIOUS
<1>1. ExportTypeOK
  BY FS_EmptySet DEF ExportInit, ExportTypeOK
<1>2. CursorInv
  BY DEF ExportInit, CursorInv, InOrder
<1>3. SeenInv
  BY DEF ExportInit, SeenInv
<1>. QED
  BY <1>1, <1>2, <1>3 DEF ExportInv

\* A row stored during the export is not among those the export owes.
LEMMA StoreRowKeeps ==
  ASSUME NEW started \in Instants, NEW id \in RowIds, ExportInv, StoreRow(started, id)
  PROVE  ExportInv'
<1>1. /\ page' = page /\ full' = full /\ cursor' = cursor /\ sent' = sent
      /\ exporting' = exporting /\ throughout' = throughout
  BY DEF StoreRow
<1>2. <<started, id>> \in Key
  BY DEF Key
<1>3. stored' \in SUBSET Key /\ IsFiniteSet(stored') /\ throughout \in SUBSET stored'
  BY <1>2, FS_AddElement DEF StoreRow, ExportInv, ExportTypeOK
<1>4. ExportTypeOK'
  BY <1>1, <1>3 DEF StoreRow, ExportInv, ExportTypeOK
<1>5. CursorInv' /\ SeenInv'
  BY <1>1 DEF ExportInv, CursorInv, SeenInv, ReadUpTo
<1>. QED
  BY <1>4, <1>5 DEF ExportInv

\* After an erasure the export owes nothing.
LEMMA EraseRowsKeeps == ASSUME ExportInv, EraseRows PROVE ExportInv'
<1>1. /\ page' = page /\ full' = full /\ cursor' = cursor /\ sent' = sent
      /\ exporting' = exporting /\ stored' = {} /\ throughout' = {} /\ written' = written
  BY DEF EraseRows
<1>2. ExportTypeOK'
  BY <1>1, FS_EmptySet DEF ExportInv, ExportTypeOK
<1>3. CursorInv' /\ SeenInv'
  BY <1>1 DEF ExportInv, CursorInv, SeenInv
<1>. QED
  BY <1>2, <1>3 DEF ExportInv

\* The export begins before every stored row.
LEMMA BeginExportKeeps == ASSUME ExportInv, BeginExport PROVE ExportInv'
<1>1. /\ page' = page /\ full' = full /\ cursor' = cursor /\ sent' = sent /\ written' = written
      /\ exporting' = "reading" /\ stored' = stored /\ throughout' = stored
  BY DEF BeginExport
<1>2. ExportTypeOK'
  BY <1>1 DEF ExportInv, ExportTypeOK
<1>3. CursorInv'
  BY <1>1 DEF ExportInv, CursorInv
<1>4. sent = <<>> /\ page = <<>> /\ full = TRUE /\ cursor = NoCursor
  BY DEF ExportInv, SeenInv, CursorInv, BeginExport
<1>5. \A x \in stored : Before(NoCursor, x)
  BY KeyOrder DEF ExportInv, ExportTypeOK
<1>6. SeenInv'
  BY <1>1, <1>4, <1>5 DEF SeenInv, ReadUpTo
<1>. QED
  BY <1>2, <1>3, <1>6 DEF ExportInv

\* A page takes up after the cursor, and leaves out only rows after its last one.
LEMMA FetchPageKeeps == ASSUME ExportInv, FetchPage PROVE ExportInv'
<1>1. /\ stored' = stored /\ written' = written /\ cursor' = cursor /\ sent' = sent
      /\ throughout' = throughout /\ exporting = "reading" /\ page = <<>>
  BY DEF FetchPage
<1>2. PICK R : R = AfterCursor(stored, cursor)
  OBVIOUS
<1>3. PICK fetched : fetched = Limited(R)
  OBVIOUS
<1>4. /\ fetched \in Seq(Key) /\ KeysOf(fetched) \subseteq R /\ InOrder(fetched)
      /\ \A x \in R : \/ x \in KeysOf(fetched)
                      \/ Len(fetched) = PageSize /\ fetched # <<>> /\ Before(fetched[Len(fetched)], x)
  <2>1. R \in SUBSET Key /\ IsFiniteSet(R)
    BY <1>2, FS_Subset DEF AfterCursor, ExportInv, ExportTypeOK
  <2>. QED
    BY <1>3, <2>1, LimitedFacts
<1>5. \A x \in throughout : x \in KeysOf(sent) \/ (full = TRUE /\ x \in R)
  <2>1. \A x \in throughout : x \in KeysOf(sent) \/ x \in KeysOf(page) \/ (full = TRUE /\ Before(cursor, x))
    BY <1>1 DEF ExportInv, SeenInv, ReadUpTo
  <2>2. KeysOf(page) = {}
    BY <1>1 DEF KeysOf
  <2>3. \A x \in throughout : x \in stored
    BY DEF ExportInv, ExportTypeOK
  <2>. QED
    BY <1>2, <2>1, <2>2, <2>3 DEF AfterCursor
<1>6. CASE full /\ fetched # <<>>
  <2>1. page' = fetched /\ full' = (Len(fetched) = PageSize) /\ exporting' = exporting
    BY <1>2, <1>3, <1>6 DEF FetchPage
  <2>2. ExportTypeOK'
    BY <1>1, <1>4, <2>1 DEF ExportInv, ExportTypeOK
  <2>3. \A i \in 1..Len(fetched) : Before(cursor, fetched[i])
    BY <1>2, <1>4 DEF KeysOf, AfterCursor
  <2>4. CursorInv'
    BY <1>1, <1>4, <2>1, <2>3 DEF ExportInv, CursorInv
  <2>5. \A x \in throughout : \/ x \in KeysOf(sent) \/ x \in KeysOf(fetched)
                              \/ Len(fetched) = PageSize /\ Before(fetched[Len(fetched)], x)
    BY <1>4, <1>5
  <2>6. ReadUpTo' = fetched[Len(fetched)]
    BY <1>6, <2>1 DEF ReadUpTo
  <2>7. SeenInv'
    BY <1>1, <2>1, <2>5, <2>6 DEF SeenInv
  <2>. QED
    BY <2>2, <2>4, <2>7 DEF ExportInv
<1>7. CASE ~(full /\ fetched # <<>>)
  <2>1. page' = page /\ full' = full /\ exporting' = "done"
    BY <1>2, <1>3, <1>7 DEF FetchPage
  <2>2. ExportTypeOK'
    BY <1>1, <2>1 DEF ExportInv, ExportTypeOK
  <2>3. CursorInv'
    BY <1>1, <2>1 DEF ExportInv, CursorInv
  <2>4. KeysOf(<<>>) = {}
    BY DEF KeysOf
  <2>5. throughout \subseteq KeysOf(sent)
    BY <1>4, <1>5, <1>7, <2>4 DEF ExportInv, ExportTypeOK
  <2>6. SeenInv'
    BY <1>1, <2>1, <2>5 DEF SeenInv
  <2>. QED
    BY <2>2, <2>3, <2>6 DEF ExportInv
<1>. QED
  BY <1>6, <1>7

\* A row sent comes after every row sent before it.
LEMMA SendRowKeeps == ASSUME ExportInv, SendRow PROVE ExportInv'
<1>1. /\ stored' = stored /\ written' = written /\ full' = full /\ exporting' = exporting
      /\ throughout' = throughout /\ page # <<>>
      /\ sent' = Append(sent, Head(page)) /\ cursor' = Head(page) /\ page' = Tail(page)
  BY DEF SendRow
<1>2. page \in Seq(Key) /\ sent \in Seq(Key) /\ cursor \in Key \cup {NoCursor}
  BY DEF ExportInv, ExportTypeOK
<1>3. /\ Head(page) = page[1] /\ Head(page) \in Key /\ Tail(page) \in Seq(Key)
      /\ Len(Tail(page)) = Len(page) - 1 /\ Len(page) \in Nat \ {0}
      /\ \A i \in 1..Len(Tail(page)) : Tail(page)[i] = page[i + 1]
  BY <1>1, <1>2
<1>4. /\ sent' \in Seq(Key) /\ Len(sent') = Len(sent) + 1 /\ Len(sent) \in Nat
      /\ sent'[Len(sent) + 1] = Head(page) /\ sent' # <<>>
      /\ \A i \in 1..Len(sent) : sent'[i] = sent[i] /\ sent[i] \in Key
  BY <1>1, <1>2, <1>3
<1>5. ExportTypeOK'
  BY <1>1, <1>3, <1>4 DEF ExportInv, ExportTypeOK
<1>6. Before(cursor, page[1])
  BY <1>3 DEF ExportInv, CursorInv
<1>7. \A i \in 1..Len(sent) : Before(sent[i], page[1])
  <2>. SUFFICES ASSUME NEW i \in 1..Len(sent) PROVE Before(sent[i], page[1])
    OBVIOUS
  <2>1. cursor = sent[Len(sent)] /\ Len(sent) \in 1..Len(sent)
    BY <1>4 DEF ExportInv, CursorInv
  <2>2. i = Len(sent) \/ Before(sent[i], sent[Len(sent)])
    BY <1>4, <2>1 DEF ExportInv, CursorInv, InOrder
  <2>3. sent[i] \in Key \cup {NoCursor} /\ page[1] \in Key \cup {NoCursor}
    BY <1>3, <1>4
  <2>. QED
    BY <1>2, <1>6, <2>1, <2>2, <2>3, KeyOrder
<1>8. InOrder(sent')
  <2>. SUFFICES ASSUME NEW i \in 1..Len(sent'), NEW j \in 1..Len(sent'), i < j
                PROVE  Before(sent'[i], sent'[j])
    BY DEF InOrder
  <2>1. i \in 1..Len(sent) /\ (j \in 1..Len(sent) \/ j = Len(sent) + 1)
    BY <1>4
  <2>2. CASE j \in 1..Len(sent)
    BY <1>4, <2>1, <2>2 DEF ExportInv, CursorInv, InOrder
  <2>3. CASE j = Len(sent) + 1
    BY <1>3, <1>4, <1>7, <2>1, <2>3
  <2>. QED
    BY <2>1, <2>2, <2>3
<1>9. InOrder(Tail(page)) /\ \A i \in 1..Len(Tail(page)) : Before(page[1], Tail(page)[i])
  <2>1. \A i \in 1..Len(Tail(page)) : i + 1 \in 1..Len(page) /\ 1 < i + 1 /\ 1 \in 1..Len(page)
    BY <1>3
  <2>2. \A i, j \in 1..Len(page) : i < j => Before(page[i], page[j])
    BY DEF ExportInv, CursorInv, InOrder
  <2>3. \A i, j \in 1..Len(Tail(page)) : i < j => i + 1 < j + 1
    BY <1>3
  <2>. QED
    BY <1>3, <2>1, <2>2, <2>3 DEF InOrder
<1>10. cursor' = IF sent' = <<>> THEN NoCursor ELSE sent'[Len(sent')]
  BY <1>1, <1>4
<1>11. CursorInv'
  <2>1. InOrder(page)' /\ InOrder(sent)'
    BY <1>1, <1>8, <1>9 DEF InOrder
  <2>2. \A i \in 1..Len(page') : Before(cursor', page'[i])
    BY <1>1, <1>3, <1>9
  <2>. QED
    BY <1>10, <2>1, <2>2 DEF CursorInv
<1>12. KeysOf(sent) \cup KeysOf(page) \subseteq KeysOf(sent') \cup KeysOf(Tail(page))
  <2>1. KeysOf(sent) \subseteq KeysOf(sent')
    BY <1>4 DEF KeysOf
  <2>2. page[1] \in KeysOf(sent')
    BY <1>3, <1>4 DEF KeysOf
  <2>3. ASSUME NEW i \in 1..Len(page), i # 1 PROVE page[i] \in KeysOf(Tail(page))
    <3>1. i - 1 \in 1..Len(Tail(page)) /\ Tail(page)[i - 1] = page[i]
      BY <1>3, <2>3
    <3>. QED
      BY <3>1 DEF KeysOf
  <2>. QED
    BY <2>1, <2>2, <2>3 DEF KeysOf
<1>13. ReadUpTo' = ReadUpTo
  <2>1. CASE Tail(page) = <<>>
    <3>1. Len(page) = 1
      BY <1>3, <2>1
    <3>. QED
      BY <1>1, <1>3, <2>1, <3>1 DEF ReadUpTo
  <2>2. CASE Tail(page) # <<>>
    <3>1. Len(Tail(page)) \in 1..Len(Tail(page))
      BY <1>3, <2>2
    <3>2. Tail(page)[Len(Tail(page))] = page[Len(page)]
      BY <1>3, <3>1
    <3>. QED
      BY <1>1, <2>2, <3>2 DEF ReadUpTo
  <2>. QED
    BY <2>1, <2>2
<1>14. exporting = "reading"
  BY <1>1 DEF ExportInv, SeenInv, ExportTypeOK
<1>15. SeenInv'
  <2>1. \A x \in throughout : x \in KeysOf(sent) \/ x \in KeysOf(page) \/ (full = TRUE /\ Before(ReadUpTo, x))
    BY <1>14 DEF ExportInv, SeenInv
  <2>2. \A x \in throughout : x \in KeysOf(sent') \/ x \in KeysOf(page') \/ (full = TRUE /\ Before(ReadUpTo, x))
    BY <1>1, <1>12, <2>1
  <2>. QED
    BY <1>1, <1>13, <1>14, <2>2 DEF SeenInv
<1>. QED
  BY <1>5, <1>11, <1>15 DEF ExportInv

\* Every step of the export, and every row stored or erased meanwhile, keeps it.
LEMMA ExportStep == ExportInv /\ [ExportNext]_exportVars => ExportInv'
<1>. SUFFICES ASSUME ExportInv, [ExportNext]_exportVars PROVE ExportInv'
  OBVIOUS
<1>1. CASE UNCHANGED exportVars
  <2>1. /\ stored' = stored /\ written' = written /\ page' = page /\ full' = full /\ cursor' = cursor
        /\ sent' = sent /\ exporting' = exporting /\ throughout' = throughout
    BY <1>1 DEF exportVars
  <2>2. ExportTypeOK'
    BY <2>1 DEF ExportInv, ExportTypeOK
  <2>3. CursorInv' /\ SeenInv'
    BY <2>1 DEF ExportInv, CursorInv, SeenInv, ReadUpTo
  <2>. QED
    BY <2>2, <2>3 DEF ExportInv
<1>2. CASE ExportNext
  BY <1>2, StoreRowKeeps, EraseRowsKeeps, BeginExportKeeps, FetchPageKeeps, SendRowKeeps DEF ExportNext
<1>. QED
  BY <1>1, <1>2

\* The stored rows, the page, the cursor and what was sent stay well typed.
THEOREM ExportTypeCorrect == ExportSpec => []ExportTypeOK
<1>1. ExportInv => ExportTypeOK
  BY DEF ExportInv
<1>. QED
  BY <1>1, ExportStarts, ExportStep, PTL DEF ExportSpec

\* A finished export holds every row that was there from its first page to its
\* last, once and in order, for any page size, any number of rows and any ties
\* of started_at (_keyset_pages, #389).
THEOREM ExportIsComplete == ExportSpec => []ExportComplete
<1>1. ExportInv => ExportComplete
  BY DEF ExportInv, CursorInv, SeenInv, InOrder, KeysOf, ExportComplete
<1>. QED
  BY <1>1, ExportStarts, ExportStep, PTL DEF ExportSpec
=============================================================================
