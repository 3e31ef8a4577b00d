----------------------- MODULE SessionMeteringProofs -----------------------
(***************************************************************************)
(* Proofs about SessionMetering for any number of requests and sessions    *)
(* and any quota, cap, timeout and calendar.                               *)
(***************************************************************************)
EXTENDS SoloMetering, TLAPS

----------------------------------------------------------------------------
(* The pure rules                                                          *)

\* elapsed_minutes is a number of minutes and never more than the time elapsed.
LEMMA ElapsedBound ==
  ASSUME NEW mark \in Time, NEW t \in Time
  PROVE  /\ Elapsed(mark, t) \in Nat
         /\ t >= mark => Elapsed(mark, t) <= t - mark
         /\ t <= mark => Elapsed(mark, t) = 0
BY ParameterAssumption DEF Elapsed, Time

\* record_usage returns a quota.
LEMMA RecordUsageType ==
  ASSUME NEW u \in Quota, NEW m \in Nat, NEW d \in Time
  PROVE  RecordUsage(u, m, d) \in Quota
<1>1. u.used \in Nat /\ d \in Date
  BY DEF Quota, Date
<1>2. (IF u.date = d THEN u.used ELSE 0) + m \in Nat
  BY <1>1
<1>. QED
  BY <1>1, <1>2 DEF RecordUsage, Quota

\* What the ORM flushes is a quota.
LEMMA FlushType ==
  ASSUME NEW row \in Quota, NEW old \in Quota, NEW new \in Quota
  PROVE  Flush(row, old, new) \in Quota
BY DEF Flush, Quota

\* register_active_day returns a streak.
LEMMA RegisterType ==
  ASSUME NEW k \in Streak, NEW d \in Time
  PROVE  RegisterActiveDay(k, d) \in Streak
BY DEF RegisterActiveDay, Streak, Date

\* A closed session, and what closing it bills.
LEMMA ClosedType ==
  ASSUME TypeOK, NEW s \in Sessions, NEW t \in Time, NEW p \in Procs
  PROVE  /\ Residual(s, t) \in Nat
         /\ Closed(s, t) \in Session
         /\ BilledCopy(p, s, t) \in Quota
<1>1. sess[s] \in Session /\ copy[p] \in Quota /\ DayOf[t] \in Time
  BY ParameterAssumption DEF TypeOK
<1>2. Residual(s, t) \in Nat
  BY <1>1, ElapsedBound DEF Residual, Session
<1>3. Closed(s, t) \in Session
  <2>1. sess[s].duration + Residual(s, t) \in Nat
    BY <1>1, <1>2 DEF Session
  <2>. QED
    BY <1>1, <2>1 DEF Closed, Session
<1>. QED
  BY <1>1, <1>2, <1>3, RecordUsageType DEF BilledCopy

\* A metered session.
LEMMA MeteredType ==
  ASSUME TypeOK, NEW s \in Sessions, NEW t \in Time, NEW m \in Nat
  PROVE  Metered(s, t, m) \in Session
<1>1. sess[s] \in Session
  BY DEF TypeOK
<1>2. sess[s].duration + m \in Nat
  BY <1>1 DEF Session
<1>. QED
  BY <1>1, <1>2 DEF Metered, Session

\* A charge keeps the history of charges a history of charges.
LEMMA ChargeType ==
  ASSUME TypeOK, NEW m \in Nat, NEW d \in Time, Charge(m, d)
  PROVE  charged' \in [Time -> Nat]
BY DEF TypeOK, Charge

----------------------------------------------------------------------------
(* Type correctness                                                        *)

\* The initial state is well typed.
LEMMA TypeInit == Init => TypeOK
<1>1. 0 \in Time /\ NewQuota \in Quota
  BY ParameterAssumption DEF NewQuota, Quota, Date, Time
<1>2. [current |-> 0, longest |-> 0, last |-> NoDate] \in Streak
  BY DEF Streak, Date
<1>3. [st |-> "none", started |-> 0, last |-> 0, endedAt |-> 0, duration |-> 0] \in Session
  BY <1>1 DEF Session
<1>. QED
  BY <1>1, <1>2, <1>3 DEF Init, TypeOK

\* Leaving keeps the locals well typed.
LEMMA LeaveType ==
  ASSUME TypeOK, NEW p \in Procs, Leave(p)
  PROVE  /\ pc' \in [Procs -> {"idle", "starting", "authed", "ending", "metering"}]
         /\ copy' \in [Procs -> Quota]
         /\ at' \in [Procs -> Time] /\ sid' \in [Procs -> Sessions] /\ mins' \in [Procs -> Nat]
<1>1. 0 \in Time /\ NewQuota \in Quota
  BY ParameterAssumption DEF NewQuota, Quota, Date, Time
<1>. QED
  BY <1>1 DEF TypeOK, Leave

\* A new session is well typed.
LEMMA CreateType ==
  ASSUME TypeOK, NEW table \in [Sessions -> Session], Create(table)
  PROVE  sess' \in [Sessions -> Session]
<1>1. [st |-> "active", started |-> now, last |-> now, endedAt |-> now, duration |-> 0] \in Session
  BY DEF TypeOK, Session
<1>. QED
  BY <1>1 DEF Create

\* Every step keeps the types.
LEMMA TypeStep == TypeOK /\ [Next]_vars => TypeOK'
<1> SUFFICES ASSUME TypeOK, [Next]_vars PROVE TypeOK'
  OBVIOUS
<1>0. now \in Time /\ DayOf[now] \in Time
  BY ParameterAssumption DEF TypeOK
<1>1. CASE UNCHANGED vars
  BY <1>1 DEF vars, TypeOK
<1>2. ASSUME NEW p \in Procs, StartAuth(p) PROVE TypeOK'
  BY <1>2 DEF StartAuth, Authenticate, TypeOK
<1>3. ASSUME NEW p \in Procs, StartRejected(p) PROVE TypeOK'
  BY <1>3, LeaveType DEF StartRejected, TypeOK
<1>4. ASSUME NEW p \in Procs, StartFresh(p) PROVE TypeOK'
  <2>1. sess' \in [Sessions -> Session]
    BY <1>4, CreateType DEF StartFresh, TypeOK
  <2>. QED
    BY <1>4, <2>1, LeaveType DEF StartFresh, TypeOK
<1>5. ASSUME NEW p \in Procs, StartReaping(p) PROVE TypeOK'
  <2>1. PICK s \in Sessions :
          /\ quota' = Flush(quota, copy[p], BilledCopy(p, s, now))
          /\ Charge(Residual(s, now), DayOf[now])
          /\ \/ sess' = [sess EXCEPT ![s] = Closed(s, now)]
             \/ Create([sess EXCEPT ![s] = Closed(s, now)])
    BY <1>5 DEF StartReaping
  <2>2. quota' \in Quota
    BY <1>0, <2>1, ClosedType, FlushType DEF TypeOK
  <2>3. [sess EXCEPT ![s] = Closed(s, now)] \in [Sessions -> Session]
    BY <1>0, ClosedType DEF TypeOK
  <2>4. sess' \in [Sessions -> Session]
    BY <2>1, <2>3, CreateType
  <2>5. charged' \in [Time -> Nat]
    BY <1>0, <2>1, ClosedType, ChargeType
  <2>. QED
    BY <1>5, <2>2, <2>4, <2>5, LeaveType DEF StartReaping, TypeOK
<1>6. ASSUME NEW p \in Procs, EndAuth(p) PROVE TypeOK'
  BY <1>6 DEF EndAuth, Authenticate, TypeOK
<1>7. ASSUME NEW p \in Procs, EndRead(p) PROVE TypeOK'
  <2>1. CASE Leave(p)
    BY <1>7, <2>1, LeaveType DEF EndRead, TypeOK
  <2>2. CASE ~Leave(p)
    BY <1>7, <2>2 DEF EndRead, TypeOK
  <2>. QED
    BY <2>1, <2>2
<1>8. ASSUME NEW p \in Procs, EndCommit(p) PROVE TypeOK'
  <2>0. sid[p] \in Sessions /\ at[p] \in Time /\ DayOf[at[p]] \in Time
    BY ParameterAssumption DEF TypeOK
  <2>1. quota' \in Quota /\ sess' \in [Sessions -> Session] /\ charged' \in [Time -> Nat]
    <3>1. CASE sess[sid[p]].st = "ended"
      BY <1>8, <3>1 DEF EndCommit, TypeOK
    <3>2. CASE sess[sid[p]].st # "ended"
      <4>1. quota' \in Quota
        BY <1>8, <2>0, <3>2, ClosedType, FlushType DEF EndCommit, TypeOK
      <4>2. sess' \in [Sessions -> Session]
        BY <1>8, <2>0, <3>2, ClosedType DEF EndCommit, TypeOK
      <4>3. charged' \in [Time -> Nat]
        BY <1>8, <2>0, <3>2, ClosedType, ChargeType DEF EndCommit
      <4>. QED
        BY <4>1, <4>2, <4>3
    <3>. QED
      BY <3>1, <3>2
  <2>. QED
    BY <1>8, <2>1, LeaveType DEF EndCommit, TypeOK
<1>9. ASSUME NEW p \in Procs, MeterRead(p) PROVE TypeOK'
  <2>1. PICK s \in Sessions, t \in Time :
          /\ sid' = [sid EXCEPT ![p] = s]
          /\ at' = [at EXCEPT ![p] = t]
          /\ mins' = [mins EXCEPT ![p] = Elapsed(sess[s].last, t)]
    BY <1>9 DEF MeterRead
  <2>2. Elapsed(sess[s].last, t) \in Nat
    BY ElapsedBound DEF TypeOK, Session
  <2>. QED
    BY <1>9, <2>1, <2>2 DEF MeterRead, TypeOK
<1>10. ASSUME NEW p \in Procs, MeterCommit(p) PROVE TypeOK'
  <2>0. sid[p] \in Sessions /\ at[p] \in Time /\ DayOf[at[p]] \in Time /\ mins[p] \in Nat
    BY ParameterAssumption DEF TypeOK
  <2>1. /\ quota' \in Quota /\ streak' \in Streak
        /\ sess' \in [Sessions -> Session] /\ charged' \in [Time -> Nat] /\ days' \in SUBSET Time
    <3>1. CASE sess[sid[p]].st = "ended"
      BY <1>10, <3>1 DEF MeterCommit, TypeOK
    <3>2. CASE sess[sid[p]].st # "ended"
      <4>1. quota' \in Quota /\ streak' \in Streak
        BY <1>10, <2>0, <3>2, RecordUsageType, RegisterType DEF MeterCommit, TypeOK
      <4>2. sess' \in [Sessions -> Session]
        BY <1>10, <2>0, <3>2, MeteredType DEF MeterCommit, TypeOK
      <4>3. charged' \in [Time -> Nat] /\ days' \in SUBSET Time
        BY <1>10, <2>0, <3>2, ChargeType DEF MeterCommit, TypeOK
      <4>. QED
        BY <4>1, <4>2, <4>3
    <3>. QED
      BY <3>1, <3>2
  <2>. QED
    BY <1>10, <2>1, LeaveType DEF MeterCommit, TypeOK
<1>11. ASSUME NEW p \in Procs, MeterFails(p) PROVE TypeOK'
  BY <1>11, LeaveType DEF MeterFails, TypeOK
<1>12. CASE SetTier
  <2>1. quota' \in Quota
    BY <1>12 DEF SetTier, TypeOK, Quota
  <2>. QED
    BY <1>12, <2>1 DEF SetTier, TypeOK, locals
<1>13. CASE Tick
  <2>1. now' \in Time
    BY <1>13, ParameterAssumption DEF Tick, TypeOK, Time
  <2>. QED
    BY <1>13, <2>1 DEF Tick, TypeOK, locals
<1>. QED
  BY <1>1, <1>2, <1>3, <1>4, <1>5, <1>6, <1>7, <1>8, <1>9, <1>10, <1>11, <1>12, <1>13 DEF Next

\* Every reachable state is well typed.
THEOREM TypeCorrect == Spec => []TypeOK
BY TypeInit, TypeStep, PTL DEF Spec

----------------------------------------------------------------------------
(* What the steps do to the sessions                                       *)

\* A step leaves the sessions alone, opens one when none is in progress, closes
\* one and perhaps opens another, or meters one that has not ended.
LEMMA SessionSteps ==
  ASSUME TypeOK, [Next]_vars
  PROVE  \/ sess' = sess
         \/ /\ \A s \in Sessions : sess[s].st # "active"
            /\ Create(sess)
         \/ \E z \in Sessions, t \in Time :
              /\ sess[z].st # "ended"
              /\ \/ sess' = [sess EXCEPT ![z] = Closed(z, t)]
                 \/ sess[z].st = "active" /\ Create([sess EXCEPT ![z] = Closed(z, t)])
         \/ \E p \in Procs :
              /\ pc[p] = "metering"
              /\ sess[sid[p]].st # "ended"
              /\ sess' = [sess EXCEPT ![sid[p]] = Metered(sid[p], at[p], mins[p])]
<1>1. CASE UNCHANGED vars
  BY <1>1 DEF vars
<1>2. ASSUME NEW p \in Procs, StartAuth(p) \/ StartRejected(p) \/ EndAuth(p) \/ EndRead(p)
                              \/ MeterRead(p) \/ MeterFails(p)
      PROVE  sess' = sess
  BY <1>2 DEF StartAuth, Authenticate, StartRejected, EndAuth, EndRead, MeterRead, MeterFails
<1>3. ASSUME NEW p \in Procs, StartFresh(p)
      PROVE  (\A s \in Sessions : sess[s].st # "active") /\ Create(sess)
  BY <1>3 DEF StartFresh
<1>4. ASSUME NEW p \in Procs, StartReaping(p)
      PROVE  \E z \in Sessions :
               /\ sess[z].st = "active"
               /\ \/ sess' = [sess EXCEPT ![z] = Closed(z, now)]
                  \/ Create([sess EXCEPT ![z] = Closed(z, now)])
  BY <1>4 DEF StartReaping
<1>5. ASSUME NEW p \in Procs, EndCommit(p)
      PROVE  \/ sess' = sess
             \/ /\ sess[sid[p]].st # "ended"
                /\ sess' = [sess EXCEPT ![sid[p]] = Closed(sid[p], at[p])]
  BY <1>5 DEF EndCommit
<1>6. ASSUME NEW p \in Procs, MeterCommit(p)
      PROVE  \/ sess' = sess
             \/ /\ pc[p] = "metering"
                /\ sess[sid[p]].st # "ended"
                /\ sess' = [sess EXCEPT ![sid[p]] = Metered(sid[p], at[p], mins[p])]
  BY <1>6 DEF MeterCommit
<1>7. CASE SetTier \/ Tick
  BY <1>7 DEF SetTier, Tick
<1>8. now \in Time /\ \A p \in Procs : sid[p] \in Sessions /\ at[p] \in Time
  BY DEF TypeOK
<1>. QED
  BY <1>1, <1>2, <1>3, <1>4, <1>5, <1>6, <1>7, <1>8 DEF Next

\* What closing and metering do to the status of a session.
LEMMA StatusAfter ==
  ASSUME TypeOK, NEW s \in Sessions, NEW t, NEW m
  PROVE  Closed(s, t).st = "ended" /\ Metered(s, t, m).st = sess[s].st
BY DEF TypeOK, Closed, Metered, Session

\* No step puts a second session in progress.
LEMMA OneActiveStep == TypeOK /\ OneActiveSession /\ [Next]_vars => OneActiveSession'
<1> SUFFICES ASSUME TypeOK, OneActiveSession, [Next]_vars,
                    NEW s \in Sessions, NEW z \in Sessions,
                    sess'[s].st = "active", sess'[z].st = "active"
             PROVE  s = z
  BY DEF OneActiveSession
<1> USE DEF TypeOK, OneActiveSession
<1>1. CASE sess' = sess
  BY <1>1
<1>2. CASE (\A y \in Sessions : sess[y].st # "active") /\ Create(sess)
  BY <1>2 DEF Create
<1>3. ASSUME NEW y \in Sessions, NEW t \in Time, sess' = [sess EXCEPT ![y] = Closed(y, t)]
      PROVE  s = z
  BY <1>3, StatusAfter
<1>4. ASSUME NEW y \in Sessions, NEW t \in Time, sess[y].st = "active",
             Create([sess EXCEPT ![y] = Closed(y, t)])
      PROVE  s = z
  <2>1. PICK n \in Sessions : \A x \in Sessions :
          x # n => sess'[x] = IF x = y THEN Closed(y, t) ELSE sess[x]
    BY <1>4 DEF Create
  <2>2. \A x \in Sessions : x # n => sess'[x].st # "active"
    <3>1. Closed(y, t).st = "ended"
      BY StatusAfter
    <3>2. \A x \in Sessions : x # y => sess[x].st # "active"
      BY <1>4
    <3>. QED
      BY <2>1, <3>1, <3>2
  <2>. QED
    BY <2>2
<1>5. ASSUME NEW p \in Procs, sess' = [sess EXCEPT ![sid[p]] = Metered(sid[p], at[p], mins[p])]
      PROVE  s = z
  BY <1>5, StatusAfter
<1>. QED
  BY <1>1, <1>2, <1>3, <1>4, <1>5, SessionSteps

\* The learner has at most one session in progress, whatever requests overlap.
THEOREM OneActive == Spec => []OneActiveSession
<1>1. Init => OneActiveSession
  BY DEF Init, OneActiveSession
<1>. QED
  BY <1>1, OneActiveStep, TypeCorrect, PTL DEF Spec

\* An ended session is never touched again.
THEOREM EndedFinal == Spec => EndedIsFinal
<1>1. TypeOK /\ [Next]_vars => [\A s \in Sessions : sess[s].st = "ended" => sess'[s] = sess[s]]_vars
  <2> SUFFICES ASSUME TypeOK, [Next]_vars, NEW s \in Sessions, sess[s].st = "ended"
               PROVE  sess'[s] = sess[s]
    OBVIOUS
  <2> USE DEF TypeOK
  <2>1. CASE Create(sess)
    BY <2>1 DEF Create
  <2>2. ASSUME NEW y \in Sessions, NEW t \in Time, sess[y].st # "ended",
               \/ sess' = [sess EXCEPT ![y] = Closed(y, t)]
               \/ Create([sess EXCEPT ![y] = Closed(y, t)])
        PROVE  sess'[s] = sess[s]
    BY <2>2 DEF Create
  <2>3. ASSUME NEW p \in Procs, sess[sid[p]].st # "ended",
               sess' = [sess EXCEPT ![sid[p]] = Metered(sid[p], at[p], mins[p])]
        PROVE  sess'[s] = sess[s]
    BY <2>3
  <2>. QED
    BY <2>1, <2>2, <2>3, SessionSteps
<1>. QED
  BY <1>1, TypeCorrect, PTL DEF Spec, EndedIsFinal

----------------------------------------------------------------------------
(* Live turns: no replayed instants                                        *)

\* The times of a session are in order.
TimesOrdered == \A s \in Sessions : sess[s].started <= sess[s].last /\ sess[s].last <= now

\* The charge fits, whether the session is new, in progress or ended.
Fits(s) ==
  sess[s].duration <= (IF sess[s].st = "ended" /\ sess[s].endedAt > sess[s].last
                       THEN sess[s].endedAt ELSE sess[s].last) - sess[s].started

\* A turn being metered is the only one of its session, its instant is not before
\* the last activity, and its charge is still the one it would compute now.
MeterIsCurrent ==
  \A p \in Procs : pc[p] = "metering" =>
    /\ at[p] <= now
    /\ \A q \in Procs : pc[q] = "metering" /\ sid[q] = sid[p] => q = p
    /\ sess[sid[p]].st # "none"
    /\ sess[sid[p]].st = "active" =>
         /\ sess[sid[p]].last <= at[p]
         /\ mins[p] = Elapsed(sess[sid[p]].last, at[p])

\* The history of active days stops at the last one, which is not after today nor
\* after the day of a turn being metered.
DaysBounded ==
  /\ streak.last = NoDate => days = {}
  /\ streak.last # NoDate =>
       /\ streak.last <= DayOf[now]
       /\ \A d \in days : d <= streak.last
       /\ \A p \in Procs : pc[p] = "metering" /\ sess[sid[p]].st = "active" =>
            streak.last <= DayOf[at[p]]

BillInv ==
  TypeOK /\ OneActiveSession /\ TimesOrdered /\ (\A s \in Sessions : Fits(s)) /\ MeterIsCurrent

\* Closing and metering keep the charge of a session within its time.
LEMMA BillingFits ==
  ASSUME TypeOK, NEW s \in Sessions, NEW t \in Time, Fits(s), sess[s].st # "ended",
         sess[s].started <= sess[s].last
  PROVE  /\ Closed(s, t).started = sess[s].started /\ Closed(s, t).last = sess[s].last
         /\ Closed(s, t).endedAt = t
         /\ Closed(s, t).duration <= (IF t > sess[s].last THEN t ELSE sess[s].last) - sess[s].started
         /\ sess[s].last <= t =>
              LET m == Elapsed(sess[s].last, t) IN
                /\ Metered(s, t, m).started = sess[s].started
                /\ Metered(s, t, m).last = t
                /\ Metered(s, t, m).duration <= t - sess[s].started
<1>1. /\ sess[s] \in Session
      /\ sess[s].last \in Nat /\ sess[s].started \in Nat /\ sess[s].duration \in Nat /\ t \in Nat
  BY DEF TypeOK, Session, Time
<1>2. /\ Elapsed(sess[s].last, t) \in Nat
      /\ t >= sess[s].last => Elapsed(sess[s].last, t) <= t - sess[s].last
      /\ t <= sess[s].last => Elapsed(sess[s].last, t) = 0
  BY <1>1, ElapsedBound DEF TypeOK, Session
<1>3. sess[s].duration <= sess[s].last - sess[s].started
  BY DEF Fits
<1>4. /\ Closed(s, t).started = sess[s].started /\ Closed(s, t).last = sess[s].last
      /\ Closed(s, t).endedAt = t
      /\ Closed(s, t).duration = sess[s].duration + Elapsed(sess[s].last, t)
  BY <1>1 DEF Closed, Residual, Session
<1>5. \A m : /\ Metered(s, t, m).started = sess[s].started
             /\ Metered(s, t, m).last = t
             /\ Metered(s, t, m).duration = sess[s].duration + m
  BY <1>1 DEF Metered, Session
<1>. QED
  BY <1>1, <1>2, <1>3, <1>4, <1>5

\* Without replayed instants every step keeps the charges within the time.
LEMMA BillStep ==
  ASSUME MaxSkew = 0
  PROVE  BillInv /\ [Next]_vars => BillInv'
<1> SUFFICES ASSUME BillInv, [Next]_vars PROVE BillInv'
  OBVIOUS
<1>0. TypeOK /\ TypeOK' /\ OneActiveSession'
  BY TypeStep, OneActiveStep DEF BillInv
<1>t. /\ now \in Int /\ \A p \in Procs : at[p] \in Time /\ at[p] \in Int /\ sid[p] \in Sessions
      /\ \A s \in Sessions : sess[s].started \in Int /\ sess[s].last \in Int /\ sess[s].last \in Time
  <2>1. \A t \in Time : t \in Int
    BY DEF Time
  <2>2. \A s \in Sessions : sess[s] \in Session
    BY <1>0 DEF TypeOK
  <2>3. \A s \in Sessions : sess[s].started \in Time /\ sess[s].last \in Time
    BY <2>2 DEF Session
  <2>. QED
    BY <1>0, <2>1, <2>3 DEF TypeOK
\* A step that touches neither the sessions nor who is metering.
<1>q. ASSUME sess' = sess, now <= now', now' \in Int,
             \A p \in Procs : pc'[p] = "metering" =>
               pc[p] = "metering" /\ at'[p] = at[p] /\ sid'[p] = sid[p] /\ mins'[p] = mins[p]
      PROVE  BillInv'
  <2>1. TimesOrdered'
    BY <1>q, <1>t DEF BillInv, TimesOrdered
  <2>2. \A s \in Sessions : Fits(s)'
    BY <1>q DEF BillInv, Fits
  <2>3. MeterIsCurrent'
    BY <1>q, <1>t DEF BillInv, MeterIsCurrent
  <2>. QED
    BY <1>0, <2>1, <2>2, <2>3 DEF BillInv
\* A step that ends the request p of which the locals are gone.
<1>l. ASSUME NEW p \in Procs, Leave(p)
      PROVE  \A q \in Procs : pc'[q] = "metering" =>
               q # p /\ pc[q] = "metering" /\ at'[q] = at[q] /\ sid'[q] = sid[q] /\ mins'[q] = mins[q]
  BY <1>0, <1>l DEF Leave, TypeOK
\* A step of p that closes the session s and perhaps opens another.
<1>c. ASSUME NEW p \in Procs, Leave(p), now' = now, NEW s \in Sessions, NEW t \in Time,
             sess[s].st # "ended",
             \/ sess' = [sess EXCEPT ![s] = Closed(s, t)]
             \/ Create([sess EXCEPT ![s] = Closed(s, t)])
      PROVE  BillInv'
  <2>0. Fits(s) /\ sess[s].started <= sess[s].last
    BY DEF BillInv, TimesOrdered
  <2>1. \A z \in Sessions :
          \/ sess'[z] = sess[z]
          \/ z = s /\ sess'[z] = Closed(s, t)
          \/ /\ sess[z].st = "none"
             /\ sess'[z] = [st |-> "active", started |-> now, last |-> now, endedAt |-> now, duration |-> 0]
    BY <1>0, <1>c DEF TypeOK, Create
  <2>2. TimesOrdered'
    BY <1>0, <1>c, <1>t, <2>0, <2>1, BillingFits DEF BillInv, TimesOrdered
  <2>3. ASSUME NEW z \in Sessions PROVE Fits(z)'
    <3>1. CASE sess'[z] = sess[z]
      BY <3>1 DEF BillInv, Fits
    <3>2. CASE z = s /\ sess'[z] = Closed(s, t)
      <4>1. Closed(s, t).st = "ended"
        BY <1>0, StatusAfter
      <4>. QED
        BY <1>0, <1>c, <2>0, <3>2, <4>1, BillingFits DEF Fits
    <3>3. CASE sess'[z] = [st |-> "active", started |-> now, last |-> now, endedAt |-> now, duration |-> 0]
      BY <1>t, <3>3 DEF Fits
    <3>. QED
      BY <2>1, <3>1, <3>2, <3>3
  <2>4. MeterIsCurrent'
    <3>1. Closed(s, t).st = "ended"
      BY <1>0, StatusAfter
    <3>2. \A q \in Procs : pc[q] = "metering" =>
            sess'[sid[q]] = sess[sid[q]] \/ sess'[sid[q]].st = "ended"
      BY <1>t, <2>1, <3>1 DEF BillInv, MeterIsCurrent
    <3>. QED
      BY <1>c, <1>l, <1>t, <3>2 DEF BillInv, MeterIsCurrent
  <2>. QED
    BY <1>0, <2>2, <2>3, <2>4 DEF BillInv
<1>1. CASE UNCHANGED vars
  BY <1>1, <1>q, <1>t DEF vars
<1>2. ASSUME NEW p \in Procs, StartAuth(p) \/ EndAuth(p) PROVE BillInv'
  BY <1>0, <1>2, <1>q, <1>t DEF StartAuth, EndAuth, Authenticate, TypeOK
<1>3. ASSUME NEW p \in Procs, StartRejected(p) \/ MeterFails(p) PROVE BillInv'
  BY <1>3, <1>l, <1>q, <1>t DEF StartRejected, MeterFails
<1>4. ASSUME NEW p \in Procs, StartFresh(p) PROVE BillInv'
  <2>1. \A z \in Sessions :
          \/ sess'[z] = sess[z]
          \/ /\ sess[z].st = "none"
             /\ sess'[z] = [st |-> "active", started |-> now, last |-> now, endedAt |-> now, duration |-> 0]
    BY <1>0, <1>4 DEF StartFresh, TypeOK, Create
  <2>2. now' = now /\ Leave(p)
    BY <1>4 DEF StartFresh
  <2>3. TimesOrdered'
    BY <1>t, <2>1, <2>2 DEF BillInv, TimesOrdered
  <2>4. \A z \in Sessions : Fits(z)'
    BY <1>t, <2>1 DEF BillInv, Fits
  <2>5. MeterIsCurrent'
    <3>1. \A q \in Procs : pc[q] = "metering" => sess'[sid[q]] = sess[sid[q]]
      BY <1>t, <2>1 DEF BillInv, MeterIsCurrent
    <3>. QED
      BY <1>l, <2>2, <3>1 DEF BillInv, MeterIsCurrent
  <2>. QED
    BY <1>0, <2>3, <2>4, <2>5 DEF BillInv
<1>5. ASSUME NEW p \in Procs, StartReaping(p) PROVE BillInv'
  <2>1. PICK s \in Sessions :
          /\ sess[s].st = "active"
          /\ \/ sess' = [sess EXCEPT ![s] = Closed(s, now)]
             \/ Create([sess EXCEPT ![s] = Closed(s, now)])
    BY <1>5 DEF StartReaping
  <2>2. Leave(p) /\ now' = now /\ now \in Time
    BY <1>0, <1>5 DEF StartReaping, TypeOK
  <2>. QED
    BY <1>c, <2>1, <2>2
<1>6. ASSUME NEW p \in Procs, EndRead(p) PROVE BillInv'
  <2>1. CASE Leave(p)
    BY <1>6, <2>1, <1>l, <1>q, <1>t DEF EndRead
  <2>2. CASE ~Leave(p)
    BY <1>0, <1>6, <2>2, <1>q, <1>t DEF EndRead, TypeOK
  <2>. QED
    BY <2>1, <2>2
<1>7. ASSUME NEW p \in Procs, EndCommit(p) PROVE BillInv'
  <2>1. CASE sess[sid[p]].st = "ended"
    BY <1>7, <2>1, <1>l, <1>q, <1>t DEF EndCommit
  <2>2. CASE sess[sid[p]].st # "ended"
    BY <1>7, <2>2, <1>c, <1>t DEF EndCommit
  <2>. QED
    BY <2>1, <2>2
<1>8. ASSUME NEW p \in Procs, MeterRead(p) PROVE BillInv'
  <2>1. PICK s \in Sessions, t \in Time :
          /\ sess[s].st = "active"
          /\ \A q \in Procs : ~(pc[q] = "metering" /\ sid[q] = s)
          /\ t <= now /\ now - t <= MaxSkew
          /\ sid' = [sid EXCEPT ![p] = s]
          /\ at' = [at EXCEPT ![p] = t]
          /\ mins' = [mins EXCEPT ![p] = Elapsed(sess[s].last, t)]
    BY <1>8 DEF MeterRead
  <2>2. t = now
    BY <1>t, <2>1 DEF Time
  <2>3. /\ sid'[p] = s /\ at'[p] = now /\ mins'[p] = Elapsed(sess[s].last, now)
        /\ \A q \in Procs : q # p =>
             pc'[q] = pc[q] /\ sid'[q] = sid[q] /\ at'[q] = at[q] /\ mins'[q] = mins[q]
    BY <1>0, <1>8, <2>1, <2>2 DEF MeterRead, TypeOK
  <2>4. UNCHANGED <<now, sess>>
    BY <1>8 DEF MeterRead
  <2>5. MeterIsCurrent'
    BY <1>t, <2>1, <2>3, <2>4 DEF BillInv, MeterIsCurrent, TimesOrdered
  <2>6. TimesOrdered' /\ \A z \in Sessions : Fits(z)'
    BY <2>4 DEF BillInv, TimesOrdered, Fits
  <2>. QED
    BY <1>0, <2>5, <2>6 DEF BillInv
<1>9. ASSUME NEW p \in Procs, MeterCommit(p) PROVE BillInv'
  <2>1. CASE sess[sid[p]].st = "ended"
    BY <1>9, <2>1, <1>l, <1>q, <1>t DEF MeterCommit
  <2>2. CASE sess[sid[p]].st # "ended"
    <3>1. /\ pc[p] = "metering" /\ now' = now /\ Leave(p)
          /\ sess' = [sess EXCEPT ![sid[p]] = Metered(sid[p], at[p], mins[p])]
      BY <1>9, <2>2 DEF MeterCommit
    <3>2. sess[sid[p]].st = "active"
      BY <1>0, <2>2, <3>1 DEF BillInv, MeterIsCurrent, TypeOK, Session
    <3>3. /\ sess[sid[p]].last <= at[p] /\ at[p] <= now
          /\ mins[p] = Elapsed(sess[sid[p]].last, at[p])
      BY <3>1, <3>2 DEF BillInv, MeterIsCurrent
    <3>4. /\ sess'[sid[p]].started = sess[sid[p]].started
          /\ sess'[sid[p]].last = at[p]
          /\ sess'[sid[p]].duration <= at[p] - sess[sid[p]].started
      <4>1. Fits(sid[p]) /\ sess[sid[p]].started <= sess[sid[p]].last
        BY <1>t DEF BillInv, TimesOrdered
      <4>. QED
        BY <1>0, <1>t, <2>2, <3>1, <3>3, <4>1, BillingFits DEF TypeOK
    <3>5. sess'[sid[p]].st = "active"
      BY <1>0, <1>t, <3>1, <3>2, StatusAfter DEF TypeOK
    <3>6. \A z \in Sessions : z # sid[p] => sess'[z] = sess[z]
      BY <1>0, <3>1 DEF TypeOK
    <3>7. TimesOrdered'
      BY <1>t, <3>1, <3>3, <3>4, <3>6 DEF BillInv, TimesOrdered
    <3>8. \A z \in Sessions : Fits(z)'
      BY <3>4, <3>5, <3>6 DEF BillInv, Fits
    <3>9. MeterIsCurrent'
      <4>1. \A q \in Procs : q # p /\ pc[q] = "metering" => sid[q] # sid[p]
        BY <3>1 DEF BillInv, MeterIsCurrent
      <4>. QED
        BY <1>l, <1>t, <3>1, <3>6, <4>1 DEF BillInv, MeterIsCurrent
    <3>. QED
      BY <1>0, <3>7, <3>8, <3>9 DEF BillInv
  <2>. QED
    BY <2>1, <2>2
<1>10. CASE SetTier
  BY <1>10, <1>q, <1>t DEF SetTier, locals
<1>11. CASE Tick
  BY <1>11, <1>q, <1>t DEF Tick, locals
<1>. QED
  BY <1>1, <1>2, <1>3, <1>4, <1>5, <1>6, <1>7, <1>8, <1>9, <1>10, <1>11 DEF Next

\* Without replayed instants no stretch of time is billed twice.
THEOREM BilledOnce == MaxSkew = 0 => (Spec => []NoIntervalBilledTwice)
<1> SUFFICES ASSUME MaxSkew = 0 PROVE Spec => []NoIntervalBilledTwice
  OBVIOUS
<1>1. Init => BillInv
  <2> SUFFICES ASSUME Init PROVE BillInv
    OBVIOUS
  <2>1. TypeOK
    BY TypeInit
  <2>. QED
    BY <2>1 DEF Init, BillInv, OneActiveSession, TimesOrdered, Fits, MeterIsCurrent
<1>2. BillInv => NoIntervalBilledTwice
  BY DEF BillInv, Fits, NoIntervalBilledTwice
<1>. QED
  BY <1>1, <1>2, BillStep, PTL DEF Spec

\* The rule of register_active_day on days that do not go back.
LEMMA StreakRule ==
  ASSUME NEW k \in Streak, NEW D \in SUBSET Time, NEW d \in Time,
         k.last = NoDate => D = {},
         k.last # NoDate =>
           /\ k.last <= d /\ (\A e \in D : e <= k.last)
           /\ k.last \in D
           /\ \A i \in 0 .. k.current - 1 : k.last - i \in D
           /\ k.last - k.current \notin D
  PROVE  /\ RegisterActiveDay(k, d).last = d
         /\ \A e \in D \cup {d} : e <= d
         /\ \A i \in 0 .. RegisterActiveDay(k, d).current - 1 : d - i \in D \cup {d}
         /\ d - RegisterActiveDay(k, d).current \notin D \cup {d}
<1> DEFINE n == RegisterActiveDay(k, d)
<1>0. d \in Int /\ (\A e \in D : e \in Int) /\ k.current \in Nat /\ d # NoDate
  BY NoDateAssumption DEF Time, Streak
<1>1. CASE k.last = d
  <2>1. n = k /\ D \cup {d} = D
    BY <1>0, <1>1 DEF RegisterActiveDay
  <2>. QED
    BY <1>0, <1>1, <2>1
<1>2. CASE k.last # d /\ k.last # NoDate /\ k.last = d - 1
  <2>1. n.last = d /\ n.current = k.current + 1
    BY <1>2 DEF RegisterActiveDay
  <2>2. \A e \in D \cup {d} : e <= d
    BY <1>0, <1>2
  <2>3. ASSUME NEW i \in 0 .. k.current PROVE d - i \in D \cup {d}
    <3>1. CASE i = 0
      BY <1>0, <3>1
    <3>2. CASE i # 0
      <4>1. i - 1 \in 0 .. k.current - 1
        BY <1>0, <3>2
      <4>2. k.last - (i - 1) = d - i
        BY <1>0, <1>2
      <4>. QED
        BY <1>2, <4>1, <4>2
    <3>. QED
      BY <3>1, <3>2
  <2>4. d - (k.current + 1) = k.last - k.current /\ d - (k.current + 1) # d
    BY <1>0, <1>2
  <2>5. (k.current + 1) - 1 = k.current
    BY <1>0
  <2>. QED
    BY <1>2, <2>1, <2>2, <2>3, <2>4, <2>5
<1>3. CASE k.last # d /\ ~(k.last # NoDate /\ k.last = d - 1)
  <2>1. n.last = d /\ n.current = 1
    BY <1>3 DEF RegisterActiveDay
  <2>0. k.last # NoDate => k.last \in Int /\ k.last <= d
    BY <1>0
  <2>2. k.last # NoDate => k.last < d - 1
    BY <1>0, <1>3, <2>0
  <2>3. \A e \in D : e < d - 1
    BY <1>0, <2>0, <2>2
  <2>4. \A i \in 0 .. 1 - 1 : d - i = d
    BY <1>0
  <2>5. d - 1 \notin D \cup {d} /\ \A e \in D \cup {d} : e <= d
    BY <1>0, <2>3
  <2>. QED
    BY <2>1, <2>4, <2>5
<1>. QED
  BY <1>1, <1>2, <1>3

\* Without replayed instants the days of activity arrive in order.
LEMMA DaysStep ==
  ASSUME MaxSkew = 0
  PROVE  BillInv /\ DaysBounded /\ StreakIsRun /\ [Next]_vars => DaysBounded' /\ StreakIsRun'
<1> SUFFICES ASSUME BillInv, DaysBounded, StreakIsRun, [Next]_vars
             PROVE  DaysBounded' /\ StreakIsRun'
  OBVIOUS
<1>0. TypeOK /\ TypeOK' /\ BillInv'
  BY BillStep, TypeStep DEF BillInv
<1>t. /\ now \in Time /\ now' \in Time
      /\ \A p \in Procs : at[p] \in Time /\ DayOf[at[p]] \in Time /\ DayOf[at[p]] \in Int
      /\ DayOf[now] \in Int /\ DayOf[now'] \in Int
      /\ streak.last # NoDate => streak.last \in Int
      /\ \A x, y \in Time : x <= y => DayOf[x] <= DayOf[y]
  <2>1. \A t \in Time : t \in Int /\ DayOf[t] \in Time
    BY ParameterAssumption DEF Time
  <2>2. streak.last # NoDate => streak.last \in Time
    BY <1>0 DEF TypeOK, Streak, Date
  <2>. QED
    BY <1>0, <2>1, <2>2, ParameterAssumption DEF TypeOK
\* A step that leaves the streak and starts no metering.
<1>q. ASSUME UNCHANGED <<streak, days>>, now <= now',
             \A p \in Procs : pc'[p] = "metering" =>
               /\ pc[p] = "metering" /\ at'[p] = at[p] /\ sid'[p] = sid[p]
               /\ sess'[sid[p]].st = "active" => sess[sid[p]].st = "active"
      PROVE  DaysBounded' /\ StreakIsRun'
  <2>1. DayOf[now] <= DayOf[now']
    BY <1>q, <1>t
  <2>2. DaysBounded'
    BY <1>q, <1>t, <2>1 DEF DaysBounded
  <2>. QED
    BY <1>q, <2>2 DEF StreakIsRun
<1>l. ASSUME NEW p \in Procs, Leave(p)
      PROVE  \A q \in Procs : pc'[q] = "metering" =>
               q # p /\ pc[q] = "metering" /\ at'[q] = at[q] /\ sid'[q] = sid[q]
  BY <1>0, <1>l DEF Leave, TypeOK
\* A session being metered is not one that a start may create.
<1>s. ASSUME NEW p \in Procs, pc[p] = "metering", sess'[sid[p]].st = "active"
      PROVE  sess[sid[p]].st = "active"
  <2>1. sid[p] \in Sessions /\ sess[sid[p]].st # "none"
    BY <1>0, <1>s DEF BillInv, MeterIsCurrent, TypeOK
  <2>2. sess[sid[p]].st \in {"none", "active", "ended"}
    BY <1>0, <2>1 DEF TypeOK, Session
  <2>3. sess[sid[p]].st = "ended" => sess'[sid[p]] = sess[sid[p]]
    <3> SUFFICES ASSUME sess[sid[p]].st = "ended" PROVE sess'[sid[p]] = sess[sid[p]]
      OBVIOUS
    <3>1. CASE Create(sess)
      BY <1>0, <2>1, <3>1 DEF Create, TypeOK
    <3>2. ASSUME NEW y \in Sessions, NEW t \in Time, sess[y].st # "ended",
                 \/ sess' = [sess EXCEPT ![y] = Closed(y, t)]
                 \/ Create([sess EXCEPT ![y] = Closed(y, t)])
          PROVE  sess'[sid[p]] = sess[sid[p]]
      BY <1>0, <2>1, <3>2 DEF Create, TypeOK
    <3>3. ASSUME NEW q \in Procs, sess[sid[q]].st # "ended",
                 sess' = [sess EXCEPT ![sid[q]] = Metered(sid[q], at[q], mins[q])]
          PROVE  sess'[sid[p]] = sess[sid[p]]
      BY <1>0, <2>1, <3>3 DEF TypeOK
    <3>. QED
      BY <1>0, <3>1, <3>2, <3>3, SessionSteps
  <2>. QED
    BY <1>s, <2>1, <2>2, <2>3
<1>n. now \in Int
  BY <1>t DEF Time
<1>1. CASE UNCHANGED vars
  BY <1>1, <1>q, <1>n DEF vars
<1>2. ASSUME NEW p \in Procs, StartAuth(p) \/ EndAuth(p) PROVE DaysBounded' /\ StreakIsRun'
  BY <1>0, <1>2, <1>q, <1>n DEF StartAuth, EndAuth, Authenticate, TypeOK
<1>3. ASSUME NEW p \in Procs, \/ StartRejected(p) \/ MeterFails(p) \/ StartFresh(p)
                              \/ StartReaping(p) \/ EndCommit(p)
      PROVE  DaysBounded' /\ StreakIsRun'
  BY <1>3, <1>l, <1>s, <1>q, <1>n DEF StartRejected, MeterFails, StartFresh, StartReaping, EndCommit
<1>4. ASSUME NEW p \in Procs, EndRead(p) PROVE DaysBounded' /\ StreakIsRun'
  <2>1. CASE Leave(p)
    BY <1>4, <2>1, <1>l, <1>q, <1>n DEF EndRead
  <2>2. CASE ~Leave(p)
    BY <1>0, <1>4, <2>2, <1>q, <1>n DEF EndRead, TypeOK
  <2>. QED
    BY <2>1, <2>2
<1>5. ASSUME NEW p \in Procs, MeterRead(p) PROVE DaysBounded' /\ StreakIsRun'
  <2>1. /\ UNCHANGED <<now, sess, streak, days>>
        /\ at'[p] = now
        /\ \A q \in Procs : q # p => pc'[q] = pc[q] /\ sid'[q] = sid[q] /\ at'[q] = at[q]
    BY <1>0, <1>5, <1>n DEF MeterRead, TypeOK, Time
  <2>2. DaysBounded'
    BY <2>1 DEF DaysBounded
  <2>. QED
    BY <2>1, <2>2 DEF StreakIsRun
<1>6. ASSUME NEW p \in Procs, MeterCommit(p) PROVE DaysBounded' /\ StreakIsRun'
  <2>1. CASE sess[sid[p]].st = "ended"
    BY <1>6, <2>1, <1>l, <1>q, <1>n DEF MeterCommit
  <2>2. CASE sess[sid[p]].st # "ended"
    <3> DEFINE d == DayOf[at[p]]
    <3>1. /\ pc[p] = "metering" /\ now' = now /\ Leave(p)
          /\ streak' = RegisterActiveDay(streak, d) /\ days' = days \cup {d}
          /\ sess' = [sess EXCEPT ![sid[p]] = Metered(sid[p], at[p], mins[p])]
      BY <1>6, <2>2 DEF MeterCommit
    <3>2. sess[sid[p]].st = "active" /\ at[p] <= now /\ sid[p] \in Sessions
      BY <1>0, <2>2, <3>1 DEF BillInv, MeterIsCurrent, TypeOK, Session
    <3>3. d <= DayOf[now] /\ (streak.last # NoDate => streak.last <= d)
      BY <1>t, <3>1, <3>2 DEF DaysBounded
    <3>4. /\ streak'.last = d
          /\ \A e \in days' : e <= d
          /\ \A i \in 0 .. streak'.current - 1 : d - i \in days'
          /\ d - streak'.current \notin days'
      <4>1. streak \in Streak /\ days \in SUBSET Time /\ d \in Time
        BY <1>0, <1>t DEF TypeOK
      <4>2. QED
        <5>1. streak.last = NoDate => days = {}
          BY DEF DaysBounded
        <5>2. streak.last # NoDate =>
                /\ streak.last <= d /\ (\A e \in days : e <= streak.last)
                /\ streak.last \in days
                /\ \A i \in 0 .. streak.current - 1 : streak.last - i \in days
                /\ streak.last - streak.current \notin days
          BY <3>3 DEF DaysBounded, StreakIsRun
        <5>. QED
          BY <3>1, <4>1, <5>1, <5>2, StreakRule
    <3>5. ASSUME NEW q \in Procs, pc'[q] = "metering", sess'[sid'[q]].st = "active" PROVE FALSE
      <4>1. q # p /\ pc[q] = "metering" /\ sid'[q] = sid[q]
        BY <1>l, <3>1, <3>5
      <4>2. sess[sid[q]].st = "active" /\ sid[q] \in Sessions
        BY <1>0, <1>s, <3>5, <4>1 DEF TypeOK
      <4>3. sid[q] = sid[p]
        BY <3>2, <4>2 DEF BillInv, OneActiveSession
      <4>. QED
        BY <3>1, <4>1, <4>3 DEF BillInv, MeterIsCurrent
    <3>6. d \in days' /\ d # NoDate
      BY <1>t, <3>1, NoDateAssumption
    <3>. QED
      BY <3>1, <3>3, <3>4, <3>5, <3>6 DEF DaysBounded, StreakIsRun
  <2>. QED
    BY <2>1, <2>2
<1>7. CASE SetTier
  BY <1>7, <1>q, <1>n DEF SetTier, locals
<1>8. CASE Tick
  BY <1>8, <1>q, <1>n DEF Tick, locals
<1>. QED
  BY <1>1, <1>2, <1>3, <1>4, <1>5, <1>6, <1>7, <1>8 DEF Next

\* Without replayed instants the stored streak is the run of active days.
THEOREM StreakExact == MaxSkew = 0 => (Spec => []StreakIsRun)
<1> SUFFICES ASSUME MaxSkew = 0 PROVE Spec => []StreakIsRun
  OBVIOUS
<1>1. Init => BillInv /\ DaysBounded /\ StreakIsRun
  <2> SUFFICES ASSUME Init PROVE BillInv /\ DaysBounded /\ StreakIsRun
    OBVIOUS
  <2>1. TypeOK
    BY TypeInit
  <2>2. BillInv
    BY <2>1 DEF Init, BillInv, OneActiveSession, TimesOrdered, Fits, MeterIsCurrent
  <2>. QED
    BY <2>2 DEF Init, DaysBounded, StreakIsRun
<1>. QED
  BY <1>1, BillStep, DaysStep, PTL DEF Spec
----------------------------------------------------------------------------
(* One request at a time                                                   *)

\* The quota u is what the charges c have on its day, and no later day has any.
ExactQuota(u, c) ==
  /\ u.date = NoDate => u.used = 0 /\ \A d \in Time : c[d] = 0
  /\ u.date # NoDate => u.used = c[u.date] /\ \A d \in Time : d > u.date => c[d] = 0

\* The day of the quota is not after the instant t.
NotAfter(u, t) == u.date # NoDate => u.date <= DayOf[t]

\* The quota columns a request has loaded are those of the row: the tier apart,
\* nobody has written them since.
SameColumns(p) == copy[p].used = quota.used /\ copy[p].date = quota.date

\* What holds as long as no two requests have overlapped.
AloneInv ==
  /\ \A p, q \in Procs : pc[p] # "idle" /\ pc[q] # "idle" => p = q
  /\ \A p \in Procs : pc[p] \in {"starting", "authed", "ending"} => SameColumns(p)
  /\ \A p \in Procs : pc[p] \in {"ending", "metering"} => at[p] <= now /\ NotAfter(quota, at[p])
  /\ ExactQuota(quota, charged) /\ NotAfter(quota, now)

QuotaInv == TypeOK /\ (overlapped \/ AloneInv)

\* record_usage of a day that is not before the quota's keeps the quota exact, when
\* the day changes too; a charge of nothing changes nothing.
LEMMA UsageIsExact ==
  ASSUME NEW u \in Quota, NEW c \in [Time -> Nat], NEW m \in Nat, NEW t \in Time,
         ExactQuota(u, c), NotAfter(u, t)
  PROVE  /\ ExactQuota(RecordUsage(u, m, DayOf[t]), [c EXCEPT ![DayOf[t]] = @ + m])
         /\ NotAfter(RecordUsage(u, m, DayOf[t]), t)
         /\ m = 0 => [c EXCEPT ![DayOf[t]] = @ + m] = c
<1>1. DayOf[t] \in Time /\ DayOf[t] \in Int /\ DayOf[t] # NoDate
  BY ParameterAssumption, NoDateAssumption DEF Time
<1>2. u.used \in Nat /\ (u.date # NoDate => u.date \in Time /\ u.date \in Int)
  <2>1. u.used \in Nat /\ u.date \in Date
    BY DEF Quota
  <2>2. \A d \in Time : d \in Int
    BY DEF Time
  <2>. QED
    BY <2>1, <2>2, Zenon DEF Date
<1>. DEFINE w == RecordUsage(u, m, DayOf[t])
            e == [c EXCEPT ![DayOf[t]] = @ + m]
<1>3. w.date = DayOf[t] /\ w.used = (IF u.date = DayOf[t] THEN u.used ELSE 0) + m
  BY DEF RecordUsage, Quota
<1>4. /\ e[DayOf[t]] = c[DayOf[t]] + m
      /\ \A d \in Time : d > DayOf[t] => e[d] = c[d]
  BY <1>1 DEF Time
<1>5. c[DayOf[t]] = IF u.date = DayOf[t] THEN u.used ELSE 0
  BY <1>1, <1>2 DEF ExactQuota, NotAfter
<1>6. \A d \in Time : d > DayOf[t] => c[d] = 0
  BY <1>1, <1>2 DEF ExactQuota, NotAfter, Time
<1>7. ExactQuota(w, e)
  BY <1>1, <1>2, <1>3, <1>4, <1>5, <1>6 DEF ExactQuota
<1>8. NotAfter(w, t)
  BY <1>1, <1>3 DEF NotAfter
<1>9. m = 0 => e = c
  BY <1>1
<1>. QED
  BY <1>7, <1>8, <1>9

\* Closing a session for the only request there is: its copy is the row, so what is
\* flushed is exact.
LEMMA CloseIsExact ==
  ASSUME TypeOK, NEW p \in Procs, NEW s \in Sessions, NEW t \in Time,
         SameColumns(p), ExactQuota(quota, charged), NotAfter(quota, t),
         quota' = Flush(quota, copy[p], BilledCopy(p, s, t)),
         Charge(Residual(s, t), DayOf[t])
  PROVE  ExactQuota(quota, charged)' /\ NotAfter(quota', t)
<1>. DEFINE b == BilledCopy(p, s, t)
            m == Residual(s, t)
<1>1. /\ quota \in Quota /\ copy[p] \in Quota /\ b \in Quota /\ m \in Nat
      /\ charged \in [Time -> Nat] /\ DayOf[t] \in Time
  BY ClosedType, ParameterAssumption DEF TypeOK
<1>2. quota'.used = b.used /\ quota'.date = b.date
  BY <1>1 DEF Flush, SameColumns, Quota
<1>3. charged' = [charged EXCEPT ![DayOf[t]] = @ + m]
  BY DEF Charge
<1>4. ExactQuota(copy[p], charged) /\ NotAfter(copy[p], t)
  BY DEF ExactQuota, NotAfter, SameColumns
<1>5. ExactQuota(b, charged') /\ NotAfter(b, t)
  <2>1. CASE m > 0
    BY <1>1, <1>3, <1>4, <2>1, UsageIsExact DEF BilledCopy
  <2>2. CASE m = 0
    BY <1>1, <1>3, <1>4, <2>2, UsageIsExact DEF BilledCopy
  <2>. QED
    BY <1>1, <2>1, <2>2
<1>. QED
  BY <1>2, <1>5 DEF ExactQuota, NotAfter

\* A request that leaves, the only one there was, leaves none behind.
LEMMA LeaveAlone ==
  ASSUME TypeOK, NEW p \in Procs, pc[p] # "idle",
         \A q \in Procs : pc[q] # "idle" => q = p, Leave(p)
  PROVE  \A q \in Procs : pc'[q] = "idle"
BY DEF Leave, TypeOK

\* Every step of live requests that do not overlap keeps the quota exact.
LEMMA QuotaStep ==
  ASSUME MaxSkew = 0
  PROVE  QuotaInv /\ [MeteringNext]_<<vars, overlapped>> => QuotaInv'
<1>. SUFFICES ASSUME QuotaInv, [MeteringNext]_<<vars, overlapped>> PROVE QuotaInv'
  OBVIOUS
<1>0. TypeOK /\ TypeOK'
  BY TypeStep DEF QuotaInv, MeteringNext, vars
<1>1. CASE UNCHANGED <<vars, overlapped>>
  <2>1. AloneInv => AloneInv'
    BY <1>1 DEF vars, AloneInv, SameColumns, ExactQuota, NotAfter
  <2>. QED
    BY <1>0, <1>1, <2>1 DEF QuotaInv
<1>2. CASE MeteringNext
  <2>. SUFFICES ASSUME ~overlapped' PROVE AloneInv'
    BY <1>0 DEF QuotaInv
  <2>0. /\ Next /\ AloneInv
        /\ \A p, q \in Procs : pc'[p] # "idle" /\ pc'[q] # "idle" => p = q
    BY <1>2 DEF MeteringNext, QuotaInv
  <2>t. now \in Time /\ now \in Int /\ \A p \in Procs : at[p] \in Time /\ at[p] \in Int /\ sid[p] \in Sessions
    BY <1>0 DEF TypeOK, Time
  <2>d. \A t, v \in Time : t <= v /\ NotAfter(quota, t) => NotAfter(quota, v)
    <3>1. \A t, v \in Time : t <= v => DayOf[t] <= DayOf[v]
      BY ParameterAssumption
    <3>2. \A t \in Time : DayOf[t] \in Int
      BY ParameterAssumption DEF Time
    <3>3. quota.date = NoDate \/ quota.date \in Int
      BY <1>0 DEF TypeOK, Quota, Date, Time
    <3>. QED
      BY <3>1, <3>2, <3>3 DEF NotAfter
  \* The only request there is leaves, and the quota is exact.
  <2>l. ASSUME NEW p \in Procs, pc[p] # "idle", Leave(p), now' = now,
               ExactQuota(quota, charged)', NotAfter(quota', now)
        PROVE  AloneInv'
    <3>1. \A q \in Procs : pc'[q] = "idle"
      BY <1>0, <2>0, <2>l, LeaveAlone DEF AloneInv
    <3>. QED
      BY <2>l, <3>1 DEF AloneInv, NotAfter
  <2>1. ASSUME NEW p \in Procs, StartAuth(p) \/ EndAuth(p) PROVE AloneInv'
    <3>1. /\ pc'[p] \in {"starting", "authed"} /\ copy'[p] = quota
          /\ \A q \in Procs : q # p => pc'[q] = pc[q]
          /\ now' = now /\ quota' = quota /\ charged' = charged
      BY <1>0, <2>1 DEF StartAuth, EndAuth, Authenticate, TypeOK
    <3>2. \A q \in Procs : pc'[q] # "idle" => q = p
      BY <2>0, <3>1
    <3>. QED
      BY <2>0, <3>1, <3>2 DEF AloneInv, SameColumns, ExactQuota, NotAfter
  <2>2. ASSUME NEW p \in Procs, StartRejected(p) \/ StartFresh(p) \/ MeterFails(p) PROVE AloneInv'
    <3>1. pc[p] # "idle" /\ Leave(p) /\ now' = now /\ quota' = quota /\ charged' = charged
      BY <2>2 DEF StartRejected, StartFresh, MeterFails
    <3>. QED
      BY <2>0, <2>l, <3>1 DEF AloneInv, ExactQuota, NotAfter
  <2>3. ASSUME NEW p \in Procs, StartReaping(p) PROVE AloneInv'
    <3>1. PICK s \in Sessions :
            /\ quota' = Flush(quota, copy[p], BilledCopy(p, s, now))
            /\ Charge(Residual(s, now), DayOf[now])
      BY <2>3 DEF StartReaping
    <3>2. pc[p] = "starting" /\ Leave(p) /\ now' = now
      BY <2>3 DEF StartReaping
    <3>3. SameColumns(p) /\ ExactQuota(quota, charged) /\ NotAfter(quota, now)
      BY <2>0, <3>2 DEF AloneInv
    <3>4. ExactQuota(quota, charged)' /\ NotAfter(quota', now)
      BY <1>0, <2>t, <3>1, <3>3, CloseIsExact
    <3>. QED
      BY <2>l, <3>2, <3>4
  <2>4. ASSUME NEW p \in Procs, EndRead(p) PROVE AloneInv'
    <3>1. now' = now /\ quota' = quota /\ charged' = charged /\ pc[p] = "authed"
      BY <2>4 DEF EndRead
    <3>2. CASE Leave(p)
      BY <2>0, <2>l, <3>1, <3>2 DEF AloneInv, ExactQuota, NotAfter
    <3>3. CASE ~Leave(p)
      <4>1. /\ pc'[p] = "ending" /\ at'[p] = now /\ copy' = copy
            /\ \A q \in Procs : q # p => pc'[q] = pc[q]
        BY <1>0, <2>4, <3>3 DEF EndRead, TypeOK
      <4>2. \A q \in Procs : pc'[q] # "idle" => q = p
        BY <2>0, <4>1
      <4>3. SameColumns(p) /\ ExactQuota(quota, charged) /\ NotAfter(quota, now)
        BY <2>0, <3>1 DEF AloneInv
      <4>4. SameColumns(p)' /\ at'[p] <= now' /\ NotAfter(quota, at[p])'
        BY <2>t, <3>1, <4>1, <4>3 DEF SameColumns, NotAfter
      <4>5. ExactQuota(quota, charged)' /\ NotAfter(quota, now)'
        BY <3>1, <4>3 DEF ExactQuota, NotAfter
      <4>6. \A q \in Procs : /\ pc'[q] \in {"starting", "authed", "ending"} => SameColumns(q)'
                             /\ pc'[q] \in {"ending", "metering"} => at'[q] <= now' /\ NotAfter(quota, at[q])'
        BY <4>2, <4>4
      <4>. QED
        BY <2>0, <4>5, <4>6 DEF AloneInv
    <3>. QED
      BY <3>2, <3>3
  <2>5. ASSUME NEW p \in Procs, EndCommit(p) PROVE AloneInv'
    <3>1. pc[p] = "ending" /\ Leave(p) /\ now' = now
      BY <2>5 DEF EndCommit
    <3>2. /\ SameColumns(p) /\ ExactQuota(quota, charged)
          /\ at[p] <= now /\ NotAfter(quota, at[p]) /\ NotAfter(quota, now)
      BY <2>0, <3>1 DEF AloneInv
    <3>3. CASE sess[sid[p]].st = "ended"
      BY <2>5, <2>l, <3>1, <3>2, <3>3 DEF EndCommit, ExactQuota, NotAfter
    <3>4. CASE sess[sid[p]].st # "ended"
      <4>1. /\ quota' = Flush(quota, copy[p], BilledCopy(p, sid[p], at[p]))
            /\ Charge(Residual(sid[p], at[p]), DayOf[at[p]])
        BY <2>5, <3>4 DEF EndCommit
      <4>2. ExactQuota(quota, charged)' /\ NotAfter(quota', at[p])
        BY <1>0, <2>t, <3>2, <4>1, CloseIsExact
      <4>3. NotAfter(quota', now)
        <5>1. DayOf[at[p]] <= DayOf[now] /\ DayOf[at[p]] \in Int /\ DayOf[now] \in Int
          BY <2>t, <3>2, ParameterAssumption DEF Time
        <5>2. quota'.date = NoDate \/ quota'.date \in Int
          BY <1>0 DEF TypeOK, Quota, Date, Time
        <5>. QED
          BY <4>2, <5>1, <5>2 DEF NotAfter
      <4>. QED
        BY <2>l, <3>1, <4>2, <4>3
    <3>. QED
      BY <3>3, <3>4
  <2>6. ASSUME NEW p \in Procs, MeterRead(p) PROVE AloneInv'
    <3>1. PICK t \in Time : t <= now /\ now - t <= MaxSkew /\ at' = [at EXCEPT ![p] = t]
      BY <2>6 DEF MeterRead
    <3>2. t = now
      BY <2>t, <3>1 DEF Time
    <3>3. /\ pc'[p] = "metering" /\ at'[p] = now
          /\ \A q \in Procs : q # p => pc'[q] = pc[q]
          /\ now' = now /\ quota' = quota /\ charged' = charged
      BY <1>0, <2>6, <3>1, <3>2 DEF MeterRead, TypeOK
    <3>4. \A q \in Procs : pc'[q] # "idle" => q = p
      BY <2>0, <3>3
    <3>. QED
      BY <2>0, <2>t, <3>3, <3>4 DEF AloneInv, ExactQuota, NotAfter
  <2>7. ASSUME NEW p \in Procs, MeterCommit(p) PROVE AloneInv'
    <3>1. pc[p] = "metering" /\ Leave(p) /\ now' = now
      BY <2>7 DEF MeterCommit
    <3>2. /\ ExactQuota(quota, charged)
          /\ at[p] <= now /\ NotAfter(quota, at[p]) /\ NotAfter(quota, now)
      BY <2>0, <3>1 DEF AloneInv
    <3>3. CASE sess[sid[p]].st = "ended"
      BY <2>7, <2>l, <3>1, <3>2, <3>3 DEF MeterCommit, ExactQuota, NotAfter
    <3>4. CASE sess[sid[p]].st # "ended"
      <4>1. /\ quota' = IF mins[p] > 0 THEN RecordUsage(quota, mins[p], DayOf[at[p]]) ELSE quota
            /\ charged' = [charged EXCEPT ![DayOf[at[p]]] = @ + mins[p]]
        BY <2>7, <3>4 DEF MeterCommit, Charge
      <4>2. quota \in Quota /\ charged \in [Time -> Nat] /\ mins[p] \in Nat
        BY <1>0 DEF TypeOK
      <4>3. /\ ExactQuota(RecordUsage(quota, mins[p], DayOf[at[p]]), charged')
            /\ NotAfter(RecordUsage(quota, mins[p], DayOf[at[p]]), at[p])
            /\ mins[p] = 0 => charged' = charged
        BY <2>t, <3>2, <4>1, <4>2, UsageIsExact
      <4>4. ExactQuota(quota, charged)' /\ NotAfter(quota', at[p])
        <5>1. CASE mins[p] > 0
          BY <4>1, <4>3, <5>1 DEF ExactQuota, NotAfter
        <5>2. CASE mins[p] = 0
          BY <3>2, <4>1, <4>3, <5>2 DEF ExactQuota, NotAfter
        <5>. QED
          BY <4>2, <5>1, <5>2
      <4>5. NotAfter(quota', now)
        <5>1. DayOf[at[p]] <= DayOf[now] /\ DayOf[at[p]] \in Int /\ DayOf[now] \in Int
          BY <2>t, <3>2, ParameterAssumption DEF Time
        <5>2. quota'.date = NoDate \/ quota'.date \in Int
          BY <1>0 DEF TypeOK, Quota, Date, Time
        <5>. QED
          BY <4>4, <5>1, <5>2 DEF NotAfter
      <4>. QED
        BY <2>l, <3>1, <4>4, <4>5
    <3>. QED
      BY <3>3, <3>4
  <2>8. CASE SetTier
    <3>1. quota'.used = quota.used /\ quota'.date = quota.date
      BY <1>0, <2>8 DEF SetTier, TypeOK, Quota
    <3>. QED
      BY <2>0, <2>8, <3>1 DEF SetTier, locals, AloneInv, SameColumns, ExactQuota, NotAfter
  <2>9. CASE Tick
    <3>1. now' = now + 1 /\ now' \in Time
      BY <1>0, <2>9 DEF Tick, TypeOK
    <3>2. NotAfter(quota, now')
      BY <2>0, <2>d, <2>t, <3>1 DEF AloneInv
    <3>. QED
      BY <2>0, <2>9, <2>t, <3>1, <3>2 DEF Tick, locals, AloneInv, SameColumns, ExactQuota, NotAfter
  <2>. QED
    BY <2>0, <2>1, <2>2, <2>3, <2>4, <2>5, <2>6, <2>7, <2>8, <2>9 DEF Next
<1>. QED
  BY <1>1, <1>2

\* For live requests that never overlap the quota counter of the day is exactly what
\* was charged on it: across midnight, the reaper and changes of tier (record_usage,
\* _close_session).
THEOREM QuotaExactAlone == MaxSkew = 0 => (MeteringSpec => []QuotaIsExactAlone)
<1>. SUFFICES ASSUME MaxSkew = 0 PROVE MeteringSpec => []QuotaIsExactAlone
  OBVIOUS
<1>1. MeteringInit => QuotaInv
  <2>. SUFFICES ASSUME MeteringInit PROVE QuotaInv
    OBVIOUS
  <2>1. TypeOK
    BY TypeInit DEF MeteringInit
  <2>2. AloneInv
    BY DEF MeteringInit, Init, NewQuota, AloneInv, ExactQuota, NotAfter
  <2>. QED
    BY <2>1, <2>2 DEF QuotaInv
<1>2. QuotaInv /\ [MeteringNext]_<<vars, overlapped>> => QuotaInv'
  BY QuotaStep
<1>3. QuotaInv => QuotaIsExactAlone
  BY DEF QuotaInv, AloneInv, ExactQuota, QuotaIsExactAlone, QuotaIsExact
<1>. QED
  BY <1>1, <1>2, <1>3, PTL DEF MeteringSpec
=============================================================================
