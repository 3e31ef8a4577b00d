-------------------------- MODULE SessionMetering --------------------------
(***************************************************************************)
(* One learner's practice sessions, daily quota and streak: start, end and *)
(* record_turn_activity of sessions/service.py, core/quota.py,             *)
(* streaks/logic.py, and the tier change of billing/service.py.            *)
(*                                                                         *)
(* Time is counted in ticks; a tick stands for the unit in which the cap   *)
(* and the inactivity timeout are given.  From the moment a request holds  *)
(* the row lock of the user (SELECT ... FOR UPDATE) to its commit nothing  *)
(* else writes the user or the user's sessions, so that stretch is one     *)
(* step.  What was read before the lock, and is used after it, is kept in  *)
(* the locals of the request.                                              *)
(***************************************************************************)
EXTENDS Integers

CONSTANTS
  Procs,        \* requests in flight
  Sessions,     \* session ids
  NoDate,       \* a date column that is NULL
  FreeDaily,    \* free_daily_minutes
  Cap,          \* turn_meter_cap_minutes
  Timeout,      \* inactivity_timeout_minutes
  MaxSkew,      \* how far back practiced_at may lie; 0: every turn is live
  DayOf,        \* the UTC date of an instant, as a number of days
  MaxTime       \* bound: the clock stops here

Time == 0 .. MaxTime

ASSUME ParameterAssumption ==
  /\ FreeDaily \in Nat /\ Cap \in Nat /\ Timeout \in Nat /\ MaxSkew \in Nat
  /\ MaxTime \in Nat
  /\ DayOf \in [Time -> Time]
  /\ \A s, t \in Time : s <= t => DayOf[s] <= DayOf[t]
ASSUME NoDateAssumption == NoDate \notin Int

VARIABLES
  now,       \* the server clock
  quota,     \* the users row: quota_date, minutes_used_today, tier
  streak,    \* the users row: current_streak, longest_streak, last_active_date
  sess,      \* the sessions rows of the user
  pc,        \* where each request is
  copy,      \* the quota columns each request loaded when it was authenticated
  at,        \* the instant each request works with
  sid,       \* the session each request is about
  mins,      \* the charge record_turn_activity computed before the lock
  charged,   \* (history) minutes charged per day
  days       \* (history) days with a metered turn

vars == <<now, quota, streak, sess, pc, copy, at, sid, mins, charged, days>>
locals == <<pc, copy, at, sid, mins>>

Date == Time \cup {NoDate}

Quota == [date : Date, used : Nat, tier : {"free", "premium"}]
Streak == [current : Nat, longest : Nat, last : Date]
Session == [st : {"none", "active", "ended"}, started : Time, last : Time, endedAt : Time,
            duration : Nat]

TypeOK ==
  /\ now \in Time
  /\ quota \in Quota
  /\ streak \in Streak
  /\ sess \in [Sessions -> Session]
  /\ pc \in [Procs -> {"idle", "starting", "authed", "ending", "metering"}]
  /\ copy \in [Procs -> Quota]
  /\ at \in [Procs -> Time]
  /\ sid \in [Procs -> Sessions]
  /\ mins \in [Procs -> Nat]
  /\ charged \in [Time -> Nat]
  /\ days \in SUBSET Time

----------------------------------------------------------------------------
(* Pure rules                                                              *)

\* elapsed_minutes: never negative, never more than the cap.
Elapsed(mark, t) == IF t <= mark THEN 0 ELSE IF t - mark > Cap THEN Cap ELSE t - mark

\* is_stale: strictly longer than the timeout, no cap.
IsStale(mark, t) == t - mark > Timeout

\* quota.remaining_minutes <= 0.
Exhausted(u, today) == u.tier = "free" /\ u.date = today /\ u.used >= FreeDaily

\* Faulty variant: the day rolls over and the minutes stay.
RecordUsageKeeping(u, m, today) == [u EXCEPT !.date = today, !.used = u.used + m]

\* quota.record_usage: the counter restarts when the day changes.
RecordUsage(u, m, today) ==
  [u EXCEPT !.date = today, !.used = (IF u.date = today THEN u.used ELSE 0) + m]

\* Faulty variant: a second turn of the day is registered again.
RegisterEveryTurn(k, today) ==
  LET current == IF k.last # NoDate /\ k.last = today - 1 THEN k.current + 1 ELSE 1
  IN [current |-> current, longest |-> IF k.longest > current THEN k.longest ELSE current,
      last |-> today]

\* register_active_day.
RegisterActiveDay(k, today) ==
  LET current == IF k.last # NoDate /\ k.last = today - 1 THEN k.current + 1 ELSE 1
  IN IF k.last = today THEN k
     ELSE [current |-> current, longest |-> IF k.longest > current THEN k.longest ELSE current,
           last |-> today]

\* The UPDATE the ORM flushes for `row`, when a request changed its own copy of it
\* from `old` to `new`: the columns whose value changed, and no others.
Flush(row, old, new) ==
  [row EXCEPT !.used = IF new.used # old.used THEN new.used ELSE row.used,
              !.date = IF new.date # old.date THEN new.date ELSE row.date]

\* _close_session bills the time since the last activity.
Residual(s, t) == Elapsed(sess[s].last, t)
Closed(s, t) ==
  [sess[s] EXCEPT !.st = "ended", !.endedAt = t, !.duration = sess[s].duration + Residual(s, t)]

Charge(m, day) == charged' = [charged EXCEPT ![day] = @ + m]

\* The user as the request p sees it after _close_session(s) at t.
BilledCopy(p, s, t) ==
  IF Residual(s, t) > 0 THEN RecordUsage(copy[p], Residual(s, t), DayOf[t]) ELSE copy[p]

----------------------------------------------------------------------------
NewQuota == [date |-> NoDate, used |-> 0, tier |-> "free"]

Init ==
  /\ now = 0
  /\ quota = NewQuota
  /\ streak = [current |-> 0, longest |-> 0, last |-> NoDate]
  /\ sess = [s \in Sessions |->
               [st |-> "none", started |-> 0, last |-> 0, endedAt |-> 0, duration |-> 0]]
  /\ pc = [p \in Procs |-> "idle"]
  /\ copy = [p \in Procs |-> NewQuota]
  /\ at = [p \in Procs |-> 0]
  /\ sid \in [Procs -> Sessions]
  /\ mins = [p \in Procs |-> 0]
  /\ charged = [d \in Time |-> 0]
  /\ days = {}

\* get_current_user: the request's database session now holds this user object,
\* and users.lock returns the same object with the values it has here.
Authenticate(p, l) ==
  /\ pc[p] = "idle"
  /\ pc' = [pc EXCEPT ![p] = l]
  /\ copy' = [copy EXCEPT ![p] = quota]
  /\ UNCHANGED <<now, quota, streak, sess, at, mins, charged, days>>

\* The request is answered and its locals are gone.
Leave(p) ==
  /\ pc' = [pc EXCEPT ![p] = "idle"]
  /\ copy' = [copy EXCEPT ![p] = NewQuota]
  /\ at' = [at EXCEPT ![p] = 0]
  /\ mins' = [mins EXCEPT ![p] = 0]
  /\ UNCHANGED sid

\* POST /sessions/start.
StartAuth(p) == Authenticate(p, "starting") /\ UNCHANGED sid

\* A new session at the current instant, in the given sessions table.
Create(table) ==
  \E s \in Sessions :
    /\ sess[s].st = "none"
    /\ sess' = [table EXCEPT ![s] =
                  [st |-> "active", started |-> now, last |-> now, endedAt |-> now, duration |-> 0]]

\* start: rejected on the quota or on an active session, or a missing mission
\* (which also rolls back a reap).
StartRejected(p) ==
  /\ pc[p] = "starting"
  /\ Leave(p)
  /\ UNCHANGED <<now, quota, streak, sess, charged, days>>

\* Faulty variant: no look at the active session.
StartUnchecked(p) ==
  /\ pc[p] = "starting"
  /\ ~Exhausted(copy[p], DayOf[now])
  /\ Create(sess)
  /\ Leave(p)
  /\ UNCHANGED <<now, quota, streak, charged, days>>

\* start: no session in progress.
StartFresh(p) ==
  /\ pc[p] = "starting"
  /\ ~Exhausted(copy[p], DayOf[now])
  /\ \A s \in Sessions : sess[s].st # "active"
  /\ Create(sess)
  /\ Leave(p)
  /\ UNCHANGED <<now, quota, streak, charged, days>>

\* start: the lazy reaper closes and bills an idle session; the quota is checked
\* again, and when it is spent the reap is committed without a new session.
StartReaping(p) ==
  /\ pc[p] = "starting"
  /\ ~Exhausted(copy[p], DayOf[now])
  /\ \E s \in Sessions :
       /\ sess[s].st = "active"
       /\ IsStale(sess[s].last, now)
       /\ LET billed == BilledCopy(p, s, now)
              reaped == [sess EXCEPT ![s] = Closed(s, now)]
          IN /\ quota' = Flush(quota, copy[p], billed)
             /\ Charge(Residual(s, now), DayOf[now])
             /\ IF Exhausted(billed, DayOf[now]) THEN sess' = reaped ELSE Create(reaped)
  /\ Leave(p)
  /\ UNCHANGED <<now, streak, days>>

\* POST /sessions/{id}/end.
EndAuth(p) ==
  /\ Authenticate(p, "authed")
  /\ \E s \in Sessions : sess[s].st # "none" /\ sid' = [sid EXCEPT ![p] = s]

\* end, before the lock: an ended session is returned as it is; otherwise the
\* instant is taken.
EndRead(p) ==
  /\ pc[p] = "authed"
  /\ IF sess[sid[p]].st = "ended"
     THEN Leave(p)
     ELSE /\ pc' = [pc EXCEPT ![p] = "ending"]
          /\ at' = [at EXCEPT ![p] = now]
          /\ UNCHANGED <<copy, sid, mins>>
  /\ UNCHANGED <<now, quota, streak, sess, charged, days>>

\* Faulty variant: the session is not read again after the lock.
EndCommitUnchecked(p) ==
  /\ pc[p] = "ending"
  /\ quota' = Flush(quota, copy[p], BilledCopy(p, sid[p], at[p]))
  /\ sess' = [sess EXCEPT ![sid[p]] = Closed(sid[p], at[p])]
  /\ Charge(Residual(sid[p], at[p]), DayOf[at[p]])
  /\ Leave(p)
  /\ UNCHANGED <<now, streak, days>>

\* end, after the lock: the session is refreshed, the user is not.
EndCommit(p) ==
  /\ pc[p] = "ending"
  /\ IF sess[sid[p]].st = "ended"
     THEN UNCHANGED <<quota, sess, charged>>
     ELSE /\ quota' = Flush(quota, copy[p], BilledCopy(p, sid[p], at[p]))
          /\ sess' = [sess EXCEPT ![sid[p]] = Closed(sid[p], at[p])]
          /\ Charge(Residual(sid[p], at[p]), DayOf[at[p]])
  /\ Leave(p)
  /\ UNCHANGED <<now, streak, days>>

\* record_turn_activity, before the lock.  The turn lock admits one turn of a
\* session at a time (TurnPipeline!TurnsSerialised).  clamp_practiced_at accepts
\* a replayed turn's instant up to MaxSkew back.
MeterRead(p) ==
  /\ pc[p] = "idle"
  /\ \E s \in Sessions, t \in Time :
       /\ sess[s].st = "active"
       /\ \A q \in Procs : ~(pc[q] = "metering" /\ sid[q] = s)
       /\ t <= now /\ now - t <= MaxSkew
       /\ sid' = [sid EXCEPT ![p] = s]
       /\ at' = [at EXCEPT ![p] = t]
       /\ mins' = [mins EXCEPT ![p] = Elapsed(sess[s].last, t)]
  /\ pc' = [pc EXCEPT ![p] = "metering"]
  /\ UNCHANGED <<now, quota, streak, sess, copy, charged, days>>

\* Faulty variant: last_activity_at stays where it was.
MeteredUntouched(s, t, m) == [sess[s] EXCEPT !.duration = sess[s].duration + m]

\* The session after a metered turn.
Metered(s, t, m) == [sess[s] EXCEPT !.last = t, !.duration = sess[s].duration + m]

\* record_turn_activity, after the lock: this database session had not loaded the
\* user, so lock reads the committed row.  An ended session is left alone.
MeterCommit(p) ==
  /\ pc[p] = "metering"
  /\ LET s == sid[p]
         today == DayOf[at[p]]
     IN IF sess[s].st = "ended"
        THEN UNCHANGED <<quota, streak, sess, charged, days>>
        ELSE /\ sess' = [sess EXCEPT ![s] = Metered(s, at[p], mins[p])]
             /\ quota' = IF mins[p] > 0 THEN RecordUsage(quota, mins[p], today) ELSE quota
             /\ streak' = RegisterActiveDay(streak, today)
             /\ Charge(mins[p], today)
             /\ days' = days \cup {today}
  /\ Leave(p)
  /\ UNCHANGED now

\* The turn fails, or its meter does: nothing is charged.
MeterFails(p) ==
  /\ pc[p] = "metering"
  /\ Leave(p)
  /\ UNCHANGED <<now, quota, streak, sess, charged, days>>

\* set_tier, by an administrator.
SetTier ==
  /\ \E t \in {"free", "premium"} : quota' = [quota EXCEPT !.tier = t]
  /\ UNCHANGED <<now, streak, sess, charged, days>> /\ UNCHANGED locals

Tick ==
  /\ now < MaxTime
  /\ now' = now + 1
  /\ UNCHANGED <<quota, streak, sess, charged, days>> /\ UNCHANGED locals

Next ==
  \/ \E p \in Procs :
       \/ StartAuth(p) \/ StartRejected(p) \/ StartFresh(p) \/ StartReaping(p)
       \/ EndAuth(p) \/ EndRead(p) \/ EndCommit(p)
       \/ MeterRead(p) \/ MeterCommit(p) \/ MeterFails(p)
  \/ SetTier
  \/ Tick

Spec == Init /\ [][Next]_vars

----------------------------------------------------------------------------
(* Properties                                                              *)

\* start under the user lock, with the partial unique index behind it, leaves the
\* learner at most one session in progress, the reaper included.
OneActiveSession ==
  \A s, z \in Sessions : sess[s].st = "active" /\ sess[z].st = "active" => s = z

\* No stretch of time is metered twice: what a session was charged for fits in
\* the time between its start and its last activity, or its end.
NoIntervalBilledTwice ==
  \A s \in Sessions :
    sess[s].st # "none" =>
      sess[s].duration <= (IF sess[s].st = "ended" /\ sess[s].endedAt > sess[s].last
                           THEN sess[s].endedAt ELSE sess[s].last) - sess[s].started

\* An ended session is final: neither a turn that was being metered nor a second
\* end changes its duration, its last activity or its end.
EndedIsFinal ==
  [][\A s \in Sessions : sess[s].st = "ended" => sess'[s] = sess[s]]_vars

\* The streak is the run of consecutive active days that ends on the last one.
StreakIsRun ==
  streak.last # NoDate =>
    /\ streak.last \in days
    /\ \A i \in 0 .. streak.current - 1 : streak.last - i \in days
    /\ streak.last - streak.current \notin days

\* The quota counter is what was charged on its day, no more and no less, as long
\* as the requests of the learner do not overlap.
QuotaIsExact ==
  quota.date # NoDate => quota.used = charged[quota.date]

\* sessions/service.py on end: "FOR UPDATE serialises end() with those paths", so
\* that no charge is lost: the quota holds everything charged on its day.
EveryChargeKept ==
  quota.date # NoDate => quota.used >= charged[quota.date]
=============================================================================
