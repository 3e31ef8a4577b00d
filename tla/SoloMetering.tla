---------------------------- MODULE SoloMetering ----------------------------
(***************************************************************************)
(* SessionMetering with the memory of whether two requests of the learner  *)
(* have been in progress at once: what start and end compute on a user     *)
(* loaded before the lock is exact when they have not.                     *)
(***************************************************************************)
EXTENDS SessionMetering

\* (history) Whether two requests of the learner have been in progress at once.
VARIABLE overlapped

MeteringInit == Init /\ overlapped = FALSE
MeteringNext ==
  /\ Next
  /\ overlapped' = (overlapped \/ \E p, q \in Procs : p # q /\ pc'[p] # "idle" /\ pc'[q] # "idle")
MeteringSpec == MeteringInit /\ [][MeteringNext]_<<vars, overlapped>>

\* As long as the learner's requests have not overlapped, the quota counter is what
\* was charged on its day, across midnight, reaped sessions and changes of tier
\* (record_usage of core/quota.py, _close_session of sessions/service.py).
QuotaIsExactAlone == overlapped \/ QuotaIsExact
=============================================================================
