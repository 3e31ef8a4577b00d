---------------------------- MODULE TurnPipeline ----------------------------
(***************************************************************************)
(* One session's conversation turns: POST /turn and POST /turn/stream of   *)
(* conversation/router.py over the idempotency_keys table, the turn        *)
(* service and the terminal write of a turn.                               *)
(*                                                                         *)
(* Every call of an endpoint is a request with a program counter that      *)
(* moves from one database statement or external call to the next, so any  *)
(* two requests interleave between any two of them, on one worker or on    *)
(* several.  A claim and the turn lock are rows of the same table: the     *)
(* lock is the row LockKey.                                                *)
(***************************************************************************)
EXTENDS Transcript

CONSTANTS
  Keys,       \* Idempotency-Key values a client may send
  LockKey,    \* the row name of the session's turn lock
  NoKey,      \* no Idempotency-Key header
  None,       \* no request
  Overrun     \* TRUE: a turn may outlive STALE_CLAIM_SECONDS while still running

ASSUME OverrunAssumption == Overrun \in BOOLEAN
\* _turn_lock_key is namespaced so that it never collides with a client's key.
ASSUME KeyAssumption == LockKey \notin Keys /\ NoKey \notin Keys /\ NoKey # LockKey
ASSUME NoneAssumption == None \notin Requests

VARIABLES
  rows,        \* the idempotency_keys table, by key
  transcript,  \* the committed transcript of the session
  ended,       \* ConversationSession.ended_at is set
  pc,          \* where each request is in its handler
  route,       \* the endpoint each request called: "turn" or "stream"
  keyOf,       \* the Idempotency-Key each request carries
  base,        \* the transcript each request read in _prepare
  committed    \* (history) the requests whose exchange was committed

vars == <<rows, transcript, ended, pc, route, keyOf, base, committed>>

RowKeys == Keys \cup {LockKey}

----------------------------------------------------------------------------
(* The idempotency_keys table                                              *)

\* A row: absent, pending (response IS NULL) or done.  by is the claimant (the
\* table does not record it), reply the request whose response is cached.
\* age is created_at against the two thresholds that matter: older than
\* STALE_CLAIM_SECONDS, and older than IDEMPOTENCY_KEY_TTL_HOURS.
Row == [st : {"absent", "pending", "done"}, age : {"fresh", "stale", "old"},
        by : Requests \cup {None}, reply : Requests \cup {None}]

Absent == [st |-> "absent", age |-> "fresh", by |-> None, reply |-> None]

\* Faulty variants: the WHERE without created_at; DO NOTHING on a conflict.
ClaimableAtAnyAge(row) == row.st \in {"absent", "pending"}
ClaimableIfAbsent(row) == row.st = "absent"

\* ON CONFLICT DO UPDATE ... WHERE response IS NULL AND created_at < stale_before.
Claimable(row) == row.st = "absent" \/ (row.st = "pending" /\ row.age # "fresh")

Claimed(r) == [st |-> "pending", age |-> "fresh", by |-> r, reply |-> None]

\* UPDATE ... SET response: touches no row when there is none.
Completed(row, r) ==
  IF row.st = "absent" THEN row ELSE [row EXCEPT !.st = "done", !.reply = r]

\* created_at falls behind a threshold.
Aged(row, a) == [row EXCEPT !.age = a]

----------------------------------------------------------------------------
(* The control of a request                                                *)

\* Points of the handlers.  "dropUnlock" frees the claim and then the lock,
\* "unlockDrop" the other way round; likewise for completing the claim.
Running == {"lookup", "claim", "relook", "lock", "prepare", "generate", "persist",
            "persistPartial", "unlockComplete", "completeUnlock", "unlockDrop",
            "dropUnlock", "complete", "drop", "unlock"}
Stopped == {"idle", "end", "crashed"}

\* Between reading the base transcript and the release of the lock.
Critical == {"prepare", "generate", "persist", "persistPartial", "unlockComplete",
             "completeUnlock", "unlockDrop", "dropUnlock", "unlock"}

\* Where a request holds a claim on its key that it has not settled.
Owning == {"lock", "prepare", "generate", "persist", "persistPartial",
           "unlockComplete", "completeUnlock", "unlockDrop", "dropUnlock",
           "complete", "drop"}

TypeOK ==
  /\ rows \in [RowKeys -> Row]
  /\ transcript \in Seq(Message)
  /\ ended \in BOOLEAN
  /\ pc \in [Requests -> Running \cup Stopped]
  /\ route \in [Requests -> {"turn", "stream"}]
  /\ keyOf \in [Requests -> Keys \cup {NoKey}]
  /\ base \in [Requests -> Seq(Message)]
  /\ committed \in SUBSET Requests

Init ==
  /\ rows = [k \in RowKeys |-> Absent]
  /\ transcript = << >>
  /\ ended = FALSE
  /\ pc = [r \in Requests |-> "idle"]
  /\ route = [r \in Requests |-> "turn"]
  /\ keyOf = [r \in Requests |-> NoKey]
  /\ base = [r \in Requests |-> << >>]
  /\ committed = {}

Goto(r, l) == pc' = [pc EXCEPT ![r] = l]

\* An action of r that only moves it on: nothing is written.
Jump(r, l) ==
  /\ Goto(r, l)
  /\ UNCHANGED <<rows, transcript, ended, route, keyOf, base, committed>>

\* An action of r that writes the table of claims.
Write(r, table, l) ==
  /\ Goto(r, l)
  /\ rows' = table
  /\ UNCHANGED <<transcript, ended, route, keyOf, base, committed>>

\* The effect on the table of release and of complete for r's own key; a
\* request without a key has nothing to settle.
DropClaim(r) == IF keyOf[r] = NoKey THEN rows ELSE [rows EXCEPT ![keyOf[r]] = Absent]
CacheReply(r) ==
  IF keyOf[r] = NoKey THEN rows
  ELSE [rows EXCEPT ![keyOf[r]] = Completed(rows[keyOf[r]], r)]
FreeLock == [rows EXCEPT ![LockKey] = Absent]

----------------------------------------------------------------------------
(* The handlers                                                            *)

\* The call: limiter.check may refuse it with 429.
Arrive(r) ==
  /\ pc[r] = "idle"
  /\ \E k \in Keys \cup {NoKey}, w \in {"turn", "stream"} :
       /\ keyOf' = [keyOf EXCEPT ![r] = k]
       /\ route' = [route EXCEPT ![r] = w]
       /\ Goto(r, IF k = NoKey THEN "lock" ELSE "lookup") \/ Goto(r, "end")
  /\ UNCHANGED <<rows, transcript, ended, base, committed>>

\* begin: the first lookup; a cached reply is replayed and the request is over.
Lookup(r) ==
  /\ pc[r] = "lookup"
  /\ \/ Jump(r, IF rows[keyOf[r]].st = "done" THEN "end" ELSE "claim")
     \/ Jump(r, "end")                               \* the statement fails: 500

\* Faulty variant: the row is taken whatever it holds.
ClaimBlindly(r) ==
  /\ pc[r] = "claim"
  /\ Write(r, [rows EXCEPT ![keyOf[r]] = Claimed(r)], "lock")

\* begin: claim, or reclaim an abandoned claim.
Claim(r) ==
  /\ pc[r] = "claim"
  /\ \/ /\ Claimable(rows[keyOf[r]])
        /\ Write(r, [rows EXCEPT ![keyOf[r]] = Claimed(r)], "lock")
     \/ ~Claimable(rows[keyOf[r]]) /\ Jump(r, "relook")
     \/ Jump(r, "end")

\* begin: the second lookup; COMPLETED is replayed, IN_FLIGHT is a 409.
Relook(r) == pc[r] = "relook" /\ Jump(r, "end")

\* acquire_turn_lock.  Contention is a 409 that frees the claim first; when the
\* statement itself fails, /turn frees the claim (run_once) and /turn/stream does not.
AcquireLock(r) ==
  /\ pc[r] = "lock"
  /\ \/ /\ Claimable(rows[LockKey])
        /\ Write(r, [rows EXCEPT ![LockKey] = Claimed(r)], "prepare")
     \/ ~Claimable(rows[LockKey]) /\ Jump(r, "drop")
     \/ Jump(r, IF route[r] = "turn" THEN "drop" ELSE "end")

\* _prepare: an ended session is a 409; any read may fail.
Prepare(r) ==
  /\ pc[r] = "prepare"
  /\ \/ /\ ~ended
        /\ base' = [base EXCEPT ![r] = transcript]
        /\ Goto(r, "generate")
        /\ UNCHANGED <<rows, transcript, ended, route, keyOf, committed>>
     \/ Jump(r, "unlockDrop")

\* The LLM call, with no database connection held.  A stream that fails after
\* some sentences still saves what the learner heard.
Generate(r) ==
  /\ pc[r] = "generate"
  /\ \/ Jump(r, "persist")
     \/ route[r] = "stream" /\ Jump(r, "persistPartial")
     \/ Jump(r, IF route[r] = "stream" THEN "dropUnlock" ELSE "unlockDrop")

\* What follows persist_turn when it returns, and when it raises.  The reply of
\* a full stream was delivered: the failure is logged and the key stays pending.
AfterSaved(r) == IF route[r] = "stream" THEN "completeUnlock" ELSE "unlockComplete"
AfterFailed(r) ==
  IF route[r] = "turn" THEN "unlockDrop"
  ELSE IF pc[r] = "persistPartial" THEN "dropUnlock" ELSE "unlock"

\* Faulty variant: the cap applied before the exchange is added.
CommitCapFirst(r) ==
  /\ transcript' = Window(base[r]) \o Exchange(r)
  /\ committed' = committed \cup {r}

\* The commit of the transcript, appended to the base read in _prepare.
Commit(r) ==
  /\ transcript' = Window(base[r] \o Exchange(r))
  /\ committed' = committed \cup {r}

\* persist_turn.  record_turn_activity commits for a live session; for an ended
\* one it returns without a commit, so the upsert is rolled back and yet the
\* handler goes on as if it had been saved; when the meter raises, the transcript
\* is committed unbilled.
Persist(r) ==
  /\ pc[r] \in {"persist", "persistPartial"}
  /\ \/ /\ Commit(r)
        /\ Goto(r, AfterSaved(r))
        /\ UNCHANGED <<rows, ended, route, keyOf, base>>
     \/ ended /\ Jump(r, AfterSaved(r))
     \/ Jump(r, AfterFailed(r))

\* on_persisted (stream) and the end of run_once (turn): cache the reply.  A
\* failure is logged, respectively a 500; the key stays pending either way.
Complete(r) ==
  /\ pc[r] \in {"completeUnlock", "complete"}
  /\ LET l == IF pc[r] = "completeUnlock" THEN "unlock" ELSE "end" IN
       Write(r, CacheReply(r), l) \/ Jump(r, l)

\* Faulty variant: in /turn the failure of the release replaces the outcome.
UnlockMasking(r) ==
  /\ pc[r] \in {"unlock", "unlockComplete", "unlockDrop"}
  /\ LET l == CASE pc[r] = "unlock" -> "end"
                [] pc[r] = "unlockComplete" -> "complete"
                [] pc[r] = "unlockDrop" -> "drop"
     IN \/ Write(r, FreeLock, l)
        \/ Jump(r, IF route[r] = "stream" THEN "end" ELSE "drop")

\* release_turn_lock.  /turn swallows its failure and goes on; in /turn/stream a
\* failure after _prepare skips the release of the key.
Unlock(r) ==
  /\ pc[r] \in {"unlock", "unlockComplete", "unlockDrop"}
  /\ LET l == CASE pc[r] = "unlock" -> "end"
                [] pc[r] = "unlockComplete" -> "complete"
                [] pc[r] = "unlockDrop" -> "drop"
     IN \/ Write(r, FreeLock, l)
        \/ Jump(r, IF route[r] = "stream" THEN "end" ELSE l)

\* release of the key, on the paths where the turn did not take effect.
Drop(r) ==
  /\ pc[r] \in {"dropUnlock", "drop"}
  /\ LET l == IF pc[r] = "dropUnlock" THEN "unlock" ELSE "end" IN
       Write(r, DropClaim(r), l) \/ Jump(r, l)

\* The client of a stream goes away: GeneratorExit or CancelledError skips every
\* except clause, only the finally that frees the lock runs.
Disconnect(r) ==
  /\ route[r] = "stream"
  /\ pc[r] \in {"generate", "persist", "persistPartial", "completeUnlock", "dropUnlock"}
  /\ Jump(r, "unlock")

\* The worker dies under the request.
Crash(r) == pc[r] \in Running /\ Jump(r, "crashed")

----------------------------------------------------------------------------
(* The rest of the system                                                  *)

\* POST /sessions/{id}/end, or the lazy reaper of start().
EndSession ==
  /\ ~ended
  /\ ended' = TRUE
  /\ UNCHANGED <<rows, transcript, pc, route, keyOf, base, committed>>

\* Time passes for a row.  Unless Overrun, a claim goes stale only once its
\* claimant has stopped: the assumption written at STALE_CLAIM_SECONDS.
Age(k) ==
  /\ rows[k].st # "absent"
  /\ \/ /\ rows[k].age = "fresh"
        /\ rows[k].by \in Requests /\ pc[rows[k].by] \in Running => Overrun
        /\ rows' = [rows EXCEPT ![k] = Aged(rows[k], "stale")]
     \/ /\ rows[k].age = "stale"
        /\ rows' = [rows EXCEPT ![k] = Aged(rows[k], "old")]
  /\ UNCHANGED <<transcript, ended, pc, route, keyOf, base, committed>>

\* purge_expired_entries: rows older than IDEMPOTENCY_KEY_TTL_HOURS go.
Purge ==
  /\ \E k \in RowKeys : rows[k].age = "old"
  /\ rows' = [k \in RowKeys |-> IF rows[k].age = "old" THEN Absent ELSE rows[k]]
  /\ UNCHANGED <<transcript, ended, pc, route, keyOf, base, committed>>

Step(r) ==
  \/ Lookup(r) \/ Claim(r) \/ Relook(r) \/ AcquireLock(r) \/ Prepare(r)
  \/ Generate(r) \/ Persist(r) \/ Complete(r) \/ Unlock(r) \/ Drop(r)

Next ==
  \/ \E r \in Requests : Arrive(r) \/ Step(r) \/ Disconnect(r) \/ Crash(r)
  \/ EndSession
  \/ \E k \in RowKeys : Age(k)
  \/ Purge

Spec == Init /\ [][Next]_vars

\* A handler keeps running unless its worker dies, and time passes.
Fairness ==
  /\ \A r \in Requests : WF_vars(Step(r))
  /\ \A k \in RowKeys : WF_vars(Age(k))

FairSpec == Spec /\ Fairness

----------------------------------------------------------------------------
(* Properties                                                              *)

\* The read-to-persist section is serialised by the turn lock: no two requests
\* are between the read of the base transcript and the release of the lock
\* (acquire_turn_lock, both routes, and the stale reclaim of a dead request's lock).
TurnsSerialised ==
  \A r, q \in Requests : pc[r] \in Critical /\ pc[q] \in Critical => r = q

\* A claim belongs to one running request: two requests with the same
\* Idempotency-Key are never both past begin and unsettled (run_once, stream_turn).
ClaimHasOneOwner ==
  \A r, q \in Requests :
    pc[r] \in Owning /\ pc[q] \in Owning /\ keyOf[r] = keyOf[q] /\ keyOf[r] # NoKey => r = q

\* Only a claim whose work never took effect is released (router.py, the comment
\* on `completed`): a request about to delete its key has committed nothing, on
\* every failure path, a failed release of the lock included.
FreedClaimsHadNoEffect ==
  \A r \in Requests : pc[r] \in {"drop", "dropUnlock", "unlockDrop"} => r \notin committed

\* The session is never wedged: a live claim or lock that refuses requests, also
\* one left by a crash, a disconnect or a failed release, stops refusing them.
Refusing(k) == rows[k].st = "pending" /\ ~Claimable(rows[k])
NeverWedged == \A k \in RowKeys : Refusing(k) ~> ~Refusing(k)

\* The handlers, the table and the lock together implement the append-only log
\* with remembered answers of TurnLog.
Log == INSTANCE TurnLog WITH
  answer <- [k \in Keys |-> IF rows[k].st = "done" THEN rows[k].reply ELSE None]
ImplementsTurnLog == Log!Spec

\* What the code says of itself and does not keep.

\* turn_service.py: "a retry replays a COMMITTED turn (never an unsaved one)".
ReplayIsCommitted ==
  \A k \in Keys : rows[k].st = "done" => rows[k].reply \in committed
=============================================================================
