--------------------------- MODULE ConnectionPool ---------------------------
(* The pool of database connections under the routes that call an external  *)
(* service: an LLM, the recogniser, the voice, the pronunciation scorer.     *)
(* The request's session (get_db) checks a connection out at its first       *)
(* statement and gives it back at a commit or a rollback; what is written    *)
(* after the external call goes through the request's session again or       *)
(* through a fresh one.  A route is the sequence of what it does with its    *)
(* sessions; any step may raise, the wait for a connection too               *)
(* (SQLAlchemy's pool timeout).                                              *)
EXTENDS Integers, Sequences, FiniteSets

CONSTANTS Calls,     \* requests in progress
          PoolSize,  \* db_pool_size + db_max_overflow
          NoCall
ASSUME PoolAssumption == PoolSize \in Nat \ {0} /\ NoCall \notin Calls

VARIABLES todo,      \* what is left of each request
          recovery,  \* what an exception leaves it to do
          held,      \* which of its sessions hold a connection
          expired,   \* whether the objects loaded at the start would be read again
          generator  \* who has the in-process lock of the session's debrief

poolVars == <<todo, recovery, held, expired, generator>>

-----------------------------------------------------------------------------
(* The routes.                                                              *)

\* get_current_user: the first statement of the request.
Authenticate == <<"use">>
\* A statement of the request's session and its commit.
WriteUnit == <<"use", "commit">>
\* A unit of work on a session of its own.
FreshUnit == <<"open", "close">>

TranscribeRoute == Authenticate \o <<"use", "upload", "release", "await">>
Synthesize == Authenticate \o <<"release", "await">>
GeneratePhrase == Authenticate \o <<"release", "read", "await">>
CoachAttempt == Authenticate \o <<"release", "await", "read">>
ScoreShadowing == Authenticate \o <<"use", "upload", "release", "read", "await">>
ScorePair == Authenticate \o <<"use", "upload", "release", "read", "await">>
CreateMission == Authenticate \o <<"release", "await", "read">> \o WriteUnit

\* With nothing spoken there is nothing to analyse.
Place == Authenticate \o <<"read", "release", "await">> \o <<"use">> \o WriteUnit
PlaceUnspoken == Authenticate \o <<"read">> \o WriteUnit

Generate == Authenticate \o <<"use", "lock", "use", "read", "release", "await">>
            \o <<"use">> \o WriteUnit \o WriteUnit \o <<"unlock">>
\* An empty transcript is debriefed without the model.
GenerateEmpty == Authenticate \o <<"use", "lock", "use">> \o WriteUnit \o <<"unlock">>
GenerateAgain == Authenticate \o <<"use", "lock", "use", "unlock">>

\* The key is claimed and the turn lock taken, each with its own commit.
TakeTurn == Authenticate \o WriteUnit \o WriteUnit
            \o <<"try", "use", "release", "await", "read">> \o FreshUnit \o WriteUnit \o WriteUnit
StreamTurn == Authenticate \o WriteUnit \o WriteUnit
              \o <<"try", "use", "tryStream", "release", "await", "read">> \o FreshUnit \o FreshUnit
              \o <<"await">> \o FreshUnit

\* Each page is read on a session of its own and sent at the client's pace.
Export == Authenticate \o <<"read", "rollback">> \o FreshUnit \o <<"send">> \o FreshUnit \o <<"send">>

Routes == {TranscribeRoute, Synthesize, GeneratePhrase, CoachAttempt, ScoreShadowing, ScorePair,
           CreateMission, Place, PlaceUnspoken, Generate, GenerateEmpty, GenerateAgain,
           TakeTurn, StreamTurn, Export}

\* The except and finally blocks: the turn lock and the key are given up, on the
\* request's session or, once the stream has begun, on fresh ones; the lock of the
\* debrief is left.
AfterError(step) == CASE step = "try" -> WriteUnit \o WriteUnit
                    []  step = "tryStream" -> FreshUnit \o FreshUnit
                    []  step = "lock" -> <<"unlock">>

-----------------------------------------------------------------------------
PoolInit ==
    /\ todo \in [Calls -> Routes]
    /\ recovery = [c \in Calls |-> <<>>]
    /\ held = [c \in Calls |-> {}]
    /\ expired = [c \in Calls |-> FALSE]
    /\ generator = NoCall

Connections == {x \in Calls \X {"request", "fresh"} : x[2] \in held[x[1]]}
InUse == Cardinality(Connections)
At(c, steps) == todo[c] # <<>> /\ Head(todo[c]) \in steps
Advance(c) == todo' = [todo EXCEPT ![c] = Tail(@)]

\* A statement: the session uses the connection it has, or waits for one.
Checkout(c, session) ==
    /\ session \in held[c] \/ InUse < PoolSize
    /\ held' = [held EXCEPT ![c] = @ \cup {session}]
Use(c) == /\ At(c, {"use"}) /\ Advance(c) /\ Checkout(c, "request")
          /\ UNCHANGED <<recovery, expired, generator>>
Open(c) == /\ At(c, {"open"}) /\ Advance(c) /\ Checkout(c, "fresh")
           /\ UNCHANGED <<recovery, expired, generator>>

\* A commit gives the connection back and expires nothing (expire_on_commit=False).
Commit(c) == /\ At(c, {"commit"}) /\ Advance(c)
             /\ held' = [held EXCEPT ![c] = @ \ {"request"}]
             /\ UNCHANGED <<recovery, expired, generator>>
Close(c) == /\ At(c, {"close"}) /\ Advance(c)
            /\ held' = [held EXCEPT ![c] = @ \ {"fresh"}]
            /\ UNCHANGED <<recovery, expired, generator>>

\* A rollback expires what the session has loaded ...
Rollback(c) == /\ At(c, {"rollback"}) /\ Advance(c)
               /\ held' = [held EXCEPT ![c] = @ \ {"request"}]
               /\ expired' = [expired EXCEPT ![c] = TRUE]
               /\ UNCHANGED <<recovery, generator>>
\* A release that leaves the objects attached.
ReleaseAttached(c) == /\ At(c, {"release"}) /\ Advance(c)
                      /\ held' = [held EXCEPT ![c] = @ \ {"request"}]
                      /\ expired' = [expired EXCEPT ![c] = TRUE]
                      /\ UNCHANGED <<recovery, generator>>
\* ... unless release_request_connection detaches it first.
Release(c) == /\ At(c, {"release"}) /\ Advance(c)
              /\ held' = [held EXCEPT ![c] = @ \ {"request"}]
              /\ UNCHANGED <<recovery, expired, generator>>

\* The external call, the client's upload, the client's download, a loaded column.
Elsewhere(c) == /\ At(c, {"await", "upload", "send", "read"}) /\ Advance(c)
                /\ UNCHANGED <<recovery, held, expired, generator>>

Try(c) == /\ At(c, {"try", "tryStream"}) /\ Advance(c)
          /\ recovery' = [recovery EXCEPT ![c] = AfterError(Head(todo[c]))]
          /\ UNCHANGED <<held, expired, generator>>

Lock(c) == /\ At(c, {"lock"}) /\ Advance(c) /\ generator = NoCall
           /\ generator' = c
           /\ recovery' = [recovery EXCEPT ![c] = AfterError("lock")]
           /\ UNCHANGED <<held, expired>>
Unlock(c) == /\ At(c, {"unlock"}) /\ Advance(c)
             /\ generator' = NoCall
             /\ recovery' = [recovery EXCEPT ![c] = <<>>]
             /\ UNCHANGED <<held, expired>>

\* A step raises or the request is cancelled: a fresh session closes with its
\* block, a commit or a rollback that fails gives the connection up all the same,
\* and the handlers that enclose the step run.
Lost(c) == IF At(c, {"commit", "rollback", "release"}) THEN {"fresh", "request"} ELSE {"fresh"}
Raise(c) ==
    /\ todo[c] # <<>> /\ ~At(c, {"try", "tryStream", "unlock"})
    /\ todo' = [todo EXCEPT ![c] = recovery[c]]
    /\ recovery' = [recovery EXCEPT ![c] = IF generator = c THEN @ ELSE <<>>]
    /\ held' = [held EXCEPT ![c] = @ \ Lost(c)]
    /\ UNCHANGED <<expired, generator>>

\* get_db closes the request's session.
End(c) == /\ todo[c] = <<>> /\ held[c] # {}
          /\ held' = [held EXCEPT ![c] = {}]
          /\ UNCHANGED <<todo, recovery, expired, generator>>

PoolNext == \E c \in Calls :
    \/ Use(c) \/ Open(c) \/ Commit(c) \/ Close(c) \/ Rollback(c) \/ Release(c)
    \/ Elsewhere(c) \/ Try(c) \/ Lock(c) \/ Unlock(c) \/ Raise(c) \/ End(c)

PoolSpec == PoolInit /\ [][PoolNext]_poolVars

-----------------------------------------------------------------------------
(* No request keeps a connection while it waits for an external service or  *)
(* for a client's download, nor while it asks the pool for a second one,    *)
(* however it was interrupted before (#399, #415, #422): with every         *)
(* connection taken, whoever has one is at work in the database, receives   *)
(* an upload or waits for the lock of a debrief.  And nothing loaded before *)
(* a release is read again behind it: no statement outside the plan.        *)
NoIdleConnection ==
    /\ \A c \in Calls : At(c, {"await", "send", "open"}) => held[c] = {}
    /\ \A c \in Calls : At(c, {"read"}) => ~expired[c]
    /\ InUse <= PoolSize
=============================================================================
