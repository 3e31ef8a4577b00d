---------------------------- MODULE OfflineReplay ----------------------------
(***************************************************************************)
(* The mobile application's offline queue: turns whose request failed on   *)
(* the network are kept per learner and replayed later, while learners     *)
(* log in and out, the application is killed, the storage fails and        *)
(* answers are lost.  The server is reduced to what TurnPipeline shows of  *)
(* it: per turn (each has its own Idempotency-Key) nothing known, running, *)
(* or saved.                                                               *)
(***************************************************************************)
EXTENDS Sequences, Integers

CONSTANTS
  Users,            \* learners who share the device
  Sessions,         \* conversation sessions
  Turns,            \* turns spoken on the device, each with its own key
  OwnerOf,          \* the learner of each session
  SessionOf,        \* the session of each turn
  None,             \* nobody, nothing
  SessionsMayEnd    \* whether a session may end while its turns are queued

ASSUME ConstantsAssumption ==
  /\ OwnerOf \in [Sessions -> Users]
  /\ SessionOf \in [Turns -> Sessions]
  /\ None \notin Users \cup Turns
  /\ SessionsMayEnd \in BOOLEAN

VARIABLES
  queue,     \* per learner, the turns in secure storage, oldest first
  token,     \* whose tokens are in secure storage
  scope,     \* SecureOfflineTurnQueue._currentUserId
  auth,      \* where AuthViewModel is
  mounted,   \* turns in progress whose view model has not been invalidated
  chain,     \* operations of the queue waiting for its lock, first in first out
  sync,      \* ConnectivityController.syncPending and OfflineTurnSync.sync
  live,      \* per turn, its first attempt
  shown,     \* ConnectivityState
  server,    \* per turn, what the server knows of its key
  ended,     \* sessions that have ended
  dropped    \* history: per turn, why it left the queue unsaved

vars == <<queue, token, scope, auth, mounted, chain, sync, live, shown, server, ended, dropped>>

UserOf(t) == OwnerOf[SessionOf[t]]

Items(q) == {q[i] : i \in DOMAIN q}

TurnOps == {"enqueue", "remove"}
OtherOps == {"list", "purge", "countSync", "countRecord"}

Operation == [op : TurnOps, turn : Turns] \cup [op : OtherOps, turn : {None}]

\* The answers a turn may get.  "broken": the stream breaks after it started.
\* "stopped": the learner stops the reply.
Answers == {"ok", "network", "error", "conflict", "notFound", "unauthorised",
            "throttled", "broken", "stopped"}

TypeOK ==
  /\ queue \in [Users -> Seq(Turns)]
  /\ token \in Users \cup {None}
  /\ scope \in Users \cup {None}
  /\ auth \in {"settled", "restoring", "revoking", "erasing", "purging", "purged", "stranded"}
  /\ mounted \subseteq Turns
  /\ chain \in Seq(Operation)
  /\ sync \in [pc : {"idle", "list", "next", "sent", "removing", "count"},
               todo : Seq(Turns), same : BOOLEAN, by : Users \cup {None}]
  /\ live \in [Turns -> {"unsaid", "sent", "recording", "queued", "broken", "over"}]
  /\ shown \in [online : BOOLEAN, count : Nat]
  /\ server \in [Turns -> {"new", "running", "saved"}]
  /\ ended \subseteq Sessions
  /\ dropped \in [Turns -> {"no", "purged", "refused"}]

IdleSync == [pc |-> "idle", todo |-> << >>, same |-> TRUE, by |-> None]

Init ==
  /\ queue = [u \in Users |-> << >>]
  /\ token = None
  /\ scope = None
  /\ auth = "settled"
  /\ mounted = {}
  /\ chain = << >>
  /\ sync = IdleSync
  /\ live = [t \in Turns |-> "unsaid"]
  /\ shown = [online |-> TRUE, count |-> 0]
  /\ server = [t \in Turns |-> "new"]
  /\ ended = {}
  /\ dropped = [t \in Turns |-> "no"]

-----------------------------------------------------------------------------
(* What POST /turn and /turn/stream do with a turn sent by u.              *)

Reply(known, answer) == [known |-> known, answer |-> answer]

\* The answer when the request arrives and its answer arrives too.
Handled(t, u) ==
  CASE u = None -> {Reply(server[t], "unauthorised")}
    [] u # None /\ u # UserOf(t) -> {Reply(server[t], "notFound")}
    [] u = UserOf(t) /\ server[t] = "saved" -> {Reply("saved", "ok")}
    [] u = UserOf(t) /\ server[t] = "running" -> {Reply("running", "conflict")}
    [] u = UserOf(t) /\ server[t] = "new" /\ SessionOf[t] \in ended -> {Reply("new", "conflict")}
    [] OTHER -> {Reply("saved", "ok"), Reply("new", "error")}

\* A turn that the server accepts may also go on without its client.
Unheard(t, u) ==
  {server[t]} \cup IF u = UserOf(t) /\ server[t] = "new" /\ SessionOf[t] \notin ended
                   THEN {"running", "saved"} ELSE {}

Outcomes(t, u) ==
  Handled(t, u)
    \cup {Reply(k, "network") : k \in Unheard(t, u)}
    \cup {Reply(server[t], a) : a \in {"throttled", "error"}}

StreamOutcomes(t, u) ==
  Outcomes(t, u) \cup {Reply(k, a) : k \in Unheard(t, u), a \in {"broken", "stopped"}}

\* OfflineTurnSync._retryLater.
RetryLater(answer) == answer \in {"network", "error", "conflict"}

-----------------------------------------------------------------------------
(* The queue's operations run one at a time, in the order they were        *)
(* called; each looks up the current learner when it runs.                 *)

Call(op, t) == Append(chain, [op |-> op, turn |-> t])

\* Faulty variant: enqueue overwrites what was stored.
FiledAlone(q, t) == << t >>

Filed(q, t) == Append(q, t)

\* Faulty variant: a failed replay never clears its re-entrancy flag.
ThrownUnfinished(o) ==
  CASE o.op = "enqueue" -> /\ live' = [live EXCEPT ![o.turn] = "over"]
                           /\ UNCHANGED <<sync, auth>>
    [] o.op = "purge" -> auth' = "purged" /\ UNCHANGED <<sync, live>>
    [] OTHER -> UNCHANGED <<sync, live, auth>>

\* The exception an operation throws at its caller: no one is signed in, or
\* the storage failed.
Thrown(o) ==
  CASE o.op = "enqueue" -> /\ live' = [live EXCEPT ![o.turn] = "over"]
                           /\ UNCHANGED <<sync, auth>>
    [] o.op = "purge" -> auth' = "purged" /\ UNCHANGED <<sync, live>>
    [] o.op \in {"list", "remove", "countSync"} -> sync' = IdleSync /\ UNCHANGED <<live, auth>>
    [] OTHER -> UNCHANGED <<sync, live, auth>>

Enqueue(t) ==
  /\ queue' = [queue EXCEPT ![scope] = Filed(@, t)]
  /\ live' = [live EXCEPT ![t] = "queued"]
  /\ chain' = Append(Tail(chain), [op |-> "countRecord", turn |-> None])
  /\ UNCHANGED <<sync, auth, shown, dropped>>

\* removeWhere: the turn with this key, which is in a queue at most once.
Without(q, t) ==
  LET i == CHOOSE j \in DOMAIN q : q[j] = t
  IN  IF t \in Items(q) THEN SubSeq(q, 1, i - 1) \o SubSeq(q, i + 1, Len(q)) ELSE q

Remove(t) ==
  /\ queue' = [queue EXCEPT ![scope] = Without(@, t)]
  /\ sync' = [sync EXCEPT !.pc = "next", !.todo = Tail(@)]
  /\ chain' = Tail(chain)
  /\ UNCHANGED <<auth, live, shown, dropped>>

List ==
  /\ sync' = [sync EXCEPT !.pc = "next", !.todo = queue[scope]]
  /\ chain' = Tail(chain)
  /\ UNCHANGED <<queue, auth, live, shown, dropped>>

PurgeCurrentUser ==
  /\ queue' = [queue EXCEPT ![scope] = << >>]
  /\ dropped' = [t \in Turns |-> IF t \in Items(queue[scope]) THEN "purged" ELSE dropped[t]]
  /\ auth' = "purged"
  /\ chain' = Tail(chain)
  /\ UNCHANGED <<sync, live, shown>>

Count(op) ==
  LET n == Len(queue[scope])
  IN  /\ shown' = CASE op = "countSync" -> [online |-> n = 0, count |-> n]
                    [] op = "countRecord" -> [online |-> FALSE, count |-> n]
      /\ sync' = IF op = "countSync" THEN IdleSync ELSE sync
      /\ chain' = Tail(chain)
      /\ UNCHANGED <<queue, auth, live, dropped>>

\* The head of the chain runs.
RunOperation(op) ==
  /\ chain # << >>
  /\ scope # None
  /\ LET o == Head(chain)
     IN  /\ o.op = op
         /\ \/ op = "enqueue" /\ Enqueue(o.turn)
            \/ op = "remove" /\ Remove(o.turn)
            \/ op = "list" /\ List
            \/ op = "purge" /\ PurgeCurrentUser
            \/ op \in {"countSync", "countRecord"} /\ Count(op)
  /\ UNCHANGED <<token, scope, mounted, server, ended>>

\* The head of the chain fails, in the storage or because no one is signed in.
OperationFails ==
  /\ chain # << >>
  /\ Thrown(Head(chain))
  /\ chain' = Tail(chain)
  /\ UNCHANGED <<queue, token, scope, mounted, shown, server, ended, dropped>>

-----------------------------------------------------------------------------
(* The replay.                                                             *)

\* syncPending: the connectivity came back, or the learner tapped retry.
StartSync ==
  /\ sync.pc = "idle"
  /\ sync' = [IdleSync EXCEPT !.pc = "list"]
  /\ chain' = Call("list", None)
  /\ UNCHANGED <<queue, token, scope, auth, mounted, live, shown, server, ended, dropped>>

StopSync ==
  /\ sync' = [IdleSync EXCEPT !.pc = "count"]
  /\ chain' = Call("countSync", None)

\* The head of the loop: the generation is compared, the turn is sent.
SyncNext ==
  /\ sync.pc = "next"
  /\ IF sync.todo = << >> \/ ~sync.same
     THEN StopSync
     ELSE /\ sync' = [sync EXCEPT !.pc = "sent", !.by = token]
          /\ UNCHANGED chain
  /\ UNCHANGED <<queue, token, scope, auth, mounted, live, shown, server, ended, dropped>>

\* The access token had expired: the request is sent again with a fresh one,
\* obtained with the refresh token that is stored now.
SyncRefresh ==
  /\ sync.pc = "sent"
  /\ sync.by # None
  /\ \/ sync' = [sync EXCEPT !.by = token] /\ UNCHANGED token
     \/ sync' = [sync EXCEPT !.by = None] /\ token' = None
  /\ UNCHANGED <<queue, scope, auth, mounted, chain, live, shown, server, ended, dropped>>

\* Faulty variant: the loop goes on with the next turn instead of stopping.
AfterAnswerSkipping(t, answer) ==
  \/ /\ answer = "ok" \/ ~RetryLater(answer)
     /\ sync' = [sync EXCEPT !.pc = "removing"]
     /\ chain' = Call("remove", t)
     /\ dropped' = [dropped EXCEPT ![t] = IF answer = "ok" THEN @ ELSE "refused"]
  \/ /\ RetryLater(answer)
     /\ sync' = [sync EXCEPT !.pc = "next", !.todo = Tail(@)]
     /\ UNCHANGED <<chain, dropped>>

AfterAnswer(t, answer) ==
  \/ /\ answer = "ok"
     /\ sync.same
     /\ sync' = [sync EXCEPT !.pc = "removing"]
     /\ chain' = Call("remove", t)
     /\ UNCHANGED dropped
  \/ /\ \/ answer = "ok" /\ ~sync.same
        \/ RetryLater(answer)
     /\ StopSync
     /\ UNCHANGED dropped
  \/ /\ answer # "ok"
     /\ ~RetryLater(answer)
     /\ sync' = [sync EXCEPT !.pc = "removing"]
     /\ chain' = Call("remove", t)
     /\ dropped' = [dropped EXCEPT ![t] = "refused"]

SyncAnswer(o) ==
  LET t == Head(sync.todo)
  IN  /\ sync.pc = "sent"
      /\ o \in Outcomes(t, sync.by)
      /\ server' = [server EXCEPT ![t] = o.known]
      /\ AfterAnswer(t, o.answer)
      /\ UNCHANGED <<queue, token, scope, auth, mounted, live, shown, ended>>

SomeAnswer == \E k \in {"new", "running", "saved"}, a \in Answers : SyncAnswer(Reply(k, a))

\* The server answers, neither busy nor failing, and is heard.
GoodAnswer(t) ==
  /\ sync.pc = "sent"
  /\ Head(sync.todo) = t
  /\ \E o \in Handled(t, sync.by) : o.answer \notin {"error", "conflict"} /\ SyncAnswer(o)

-----------------------------------------------------------------------------
(* A turn's first attempt, ReplyPlayback.streamReplyAndSpeak.              *)

Speak(t) ==
  /\ live[t] = "unsaid"
  /\ auth = "settled"
  /\ scope = UserOf(t)
  /\ live' = [live EXCEPT ![t] = "sent"]
  /\ mounted' = mounted \cup {t}
  /\ UNCHANGED <<queue, token, scope, auth, chain, sync, shown, server, ended, dropped>>

\* The reply is complete; a success is a sign that the queue can be replayed.
SpeakReplied(t) ==
  /\ live' = [live EXCEPT ![t] = "over"]
  /\ IF t \in mounted /\ sync.pc = "idle" /\ (shown.count > 0 \/ ~shown.online)
     THEN /\ sync' = [IdleSync EXCEPT !.pc = "list"]
          /\ chain' = Call("list", None)
     ELSE UNCHANGED <<sync, chain>>

\* A failure before the stream starts is recorded under the same key; the view
\* model of a learner who has left can no longer do it.  An HTTP refusal counts
\* as one too: its body is a stream, not the JSON that _toApiException expects,
\* so it gets the code of a network failure.
NotStarted == {"network", "error", "conflict", "notFound", "throttled"}

SpeakOffline(t) ==
  /\ IF t \in mounted
     THEN /\ live' = [live EXCEPT ![t] = "recording"]
          /\ chain' = Call("enqueue", t)
     ELSE /\ live' = [live EXCEPT ![t] = "over"]
          /\ UNCHANGED chain
  /\ UNCHANGED sync

\* Any other failure is shown and forgotten: a refused refresh, an error event
\* in the stream, a broken stream.
SpeakRefused(t, answer) ==
  /\ live' = [live EXCEPT ![t] = IF answer = "broken" THEN answer ELSE "over"]
  /\ UNCHANGED <<sync, chain>>

SpeakAnswer(t) ==
  /\ live[t] = "sent"
  /\ \E o \in StreamOutcomes(t, UserOf(t)) :
       /\ server' = [server EXCEPT ![t] = o.known]
       /\ \/ o.answer = "ok" /\ SpeakReplied(t)
          \/ o.answer \in NotStarted /\ SpeakOffline(t)
          \/ o.answer \in {"unauthorised", "error", "broken", "stopped"} /\ SpeakRefused(t, o.answer)
  /\ mounted' = mounted \ {t}
  /\ UNCHANGED <<queue, token, scope, auth, shown, ended, dropped>>

\* A conversation starts: ConnectivityController.refresh.  It only reads the
\* queue, so its wait for the lock is left out.
Refresh ==
  /\ auth = "settled"
  /\ scope # None
  /\ chain = << >>
  /\ LET n == Len(queue[scope])
     IN  shown' = [online |-> n = 0 \/ shown.online, count |-> n]
  /\ UNCHANGED <<queue, token, scope, auth, mounted, chain, sync, live, server, ended, dropped>>

-----------------------------------------------------------------------------
(* AuthViewModel.                                                          *)

Login(u) ==
  /\ auth = "settled"
  /\ scope = None
  /\ token' = u
  /\ scope' = u
  /\ UNCHANGED <<queue, auth, mounted, chain, sync, live, shown, server, ended, dropped>>

\* logout: the loading state, the running replay cancelled, POST /auth/logout.
Logout ==
  /\ auth = "settled"
  /\ scope # None
  /\ auth' = "revoking"
  /\ sync' = [sync EXCEPT !.same = FALSE]
  /\ UNCHANGED <<queue, token, scope, mounted, chain, live, shown, server, ended, dropped>>

\* Faulty variant: the per-user view models are not invalidated.
LogoutAnsweredCached ==
  /\ auth = "revoking"
  /\ token' = None
  /\ auth' \in {"erasing", "stranded"}
  /\ UNCHANGED <<queue, scope, mounted, chain, sync, live, shown, server, ended, dropped>>

\* The tokens are cleared in any case.  A failed request is rethrown, and
\* nothing after it is done.
LogoutAnswered ==
  /\ auth = "revoking"
  /\ token' = None
  /\ \/ auth' = "erasing" /\ mounted' = {}
     \/ auth' = "stranded" /\ UNCHANGED mounted
  /\ UNCHANGED <<queue, scope, chain, sync, live, shown, server, ended, dropped>>

\* The voice takes are erased, or not; then the queue's purge is called.
LogoutPurge ==
  /\ auth = "erasing"
  /\ auth' = "purging"
  /\ chain' = Call("purge", None)
  /\ UNCHANGED <<queue, token, scope, mounted, sync, live, shown, server, ended, dropped>>

LogoutDone ==
  /\ auth = "purged"
  /\ scope' = None
  /\ auth' = "settled"
  /\ UNCHANGED <<queue, token, mounted, chain, sync, live, shown, server, ended, dropped>>

\* The application is killed and started again: only the storage is left.
Restart ==
  /\ auth' = "restoring"
  /\ scope' = None
  /\ mounted' = {}
  /\ chain' = << >>
  /\ sync' = IdleSync
  /\ live' = [t \in Turns |-> IF live[t] \in {"sent", "recording"} THEN "over" ELSE live[t]]
  /\ shown' = [online |-> TRUE, count |-> 0]
  /\ UNCHANGED <<queue, token, server, ended, dropped>>

\* AuthViewModel.build: the stored tokens are good, or they are rejected.
Restore ==
  /\ auth = "restoring"
  /\ auth' = "settled"
  /\ \/ scope' = token /\ UNCHANGED token
     \/ scope' = None /\ token' = None
  /\ UNCHANGED <<queue, mounted, chain, sync, live, shown, server, ended, dropped>>

-----------------------------------------------------------------------------
(* The server on its own.                                                  *)

\* A turn without a client is saved, or its claim is released or reclaimed.
Finish(t) ==
  /\ server[t] = "running"
  /\ server' = [server EXCEPT ![t] = "saved"] \/ server' = [server EXCEPT ![t] = "new"]
  /\ UNCHANGED <<queue, token, scope, auth, mounted, chain, sync, live, shown, ended, dropped>>

EndSession(s) ==
  /\ SessionsMayEnd
  /\ s \notin ended
  /\ ended' = ended \cup {s}
  /\ UNCHANGED <<queue, token, scope, auth, mounted, chain, sync, live, shown, server, dropped>>

Next ==
  \/ \E op \in TurnOps \cup OtherOps : RunOperation(op)
  \/ OperationFails
  \/ StartSync \/ SyncNext \/ SyncRefresh \/ SomeAnswer
  \/ \E t \in Turns : Speak(t) \/ SpeakAnswer(t) \/ Finish(t)
  \/ Refresh
  \/ \E u \in Users : Login(u)
  \/ Logout \/ LogoutAnswered \/ LogoutPurge \/ LogoutDone
  \/ Restart \/ Restore
  \/ \E s \in Sessions : EndSession(s)

Spec == Init /\ [][Next]_vars

-----------------------------------------------------------------------------
(* The event loop serves its callbacks, requests are answered or time out, *)
(* a running turn ends, the connectivity comes back again and again, and   *)
(* neither the storage nor the network fails every time.                   *)
Fairness ==
  /\ \A op \in TurnOps \cup OtherOps : SF_vars(RunOperation(op))
  /\ WF_vars(StartSync)
  /\ WF_vars(SyncNext)
  /\ WF_vars(SomeAnswer)
  /\ \A t \in Turns : SF_vars(GoodAnswer(t)) /\ WF_vars(Finish(t))
  /\ WF_vars(LogoutAnswered)
  /\ WF_vars(LogoutPurge)
  /\ WF_vars(LogoutDone)
  /\ WF_vars(Restore)

FairSpec == Spec /\ Fairness

-----------------------------------------------------------------------------
(* Properties.                                                             *)

Queued(t) == t \in Items(queue[UserOf(t)])

\* Every turn in a learner's queue was spoken by that learner, although an
\* operation looks up the current learner only when its turn in the chain
\* comes, perhaps after a logout and the next login (#349).
OnlyOwnTurnsQueued ==
  \A u \in Users : \A t \in Items(queue[u]) : UserOf(t) = u

\* A turn that was queued leaves the queue only when the server has saved it,
\* has refused it with a status that _retryLater takes for definitive, or its
\* learner logged out.
QueuedUntilSettled ==
  \A t \in Turns : live[t] = "queued" => Queued(t) \/ server[t] = "saved" \/ dropped[t] # "no"

\* Turns are replayed in the order they were queued: when one is sent, those
\* before it have been settled.
ReplayInOrder ==
  sync.pc = "sent" =>
    LET t == Head(sync.todo)
        q == queue[UserOf(t)]
    IN  \A i, j \in DOMAIN q :
          i < j /\ q[j] = t => server[q[i]] = "saved" \/ dropped[q[i]] # "no"

SignedIn(u) == auth = "settled" /\ scope = u

\* A learner who stays signed in sees every queued turn leave the queue.
QueueDrains ==
  \A t \in Turns :
    (Queued(t) /\ SignedIn(UserOf(t))) ~> ~(Queued(t) /\ SignedIn(UserOf(t)))
=============================================================================
