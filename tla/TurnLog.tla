------------------------------ MODULE TurnLog ------------------------------
(***************************************************************************)
(* What the conversation endpoints promise about one session, with the     *)
(* table of claims, the lock and the handlers left out: the transcript     *)
(* only grows, by one whole exchange at a time; nothing is appended on     *)
(* behalf of an Idempotency-Key whose answer is remembered; a remembered   *)
(* answer never changes until the purge forgets it.                        *)
(***************************************************************************)
EXTENDS Transcript

CONSTANTS
  Keys,         \* Idempotency-Key values
  NoKey,        \* no Idempotency-Key header
  None          \* no answer

VARIABLES
  transcript,   \* the messages of the session, oldest first
  committed,    \* the requests whose exchange was saved
  keyOf,        \* the key each request carries
  answer        \* per key, the request whose reply is replayed, or None

vars == <<transcript, committed, keyOf, answer>>

Init ==
  /\ transcript = << >>
  /\ committed = {}
  /\ keyOf = [r \in Requests |-> NoKey]
  /\ answer = [k \in Keys |-> None]

\* A request shows up; it has saved nothing yet.
Arrive(r) ==
  /\ r \notin committed
  /\ \E k \in Keys \cup {NoKey} : keyOf' = [keyOf EXCEPT ![r] = k]
  /\ UNCHANGED <<transcript, committed, answer>>

\* One exchange is appended to the transcript as it is now.
Append1(r) ==
  /\ r \notin committed
  /\ keyOf[r] \in Keys => answer[keyOf[r]] = None
  /\ transcript' = Window(transcript \o Exchange(r))
  /\ committed' = committed \cup {r}
  /\ UNCHANGED <<keyOf, answer>>

\* The reply of r becomes the answer of its key, which had none.
Remember(r) ==
  /\ keyOf[r] \in Keys
  /\ answer[keyOf[r]] = None
  /\ answer' = [answer EXCEPT ![keyOf[r]] = r]
  /\ UNCHANGED <<transcript, committed, keyOf>>

\* The purge forgets the answers of some keys.
Forget ==
  /\ \E K \in SUBSET Keys : answer' = [k \in Keys |-> IF k \in K THEN None ELSE answer[k]]
  /\ UNCHANGED <<transcript, committed, keyOf>>

Next ==
  \/ \E r \in Requests : Arrive(r) \/ Append1(r) \/ Remember(r)
  \/ Forget

Spec == Init /\ [][Next]_vars
=============================================================================
