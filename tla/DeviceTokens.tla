---------------------------- MODULE DeviceTokens ----------------------------
(***************************************************************************)
(* The tokens of one device against the server of TokenRotation: the       *)
(* single-flight TokenRefresher, the logins and logouts of AuthRepository  *)
(* and the two keys of SecureTokenStorage, with lost answers, storage      *)
(* failures and the death of the application between any two steps.        *)
(***************************************************************************)
EXTENDS TokenRotation, Sequences

VARIABLES
  access,     \* storage: whose access token
  refresh,    \* storage: the refresh token
  who,        \* the learner AuthViewModel shows
  acct,       \* AuthViewModel: login, logout or restore in progress
  flight,     \* TokenRefresher._inFlight
  mutex,      \* TokenRefresher._mutex: sections in order of arrival, the first one runs
  left,       \* history: the last thing that completed was a logout
  torn        \* history: a login was cut off between its two writes

deviceVars == <<access, refresh, who, acct, flight, mutex, left, torn>>
vars == <<row, issued, parent, active, req, access, refresh, who, acct, flight, mutex, left, torn>>

NoFlight == [pc |-> "none", slot |-> None, token |-> None, user |-> None,
             same |-> FALSE, callers |-> {}]

NoAcct == [pc |-> "none", slot |-> None, token |-> None, user |-> None]

Acct ==
  [pc : {"none", "loggingIn", "saving", "restoring", "reading", "leaving", "clear", "clearing",
         "stranded"},
   slot : Requests \cup {None}, token : Tokens \cup {None}, user : Users \cup {None}]

Flight ==
  [pc : {"none", "wait", "sent", "reply", "refused", "saving"},
   slot : Requests \cup {None}, token : Tokens \cup {None}, user : Users \cup {None},
   same : BOOLEAN, callers : SUBSET Users]

TypeOK ==
  /\ ServerTypeOK
  /\ access \in Users \cup {None}
  /\ refresh \in Tokens \cup {None}
  /\ who \in Users \cup {None}
  /\ acct \in Acct
  /\ flight \in Flight
  /\ mutex \in Seq({"flight", "logout"})
  /\ left \in BOOLEAN
  /\ torn \in BOOLEAN

Init ==
  /\ ServerInit
  /\ access = None
  /\ refresh = None
  /\ who = None
  /\ acct = NoAcct
  /\ flight = NoFlight
  /\ mutex = << >>
  /\ left = FALSE
  /\ torn = FALSE

-----------------------------------------------------------------------------
(* TokenRefresher.refresh.                                                 *)

\* A request whose client has gone: it runs on, and its answer is not read.
Orphan(q) == IF q.pc \in {"idle", "done"} THEN Idle ELSE [q EXCEPT !.client = "other"]

\* The sections of the mutex run one at a time, in the order they were asked for.
Running(section) == mutex # << >> /\ Head(mutex) = section
Ask(section) == mutex' = Append(mutex, section)

\* Faulty variant: the next section is chained to a future that never completes.
NotFreed == UNCHANGED mutex

\* The section ends, also when it throws.
Freed == mutex' = Tail(mutex)

\* A call of u was answered 401 and asks for a refresh, or joins the running
\* one.
Join(u) ==
  /\ flight' = [flight EXCEPT !.pc = IF @ = "none" THEN "wait" ELSE @, !.callers = @ \cup {u}]
  /\ IF flight.pc = "none" THEN Ask("flight") ELSE UNCHANGED mutex

Call401 ==
  /\ who # None
  /\ who \notin flight.callers
  /\ Join(who)
  /\ UNCHANGED <<row, issued, parent, active, req, access, refresh, who, acct, left, torn>>

\* Faulty variant: the read does not wait for the mutex.
FlightReadUnlocked(r) ==
  /\ flight.pc = "wait"
  /\ refresh # None
  /\ flight' = [flight EXCEPT !.pc = "sent", !.slot = r, !.token = refresh, !.same = TRUE]
  /\ PostRefresh(r, "refresh", refresh)
  /\ mutex' = SelectSeq(mutex, LAMBDA x : x # "flight")
  /\ UNCHANGED <<row, issued, parent, active, access, refresh, who, acct, left, torn>>

\* In the mutex the generation and the token are read; the request is sent.
FlightRead(r) ==
  /\ flight.pc = "wait"
  /\ Running("flight")
  /\ refresh # None
  /\ flight' = [flight EXCEPT !.pc = "sent", !.slot = r, !.token = refresh, !.same = TRUE]
  /\ PostRefresh(r, "refresh", refresh)
  /\ Freed
  /\ UNCHANGED <<row, issued, parent, active, access, refresh, who, acct, left, torn>>

\* How the caller of refresh() in AuthRepository.currentUser goes on.
Restored(u) ==
  IF acct.pc = "restoring" THEN who' = u /\ acct' = NoAcct ELSE UNCHANGED <<who, acct>>

\* There is no token, or the storage cannot be read.
FlightReadFails ==
  /\ flight.pc = "wait"
  /\ Running("flight")
  /\ flight' = NoFlight
  /\ Freed
  /\ Restored(None)
  /\ UNCHANGED <<row, issued, parent, active, req, access, refresh, left, torn>>

FlightAnswered ==
  LET r == flight.slot
  IN  /\ flight.pc = "sent"
      /\ req[r].pc = "done"
      /\ req' = [req EXCEPT ![r] = Idle]
      /\ \/ /\ req[r].answer = "ok"
            /\ flight' = [flight EXCEPT !.pc = "reply", !.slot = None,
                                        !.token = req[r].token, !.user = req[r].user]
            /\ Ask("flight")
            /\ UNCHANGED <<who, acct>>
         \/ /\ req[r].answer \in {"refused", "reused"}
            /\ flight' = [flight EXCEPT !.pc = "refused", !.slot = None]
            /\ Ask("flight")
            /\ UNCHANGED <<who, acct>>
         \/ /\ req[r].answer = "error"
            /\ flight' = NoFlight
            /\ Restored(None)
            /\ UNCHANGED mutex
      /\ UNCHANGED <<row, issued, parent, active, access, refresh, left, torn>>

\* The request or its answer is lost; the tokens stay (#315).
FlightLost ==
  /\ flight.pc = "sent"
  /\ req' = [req EXCEPT ![flight.slot] = Orphan(@)]
  /\ flight' = NoFlight
  /\ Restored(None)
  /\ UNCHANGED <<row, issued, parent, active, access, refresh, mutex, left, torn>>

\* Faulty variant: the tokens are cleared whoever they belong to by now.
FlightClearBlindly ==
  /\ flight.pc = "refused"
  /\ Running("flight")
  /\ access' = None /\ refresh' = None
  /\ flight' = NoFlight
  /\ Freed
  /\ Restored(None)
  /\ UNCHANGED <<row, issued, parent, active, req, left, torn>>

\* A definitive refusal clears the tokens, unless a logout came in between
\* (#423).  The storage may fail at the first or the second key.
FlightClear ==
  /\ flight.pc = "refused"
  /\ Running("flight")
  /\ \/ flight.same /\ access' = None /\ refresh' = None
     \/ flight.same /\ access' = None /\ UNCHANGED refresh
     \/ UNCHANGED <<access, refresh>>
  /\ flight' = NoFlight
  /\ Freed
  /\ Restored(None)
  /\ UNCHANGED <<row, issued, parent, active, req, left, torn>>

\* The access token is saved, unless a logout came in between (#316).
FlightSave ==
  /\ flight.pc = "reply"
  /\ Running("flight")
  /\ IF flight.same
     THEN /\ access' = flight.user
          /\ flight' = [flight EXCEPT !.pc = "saving"]
          /\ UNCHANGED <<who, acct, mutex>>
     ELSE /\ flight' = NoFlight
          /\ Freed
          /\ Restored(None)
          /\ UNCHANGED access
  /\ UNCHANGED <<row, issued, parent, active, req, refresh, left, torn>>

\* The refresh token is saved, and the callers go on.
FlightSaved ==
  /\ flight.pc = "saving"
  /\ refresh' = flight.token
  /\ flight' = NoFlight
  /\ Freed
  /\ Restored(flight.user)
  /\ UNCHANGED <<row, issued, parent, active, req, access, left, torn>>

\* The storage fails at the first or at the second key.
FlightSaveFails ==
  /\ flight.pc \in {"reply", "saving"}
  /\ Running("flight")
  /\ flight' = NoFlight
  /\ Freed
  /\ Restored(None)
  /\ UNCHANGED <<row, issued, parent, active, req, access, refresh, left, torn>>

-----------------------------------------------------------------------------
(* AuthRepository.login and logout.                                        *)

\* A person who logs in takes longer than the sections that are still waiting
\* for the storage.
Login(u, r) ==
  /\ acct.pc = "none"
  /\ who = None
  /\ mutex = << >>
  /\ acct' = [NoAcct EXCEPT !.pc = "loggingIn", !.slot = r, !.user = u]
  /\ PostLogin(r, "account", u)
  /\ UNCHANGED <<row, issued, parent, active, access, refresh, who, flight, mutex, left, torn>>

\* The answer: the access token is saved.
LoginAnswered ==
  LET r == acct.slot
  IN  /\ acct.pc = "loggingIn"
      /\ req[r].pc = "done"
      /\ req' = [req EXCEPT ![r] = Idle]
      /\ \/ /\ req[r].answer = "ok"
            /\ acct' = [acct EXCEPT !.pc = "saving", !.slot = None, !.token = req[r].token]
            /\ access' = acct.user
            /\ left' = FALSE
         \/ /\ req[r].answer # "ok"
            /\ acct' = NoAcct
            /\ UNCHANGED <<access, left>>
      /\ UNCHANGED <<row, issued, parent, active, refresh, who, flight, mutex, torn>>

\* Faulty variant: a refresh token that is stored already is kept.
LoginKeepsOld ==
  /\ acct.pc = "saving"
  /\ refresh' = IF refresh = None THEN acct.token ELSE refresh
  /\ who' = acct.user
  /\ acct' = NoAcct
  /\ torn' = FALSE
  /\ UNCHANGED <<row, issued, parent, active, req, access, flight, mutex, left>>

\* The refresh token is saved too, over the one of an earlier learner.
LoginSaved ==
  /\ acct.pc = "saving"
  /\ refresh' = acct.token
  /\ who' = acct.user
  /\ acct' = NoAcct
  /\ torn' = FALSE
  /\ UNCHANGED <<row, issued, parent, active, req, access, flight, mutex, left>>

\* The storage fails at the second key: the login fails.
LoginSaveFails ==
  /\ acct.pc = "saving"
  /\ acct' = NoAcct
  /\ torn' = TRUE
  /\ UNCHANGED <<row, issued, parent, active, req, access, refresh, who, flight, mutex, left>>

\* logout reads the refresh token and posts it, without the mutex.
Logout(r) ==
  /\ acct.pc = "none"
  /\ who # None
  /\ refresh # None
  /\ acct' = [NoAcct EXCEPT !.pc = "leaving", !.slot = r]
  /\ PostLogout(r, "account", refresh)
  /\ UNCHANGED <<row, issued, parent, active, access, refresh, who, flight, mutex, left, torn>>

LogoutTokenless ==
  /\ acct.pc = "none"
  /\ who # None
  /\ refresh = None
  /\ acct' = [NoAcct EXCEPT !.pc = "clear"]
  /\ Ask("logout")
  /\ UNCHANGED <<row, issued, parent, active, req, access, refresh, who, flight, left, torn>>

\* acct.user tells whether the request failed: None if it did not.
LogoutAnswered ==
  LET r == acct.slot
  IN  /\ acct.pc = "leaving"
      /\ req[r].pc = "done"
      /\ req' = [req EXCEPT ![r] = Idle]
      /\ acct' = [NoAcct EXCEPT !.pc = "clear", !.user = IF req[r].answer = "ok" THEN None ELSE who]
      /\ Ask("logout")
      /\ UNCHANGED <<row, issued, parent, active, access, refresh, who, flight, left, torn>>

\* A login or a logout loses its request or its answer.
AccountLost ==
  /\ acct.pc \in {"loggingIn", "leaving"}
  /\ req' = [req EXCEPT ![acct.slot] = Orphan(@)]
  /\ \/ acct.pc = "loggingIn" /\ acct' = NoAcct /\ UNCHANGED mutex
     \/ acct.pc = "leaving" /\ acct' = [NoAcct EXCEPT !.pc = "clear", !.user = who] /\ Ask("logout")
  /\ UNCHANGED <<row, issued, parent, active, access, refresh, who, flight, left, torn>>

\* invalidateAndClear: the generation changes and the first key is deleted.
InvalidateAndClear ==
  /\ acct.pc = "clear"
  /\ Running("logout")
  /\ flight' = [flight EXCEPT !.same = FALSE]
  /\ access' = None
  /\ acct' = [acct EXCEPT !.pc = "clearing"]
  /\ UNCHANGED <<row, issued, parent, active, req, refresh, who, mutex, left, torn>>

\* The second key is deleted.  The failure of the request is rethrown now, and
\* leaves AuthViewModel loading.
Cleared ==
  /\ acct.pc = "clearing"
  /\ refresh' = None
  /\ Freed
  /\ who' = None
  /\ acct' = IF acct.user = None THEN NoAcct ELSE [NoAcct EXCEPT !.pc = "stranded"]
  /\ left' = TRUE
  /\ torn' = FALSE
  /\ UNCHANGED <<row, issued, parent, active, req, access, flight>>

\* The storage fails at the second key.
ClearFails ==
  /\ acct.pc = "clearing"
  /\ Freed
  /\ who' = None
  /\ acct' = [NoAcct EXCEPT !.pc = "stranded"]
  /\ UNCHANGED <<row, issued, parent, active, req, access, refresh, flight, left, torn>>

-----------------------------------------------------------------------------
(* The application dies and starts again; AuthRepository.currentUser.      *)

Restart ==
  /\ who' = None
  /\ flight' = NoFlight
  /\ mutex' = << >>
  /\ acct' = [NoAcct EXCEPT !.pc = "reading"]
  /\ req' = [r \in Requests |-> Orphan(req[r])]
  /\ torn' = (torn \/ acct.pc = "saving")
  /\ UNCHANGED <<row, issued, parent, active, access, refresh, left>>

\* GET /auth/me with the stored access token: the learner, a refresh, or an
\* error that leaves the application signed out.
CurrentUser ==
  /\ acct.pc = "reading"
  /\ \/ access # None /\ who' = access /\ acct' = NoAcct /\ UNCHANGED <<flight, mutex>>
     \/ access # None /\ acct' = [acct EXCEPT !.pc = "restoring"] /\ Join(access) /\ UNCHANGED who
     \/ acct' = NoAcct /\ UNCHANGED <<who, flight, mutex>>
  /\ UNCHANGED <<row, issued, parent, active, req, access, refresh, left, torn>>

-----------------------------------------------------------------------------
FlightStep ==
  \/ \E r \in Requests : FlightRead(r)
  \/ FlightReadFails \/ FlightAnswered \/ FlightLost \/ FlightClear
  \/ FlightSave \/ FlightSaved \/ FlightSaveFails

AccountStep ==
  \/ LoginAnswered \/ LoginSaved \/ LoginSaveFails \/ LogoutAnswered \/ AccountLost
  \/ InvalidateAndClear \/ Cleared \/ ClearFails \/ CurrentUser

DeviceNext ==
  \/ Call401
  \/ FlightStep
  \/ \E u \in Users, r \in Requests : Login(u, r)
  \/ \E r \in Requests : Logout(r)
  \/ LogoutTokenless
  \/ AccountStep
  \/ Restart

Next == DeviceNext \/ (ServerNext /\ UNCHANGED deviceVars)

Spec == Init /\ [][Next]_vars

\* The event loop serves its callbacks, and a request is answered or times out.
FairSpec == Spec /\ WF_vars(FlightStep) /\ WF_vars(AccountStep)

-----------------------------------------------------------------------------
(* Properties.                                                             *)

\* After a completed logout nothing is stored until the next login, although
\* a refresh may have been anywhere on its way when the logout began (#316).
LogoutIsFinal == left => access = None /\ refresh = None

\* A learner who is signed in has their own tokens or none, and no call goes
\* on with the access token of the learner before; unless a login was cut off
\* between its two writes, which leaves the refresh token of another account.
TokensAreOwn ==
  /\ who # None /\ acct.pc = "none" /\ ~torn =>
       /\ access \in {who, None}
       /\ refresh # None => row[refresh].user \in {who, None}
  /\ flight.pc = "saving" /\ ~torn => flight.callers \subseteq {flight.user}

\* A stored refresh token disappears only by a logout, or because the server
\* refused this very token: not for a failure of the network (#315), nor for
\* the refusal of an earlier learner's token (#423).
ClearedForAReason ==
  [][refresh # None /\ refresh' = None =>
       acct.pc = "clearing" \/ (flight.pc = "refused" /\ flight.token = refresh)]_vars

\* A refresh ends, for better or worse, and so does a logout: the mutex is
\* never left closed.
RefreshEnds == flight.pc # "none" ~> flight.pc = "none"
=============================================================================
