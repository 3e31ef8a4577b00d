------------------------- MODULE DeviceTokensProofs -------------------------
(***************************************************************************)
(* Theorems about DeviceTokens, for any accounts, tokens and requests.     *)
(***************************************************************************)
EXTENDS DeviceTokens, TLAPS

-----------------------------------------------------------------------------
(* The inductive invariant.                                                *)

\* A request that looks at a row has a token, and one that waits has a slot.
SlotsTaken ==
  /\ \A r \in Requests :
       req[r].pc \in {"lock", "rotate", "family", "read", "revoke"} => req[r].token \in Tokens
  /\ flight.pc = "sent" => flight.slot \in Requests
  /\ acct.pc \in {"loggingIn", "leaving"} => acct.slot \in Requests

\* Whoever is between the two writes of the storage has the mutex.
MutexHeld ==
  /\ flight.pc = "saving" => Running("flight")
  /\ acct.pc = "clearing" => Running("logout")

\* A refresh that has read its token.
UnderWay == flight.pc \in {"sent", "reply", "refused", "saving"}

\* A logout on its way has cut off the refresh before it, and a login has not
\* begun to store when nothing is to be stored.
CutOff ==
  /\ flight.pc = "saving" => flight.same
  /\ acct.pc = "clearing" => access = None /\ (UnderWay => ~flight.same)
  /\ left => /\ access = None
             /\ refresh = None
             /\ UnderWay => ~flight.same
             /\ acct.pc # "saving"

\* A request updates only rows that were there when it looked.
RowsExist ==
  \A r \in Requests :
    /\ req[r].pc \in {"rotate", "revoke"} => req[r].token \in issued
    /\ req[r].pc \in {"family", "sweep"} => req[r].snap \subseteq issued

\* A token that was not generated has no row; a row that is about to be
\* replaced is unrevoked and locked by one request only.
RowsLocked ==
  /\ \A t \in Tokens \ issued : row[t] = NoRow /\ parent[t] = None
  /\ \A r \in Requests :
       req[r].pc = "rotate" => /\ ~row[req[r].token].revoked
                               /\ ~Locked(req[r].token, r)

\* The answers that are stored carry a token.
AnswersCarry ==
  /\ \A r \in Requests :
       /\ req[r].pc = "sweep" => req[r].client = "other"
       /\ req[r].pc = "done" /\ req[r].answer = "ok" => req[r].token \in Tokens
  /\ flight.pc \in {"reply", "saving"} => flight.token \in Tokens
  /\ acct.pc = "saving" => acct.token \in Tokens

\* A section of a refresh is in the queue s of the mutex.
Asked(s) == \E i \in 1 .. Len(s) : s[i] = "flight"

\* The token a refresh has sent is the one that is stored as long as no logout
\* came in between; a login finds no such refresh.
OwnToken ==
  /\ flight.pc = "wait" => Asked(mutex)
  /\ flight.pc \in {"sent", "refused"} /\ flight.same => refresh \in {flight.token, None}
  /\ acct.pc \in {"loggingIn", "saving"} =>
       /\ who = None
       /\ flight.pc # "wait"
       /\ UnderWay => ~flight.same
  /\ acct.pc = "reading" => who = None /\ flight.pc = "none"
  /\ who = None /\ acct.pc = "none" /\ UnderWay => ~flight.same
  /\ who = None /\ acct.pc = "none" /\ flight.pc = "wait" => refresh = None

IInv ==
  /\ TypeOK
  /\ SlotsTaken /\ MutexHeld /\ CutOff /\ OwnToken
  /\ RowsExist /\ RowsLocked /\ SingleUse
  /\ AnswersCarry

-----------------------------------------------------------------------------
(* Types.                                                                  *)

\* A request that is cut off from its client is still a request.
LEMMA RequestTypes ==
  /\ Idle \in Request
  /\ \A q \in Request : Orphan(q) \in Request
BY DEF Idle, Request, Orphan

\* The ways in which the server's steps move a request on.
LEMMA RequestChanges ==
  ASSUME NEW q \in Request, NEW u \in Users \cup {None}, NEW ts \in SUBSET Tokens
  PROVE  /\ [q EXCEPT !.pc = "family", !.user = u, !.snap = ts] \in Request
         /\ [q EXCEPT !.pc = "rotate", !.user = u] \in Request
         /\ [q EXCEPT !.pc = "revoke"] \in Request
BY DEF Request

\* Revoking a row, or not, keeps its type.
LEMMA RowTypes ==
  ASSUME NEW x \in Row, NEW b \in BOOLEAN
  PROVE  [x EXCEPT !.revoked = b] \in Row
BY DEF Row

\* A request keeps its type when it is answered.
LEMMA RespondType ==
  ASSUME TypeOK, NEW r \in Requests, NEW a \in {"ok", "refused", "reused", "error"},
         NEW t \in Tokens \cup {None}, Respond(r, a, t)
  PROVE  req' \in [Requests -> Request]
<1>1. req[r] \in Request
  BY DEF TypeOK, ServerTypeOK
<1>2. [req[r] EXCEPT !.pc = "done", !.answer = a, !.token = t] \in Request
  BY <1>1 DEF Request
<1>3. QED
  BY <1>2, RequestTypes DEF Respond, TypeOK, ServerTypeOK

\* The steps of the server keep the types of its state.
LEMMA ServerTypes ==
  ASSUME ConstantsAssumption, TypeOK, SlotsTaken, ServerNext
  PROVE  ServerTypeOK'
<1> USE DEF TypeOK, ServerTypeOK
<1>1. ASSUME NEW r \in Requests PROVE req[r] \in Request
  OBVIOUS
<1>2. ASSUME NEW r \in Requests, RefreshLock(r) PROVE ServerTypeOK'
  <2> DEFINE t == req[r].token
  <2>1. t \in Tokens
    BY <1>2 DEF RefreshLock, SlotsTaken
  <2>2. row[t].user \in Users \cup {None}
    BY <2>1 DEF Row
  <2>3. CASE Answered(r, "refused")
    BY <1>2, <2>1, <2>3, RespondType DEF RefreshLock, Answered
  <2>4. CASE req' = [req EXCEPT ![r].pc = "family", ![r].user = row[t].user, ![r].snap = Unrevoked(row[t].user)]
    <3>1. Unrevoked(row[t].user) \subseteq Tokens
      BY DEF Unrevoked
    <3>2. [req[r] EXCEPT !.pc = "family", !.user = row[t].user, !.snap = Unrevoked(row[t].user)] \in Request
      BY <1>1, <2>2, <3>1, RequestChanges
    <3>3. QED
      BY <1>2, <2>4, <3>2 DEF RefreshLock
  <2>5. CASE req' = [req EXCEPT ![r].pc = "rotate", ![r].user = row[t].user]
    <3>1. [req[r] EXCEPT !.pc = "rotate", !.user = row[t].user] \in Request
      BY <1>1, <2>2, RequestChanges
    <3>2. QED
      BY <1>2, <2>5, <3>1 DEF RefreshLock
  <2>6. QED
    BY <1>2, <2>3, <2>4, <2>5 DEF RefreshLock
<1>3. ASSUME NEW ts \in SUBSET Tokens, row' = Revoked(ts) PROVE row' \in [Tokens -> Row]
  <2>1. \A t \in Tokens : [row[t] EXCEPT !.revoked = @ \/ t \in ts] \in Row
    <3>1. TAKE t \in Tokens
    <3>2. row[t] \in Row /\ (row[t].revoked \/ t \in ts) \in BOOLEAN
      OBVIOUS
    <3>3. QED
      BY <3>2, RowTypes
  <2>2. QED
    BY <1>3, <2>1 DEF Revoked
<1>4. ASSUME NEW r \in Requests, NEW a \in {"ok", "refused", "reused", "error"}, Answered(r, a)
      PROVE  req' \in [Requests -> Request]
  <2>1. req[r].token \in Tokens \cup {None}
    BY <1>1 DEF Request
  <2>2. QED
    BY <1>4, <2>1, RespondType DEF Answered
<1>5. ASSUME NEW r \in Requests, RefreshFamily(r) PROVE ServerTypeOK'
  <2>1. req[r].snap \in SUBSET Tokens
    BY <1>1 DEF Request
  <2>2. QED
    BY <1>3, <1>4, <1>5, <2>1 DEF RefreshFamily
<1>6. ASSUME NEW r \in Requests, LogoutRead(r) PROVE ServerTypeOK'
  <2>1. CASE Answered(r, "ok")
    BY <1>4, <1>6, <2>1 DEF LogoutRead
  <2>2. CASE req' = [req EXCEPT ![r].pc = "revoke"]
    <3>1. [req[r] EXCEPT !.pc = "revoke"] \in Request
      BY <1>1, RequestChanges
    <3>2. QED
      BY <1>6, <2>2, <3>1 DEF LogoutRead
  <2>3. QED
    BY <1>6, <2>1, <2>2 DEF LogoutRead
<1>7. ASSUME NEW r \in Requests, LogoutRevoke(r) PROVE ServerTypeOK'
  <2>1. \A t \in Tokens : [row[t] EXCEPT !.revoked = TRUE] \in Row
    BY RowTypes
  <2>2. row' \in [Tokens -> Row]
    BY <1>7, <2>1 DEF LogoutRevoke
  <2>3. QED
    BY <1>4, <1>7, <2>2 DEF LogoutRevoke
<1>8. ASSUME NEW r \in Requests, SweepCommit(r) PROVE ServerTypeOK'
  <2>1. req[r].snap \in SUBSET Tokens
    BY <1>1 DEF Request
  <2>2. active' \in [Users -> BOOLEAN]
    BY <1>8 DEF SweepCommit
  <2>3. QED
    BY <1>3, <1>4, <1>8, <2>1, <2>2 DEF SweepCommit
<1>9. ASSUME NEW r \in Requests, RequestFails(r) PROVE ServerTypeOK'
  BY <1>4, <1>9 DEF RequestFails
<1>10. ASSUME NEW r \in Requests, NEW new \in Tokens, RefreshRotate(r, new) PROVE ServerTypeOK'
  <2>1. req[r].token \in Tokens /\ NewRow(req[r].user) \in Row
    BY <1>1, <1>10 DEF RefreshRotate, SlotsTaken, Request, NewRow, Row
  <2>2. row' \in [Tokens -> Row]
    <3>1. [row[req[r].token] EXCEPT !.revoked = TRUE] \in Row
      BY <2>1, RowTypes
    <3>2. QED
      BY <1>10, <2>1, <3>1 DEF RefreshRotate
  <2>3. req' \in [Requests -> Request]
    BY <1>10, RespondType DEF RefreshRotate
  <2>4. QED
    BY <1>10, <2>1, <2>2, <2>3 DEF RefreshRotate
<1>11. ASSUME NEW r \in Requests, NEW new \in Tokens, LoginIssue(r, new) PROVE ServerTypeOK'
  <2>1. NewRow(req[r].user) \in Row
    BY <1>1 DEF Request, NewRow, Row
  <2>2. req' \in [Requests -> Request]
    BY <1>11, RespondType DEF LoginIssue
  <2>3. QED
    BY <1>11, <2>1, <2>2 DEF LoginIssue
<1>12. ASSUME NEW r \in Requests, NEW u \in Swept, NEW off \in BOOLEAN, SweepStart(r, u, off)
       PROVE  ServerTypeOK'
  <2>1. [Idle EXCEPT !.pc = "sweep", !.user = u, !.off = off, !.snap = Unrevoked(u)] \in Request
    BY ConstantsAssumption DEF ConstantsAssumption, Idle, Request, Unrevoked
  <2>2. QED
    BY <1>12, <2>1 DEF SweepStart
<1>13. ASSUME NEW u \in Users, Reactivate(u) PROVE ServerTypeOK'
  BY <1>13 DEF Reactivate
<1>14. QED
  BY <1>2, <1>5, <1>6, <1>7, <1>8, <1>9, <1>10, <1>11, <1>12, <1>13 DEF ServerNext, ServerStep

\* The steps of the device keep all types.
LEMMA DeviceTypes ==
  ASSUME ConstantsAssumption, TypeOK, SlotsTaken, MutexHeld, DeviceNext
  PROVE  TypeOK'
<1> USE DEF TypeOK, ServerTypeOK
<1>0. /\ Append(mutex, "flight") \in Seq({"flight", "logout"})
      /\ Append(mutex, "logout") \in Seq({"flight", "logout"})
      /\ mutex # << >> => Tail(mutex) \in Seq({"flight", "logout"})
  OBVIOUS
<1>1. ASSUME NEW c \in {"other", "refresh", "account"}, NEW t \in Tokens \cup {None},
             NEW u \in Users \cup {None}
      PROVE  /\ [Idle EXCEPT !.pc = "lock", !.client = c, !.token = t] \in Request
             /\ [Idle EXCEPT !.pc = "read", !.client = c, !.token = t] \in Request
             /\ [Idle EXCEPT !.pc = "issue", !.client = c, !.user = u] \in Request
  BY DEF Idle, Request
<1>2. ASSUME Call401 PROVE TypeOK'
  <2>1. flight' \in Flight
    BY <1>2 DEF Call401, Flight, Join
  <2>2. mutex' \in Seq({"flight", "logout"})
    BY <1>0, <1>2 DEF Call401, Join, Ask
  <2>3. QED
    BY <1>2, <2>1, <2>2 DEF Call401
<1>3. ASSUME FlightReadFails PROVE TypeOK'
  <2>1. flight' \in Flight
    BY <1>3 DEF FlightReadFails, Flight, NoFlight
  <2>2. acct' \in Acct
    BY <1>3 DEF FlightReadFails, Acct, Restored, NoAcct
  <2>3. mutex' \in Seq({"flight", "logout"})
    BY <1>3 DEF FlightReadFails, Running, Freed
  <2>4. who' \in Users \cup {None}
    BY <1>3 DEF FlightReadFails, Flight, Acct, Restored
  <2>5. QED
    BY <1>3, <2>1, <2>2, <2>3, <2>4 DEF FlightReadFails
<1>4. ASSUME FlightAnswered PROVE TypeOK'
  <2>1. flight' \in Flight
    <3>1. req[flight.slot].token \in Tokens \cup {None} /\ req[flight.slot].user \in Users \cup {None}
      BY <1>4 DEF FlightAnswered, SlotsTaken, Request
    <3>2. [flight EXCEPT !.pc = "reply", !.slot = None, !.token = req[flight.slot].token,
                         !.user = req[flight.slot].user] \in Flight
      BY <3>1 DEF Flight
    <3>3. [flight EXCEPT !.pc = "refused", !.slot = None] \in Flight /\ NoFlight \in Flight
      BY DEF Flight, NoFlight
    <3>4. QED
      BY <1>4, <3>2, <3>3 DEF FlightAnswered
  <2>2. acct' \in Acct
    BY <1>4 DEF FlightAnswered, Acct, Restored, NoAcct
  <2>3. mutex' \in Seq({"flight", "logout"})
    BY <1>0, <1>4 DEF FlightAnswered, Ask
  <2>4. req' \in [Requests -> Request]
    BY <1>4, RequestTypes DEF FlightAnswered, SlotsTaken
  <2>5. who' \in Users \cup {None}
    BY <1>4 DEF FlightAnswered, Flight, Acct, Restored
  <2>6. QED
    BY <1>4, <2>1, <2>2, <2>3, <2>4, <2>5 DEF FlightAnswered
<1>5. ASSUME FlightLost PROVE TypeOK'
  <2>1. flight' \in Flight
    BY <1>5 DEF FlightLost, Flight, NoFlight
  <2>2. acct' \in Acct
    BY <1>5 DEF FlightLost, Acct, Restored, NoAcct
  <2>3. req' \in [Requests -> Request]
    BY <1>5, RequestTypes DEF FlightLost, SlotsTaken
  <2>4. who' \in Users \cup {None}
    BY <1>5 DEF FlightLost, Flight, Acct, Restored
  <2>5. QED
    BY <1>5, <2>1, <2>2, <2>3, <2>4 DEF FlightLost
<1>6. ASSUME FlightClear PROVE TypeOK'
  <2>1. flight' \in Flight
    BY <1>6 DEF FlightClear, Flight, NoFlight
  <2>2. acct' \in Acct
    BY <1>6 DEF FlightClear, Acct, Restored, NoAcct
  <2>3. mutex' \in Seq({"flight", "logout"})
    BY <1>6 DEF FlightClear, Running, Freed
  <2>4. who' \in Users \cup {None}
    BY <1>6 DEF FlightClear, Flight, Acct, Restored
  <2>5. QED
    BY <1>6, <2>1, <2>2, <2>3, <2>4 DEF FlightClear
<1>7. ASSUME FlightSave PROVE TypeOK'
  <2>1. flight' \in Flight
    <3>1. [flight EXCEPT !.pc = "saving"] \in Flight /\ NoFlight \in Flight
      BY DEF Flight, NoFlight
    <3>2. QED
      BY <1>7, <3>1 DEF FlightSave
  <2>2. acct' \in Acct
    BY <1>7 DEF FlightSave, Acct, Restored, NoAcct
  <2>3. mutex' \in Seq({"flight", "logout"})
    BY <1>0, <1>7 DEF FlightSave, Running, Freed
  <2>4. access' \in Users \cup {None}
    BY <1>7 DEF FlightSave, Flight
  <2>5. who' \in Users \cup {None}
    BY <1>7 DEF FlightSave, Flight, Acct, Restored
  <2>6. QED
    BY <1>7, <2>1, <2>2, <2>3, <2>4, <2>5 DEF FlightSave
<1>8. ASSUME FlightSaved PROVE TypeOK'
  <2>1. flight' \in Flight
    BY <1>8 DEF FlightSaved, Flight, NoFlight
  <2>2. acct' \in Acct
    BY <1>8 DEF FlightSaved, Acct, Restored, NoAcct
  <2>3. mutex' \in Seq({"flight", "logout"})
    BY <1>8 DEF FlightSaved, MutexHeld, Running, Freed
  <2>4. refresh' \in Tokens \cup {None}
    BY <1>8 DEF FlightSaved, Flight
  <2>5. who' \in Users \cup {None}
    BY <1>8 DEF FlightSaved, Flight, Acct, Restored
  <2>6. QED
    BY <1>8, <2>1, <2>2, <2>3, <2>4, <2>5 DEF FlightSaved
<1>9. ASSUME FlightSaveFails PROVE TypeOK'
  <2>1. flight' \in Flight
    BY <1>9 DEF FlightSaveFails, Flight, NoFlight
  <2>2. acct' \in Acct
    BY <1>9 DEF FlightSaveFails, Acct, Restored, NoAcct
  <2>3. mutex' \in Seq({"flight", "logout"})
    BY <1>9 DEF FlightSaveFails, Running, Freed
  <2>4. who' \in Users \cup {None}
    BY <1>9 DEF FlightSaveFails, Flight, Acct, Restored
  <2>5. QED
    BY <1>9, <2>1, <2>2, <2>3, <2>4 DEF FlightSaveFails
<1>10. ASSUME LoginAnswered PROVE TypeOK'
  <2>1. acct' \in Acct
    <3>1. req[acct.slot].token \in Tokens \cup {None}
      BY <1>10 DEF LoginAnswered, SlotsTaken, Request
    <3>2. /\ [acct EXCEPT !.pc = "saving", !.slot = None, !.token = req[acct.slot].token] \in Acct
          /\ NoAcct \in Acct
      BY <3>1 DEF Acct, NoAcct
    <3>3. QED
      BY <1>10, <3>2 DEF LoginAnswered
  <2>2. req' \in [Requests -> Request]
    BY <1>10, RequestTypes DEF LoginAnswered, SlotsTaken
  <2>3. access' \in Users \cup {None}
    BY <1>10 DEF LoginAnswered, Acct
  <2>4. QED
    BY <1>10, <2>1, <2>2, <2>3 DEF LoginAnswered
<1>11. ASSUME LoginSaved PROVE TypeOK'
  <2>1. acct' \in Acct
    BY <1>11 DEF LoginSaved, Acct, NoAcct
  <2>2. refresh' \in Tokens \cup {None}
    BY <1>11 DEF LoginSaved, Acct
  <2>3. who' \in Users \cup {None}
    BY <1>11 DEF LoginSaved, Flight, Acct, Restored
  <2>4. QED
    BY <1>11, <2>1, <2>2, <2>3 DEF LoginSaved
<1>12. ASSUME LoginSaveFails PROVE TypeOK'
  <2>1. acct' \in Acct
    BY <1>12 DEF LoginSaveFails, Acct, NoAcct
  <2>2. QED
    BY <1>12, <2>1 DEF LoginSaveFails
<1>13. ASSUME LogoutTokenless PROVE TypeOK'
  <2>1. acct' \in Acct
    BY <1>13 DEF LogoutTokenless, Acct, NoAcct
  <2>2. mutex' \in Seq({"flight", "logout"})
    BY <1>13 DEF LogoutTokenless, Ask
  <2>3. QED
    BY <1>13, <2>1, <2>2 DEF LogoutTokenless
<1>14. ASSUME LogoutAnswered PROVE TypeOK'
  <2>1. acct' \in Acct
    BY <1>14 DEF LogoutAnswered, Acct, NoAcct
  <2>2. mutex' \in Seq({"flight", "logout"})
    BY <1>14 DEF LogoutAnswered, Ask
  <2>3. req' \in [Requests -> Request]
    BY <1>14, RequestTypes DEF LogoutAnswered, SlotsTaken
  <2>4. QED
    BY <1>14, <2>1, <2>2, <2>3 DEF LogoutAnswered
<1>15. ASSUME AccountLost PROVE TypeOK'
  <2>1. acct' \in Acct
    <3>1. [NoAcct EXCEPT !.pc = "clear", !.user = who] \in Acct /\ NoAcct \in Acct
      BY DEF Acct, NoAcct
    <3>2. QED
      BY <1>15, <3>1 DEF AccountLost
  <2>2. mutex' \in Seq({"flight", "logout"})
    BY <1>0, <1>15 DEF AccountLost, Ask
  <2>3. req' \in [Requests -> Request]
    BY <1>15, RequestTypes DEF AccountLost, SlotsTaken
  <2>4. QED
    BY <1>15, <2>1, <2>2, <2>3 DEF AccountLost
<1>16. ASSUME InvalidateAndClear PROVE TypeOK'
  <2>1. flight' \in Flight
    BY <1>16 DEF InvalidateAndClear, Flight
  <2>2. acct' \in Acct
    BY <1>16 DEF InvalidateAndClear, Acct
  <2>3. QED
    BY <1>16, <2>1, <2>2 DEF InvalidateAndClear
<1>17. ASSUME Cleared PROVE TypeOK'
  <2>1. acct' \in Acct
    BY <1>17 DEF Cleared, Acct, NoAcct
  <2>2. mutex' \in Seq({"flight", "logout"})
    BY <1>17 DEF Cleared, MutexHeld, Running, Freed
  <2>3. QED
    BY <1>17, <2>1, <2>2 DEF Cleared
<1>18. ASSUME ClearFails PROVE TypeOK'
  <2>1. acct' \in Acct
    BY <1>18 DEF ClearFails, Acct, NoAcct
  <2>2. mutex' \in Seq({"flight", "logout"})
    BY <1>18 DEF ClearFails, MutexHeld, Running, Freed
  <2>3. QED
    BY <1>18, <2>1, <2>2 DEF ClearFails
<1>19. ASSUME Restart PROVE TypeOK'
  <2>1. flight' \in Flight
    BY <1>19 DEF Restart, Flight, NoFlight
  <2>2. acct' \in Acct
    BY <1>19 DEF Restart, Acct, NoAcct
  <2>3. req' \in [Requests -> Request]
    BY <1>19, RequestTypes DEF Restart
  <2>4. QED
    BY <1>19, <2>1, <2>2, <2>3 DEF Restart
<1>20. ASSUME CurrentUser PROVE TypeOK'
  <2>1. flight' \in Flight
    <3>1. ASSUME access # None, Join(access) PROVE flight' \in Flight
      BY <3>1 DEF Join, Flight
    <3>2. QED
      BY <1>20, <3>1 DEF CurrentUser
  <2>2. acct' \in Acct
    BY <1>20 DEF CurrentUser, Acct, NoAcct
  <2>3. mutex' \in Seq({"flight", "logout"})
    BY <1>0, <1>20 DEF CurrentUser, Join, Ask
  <2>4. QED
    BY <1>20, <2>1, <2>2, <2>3 DEF CurrentUser
<1>21. ASSUME NEW r \in Requests, FlightRead(r) PROVE TypeOK'
  <2>1. refresh \in Tokens
    BY <1>21 DEF FlightRead
  <2>2. req' \in [Requests -> Request]
    BY <1>1, <1>21, <2>1 DEF FlightRead, PostRefresh
  <2>3. flight' \in Flight
    BY <1>21, <2>1 DEF FlightRead, Flight
  <2>4. mutex' \in Seq({"flight", "logout"})
    BY <1>21 DEF FlightRead, Running, Freed
  <2>5. QED
    BY <1>21, <2>2, <2>3, <2>4 DEF FlightRead
<1>22. ASSUME NEW r \in Requests, Logout(r) PROVE TypeOK'
  <2>1. req' \in [Requests -> Request]
    BY <1>1, <1>22 DEF Logout, PostLogout
  <2>2. acct' \in Acct
    BY <1>22 DEF Logout, Acct, NoAcct
  <2>3. QED
    BY <1>22, <2>1, <2>2 DEF Logout
<1>23. ASSUME NEW u \in Users, NEW r \in Requests, Login(u, r) PROVE TypeOK'
  <2>1. req' \in [Requests -> Request]
    BY <1>1, <1>23 DEF Login, PostLogin
  <2>2. acct' \in Acct
    BY <1>23 DEF Login, Acct, NoAcct
  <2>3. QED
    BY <1>23, <2>1, <2>2 DEF Login
<1>24. QED
  BY <1>2, <1>3, <1>4, <1>5, <1>6, <1>7, <1>8, <1>9, <1>10, <1>11, <1>12, <1>13, <1>14, <1>15, <1>16, <1>17, <1>18, <1>19, <1>20, <1>21, <1>22, <1>23 DEF DeviceNext, FlightStep, AccountStep

-----------------------------------------------------------------------------
(* The server's rows.                                                      *)

\* What the steps of the device do to the requests: they add some at their
\* start, and take away the answered ones.
LEMMA DeviceRequests ==
  ASSUME TypeOK, SlotsTaken, DeviceNext, NEW r \in Requests
  PROVE  /\ UNCHANGED <<row, issued, parent, active>>
         /\ req'[r].pc \in {"lock", "rotate", "family", "read", "revoke"} => req'[r].token \in Tokens
         /\ req'[r].pc \in {"rotate", "family", "revoke", "sweep"} =>
              /\ req[r].pc = req'[r].pc
              /\ req[r].token = req'[r].token
              /\ req[r].snap = req'[r].snap
<1> DEFINE Quiet(q) ==
      /\ q.pc \in {"lock", "rotate", "family", "read", "revoke"} => q.token \in Tokens
      /\ q.pc \in {"rotate", "family", "revoke", "sweep"} =>
           req[r].pc = q.pc /\ req[r].token = q.token /\ req[r].snap = q.snap
<1>1. req \in [Requests -> Request] /\ req[r] \in Request
  BY DEF TypeOK, ServerTypeOK
<1>2. Quiet(req[r]) /\ Quiet(Idle) /\ Quiet(Orphan(req[r]))
  BY <1>1 DEF SlotsTaken, Idle, Orphan, Request
<1>3. ASSUME NEW c, NEW t \in Tokens
      PROVE  /\ Quiet([Idle EXCEPT !.pc = "lock", !.client = c, !.token = t])
             /\ Quiet([Idle EXCEPT !.pc = "read", !.client = c, !.token = t])
  BY DEF Idle
<1>4. ASSUME NEW c, NEW u PROVE Quiet([Idle EXCEPT !.pc = "issue", !.client = c, !.user = u])
  BY DEF Idle
<1>5. refresh # None => refresh \in Tokens
  BY DEF TypeOK
<1>6. CASE \E o \in Requests : FlightRead(o)
  BY <1>1, <1>2, <1>3, <1>5, <1>6 DEF FlightRead, PostRefresh
<1>7. CASE \E o \in Requests : Logout(o)
  BY <1>1, <1>2, <1>3, <1>5, <1>7 DEF Logout, PostLogout
<1>8. CASE \E u \in Users, o \in Requests : Login(u, o)
  BY <1>1, <1>2, <1>4, <1>8 DEF Login, PostLogin
<1>9. CASE FlightAnswered \/ LoginAnswered \/ LogoutAnswered
  BY <1>1, <1>2, <1>9 DEF FlightAnswered, LoginAnswered, LogoutAnswered
<1>10. CASE FlightLost \/ AccountLost
  BY <1>1, <1>2, <1>10 DEF FlightLost, AccountLost
<1>11. CASE Restart
  BY <1>1, <1>2, <1>11 DEF Restart
<1>12. CASE UNCHANGED <<row, issued, parent, active, req>>
  BY <1>2, <1>12
<1>13. QED
  BY <1>6, <1>7, <1>8, <1>9, <1>10, <1>11, <1>12
     DEF DeviceNext, FlightStep, AccountStep, Call401, FlightReadFails, FlightClear, FlightSave,
         FlightSaved, FlightSaveFails, LoginSaved, LoginSaveFails, LogoutTokenless,
         InvalidateAndClear, Cleared, ClearFails, CurrentUser

\* An answered request is over, and the others do not notice.
LEMMA RespondFacts ==
  ASSUME TypeOK, NEW r \in Requests, NEW a, NEW t, Respond(r, a, t)
  PROVE  /\ req'[r].pc \in {"idle", "done"}
         /\ \A o \in Requests \ {r} : req'[o] = req[o]
<1>1. req \in [Requests -> Request] /\ req[r] \in Request
  BY DEF TypeOK, ServerTypeOK
<1>2. /\ Idle.pc = "idle"
      /\ [req[r] EXCEPT !.pc = "done", !.answer = a, !.token = t].pc = "done"
  BY <1>1 DEF Idle, Request
<1>3. QED
  BY <1>1, <1>2 DEF Respond

\* The request r ends, the rows that others have locked stay as they are.
LEMMA StillLocked ==
  ASSUME TypeOK, RowsExist, RowsLocked, NEW r \in Requests,
         req'[r].pc \notin {"rotate", "family"},
         \A o \in Requests \ {r} : req'[o] = req[o],
         \A t \in issued : ~Locked(t, r) \/ row'[t] = row[t]
  PROVE  \A o \in Requests :
           req'[o].pc = "rotate" => /\ ~row'[req'[o].token].revoked
                                    /\ ~Locked(req[o].token, o)'
<1> SUFFICES ASSUME NEW o \in Requests, req'[o].pc = "rotate"
             PROVE  /\ ~row'[req'[o].token].revoked
                    /\ ~Locked(req[o].token, o)'
  OBVIOUS
<1>1. o # r /\ req'[o] = req[o]
  OBVIOUS
<1>2. req[o].token \in issued /\ ~row[req[o].token].revoked /\ ~Locked(req[o].token, o)
  BY <1>1 DEF RowsLocked, RowsExist
<1>3. Locked(req[o].token, r)
  BY <1>1 DEF Locked
<1>4. row'[req[o].token] = row[req[o].token]
  BY <1>2, <1>3
<1>5. ~Locked(req[o].token, o)'
  BY <1>1, <1>2 DEF Locked
<1>6. QED
  BY <1>1, <1>2, <1>4, <1>5

\* Revoking rows that no other request has locked.
LEMMA RevokeStep ==
  ASSUME TypeOK, RowsExist, RowsLocked, SingleUse, NEW r \in Requests, NEW ts \in SUBSET issued,
         \A t \in ts : ~Locked(t, r),
         req'[r].pc \notin {"rotate", "family"},
         \A o \in Requests \ {r} : req'[o] = req[o],
         row' = Revoked(ts),
         UNCHANGED <<issued, parent>>
  PROVE  RowsLocked' /\ SingleUse'
<1>1. \A t \in Tokens : row[t].revoked => row'[t].revoked
  BY DEF Revoked, TypeOK, ServerTypeOK, Row
<1>2. \A t \in Tokens \ ts : row'[t] = row[t]
  BY DEF Revoked, TypeOK, ServerTypeOK, Row
<1>3. \A t \in Tokens \ issued : t \notin ts
  OBVIOUS
<1>4. \A t \in Tokens \ issued' : (row[t] = NoRow)' /\ (parent[t] = None)'
  BY <1>2, <1>3 DEF RowsLocked
<1>5. \A t \in issued : ~Locked(t, r) \/ row'[t] = row[t]
  BY <1>2 DEF TypeOK, ServerTypeOK
<1>6. RowsLocked'
  BY <1>4, <1>5, StillLocked DEF RowsLocked
<1>7. SingleUse'
  <2>1. \A t \in issued : parent[t] # None => parent[t] \in Tokens
    BY DEF TypeOK, ServerTypeOK
  <2>2. QED
    BY <1>1, <2>1 DEF SingleUse
<1>8. QED
  BY <1>6, <1>7

\* A new row is inserted.
LEMMA InsertStep ==
  ASSUME TypeOK, RowsExist, RowsLocked, SingleUse, NEW r \in Requests, NEW new \in Tokens \ issued, NEW u,
         req'[r].pc \notin {"rotate", "family"},
         \A o \in Requests \ {r} : req'[o] = req[o],
         row' = [row EXCEPT ![new] = NewRow(u)],
         issued' = issued \cup {new},
         UNCHANGED parent
  PROVE  RowsLocked' /\ SingleUse'
<1>1. \A t \in Tokens \ {new} : row'[t] = row[t]
  BY DEF TypeOK, ServerTypeOK
<1>2. RowsLocked'
  BY <1>1, StillLocked DEF RowsLocked, TypeOK, ServerTypeOK
<1>3. ~row[new].revoked /\ parent[new] = None
  BY DEF RowsLocked, NoRow
<1>4. \A t \in issued : parent[t] # None => parent[t] \in Tokens \ {new}
  BY <1>3 DEF SingleUse, TypeOK, ServerTypeOK
<1>5. SingleUse'
  BY <1>1, <1>3, <1>4 DEF SingleUse
<1>6. QED
  BY <1>2, <1>5

\* The steps of the server keep the locks and single use.
LEMMA RowsStep ==
  ASSUME ConstantsAssumption, TypeOK, SlotsTaken, RowsExist, RowsLocked, SingleUse, ServerNext
  PROVE  RowsLocked' /\ SingleUse'
<1>1. req \in [Requests -> Request] /\ row \in [Tokens -> Row] /\ issued \subseteq Tokens
  BY DEF TypeOK, ServerTypeOK
<1>2. ASSUME NEW r \in Requests, NEW a, Answered(r, a), UNCHANGED <<row, issued, parent>>
      PROVE  RowsLocked' /\ SingleUse'
  <2>1. req'[r].pc \notin {"rotate", "family"} /\ \A o \in Requests \ {r} : req'[o] = req[o]
    BY <1>2, RespondFacts DEF Answered
  <2>2. RowsLocked'
    BY <1>2, <2>1, StillLocked DEF RowsLocked
  <2>3. QED
    BY <1>2, <2>2 DEF SingleUse
<1>3. ASSUME NEW r \in Requests, RefreshLock(r) PROVE RowsLocked' /\ SingleUse'
  <2> DEFINE t == req[r].token
  <2>1. t \in Tokens /\ ~Locked(t, r)
    BY <1>3 DEF RefreshLock, SlotsTaken
  <2>2. CASE Answered(r, "refused")
    BY <1>2, <1>3, <2>2 DEF RefreshLock
  <2>3. CASE ~Answered(r, "refused")
    <3>1. /\ req'[r].pc \in {"rotate", "family"}
          /\ req'[r].token = t
          /\ \A o \in Requests \ {r} : req'[o] = req[o]
          /\ row[t].user # None
          /\ req'[r].pc = "rotate" => ~row[t].revoked
      BY <1>1, <1>3, <2>3 DEF RefreshLock, Request
    <3>3. ASSUME NEW o \in Requests, req'[o].pc = "rotate"
          PROVE  ~row[req'[o].token].revoked /\ ~Locked(req[o].token, o)'
      <4>1. CASE o = r
        BY <2>1, <3>1, <3>3, <4>1 DEF Locked
      <4>2. CASE o # r
        <5>1. req'[o] = req[o] /\ req[o].token # t
          BY <2>1, <3>1, <3>3, <4>2 DEF Locked
        <5>2. QED
          BY <3>1, <3>3, <4>2, <5>1 DEF RowsLocked, Locked
      <4>3. QED
        BY <4>1, <4>2
    <3>4. QED
      BY <1>3, <3>3 DEF RefreshLock, RowsLocked, SingleUse
  <2>4. QED
    BY <2>2, <2>3
<1>4. ASSUME NEW r \in Requests, RefreshFamily(r) PROVE RowsLocked' /\ SingleUse'
  <2>1. req[r].snap \in SUBSET issued
    BY <1>4 DEF RefreshFamily, RowsExist
  <2>2. req'[r].pc \notin {"rotate", "family"} /\ \A o \in Requests \ {r} : req'[o] = req[o]
    BY <1>4, RespondFacts DEF RefreshFamily, Answered
  <2>3. QED
    BY <1>4, <2>1, <2>2, RevokeStep DEF RefreshFamily
<1>5. ASSUME NEW r \in Requests, LogoutRead(r) PROVE RowsLocked' /\ SingleUse'
  <2>1. CASE Answered(r, "ok")
    BY <1>2, <1>5, <2>1 DEF LogoutRead
  <2>2. CASE req' = [req EXCEPT ![r].pc = "revoke"]
    <3>1. req'[r].pc \notin {"rotate", "family"} /\ \A o \in Requests \ {r} : req'[o] = req[o]
      BY <1>1, <2>2 DEF Request
    <3>2. RowsLocked'
      BY <1>5, <3>1, StillLocked DEF RowsLocked, LogoutRead
    <3>3. QED
      BY <1>5, <3>2 DEF SingleUse, LogoutRead
  <2>3. QED
    BY <1>5, <2>1, <2>2 DEF LogoutRead
<1>6. ASSUME NEW r \in Requests, LogoutRevoke(r) PROVE RowsLocked' /\ SingleUse'
  <2>1. {req[r].token} \in SUBSET issued /\ \A t \in {req[r].token} : ~Locked(t, r)
    BY <1>6 DEF LogoutRevoke, RowsExist
  <2>2. req'[r].pc \notin {"rotate", "family"} /\ \A o \in Requests \ {r} : req'[o] = req[o]
    BY <1>6, RespondFacts DEF LogoutRevoke, Answered
  <2>3. row' = Revoked({req[r].token})
    BY <1>1, <1>6 DEF LogoutRevoke, Revoked, Row
  <2>4. QED
    <3>1. UNCHANGED <<issued, parent>>
      BY <1>6 DEF LogoutRevoke
    <3>2. QED
      BY <2>1, <2>2, <2>3, <3>1, RevokeStep
<1>7. ASSUME NEW r \in Requests, NEW new \in Tokens, RefreshRotate(r, new)
      PROVE  RowsLocked' /\ SingleUse'
  <2> DEFINE t == req[r].token
  <2>1. t \in issued /\ ~row[t].revoked /\ ~Locked(t, r) /\ new \in Tokens \ issued /\ t # new
    BY <1>7 DEF RefreshRotate, RowsExist, RowsLocked
  <2>2. req'[r].pc \notin {"rotate", "family"} /\ \A o \in Requests \ {r} : req'[o] = req[o]
    BY <1>7, RespondFacts DEF RefreshRotate
  <2>3. /\ \A s \in Tokens \ {t, new} : row'[s] = row[s]
        /\ row'[t].revoked
        /\ issued' = issued \cup {new}
        /\ parent'[new] = t
        /\ \A s \in Tokens \ {new} : parent'[s] = parent[s]
    BY <1>1, <1>7, <2>1 DEF RefreshRotate, TypeOK, ServerTypeOK, Row
  <2>4. RowsLocked'
    BY <1>1, <2>1, <2>2, <2>3, StillLocked DEF RowsLocked
  <2>5. ~row[new].revoked
    BY <2>1 DEF RowsLocked, NoRow
  <2>6. \A s \in issued : parent[s] # None =>
          parent[s] \in Tokens /\ parent[s] # new /\ parent[s] # t /\ row[parent[s]].revoked
    BY <2>1, <2>5 DEF SingleUse, TypeOK, ServerTypeOK
  <2>7. t # None
    BY <1>1, <2>1, ConstantsAssumption DEF ConstantsAssumption
  <2>8. SingleUse'
    BY <1>1, <2>1, <2>3, <2>6, <2>7 DEF SingleUse
  <2>9. QED
    BY <2>4, <2>8
<1>8. ASSUME NEW r \in Requests, NEW new \in Tokens, LoginIssue(r, new)
      PROVE  RowsLocked' /\ SingleUse'
  <2>1. req'[r].pc \notin {"rotate", "family"} /\ \A o \in Requests \ {r} : req'[o] = req[o]
    BY <1>8, RespondFacts DEF LoginIssue
  <2>2. QED
    BY <1>8, <2>1, InsertStep DEF LoginIssue
<1>9. ASSUME NEW r \in Requests, RequestFails(r) PROVE RowsLocked' /\ SingleUse'
  BY <1>2, <1>9 DEF RequestFails
<1>10. ASSUME NEW r \in Requests, NEW u \in Swept, NEW off \in BOOLEAN, SweepStart(r, u, off)
       PROVE  RowsLocked' /\ SingleUse'
  <2>1. req'[r].pc \notin {"rotate", "family"} /\ \A o \in Requests \ {r} : req'[o] = req[o]
    BY <1>1, <1>10 DEF SweepStart, Idle
  <2>2. RowsLocked'
    BY <1>10, <2>1, StillLocked DEF RowsLocked, SweepStart
  <2>3. QED
    BY <1>10, <2>2 DEF SingleUse, SweepStart
<1>11. ASSUME NEW u \in Users, Reactivate(u) PROVE RowsLocked' /\ SingleUse'
  BY <1>11 DEF Reactivate, RowsLocked, SingleUse, Locked
<1>12. ASSUME NEW r \in Requests, SweepCommit(r) PROVE RowsLocked' /\ SingleUse'
  <2>1. req[r].snap \in SUBSET issued
    BY <1>12 DEF SweepCommit, RowsExist
  <2>2. req'[r].pc \notin {"rotate", "family"} /\ \A o \in Requests \ {r} : req'[o] = req[o]
    BY <1>12, RespondFacts DEF SweepCommit, Answered
  <2>3. QED
    BY <1>12, <2>1, <2>2, RevokeStep DEF SweepCommit
<1>13. QED
  BY <1>3, <1>4, <1>5, <1>6, <1>7, <1>8, <1>9, <1>10, <1>11, <1>12 DEF ServerNext, ServerStep

\* The steps of the server look at a row before they update it.
LEMMA RowsExistStep ==
  ASSUME ConstantsAssumption, TypeOK, SlotsTaken, RowsExist, RowsLocked, ServerNext
  PROVE  /\ RowsExist'
         /\ \A r \in Requests :
              req'[r].pc \in {"lock", "rotate", "family", "read", "revoke"} => req'[r].token \in Tokens
<1> DEFINE Good(q) == /\ q.pc \in {"rotate", "revoke"} => q.token \in issued'
                      /\ q.pc \in {"family", "sweep"} => q.snap \subseteq issued'
                      /\ q.pc \in {"lock", "rotate", "family", "read", "revoke"} => q.token \in Tokens
<1>1. SUFFICES \A r \in Requests : Good(req'[r])
  BY DEF RowsExist
<1>2. /\ req \in [Requests -> Request] /\ row \in [Tokens -> Row] /\ issued \subseteq Tokens
      /\ None \notin Users
      /\ Swept \subseteq Users
  BY ConstantsAssumption DEF TypeOK, ServerTypeOK, ConstantsAssumption
<1>3. issued \subseteq issued'
  BY DEF ServerNext, ServerStep, RefreshLock, RefreshFamily, LogoutRead, LogoutRevoke, SweepCommit,
         RequestFails, RefreshRotate, LoginIssue, SweepStart, Reactivate
<1>4. \A r \in Requests : Good(req[r])
  BY <1>3 DEF RowsExist, SlotsTaken
<1>5. \A u : u # None => Unrevoked(u) \subseteq issued
  BY DEF Unrevoked, RowsLocked, NoRow
<1>6. \A t \in Tokens : row[t].user # None => t \in issued
  BY DEF RowsLocked, NoRow
<1>7. ASSUME NEW r \in Requests, NEW a, NEW t, Respond(r, a, t) PROVE \A o \in Requests : Good(req'[o])
  BY <1>4, <1>7, RespondFacts
<1>8. ASSUME NEW r \in Requests, RefreshLock(r) PROVE \A o \in Requests : Good(req'[o])
  <2> DEFINE t == req[r].token
  <2>1. t \in Tokens
    BY <1>8 DEF RefreshLock, SlotsTaken
  <2>2. CASE Answered(r, "refused")
    BY <1>7, <2>2 DEF Answered
  <2>3. CASE ~Answered(r, "refused")
    <3>1. /\ req'[r].pc \in {"rotate", "family"}
          /\ req'[r].token = t
          /\ \A o \in Requests \ {r} : req'[o] = req[o]
          /\ row[t].user # None
          /\ req'[r].pc = "family" => req'[r].snap = Unrevoked(row[t].user)
      BY <1>2, <1>8, <2>3 DEF RefreshLock, Request
    <3>2. QED
      BY <1>3, <1>4, <1>5, <1>6, <2>1, <3>1
  <2>4. QED
    BY <2>2, <2>3
<1>9. ASSUME NEW r \in Requests, LogoutRead(r) PROVE \A o \in Requests : Good(req'[o])
  <2>1. CASE Answered(r, "ok")
    BY <1>7, <2>1 DEF Answered
  <2>2. CASE ~Answered(r, "ok")
    <3>1. /\ req'[r].pc = "revoke"
          /\ req'[r].token = req[r].token
          /\ req[r].token \in Tokens
          /\ \A o \in Requests \ {r} : req'[o] = req[o]
          /\ row[req[r].token].user # None
      BY <1>2, <1>9, <2>2 DEF LogoutRead, SlotsTaken, Request
    <3>2. QED
      BY <1>3, <1>4, <1>6, <3>1
  <2>3. QED
    BY <2>1, <2>2
<1>10. ASSUME NEW r \in Requests, NEW u \in Swept, NEW off \in BOOLEAN, SweepStart(r, u, off)
       PROVE  \A o \in Requests : Good(req'[o])
  <2>1. /\ req'[r].pc = "sweep"
        /\ req'[r].snap = Unrevoked(u)
        /\ \A o \in Requests \ {r} : req'[o] = req[o]
    BY <1>2, <1>10 DEF SweepStart, Idle
  <2>2. QED
    BY <1>2, <1>3, <1>4, <1>5, <2>1
<1>11. ASSUME NEW r \in Requests,
              \/ RefreshFamily(r) \/ LogoutRevoke(r) \/ SweepCommit(r) \/ RequestFails(r)
              \/ \E new \in Tokens : RefreshRotate(r, new) \/ LoginIssue(r, new)
       PROVE  \A o \in Requests : Good(req'[o])
  BY <1>7, <1>11 DEF RefreshFamily, LogoutRevoke, SweepCommit, RequestFails, RefreshRotate, LoginIssue,
                     Answered
<1>12. ASSUME NEW u \in Users, Reactivate(u) PROVE \A o \in Requests : Good(req'[o])
  BY <1>4, <1>12 DEF Reactivate
<1>13. QED
  BY <1>8, <1>9, <1>10, <1>11, <1>12 DEF ServerNext, ServerStep

-----------------------------------------------------------------------------
(* The device.                                                             *)

\* What the invariant says of the device alone.
DeviceHeld ==
  /\ flight.pc = "sent" => flight.slot \in Requests
  /\ acct.pc \in {"loggingIn", "leaving"} => acct.slot \in Requests
  /\ MutexHeld
  /\ CutOff
  /\ OwnToken

\* What asking for a section and ending one do to the queue of the mutex.
LEMMA QueueFacts ==
  ASSUME NEW s \in Seq({"flight", "logout"}), NEW x \in {"flight", "logout"}
  PROVE  /\ Append(s, x) # << >>
         /\ s # << >> => Head(Append(s, x)) = Head(s)
         /\ Asked(Append(s, "flight"))
         /\ Asked(s) => Asked(Append(s, x)) /\ s # << >>
         /\ s # << >> /\ Head(s) = "logout" /\ Asked(s) => Asked(Tail(s))
<1>1. Append(s, x) # << >> /\ (s # << >> => Head(Append(s, x)) = Head(s))
  <2>1. Len(Append(s, x)) = Len(s) + 1 /\ Append(s, x) \in Seq({"flight", "logout"})
    OBVIOUS
  <2>2. ASSUME s # << >> PROVE Append(s, x)[1] = s[1]
    <3>1. 1 \in 1 .. Len(s)
      BY <2>2
    <3>2. QED
      BY <3>1
  <2>3. Append(s, x) # << >>
    BY <2>1
  <2>4. QED
    BY <2>1, <2>2, <2>3
<1>2. Asked(Append(s, "flight"))
  <2>1. Len(s) + 1 \in 1 .. Len(Append(s, "flight")) /\ Append(s, "flight")[Len(s) + 1] = "flight"
    OBVIOUS
  <2>2. QED
    BY <2>1 DEF Asked
<1>3. ASSUME Asked(s) PROVE Asked(Append(s, x)) /\ s # << >>
  <2>1. PICK i \in 1 .. Len(s) : s[i] = "flight"
    BY <1>3 DEF Asked
  <2>2. i \in 1 .. Len(Append(s, x)) /\ Append(s, x)[i] = "flight"
    BY <2>1
  <2>3. QED
    BY <2>1, <2>2 DEF Asked
<1>4. ASSUME s # << >>, Head(s) = "logout", Asked(s) PROVE Asked(Tail(s))
  <2>1. PICK i \in 1 .. Len(s) : s[i] = "flight"
    BY <1>4 DEF Asked
  <2>2. i # 1
    BY <1>4, <2>1
  <2>3. i - 1 \in 1 .. Len(Tail(s)) /\ Tail(s)[i - 1] = "flight"
    BY <1>4, <2>1, <2>2
  <2>4. QED
    BY <2>3 DEF Asked
<1>5. QED
  BY <1>1, <1>2, <1>3, <1>4

\* Every step of the device keeps what the invariant says of it.
LEMMA DeviceStep ==
  ASSUME TypeOK, DeviceHeld, DeviceNext
  PROVE  DeviceHeld'
<1>0. /\ flight \in Flight /\ acct \in Acct /\ mutex \in Seq({"flight", "logout"})
      /\ refresh \in Tokens \cup {None}
      /\ left \in BOOLEAN
  BY DEF TypeOK
<1> USE <1>0 DEF DeviceHeld, MutexHeld, CutOff, OwnToken, UnderWay, Running, Flight, Acct
<1>1. ASSUME Call401 PROVE DeviceHeld'
  <2>1. CASE flight.pc = "none"
    <3>1. flight'.pc = "wait" /\ mutex' = Append(mutex, "flight")
      BY <1>1, <2>1 DEF Call401, Join, Ask
    <3>2. Asked(mutex') /\ (Running("logout") => Running("logout")')
      BY <3>1, QueueFacts
    <3>3. who # None /\ UNCHANGED <<access, refresh, who, acct, left>>
      BY <1>1 DEF Call401
    <3>4. acct.pc \notin {"loggingIn", "saving", "reading"}
      BY <3>3
    <3>5. QED
      BY <3>1, <3>2, <3>3, <3>4
  <2>2. CASE flight.pc # "none"
    BY <1>1, <2>2 DEF Call401, Join
  <2>3. QED
    BY <2>1, <2>2
<1>2. ASSUME FlightReadFails PROVE DeviceHeld'
  BY <1>2 DEF FlightReadFails, Freed, Restored, NoFlight, NoAcct
<1>3. ASSUME FlightAnswered PROVE DeviceHeld'
  <2> DEFINE a == req[flight.slot].answer
  <2>1. CASE a = "ok"
    BY <1>3, <2>1, QueueFacts DEF FlightAnswered, Ask
  <2>2. CASE a \in {"refused", "reused"}
    BY <1>3, <2>2, QueueFacts DEF FlightAnswered, Ask
  <2>3. CASE a = "error"
    BY <1>3, <2>3 DEF FlightAnswered, Restored, NoFlight, NoAcct
  <2>4. QED
    BY <1>3, <2>1, <2>2, <2>3 DEF FlightAnswered
<1>4. ASSUME FlightLost PROVE DeviceHeld'
  BY <1>4 DEF FlightLost, Restored, NoFlight, NoAcct
<1>5. ASSUME FlightClear PROVE DeviceHeld'
  BY <1>5 DEF FlightClear, Freed, Restored, NoFlight, NoAcct
<1>6. ASSUME FlightSave PROVE DeviceHeld'
  BY <1>6 DEF FlightSave, Freed, Restored, NoFlight, NoAcct
<1>7. ASSUME FlightSaved PROVE DeviceHeld'
  BY <1>7 DEF FlightSaved, Freed, Restored, NoFlight, NoAcct
<1>8. ASSUME FlightSaveFails PROVE DeviceHeld'
  BY <1>8 DEF FlightSaveFails, Freed, Restored, NoFlight, NoAcct
<1>9. ASSUME LoginAnswered PROVE DeviceHeld'
  <2>1. CASE req[acct.slot].answer = "ok"
    BY <1>9, <2>1 DEF LoginAnswered
  <2>2. CASE req[acct.slot].answer # "ok"
    BY <1>9, <2>2 DEF LoginAnswered, NoAcct
  <2>3. QED
    BY <2>1, <2>2
<1>10. ASSUME LoginSaved PROVE DeviceHeld'
  BY <1>10 DEF LoginSaved, NoAcct
<1>11. ASSUME LoginSaveFails PROVE DeviceHeld'
  BY <1>11 DEF LoginSaveFails, NoAcct
<1>12. ASSUME LogoutTokenless PROVE DeviceHeld'
  BY <1>12, QueueFacts DEF LogoutTokenless, Ask, NoAcct
<1>13. ASSUME LogoutAnswered PROVE DeviceHeld'
  BY <1>13, QueueFacts DEF LogoutAnswered, Ask, NoAcct
<1>14. ASSUME AccountLost PROVE DeviceHeld'
  <2>1. CASE acct.pc = "loggingIn"
    BY <1>14, <2>1 DEF AccountLost, NoAcct
  <2>2. CASE acct.pc = "leaving"
    BY <1>14, <2>2, QueueFacts DEF AccountLost, Ask, NoAcct
  <2>3. QED
    BY <1>14, <2>1, <2>2 DEF AccountLost
<1>15. ASSUME InvalidateAndClear PROVE DeviceHeld'
  BY <1>15 DEF InvalidateAndClear
<1>16. ASSUME Cleared PROVE DeviceHeld'
  BY <1>16, QueueFacts DEF Cleared, Freed, NoAcct
<1>17. ASSUME ClearFails PROVE DeviceHeld'
  BY <1>17, QueueFacts DEF ClearFails, Freed, NoAcct
<1>18. ASSUME Restart PROVE DeviceHeld'
  BY <1>18 DEF Restart, NoFlight, NoAcct
<1>19. ASSUME CurrentUser PROVE DeviceHeld'
  <2>1. acct.pc = "reading" /\ flight.pc = "none"
    BY <1>19 DEF CurrentUser
  <2>2. CASE acct' = NoAcct
    BY <1>19, <2>1, <2>2 DEF CurrentUser, NoAcct
  <2>3. CASE acct' # NoAcct
    BY <1>19, <2>1, <2>3, QueueFacts DEF CurrentUser, Join, Ask
  <2>4. QED
    BY <2>2, <2>3
<1>20. ASSUME NEW r \in Requests, FlightRead(r) PROVE DeviceHeld'
  BY <1>20 DEF FlightRead, Freed
<1>21. ASSUME NEW r \in Requests, Logout(r) PROVE DeviceHeld'
  BY <1>21 DEF Logout, NoAcct
<1>22. ASSUME NEW u \in Users, NEW r \in Requests, Login(u, r) PROVE DeviceHeld'
  BY <1>22, QueueFacts DEF Login, NoAcct
<1>23. QED
  BY <1>1, <1>2, <1>3, <1>4, <1>5, <1>6, <1>7, <1>8, <1>9, <1>10, <1>11, <1>12, <1>13, <1>14, <1>15, <1>16, <1>17, <1>18, <1>19, <1>20, <1>21, <1>22 DEF DeviceNext, FlightStep, AccountStep

\* The server answers "ok" with a token, except to nobody.
LEMMA ServerAnswers ==
  ASSUME TypeOK, SlotsTaken, AnswersCarry, ServerNext, NEW o \in Requests
  PROVE  /\ req'[o].pc = "sweep" => req'[o].client = "other"
         /\ req'[o].pc = "done" /\ req'[o].answer = "ok" => req'[o].token \in Tokens
<1> DEFINE Good(q) == /\ q.pc = "sweep" => q.client = "other"
                      /\ q.pc = "done" /\ q.answer = "ok" => q.token \in Tokens
<1>1. req \in [Requests -> Request] /\ Good(req[o]) /\ Good(Idle)
  BY DEF TypeOK, ServerTypeOK, AnswersCarry, Idle
<1>2. ASSUME NEW r \in Requests, NEW a, NEW t, a # "ok" \/ t \in Tokens \/ req[r].client = "other",
             Respond(r, a, t)
      PROVE  Good(req'[o])
  <2>1. CASE o # r
    BY <1>1, <1>2, <2>1, RespondFacts
  <2>2. CASE o = r /\ req[r].client = "other"
    BY <1>1, <1>2, <2>2 DEF Respond
  <2>3. CASE o = r /\ req[r].client # "other"
    <3>1. req'[r] = [req[r] EXCEPT !.pc = "done", !.answer = a, !.token = t]
      BY <1>1, <1>2, <2>3 DEF Respond
    <3>2. req'[r].pc = "done" /\ req'[r].answer = a /\ req'[r].token = t
      BY <1>1, <3>1 DEF Request
    <3>3. QED
      BY <1>2, <2>3, <3>2
  <2>4. QED
    BY <2>1, <2>2, <2>3
<1>3. ASSUME NEW r \in Requests, RefreshLock(r) PROVE Good(req'[o])
  <2>1. CASE Answered(r, "refused")
    BY <1>2, <2>1 DEF Answered
  <2>2. CASE ~Answered(r, "refused")
    <3>1. req'[r].pc \in {"rotate", "family"} /\ (o # r => req'[o] = req[o])
      BY <1>1, <1>3, <2>2 DEF RefreshLock, Request
    <3>2. QED
      BY <1>1, <3>1
  <2>3. QED
    BY <2>1, <2>2
<1>4. ASSUME NEW r \in Requests, LogoutRead(r) PROVE Good(req'[o])
  <2>1. CASE Answered(r, "ok")
    BY <1>2, <1>4, <2>1 DEF Answered, LogoutRead, SlotsTaken
  <2>2. CASE ~Answered(r, "ok")
    <3>1. req'[r].pc = "revoke" /\ (o # r => req'[o] = req[o])
      BY <1>1, <1>4, <2>2 DEF LogoutRead, Request
    <3>2. QED
      BY <1>1, <3>1
  <2>3. QED
    BY <2>1, <2>2
<1>5. ASSUME NEW r \in Requests, RefreshFamily(r) \/ LogoutRevoke(r) \/ SweepCommit(r) \/ RequestFails(r)
      PROVE  Good(req'[o])
  <2>1. CASE RefreshFamily(r) \/ RequestFails(r)
    BY <1>2, <2>1 DEF RefreshFamily, RequestFails, Answered
  <2>2. CASE LogoutRevoke(r)
    BY <1>2, <2>2 DEF LogoutRevoke, Answered, SlotsTaken
  <2>3. CASE SweepCommit(r)
    BY <1>2, <2>3 DEF SweepCommit, Answered, AnswersCarry
  <2>4. QED
    BY <1>5, <2>1, <2>2, <2>3
<1>6. ASSUME NEW r \in Requests, NEW new \in Tokens, RefreshRotate(r, new) \/ LoginIssue(r, new)
      PROVE  Good(req'[o])
  BY <1>2, <1>6 DEF RefreshRotate, LoginIssue
<1>7. ASSUME NEW r \in Requests, NEW u \in Swept, NEW off \in BOOLEAN, SweepStart(r, u, off)
      PROVE  Good(req'[o])
  <2>1. req'[r].pc = "sweep" /\ req'[r].client = "other" /\ (o # r => req'[o] = req[o])
    BY <1>1, <1>7 DEF SweepStart, Idle
  <2>2. QED
    BY <1>1, <2>1
<1>8. ASSUME NEW u \in Users, Reactivate(u) PROVE Good(req'[o])
  BY <1>1, <1>8 DEF Reactivate
<1>9. QED
  BY <1>3, <1>4, <1>5, <1>6, <1>7, <1>8 DEF ServerNext, ServerStep

\* The device stores the token of an answer.
LEMMA DeviceAnswers ==
  ASSUME TypeOK, SlotsTaken, AnswersCarry, DeviceNext
  PROVE  AnswersCarry'
<1>1. /\ req \in [Requests -> Request] /\ flight \in Flight /\ acct \in Acct
      /\ refresh \in Tokens \cup {None}
  BY DEF TypeOK, ServerTypeOK
<1>2. ASSUME NEW r \in Requests
      PROVE  /\ req'[r].pc = "sweep" => req'[r].client = "other"
             /\ req'[r].pc = "done" /\ req'[r].answer = "ok" => req'[r].token \in Tokens
  <2> DEFINE Good(q) == /\ q.pc = "sweep" => q.client = "other"
                        /\ q.pc = "done" /\ q.answer = "ok" => q.token \in Tokens
  <2>1. Good(req[r]) /\ Good(Idle) /\ Good(Orphan(req[r]))
    BY <1>1 DEF AnswersCarry, Idle, Orphan, Request
  <2>2. ASSUME NEW c, NEW t
        PROVE  /\ Good([Idle EXCEPT !.pc = "lock", !.client = c, !.token = t])
               /\ Good([Idle EXCEPT !.pc = "read", !.client = c, !.token = t])
               /\ Good([Idle EXCEPT !.pc = "issue", !.client = c, !.user = t])
    BY DEF Idle
  <2>3. CASE \/ \E o \in Requests : FlightRead(o) \/ Logout(o)
             \/ \E u \in Users, o \in Requests : Login(u, o)
    <3>1. CASE \E o \in Requests : FlightRead(o)
      BY <1>1, <2>1, <2>2, <3>1 DEF FlightRead, PostRefresh
    <3>2. CASE \E o \in Requests : Logout(o)
      BY <1>1, <2>1, <2>2, <3>2 DEF Logout, PostLogout
    <3>3. CASE \E u \in Users, o \in Requests : Login(u, o)
      BY <1>1, <2>1, <2>2, <3>3 DEF Login, PostLogin
    <3>4. QED
      BY <2>3, <3>1, <3>2, <3>3
  <2>4. CASE FlightAnswered \/ LoginAnswered \/ LogoutAnswered
    BY <1>1, <2>1, <2>4 DEF FlightAnswered, LoginAnswered, LogoutAnswered
  <2>5. CASE FlightLost \/ AccountLost \/ Restart
    BY <1>1, <2>1, <2>5 DEF FlightLost, AccountLost, Restart
  <2>6. CASE UNCHANGED req
    BY <2>1, <2>6
  <2>7. QED
    BY <2>3, <2>4, <2>5, <2>6
       DEF DeviceNext, FlightStep, AccountStep, Call401, FlightReadFails, FlightClear, FlightSave,
           FlightSaved, FlightSaveFails, LoginSaved, LoginSaveFails, LogoutTokenless,
           InvalidateAndClear, Cleared, ClearFails, CurrentUser
<1>3. flight'.pc \in {"reply", "saving"} => flight'.token \in Tokens
  <2>1. CASE FlightAnswered
    <3> DEFINE r == flight.slot
    <3>1. r \in Requests /\ (req[r].answer = "ok" => req[r].token \in Tokens)
      BY <2>1 DEF FlightAnswered, SlotsTaken, AnswersCarry
    <3>2. CASE req[r].answer = "ok"
      <4>1. flight' = [flight EXCEPT !.pc = "reply", !.slot = None, !.token = req[r].token,
                                     !.user = req[r].user]
        BY <2>1, <3>2 DEF FlightAnswered
      <4>2. flight'.token = req[r].token
        BY <1>1, <4>1 DEF Flight
      <4>3. QED
        BY <3>1, <3>2, <4>2
    <3>3. CASE req[r].answer # "ok"
      <4>1. [flight EXCEPT !.pc = "refused", !.slot = None].pc = "refused" /\ NoFlight.pc = "none"
        BY <1>1 DEF Flight, NoFlight
      <4>2. QED
        BY <2>1, <3>3, <4>1 DEF FlightAnswered
    <3>4. QED
      BY <3>2, <3>3
  <2>2. CASE flight' = NoFlight
    BY <2>2 DEF NoFlight
  <2>3. CASE FlightSave
    BY <1>1, <2>3 DEF FlightSave, AnswersCarry, NoFlight, Flight
  <2>4. CASE \E u : Join(u)
    BY <1>1, <2>4 DEF Join, AnswersCarry, Flight
  <2>5. CASE \E r \in Requests : FlightRead(r)
    BY <1>1, <2>5 DEF FlightRead, Flight
  <2>6. CASE InvalidateAndClear
    BY <1>1, <2>6 DEF InvalidateAndClear, AnswersCarry, Flight
  <2>7. CASE UNCHANGED flight
    BY <2>7 DEF AnswersCarry
  <2>8. QED
    BY <2>1, <2>2, <2>3, <2>4, <2>5, <2>6, <2>7
       DEF DeviceNext, FlightStep, AccountStep, Call401, FlightReadFails, FlightLost, FlightClear,
           FlightSaved, FlightSaveFails, Login, Logout, LoginAnswered, LoginSaved, LoginSaveFails,
           LogoutTokenless, LogoutAnswered, AccountLost, Cleared, ClearFails, Restart, CurrentUser
<1>4. acct'.pc = "saving" => acct'.token \in Tokens
  <2>1. CASE LoginAnswered
    <3> DEFINE r == acct.slot
    <3>1. r \in Requests /\ (req[r].answer = "ok" => req[r].token \in Tokens)
      BY <2>1 DEF LoginAnswered, SlotsTaken, AnswersCarry
    <3>2. CASE req[r].answer = "ok"
      <4>1. acct' = [acct EXCEPT !.pc = "saving", !.slot = None, !.token = req[r].token]
        BY <2>1, <3>2 DEF LoginAnswered
      <4>2. acct'.token = req[r].token
        BY <1>1, <4>1 DEF Acct
      <4>3. QED
        BY <3>1, <3>2, <4>2
    <3>3. CASE req[r].answer # "ok"
      BY <2>1, <3>3 DEF LoginAnswered, NoAcct
    <3>4. QED
      BY <3>2, <3>3
  <2>2. CASE acct'.pc # "saving"
    BY <2>2
  <2>3. CASE UNCHANGED acct
    BY <2>3 DEF AnswersCarry
  <2>4. CASE acct' = NoAcct
    BY <2>2, <2>4 DEF NoAcct
  <2>5. CASE LogoutTokenless \/ LogoutAnswered \/ AccountLost
    <3>1. /\ NoAcct.pc = "none"
          /\ [NoAcct EXCEPT !.pc = "clear"].pc = "clear"
          /\ \A u : [NoAcct EXCEPT !.pc = "clear", !.user = u].pc = "clear"
      BY DEF NoAcct
    <3>2. QED
      BY <2>2, <2>5, <3>1 DEF LogoutTokenless, LogoutAnswered, AccountLost
  <2>6. CASE InvalidateAndClear \/ Cleared \/ ClearFails
    BY <1>1, <2>2, <2>6 DEF InvalidateAndClear, Cleared, ClearFails, NoAcct, Acct
  <2>7. CASE Restart \/ CurrentUser
    BY <1>1, <2>2, <2>7 DEF Restart, CurrentUser, NoAcct, Acct
  <2>8. CASE (\E r \in Requests : Logout(r)) \/ (\E u \in Users, r \in Requests : Login(u, r))
    BY <2>2, <2>8 DEF Logout, Login, NoAcct
  <2>9. QED
    BY <2>1, <2>3, <2>4, <2>5, <2>6, <2>7, <2>8
       DEF DeviceNext, FlightStep, AccountStep, Call401, FlightRead, FlightReadFails, FlightAnswered,
           FlightLost, FlightClear, FlightSave, FlightSaved, FlightSaveFails, Restored,
           LoginSaved, LoginSaveFails
<1>5. QED
  BY <1>2, <1>3, <1>4 DEF AnswersCarry

-----------------------------------------------------------------------------
(* The invariant holds.                                                    *)

\* The invariant holds at the start.
LEMMA InitInv == Init => IInv
<1> SUFFICES ASSUME Init PROVE IInv
  OBVIOUS
<1> USE DEF Init, ServerInit
<1>1. TypeOK
  <2>1. ServerTypeOK
    BY RequestTypes DEF ServerTypeOK, NoRow, Row
  <2>2. acct \in Acct /\ flight \in Flight
    BY DEF NoAcct, Acct, NoFlight, Flight
  <2>3. mutex \in Seq({"flight", "logout"})
    OBVIOUS
  <2>4. QED
    BY <2>1, <2>2, <2>3 DEF TypeOK
<1>2. SlotsTaken /\ RowsExist /\ RowsLocked /\ SingleUse /\ AnswersCarry
  BY DEF SlotsTaken, RowsExist, RowsLocked, SingleUse, AnswersCarry, Idle, NoFlight, NoAcct
<1>3. MutexHeld /\ CutOff /\ OwnToken
  BY DEF MutexHeld, CutOff, OwnToken, UnderWay, NoFlight, NoAcct
<1>4. QED
  BY <1>1, <1>2, <1>3 DEF IInv

\* Every step keeps the invariant.
LEMMA StepInv == IInv /\ [Next]_vars => IInv'
<1> SUFFICES ASSUME IInv, [Next]_vars PROVE IInv'
  OBVIOUS
<1> USE DEF IInv
<1>1. CASE DeviceNext
  <2>1. TypeOK'
    BY <1>1, DeviceTypes, ConstantsAssumption
  <2>2. DeviceHeld'
    BY <1>1, DeviceStep DEF DeviceHeld, SlotsTaken
  <2>3. SlotsTaken'
    BY <1>1, <2>2, DeviceRequests DEF SlotsTaken, DeviceHeld
  <2>4. RowsExist' /\ RowsLocked' /\ SingleUse'
    <3>1. UNCHANGED <<row, issued, parent>>
      <4>1. CASE Requests # {}
        BY <1>1, <4>1, DeviceRequests
      <4>2. CASE Requests = {}
        BY <1>1, <4>2 DEF DeviceNext, FlightStep, AccountStep, Call401, FlightReadFails, FlightAnswered,
          FlightLost, FlightClear, FlightSave, FlightSaved, FlightSaveFails, LoginAnswered, LoginSaved,
          LoginSaveFails, LogoutTokenless, LogoutAnswered, AccountLost, InvalidateAndClear, Cleared,
          ClearFails, Restart, CurrentUser
      <4>3. QED
        BY <4>1, <4>2
    <3>2. \A r \in Requests :
            req'[r].pc \in {"rotate", "family", "revoke", "sweep"} =>
              /\ req[r].pc = req'[r].pc
              /\ req[r].token = req'[r].token
              /\ req[r].snap = req'[r].snap
      BY <1>1, DeviceRequests
    <3>3. RowsExist' /\ SingleUse'
      BY <3>1, <3>2 DEF RowsExist, SingleUse
    <3>4. RowsLocked'
      BY <3>1, <3>2 DEF RowsLocked, Locked
    <3>5. QED
      BY <3>3, <3>4
  <2>5. AnswersCarry'
    BY <1>1, DeviceAnswers
  <2>6. QED
    BY <2>1, <2>2, <2>3, <2>4, <2>5 DEF DeviceHeld
<1>2. CASE ServerNext /\ UNCHANGED deviceVars
  <2>1. ServerTypeOK'
    BY <1>2, ServerTypes, ConstantsAssumption
  <2>2. TypeOK' /\ MutexHeld' /\ CutOff' /\ OwnToken'
    BY <1>2, <2>1 DEF deviceVars, TypeOK, MutexHeld, Running, CutOff, OwnToken, UnderWay
  <2>3. RowsLocked' /\ SingleUse'
    BY <1>2, RowsStep, ConstantsAssumption
  <2>4. RowsExist' /\ SlotsTaken'
    BY <1>2, RowsExistStep, ConstantsAssumption DEF deviceVars, SlotsTaken
  <2>5. AnswersCarry'
    BY <1>2, ServerAnswers DEF deviceVars, AnswersCarry
  <2>6. QED
    BY <2>2, <2>3, <2>4, <2>5
<1>3. CASE UNCHANGED vars
  BY <1>3 DEF vars, TypeOK, ServerTypeOK, SlotsTaken, MutexHeld, Running, CutOff, UnderWay, RowsExist,
              RowsLocked, Locked, SingleUse, OwnToken, AnswersCarry
<1>4. QED
  BY <1>1, <1>2, <1>3 DEF Next

\* The invariant holds always.
LEMMA Invariant == Spec => []IInv
BY InitInv, StepInv, PTL DEF Spec

\* The state of the device and of the server keeps its types.
THEOREM TypeCorrect == Spec => []TypeOK
BY Invariant, PTL DEF IInv

\* Rotation under the row lock: a token is replaced at most once and dead from
\* then on, for any number of requests that present it together.
THEOREM RotationIsSingleUse == Spec => []SingleUse
BY Invariant, PTL DEF IInv

\* After a completed logout nothing is stored until the next login, wherever a
\* refresh was when the logout began.
THEOREM LogoutFinal == Spec => []LogoutIsFinal
<1>1. IInv => LogoutIsFinal
  BY DEF IInv, CutOff, LogoutIsFinal
<1>2. QED
  BY <1>1, Invariant, PTL

\* A stored refresh token disappears only by a logout, or because the server
\* refused this very token.
THEOREM NoCauselessClear == Spec => ClearedForAReason
<1> DEFINE Reasoned ==
      refresh # None /\ refresh' = None =>
        acct.pc = "clearing" \/ (flight.pc = "refused" /\ flight.token = refresh)
<1>1. ASSUME IInv, Next PROVE Reasoned
  <2> USE <1>1 DEF IInv
  <2>1. CASE FlightClear
    BY <2>1 DEF FlightClear, OwnToken
  <2>2. CASE FlightSaved
    BY <2>2, ConstantsAssumption DEF FlightSaved, AnswersCarry, ConstantsAssumption
  <2>3. CASE LoginSaved
    BY <2>3, ConstantsAssumption DEF LoginSaved, AnswersCarry, ConstantsAssumption
  <2>4. CASE Cleared
    BY <2>4 DEF Cleared
  <2>5. CASE UNCHANGED refresh
    BY <2>5
  <2>6. QED
    BY <2>1, <2>2, <2>3, <2>4, <2>5
       DEF Next, deviceVars, DeviceNext, FlightStep, AccountStep, Call401, FlightRead, FlightReadFails,
           FlightAnswered, FlightLost, FlightSave, FlightSaveFails, Login, Logout, LoginAnswered,
           LoginSaveFails, LogoutTokenless, LogoutAnswered, AccountLost, InvalidateAndClear,
           ClearFails, Restart, CurrentUser
<1>2. IInv /\ [Next]_vars => [Reasoned]_vars
  BY <1>1
<1>3. QED
  BY <1>2, Invariant, PTL DEF Spec, ClearedForAReason

\* A token whose session a rotation, a logout, a reuse, a password change or a
\* deactivation has ended is never exchanged for another, wherever the request
\* that presented it was at the time (refresh of auth/service, lock_by_hash).
THEOREM EndedTokensStayBarren == Spec => EndedTokensBuyNothing
<1> DEFINE Barren == \A t \in Tokens : parent'[t] # parent[t] => ~row[parent'[t]].revoked
<1>1. ASSUME IInv, Next PROVE Barren
  <2>1. CASE parent' = parent
    BY <2>1
  <2>2. ASSUME NEW r \in Requests, NEW new \in Tokens, RefreshRotate(r, new) PROVE Barren
    <3>1. /\ parent' = [parent EXCEPT ![new] = req[r].token]
          /\ req[r].pc = "rotate"
      BY <2>2 DEF RefreshRotate
    <3>2. ~row[req[r].token].revoked
      BY <1>1, <3>1 DEF IInv, RowsLocked
    <3>. QED
      BY <1>1, <3>1, <3>2 DEF IInv, TypeOK, ServerTypeOK
  <2>. QED
    BY <1>1, <2>1, <2>2
       DEF Next, DeviceNext, FlightStep, AccountStep, Call401, FlightRead, FlightReadFails, FlightAnswered,
           FlightLost, FlightClear, FlightSave, FlightSaved, FlightSaveFails, Login, LoginAnswered,
           LoginSaved, LoginSaveFails, Logout, LogoutTokenless, LogoutAnswered, AccountLost,
           InvalidateAndClear, Cleared, ClearFails, Restart, CurrentUser, ServerNext, ServerStep,
           RefreshLock, RefreshFamily, LogoutRead, LogoutRevoke, SweepStart, SweepCommit, Reactivate,
           RequestFails, LoginIssue
<1>2. IInv /\ [Next]_vars => [Barren]_serverVars
  BY <1>1 DEF vars, serverVars
<1>. QED
  BY <1>2, Invariant, PTL DEF Spec, EndedTokensBuyNothing

-----------------------------------------------------------------------------
(* Whose tokens.                                                           *)

\* A rotation is for the account of its token.
RowsOwned == \A r \in Requests : req[r].pc = "rotate" => req[r].user = row[req[r].token].user

\* The request q of a refresh that presented t.
ForRefresh(q, t) ==
  /\ q.client = "refresh"
  /\ q.pc \in {"lock", "rotate", "family", "done"}
  /\ q.pc \in {"lock", "rotate"} => q.token = t
  /\ q.pc = "done" /\ q.answer = "ok" =>
       q.token \in issued /\ row[q.token].user = q.user /\ q.user = row[t].user

\* The request q of a login of u.
ForLogin(q, u) ==
  /\ q.client = "account"
  /\ q.pc \in {"issue", "done"}
  /\ q.user = u
  /\ q.pc = "done" /\ q.answer = "ok" => q.token \in issued /\ row[q.token].user = u

\* A refresh, a login and a logout have a request each, and wait for its answer.
Served ==
  /\ flight.pc = "sent" => ForRefresh(req[flight.slot], flight.token)
  /\ acct.pc = "loggingIn" => acct.user \in Users /\ ForLogin(req[acct.slot], acct.user)
  /\ acct.pc = "leaving" => req[acct.slot].client = "account" /\ req[acct.slot].pc # "idle"

\* What is stored, or about to be, has a row, of the account it is stored for.
Stored ==
  /\ refresh # None => refresh \in issued
  /\ UnderWay => flight.token \in issued
  /\ flight.pc \in {"reply", "saving"} => row[flight.token].user = flight.user
  /\ acct.pc = "saving" =>
       /\ acct.user \in Users /\ access = acct.user
       /\ acct.token \in issued /\ row[acct.token].user = acct.user
  /\ flight.pc = "none" => flight.callers = {}

\* u is the only one whose tokens are stored, and the learner shown, if any.
OnlyUser(u) == /\ access \in {u, None}
               /\ refresh # None => row[refresh].user = u
               /\ who \in {u, None}

\* The stored tokens are one learner's; so is a refresh that no logout has cut
\* off, with all who wait for it.
OneLearner ==
  /\ acct.pc # "saving" /\ access # None => OnlyUser(access)
  /\ who # None => OnlyUser(who)
  /\ flight.pc = "wait" /\ refresh # None => flight.callers \subseteq {row[refresh].user}
  /\ UnderWay /\ flight.same =>
       /\ OnlyUser(row[flight.token].user)
       /\ flight.callers \subseteq {row[flight.token].user}

OwnInv == RowsOwned /\ Served /\ Stored /\ (~torn => OneLearner)

\* What the answer to a request leaves in it.
LEMMA RespondRecord ==
  ASSUME TypeOK, NEW r \in Requests, NEW a, NEW t, Respond(r, a, t)
  PROVE  \/ req[r].client = "other" /\ req'[r] = Idle
         \/ /\ req'[r].pc = "done" /\ req'[r].answer = a /\ req'[r].token = t
            /\ req'[r].client = req[r].client /\ req'[r].user = req[r].user /\ req'[r].snap = req[r].snap
<1>1. req \in [Requests -> Request] /\ req[r] \in Request
  BY DEF TypeOK, ServerTypeOK
<1>2. req'[r] = IF req[r].client = "other" THEN Idle
                ELSE [req[r] EXCEPT !.pc = "done", !.answer = a, !.token = t]
  BY <1>1 DEF Respond
<1>3. LET q == [req[r] EXCEPT !.pc = "done", !.answer = a, !.token = t] IN
      /\ q.pc = "done" /\ q.answer = a /\ q.token = t
      /\ q.client = req[r].client /\ q.user = req[r].user /\ q.snap = req[r].snap
  BY <1>1 DEF Request
<1>. QED
  BY <1>2, <1>3

\* The table only grows: the account of a row is fixed, and a revocation is final.
TableGrows == /\ issued \subseteq issued'
              /\ \A t \in issued : /\ row'[t].user = row[t].user
                                   /\ row[t].revoked => row'[t].revoked

\* Revoking rows keeps their accounts.
LEMMA RevokedGrows ==
  ASSUME TypeOK, NEW ts, row' = Revoked(ts), issued' = issued
  PROVE  TableGrows
<1>1. row \in [Tokens -> Row] /\ issued \subseteq Tokens
  BY DEF TypeOK, ServerTypeOK
<1>2. \A t \in Tokens : row'[t] = [row[t] EXCEPT !.revoked = @ \/ t \in ts]
  BY <1>1 DEF Revoked
<1>3. \A t \in Tokens : row'[t].user = row[t].user /\ row'[t].revoked = (row[t].revoked \/ t \in ts)
  BY <1>1, <1>2 DEF Row
<1>. QED
  BY <1>1, <1>3 DEF TableGrows

\* Every step of the server lets the table grow.
LEMMA ServerTable == ASSUME IInv, ServerNext PROVE TableGrows
<1>1. row \in [Tokens -> Row] /\ issued \subseteq Tokens /\ req \in [Requests -> Request]
  BY DEF IInv, TypeOK, ServerTypeOK
<1>2. CASE UNCHANGED <<row, issued>>
  BY <1>2 DEF TableGrows
<1>3. ASSUME NEW r \in Requests, RefreshFamily(r) \/ SweepCommit(r) PROVE TableGrows
  BY <1>3, RevokedGrows DEF RefreshFamily, SweepCommit, IInv
<1>4. ASSUME NEW r \in Requests, LogoutRevoke(r) PROVE TableGrows
  <2>1. row' = [row EXCEPT ![req[r].token].revoked = TRUE] /\ issued' = issued
    BY <1>4 DEF LogoutRevoke
  <2>2. \A t \in Tokens : row'[t].user = row[t].user /\ (row[t].revoked => row'[t].revoked)
    BY <1>1, <2>1 DEF Row
  <2>. QED
    BY <1>1, <2>1, <2>2 DEF TableGrows
<1>5. ASSUME NEW r \in Requests, NEW new \in Tokens, LoginIssue(r, new) PROVE TableGrows
  BY <1>1, <1>5 DEF LoginIssue, TableGrows
<1>6. ASSUME NEW r \in Requests, NEW new \in Tokens, RefreshRotate(r, new) PROVE TableGrows
  <2>1. row' = [row EXCEPT ![req[r].token].revoked = TRUE, ![new] = NewRow(req[r].user)]
    BY <1>6 DEF RefreshRotate
  <2>2. new \notin issued /\ issued' = issued \cup {new}
    BY <1>6 DEF RefreshRotate
  <2>3. \A t \in Tokens : t # new => row'[t].user = row[t].user /\ (row[t].revoked => row'[t].revoked)
    BY <1>1, <2>1 DEF Row
  <2>. QED
    BY <1>1, <2>2, <2>3 DEF TableGrows
<1>. QED
  BY <1>2, <1>3, <1>4, <1>5, <1>6
     DEF ServerNext, ServerStep, RefreshLock, LogoutRead, RequestFails, SweepStart, Reactivate

\* What the server owes a request o: its account, and its client.
Owed(o) == req[o].pc = "rotate" => req[o].user = row[req[o].token].user

OwedStep(o) ==
  /\ Owed(o)'
  /\ \A t \in issued : ForRefresh(req[o], t) => ForRefresh(req[o], t)'
  /\ \A u \in Users : ForLogin(req[o], u) => ForLogin(req[o], u)'
  /\ req[o].client = "account" /\ req[o].pc # "idle" =>
       req'[o].client = "account" /\ req'[o].pc # "idle"

\* A request that does not move has what it had.
LEMMA OwedKept ==
  ASSUME IInv, NEW o \in Requests, Owed(o), TableGrows, req'[o] = req[o]
  PROVE  OwedStep(o)
<1>1. issued \subseteq issued' /\ \A t \in issued : row'[t].user = row[t].user /\ (row[t].revoked => row'[t].revoked)
  BY DEF TableGrows
<1>2. req[o].pc = "rotate" => req[o].token \in issued
  BY DEF IInv, RowsExist
<1>3. Owed(o)'
  BY <1>1, <1>2 DEF Owed
<1>4. \A t \in issued : ForRefresh(req[o], t) => ForRefresh(req[o], t)'
  BY <1>1 DEF ForRefresh
<1>5. \A u \in Users : ForLogin(req[o], u) => ForLogin(req[o], u)'
  BY <1>1 DEF ForLogin
<1>. QED
  BY <1>3, <1>4, <1>5 DEF OwedStep

\* A request that ends without a token, or with one that its client has no use for.
LEMMA OwedRefused ==
  ASSUME IInv, NEW r \in Requests, NEW a, NEW t, Respond(r, a, t),
         a # "ok" \/ req[r].pc \notin {"lock", "rotate", "family", "issue", "done"}
  PROVE  OwedStep(r)
<1>1. \/ req[r].client = "other" /\ req'[r] = Idle
      \/ /\ req'[r].pc = "done" /\ req'[r].answer = a /\ req'[r].token = t
         /\ req'[r].client = req[r].client /\ req'[r].user = req[r].user /\ req'[r].snap = req[r].snap
  BY RespondRecord DEF IInv
<1>2. CASE req[r].client = "other" /\ req'[r] = Idle
  BY <1>2 DEF OwedStep, Owed, ForRefresh, ForLogin, Idle
<1>3. CASE /\ req'[r].pc = "done" /\ req'[r].answer = a /\ req'[r].token = t
           /\ req'[r].client = req[r].client /\ req'[r].user = req[r].user /\ req'[r].snap = req[r].snap
  BY <1>3 DEF OwedStep, Owed, ForRefresh, ForLogin
<1>. QED
  BY <1>1, <1>2, <1>3

\* The steps of the server serve a request as it is owed.
LEMMA ServerOwes ==
  ASSUME IInv, RowsOwned, ServerNext, NEW o \in Requests
  PROVE  OwedStep(o)
<1>1. /\ row \in [Tokens -> Row] /\ issued \subseteq Tokens /\ req \in [Requests -> Request]
      /\ TypeOK /\ SlotsTaken
  BY DEF IInv, TypeOK, ServerTypeOK
<1>2. TableGrows
  BY ServerTable
<1>3. \A r \in Requests : Owed(r)
  BY DEF RowsOwned, Owed
<1>4. ASSUME req'[o] = req[o] PROVE OwedStep(o)
  BY <1>2, <1>3, <1>4, OwedKept
<1>5. ASSUME NEW r \in Requests, r # o, NEW a, NEW t, Respond(r, a, t) PROVE OwedStep(o)
  BY <1>1, <1>4, <1>5, RespondFacts
<1>6. ASSUME NEW r \in Requests, RefreshLock(r) PROVE OwedStep(o)
  <2>1. CASE Answered(r, "refused")
    BY <1>5, <2>1, OwedRefused DEF Answered
  <2>2. CASE ~Answered(r, "refused") /\ r # o
    <3>1. req'[o] = req[o]
      BY <1>1, <1>6, <2>2 DEF RefreshLock
    <3>. QED
      BY <1>4, <3>1
  <2>3. CASE ~Answered(r, "refused") /\ r = o
    <3>1. /\ req'[o].pc \in {"rotate", "family"} /\ req[o].pc = "lock"
          /\ req'[o].token = req[o].token /\ req'[o].client = req[o].client
          /\ req'[o].user = row[req[o].token].user /\ row' = row
      BY <1>1, <1>6, <2>3 DEF RefreshLock, Request
    <3>2. Owed(o)'
      BY <3>1 DEF Owed
    <3>3. \A t \in issued : ForRefresh(req[o], t) => ForRefresh(req[o], t)'
      BY <3>1 DEF ForRefresh
    <3>4. \A u \in Users : ~ForLogin(req[o], u)
      BY <3>1 DEF ForLogin
    <3>. QED
      BY <3>1, <3>2, <3>3, <3>4 DEF OwedStep
  <2>. QED
    BY <2>1, <2>2, <2>3
<1>7. ASSUME NEW r \in Requests, RefreshFamily(r) PROVE OwedStep(o)
  <2>1. Respond(r, "reused", req[r].token)
    BY <1>7 DEF RefreshFamily, Answered
  <2>2. CASE r # o
    BY <1>5, <2>1, <2>2
  <2>3. CASE r = o
    <3>2. \/ req[o].client = "other" /\ req'[o] = Idle
          \/ /\ req'[o].pc = "done" /\ req'[o].answer = "reused"
             /\ req'[o].client = req[o].client
      BY <1>1, <2>1, <2>3, RespondRecord
    <3>3. req[o].pc = "family"
      BY <1>7, <2>3 DEF RefreshFamily
    <3>4. Owed(o)'
      BY <3>2 DEF Owed, Idle
    <3>5. \A t \in issued : ForRefresh(req[o], t) => ForRefresh(req[o], t)'
      BY <3>2 DEF ForRefresh
    <3>6. \A u \in Users : ~ForLogin(req[o], u)
      BY <3>3 DEF ForLogin
    <3>. QED
      BY <3>2, <3>4, <3>5, <3>6 DEF OwedStep
  <2>. QED
    BY <2>2, <2>3
<1>8. ASSUME NEW r \in Requests, NEW new \in Tokens, RefreshRotate(r, new) PROVE OwedStep(o)
  <2>1. Respond(r, "ok", new)
    BY <1>8 DEF RefreshRotate
  <2>2. CASE r # o
    BY <1>5, <2>1, <2>2
  <2>3. CASE r = o
    <3>1. /\ row' = [row EXCEPT ![req[o].token].revoked = TRUE, ![new] = NewRow(req[o].user)]
          /\ new \notin issued /\ issued' = issued \cup {new} /\ req[o].pc = "rotate"
      BY <1>8, <2>3 DEF RefreshRotate
    <3>2. new \in issued' /\ row'[new].user = req[o].user
      BY <1>1, <3>1 DEF NewRow
    <3>3. req[o].user = row[req[o].token].user
      BY <3>1 DEF RowsOwned
    <3>4. \A t \in issued : row'[t].user = row[t].user
      BY <1>2 DEF TableGrows
    <3>5. \/ req[o].client = "other" /\ req'[o] = Idle
          \/ /\ req'[o].pc = "done" /\ req'[o].answer = "ok" /\ req'[o].token = new
             /\ req'[o].client = req[o].client /\ req'[o].user = req[o].user
      BY <1>1, <2>1, <2>3, RespondRecord
    <3>6. Owed(o)'
      BY <3>5 DEF Owed, Idle
    <3>7. \A t \in issued : ForRefresh(req[o], t) => ForRefresh(req[o], t)'
      BY <3>1, <3>2, <3>3, <3>4, <3>5 DEF ForRefresh
    <3>8. \A u \in Users : ~ForLogin(req[o], u)
      BY <3>1 DEF ForLogin
    <3>. QED
      BY <3>5, <3>6, <3>7, <3>8 DEF OwedStep
  <2>. QED
    BY <2>2, <2>3
<1>9. ASSUME NEW r \in Requests, NEW new \in Tokens, LoginIssue(r, new) PROVE OwedStep(o)
  <2>1. Respond(r, "ok", new)
    BY <1>9 DEF LoginIssue
  <2>2. CASE r # o
    BY <1>5, <2>1, <2>2
  <2>3. CASE r = o
    <3>1. new \in issued' /\ row'[new].user = req[o].user /\ req[o].pc = "issue"
      BY <1>1, <1>9, <2>3 DEF LoginIssue, NewRow
    <3>2. \/ req[o].client = "other" /\ req'[o] = Idle
          \/ /\ req'[o].pc = "done" /\ req'[o].answer = "ok" /\ req'[o].token = new
             /\ req'[o].client = req[o].client /\ req'[o].user = req[o].user
      BY <1>1, <2>1, <2>3, RespondRecord
    <3>3. Owed(o)'
      BY <3>2 DEF Owed, Idle
    <3>4. \A t \in issued : ~ForRefresh(req[o], t)
      BY <3>1 DEF ForRefresh
    <3>5. \A u \in Users : ForLogin(req[o], u) => ForLogin(req[o], u)'
      BY <3>1, <3>2 DEF ForLogin
    <3>. QED
      BY <3>2, <3>3, <3>4, <3>5 DEF OwedStep
  <2>. QED
    BY <2>2, <2>3
<1>10. ASSUME NEW r \in Requests, LogoutRead(r) \/ LogoutRevoke(r) \/ SweepCommit(r), NEW t, Respond(r, "ok", t)
       PROVE  OwedStep(o)
  <2>1. req[r].pc \in {"read", "revoke", "sweep"}
    BY <1>10 DEF LogoutRead, LogoutRevoke, SweepCommit
  <2>. QED
    BY <1>5, <1>10, <2>1, OwedRefused
<1>11. ASSUME NEW r \in Requests, LogoutRead(r) \/ LogoutRevoke(r) \/ SweepCommit(r) PROVE OwedStep(o)
  <2>1. CASE Answered(r, "ok")
    BY <1>10, <1>11, <2>1 DEF Answered
  <2>2. CASE ~Answered(r, "ok")
    <3>1. LogoutRead(r) /\ req' = [req EXCEPT ![r].pc = "revoke"] /\ req[r].pc = "read" /\ row' = row
      BY <1>11, <2>2 DEF LogoutRead, LogoutRevoke, SweepCommit
    <3>2. CASE r # o
      <4>1. req'[o] = req[o]
        BY <1>1, <3>1, <3>2
      <4>. QED
        BY <1>4, <4>1
    <3>3. CASE r = o
      <4>1. req'[o].pc = "revoke" /\ req'[o].client = req[o].client /\ req[o].pc = "read"
        BY <1>1, <3>1, <3>3 DEF Request
      <4>. QED
        BY <4>1 DEF OwedStep, Owed, ForRefresh, ForLogin
    <3>. QED
      BY <3>2, <3>3
  <2>. QED
    BY <2>1, <2>2
<1>12. ASSUME NEW r \in Requests, RequestFails(r) PROVE OwedStep(o)
  BY <1>5, <1>12, OwedRefused DEF RequestFails, Answered
<1>13. ASSUME NEW r \in Requests, NEW u \in Swept, NEW off \in BOOLEAN, SweepStart(r, u, off)
       PROVE  OwedStep(o)
  <2>1. CASE r # o
    <3>1. req'[o] = req[o]
      BY <1>1, <1>13, <2>1 DEF SweepStart
    <3>. QED
      BY <1>4, <3>1
  <2>2. CASE r = o
    <3>1. req[o].pc = "idle" /\ req'[o].pc = "sweep"
      BY <1>1, <1>13, <2>2 DEF SweepStart, Idle
    <3>. QED
      BY <3>1 DEF OwedStep, Owed, ForRefresh, ForLogin
  <2>. QED
    BY <2>1, <2>2
<1>14. ASSUME NEW u \in Users, Reactivate(u) PROVE OwedStep(o)
  BY <1>4, <1>14 DEF Reactivate
<1>. QED
  BY <1>6, <1>7, <1>8, <1>9, <1>11, <1>12, <1>13, <1>14 DEF ServerNext, ServerStep

\* Whatever the server does, the tokens stay whose they are.
LEMMA ServerOwn ==
  ASSUME IInv, OwnInv, ServerNext, UNCHANGED deviceVars
  PROVE  OwnInv'
<1>1. \A o \in Requests : OwedStep(o)
  BY ServerOwes DEF OwnInv
<1>2. /\ access' = access /\ refresh' = refresh /\ who' = who /\ acct' = acct /\ flight' = flight
      /\ torn' = torn
  BY DEF deviceVars
<1>3. issued \subseteq issued' /\ \A t \in issued : row'[t].user = row[t].user
  BY ServerTable DEF TableGrows
<1>4. RowsOwned'
  BY <1>1 DEF OwedStep, Owed, RowsOwned
<1>5. ASSUME flight.pc = "sent" PROVE ForRefresh(req[flight.slot], flight.token)'
  <2>1. flight.slot \in Requests /\ flight.token \in issued
    BY <1>5 DEF IInv, SlotsTaken, OwnInv, Stored, UnderWay
  <2>2. PICK o \in Requests, t \in issued : o = flight.slot /\ t = flight.token
    BY <2>1
  <2>3. ForRefresh(req[o], t)'
    BY <1>1, <1>5, <2>2 DEF OwedStep, OwnInv, Served
  <2>. QED
    BY <1>2, <2>2, <2>3 DEF ForRefresh
<1>6. ASSUME acct.pc = "loggingIn" PROVE acct.user \in Users /\ ForLogin(req[acct.slot], acct.user)'
  <2>1. acct.slot \in Requests /\ acct.user \in Users
    BY <1>6 DEF IInv, SlotsTaken, OwnInv, Served
  <2>2. PICK o \in Requests, u \in Users : o = acct.slot /\ u = acct.user
    BY <2>1
  <2>3. ForLogin(req[o], u)'
    BY <1>1, <1>6, <2>2 DEF OwedStep, OwnInv, Served
  <2>. QED
    BY <1>2, <2>2, <2>3 DEF ForLogin
<1>7. ASSUME acct.pc = "leaving" PROVE req'[acct.slot].client = "account" /\ req'[acct.slot].pc # "idle"
  BY <1>1, <1>7 DEF OwedStep, IInv, SlotsTaken, OwnInv, Served
<1>8. Served'
  BY <1>2, <1>5, <1>6, <1>7 DEF Served
<1>9. Stored'
  BY <1>2, <1>3 DEF OwnInv, Stored, UnderWay
<1>10. ~torn' => OneLearner'
  <2>1. refresh # None => row'[refresh].user = row[refresh].user
    BY <1>3 DEF OwnInv, Stored
  <2>2. UnderWay => row'[flight.token].user = row[flight.token].user
    BY <1>3 DEF OwnInv, Stored
  <2>. QED
    BY <1>2, <2>1, <2>2 DEF OwnInv, OneLearner, OnlyUser, UnderWay
<1>. QED
  BY <1>4, <1>8, <1>9, <1>10 DEF OwnInv

\* The device neither rotates nor answers.
LEMMA DeviceRowsOwned ==
  ASSUME IInv, RowsOwned, DeviceNext, UNCHANGED <<row, issued>>
  PROVE  RowsOwned'
<1>. SUFFICES ASSUME NEW r \in Requests PROVE Owed(r)'
  BY DEF RowsOwned, Owed
<1>. DEFINE Quiet(q) ==
       /\ q.pc = "rotate" => req[r].pc = "rotate" /\ q.user = req[r].user /\ q.token = req[r].token
       /\ q.pc = "done" => q = req[r]
<1>1. req \in [Requests -> Request] /\ req[r] \in Request /\ row' = row /\ issued' = issued
  BY DEF IInv, TypeOK, ServerTypeOK
<1>2. Quiet(req[r]) /\ Quiet(Idle) /\ Quiet(Orphan(req[r]))
  BY <1>1 DEF Idle, Orphan, Request
<1>3. ASSUME NEW c, NEW t
      PROVE  /\ Quiet([Idle EXCEPT !.pc = "lock", !.client = c, !.token = t])
             /\ Quiet([Idle EXCEPT !.pc = "read", !.client = c, !.token = t])
             /\ Quiet([Idle EXCEPT !.pc = "issue", !.client = c, !.user = t])
  BY DEF Idle
<1>4. Quiet(req'[r])
  <2>1. CASE \E o \in Requests : FlightRead(o)
    BY <1>1, <1>2, <1>3, <2>1 DEF FlightRead, PostRefresh
  <2>2. CASE \E o \in Requests : Logout(o)
    BY <1>1, <1>2, <1>3, <2>2 DEF Logout, PostLogout
  <2>3. CASE \E u \in Users, o \in Requests : Login(u, o)
    BY <1>1, <1>2, <1>3, <2>3 DEF Login, PostLogin
  <2>4. CASE FlightAnswered \/ LoginAnswered \/ LogoutAnswered
    BY <1>1, <1>2, <2>4 DEF FlightAnswered, LoginAnswered, LogoutAnswered
  <2>5. CASE FlightLost \/ AccountLost
    BY <1>1, <1>2, <2>5 DEF FlightLost, AccountLost
  <2>6. CASE Restart
    BY <1>1, <1>2, <2>6 DEF Restart
  <2>7. CASE req' = req
    BY <1>2, <2>7
  <2>. QED
    BY <2>1, <2>2, <2>3, <2>4, <2>5, <2>6, <2>7
       DEF DeviceNext, FlightStep, AccountStep, Call401, FlightReadFails, FlightClear, FlightSave,
           FlightSaved, FlightSaveFails, LoginSaved, LoginSaveFails, LogoutTokenless,
           InvalidateAndClear, Cleared, ClearFails, CurrentUser
<1>. HIDE DEF Quiet
<1>5. Owed(r)
  BY DEF RowsOwned, Owed
<1>. QED
  BY <1>1, <1>4, <1>5 DEF Owed, Quiet

\* A step that leaves the requests alone, and starts none.
LEMMA ServedKept ==
  ASSUME IInv, Served, row' = row, issued' = issued, req' = req,
         flight'.pc = "sent" => flight.pc = "sent" /\ flight'.slot = flight.slot /\ flight'.token = flight.token,
         acct' = acct \/ acct'.pc \notin {"loggingIn", "leaving"}
  PROVE  Served'
BY DEF Served, ForRefresh, ForLogin

\* The request of a refresh is not the one of a login or a logout.
LEMMA OwnSlots ==
  ASSUME IInv, Served
  PROVE  /\ flight.pc = "sent" => flight.slot \in Requests /\ req[flight.slot].client = "refresh"
                                  /\ req[flight.slot].pc # "idle"
         /\ acct.pc \in {"loggingIn", "leaving"} =>
              /\ acct.slot \in Requests /\ req[acct.slot].client = "account"
              /\ req[acct.slot].pc # "idle"
BY DEF IInv, SlotsTaken, Served, ForRefresh, ForLogin

\* A request in flight stays where it is when another one moves.
LEMMA ServedElsewhere ==
  ASSUME IInv, Served, row' = row, issued' = issued, NEW r \in Requests,
         \A o \in Requests \ {r} : req'[o] = req[o]
  PROVE  /\ flight.pc = "sent" /\ flight.slot # r /\ flight' = flight => ForRefresh(req[flight.slot], flight.token)'
         /\ acct.pc = "loggingIn" /\ acct.slot # r /\ acct' = acct =>
              acct.user \in Users /\ ForLogin(req[acct.slot], acct.user)'
         /\ acct.pc = "leaving" /\ acct.slot # r /\ acct' = acct =>
              req'[acct.slot].client = "account" /\ req'[acct.slot].pc # "idle"
BY OwnSlots DEF Served, ForRefresh, ForLogin

\* Every step of the device leaves each of its requests one client.
LEMMA DeviceServed ==
  ASSUME IInv, Served, DeviceNext, row' = row, issued' = issued
  PROVE  Served'
<1>1. /\ req \in [Requests -> Request] /\ flight \in Flight /\ acct \in Acct
      /\ refresh \in Tokens \cup {None}
  BY DEF IInv, TypeOK, ServerTypeOK
<1>2. CASE Call401
  BY <1>1, <1>2, ServedKept DEF Call401, Join, Flight
<1>3. CASE FlightReadFails \/ FlightClear \/ FlightSave \/ FlightSaved \/ FlightSaveFails
  <2>1. flight'.pc # "sent" /\ req' = req
    BY <1>1, <1>3 DEF FlightReadFails, FlightClear, FlightSave, FlightSaved, FlightSaveFails, NoFlight, Flight
  <2>2. acct' = acct \/ acct' = NoAcct
    BY <1>3 DEF FlightReadFails, FlightClear, FlightSave, FlightSaved, FlightSaveFails, Restored
  <2>. QED
    BY <2>1, <2>2, ServedKept DEF NoAcct
<1>4. CASE LoginSaved \/ LoginSaveFails \/ LogoutTokenless \/ InvalidateAndClear \/ Cleared \/ ClearFails
  <2>1. /\ req' = req
        /\ flight' = flight \/ flight' = [flight EXCEPT !.same = FALSE]
    BY <1>4 DEF LoginSaved, LoginSaveFails, LogoutTokenless, InvalidateAndClear, Cleared, ClearFails
  <2>2. acct'.pc \notin {"loggingIn", "leaving"}
    BY <1>1, <1>4 DEF LoginSaved, LoginSaveFails, LogoutTokenless, InvalidateAndClear, Cleared, ClearFails, NoAcct, Acct
  <2>. QED
    BY <1>1, <2>1, <2>2, ServedKept DEF Flight
<1>5. CASE CurrentUser
  <2>1. acct.pc = "reading" /\ req' = req /\ acct'.pc \notin {"loggingIn", "leaving"} /\ flight'.pc # "sent"
    <3>1. acct.pc = "reading" /\ flight.pc = "none" /\ req' = req
      BY <1>5 DEF CurrentUser, IInv, OwnToken
    <3>2. acct' = NoAcct \/ acct' = [acct EXCEPT !.pc = "restoring"]
      BY <1>5 DEF CurrentUser
    <3>3. flight' = flight \/ flight' = [flight EXCEPT !.pc = "wait", !.callers = @ \cup {access}]
      BY <1>5, <3>1 DEF CurrentUser, Join
    <3>4. acct'.pc \notin {"loggingIn", "leaving"}
      BY <1>1, <3>2 DEF NoAcct, Acct
    <3>5. flight'.pc # "sent"
      BY <1>1, <3>1, <3>3 DEF Flight
    <3>. QED
      BY <3>1, <3>4, <3>5
  <2>. QED
    BY <2>1, ServedKept
<1>6. CASE Restart
  BY <1>6 DEF Restart, Served, NoFlight, NoAcct
<1>7. ASSUME NEW r \in Requests, FlightRead(r) PROVE Served'
  <2>1. /\ req[r].pc = "idle" /\ flight.pc = "wait" /\ acct' = acct
        /\ req' = [req EXCEPT ![r] = [Idle EXCEPT !.pc = "lock", !.client = "refresh", !.token = refresh]]
        /\ flight'.pc = "sent" /\ flight'.slot = r /\ flight'.token = refresh
    BY <1>1, <1>7 DEF FlightRead, PostRefresh, Flight
  <2>2. \A o \in Requests \ {r} : req'[o] = req[o]
    BY <1>1, <2>1
  <2>3. req'[r].client = "refresh" /\ req'[r].pc = "lock" /\ req'[r].token = refresh
    BY <1>1, <2>1 DEF Idle
  <2>4. ForRefresh(req[flight.slot], flight.token)'
    BY <2>1, <2>3 DEF ForRefresh
  <2>5. acct.pc \in {"loggingIn", "leaving"} => acct.slot # r
    BY <2>1, OwnSlots
  <2>. QED
    BY <2>1, <2>2, <2>4, <2>5, ServedElsewhere DEF Served
<1>8. ASSUME NEW r \in Requests, Logout(r) PROVE Served'
  <2>1. /\ req[r].pc = "idle" /\ flight' = flight /\ acct'.pc = "leaving" /\ acct'.slot = r
        /\ req' = [req EXCEPT ![r] = [Idle EXCEPT !.pc = "read", !.client = "account", !.token = refresh]]
    BY <1>1, <1>8 DEF Logout, PostLogout, NoAcct
  <2>2. \A o \in Requests \ {r} : req'[o] = req[o]
    BY <1>1, <2>1
  <2>3. req'[r].client = "account" /\ req'[r].pc = "read"
    BY <1>1, <2>1 DEF Idle
  <2>4. flight.pc = "sent" => flight.slot # r
    BY <2>1, OwnSlots
  <2>. QED
    BY <2>1, <2>2, <2>3, <2>4, ServedElsewhere DEF Served
<1>9. ASSUME NEW u \in Users, NEW r \in Requests, Login(u, r) PROVE Served'
  <2>1. /\ req[r].pc = "idle" /\ flight' = flight /\ acct'.pc = "loggingIn" /\ acct'.slot = r /\ acct'.user = u
        /\ req' = [req EXCEPT ![r] = [Idle EXCEPT !.pc = "issue", !.client = "account", !.user = u]]
    BY <1>1, <1>9 DEF Login, PostLogin, NoAcct
  <2>2. \A o \in Requests \ {r} : req'[o] = req[o]
    BY <1>1, <2>1
  <2>3. req'[r].client = "account" /\ req'[r].pc = "issue" /\ req'[r].user = u
    BY <1>1, <2>1 DEF Idle
  <2>4. flight.pc = "sent" => flight.slot # r
    BY <2>1, OwnSlots
  <2>5. ForLogin(req[acct.slot], acct.user)'
    BY <2>1, <2>3 DEF ForLogin
  <2>. QED
    BY <2>1, <2>2, <2>4, <2>5, ServedElsewhere DEF Served
<1>10. CASE FlightAnswered \/ FlightLost
  <2>1. PICK r \in Requests : r = flight.slot /\ flight.pc = "sent" /\ req[r].client = "refresh"
    BY <1>10, OwnSlots DEF FlightAnswered, FlightLost
  <2>2. \A o \in Requests \ {r} : req'[o] = req[o]
    BY <1>1, <1>10, <2>1 DEF FlightAnswered, FlightLost
  <2>3. flight'.pc # "sent" /\ (acct' = acct \/ acct' = NoAcct)
    <3>1. CASE FlightLost
      BY <3>1 DEF FlightLost, Restored, NoFlight
    <3>2. CASE FlightAnswered
      <4>1. acct' = acct \/ acct' = NoAcct
        BY <3>2 DEF FlightAnswered, Restored
      <4>2. \/ flight' = NoFlight \/ flight' = [flight EXCEPT !.pc = "refused", !.slot = None]
            \/ flight' = [flight EXCEPT !.pc = "reply", !.slot = None, !.token = req[flight.slot].token,
                                        !.user = req[flight.slot].user]
        BY <3>2 DEF FlightAnswered
      <4>3. flight'.pc # "sent"
        <5>1. NoFlight.pc = "none" /\ [flight EXCEPT !.pc = "refused", !.slot = None].pc = "refused"
          BY <1>1 DEF NoFlight, Flight
        <5>2. \A t, u : [flight EXCEPT !.pc = "reply", !.slot = None, !.token = t, !.user = u].pc = "reply"
          BY <1>1 DEF Flight
        <5>. QED
          <6>1. CASE flight' = NoFlight
            BY <5>1, <6>1
          <6>2. CASE flight' = [flight EXCEPT !.pc = "refused", !.slot = None]
            BY <5>1, <6>2
          <6>3. CASE flight' = [flight EXCEPT !.pc = "reply", !.slot = None,
                                  !.token = req[flight.slot].token, !.user = req[flight.slot].user]
            <7>1. flight'.pc = "reply"
              BY <5>2, <6>3
            <7>. QED
              BY <7>1
          <6>. QED
            BY <4>2, <6>1, <6>2, <6>3
      <4>. QED
        BY <4>1, <4>3
    <3>. QED
      BY <1>10, <3>1, <3>2
  <2>4. acct.pc \in {"loggingIn", "leaving"} => acct.slot # r
    BY <2>1, OwnSlots
  <2>. QED
    BY <2>2, <2>3, <2>4, ServedElsewhere DEF Served, NoAcct
<1>11. CASE LoginAnswered \/ LogoutAnswered \/ AccountLost
  <2>1. PICK r \in Requests : r = acct.slot /\ req[r].client = "account"
    BY <1>11, OwnSlots DEF LoginAnswered, LogoutAnswered, AccountLost
  <2>2. \A o \in Requests \ {r} : req'[o] = req[o]
    BY <1>1, <1>11, <2>1 DEF LoginAnswered, LogoutAnswered, AccountLost
  <2>3. flight' = flight /\ acct'.pc \notin {"loggingIn", "leaving"}
    <3>1. flight' = flight
      BY <1>11 DEF LoginAnswered, LogoutAnswered, AccountLost
    <3>2. CASE LoginAnswered
      <4>1. \/ acct' = NoAcct
            \/ acct' = [acct EXCEPT !.pc = "saving", !.slot = None, !.token = req[acct.slot].token]
        BY <3>2 DEF LoginAnswered
      <4>. QED
        <5>1. \A t : [acct EXCEPT !.pc = "saving", !.slot = None, !.token = t].pc = "saving"
          BY <1>1 DEF Acct
        <5>2. NoAcct.pc = "none"
          BY DEF NoAcct
        <5>. QED
          BY <3>1, <4>1, <5>1, <5>2
    <3>3. CASE LogoutAnswered
      BY <3>1, <3>3 DEF LogoutAnswered, NoAcct
    <3>4. CASE AccountLost
      <4>1. acct' = NoAcct \/ acct' = [NoAcct EXCEPT !.pc = "clear", !.user = who]
        BY <3>4 DEF AccountLost
      <4>2. NoAcct.pc = "none" /\ [NoAcct EXCEPT !.pc = "clear", !.user = who].pc = "clear"
        BY DEF NoAcct
      <4>. QED
        BY <3>1, <4>1, <4>2
    <3>. QED
      BY <1>11, <3>2, <3>3, <3>4
  <2>4. flight.pc = "sent" => flight.slot # r
    BY <2>1, OwnSlots
  <2>. QED
    BY <2>2, <2>3, <2>4, ServedElsewhere DEF Served
<1>. QED
  BY <1>2, <1>3, <1>4, <1>5, <1>6, <1>7, <1>8, <1>9, <1>10, <1>11 DEF DeviceNext, FlightStep, AccountStep

\* What the device stores, or is about to, keeps its account.
LEMMA DeviceStored ==
  ASSUME IInv, OwnInv, DeviceNext, row' = row, issued' = issued
  PROVE  Stored'
<1>1. /\ flight \in Flight /\ acct \in Acct /\ req \in [Requests -> Request] /\ None \notin Users
      /\ access \in Users \cup {None} /\ refresh \in Tokens \cup {None}
  BY ConstantsAssumption DEF IInv, TypeOK, ServerTypeOK, ConstantsAssumption
<1>2. Stored /\ OwnToken /\ CutOff
  BY DEF IInv, OwnInv
<1>. USE <1>1, <1>2 DEF Stored, UnderWay, Flight, Acct
<1>3. CASE Call401
  BY <1>3 DEF Call401, Join
<1>4. CASE FlightReadFails \/ FlightLost \/ FlightSaveFails
  BY <1>4 DEF FlightReadFails, FlightLost, FlightSaveFails, Restored, NoFlight, NoAcct
<1>5. CASE FlightClear
  <2>1. acct.pc = "saving" => access' = access
    BY <1>5 DEF FlightClear, OwnToken
  <2>2. flight' = NoFlight /\ (acct' = acct \/ acct' = NoAcct) /\ (refresh' = refresh \/ refresh' = None)
    BY <1>5 DEF FlightClear, Restored
  <2>. QED
    BY <2>1, <2>2 DEF NoFlight, NoAcct
<1>6. CASE FlightSave
  <2>1. acct.pc = "saving" => ~flight.same
    BY <1>6 DEF FlightSave, OwnToken
  <2>2. CASE flight.same
    BY <1>6, <2>1, <2>2 DEF FlightSave
  <2>3. CASE ~flight.same
    BY <1>6, <2>3 DEF FlightSave, Restored, NoFlight, NoAcct
  <2>. QED
    BY <2>2, <2>3
<1>7. CASE FlightSaved
  BY <1>7 DEF FlightSaved, Restored, NoFlight, NoAcct
<1>8. CASE FlightAnswered
  <2>1. ForRefresh(req[flight.slot], flight.token) /\ flight.pc = "sent"
    BY <1>8 DEF FlightAnswered, OwnInv, Served
  <2>2. CASE req[flight.slot].answer = "ok"
    <3>1. PICK q : q = req[flight.slot]
      OBVIOUS
    <3>2. q.token \in issued /\ row[q.token].user = q.user
      BY <1>8, <2>1, <2>2, <3>1 DEF ForRefresh, FlightAnswered
    <3>3. /\ flight' = [flight EXCEPT !.pc = "reply", !.slot = None, !.token = q.token, !.user = q.user]
          /\ refresh' = refresh /\ access' = access /\ acct' = acct
      BY <1>8, <2>2, <3>1 DEF FlightAnswered
    <3>4. flight'.pc = "reply" /\ flight'.token = q.token /\ flight'.user = q.user
      BY <3>3
    <3>. QED
      BY <3>2, <3>3, <3>4
  <2>3. CASE req[flight.slot].answer \in {"refused", "reused"}
    BY <1>8, <2>1, <2>3 DEF FlightAnswered
  <2>4. CASE req[flight.slot].answer = "error"
    BY <1>8, <2>4 DEF FlightAnswered, Restored, NoFlight, NoAcct
  <2>. QED
    BY <1>8, <2>2, <2>3, <2>4 DEF FlightAnswered
<1>9. CASE \E r \in Requests : FlightRead(r)
  BY <1>9 DEF FlightRead
<1>10. CASE (\E u \in Users, r \in Requests : Login(u, r)) \/ (\E r \in Requests : Logout(r)) \/ LogoutTokenless
  BY <1>10 DEF Login, Logout, LogoutTokenless, NoAcct
<1>11. CASE LoginAnswered
  <2>1. acct.user \in Users /\ ForLogin(req[acct.slot], acct.user)
    BY <1>11 DEF LoginAnswered, OwnInv, Served
  <2>2. CASE req[acct.slot].answer = "ok"
    <3>1. PICK q : q = req[acct.slot]
      OBVIOUS
    <3>2. q.token \in issued /\ row[q.token].user = acct.user
      BY <1>11, <2>1, <2>2, <3>1 DEF ForLogin, LoginAnswered
    <3>3. /\ acct' = [acct EXCEPT !.pc = "saving", !.slot = None, !.token = q.token]
          /\ access' = acct.user /\ flight' = flight /\ refresh' = refresh
      BY <1>11, <2>2, <3>1 DEF LoginAnswered
    <3>4. acct'.token = q.token /\ acct'.user = acct.user
      BY <3>3
    <3>. QED
      BY <2>1, <3>2, <3>3, <3>4
  <2>3. CASE req[acct.slot].answer # "ok"
    BY <1>11, <2>3 DEF LoginAnswered, NoAcct
  <2>. QED
    BY <2>2, <2>3
<1>12. CASE LoginSaved \/ LoginSaveFails
  BY <1>12 DEF LoginSaved, LoginSaveFails, NoAcct
<1>13. CASE LogoutAnswered
  BY <1>13 DEF LogoutAnswered, NoAcct
<1>14. CASE AccountLost
  <2>1. acct' = NoAcct \/ acct' = [NoAcct EXCEPT !.pc = "clear", !.user = who]
    BY <1>14 DEF AccountLost
  <2>2. acct'.pc # "saving" /\ flight' = flight /\ access' = access /\ refresh' = refresh
    <3>1. NoAcct.pc = "none" /\ [NoAcct EXCEPT !.pc = "clear", !.user = who].pc = "clear"
      BY DEF NoAcct
    <3>2. flight' = flight /\ access' = access /\ refresh' = refresh
      BY <1>14 DEF AccountLost
    <3>. QED
      BY <2>1, <3>1, <3>2
  <2>. QED
    BY <2>2
<1>15. CASE InvalidateAndClear \/ Cleared \/ ClearFails
  BY <1>15 DEF InvalidateAndClear, Cleared, ClearFails, NoAcct
<1>16. CASE Restart
  BY <1>16 DEF Restart, NoFlight, NoAcct
<1>17. CASE CurrentUser
  <2>1. acct.pc = "reading" /\ flight.pc = "none" /\ access' = access /\ refresh' = refresh
    BY <1>17 DEF CurrentUser, OwnToken
  <2>2. acct' = NoAcct \/ acct' = [acct EXCEPT !.pc = "restoring"]
    BY <1>17 DEF CurrentUser
  <2>3. flight' = flight \/ flight' = [flight EXCEPT !.pc = "wait", !.callers = @ \cup {access}]
    BY <1>17, <2>1 DEF CurrentUser, Join
  <2>4. acct'.pc # "saving"
    BY <2>2 DEF NoAcct
  <2>5. flight' = flight \/ flight'.pc = "wait"
    BY <2>3
  <2>. QED
    BY <2>1, <2>4, <2>5
<1>. QED
  BY <1>3, <1>4, <1>5, <1>6, <1>7, <1>8, <1>9, <1>10, <1>11, <1>12, <1>13, <1>14, <1>15, <1>16, <1>17
     DEF DeviceNext, FlightStep, AccountStep

\* A step that changes neither the tokens nor the learner, and lets a refresh go on or end.
LEMMA LearnerKept ==
  ASSUME OneLearner, row' = row, refresh' = refresh, who' = who,
         access' = access \/ access' = None,
         acct.pc = "saving" => acct'.pc = "saving" \/ access' = None,
         \/ flight'.pc = "none"
         \/ flight' = flight
         \/ flight'.pc = flight.pc /\ flight'.same = FALSE /\ flight'.callers = flight.callers
            /\ flight'.token = flight.token
  PROVE  OneLearner'
BY DEF OneLearner, OnlyUser, UnderWay

\* The tokens of a device stay one learner's.
LEMMA DeviceOneLearner ==
  ASSUME IInv, OwnInv, DeviceNext, row' = row, ~torn'
  PROVE  OneLearner'
<1>1. /\ flight \in Flight /\ acct \in Acct /\ None \notin Users
      /\ access \in Users \cup {None} /\ refresh \in Tokens \cup {None} /\ who \in Users \cup {None}
  BY ConstantsAssumption DEF IInv, TypeOK, ConstantsAssumption
<1>2. Stored /\ OwnToken /\ CutOff /\ (~torn => OneLearner)
  BY DEF IInv, OwnInv
<1>3. CASE Call401
  <2>1. who # None /\ torn' = torn /\ access' = access /\ refresh' = refresh /\ who' = who /\ acct' = acct
    BY <1>3 DEF Call401
  <2>2. OneLearner
    BY <1>2, <2>1
  <2>3. CASE flight.pc = "none"
    <3>1. flight' = [flight EXCEPT !.pc = "wait", !.callers = @ \cup {who}] /\ flight.callers = {}
      BY <1>2, <1>3, <2>3 DEF Call401, Join, Stored
    <3>2. flight'.pc = "wait" /\ flight'.callers = {who}
      BY <1>1, <3>1 DEF Flight
    <3>. QED
      BY <2>1, <2>2, <3>2 DEF OneLearner, OnlyUser, UnderWay
  <2>4. CASE flight.pc # "none"
    <3>1. flight' = [flight EXCEPT !.pc = flight.pc, !.callers = @ \cup {who}]
      BY <1>3, <2>4 DEF Call401, Join
    <3>2. /\ flight'.pc = flight.pc /\ flight'.callers = flight.callers \cup {who}
          /\ flight'.same = flight.same /\ flight'.token = flight.token
      BY <1>1, <3>1 DEF Flight
    <3>. QED
      BY <2>1, <2>2, <3>2 DEF OneLearner, OnlyUser, UnderWay
  <2>. QED
    BY <2>3, <2>4
<1>4. ASSUME flight' = NoFlight, Restored(None), torn' = torn, access' = access \/ access' = None,
             refresh' = refresh \/ (refresh' = None /\ access' = None)
      PROVE  OneLearner'
  <2>1. OneLearner
    BY <1>2, <1>4
  <2>2. flight'.pc = "none"
    BY <1>4 DEF NoFlight
  <2>3. (who' = who /\ acct' = acct) \/ (who' = None /\ acct.pc = "restoring")
    BY <1>4 DEF Restored
  <2>. QED
    BY <1>4, <2>1, <2>2, <2>3 DEF OneLearner, OnlyUser, UnderWay
<1>5. CASE FlightReadFails \/ FlightLost \/ FlightSaveFails
  BY <1>4, <1>5 DEF FlightReadFails, FlightLost, FlightSaveFails
<1>6. CASE FlightClear
  BY <1>4, <1>6 DEF FlightClear
<1>7. CASE FlightSave
  <2>1. CASE ~flight.same
    BY <1>4, <1>7, <2>1 DEF FlightSave
  <2>2. CASE flight.same
    <3>1. /\ access' = flight.user /\ flight' = [flight EXCEPT !.pc = "saving"] /\ torn' = torn
          /\ who' = who /\ acct' = acct /\ refresh' = refresh /\ flight.pc = "reply"
      BY <1>7, <2>2 DEF FlightSave
    <3>2. flight'.pc = "saving" /\ flight'.callers = flight.callers /\ flight'.token = flight.token
      BY <1>1, <3>1 DEF Flight
    <3>3. row[flight.token].user = flight.user
      BY <1>2, <3>1 DEF Stored
    <3>. QED
      BY <1>2, <2>2, <3>1, <3>2, <3>3 DEF OneLearner, OnlyUser, UnderWay
  <2>. QED
    BY <2>1, <2>2
<1>8. CASE FlightSaved
  <2>1. /\ refresh' = flight.token /\ flight' = NoFlight /\ access' = access /\ torn' = torn
        /\ flight.pc = "saving"
        /\ (who' = who /\ acct' = acct) \/ (who' = flight.user /\ acct.pc = "restoring")
    BY <1>8 DEF FlightSaved, Restored
  <2>2. flight.same /\ row[flight.token].user = flight.user
    BY <1>2, <2>1 DEF CutOff, Stored
  <2>3. OnlyUser(flight.user)
    BY <1>2, <2>1, <2>2 DEF OneLearner, UnderWay
  <2>4. flight'.pc = "none"
    BY <2>1 DEF NoFlight
  <2>. QED
    BY <2>1, <2>2, <2>3, <2>4 DEF OneLearner, OnlyUser, UnderWay
<1>9. CASE FlightAnswered
  <2>1. flight.pc = "sent" /\ ForRefresh(req[flight.slot], flight.token)
    BY <1>9 DEF FlightAnswered, OwnInv, Served
  <2>2. torn' = torn /\ access' = access /\ refresh' = refresh
    BY <1>9 DEF FlightAnswered
  <2>3. CASE req[flight.slot].answer = "ok"
    <3>1. PICK q : q = req[flight.slot]
      OBVIOUS
    <3>2. row[q.token].user = row[flight.token].user
      BY <1>9, <2>1, <2>3, <3>1 DEF ForRefresh, FlightAnswered
    <3>3. /\ flight' = [flight EXCEPT !.pc = "reply", !.slot = None, !.token = q.token, !.user = q.user]
          /\ acct' = acct /\ who' = who
      BY <1>9, <2>3, <3>1 DEF FlightAnswered
    <3>4. /\ flight'.pc = "reply" /\ flight'.token = q.token /\ flight'.same = flight.same
          /\ flight'.callers = flight.callers
      BY <1>1, <3>3 DEF Flight
    <3>. QED
      BY <1>2, <2>1, <2>2, <3>2, <3>3, <3>4 DEF OneLearner, OnlyUser, UnderWay
  <2>4. CASE req[flight.slot].answer \in {"refused", "reused"}
    <3>1. flight' = [flight EXCEPT !.pc = "refused", !.slot = None] /\ acct' = acct /\ who' = who
      BY <1>9, <2>4 DEF FlightAnswered
    <3>2. /\ flight'.pc = "refused" /\ flight'.token = flight.token /\ flight'.same = flight.same
          /\ flight'.callers = flight.callers
      BY <1>1, <3>1 DEF Flight
    <3>. QED
      BY <1>2, <2>1, <2>2, <3>1, <3>2 DEF OneLearner, OnlyUser, UnderWay
  <2>5. CASE req[flight.slot].answer = "error"
    BY <1>4, <1>9, <2>5 DEF FlightAnswered
  <2>. QED
    BY <1>9, <2>3, <2>4, <2>5 DEF FlightAnswered
<1>10. ASSUME NEW r \in Requests, FlightRead(r) PROVE OneLearner'
  <2>1. /\ refresh # None /\ flight.pc = "wait" /\ torn' = torn /\ who' = who /\ acct' = acct
        /\ access' = access /\ refresh' = refresh
        /\ flight' = [flight EXCEPT !.pc = "sent", !.slot = r, !.token = refresh, !.same = TRUE]
    BY <1>10 DEF FlightRead
  <2>2. flight'.pc = "sent" /\ flight'.token = refresh /\ flight'.callers = flight.callers
    BY <1>1, <2>1 DEF Flight
  <2>3. acct.pc # "saving"
    BY <1>2, <2>1 DEF OwnToken
  <2>. QED
    BY <1>1, <1>2, <2>1, <2>2, <2>3 DEF OneLearner, OnlyUser, UnderWay
<1>11. CASE (\E u \in Users, r \in Requests : Login(u, r)) \/ (\E r \in Requests : Logout(r)) \/ LogoutTokenless
  <2>1. /\ torn' = torn /\ who' = who /\ access' = access /\ refresh' = refresh /\ flight' = flight
        /\ acct.pc = "none"
    BY <1>11 DEF Login, Logout, LogoutTokenless
  <2>. QED
    BY <1>2, <2>1, LearnerKept
<1>12. CASE LoginAnswered
  <2>1. /\ torn' = torn /\ who' = who /\ refresh' = refresh /\ flight' = flight /\ acct.pc = "loggingIn"
    BY <1>12 DEF LoginAnswered
  <2>2. who = None /\ flight.pc # "wait" /\ (UnderWay => ~flight.same)
    BY <1>2, <2>1 DEF OwnToken
  <2>3. CASE req[acct.slot].answer = "ok"
    <3>1. PICK t : acct' = [acct EXCEPT !.pc = "saving", !.slot = None, !.token = t]
      BY <1>12, <2>3 DEF LoginAnswered
    <3>2. acct'.pc = "saving"
      BY <1>1, <3>1 DEF Acct
    <3>. QED
      BY <2>1, <2>2, <3>2 DEF OneLearner, UnderWay
  <2>4. CASE req[acct.slot].answer # "ok"
    <3>1. access' = access
      BY <1>12, <2>4 DEF LoginAnswered
    <3>. QED
      BY <1>2, <2>1, <3>1, LearnerKept
  <2>. QED
    BY <2>3, <2>4
<1>13. CASE LoginSaved
  <2>1. /\ acct.pc = "saving" /\ refresh' = acct.token /\ who' = acct.user /\ access' = access /\ flight' = flight
    BY <1>13 DEF LoginSaved
  <2>2. acct.user \in Users /\ access = acct.user /\ row[acct.token].user = acct.user
    BY <1>2, <2>1 DEF Stored
  <2>3. flight.pc # "wait" /\ (UnderWay => ~flight.same)
    BY <1>2, <2>1 DEF OwnToken
  <2>. QED
    BY <2>1, <2>2, <2>3 DEF OneLearner, OnlyUser, UnderWay
<1>14. CASE LoginSaveFails
  BY <1>14 DEF LoginSaveFails
<1>15. CASE LogoutAnswered \/ AccountLost
  <2>1. /\ torn' = torn /\ who' = who /\ access' = access /\ refresh' = refresh /\ flight' = flight
        /\ acct.pc # "saving"
    BY <1>15 DEF LogoutAnswered, AccountLost
  <2>. QED
    BY <1>2, <2>1, LearnerKept
<1>16. CASE InvalidateAndClear
  <2>1. /\ torn' = torn /\ who' = who /\ access' = None /\ refresh' = refresh
        /\ flight' = [flight EXCEPT !.same = FALSE]
    BY <1>16 DEF InvalidateAndClear
  <2>2. /\ flight'.pc = flight.pc /\ flight'.same = FALSE /\ flight'.callers = flight.callers
        /\ flight'.token = flight.token
    BY <1>1, <2>1 DEF Flight
  <2>. QED
    BY <1>2, <2>1, <2>2, LearnerKept
<1>17. CASE Cleared
  <2>1. /\ acct.pc = "clearing" /\ refresh' = None /\ who' = None /\ access' = access /\ flight' = flight
    BY <1>17 DEF Cleared
  <2>2. access = None /\ (UnderWay => ~flight.same)
    BY <1>2, <2>1 DEF CutOff
  <2>. QED
    BY <2>1, <2>2 DEF OneLearner, UnderWay
<1>18. CASE ClearFails
  <2>1. /\ acct.pc = "clearing" /\ refresh' = refresh /\ who' = None /\ access' = access /\ flight' = flight
        /\ torn' = torn
    BY <1>18 DEF ClearFails
  <2>2. access = None /\ (UnderWay => ~flight.same)
    BY <1>2, <2>1 DEF CutOff
  <2>. QED
    BY <1>2, <2>1, <2>2 DEF OneLearner, UnderWay
<1>19. CASE Restart
  <2>1. /\ who' = None /\ access' = access /\ refresh' = refresh /\ flight' = NoFlight
        /\ ~torn /\ acct.pc # "saving"
    BY <1>19 DEF Restart
  <2>2. flight'.pc = "none"
    BY <2>1 DEF NoFlight
  <2>. QED
    BY <1>2, <2>1, <2>2 DEF OneLearner, OnlyUser, UnderWay
<1>20. CASE CurrentUser
  <2>1. /\ acct.pc = "reading" /\ flight.pc = "none" /\ access' = access /\ refresh' = refresh /\ ~torn
        /\ who = None /\ flight.callers = {}
    BY <1>2, <1>20 DEF CurrentUser, OwnToken, Stored
  <2>2. CASE flight' = flight
    <3>1. who' \in {access, None}
      BY <1>20, <2>1, <2>2 DEF CurrentUser
    <3>. QED
      BY <1>2, <2>1, <2>2, <3>1 DEF OneLearner, OnlyUser, UnderWay
  <2>3. CASE flight' # flight
    <3>1. /\ flight' = [flight EXCEPT !.pc = "wait", !.callers = @ \cup {access}]
          /\ who' = who /\ access # None
      BY <1>20, <2>1, <2>3 DEF CurrentUser, Join
    <3>2. flight'.pc = "wait" /\ flight'.callers = {access}
      BY <1>1, <2>1, <3>1 DEF Flight
    <3>. QED
      BY <1>2, <2>1, <3>1, <3>2 DEF OneLearner, OnlyUser, UnderWay
  <2>. QED
    BY <2>2, <2>3
<1>. QED
  BY <1>3, <1>5, <1>6, <1>7, <1>8, <1>9, <1>10, <1>11, <1>12, <1>13, <1>14, <1>15, <1>16, <1>17, <1>18,
     <1>19, <1>20 DEF DeviceNext, FlightStep, AccountStep

\* Nothing is stored at the start.
LEMMA InitOwn == Init => OwnInv
<1>. SUFFICES ASSUME Init PROVE OwnInv
  OBVIOUS
<1>1. RowsOwned
  BY DEF Init, ServerInit, RowsOwned, Idle
<1>2. Served /\ Stored /\ OneLearner
  BY DEF Init, ServerInit, Served, Stored, OneLearner, UnderWay, NoFlight, NoAcct
<1>. QED
  BY <1>1, <1>2 DEF OwnInv

\* Every step keeps the tokens whose they are.
LEMMA StepOwn == IInv /\ OwnInv /\ [Next]_vars => OwnInv'
<1>. SUFFICES ASSUME IInv, OwnInv, [Next]_vars PROVE OwnInv'
  OBVIOUS
<1>1. CASE DeviceNext
  <2>1. row' = row /\ issued' = issued
    BY <1>1 DEF DeviceNext, FlightStep, AccountStep, Call401, FlightRead, FlightReadFails, FlightAnswered,
        FlightLost, FlightClear, FlightSave, FlightSaved, FlightSaveFails, Login, LoginAnswered, LoginSaved,
        LoginSaveFails, Logout, LogoutTokenless, LogoutAnswered, AccountLost, InvalidateAndClear, Cleared,
        ClearFails, Restart, CurrentUser
  <2>2. RowsOwned'
    BY <1>1, <2>1, DeviceRowsOwned DEF OwnInv
  <2>3. Served'
    BY <1>1, <2>1, DeviceServed DEF OwnInv
  <2>4. Stored' /\ (~torn' => OneLearner')
    BY <1>1, <2>1, DeviceStored, DeviceOneLearner
  <2>. QED
    BY <2>2, <2>3, <2>4 DEF OwnInv
<1>2. CASE ServerNext /\ UNCHANGED deviceVars
  BY <1>2, ServerOwn
<1>3. CASE UNCHANGED vars
  <2>1. /\ row' = row /\ issued' = issued /\ req' = req /\ access' = access /\ refresh' = refresh /\ who' = who
        /\ acct' = acct /\ flight' = flight /\ torn' = torn
    BY <1>3 DEF vars
  <2>2. RowsOwned' /\ Stored'
    BY <2>1 DEF OwnInv, RowsOwned, Stored, UnderWay
  <2>3. Served'
    BY <2>1 DEF OwnInv, Served, ForRefresh, ForLogin
  <2>4. ~torn' => OneLearner'
    BY <2>1 DEF OwnInv, OneLearner, OnlyUser, UnderWay
  <2>. QED
    BY <2>2, <2>3, <2>4 DEF OwnInv
<1>. QED
  BY <1>1, <1>2, <1>3 DEF Next

\* The tokens are always whose they are.
LEMMA Ownership == Spec => []OwnInv
BY Invariant, InitOwn, StepOwn, PTL DEF Spec

\* A learner who is signed in has their own tokens or none, and no call goes on
\* with another learner's access token, whatever refreshes, logouts, losses and
\* restarts came before, unless a login was cut off between its two writes.
THEOREM TokensStayOwn == Spec => []TokensAreOwn
<1>1. IInv /\ OwnInv => TokensAreOwn
  <2>. SUFFICES ASSUME IInv, OwnInv PROVE TokensAreOwn
    OBVIOUS
  <2>1. ASSUME who # None, ~torn PROVE access \in {who, None} /\ (refresh # None => row[refresh].user = who)
    BY <2>1 DEF OwnInv, OneLearner, OnlyUser
  <2>2. ASSUME flight.pc = "saving", ~torn PROVE flight.callers \subseteq {flight.user}
    <3>1. flight.same /\ row[flight.token].user = flight.user
      BY <2>2 DEF IInv, CutOff, OwnInv, Stored
    <3>. QED
      BY <2>2, <3>1 DEF OwnInv, OneLearner, UnderWay
  <2>. QED
    BY <2>1, <2>2 DEF TokensAreOwn
<1>. QED
  BY <1>1, Invariant, Ownership, PTL
=============================================================================
