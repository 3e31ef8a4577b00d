---------------------------- MODULE TokenRotation ----------------------------
(***************************************************************************)
(* The server's refresh tokens: login, rotation by /auth/refresh, logout,  *)
(* and the operations that end every session of an account.  A request is  *)
(* a sequence of steps between which other requests run; a row that a      *)
(* request has locked, or is about to update, makes the others wait.  Time *)
(* is not kept: whether a row is past expires_at, or its revocation longer *)
(* ago than reuse_grace_seconds, is a choice when /auth/refresh compares.  *)
(* purge_expired deletes rows past expires_at only, and these are refused  *)
(* either way, so the table just grows here.                               *)
(***************************************************************************)
EXTENDS Integers, FiniteSets

CONSTANTS
  Users,      \* accounts
  Tokens,     \* refresh tokens that may be generated
  Requests,   \* requests the server may be handling at a time
  Swept,      \* accounts whose sessions may all be ended, or that may be deactivated
  None

ASSUME ConstantsAssumption ==
  /\ None \notin Users \cup Tokens \cup Requests
  /\ Swept \subseteq Users

VARIABLES
  row,        \* the table refresh_tokens
  issued,     \* tokens generated so far
  parent,     \* history: the token that each one replaced
  active,     \* users.is_active
  req         \* requests in progress

serverVars == <<row, issued, parent, active, req>>

Row == [user : Users \cup {None}, revoked : BOOLEAN]

\* No row has this hash.
NoRow == [user |-> None, revoked |-> FALSE]

NewRow(u) == [user |-> u, revoked |-> FALSE]

Idle == [pc |-> "idle", client |-> "other", user |-> None, token |-> None,
         snap |-> {}, off |-> FALSE, answer |-> "none"]

Request ==
  [pc : {"idle", "lock", "rotate", "family", "read", "revoke", "issue", "sweep", "done"},
   client : {"other", "refresh", "account"},
   user : Users \cup {None}, token : Tokens \cup {None}, snap : SUBSET Tokens, off : BOOLEAN,
   answer : {"none", "ok", "refused", "reused", "error"}]

ServerTypeOK ==
  /\ row \in [Tokens -> Row]
  /\ issued \subseteq Tokens
  /\ parent \in [Tokens -> Tokens \cup {None}]
  /\ active \in [Users -> BOOLEAN]
  /\ req \in [Requests -> Request]

ServerInit ==
  /\ row = [t \in Tokens |-> NoRow]
  /\ issued = {}
  /\ parent = [t \in Tokens |-> None]
  /\ active = [u \in Users |-> TRUE]
  /\ req = [r \in Requests |-> Idle]

-----------------------------------------------------------------------------
(* The table.                                                              *)

\* Faulty variant: lock_by_hash reads the row without FOR UPDATE.
LockedByNone(t, r) == FALSE

\* The row of t is locked by a request other than r, until it commits.
Locked(t, r) == \E o \in Requests \ {r} : req[o].pc \in {"rotate", "family"} /\ req[o].token = t

Unrevoked(u) == {t \in Tokens : row[t].user = u /\ ~row[t].revoked}

\* revoke_all_for_user: the rows of ts that are still unrevoked.
Revoked(ts) == [t \in Tokens |-> [row[t] EXCEPT !.revoked = @ \/ t \in ts]]

\* The answer of r, and the refresh token in it; nobody waits for it if the
\* client has gone.
Respond(r, a, t) ==
  req' = [req EXCEPT ![r] = IF @.client = "other" THEN Idle
                            ELSE [@ EXCEPT !.pc = "done", !.answer = a, !.token = t]]

Answered(r, a) == Respond(r, a, req[r].token)

-----------------------------------------------------------------------------
(* POST /auth/refresh.                                                     *)

\* Faulty variant: the row is read without FOR UPDATE.
RefreshUnlocked(r) ==
  LET t == req[r].token
  IN  /\ req[r].pc = "lock"
      /\ IF row[t].user # None /\ ~row[t].revoked /\ active[row[t].user]
         THEN req' = [req EXCEPT ![r].pc = "rotate", ![r].user = row[t].user]
         ELSE Answered(r, "refused")
      /\ UNCHANGED <<row, issued, parent, active>>

\* The row is locked, checked, and its account read.  The refusal: no row, a
\* recent revocation, an expired row, an inactive account.
RefreshLock(r) ==
  LET t == req[r].token
  IN  /\ req[r].pc = "lock"
      /\ ~Locked(t, r)
      /\ \/ Answered(r, "refused")
         \/ /\ row[t].user # None
            /\ row[t].revoked
            /\ req' = [req EXCEPT ![r].pc = "family", ![r].user = row[t].user,
                                  ![r].snap = Unrevoked(row[t].user)]
         \/ /\ row[t].user # None
            /\ ~row[t].revoked
            /\ active[row[t].user]
            /\ req' = [req EXCEPT ![r].pc = "rotate", ![r].user = row[t].user]
      /\ UNCHANGED <<row, issued, parent, active>>

\* A token that was replaced long ago comes back: revoke_all_for_user, committed
\* before the refusal.  The UPDATE waits for rows that others have locked.
RefreshFamily(r) ==
  /\ req[r].pc = "family"
  /\ \A t \in req[r].snap : ~Locked(t, r)
  /\ row' = Revoked(req[r].snap)
  /\ Answered(r, "reused")
  /\ UNCHANGED <<issued, parent, active>>

\* The old row is revoked and the new one inserted in one transaction.
RefreshRotate(r, new) ==
  LET t == req[r].token
  IN  /\ req[r].pc = "rotate"
      /\ new \notin issued
      /\ row' = [row EXCEPT ![t].revoked = TRUE, ![new] = NewRow(req[r].user)]
      /\ issued' = issued \cup {new}
      /\ parent' = [parent EXCEPT ![new] = t]
      /\ Respond(r, "ok", new)
      /\ UNCHANGED active

-----------------------------------------------------------------------------
(* Login (register ends like it) and logout.                               *)

\* The account has been read and the password verified.
LoginIssue(r, new) ==
  /\ req[r].pc = "issue"
  /\ new \notin issued
  /\ row' = [row EXCEPT ![new] = NewRow(req[r].user)]
  /\ issued' = issued \cup {new}
  /\ Respond(r, "ok", new)
  /\ UNCHANGED <<parent, active>>

\* logout reads the row without a lock.
LogoutRead(r) ==
  LET t == req[r].token
  IN  /\ req[r].pc = "read"
      /\ IF row[t].user # None /\ ~row[t].revoked
         THEN req' = [req EXCEPT ![r].pc = "revoke"]
         ELSE Answered(r, "ok")
      /\ UNCHANGED <<row, issued, parent, active>>

\* The UPDATE by primary key: it waits for a lock, and does not look at
\* revoked_at again.
LogoutRevoke(r) ==
  LET t == req[r].token
  IN  /\ req[r].pc = "revoke"
      /\ ~Locked(t, r)
      /\ row' = [row EXCEPT ![t].revoked = TRUE]
      /\ Answered(r, "ok")
      /\ UNCHANGED <<issued, parent, active>>

-----------------------------------------------------------------------------
(* change_password, reset_password, set_active.                            *)

Sweeping(u) == \E o \in Requests : req[o].pc = "sweep" /\ req[o].user = u

\* The account's row is updated and the UPDATE of its tokens starts: it sees
\* the rows of this moment.  Two of them wait for each other at the account.
SweepStart(r, u, off) ==
  /\ req[r].pc = "idle"
  /\ active[u]
  /\ ~Sweeping(u)
  /\ req' = [req EXCEPT ![r] = [Idle EXCEPT !.pc = "sweep", !.user = u, !.off = off,
                                            !.snap = Unrevoked(u)]]
  /\ UNCHANGED <<row, issued, parent, active>>

SweepCommit(r) ==
  /\ req[r].pc = "sweep"
  /\ \A t \in req[r].snap : ~Locked(t, r)
  /\ row' = Revoked(req[r].snap)
  /\ active' = [active EXCEPT ![req[r].user] = @ /\ ~req[r].off]
  /\ Answered(r, "ok")
  /\ UNCHANGED <<issued, parent>>

\* set_active(user_id, True).
Reactivate(u) ==
  /\ ~active[u]
  /\ ~Sweeping(u)
  /\ active' = [active EXCEPT ![u] = TRUE]
  /\ UNCHANGED <<row, issued, parent, req>>

-----------------------------------------------------------------------------

\* A statement fails, or the rate limiter refuses: everything is rolled back.
RequestFails(r) ==
  /\ req[r].pc \notin {"idle", "done"}
  /\ Answered(r, "error")
  /\ UNCHANGED <<row, issued, parent, active>>

ServerStep(r) ==
  \/ RefreshLock(r) \/ RefreshFamily(r) \/ LogoutRead(r) \/ LogoutRevoke(r)
  \/ SweepCommit(r) \/ RequestFails(r)
  \/ \E new \in Tokens : RefreshRotate(r, new) \/ LoginIssue(r, new)

ServerNext ==
  \/ \E r \in Requests : ServerStep(r)
  \/ \E r \in Requests, u \in Swept, off \in BOOLEAN : SweepStart(r, u, off)
  \/ \E u \in Users : Reactivate(u)

-----------------------------------------------------------------------------
(* What the clients send.                                                  *)

PostRefresh(r, c, t) == req[r].pc = "idle" /\ req' = [req EXCEPT ![r] =
                          [Idle EXCEPT !.pc = "lock", !.client = c, !.token = t]]

PostLogout(r, c, t) == req[r].pc = "idle" /\ req' = [req EXCEPT ![r] =
                         [Idle EXCEPT !.pc = "read", !.client = c, !.token = t]]

\* The account is read and the password verified; a wrong one has no effect.
PostLogin(r, c, u) == req[r].pc = "idle" /\ active[u] /\ req' = [req EXCEPT ![r] =
                        [Idle EXCEPT !.pc = "issue", !.client = c, !.user = u]]

-----------------------------------------------------------------------------
(* Properties.                                                             *)

\* A refresh token is replaced at most once, and is dead from then on,
\* whatever requests present it at the same time (#253: rotation under a row
\* lock).
SingleUse ==
  \A t, s \in issued :
    parent[t] # None =>
      /\ row[parent[t]].revoked
      /\ parent[s] = parent[t] => s = t

\* A token whose session has ended is never exchanged for another, although
\* /auth/refresh compares it first and replaces it later: a rotation, a logout,
\* a reuse, a password change or a deactivation that comes in between waits for
\* the row (lock_by_hash).  So what a reuse or a sweep has revoked stays without
\* issue; a token inserted while it waited for a rotation is not among its rows
\* and survives it.
EndedTokensBuyNothing ==
  [][\A t \in Tokens : parent'[t] # parent[t] => ~row[parent'[t]].revoked]_serverVars
=============================================================================
