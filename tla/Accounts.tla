------------------------------ MODULE Accounts ------------------------------
(* The account rows of the users table: registration, the password change,   *)
(* the issue and the use of reset tokens, and the deactivation by an         *)
(* administrator.  Each request loads the row, works (a password is hashed   *)
(* for a while), and writes the columns that it changed; nothing locks the   *)
(* row in between.  Passwords carry no state here, reset tokens are numbers  *)
(* in the order of their issue, 0 is none.                                   *)
EXTENDS Integers, FiniteSets

CONSTANTS Mailboxes, \* who can receive mail
          Clients,   \* concurrent requests
          MaxResets  \* bound on the reset tokens issued
ASSUME AccountsAssumption == MaxResets \in Nat

VARIABLES accounts, \* the rows, by stored e-mail
          enrolled, \* e-mails whose first refresh token is stored
          operation,  \* what each client is in the middle of
          issued,   \* the number of reset tokens issued
          lapsed,   \* those whose hour is over
          dead,     \* e-mail and token: those issued before a completed password change began
          admitted  \* what the administrators last made of each account

accountVars == <<accounts, enrolled, operation, issued, lapsed, dead, admitted>>

\* An e-mail as it is typed, and what is stored and looked up: trimmed, lower case.
Address == [box : Mailboxes, capitals : BOOLEAN]
NormalizeEmail(typed) == [typed EXCEPT !.capitals = FALSE]

NewAccount == [reset |-> 0, active |-> TRUE]
NoOperation == [op |-> "none"]

AccountsInit ==
    /\ accounts = <<>> /\ enrolled = {} /\ admitted = <<>>
    /\ operation = [c \in Clients |-> NoOperation]
    /\ issued = 0 /\ lapsed = {} /\ dead = {}

NotBusy(c) == operation[c].op = "none"
Finished(c) == operation' = [operation EXCEPT ![c] = NoOperation]
WithRow(f, e, row) == [k \in DOMAIN f \cup {e} |-> IF k = e THEN row ELSE f[k]]

-----------------------------------------------------------------------------
(* Registration.                                                            *)

\* An e-mail that is taken is refused at once; otherwise the password is hashed.
RegisterCheck(c, typed) ==
    LET e == NormalizeEmail(typed) IN
    /\ NotBusy(c) /\ e \notin DOMAIN accounts
    /\ operation' = [operation EXCEPT ![c] = [op |-> "register", email |-> e, staged |-> FALSE]]
    /\ UNCHANGED <<accounts, enrolled, issued, lapsed, dead, admitted>>

Registering(c, staged) == operation[c].op = "register" /\ operation[c].staged = staged

\* The insert is flushed once no other transaction has the same e-mail staged; a
\* registration that came first makes it a conflict.
RegisterFlush(c) ==
    /\ Registering(c, FALSE)
    /\ ~\E d \in Clients : Registering(d, TRUE) /\ operation[d].email = operation[c].email
    /\ operation' = [operation EXCEPT ![c] = IF @.email \in DOMAIN accounts THEN NoOperation
                                         ELSE [@ EXCEPT !.staged = TRUE]]
    /\ UNCHANGED <<accounts, enrolled, issued, lapsed, dead, admitted>>

\* The account and its first refresh token are committed together.
RegisterCommit(c) ==
    /\ Registering(c, TRUE)
    /\ accounts' = WithRow(accounts, operation[c].email, NewAccount)
    /\ admitted' = WithRow(admitted, operation[c].email, TRUE)
    /\ enrolled' = enrolled \cup {operation[c].email}
    /\ Finished(c)
    /\ UNCHANGED <<issued, lapsed, dead>>

-----------------------------------------------------------------------------
(* Requests on an account.                                                  *)

IsInactive(row) == ~row.active

LoadAccount(c, op, e) ==
    /\ NotBusy(c) /\ e \in DOMAIN accounts
    /\ operation' = [operation EXCEPT ![c] =
           [op |-> op, email |-> e, copy |-> accounts[e], before |-> 1..issued]]
    /\ UNCHANGED <<accounts, enrolled, issued, lapsed, dead, admitted>>

\* The UPDATE names the columns whose value differs from the loaded one.
Written(row, copy, new) ==
    [row EXCEPT !.reset = IF new.reset # copy.reset THEN new.reset ELSE @,
                !.active = IF new.active # copy.active THEN new.active ELSE @]
StoreAccount(c, new) ==
    accounts' = [accounts EXCEPT ![operation[c].email] = Written(@, operation[c].copy, new)]

\* The caller is authenticated and knows the old password.
ChangePassword(c, e) == LoadAccount(c, "password", e) /\ ~IsInactive(accounts[e])

\* The token presented is the one stored, within its hour.
ResetPassword(c, e) ==
    /\ LoadAccount(c, "password", e)
    /\ accounts[e].reset # 0 /\ accounts[e].reset \notin lapsed
    /\ ~IsInactive(accounts[e])

\* A new password that leaves a pending reset token alone.
WithPasswordOnly(copy) == copy
WithPassword(copy) == [copy EXCEPT !.reset = 0]

\* The password, the end of a pending reset token and the revocation of every
\* session, in one transaction.
PasswordCommit(c) ==
    /\ operation[c].op = "password"
    /\ StoreAccount(c, WithPassword(operation[c].copy))
    /\ dead' = dead \cup ({operation[c].email} \X operation[c].before)
    /\ Finished(c)
    /\ UNCHANGED <<enrolled, issued, lapsed, admitted>>

\* Nothing happens for an unknown or deactivated account.
RequestPasswordReset(c, typed) ==
    LET e == NormalizeEmail(typed) IN LoadAccount(c, "forgot", e) /\ ~IsInactive(accounts[e])
IssueReset(c) ==
    /\ operation[c].op = "forgot" /\ issued < MaxResets
    /\ issued' = issued + 1
    /\ StoreAccount(c, [operation[c].copy EXCEPT !.reset = issued'])
    /\ Finished(c)
    /\ UNCHANGED <<enrolled, lapsed, dead, admitted>>

SetActive(c, e) == LoadAccount(c, "admin", e)
ActiveCommit(c, active) ==
    /\ operation[c].op = "admin"
    /\ StoreAccount(c, [operation[c].copy EXCEPT !.active = active])
    /\ admitted' = [admitted EXCEPT ![operation[c].email] =
           IF active # operation[c].copy.active THEN active ELSE @]
    /\ Finished(c)
    /\ UNCHANGED <<enrolled, issued, lapsed, dead>>

\* A check refuses, a statement or the commit fails: the transaction is rolled back.
RequestRolledBack(c) ==
    /\ ~NotBusy(c) /\ Finished(c)
    /\ UNCHANGED <<accounts, enrolled, issued, lapsed, dead, admitted>>

ResetLapses(t) ==
    /\ t \in 1..issued \ lapsed /\ lapsed' = lapsed \cup {t}
    /\ UNCHANGED <<accounts, enrolled, operation, issued, dead, admitted>>

AccountsNext ==
    \/ \E c \in Clients :
         \/ \E typed \in Address : RegisterCheck(c, typed) \/ RequestPasswordReset(c, typed)
         \/ \E e \in DOMAIN accounts : ChangePassword(c, e) \/ ResetPassword(c, e) \/ SetActive(c, e)
         \/ RegisterFlush(c) \/ RegisterCommit(c) \/ PasswordCommit(c) \/ IssueReset(c)
         \/ \E active \in BOOLEAN : ActiveCommit(c, active)
         \/ RequestRolledBack(c)
    \/ \E t \in 1..MaxResets : ResetLapses(t)

AccountsSpec == AccountsInit /\ [][AccountsNext]_accountVars

-----------------------------------------------------------------------------
(* Two registrations of one mailbox, however spelled, leave one account,    *)
(* and every account has the refresh token it was created with: no orphan   *)
(* that can only answer 409 (#439).  A reset token issued before a password *)
(* change or a reset began is useless once that has completed, whatever     *)
(* else was in flight on the row (#audit7).  And no request on the password *)
(* undoes what an administrator did, although it wrote back a row it had    *)
(* loaded before.                                                           *)
CredentialsCurrent ==
    /\ \A e, f \in DOMAIN accounts : e.box = f.box => e = f
    /\ DOMAIN accounts = enrolled
    /\ \A e \in DOMAIN accounts :
         <<e, accounts[e].reset>> \notin dead /\ accounts[e].active = admitted[e]
=============================================================================
