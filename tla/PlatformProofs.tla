--------------------------- MODULE PlatformProofs ---------------------------
(***************************************************************************)
(* Proofs about the accounts of the server (Accounts), the life of its     *)
(* processes (ProcessLife), its database connections (ConnectionPool) and  *)
(* its rate limiters (RateLimit), for any number of mailboxes, concurrent  *)
(* requests, reset tokens, processes, threads, settings, connections,      *)
(* callers and proxies.                                                    *)
(***************************************************************************)
EXTENDS Accounts, ProcessLife, ConnectionPool, RateLimit, SequenceTheorems, FiniteSetTheorems, TLAPS
LOCAL INSTANCE SequencesExt

----------------------------------------------------------------------------
(* The accounts: their inductive invariant                                 *)

\* E-mails as they are stored.
Email == [box : Mailboxes, capitals : {FALSE}]
AccountRow == [reset : Nat, active : BOOLEAN]

\* A registration, and a request that has loaded a row.
Registration == [op : {"register"}, email : Email, staged : BOOLEAN]
RowWork == [op : {"password", "forgot", "admin"}, email : Email, copy : AccountRow, before : SUBSET Nat]
Operation == {NoOperation} \cup Registration \cup RowWork

\* Every account has its first refresh token, and a place in the administrators' book.
AccountsTypeOK ==
    /\ enrolled \in SUBSET Email
    /\ accounts \in [enrolled -> AccountRow]
    /\ admitted \in [enrolled -> BOOLEAN]
    /\ operation \in [Clients -> Operation]
    /\ issued \in Nat /\ lapsed \in SUBSET (1..issued)
    /\ dead \in SUBSET (enrolled \X (1..issued))

\* The reset token of a row is not one of the dead, and its flag is the administrators'.
RowsCurrent == \A e \in enrolled : <<e, accounts[e].reset>> \notin dead /\ accounts[e].active = admitted[e]

Working(c) == operation[c].op \in {"password", "forgot", "admin"}

\* Since a request loaded its row, the reset token has stayed, has been used up, or
\* is one issued later.
CopyAged(c) ==
    LET o == operation[c] IN
    /\ o.email \in enrolled /\ o.before \in SUBSET (1..issued)
    /\ \/ accounts[o.email].reset \in {o.copy.reset, 0}
       \/ accounts[o.email].reset \notin o.before

AccountsInv == /\ AccountsTypeOK /\ RowsCurrent
               /\ \A c \in Clients : Working(c) => CopyAged(c)

\* There is no account at first.
LEMMA AccountsStart == AccountsInit => AccountsInv
<1>. SUFFICES ASSUME AccountsInit PROVE AccountsInv
  OBVIOUS
<1>1. <<>> \in [{} -> AccountRow] /\ <<>> \in [{} -> BOOLEAN]
  OBVIOUS
<1>2. AccountsTypeOK
  BY <1>1 DEF AccountsInit, AccountsTypeOK, Operation
<1>3. \A c \in Clients : ~Working(c)
  BY DEF AccountsInit, Working, NoOperation
<1>. QED
  BY <1>2, <1>3 DEF AccountsInit, AccountsInv, RowsCurrent

\* A stored e-mail is one.
LEMMA Normalized == \A typed \in Address : NormalizeEmail(typed) \in Email
BY DEF Address, NormalizeEmail, Email

\* A request that moves alone, and leaves the rows as they are.
LEMMA OperationStep ==
  ASSUME AccountsInv, NEW c \in Clients, NEW o \in Operation,
         operation' = [operation EXCEPT ![c] = o],
         o.op \notin {"password", "forgot", "admin"} \/
           (o.email \in enrolled /\ o.before \in SUBSET (1..issued) /\ o.copy = accounts[o.email]),
         UNCHANGED <<accounts, enrolled, issued, lapsed, dead, admitted>>
  PROVE  AccountsInv'
<1>1. /\ accounts' = accounts /\ enrolled' = enrolled /\ issued' = issued /\ lapsed' = lapsed
      /\ dead' = dead /\ admitted' = admitted
  OBVIOUS
<1>2. operation \in [Clients -> Operation]
  BY DEF AccountsInv, AccountsTypeOK
<1>3. operation' \in [Clients -> Operation] /\ operation'[c] = o
  BY <1>2
<1>4. \A d \in Clients \ {c} : operation'[d] = operation[d]
  BY <1>2
<1>5. AccountsTypeOK' /\ RowsCurrent'
  BY <1>1, <1>3 DEF AccountsInv, AccountsTypeOK, RowsCurrent
<1>6. ASSUME NEW d \in Clients, Working(d)' PROVE CopyAged(d)'
  <2>1. CASE d = c
    BY <1>1, <1>3, <1>6, <2>1 DEF Working, CopyAged
  <2>2. CASE d # c
    BY <1>1, <1>4, <1>6, <2>2 DEF AccountsInv, Working, CopyAged
  <2>. QED
    BY <2>1, <2>2
<1>. QED
  BY <1>5, <1>6 DEF AccountsInv

\* A request that ends and leaves the rows as they are.
LEMMA OperationEnds ==
  ASSUME AccountsInv, NEW c \in Clients, Finished(c),
         UNCHANGED <<accounts, enrolled, issued, lapsed, dead, admitted>>
  PROVE  AccountsInv'
<1>1. NoOperation \in Operation /\ NoOperation.op \notin {"password", "forgot", "admin"}
  BY DEF Operation, NoOperation
<1>. QED
  BY <1>1, OperationStep DEF Finished

\* An e-mail that is free is registered; the row is not made yet.
LEMMA RegisterCheckKeeps ==
  ASSUME AccountsInv, NEW c \in Clients, NEW typed \in Address, RegisterCheck(c, typed)
  PROVE  AccountsInv'
<1>1. PICK o : o = [op |-> "register", email |-> NormalizeEmail(typed), staged |-> FALSE]
  OBVIOUS
<1>2. o \in Operation /\ o.op = "register"
  BY <1>1, Normalized DEF Operation, Registration
<1>3. operation' = [operation EXCEPT ![c] = o] /\ UNCHANGED <<accounts, enrolled, issued, lapsed, dead, admitted>>
  BY <1>1 DEF RegisterCheck
<1>. QED
  BY <1>2, <1>3, OperationStep

\* The insert is staged, or refused.
LEMMA RegisterFlushKeeps ==
  ASSUME AccountsInv, NEW c \in Clients, RegisterFlush(c)
  PROVE  AccountsInv'
<1>1. operation[c] \in Registration /\ operation \in [Clients -> Operation]
  BY DEF AccountsInv, AccountsTypeOK, RegisterFlush, Registering, Operation, NoOperation, RowWork
<1>2. PICK o : o = IF operation[c].email \in DOMAIN accounts THEN NoOperation
                   ELSE [operation[c] EXCEPT !.staged = TRUE]
  OBVIOUS
<1>3. [operation[c] EXCEPT !.staged = TRUE] \in Registration
  BY <1>1 DEF Registration
<1>4. o \in {NoOperation} \cup Registration
  BY <1>2, <1>3
<1>5. o \in Operation /\ o.op \notin {"password", "forgot", "admin"}
  BY <1>4 DEF Operation, NoOperation, Registration
<1>6. operation' = [operation EXCEPT ![c] = o] /\ UNCHANGED <<accounts, enrolled, issued, lapsed, dead, admitted>>
  BY <1>1, <1>2 DEF RegisterFlush
<1>. QED
  BY <1>5, <1>6, OperationStep

\* The account is made with its refresh token: an active one, without a reset token.
LEMMA RegisterCommitKeeps ==
  ASSUME AccountsInv, NEW c \in Clients, RegisterCommit(c)
  PROVE  AccountsInv'
<1>1. operation[c] \in Registration /\ operation \in [Clients -> Operation]
  BY DEF AccountsInv, AccountsTypeOK, RegisterCommit, Registering, Operation, NoOperation, RowWork
<1>2. PICK e \in Email : e = operation[c].email
  BY <1>1 DEF Registration
<1>3. /\ accounts' = WithRow(accounts, e, NewAccount) /\ admitted' = WithRow(admitted, e, TRUE)
      /\ enrolled' = enrolled \cup {e} /\ operation' = [operation EXCEPT ![c] = NoOperation]
      /\ issued' = issued /\ lapsed' = lapsed /\ dead' = dead
  BY <1>2 DEF RegisterCommit, Finished
<1>4. accounts \in [enrolled -> AccountRow] /\ admitted \in [enrolled -> BOOLEAN] /\ enrolled \in SUBSET Email
  BY DEF AccountsInv, AccountsTypeOK
<1>5. NewAccount \in AccountRow /\ NewAccount.reset = 0 /\ NewAccount.active = TRUE
  BY DEF NewAccount, AccountRow
<1>6. /\ accounts' \in [enrolled' -> AccountRow] /\ admitted' \in [enrolled' -> BOOLEAN]
      /\ accounts'[e] = NewAccount /\ admitted'[e] = TRUE
      /\ \A f \in enrolled : f # e => accounts'[f] = accounts[f] /\ admitted'[f] = admitted[f]
  BY <1>3, <1>4, <1>5 DEF WithRow
<1>7. AccountsTypeOK'
  <2>1. operation' \in [Clients -> Operation]
    BY <1>1, <1>3 DEF Operation
  <2>2. dead \in SUBSET (enrolled' \X (1..issued)) /\ enrolled' \in SUBSET Email
    BY <1>3, <1>4 DEF AccountsInv, AccountsTypeOK
  <2>. QED
    BY <1>3, <1>6, <2>1, <2>2 DEF AccountsInv, AccountsTypeOK
<1>8. RowsCurrent'
  <2>1. <<e, 0>> \notin dead
    BY DEF AccountsInv, AccountsTypeOK
  <2>2. \A f \in enrolled : f # e => <<f, accounts[f].reset>> \notin dead /\ accounts[f].active = admitted[f]
    BY DEF AccountsInv, RowsCurrent
  <2>. QED
    BY <1>3, <1>5, <1>6, <2>1, <2>2 DEF RowsCurrent
<1>9. ASSUME NEW d \in Clients, Working(d)' PROVE CopyAged(d)'
  <2>1. operation'[c].op = "none"
    BY <1>1, <1>3 DEF NoOperation
  <2>2. d # c /\ operation'[d] = operation[d]
    BY <1>1, <1>3, <1>9, <2>1 DEF Working
  <2>3. CopyAged(d)
    BY <1>9, <2>2 DEF AccountsInv, Working
  <2>4. CASE operation[d].email = e
    BY <1>3, <1>5, <1>6, <2>2, <2>3, <2>4 DEF CopyAged
  <2>5. CASE operation[d].email # e
    BY <1>3, <1>6, <2>2, <2>3, <2>5 DEF CopyAged
  <2>. QED
    BY <2>4, <2>5
<1>. QED
  BY <1>7, <1>8, <1>9 DEF AccountsInv

\* A request has loaded the row as it is.
LEMMA LoadKeeps ==
  ASSUME AccountsInv, NEW c \in Clients, NEW op \in {"password", "forgot", "admin"}, NEW e, LoadAccount(c, op, e)
  PROVE  AccountsInv'
<1>1. PICK o : o = [op |-> op, email |-> e, copy |-> accounts[e], before |-> 1..issued]
  OBVIOUS
<1>2. e \in enrolled /\ e \in Email /\ accounts[e] \in AccountRow /\ 1..issued \in SUBSET Nat
  BY DEF AccountsInv, AccountsTypeOK, LoadAccount
<1>3. o \in RowWork
  BY <1>1, <1>2 DEF RowWork
<1>4. /\ o \in Operation /\ o.email \in enrolled /\ o.before \in SUBSET (1..issued)
      /\ o.copy = accounts[o.email]
  BY <1>1, <1>2, <1>3 DEF Operation
<1>5. operation' = [operation EXCEPT ![c] = o] /\ UNCHANGED <<accounts, enrolled, issued, lapsed, dead, admitted>>
  BY <1>1 DEF LoadAccount
<1>. QED
  BY <1>4, <1>5, OperationStep

\* The columns that the UPDATE names.
LEMMA WrittenFacts ==
  ASSUME NEW row \in AccountRow, NEW copy \in AccountRow, NEW new \in AccountRow
  PROVE  /\ Written(row, copy, new) \in AccountRow
         /\ Written(row, copy, new).reset = IF new.reset # copy.reset THEN new.reset ELSE row.reset
         /\ Written(row, copy, new).active = IF new.active # copy.active THEN new.active ELSE row.active
BY DEF AccountRow, Written

\* A request that ends with an UPDATE of its row.
LEMMA StoreStep ==
  ASSUME AccountsInv, NEW c \in Clients, NEW e \in enrolled, NEW w \in AccountRow,
         accounts' = [accounts EXCEPT ![e] = w],
         w.reset \in {accounts[e].reset, 0} \/ w.reset \notin 1..issued,
         issued' \in Nat, issued <= issued', admitted' \in [enrolled -> BOOLEAN],
         dead' \in SUBSET (enrolled \X (1..issued')),
         Finished(c), UNCHANGED <<enrolled, lapsed>>,
         RowsCurrent'
  PROVE  AccountsInv'
<1>1. /\ accounts \in [enrolled -> AccountRow] /\ operation \in [Clients -> Operation]
      /\ issued \in Nat /\ lapsed \in SUBSET (1..issued) /\ enrolled \in SUBSET Email
  BY DEF AccountsInv, AccountsTypeOK
<1>2. enrolled' = enrolled /\ lapsed' = lapsed /\ operation' = [operation EXCEPT ![c] = NoOperation]
  BY DEF Finished
<1>3. accounts' \in [enrolled -> AccountRow] /\ accounts'[e] = w
      /\ \A f \in enrolled : f # e => accounts'[f] = accounts[f]
  BY <1>1
<1>4. operation' \in [Clients -> Operation]
  BY <1>1, <1>2 DEF Operation
<1>5. \A i \in 1..issued : i \in 1..issued'
  BY <1>1
<1>6. AccountsTypeOK'
  BY <1>1, <1>2, <1>3, <1>4, <1>5 DEF AccountsTypeOK
<1>7. ASSUME NEW d \in Clients, Working(d)' PROVE CopyAged(d)'
  <2>1. d # c /\ operation'[d] = operation[d]
    BY <1>1, <1>2, <1>7 DEF Working, NoOperation
  <2>2. CopyAged(d)
    BY <1>7, <2>1 DEF AccountsInv, Working
  <2>3. CASE operation[d].email = e
    BY <1>2, <1>3, <1>5, <2>1, <2>2, <2>3 DEF CopyAged
  <2>4. CASE operation[d].email # e
    BY <1>2, <1>3, <1>5, <2>1, <2>2, <2>4 DEF CopyAged
  <2>. QED
    BY <2>3, <2>4
<1>. QED
  BY <1>6, <1>7 DEF AccountsInv

\* A new password leaves no reset token that was issued before its request began.
LEMMA PasswordCommitKeeps ==
  ASSUME AccountsInv, NEW c \in Clients, PasswordCommit(c)
  PROVE  AccountsInv'
<1>1. operation[c] \in RowWork /\ Working(c)
  BY DEF AccountsInv, AccountsTypeOK, PasswordCommit, Operation, NoOperation, Registration, Working
<1>2. PICK o \in RowWork : o = operation[c]
  BY <1>1
<1>3. PICK e : e = o.email
  OBVIOUS
<1>4. /\ e \in enrolled /\ o.before \in SUBSET (1..issued) /\ o.copy \in AccountRow
      /\ accounts[e].reset \in {o.copy.reset, 0} \/ accounts[e].reset \notin o.before
  BY <1>1, <1>2, <1>3 DEF AccountsInv, CopyAged, RowWork
<1>5. accounts \in [enrolled -> AccountRow] /\ accounts[e] \in AccountRow /\ issued \in Nat
  BY <1>4 DEF AccountsInv, AccountsTypeOK
<1>6. /\ WithPassword(o.copy) \in AccountRow /\ WithPassword(o.copy).reset = 0
      /\ WithPassword(o.copy).active = o.copy.active
  BY <1>4 DEF WithPassword, AccountRow
<1>7. PICK w : w = Written(accounts[e], o.copy, WithPassword(o.copy))
  OBVIOUS
<1>8. /\ w \in AccountRow /\ w.active = accounts[e].active
      /\ w.reset = IF 0 # o.copy.reset THEN 0 ELSE accounts[e].reset
  BY <1>4, <1>5, <1>6, <1>7, WrittenFacts
<1>9. /\ accounts' = [accounts EXCEPT ![e] = w] /\ dead' = dead \cup ({e} \X o.before)
      /\ Finished(c) /\ enrolled' = enrolled /\ issued' = issued /\ lapsed' = lapsed /\ admitted' = admitted
  BY <1>2, <1>3, <1>5, <1>7 DEF PasswordCommit, StoreAccount
<1>10. dead \in SUBSET (enrolled \X (1..issued)) /\ dead' \in SUBSET (enrolled \X (1..issued))
  BY <1>4, <1>9 DEF AccountsInv, AccountsTypeOK
<1>11. RowsCurrent'
  <2>1. <<e, w.reset>> \notin dead'
    <3>1. CASE w.reset = 0
      BY <1>10, <3>1
    <3>2. CASE w.reset # 0
      <4>1. w.reset = accounts[e].reset /\ accounts[e].reset \notin o.before
        BY <1>4, <1>8, <3>2
      <4>2. <<e, accounts[e].reset>> \notin dead
        BY <1>4 DEF AccountsInv, RowsCurrent
      <4>. QED
        BY <1>9, <4>1, <4>2
    <3>. QED
      BY <3>1, <3>2
  <2>2. \A f \in enrolled : f # e => <<f, accounts[f].reset>> \notin dead'
    BY <1>9 DEF AccountsInv, RowsCurrent
  <2>3. \A f \in enrolled : accounts'[f] = IF f = e THEN w ELSE accounts[f]
    BY <1>5, <1>9
  <2>4. \A f \in enrolled : accounts'[f].active = admitted[f]
    BY <1>4, <1>8, <2>3 DEF AccountsInv, RowsCurrent
  <2>. QED
    BY <1>9, <2>1, <2>2, <2>3, <2>4 DEF RowsCurrent
<1>12. admitted' \in [enrolled -> BOOLEAN]
  BY <1>9 DEF AccountsInv, AccountsTypeOK
<1>13. w.reset \in {accounts[e].reset, 0} /\ issued' \in Nat /\ issued <= issued'
  BY <1>5, <1>8, <1>9
<1>14. dead' \in SUBSET (enrolled \X (1..issued'))
  BY <1>9, <1>10
<1>. QED
  BY <1>4, <1>8, <1>9, <1>11, <1>12, <1>13, <1>14, StoreStep

\* A reset token that is issued is a new one.
LEMMA IssueResetKeeps ==
  ASSUME AccountsInv, NEW c \in Clients, IssueReset(c)
  PROVE  AccountsInv'
<1>1. operation[c] \in RowWork /\ Working(c)
  BY DEF AccountsInv, AccountsTypeOK, IssueReset, Operation, NoOperation, Registration, Working
<1>2. PICK o \in RowWork : o = operation[c]
  BY <1>1
<1>3. PICK e : e = o.email
  OBVIOUS
<1>4. e \in enrolled /\ o.copy \in AccountRow
  BY <1>1, <1>2, <1>3 DEF AccountsInv, CopyAged, RowWork
<1>5. accounts \in [enrolled -> AccountRow] /\ accounts[e] \in AccountRow /\ issued \in Nat
  BY <1>4 DEF AccountsInv, AccountsTypeOK
<1>6. PICK new : new = [o.copy EXCEPT !.reset = issued + 1]
  OBVIOUS
<1>7. new \in AccountRow /\ new.reset = issued + 1 /\ new.active = o.copy.active
  BY <1>4, <1>5, <1>6 DEF AccountRow
<1>8. PICK w : w = Written(accounts[e], o.copy, new)
  OBVIOUS
<1>9. /\ w \in AccountRow /\ w.active = accounts[e].active
      /\ w.reset = IF issued + 1 # o.copy.reset THEN issued + 1 ELSE accounts[e].reset
  BY <1>4, <1>5, <1>7, <1>8, WrittenFacts
<1>10. /\ accounts' = [accounts EXCEPT ![e] = w] /\ issued' = issued + 1
       /\ Finished(c) /\ enrolled' = enrolled /\ dead' = dead /\ lapsed' = lapsed /\ admitted' = admitted
  BY <1>2, <1>3, <1>5, <1>6, <1>8 DEF IssueReset, StoreAccount
<1>11. w.reset = issued + 1 \/ w.reset = accounts[e].reset
  BY <1>9
<1>12. dead \in SUBSET (enrolled \X (1..issued)) /\ issued + 1 \notin 1..issued /\ 1..issued \subseteq 1..(issued + 1)
  BY <1>5 DEF AccountsInv, AccountsTypeOK
<1>13. RowsCurrent'
  <2>1. <<e, w.reset>> \notin dead
    BY <1>4, <1>11, <1>12 DEF AccountsInv, RowsCurrent
  <2>2. \A f \in enrolled : accounts'[f] = IF f = e THEN w ELSE accounts[f]
    BY <1>5, <1>10
  <2>. QED
    <3>1. accounts'[e].active = admitted[e] /\ <<e, accounts'[e].reset>> \notin dead
      BY <1>4, <1>9, <2>1, <2>2 DEF AccountsInv, RowsCurrent
    <3>2. \A f \in enrolled : f # e => accounts'[f].active = admitted[f] /\ <<f, accounts'[f].reset>> \notin dead
      BY <2>2 DEF AccountsInv, RowsCurrent
    <3>. QED
      BY <1>10, <3>1, <3>2 DEF RowsCurrent
<1>14. dead' \in SUBSET (enrolled \X (1..issued')) /\ issued' \in Nat /\ issued <= issued'
  BY <1>5, <1>10, <1>12
<1>15. admitted' \in [enrolled -> BOOLEAN]
  BY <1>10 DEF AccountsInv, AccountsTypeOK
<1>16. w.reset \in {accounts[e].reset, 0} \/ w.reset \notin 1..issued
  BY <1>11, <1>12
<1>. QED
  BY <1>4, <1>9, <1>10, <1>13, <1>14, <1>15, <1>16, StoreStep

\* The administrators' decision is stored if it differs from what they saw.
LEMMA ActiveCommitKeeps ==
  ASSUME AccountsInv, NEW c \in Clients, NEW active \in BOOLEAN, ActiveCommit(c, active)
  PROVE  AccountsInv'
<1>1. operation[c] \in RowWork /\ Working(c)
  BY DEF AccountsInv, AccountsTypeOK, ActiveCommit, Operation, NoOperation, Registration, Working
<1>2. PICK o \in RowWork : o = operation[c]
  BY <1>1
<1>3. PICK e : e = o.email
  OBVIOUS
<1>4. e \in enrolled /\ o.copy \in AccountRow
  BY <1>1, <1>2, <1>3 DEF AccountsInv, CopyAged, RowWork
<1>5. /\ accounts \in [enrolled -> AccountRow] /\ accounts[e] \in AccountRow /\ issued \in Nat
      /\ admitted \in [enrolled -> BOOLEAN]
  BY <1>4 DEF AccountsInv, AccountsTypeOK
<1>6. PICK new : new = [o.copy EXCEPT !.active = active]
  OBVIOUS
<1>7. new \in AccountRow /\ new.reset = o.copy.reset /\ new.active = active
  BY <1>4, <1>6 DEF AccountRow
<1>8. PICK w : w = Written(accounts[e], o.copy, new)
  OBVIOUS
<1>9. /\ w \in AccountRow /\ w.reset = accounts[e].reset
      /\ w.active = IF active # o.copy.active THEN active ELSE accounts[e].active
  BY <1>4, <1>5, <1>7, <1>8, WrittenFacts
<1>10. /\ accounts' = [accounts EXCEPT ![e] = w]
       /\ admitted' = [admitted EXCEPT ![e] = IF active # o.copy.active THEN active ELSE @]
       /\ Finished(c) /\ enrolled' = enrolled /\ dead' = dead /\ lapsed' = lapsed /\ issued' = issued
  BY <1>2, <1>3, <1>5, <1>6, <1>8 DEF ActiveCommit, StoreAccount
<1>11. /\ \A f \in enrolled : accounts'[f] = IF f = e THEN w ELSE accounts[f]
       /\ admitted' \in [enrolled -> BOOLEAN]
       /\ \A f \in enrolled : f # e => admitted'[f] = admitted[f]
       /\ admitted'[e] = IF active # o.copy.active THEN active ELSE admitted[e]
  BY <1>4, <1>5, <1>10
<1>12. RowsCurrent'
  <2>1. accounts'[e].active = admitted'[e] /\ <<e, accounts'[e].reset>> \notin dead
    BY <1>4, <1>9, <1>11 DEF AccountsInv, RowsCurrent
  <2>2. \A f \in enrolled : f # e => accounts'[f].active = admitted'[f] /\ <<f, accounts'[f].reset>> \notin dead
    BY <1>11 DEF AccountsInv, RowsCurrent
  <2>. QED
    BY <1>10, <2>1, <2>2 DEF RowsCurrent
<1>13. dead' \in SUBSET (enrolled \X (1..issued')) /\ issued' \in Nat /\ issued <= issued'
  BY <1>5, <1>10 DEF AccountsInv, AccountsTypeOK
<1>. QED
  BY <1>4, <1>9, <1>10, <1>11, <1>12, <1>13, StoreStep

\* The hour of a reset token passes.
LEMMA ResetLapsesKeeps ==
  ASSUME AccountsInv, NEW t, ResetLapses(t)
  PROVE  AccountsInv'
<1>1. /\ accounts' = accounts /\ enrolled' = enrolled /\ operation' = operation /\ issued' = issued
      /\ dead' = dead /\ admitted' = admitted /\ lapsed' \in SUBSET (1..issued)
  BY DEF ResetLapses, AccountsInv, AccountsTypeOK
<1>2. AccountsTypeOK' /\ RowsCurrent'
  BY <1>1 DEF AccountsInv, AccountsTypeOK, RowsCurrent
<1>3. \A c \in Clients : Working(c)' => CopyAged(c)'
  BY <1>1 DEF AccountsInv, Working, CopyAged
<1>. QED
  BY <1>2, <1>3 DEF AccountsInv

\* Every step of every request keeps the invariant.
LEMMA AccountsStep == AccountsInv /\ [AccountsNext]_accountVars => AccountsInv'
<1>. SUFFICES ASSUME AccountsInv, [AccountsNext]_accountVars PROVE AccountsInv'
  OBVIOUS
<1>1. CASE UNCHANGED accountVars
  <2>1. /\ accounts' = accounts /\ enrolled' = enrolled /\ operation' = operation /\ issued' = issued
        /\ dead' = dead /\ admitted' = admitted /\ lapsed' = lapsed
    BY <1>1 DEF accountVars
  <2>2. AccountsTypeOK' /\ RowsCurrent'
    BY <2>1 DEF AccountsInv, AccountsTypeOK, RowsCurrent
  <2>3. \A c \in Clients : Working(c)' => CopyAged(c)'
    BY <2>1 DEF AccountsInv, Working, CopyAged
  <2>. QED
    BY <2>2, <2>3 DEF AccountsInv
<1>2. ASSUME NEW c \in Clients, NEW typed \in Address, RegisterCheck(c, typed) \/ RequestPasswordReset(c, typed)
      PROVE  AccountsInv'
  BY <1>2, RegisterCheckKeeps, LoadKeeps DEF RequestPasswordReset
<1>3. ASSUME NEW c \in Clients, NEW e, ChangePassword(c, e) \/ ResetPassword(c, e) \/ SetActive(c, e)
      PROVE  AccountsInv'
  BY <1>3, LoadKeeps DEF ChangePassword, ResetPassword, SetActive
<1>4. ASSUME NEW c \in Clients, RegisterFlush(c) \/ RegisterCommit(c) \/ PasswordCommit(c) \/ IssueReset(c)
      PROVE  AccountsInv'
  BY <1>4, RegisterFlushKeeps, RegisterCommitKeeps, PasswordCommitKeeps, IssueResetKeeps
<1>5. ASSUME NEW c \in Clients, NEW active \in BOOLEAN, ActiveCommit(c, active) PROVE AccountsInv'
  BY <1>5, ActiveCommitKeeps
<1>6. ASSUME NEW c \in Clients, RequestRolledBack(c) PROVE AccountsInv'
  BY <1>6, OperationEnds DEF RequestRolledBack
<1>7. ASSUME NEW t, ResetLapses(t) PROVE AccountsInv'
  BY <1>7, ResetLapsesKeeps
<1>. QED
  BY <1>1, <1>2, <1>3, <1>4, <1>5, <1>6, <1>7 DEF AccountsNext

\* The rows of the accounts and the requests on them stay well typed.
THEOREM AccountsTypeCorrect == AccountsSpec => []AccountsTypeOK
<1>1. AccountsInv => AccountsTypeOK
  BY DEF AccountsInv
<1>. QED
  BY <1>1, AccountsStart, AccountsStep, PTL DEF AccountsSpec

\* One account per mailbox, each with its refresh token; no reset token outlives a
\* password change that began after it was issued; and no password request undoes
\* a decision of the administrators, for any number of requests that load the row,
\* work and write it back without a lock (features/auth/service.py).
THEOREM CredentialsStayCurrent == AccountsSpec => []CredentialsCurrent
<1>1. AccountsInv => CredentialsCurrent
  <2>. SUFFICES ASSUME AccountsInv PROVE CredentialsCurrent
    OBVIOUS
  <2>1. DOMAIN accounts = enrolled /\ enrolled \in SUBSET Email
    BY DEF AccountsInv, AccountsTypeOK
  <2>2. \A e, f \in Email : e.box = f.box => e = f
    <3>. SUFFICES ASSUME NEW e \in Email, NEW f \in Email, e.box = f.box PROVE e = f
      OBVIOUS
    <3>1. e.capitals = FALSE /\ f.capitals = FALSE
      BY DEF Email
    <3>2. e = [box |-> e.box, capitals |-> e.capitals] /\ f = [box |-> f.box, capitals |-> f.capitals]
      BY DEF Email
    <3>. QED
      BY <3>1, <3>2
  <2>. QED
    BY <2>1, <2>2 DEF AccountsInv, RowsCurrent, CredentialsCurrent
<1>. QED
  BY <1>1, AccountsStart, AccountsStep, PTL DEF AccountsSpec

----------------------------------------------------------------------------
(* The processes: their inductive invariant                                *)

\* The configurations that some demand asks for.
Wanted == UNION {{demand[k] : k \in DOMAIN demand} : demand \in WarmUps \cup Demands}
Resolving == [needs : Seq(Wanted), builds : BOOLEAN]

LifeTypeOK ==
    /\ stage \in [Instances -> {"warmUp", "serving", "cancelling", "closing", "down"}]
    /\ shared \in BOOLEAN
    /\ resolving \in [Instances -> [Threads -> Resolving]]
    /\ cache \in [Instances -> Seq(Wanted \X Nat)]
    /\ single \in [Instances -> SUBSET (Wanted \X Nat)]
    /\ registered \in [Instances -> Seq(Nat)]
    /\ clients \in [Instances -> Seq({"open", "closed", "failed"})]
    /\ sweeper \in [Instances -> {"none", "asleep", "sweeping"}]
    /\ sleep \in [Instances -> Nat]
    /\ lockedFor \in Nat /\ sinceLock \in 0..(2 * Interval)

\* Who builds has something to build, and threads work while the process runs only.
ThreadsOrderly(i) ==
    /\ \A t \in Threads : resolving[i][t].builds => resolving[i][t].needs # <<>>
    /\ ~Running(i) => AllIdle(i)

\* A cached provider and a registration name clients that were built; a client that
\* is open is registered; none is closed before the shutdown.
ClientsOrderly(i) ==
    /\ \A p \in Providers(i) : p[2] <= Len(clients[i])
    /\ \A k \in DOMAIN registered[i] : registered[i][k] \in 1..Len(clients[i])
    /\ \A c \in 1..Len(clients[i]) : clients[i][c] = "open" => \E k \in DOMAIN registered[i] : registered[i][k] = c
    /\ Running(i) => \A c \in 1..Len(clients[i]) : clients[i][c] = "open"
    /\ stage[i] = "down" => registered[i] = <<>>

SweeperOrderly(i) == stage[i] \notin {"serving", "cancelling"} => sweeper[i] = "none"

\* The lock and the clock of the last one count the same time, one down and one up.
LockOrderly == shared => lockedFor = IF sinceLock < Interval THEN Interval - sinceLock ELSE 0

LifeInv == /\ LifeTypeOK /\ LockOrderly
           /\ \A i \in Instances : ThreadsOrderly(i) /\ ClientsOrderly(i) /\ SweeperOrderly(i)

\* What is asked for depends on the settings of the deployment alone.
LEMMA WantedStays == ASSUME settings' = settings PROVE Wanted' = Wanted
BY DEF Wanted, WarmUps, Demands, GetTtsProvider, GetSttProvider, BuildFeatureLlm, FallbackPrimaryProvider, SharedEngineProvider

\* A demand is a sequence of one or two configurations.
LEMMA DemandsWanted == \A demand \in WarmUps \cup Demands : demand \in Seq(Wanted)
<1>. SUFFICES ASSUME NEW demand \in WarmUps \cup Demands PROVE demand \in Seq(Wanted)
  OBVIOUS
<1>1. \A k \in DOMAIN demand : demand[k] \in Wanted
  BY DEF Wanted
<1>2. (\E x : demand = <<x>>) \/ (\E x, y : demand = <<x, y>>)
  BY DEF WarmUps, Demands, GetTtsProvider, GetSttProvider, BuildFeatureLlm
<1>3. CASE \E x : demand = <<x>>
  <2>. PICK x : demand = <<x>>
    BY <1>3
  <2>1. x \in Wanted
    BY <1>1
  <2>. QED
    BY <2>1
<1>4. CASE \E x, y : demand = <<x, y>>
  <2>. PICK x, y : demand = <<x, y>>
    BY <1>4
  <2>1. x \in Wanted /\ y \in Wanted
    BY <1>1
  <2>. QED
    BY <2>1
<1>. QED
  BY <1>2, <1>3, <1>4

\* A process starts with the client of its limiter, if there is a Redis.
LEMMA LifeStart == LifeInit => LifeInv
<1>. SUFFICES ASSUME LifeInit PROVE LifeInv
  OBVIOUS
<1>1. \A i \in Instances : BuildRateLimiter(i) \in {0, 1} /\ (stage[i] = "down" => BuildRateLimiter(i) = 0)
  BY DEF BuildRateLimiter
<1>2. \A n \in {0, 1} : [k \in 1..n |-> k] \in Seq(Nat) /\ [k \in 1..n |-> "open"] \in Seq({"open", "closed", "failed"})
                       /\ Len([k \in 1..n |-> k]) = n /\ Len([k \in 1..n |-> "open"]) = n
  OBVIOUS
<1>3. NotResolving \in Resolving /\ NotResolving.builds = FALSE
  BY DEF NotResolving, Resolving
<1>4. stage \in [Instances -> {"warmUp", "down"}]
  BY DEF LifeInit
<1>5. LifeTypeOK
  <2>1. stage \in [Instances -> {"warmUp", "serving", "cancelling", "closing", "down"}]
    BY <1>4
  <2>2. resolving \in [Instances -> [Threads -> Resolving]]
    BY <1>3 DEF LifeInit
  <2>3. registered \in [Instances -> Seq(Nat)]
    BY <1>1, <1>2 DEF LifeInit
  <2>4. clients \in [Instances -> Seq({"open", "closed", "failed"})]
    BY <1>1, <1>2 DEF LifeInit
  <2>5. lockedFor \in Nat /\ sinceLock \in 0..(2 * Interval)
    BY LifeAssumption DEF LifeInit
  <2>. QED
    BY <2>1, <2>2, <2>3, <2>4, <2>5 DEF LifeInit, LifeTypeOK
<1>6. LockOrderly
  BY LifeAssumption DEF LifeInit, LockOrderly
<1>. SUFFICES ASSUME NEW i \in Instances PROVE ThreadsOrderly(i) /\ ClientsOrderly(i) /\ SweeperOrderly(i)
  BY <1>5, <1>6 DEF LifeInv
<1>7. ThreadsOrderly(i)
  BY <1>3 DEF LifeInit, ThreadsOrderly, AllIdle
<1>8. SweeperOrderly(i)
  BY DEF LifeInit, SweeperOrderly
<1>9. Providers(i) = {}
  BY DEF LifeInit, Providers, ToSet
<1>10. PICK n \in {0, 1} : n = BuildRateLimiter(i)
  BY <1>1
<1>11. registered[i] = [k \in 1..n |-> k] /\ clients[i] = [k \in 1..n |-> "open"]
  BY <1>10 DEF LifeInit
<1>12. stage[i] = "down" => registered[i] = <<>>
  BY <1>1, <1>10, <1>11
<1>13. ClientsOrderly(i)
  BY <1>2, <1>9, <1>11, <1>12 DEF ClientsOrderly
<1>. QED
  BY <1>7, <1>8, <1>13

\* What a step leaves of a process, it leaves orderly.
LEMMA ThreadsFrame ==
    ASSUME NEW j \in Instances, ThreadsOrderly(j), resolving'[j] = resolving[j], stage'[j] = stage[j]
    PROVE  ThreadsOrderly(j)'
BY DEF ThreadsOrderly, AllIdle, Running

\* The same holds of the clients and the caches of a process,
LEMMA ClientsFrame ==
    ASSUME NEW j \in Instances, ClientsOrderly(j), stage'[j] = stage[j], cache'[j] = cache[j],
           single'[j] = single[j], registered'[j] = registered[j], clients'[j] = clients[j]
    PROVE  ClientsOrderly(j)'
BY DEF ClientsOrderly, Providers, Running, ToSet

\* of its purge loop,
LEMMA SweeperFrame ==
    ASSUME NEW j \in Instances, SweeperOrderly(j), stage'[j] = stage[j], sweeper'[j] = sweeper[j]
    PROVE  SweeperOrderly(j)'
BY DEF SweeperOrderly

\* and of the lock that all of them share.
LEMMA LockFrame ==
    ASSUME LockOrderly, shared' = shared, lockedFor' = lockedFor, sinceLock' = sinceLock
    PROVE  LockOrderly'
BY DEF LockOrderly

\* Asking for providers takes a thread of a running process.
LEMMA AskOrderly ==
    ASSUME LifeInv, NEW i \in Instances, NEW t \in Threads, NEW demand \in WarmUps \cup Demands, Ask(i, t, demand)
    PROVE  LifeInv'
<1>1. Wanted' = Wanted
  BY WantedStays DEF Ask
<1>2. Running(i) /\ Running(i)'
  BY DEF Ask, Running
<1>3. resolving' \in [Instances -> [Threads -> Resolving]]
  <2>1. demand \in Seq(Wanted)
    BY DemandsWanted
  <2>2. resolving[i][t] \in Resolving
    BY DEF LifeInv, LifeTypeOK
  <2>3. [resolving[i][t] EXCEPT !.needs = demand] \in Resolving
    BY <2>1, <2>2 DEF Resolving
  <2>4. resolving' = [resolving EXCEPT ![i] = [@ EXCEPT ![t] = [resolving[i][t] EXCEPT !.needs = demand]]]
    BY DEF Ask, LifeInv, LifeTypeOK
  <2>. QED
    BY <2>3, <2>4 DEF LifeInv, LifeTypeOK
<1>4. LifeTypeOK'
  BY <1>1, <1>3 DEF Ask, purgeVars, LifeInv, LifeTypeOK, Resolving
<1>5. LockOrderly'
  BY LockFrame DEF Ask, purgeVars, LifeInv
<1>6. ASSUME NEW j \in Instances PROVE ThreadsOrderly(j)'
  <2>1. CASE j # i
    <3>1. resolving'[j] = resolving[j] /\ stage'[j] = stage[j]
      BY <2>1 DEF Ask, LifeInv, LifeTypeOK
    <3>. QED
      BY <3>1, ThreadsFrame DEF LifeInv
  <2>2. CASE j = i
    <3>1. resolving[i][t].builds = FALSE
      BY DEF Ask, NotResolving
    <3>2. \A u \in Threads : resolving'[i][u].builds = resolving[i][u].builds
                            /\ (u # t => resolving'[i][u] = resolving[i][u])
      BY DEF Ask, LifeInv, LifeTypeOK, Resolving
    <3>. QED
      BY <1>2, <2>2, <3>1, <3>2 DEF LifeInv, ThreadsOrderly
  <2>. QED
    BY <2>1, <2>2
<1>7. ASSUME NEW j \in Instances PROVE ClientsOrderly(j)' /\ SweeperOrderly(j)'
  BY ClientsFrame, SweeperFrame DEF LifeInv, Ask, purgeVars
<1>. QED
  BY <1>4, <1>5, <1>6, <1>7 DEF LifeInv

\* The least recently used order holds the providers it held.
LEMMA MovedIsKept ==
    ASSUME NEW S, NEW s \in Seq(S), NEW config
    PROVE  /\ MovedToEnd(s, config) \in Seq(S)
           /\ ToSet(MovedToEnd(s, config)) \subseteq ToSet(s)
<1>1. CASE ~\E j \in DOMAIN s : s[j][1] = config
  BY <1>1 DEF MovedToEnd
<1>2. CASE \E j \in DOMAIN s : s[j][1] = config
  <2>0. PICK k : k = CHOOSE j \in DOMAIN s : s[j][1] = config
    OBVIOUS
  <2>1. k \in 1..Len(s) /\ Len(s) \in Nat
    BY <1>2, <2>0
  <2>2. MovedToEnd(s, config) = Append(SubSeq(s, 1, k - 1) \o SubSeq(s, k + 1, Len(s)), s[k])
    BY <1>2, <2>0 DEF MovedToEnd, RemoveAt
  <2>. DEFINE a == SubSeq(s, 1, k - 1)
              b == SubSeq(s, k + 1, Len(s))
  <2>3. a \in Seq(S) /\ Len(a) = k - 1 /\ \A n \in 1..(k - 1) : a[n] = s[n]
    BY <2>1
  <2>4. b \in Seq(S) /\ Len(b) = Len(s) - k /\ \A n \in 1..(Len(s) - k) : b[n] = s[n + k]
    BY <2>1
  <2>5. PICK r : r = Append(a \o b, s[k])
    OBVIOUS
  <2>6. ToSet(s) = {s[m] : m \in 1..Len(s)} /\ MovedToEnd(s, config) = r
    BY <2>2, <2>5 DEF ToSet
  <2>. HIDE DEF a, b
  <2>7. s[k] \in S
    BY <2>1
  <2>8. a \o b \in Seq(S) /\ Len(a \o b) = Len(s) - 1
    <3>1. a \o b \in Seq(S) /\ Len(a \o b) = Len(a) + Len(b)
      BY <2>3, <2>4, ConcatProperties
    <3>. QED
      BY <2>1, <2>3, <2>4, <3>1
  <2>9. r \in Seq(S) /\ Len(r) = Len(s)
    BY <2>1, <2>5, <2>7, <2>8
  <2>10. ASSUME NEW n \in 1..Len(s) PROVE r[n] \in ToSet(s)
    <3>1. CASE n < k
      <4>1. (a \o b)[n] = a[n] /\ r[n] = (a \o b)[n]
        BY <2>1, <2>3, <2>4, <2>5, <2>7, <2>8, <3>1
      <4>. QED
        BY <2>3, <2>6, <3>1, <4>1, <2>1
    <3>2. CASE n >= k /\ n < Len(s)
      <4>1. (a \o b)[n] = b[n - (k - 1)] /\ r[n] = (a \o b)[n]
        BY <2>1, <2>3, <2>4, <2>5, <2>7, <2>8, <3>2
      <4>2. n - (k - 1) \in 1..(Len(s) - k) /\ (n - (k - 1)) + k = n + 1 /\ n + 1 \in 1..Len(s)
        BY <2>1, <3>2
      <4>3. b[n - (k - 1)] = s[n + 1]
        BY <2>4, <4>2
      <4>. QED
        BY <2>6, <4>1, <4>2, <4>3
    <3>3. CASE n = Len(s)
      <4>1. r[n] = s[k]
        BY <2>1, <2>5, <2>7, <2>8, <3>3
      <4>. QED
        BY <2>1, <2>6, <4>1
    <3>. QED
      BY <3>1, <3>2, <3>3, <2>1
  <2>11. \A p \in ToSet(r) : p \in ToSet(s)
    BY <2>9, <2>10 DEF ToSet
  <2>. QED
    BY <2>6, <2>9, <2>11
<1>. QED
  BY <1>1, <1>2

\* A thread moves its demand one step on: the others are as they were.
LEMMA ThreadStep ==
    ASSUME LifeInv, NEW i \in Instances, NEW t \in Threads, NEW next \in Resolving,
           next.builds => next.needs # <<>>, Running(i), stage' = stage,
           resolving' = [resolving EXCEPT ![i][t] = next]
    PROVE  /\ resolving' \in [Instances -> [Threads -> Resolving]]
           /\ \A j \in Instances : ThreadsOrderly(j)'
<1>1. resolving' \in [Instances -> [Threads -> Resolving]]
  BY DEF LifeInv, LifeTypeOK
<1>2. ASSUME NEW j \in Instances PROVE ThreadsOrderly(j)'
  <2>1. CASE j # i
    <3>1. resolving'[j] = resolving[j]
      BY <2>1 DEF LifeInv, LifeTypeOK
    <3>. QED
      BY <3>1, ThreadsFrame DEF LifeInv
  <2>2. CASE j = i
    <3>1. \A u \in Threads : resolving'[i][u] = IF u = t THEN next ELSE resolving[i][u]
      BY DEF LifeInv, LifeTypeOK
    <3>. QED
      BY <2>2, <3>1 DEF LifeInv, ThreadsOrderly, Running
  <2>. QED
    BY <2>1, <2>2
<1>. QED
  BY <1>1, <1>2

\* A thread that works is one of a running process.
LEMMA WorkersRun ==
    ASSUME LifeInv, NEW i \in Instances, NEW t \in Threads, resolving[i][t] # NotResolving
    PROVE  Running(i)
BY DEF LifeInv, ThreadsOrderly, AllIdle

\* A look-up: the cache is reordered, or a build begins.
LEMMA LookUpOrderly ==
    ASSUME LifeInv, NEW i \in Instances, NEW t \in Threads, LookUp(i, t)
    PROVE  LifeInv'
<1>1. resolving[i][t] \in Resolving /\ resolving[i][t].needs # <<>> /\ resolving[i][t].needs \in Seq(Wanted)
      /\ resolving[i][t].builds = FALSE
  BY DEF LookUp, LifeInv, LifeTypeOK, Resolving
<1>2. Running(i)
  BY <1>1, WorkersRun DEF NotResolving
<1>3. Wanted' = Wanted
  BY WantedStays DEF LookUp
<1>4. PICK next \in Resolving : /\ next.builds => next.needs # <<>>
                                /\ resolving' = [resolving EXCEPT ![i][t] = next]
  <2>1. CASE Hit(i, Head(resolving[i][t].needs))
    <3>0. Tail(resolving[i][t].needs) \in Seq(Wanted)
      BY <1>1, HeadTailProperties
    <3>1. [resolving[i][t] EXCEPT !.needs = Tail(@)] \in Resolving
          /\ [resolving[i][t] EXCEPT !.needs = Tail(@)].builds = FALSE
      BY <1>1, <3>0 DEF Resolving
    <3>2. resolving' = [resolving EXCEPT ![i][t] = [resolving[i][t] EXCEPT !.needs = Tail(@)]]
      BY <2>1 DEF LookUp, LifeInv, LifeTypeOK
    <3>. QED
      BY <3>1, <3>2
  <2>2. CASE ~Hit(i, Head(resolving[i][t].needs))
    <3>1. [resolving[i][t] EXCEPT !.builds = TRUE] \in Resolving
          /\ [resolving[i][t] EXCEPT !.builds = TRUE].needs = resolving[i][t].needs
      BY <1>1 DEF Resolving
    <3>2. resolving' = [resolving EXCEPT ![i][t] = [resolving[i][t] EXCEPT !.builds = TRUE]]
      BY <2>2 DEF LookUp, LifeInv, LifeTypeOK
    <3>. QED
      BY <1>1, <3>1, <3>2
  <2>. QED
    BY <2>1, <2>2
<1>5. resolving' \in [Instances -> [Threads -> Resolving]] /\ \A j \in Instances : ThreadsOrderly(j)'
  BY <1>2, <1>4, ThreadStep DEF LookUp
<1>6. /\ cache' \in [Instances -> Seq(Wanted \X Nat)]
      /\ \A j \in Instances : ToSet(cache'[j]) \subseteq ToSet(cache[j])
  <2>1. CASE cache' = cache
    BY <2>1 DEF LifeInv, LifeTypeOK
  <2>2. CASE cache' = [cache EXCEPT ![i] = MovedToEnd(@, Head(resolving[i][t].needs))]
    <3>1. cache[i] \in Seq(Wanted \X Nat)
      BY DEF LifeInv, LifeTypeOK
    <3>. PICK moved : moved = MovedToEnd(cache[i], Head(resolving[i][t].needs))
      OBVIOUS
    <3>2. moved \in Seq(Wanted \X Nat) /\ ToSet(moved) \subseteq ToSet(cache[i])
      BY <3>1, MovedIsKept
    <3>3. cache' = [cache EXCEPT ![i] = moved]
      BY <2>2
    <3>4. \A j \in Instances : cache'[j] = IF j = i THEN moved ELSE cache[j]
      BY <3>3 DEF LifeInv, LifeTypeOK
    <3>5. cache' \in [Instances -> Seq(Wanted \X Nat)]
      BY <3>2, <3>3 DEF LifeInv, LifeTypeOK
    <3>. QED
      BY <3>2, <3>4, <3>5
  <2>. QED
    BY <2>1, <2>2 DEF LookUp
<1>7. LifeTypeOK'
  BY <1>3, <1>5, <1>6 DEF LookUp, purgeVars, LifeInv, LifeTypeOK, Resolving
<1>8. LockOrderly'
  BY LockFrame DEF LookUp, purgeVars, LifeInv
<1>9. ASSUME NEW j \in Instances PROVE ClientsOrderly(j)' /\ SweeperOrderly(j)'
  <2>1. Providers(j)' \subseteq Providers(j)
    BY <1>6 DEF LookUp, Providers
  <2>2. ClientsOrderly(j)'
    BY <2>1 DEF LookUp, LifeInv, ClientsOrderly, Running
  <2>. QED
    BY <2>2, SweeperFrame DEF LookUp, purgeVars, LifeInv
<1>. QED
  BY <1>5, <1>7, <1>8, <1>9 DEF LifeInv

\* The cache holds at most one provider more, which has this configuration and client.
LEMMA CacheGrows ==
    ASSUME LifeInv, NEW i \in Instances, NEW config \in Wanted, NEW client \in Nat, Cached(i, config, client)
    PROVE  /\ cache' \in [Instances -> Seq(Wanted \X Nat)]
           /\ single' \in [Instances -> SUBSET (Wanted \X Nat)]
           /\ \A j \in Instances \ {i} : cache'[j] = cache[j] /\ single'[j] = single[j]
           /\ \A p \in Providers(i)' : p \in Providers(i) \/ p = <<config, client>>
<1>1. cache \in [Instances -> Seq(Wanted \X Nat)] /\ single \in [Instances -> SUBSET (Wanted \X Nat)]
  BY DEF LifeInv, LifeTypeOK
<1>2. PICK pair \in Wanted \X Nat : pair = <<config, client>>
  OBVIOUS
<1>3. PICK longer : longer = Append(cache[i], pair)
  OBVIOUS
<1>4. /\ longer \in Seq(Wanted \X Nat) /\ Len(longer) = Len(cache[i]) + 1 /\ Len(cache[i]) \in Nat
      /\ \A n \in 1..Len(longer) : longer[n] \in ToSet(cache[i]) \/ longer[n] = pair
  BY <1>1, <1>2, <1>3 DEF ToSet
<1>5. PICK kept : kept = Trim(longer)
  OBVIOUS
<1>6. kept \in Seq(Wanted \X Nat) /\ \A n \in 1..Len(kept) : kept[n] \in ToSet(cache[i]) \/ kept[n] = pair
  <2>1. longer # <<>>
    BY <1>4
  <2>2. CASE kept = longer
    BY <1>4, <2>2
  <2>3. CASE kept = Tail(longer)
    <3>1. /\ kept \in Seq(Wanted \X Nat) /\ Len(kept) = Len(longer) - 1
          /\ \A n \in 1..Len(kept) : kept[n] = longer[n + 1]
      BY <1>4, <2>1, <2>3, HeadTailProperties
    <3>2. \A n \in 1..Len(kept) : n + 1 \in 1..Len(longer)
      BY <1>4, <3>1
    <3>. QED
      BY <1>4, <3>1, <3>2
  <2>. QED
    BY <1>5, <2>2, <2>3 DEF Trim
<1>7. \A p \in ToSet(kept) : p \in ToSet(cache[i]) \/ p = pair
  BY <1>6 DEF ToSet
<1>8. CASE cache' = [cache EXCEPT ![i] = kept] /\ single' = single
  <2>1. cache' \in [Instances -> Seq(Wanted \X Nat)] /\ cache'[i] = kept
        /\ \A j \in Instances \ {i} : cache'[j] = cache[j]
    BY <1>1, <1>6, <1>8
  <2>. QED
    BY <1>1, <1>2, <1>7, <1>8, <2>1 DEF Providers
<1>9. CASE cache' = cache /\ single' = [single EXCEPT ![i] = @ \cup {pair}]
  <2>1. single' \in [Instances -> SUBSET (Wanted \X Nat)] /\ single'[i] = single[i] \cup {pair}
        /\ \A j \in Instances \ {i} : single'[j] = single[j]
    BY <1>1, <1>9
  <2>. QED
    BY <1>1, <1>2, <1>9, <2>1 DEF Providers
<1>10. CASE cache' = cache /\ single' = single
  BY <1>1, <1>10 DEF Providers
<1>. QED
  BY <1>2, <1>3, <1>5, <1>8, <1>9, <1>10 DEF Cached

\* A build: the client is registered before anyone may use it.
LEMMA BuildOrderly ==
    ASSUME LifeInv, NEW i \in Instances, NEW t \in Threads, Build(i, t)
    PROVE  LifeInv'
<1>1. resolving[i][t] \in Resolving /\ resolving[i][t].needs # <<>> /\ resolving[i][t].needs \in Seq(Wanted)
      /\ resolving[i][t].builds
  BY DEF Build, LifeInv, LifeTypeOK, Resolving, ThreadsOrderly
<1>2. Running(i)
  BY <1>1, WorkersRun DEF NotResolving
<1>3. Wanted' = Wanted
  BY WantedStays DEF Build
<1>4. PICK config \in Wanted : config = Head(resolving[i][t].needs)
  BY <1>1, HeadTailProperties
<1>5. Tail(resolving[i][t].needs) \in Seq(Wanted)
  BY <1>1, HeadTailProperties
<1>6. PICK next \in Resolving : next.builds = FALSE /\ resolving' = [resolving EXCEPT ![i][t] = next]
  <2>1. [needs |-> Tail(resolving[i][t].needs), builds |-> FALSE] \in Resolving
    BY <1>5 DEF Resolving
  <2>2. resolving' = [resolving EXCEPT ![i][t] = [needs |-> Tail(resolving[i][t].needs), builds |-> FALSE]]
    BY DEF Build, LifeInv, LifeTypeOK
  <2>. QED
    BY <2>1, <2>2
<1>7. resolving' \in [Instances -> [Threads -> Resolving]] /\ \A j \in Instances : ThreadsOrderly(j)'
  BY <1>2, <1>6, ThreadStep DEF Build
<1>8. LockOrderly'
  BY LockFrame DEF Build, purgeVars, LifeInv
<1>9. \A j \in Instances : SweeperOrderly(j)'
  BY SweeperFrame DEF Build, purgeVars, LifeInv
<1>10. registered \in [Instances -> Seq(Nat)] /\ clients \in [Instances -> Seq({"open", "closed", "failed"})]
       /\ Len(clients[i]) \in Nat /\ registered[i] \in Seq(Nat) /\ ClientsOrderly(i)
  BY DEF LifeInv, LifeTypeOK
<1>11. stage' = stage /\ shared' = shared /\ settings' = settings
  BY DEF Build
<1>12. CASE /\ Cached(i, config, Len(clients[i]) + 1)
            /\ registered' = [registered EXCEPT ![i] = Append(@, Len(clients[i]) + 1)]
            /\ clients' = [clients EXCEPT ![i] = Append(@, "open")]
  <2>1. PICK client \in Nat : client = Len(clients[i]) + 1
    BY <1>10
  <2>2. /\ cache' \in [Instances -> Seq(Wanted \X Nat)]
        /\ single' \in [Instances -> SUBSET (Wanted \X Nat)]
        /\ \A j \in Instances \ {i} : cache'[j] = cache[j] /\ single'[j] = single[j]
        /\ \A p \in Providers(i)' : p \in Providers(i) \/ p = <<config, client>>
    BY <1>12, <2>1, CacheGrows
  <2>3. /\ registered' \in [Instances -> Seq(Nat)] /\ registered'[i] = Append(registered[i], client)
        /\ \A j \in Instances \ {i} : registered'[j] = registered[j]
    BY <1>10, <1>12, <2>1
  <2>4. /\ clients' \in [Instances -> Seq({"open", "closed", "failed"})]
        /\ clients'[i] = Append(clients[i], "open")
        /\ \A j \in Instances \ {i} : clients'[j] = clients[j]
    BY <1>10, <1>12
  <2>5. LifeTypeOK'
    BY <1>3, <1>7, <2>2, <2>3, <2>4 DEF Build, purgeVars, LifeInv, LifeTypeOK, Resolving
  <2>6. ClientsOrderly(i)'
    <3>1. Len(clients'[i]) = client /\ \A c \in 1..client : clients'[i][c] = IF c = client THEN "open" ELSE clients[i][c]
      BY <1>10, <2>1, <2>4
    <3>2. /\ Len(registered'[i]) = Len(registered[i]) + 1 /\ Len(registered[i]) \in Nat
          /\ DOMAIN registered[i] = 1..Len(registered[i]) /\ DOMAIN registered'[i] = 1..(Len(registered[i]) + 1)
          /\ \A k \in 1..Len(registered[i]) : registered'[i][k] = registered[i][k]
          /\ registered'[i][Len(registered[i]) + 1] = client
      BY <1>10, <2>1, <2>3
    <3>3. \A p \in Providers(i)' : p[2] <= Len(clients'[i])
      <4>1. \A p \in Providers(i) : p[2] \in Nat /\ p[2] <= Len(clients[i])
        BY <1>10 DEF ClientsOrderly, Providers, ToSet, LifeInv, LifeTypeOK
      <4>2. ASSUME NEW p \in Providers(i)' PROVE p[2] <= client
        <5>1. CASE p \in Providers(i)
          BY <1>10, <2>1, <4>1, <5>1
        <5>2. CASE p = <<config, client>>
          BY <5>2
        <5>. QED
          BY <2>2, <5>1, <5>2
      <4>. QED
        BY <3>1, <4>2
    <3>4. \A k \in DOMAIN registered'[i] : registered'[i][k] \in 1..Len(clients'[i])
      <4>1. \A k \in 1..Len(registered[i]) : registered[i][k] \in 1..Len(clients[i])
        BY <1>10, <3>2 DEF ClientsOrderly
      <4>. QED
        BY <1>10, <2>1, <3>1, <3>2, <4>1
    <3>5. \A c \in 1..Len(clients'[i]) : \E k \in DOMAIN registered'[i] : registered'[i][k] = c
      <4>1. \A c \in 1..Len(clients[i]) : \E k \in 1..Len(registered[i]) : registered[i][k] = c
        BY <1>2, <1>10, <3>2 DEF ClientsOrderly
      <4>2. ASSUME NEW c \in 1..client PROVE \E k \in DOMAIN registered'[i] : registered'[i][k] = c
        <5>1. CASE c = client
          BY <3>2, <5>1
        <5>2. CASE c \in 1..Len(clients[i])
          <6>1. PICK k \in 1..Len(registered[i]) : registered[i][k] = c
            BY <4>1, <5>2
          <6>2. k \in DOMAIN registered'[i] /\ registered'[i][k] = c
            BY <3>2, <6>1
          <6>. QED
            BY <6>2
        <5>. QED
          BY <1>10, <2>1, <5>1, <5>2
      <4>. QED
        BY <3>1, <4>2
    <3>6. \A c \in 1..Len(clients'[i]) : clients'[i][c] = "open"
      <4>1. \A c \in 1..Len(clients[i]) : clients[i][c] = "open"
        BY <1>2, <1>10 DEF ClientsOrderly
      <4>2. \A c \in 1..client : c = client \/ c \in 1..Len(clients[i])
        BY <1>10, <2>1
      <4>. QED
        BY <3>1, <4>1, <4>2
    <3>7. stage'[i] # "down"
      BY <1>2, <1>11 DEF Running
    <3>. QED
      BY <3>3, <3>4, <3>5, <3>6, <3>7 DEF ClientsOrderly
  <2>7. ASSUME NEW j \in Instances \ {i} PROVE ClientsOrderly(j)'
    BY <1>11, <2>2, <2>3, <2>4, ClientsFrame DEF LifeInv
  <2>. QED
    BY <1>7, <1>8, <1>9, <2>5, <2>6, <2>7 DEF LifeInv
<1>13. CASE Cached(i, config, 0) /\ registered' = registered /\ clients' = clients
  <2>1. /\ cache' \in [Instances -> Seq(Wanted \X Nat)]
        /\ single' \in [Instances -> SUBSET (Wanted \X Nat)]
        /\ \A j \in Instances \ {i} : cache'[j] = cache[j] /\ single'[j] = single[j]
        /\ \A p \in Providers(i)' : p \in Providers(i) \/ p = <<config, 0>>
    BY <1>13, CacheGrows
  <2>2. LifeTypeOK'
    BY <1>3, <1>7, <1>13, <2>1 DEF Build, purgeVars, LifeInv, LifeTypeOK, Resolving
  <2>3. ClientsOrderly(i)'
    <3>1. \A p \in Providers(i)' : p[2] <= Len(clients[i])
      BY <1>10, <2>1 DEF ClientsOrderly
    <3>. QED
      BY <1>10, <1>11, <1>13, <3>1 DEF ClientsOrderly, Running
  <2>4. ASSUME NEW j \in Instances \ {i} PROVE ClientsOrderly(j)'
    BY <1>11, <1>13, <2>1, ClientsFrame DEF LifeInv
  <2>. QED
    BY <1>7, <1>8, <1>9, <2>2, <2>3, <2>4 DEF LifeInv
<1>. QED
  BY <1>4, <1>12, <1>13 DEF Build, RegisterCloseable

\* A builder that raises ends the demand.
LEMMA BuildFailsOrderly ==
    ASSUME LifeInv, NEW i \in Instances, NEW t \in Threads, BuildFails(i, t)
    PROVE  LifeInv'
<1>1. Running(i)
  BY WorkersRun DEF BuildFails, NotResolving
<1>2. NotResolving \in Resolving /\ NotResolving.builds = FALSE
  BY DEF NotResolving, Resolving
<1>3. Wanted' = Wanted
  BY WantedStays DEF BuildFails
<1>4. resolving' \in [Instances -> [Threads -> Resolving]] /\ \A j \in Instances : ThreadsOrderly(j)'
  BY <1>1, <1>2, ThreadStep DEF BuildFails
<1>5. LifeTypeOK'
  BY <1>3, <1>4 DEF BuildFails, purgeVars, LifeInv, LifeTypeOK, Resolving
<1>6. LockOrderly' /\ \A j \in Instances : ClientsOrderly(j)' /\ SweeperOrderly(j)'
  BY LockFrame, ClientsFrame, SweeperFrame DEF BuildFails, purgeVars, LifeInv
<1>. QED
  BY <1>4, <1>5, <1>6 DEF LifeInv

\* The loop of a process starts when it serves.
LEMMA ServeOrderly ==
    ASSUME LifeInv, NEW i \in Instances, Serve(i)
    PROVE  LifeInv'
<1>1. Wanted' = Wanted
  BY WantedStays DEF Serve, clientVars
<1>2. LifeTypeOK'
  BY <1>1, LifeAssumption DEF Serve, clientVars, LifeInv, LifeTypeOK, Resolving
<1>3. LockOrderly'
  BY LockFrame DEF Serve, LifeInv
<1>4. ASSUME NEW j \in Instances PROVE ThreadsOrderly(j)' /\ ClientsOrderly(j)' /\ SweeperOrderly(j)'
  <2>1. CASE j # i
    <3>1. stage'[j] = stage[j] /\ sweeper'[j] = sweeper[j]
      BY <2>1 DEF Serve, LifeInv, LifeTypeOK
    <3>. QED
      BY <3>1, ThreadsFrame, ClientsFrame, SweeperFrame DEF Serve, clientVars, LifeInv
  <2>2. CASE j = i
    <3>1. stage'[i] = "serving" /\ stage[i] = "warmUp"
      BY DEF Serve, LifeInv, LifeTypeOK
    <3>2. ThreadsOrderly(i)' /\ SweeperOrderly(i)'
      BY <3>1 DEF Serve, clientVars, LifeInv, ThreadsOrderly, SweeperOrderly, Running
    <3>3. ClientsOrderly(i)'
      BY <3>1 DEF Serve, clientVars, LifeInv, ClientsOrderly, Running, Providers
    <3>. QED
      BY <2>2, <3>2, <3>3
  <2>. QED
    BY <2>1, <2>2
<1>. QED
  BY <1>2, <1>3, <1>4 DEF LifeInv

\* What the loop does when it wakes up, skips a tick or has swept concerns it alone.
LEMMA SweepOrderly ==
    ASSUME LifeInv, NEW i \in Instances, TakeLock(i) \/ SkipTick(i) \/ Swept(i)
    PROVE  LifeInv'
<1>1. UNCHANGED <<stage, shared, settings, resolving, cache, single, registered, clients>>
  BY DEF TakeLock, SkipTick, Swept, clientVars
<1>2. Wanted' = Wanted
  BY <1>1, WantedStays
<1>3. /\ sweeper' \in [Instances -> {"none", "asleep", "sweeping"}] /\ sleep' \in [Instances -> Nat]
      /\ lockedFor' \in Nat /\ sinceLock' \in 0..(2 * Interval)
  <2>1. CASE TakeLock(i)
    BY <2>1, LifeAssumption DEF TakeLock, LockTime, LifeInv, LifeTypeOK
  <2>2. CASE SkipTick(i)
    BY <2>2, LifeAssumption DEF SkipTick, LifeInv, LifeTypeOK
  <2>3. CASE Swept(i)
    BY <2>3, LifeAssumption DEF Swept, LifeInv, LifeTypeOK
  <2>. QED
    BY <2>1, <2>2, <2>3
<1>4. LifeTypeOK'
  BY <1>1, <1>2, <1>3 DEF LifeInv, LifeTypeOK, Resolving
<1>5. LockOrderly'
  <2>1. CASE TakeLock(i)
    BY <2>1, LifeAssumption DEF TakeLock, LockTime, LockOrderly
  <2>2. CASE SkipTick(i) \/ Swept(i)
    BY <1>1, <2>2, LockFrame DEF SkipTick, Swept, LifeInv
  <2>. QED
    BY <2>1, <2>2
<1>6. ASSUME NEW j \in Instances PROVE SweeperOrderly(j)'
  <2>1. sweeper[i] # "none" /\ (j # i => sweeper'[j] = sweeper[j])
    BY DEF TakeLock, SkipTick, Swept, Awake, LifeInv, LifeTypeOK
  <2>. QED
    BY <1>1, <2>1 DEF LifeInv, SweeperOrderly
<1>7. \A j \in Instances : ThreadsOrderly(j)' /\ ClientsOrderly(j)'
  BY <1>1, ThreadsFrame, ClientsFrame DEF LifeInv
<1>. QED
  BY <1>4, <1>5, <1>6, <1>7 DEF LifeInv

\* A second passes for the lock and for its clock.
LEMMA TimeOrderly == ASSUME LifeInv, PassTime PROVE LifeInv'
<1>1. UNCHANGED <<stage, shared, settings, resolving, cache, single, registered, clients, sweeper>>
  BY DEF PassTime, clientVars
<1>2. Wanted' = Wanted
  BY <1>1, WantedStays
<1>3. sleep' \in [Instances -> Nat] /\ lockedFor' \in Nat /\ sinceLock' \in 0..(2 * Interval)
  BY LifeAssumption DEF PassTime, Less, LifeInv, LifeTypeOK
<1>4. LifeTypeOK'
  BY <1>1, <1>2, <1>3 DEF LifeInv, LifeTypeOK, Resolving
<1>5. LockOrderly'
  BY <1>1, LifeAssumption DEF PassTime, Less, LockOrderly, LifeInv, LifeTypeOK
<1>6. \A j \in Instances : ThreadsOrderly(j)' /\ ClientsOrderly(j)' /\ SweeperOrderly(j)'
  BY <1>1, ThreadsFrame, ClientsFrame, SweeperFrame DEF LifeInv
<1>. QED
  BY <1>4, <1>5, <1>6 DEF LifeInv

\* The shutdown begins when no thread works, ends the loop, and ends when nothing is
\* left to close.
LEMMA ShutdownOrderly ==
    ASSUME LifeInv, NEW i \in Instances, Shutdown(i) \/ AwaitSweeper(i) \/ Exit(i)
    PROVE  LifeInv'
<1>1. UNCHANGED <<shared, settings, resolving, cache, single, registered, clients, lockedFor, sinceLock>>
  BY DEF Shutdown, AwaitSweeper, Exit, clientVars, purgeVars
<1>2. Wanted' = Wanted
  BY <1>1, WantedStays
<1>3. /\ stage' \in [Instances -> {"warmUp", "serving", "cancelling", "closing", "down"}]
      /\ sweeper' \in [Instances -> {"none", "asleep", "sweeping"}] /\ sleep' \in [Instances -> Nat]
  <2>1. CASE Shutdown(i)
    BY <2>1 DEF Shutdown, purgeVars, LifeInv, LifeTypeOK
  <2>2. CASE AwaitSweeper(i)
    BY <2>2 DEF AwaitSweeper, LifeInv, LifeTypeOK
  <2>3. CASE Exit(i)
    BY <2>3 DEF Exit, purgeVars, LifeInv, LifeTypeOK
  <2>. QED
    BY <2>1, <2>2, <2>3
<1>4. LifeTypeOK'
  BY <1>1, <1>2, <1>3 DEF LifeInv, LifeTypeOK, Resolving
<1>5. LockOrderly'
  BY <1>1, LockFrame DEF LifeInv
<1>6. ASSUME NEW j \in Instances PROVE ThreadsOrderly(j)' /\ ClientsOrderly(j)' /\ SweeperOrderly(j)'
  <2>1. CASE j # i
    <3>1. stage'[j] = stage[j] /\ sweeper'[j] = sweeper[j]
      BY <2>1 DEF Shutdown, AwaitSweeper, Exit, purgeVars, LifeInv, LifeTypeOK
    <3>. QED
      BY <1>1, <3>1, ThreadsFrame, ClientsFrame, SweeperFrame DEF LifeInv
  <2>2. CASE j = i
    <3>1. stage'[i] \in {"cancelling", "closing", "down"} /\ (stage'[i] = "down" => registered[i] = <<>>)
      BY DEF Shutdown, AwaitSweeper, Exit, LifeInv, LifeTypeOK
    <3>2. AllIdle(i)
      BY DEF Shutdown, AwaitSweeper, Exit, LifeInv, ThreadsOrderly, Running
    <3>3. stage'[i] = "cancelling" \/ sweeper'[i] = "none"
      BY DEF Shutdown, AwaitSweeper, Exit, purgeVars, LifeInv, LifeTypeOK, SweeperOrderly
    <3>4. ThreadsOrderly(i)' /\ SweeperOrderly(i)'
      BY <1>1, <3>2, <3>3 DEF LifeInv, ThreadsOrderly, SweeperOrderly, AllIdle
    <3>5. ClientsOrderly(i)'
      BY <1>1, <3>1 DEF LifeInv, ClientsOrderly, Running, Providers
    <3>. QED
      BY <2>2, <3>4, <3>5
  <2>. QED
    BY <2>1, <2>2
<1>. QED
  BY <1>4, <1>5, <1>6 DEF LifeInv

\* close_all takes the newest registration and its client together.
LEMMA CloseOrderly ==
    ASSUME LifeInv, NEW i \in Instances, NEW result \in {"closed", "failed"}, CloseNext(i, result)
    PROVE  LifeInv'
<1>1. UNCHANGED <<stage, shared, settings, resolving, cache, single, sweeper, sleep, lockedFor, sinceLock>>
      /\ stage[i] = "closing"
  BY DEF CloseNext, purgeVars
<1>2. Wanted' = Wanted
  BY <1>1, WantedStays
<1>3. PICK r \in Seq(Nat) : r = registered[i]
  BY DEF LifeInv, LifeTypeOK
<1>4. PICK s \in Seq({"open", "closed", "failed"}) : s = clients[i]
  BY DEF LifeInv, LifeTypeOK
<1>5. r # <<>> /\ Len(r) \in Nat \ {0} /\ DOMAIN r = 1..Len(r) /\ Len(s) \in Nat /\ DOMAIN s = 1..Len(s)
  BY <1>3, <1>4 DEF CloseNext
<1>6. PICK last \in 1..Len(s) : last = r[Len(r)]
  BY <1>3, <1>4, <1>5 DEF LifeInv, ClientsOrderly
<1>7. PICK front : front = SubSeq(r, 1, Len(r) - 1)
  OBVIOUS
<1>8. front \in Seq(Nat) /\ Len(front) = Len(r) - 1 /\ \A k \in 1..(Len(r) - 1) : front[k] = r[k]
  BY <1>5, <1>7
<1>9. PICK u : u = [s EXCEPT ![last] = result]
  OBVIOUS
<1>10. /\ u \in Seq({"open", "closed", "failed"}) /\ Len(u) = Len(s)
       /\ \A c \in 1..Len(s) : u[c] = IF c = last THEN result ELSE s[c]
  BY <1>5, <1>6, <1>9
<1>11. registered' = [registered EXCEPT ![i] = front] /\ clients' = [clients EXCEPT ![i] = u]
  BY <1>3, <1>4, <1>6, <1>7, <1>9 DEF CloseNext, Front, Last, LifeInv, LifeTypeOK
<1>12. /\ registered' \in [Instances -> Seq(Nat)] /\ registered'[i] = front
       /\ clients' \in [Instances -> Seq({"open", "closed", "failed"})] /\ clients'[i] = u
       /\ \A j \in Instances \ {i} : registered'[j] = registered[j] /\ clients'[j] = clients[j]
  BY <1>8, <1>10, <1>11 DEF LifeInv, LifeTypeOK
<1>13. LifeTypeOK'
  BY <1>1, <1>2, <1>12 DEF LifeInv, LifeTypeOK, Resolving
<1>14. LockOrderly' /\ \A j \in Instances : ThreadsOrderly(j)' /\ SweeperOrderly(j)'
  BY <1>1, LockFrame, ThreadsFrame, SweeperFrame DEF LifeInv
<1>15. ASSUME NEW j \in Instances \ {i} PROVE ClientsOrderly(j)'
  BY <1>1, <1>12, ClientsFrame DEF LifeInv
<1>16. ClientsOrderly(i)'
  <2>1. /\ \A p \in Providers(i) : p[2] <= Len(s)
        /\ \A k \in 1..Len(r) : r[k] \in 1..Len(s)
        /\ \A c \in 1..Len(s) : s[c] = "open" => \E k \in 1..Len(r) : r[k] = c
    BY <1>3, <1>4, <1>5 DEF LifeInv, ClientsOrderly
  <2>2. Providers(i)' = Providers(i)
    BY <1>1 DEF Providers
  <2>3. ASSUME NEW k \in 1..Len(front) PROVE front[k] \in 1..Len(u)
    <3>1. k \in 1..(Len(r) - 1) /\ k \in 1..Len(r)
      BY <1>5, <1>8
    <3>. QED
      BY <1>8, <1>10, <2>1, <3>1
  <2>4. ASSUME NEW c \in 1..Len(u), u[c] = "open" PROVE \E k \in 1..Len(front) : front[k] = c
    <3>1. c \in 1..Len(s) /\ c # last /\ s[c] = "open"
      BY <1>10, <2>4
    <3>2. PICK k \in 1..Len(r) : r[k] = c
      BY <2>1, <3>1
    <3>3. k \in 1..(Len(r) - 1)
      BY <1>5, <1>6, <3>1, <3>2
    <3>. QED
      BY <1>8, <3>2, <3>3
  <2>5. DOMAIN front = 1..Len(front)
    BY <1>8
  <2>6. ~Running(i)' /\ stage'[i] # "down"
    BY <1>1 DEF Running
  <2>. QED
    BY <1>10, <1>12, <2>1, <2>2, <2>3, <2>4, <2>5, <2>6 DEF ClientsOrderly
<1>. QED
  BY <1>13, <1>14, <1>15, <1>16 DEF LifeInv

\* Every step of lifespan, of a thread, of the loop and of the clock keeps the invariant.
LEMMA LifeSteps == ASSUME LifeInv, [LifeNext]_lifeVars PROVE LifeInv'
<1>1. CASE UNCHANGED lifeVars
  <2>1. UNCHANGED <<stage, shared, settings, resolving, cache, single, registered, clients,
                    sweeper, sleep, lockedFor, sinceLock>>
    BY <1>1 DEF lifeVars, clientVars, purgeVars
  <2>2. Wanted' = Wanted
    BY <2>1, WantedStays
  <2>3. LifeTypeOK'
    BY <2>1, <2>2 DEF LifeInv, LifeTypeOK, Resolving
  <2>. QED
    BY <2>1, <2>3, LockFrame, ThreadsFrame, ClientsFrame, SweeperFrame DEF LifeInv
<1>2. CASE PassTime
  BY <1>2, TimeOrderly
<1>3. ASSUME NEW i \in Instances, NEW t \in Threads,
             (\E demand \in WarmUps \cup Demands : Ask(i, t, demand)) \/ LookUp(i, t) \/ Build(i, t) \/ BuildFails(i, t)
      PROVE  LifeInv'
  BY <1>3, AskOrderly, LookUpOrderly, BuildOrderly, BuildFailsOrderly
<1>4. ASSUME NEW i \in Instances, Serve(i) \/ TakeLock(i) \/ SkipTick(i) \/ Swept(i)
      PROVE  LifeInv'
  BY <1>4, ServeOrderly, SweepOrderly
<1>5. ASSUME NEW i \in Instances, Shutdown(i) \/ AwaitSweeper(i) \/ Exit(i)
      PROVE  LifeInv'
  BY <1>5, ShutdownOrderly
<1>6. ASSUME NEW i \in Instances, NEW result \in {"closed", "failed"}, CloseNext(i, result)
      PROVE  LifeInv'
  BY <1>6, CloseOrderly
<1>. QED
  BY <1>1, <1>2, <1>3, <1>4, <1>5, <1>6 DEF LifeNext

\* The invariant says that the processes are orderly.
LEMMA LifeInvOrderly == LifeInv => OrderlyProcesses
<1>. SUFFICES ASSUME LifeInv PROVE OrderlyProcesses
  OBVIOUS
<1>1. ASSUME NEW i \in Instances, stage[i] = "down", NEW k \in 1..Len(clients[i]) PROVE clients[i][k] # "open"
  BY <1>1 DEF LifeInv, ClientsOrderly
<1>2. ASSUME NEW i \in Instances, stage[i] \in {"closing", "down"} PROVE sweeper[i] = "none"
  BY <1>2 DEF LifeInv, SweeperOrderly
<1>3. ASSUME NEW i \in Instances, Running(i), NEW p \in Providers(i), p[2] # 0 PROVE clients[i][p[2]] = "open"
  <2>1. p[2] \in Nat
    BY DEF Providers, ToSet, LifeInv, LifeTypeOK
  <2>2. Len(clients[i]) \in Nat
    BY DEF LifeInv, LifeTypeOK
  <2>3. p[2] \in 1..Len(clients[i])
    BY <1>3, <2>1, <2>2 DEF LifeInv, ClientsOrderly
  <2>. QED
    BY <1>3, <2>3 DEF LifeInv, ClientsOrderly
<1>4. shared => (lockedFor > 0 <=> sinceLock < Interval)
  BY LifeAssumption DEF LifeInv, LifeTypeOK, LockOrderly
<1>. QED
  BY <1>1, <1>2, <1>3, <1>4 DEF OrderlyProcesses

\* The stage of lifespan, what its threads resolve, the provider caches, the clients,
\* the purge loop and its lock stay well typed.
THEOREM LifeTypeCorrect == LifeSpec => []LifeTypeOK
BY LifeStart, LifeSteps, PTL DEF LifeSpec, LifeInv

\* shutdown closes every client the process ever built, evicted and doubly built ones
\* included, and ends the purge first; a cached client is open while the process runs;
\* and the Redis lock lets one of the processes sweep per interval.
THEOREM ProcessesStayOrderly == LifeSpec => []OrderlyProcesses
BY LifeStart, LifeSteps, LifeInvOrderly, PTL DEF LifeSpec
----------------------------------------------------------------------------
(* The connections: their inductive invariant                              *)

Steps == {"use", "commit", "rollback", "release", "open", "close", "await", "upload", "send",
          "read", "try", "tryStream", "lock", "unlock"}

\* Where nothing may be held, and what gives the connection of the request back.
Waits == {"await", "send", "open"}
GiveUps == {"commit", "rollback", "release"}

Recoveries == {<<>>, WriteUnit \o WriteUnit, FreshUnit \o FreshUnit, <<"unlock">>}

PoolTypeOK ==
    /\ todo \in [Calls -> Seq(Steps)]
    /\ recovery \in [Calls -> Recoveries]
    /\ held \in [Calls -> SUBSET {"request", "fresh"}]
    /\ expired \in [Calls -> BOOLEAN]
    /\ generator \in Calls \cup {NoCall}

\* In the steps t a connection that is checked out is given back before the next
\* wait, nothing is read behind a rollback, and a stream begins with a release and
\* uses the session of the request no more.
Planned(t) == \A i \in 1..Len(t) :
    /\ t[i] \in Waits => \A j \in 1..(i - 1) :
         /\ t[j] = "use" => \E m \in (j + 1)..(i - 1) : t[m] \in GiveUps
         /\ t[j] = "open" => \E m \in (j + 1)..(i - 1) : t[m] = "close"
    /\ t[i] = "read" => \A j \in 1..(i - 1) : t[j] # "rollback"
    /\ t[i] = "tryStream" => /\ i < Len(t) /\ t[i + 1] = "release"
                             /\ \A j \in (i + 1)..Len(t) : t[j] # "use"

\* With the sessions h holding connections the steps t give them back before a wait.
GivesBack(t, h) == \A i \in 1..Len(t) : t[i] \in Waits =>
    /\ "request" \in h => \E m \in 1..(i - 1) : t[m] \in GiveUps
    /\ "fresh" \in h => \E m \in 1..(i - 1) : t[m] = "close"

\* For a request with the steps t to do, the sessions h holding connections, x whether
\* its objects have expired and the steps r after a failure: what is left is planned,
\* gives back what is held and reads nothing that expired; and once a failure leads to
\* fresh sessions, the request's own holds nothing or is about to be released.
Orderly(t, h, x, r) ==
    /\ Planned(t) /\ GivesBack(t, h)
    /\ x => \A i \in 1..Len(t) : t[i] # "read"
    /\ r = FreshUnit \o FreshUnit =>
         /\ \A i \in 1..Len(t) : t[i] # "use"
         /\ "request" \in h => Len(t) > 0 /\ t[1] = "release"

PoolInv == /\ PoolTypeOK
           /\ \A c \in Calls : Orderly(todo[c], held[c], expired[c], recovery[c])
           /\ IsFiniteSet(Connections) /\ InUse <= PoolSize

\* Every route is planned.
LEMMA RoutesPlanned == ASSUME NEW r \in Routes PROVE r \in Seq(Steps) /\ Planned(r)
<1>. USE DEF Authenticate, WriteUnit, FreshUnit, Steps, Planned, Waits, GiveUps
<1>1. TranscribeRoute \in Seq(Steps) /\ Planned(TranscribeRoute)
  BY DEF TranscribeRoute
<1>2. Synthesize \in Seq(Steps) /\ Planned(Synthesize)
  BY DEF Synthesize
<1>3. GeneratePhrase \in Seq(Steps) /\ Planned(GeneratePhrase)
  BY DEF GeneratePhrase
<1>4. CoachAttempt \in Seq(Steps) /\ Planned(CoachAttempt)
  BY DEF CoachAttempt
<1>5. ScoreShadowing \in Seq(Steps) /\ Planned(ScoreShadowing)
  BY DEF ScoreShadowing
<1>6. ScorePair \in Seq(Steps) /\ Planned(ScorePair)
  BY DEF ScorePair
<1>7. CreateMission \in Seq(Steps) /\ Planned(CreateMission)
  BY DEF CreateMission
<1>8. Place \in Seq(Steps) /\ Planned(Place)
  BY DEF Place
<1>9. PlaceUnspoken \in Seq(Steps) /\ Planned(PlaceUnspoken)
  BY DEF PlaceUnspoken
<1>10. Generate \in Seq(Steps) /\ Planned(Generate)
  BY DEF Generate
<1>11. GenerateEmpty \in Seq(Steps) /\ Planned(GenerateEmpty)
  BY DEF GenerateEmpty
<1>12. GenerateAgain \in Seq(Steps) /\ Planned(GenerateAgain)
  BY DEF GenerateAgain
<1>13. TakeTurn \in Seq(Steps) /\ Planned(TakeTurn)
  BY DEF TakeTurn
<1>14. StreamTurn \in Seq(Steps) /\ Planned(StreamTurn)
  BY DEF StreamTurn
<1>15. Export \in Seq(Steps) /\ Planned(Export)
  BY DEF Export
<1>. HIDE DEF Authenticate, WriteUnit, FreshUnit, Steps, Planned, Waits, GiveUps
<1>. QED
  BY <1>1, <1>2, <1>3, <1>4, <1>5, <1>6, <1>7, <1>8, <1>9, <1>10, <1>11, <1>12, <1>13, <1>14, <1>15
     DEF Routes

\* So is what an exception leaves to do; it reads nothing, and of the steps after a
\* failure only the fresh units wait, holding nothing.
LEMMA RecoveriesPlanned ==
    ASSUME NEW r \in Recoveries
    PROVE  /\ r \in Seq(Steps) /\ Planned(r) /\ \A i \in 1..Len(r) : r[i] # "read"
           /\ r # FreshUnit \o FreshUnit => \A i \in 1..Len(r) : r[i] \notin Waits
           /\ r = FreshUnit \o FreshUnit => \A i \in 1..Len(r) : r[i] # "use"
<1>. USE DEF WriteUnit, FreshUnit, Steps, Planned, Waits, GiveUps
<1>1. CASE r = <<>>
  BY <1>1
<1>2. CASE r = WriteUnit \o WriteUnit
  BY <1>2
<1>3. CASE r = FreshUnit \o FreshUnit
  BY <1>3
<1>4. CASE r = <<"unlock">>
  BY <1>4
<1>. HIDE DEF WriteUnit, FreshUnit, Steps, Planned, Waits, GiveUps
<1>. QED
  BY <1>1, <1>2, <1>3, <1>4 DEF Recoveries

\* The fresh units begin with a wait, what is left after the other failures does not.
LEMMA RecoveriesDiffer ==
    /\ <<>> # FreshUnit \o FreshUnit /\ <<"unlock">> # FreshUnit \o FreshUnit
    /\ WriteUnit \o WriteUnit # FreshUnit \o FreshUnit
<1>1. (FreshUnit \o FreshUnit)[1] = "open" /\ Len(FreshUnit \o FreshUnit) = 4
  BY DEF FreshUnit
<1>2. (WriteUnit \o WriteUnit)[1] = "use"
  BY DEF WriteUnit
<1>. QED
  BY <1>1, <1>2

\* The steps after the first.
LEMMA TailSteps ==
    ASSUME NEW t \in Seq(Steps), t # <<>>
    PROVE  /\ Len(t) \in Nat /\ Len(t) > 0 /\ Head(t) = t[1]
           /\ Tail(t) \in Seq(Steps) /\ Len(Tail(t)) = Len(t) - 1
           /\ \A i \in 1..Len(Tail(t)) : Tail(t)[i] = t[i + 1] /\ i + 1 \in 1..Len(t)
BY HeadTailProperties

\* A plan without its first step is one.
LEMMA TailPlanned ==
    ASSUME NEW t \in Seq(Steps), t # <<>>, Planned(t)
    PROVE  Planned(Tail(t))
<1>. DEFINE u == Tail(t)
<1>1. /\ Len(t) \in Nat /\ Len(t) > 0 /\ Len(u) = Len(t) - 1
      /\ \A i \in 1..Len(u) : u[i] = t[i + 1] /\ i + 1 \in 1..Len(t)
  BY TailSteps
<1>. HIDE DEF u
<1>. SUFFICES ASSUME NEW i \in 1..Len(u)
              PROVE  /\ u[i] \in Waits => \A j \in 1..(i - 1) :
                          /\ u[j] = "use" => \E m \in (j + 1)..(i - 1) : u[m] \in GiveUps
                          /\ u[j] = "open" => \E m \in (j + 1)..(i - 1) : u[m] = "close"
                     /\ u[i] = "read" => \A j \in 1..(i - 1) : u[j] # "rollback"
                     /\ u[i] = "tryStream" => /\ i < Len(u) /\ u[i + 1] = "release"
                                              /\ \A j \in (i + 1)..Len(u) : u[j] # "use"
  BY DEF Planned, u
<1>2. i + 1 \in 1..Len(t) /\ u[i] = t[i + 1] /\ i \in Nat
  BY <1>1
<1>3. ASSUME u[i] \in Waits, NEW j \in 1..(i - 1), u[j] = "use"
      PROVE  \E m \in (j + 1)..(i - 1) : u[m] \in GiveUps
  <2>1. j + 1 \in 1..((i + 1) - 1) /\ t[j + 1] = "use" /\ j \in Nat
    BY <1>1, <1>2, <1>3
  <2>2. PICK m \in ((j + 1) + 1)..((i + 1) - 1) : t[m] \in GiveUps
    BY <1>2, <1>3, <2>1 DEF Planned
  <2>3. m - 1 \in (j + 1)..(i - 1) /\ m - 1 \in 1..Len(u) /\ u[m - 1] = t[m]
    BY <1>1, <1>2, <2>1, <2>2
  <2>. QED
    BY <2>2, <2>3
<1>4. ASSUME u[i] \in Waits, NEW j \in 1..(i - 1), u[j] = "open"
      PROVE  \E m \in (j + 1)..(i - 1) : u[m] = "close"
  <2>1. j + 1 \in 1..((i + 1) - 1) /\ t[j + 1] = "open" /\ j \in Nat
    BY <1>1, <1>2, <1>4
  <2>2. PICK m \in ((j + 1) + 1)..((i + 1) - 1) : t[m] = "close"
    BY <1>2, <1>4, <2>1 DEF Planned
  <2>3. m - 1 \in (j + 1)..(i - 1) /\ m - 1 \in 1..Len(u) /\ u[m - 1] = t[m]
    BY <1>1, <1>2, <2>1, <2>2
  <2>. QED
    BY <2>2, <2>3
<1>5. ASSUME u[i] = "read", NEW j \in 1..(i - 1) PROVE u[j] # "rollback"
  <2>1. j + 1 \in 1..((i + 1) - 1) /\ u[j] = t[j + 1]
    BY <1>1, <1>2
  <2>. QED
    BY <1>2, <1>5, <2>1 DEF Planned
<1>6. ASSUME u[i] = "tryStream"
      PROVE  i < Len(u) /\ u[i + 1] = "release" /\ \A j \in (i + 1)..Len(u) : u[j] # "use"
  <2>1. /\ i + 1 < Len(t) /\ t[(i + 1) + 1] = "release"
        /\ \A j \in ((i + 1) + 1)..Len(t) : t[j] # "use"
    BY <1>2, <1>6 DEF Planned
  <2>2. i < Len(u) /\ i + 1 \in 1..Len(u)
    BY <1>1, <1>2, <2>1
  <2>3. ASSUME NEW j \in (i + 1)..Len(u) PROVE u[j] # "use"
    <3>1. j \in 1..Len(u) /\ j + 1 \in ((i + 1) + 1)..Len(t)
      BY <1>1, <1>2
    <3>. QED
      BY <1>1, <2>1, <3>1
  <2>. QED
    BY <1>1, <2>1, <2>2, <2>3
<1>. QED
  BY <1>3, <1>4, <1>5, <1>6

\* After the first of the steps t a request that held h holds k, which is what it held
\* and the step did not give back, or what the step checked out; its objects expire by
\* a rollback only, and the beginning of a stream only sends it to fresh sessions.
Follows(t, h, x, r, k, y, q) ==
    /\ "request" \in k => ("request" \in h /\ t[1] \notin GiveUps) \/ t[1] = "use"
    /\ "fresh" \in k => ("fresh" \in h /\ t[1] # "close") \/ t[1] = "open"
    /\ y => x \/ t[1] = "rollback"
    /\ q = FreshUnit \o FreshUnit => r = q \/ t[1] = "tryStream"

\* Such a step leaves a request orderly.
LEMMA StepOrderly ==
    ASSUME NEW t \in Seq(Steps), t # <<>>, NEW h, NEW x \in BOOLEAN, NEW r, Orderly(t, h, x, r),
           NEW k, NEW y \in BOOLEAN, NEW q,
           Follows(t, h, x, r, k, y, q)
    PROVE  Orderly(Tail(t), k, y, q)
<1>. DEFINE u == Tail(t)
<1>1. /\ Len(t) \in Nat /\ Len(t) > 0 /\ Len(u) = Len(t) - 1
      /\ \A i \in 1..Len(u) : u[i] = t[i + 1] /\ i + 1 \in 1..Len(t)
  BY TailSteps
<1>2. Planned(t) /\ GivesBack(t, h)
  BY DEF Orderly
<1>3. Planned(u)
  BY <1>2, TailPlanned
<1>. HIDE DEF u
<1>4. GivesBack(u, k)
  <2>. SUFFICES ASSUME NEW i \in 1..Len(u), u[i] \in Waits
                PROVE  /\ "request" \in k => \E m \in 1..(i - 1) : u[m] \in GiveUps
                       /\ "fresh" \in k => \E m \in 1..(i - 1) : u[m] = "close"
    BY DEF GivesBack
  <2>1. i + 1 \in 1..Len(t) /\ t[i + 1] \in Waits /\ i \in Nat /\ 1 \in 1..((i + 1) - 1)
    BY <1>1
  <2>2. ASSUME NEW m \in 1..((i + 1) - 1), m # 1 PROVE m - 1 \in 1..(i - 1) /\ u[m - 1] = t[m]
    BY <1>1, <2>1, <2>2
  <2>3. ASSUME "request" \in k PROVE \E m \in 1..(i - 1) : u[m] \in GiveUps
    <3>1. CASE "request" \in h /\ t[1] \notin GiveUps
      <4>1. PICK m \in 1..((i + 1) - 1) : t[m] \in GiveUps
        BY <1>2, <2>1, <3>1 DEF GivesBack
      <4>. QED
        BY <2>2, <3>1, <4>1
    <3>2. CASE t[1] = "use"
      <4>1. PICK m \in (1 + 1)..((i + 1) - 1) : t[m] \in GiveUps
        BY <1>2, <2>1, <3>2 DEF Planned
      <4>2. m \in 1..((i + 1) - 1) /\ m # 1
        BY <2>1, <4>1
      <4>. QED
        BY <2>2, <4>1, <4>2
    <3>. QED
      BY <2>3, <3>1, <3>2 DEF Follows
  <2>4. ASSUME "fresh" \in k PROVE \E m \in 1..(i - 1) : u[m] = "close"
    <3>1. CASE "fresh" \in h /\ t[1] # "close"
      <4>1. PICK m \in 1..((i + 1) - 1) : t[m] = "close"
        BY <1>2, <2>1, <3>1 DEF GivesBack
      <4>. QED
        BY <2>2, <3>1, <4>1
    <3>2. CASE t[1] = "open"
      <4>1. PICK m \in (1 + 1)..((i + 1) - 1) : t[m] = "close"
        BY <1>2, <2>1, <3>2 DEF Planned
      <4>2. m \in 1..((i + 1) - 1) /\ m # 1
        BY <2>1, <4>1
      <4>. QED
        BY <2>2, <4>1, <4>2
    <3>. QED
      BY <2>4, <3>1, <3>2 DEF Follows
  <2>. QED
    BY <2>3, <2>4
<1>5. ASSUME y, NEW i \in 1..Len(u) PROVE u[i] # "read"
  <2>1. i + 1 \in 1..Len(t) /\ u[i] = t[i + 1] /\ 1 \in 1..((i + 1) - 1)
    BY <1>1
  <2>2. CASE x
    BY <2>1, <2>2 DEF Orderly
  <2>3. CASE t[1] = "rollback"
    BY <1>2, <2>1, <2>3 DEF Planned
  <2>. QED
    BY <1>5, <2>2, <2>3 DEF Follows
<1>6. ASSUME q = FreshUnit \o FreshUnit
      PROVE  /\ \A i \in 1..Len(u) : u[i] # "use"
             /\ "request" \in k => Len(u) > 0 /\ u[1] = "release"
  <2>0. 1 \in 1..Len(t)
    BY <1>1
  <2>1. CASE r = q
    <3>1. /\ \A i \in 1..Len(t) : t[i] # "use"
          /\ "request" \in h => t[1] = "release"
      BY <1>6, <2>1 DEF Orderly
    <3>. QED
      BY <1>1, <2>0, <3>1 DEF GiveUps, Follows
  <2>2. CASE t[1] = "tryStream"
    <3>1. 1 < Len(t) /\ t[1 + 1] = "release" /\ \A j \in (1 + 1)..Len(t) : t[j] # "use"
      BY <1>2, <2>0, <2>2 DEF Planned
    <3>2. Len(u) > 0 /\ u[1] = "release"
      BY <1>1, <3>1
    <3>3. ASSUME NEW i \in 1..Len(u) PROVE u[i] # "use"
      <4>1. i + 1 \in (1 + 1)..Len(t) /\ u[i] = t[i + 1]
        BY <1>1
      <4>. QED
        BY <3>1, <4>1
    <3>. QED
      BY <3>2, <3>3
  <2>. QED
    BY <1>6, <2>1, <2>2 DEF Follows
<1>. QED
  BY <1>3, <1>4, <1>5, <1>6 DEF Orderly, u
\* The connections after a step of c: none is checked out, or one where the pool has one.
LEMMA PoolBounded ==
    ASSUME PoolInv, PoolTypeOK', NEW c \in Calls, \A d \in Calls \ {c} : held'[d] = held[d],
           \/ held'[c] \subseteq held[c]
           \/ \E session \in {"request", "fresh"} : InUse < PoolSize /\ held'[c] = held[c] \cup {session}
    PROVE  IsFiniteSet(Connections') /\ InUse' <= PoolSize
<1>1. IsFiniteSet(Connections) /\ Cardinality(Connections) \in Nat /\ Cardinality(Connections) <= PoolSize
  BY FS_CardinalityType DEF PoolInv, InUse
<1>2. PoolSize \in Nat
  BY PoolAssumption
<1>3. CASE held'[c] \subseteq held[c]
  <2>1. Connections' \subseteq Connections
    <3>1. \A d \in Calls : held'[d] \subseteq held[d]
      BY <1>3
    <3>. QED
      BY <3>1 DEF Connections
  <2>2. IsFiniteSet(Connections') /\ Cardinality(Connections') <= Cardinality(Connections)
    BY <1>1, <2>1, FS_Subset
  <2>3. Cardinality(Connections') \in Nat
    BY <2>2, FS_CardinalityType
  <2>. QED
    BY <1>1, <1>2, <2>2, <2>3 DEF InUse
<1>4. ASSUME NEW session \in {"request", "fresh"}, InUse < PoolSize, held'[c] = held[c] \cup {session}
      PROVE  IsFiniteSet(Connections') /\ InUse' <= PoolSize
  <2>1. Connections' = Connections \cup {<<c, session>>}
    <3>1. ASSUME NEW d \in Calls, NEW s \in {"request", "fresh"}
          PROVE  s \in held'[d] <=> s \in held[d] \/ (d = c /\ s = session)
      BY <1>4
    <3>2. \A d \in Calls, s \in {"request", "fresh"} :
             /\ <<d, s>> \in Connections <=> s \in held[d]
             /\ <<d, s>> \in Connections' <=> s \in held'[d]
      BY DEF Connections
    <3>3. /\ Connections \subseteq Calls \X {"request", "fresh"}
          /\ Connections' \subseteq Calls \X {"request", "fresh"}
          /\ <<c, session>> \in Calls \X {"request", "fresh"}
      BY DEF Connections
    <3>4. ASSUME NEW z \in Calls \X {"request", "fresh"}
          PROVE  z \in Connections' <=> z \in Connections \cup {<<c, session>>}
      <4>1. PICK d \in Calls, s \in {"request", "fresh"} : z = <<d, s>>
        OBVIOUS
      <4>. QED
        BY <3>1, <3>2, <4>1
    <3>. QED
      BY <3>3, <3>4
  <2>2. /\ IsFiniteSet(Connections')
        /\ Cardinality(Connections') \in {Cardinality(Connections), Cardinality(Connections) + 1}
    BY <1>1, <2>1, FS_AddElement
  <2>. QED
    BY <1>1, <1>2, <1>4, <2>2 DEF InUse
<1>. QED
  BY <1>3, <1>4

\* A step of the request c that leaves it orderly and the others alone.
LEMMA PoolStepOf ==
    ASSUME PoolInv, PoolTypeOK', NEW c \in Calls,
           \A d \in Calls \ {c} : /\ todo'[d] = todo[d] /\ recovery'[d] = recovery[d]
                                  /\ held'[d] = held[d] /\ expired'[d] = expired[d],
           Orderly(todo'[c], held'[c], expired'[c], recovery'[c]),
           \/ held'[c] \subseteq held[c]
           \/ \E session \in {"request", "fresh"} : InUse < PoolSize /\ held'[c] = held[c] \cup {session}
    PROVE  PoolInv'
<1>1. IsFiniteSet(Connections') /\ InUse' <= PoolSize
  BY PoolBounded
<1>2. \A d \in Calls : Orderly(todo'[d], held'[d], expired'[d], recovery'[d])
  BY DEF PoolInv
<1>. QED
  BY <1>1, <1>2 DEF PoolInv

\* Every step keeps the plan.
LEMMA PoolStep == PoolInv /\ [PoolNext]_poolVars => PoolInv'
<1>. SUFFICES ASSUME PoolInv, [PoolNext]_poolVars PROVE PoolInv'
  OBVIOUS
<1>0. PoolTypeOK
  BY DEF PoolInv
<1>1. CASE UNCHANGED poolVars
  BY <1>1 DEF poolVars, PoolInv, PoolTypeOK, Connections, InUse
<1>2. ASSUME NEW c \in Calls, PoolNext,
             \/ Use(c) \/ Open(c) \/ Commit(c) \/ Close(c) \/ Rollback(c) \/ Release(c)
             \/ Elsewhere(c) \/ Try(c) \/ Lock(c) \/ Unlock(c)
      PROVE  PoolInv'
  <2>. DEFINE t == todo[c]
  <2>1. /\ t \in Seq(Steps) /\ recovery[c] \in Recoveries
        /\ held[c] \in SUBSET {"request", "fresh"} /\ expired[c] \in BOOLEAN
    BY <1>0 DEF PoolTypeOK
  <2>2. t # <<>> /\ todo' = [todo EXCEPT ![c] = Tail(@)]
    BY <1>2 DEF Use, Open, Commit, Close, Rollback, Release, Elsewhere, Try, Lock, Unlock, At, Advance
  <2>3. Head(t) = t[1] /\ Tail(t) \in Seq(Steps)
    BY <2>1, <2>2, TailSteps
  <2>4. todo' \in [Calls -> Seq(Steps)] /\ todo'[c] = Tail(t) /\ \A d \in Calls \ {c} : todo'[d] = todo[d]
    BY <1>0, <2>2, <2>3 DEF PoolTypeOK
  <2>5. Orderly(t, held[c], expired[c], recovery[c])
    BY DEF PoolInv
  <2>. HIDE DEF t
  \* It remains to say what happens to the rest of c.
  <2>a. ASSUME NEW k \in SUBSET {"request", "fresh"}, NEW y \in BOOLEAN, NEW q \in Recoveries,
               held' = [held EXCEPT ![c] = k], expired' = [expired EXCEPT ![c] = y],
               recovery' = [recovery EXCEPT ![c] = q], generator' \in Calls \cup {NoCall},
               Follows(t, held[c], expired[c], recovery[c], k, y, q),
               \/ k \subseteq held[c]
               \/ \E session \in {"request", "fresh"} : InUse < PoolSize /\ k = held[c] \cup {session}
        PROVE  PoolInv'
    <3>1. PoolTypeOK'
      BY <1>0, <2>4, <2>a DEF PoolTypeOK
    <3>2. held'[c] = k /\ expired'[c] = y /\ recovery'[c] = q
      BY <1>0, <2>a DEF PoolTypeOK
    <3>3. Orderly(Tail(t), k, y, q)
      BY <2>1, <2>2, <2>5, <2>a, StepOrderly
    <3>4. \A d \in Calls \ {c} : recovery'[d] = recovery[d] /\ held'[d] = held[d] /\ expired'[d] = expired[d]
      BY <1>0, <2>a DEF PoolTypeOK
    <3>5. Orderly(todo'[c], held'[c], expired'[c], recovery'[c])
      BY <2>4, <3>2, <3>3
    <3>6. \/ held'[c] \subseteq held[c]
          \/ \E session \in {"request", "fresh"} : InUse < PoolSize /\ held'[c] = held[c] \cup {session}
      BY <2>a, <3>2
    <3>. QED
      BY <2>4, <3>1, <3>4, <3>5, <3>6, PoolStepOf
  \* What a step leaves alone is what it was.
  <2>k. /\ held = [held EXCEPT ![c] = held[c]] /\ expired = [expired EXCEPT ![c] = expired[c]]
        /\ recovery = [recovery EXCEPT ![c] = recovery[c]] /\ generator \in Calls \cup {NoCall}
    BY <1>0 DEF PoolTypeOK
  <2>6. ASSUME Use(c) \/ Open(c) PROVE PoolInv'
    <3>1. PICK session \in {"request", "fresh"} :
            /\ Checkout(c, session)
            /\ session = "request" => t[1] = "use"
            /\ session = "fresh" => t[1] = "open"
      BY <2>3, <2>6 DEF Use, Open, At, t
    <3>2. recovery' = recovery /\ expired' = expired /\ generator' = generator
      BY <2>6 DEF Use, Open
    <3>3. held' = [held EXCEPT ![c] = held[c] \cup {session}] /\ (session \in held[c] \/ InUse < PoolSize)
      BY <3>1 DEF Checkout
    <3>4. t[1] \notin GiveUps /\ t[1] # "close"
      BY <3>1 DEF GiveUps
    <3>5. held[c] \cup {session} \in SUBSET {"request", "fresh"}
      BY <2>1
    <3>6. \/ held[c] \cup {session} \subseteq held[c]
          \/ \E e \in {"request", "fresh"} : InUse < PoolSize /\ held[c] \cup {session} = held[c] \cup {e}
      BY <3>3
    <3>7. Follows(t, held[c], expired[c], recovery[c], held[c] \cup {session}, expired[c], recovery[c])
      BY <3>1, <3>4 DEF Follows
    <3>. QED
      BY <2>1, <2>a, <2>k, <3>2, <3>3, <3>5, <3>6, <3>7
  <2>7. ASSUME Commit(c) \/ Release(c) PROVE PoolInv'
    <3>0. PICK k : k = held[c] \ {"request"}
      OBVIOUS
    <3>1. /\ t[1] \in {"commit", "release"} /\ held' = [held EXCEPT ![c] = k]
          /\ recovery' = recovery /\ expired' = expired /\ generator' = generator
      BY <2>3, <3>0, <2>7 DEF Commit, Release, At, t
    <3>2. Follows(t, held[c], expired[c], recovery[c], k, expired[c], recovery[c])
      BY <3>0, <3>1 DEF Follows, GiveUps
    <3>3. k \in SUBSET {"request", "fresh"} /\ k \subseteq held[c]
      BY <2>1, <3>0
    <3>4. expired' = [expired EXCEPT ![c] = expired[c]] /\ recovery' = [recovery EXCEPT ![c] = recovery[c]]
          /\ generator' \in Calls \cup {NoCall}
      BY <2>k, <3>1
    <3>. QED
      BY <2>1, <2>a, <3>1, <3>2, <3>3, <3>4
  <2>8. ASSUME Close(c) PROVE PoolInv'
    <3>0. PICK k : k = held[c] \ {"fresh"}
      OBVIOUS
    <3>1. /\ t[1] = "close" /\ held' = [held EXCEPT ![c] = k]
          /\ recovery' = recovery /\ expired' = expired /\ generator' = generator
      BY <2>3, <3>0, <2>8 DEF Close, At, t
    <3>2. Follows(t, held[c], expired[c], recovery[c], k, expired[c], recovery[c])
      BY <3>0, <3>1 DEF Follows, GiveUps
    <3>3. k \in SUBSET {"request", "fresh"} /\ k \subseteq held[c]
      BY <2>1, <3>0
    <3>4. expired' = [expired EXCEPT ![c] = expired[c]] /\ recovery' = [recovery EXCEPT ![c] = recovery[c]]
          /\ generator' \in Calls \cup {NoCall}
      BY <2>k, <3>1
    <3>. QED
      BY <2>1, <2>a, <3>1, <3>2, <3>3, <3>4
  <2>9. ASSUME Rollback(c) PROVE PoolInv'
    <3>1. /\ t[1] = "rollback" /\ held' = [held EXCEPT ![c] = held[c] \ {"request"}]
          /\ expired' = [expired EXCEPT ![c] = TRUE]
          /\ recovery' = recovery /\ generator' = generator
      BY <2>3, <2>9 DEF Rollback, At, t
    <3>2. Follows(t, held[c], expired[c], recovery[c], held[c] \ {"request"}, TRUE, recovery[c])
      BY <3>1 DEF Follows, GiveUps
    <3>3. held[c] \ {"request"} \in SUBSET {"request", "fresh"} /\ held[c] \ {"request"} \subseteq held[c]
      BY <2>1
    <3>4. expired' = [expired EXCEPT ![c] = TRUE] /\ recovery' = [recovery EXCEPT ![c] = recovery[c]]
          /\ generator' \in Calls \cup {NoCall}
      BY <2>k, <3>1
    <3>. QED
      BY <2>1, <2>a, <3>1, <3>2, <3>3, <3>4
  <2>10. ASSUME Elsewhere(c) PROVE PoolInv'
    <3>1. /\ t[1] \in {"await", "upload", "send", "read"} /\ held' = held
          /\ recovery' = recovery /\ expired' = expired /\ generator' = generator
      BY <2>3, <2>10 DEF Elsewhere, At, t
    <3>2. Follows(t, held[c], expired[c], recovery[c], held[c], expired[c], recovery[c])
      BY <3>1 DEF Follows, GiveUps
    <3>. QED
      BY <2>1, <2>a, <2>k, <3>1, <3>2
  <2>11. ASSUME Try(c) PROVE PoolInv'
    <3>1. /\ t[1] \in {"try", "tryStream"} /\ held' = held
          /\ recovery' = [recovery EXCEPT ![c] = AfterError(t[1])]
          /\ expired' = expired /\ generator' = generator
      BY <2>3, <2>11 DEF Try, At, t
    <3>2. /\ AfterError(t[1]) \in Recoveries
          /\ AfterError(t[1]) = FreshUnit \o FreshUnit => t[1] = "tryStream"
      BY <3>1, RecoveriesDiffer DEF AfterError, Recoveries
    <3>3. Follows(t, held[c], expired[c], recovery[c], held[c], expired[c], AfterError(t[1]))
      BY <3>1, <3>2 DEF Follows, GiveUps
    <3>. QED
      BY <2>1, <2>a, <2>k, <3>1, <3>2, <3>3
  <2>12. ASSUME Lock(c) PROVE PoolInv'
    <3>1. /\ t[1] = "lock" /\ held' = held /\ generator' = c
          /\ recovery' = [recovery EXCEPT ![c] = AfterError("lock")] /\ expired' = expired
      BY <2>3, <2>12 DEF Lock, At, t
    <3>2. AfterError("lock") \in Recoveries /\ AfterError("lock") # FreshUnit \o FreshUnit
      BY RecoveriesDiffer DEF AfterError, Recoveries
    <3>3. Follows(t, held[c], expired[c], recovery[c], held[c], expired[c], AfterError("lock"))
      BY <3>1, <3>2 DEF Follows, GiveUps
    <3>. QED
      BY <2>1, <2>a, <2>k, <3>1, <3>2, <3>3
  <2>13. ASSUME Unlock(c) PROVE PoolInv'
    <3>1. /\ t[1] = "unlock" /\ held' = held /\ generator' = NoCall
          /\ recovery' = [recovery EXCEPT ![c] = <<>>] /\ expired' = expired
      BY <2>3, <2>13 DEF Unlock, At, t
    <3>2. <<>> \in Recoveries /\ <<>> # FreshUnit \o FreshUnit
      BY RecoveriesDiffer DEF Recoveries
    <3>3. Follows(t, held[c], expired[c], recovery[c], held[c], expired[c], <<>>)
      BY <3>1, <3>2 DEF Follows, GiveUps
    <3>. QED
      BY <2>1, <2>a, <2>k, <3>1, <3>2, <3>3
  <2>. QED
    BY <1>2, <2>6, <2>7, <2>8, <2>9, <2>10, <2>11, <2>12, <2>13
<1>3. ASSUME NEW c \in Calls, Raise(c) PROVE PoolInv'
  <2>1. /\ todo[c] \in Seq(Steps) /\ recovery[c] \in Recoveries
        /\ held[c] \in SUBSET {"request", "fresh"} /\ expired[c] \in BOOLEAN
        /\ Orderly(todo[c], held[c], expired[c], recovery[c])
    BY <1>0 DEF PoolTypeOK, PoolInv
  <2>2. /\ todo' = [todo EXCEPT ![c] = recovery[c]]
        /\ recovery'[c] \in {recovery[c], <<>>}
        /\ held' = [held EXCEPT ![c] = held[c] \ Lost(c)]
        /\ UNCHANGED <<expired, generator>>
    BY <1>0, <1>3 DEF Raise, PoolTypeOK
  <2>3. /\ recovery[c] \in Seq(Steps) /\ Planned(recovery[c])
        /\ \A i \in 1..Len(recovery[c]) : recovery[c][i] # "read"
        /\ recovery[c] # FreshUnit \o FreshUnit => \A i \in 1..Len(recovery[c]) : recovery[c][i] \notin Waits
        /\ recovery[c] = FreshUnit \o FreshUnit => \A i \in 1..Len(recovery[c]) : recovery[c][i] # "use"
    BY <2>1, RecoveriesPlanned
  <2>4. <<>> \in Recoveries /\ <<>> # FreshUnit \o FreshUnit
    BY RecoveriesDiffer DEF Recoveries
  <2>5. /\ todo'[c] = recovery[c] /\ held'[c] = held[c] \ Lost(c) /\ expired'[c] = expired[c]
        /\ \A d \in Calls \ {c} : /\ todo'[d] = todo[d] /\ recovery'[d] = recovery[d]
                                  /\ held'[d] = held[d] /\ expired'[d] = expired[d]
    BY <1>0, <1>3, <2>2 DEF PoolTypeOK, Raise
  <2>6. PoolTypeOK'
    <3>1. recovery' \in [Calls -> Recoveries]
      BY <1>0, <1>3, <2>4 DEF PoolTypeOK, Raise
    <3>2. todo' \in [Calls -> Seq(Steps)] /\ held' \in [Calls -> SUBSET {"request", "fresh"}]
      BY <1>0, <2>2, <2>3 DEF PoolTypeOK
    <3>. QED
      BY <1>0, <2>2, <3>1, <3>2 DEF PoolTypeOK
  <2>7. "fresh" \notin held'[c]
    BY <2>5 DEF Lost
  <2>8. recovery[c] = FreshUnit \o FreshUnit => "request" \notin held'[c]
    <3>. SUFFICES ASSUME recovery[c] = FreshUnit \o FreshUnit, "request" \in held[c]
                  PROVE  "request" \in Lost(c)
      BY <2>5
    <3>1. todo[c] # <<>> /\ todo[c][1] = "release"
      BY <1>3, <2>1 DEF Orderly, Raise
    <3>2. Head(todo[c]) = "release"
      BY <2>1, <3>1, TailSteps
    <3>. QED
      BY <3>1, <3>2 DEF Lost, At
  <2>9. GivesBack(recovery[c], held'[c])
    BY <2>3, <2>7, <2>8 DEF GivesBack
  <2>10. Orderly(recovery[c], held'[c], expired[c], recovery'[c])
    BY <2>2, <2>3, <2>4, <2>8, <2>9 DEF Orderly
  <2>. QED
    BY <2>5, <2>6, <2>10, PoolStepOf
<1>4. ASSUME NEW c \in Calls, End(c) PROVE PoolInv'
  <2>1. /\ held' = [held EXCEPT ![c] = {}] /\ UNCHANGED <<todo, recovery, expired, generator>>
        /\ Orderly(todo[c], held[c], expired[c], recovery[c])
    BY <1>4 DEF End, PoolInv
  <2>2. PoolTypeOK'
    BY <1>0, <2>1 DEF PoolTypeOK
  <2>3. held'[c] = {} /\ \A d \in Calls \ {c} : held'[d] = held[d]
    BY <1>0, <2>1 DEF PoolTypeOK
  <2>4. Orderly(todo[c], {}, expired[c], recovery[c])
    BY <2>1 DEF Orderly, GivesBack
  <2>. QED
    BY <2>1, <2>2, <2>3, <2>4, PoolStepOf
<1>. QED
  BY <1>1, <1>2, <1>3, <1>4 DEF PoolNext

\* Requests begin with a route, holding nothing.
LEMMA PoolStart == PoolInit => PoolInv
<1>. SUFFICES ASSUME PoolInit PROVE PoolInv
  OBVIOUS
<1>1. \A c \in Calls : todo[c] \in Routes /\ todo[c] \in Seq(Steps) /\ Planned(todo[c])
  BY RoutesPlanned DEF PoolInit
<1>2. <<>> \in Recoveries /\ <<>> # FreshUnit \o FreshUnit
  BY RecoveriesDiffer DEF Recoveries
<1>3. PoolTypeOK
  BY <1>1, <1>2 DEF PoolInit, PoolTypeOK
<1>4. ASSUME NEW c \in Calls PROVE Orderly(todo[c], held[c], expired[c], recovery[c])
  <2>1. held[c] = {} /\ expired[c] = FALSE /\ recovery[c] = <<>>
    BY DEF PoolInit
  <2>. QED
    BY <1>1, <1>2, <2>1 DEF Orderly, GivesBack
<1>5. Connections = {}
  BY DEF PoolInit, Connections
<1>6. IsFiniteSet(Connections) /\ InUse <= PoolSize
  BY <1>5, FS_EmptySet, PoolAssumption DEF InUse
<1>. QED
  BY <1>3, <1>4, <1>6 DEF PoolInv

\* The routes, their sessions and the pool stay well typed.
THEOREM PoolTypeCorrect == PoolSpec => []PoolTypeOK
<1>1. PoolInv => PoolTypeOK
  BY DEF PoolInv
<1>. QED
  BY <1>1, PoolStart, PoolStep, PTL DEF PoolSpec

\* For any number of requests and any size of the pool: no request keeps a connection
\* while it waits for an external service or a download or asks for a second one,
\* nothing expired is read, and the pool is never overdrawn, wherever a step raised
\* (release_request_connection, get_db, the handlers of the routers).
THEOREM ConnectionsAreGivenBack == PoolSpec => []NoIdleConnection
<1>1. PoolInv => NoIdleConnection
  <2>. SUFFICES ASSUME PoolInv, NEW c \in Calls, todo[c] # <<>>
                PROVE  /\ Head(todo[c]) \in Waits => held[c] = {}
                       /\ Head(todo[c]) = "read" => ~expired[c]
    BY DEF PoolInv, NoIdleConnection, At, Waits
  <2>1. /\ todo[c] \in Seq(Steps) /\ held[c] \in SUBSET {"request", "fresh"}
        /\ Orderly(todo[c], held[c], expired[c], recovery[c])
    BY DEF PoolInv, PoolTypeOK
  <2>2. Head(todo[c]) = todo[c][1] /\ 1 \in 1..Len(todo[c])
    BY <2>1, TailSteps
  <2>. QED
    BY <2>1, <2>2 DEF Orderly, GivesBack
<1>. QED
  BY <1>1, PoolStart, PoolStep, PTL DEF PoolSpec

----------------------------------------------------------------------------
(* The rate limiters: their inductive invariant                            *)

GrantedCall == [caller : Callers, at : Nat, nth : Nat]
RedisKey == [key : Callers, window : Nat, count : Nat, expires : Nat]

RateTypeOK ==
    /\ second \in Nat /\ backend \in {"memory", "redis"} /\ failOpen \in BOOLEAN
    /\ hits \in [DOMAIN hits -> Seq(Nat)] /\ IsFiniteSet(DOMAIN hits) /\ inserted \in Seq(Callers)
    /\ counters \in SUBSET RedisKey
    /\ granted \in SUBSET GrantedCall /\ IsFiniteSet(granted) /\ \A g \in granted : g.at <= second
    /\ uncounted \in SUBSET Callers /\ forgotten \in SUBSET Callers

\* The order of insertion has each key of the dict once, and no more than max_keys.
Lists(order, keys) == /\ \A i, j \in 1..Len(order) : order[i] = order[j] => i = j
                      /\ keys = {order[i] : i \in 1..Len(order)}
OrderInv == Lists(inserted, DOMAIN hits) /\ Len(inserted) <= MaxKeys

Granted(c) == {g \in granted : g.caller = c}

\* The grants G have hits of their own among the instants at.
Matched(G, at) == \E f \in [G -> 1..Len(at)] :
    /\ \A g, h \in G : f[g] = f[h] => g = h
    /\ \A g \in G : at[f[g]] = g.at

\* A bucket has at most MaxHits hits, among them those of the calls granted in the window.
BucketInv == backend = "memory" =>
    /\ \A k \in DOMAIN hits : Len(hits[k]) <= MaxHits
    /\ \A g \in granted : second - g.at <= Window
    /\ \A c \in Callers : Matched(Granted(c), Bucket(c))

\* Of the grants G those of c in the fixed window w.
Within(G, c, w) == {g \in G : g.caller = c /\ g.at \div Window = w}

\* Redis has one counter for a key and a window, which outlives the window and counts
\* what was granted in it.
WindowInv == backend = "redis" =>
    /\ \A a, b \in counters : a.key = b.key /\ a.window = b.window => a = b
    /\ \A a \in counters : a.expires > (a.window + 1) * Window
    /\ \A c \in Callers : /\ Cardinality(Within(granted, c, CurrentWindow)) <= Count(c)
                          /\ \A w \in 0..CurrentWindow : Cardinality(Within(granted, c, w)) <= MaxHits
    /\ ~failOpen => uncounted = {}

RateInv == RateTypeOK /\ OrderInv /\ BucketInv /\ WindowInv

----------------------------------------------------------------------------
(* The rate limiters: operators                                            *)

\* Of what stands behind a claims the entry c comes first.
LEMMA FirstBehind ==
    ASSUME NEW S, NEW a \in Seq(S), NEW c \in S, NEW p \in Seq(S), Len(p) > 0
    PROVE  LET h == a \o <<c>> \o SubSeq(p, 1, Len(p) - 1)
           IN  Len(h) = Len(a) + Len(p) /\ h[Len(a) + 1] = c
<1>. DEFINE f == a \o <<c>>
            r == SubSeq(p, 1, Len(p) - 1)
<1>1. Len(a) \in Nat /\ Len(p) \in Nat
  OBVIOUS
<1>2. f \in Seq(S) /\ Len(f) = Len(a) + 1 /\ f[Len(a) + 1] = c
  BY <1>1
<1>3. PICK k : k \in 1..Len(p) /\ k = Len(p)
  BY <1>1
<1>4. r \in Seq(S) /\ Len(r) = Len(p) - 1
  <2>. DEFINE b == SubSeq(p, 1, k - 1)
  <2>1. b \in Seq(S) /\ Len(b) = k - 1
    BY <1>1, <1>3
  <2>2. r = b
    BY <1>3
  <2>. HIDE DEF b, r
  <2>. QED
    BY <1>3, <2>1, <2>2
<1>. HIDE DEF f, r
<1>5. /\ Len(f \o r) = Len(f) + Len(r)
      /\ \A i \in 1..Len(f) + Len(r) : (f \o r)[i] = IF i <= Len(f) THEN f[i] ELSE r[i - Len(f)]
  BY <1>2, <1>4, ConcatProperties, Zenon
<1>6. Len(f \o r) = Len(a) + Len(p) /\ (f \o r)[Len(a) + 1] = c
  BY <1>1, <1>2, <1>4, <1>5
<1>. QED
  BY <1>6 DEF f, r

\* Whatever a caller claims in X-Forwarded-For, it is keyed by its own address: the
\* trusted proxies append one entry each and the caller's stands before them.
LEMMA KeyIsCaller ==
    ASSUME NEW caller \in Callers, NEW claimed \in Claims
    PROVE  KeyOf(caller, claimed) = caller
<1>. DEFINE Hops == Callers \cup {Garbage} \cup {Proxies[i] : i \in DOMAIN Proxies}
            hops == Forwarded(caller, claimed)
<1>1. Proxies \in Seq(Hops) /\ Len(Proxies) \in Nat /\ Len(Proxies) > 0
  BY RateAssumption
<1>2. claimed \in Seq(Hops) /\ Len(claimed) \in Nat
  <2>1. CASE claimed = <<>>
    BY <2>1
  <2>2. ASSUME NEW x \in Callers \cup {Garbage}, claimed = <<x>> PROVE claimed \in Seq(Hops)
    BY <2>2
  <2>3. claimed \in Seq(Hops)
    BY <2>1, <2>2 DEF Claims
  <2>. QED
    BY <2>3
<1>3. caller \in Hops
  OBVIOUS
<1>4. Len(hops) = Len(claimed) + Len(Proxies) /\ hops[Len(claimed) + 1] = caller
  <2>. HIDE DEF Hops
  <2>. QED
    BY <1>1, <1>2, <1>3, FirstBehind, Zenon DEF Forwarded
<1>5. Len(hops) + 1 - Len(Proxies) = Len(claimed) + 1 /\ Len(hops) >= Len(Proxies)
  BY <1>1, <1>2, <1>4
<1>6. IsAddress(caller)
  BY RateAssumption DEF IsAddress
<1>. QED
  BY <1>4, <1>5, <1>6 DEF KeyOf, ClientIp

\* The fixed window of a second: it begins at a multiple of Window.
LEMMA WindowOf ==
    ASSUME NEW n \in Nat
    PROVE  /\ n \div Window \in Nat
           /\ (n \div Window) * Window <= n /\ n < (n \div Window) * Window + Window
<1>1. Window \in Nat /\ Window > 0
  BY RateAssumption
<1>. QED
  BY <1>1

LEMMA WindowBefore ==
    ASSUME NEW v \in Nat, NEW w \in Nat, v < w
    PROVE  v * Window + Window <= w * Window
<1>1. Window \in Nat /\ Window > 0
  BY RateAssumption
<1>2. w - v \in Nat /\ w - v >= 1
  OBVIOUS
<1>3. (w - v) * Window >= Window
  BY <1>1, <1>2
<1>. QED
  BY <1>1, <1>3

\* A second belongs to no other fixed window, and windows follow one another.
LEMMA WindowIs ==
    ASSUME NEW n \in Nat, NEW w \in Nat, w * Window <= n
    PROVE  w <= n \div Window
<1>. SUFFICES ASSUME n \div Window < w PROVE FALSE
  BY WindowOf
<1>1. Window \in Nat /\ w * Window \in Nat /\ (n \div Window) * Window \in Nat
  BY RateAssumption, WindowOf
<1>. QED
  BY <1>1, WindowOf, WindowBefore
LEMMA WindowsOrdered ==
    ASSUME NEW m \in Nat, NEW n \in Nat, m <= n
    PROVE  m \div Window <= n \div Window
<1>1. Window \in Nat /\ m \div Window \in Nat /\ (m \div Window) * Window \in Nat
  BY RateAssumption, WindowOf
<1>. QED
  BY <1>1, WindowOf, WindowIs

\* The next second is in the same window or in the next one.
LEMMA WindowOfNext ==
    ASSUME NEW n \in Nat
    PROVE  (n + 1) \div Window \in {n \div Window, n \div Window + 1}
<1>. DEFINE v == n \div Window
            w == (n + 1) \div Window
<1>1. Window \in Nat \ {0} /\ v \in Nat /\ w \in Nat /\ v <= w /\ v * Window \in Nat /\ w * Window \in Nat
  BY RateAssumption, WindowOf, WindowsOrdered
<1>2. ASSUME v + 1 < w PROVE FALSE
  <2>1. (v + 1) * Window + Window <= w * Window
    BY <1>1, <1>2, WindowBefore
  <2>2. (v + 1) * Window = v * Window + Window
    BY <1>1
  <2>. QED
    BY <1>1, <2>1, <2>2, WindowOf
<1>. QED
  BY <1>1, <1>2

\* The order of insertion with the key at i taken out.
LEMMA OneOut ==
    ASSUME NEW S, NEW q \in Seq(S), NEW keys, Lists(q, keys), NEW i \in 1..Len(q)
    PROVE  LET r == RemoveAt(q, i)
           IN  r \in Seq(S) /\ Len(r) = Len(q) - 1 /\ Lists(r, keys \ {q[i]})
<1>. DEFINE a == SubSeq(q, 1, i - 1)
            b == SubSeq(q, i + 1, Len(q))
<1>1. Len(q) \in Nat /\ i \in Nat
  OBVIOUS
<1>2. a \in Seq(S) /\ Len(a) = i - 1 /\ \A n \in 1..(i - 1) : a[n] = q[n]
  BY <1>1
<1>3. b \in Seq(S) /\ Len(b) = Len(q) - i /\ \A n \in 1..(Len(q) - i) : b[n] = q[n + i]
  BY <1>1
<1>4. PICK r : r = RemoveAt(q, i)
  OBVIOUS
<1>5. r = a \o b
  BY <1>4 DEF RemoveAt
<1>. HIDE DEF a, b
<1>6. r \in Seq(S) /\ Len(r) = Len(q) - 1
  <2>1. r \in Seq(S) /\ Len(r) = Len(a) + Len(b)
    BY <1>2, <1>3, <1>5, ConcatProperties
  <2>. QED
    BY <1>1, <1>2, <1>3, <2>1
<1>. DEFINE at(n) == IF n < i THEN n ELSE n + 1
<1>7. ASSUME NEW n \in 1..(Len(q) - 1) PROVE r[n] = q[at(n)] /\ at(n) \in 1..Len(q) /\ at(n) # i
  <2>1. CASE n < i
    BY <1>1, <1>2, <1>3, <1>5, <2>1
  <2>2. CASE n >= i
    <3>1. r[n] = b[n - (i - 1)]
      BY <1>1, <1>2, <1>3, <1>5, <2>2
    <3>2. n - (i - 1) \in 1..(Len(q) - i) /\ (n - (i - 1)) + i = n + 1
      BY <1>1, <2>2
    <3>3. b[n - (i - 1)] = q[n + 1]
      BY <1>3, <3>2
    <3>. QED
      BY <1>1, <2>2, <3>1, <3>3
  <2>. QED
    BY <1>1, <2>1, <2>2
<1>8. \A m, n \in 1..Len(r) : r[m] = r[n] => m = n
  <2>. SUFFICES ASSUME NEW m \in 1..(Len(q) - 1), NEW n \in 1..(Len(q) - 1), r[m] = r[n] PROVE m = n
    BY <1>6
  <2>1. at(m) = at(n)
    BY <1>7 DEF Lists
  <2>. QED
    BY <1>1, <2>1
<1>9. keys \ {q[i]} = {r[n] : n \in 1..Len(r)}
  <2>1. ASSUME NEW k \in keys \ {q[i]} PROVE \E n \in 1..Len(r) : k = r[n]
    <3>1. PICK m \in 1..Len(q) : k = q[m] /\ m # i
      BY DEF Lists
    <3>2. CASE m < i
      <4>1. m \in 1..(Len(q) - 1) /\ at(m) = m
        BY <1>1, <3>1, <3>2
      <4>. QED
        BY <1>6, <1>7, <3>1, <4>1
    <3>3. CASE m > i
      <4>1. m - 1 \in 1..(Len(q) - 1) /\ at(m - 1) = m
        BY <1>1, <3>1, <3>3
      <4>. QED
        BY <1>6, <1>7, <3>1, <4>1
    <3>. QED
      BY <1>1, <3>1, <3>2, <3>3
  <2>2. ASSUME NEW n \in 1..Len(r) PROVE r[n] \in keys \ {q[i]}
    <3>1. r[n] = q[at(n)] /\ at(n) \in 1..Len(q) /\ at(n) # i
      BY <1>6, <1>7
    <3>. HIDE DEF at
    <3>. QED
      BY <3>1 DEF Lists
  <2>. QED
    BY <2>1, <2>2
<1>10. Lists(r, keys \ {q[i]})
  BY <1>8, <1>9 DEF Lists
<1>. HIDE DEF at
<1>. QED
  BY <1>4, <1>6, <1>10

\* The order of insertion without its first key.
LEMMA FirstOut ==
    ASSUME NEW S, NEW q \in Seq(S), NEW keys, Lists(q, keys), Len(q) > 0
    PROVE  /\ Tail(q) \in Seq(S) /\ Len(Tail(q)) = Len(q) - 1 /\ Lists(Tail(q), keys \ {Head(q)})
           /\ Head(q) = q[1] /\ Head(q) \in keys /\ Head(q) \in S
<1>1. PICK r : r = Tail(q)
  OBVIOUS
<1>2. /\ r \in Seq(S) /\ Len(r) = Len(q) - 1 /\ \A n \in 1..Len(r) : r[n] = q[n + 1]
      /\ Len(q) \in Nat /\ Head(q) = q[1] /\ q[1] \in S
  BY <1>1
<1>3. \A m, n \in 1..Len(r) : r[m] = r[n] => m = n
  BY <1>2 DEF Lists
<1>4. keys \ {q[1]} = {r[n] : n \in 1..Len(r)}
  <2>1. ASSUME NEW k \in keys \ {q[1]} PROVE \E n \in 1..Len(r) : k = r[n]
    <3>1. PICK m \in 1..Len(q) : k = q[m] /\ m # 1
      BY DEF Lists
    <3>2. m - 1 \in 1..Len(r) /\ (m - 1) + 1 = m
      BY <1>2, <3>1
    <3>. QED
      BY <1>2, <3>1, <3>2
  <2>2. ASSUME NEW n \in 1..Len(r) PROVE r[n] \in keys \ {q[1]}
    <3>1. n + 1 \in 1..Len(q) /\ 1 \in 1..Len(q) /\ n + 1 # 1
      BY <1>2
    <3>. QED
      BY <1>2, <3>1 DEF Lists
  <2>. QED
    BY <2>1, <2>2
<1>. QED
  BY <1>1, <1>2, <1>3, <1>4 DEF Lists

\* The order of insertion with a new key behind it.
LEMMA OneIn ==
    ASSUME NEW S, NEW q \in Seq(S), NEW keys, Lists(q, keys), NEW k \in S, k \notin keys
    PROVE  Append(q, k) \in Seq(S) /\ Len(Append(q, k)) = Len(q) + 1 /\ Lists(Append(q, k), keys \cup {k})
<1>1. PICK r : r = Append(q, k)
  OBVIOUS
<1>2. /\ r \in Seq(S) /\ Len(r) = Len(q) + 1 /\ Len(q) \in Nat
      /\ \A n \in 1..Len(q) : r[n] = q[n]
  BY <1>1
<1>3. r[Len(q) + 1] = k
  BY <1>1
<1>4. \A n \in 1..Len(r) : n \in 1..Len(q) \/ n = Len(q) + 1
  BY <1>2
<1>5. \A n \in 1..Len(q) : r[n] = q[n] /\ r[n] \in keys
  BY <1>2 DEF Lists
<1>6. \A m, n \in 1..Len(r) : r[m] = r[n] => m = n
  BY <1>3, <1>4, <1>5 DEF Lists
<1>7. keys \cup {k} = {r[n] : n \in 1..Len(r)}
  <2>1. ASSUME NEW x \in keys \cup {k} PROVE \E n \in 1..Len(r) : x = r[n]
    <3>1. CASE x = k
      <4>1. Len(q) + 1 \in 1..Len(r)
        BY <1>2
      <4>. QED
        BY <1>3, <3>1, <4>1
    <3>2. CASE x \in keys
      <4>1. PICK m \in 1..Len(q) : x = q[m]
        BY <3>2 DEF Lists
      <4>2. m \in 1..Len(r)
        BY <1>2
      <4>. QED
        BY <1>5, <4>1, <4>2
    <3>. QED
      BY <3>1, <3>2
  <2>2. ASSUME NEW n \in 1..Len(r) PROVE r[n] \in keys \cup {k}
    BY <1>3, <1>4, <1>5
  <2>. QED
    BY <2>1, <2>2
<1>. QED
  BY <1>1, <1>2, <1>6, <1>7 DEF Lists


\* Fewer grants have hits of their own as well; none always have.
LEMMA FewerMatched ==
    ASSUME NEW G, NEW at, Matched(G, at), NEW H \in SUBSET G
    PROVE  Matched(H, at)
<1>1. PICK f \in [G -> 1..Len(at)] : /\ \A g, h \in G : f[g] = f[h] => g = h
                                     /\ \A g \in G : at[f[g]] = g.at
  BY DEF Matched
<1>. DEFINE e == [g \in H |-> f[g]]
<1>2. e \in [H -> 1..Len(at)]
  BY <1>1
<1>3. \A g \in H : e[g] = f[g]
  OBVIOUS
<1>. HIDE DEF e
<1>4. (\A g, h \in H : e[g] = e[h] => g = h) /\ \A g \in H : at[e[g]] = g.at
  BY <1>1, <1>3
<1>. QED
  BY <1>2, <1>4 DEF Matched

LEMMA NoneMatched == \A at : Matched({}, at)
<1>. SUFFICES ASSUME NEW at PROVE Matched({}, at)
  OBVIOUS
<1>. DEFINE f == [g \in {} |-> 1]
<1>1. f \in [{} -> 1..Len(at)]
  OBVIOUS
<1>. QED
  BY <1>1 DEF Matched

\* The grants of the window keep their hits when those outside it are popped ...
LEMMA MatchedLive ==
    ASSUME NEW G, NEW at \in Seq(Nat), Matched(G, at), NEW n \in 0..Len(at), second \in Nat, Popped(at, n),
           \A g \in G : g.at \in Nat /\ second - g.at <= Window
    PROVE  Matched(G, SubSeq(at, n + 1, Len(at)))
<1>1. PICK f \in [G -> 1..Len(at)] : /\ \A g, h \in G : f[g] = f[h] => g = h
                                     /\ \A g \in G : at[f[g]] = g.at
  BY DEF Matched
<1>2. PICK live : live = SubSeq(at, n + 1, Len(at))
  OBVIOUS
<1>3. /\ Len(at) \in Nat /\ n \in Nat /\ Window \in Nat /\ live \in Seq(Nat) /\ Len(live) = Len(at) - n
      /\ \A i \in 1..(Len(at) - n) : live[i] = at[i + n]
  BY <1>2, RateAssumption
<1>4. ASSUME NEW g \in G PROVE f[g] \in 1..Len(at) /\ f[g] > n
  <2>1. f[g] \in 1..Len(at) /\ at[f[g]] = g.at /\ g.at \in Nat /\ second - g.at <= Window
    BY <1>1
  <2>2. ~(f[g] \in 1..n)
    BY <1>3, <2>1 DEF Popped
  <2>. QED
    BY <1>3, <2>1, <2>2
<1>. DEFINE e == [g \in G |-> f[g] - n]
<1>5. \A g \in G : e[g] = f[g] - n /\ e[g] \in 1..(Len(at) - n) /\ e[g] + n = f[g]
  BY <1>3, <1>4
<1>6. e \in [G -> 1..Len(live)]
  BY <1>3, <1>5
<1>. HIDE DEF e
<1>7. \A g, h \in G : e[g] = e[h] => g = h
  BY <1>1, <1>5
<1>8. \A g \in G : live[e[g]] = g.at
  BY <1>1, <1>3, <1>5
<1>9. Matched(G, live)
  BY <1>6, <1>7, <1>8 DEF Matched
<1>. QED
  BY <1>2, <1>9

\* ... and a grant of this second has the hit that is appended.
LEMMA MatchedMore ==
    ASSUME NEW G, NEW at \in Seq(Nat), Matched(G, at), NEW x, x.at \in Nat
    PROVE  Matched(G \cup {x}, Append(at, x.at))
<1>1. PICK f \in [G -> 1..Len(at)] : /\ \A g, h \in G : f[g] = f[h] => g = h
                                     /\ \A g \in G : at[f[g]] = g.at
  BY DEF Matched
<1>2. PICK more : more = Append(at, x.at)
  OBVIOUS
<1>3. /\ Len(at) \in Nat /\ more \in Seq(Nat) /\ Len(more) = Len(at) + 1
      /\ more[Len(at) + 1] = x.at /\ \A i \in 1..Len(at) : more[i] = at[i]
  BY <1>2
<1>. DEFINE e == [g \in G \cup {x} |-> IF g \in G THEN f[g] ELSE Len(at) + 1]
<1>4. \A g \in G : e[g] = f[g] /\ f[g] \in 1..Len(at)
  BY <1>1
<1>5. x \notin G => e[x] = Len(at) + 1
  OBVIOUS
<1>6. e \in [G \cup {x} -> 1..Len(more)]
  BY <1>3, <1>4
<1>. HIDE DEF e
<1>7. \A g, h \in G \cup {x} : e[g] = e[h] => g = h
  BY <1>1, <1>3, <1>4, <1>5
<1>8. \A g \in G \cup {x} : more[e[g]] = g.at
  BY <1>1, <1>3, <1>4, <1>5
<1>9. Matched(G \cup {x}, more)
  BY <1>6, <1>7, <1>8 DEF Matched
<1>. QED
  BY <1>2, <1>9

\* Grants with hits of their own are not more than the hits.
LEMMA MatchedBound ==
    ASSUME NEW G, IsFiniteSet(G), NEW at \in Seq(Nat), Matched(G, at)
    PROVE  Cardinality(G) <= Len(at)
<1>1. PICK f \in [G -> 1..Len(at)] : \A g, h \in G : f[g] = f[h] => g = h
  BY DEF Matched
<1>2. PICK n \in Nat : n = Len(at)
  OBVIOUS
<1>3. IsFiniteSet(1..n) /\ Cardinality(1..n) = n /\ Cardinality(G) \in Nat
  <2>1. IsFiniteSet(1..n) /\ Cardinality(1..n) = n
    BY FS_Interval
  <2>. QED
    BY <2>1, FS_CardinalityType
<1>4. f \in [G -> 1..n]
  BY <1>2
<1>5. ~(Cardinality(1..n) < Cardinality(G))
  BY <1>1, <1>3, <1>4, FS_PigeonHole
<1>. QED
  BY <1>2, <1>3, <1>5

----------------------------------------------------------------------------
(* The rate limiters: their steps                                          *)

LEMMA RateStart == RateInit => RateInv
<1>. SUFFICES ASSUME RateInit PROVE RateInv
  OBVIOUS
<1>1. RateTypeOK
  <2>1. hits = [k \in {} |-> <<>>] /\ inserted \in Seq(Callers) /\ granted = {} /\ second = 0
    BY DEF RateInit
  <2>2. hits \in [DOMAIN hits -> Seq(Nat)] /\ IsFiniteSet(DOMAIN hits)
    BY <2>1, FS_EmptySet
  <2>. QED
    <3>1. backend \in {"memory", "redis"} /\ failOpen \in BOOLEAN
      BY DEF RateInit
    <3>2. counters = {} /\ uncounted = {} /\ forgotten = {} /\ IsFiniteSet(granted)
      BY <2>1, FS_EmptySet DEF RateInit
    <3>. QED
      BY <2>1, <2>2, <3>1, <3>2 DEF RateTypeOK
<1>2. OrderInv
  <2>1. inserted = <<>> /\ DOMAIN hits = {} /\ Len(inserted) = 0
    BY DEF RateInit
  <2>. QED
    BY <2>1, RateAssumption DEF OrderInv, Lists
<1>3. BucketInv
  BY NoneMatched DEF RateInit, BucketInv, Granted
<1>4. WindowInv
  <2>1. counters = {} /\ granted = {} /\ uncounted = {} /\ second = 0
    BY DEF RateInit
  <2>2. CurrentWindow \in Nat
    BY <2>1, WindowOf DEF CurrentWindow
  <2>3. \A c \in Callers : Count(c) = 0
    BY <2>1 DEF Count, Counter
  <2>4. \A c \in Callers : \A w : Within(granted, c, w) = {}
    BY <2>1 DEF Within
  <2>. QED
    <3>1. \A c \in Callers : \A w : Cardinality(Within(granted, c, w)) = 0
      BY <2>4, FS_EmptySet
    <3>2. MaxHits \in Nat
      BY RateAssumption
    <3>. QED
      BY <2>1, <2>3, <3>1, <3>2 DEF WindowInv
<1>. QED
  BY <1>1, <1>2, <1>3, <1>4 DEF RateInv

\* The count of a key is a number.
LEMMA CountType ==
    ASSUME RateTypeOK, NEW c \in Callers
    PROVE  Count(c) \in Nat
BY DEF RateTypeOK, RedisKey, Count, Counter

\* What was granted to a caller in a window is finite, as every part of what was granted.
LEMMA GrantsFinite ==
    ASSUME RateTypeOK, NEW G \in SUBSET granted
    PROVE  IsFiniteSet(G) /\ Cardinality(G) \in Nat
BY FS_Subset, FS_CardinalityType DEF RateTypeOK

LEMMA NextSecondKeeps ==
    ASSUME RateInv, NextSecond
    PROVE  RateInv'
<1>1. RateTypeOK /\ OrderInv /\ BucketInv /\ WindowInv
  BY DEF RateInv
<1>2. /\ second' = second + 1 /\ second \in Nat /\ second' \in Nat
      /\ granted' = {g \in granted : second + 1 - g.at <= Window} /\ counters' = {c \in counters : c.expires > second + 1}
      /\ UNCHANGED <<backend, failOpen, hits, inserted, uncounted, forgotten>>
  <2>1. second' = second + 1 /\ second \in Nat
    BY <1>1 DEF NextSecond, RateTypeOK
  <2>2. granted' = {g \in granted : second + 1 - g.at <= Window}
    BY <2>1 DEF NextSecond
  <2>3. counters' = {c \in counters : c.expires > second + 1}
    BY <2>1 DEF NextSecond
  <2>. QED
    BY <2>1, <2>2, <2>3 DEF NextSecond
<1>3. RateTypeOK'
  <2>1. granted' \in SUBSET granted /\ IsFiniteSet(granted')
    BY <1>1, <1>2, FS_Subset DEF RateTypeOK
  <2>2. \A g \in granted' : g \in GrantedCall /\ g.at <= second'
    BY <1>1, <1>2, <2>1 DEF RateTypeOK, GrantedCall
  <2>. QED
    BY <1>1, <1>2, <2>1, <2>2 DEF RateTypeOK
<1>4. OrderInv'
  BY <1>1, <1>2 DEF OrderInv, Lists
<1>5. BucketInv'
  <2>. SUFFICES ASSUME backend = "memory" PROVE BucketInv'
    BY <1>2 DEF BucketInv
  <2>1. ASSUME NEW c \in Callers PROVE Matched(Granted(c)', Bucket(c)')
    <3>1. Granted(c)' \in SUBSET Granted(c) /\ Bucket(c)' = Bucket(c)
      BY <1>2 DEF Granted, Bucket
    <3>2. Matched(Granted(c), Bucket(c))
      BY <1>1 DEF BucketInv
    <3>3. Matched(Granted(c)', Bucket(c))
      BY <3>1, <3>2, FewerMatched
    <3>. QED
      BY <3>1, <3>3
  <2>2. (\A k \in DOMAIN hits : Len(hits[k]) <= MaxHits)'
    BY <1>1, <1>2 DEF BucketInv
  <2>3. \A g \in granted' : second' - g.at <= Window
    <3>1. \A g \in granted' : second + 1 - g.at <= Window /\ g.at \in Nat
      BY <1>2, <1>3 DEF RateTypeOK, GrantedCall
    <3>. QED
      BY <1>2, <3>1
  <2>. QED
    BY <2>1, <2>2, <2>3 DEF BucketInv
<1>6. WindowInv'
  <2>. SUFFICES ASSUME backend = "redis" PROVE WindowInv'
    BY <1>2 DEF WindowInv
  <2>1. \A a, b \in counters' : a.key = b.key /\ a.window = b.window => a = b
    BY <1>1, <1>2 DEF WindowInv
  <2>2. \A a \in counters' : a.expires > (a.window + 1) * Window
    BY <1>1, <1>2 DEF WindowInv
  <2>2a. PICK w, v : w = CurrentWindow /\ v = CurrentWindow'
    OBVIOUS
  <2>3. w \in Nat /\ v \in Nat /\ v \in {w, w + 1} /\ second < w * Window + Window /\ second' < v * Window + Window
    BY <1>2, <2>2a, WindowOf, WindowOfNext DEF CurrentWindow
  <2>4. \A c \in Callers, u \in Nat : /\ Within(granted', c, u) \in SUBSET Within(granted, c, u)
                                      /\ Within(granted', c, u) \in SUBSET granted'
                                      /\ Within(granted, c, u) \in SUBSET granted
    BY <1>2 DEF Within
  <2>5. ASSUME NEW c \in Callers, NEW u \in Nat
        PROVE  /\ Cardinality(Within(granted', c, u)) <= Cardinality(Within(granted, c, u))
               /\ Cardinality(Within(granted', c, u)) \in Nat /\ Cardinality(Within(granted, c, u)) \in Nat
    <3>1. IsFiniteSet(Within(granted, c, u)) /\ Cardinality(Within(granted, c, u)) \in Nat
      BY <1>1, <2>4, GrantsFinite
    <3>. QED
      BY <2>4, <3>1, FS_Subset, FS_CardinalityType
  <2>6. ASSUME NEW c \in Callers, v = w + 1 PROVE Within(granted', c, v) = {}
    <3>1. \A g \in granted : g.at \in Nat /\ g.at <= second
      BY <1>1 DEF RateTypeOK, GrantedCall
    <3>2. \A g \in granted : g.at \div Window \in Nat /\ g.at \div Window <= w
      BY <1>2, <2>2a, <3>1, WindowOf, WindowsOrdered DEF CurrentWindow
    <3>. QED
      BY <1>2, <2>3, <2>6, <3>2 DEF Within
  <2>7. ASSUME NEW c \in Callers, v = w PROVE Count(c)' = Count(c)
    <3>1. ASSUME NEW a \in counters, a.window = w PROVE a.expires > second'
      <4>1. a.expires \in Nat /\ a.expires > (w + 1) * Window
        BY <1>1, <3>1 DEF WindowInv, RateTypeOK, RedisKey
      <4>2. Window \in Nat /\ (w + 1) * Window = w * Window + Window /\ w * Window \in Nat
        BY <2>3, RateAssumption
      <4>. QED
        BY <1>2, <2>3, <2>7, <4>1, <4>2
    <3>2. Counter(c)' = Counter(c)
      BY <1>2, <2>2a, <2>7, <3>1 DEF Counter
    <3>. QED
      BY <3>2 DEF Count
  <2>8. ASSUME NEW c \in Callers
        PROVE  /\ Cardinality(Within(granted', c, v)) <= Count(c)'
               /\ \A u \in 0..v : Cardinality(Within(granted', c, u)) <= MaxHits
    <3>1. Count(c) \in Nat /\ Count(c)' \in Nat
      BY <1>1, <1>3, CountType DEF RateTypeOK, RedisKey, Count, Counter
    <3>2. /\ Cardinality(Within(granted, c, w)) <= Count(c)
          /\ \A u \in 0..w : Cardinality(Within(granted, c, u)) <= MaxHits
      BY <1>1, <2>2a DEF WindowInv
    <3>3. MaxHits \in Nat
      BY RateAssumption
    <3>4. CASE v = w
      BY <2>3, <2>5, <2>7, <3>1, <3>2, <3>3, <3>4
    <3>5. CASE v = w + 1
      <4>1. Cardinality(Within(granted', c, v)) = 0
        BY <2>6, <3>5, FS_EmptySet
      <4>2. \A u \in 0..v : u \in 0..w \/ u = v
        BY <2>3, <3>5
      <4>3. \A u \in 0..w : Cardinality(Within(granted', c, u)) <= MaxHits
        BY <2>3, <2>5, <3>2, <3>3
      <4>. QED
        BY <3>1, <3>3, <4>1, <4>2, <4>3
    <3>. QED
      BY <2>3, <3>4, <3>5
  <2>9. (~failOpen => uncounted = {})'
    BY <1>1, <1>2 DEF WindowInv
  <2>. QED
    BY <1>2, <2>2a, <2>1, <2>2, <2>8, <2>9 DEF WindowInv
<1>. QED
  BY <1>3, <1>4, <1>5, <1>6 DEF RateInv


\* The order of insertion after a check of key: the new keys of the dict, once each,
\* and not more than max_keys.
LEMMA OrderAfterCheck ==
    ASSUME RateTypeOK, OrderInv, NEW key \in Callers, NEW live, live = <<>> \/ key \in DOMAIN hits
    PROVE  LET order == Cleaned(inserted, key, live)
               evicted == Evicted(order, key)
               after == Admitted(order, key)
           IN  /\ after \in Seq(Callers) /\ Len(after) <= MaxKeys /\ evicted \in SUBSET Callers
               /\ Lists(after, (DOMAIN hits \ evicted) \cup {key}) /\ key \notin evicted
<1>. DEFINE order == Cleaned(inserted, key, live)
            keys == DOMAIN hits \ (IF live = <<>> THEN {key} ELSE {})
<1>1. /\ inserted \in Seq(Callers) /\ Len(inserted) \in Nat /\ Len(inserted) <= MaxKeys
      /\ Lists(inserted, DOMAIN hits) /\ MaxKeys \in Nat /\ MaxKeys > 0
  BY RateAssumption DEF RateTypeOK, OrderInv
<1>2. HasKey(inserted, key) <=> key \in DOMAIN hits
  BY <1>1 DEF HasKey, Lists
<1>3. order \in Seq(Callers) /\ Len(order) \in Nat /\ Len(order) <= MaxKeys /\ Lists(order, keys)
  <2>1. CASE live = <<>> /\ HasKey(inserted, key)
    <3>1. PICK i : i = CHOOSE j \in 1..Len(inserted) : inserted[j] = key
      OBVIOUS
    <3>2. i \in 1..Len(inserted) /\ inserted[i] = key
      BY <2>1, <3>1 DEF HasKey
    <3>3. order = RemoveAt(inserted, i)
      BY <2>1, <3>1 DEF Cleaned
    <3>4. /\ RemoveAt(inserted, i) \in Seq(Callers) /\ Len(RemoveAt(inserted, i)) = Len(inserted) - 1
          /\ Lists(RemoveAt(inserted, i), DOMAIN hits \ {inserted[i]})
      BY <1>1, <3>2, OneOut
    <3>5. keys = DOMAIN hits \ {inserted[i]}
      BY <2>1, <3>2
    <3>. HIDE DEF order, keys
    <3>. QED
      BY <1>1, <3>3, <3>4, <3>5
  <2>2. CASE ~(live = <<>> /\ HasKey(inserted, key))
    <3>1. order = inserted
      BY <2>2 DEF Cleaned
    <3>2. keys = DOMAIN hits
      BY <1>2, <2>2
    <3>. HIDE DEF order, keys
    <3>. QED
      BY <1>1, <3>1, <3>2
  <2>. QED
    BY <2>1, <2>2
<1>4. HasKey(order, key) <=> key \in keys
  BY <1>3 DEF HasKey, Lists
<1>5. CASE key \in keys
  <2>1. Evicted(order, key) = {} /\ Admitted(order, key) = order
    BY <1>4, <1>5 DEF Evicted, Admitted
  <2>2. keys = (DOMAIN hits \ {}) \cup {key}
    BY <1>5
  <2>. HIDE DEF order, keys
  <2>3. Lists(order, (DOMAIN hits \ {}) \cup {key})
    BY <1>3, <2>2
  <2>. QED
    BY <1>3, <2>1, <2>3 DEF order
<1>6. CASE key \notin keys
  <2>1. keys = DOMAIN hits \ {key}
    BY <1>2, <1>6
  <2>. HIDE DEF order, keys
  <2>2. CASE Len(order) >= MaxKeys
    <3>1. Evicted(order, key) = {Head(order)} /\ Admitted(order, key) = Append(Tail(order), key)
      BY <1>4, <1>6, <2>2 DEF Evicted, Admitted
    <3>2. /\ Tail(order) \in Seq(Callers) /\ Len(Tail(order)) = Len(order) - 1
          /\ Lists(Tail(order), keys \ {Head(order)}) /\ Head(order) \in keys /\ Head(order) \in Callers
      BY <1>1, <1>3, <2>2, FirstOut
    <3>3. key \notin keys \ {Head(order)} /\ key \notin {Head(order)}
      BY <1>6, <3>2
    <3>4. /\ Append(Tail(order), key) \in Seq(Callers) /\ Len(Append(Tail(order), key)) = Len(Tail(order)) + 1
          /\ Lists(Append(Tail(order), key), (keys \ {Head(order)}) \cup {key})
      BY <3>2, <3>3, OneIn
    <3>5. (keys \ {Head(order)}) \cup {key} = (DOMAIN hits \ {Head(order)}) \cup {key}
      BY <2>1
    <3>6. Lists(Append(Tail(order), key), (DOMAIN hits \ {Head(order)}) \cup {key})
      BY <3>4, <3>5
    <3>7. Len(Append(Tail(order), key)) <= MaxKeys
      BY <1>3, <3>2, <3>4
    <3>. QED
      BY <3>1, <3>2, <3>3, <3>4, <3>6, <3>7, Zenon DEF order
  <2>3. CASE ~(Len(order) >= MaxKeys)
    <3>1. Evicted(order, key) = {} /\ Admitted(order, key) = Append(order, key)
      BY <1>4, <1>6, <2>3 DEF Evicted, Admitted
    <3>2. /\ Append(order, key) \in Seq(Callers) /\ Len(Append(order, key)) = Len(order) + 1
          /\ Lists(Append(order, key), keys \cup {key})
      BY <1>3, <1>6, OneIn
    <3>3. keys \cup {key} = (DOMAIN hits \ {}) \cup {key}
      BY <2>1
    <3>4. Lists(Append(order, key), (DOMAIN hits \ {}) \cup {key})
      BY <3>2, <3>3
    <3>5. Len(Append(order, key)) <= MaxKeys
      BY <1>1, <1>3, <2>3, <3>2
    <3>. QED
      BY <3>1, <3>2, <3>4, <3>5, Zenon DEF order
  <2>. QED
    BY <2>2, <2>3
<1>. QED
  BY <1>5, <1>6


\* What a call granted now adds to the grants.
LEMMA GrantType ==
    ASSUME RateTypeOK, NEW caller \in Callers
    PROVE  \E x \in GrantedCall : x.caller = caller /\ x.at = second /\ Grant(caller) = granted \cup {x}
<1>. DEFINE now == {g \in granted : g.caller = caller /\ g.at = second}
            x == [caller |-> caller, at |-> second, nth |-> Cardinality(now) + 1]
<1>1. Cardinality(now) \in Nat
  BY GrantsFinite
<1>. HIDE DEF now
<1>2. x \in GrantedCall /\ x.caller = caller /\ x.at = second
  BY <1>1 DEF GrantedCall, RateTypeOK
<1>3. Grant(caller) = granted \cup {x}
  BY DEF Grant, now
<1>. QED
  BY <1>2, <1>3

LEMMA CheckInMemoryKeeps ==
    ASSUME RateInv, NEW caller \in Callers, NEW claimed \in Claims, CheckInMemory(caller, claimed)
    PROVE  RateInv'
<1>. DEFINE key == caller
            B == Bucket(key)
<1>1. RateTypeOK /\ OrderInv /\ BucketInv /\ WindowInv
  BY DEF RateInv
<1>2. KeyOf(caller, claimed) = key
  BY KeyIsCaller
<1>3. backend = "memory" /\ UNCHANGED <<second, backend, failOpen, counters, uncounted>>
  BY DEF CheckInMemory
<1>4. PICK live, evicted, after : \E n \in 0..Len(B) :
        /\ live = SubSeq(B, n + 1, Len(B))
        /\ evicted = Evicted(Cleaned(inserted, key, live), key) /\ after = Admitted(Cleaned(inserted, key, live), key)
        /\ Popped(B, n) /\ inserted' = after
        /\ hits' = [k \in (DOMAIN hits \ evicted) \cup {key} |->
                      IF k # key THEN hits[k] ELSE IF Full(live) THEN live ELSE Append(live, second)]
        /\ forgotten' = forgotten \cup (evicted \cap Callers)
        /\ granted' = Counted(IF Full(live) THEN granted ELSE Grant(caller), forgotten')
  BY <1>2 DEF CheckInMemory
<1>4a. PICK n \in 0..Len(B) : live = SubSeq(B, n + 1, Len(B)) /\ Popped(B, n)
  BY <1>4
<1>5. /\ second \in Nat /\ MaxHits \in Nat \ {0} /\ Window \in Nat /\ B \in Seq(Nat) /\ Len(B) \in Nat
      /\ Len(B) <= MaxHits
  BY <1>1, <1>3, RateAssumption DEF RateTypeOK, BucketInv, Bucket
<1>6. live \in Seq(Nat) /\ Len(live) = Len(B) - n /\ Len(live) \in Nat /\ Len(live) <= MaxHits
  <2>. HIDE DEF B
  <2>. QED
    BY <1>4a, <1>5
<1>7. live = <<>> \/ key \in DOMAIN hits
  BY <1>4a, <1>5, <1>6 DEF Bucket
<1>8. /\ after \in Seq(Callers) /\ Len(after) <= MaxKeys /\ evicted \in SUBSET Callers
      /\ Lists(after, (DOMAIN hits \ evicted) \cup {key}) /\ key \notin evicted
  BY <1>1, <1>4, <1>7, OrderAfterCheck
<1>. DEFINE bucket == IF Full(live) THEN live ELSE Append(live, second)
<1>9. bucket \in Seq(Nat) /\ Len(bucket) \in Nat /\ Len(bucket) <= MaxHits
  BY <1>5, <1>6 DEF Full
<1>10. /\ DOMAIN hits' = (DOMAIN hits \ evicted) \cup {key} /\ hits'[key] = bucket
       /\ \A k \in DOMAIN hits' : k # key => k \in DOMAIN hits /\ hits'[k] = hits[k]
       /\ hits' \in [DOMAIN hits' -> Seq(Nat)]
  <2>. HIDE DEF bucket
  <2>1. hits' = [k \in (DOMAIN hits \ evicted) \cup {key} |-> IF k # key THEN hits[k] ELSE bucket]
    BY <1>4 DEF bucket
  <2>2. /\ DOMAIN hits' = (DOMAIN hits \ evicted) \cup {key} /\ hits'[key] = bucket
        /\ \A k \in DOMAIN hits' : k # key => k \in DOMAIN hits /\ hits'[k] = hits[k]
    BY <2>1
  <2>. QED
    BY <1>1, <1>9, <2>1, <2>2 DEF RateTypeOK
<1>11. PICK x \in GrantedCall : x.caller = caller /\ x.at = second /\ Grant(caller) = granted \cup {x}
  BY <1>1, GrantType
<1>12. /\ granted' \in SUBSET (granted \cup {x}) /\ \A g \in granted' : g.caller \notin forgotten'
       /\ Full(live) => granted' \in SUBSET granted
  BY <1>4, <1>11 DEF Counted
<1>. HIDE DEF bucket, B
<1>13. RateTypeOK'
  <2>1. IsFiniteSet(granted \cup {x})
    BY <1>1, FS_AddElement DEF RateTypeOK
  <2>2. IsFiniteSet(granted')
    BY <1>12, <2>1, FS_Subset
  <2>3. granted' \in SUBSET GrantedCall /\ \A g \in granted' : g.at <= second
    BY <1>1, <1>5, <1>11, <1>12 DEF RateTypeOK
  <2>4. forgotten' \in SUBSET Callers
    BY <1>1, <1>4 DEF RateTypeOK
  <2>5. IsFiniteSet(DOMAIN hits')
    <3>1. IsFiniteSet(DOMAIN hits \ evicted)
      BY <1>1, FS_Subset DEF RateTypeOK
    <3>. QED
      BY <1>10, <3>1, FS_AddElement
  <2>. QED
    BY <1>1, <1>3, <1>4, <1>8, <1>10, <2>2, <2>3, <2>4, <2>5 DEF RateTypeOK
<1>14. OrderInv'
  BY <1>4, <1>8, <1>10 DEF OrderInv
<1>15. BucketInv'
  <2>1. \A k \in DOMAIN hits' : Len(hits'[k]) <= MaxHits
    BY <1>1, <1>3, <1>9, <1>10 DEF BucketInv
  <2>2. \A g \in granted' : second' - g.at <= Window
    BY <1>1, <1>3, <1>5, <1>11, <1>12 DEF BucketInv
  <2>3. ASSUME NEW c \in Callers PROVE Matched(Granted(c)', Bucket(c)')
    <3>1. Matched(Granted(c), Bucket(c)) /\ Granted(c) \in SUBSET granted
      BY <1>1, <1>3 DEF BucketInv, Granted
    <3>2. CASE c \in forgotten'
      <4>1. Granted(c)' = {}
        BY <1>12, <3>2 DEF Granted
      <4>. QED
        BY <4>1, NoneMatched
    <3>3. CASE c # key /\ c \notin forgotten'
      <4>1. Granted(c)' \in SUBSET Granted(c)
        BY <1>11, <1>12, <3>3 DEF Granted
      <4>2. c \in DOMAIN hits' <=> c \in DOMAIN hits
        BY <1>4, <1>10, <3>3
      <4>3. Bucket(c)' = Bucket(c)
        BY <1>10, <3>3, <4>2 DEF Bucket
      <4>4. Matched(Granted(c)', Bucket(c))
        BY <3>1, <4>1, FewerMatched
      <4>. QED
        BY <4>3, <4>4
    <3>4. CASE c = key
      <4>1. Bucket(c)' = bucket
        BY <1>10, <3>4 DEF Bucket
      <4>2. \A g \in Granted(c) : g.at \in Nat /\ second - g.at <= Window
        BY <1>1, <1>3, <3>1 DEF BucketInv, RateTypeOK, GrantedCall
      <4>3. Matched(Granted(c), live)
        BY <1>4a, <1>5, <3>1, <3>4, <4>2, MatchedLive DEF B
      <4>4. CASE Full(live)
        <5>1. Granted(c)' \in SUBSET Granted(c)
          BY <1>12, <4>4 DEF Granted
        <5>2. Matched(Granted(c)', live)
          BY <4>3, <5>1, FewerMatched
        <5>. QED
          BY <4>1, <4>4, <5>2 DEF bucket
      <4>5. CASE ~Full(live)
        <5>1. Granted(c)' \in SUBSET (Granted(c) \cup {x})
          BY <1>12 DEF Granted
        <5>2. Matched(Granted(c) \cup {x}, Append(live, x.at))
          BY <1>5, <1>6, <1>11, <4>3, MatchedMore
        <5>3. Matched(Granted(c)', Append(live, x.at))
          BY <5>1, <5>2, FewerMatched
        <5>4. Bucket(c)' = Append(live, x.at)
          BY <1>11, <4>1, <4>5 DEF bucket
        <5>. QED
          BY <5>3, <5>4
      <4>. QED
        BY <4>4, <4>5
    <3>. QED
      BY <3>2, <3>3, <3>4
  <2>. QED
    BY <2>1, <2>2, <2>3 DEF BucketInv
<1>16. WindowInv'
  BY <1>3 DEF WindowInv
<1>. QED
  BY <1>13, <1>14, <1>15, <1>16 DEF RateInv


\* The script keeps one counter for a key and a window; the count of the caller goes
\* up, to the first that is refused, and no other changes.
LEMMA IncrementKeeps ==
    ASSUME RateTypeOK, WindowInv, backend = "redis", second' = second, NEW key \in Callers, Increment(key)
    PROVE  /\ counters' \in SUBSET RedisKey
           /\ \A a, b \in counters' : a.key = b.key /\ a.window = b.window => a = b
           /\ \A a \in counters' : a.expires > (a.window + 1) * Window
           /\ Count(key)' = Capped(Count(key) + 1)
           /\ \A c \in Callers : c # key => Count(c)' = Count(c)
<1>1. PICK new : new = [key |-> key, window |-> CurrentWindow, count |-> Capped(Count(key) + 1),
                        expires |-> IF Counter(key) = {} THEN second + Window + 1
                                    ELSE (CHOOSE c \in Counter(key) : TRUE).expires]
  OBVIOUS
<1>2. counters' = (counters \ Counter(key)) \cup {new}
  BY <1>1 DEF Increment
<1>3. /\ second \in Nat /\ Window \in Nat /\ MaxHits \in Nat /\ CurrentWindow \in Nat
      /\ CurrentWindow * Window <= second /\ CurrentWindow * Window \in Nat /\ CurrentWindow' = CurrentWindow
  BY RateAssumption, WindowOf DEF RateTypeOK, CurrentWindow
<1>4. Count(key) \in Nat /\ Capped(Count(key) + 1) \in Nat
  BY <1>3, CountType DEF Capped
<1>5. new.expires \in Nat /\ new.expires > (CurrentWindow + 1) * Window
  <2>1. (CurrentWindow + 1) * Window = CurrentWindow * Window + Window
    BY <1>3
  <2>2. CASE Counter(key) = {}
    <3>1. new.expires = second + Window + 1
      BY <1>1, <2>2
    <3>. QED
      BY <1>3, <2>1, <3>1
  <2>3. CASE Counter(key) # {}
    <3>1. PICK a \in Counter(key) : new.expires = a.expires
      BY <1>1, <2>3
    <3>. QED
      BY <3>1 DEF Counter, WindowInv, RateTypeOK, RedisKey
  <2>. QED
    BY <2>2, <2>3
<1>6. /\ new \in RedisKey /\ new.key = key /\ new.window = CurrentWindow
      /\ new.count = Capped(Count(key) + 1)
  BY <1>1, <1>3, <1>4, <1>5 DEF RedisKey
<1>7. counters' \in SUBSET RedisKey
  BY <1>2, <1>6 DEF RateTypeOK
<1>8. \A a \in counters \ Counter(key) : ~(a.key = new.key /\ a.window = new.window)
  BY <1>6 DEF Counter
<1>9. \A a, b \in counters' : a.key = b.key /\ a.window = b.window => a = b
  BY <1>2, <1>8 DEF WindowInv
<1>10. \A a \in counters' : a.expires > (a.window + 1) * Window
  BY <1>2, <1>5, <1>6 DEF WindowInv
<1>11. Counter(key)' = {new}
  <2>1. \A a \in counters' : a.key = key /\ a.window = CurrentWindow <=> a = new
    BY <1>2, <1>6, <1>8
  <2>2. new \in counters'
    BY <1>2
  <2>. QED
    BY <1>3, <2>1, <2>2 DEF Counter
<1>12. Count(key)' = Capped(Count(key) + 1)
  BY <1>6, <1>11 DEF Count
<1>13. ASSUME NEW c \in Callers, c # key PROVE Count(c)' = Count(c)
  <2>1. Counter(c)' = Counter(c)
    BY <1>2, <1>3, <1>6, <1>13 DEF Counter
  <2>. QED
    BY <2>1 DEF Count
<1>. QED
  BY <1>7, <1>9, <1>10, <1>12, <1>13

LEMMA CheckInRedisKeeps ==
    ASSUME RateInv, NEW caller \in Callers, NEW claimed \in Claims, CheckInRedis(caller, claimed)
    PROVE  RateInv'
<1>1. RateTypeOK /\ OrderInv /\ BucketInv /\ WindowInv
  BY DEF RateInv
<1>2. KeyOf(caller, claimed) = caller
  BY KeyIsCaller
<1>3. /\ backend = "redis" /\ Increment(caller)
      /\ IF Count(caller) + 1 > MaxHits THEN UNCHANGED granted ELSE granted' = Grant(caller)
      /\ UNCHANGED <<second, backend, failOpen, hits, inserted, uncounted, forgotten>>
  BY <1>2 DEF CheckInRedis
<1>4. /\ counters' \in SUBSET RedisKey
      /\ \A a, b \in counters' : a.key = b.key /\ a.window = b.window => a = b
      /\ \A a \in counters' : a.expires > (a.window + 1) * Window
      /\ Count(caller)' = Capped(Count(caller) + 1)
      /\ \A c \in Callers : c # caller => Count(c)' = Count(c)
  BY <1>1, <1>3, IncrementKeeps
<1>5. PICK x \in GrantedCall : x.caller = caller /\ x.at = second /\ Grant(caller) = granted \cup {x}
  BY <1>1, GrantType
<1>6. PICK w : w = CurrentWindow /\ w = CurrentWindow' /\ w \in Nat
  BY <1>1, <1>3, WindowOf DEF CurrentWindow, RateTypeOK
<1>7. second \in Nat /\ MaxHits \in Nat /\ \A c \in Callers : Count(c) \in Nat
  BY <1>1, CountType, RateAssumption DEF RateTypeOK
<1>8. /\ granted' = granted \/ (granted' = granted \cup {x} /\ Count(caller) + 1 <= MaxHits)
      /\ granted' \in SUBSET (granted \cup {x})
  BY <1>3, <1>5, <1>7
<1>9. RateTypeOK'
  <2>1. IsFiniteSet(granted \cup {x})
    BY <1>1, FS_AddElement DEF RateTypeOK
  <2>2. IsFiniteSet(granted')
    BY <1>8, <2>1, FS_Subset
  <2>3. granted' \in SUBSET GrantedCall /\ \A g \in granted' : g.at <= second
    BY <1>1, <1>5, <1>7, <1>8 DEF RateTypeOK
  <2>. QED
    BY <1>1, <1>3, <1>4, <2>2, <2>3 DEF RateTypeOK
<1>10. OrderInv'
  BY <1>1, <1>3 DEF OrderInv, Lists
<1>11. BucketInv'
  BY <1>3 DEF BucketInv
<1>12. ASSUME NEW c \in Callers
       PROVE  /\ Cardinality(Within(granted', c, w)) <= Count(c)'
              /\ \A u \in 0..w : Cardinality(Within(granted', c, u)) <= MaxHits
  <2>1. /\ Cardinality(Within(granted, c, w)) <= Count(c)
        /\ \A u \in 0..w : Cardinality(Within(granted, c, u)) <= MaxHits
    BY <1>1, <1>3, <1>6 DEF WindowInv
  <2>2. ASSUME NEW u \in 0..w
        PROVE  IsFiniteSet(Within(granted, c, u)) /\ Cardinality(Within(granted, c, u)) \in Nat
    <3>1. Within(granted, c, u) \in SUBSET granted
      BY DEF Within
    <3>. QED
      BY <1>1, <3>1, GrantsFinite
  <2>3. w \in 0..w
    BY <1>6
  <2>4. Count(c)' >= Count(c) \/ Cardinality(Within(granted, c, w)) <= Count(c)'
    <3>1. CASE c # caller
      BY <1>4, <1>7, <3>1
    <3>2. CASE c = caller
      BY <1>4, <1>7, <2>1, <2>2, <2>3, <3>2 DEF Capped
    <3>. QED
      BY <3>1, <3>2
  <2>5. Count(c)' \in Nat
    BY <1>4, <1>7 DEF Capped
  <2>6. CASE \A u \in 0..w : Within(granted', c, u) = Within(granted, c, u)
    BY <1>7, <2>1, <2>2, <2>3, <2>4, <2>5, <2>6
  <2>7. CASE granted' = granted
    BY <2>6, <2>7
  <2>8. CASE granted' = granted \cup {x} /\ c # caller
    <3>1. \A u \in 0..w : Within(granted', c, u) = Within(granted, c, u)
      BY <1>5, <2>8 DEF Within
    <3>. QED
      BY <2>6, <3>1
  <2>9. CASE granted' = granted \cup {x} /\ c = caller /\ Count(caller) + 1 <= MaxHits
    <3>1. x.at \div Window = w
      BY <1>5, <1>6 DEF CurrentWindow
    <3>2. ASSUME NEW u \in 0..w, u # w PROVE Within(granted', c, u) = Within(granted, c, u)
      BY <2>9, <3>1, <3>2 DEF Within
    <3>3. Within(granted', c, w) = Within(granted, c, w) \cup {x}
      BY <1>5, <2>9, <3>1 DEF Within
    <3>4. Cardinality(Within(granted', c, w)) <= Cardinality(Within(granted, c, w)) + 1
          /\ Cardinality(Within(granted', c, w)) \in Nat
      <4>1. PICK W : W = Within(granted, c, w)
        OBVIOUS
      <4>2. IsFiniteSet(W) /\ Cardinality(W) \in Nat
        BY <2>2, <2>3, <4>1
      <4>3. Cardinality(W \cup {x}) = IF x \in W THEN Cardinality(W) ELSE Cardinality(W) + 1
        BY <4>2, FS_AddElement
      <4>. QED
        BY <3>3, <4>1, <4>2, <4>3
    <3>5. Count(c)' = Count(c) + 1
      BY <1>4, <1>7, <2>9 DEF Capped
    <3>6. Cardinality(Within(granted', c, w)) <= Count(c)' /\ Count(c)' <= MaxHits
      BY <1>7, <2>1, <2>2, <2>3, <2>9, <3>4, <3>5
    <3>7. ASSUME NEW u \in 0..w PROVE Cardinality(Within(granted', c, u)) <= MaxHits
      BY <1>7, <2>1, <2>5, <3>2, <3>4, <3>6
    <3>. QED
      BY <3>6, <3>7
  <2>. QED
    BY <1>8, <2>7, <2>8, <2>9
<1>13. WindowInv'
  <2>1. (~failOpen => uncounted = {})'
    BY <1>1, <1>3 DEF WindowInv
  <2>. QED
    BY <1>4, <1>6, <1>12, <2>1 DEF WindowInv
<1>. QED
  BY <1>9, <1>10, <1>11, <1>13 DEF RateInv

LEMMA CheckInOutageKeeps ==
    ASSUME RateInv, NEW caller \in Callers, NEW claimed \in Claims, CheckInOutage(caller, claimed)
    PROVE  RateInv'
<1>1. RateTypeOK /\ OrderInv /\ BucketInv /\ WindowInv
  BY DEF RateInv
<1>2. KeyOf(caller, claimed) = caller
  BY KeyIsCaller
<1>3. /\ backend = "redis" /\ (Increment(caller) \/ UNCHANGED counters)
      /\ uncounted' = IF failOpen THEN uncounted \cup {caller} ELSE uncounted
      /\ UNCHANGED <<granted, second, backend, failOpen, hits, inserted, forgotten>>
  BY <1>2 DEF CheckInOutage
<1>4. PICK w : w = CurrentWindow /\ w = CurrentWindow' /\ w \in Nat
  BY <1>1, <1>3, WindowOf DEF CurrentWindow, RateTypeOK
<1>5. MaxHits \in Nat /\ \A c \in Callers : Count(c) \in Nat
  BY <1>1, CountType, RateAssumption
<1>6. /\ counters' \in SUBSET RedisKey
      /\ \A a, b \in counters' : a.key = b.key /\ a.window = b.window => a = b
      /\ \A a \in counters' : a.expires > (a.window + 1) * Window
      /\ \A c \in Callers : Count(c)' = Count(c) \/ Count(c)' = Capped(Count(c) + 1)
  <2>1. CASE Increment(caller)
    BY <1>1, <1>3, <2>1, IncrementKeeps
  <2>2. CASE UNCHANGED counters
    <3>1. \A c \in Callers : Count(c)' = Count(c)
      BY <1>3, <2>2 DEF Count, Counter, CurrentWindow
    <3>. QED
      BY <1>1, <1>3, <2>2, <3>1 DEF RateTypeOK, WindowInv
  <2>. QED
    BY <1>3, <2>1, <2>2
<1>7. RateTypeOK'
  BY <1>1, <1>3, <1>6 DEF RateTypeOK
<1>8. OrderInv' /\ BucketInv'
  BY <1>1, <1>3 DEF OrderInv, Lists, BucketInv
<1>9. ASSUME NEW c \in Callers
      PROVE  /\ Cardinality(Within(granted', c, w)) <= Count(c)'
             /\ \A u \in 0..w : Cardinality(Within(granted', c, u)) <= MaxHits
  <2>1. /\ Cardinality(Within(granted, c, w)) <= Count(c)
        /\ \A u \in 0..w : Cardinality(Within(granted, c, u)) <= MaxHits
    BY <1>1, <1>3, <1>4 DEF WindowInv
  <2>2. Within(granted, c, w) \in SUBSET granted /\ w \in 0..w
    BY <1>4 DEF Within
  <2>3. Cardinality(Within(granted, c, w)) \in Nat
    BY <1>1, <2>2, GrantsFinite
  <2>4. Cardinality(Within(granted, c, w)) <= Count(c)'
    BY <1>5, <1>6, <2>1, <2>2, <2>3 DEF Capped
  <2>. QED
    BY <1>3, <2>1, <2>4
<1>10. WindowInv'
  <2>1. (~failOpen => uncounted = {})'
    BY <1>1, <1>3 DEF WindowInv
  <2>. QED
    BY <1>4, <1>6, <1>9, <2>1 DEF WindowInv
<1>. QED
  BY <1>7, <1>8, <1>10 DEF RateInv


LEMMA RateStep == RateInv /\ [RateNext]_rateVars => RateInv'
<1>. SUFFICES ASSUME RateInv, [RateNext]_rateVars PROVE RateInv'
  OBVIOUS
<1>1. CASE UNCHANGED rateVars
  <2>1. UNCHANGED <<second, backend, failOpen, hits, inserted, counters, granted, uncounted, forgotten>>
    BY <1>1 DEF rateVars
  <2>2. RateTypeOK' /\ OrderInv'
    BY <2>1 DEF RateInv, RateTypeOK, OrderInv
  <2>3. BucketInv'
    BY <2>1 DEF RateInv, BucketInv, Granted, Bucket
  <2>4. WindowInv'
    BY <2>1 DEF RateInv, WindowInv, Count, Counter, CurrentWindow
  <2>. QED
    BY <2>2, <2>3, <2>4 DEF RateInv
<1>2. CASE NextSecond
  BY <1>2, NextSecondKeeps
<1>3. ASSUME NEW caller \in Callers, NEW claimed \in Claims,
             \/ CheckInMemory(caller, claimed) \/ CheckInRedis(caller, claimed)
             \/ CheckInOutage(caller, claimed)
      PROVE  RateInv'
  BY <1>3, CheckInMemoryKeeps, CheckInRedisKeeps, CheckInOutageKeeps
<1>. QED
  BY <1>1, <1>2, <1>3 DEF RateNext

----------------------------------------------------------------------------
(* The rate limiters: what the invariant implies                           *)

\* A part of what was granted is not more than another that contains it.
LEMMA PartOfGrants ==
    ASSUME RateTypeOK, NEW H \in SUBSET granted, NEW G \in SUBSET H
    PROVE  Cardinality(G) <= Cardinality(H) /\ Cardinality(G) \in Nat /\ Cardinality(H) \in Nat
BY GrantsFinite, FS_Subset

LEMMA SlidingLimitHolds == RateInv => SlidingLimit
<1>. SUFFICES ASSUME RateInv, backend = "memory", NEW c \in Callers, NEW from \in 0..second
              PROVE  GrantsOf(c, from) <= MaxHits
  BY DEF SlidingLimit
<1>1. RateTypeOK /\ Matched(Granted(c), Bucket(c)) /\ \A k \in DOMAIN hits : Len(hits[k]) <= MaxHits
  BY DEF RateInv, BucketInv
<1>2. Bucket(c) \in Seq(Nat) /\ Len(Bucket(c)) \in Nat /\ Len(Bucket(c)) <= MaxHits /\ MaxHits \in Nat
  BY <1>1, RateAssumption DEF RateTypeOK, Bucket
<1>3. Granted(c) \in SUBSET granted
  BY DEF Granted
<1>4. Cardinality(Granted(c)) <= Len(Bucket(c)) /\ Cardinality(Granted(c)) \in Nat
  BY <1>1, <1>2, <1>3, GrantsFinite, MatchedBound
<1>. DEFINE G == {g \in granted : g.caller = c /\ g.at >= from}
<1>5. G \in SUBSET Granted(c)
  BY DEF Granted
<1>6. Cardinality(G) <= Cardinality(Granted(c)) /\ Cardinality(G) \in Nat
  BY <1>1, <1>3, <1>5, PartOfGrants
<1>. HIDE DEF G
<1>7. Cardinality(G) <= MaxHits
  BY <1>2, <1>4, <1>6
<1>. QED
  BY <1>7 DEF GrantsOf, G

LEMMA BoundedKeysHolds == RateInv => BoundedKeys
<1>. SUFFICES ASSUME RateInv PROVE Cardinality(DOMAIN hits) <= MaxKeys
  BY DEF BoundedKeys
<1>1. PICK n \in Nat : n = Len(inserted)
  BY DEF RateInv, RateTypeOK
<1>2. PICK keys : keys = DOMAIN hits
  OBVIOUS
<1>3. /\ n <= MaxKeys /\ MaxKeys \in Nat /\ IsFiniteSet(keys)
      /\ keys = {inserted[i] : i \in 1..n}
  BY <1>1, <1>2, RateAssumption DEF RateInv, RateTypeOK, OrderInv, Lists
<1>4. IsFiniteSet(1..n) /\ Cardinality(1..n) = n
  BY FS_Interval
<1>. DEFINE f == [k \in keys |-> CHOOSE i \in 1..n : inserted[i] = k]
<1>5. \A k \in keys : f[k] \in 1..n /\ inserted[f[k]] = k
  BY <1>3
<1>6. f \in [keys -> 1..n]
  BY <1>5
<1>. HIDE DEF f
<1>7. ~(Cardinality(1..n) < Cardinality(keys))
  BY <1>3, <1>4, <1>5, <1>6, FS_PigeonHole
<1>8. Cardinality(keys) \in Nat
  BY <1>3, FS_CardinalityType
<1>. QED
  BY <1>2, <1>3, <1>4, <1>7, <1>8

LEMMA SharedLimitHolds == RateInv => SharedLimit
<1>. SUFFICES ASSUME RateInv, backend = "redis" PROVE SharedLimit
  BY DEF SharedLimit
<1>1. RateTypeOK /\ WindowInv
  BY DEF RateInv
<1>2. PICK w : w = CurrentWindow
  OBVIOUS
<1>3. /\ second \in Nat /\ MaxHits \in Nat /\ Window \in Nat /\ Window > 0 /\ w \in Nat /\ w * Window \in Nat
      /\ w * Window <= second /\ second < w * Window + Window
  BY <1>1, <1>2, RateAssumption, WindowOf DEF RateTypeOK, CurrentWindow
<1>4. \A g \in granted : /\ g.at \in Nat /\ g.at <= second /\ g.at \div Window \in Nat
                         /\ g.at \div Window <= w
  BY <1>1, <1>2, <1>3, WindowOf, WindowsOrdered DEF RateTypeOK, GrantedCall, CurrentWindow
<1>5. \A c \in Callers, u \in 0..w : Cardinality(Within(granted, c, u)) <= MaxHits
  BY <1>1, <1>2 DEF WindowInv
<1>6. \A c \in Callers, u \in Nat : Within(granted, c, u) \in SUBSET granted
  BY DEF Within
<1>7. ASSUME NEW c \in Callers PROVE GrantsOf(c, w * Window) <= MaxHits
  <2>. DEFINE G == {g \in granted : g.caller = c /\ g.at >= w * Window}
  <2>1. ASSUME NEW g \in G PROVE g \in Within(granted, c, w)
    <3>1. g.at \in Nat /\ w * Window <= g.at /\ g \in granted /\ g.caller = c
      BY <1>3, <1>4
    <3>2. w <= g.at \div Window
      BY <1>3, <3>1, WindowIs
    <3>. QED
      BY <1>3, <1>4, <3>1, <3>2 DEF Within
  <2>2. G \in SUBSET Within(granted, c, w)
    BY <2>1
  <2>. HIDE DEF G
  <2>3. Cardinality(G) <= Cardinality(Within(granted, c, w)) /\ Cardinality(G) \in Nat
        /\ Cardinality(Within(granted, c, w)) \in Nat
    BY <1>1, <1>3, <1>6, <2>2, PartOfGrants
  <2>4. Cardinality(G) <= MaxHits
    BY <1>3, <1>5, <2>3
  <2>. QED
    BY <2>4 DEF GrantsOf, G
<1>8. ASSUME NEW c \in Callers, NEW from \in 0..second, second - from < Window
      PROVE  GrantsOf(c, from) <= 2 * MaxHits
  <2>. DEFINE G == {g \in granted : g.caller = c /\ g.at >= from}
  <2>1. PICK v \in 0..w : v = IF w = 0 THEN 0 ELSE w - 1
    BY <1>3
  <2>2. ASSUME NEW g \in G PROVE g \in Within(granted, c, v) \cup Within(granted, c, w)
    <3>1. g.at \in Nat /\ from \in Nat /\ from <= g.at /\ g \in granted /\ g.caller = c
      BY <1>3, <1>4
    <3>2. v <= g.at \div Window
      <4>1. CASE w = 0
        BY <1>4, <2>1, <3>1, <4>1
      <4>2. CASE w # 0
        <5>1. v \in Nat /\ v < w /\ v * Window \in Nat
          BY <1>3, <2>1, <4>2
        <5>2. v * Window + Window <= w * Window
          BY <1>3, <5>1, WindowBefore
        <5>3. v * Window <= g.at
          BY <1>3, <1>8, <3>1, <5>1, <5>2
        <5>. QED
          BY <3>1, <5>1, <5>3, WindowIs
      <4>. QED
        BY <4>1, <4>2
    <3>3. g.at \div Window = v \/ g.at \div Window = w
      BY <1>3, <1>4, <2>1, <3>1, <3>2
    <3>. QED
      BY <3>1, <3>3 DEF Within
  <2>. HIDE DEF G
  <2>3. PICK V, W : V = Within(granted, c, v) /\ W = Within(granted, c, w)
    OBVIOUS
  <2>4. /\ V \in SUBSET granted /\ W \in SUBSET granted /\ V \cup W \in SUBSET granted
        /\ V \cap W \in SUBSET granted /\ Cardinality(V) <= MaxHits /\ Cardinality(W) <= MaxHits
    BY <1>3, <1>5, <1>6, <2>3
  <2>5. /\ IsFiniteSet(V) /\ Cardinality(V) \in Nat /\ IsFiniteSet(W) /\ Cardinality(W) \in Nat
        /\ Cardinality(V \cap W) \in Nat
    BY <1>1, <2>4, GrantsFinite
  <2>6. Cardinality(V \cup W) = Cardinality(V) + Cardinality(W) - Cardinality(V \cap W)
    BY <2>5, FS_Union
  <2>7. G \in SUBSET (V \cup W)
    BY <2>2, <2>3
  <2>8. Cardinality(G) <= Cardinality(V \cup W) /\ Cardinality(G) \in Nat
    BY <1>1, <2>4, <2>7, PartOfGrants
  <2>9. Cardinality(G) <= 2 * MaxHits
    BY <1>3, <2>4, <2>5, <2>6, <2>8
  <2>. QED
    BY <2>9 DEF GrantsOf, G
<1>. QED
  BY <1>1, <1>2, <1>7, <1>8 DEF SharedLimit, WindowInv

\* The limiters' clock, buckets, counters and the calls they granted stay well typed.
THEOREM RateTypeCorrect == RateSpec => []RateTypeOK
<1>1. RateInv => RateTypeOK
  BY DEF RateInv
<1>. QED
  BY <1>1, RateStart, RateStep, PTL DEF RateSpec

\* For any limit, window, number of callers, proxies and keys: the sliding window
\* grants a key at most MaxHits calls in any Window seconds unless its bucket was
\* evicted, the dict has at most max_keys keys, a fixed window of Redis grants MaxHits
\* and any Window seconds at most twice that, whatever outages come between and
\* whatever callers put in their headers (core/rate_limit.py, api/client_ip.py).
THEOREM LimitsHold == RateSpec => []LimitHolds
<1>1. RateInv => LimitHolds
  BY SlidingLimitHolds, BoundedKeysHolds, SharedLimitHolds DEF LimitHolds
<1>. QED
  BY <1>1, RateStart, RateStep, PTL DEF RateSpec
==============================================================================
